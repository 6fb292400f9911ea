--------------------------- MODULE MCProxyRequest ---------------------------
(* A small instance of ProxyRequest for TLC. *)
EXTENDS ProxyRequest, TLC

CONSTANTS api, cdn, lan, ftp, apiHost, cdnHost, lanHost, app, tool, r1

\* A cached API that redirects to a CDN, a host of the local network, and a
\* URL with a scheme the proxy does not speak.
HostTable == (api :> apiHost) @@ (cdn :> cdnHost) @@ (lan :> lanHost)
             @@ (ftp :> cdnHost)

\* One override rule, for the CDN.
RuleTable == (r1 :> {cdn})

\* Only the API and the CDN, without overrides.
TwoHosts == (api :> apiHost) @@ (cdn :> cdnHost)

NoRules == [r \in {} |-> {}]

\* Entries an earlier process has fetched from a host that is denied by now,
\* or from one that redirects of the API lead to.
FromLan == {[fresh |-> f, via |-> lan, here |-> FALSE] : f \in BOOLEAN}

FromCdn == {[fresh |-> f, via |-> cdn, here |-> FALSE] : f \in BOOLEAN}

Quotas == <<1, 1>>

OneQuota == <<1>>

SlotSymmetry == Permutations(Slots)
=============================================================================
