---------------------------- MODULE ProxyRequest ----------------------------
(***************************************************************************)
(* The way of a request through proxy_handler (src/src/proxy.rs): target   *)
(* and origin policy, the rate-limit tiers one after the other, the        *)
(* response cache, then the upstream with every redirect followed by hand. *)
(* Requests run concurrently and share the rate-limit counters and the     *)
(* cache, which is here what a lookup can find; DiskCache has its insides. *)
(***************************************************************************)
EXTENDS Integers

CONSTANTS
    Slots,        \* connections, each serving one request at a time
    Urls,         \* URLs that are requested or redirected to
    Web,          \* those with an http or https scheme
    Hosts, HostOf,\* the host of each URL
    TargetBlack, TargetWhite,  \* connection.target lists, as sets of hosts
    Sites, NoSite,             \* requesting sites; requests without a site
    OriginBlack, OriginWhite,  \* connection.origin lists
    Planned,      \* URLs with a cache rule of non-zero age
    Rules, RuleUrls,           \* response header overrides and their URLs
    MaxRedirects, \* proxy.max_redirects
    NumTiers,     \* number of connection.rate_limit tiers
    Quota,        \* Quota[i]: requests per window of tier i
    Left,         \* entries an earlier process may have left in the cache
    NoUrl, NoEntry

Tiers == 1 .. NumTiers

Origins == Sites \cup {NoSite}

\* What the cache holds: whether it is fresh, which URL it came from, and, as
\* history, whether this process has fetched it.
Cached == [fresh: BOOLEAN, via: Urls, here: BOOLEAN]

ASSUME RequestAssumption ==
    /\ MaxRedirects \in Nat /\ NumTiers \in Nat
    /\ Quota \in [Tiers -> Nat]
    /\ Web \subseteq Urls /\ Planned \subseteq Urls
    /\ HostOf \in [Urls -> Hosts]
    /\ RuleUrls \in [Rules -> SUBSET Urls]
    /\ Left \subseteq {e \in Cached : ~ e.here}
    /\ NoUrl \notin Urls /\ NoSite \notin Sites /\ NoEntry \notin Cached

VARIABLES
    req,    \* req[s]: the request in slot s
    spent,  \* spent[i][o]: what the bucket of origin o has used of tier i
    cache   \* cache[u][o]: the entry of u for the Origin header o, if any

vars == <<req, spent, cache>>

-----------------------------------------------------------------------------
(* Policy *)

\* TargetList::is_allowed: the whitelist overrides, and restricts if it is
\* not empty.
IsAllowed(black, white, h) == h \in white \/ (h \notin black /\ white = {})

TargetAllowed(u) == u \in Web /\ IsAllowed(TargetBlack, TargetWhite, HostOf[u])

\* A request without a usable Origin or Referer passes if there is no
\* whitelist to be on.
OriginAllowed(o) ==
    IF o = NoSite THEN OriginWhite = {}
                  ELSE IsAllowed(OriginBlack, OriginWhite, o)

\* validate_target_policy
Permitted(u, o) == TargetAllowed(u) /\ OriginAllowed(o)

\* MUTANT of Plan: credentials do not matter.
PlanAnyone(r) == r.url \in Planned

\* Cache::plan: no credentials or range, and a rule that matches.
Plan(r) == ~ r.private /\ r.url \in Planned

\* HeaderOverridePolicy::apply
Applied(requested, final) ==
    {x \in Rules : requested \in RuleUrls[x] \/ final \in RuleUrls[x]}

\* A request without an Origin header has its site from the Referer, if at
\* all: the site decides on policy and bucket, the header on the cache key.
Idle == [pc |-> "idle", url |-> NoUrl, site |-> NoSite, header |-> NoSite,
         private |-> FALSE, force |-> FALSE, tier |-> 1, paid |-> {},
         entry |-> NoEntry, at |-> NoUrl, left |-> 0, path |-> {}, hops |-> 0,
         label |-> "NONE", store |-> FALSE, rules |-> {}, end |-> "none"]

At(s, p) == req[s].pc = p

Goto(s, r) == req' = [req EXCEPT ![s] = r]

\* The handler is done with an error or a response without a cached body.
Ended(r, how) == [r EXCEPT !.pc = "done", !.end = how]

\* cached_response: overrides see the requested URL only.
FromCache(r, label) ==
    [r EXCEPT !.pc = "done", !.end = "served", !.label = label,
              !.rules = Applied(r.url, r.url)]

-----------------------------------------------------------------------------
\* The cache outlives the process, its lists and its max_redirects: it may have
\* entries of hosts that are denied by now, for sites that are.
Init ==
    /\ req = [s \in Slots |-> Idle]
    /\ spent = [i \in Tiers |-> [o \in Origins |-> 0]]
    /\ cache \in [Planned -> [Origins -> Left \cup {NoEntry}]]

\* MUTANT of Arrive: the first contact is not counted.
ArriveWithOneMore(s) ==
    /\ At(s, "idle")
    /\ \E u \in Urls, o \in Origins, p \in BOOLEAN, f \in BOOLEAN :
       \E h \in {o, NoSite} :
         LET r == [Idle EXCEPT !.url = u, !.site = o, !.header = h,
                               !.private = p, !.force = f, !.at = u,
                               !.left = MaxRedirects + 1]
         IN  Goto(s, IF Permitted(u, o) THEN [r EXCEPT !.pc = "tier"]
                                        ELSE Ended(r, "refused"))
    /\ UNCHANGED <<spent, cache>>

\* parse_target_url and the first validate_target_policy.
Arrive(s) ==
    /\ At(s, "idle")
    /\ \E u \in Urls, o \in Origins, p \in BOOLEAN, f \in BOOLEAN :
       \E h \in {o, NoSite} :
         LET r == [Idle EXCEPT !.url = u, !.site = o, !.header = h,
                               !.private = p, !.force = f, !.at = u,
                               !.left = MaxRedirects]
         IN  Goto(s, IF Permitted(u, o) THEN [r EXCEPT !.pc = "tier"]
                                        ELSE Ended(r, "refused"))
    /\ UNCHANGED <<spent, cache>>

\* MUTANT of CheckTier: only the last tier refuses.
CheckLastTier(s) ==
    LET r == req[s]
        i == r.tier
        o == r.site
    IN  /\ At(s, "tier")
        /\ i \in Tiers
        /\ \/ /\ spent[i][o] < Quota[i]
              /\ spent' = [spent EXCEPT ![i][o] = @ + 1]
              /\ Goto(s, [r EXCEPT !.tier = i + 1, !.paid = @ \cup {i}])
           \/ /\ spent[i][o] >= Quota[i]
              /\ Goto(s, IF i = NumTiers THEN Ended(r, "limited")
                                         ELSE [r EXCEPT !.tier = i + 1])
              /\ UNCHANGED spent
        /\ UNCHANGED cache

\* MUTANT of CheckTier: an exhausted tier makes the request wait.
CheckTierWaits(s) ==
    LET r == req[s]
        i == r.tier
        o == r.site
    IN  /\ At(s, "tier")
        /\ i \in Tiers
        /\ spent[i][o] < Quota[i]
        /\ spent' = [spent EXCEPT ![i][o] = @ + 1]
        /\ Goto(s, [r EXCEPT !.tier = i + 1, !.paid = @ \cup {i}])
        /\ UNCHANGED cache

\* One LimitState::check: a request a later tier refuses has used up what the
\* earlier ones allowed.
CheckTier(s) ==
    LET r == req[s]
        i == r.tier
        o == r.site
    IN  /\ At(s, "tier")
        /\ i \in Tiers
        /\ \/ /\ spent[i][o] < Quota[i]
              /\ spent' = [spent EXCEPT ![i][o] = @ + 1]
              /\ Goto(s, [r EXCEPT !.tier = i + 1, !.paid = @ \cup {i}])
           \/ /\ spent[i][o] >= Quota[i]
              /\ Goto(s, Ended(r, "limited"))
              /\ UNCHANGED spent
           \/ /\ Goto(s, Ended(r, "unavailable"))
              /\ UNCHANGED spent
        /\ UNCHANGED cache

\* MUTANT of Lookup: a fresh entry is served to whoever asks.
LookupIgnoresForce(s) ==
    LET r == req[s]
    IN  /\ At(s, "tier")
        /\ r.tier \notin Tiers
        /\ \E e \in IF Plan(r) THEN {cache[r.url][r.header], NoEntry}
                               ELSE {NoEntry} :
             Goto(s, IF e # NoEntry /\ e.fresh
                     THEN FromCache([r EXCEPT !.entry = e], "HIT")
                     ELSE [r EXCEPT !.pc = "send", !.entry = e])
        /\ UNCHANGED <<spent, cache>>

\* Cache::plan and Cache::lookup, which may also miss what is there, and the
\* hit: 413 when the entry is over the result cap.
Lookup(s) ==
    LET r == req[s]
    IN  /\ At(s, "tier")
        /\ r.tier \notin Tiers
        /\ \E e \in IF Plan(r) THEN {cache[r.url][r.header], NoEntry}
                               ELSE {NoEntry} :
             IF e # NoEntry /\ ~ r.force /\ e.fresh
             THEN \/ Goto(s, FromCache([r EXCEPT !.entry = e], "HIT"))
                  \/ Goto(s, Ended([r EXCEPT !.entry = e], "too_large"))
             ELSE Goto(s, [r EXCEPT !.pc = "send", !.entry = e])
        /\ UNCHANGED <<spent, cache>>

-----------------------------------------------------------------------------
(* The upstream: one contact and what its answer leads to *)

Contacted(r) == [r EXCEPT !.path = @ \cup {r.at}, !.hops = @ + 1]

\* Timeout, connection failure, a redirect without a Location.
UpstreamFails(s) ==
    /\ At(s, "send")
    /\ Goto(s, Ended(Contacted(req[s]), "failed"))
    /\ UNCHANGED <<spent, cache>>

\* 304 on any hop while there is an entry: refresh writes it under the
\* requested URL and its body is the response, or the write fails.
NotModified(s) ==
    LET r == Contacted(req[s])
    IN  /\ At(s, "send")
        /\ r.entry # NoEntry
        /\ \/ \E fresh \in BOOLEAN :
                /\ cache' = [cache EXCEPT ![r.url][r.header] =
                                [r.entry EXCEPT !.fresh = fresh]]
                /\ \/ Goto(s, FromCache(r, "REVALIDATED"))
                   \/ Goto(s, Ended(r, "too_large"))
           \/ /\ Goto(s, Ended(r, "failed"))
              /\ UNCHANGED cache
        /\ UNCHANGED spent

\* MUTANT of Redirect: the policy is not asked again.
RedirectAnywhere(s) ==
    LET r == Contacted(req[s])
    IN  /\ At(s, "send")
        /\ \E u \in Urls :
             Goto(s, IF r.left = 0 THEN Ended(r, "failed")
                     ELSE [r EXCEPT !.at = u, !.left = @ - 1])
        /\ UNCHANGED <<spent, cache>>

\* MUTANT of Redirect: the policy is asked about the URL that redirects.
RedirectChecksBase(s) ==
    LET r == Contacted(req[s])
    IN  /\ At(s, "send")
        /\ \E u \in Urls :
             Goto(s, IF r.left = 0 THEN Ended(r, "failed")
                     ELSE IF ~ Permitted(r.at, r.site) THEN Ended(r, "refused")
                     ELSE [r EXCEPT !.at = u, !.left = @ - 1])
        /\ UNCHANGED <<spent, cache>>

\* MUTANT of Redirect: the budget is compared after the hop.
RedirectOnceMore(s) ==
    LET r == Contacted(req[s])
    IN  /\ At(s, "send")
        /\ \E u \in Urls :
             Goto(s, IF r.hops > MaxRedirects + 1 THEN Ended(r, "failed")
                     ELSE IF ~ Permitted(u, r.site) THEN Ended(r, "refused")
                     ELSE [r EXCEPT !.at = u])
        /\ UNCHANGED <<spent, cache>>

\* A followable redirect: limit, Location, policy, next hop.
Redirect(s) ==
    LET r == Contacted(req[s])
    IN  /\ At(s, "send")
        /\ \/ /\ r.left = 0
              /\ Goto(s, Ended(r, "failed"))
           \/ /\ r.left # 0
              /\ \E u \in Urls :
                   Goto(s, IF Permitted(u, r.site)
                           THEN [r EXCEPT !.at = u, !.left = @ - 1]
                           ELSE Ended(r, "refused"))
        /\ UNCHANGED <<spent, cache>>

\* Any other answer, with begin_write's verdict on it; 413 on a declared
\* length over the cap.
Full(s) ==
    LET r == Contacted(req[s])
    IN  /\ At(s, "send")
        /\ \/ Goto(s, Ended(r, "too_large"))
           \/ \E storable \in BOOLEAN :
                Goto(s, [r EXCEPT
                   !.pc = "stream",
                   !.store = storable /\ Plan(r),
                   !.rules = Applied(r.url, r.at),
                   !.label = IF ~ Plan(r) THEN "NONE"
                             ELSE IF r.entry # NoEntry /\ r.force
                                  THEN "REVALIDATED" ELSE "MISS"])
        /\ UNCHANGED <<spent, cache>>

\* The body ends, and is committed under the URL that was asked for, or
\* breaks off or cannot be stored.
StreamEnds(s) ==
    LET r == req[s]
    IN  /\ At(s, "stream")
        /\ Goto(s, Ended(r, "served"))
        /\ \/ /\ r.store
              /\ cache' = [cache EXCEPT ![r.url][r.header] =
                              [fresh |-> TRUE, via |-> r.at, here |-> TRUE]]
           \/ UNCHANGED cache
        /\ UNCHANGED spent

\* The connection is ready for another request, or the client went away.
Close(s) ==
    /\ ~ At(s, "idle")
    /\ Goto(s, Idle)
    /\ UNCHANGED <<spent, cache>>

-----------------------------------------------------------------------------
(* The environment *)

\* A rate-limit window of a bucket starts anew.
NewWindow(i, o) ==
    /\ spent[i][o] > 0
    /\ spent' = [spent EXCEPT ![i][o] = 0]
    /\ UNCHANGED <<req, cache>>

\* An entry ages, or is evicted.
Age(u, o) ==
    /\ cache[u][o] # NoEntry
    /\ cache' \in {[cache EXCEPT ![u][o] = [@ EXCEPT !.fresh = FALSE]],
                   [cache EXCEPT ![u][o] = NoEntry]}
    /\ UNCHANGED <<req, spent>>

Handle(s) == \/ CheckTier(s) \/ Lookup(s) \/ UpstreamFails(s)
             \/ NotModified(s) \/ Redirect(s) \/ Full(s) \/ StreamEnds(s)

Next == \/ \E s \in Slots : Arrive(s) \/ Handle(s) \/ Close(s)
        \/ \E i \in Tiers, o \in Origins : NewWindow(i, o)
        \/ \E u \in Planned, o \in Origins : Age(u, o)

Spec == Init /\ [][Next]_vars

\* The runtime polls accepted requests; proxy.timeout bounds each contact.
FairSpec == Spec /\ \A s \in Slots : WF_vars(Handle(s))

-----------------------------------------------------------------------------
(* Properties *)

Request == [pc: {"idle", "tier", "send", "stream", "done"},
            url: Urls \cup {NoUrl}, site: Origins, header: Origins,
            private: BOOLEAN, force: BOOLEAN,
            tier: 1 .. NumTiers + 1, paid: SUBSET Tiers,
            entry: Cached \cup {NoEntry}, at: Urls \cup {NoUrl},
            left: 0 .. MaxRedirects, path: SUBSET Urls, hops: Nat,
            label: {"NONE", "HIT", "MISS", "REVALIDATED"}, store: BOOLEAN,
            rules: SUBSET Rules,
            end: {"none", "served", "refused", "limited", "unavailable",
                  "failed", "too_large"}]

TypeOK ==
    /\ req \in [Slots -> Request]
    /\ spent \in [Tiers -> [Origins -> Nat]]
    /\ cache \in [Planned -> [Origins -> Cached \cup {NoEntry}]]

\* No URL is ever contacted, on whatever hop, that the policy denies to the
\* requesting site.
EveryHopPermitted ==
    \A s \in Slots : \A u \in req[s].path : Permitted(u, req[s].site)

\* Whatever entry a request is answered from or validates, the policy allows
\* the requested URL to its site, and the URL the entry came from as well if
\* this process has fetched it: sites that send no Origin header share entries,
\* and a site may still not read through one what it may not fetch.  Entries of
\* earlier processes are not looked at again: what they redirected to is served
\* although the lists in force may deny it (proxy_handler, Cache::lookup).
CacheBehindPolicy ==
    \A s \in Slots : req[s].entry # NoEntry =>
       /\ Permitted(req[s].url, req[s].site)
       /\ req[s].entry.here => Permitted(req[s].entry.via, req[s].site)

\* No request contacts more than max_redirects URLs after the first, however
\* the redirects lead in circles.
HopsBounded == \A s \in Slots : req[s].hops <= MaxRedirects + 1

\* Every tier has been charged before a request reaches the upstream or gets
\* a response, one from the cache included.
ChargedFirst ==
    \A s \in Slots : req[s].hops > 0 \/ req[s].end = "served" =>
       req[s].paid = Tiers

\* A request with credentials or a range is neither answered from the cache
\* nor validated against it nor stored, on no hop, and the proxy gives it no
\* X-Cache of its own; one of the target's passes, see ResponseHeaders.
CredentialsBypass ==
    \A s \in Slots : req[s].private =>
       req[s].entry = NoEntry /\ ~ req[s].store /\ req[s].label = "NONE"

\* A client that forces revalidation is never served before the upstream was
\* contacted, and only it or a stale entry makes the proxy revalidate.
LabelsHonest ==
    \A s \in Slots :
       LET r == req[s]
       IN  /\ r.label = "HIT" => ~ r.force /\ r.hops = 0 /\ r.entry.fresh
           /\ r.label = "REVALIDATED" =>
                r.hops > 0 /\ r.entry # NoEntry
                /\ (r.force \/ ~ r.entry.fresh)

\* Every request comes to an end.
RequestsEnd == \A s \in Slots : At(s, "tier") ~> req[s].pc \in {"idle", "done"}

-----------------------------------------------------------------------------
(* The inductive invariant *)

\* What this process has fetched came from allowed targets only.
CacheOK ==
    \A u \in Planned, o \in Origins :
       cache[u][o] # NoEntry /\ cache[u][o].here =>
          TargetAllowed(cache[u][o].via)

RequestOK(r) ==
    /\ r.pc \in {"tier", "send", "stream"} =>
         /\ Permitted(r.url, r.site) /\ Permitted(r.at, r.site)
         /\ r.url \in Urls /\ r.at \in Urls
         /\ r.end = "none"
    /\ \A u \in r.path : Permitted(u, r.site)
    /\ r.pc = "tier" => /\ r.paid = 1 .. r.tier - 1 /\ r.path = {}
                        /\ r.hops = 0 /\ r.left = MaxRedirects
                        /\ r.entry = NoEntry
    /\ r.pc \in {"send", "stream"} => r.paid = Tiers
    /\ r.pc = "send" => r.hops = MaxRedirects - r.left
                        /\ (r.entry # NoEntry => r.force \/ ~ r.entry.fresh)
    /\ r.pc \in {"tier", "send"} => ~ r.store /\ r.label = "NONE"
    /\ r.store => Plan(r)
    /\ r.private => r.entry = NoEntry /\ ~ r.store /\ r.label = "NONE"
    /\ r.entry # NoEntry => /\ Plan(r)
                            /\ Permitted(r.url, r.site)
                            /\ r.entry.here => Permitted(r.entry.via, r.site)
    /\ r.hops <= MaxRedirects + 1
    /\ r.hops > 0 \/ r.end = "served" => r.paid = Tiers
    /\ r.label = "HIT" => ~ r.force /\ r.hops = 0 /\ r.entry # NoEntry
                          /\ r.entry.fresh
    /\ r.label = "REVALIDATED" => /\ r.hops > 0 /\ r.entry # NoEntry
                                  /\ r.force \/ ~ r.entry.fresh

IndInv == TypeOK /\ CacheOK /\ \A s \in Slots : RequestOK(req[s])

-----------------------------------------------------------------------------
\* "`site` is matched against both the originally requested target URL and
\* the final post-redirect URL [...] all consumers of the same cached entry
\* receive their configured headers" (README.md): a hit gets the overrides
\* the response got when it was fetched.
CachedOverrides ==
    \A s \in Slots : req[s].label = "HIT" =>
       req[s].rules = Applied(req[s].url, req[s].entry.via)
=============================================================================
