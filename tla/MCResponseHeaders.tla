------------------------- MODULE MCResponseHeaders -------------------------
(* A small instance of ResponseHeaders: two origins and a direct client. *)
EXTENDS ResponseHeaders

Get(h) == [method |-> "GET", headers |-> h]

\* A direct client that forces, an origin, one whose requests bypass the cache,
\* and a preflight for an origin that is not text.
MCRequests ==
    {Get({<<"host", "proxy">>, <<"cache-control", "no-cache">>}),
     Get({<<"origin", "A">>}),
     Get({<<"origin", "B">>, <<"authorization", "t">>}),
     [method |-> "OPTIONS",
      headers |-> {<<"origin", "junk">>, <<"access-control-request-headers", "x">>}]}

\* A target with CORS, caching and length headers of its own; one with headers
\* of its connection, one of which it names; one behind a redirect.
MCAnswers ==
    {[status |-> 200, via |-> "target",
      headers |-> {<<"access-control-allow-origin", "T">>, <<"vary", "accept">>,
                   <<"x-cache", "CDN">>, <<"content-length", "1">>,
                   <<"server", "s">>}],
     [status |-> 203, via |-> "target",
      headers |-> {<<"connection", "x-hop">>, <<"x-hop", "1">>,
                   <<"keep-alive", "5">>, <<"content-length", "1">>, <<"server", "junk">>}],
     [status |-> 200, via |-> "cdn",
      headers |-> {<<"server", "s">>, <<"access-control-max-age", "1">>}]}

R(site, remove, add, set) ==
    [site |-> site, remove |-> remove, add |-> add, set |-> set]

\* No overrides; overrides of what may be overridden; of what may not.
MCConfigs ==
    {[rules |-> <<>>, capped |-> TRUE, cached |-> TRUE],
     [rules |-> <<R({"target"}, {"vary"}, {<<"server", "p">>}, {}),
                  R({"target", "cdn"}, {}, {}, {<<"x-hop", "2">>})>>,
      capped |-> FALSE, cached |-> TRUE],
     [rules |-> <<R({"target"}, {}, {}, {<<"x-cache", "HIT">>})>>,
      capped |-> TRUE, cached |-> TRUE],
     [rules |-> <<R({"target"}, {}, {<<"content-length", "9">>}, {})>>,
      capped |-> TRUE, cached |-> TRUE],
     [rules |-> <<R({"target"}, {}, {<<"x-real-ip", "p">>}, {})>>,
      capped |-> TRUE, cached |-> TRUE]}
=============================================================================
