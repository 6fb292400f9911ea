----------------------------- MODULE MCStartup -----------------------------
(* A small instance of Startup for TLC: two listeners, the template and a     *)
(* file for each way a configuration is taken, changed or refused.            *)
EXTENDS Startup

CONSTANTS v4, v6, junk, broken, site

\* Words of four bits, so that products overflow.
Tier(w, e) == [window |-> w, max |-> e]
Rule(s, ok) == [site |-> s, actions |-> {"set"}, compiles |-> ok]

MCTemplate ==
    [typed |-> TRUE, hosts |-> <<v4, v6>>, rate_limit |-> <<Tier(1, <<5>>)>>,
     bandwidth |-> <<>>, result |-> <<2, 3>>, lists |-> Null, redirects |-> 1,
     timeout |-> 1, overrides |-> Null, cache |-> <<0>>]

MCFiles ==
    {MCTemplate,
     [MCTemplate EXCEPT !.hosts = <<v4>>, !.rate_limit = <<Null, Tier(1, <<3, 5>>)>>,
         !.bandwidth = <<Tier(2, <<1>>), Null>>, !.lists = <<"", Null>>,
         !.overrides = <<Null, Rule(site, TRUE)>>, !.redirects = 0],
     [MCTemplate EXCEPT !.hosts = <<v4, v4>>],
     [MCTemplate EXCEPT !.result = <<4, 6>>],
     [MCTemplate EXCEPT !.cache = <<4, NotNumber>>],
     [MCTemplate EXCEPT !.bandwidth = <<Tier(1, <<3, 0>>)>>],
     [MCTemplate EXCEPT !.rate_limit = <<Tier(1, <<3, 6>>)>>],
     [MCTemplate EXCEPT !.redirects = 0, !.timeout = 0],
     [MCTemplate EXCEPT !.hosts = <<v4, junk>>],
     [MCTemplate EXCEPT !.lists = <<broken>>],
     [MCTemplate EXCEPT !.overrides = <<Rule(site, FALSE)>>],
     [MCTemplate EXCEPT !.typed = FALSE]}

\* A torn template that does not deserialise.
MCTorn == {[MCTemplate EXCEPT !.typed = FALSE]}

=============================================================================
