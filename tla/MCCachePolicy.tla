--------------------------- MODULE MCCachePolicy ---------------------------
(* A small instance of CachePolicy for TLC: one resource, four responses. *)
EXTENDS CachePolicy, TLC

CONSTANTS none, a, t1

Line(names) == [i \in DOMAIN names |-> Bare(names[i])]
Age(n) == [name |-> "max-age", arg |-> n]

Ok == [status |-> 200, cc |-> <<>>, expires |-> Never, vary |-> {},
       cookie |-> FALSE, etag |-> NoTag, lm |-> NoDate]

\* Dated, varying and without a tag; to be revalidated always; tagged and
\* short-lived by the first of two ages, and with a second line that forbids
\* storing; private.
MCAnswer ==
    (1 :> [Ok EXCEPT !.expires = 1, !.lm = 5, !.vary = {"accept"}])
 @@ (2 :> [Ok EXCEPT !.cc = <<Line(<<"no-cache">>)>>, !.lm = 6])
 @@ (3 :> [Ok EXCEPT !.cc = <<<<Age(1), Age(3)>>, Line(<<"no-store">>)>>,
                     !.etag = t1])
 @@ (4 :> [Ok EXCEPT !.cc = <<<<Bare("private"), Age(9)>>>>])

Get == [accept |-> <<>>, private |-> FALSE, force |-> FALSE, inm |-> NoTag,
        ims |-> NoDate]

MCRequests ==
    {Get, [Get EXCEPT !.accept = <<none>>], [Get EXCEPT !.accept = <<a>>],
     [Get EXCEPT !.private = TRUE], [Get EXCEPT !.force = TRUE],
     [Get EXCEPT !.inm = t1], [Get EXCEPT !.ims = 6]}

Exact(age) == [match |-> [kind |-> "exact", host |-> "h", path |-> "/p"],
               max_age |-> age]
Wild(paths, age) == [match |-> [kind |-> "wildcard", host |-> {"h", "www.h"},
                                path |-> paths],
                     max_age |-> age]
Broken == [match |-> [kind |-> "invalid"], max_age |-> 3]
Pattern(age) == [match |-> [kind |-> "regex", subjects |-> {<<"h", "/p">>}],
                 max_age |-> age]

\* The second and the third rule decide about the resource, the third for more
\* than the default age allows.
On == [enabled |-> TRUE, max_age |-> 2, max_size |-> 9, unavailable |-> FALSE,
       whitelist |-> <<Broken, Wild({"/p"}, 1), Pattern(3), Wild({"/q"}, 0)>>]

\* Switched on, off for the resource by its last rule, off for all.
MCConfigs ==
    {On, [On EXCEPT !.whitelist = <<Exact(3), Pattern(0)>>],
     [On EXCEPT !.enabled = FALSE]}
=============================================================================
