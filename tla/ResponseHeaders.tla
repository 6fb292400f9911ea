-------------------------- MODULE ResponseHeaders --------------------------
(***************************************************************************)
(* The headers corsget lets through, adds and takes away on the way back   *)
(* to the client: hop-by-hop stripping (src/src/proxy.rs), the headers     *)
(* kept in a cache entry (src/src/cache.rs), configured overrides          *)
(* (src/src/headers.rs) and the CORS middleware around every route         *)
(* (src/src/cors.rs), with a shared HTTP cache between proxy and browsers. *)
(***************************************************************************)
EXTENDS Integers, SequencesExt

CONSTANTS
    Requests,   \* requests for one target, see Request
    Answers,    \* what the target can answer, see AnswerType
    Configs,    \* configurations an operator may start the proxy with
    Urls,       \* the URLs requested and redirected to
    Target,     \* the URL requested
    Refusals,   \* the errors that occur
    Opaque,     \* header values that are not visible ASCII
    NoEntry, NoReply

\* A HeaderMap is a set of <<name, value>>; a list-valued header is one pair
\* for every member of its list.
HeaderMap == SUBSET (STRING \X STRING)

Request == [method: {"GET", "OPTIONS"}, headers: HeaderMap]

\* via: the URL the answer came from after redirects.
AnswerType == [status: 200 .. 999, headers: HeaderMap, via: Urls]

\* A rule's `site` is the set of the URLs its pattern matches; `set` has one
\* value for a name, the last of those configured.
Rule == [site: SUBSET Urls, remove: SUBSET STRING, add: HeaderMap,
         set: HeaderMap]

VARIABLES
    config,   \* configuration in force: rules, capped, cached
    answer,   \* what the target answers at present
    stored,   \* stored[k]: the entry of the disk cache for origin k
    last,     \* the last reply a client got, with its request and source
    shared    \* the reply the shared HTTP cache holds

vars == <<config, answer, stored, last, shared>>

-----------------------------------------------------------------------------
(* Header maps *)

ValuesOf(h, n) == {p[2] : p \in {x \in h : x[1] = n}}

Without(h, names) == {p \in h : p[1] \notin names}

\* HeaderMap::insert replaces what the name had; append is a union.
Insert(h, n, v) == Without(h, {n}) \cup {<<n, v>>}

ASSUME RequestsAssumption ==
    /\ Requests \subseteq Request
    /\ \A q \in Requests : \A v, w \in ValuesOf(q.headers, "origin") : v = w

ASSUME ConfigsAssumption ==
    Configs \subseteq [rules: Seq(Rule), capped: BOOLEAN, cached: BOOLEAN]

ASSUME TargetAssumption ==
    /\ Answers \subseteq AnswerType
    /\ Target \in Urls

HopByHop == {"connection", "keep-alive", "proxy-authenticate",
             "proxy-authorization", "te", "trailers", "transfer-encoding",
             "upgrade", "x-forwarded-for", "x-forwarded-host",
             "x-forwarded-proto", "x-forwarded-port", "x-forwarded-other",
             "x-real-ip", "forwarded"}

CorsNames == {"access-control-allow-origin",
              "access-control-allow-credentials",
              "access-control-allow-headers",
              "access-control-allow-methods", "access-control-max-age"}

\* connection_headers
Nominated(h) == ValuesOf(h, "connection") \ Opaque

-----------------------------------------------------------------------------
(* Back to the client *)

\* `capped`: the per-result cap may cut the body.
CopyResponseHeaders(h, capped) ==
    Without(h, HopByHop \cup CorsNames \cup Nominated(h)
               \cup IF capped THEN {"content-length"} ELSE {})

\* MUTANT of AddCacheHeader: the target's own X-Cache stays.
AppendCacheHeader(h, label) == h \cup {<<"x-cache", label>>}

AddCacheHeader(h, label) == Insert(h, "x-cache", label)

\* MUTANT of CacheHeaders: an entry keeps the headers of its connection.
CacheHeadersHopByHop(h) == {p \in Without(h, CorsNames \cup {"x-cache"}) :
                               p[2] \notin Opaque}

\* cache_headers: unlike CopyResponseHeaders it does not ask Connection.
CacheHeaders(h) == {p \in Without(h, HopByHop \cup CorsNames \cup {"x-cache"}) :
                       p[2] \notin Opaque}

HeadersFromEntry(e) == Without(e.headers, CorsNames)

\* FORBIDDEN_HEADER_NAMES
Managed == CorsNames \cup {"content-length", "x-cache"}

NamesOf(r) == r.remove \cup {p[1] : p \in r.add \cup r.set}

\* MUTANT of Compiles: only hop-by-hop headers are out of bounds.
CompilesManaged(r) == NamesOf(r) \cap HopByHop = {}

\* MUTANT of Compiles: only managed headers are out of bounds.
CompilesHopByHop(r) == NamesOf(r) \cap Managed = {}

\* HeaderOverrideRule::new
Compiles(r) == NamesOf(r) \cap (HopByHop \cup Managed) = {}

\* HeaderOverrideRule::apply: remove, then add, then set.
ApplyRule(h, r) ==
    Without(Without(h, r.remove) \cup r.add, {p[1] : p \in r.set}) \cup r.set

\* HeaderOverridePolicy::apply
Override(h, asked, final) ==
    FoldLeft(LAMBDA acc, r : IF {asked, final} \cap r.site # {}
                             THEN ApplyRule(acc, r) ELSE acc,
             h, config.rules)

-----------------------------------------------------------------------------
(* CORS *)

\* cors_headers: an Origin that cannot be read is answered with "*".
CorsHeaders(h) ==
    LET origin == ValuesOf(h, "origin") \ Opaque
        asked == ValuesOf(h, "access-control-request-headers") \ {""}
    IN  {<<"access-control-allow-origin", o>> :
            o \in IF origin = {} THEN {"*"} ELSE origin}
        \cup {<<"access-control-allow-headers", n>> :
                 n \in IF asked = {} THEN {"Authorization"} ELSE asked}
        \cup {<<"access-control-allow-credentials", "true">>,
              <<"access-control-allow-methods", "GET, OPTIONS">>,
              <<"access-control-max-age", "86400">>}

\* MUTANT of AddVary: a response that varies already is left alone.
AddVaryOnce(h, field) ==
    IF ValuesOf(h, "vary") = {} THEN h \cup {<<"vary", field>>} ELSE h

AddVary(h, field) == h \cup {<<"vary", field>>}

CorsLayer(q, h) ==
    LET r == Without(h, CorsNames) \cup CorsHeaders(q.headers)
    IN  IF ValuesOf(q.headers, "origin") # {} THEN AddVary(r, "origin") ELSE r

-----------------------------------------------------------------------------
(* Replies *)

Has(q, n) == ValuesOf(q.headers, n) # {}

\* Cache::plan
Eligible(q) == config.cached /\ ~ Has(q, "authorization") /\ ~ Has(q, "cookie")
               /\ ~ Has(q, "range")

Forces(q) == "no-cache" \in ValuesOf(q.headers, "cache-control")

OriginKey(q) == ValuesOf(q.headers, "origin")

Keys == {OriginKey(q) : q \in Requests}

\* What the client gets, and what it is told from.
Reply(q, from, status, h) ==
    [req |-> q, from |-> from, status |-> status, headers |-> CorsLayer(q, h)]

\* The end of proxy_handler for an answer of the target.
TargetReply(q, a) ==
    LET h == CopyResponseHeaders(a.headers, config.capped)
        label == IF stored[OriginKey(q)] # NoEntry /\ Forces(q)
                 THEN "REVALIDATED" ELSE "MISS"
        told == IF Eligible(q) THEN AddCacheHeader(h, label) ELSE h
    IN  Reply(q, "target", a.status, Override(told, Target, a.via))

\* MUTANT of CachedReply: the cap does not matter for a stored body.
CachedReplyUncapped(q, e, label) ==
    LET h == HeadersFromEntry(e)
    IN  Reply(q, "store", e.status,
              Override(AddCacheHeader(h, label), Target, Target))

\* MUTANT of CachedReply: overrides are for answers of the target.
CachedReplyAsIs(q, e, label) ==
    LET h == Without(HeadersFromEntry(e),
                     IF config.capped THEN {"content-length"} ELSE {})
    IN  Reply(q, "store", e.status, AddCacheHeader(h, label))

\* cached_response
CachedReply(q, e, label) ==
    LET h == Without(HeadersFromEntry(e),
                     IF config.capped THEN {"content-length"} ELSE {})
    IN  Reply(q, "store", e.status,
              Override(AddCacheHeader(h, label), Target, Target))

\* AppError::into_response, the limiter's refusal and the fallback routes.
Errors == [BadUrl |-> 400, Denied |-> 403, NotFound |-> 404,
           MethodNotAllowed |-> 405, TooLarge |-> 413, TooMany |-> 429,
           Upstream |-> 502, LimitBackend |-> 503]

ASSUME RefusalsAssumption == Refusals \subseteq DOMAIN Errors

-----------------------------------------------------------------------------
(* Actions *)

Init ==
    /\ config \in {c \in Configs : \A i \in DOMAIN c.rules : Compiles(c.rules[i])}
    /\ answer \in Answers
    /\ stored = [k \in Keys |-> NoEntry]
    /\ last = NoReply
    /\ shared = NoReply

\* A GET the target answers; the entry is kept if begin_write and commit let it.
Fetch(q, keep) ==
    /\ q.method = "GET"
    /\ last' = TargetReply(q, answer)
    /\ keep => Eligible(q) /\ answer.status \in 200 .. 299
    /\ stored' = IF keep
                 THEN [stored EXCEPT ![OriginKey(q)] =
                         [status |-> answer.status, of |-> answer,
                          headers |-> CacheHeaders(answer.headers)]]
                 ELSE stored
    /\ UNCHANGED <<config, answer, shared>>

\* A GET served from the store, fresh or confirmed by a 304.
Serve(q, label) ==
    /\ q.method = "GET" /\ Eligible(q)
    /\ stored[OriginKey(q)] # NoEntry
    /\ label = "HIT" => ~ Forces(q)
    /\ last' = CachedReply(q, stored[OriginKey(q)], label)
    /\ UNCHANGED <<config, answer, stored, shared>>

\* A request the proxy answers itself, in JSON or plain text.
Refuse(q, error) ==
    /\ last' = Reply(q, "proxy", Errors[error], {<<"content-type", "any">>})
    /\ UNCHANGED <<config, answer, stored, shared>>

\* preflight_handler
Preflight(q) ==
    /\ q.method = "OPTIONS"
    /\ LET h == AddVary(AddVary({}, "origin"), "access-control-request-headers")
       IN  last' = Reply(q, "proxy", 204, h \cup CorsHeaders(q.headers))
    /\ UNCHANGED <<config, answer, stored, shared>>

\* The shared HTTP cache keeps a reply to a GET ...
Retain ==
    /\ last # NoReply /\ last.req.method = "GET"
    /\ shared' = last
    /\ UNCHANGED <<config, answer, stored, last>>

\* ... and gives it to a request with the same values in the fields it varies by.
Replay(q) ==
    /\ q.method = "GET" /\ shared # NoReply
    /\ \A n \in ValuesOf(shared.headers, "vary") :
          ValuesOf(q.headers, n) = ValuesOf(shared.req.headers, n)
    /\ last' = [req |-> q, from |-> "shared", status |-> shared.status,
                headers |-> shared.headers]
    /\ UNCHANGED <<config, answer, stored, shared>>

\* The entries survive a restart; HeaderOverridePolicy::new refuses to start
\* with a rule on a managed header.
Restart(c) ==
    /\ \A i \in DOMAIN c.rules : Compiles(c.rules[i])
    /\ config' = c /\ last' = NoReply
    /\ UNCHANGED <<answer, stored, shared>>

Publish(a) ==
    /\ answer' = a
    /\ UNCHANGED <<config, stored, last, shared>>

Next ==
    \/ \E q \in Requests, keep \in BOOLEAN : Fetch(q, keep)
    \/ \E q \in Requests, label \in {"HIT", "REVALIDATED"} : Serve(q, label)
    \/ \E q \in Requests, error \in Refusals : Refuse(q, error)
    \/ \E q \in Requests : Preflight(q)
    \/ Retain
    \/ \E q \in Requests : Replay(q)
    \/ \E c \in Configs : Restart(c)
    \/ \E a \in Answers : Publish(a)

Spec == Init /\ [][Next]_vars

-----------------------------------------------------------------------------
(* Properties *)

TypeOK ==
    /\ config \in Configs /\ answer \in Answers
    /\ DOMAIN stored = Keys
    /\ \A k \in Keys : stored[k] # NoEntry =>
          /\ stored[k].of \in Answers /\ stored[k].status = stored[k].of.status
          /\ stored[k].headers \subseteq stored[k].of.headers
    /\ \A r \in {last, shared} \ {NoReply} :
          r.req \in Requests /\ r.status \in 200 .. 999

\* Whoever a reply was made for and whoever answers it, directly or out of the
\* shared cache, it lets exactly one origin read it: the one that asked, or
\* any. No CORS header of the target competes (cors_layer, add_vary_field).
OriginHonoured ==
    last # NoReply =>
    /\ \E v \in {"*"} \cup ValuesOf(last.req.headers, "origin") :
          ValuesOf(last.headers, "access-control-allow-origin") = {v}
    /\ ValuesOf(last.headers, "access-control-allow-credentials") = {"true"}
    /\ ValuesOf(last.headers, "access-control-allow-methods") = {"GET, OPTIONS"}
    /\ ValuesOf(last.headers, "access-control-max-age") = {"86400"}

EndToEnd(h) == \A p \in h : p[1] \notin HopByHop

\* No reply carries a header of another connection: neither the target, nor
\* an entry stored in another life of the proxy, nor an override in force, nor
\* the shared cache brings one to a client (copy_response_headers,
\* cache_headers, parse_header_name).
RepliesEndToEnd == last # NoReply => EndToEnd(last.headers)

\* What no override may touch tells the truth about replies to requests that
\* may use the disk cache, and about replies of the proxy's own.  X-Cache says
\* in a single value where the body came from, whatever label the target put
\* on its answer; replies of the proxy's own have none.  No Content-Length is
\* promised for a body the per-result cap may cut.  To a request that bypasses
\* the disk cache, the target's own X-Cache is passed on as it came
\* (add_cache_header, copy_response_headers, cached_response,
\* parse_header_name).
ManagedHonest ==
    last # NoReply =>
    LET labels == ValuesOf(last.headers, "x-cache")
    IN  /\ last.from = "store" => labels \in {{"HIT"}, {"REVALIDATED"}}
        /\ last.from = "target" /\ Eligible(last.req) =>
              labels \in {{"MISS"}, {"REVALIDATED"}}
        /\ last.from = "proxy" => labels = {}
        /\ config.capped /\ last.from \in {"target", "store"} =>
              ValuesOf(last.headers, "content-length") = {}

\* What differs between a reply from the store and the one that stored it:
\* X-Cache, values that are not text, and headers the target named in
\* Connection, which only a reply of the target leaves out.
Comparable(r, a) ==
    {p \in Without(r.headers, Nominated(a.headers) \cup {"x-cache"}) :
        p[2] \notin Opaque}

\* Otherwise a hit is what a miss would be under the overrides in force, not
\* those in force when it was stored, whatever the target has become since;
\* rules for the redirected-to URL aside (cache_headers, headers_from_entry).
HitLikeMiss ==
    \A q \in Requests :
       LET e == stored[OriginKey(q)]
       IN  q.method = "GET" /\ Eligible(q) /\ e # NoEntry /\ e.of.via = Target =>
           Comparable(CachedReply(q, e, "HIT"), e.of)
             = Comparable(TargetReply(q, e.of), e.of)
=============================================================================
