----------------------- MODULE ResponseHeadersProofs -----------------------
(* What ResponseHeaders promises, for any requests, answers and overrides.  *)
EXTENDS ResponseHeaders, FoldProofs

\* A reply's CORS headers suit the request it was made for, and caches can
\* tell by Vary when they suit another one.
Honours(q, h) ==
    /\ \E v \in {"*"} \cup ValuesOf(q.headers, "origin") :
          ValuesOf(h, "access-control-allow-origin") = {v}
    /\ ValuesOf(h, "access-control-allow-credentials") = {"true"}
    /\ ValuesOf(h, "access-control-allow-methods") = {"GET, OPTIONS"}
    /\ ValuesOf(h, "access-control-max-age") = {"86400"}
    /\ \/ ValuesOf(h, "access-control-allow-origin") = {"*"}
       \/ "origin" \in ValuesOf(h, "vary")

RepliesHonour ==
    \A r \in {last, shared} : r # NoReply => Honours(r.req, r.headers)

-----------------------------------------------------------------------------

\* The middleware leaves the CORS names to its own values.
LEMMA LayerValues ==
    ASSUME NEW q, NEW h, NEW n \in CorsNames
    PROVE  ValuesOf(CorsLayer(q, h), n) = ValuesOf(CorsHeaders(q.headers), n)
<1> DEFINE own == CorsHeaders(q.headers)
           r == Without(h, CorsNames) \cup own
<1>1. n # "vary"
  BY DEF CorsNames
<1>2. CorsLayer(q, h) = r \/ CorsLayer(q, h) = r \cup {<<"vary", "origin">>}
  BY DEF CorsLayer, AddVary
<1>3. \A p \in r : p[1] = n => p \in own
  BY DEF Without
<1>4. <<"vary", "origin">>[1] = "vary"
  OBVIOUS
<1> HIDE DEF own
<1>5. {x \in CorsLayer(q, h) : x[1] = n} = {x \in own : x[1] = n}
  BY <1>1, <1>2, <1>3, <1>4
<1> QED
  BY <1>5 DEF ValuesOf, own

\* A name with one pair has one value.
LEMMA OneValue ==
    ASSUME NEW h, NEW n, NEW v, <<n, v>> \in h,
           \A p \in h : p[1] = n => p = <<n, v>>
    PROVE  ValuesOf(h, n) = {v}
<1>1. {x \in h : x[1] = n} = {<<n, v>>}
  OBVIOUS
<1> QED
  BY <1>1 DEF ValuesOf

\* Each of those values is the one cors_headers gives.
LEMMA OwnValues ==
    ASSUME NEW h, \A v, w \in ValuesOf(h, "origin") : v = w
    PROVE  /\ \E v \in {"*"} \cup ValuesOf(h, "origin") :
                 ValuesOf(CorsHeaders(h), "access-control-allow-origin") = {v}
           /\ ValuesOf(h, "origin") = {} =>
                 ValuesOf(CorsHeaders(h), "access-control-allow-origin") = {"*"}
           /\ ValuesOf(CorsHeaders(h), "access-control-allow-credentials") = {"true"}
           /\ ValuesOf(CorsHeaders(h), "access-control-allow-methods") = {"GET, OPTIONS"}
           /\ ValuesOf(CorsHeaders(h), "access-control-max-age") = {"86400"}
<1> DEFINE origin == ValuesOf(h, "origin") \ Opaque
           asked == ValuesOf(h, "access-control-request-headers") \ {""}
           allowed == IF origin = {} THEN {"*"} ELSE origin
           names == IF asked = {} THEN {"Authorization"} ELSE asked
           A == {<<"access-control-allow-origin", o>> : o \in allowed}
           B == {<<"access-control-allow-headers", m>> : m \in names}
           C == {<<"access-control-allow-credentials", "true">>,
                 <<"access-control-allow-methods", "GET, OPTIONS">>,
                 <<"access-control-max-age", "86400">>}
<1>1. PICK v \in {"*"} \cup ValuesOf(h, "origin") : allowed = {v}
  OBVIOUS
<1>2. ValuesOf(h, "origin") = {} => v = "*"
  BY <1>1
<1>3. CorsHeaders(h) = (A \cup B) \cup C
  BY DEF CorsHeaders
<1> HIDE DEF allowed, names
<1>4. A = {<<"access-control-allow-origin", v>>}
  BY <1>1
<1>5. \A p \in B : p[1] = "access-control-allow-headers"
  OBVIOUS
<1> DEFINE all == CorsHeaders(h)
<1>6. \A n, m : <<n, m>>[1] = n
  OBVIOUS
<1>7. \A p \in all :
        \/ p[1] = "access-control-allow-origin"
           /\ p = <<"access-control-allow-origin", v>>
        \/ p[1] = "access-control-allow-headers"
        \/ p[1] = "access-control-allow-credentials"
           /\ p = <<"access-control-allow-credentials", "true">>
        \/ p[1] = "access-control-allow-methods"
           /\ p = <<"access-control-allow-methods", "GET, OPTIONS">>
        \/ p[1] = "access-control-max-age"
           /\ p = <<"access-control-max-age", "86400">>
  <2> HIDE DEF A, B
  <2>1. ASSUME NEW p \in C
        PROVE  \/ p = <<"access-control-allow-credentials", "true">>
               \/ p = <<"access-control-allow-methods", "GET, OPTIONS">>
               \/ p = <<"access-control-max-age", "86400">>
    OBVIOUS
  <2> HIDE DEF C
  <2> QED
    BY <1>3, <1>4, <1>5, <1>6, <2>1
<1>8. /\ <<"access-control-allow-origin", v>> \in all
      /\ <<"access-control-allow-credentials", "true">> \in all
      /\ <<"access-control-allow-methods", "GET, OPTIONS">> \in all
      /\ <<"access-control-max-age", "86400">> \in all
  <2> HIDE DEF A, B
  <2> QED
    BY <1>3, <1>4
<1> HIDE DEF all, A, B
<1>9. \A p \in all : p[1] = "access-control-allow-origin"
                     => p = <<"access-control-allow-origin", v>>
  BY <1>7
<1>10. \A p \in all : p[1] = "access-control-allow-credentials"
                     => p = <<"access-control-allow-credentials", "true">>
  BY <1>7
<1>11. \A p \in all : p[1] = "access-control-allow-methods"
                     => p = <<"access-control-allow-methods", "GET, OPTIONS">>
  BY <1>7
<1>12. \A p \in all : p[1] = "access-control-max-age"
                     => p = <<"access-control-max-age", "86400">>
  BY <1>7
<1>13. ValuesOf(all, "access-control-allow-origin") = {v}
  BY <1>8, <1>9, OneValue
<1>14. ValuesOf(all, "access-control-allow-credentials") = {"true"}
  BY <1>8, <1>10, OneValue
<1>15. ValuesOf(all, "access-control-allow-methods") = {"GET, OPTIONS"}
  BY <1>8, <1>11, OneValue
<1>16. ValuesOf(all, "access-control-max-age") = {"86400"}
  BY <1>8, <1>12, OneValue
<1> QED
  BY <1>2, <1>13, <1>14, <1>15, <1>16 DEF all

\* The middleware makes every reply honour its request's origin.
LEMMA LayerHonours ==
    ASSUME NEW q \in Requests, NEW h
    PROVE  Honours(q, CorsLayer(q, h))
<1>1. \A v, w \in ValuesOf(q.headers, "origin") : v = w
  BY RequestsAssumption
<1>2. ASSUME ValuesOf(q.headers, "origin") # {}
      PROVE  "origin" \in ValuesOf(CorsLayer(q, h), "vary")
  <2>1. <<"vary", "origin">> \in CorsLayer(q, h)
    BY <1>2 DEF CorsLayer, AddVary
  <2> QED
    BY <2>1 DEF ValuesOf
<1>3. /\ "access-control-allow-origin" \in CorsNames
      /\ "access-control-allow-credentials" \in CorsNames
      /\ "access-control-allow-methods" \in CorsNames
      /\ "access-control-max-age" \in CorsNames
  BY DEF CorsNames
<1>4. \A n \in CorsNames :
         ValuesOf(CorsLayer(q, h), n) = ValuesOf(CorsHeaders(q.headers), n)
  BY LayerValues
<1> QED
  BY <1>1, <1>2, <1>3, <1>4, OwnValues DEF Honours

\* So does a reply made of any headers.
LEMMA MadeHonours ==
    ASSUME NEW q \in Requests, NEW from, NEW status, NEW h
    PROVE  LET r == Reply(q, from, status, h) IN Honours(r.req, r.headers)
BY LayerHonours DEF Reply

\* A replay suits the origin of the request it answers, too.
LEMMA ReplayHonours ==
    ASSUME NEW q \in Requests, RepliesHonour, Replay(q)
    PROVE  Honours(last'.req, last'.headers)
<1>1. /\ Honours(shared.req, shared.headers)
      /\ \A n \in ValuesOf(shared.headers, "vary") :
            ValuesOf(q.headers, n) = ValuesOf(shared.req.headers, n)
      /\ last' = [req |-> q, from |-> "shared", status |-> shared.status,
                  headers |-> shared.headers]
  BY DEF Replay, RepliesHonour
<1>2. last'.headers = shared.headers /\ last'.req = q
  BY <1>1
<1>3. CASE ValuesOf(shared.headers, "access-control-allow-origin") = {"*"}
  BY <1>1, <1>2, <1>3 DEF Honours
<1>4. CASE "origin" \in ValuesOf(shared.headers, "vary")
  <2>1. ValuesOf(q.headers, "origin") = ValuesOf(shared.req.headers, "origin")
    BY <1>1, <1>4
  <2> QED
    BY <1>1, <1>2, <2>1 DEF Honours
<1> QED
  BY <1>1, <1>3, <1>4 DEF Honours

\* There is no reply at first.
THEOREM InitHonours == Init => RepliesHonour
BY DEF Init, RepliesHonour

\* Every way a request is answered honours the origin that asks.
THEOREM NextHonours == RepliesHonour /\ [Next]_vars => RepliesHonour'
<1> SUFFICES ASSUME RepliesHonour, [Next]_vars PROVE RepliesHonour'
  OBVIOUS
<1>1. ASSUME NEW q \in Requests, NEW keep \in BOOLEAN, Fetch(q, keep)
      PROVE  RepliesHonour'
  <2>1. Honours(last'.req, last'.headers) /\ shared' = shared
    BY <1>1, MadeHonours DEF Fetch, TargetReply
  <2> QED
    BY <2>1 DEF RepliesHonour
<1>2. ASSUME NEW q \in Requests, NEW label, Serve(q, label)
      PROVE  RepliesHonour'
  <2>1. Honours(last'.req, last'.headers) /\ shared' = shared
    BY <1>2, MadeHonours DEF Serve, CachedReply
  <2> QED
    BY <2>1 DEF RepliesHonour
<1>3. ASSUME NEW q \in Requests, NEW error, Refuse(q, error)
      PROVE  RepliesHonour'
  <2>1. Honours(last'.req, last'.headers) /\ shared' = shared
    BY <1>3, MadeHonours DEF Refuse
  <2> QED
    BY <2>1 DEF RepliesHonour
<1>4. ASSUME NEW q \in Requests, Preflight(q) PROVE RepliesHonour'
  <2>1. Honours(last'.req, last'.headers) /\ shared' = shared
    BY <1>4, MadeHonours DEF Preflight
  <2> QED
    BY <2>1 DEF RepliesHonour
<1>5. CASE Retain
  BY <1>5 DEF Retain, RepliesHonour
<1>6. ASSUME NEW q \in Requests, Replay(q) PROVE RepliesHonour'
  <2>1. Honours(last'.req, last'.headers) /\ shared' = shared
    BY <1>6, ReplayHonours DEF Replay
  <2> QED
    BY <2>1 DEF RepliesHonour
<1>7. ASSUME NEW c \in Configs, Restart(c) PROVE RepliesHonour'
  BY <1>7 DEF Restart, RepliesHonour
<1>8. ASSUME NEW a \in Answers, Publish(a) PROVE RepliesHonour'
  BY <1>8 DEF Publish, RepliesHonour
<1>9. CASE UNCHANGED vars
  BY <1>9 DEF vars, RepliesHonour
<1> QED
  BY <1>1, <1>2, <1>3, <1>4, <1>5, <1>6, <1>7, <1>8, <1>9 DEF Next

\* Every reply any client gets, from the target, the store, the proxy itself
\* or a shared cache, lets its own origin and no other read it.
THEOREM OriginAlwaysHonoured == Spec => []OriginHonoured
<1>1. RepliesHonour => OriginHonoured
  BY DEF RepliesHonour, Honours, OriginHonoured
<1> QED
  BY <1>1, InitHonours, NextHonours, PTL DEF Spec

-----------------------------------------------------------------------------

\* The type invariant: an entry only has headers its answer had, and every
\* status the proxy tells is one of HTTP.
THEOREM TypeCorrect == Spec => []TypeOK
<1>1. Init => TypeOK
  BY DEF Init, TypeOK
<1>2. ASSUME TypeOK, [Next]_vars PROVE TypeOK'
  <2>1. ASSUME NEW q \in Requests, NEW keep \in BOOLEAN, Fetch(q, keep)
        PROVE  TypeOK'
    <3>1. /\ answer \in Answers /\ answer.status \in 200 .. 999
          /\ OriginKey(q) \in Keys
      BY <1>2, TargetAssumption DEF TypeOK, AnswerType, Keys
    <3>2. last'.req = q /\ last'.status = answer.status
      BY <2>1 DEF Fetch, TargetReply, Reply
    <3>3. CacheHeaders(answer.headers) \subseteq answer.headers
      BY DEF CacheHeaders, Without
    <3>4. DOMAIN stored' = Keys
          /\ \A k \in Keys : stored'[k] # NoEntry =>
                /\ stored'[k].of \in Answers
                /\ stored'[k].status = stored'[k].of.status
                /\ stored'[k].headers \subseteq stored'[k].of.headers
      <4>1. CASE keep
        <5> DEFINE e == [status |-> answer.status, of |-> answer,
                         headers |-> CacheHeaders(answer.headers)]
        <5>1. /\ e.of \in Answers /\ e.status = e.of.status
              /\ e.headers \subseteq e.of.headers
          BY <3>1, <3>3
        <5>2. stored' = [stored EXCEPT ![OriginKey(q)] = e]
          BY <2>1, <4>1 DEF Fetch
        <5> HIDE DEF e
        <5> QED
          BY <1>2, <5>1, <5>2 DEF TypeOK
      <4>2. CASE ~ keep
        BY <1>2, <2>1, <4>2 DEF Fetch, TypeOK
      <4> QED
        BY <4>1, <4>2
    <3> QED
      BY <1>2, <2>1, <3>1, <3>2, <3>4 DEF Fetch, TypeOK
  <2>2. ASSUME NEW q \in Requests, NEW label, Serve(q, label)
        PROVE  TypeOK'
    <3>1. /\ stored[OriginKey(q)] # NoEntry /\ OriginKey(q) \in Keys
          /\ UNCHANGED <<config, answer, stored, shared>>
      BY <2>2 DEF Serve, Keys
    <3>2. last'.req = q /\ last'.status = stored[OriginKey(q)].status
      BY <2>2 DEF Serve, CachedReply, Reply
    <3>3. last'.status \in 200 .. 999
      BY <1>2, <3>1, <3>2, TargetAssumption DEF TypeOK, AnswerType
    <3> QED
      BY <1>2, <3>1, <3>2, <3>3 DEF TypeOK
  <2>3. ASSUME NEW q \in Requests, NEW error \in Refusals, Refuse(q, error)
        PROVE  TypeOK'
    <3>1. Errors[error] \in 200 .. 999
      BY RefusalsAssumption DEF Errors
    <3>2. last'.req = q /\ last'.status = Errors[error]
      BY <2>3 DEF Refuse, Reply
    <3> QED
      BY <1>2, <2>3, <3>1, <3>2 DEF Refuse, TypeOK
  <2>4. ASSUME NEW q \in Requests, Preflight(q) PROVE TypeOK'
    <3>1. last'.req = q /\ last'.status = 204
      BY <2>4 DEF Preflight, Reply
    <3> QED
      BY <1>2, <2>4, <3>1 DEF Preflight, TypeOK
  <2>5. CASE Retain
    BY <1>2, <2>5 DEF Retain, TypeOK
  <2>6. ASSUME NEW q \in Requests, Replay(q) PROVE TypeOK'
    <3>1. last'.req = q /\ last'.status = shared.status /\ shared # NoReply
      BY <2>6 DEF Replay
    <3> QED
      BY <1>2, <2>6, <3>1 DEF Replay, TypeOK
  <2>7. ASSUME NEW c \in Configs, Restart(c) PROVE TypeOK'
    BY <1>2, <2>7 DEF Restart, TypeOK
  <2>8. ASSUME NEW a \in Answers, Publish(a) PROVE TypeOK'
    BY <1>2, <2>8 DEF Publish, TypeOK
  <2>9. CASE UNCHANGED vars
    BY <1>2, <2>9 DEF vars, TypeOK
  <2> QED
    BY <1>2, <2>1, <2>2, <2>3, <2>4, <2>5, <2>6, <2>7, <2>8, <2>9 DEF Next
<1> QED
  BY <1>1, <1>2, PTL DEF Spec

-----------------------------------------------------------------------------
(* The overrides, rule by rule *)

\* What rule r makes of the headers h of an answer for either URL.
Step(h, r, asked, final) ==
    IF {asked, final} \cap r.site # {} THEN ApplyRule(h, r) ELSE h

\* g[s] is what the rules with an index in s make of the headers h.
Applies(g, h, rules, asked, final) ==
    /\ g[{}] = h
    /\ \A s \in SUBSET DOMAIN rules : s # {} =>
          /\ Max(s) \in s
          /\ g[s] = Step(g[s \ {Max(s)}], rules[Max(s)], asked, final)

\* A rule adds no pair but its own.
LEMMA StepPairs ==
    ASSUME NEW h, NEW r, NEW asked, NEW final
    PROVE  Step(h, r, asked, final) \subseteq h \cup r.add \cup r.set
BY DEF Step, ApplyRule, Without

\* The policy applies the rules in the order they are configured.
LEMMA OverrideApplies ==
    ASSUME NEW h, config.rules \in Seq(Rule), NEW asked, NEW final
    PROVE  \E g : /\ Applies(g, h, config.rules, asked, final)
                  /\ Override(h, asked, final) = g[DOMAIN config.rules]
<1> DEFINE rules == config.rules
           n == Len(rules)
           D == DOMAIN rules
           all == h \cup UNION {rules[i].add \cup rules[i].set : i \in D}
           V == SUBSET all
           step == [i \in D |-> [k \in V |-> Step(k, rules[i], asked, final)]]
           rec(g) == [s \in SUBSET D |->
                        IF s = {} THEN h
                        ELSE IF {asked, final} \cap rules[Max(s)].site # {}
                             THEN ApplyRule(g[s \ {Max(s)}], rules[Max(s)])
                             ELSE g[s \ {Max(s)}]]
           it == CHOOSE iter : iter = rec(iter)
<1>1. n \in Nat /\ D = 1 .. n /\ IsFiniteSet(D)
  BY FS_Interval
<1>2. step \in [D -> [V -> V]]
  <2>1. ASSUME NEW i \in D, NEW k \in V
        PROVE  Step(k, rules[i], asked, final) \in V
    <3>1. rules[i].add \subseteq all /\ rules[i].set \subseteq all
      OBVIOUS
    <3> HIDE DEF all, rules
    <3> QED BY <3>1, StepPairs
  <2> HIDE DEF V, D, rules
  <2> QED BY <2>1
<1>3. \A s \in SUBSET D : s # {} => Max(s) \in s
  BY <1>1, LatestIs
<1>4. \A s \in SUBSET D : s # {} => Latest(n)[s] \in s
  BY <1>1, <1>3 DEF Latest
<1> HIDE DEF step
<1>5. PICK g \in [SUBSET D -> V] : Follows(Latest(n), h, step, g, D)
  <2> DEFINE c == Latest(n)
  <2>1. /\ IsFiniteSet(D) /\ h \in V /\ step \in [D -> [V -> V]]
        /\ \A s \in SUBSET D : s # {} => c[s] \in s
    BY <1>1, <1>2, <1>4
  <2> HIDE DEF c, V, D
  <2>2. \E g \in [SUBSET D -> V] : Follows(c, h, step, g, D)
    BY <2>1, FoldExists
  <2> QED BY <2>2 DEF c
<1>6. g = rec(g)
  <2>1. ASSUME NEW s \in SUBSET D PROVE g[s] = rec(g)[s]
    <3>1. g[s] = IF s = {} THEN h ELSE step[Max(s)][g[s \ {Max(s)}]]
      BY <1>1, <1>5 DEF Latest, Follows, FoldsAt
    <3>2. s # {} => Max(s) \in D /\ g[s \ {Max(s)}] \in V
      BY <1>3, <1>5
    <3> HIDE DEF V, D
    <3> QED BY <3>1, <3>2 DEF step, Step
  <2> QED BY <2>1
<1>7. it = rec(it)
  BY <1>6, Zenon
<1>8. Override(h, asked, final) = it[D]
  BY DEF Override, FoldLeft, MapThenFoldSet
<1> HIDE DEF it
<1>9. Applies(it, h, rules, asked, final)
  BY <1>3, <1>7 DEF Applies, Step
<1> QED
  BY <1>8, <1>9

\* Whether a rule leaves or adds a pair does not depend on the others.
LEMMA StepPoint ==
    ASSUME NEW h, NEW k, NEW p, p \in h <=> p \in k, NEW r, NEW asked, NEW final
    PROVE  p \in Step(h, r, asked, final) <=> p \in Step(k, r, asked, final)
BY DEF Step, ApplyRule, Without

\* A rule the proxy starts with leaves managed and hop-by-hop headers alone.
LEMMA StepManaged ==
    ASSUME NEW h, NEW p, p[1] \in HopByHop \cup Managed, NEW r, Compiles(r), NEW asked, NEW final
    PROVE  p \in Step(h, r, asked, final) <=> p \in h
<1>1. p[1] \notin r.remove /\ \A x \in r.add \cup r.set : x[1] # p[1]
  BY DEF Compiles, NamesOf
<1> QED
  BY <1>1 DEF Step, ApplyRule, Without

\* The same pairs come out of the overrides as long as they go in.
LEMMA OverridePoint ==
    ASSUME NEW h, NEW k, NEW p, p \in h <=> p \in k,
           config.rules \in Seq(Rule), NEW asked, NEW final
    PROVE  p \in Override(h, asked, final) <=> p \in Override(k, asked, final)
<1> DEFINE rules == config.rules
           D == DOMAIN rules
<1>1. PICK g : /\ Applies(g, h, rules, asked, final)
               /\ Override(h, asked, final) = g[D]
  BY OverrideApplies
<1>2. PICK f : /\ Applies(f, k, rules, asked, final)
               /\ Override(k, asked, final) = f[D]
  BY OverrideApplies
<1>3. IsFiniteSet(D)
  BY FS_Interval
<1> DEFINE Both == {s \in SUBSET D : p \in g[s] <=> p \in f[s]}
<1> HIDE DEF rules, D
<1>4. ASSUME NEW s \in SUBSET D, \A t \in SUBSET s : t # s => t \in Both
      PROVE  s \in Both
  <2>1. CASE s = {}
    BY <1>1, <1>2, <2>1 DEF Applies
  <2>2. CASE s # {}
    <3> DEFINE i == Max(s)
               t == s \ {i}
    <3>1. /\ i \in s
          /\ g[s] = Step(g[t], rules[i], asked, final)
          /\ f[s] = Step(f[t], rules[i], asked, final)
      BY <1>1, <1>2, <2>2 DEF Applies, D
    <3> HIDE DEF i
    <3>2. t \in Both
      BY <1>4, <3>1
    <3>3. p \in g[t] <=> p \in f[t]
      BY <3>2
    <3> QED
      BY <3>1, <3>3, StepPoint
  <2> QED
    BY <2>1, <2>2
<1>5. D \in Both
  <2> HIDE DEF Both
  <2> QED BY <1>3, <1>4, SubsetInduction
<1> QED
  BY <1>1, <1>2, <1>5

AllCompile == \A i \in DOMAIN config.rules : Compiles(config.rules[i])

\* No override in force touches a managed or a hop-by-hop header.
LEMMA OverrideManaged ==
    ASSUME NEW h, NEW p, p[1] \in HopByHop \cup Managed, AllCompile,
           config.rules \in Seq(Rule), NEW asked, NEW final
    PROVE  p \in Override(h, asked, final) <=> p \in h
<1> DEFINE rules == config.rules
           D == DOMAIN rules
<1>1. PICK g : /\ Applies(g, h, rules, asked, final)
               /\ Override(h, asked, final) = g[D]
  BY OverrideApplies
<1>2. IsFiniteSet(D) /\ \A i \in D : Compiles(rules[i])
  BY FS_Interval DEF AllCompile
<1> DEFINE Kept == {s \in SUBSET D : p \in g[s] <=> p \in h}
<1> HIDE DEF rules, D
<1>3. ASSUME NEW s \in SUBSET D, \A t \in SUBSET s : t # s => t \in Kept
      PROVE  s \in Kept
  <2>1. CASE s = {}
    BY <1>1, <2>1 DEF Applies
  <2>2. CASE s # {}
    <3> DEFINE i == Max(s)
               t == s \ {i}
    <3>1. i \in s /\ g[s] = Step(g[t], rules[i], asked, final)
      BY <1>1, <2>2 DEF Applies, D
    <3> HIDE DEF i
    <3>2. t \in Kept
      BY <1>3, <3>1
    <3>3. p \in g[t] <=> p \in h
      BY <3>2
    <3>4. Compiles(rules[i])
      BY <1>2, <3>1
    <3>5. p \in g[s] <=> p \in g[t]
      BY <3>1, <3>4, StepManaged
    <3> QED
      BY <3>3, <3>5
  <2> QED
    BY <2>1, <2>2
<1>4. D \in Kept
  <2> HIDE DEF Kept
  <2> QED BY <1>2, <1>3, SubsetInduction
<1> QED
  BY <1>1, <1>4

-----------------------------------------------------------------------------
(* What no override may touch *)

\* What cors_headers gives has names of the CORS layer only.
LEMMA CorsHeadersNames ==
    ASSUME NEW h PROVE \A x \in CorsHeaders(h) : x[1] \in CorsNames
<1> DEFINE origin == ValuesOf(h, "origin") \ Opaque
           asked == ValuesOf(h, "access-control-request-headers") \ {""}
           allowed == IF origin = {} THEN {"*"} ELSE origin
           names == IF asked = {} THEN {"Authorization"} ELSE asked
           A == {<<"access-control-allow-origin", o>> : o \in allowed}
           B == {<<"access-control-allow-headers", m>> : m \in names}
           C == {<<"access-control-allow-credentials", "true">>,
                 <<"access-control-allow-methods", "GET, OPTIONS">>,
                 <<"access-control-max-age", "86400">>}
<1>1. CorsHeaders(h) = (A \cup B) \cup C
  BY DEF CorsHeaders
<1> HIDE DEF allowed, names
<1>2. \A x \in A : x[1] \in CorsNames
  BY DEF CorsNames
<1>3. \A x \in B : x[1] \in CorsNames
  BY DEF CorsNames
<1>4. \A x \in C : x[1] \in CorsNames
  <2>1. \A n, m : <<n, m>>[1] = n
    OBVIOUS
  <2>2. ASSUME NEW x \in C
        PROVE  \/ x = <<"access-control-allow-credentials", "true">>
               \/ x = <<"access-control-allow-methods", "GET, OPTIONS">>
               \/ x = <<"access-control-max-age", "86400">>
    OBVIOUS
  <2> HIDE DEF C
  <2> QED BY <2>1, <2>2 DEF CorsNames
<1> HIDE DEF A, B, C
<1> QED
  BY <1>1, <1>2, <1>3, <1>4

\* The middleware only writes its own names and Vary.
LEMMA LayerOthers ==
    ASSUME NEW q, NEW h, NEW p, p[1] \notin CorsNames \cup {"vary"}
    PROVE  p \in CorsLayer(q, h) <=> p \in h
<1>1. \A x \in CorsHeaders(q.headers) : x[1] \in CorsNames
  BY CorsHeadersNames
<1>2. p # <<"vary", "origin">>
  OBVIOUS
<1> QED
  BY <1>1, <1>2 DEF CorsLayer, AddVary, Without

\* Two header maps with the same pairs of a name have the same values of it.
LEMMA SameValues ==
    ASSUME NEW h, NEW k, NEW n, \A p : p[1] = n => (p \in h <=> p \in k)
    PROVE  ValuesOf(h, n) = ValuesOf(k, n)
<1>1. {x \in h : x[1] = n} = {x \in k : x[1] = n}
  OBVIOUS
<1> QED
  BY <1>1 DEF ValuesOf

\* A reply has the X-Cache and the Content-Length it was given before the
\* overrides and the middleware.
LEMMA ManagedValues ==
    ASSUME NEW q, NEW h, AllCompile, config.rules \in Seq(Rule),
           NEW asked, NEW final, NEW n \in {"x-cache", "content-length"}
    PROVE  ValuesOf(CorsLayer(q, Override(h, asked, final)), n) = ValuesOf(h, n)
<1>1. n \in Managed /\ n \notin CorsNames \cup {"vary"}
  BY DEF Managed, CorsNames
<1> DEFINE k == CorsLayer(q, Override(h, asked, final))
<1>2. ASSUME NEW p, p[1] = n PROVE p \in h <=> p \in k
  BY <1>1, <1>2, OverrideManaged, LayerOthers
<1> HIDE DEF k
<1>3. ValuesOf(h, n) = ValuesOf(k, n)
  BY <1>2, SameValues
<1> QED
  BY <1>3 DEF k

\* A process runs with one of the configurations it can be given.
LEMMA Configured ==
    ASSUME TypeOK
    PROVE  config.rules \in Seq(Rule) /\ config.capped \in BOOLEAN
BY ConfigsAssumption DEF TypeOK

\* A reply that is given a label has that one label.
LEMMA LabelledValues ==
    ASSUME NEW h, NEW label
    PROVE  /\ ValuesOf(AddCacheHeader(h, label), "x-cache") = {label}
           /\ ValuesOf(AddCacheHeader(h, label), "content-length")
                 = ValuesOf(h, "content-length")
<1> DEFINE k == AddCacheHeader(h, label)
<1>1. <<"x-cache", label>>[1] = "x-cache"
  OBVIOUS
<1>2. <<"x-cache", label>> \in k
      /\ \A p \in k : p[1] = "x-cache" => p = <<"x-cache", label>>
  BY DEF AddCacheHeader, Insert, Without
<1>3. \A p : p[1] = "content-length" => (p \in k <=> p \in h)
  BY <1>1 DEF AddCacheHeader, Insert, Without
<1> HIDE DEF k
<1> QED
  BY <1>2, <1>3, OneValue, SameValues DEF k

\* A removed header has no value.
LEMMA NoValues ==
    ASSUME NEW h, NEW names, NEW n \in names
    PROVE  ValuesOf(Without(h, names), n) = {}
BY DEF ValuesOf, Without

\* A reply of the target is labelled when its request is eligible, and only
\* promises a length that no cap can break.
LEMMA TargetHonest ==
    ASSUME TypeOK, AllCompile, NEW q, NEW r, r = TargetReply(q, answer)
    PROVE  /\ r.from = "target" /\ r.req = q
           /\ Eligible(q) => ValuesOf(r.headers, "x-cache")
                                \in {{"MISS"}, {"REVALIDATED"}}
           /\ config.capped => ValuesOf(r.headers, "content-length") = {}
<1> DEFINE a == answer
           h == CopyResponseHeaders(a.headers, config.capped)
           label == IF stored[OriginKey(q)] # NoEntry /\ Forces(q)
                    THEN "REVALIDATED" ELSE "MISS"
           told == IF Eligible(q) THEN AddCacheHeader(h, label) ELSE h
<1>1. /\ r.headers = CorsLayer(q, Override(told, Target, a.via))
      /\ r.from = "target" /\ r.req = q
  BY DEF TargetReply, Reply
<1>2. label \in {"MISS", "REVALIDATED"}
  OBVIOUS
<1>3. config.capped => ValuesOf(h, "content-length") = {}
  BY NoValues DEF CopyResponseHeaders
<1> HIDE DEF h, label, a
<1>4. /\ Eligible(q) => ValuesOf(told, "x-cache") = {label}
      /\ config.capped => ValuesOf(told, "content-length") = {}
  BY <1>3, LabelledValues
<1> HIDE DEF told
<1>5. \A n \in {"x-cache", "content-length"} :
         ValuesOf(r.headers, n) = ValuesOf(told, n)
  BY <1>1, Configured, ManagedValues
<1> QED
  BY <1>1, <1>2, <1>4, <1>5

\* A reply from the store has the label it is given.
LEMMA StoreHonest ==
    ASSUME TypeOK, AllCompile, NEW q, NEW label, NEW e,
           NEW r, r = CachedReply(q, e, label)
    PROVE  /\ r.from = "store" /\ r.req = q
           /\ ValuesOf(r.headers, "x-cache") = {label}
           /\ config.capped => ValuesOf(r.headers, "content-length") = {}
<1> DEFINE h == Without(HeadersFromEntry(e),
                        IF config.capped THEN {"content-length"} ELSE {})
           told == AddCacheHeader(h, label)
<1>1. /\ r.headers = CorsLayer(q, Override(told, Target, Target))
      /\ r.from = "store" /\ r.req = q
  BY DEF CachedReply, Reply
<1>3. config.capped => ValuesOf(h, "content-length") = {}
  BY NoValues
<1> HIDE DEF h
<1>4. /\ ValuesOf(told, "x-cache") = {label}
      /\ config.capped => ValuesOf(told, "content-length") = {}
  BY <1>3, LabelledValues
<1> HIDE DEF told
<1>5. \A n \in {"x-cache", "content-length"} :
         ValuesOf(r.headers, n) = ValuesOf(told, n)
  BY <1>1, Configured, ManagedValues
<1> QED
  BY <1>1, <1>4, <1>5

\* What the proxy answers by itself has no X-Cache.
LEMMA ProxyHonest ==
    ASSUME NEW q, NEW h, \A p \in h : p[1] # "x-cache"
    PROVE  ValuesOf(CorsLayer(q, h), "x-cache") = {}
<1>1. "x-cache" \notin CorsNames \cup {"vary"}
  BY DEF CorsNames
<1>2. ASSUME NEW p, p[1] = "x-cache" PROVE p \notin CorsLayer(q, h)
  BY <1>1, <1>2, LayerOthers
<1> QED
  BY <1>2 DEF ValuesOf

\* The proxy never runs with a rule it would refuse to start with.
LEMMA AlwaysCompiled == Spec => []AllCompile
<1>1. Init => AllCompile
  BY DEF Init, AllCompile
<1>2. AllCompile /\ [Next]_vars => AllCompile'
  BY DEF AllCompile, Next, Fetch, Serve, Refuse, Preflight, Retain, Replay,
         Restart, Publish, vars
<1> QED
  BY <1>1, <1>2, PTL DEF Spec

\* X-Cache tells the truth about replies to eligible requests and the proxy's
\* own, whatever the target and the operator put there, and no reply promises
\* a length that the cap may break.
THEOREM AlwaysHonest == Spec => []ManagedHonest
<1>1. Init => ManagedHonest
  BY DEF Init, ManagedHonest
<1>2. TypeOK /\ AllCompile /\ ManagedHonest /\ [Next]_vars => ManagedHonest'
  <2> SUFFICES ASSUME TypeOK, AllCompile, ManagedHonest, [Next]_vars
               PROVE  ManagedHonest'
    OBVIOUS
  <2>1. ASSUME NEW q \in Requests, NEW keep \in BOOLEAN, Fetch(q, keep)
        PROVE  ManagedHonest'
    <3>1. last' = TargetReply(q, answer) /\ config' = config
      BY <2>1 DEF Fetch
    <3>2. /\ last'.from = "target" /\ last'.req = q
          /\ Eligible(q) => ValuesOf(last'.headers, "x-cache")
                               \in {{"MISS"}, {"REVALIDATED"}}
          /\ config.capped => ValuesOf(last'.headers, "content-length") = {}
      BY <3>1, TargetHonest
    <3> QED
      BY <3>1, <3>2 DEF ManagedHonest, Eligible
  <2>2. ASSUME NEW q \in Requests, NEW label \in {"HIT", "REVALIDATED"},
               Serve(q, label)
        PROVE  ManagedHonest'
    <3> DEFINE e == stored[OriginKey(q)]
    <3>1. last' = CachedReply(q, e, label) /\ config' = config
      BY <2>2 DEF Serve
    <3> HIDE DEF e
    <3>2. /\ last'.from = "store" /\ last'.req = q
          /\ ValuesOf(last'.headers, "x-cache") = {label}
          /\ config.capped => ValuesOf(last'.headers, "content-length") = {}
      BY <3>1, StoreHonest
    <3> QED
      BY <3>1, <3>2 DEF ManagedHonest
  <2>3. ASSUME NEW q, NEW status, NEW h, last' = Reply(q, "proxy", status, h),
               \A p \in h : p[1] # "x-cache"
        PROVE  ManagedHonest'
    <3>1. last'.from = "proxy" /\ last'.headers = CorsLayer(q, h)
      BY <2>3 DEF Reply
    <3> QED
      BY <2>3, <3>1, ProxyHonest DEF ManagedHonest
  <2>4. ASSUME NEW q \in Requests, NEW error, Refuse(q, error)
        PROVE  ManagedHonest'
    <3>1. \A p \in {<<"content-type", "any">>} : p[1] # "x-cache"
      OBVIOUS
    <3> QED
      BY <2>3, <2>4, <3>1 DEF Refuse
  <2>5. ASSUME NEW q \in Requests, Preflight(q) PROVE ManagedHonest'
    <3> DEFINE h == AddVary(AddVary({}, "origin"),
                            "access-control-request-headers")
                      \cup CorsHeaders(q.headers)
    <3>1. last' = Reply(q, "proxy", 204, h)
      BY <2>5 DEF Preflight
    <3>2. \A p \in h : p[1] # "x-cache"
      BY CorsHeadersNames DEF AddVary, CorsNames
    <3> HIDE DEF h
    <3> QED
      BY <2>3, <3>1, <3>2
  <2>6. CASE Retain
    BY <2>6 DEF Retain, ManagedHonest, Eligible
  <2>7. ASSUME NEW q \in Requests, Replay(q) PROVE ManagedHonest'
    BY <2>7 DEF Replay, ManagedHonest
  <2>8. ASSUME NEW c \in Configs, Restart(c) PROVE ManagedHonest'
    BY <2>8 DEF Restart, ManagedHonest
  <2>9. CASE (\E a \in Answers : Publish(a)) \/ UNCHANGED vars
    BY <2>9 DEF Publish, vars, ManagedHonest, Eligible
  <2> QED
    BY <2>1, <2>2, <2>4, <2>5, <2>6, <2>7, <2>8, <2>9 DEF Next
<1> QED
  BY <1>1, <1>2, AlwaysCompiled, TypeCorrect, PTL DEF Spec

-----------------------------------------------------------------------------
(* A hit is like a miss *)

\* An entry has the headers cache_headers makes of its answer's.
EntriesKept ==
    \A k \in Keys : stored[k] # NoEntry =>
       stored[k].headers = CacheHeaders(stored[k].of.headers)

\* An entry always has what cacheable headers leave of its answer.
LEMMA EntriesAlwaysKept == Spec => []EntriesKept
<1>1. Init => EntriesKept
  BY DEF Init, EntriesKept
<1>2. TypeOK /\ EntriesKept /\ [Next]_vars => EntriesKept'
  <2> SUFFICES ASSUME TypeOK, EntriesKept, [Next]_vars PROVE EntriesKept'
    OBVIOUS
  <2>1. ASSUME NEW q \in Requests, NEW keep \in BOOLEAN, Fetch(q, keep)
        PROVE  EntriesKept'
    <3> DEFINE e == [status |-> answer.status, of |-> answer,
                     headers |-> CacheHeaders(answer.headers)]
    <3>1. stored' \in {stored, [stored EXCEPT ![OriginKey(q)] = e]}
      BY <2>1 DEF Fetch
    <3>2. e.headers = CacheHeaders(e.of.headers)
      OBVIOUS
    <3>3. DOMAIN stored = Keys
      BY DEF TypeOK
    <3> HIDE DEF e
    <3> QED
      BY <3>1, <3>2, <3>3 DEF EntriesKept
  <2>2. CASE UNCHANGED stored
    BY <2>2 DEF EntriesKept
  <2> QED
    BY <2>1, <2>2
    DEF Next, Serve, Refuse, Preflight, Retain, Replay, Restart, Publish, vars
<1> QED
  BY <1>1, <1>2, TypeCorrect, PTL DEF Spec

\* What a hit and a miss have in common before they are overridden: of the
\* headers of the answer, text that is neither X-Cache nor in Connection.
LEMMA KeptAlike ==
    ASSUME NEW a, NEW p, p[1] \notin Nominated(a.headers) \cup {"x-cache"},
           p[2] \notin Opaque, NEW capped, NEW label, NEW e,
           e.headers = CacheHeaders(a.headers),
           NEW told, told \in {CopyResponseHeaders(a.headers, capped),
                   AddCacheHeader(CopyResponseHeaders(a.headers, capped), label)},
           NEW kept, NEW hit,
           kept = AddCacheHeader(Without(HeadersFromEntry(e),
                                   IF capped THEN {"content-length"} ELSE {}),
                                 hit)
    PROVE  p \in kept <=> p \in told
<1>1. \A l : p # <<"x-cache", l>>
  OBVIOUS
<1>2. p \in told <=> p \in CopyResponseHeaders(a.headers, capped)
  BY <1>1 DEF AddCacheHeader, Insert, Without
<1>3. p \in kept <=> p \in Without(HeadersFromEntry(e),
                                   IF capped THEN {"content-length"} ELSE {})
  BY <1>1 DEF AddCacheHeader, Insert, Without
<1>4. p \in CacheHeaders(a.headers) <=>
        p \in a.headers /\ p[1] \notin HopByHop \cup CorsNames
  BY DEF CacheHeaders, Without
<1> QED
  BY <1>2, <1>3, <1>4 DEF CopyResponseHeaders, HeadersFromEntry, Without

\* The middleware does not look at what it does not write.
LEMMA LayerPoint ==
    ASSUME NEW q, NEW h, NEW k, NEW p, p \in h <=> p \in k
    PROVE  p \in CorsLayer(q, h) <=> p \in CorsLayer(q, k)
BY DEF CorsLayer, AddVary, Without

\* A hit has the headers a miss would have now, overrides in force included.
THEOREM AlwaysLikeMiss == Spec => []HitLikeMiss
<1>1. TypeOK /\ EntriesKept => HitLikeMiss
  <2> SUFFICES ASSUME TypeOK, EntriesKept, NEW q \in Requests,
                      Eligible(q), stored[OriginKey(q)] # NoEntry,
                      stored[OriginKey(q)].of.via = Target
               PROVE  Comparable(CachedReply(q, stored[OriginKey(q)], "HIT"),
                                 stored[OriginKey(q)].of)
                        = Comparable(TargetReply(q, stored[OriginKey(q)].of),
                                     stored[OriginKey(q)].of)
    BY DEF HitLikeMiss
  <2> DEFINE e == stored[OriginKey(q)]
             a == e.of
             label == IF stored[OriginKey(q)] # NoEntry /\ Forces(q)
                      THEN "REVALIDATED" ELSE "MISS"
             kept == AddCacheHeader(
                       Without(HeadersFromEntry(e),
                               IF config.capped THEN {"content-length"} ELSE {}),
                       "HIT")
             told == AddCacheHeader(CopyResponseHeaders(a.headers, config.capped),
                                    label)
             hit == CachedReply(q, e, "HIT")
             miss == TargetReply(q, a)
  <2>1. /\ hit.headers = CorsLayer(q, Override(kept, Target, Target))
        /\ miss.headers = CorsLayer(q, Override(told, Target, Target))
    BY DEF CachedReply, TargetReply, Reply
  <2>2. e.headers = CacheHeaders(a.headers)
    BY DEF EntriesKept, Keys
  <2>3. config.rules \in Seq(Rule)
    BY Configured
  <2> HIDE DEF hit, miss, e
  <2>4. ASSUME NEW p, p[1] \notin Nominated(a.headers) \cup {"x-cache"},
               p[2] \notin Opaque
        PROVE  p \in hit.headers <=> p \in miss.headers
    <3>1. p \in kept <=> p \in told
      <4> DEFINE capped == config.capped
      <4>1. told \in {CopyResponseHeaders(a.headers, capped),
                      AddCacheHeader(CopyResponseHeaders(a.headers, capped), label)}
        OBVIOUS
      <4>2. kept = AddCacheHeader(Without(HeadersFromEntry(e),
                                    IF capped THEN {"content-length"} ELSE {}),
                                  "HIT")
        OBVIOUS
      <4> HIDE DEF kept, told, capped, label, a
      <4> QED
        BY <2>2, <2>4, <4>1, <4>2, KeptAlike
    <3> HIDE DEF kept, told
    <3>2. p \in Override(kept, Target, Target)
            <=> p \in Override(told, Target, Target)
      BY <2>3, <3>1, OverridePoint
    <3> QED
      BY <2>1, <3>2, LayerPoint
  <2>5. Comparable(hit, a) = Comparable(miss, a)
    BY <2>4 DEF Comparable, Without
  <2> QED
    BY <2>5 DEF hit, miss, e
<1> QED
  BY <1>1, TypeCorrect, EntriesAlwaysKept, PTL

-----------------------------------------------------------------------------
(* Headers of one connection *)

\* No reply has them, given to its client or kept in the shared cache.
RepliesClean ==
    \A r \in {last, shared} : r # NoReply => EndToEnd(r.headers)

\* The overrides and the middleware bring no hop-by-hop header in.
LEMMA MadeClean ==
    ASSUME NEW q, NEW h, EndToEnd(h), AllCompile, config.rules \in Seq(Rule),
           NEW asked, NEW final
    PROVE  /\ EndToEnd(CorsLayer(q, Override(h, asked, final)))
           /\ EndToEnd(CorsLayer(q, h))
<1>1. \A n \in HopByHop : n \notin CorsNames \cup {"vary"}
  BY DEF HopByHop, CorsNames
<1>2. ASSUME NEW k, EndToEnd(k) PROVE EndToEnd(CorsLayer(q, k))
  BY <1>1, <1>2, LayerOthers DEF EndToEnd
<1>3. EndToEnd(Override(h, asked, final))
  BY OverrideManaged DEF EndToEnd
<1> QED
  BY <1>2, <1>3

\* The label put on a reply is an end-to-end header.
LEMMA LabelledClean ==
    ASSUME NEW h, EndToEnd(h), NEW label
    PROVE  EndToEnd(AddCacheHeader(h, label))
<1>1. <<"x-cache", label>>[1] = "x-cache" /\ "x-cache" \notin HopByHop
  BY DEF HopByHop
<1> QED
  BY <1>1 DEF EndToEnd, AddCacheHeader, Insert, Without

\* A reply of the target is cleaned on its way ...
LEMMA TargetClean ==
    ASSUME TypeOK, AllCompile, NEW q
    PROVE  EndToEnd(TargetReply(q, answer).headers)
<1> DEFINE h == CopyResponseHeaders(answer.headers, config.capped)
           label == IF stored[OriginKey(q)] # NoEntry /\ Forces(q)
                    THEN "REVALIDATED" ELSE "MISS"
           told == IF Eligible(q) THEN AddCacheHeader(h, label) ELSE h
<1>1. TargetReply(q, answer).headers
        = CorsLayer(q, Override(told, Target, answer.via))
  BY DEF TargetReply, Reply
<1>2. EndToEnd(h)
  BY DEF EndToEnd, CopyResponseHeaders, Without
<1> HIDE DEF h, label
<1>3. EndToEnd(told)
  BY <1>2, LabelledClean
<1> HIDE DEF told
<1> QED
  BY <1>1, <1>3, Configured, MadeClean

\* ... and one from the store was cleaned when it was stored.
LEMMA StoreClean ==
    ASSUME TypeOK, AllCompile, NEW q, NEW label, NEW e, NEW a,
           e.headers = CacheHeaders(a)
    PROVE  EndToEnd(CachedReply(q, e, label).headers)
<1> DEFINE h == Without(HeadersFromEntry(e),
                        IF config.capped THEN {"content-length"} ELSE {})
           told == AddCacheHeader(h, label)
<1>1. CachedReply(q, e, label).headers
        = CorsLayer(q, Override(told, Target, Target))
  BY DEF CachedReply, Reply
<1>2. EndToEnd(h)
  BY DEF EndToEnd, HeadersFromEntry, CacheHeaders, Without
<1> HIDE DEF h
<1>3. EndToEnd(told)
  BY <1>2, LabelledClean
<1> HIDE DEF told
<1> QED
  BY <1>1, <1>3, Configured, MadeClean

\* No client is told a header of a connection that is not its own.
THEOREM AlwaysEndToEnd == Spec => []RepliesEndToEnd
<1>1. Init => RepliesClean
  BY DEF Init, RepliesClean
<1>2. TypeOK /\ AllCompile /\ EntriesKept /\ RepliesClean /\ [Next]_vars
        => RepliesClean'
  <2> SUFFICES ASSUME TypeOK, AllCompile, EntriesKept, RepliesClean, [Next]_vars
               PROVE  RepliesClean'
    OBVIOUS
  <2>1. ASSUME NEW q \in Requests, NEW keep \in BOOLEAN, Fetch(q, keep)
        PROVE  RepliesClean'
    <3>1. last' = TargetReply(q, answer) /\ shared' = shared
      BY <2>1 DEF Fetch
    <3> QED
      BY <3>1, TargetClean DEF RepliesClean
  <2>2. ASSUME NEW q \in Requests, NEW label \in {"HIT", "REVALIDATED"},
               Serve(q, label)
        PROVE  RepliesClean'
    <3> DEFINE e == stored[OriginKey(q)]
    <3>1. last' = CachedReply(q, e, label) /\ shared' = shared
      BY <2>2 DEF Serve
    <3>2. e.headers = CacheHeaders(e.of.headers)
      BY <2>2 DEF Serve, EntriesKept, Keys
    <3> HIDE DEF e
    <3> QED
      BY <3>1, <3>2, StoreClean DEF RepliesClean
  <2>3. ASSUME NEW q, NEW status, NEW h, last' = Reply(q, "proxy", status, h),
               shared' = shared, EndToEnd(h)
        PROVE  RepliesClean'
    <3>1. last'.headers = CorsLayer(q, h)
      BY <2>3 DEF Reply
    <3> QED
      BY <2>3, <3>1, Configured, MadeClean DEF RepliesClean
  <2>4. ASSUME NEW q \in Requests, NEW error, Refuse(q, error)
        PROVE  RepliesClean'
    <3>1. EndToEnd({<<"content-type", "any">>})
      BY DEF EndToEnd, HopByHop
    <3> QED
      BY <2>3, <2>4, <3>1 DEF Refuse
  <2>5. ASSUME NEW q \in Requests, Preflight(q) PROVE RepliesClean'
    <3> DEFINE h == AddVary(AddVary({}, "origin"),
                            "access-control-request-headers")
                      \cup CorsHeaders(q.headers)
    <3>1. last' = Reply(q, "proxy", 204, h) /\ shared' = shared
      BY <2>5 DEF Preflight
    <3>2. EndToEnd(h)
      BY CorsHeadersNames DEF EndToEnd, AddVary, CorsNames, HopByHop
    <3> HIDE DEF h
    <3> QED
      BY <2>3, <3>1, <3>2
  <2>6. CASE Retain
    BY <2>6 DEF Retain, RepliesClean
  <2>7. ASSUME NEW q \in Requests, Replay(q) PROVE RepliesClean'
    BY <2>7 DEF Replay, RepliesClean
  <2>8. ASSUME NEW c \in Configs, Restart(c) PROVE RepliesClean'
    BY <2>8 DEF Restart, RepliesClean
  <2>9. CASE (\E a \in Answers : Publish(a)) \/ UNCHANGED vars
    BY <2>9 DEF Publish, vars, RepliesClean
  <2> QED
    BY <2>1, <2>2, <2>4, <2>5, <2>6, <2>7, <2>8, <2>9 DEF Next
<1>3. RepliesClean => RepliesEndToEnd
  BY DEF RepliesClean, RepliesEndToEnd
<1> QED
  BY <1>1, <1>2, <1>3, TypeCorrect, AlwaysCompiled, EntriesAlwaysKept,
     PTL DEF Spec
=============================================================================
