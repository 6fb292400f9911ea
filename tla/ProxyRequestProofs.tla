------------------------- MODULE ProxyRequestProofs -------------------------
(***************************************************************************)
(* Proofs about ProxyRequest for any policy, any redirect graph, any       *)
(* number of tiers and any number of concurrent requests.                  *)
(***************************************************************************)
EXTENDS ProxyRequest, TLAPS

\* No request is under way at first.
LEMMA IdleOK == Idle \in Request /\ RequestOK(Idle)
  <1>1. /\ 1 \in 1 .. NumTiers + 1 /\ 0 \in 0 .. MaxRedirects
        /\ {} \in SUBSET Tiers /\ {} \in SUBSET Urls /\ {} \in SUBSET Rules
    BY RequestAssumption
  <1>2. Idle \in Request
    BY <1>1 DEF Idle, Request, Origins
  <1>3. RequestOK(Idle)
    BY RequestAssumption DEF Idle, RequestOK
  <1> QED BY <1>2, <1>3

\* The initial states satisfy the invariant.
LEMMA InitialInv == Init => IndInv
  <1> SUFFICES ASSUME Init PROVE IndInv
    OBVIOUS
  <1>1. TypeOK
    <2>1. Left \cup {NoEntry} \subseteq Cached \cup {NoEntry}
      BY RequestAssumption
    <2>2. cache \in [Planned -> [Origins -> Cached \cup {NoEntry}]]
      BY <2>1 DEF Init
    <2> QED BY <2>2, IdleOK DEF Init, TypeOK
  <1>2. CacheOK
    <2>1. ASSUME NEW u \in Planned, NEW o \in Origins, cache[u][o] # NoEntry
          PROVE  ~ cache[u][o].here
      <3>1. cache[u][o] \in Left
        BY <2>1 DEF Init
      <3> QED BY <3>1, RequestAssumption
    <2> QED BY <2>1 DEF CacheOK
  <1>3. \A s \in Slots : RequestOK(req[s])
    BY IdleOK DEF Init
  <1> QED BY <1>1, <1>2, <1>3 DEF IndInv

\* A step that puts a request in order into its slot, and leaves the counters
\* and the cache in order, preserves the invariant.
LEMMA SlotStep ==
  ASSUME IndInv, NEW s \in Slots, NEW q \in Request, RequestOK(q), Goto(s, q),
         spent' \in [Tiers -> [Origins -> Nat]],
         cache' \in [Planned -> [Origins -> Cached \cup {NoEntry}]],
         CacheOK'
  PROVE  IndInv'
  <1>1. req \in [Slots -> Request] /\ \A t \in Slots : RequestOK(req[t])
    BY DEF IndInv, TypeOK
  <1>2. req' = [req EXCEPT ![s] = q]
    BY DEF Goto
  <1>3. req' \in [Slots -> Request]
    BY <1>1, <1>2
  <1>4. ASSUME NEW t \in Slots PROVE RequestOK(req'[t])
    <2>1. req'[t] = q \/ req'[t] = req[t]
      BY <1>1, <1>2
    <2> QED BY <1>1, <2>1
  <1> QED BY <1>3, <1>4 DEF IndInv, TypeOK, RequestOK

\* The same for a step that touches nothing but its slot.
LEMMA LocalStep ==
  ASSUME IndInv, NEW s \in Slots, NEW q \in Request, RequestOK(q), Goto(s, q),
         UNCHANGED <<spent, cache>>
  PROVE  IndInv'
  <1>1. /\ spent' \in [Tiers -> [Origins -> Nat]]
        /\ cache' \in [Planned -> [Origins -> Cached \cup {NoEntry}]]
        /\ CacheOK'
    BY DEF IndInv, TypeOK, CacheOK
  <1> QED BY <1>1, SlotStep

\* What every program point is entitled to assume.
LEMMA Known ==
  ASSUME IndInv, NEW s \in Slots
  PROVE  req[s] \in Request /\ RequestOK(req[s])
  BY DEF IndInv, TypeOK

-----------------------------------------------------------------------------
(* The gate *)

\* What passes the policy is permitted, what does not has no path.
LEMMA ArriveStep ==
  ASSUME IndInv, NEW s \in Slots, Arrive(s)
  PROVE  IndInv'
  <1>0. PICK u \in Urls, o \in Origins, p \in BOOLEAN, f \in BOOLEAN :
        \E h \in {o, NoSite} :
          LET r == [Idle EXCEPT !.url = u, !.site = o, !.header = h,
                                !.private = p, !.force = f, !.at = u,
                                !.left = MaxRedirects]
          IN  Goto(s, IF Permitted(u, o) THEN [r EXCEPT !.pc = "tier"]
                                         ELSE Ended(r, "refused"))
    BY DEF Arrive
  <1>1. PICK h \in {o, NoSite} :
          LET r == [Idle EXCEPT !.url = u, !.site = o, !.header = h,
                                !.private = p, !.force = f, !.at = u,
                                !.left = MaxRedirects]
          IN  Goto(s, IF Permitted(u, o) THEN [r EXCEPT !.pc = "tier"]
                                         ELSE Ended(r, "refused"))
    BY <1>0
  <1> DEFINE r == [Idle EXCEPT !.url = u, !.site = o, !.header = h,
                               !.private = p, !.force = f, !.at = u,
                               !.left = MaxRedirects]
             go == [r EXCEPT !.pc = "tier"]
             no == [r EXCEPT !.pc = "done", !.end = "refused"]
  <1>2. /\ 1 \in 1 .. NumTiers + 1 /\ MaxRedirects \in 0 .. MaxRedirects
        /\ {} \in SUBSET Tiers /\ {} \in SUBSET Urls /\ {} \in SUBSET Rules
        /\ {} = 1 .. 1 - 1 /\ MaxRedirects \in Nat /\ h \in Origins
    BY RequestAssumption DEF Origins
  <1>3. go \in Request /\ no \in Request
    BY <1>2 DEF Idle, Request
  <1>4. CASE Permitted(u, o)
    <2>1. RequestOK(go)
      BY <1>2, <1>4 DEF Idle, RequestOK
    <2>2. Goto(s, go) /\ UNCHANGED <<spent, cache>>
      BY <1>1, <1>4 DEF Arrive
    <2> HIDE DEF go
    <2> QED BY <1>3, <2>1, <2>2, LocalStep
  <1>5. CASE ~ Permitted(u, o)
    <2>1. RequestOK(no)
      BY <1>2, RequestAssumption DEF Idle, RequestOK
    <2>2. Goto(s, no) /\ UNCHANGED <<spent, cache>>
      BY <1>1, <1>5 DEF Arrive, Ended
    <2> HIDE DEF no
    <2> QED BY <1>3, <2>1, <2>2, LocalStep
  <1> QED BY <1>4, <1>5

\* An error ends a request in order.
LEMMA EndedOK ==
  ASSUME NEW r \in Request, RequestOK(r),
         NEW how \in {"refused", "limited", "unavailable", "failed",
                      "too_large"}
  PROVE  Ended(r, how) \in Request /\ RequestOK(Ended(r, how))
  <1>1. Ended(r, how) \in Request
    BY DEF Ended, Request
  <1>2. RequestOK(Ended(r, how))
    BY DEF Ended, Request, RequestOK, Plan
  <1> QED BY <1>1, <1>2

\* A tier is paid for before the next one is asked.
LEMMA CheckTierStep ==
  ASSUME IndInv, NEW s \in Slots, CheckTier(s)
  PROVE  IndInv'
  <1> DEFINE r == req[s]
             i == r.tier
             o == r.site
             q == [r EXCEPT !.tier = i + 1, !.paid = r.paid \cup {i}]
  <1>1. r \in Request /\ RequestOK(r) /\ r.pc = "tier" /\ i \in Tiers
    BY Known DEF CheckTier, At
  <1>2. UNCHANGED cache
    BY DEF CheckTier
  <1>3. /\ cache' \in [Planned -> [Origins -> Cached \cup {NoEntry}]]
        /\ CacheOK'
        /\ spent \in [Tiers -> [Origins -> Nat]]
    BY <1>2 DEF IndInv, TypeOK, CacheOK
  <1>4. CASE /\ spent' = [spent EXCEPT ![i][o] = @ + 1]
             /\ Goto(s, q)
    <2>1. o \in Origins
      BY <1>1 DEF Request
    <2>2. spent' \in [Tiers -> [Origins -> Nat]]
      <3>1. spent' = [spent EXCEPT ![i][o] = spent[i][o] + 1]
        BY <1>1, <1>3, <1>4, <2>1
      <3>2. spent[i][o] + 1 \in Nat
        BY <1>1, <1>3, <2>1
      <3> HIDE DEF i, o
      <3> QED BY <1>1, <1>3, <2>1, <3>1, <3>2
    <2>3. i + 1 \in 1 .. NumTiers + 1
      BY <1>1, RequestAssumption DEF Tiers
    <2>4. r.paid \cup {i} = 1 .. (i + 1) - 1
      <3>1. r.paid = 1 .. i - 1 /\ i \in 1 .. NumTiers /\ NumTiers \in Nat
        BY <1>1, RequestAssumption DEF Tiers, RequestOK
      <3> HIDE DEF i
      <3>2. (1 .. i - 1) \cup {i} = 1 .. (i + 1) - 1
        BY <3>1
      <3> QED BY <3>1, <3>2
    <2>5. r.paid \cup {i} \in SUBSET Tiers
      BY <1>1 DEF Request
    <2>6. q \in Request
      BY <1>1, <2>3, <2>5 DEF Request
    <2>7. RequestOK(q)
      BY <1>1, <2>4 DEF Request, RequestOK, Plan
    <2> HIDE DEF q, i, o
    <2> QED BY <1>3, <1>4, <2>2, <2>6, <2>7, SlotStep
  <1>5. CASE /\ UNCHANGED spent
             /\ \/ Goto(s, Ended(r, "limited"))
                \/ Goto(s, Ended(r, "unavailable"))
    <2>1. /\ Ended(r, "limited") \in Request
          /\ RequestOK(Ended(r, "limited"))
          /\ Ended(r, "unavailable") \in Request
          /\ RequestOK(Ended(r, "unavailable"))
      BY <1>1, EndedOK
    <2> QED BY <1>2, <1>5, <2>1, LocalStep
  <1>6. q = [r EXCEPT !.tier = i + 1, !.paid = @ \cup {i}]
    BY <1>1 DEF Request
  <1> QED BY <1>4, <1>5, <1>6 DEF CheckTier

\* A hit was paid for, and what this process fetched is of an allowed target.
LEMMA LookupStep ==
  ASSUME IndInv, NEW s \in Slots, Lookup(s)
  PROVE  IndInv'
  <1> DEFINE r == req[s]
  <1>1. r \in Request /\ RequestOK(r) /\ r.pc = "tier" /\ r.tier \notin Tiers
    BY Known DEF Lookup, At
  <1>2. PICK e \in IF Plan(r) THEN {cache[r.url][r.header], NoEntry}
                              ELSE {NoEntry} :
          IF e # NoEntry /\ ~ r.force /\ e.fresh
          THEN \/ Goto(s, FromCache([r EXCEPT !.entry = e], "HIT"))
               \/ Goto(s, Ended([r EXCEPT !.entry = e], "too_large"))
          ELSE Goto(s, [r EXCEPT !.pc = "send", !.entry = e])
    BY DEF Lookup
  <1>3. UNCHANGED <<spent, cache>>
    BY DEF Lookup
  <1> DEFINE q == [r EXCEPT !.entry = e]
  <1>4. /\ e \in Cached \cup {NoEntry}
        /\ e # NoEntry => /\ Plan(r) /\ Permitted(r.url, r.site)
                          /\ e.here => Permitted(e.via, r.site)
    <2>1. CASE e = NoEntry
      BY <2>1
    <2>2. CASE e # NoEntry
      <3>1. Plan(r) /\ e = cache[r.url][r.header]
        BY <1>2, <2>2
      <3>2. r.url \in Planned /\ r.header \in Origins
        BY <1>1, <3>1 DEF Plan, Request
      <3>3. e \in Cached /\ (e.here => TargetAllowed(e.via))
        BY <2>2, <3>1, <3>2 DEF IndInv, TypeOK, CacheOK
      <3>4. Permitted(r.url, r.site)
        BY <1>1 DEF RequestOK
      <3> QED BY <3>1, <3>3, <3>4 DEF Permitted
    <2> QED BY <2>1, <2>2
  <1>5. r.paid = Tiers
    <2>1. r.tier \in 1 .. NumTiers + 1 /\ r.paid = 1 .. r.tier - 1
      BY <1>1 DEF Request, RequestOK
    <2>2. r.tier - 1 = NumTiers
      <3> DEFINE t == r.tier
      <3>1. t \in 1 .. NumTiers + 1 /\ t \notin 1 .. NumTiers
        BY <1>1, <2>1 DEF Tiers
      <3> HIDE DEF t
      <3>2. t - 1 = NumTiers
        BY <3>1, RequestAssumption
      <3> QED BY <3>2 DEF t
    <2> QED BY <2>1, <2>2 DEF Tiers
  <1>6. q \in Request /\ q.entry = e /\ q.paid = Tiers /\ ~ q.store
        /\ q.hops = 0 /\ q.force = r.force /\ q.pc = "tier"
    BY <1>1, <1>4, <1>5 DEF Request, RequestOK
  <1>7. CASE e # NoEntry /\ ~ r.force /\ e.fresh
    <2> DEFINE hit == FromCache(q, "HIT")
               big == Ended(q, "too_large")
    <2>1. hit \in Request /\ big \in Request
      BY <1>6 DEF FromCache, Ended, Request, Applied
    <2>2. RequestOK(hit) /\ RequestOK(big)
      BY <1>1, <1>4, <1>5, <1>7
      DEF FromCache, Ended, Request, RequestOK, Plan
    <2>3. Goto(s, hit) \/ Goto(s, big)
      BY <1>2, <1>7
    <2> HIDE DEF hit, big
    <2> QED BY <1>3, <2>1, <2>2, <2>3, LocalStep
  <1>8. CASE ~ (e # NoEntry /\ ~ r.force /\ e.fresh)
    <2> DEFINE go == [r EXCEPT !.pc = "send", !.entry = e]
    <2>1. go \in Request
      BY <1>1, <1>4 DEF Request
    <2>2. RequestOK(go)
      BY <1>1, <1>4, <1>5, <1>8, RequestAssumption
      DEF Request, RequestOK, Plan
    <2>3. Goto(s, go)
      BY <1>2, <1>8
    <2> HIDE DEF go
    <2> QED BY <1>3, <2>1, <2>2, <2>3, LocalStep
  <1> QED BY <1>7, <1>8

-----------------------------------------------------------------------------
(* The upstream *)

\* After a contact the request is in order, whatever comes next.
LEMMA ContactedOK ==
  ASSUME NEW r \in Request, RequestOK(r), r.pc = "send"
  PROVE  LET c == Contacted(r)
         IN  /\ c \in Request
             /\ c.hops = r.hops + 1 /\ c.hops \in Nat /\ c.hops > 0
             /\ c.hops <= MaxRedirects + 1
             /\ c.left = r.left /\ c.site = r.site /\ c.at = r.at
             /\ c.url = r.url /\ c.force = r.force /\ c.entry = r.entry
             /\ c.private = r.private /\ c.paid = Tiers /\ c.pc = "send"
             /\ ~ c.store /\ c.label = "NONE" /\ c.end = "none"
             /\ c.path = r.path \cup {r.at}
             /\ \A u \in c.path : Permitted(u, c.site)
             /\ c.url \in Urls /\ c.at \in Urls
             /\ Permitted(c.url, c.site) /\ Permitted(c.at, c.site)
             /\ c.header = r.header
             /\ c.entry # NoEntry => /\ Plan(c)
                                     /\ c.entry.here =>
                                          Permitted(c.entry.via, c.site)
                                     /\ c.force \/ ~ c.entry.fresh
             /\ c.private => c.entry = NoEntry
  <1>1. /\ r.at \in Urls /\ r.hops = MaxRedirects - r.left /\ r.hops \in Nat
        /\ r.left \in 0 .. MaxRedirects
    BY DEF Request, RequestOK
  <1>2. r.path \cup {r.at} \in SUBSET Urls /\ r.hops + 1 \in Nat
        /\ r.hops + 1 > 0 /\ r.hops + 1 <= MaxRedirects + 1
    BY <1>1, RequestAssumption DEF Request
  <1>3. Contacted(r) \in Request
    BY <1>2 DEF Contacted, Request
  <1> QED BY <1>1, <1>2, <1>3 DEF Contacted, Request, RequestOK, Plan

\* A contact that ends the request.
LEMMA ContactEnds ==
  ASSUME NEW r \in Request, RequestOK(r), r.pc = "send",
         NEW how \in {"refused", "failed", "too_large"}
  PROVE  /\ Ended(Contacted(r), how) \in Request
         /\ RequestOK(Ended(Contacted(r), how))
  <1> DEFINE c == Contacted(r)
  <1>1. c \in Request
    BY ContactedOK
  <1>2. Ended(c, how) \in Request
    BY <1>1 DEF Ended, Request
  <1>3. RequestOK(Ended(c, how))
    <2> HIDE DEF c
    <2> QED BY ContactedOK DEF c, Ended, Request, RequestOK, Plan
  <1> QED BY <1>2, <1>3

\* A failed contact ends the request.
LEMMA UpstreamFailsStep ==
  ASSUME IndInv, NEW s \in Slots, UpstreamFails(s)
  PROVE  IndInv'
  <1>1. req[s] \in Request /\ RequestOK(req[s]) /\ req[s].pc = "send"
    BY Known DEF UpstreamFails, At
  <1>2. Goto(s, Ended(Contacted(req[s]), "failed"))
        /\ UNCHANGED <<spent, cache>>
    BY DEF UpstreamFails
  <1> QED BY <1>1, <1>2, ContactEnds, LocalStep

\* A confirmed entry keeps the URL it came from.
LEMMA NotModifiedStep ==
  ASSUME IndInv, NEW s \in Slots, NotModified(s)
  PROVE  IndInv'
  <1> DEFINE r == Contacted(req[s])
             served == FromCache(r, "REVALIDATED")
  <1>1. req[s] \in Request /\ RequestOK(req[s]) /\ req[s].pc = "send"
    BY Known DEF NotModified, At
  <1>2. r.entry # NoEntry
    BY DEF NotModified
  <1>3. /\ r \in Request /\ Plan(r) /\ r.entry \in Cached
        /\ Permitted(r.url, r.site)
        /\ r.url \in Planned /\ r.header \in Origins
        /\ r.entry.here => /\ Permitted(r.entry.via, r.site)
                           /\ TargetAllowed(r.entry.via)
    BY <1>1, <1>2, ContactedOK DEF Plan, Request, Permitted
  <1>4. /\ Ended(r, "too_large") \in Request
        /\ RequestOK(Ended(r, "too_large"))
        /\ Ended(r, "failed") \in Request /\ RequestOK(Ended(r, "failed"))
    BY <1>1, ContactEnds
  <1>5. served \in Request /\ RequestOK(served)
    <2>1. Applied(r.url, r.url) \in SUBSET Rules
      BY DEF Applied
    <2>2. /\ r.hops > 0 /\ r.hops <= MaxRedirects + 1 /\ r.paid = Tiers
          /\ ~ r.store /\ ~ r.private /\ (r.force \/ ~ r.entry.fresh)
          /\ \A u \in r.path : Permitted(u, r.site)
      BY <1>1, <1>2, ContactedOK
    <2> HIDE DEF r
    <2>3. served \in Request
      BY <1>3, <2>1 DEF FromCache, Request
    <2>4. RequestOK(served)
      BY <1>2, <1>3, <2>2 DEF FromCache, Request, RequestOK, Plan
    <2> QED BY <2>3, <2>4
  <1>6. CASE \E fresh \in BOOLEAN :
               /\ cache' = [cache EXCEPT ![r.url][r.header] =
                               [r.entry EXCEPT !.fresh = fresh]]
               /\ \/ Goto(s, served)
                  \/ Goto(s, Ended(r, "too_large"))
    <2>1. PICK fresh \in BOOLEAN :
               /\ cache' = [cache EXCEPT ![r.url][r.header] =
                               [r.entry EXCEPT !.fresh = fresh]]
               /\ \/ Goto(s, served)
                  \/ Goto(s, Ended(r, "too_large"))
      BY <1>6
    <2> DEFINE e == [r.entry EXCEPT !.fresh = fresh]
    <2>2. e \in Cached /\ e.via = r.entry.via /\ e.here = r.entry.here
      BY <1>3, Zenon DEF Cached
    <2>3. cache' = [cache EXCEPT ![r.url][r.header] = e]
      BY <2>1
    <2>4. Goto(s, served) \/ Goto(s, Ended(r, "too_large"))
      BY <2>1
    <2> HIDE DEF e, served, r
    <2>5. cache \in [Planned -> [Origins -> Cached \cup {NoEntry}]]
          /\ CacheOK
      BY DEF IndInv, TypeOK
    <2>6. cache' \in [Planned -> [Origins -> Cached \cup {NoEntry}]]
      BY <1>3, <2>2, <2>3, <2>5
    <2>7. CacheOK'
      BY <1>3, <2>2, <2>3, <2>5 DEF CacheOK
    <2>8. spent' \in [Tiers -> [Origins -> Nat]]
      BY DEF NotModified, IndInv, TypeOK
    <2> QED BY <1>4, <1>5, <2>4, <2>6, <2>7, <2>8, SlotStep
  <1>7. CASE Goto(s, Ended(r, "failed")) /\ UNCHANGED cache
    <2>1. UNCHANGED <<spent, cache>>
      BY <1>7 DEF NotModified
    <2> QED BY <1>4, <1>7, <2>1, LocalStep
  <1> QED BY <1>6, <1>7 DEF NotModified

\* The next hop is permitted, and takes one off the budget.
LEMMA RedirectStep ==
  ASSUME IndInv, NEW s \in Slots, Redirect(s)
  PROVE  IndInv'
  <1> DEFINE r == Contacted(req[s])
  <1>1. req[s] \in Request /\ RequestOK(req[s]) /\ req[s].pc = "send"
    BY Known DEF Redirect, At
  <1>2. UNCHANGED <<spent, cache>>
    BY DEF Redirect
  <1>3. /\ Ended(r, "failed") \in Request /\ RequestOK(Ended(r, "failed"))
        /\ Ended(r, "refused") \in Request /\ RequestOK(Ended(r, "refused"))
    BY <1>1, ContactEnds
  <1>4. CASE Goto(s, Ended(r, "failed"))
    BY <1>2, <1>3, <1>4, LocalStep
  <1>5. CASE Goto(s, Ended(r, "refused"))
    BY <1>2, <1>3, <1>5, LocalStep
  <1>6. ASSUME NEW u \in Urls, r.left # 0, Permitted(u, r.site),
               Goto(s, [r EXCEPT !.at = u, !.left = @ - 1])
        PROVE  IndInv'
    <2> DEFINE q == [r EXCEPT !.at = u, !.left = r.left - 1]
    <2>1. /\ r \in Request /\ r.hops = MaxRedirects - r.left + 1
          /\ r.left \in 0 .. MaxRedirects
      BY <1>1, ContactedOK DEF Request, RequestOK
    <2>2. /\ r.left - 1 \in 0 .. MaxRedirects
          /\ r.hops = MaxRedirects - (r.left - 1)
      BY <1>6, <2>1, RequestAssumption
    <2>3. q \in Request
      <3> HIDE DEF r
      <3> QED BY <2>1, <2>2 DEF Request
    <2>4. RequestOK(q)
      <3>1. /\ r.hops <= MaxRedirects + 1 /\ r.paid = Tiers /\ ~ r.store
            /\ r.label = "NONE" /\ r.end = "none" /\ r.url \in Urls
            /\ r.pc = "send"
            /\ Permitted(r.url, r.site)
            /\ \A x \in r.path : Permitted(x, r.site)
            /\ r.entry # NoEntry => /\ Plan(r)
                                    /\ r.entry.here =>
                                         Permitted(r.entry.via, r.site)
                                    /\ r.force \/ ~ r.entry.fresh
            /\ r.private => r.entry = NoEntry
        BY <1>1, ContactedOK
      <3> HIDE DEF r
      <3> QED BY <1>6, <2>1, <2>2, <3>1 DEF Request, RequestOK, Plan
    <2>5. Goto(s, q)
      <3> HIDE DEF r
      <3> QED BY <1>6, <2>1 DEF Request
    <2> HIDE DEF q
    <2> QED BY <1>2, <2>3, <2>4, <2>5, LocalStep
  <1> HIDE DEF r
  <1> QED BY <1>4, <1>5, <1>6 DEF Redirect, r

\* Only what the plan covers is labelled and stored.
LEMMA FullStep ==
  ASSUME IndInv, NEW s \in Slots, Full(s)
  PROVE  IndInv'
  <1> DEFINE r == Contacted(req[s])
  <1>1. req[s] \in Request /\ RequestOK(req[s]) /\ req[s].pc = "send"
    BY Known DEF Full, At
  <1>2. UNCHANGED <<spent, cache>>
    BY DEF Full
  <1>3. Ended(r, "too_large") \in Request /\ RequestOK(Ended(r, "too_large"))
    BY <1>1, ContactEnds
  <1>4. CASE Goto(s, Ended(r, "too_large"))
    BY <1>2, <1>3, <1>4, LocalStep
  <1>5. ASSUME NEW storable \in BOOLEAN,
               Goto(s, [r EXCEPT
                   !.pc = "stream",
                   !.store = storable /\ Plan(r),
                   !.rules = Applied(r.url, r.at),
                   !.label = IF ~ Plan(r) THEN "NONE"
                             ELSE IF r.entry # NoEntry /\ r.force
                                  THEN "REVALIDATED" ELSE "MISS"])
        PROVE  IndInv'
    <2>1. PICK b \in BOOLEAN : b = (storable /\ Plan(r))
      OBVIOUS
    <2>2. PICK l \in {"NONE", "MISS", "REVALIDATED"} :
            l = IF ~ Plan(r) THEN "NONE"
                ELSE IF r.entry # NoEntry /\ r.force
                     THEN "REVALIDATED" ELSE "MISS"
      OBVIOUS
    <2> DEFINE q == [r EXCEPT !.pc = "stream", !.store = b,
                              !.rules = Applied(r.url, r.at), !.label = l]
    <2>3. Goto(s, q)
      BY <1>5, <2>1, <2>2, Zenon
    <2>4. Applied(r.url, r.at) \in SUBSET Rules
      BY DEF Applied
    <2>5. /\ r \in Request /\ r.hops > 0
          /\ r.hops <= MaxRedirects + 1 /\ r.paid = Tiers
          /\ r.end = "none" /\ r.url \in Urls /\ r.at \in Urls
          /\ Permitted(r.url, r.site) /\ Permitted(r.at, r.site)
          /\ \A x \in r.path : Permitted(x, r.site)
          /\ r.entry # NoEntry => /\ Plan(r)
                                  /\ r.entry.here =>
                                       Permitted(r.entry.via, r.site)
                                  /\ r.force \/ ~ r.entry.fresh
          /\ r.private => r.entry = NoEntry
      BY <1>1, ContactedOK
    <2>6. Plan(r) => ~ r.private
      BY DEF Plan
    <2> HIDE DEF r
    <2>7. q \in Request
      BY <2>4, <2>5 DEF Request
    <2>8. RequestOK(q)
      BY <2>1, <2>2, <2>5, <2>6 DEF Request, RequestOK, Plan
    <2> HIDE DEF q
    <2> QED BY <1>2, <2>3, <2>7, <2>8, LocalStep
  <1> HIDE DEF r
  <1> QED BY <1>4, <1>5 DEF Full, r

\* What is stored came from the permitted last hop.
LEMMA StreamEndsStep ==
  ASSUME IndInv, NEW s \in Slots, StreamEnds(s)
  PROVE  IndInv'
  <1> DEFINE r == req[s]
             q == Ended(r, "served")
  <1>1. r \in Request /\ RequestOK(r) /\ r.pc = "stream"
    BY Known DEF StreamEnds, At
  <1>2. q \in Request
    BY <1>1 DEF Ended, Request
  <1>3. RequestOK(q)
    BY <1>1 DEF Ended, Request, RequestOK, Plan
  <1>4. Goto(s, q) /\ UNCHANGED spent
    BY DEF StreamEnds
  <1>5. /\ cache \in [Planned -> [Origins -> Cached \cup {NoEntry}]]
        /\ CacheOK
        /\ spent' \in [Tiers -> [Origins -> Nat]]
    BY <1>4 DEF IndInv, TypeOK
  <1>6. CASE r.store /\ cache' = [cache EXCEPT ![r.url][r.header] =
                                     [fresh |-> TRUE, via |-> r.at, here |-> TRUE]]
    <2> DEFINE e == [fresh |-> TRUE, via |-> r.at, here |-> TRUE]
    <2>1. /\ r.url \in Planned /\ r.header \in Origins /\ r.at \in Urls
          /\ TargetAllowed(r.at)
      BY <1>1, <1>6 DEF Request, RequestOK, Plan, Permitted
    <2>2. e \in Cached /\ e.via = r.at
      BY <2>1, Zenon DEF Cached
    <2>3. cache' = [cache EXCEPT ![r.url][r.header] = e]
      BY <1>6
    <2> HIDE DEF e, q, r
    <2>4. cache' \in [Planned -> [Origins -> Cached \cup {NoEntry}]]
      BY <1>5, <2>1, <2>2, <2>3
    <2>5. CacheOK'
      BY <1>5, <2>1, <2>2, <2>3 DEF CacheOK
    <2> QED BY <1>2, <1>3, <1>4, <1>5, <2>4, <2>5, SlotStep
  <1>7. CASE UNCHANGED cache
    BY <1>2, <1>3, <1>4, <1>7, LocalStep
  <1> QED BY <1>6, <1>7 DEF StreamEnds

\* A finished request leaves nothing behind.
LEMMA CloseStep ==
  ASSUME IndInv, NEW s \in Slots, Close(s)
  PROVE  IndInv'
  BY IdleOK, LocalStep DEF Close

-----------------------------------------------------------------------------
(* The environment *)

\* Counters starting anew disturb no request.
LEMMA WindowStep ==
  ASSUME IndInv, NEW i \in Tiers, NEW o \in Origins, NewWindow(i, o)
  PROVE  IndInv'
  <1>1. /\ spent \in [Tiers -> [Origins -> Nat]]
        /\ spent' = [spent EXCEPT ![i][o] = 0]
        /\ UNCHANGED <<req, cache>>
    BY DEF IndInv, TypeOK, NewWindow
  <1>2. spent' \in [Tiers -> [Origins -> Nat]]
    BY <1>1
  <1> QED BY <1>1, <1>2 DEF IndInv, TypeOK, CacheOK, RequestOK

\* Nor do entries that age or go.
LEMMA AgeStep ==
  ASSUME IndInv, NEW u \in Planned, NEW o \in Origins, Age(u, o)
  PROVE  IndInv'
  <1>1. /\ cache \in [Planned -> [Origins -> Cached \cup {NoEntry}]]
        /\ CacheOK /\ cache[u][o] # NoEntry
        /\ UNCHANGED <<req, spent>>
    BY DEF IndInv, TypeOK, Age
  <1> DEFINE old == [cache[u][o] EXCEPT !.fresh = FALSE]
  <1>2. /\ old \in Cached /\ old.via = cache[u][o].via
        /\ old.here = cache[u][o].here
    <2>1. cache[u][o] \in Cached
      BY <1>1
    <2> QED BY <2>1, Zenon DEF Cached
  <1>3. cache' = [cache EXCEPT ![u][o] = old]
        \/ cache' = [cache EXCEPT ![u][o] = NoEntry]
    BY <1>1 DEF Age
  <1> HIDE DEF old
  <1>4. cache' \in [Planned -> [Origins -> Cached \cup {NoEntry}]]
    BY <1>1, <1>2, <1>3
  <1>5. CacheOK'
    <2> SUFFICES ASSUME NEW w \in Planned, NEW p \in Origins,
                        cache'[w][p] # NoEntry, cache'[w][p].here
                 PROVE  TargetAllowed(cache'[w][p].via)
      BY DEF CacheOK, TargetAllowed, IsAllowed
    <2>1. cache'[w][p] = cache[w][p] \/ (w = u /\ p = o /\ cache'[w][p] = old)
      BY <1>1, <1>3
    <2>2. cache[w][p].here /\ cache'[w][p].via = cache[w][p].via
          /\ cache[w][p] # NoEntry
      BY <1>1, <1>2, <2>1
    <2> QED BY <1>1, <2>2 DEF CacheOK
  <1> QED BY <1>1, <1>4, <1>5 DEF IndInv, TypeOK, RequestOK

\* Every step preserves the invariant.
LEMMA Preserved == IndInv /\ [Next]_vars => IndInv'
  <1> SUFFICES ASSUME IndInv, [Next]_vars PROVE IndInv'
    OBVIOUS
  <1>1. ASSUME NEW s \in Slots, Arrive(s) \/ Handle(s) \/ Close(s)
        PROVE  IndInv'
    BY <1>1, ArriveStep, CheckTierStep, LookupStep, UpstreamFailsStep,
       NotModifiedStep, RedirectStep, FullStep, StreamEndsStep, CloseStep
    DEF Handle
  <1>2. CASE UNCHANGED vars
    BY <1>2 DEF vars, IndInv, TypeOK, CacheOK, RequestOK
  <1> QED BY <1>1, <1>2, WindowStep, AgeStep DEF Next

-----------------------------------------------------------------------------
(* Theorems *)

\* The inductive invariant of the request path.
THEOREM RequestInvariance == Spec => []IndInv
  <1> QED BY InitialInv, Preserved, PTL DEF Spec

\* validate_target_policy guards every hop: no URL is contacted that the
\* policy denies to the requesting site.
THEOREM HopsArePermitted == Spec => []EveryHopPermitted
  <1>1. IndInv => EveryHopPermitted
    BY DEF IndInv, RequestOK, EveryHopPermitted
  <1> QED BY <1>1, RequestInvariance, PTL

\* A cached response is only used for those who could have asked for it, and
\* what this process has fetched for those who could have asked for its source.
THEOREM CacheObeysPolicy == Spec => []CacheBehindPolicy
  <1>1. IndInv => CacheBehindPolicy
    BY DEF IndInv, RequestOK, CacheBehindPolicy
  <1> QED BY <1>1, RequestInvariance, PTL

\* redirects_left bounds the contacts of a request.
THEOREM RedirectsAreBounded == Spec => []HopsBounded
  <1>1. IndInv => HopsBounded
    BY DEF IndInv, RequestOK, HopsBounded
  <1> QED BY <1>1, RequestInvariance, PTL

\* Rate-limit tiers come before the cache and the upstream.
THEOREM TiersComeFirst == Spec => []ChargedFirst
  <1>1. IndInv => ChargedFirst
    BY DEF IndInv, RequestOK, ChargedFirst
  <1> QED BY <1>1, RequestInvariance, PTL

\* Requests with credentials never touch the cache.
THEOREM CredentialsNeverCached == Spec => []CredentialsBypass
  <1>1. IndInv => CredentialsBypass
    BY DEF IndInv, RequestOK, CredentialsBypass
  <1> QED BY <1>1, RequestInvariance, PTL

\* X-Cache tells the truth.
THEOREM LabelsAreHonest == Spec => []LabelsHonest
  <1>1. IndInv => LabelsHonest
    BY DEF IndInv, RequestOK, LabelsHonest
  <1> QED BY <1>1, RequestInvariance, PTL

-----------------------------------------------------------------------------
(* Where the documentation of the overrides holds *)

\* The request is where it was asked for, and the entry it has in hand came
\* from there, if this process has fetched it.
DirectRequest(r) ==
  /\ r.pc # "idle" => r.at = r.url
  /\ r.entry # NoEntry /\ r.entry.here => r.entry.via = r.url
  /\ r.label = "HIT" => r.rules = Applied(r.url, r.url)

DirectCache ==
  \A u \in Planned, o \in Origins :
     cache[u][o] # NoEntry /\ cache[u][o].here => cache[u][o].via = u

Direct == DirectCache /\ \A s \in Slots : DirectRequest(req[s])

\* A request that moves on leaves the others where they are.
LEMMA DirectSlot ==
  ASSUME IndInv, Direct, NEW s \in Slots, NEW q, Goto(s, q), DirectRequest(q),
         DirectCache'
  PROVE  Direct'
  <1>1. req' = [req EXCEPT ![s] = q] /\ req \in [Slots -> Request]
    BY DEF Goto, IndInv, TypeOK
  <1>2. ASSUME NEW t \in Slots PROVE DirectRequest(req'[t])
    <2>1. req'[t] = q \/ req'[t] = req[t]
      BY <1>1
    <2> QED BY <2>1 DEF Direct
  <1> QED BY <1>2 DEF Direct, DirectRequest, Applied

\* A request that ends, or is answered from its entry, stays direct.
LEMMA DirectEnds ==
  ASSUME NEW r \in Request, DirectRequest(r), r.pc # "idle",
         NEW how \in {"too_large", "failed", "refused", "limited",
                      "unavailable", "served"},
         NEW label \in {"HIT", "REVALIDATED"}
  PROVE  /\ DirectRequest(Ended(r, how))
         /\ DirectRequest(FromCache(r, label))
  BY DEF DirectRequest, Ended, FromCache, Request

\* Without redirects every step is direct.
LEMMA DirectStep ==
  ASSUME MaxRedirects = 0, IndInv, Direct, [Next]_vars
  PROVE  Direct'
  <1> USE DEF Direct
  <1>0. UNCHANGED cache => DirectCache'
    BY DEF DirectCache
  <1>1. ASSUME NEW s \in Slots, Arrive(s) PROVE Direct'
    <2>1. PICK u \in Urls, o \in Origins, p \in BOOLEAN, f \in BOOLEAN :
          \E h \in {o, NoSite} :
            LET r == [Idle EXCEPT !.url = u, !.site = o, !.header = h,
                                  !.private = p, !.force = f, !.at = u,
                                  !.left = MaxRedirects]
            IN  Goto(s, IF Permitted(u, o) THEN [r EXCEPT !.pc = "tier"]
                                           ELSE Ended(r, "refused"))
      BY <1>1 DEF Arrive
    <2>2. PICK h \in {o, NoSite} :
            LET r == [Idle EXCEPT !.url = u, !.site = o, !.header = h,
                                  !.private = p, !.force = f, !.at = u,
                                  !.left = MaxRedirects]
            IN  Goto(s, IF Permitted(u, o) THEN [r EXCEPT !.pc = "tier"]
                                           ELSE Ended(r, "refused"))
      BY <2>1
    <2> DEFINE r == [Idle EXCEPT !.url = u, !.site = o, !.header = h,
                                 !.private = p, !.force = f, !.at = u,
                                 !.left = MaxRedirects]
               go == [r EXCEPT !.pc = "tier"]
               no == [r EXCEPT !.pc = "done", !.end = "refused"]
    <2>3. DirectRequest(go) /\ DirectRequest(no)
      BY DEF DirectRequest, Idle
    <2>4. Goto(s, go) \/ Goto(s, no)
      BY <2>2 DEF Ended
    <2> HIDE DEF go, no
    <2>5. DirectCache'
      BY <1>0, <1>1 DEF Arrive
    <2> QED BY <2>3, <2>4, <2>5, DirectSlot
  <1>2. ASSUME NEW s \in Slots, Handle(s) PROVE Direct'
    <2> DEFINE r == req[s]
               c == Contacted(r)
    <2>1. r \in Request /\ RequestOK(r) /\ DirectRequest(r)
      BY Known
    <2>2. r.pc # "idle"
      BY <1>2 DEF Handle, CheckTier, Lookup, UpstreamFails, NotModified, Redirect,
                  Full, StreamEnds, At
    <2>3. r.pc = "send" => c \in Request /\ DirectRequest(c) /\ c.pc = "send"
      BY <2>1, ContactedOK DEF Contacted, DirectRequest, Request
    <2>4. CASE CheckTier(s)
      <3> DEFINE go == [r EXCEPT !.tier = r.tier + 1, !.paid = r.paid \cup {r.tier}]
      <3>1. DirectRequest(go)
        BY <2>1 DEF DirectRequest, Request
      <3>2. \/ Goto(s, go)
            \/ Goto(s, Ended(r, "limited")) \/ Goto(s, Ended(r, "unavailable"))
        BY <2>4 DEF CheckTier
      <3>3. DirectCache'
        BY <1>0, <2>4 DEF CheckTier
      <3> HIDE DEF go, r
      <3> QED BY <2>1, <2>2, <3>1, <3>2, <3>3, DirectEnds, DirectSlot
    <2>5. CASE Lookup(s)
      <3>1. PICK e \in IF Plan(r) THEN {cache[r.url][r.header], NoEntry}
                                  ELSE {NoEntry} :
              IF e # NoEntry /\ ~ r.force /\ e.fresh
              THEN \/ Goto(s, FromCache([r EXCEPT !.entry = e], "HIT"))
                   \/ Goto(s, Ended([r EXCEPT !.entry = e], "too_large"))
              ELSE Goto(s, [r EXCEPT !.pc = "send", !.entry = e])
        BY <2>5 DEF Lookup
      <3>2. e # NoEntry /\ e.here => e.via = r.url
        <4>1. r.header \in Origins /\ (Plan(r) => r.url \in Planned)
          BY <2>1 DEF Request, Plan
        <4> QED BY <3>1, <4>1 DEF DirectCache
      <3> DEFINE q == [r EXCEPT !.entry = e]
                 hit == [q EXCEPT !.pc = "done", !.end = "served", !.label = "HIT",
                                  !.rules = Applied(q.url, q.url)]
                 big == [q EXCEPT !.pc = "done", !.end = "too_large"]
                 go == [r EXCEPT !.pc = "send", !.entry = e]
      <3>3. r.pc = "tier" /\ r.label = "NONE"
        BY <2>1, <2>5 DEF Lookup, At, RequestOK
      <3>4. DirectRequest(hit) /\ DirectRequest(big) /\ DirectRequest(go)
        BY <2>1, <3>2, <3>3 DEF DirectRequest, Request
      <3>5. Goto(s, hit) \/ Goto(s, big) \/ Goto(s, go)
        BY <3>1 DEF FromCache, Ended
      <3>6. DirectCache'
        BY <1>0, <2>5 DEF Lookup
      <3> HIDE DEF hit, big, go
      <3> QED BY <3>4, <3>5, <3>6, DirectSlot
    <2>6. CASE UpstreamFails(s)
      <3>1. r.pc = "send" /\ Goto(s, Ended(c, "failed")) /\ DirectCache'
        BY <1>0, <2>6 DEF UpstreamFails, At
      <3> HIDE DEF c
      <3> QED BY <2>3, <3>1, DirectEnds, DirectSlot
    <2>7. CASE NotModified(s)
      <3>1. /\ r.pc = "send" /\ c.entry # NoEntry
            /\ \/ Goto(s, FromCache(c, "REVALIDATED"))
               \/ Goto(s, Ended(c, "too_large")) \/ Goto(s, Ended(c, "failed"))
        BY <2>7 DEF NotModified, At
      <3>2. DirectCache'
        <4>1. CASE UNCHANGED cache
          BY <1>0, <4>1
        <4>2. ASSUME NEW fresh \in BOOLEAN,
                     cache' = [cache EXCEPT ![c.url][c.header] =
                                 [c.entry EXCEPT !.fresh = fresh]]
              PROVE  DirectCache'
          <5>1. c.entry \in Cached /\ (c.entry.here => c.entry.via = c.url)
            BY <2>3, <3>1 DEF DirectRequest, Request
          <5> DEFINE e == [c.entry EXCEPT !.fresh = fresh]
          <5>2. e.here => e.via = c.url
            <6>1. e.via = c.entry.via /\ e.here = c.entry.here
              BY <5>1, Zenon DEF Cached
            <6> QED BY <5>1, <6>1
          <5>3. cache' = [cache EXCEPT ![c.url][c.header] = e]
            BY <4>2
          <5> HIDE DEF e, c
          <5>4. cache \in [Planned -> [Origins -> Cached \cup {NoEntry}]]
            BY DEF IndInv, TypeOK
          <5> QED BY <5>2, <5>3, <5>4 DEF DirectCache
        <4> QED BY <2>7, <4>1, <4>2 DEF NotModified
      <3> HIDE DEF c
      <3> QED BY <2>3, <3>1, <3>2, DirectEnds, DirectSlot
    <2>8. CASE Redirect(s)
      <3>1. r.pc = "send" /\ c.left = 0
        <4>1. r.pc = "send"
          BY <2>8 DEF Redirect, At
        <4>2. c.left \in 0 .. MaxRedirects
          <5> HIDE DEF c
          <5> QED BY <2>3, <4>1 DEF Request
        <4> QED BY <4>1, <4>2
      <3>2. Goto(s, Ended(c, "failed")) /\ DirectCache'
        BY <1>0, <2>8, <3>1 DEF Redirect
      <3> HIDE DEF c
      <3> QED BY <2>3, <3>1, <3>2, DirectEnds, DirectSlot
    <2>9. CASE Full(s)
      <3>1. r.pc = "send" /\ DirectCache'
        BY <1>0, <2>9 DEF Full, At
      <3>2. CASE Goto(s, Ended(c, "too_large"))
        <4> HIDE DEF c
        <4> QED BY <2>3, <3>1, <3>2, DirectEnds, DirectSlot
      <3>3. ASSUME NEW storable \in BOOLEAN,
                   Goto(s, [c EXCEPT
                      !.pc = "stream",
                      !.store = storable /\ Plan(c),
                      !.rules = Applied(c.url, c.at),
                      !.label = IF ~ Plan(c) THEN "NONE"
                                ELSE IF c.entry # NoEntry /\ c.force
                                     THEN "REVALIDATED" ELSE "MISS"])
            PROVE  Direct'
        <4> DEFINE q == [c EXCEPT
                      !.pc = "stream",
                      !.store = storable /\ Plan(c),
                      !.rules = Applied(c.url, c.at),
                      !.label = IF ~ Plan(c) THEN "NONE"
                                ELSE IF c.entry # NoEntry /\ c.force
                                     THEN "REVALIDATED" ELSE "MISS"]
        <4>1. DirectRequest(q)
          <5> HIDE DEF c
          <5> QED BY <2>3, <3>1 DEF DirectRequest, Request
        <4> HIDE DEF q
        <4> QED BY <3>1, <3>3, <4>1, DirectSlot DEF q
      <3> QED BY <2>9, <3>2, <3>3 DEF Full
    <2>10. CASE StreamEnds(s)
      <3>1. Goto(s, Ended(r, "served")) /\ r.pc = "stream"
        BY <2>10 DEF StreamEnds, At
      <3>2. DirectCache'
        <4>1. CASE UNCHANGED cache
          BY <1>0, <4>1
        <4>2. CASE cache' = [cache EXCEPT ![r.url][r.header] =
                               [fresh |-> TRUE, via |-> r.at, here |-> TRUE]]
          <5> DEFINE e == [fresh |-> TRUE, via |-> r.at, here |-> TRUE]
          <5>1. e.via = r.url /\ cache' = [cache EXCEPT ![r.url][r.header] = e]
            BY <2>1, <3>1, <4>2 DEF DirectRequest
          <5> HIDE DEF e, r
          <5>2. cache \in [Planned -> [Origins -> Cached \cup {NoEntry}]]
            BY DEF IndInv, TypeOK
          <5> QED BY <5>1, <5>2 DEF DirectCache
        <4> QED BY <2>10, <4>1, <4>2 DEF StreamEnds
      <3> HIDE DEF r
      <3> QED BY <2>1, <2>2, <3>1, <3>2, DirectEnds, DirectSlot
    <2> QED BY <1>2, <2>4, <2>5, <2>6, <2>7, <2>8, <2>9, <2>10 DEF Handle
  <1>3. ASSUME NEW s \in Slots, Close(s) PROVE Direct'
    <2>1. DirectRequest(Idle) /\ Goto(s, Idle) /\ DirectCache'
      BY <1>0, <1>3 DEF DirectRequest, Idle, Close
    <2> QED BY <2>1, DirectSlot
  <1>4. ASSUME NEW u \in Planned, NEW o \in Origins, Age(u, o) PROVE Direct'
    <2> DEFINE e == [cache[u][o] EXCEPT !.fresh = FALSE]
    <2>1. cache \in [Planned -> [Origins -> Cached \cup {NoEntry}]]
          /\ cache[u][o] \in Cached
      BY <1>4 DEF Age, IndInv, TypeOK
    <2>2. e.here => e.via = u
      <3>1. e.via = cache[u][o].via /\ e.here = cache[u][o].here
        BY <2>1, Zenon DEF Cached
      <3> QED BY <1>4, <3>1 DEF Age, DirectCache
    <2>3. \/ cache' = [cache EXCEPT ![u][o] = e]
          \/ cache' = [cache EXCEPT ![u][o] = NoEntry]
      BY <1>4 DEF Age
    <2> HIDE DEF e
    <2>4. DirectCache'
      <3> SUFFICES ASSUME NEW w \in Planned, NEW p \in Origins,
                          cache'[w][p] # NoEntry, cache'[w][p].here
                   PROVE  cache'[w][p].via = w
        BY DEF DirectCache
      <3>1. cache'[w][p] = cache[w][p]
            \/ (w = u /\ p = o /\ cache'[w][p] = e)
        BY <2>1, <2>3
      <3> QED BY <2>2, <3>1 DEF DirectCache
    <2> QED BY <1>4, <2>4 DEF Age, DirectRequest, Applied
  <1>5. CASE UNCHANGED <<req, cache>>
    BY <1>0, <1>5 DEF DirectRequest, Applied
  <1> QED BY <1>1, <1>2, <1>3, <1>4, <1>5 DEF Next, NewWindow, vars

\* CachedOverrides, of what this process has fetched.
FetchedOverrides ==
  \A s \in Slots : req[s].label = "HIT" /\ req[s].entry.here =>
     req[s].rules = Applied(req[s].url, req[s].entry.via)

\* Redirects alone keep the overrides of a hit from being those of its miss:
\* with max_redirects 0 every hit on what this process has fetched has what the
\* documentation says (cached_response matches the rules against the requested
\* URL only).  An entry of an earlier process may come from a redirect.
THEOREM OverridesWithoutRedirects ==
  ASSUME MaxRedirects = 0
  PROVE  Spec => []FetchedOverrides
  <1>1. Init => Direct
    <2> SUFFICES ASSUME Init PROVE Direct
      OBVIOUS
    <2>1. \A u \in Planned, o \in Origins :
             cache[u][o] # NoEntry => ~ cache[u][o].here
      <3> SUFFICES ASSUME NEW u \in Planned, NEW o \in Origins,
                          cache[u][o] # NoEntry
                   PROVE  ~ cache[u][o].here
        OBVIOUS
      <3>1. cache[u][o] \in Left
        BY DEF Init
      <3> QED BY <3>1, RequestAssumption
    <2> QED BY <2>1 DEF Init, Direct, DirectCache, DirectRequest, Idle
  <1>2. IndInv /\ Direct /\ [Next]_vars => Direct'
    BY DirectStep
  <1>3. IndInv /\ Direct => FetchedOverrides
    BY DEF IndInv, RequestOK, Direct, DirectRequest, FetchedOverrides
  <1> QED BY <1>1, <1>2, <1>3, RequestInvariance, PTL DEF Spec

-----------------------------------------------------------------------------
(* The end of a request *)

\* How many steps a request is from its end: the tiers it has yet to pass, the
\* redirects it may yet follow, a contact and a body.
StepsLeft(r) ==
  CASE r.pc = "tier"   -> NumTiers + MaxRedirects + 4 - r.tier
    [] r.pc = "send"   -> r.left + 2
    [] r.pc = "stream" -> 1
    [] OTHER           -> 0

\* A request moves on, or does not move.
Nearer(old, new) == new = old \/ StepsLeft(new) < StepsLeft(old)

\* A record in another slot does not change.
LEMMA OthersWait ==
  ASSUME TypeOK, NEW s \in Slots, NEW q, Goto(s, q)
  PROVE  req'[s] = q /\ \A t \in Slots : t # s => req'[t] = req[t]
  BY DEF Goto, TypeOK

\* Every request in the handler is a positive number of steps from its end.
LEMMA StepsLeftType ==
  ASSUME NEW r \in Request
  PROVE  /\ StepsLeft(r) \in Nat
         /\ StepsLeft(r) > 0 <=> r.pc \in {"tier", "send", "stream"}
         /\ RequestOK(r) => StepsLeft(r) <= NumTiers + MaxRedirects + 3
  <1>1. /\ r.tier \in 1 .. NumTiers + 1 /\ r.left \in 0 .. MaxRedirects
        /\ NumTiers \in Nat /\ MaxRedirects \in Nat
        /\ r.pc \in {"idle", "tier", "send", "stream", "done"}
    BY RequestAssumption DEF Request
  <1>2. CASE r.pc = "tier"
    BY <1>1, <1>2 DEF StepsLeft
  <1>3. CASE r.pc = "send"
    BY <1>1, <1>3 DEF StepsLeft
  <1>4. CASE r.pc = "stream"
    BY <1>1, <1>4 DEF StepsLeft
  <1>5. CASE r.pc \in {"idle", "done"}
    BY <1>1, <1>5 DEF StepsLeft
  <1> QED BY <1>1, <1>2, <1>3, <1>4, <1>5

\* Every step of the handler brings its request nearer to the end.
LEMMA HandleNearer ==
  ASSUME IndInv, NEW s \in Slots, Handle(s)
  PROVE  Nearer(req[s], req'[s])
  <1> DEFINE r == req[s]
             c == Contacted(r)
  <1>1. r \in Request /\ RequestOK(r) /\ TypeOK
    BY Known DEF IndInv
  <1>2. /\ r.tier \in 1 .. NumTiers + 1 /\ r.left \in 0 .. MaxRedirects
        /\ NumTiers \in Nat /\ MaxRedirects \in Nat
    BY <1>1, RequestAssumption DEF Request
  <1>3. /\ c \in Request \/ r.pc # "send"
        /\ c.pc = r.pc /\ c.left = r.left
    BY <1>1, ContactedOK DEF Contacted, Request
  \* whatever ends has no step left
  <1>4. ASSUME NEW q, Goto(s, q), q.pc = "done",
               r.pc \in {"tier", "send", "stream"}
        PROVE  Nearer(r, req'[s])
    <2>1. StepsLeft(q) = 0
      BY <1>4 DEF StepsLeft
    <2> QED BY <1>1, <1>4, <2>1, StepsLeftType, OthersWait DEF Nearer
  <1>5. ASSUME NEW how, NEW label, NEW e
        PROVE  /\ Ended(r, how).pc = "done" /\ FromCache(r, label).pc = "done"
               /\ Ended(c, how).pc = "done" /\ FromCache(c, label).pc = "done"
               /\ Ended([r EXCEPT !.entry = e], how).pc = "done"
               /\ FromCache([r EXCEPT !.entry = e], label).pc = "done"
    BY <1>1 DEF Ended, FromCache, Contacted, Request
  <1>6. CASE CheckTier(s)
    <2> DEFINE q == [r EXCEPT !.tier = r.tier + 1, !.paid = @ \cup {r.tier}]
    <2>1. r.pc = "tier" /\ r.tier \in Tiers
      BY <1>6 DEF CheckTier, At
    <2>2. CASE Goto(s, q)
      <3>1. q.pc = "tier" /\ q.tier = r.tier + 1
        BY <1>1, <2>1 DEF Request
      <3>2. StepsLeft(q) < StepsLeft(r)
        BY <1>2, <2>1, <3>1 DEF StepsLeft
      <3> QED BY <1>1, <2>2, <3>2, OthersWait DEF Nearer
    <2> QED BY <1>4, <1>5, <1>6, <2>1, <2>2 DEF CheckTier
  <1>7. CASE Lookup(s)
    <2>1. r.pc = "tier" /\ r.tier = NumTiers + 1 /\ r.left = MaxRedirects
      BY <1>1, <1>2, <1>7 DEF Lookup, At, Tiers, RequestOK
    <2>2. PICK e : \/ Goto(s, FromCache([r EXCEPT !.entry = e], "HIT"))
                   \/ Goto(s, Ended([r EXCEPT !.entry = e], "too_large"))
                   \/ Goto(s, [r EXCEPT !.pc = "send", !.entry = e])
      BY <1>7 DEF Lookup
    <2>3. CASE Goto(s, [r EXCEPT !.pc = "send", !.entry = e])
      <3> DEFINE q == [r EXCEPT !.pc = "send", !.entry = e]
      <3>1. q.pc = "send" /\ q.left = r.left
        BY <1>1 DEF Request
      <3>2. StepsLeft(q) < StepsLeft(r)
        BY <1>2, <2>1, <3>1 DEF StepsLeft
      <3> QED BY <1>1, <2>3, <3>2, OthersWait DEF Nearer
    <2> QED BY <1>4, <1>5, <2>1, <2>2, <2>3
  <1>8. CASE UpstreamFails(s)
    BY <1>4, <1>5, <1>8 DEF UpstreamFails, At
  <1>9. CASE NotModified(s)
    BY <1>4, <1>5, <1>9 DEF NotModified, At
  <1>10. CASE Redirect(s)
    <2>1. r.pc = "send"
      BY <1>10 DEF Redirect, At
    <2>2. ASSUME NEW u \in Urls, c.left # 0,
                 Goto(s, [c EXCEPT !.at = u, !.left = @ - 1])
          PROVE  Nearer(r, req'[s])
      <3> DEFINE q == [c EXCEPT !.at = u, !.left = @ - 1]
      <3>1. q.pc = "send" /\ q.left = r.left - 1
        BY <1>3, <2>1 DEF Request
      <3>2. StepsLeft(q) < StepsLeft(r)
        BY <1>2, <1>3, <2>1, <2>2, <3>1 DEF StepsLeft
      <3> QED BY <1>1, <2>2, <3>2, OthersWait DEF Nearer
    <2> QED BY <1>4, <1>5, <1>10, <2>1, <2>2 DEF Redirect
  <1>11. CASE Full(s)
    <2>1. r.pc = "send"
      BY <1>11 DEF Full, At
    <2>2. ASSUME NEW q, Goto(s, q), q.pc = "stream"
          PROVE  Nearer(r, req'[s])
      <3>1. StepsLeft(q) < StepsLeft(r)
        BY <1>2, <2>1, <2>2 DEF StepsLeft
      <3> QED BY <1>1, <2>2, <3>1, OthersWait DEF Nearer
    <2>3. ASSUME NEW a, NEW b, NEW l
          PROVE  [c EXCEPT !.pc = "stream", !.store = a, !.rules = b,
                           !.label = l].pc = "stream"
      BY <1>3, <2>1 DEF Request
    <2>4. \/ Goto(s, Ended(c, "too_large"))
          \/ \E a, b, l : Goto(s, [c EXCEPT !.pc = "stream", !.store = a,
                                            !.rules = b, !.label = l])
      BY <1>11, Zenon DEF Full
    <2>5. CASE Goto(s, Ended(c, "too_large"))
      BY <1>4, <1>5, <2>1, <2>5
    <2>6. ASSUME NEW a, NEW b, NEW l,
                 Goto(s, [c EXCEPT !.pc = "stream", !.store = a, !.rules = b,
                                   !.label = l])
          PROVE  Nearer(r, req'[s])
      <3> DEFINE q == [c EXCEPT !.pc = "stream", !.store = a, !.rules = b,
                                !.label = l]
      <3>1. q.pc = "stream" /\ Goto(s, q)
        BY <2>3, <2>6
      <3> HIDE DEF q, r
      <3> QED BY <2>2, <3>1
    <2> QED BY <2>4, <2>5, <2>6
  <1>12. CASE StreamEnds(s)
    BY <1>4, <1>5, <1>12 DEF StreamEnds, At
  <1> QED BY <1>6, <1>7, <1>8, <1>9, <1>10, <1>11, <1>12 DEF Handle

\* No request goes on for ever, whatever the others do: between its arrival
\* and the moment its slot is free again each of its steps lowers the number
\* of those left, NumTiers + max_redirects + 3 at most, however the redirects
\* lead in circles (proxy_handler: the loop over the tiers, redirects_left).
THEOREM RequestsGetNearer ==
  Spec => [][\A s \in Slots :
                /\ StepsLeft(req[s]) \in 0 .. NumTiers + MaxRedirects + 3
                /\ At(s, "idle") \/ req'[s] = Idle
                   \/ Nearer(req[s], req'[s])]_vars
  <1>1. ASSUME IndInv, [Next]_vars, NEW s \in Slots
        PROVE  /\ StepsLeft(req[s]) \in 0 .. NumTiers + MaxRedirects + 3
               /\ At(s, "idle") \/ req'[s] = Idle \/ Nearer(req[s], req'[s])
    <2>1. TypeOK /\ req[s] \in Request /\ RequestOK(req[s])
      BY <1>1, Known DEF IndInv
    <2>2. StepsLeft(req[s]) \in 0 .. NumTiers + MaxRedirects + 3
      BY <2>1, StepsLeftType, RequestAssumption
    <2>3. ASSUME NEW t \in Slots, Arrive(t)
          PROVE  At(s, "idle") \/ Nearer(req[s], req'[s])
      <3>1. \E q : Goto(t, q)
        BY <2>3 DEF Arrive
      <3> QED BY <2>1, <2>3, <3>1, OthersWait DEF Arrive, Nearer
    <2>4. ASSUME NEW t \in Slots, Handle(t)
          PROVE  Nearer(req[s], req'[s])
      <3>1. \E q : Goto(t, q)
        BY <2>4 DEF Handle, CheckTier, Lookup, UpstreamFails, NotModified,
                    Redirect, Full, StreamEnds
      <3> QED BY <1>1, <2>1, <2>4, <3>1, OthersWait, HandleNearer DEF Nearer
    <2>5. ASSUME NEW t \in Slots, Close(t)
          PROVE  req'[s] = Idle \/ Nearer(req[s], req'[s])
      BY <2>1, <2>5, OthersWait DEF Close, Nearer
    <2>6. CASE UNCHANGED req
      BY <2>2, <2>6 DEF Nearer
    <2>7. \/ \E t \in Slots : Arrive(t) \/ Handle(t) \/ Close(t)
          \/ UNCHANGED req
      BY <1>1 DEF Next, NewWindow, Age, vars
    <2> QED BY <2>2, <2>3, <2>4, <2>5, <2>6, <2>7, Zenon
  <1> DEFINE Step == \A s \in Slots :
                /\ StepsLeft(req[s]) \in 0 .. NumTiers + MaxRedirects + 3
                /\ At(s, "idle") \/ req'[s] = Idle
                   \/ Nearer(req[s], req'[s])
  <1>2. IndInv /\ [Next]_vars => [Step]_vars
    BY <1>1
  <1> QED BY <1>2, RequestInvariance, PTL DEF Spec

=============================================================================
