------------------------- MODULE CachePolicyProofs -------------------------
(* What CachePolicy promises, for any resource, requests and configurations. *)
EXTENDS CachePolicy, FoldProofs

\* The first max-age of a line that is a number is at place i.
FirstAge(line, i) == IsAge(line[i]) /\ \A j \in 1 .. i - 1 : ~ IsAge(line[j])

\* What the last word k's entry was given under makes of the entry.
Founded(k) ==
    LET e == entry[k]
        w == word[k]
    IN  /\ w \in Word
        /\ e.created = w.at - w.drift
        /\ e.ttl <= PlanTtl(w.conf)
        /\ w.h.expires # Never => e.ttl = 0 \/ e.created + e.ttl <= w.h.expires
        /\ \A i \in DOMAIN FirstLine(w.h) :
              FirstAge(FirstLine(w.h), i) => e.ttl <= FirstLine(w.h)[i].arg

\* What the answer that stored it makes of it.
Accepted(k) ==
    LET h == Answer[entry[k].ver]
    IN  /\ h.status \in 200 .. 299 /\ CacheableHeaders(h)
        /\ h.vary \subseteq SupportedVary
        /\ entry[k].revalidate = RequiresRevalidation(h)

\* Its validators are its own, or of earlier dated responses the origin went
\* back to, as long as only they were used.
Owned(k) ==
    LET e == entry[k]
        Own(v) == v = e.ver \/ RolledBack(v, e.ver)
    IN  word[k].own =>
          /\ Own(word[k].said)
          /\ e.etag # NoTag => \E v \in Versions :
                                  Own(v) /\ e.etag = Answer[v].etag
          /\ e.lm <= Answer[e.ver].lm

\* Its key is that of the request that stored it.
Keyed(k) == LET by == word[k].by IN k = IF by = <<>> THEN Blank ELSE by[1]

IInv ==
    /\ TypeOK
    /\ \A k \in Keys : entry[k] # NoEntry =>
          Founded(k) /\ Accepted(k) /\ Owned(k) /\ Keyed(k)

-----------------------------------------------------------------------------
(* The whitelist, rule by rule *)

\* The age the rules with an index in s give: that of the last one to match.
LastOf(c, s, age) ==
    IF \E i \in s : Applies(c, i)
    THEN \E i \in s : /\ Applies(c, i) /\ age = c.whitelist[i].max_age
                      /\ \A j \in s : j > i => ~ Applies(c, j)
    ELSE age = NoArg

\* The loop of Cache::plan ends with the age of the last rule that matches.
LEMMA RuleAgeIsLast ==
    ASSUME NEW c \in Configs
    PROVE  /\ RuleAge(c) \in Int
           /\ LastOf(c, DOMAIN c.whitelist, RuleAge(c))
<1> DEFINE rules == c.whitelist
           n == Len(c.whitelist)
           D == DOMAIN c.whitelist
           step == [i \in D |-> [age \in Int |-> IF Applies(c, i)
                                                 THEN rules[i].max_age ELSE age]]
           rec(g) == [s \in SUBSET D |->
                        IF s = {} THEN NoArg
                        ELSE IF Compiles(rules[Max(s)].match)
                                  /\ IsMatch(rules[Max(s)].match)
                             THEN rules[Max(s)].max_age
                             ELSE g[s \ {Max(s)}]]
           it == CHOOSE iter : iter = rec(iter)
<1>1. /\ n \in Nat /\ D = 1 .. n /\ IsFiniteSet(D)
      /\ \A i \in D : rules[i].max_age \in Nat
  BY ConfigsAssumption, FS_Interval
<1>2. step \in [D -> [Int -> Int]] /\ NoArg \in Int
  BY <1>1 DEF NoArg
<1>3. \A s \in SUBSET D : s # {} => Max(s) \in s /\ \A i \in s : i <= Max(s)
  BY <1>1, LatestIs
<1>4. PICK g \in [SUBSET D -> Int] : Follows(Latest(n), NoArg, step, g, D)
  <2> DEFINE V == Int
             first == NoArg
  <2>1. n \in Nat /\ first \in V /\ step \in [1 .. n -> [V -> V]]
    BY <1>1, <1>2
  <2> HIDE DEF V, n, first, step
  <2>2. \E h \in [SUBSET (1 .. n) -> V] :
           Follows(Latest(n), first, step, h, 1 .. n)
    BY <2>1, FoldsFromLeft
  <2> QED BY <1>1, <2>2 DEF V, first
<1>6. g = rec(g)
  <2>1. ASSUME NEW s \in SUBSET D PROVE g[s] = rec(g)[s]
    <3>1. g[s] = IF s = {} THEN NoArg ELSE step[Max(s)][g[s \ {Max(s)}]]
      BY <1>1, <1>4 DEF Latest, Follows, FoldsAt
    <3>2. s # {} => Max(s) \in D /\ g[s \ {Max(s)}] \in Int
      BY <1>3, <1>4
    <3> QED BY <3>1, <3>2 DEF Applies
  <2> QED BY <2>1
<1>7. it = rec(it)
  BY <1>6, Zenon
<1>8. RuleAge(c) = it[D]
  BY DEF RuleAge, FoldLeft, MapThenFoldSet
<1> HIDE DEF it
<1>9. ASSUME NEW s \in SUBSET D
      PROVE  it[s] = IF s = {} THEN NoArg
                     ELSE IF Applies(c, Max(s)) THEN rules[Max(s)].max_age
                     ELSE it[s \ {Max(s)}]
  BY <1>7 DEF Applies
<1> DEFINE Good == {s \in SUBSET D : it[s] \in Int /\ LastOf(c, s, it[s])}
<1>10. ASSUME NEW s \in SUBSET D, \A t \in SUBSET s : t # s => t \in Good
       PROVE  s \in Good
  <2>1. CASE s = {}
    BY <1>2, <1>9, <2>1 DEF LastOf
  <2>2. CASE s # {}
    <3> DEFINE m == Max(s)
               t == s \ {m}
    <3>1. m \in s /\ (\A i \in s : i <= m) /\ m \in Int /\ D \subseteq Int
      BY <1>1, <1>3, <2>2
    <3>2. it[s] = IF Applies(c, m) THEN rules[m].max_age ELSE it[t]
      BY <1>9, <2>2
    <3> HIDE DEF m
    <3>3. it[t] \in Int /\ LastOf(c, t, it[t])
      BY <1>10, <3>1
    <3> HIDE DEF D, rules
    <3>4. CASE Applies(c, m)
      BY <1>1, <3>1, <3>2, <3>4 DEF LastOf, rules
    <3>5. CASE ~ Applies(c, m)
      BY <3>1, <3>2, <3>3, <3>5 DEF LastOf
    <3> QED BY <3>4, <3>5
  <2> QED BY <2>1, <2>2
<1>11. IsFiniteSet(D)
  BY <1>1
<1>12. D \in Good
  <2> HIDE DEF Good, D
  <2> QED BY <1>10, <1>11, SubsetInduction
<1> QED
  BY <1>8, <1>12

\* A planned lifetime is one.
LEMMA AgesPlanned == \A c \in Configs : PlanTtl(c) \in Nat
<1> SUFFICES ASSUME NEW c \in Configs PROVE PlanTtl(c) \in Nat
  OBVIOUS
<1>1. RuleAge(c) = NoArg \/ RuleAge(c) \in Nat
  BY RuleAgeIsLast, ConfigsAssumption DEF LastOf
<1> QED
  BY <1>1, ConfigsAssumption DEF PlanTtl, Lesser

-----------------------------------------------------------------------------

\* Every request has its key among the keys.
LEMMA KeyOfRequest ==
    ASSUME NEW q \in Requests
    PROVE  CacheKey(q) \in Keys
<1>1. q.accept \in Seq(Values) /\ Blank \in Values
  BY PolicyAssumption DEF Request
<1>2. q.accept # <<>> => q.accept[1] \in Values
  BY <1>1
<1> QED
  BY <1>1, <1>2 DEF CacheKey, Keys

\* The line that is read is a sequence of directives.
LEMMA FirstLineType ==
    ASSUME NEW h \in Headers
    PROVE  FirstLine(h) \in Seq(Directive)
<1>1. h.cc \in Seq(Seq(Directive))
  BY DEF Headers
<1>2. h.cc # <<>> => h.cc[1] \in Seq(Directive)
  BY <1>1
<1> QED
  BY <1>2 DEF FirstLine

\* A line's age is a number or none, and the first is found.
LEMMA MaxAgeFinds ==
    ASSUME NEW line \in Seq(Directive)
    PROVE  /\ MaxAge(line) \in Nat \cup {NoArg}
           /\ \A i \in DOMAIN line : FirstAge(line, i) => MaxAge(line) = line[i].arg
<1> DEFINE n == CHOOSE i \in DOMAIN line : FirstAge(line, i)
<1>1. MaxAge(line) = IF \E i \in DOMAIN line : FirstAge(line, i)
                     THEN line[n].arg ELSE NoArg
  BY DEF MaxAge, FirstAge
<1>2. (\E i \in DOMAIN line : FirstAge(line, i)) =>
          n \in DOMAIN line /\ FirstAge(line, n)
  OBVIOUS
<1>3. \A i \in DOMAIN line : line[i].arg \in Nat \cup {NoArg}
  <2>1. \A i \in DOMAIN line : line[i] \in Directive
    OBVIOUS
  <2> QED
    BY <2>1 DEF Directive
<1>4. MaxAge(line) \in Nat \cup {NoArg}
  BY <1>1, <1>2, <1>3
<1>5. ASSUME NEW i \in DOMAIN line, FirstAge(line, i)
      PROVE  MaxAge(line) = line[i].arg
  <2>1. n \in DOMAIN line /\ FirstAge(line, n)
    BY <1>2, <1>5
  <2>2. i \in 1 .. Len(line) /\ n \in 1 .. Len(line) /\ Len(line) \in Nat
    BY <2>1
  <2> HIDE DEF n
  <2>3. n = i
    BY <1>5, <2>1, <2>2 DEF FirstAge
  <2> QED
    BY <1>1, <1>5, <2>3
<1> QED
  BY <1>4, <1>5

\* The lifetime of an answer respects each of its limits.
LEMMA TtlBounds ==
    ASSUME NEW h \in Headers, NEW ttl \in Nat, Clock \in Nat
    PROVE  LET life == EffectiveTtl(ttl, h)
           IN  /\ life \in Nat /\ life <= ttl
               /\ h.expires # Never => life = 0 \/ Clock + life <= h.expires
               /\ \A i \in DOMAIN FirstLine(h) :
                     FirstAge(FirstLine(h), i) => life <= FirstLine(h)[i].arg
<1> DEFINE age == MaxAge(FirstLine(h))
           least == IF age = NoArg THEN ttl ELSE Lesser(ttl, age)
<1>1. FirstLine(h) \in Seq(Directive)
  BY FirstLineType
<1>2. age \in Nat \cup {NoArg}
  BY <1>1, MaxAgeFinds
<1>3. least \in Nat /\ least <= ttl /\ (age # NoArg => least <= age)
  BY <1>2 DEF Lesser
<1>4. h.expires \in Nat \cup {Never}
  BY DEF Headers
<1> HIDE DEF least
<1>5. /\ ExpiresTtl(least, h) \in Nat /\ ExpiresTtl(least, h) <= least
      /\ h.expires # Never =>
            ExpiresTtl(least, h) = 0 \/ Clock + ExpiresTtl(least, h) <= h.expires
  <2> DEFINE now == Clock
  <2>1. now \in Nat
    OBVIOUS
  <2> HIDE DEF now
  <2>2. ExpiresTtl(least, h) =
          IF h.expires = Never THEN least
          ELSE Lesser(least, IF h.expires > now THEN h.expires - now ELSE 0)
    BY DEF ExpiresTtl, now
  <2>3. now = Clock
    BY DEF now
  <2> QED
    BY <2>1, <2>2, <2>3, <1>3, <1>4 DEF Lesser
<1>6. EffectiveTtl(ttl, h) = ExpiresTtl(least, h)
  BY DEF EffectiveTtl, least
<1>7. ASSUME NEW i \in DOMAIN FirstLine(h), FirstAge(FirstLine(h), i)
      PROVE  ExpiresTtl(least, h) <= FirstLine(h)[i].arg
  <2>1. age = FirstLine(h)[i].arg /\ age # NoArg
    BY <1>1, <1>7, MaxAgeFinds DEF FirstAge, IsAge
  <2> HIDE DEF age
  <2> QED
    BY <1>2, <1>3, <1>5, <2>1
<1> QED
  BY <1>3, <1>5, <1>6, <1>7

-----------------------------------------------------------------------------

\* A fresh response is within the life it was given, clock steps aside.
LEMMA FreshIsYoung ==
    ASSUME TypeOK, NEW k \in Keys, entry[k] # NoEntry, Founded(k),
           IsFresh(entry[k])
    PROVE  LET spent == real - word[k].at - (drift - word[k].drift)
           IN  entry[k].ttl > 0 /\ spent < entry[k].ttl
<1>1. entry[k] \in Entry /\ word[k] \in Word /\ real \in Nat /\ drift \in Nat
  BY DEF TypeOK, Founded
<1>2. /\ entry[k].created \in Nat /\ entry[k].ttl \in Nat
      /\ word[k].at \in Nat /\ word[k].drift \in Nat
  BY <1>1 DEF Entry, Word
<1>3. entry[k].created = word[k].at - word[k].drift
  BY DEF Founded
<1> QED
  BY <1>1, <1>2, <1>3 DEF IsFresh, Clock

Sound(k) == Founded(k) /\ Accepted(k) /\ Owned(k) /\ Keyed(k)

\* An entry no step touches stays sound.
LEMMA Unmoved ==
    ASSUME NEW k, Sound(k), entry'[k] = entry[k], word'[k] = word[k]
    PROVE  Sound(k)'
<1>1. Founded(k)'
  BY DEF Sound, Founded
<1>2. Accepted(k)'
  BY DEF Sound, Accepted
<1>3. Owned(k)'
  BY DEF Sound, Owned
<1>4. Keyed(k)'
  BY DEF Sound, Keyed
<1> QED
  BY <1>1, <1>2, <1>3, <1>4 DEF Sound

\* A stored answer founds its entry.
LEMMA StoredIInv ==
    ASSUME IInv, NEW q \in Requests, Stored(q)
    PROVE  IInv'
<1> DEFINE h == Answer[origin]
           key == CacheKey(q)
           life == EffectiveTtl(PlanTtl(config), h)
           e == [ver |-> origin, created |-> Clock, ttl |-> life,
                 revalidate |-> RequiresRevalidation(h), etag |-> h.etag,
                 lm |-> h.lm]
           w == [by |-> q.accept, said |-> origin, h |-> h,
                 conf |-> config, at |-> real, drift |-> drift,
                 own |-> TRUE]
<1>1. /\ TypeOK /\ key \in Keys /\ h \in Headers /\ PlanTtl(config) \in Nat
      /\ q.accept \in Seq(Values) /\ Clock \in Nat /\ real \in Nat /\ drift \in Nat
      /\ origin \in Versions /\ config \in Configs /\ Clock = real - drift
  BY KeyOfRequest, AgesPlanned, PolicyAssumption
  DEF IInv, TypeOK, Request, Clock
<1>2. /\ life \in Nat /\ life <= PlanTtl(config)
      /\ h.expires # Never => life = 0 \/ Clock + life <= h.expires
      /\ \A i \in DOMAIN FirstLine(h) :
            FirstAge(FirstLine(h), i) => life <= FirstLine(h)[i].arg
  BY <1>1, TtlBounds
<1>3. /\ h.etag \in Tags \cup {NoTag} /\ h.lm \in Nat
      /\ h.status \in 200 .. 299 /\ CacheableHeaders(h)
      /\ h.vary \subseteq SupportedVary
  BY <1>1 DEF Stored, Storable, Headers
<1>4. /\ entry' = [entry EXCEPT ![key] = e] /\ word' = [word EXCEPT ![key] = w]
      /\ UNCHANGED <<config, origin, real, drift>>
  BY DEF Stored
<1> HIDE DEF h, key, life
<1>5. RequiresRevalidation(h) \in BOOLEAN
  BY DEF RequiresRevalidation
<1>6. e \in Entry /\ w \in Word
  BY <1>1, <1>2, <1>3, <1>5 DEF Entry, Word
<1>7. /\ e.ver = origin /\ e.created = Clock /\ e.ttl = life
      /\ e.revalidate = RequiresRevalidation(h) /\ e.etag = h.etag /\ e.lm = h.lm
      /\ w.by = q.accept /\ w.said = origin /\ w.h = h /\ w.at = real
      /\ w.conf = config /\ w.drift = drift
  OBVIOUS
<1>8. h = Answer[origin] /\ key = CacheKey(q)
  BY DEF h, key
<1> HIDE DEF e, w
<1>9. TypeOK'
  BY <1>1, <1>4, <1>6 DEF TypeOK, Clock
<1>10. /\ entry'[key] = e /\ word'[key] = w
       /\ \A k \in Keys \ {key} : entry'[k] = entry[k] /\ word'[k] = word[k]
  BY <1>1, <1>4 DEF TypeOK
<1>11. Founded(key)'
  BY <1>1, <1>2, <1>6, <1>7, <1>10 DEF Founded
<1>12. Accepted(key)'
  BY <1>3, <1>7, <1>8, <1>10 DEF Accepted
<1>13. Owned(key)'
  <2>1. e.lm <= Answer[origin].lm
    BY <1>3, <1>7, <1>8
  <2> QED
    BY <1>1, <1>7, <1>8, <1>10, <2>1 DEF Owned
<1>14. Keyed(key)'
  BY <1>7, <1>8, <1>10 DEF Keyed, CacheKey
<1>15. ASSUME NEW k \in Keys \ {key}, entry[k]' # NoEntry
       PROVE  (Founded(k) /\ Accepted(k) /\ Owned(k) /\ Keyed(k))'
  <2>1. entry'[k] = entry[k] /\ word'[k] = word[k] /\ entry[k] # NoEntry
    BY <1>10, <1>15
  <2>2. Sound(k)
    BY <2>1 DEF IInv, Sound
  <2> QED
    BY <2>1, <2>2, Unmoved DEF Sound
<1> QED
  BY <1>9, <1>11, <1>12, <1>13, <1>14, <1>15 DEF IInv

\* A confirmation founds the entry anew; its own validators name its version.
LEMMA ConfirmedIInv ==
    ASSUME IInv, NEW q \in Requests, Confirmed(q)
    PROVE  IInv'
<1> DEFINE key == CacheKey(q)
           old == entry[key]
           last == word[key]
<1>1. /\ TypeOK /\ key \in Keys /\ PlanTtl(config) \in Nat
      /\ Clock \in Nat /\ real \in Nat /\ drift \in Nat
      /\ origin \in Versions /\ config \in Configs /\ Clock = real - drift
      /\ Answer[origin] \in Headers
  BY KeyOfRequest, AgesPlanned, PolicyAssumption
  DEF IInv, TypeOK, Request, Clock
<1>2. /\ old # NoEntry /\ old \in Entry /\ last \in Word
      /\ Founded(key) /\ Accepted(key) /\ Owned(key) /\ Keyed(key)
      /\ MayConfirm(Sent(q, old))
  BY <1>1 DEF Confirmed, IInv, TypeOK, Founded
<1>3. PICK h \in NotModified :
        /\ entry' = [entry EXCEPT ![key] = Refreshed(@, h)]
        /\ word' = [word EXCEPT ![key] = Heard(@, h, OwnCondition(q, entry[key]))]
        /\ UNCHANGED <<config, origin, real, drift>>
  BY DEF Confirmed
<1>4. /\ h \in Headers
      /\ h.etag \in {NoTag, Answer[origin].etag}
      /\ h.lm \in {NoDate, Answer[origin].lm}
  <2> DEFINE bare == [Answer[origin] EXCEPT !.cc = <<>>, !.expires = Never,
                                            !.etag = NoTag, !.lm = NoDate]
  <2>1. <<>> \in Seq(Seq(Directive)) /\ NoDate \in Nat
    BY DEF NoDate
  <2>2. /\ bare \in Headers /\ bare.etag = NoTag /\ bare.lm = NoDate
    BY <1>1, <2>1 DEF Headers
  <2>3. h = Answer[origin] \/ h = bare
    BY DEF NotModified
  <2> QED
    BY <1>1, <2>2, <2>3
<1> DEFINE life == EffectiveTtl(PlanTtl(config), h)
           e == Refreshed(old, h)
           w == Heard(last, h, OwnCondition(q, old))
<1>5. /\ life \in Nat /\ life <= PlanTtl(config)
      /\ h.expires # Never => life = 0 \/ Clock + life <= h.expires
      /\ \A i \in DOMAIN FirstLine(h) :
            FirstAge(FirstLine(h), i) => life <= FirstLine(h)[i].arg
  BY <1>1, <1>4, TtlBounds
<1>6. /\ entry'[key] = e /\ word'[key] = w
      /\ \A k \in Keys \ {key} : entry'[k] = entry[k] /\ word'[k] = word[k]
      /\ entry' \in [Keys -> Entry \cup {NoEntry, e}]
      /\ word' \in [Keys -> Word \cup {NoEntry, w}]
  <2>1. entry' = [entry EXCEPT ![key] = e] /\ word' = [word EXCEPT ![key] = w]
    BY <1>3
  <2>2. /\ entry \in [Keys -> Entry \cup {NoEntry}] /\ key \in Keys
        /\ word \in [Keys -> Word \cup {NoEntry}]
    BY <1>1 DEF TypeOK
  <2> HIDE DEF e, w, key
  <2> QED
    BY <2>1, <2>2
<1> HIDE DEF key, old, last, life
<1>7. /\ e.ver = old.ver /\ e.created = Clock /\ e.ttl = life
      /\ e.revalidate = old.revalidate
      /\ e.etag = IF h.etag # NoTag THEN h.etag ELSE old.etag
      /\ e.lm = IF h.lm # NoDate THEN h.lm ELSE old.lm
      /\ e \in Entry
  BY <1>1, <1>2, <1>4, <1>5 DEF Refreshed, Entry, Headers, life
<1>8. OwnCondition(q, old) \in BOOLEAN
  BY DEF OwnCondition
<1>9. /\ w.by = last.by /\ w.said = origin /\ w.h = h /\ w.at = real
      /\ w.conf = config /\ w.drift = drift
      /\ w.own = (last.own /\ OwnCondition(q, old))
      /\ w \in Word
  BY <1>1, <1>2, <1>4, <1>8 DEF Heard, Word
<1> HIDE DEF e, w
<1>10. TypeOK'
  BY <1>1, <1>3, <1>6, <1>7, <1>9 DEF TypeOK, Clock
<1>11. Founded(key)'
  BY <1>1, <1>5, <1>6, <1>7, <1>9 DEF Founded
<1>12. Accepted(key)'
  BY <1>2, <1>6, <1>7 DEF Accepted, old
<1>13. Owned(key)'
  <2> DEFINE Own(v) == v = old.ver \/ RolledBack(v, old.ver)
  <2> SUFFICES ASSUME w.own
               PROVE  /\ Own(origin)
                      /\ e.etag # NoTag => \E v \in Versions :
                                              Own(v) /\ e.etag = Answer[v].etag
                      /\ e.lm <= Answer[old.ver].lm
    BY <1>6, <1>7, <1>9 DEF Owned
  <2>1. /\ last.own /\ OwnCondition(q, old)
        /\ old.etag # NoTag => \E v \in Versions :
                                  Own(v) /\ old.etag = Answer[v].etag
        /\ old.lm <= Answer[old.ver].lm
    BY <1>2, <1>9 DEF Owned, old, last
  <2>2. /\ old.ver \in Versions /\ old.lm \in Nat /\ NoDate = 0
        /\ Answer[old.ver].lm \in Nat /\ Answer[origin].lm \in Nat
    BY <1>1, <1>2, PolicyAssumption DEF Entry, Headers, NoDate
  <2>3. Own(origin)
    <3>1. CASE old.etag # NoTag
      <4>1. old.etag = Answer[origin].etag
        BY <1>2, <3>1 DEF MayConfirm, Sent
      <4> QED
        BY <1>1, <2>1, <3>1, <4>1, ValidatorAssumption
    <3>2. CASE old.etag = NoTag
      <4>1. Sent(q, old).inm = NoTag /\ Sent(q, old).ims = old.lm
        BY <2>1, <3>2 DEF OwnCondition, Sent
      <4>2. Answer[origin].lm # NoDate /\ Answer[origin].lm <= old.lm
        BY <1>2, <4>1 DEF MayConfirm
      <4>3. \/ Answer[origin].lm < Answer[old.ver].lm
            \/ Answer[origin].lm = Answer[old.ver].lm
        BY <2>1, <2>2, <4>2
      <4> QED
        BY <1>1, <2>2, <4>2, <4>3, ValidatorAssumption DEF RolledBack
    <3> QED
      BY <3>1, <3>2
  <2>4. e.etag # NoTag => \E v \in Versions : Own(v) /\ e.etag = Answer[v].etag
    BY <1>1, <1>4, <1>7, <2>1, <2>3
  <2>5. e.lm <= Answer[old.ver].lm
    BY <1>4, <1>7, <2>1, <2>2, <2>3 DEF RolledBack
  <2> QED
    BY <2>3, <2>4, <2>5
<1>14. Keyed(key)'
  BY <1>2, <1>6, <1>9 DEF Keyed, last
<1>15. ASSUME NEW k \in Keys \ {key}, entry[k]' # NoEntry
       PROVE  (Founded(k) /\ Accepted(k) /\ Owned(k) /\ Keyed(k))'
  <2>1. entry'[k] = entry[k] /\ word'[k] = word[k] /\ entry[k] # NoEntry
    BY <1>6, <1>15
  <2>2. Sound(k)
    BY <2>1 DEF IInv, Sound
  <2> QED
    BY <2>1, <2>2, Unmoved DEF Sound
<1> QED
  BY <1>10, <1>11, <1>12, <1>13, <1>14, <1>15 DEF IInv

\* It holds at first: nothing is stored.
THEOREM InitIInv == Init => IInv
<1> SUFFICES ASSUME Init PROVE IInv
  OBVIOUS
<1>1. 0 - 0 = 0
  OBVIOUS
<1> QED
  BY <1>1 DEF Init, IInv, TypeOK, Clock

\* A restart, an eviction keep entries as they are or drop them.
LEMMA RestartIInv ==
    ASSUME IInv, NEW gone \in SUBSET Keys, config' \in Configs,
           entry' = Without(gone, entry), word' = Without(gone, word),
           UNCHANGED <<origin, real, drift>>
    PROVE  IInv'
<1>1. TypeOK'
  <2>1. /\ entry \in [Keys -> Entry \cup {NoEntry}]
        /\ word \in [Keys -> Word \cup {NoEntry}]
    BY DEF IInv, TypeOK
  <2> QED
    BY <2>1 DEF IInv, TypeOK, Without, Clock
<1>2. ASSUME NEW k \in Keys, entry[k]' # NoEntry
      PROVE  (Founded(k) /\ Accepted(k) /\ Owned(k) /\ Keyed(k))'
  <2>1. entry'[k] = entry[k] /\ word'[k] = word[k] /\ entry[k] # NoEntry
    BY <1>2 DEF Without
  <2>2. Sound(k)
    BY <2>1 DEF IInv, Sound
  <2> QED
    BY <2>1, <2>2, Unmoved DEF Sound
<1> QED
  BY <1>1, <1>2 DEF IInv

\* An eviction drops one entry.
LEMMA EvictIs ==
    ASSUME TypeOK, NEW k \in Keys, Evict(k)
    PROVE  /\ entry' = Without({k}, entry) /\ word' = Without({k}, word)
           /\ UNCHANGED <<config, origin, real, drift>>
BY DEF TypeOK, Evict, Without

\* Time, the clock and the origin are not part of entries.
LEMMA OutsideIInv ==
    ASSUME IInv, TypeOK', entry' = entry, word' = word
    PROVE  IInv'
<1>1. ASSUME NEW k \in Keys, entry[k]' # NoEntry
      PROVE  (Founded(k) /\ Accepted(k) /\ Owned(k) /\ Keyed(k))'
  <2>1. entry'[k] = entry[k] /\ word'[k] = word[k] /\ entry[k] # NoEntry
    BY <1>1
  <2>2. Sound(k)
    BY <2>1 DEF IInv, Sound
  <2> QED
    BY <2>1, <2>2, Unmoved DEF Sound
<1> QED
  BY <1>1 DEF IInv

\* Every step preserves it.
THEOREM NextIInv == IInv /\ [Next]_vars => IInv'
<1> SUFFICES ASSUME IInv, [Next]_vars PROVE IInv'
  OBVIOUS
<1>1. ASSUME NEW c \in Configs, Restart(c) PROVE IInv'
  BY <1>1, RestartIInv DEF Restart, Held
<1>8. ASSUME NEW k \in Keys, Evict(k) PROVE IInv'
  <2>1. TypeOK /\ config \in Configs
    BY DEF IInv, TypeOK
  <2>2. /\ entry' = Without({k}, entry) /\ word' = Without({k}, word)
        /\ UNCHANGED <<config, origin, real, drift>>
    BY <1>8, <2>1, EvictIs
  <2> QED
    BY <2>1, <2>2, RestartIInv
<1>2. ASSUME NEW q \in Requests, Stored(q) PROVE IInv'
  BY <1>2, StoredIInv
<1>3. ASSUME NEW q \in Requests, Confirmed(q) PROVE IInv'
  BY <1>3, ConfirmedIInv
<1>4. ASSUME NEW v \in Versions, Publish(v) PROVE IInv'
  <2>1. TypeOK'
    BY <1>4 DEF Publish, IInv, TypeOK, Clock
  <2> QED
    BY <1>4, <2>1, OutsideIInv DEF Publish
<1>5. CASE Tick
  <2>1. TypeOK'
    BY <1>5 DEF Tick, IInv, TypeOK, Clock
  <2> QED
    BY <1>5, <2>1, OutsideIInv DEF Tick
<1>6. ASSUME NEW d \in 0 .. MaxDrift, StepClock(d) PROVE IInv'
  <2>1. TypeOK'
    BY <1>6, PolicyAssumption DEF StepClock, IInv, TypeOK, Clock
  <2> QED
    BY <1>6, <2>1, OutsideIInv DEF StepClock
<1>7. CASE UNCHANGED vars
  <2>1. TypeOK'
    BY <1>7 DEF vars, IInv, TypeOK, Clock
  <2> QED
    BY <1>7, <2>1, OutsideIInv DEF vars
<1> QED
  BY <1>1, <1>2, <1>3, <1>4, <1>5, <1>6, <1>7, <1>8 DEF Next

\* The inductive invariant.
THEOREM SpecIInv == Spec => []IInv
BY InitIInv, NextIInv, PTL DEF Spec

-----------------------------------------------------------------------------

\* What is served from the cache is a sound, fresh entry.
LEMMA HitIsSound ==
    ASSUME IInv, NEW q \in Requests, Hits(q)
    PROVE  LET k == CacheKey(q)
           IN  /\ k \in Keys /\ entry[k] # NoEntry /\ TypeOK
               /\ Founded(k) /\ Accepted(k) /\ Keyed(k) /\ IsFresh(entry[k])
BY KeyOfRequest DEF IInv, Hits

\* Every state types the variables.
THEOREM TypeCorrect == Spec => []TypeOK
<1>1. IInv => TypeOK
  BY DEF IInv
<1> QED
  BY <1>1, SpecIInv, PTL

\* No hit is older than the configured age, than the max-age that is read and
\* than Expires, counted from the exchange that stored or last renewed it and
\* by the headers of that one (effective_ttl, refresh, is_fresh), clock steps
\* aside.
THEOREM LifeKept == Spec => []HitsWithinLife
<1>1. ASSUME IInv, NEW q \in Requests, Hits(q)
      PROVE  LET w == word[CacheKey(q)]
                 line == FirstLine(w.h)
                 spent == real - w.at - (drift - w.drift)
             IN  /\ spent < PlanTtl(w.conf)
                 /\ \A i \in DOMAIN line : FirstAge(line, i) => spent < line[i].arg
                 /\ w.h.expires # Never => Clock < w.h.expires
  <2> DEFINE k == CacheKey(q)
             w == word[k]
             line == FirstLine(w.h)
             spent == real - w.at - (drift - w.drift)
  <2>1. /\ k \in Keys /\ entry[k] # NoEntry /\ TypeOK
        /\ Founded(k) /\ IsFresh(entry[k])
    BY <1>1, HitIsSound
  <2>2. entry[k].ttl > 0 /\ spent < entry[k].ttl
    BY <2>1, FreshIsYoung
  <2>3. /\ entry[k].ttl \in Nat /\ entry[k].created \in Nat
        /\ w.at \in Nat /\ w.drift \in Nat /\ real \in Nat /\ drift \in Nat
        /\ w.h \in Headers /\ PlanTtl(w.conf) \in Nat
    BY <2>1, AgesPlanned DEF TypeOK, Founded, Entry, Word
  <2>4. spent \in Int /\ spent < PlanTtl(w.conf)
    BY <2>1, <2>2, <2>3 DEF Founded
  <2>5. ASSUME NEW i \in DOMAIN line, FirstAge(line, i) PROVE spent < line[i].arg
    <3>1. line[i].arg \in Nat /\ entry[k].ttl <= line[i].arg
      <4>1. line[i] \in Directive
        BY <2>3, FirstLineType
      <4> QED
        BY <2>1, <2>5, <4>1 DEF Founded, Directive, FirstAge, IsAge
    <3> QED
      BY <2>2, <2>3, <2>4, <3>1
  <2>6. ASSUME w.h.expires # Never PROVE Clock < w.h.expires
    <3>1. /\ w.h.expires \in Nat /\ entry[k].created + entry[k].ttl <= w.h.expires
          /\ entry[k].created = w.at - w.drift
      BY <2>1, <2>2, <2>3, <2>6 DEF Founded, Headers
    <3> QED
      BY <2>2, <2>3, <3>1 DEF Clock
  <2> QED
    BY <2>4, <2>5, <2>6
<1>2. IInv => HitsWithinLife
  BY <1>1 DEF HitsWithinLife, FirstAge
<1> QED
  BY <1>2, SpecIInv, PTL

\* Nothing is served unasked whose first Cache-Control line, cookie, status or
\* Vary was against it when it was stored, nor to a request that is private or
\* forces a revalidation (cacheable_headers, begin_write, plan).
THEOREM OnlyAllowedHits == Spec => []HitsAllowed
<1>1. ASSUME IInv, NEW q \in Requests, Hits(q)
      PROVE  LET h == Answer[entry[CacheKey(q)].ver]
             IN  /\ h.status \in 200 .. 299 /\ ~ h.cookie
                 /\ h.vary \subseteq SupportedVary
                 /\ ~ q.private /\ ~ q.force
                 /\ \A name \in {"no-store", "private", "no-cache"} :
                       Bare(name) \notin Directives(FirstLine(h))
  <2> DEFINE k == CacheKey(q)
             h == Answer[entry[k].ver]
  <2>1. /\ k \in Keys /\ entry[k] # NoEntry /\ TypeOK
        /\ Accepted(k) /\ IsFresh(entry[k])
    BY <1>1, HitIsSound
  <2>2. ~ q.private /\ ~ q.force
    BY <1>1 DEF Hits, Plan
  <2>3. /\ Bare("no-store") \notin Directives(FirstLine(h))
        /\ Bare("private") \notin Directives(FirstLine(h))
        /\ Bare("no-cache") \notin Directives(FirstLine(h))
    BY <2>1 DEF Accepted, CacheableHeaders, IsFresh, RequiresRevalidation
  <2>4. h.status \in 200 .. 299 /\ ~ h.cookie /\ h.vary \subseteq SupportedVary
    BY <2>1 DEF Accepted, CacheableHeaders
  <2> QED
    BY <2>2, <2>3, <2>4
<1>2. IInv => HitsAllowed
  BY <1>1 DEF HitsAllowed
<1> QED
  BY <1>2, SpecIInv, PTL

\* Clients get the variant made for the value of their own header; without the
\* header they get that of an empty one and the other way round (cache_key).
THEOREM VariantsApart == Spec => []VariantKept
<1>1. ASSUME IInv, NEW q \in Requests, Hits(q), Len(q.accept) <= 1,
             Len(word[CacheKey(q)].by) <= 1
      PROVE  LET by == word[CacheKey(q)].by
             IN  q.accept = by \/ {q.accept, by} = {<<>>, <<Blank>>}
  <2> DEFINE by == word[CacheKey(q)].by
  <2>1. q.accept \in Seq(Values) /\ by \in Seq(Values)
    BY <1>1, HitIsSound, PolicyAssumption DEF Request, Founded, Word
  <2>2. CacheKey(q) = IF by = <<>> THEN Blank ELSE by[1]
    BY <1>1, HitIsSound DEF Keyed
  <2>3. CacheKey(q) = IF q.accept = <<>> THEN Blank ELSE q.accept[1]
    BY DEF CacheKey
  <2>4. /\ q.accept # <<>> => q.accept = <<q.accept[1]>>
        /\ by # <<>> => by = <<by[1]>>
    BY <1>1, <2>1
  <2> HIDE DEF by
  <2> QED
    BY <2>2, <2>3, <2>4 DEF by
<1>2. IInv => VariantKept
  BY <1>1 DEF VariantKept
<1> QED
  BY <1>2, SpecIInv, PTL

\* A 304 to the entry's own validators never confirms another version's body,
\* but for one later than what the origin went back to (add_validators).
THEOREM OwnConfirmations == Spec => []ConfirmedIsCurrent
<1>1. IInv => ConfirmedIsCurrent
  BY DEF IInv, ConfirmedIsCurrent, Owned
<1> QED
  BY <1>1, SpecIInv, PTL

\* The fold over the rules ends with the age of the rule that decides.
LEMMA DecidingRule ==
    ASSUME NEW c \in Configs, PlanTtl(c) > 0
    PROVE  /\ PlanTtl(c) <= c.max_age
           /\ \E i \in DOMAIN c.whitelist :
                 /\ Decides(c, i) /\ c.whitelist[i].max_age > 0
                 /\ PlanTtl(c) <= c.whitelist[i].max_age
<1>1. RuleAge(c) # NoArg /\ RuleAge(c) \in Int /\ c.max_age \in Nat
  BY RuleAgeIsLast, ConfigsAssumption DEF PlanTtl
<1>2. PICK i \in DOMAIN c.whitelist :
        Decides(c, i) /\ RuleAge(c) = c.whitelist[i].max_age
  BY <1>1, RuleAgeIsLast DEF LastOf, Decides
<1>3. PlanTtl(c) <= RuleAge(c) /\ PlanTtl(c) <= c.max_age /\ RuleAge(c) > 0
  BY <1>1 DEF PlanTtl, Lesser
<1> QED
  BY <1>2, <1>3

\* A hit is decided by the configuration in force, by the last of its rules
\* that match (the loop of Cache::plan overwrites the age at each match), and
\* lives no longer than the last rule said when it was stored or last renewed.
THEOREM LastRuleAlwaysDecides == Spec => []LastRuleDecides
<1>1. ASSUME IInv, NEW q \in Requests, Hits(q)
      PROVE  LET c == word[CacheKey(q)].conf
                 ttl == entry[CacheKey(q)].ttl
             IN  /\ config.enabled /\ config.max_age > 0 /\ config.max_size > 0
                 /\ \E i \in DOMAIN config.whitelist :
                       Decides(config, i) /\ config.whitelist[i].max_age > 0
                 /\ ttl <= c.max_age
                 /\ \E i \in DOMAIN c.whitelist :
                       Decides(c, i) /\ ttl <= c.whitelist[i].max_age
  <2> DEFINE k == CacheKey(q)
             c == word[k].conf
             ttl == entry[k].ttl
  <2>1. Active(config) /\ PlanTtl(config) > 0 /\ config \in Configs
    BY <1>1 DEF Hits, Plan, IInv, TypeOK
  <2>2. /\ config.enabled /\ config.max_age # 0 /\ config.max_size # 0
        /\ config.max_age \in Nat /\ config.max_size \in Nat
    BY <2>1, ConfigsAssumption DEF Active, DisabledReason
  <2>3. /\ k \in Keys /\ entry[k] # NoEntry /\ TypeOK
        /\ Founded(k) /\ IsFresh(entry[k])
    BY <1>1, HitIsSound
  <2>4. ttl > 0 /\ ttl \in Nat /\ c \in Configs /\ ttl <= PlanTtl(c)
    BY <2>3, FreshIsYoung DEF Founded, TypeOK, Entry, Word
  <2>5. PlanTtl(c) \in Nat /\ c.max_age \in Nat
        /\ \A i \in DOMAIN c.whitelist : c.whitelist[i].max_age \in Nat
    BY <2>4, AgesPlanned, ConfigsAssumption
  <2>6. PlanTtl(c) > 0
    BY <2>4, <2>5
  <2> HIDE DEF c, ttl
  <2>7. ttl <= c.max_age
    BY <2>4, <2>5, <2>6, DecidingRule
  <2>8. \E i \in DOMAIN c.whitelist : Decides(c, i) /\ ttl <= c.whitelist[i].max_age
    <3>1. PICK i \in DOMAIN c.whitelist :
             Decides(c, i) /\ PlanTtl(c) <= c.whitelist[i].max_age
      BY <2>4, <2>6, DecidingRule
    <3> QED
      BY <2>4, <2>5, <3>1
  <2>9. \E i \in DOMAIN config.whitelist :
           Decides(config, i) /\ config.whitelist[i].max_age > 0
    BY <2>1, DecidingRule
  <2> QED
    BY <2>2, <2>7, <2>8, <2>9 DEF c, ttl
<1>2. IInv => LastRuleDecides
  BY <1>1 DEF LastRuleDecides
<1> QED
  BY <1>2, SpecIInv, PTL

-----------------------------------------------------------------------------
(* Where the documentation of the 304 holds *)

\* No client brings validators of its own, or every response has a tag, which
\* goes in the client's place and is the one that decides.
Unambiguous ==
    \/ \A q \in Requests : q.inm = NoTag /\ q.ims = NoDate
    \/ \A v \in Versions : Answer[v].etag # NoTag

\* Every confirmation so far was of the entry's own validators.
AllOwn ==
    \A k \in Keys : entry[k] # NoEntry =>
       /\ word[k].own
       /\ (\A v \in Versions : Answer[v].etag # NoTag) => entry[k].etag # NoTag

\* The condition that decided a 304 is one the entry provided.
LEMMA NextAllOwn ==
    ASSUME Unambiguous, IInv, AllOwn, [Next]_vars
    PROVE  AllOwn'
<1>1. /\ entry \in [Keys -> Entry \cup {NoEntry}]
      /\ word \in [Keys -> Word \cup {NoEntry}] /\ origin \in Versions
      /\ \A k \in Keys : entry[k] # NoEntry => word[k] \in Word
  BY DEF IInv, TypeOK, Founded
<1>2. ASSUME NEW c \in Configs, Restart(c) PROVE AllOwn'
  <2>1. PICK gone \in SUBSET Keys :
           entry' = Without(gone, entry) /\ word' = Without(gone, word)
    BY <1>2 DEF Restart, Held
  <2> QED
    BY <1>1, <2>1 DEF Without, AllOwn
<1>6. ASSUME NEW k \in Keys, Evict(k) PROVE AllOwn'
  BY <1>1, <1>6 DEF Evict, AllOwn
<1>3. ASSUME NEW q \in Requests, Stored(q) PROVE AllOwn'
  <2> DEFINE k == CacheKey(q)
             h == Answer[origin]
             e == [ver |-> origin, created |-> Clock,
                   ttl |-> EffectiveTtl(PlanTtl(config), h),
                   revalidate |-> RequiresRevalidation(h),
                   etag |-> h.etag, lm |-> h.lm]
             w == [by |-> q.accept, said |-> origin, h |-> h,
                   conf |-> config, at |-> real,
                   drift |-> drift, own |-> TRUE]
  <2>1. /\ entry' = [entry EXCEPT ![k] = e] /\ word' = [word EXCEPT ![k] = w]
        /\ k \in Keys
    BY <1>3, KeyOfRequest DEF Stored
  <2>2. w.own /\ e.etag = Answer[origin].etag
    OBVIOUS
  <2> HIDE DEF k, e, w
  <2> QED
    BY <1>1, <2>1, <2>2 DEF AllOwn
<1>4. ASSUME NEW q \in Requests, Confirmed(q) PROVE AllOwn'
  <2> DEFINE k == CacheKey(q)
  <2>1. PICK h \in NotModified :
           /\ entry' = [entry EXCEPT ![k] = Refreshed(@, h)]
           /\ word' = [word EXCEPT ![k] = Heard(@, h, OwnCondition(q, entry[k]))]
    BY <1>4 DEF Confirmed
  <2>2. k \in Keys /\ entry[k] # NoEntry /\ MayConfirm(Sent(q, entry[k]))
    BY <1>4, KeyOfRequest DEF Confirmed
  <2> DEFINE e == Refreshed(entry[k], h)
             w == Heard(word[k], h, OwnCondition(q, entry[k]))
  <2> HIDE DEF k
  <2>3. entry[k] \in Entry /\ word[k] \in Word
    BY <1>1, <2>2
  <2>4. OwnCondition(q, entry[k])
    <3>1. CASE \A r \in Requests : r.inm = NoTag /\ r.ims = NoDate
      <4>1. Answer[origin].lm \in Nat
        BY <1>1, PolicyAssumption DEF Headers
      <4> QED
        BY <2>2, <3>1, <4>1 DEF OwnCondition, Sent, MayConfirm, NoDate
    <3>2. CASE \A v \in Versions : Answer[v].etag # NoTag
      BY <2>2, <3>2 DEF OwnCondition, Sent, AllOwn
    <3> QED
      BY <3>1, <3>2 DEF Unambiguous
  <2>5. w.own
    BY <2>2, <2>3, <2>4 DEF Heard, Word, AllOwn
  <2>6. (\A v \in Versions : Answer[v].etag # NoTag) => e.etag # NoTag
    BY <2>2, <2>3 DEF Refreshed, Entry, AllOwn
  <2>7. entry' = [entry EXCEPT ![k] = e] /\ word' = [word EXCEPT ![k] = w]
    BY <2>1
  <2> HIDE DEF e, w
  <2> QED
    BY <1>1, <2>2, <2>5, <2>6, <2>7 DEF AllOwn
<1>5. CASE UNCHANGED <<entry, word>>
  BY <1>5 DEF AllOwn
<1> QED
  BY <1>2, <1>3, <1>4, <1>5, <1>6 DEF Next, Publish, Tick, StepClock, vars

\* A 304 renews the version the origin has if nobody's validators but the
\* entry's can decide: when clients send none, or when all responses have a tag
\* (add_validators sends the client's own where the entry has none of a kind).
THEOREM OwnValidatorsSuffice ==
    ASSUME Unambiguous
    PROVE  Spec => []RevalidatedIsCurrent
<1>1. Init => AllOwn
  BY DEF Init, AllOwn
<1>2. IInv /\ AllOwn /\ [Next]_vars => AllOwn'
  BY NextAllOwn
<1>3. IInv /\ AllOwn => RevalidatedIsCurrent
  BY DEF IInv, Owned, AllOwn, RevalidatedIsCurrent
<1> QED
  BY <1>1, <1>2, <1>3, SpecIInv, PTL DEF Spec

=============================================================================
