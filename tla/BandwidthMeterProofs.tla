----------------------- MODULE BandwidthMeterProofs -----------------------
(***************************************************************************)
(* Proofs about BandwidthMeter for any number of tiers, buckets and        *)
(* concurrent streams and any counter width.                               *)
(***************************************************************************)
EXTENDS BandwidthMeter, TLAPS

-----------------------------------------------------------------------------
(* Arithmetic of the counters *)

\* The guard keeps counting what was pulled.
LEMMA GuardCounts ==
  ASSUME NEW p \in Nat, NEW n \in 0 .. Top
  PROVE  /\ GuardUsed(GuardCount(p), n) = GuardCount(p + n)
         /\ GuardCount(p) \in 0 .. Top
  BY MeterAssumption DEF GuardUsed, GuardCount, SatAdd

\* It refuses exactly the bodies that are over the cap.
LEMMA GuardExact ==
  ASSUME NEW p \in Nat, ResultMax \in 1 .. Top - 1
  PROVE  GuardRefuses(GuardCount(p)) <=> p > ResultMax
  BY MeterAssumption DEF GuardRefuses, GuardCount

\* A charge keeps a window honest, whatever was in it and whenever it began.
LEMMA ChargedHonest ==
  ASSUME IndInv, NEW i \in Tiers, NEW b \in Buckets, NEW n \in 0 .. Top
  PROVE  /\ Charged(i, b, n) \in WindowState
         /\ SeenNow(i, b, n) \in Nat
         /\ Charged(i, b, n).used <= Max[i]
         /\ Charged(i, b, n).used # SeenNow(i, b, n) =>
              SeenNow(i, b, n) > Max[i]
  <1> DEFINE w == Current(i, b)
             old == IF window[i][b] = NoWindow \/ Elapsed(i, Entry(i, b))
                    THEN 0 ELSE seen[i][b]
  <1>1. /\ clock \in Nat /\ seen[i][b] \in Nat /\ Max[i] \in 1 .. Top
        /\ window[i][b] \in WindowState \cup {NoWindow}
    BY MeterAssumption DEF IndInv, TypeOK
  <1>2. w \in WindowState
    BY <1>1, MeterAssumption DEF Current, Entry, WindowState
  <1>3. /\ old \in Nat /\ w.used <= Max[i]
        /\ w.used # old => old > Max[i]
    <2>0. Period[i] \in Nat \ {0} /\ [used |-> 0, start |-> clock].used = 0
      BY MeterAssumption
    <2>1. CASE window[i][b] = NoWindow \/ Elapsed(i, Entry(i, b))
      <3>1. w = [used |-> 0, start |-> clock]
        BY <2>1 DEF Current, Entry
      <3>2. old = 0
        BY <2>1
      <3> HIDE DEF w, old
      <3> QED BY <1>1, <2>0, <3>1, <3>2
    <2>2. CASE ~ (window[i][b] = NoWindow \/ Elapsed(i, Entry(i, b)))
      <3>1. w = window[i][b] /\ window[i][b] # NoWindow
        BY <2>2 DEF Current, Entry
      <3>2. old = seen[i][b]
        BY <2>2
      <3>3. /\ window[i][b].used <= Max[i]
            /\ window[i][b].used # seen[i][b] => seen[i][b] > Max[i]
        BY <3>1 DEF IndInv, WindowsHonest
      <3> HIDE DEF w, old
      <3> QED BY <1>1, <3>1, <3>2, <3>3
    <2> QED BY <2>1, <2>2
  <1>4. SeenNow(i, b, n) = old + n
    BY <1>1 DEF SeenNow
  <1>5. Charged(i, b, n) = IF SatAdd(w.used, n) > Max[i] THEN w
                           ELSE [w EXCEPT !.used = SatAdd(w.used, n)]
    BY <1>2 DEF Charged, WindowState
  <1>6. w.used \in 0 .. Top /\ Top \in Nat
    BY <1>2, MeterAssumption DEF WindowState
  <1> HIDE DEF w, old
  <1>7. CASE SatAdd(w.used, n) > Max[i]
    <2>1. w.used + n > Max[i]
      BY <1>1, <1>6, <1>7 DEF SatAdd
    <2> QED BY <1>1, <1>2, <1>3, <1>4, <1>5, <1>6, <1>7, <2>1
  <1>8. CASE ~ (SatAdd(w.used, n) > Max[i])
    <2>1. SatAdd(w.used, n) \in 0 .. Top /\ SatAdd(w.used, n) <= Max[i]
      BY <1>1, <1>6, <1>8 DEF SatAdd
    <2>2. [w EXCEPT !.used = SatAdd(w.used, n)] \in WindowState
      BY <1>2, <2>1 DEF WindowState
    <2>3. [w EXCEPT !.used = SatAdd(w.used, n)].used = SatAdd(w.used, n)
      BY <1>2 DEF WindowState
    <2>4. SatAdd(w.used, n) # old + n => old + n > Max[i]
      BY <1>1, <1>3, <1>6, <2>1 DEF SatAdd
    <2> QED BY <1>3, <1>4, <1>5, <1>8, <2>1, <2>2, <2>3, <2>4
  <1> QED BY <1>7, <1>8

-----------------------------------------------------------------------------
(* The inductive invariant *)

\* The initial states satisfy it.
LEMMA InitialInv == Init => IndInv
  <1> SUFFICES ASSUME Init PROVE IndInv
    OBVIOUS
  <1>1. 1 \in 1 .. NumTiers + 1 /\ 0 \in 0 .. Top
    BY MeterAssumption
  <1>2. Unused \in Stream
    BY <1>1 DEF Unused, Stream
  <1>3. TypeOK
    BY <1>2 DEF Init, TypeOK
  <1>4. WindowsHonest
    BY DEF Init, WindowsHonest
  <1>5. StreamOK(Unused)
    BY MeterAssumption DEF StreamOK, Unused, GuardCount
  <1> QED BY <1>3, <1>4, <1>5 DEF Init, IndInv

\* Replacing one stream by one in order keeps the streams in order.
LEMMA SetKeeps ==
  ASSUME IndInv, NEW s \in Streams, NEW r \in Stream, StreamOK(r), Set(s, r)
  PROVE  /\ stream' \in [Streams -> Stream]
         /\ \A t \in Streams : StreamOK(stream'[t])
  <1>1. stream \in [Streams -> Stream] /\ \A t \in Streams : StreamOK(stream[t])
    BY DEF IndInv, TypeOK
  <1>2. stream' = [stream EXCEPT ![s] = r]
    BY DEF Set
  <1> QED BY <1>1, <1>2

\* A step of one stream alone keeps the invariant.
LEMMA StreamStep ==
  ASSUME IndInv, NEW s \in Streams, NEW r \in Stream, StreamOK(r), Set(s, r),
         UNCHANGED <<window, clock, seen>>
  PROVE  IndInv'
  <1>1. TypeOK'
    BY SetKeeps DEF IndInv, TypeOK
  <1>2. WindowsHonest'
    BY DEF IndInv, WindowsHonest
  <1>3. \A t \in Streams : StreamOK(stream[t])'
    BY SetKeeps DEF StreamOK, GuardCount
  <1> QED BY <1>1, <1>2, <1>3 DEF IndInv

\* A fresh stream has sent and pulled nothing.
LEMMA OpenStep ==
  ASSUME IndInv, NEW s \in Streams, Open(s)
  PROVE  IndInv'
  <1>1. PICK b \in Buckets :
          Set(s, [Unused EXCEPT !.pc = "pull", !.bucket = b])
    BY DEF Open
  <1> DEFINE q == [Unused EXCEPT !.pc = "pull", !.bucket = b]
  <1>2. 1 \in 1 .. NumTiers + 1 /\ 0 \in 0 .. Top
    BY MeterAssumption
  <1>3. q \in Stream
    BY <1>2 DEF Unused, Stream
  <1>4. StreamOK(q)
    BY MeterAssumption DEF StreamOK, Unused, GuardCount
  <1>5. Set(s, q) /\ UNCHANGED <<window, clock, seen>>
    BY <1>1 DEF Open
  <1> HIDE DEF q
  <1> QED BY <1>3, <1>4, <1>5, StreamStep

\* A pulled chunk is counted, and refused exactly when it exceeds the cap.
LEMMA PullStep ==
  ASSUME IndInv, NEW s \in Streams, Pull(s)
  PROVE  IndInv'
  <1> DEFINE o == stream[s]
  <1>1. o \in Stream /\ StreamOK(o) /\ o.pc = "pull"
    BY DEF IndInv, TypeOK, Pull
  <1>2. PICK n \in Chunks :
          LET r == [o EXCEPT !.n = n, !.pulled = @ + n,
                             !.used = GuardUsed(@, n)]
          IN  Set(s, IF GuardRefuses(r.used)
                     THEN [r EXCEPT !.pc = "ended", !.outcome = "cut"]
                     ELSE [r EXCEPT !.pc = "charge", !.tier = 1])
    BY DEF Pull
  <1> DEFINE cut == [o EXCEPT !.n = n, !.pulled = o.pulled + n,
                              !.used = GuardUsed(o.used, n),
                              !.pc = "ended", !.outcome = "cut"]
             go == [o EXCEPT !.n = n, !.pulled = o.pulled + n,
                             !.used = GuardUsed(o.used, n),
                             !.pc = "charge", !.tier = 1]
  <1>3. n \in 0 .. Top /\ Top \in Nat /\ NumTiers \in Nat
        /\ ResultMax \in 0 .. Top
    BY MeterAssumption
  <1>4. /\ o.pulled \in Nat /\ o.sent = o.pulled /\ o.outcome = "none"
        /\ o.used = GuardCount(o.pulled)
        /\ o.pulled + n \in Nat
        /\ ResultMax \in 1 .. Top - 1 => o.pulled <= ResultMax
    BY <1>1, <1>3 DEF Stream, StreamOK
  <1>5. /\ GuardUsed(o.used, n) = GuardCount(o.pulled + n)
        /\ GuardCount(o.pulled + n) \in 0 .. Top
    BY <1>3, <1>4, GuardCounts
  <1>6. CASE GuardRefuses(GuardUsed(o.used, n))
    <2>1. Set(s, cut)
      BY <1>1, <1>2, <1>6 DEF Stream
    <2>2. cut \in Stream
      BY <1>1, <1>3, <1>4, <1>5 DEF Stream
    <2>3. ResultMax \in 1 .. Top - 1 => o.pulled + n > ResultMax
      BY <1>4, <1>5, <1>6, GuardExact
    <2>4. StreamOK(cut)
      BY <1>1, <1>3, <1>4, <1>5, <2>3 DEF Stream, StreamOK
    <2>5. UNCHANGED <<window, clock, seen>>
      BY DEF Pull
    <2> HIDE DEF cut
    <2> QED BY <2>1, <2>2, <2>4, <2>5, StreamStep
  <1>7. CASE ~ GuardRefuses(GuardUsed(o.used, n))
    <2>1. Set(s, go)
      BY <1>1, <1>2, <1>7 DEF Stream
    <2>2. go \in Stream
      <3>1. 1 \in 1 .. NumTiers + 1
        BY <1>3
      <3> QED BY <1>1, <1>3, <1>4, <1>5, <3>1 DEF Stream
    <2>3. ResultMax \in 1 .. Top - 1 => o.pulled + n <= ResultMax
      BY <1>3, <1>4, <1>5, <1>7, GuardExact
    <2>4. StreamOK(go)
      BY <1>1, <1>3, <1>4, <1>5, <2>3 DEF Stream, StreamOK
    <2>5. UNCHANGED <<window, clock, seen>>
      BY DEF Pull
    <2> HIDE DEF go
    <2> QED BY <2>1, <2>2, <2>4, <2>5, StreamStep
  <1> QED BY <1>6, <1>7

\* A charge moves on to the next tier.
LEMMA ChargeStep ==
  ASSUME IndInv, NEW s \in Streams, Charge(s)
  PROVE  IndInv'
  <1> DEFINE o == stream[s]
             q == [o EXCEPT !.tier = o.tier + 1]
             i == o.tier
             b == o.bucket
  <1>1. o \in Stream /\ StreamOK(o) /\ o.pc = "charge"
    BY DEF IndInv, TypeOK, Charge
  <1>2. i \in Tiers /\ b \in Buckets /\ o.n \in 0 .. Top
    BY <1>1 DEF Charge, Stream, StreamOK
  <1>3. /\ window' = [window EXCEPT ![i][b] = Charged(i, b, o.n)]
        /\ seen' = [seen EXCEPT ![i][b] = SeenNow(i, b, o.n)]
        /\ clock' = clock
    BY DEF Charge
  <1>4. Set(s, q)
    BY <1>1 DEF Charge, Stream
  <1>6. o.tier + 1 \in 1 .. NumTiers + 1
    BY <1>2, MeterAssumption DEF Tiers
  <1>7. q \in Stream
    BY <1>1, <1>6 DEF Stream
  <1>8. StreamOK(q)
    BY <1>1 DEF Stream, StreamOK
  <1> DEFINE c == Charged(i, b, o.n)
             z == SeenNow(i, b, o.n)
  <1>9. /\ c \in WindowState /\ z \in Nat
        /\ c.used <= Max[i]
        /\ c.used # z => z > Max[i]
    BY <1>2, ChargedHonest
  <1>10. /\ window' = [window EXCEPT ![i][b] = c]
         /\ seen' = [seen EXCEPT ![i][b] = z]
    BY <1>3
  <1>11. TypeOK /\ WindowsHonest
    BY DEF IndInv
  <1>12. /\ stream' \in [Streams -> Stream]
         /\ \A t \in Streams : StreamOK(stream'[t])
    <2> HIDE DEF q
    <2> QED BY <1>4, <1>7, <1>8, SetKeeps
  <1> HIDE DEF c, z, i, b, q, o
  <1>13. TypeOK'
    BY <1>2, <1>3, <1>9, <1>10, <1>11, <1>12 DEF TypeOK
  <1>14. WindowsHonest'
    <2> SUFFICES ASSUME NEW j \in Tiers, NEW d \in Buckets,
                        window'[j][d] # NoWindow
                 PROVE  /\ window'[j][d].used <= Max[j]
                        /\ window'[j][d].used # seen'[j][d]
                             => seen'[j][d] > Max[j]
      BY DEF WindowsHonest
    <2>1. CASE j = i /\ d = b
      BY <1>2, <1>9, <1>10, <1>11, <2>1 DEF TypeOK
    <2>2. CASE ~ (j = i /\ d = b)
      <3>1. window'[j][d] = window[j][d] /\ seen'[j][d] = seen[j][d]
        BY <1>2, <1>10, <1>11, <2>2 DEF TypeOK
      <3> QED BY <1>11, <3>1 DEF WindowsHonest
    <2> QED BY <2>1, <2>2
  <1>15. \A t \in Streams : StreamOK(stream[t])'
    BY <1>12 DEF StreamOK, GuardCount
  <1> QED BY <1>13, <1>14, <1>15 DEF IndInv

\* A yielded chunk has been sent in full.
LEMMA YieldStep ==
  ASSUME IndInv, NEW s \in Streams, Yield(s)
  PROVE  IndInv'
  <1> DEFINE o == stream[s]
             q == [o EXCEPT !.pc = "pull", !.sent = o.sent + o.n, !.n = 0]
  <1>1. o \in Stream /\ StreamOK(o) /\ o.pc = "charge" /\ Top \in Nat
    BY MeterAssumption DEF IndInv, TypeOK, Yield
  <1>2. Set(s, q) /\ UNCHANGED <<window, clock, seen>>
    BY <1>1 DEF Yield, Stream
  <1>3. o.sent \in Nat /\ o.n \in Nat /\ 0 \in 0 .. Top
        /\ o.sent + o.n \in Nat
    BY <1>1 DEF Stream
  <1>4. q \in Stream
    BY <1>1, <1>3 DEF Stream
  <1>5. StreamOK(q)
    BY <1>1, <1>3 DEF Stream, StreamOK
  <1> HIDE DEF q
  <1> QED BY <1>2, <1>4, <1>5, StreamStep

\* A body ends between chunks.
LEMMA EndStep ==
  ASSUME IndInv, NEW s \in Streams, InnerEnds(s)
  PROVE  IndInv'
  <1> DEFINE o == stream[s]
  <1>1. PICK x \in {"complete", "failed"} :
          Set(s, [o EXCEPT !.pc = "ended", !.outcome = x])
    BY DEF InnerEnds
  <1> DEFINE q == [o EXCEPT !.pc = "ended", !.outcome = x]
  <1>2. o \in Stream /\ StreamOK(o) /\ o.pc = "pull"
    BY DEF IndInv, TypeOK, InnerEnds
  <1>3. q \in Stream
    BY <1>2 DEF Stream
  <1>4. StreamOK(q)
    BY <1>2 DEF Stream, StreamOK
  <1>5. Set(s, q) /\ UNCHANGED <<window, clock, seen>>
    BY <1>1 DEF InnerEnds
  <1> HIDE DEF q
  <1> QED BY <1>3, <1>4, <1>5, StreamStep

\* A closed stream leaves nothing behind.
LEMMA CloseStep ==
  ASSUME IndInv, NEW s \in Streams, Close(s)
  PROVE  IndInv'
  <1>1. 1 \in 1 .. NumTiers + 1 /\ 0 \in 0 .. Top
    BY MeterAssumption
  <1>2. Unused \in Stream
    BY <1>1 DEF Unused, Stream
  <1>3. StreamOK(Unused)
    BY MeterAssumption DEF StreamOK, Unused, GuardCount
  <1> QED BY <1>2, <1>3, StreamStep DEF Close

\* Time alone disturbs nothing, nor does stuttering.
LEMMA QuietStep ==
  ASSUME IndInv, Tick \/ UNCHANGED vars
  PROVE  IndInv'
  <1>1. UNCHANGED <<window, stream, seen>> /\ clock' \in Nat
    BY DEF Tick, vars, IndInv, TypeOK
  <1>2. TypeOK'
    BY <1>1 DEF IndInv, TypeOK
  <1>3. WindowsHonest'
    BY <1>1 DEF IndInv, WindowsHonest
  <1>4. \A t \in Streams : StreamOK(stream[t])'
    BY <1>1 DEF IndInv, StreamOK, GuardCount
  <1> QED BY <1>2, <1>3, <1>4 DEF IndInv

\* Every step of the meter preserves the invariant.
LEMMA Preserved == IndInv /\ [Next]_vars => IndInv'
  <1> SUFFICES ASSUME IndInv, [Next]_vars PROVE IndInv'
    OBVIOUS
  <1>1. CASE \E s \in Streams : \/ Open(s) \/ Pull(s) \/ Charge(s)
                                \/ Yield(s) \/ InnerEnds(s) \/ Close(s)
    BY <1>1, OpenStep, PullStep, ChargeStep, YieldStep, EndStep, CloseStep
  <1>2. CASE Tick \/ UNCHANGED vars
    BY <1>2, QuietStep
  <1> QED BY <1>1, <1>2 DEF Next

-----------------------------------------------------------------------------
(* Theorems *)

\* The inductive invariant holds in every reachable state of the meter.
THEOREM MeterInvariance == Spec => []IndInv
  <1> QED BY InitialInv, Preserved, PTL DEF Spec

\* WindowState::charge keeps every window honest, however many streams of
\* however many buckets interleave between however many tiers.
THEOREM HonestWindows == Spec => []WindowsHonest
  <1>1. IndInv => WindowsHonest
    BY DEF IndInv
  <1> QED BY <1>1, MeterInvariance, PTL

\* ResultSizeGuard::charge is a hard cap: no client is sent more, and only a
\* body over the cap is cut.
THEOREM CapIsHard == Spec => []HardCap
  <1>1. IndInv => HardCap
    BY DEF IndInv, HardCap, StreamOK
  <1> QED BY <1>1, MeterInvariance, PTL

\* The connection windows never cut a body.
THEOREM WindowsAreSoft == Spec => []SoftCap
  <1>1. IndInv => SoftCap
    BY DEF IndInv, SoftCap, StreamOK
  <1> QED BY <1>1, MeterInvariance, PTL
=============================================================================
