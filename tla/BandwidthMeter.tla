--------------------------- MODULE BandwidthMeter ---------------------------
(***************************************************************************)
(* Byte accounting of streamed bodies (src/src/limit.rs): metered_stream   *)
(* charges every chunk first to the ResultSizeGuard of its own response    *)
(* (a hard cap) and then, tier by tier, to the fixed windows its bucket    *)
(* shares with all concurrent streams (a soft cap).  Each tier is a map    *)
(* with an entry lock, so one charge of one tier is a step, and streams of *)
(* a bucket interleave between the tiers.                                  *)
(***************************************************************************)
EXTENDS Integers

CONSTANTS
    Buckets,    \* requesting origin and client address
    Streams,    \* bodies being streamed at a time
    NumTiers,   \* number of connection bandwidth tiers
    Period,     \* Period[i]: length of the window of tier i
    Max,        \* Max[i]: bytes allowed in a window of tier i
    ResultMax,  \* bandwidth_limit.result.max; 0 is "no cap"
    Top,        \* u64::MAX
    Chunks,     \* lengths of the chunks an upstream body comes in
    MaxTime,    \* bound on the clock
    MaxPulled,  \* bound on the bytes of one body
    MaxSeen,    \* bound on the bytes a window is offered before the last chunks
    NoBucket, NoWindow

Tiers == 1 .. NumTiers

WindowState == [used: 0 .. Top, start: Nat]

ASSUME MeterAssumption ==
    /\ NumTiers \in Nat
    /\ Top \in Nat
    /\ Period \in [Tiers -> Nat \ {0}]
    /\ Max \in [Tiers -> 1 .. Top]
    /\ ResultMax \in 0 .. Top
    /\ Chunks \subseteq 0 .. Top
    /\ MaxTime \in Nat /\ MaxPulled \in Nat /\ MaxSeen \in Nat
    /\ NoBucket \notin Buckets
    /\ NoWindow \notin WindowState

VARIABLES
    window, \* window[i][b]: the WindowState of bucket b in tier i, if any
    stream, \* stream[s]: local state of a metered stream
    clock,  \* monotonic clock (Instant)
    seen    \* history: seen[i][b]: bytes offered to tier i in b's window

vars == <<window, stream, clock, seen>>

-----------------------------------------------------------------------------
\* MUTANT of SatAdd: wrapping_add.
WrapAdd(a, b) == (a + b) % (Top + 1)

\* saturating_add
SatAdd(a, b) == IF a + b > Top THEN Top ELSE a + b

\* ResultSizeGuard::charge counts before it compares, and not without a cap.
GuardUsed(used, n) == IF ResultMax = 0 THEN used ELSE SatAdd(used, n)

\* MUTANT of GuardRefuses: a body of just the cap is refused.
RefusesAtCap(used) == ResultMax # 0 /\ used >= ResultMax

GuardRefuses(used) == ResultMax # 0 /\ used > ResultMax

Unused == [pc |-> "unused", bucket |-> NoBucket, used |-> 0, n |-> 0,
           tier |-> 1, pulled |-> 0, sent |-> 0, outcome |-> "none"]

\* entry().or_insert_with(WindowState::new)
Entry(i, b) == IF window[i][b] = NoWindow
               THEN [used |-> 0, start |-> clock]
               ELSE window[i][b]

Elapsed(i, w) == clock - w.start >= Period[i]

\* MUTANT of Current: the new window inherits the old count.
CurrentKeepsUsed(i, b) == IF Elapsed(i, Entry(i, b))
                          THEN [Entry(i, b) EXCEPT !.start = clock]
                          ELSE Entry(i, b)

\* WindowState::charge before the comparison: an elapsed window starts anew.
Current(i, b) == IF Elapsed(i, Entry(i, b))
                 THEN [used |-> 0, start |-> clock]
                 ELSE Entry(i, b)

\* A charge that would exceed the window is refused and not counted.
Charged(i, b, n) ==
    LET w == Current(i, b)
    IN  IF SatAdd(w.used, n) > Max[i] THEN w
                                      ELSE [w EXCEPT !.used = SatAdd(@, n)]

\* What the window has been offered, counted like the code counts what it
\* accepted: from the start of the current window.
SeenNow(i, b, n) ==
    IF window[i][b] = NoWindow \/ Elapsed(i, Entry(i, b))
    THEN n ELSE seen[i][b] + n

-----------------------------------------------------------------------------
Init ==
    /\ window = [i \in Tiers |-> [b \in Buckets |-> NoWindow]]
    /\ stream = [s \in Streams |-> Unused]
    /\ clock = 0
    /\ seen = [i \in Tiers |-> [b \in Buckets |-> 0]]

Set(s, r) == stream' = [stream EXCEPT ![s] = r]

Open(s) ==
    /\ stream[s].pc = "unused"
    /\ \E b \in Buckets : Set(s, [Unused EXCEPT !.pc = "pull", !.bucket = b])
    /\ UNCHANGED <<window, clock, seen>>

\* The next chunk arrives and passes the guard, or the stream is cut.
Pull(s) ==
    /\ stream[s].pc = "pull"
    /\ \A i \in Tiers : seen[i][stream[s].bucket] <= MaxSeen
    /\ \E n \in Chunks :
         LET r == [stream[s] EXCEPT !.n = n,
                                    !.pulled = @ + n,
                                    !.used = GuardUsed(@, n)]
         IN  /\ r.pulled <= MaxPulled
             /\ Set(s, IF GuardRefuses(r.used)
                       THEN [r EXCEPT !.pc = "ended", !.outcome = "cut"]
                       ELSE [r EXCEPT !.pc = "charge", !.tier = 1])
    /\ UNCHANGED <<window, clock, seen>>

\* Whether tier i takes another n bytes of bucket b.
Accepts(i, b, n) == SatAdd(Current(i, b).used, n) <= Max[i]

\* MUTANT of Charge: a refused chunk is dropped.
ChargeDrops(s) ==
    LET r == stream[s]
        i == r.tier
        b == r.bucket
    IN  /\ r.pc = "charge"
        /\ i \in Tiers
        /\ window' = [window EXCEPT ![i][b] = Charged(i, b, r.n)]
        /\ seen' = [seen EXCEPT ![i][b] = SeenNow(i, b, r.n)]
        /\ Set(s, IF Accepts(i, b, r.n)
                  THEN [r EXCEPT !.tier = i + 1]
                  ELSE [r EXCEPT !.pc = "pull", !.n = 0])
        /\ UNCHANGED clock

\* MUTANT of Charge: the first refusal ends the loop over the tiers.
ChargeStopsEarly(s) ==
    LET r == stream[s]
        i == r.tier
        b == r.bucket
    IN  /\ r.pc = "charge"
        /\ i \in Tiers
        /\ window' = [window EXCEPT ![i][b] = Charged(i, b, r.n)]
        /\ seen' = [seen EXCEPT ![i][b] = SeenNow(i, b, r.n)]
        /\ Set(s, [r EXCEPT !.tier = IF Accepts(i, b, r.n)
                                     THEN i + 1 ELSE NumTiers + 1])
        /\ UNCHANGED clock

\* BandwidthLimiter::charge goes on to the next tier, refused or not.
Charge(s) ==
    LET r == stream[s]
        i == r.tier
        b == r.bucket
    IN  /\ r.pc = "charge"
        /\ i \in Tiers
        /\ window' = [window EXCEPT ![i][b] = Charged(i, b, r.n)]
        /\ seen' = [seen EXCEPT ![i][b] = SeenNow(i, b, r.n)]
        /\ Set(s, [r EXCEPT !.tier = i + 1])
        /\ UNCHANGED clock

\* The chunk is yielded whatever the tiers said.
Yield(s) ==
    LET r == stream[s]
    IN  /\ r.pc = "charge"
        /\ r.tier \notin Tiers
        /\ Set(s, [r EXCEPT !.pc = "pull", !.sent = @ + r.n, !.n = 0])
        /\ UNCHANGED <<window, clock, seen>>

\* The inner stream ends, or fails and the failure is passed on.
InnerEnds(s) ==
    /\ stream[s].pc = "pull"
    /\ \E o \in {"complete", "failed"} :
         Set(s, [stream[s] EXCEPT !.pc = "ended", !.outcome = o])
    /\ UNCHANGED <<window, clock, seen>>

\* The response is finished with, or the client stops reading.
Close(s) ==
    /\ stream[s].pc \in {"pull", "ended"}
    /\ Set(s, Unused)
    /\ UNCHANGED <<window, clock, seen>>

Tick ==
    /\ clock < MaxTime
    /\ clock' = clock + 1
    /\ UNCHANGED <<window, stream, seen>>

Next == \/ \E s \in Streams : \/ Open(s) \/ Pull(s) \/ Charge(s) \/ Yield(s)
                              \/ InnerEnds(s) \/ Close(s)
        \/ Tick

Spec == Init /\ [][Next]_vars

-----------------------------------------------------------------------------
(* Properties *)

Stream == [pc: {"unused", "pull", "charge", "ended"},
           bucket: Buckets \cup {NoBucket}, used: 0 .. Top, n: 0 .. Top,
           tier: 1 .. NumTiers + 1, pulled: Nat, sent: Nat,
           outcome: {"none", "complete", "failed", "cut"}]

TypeOK ==
    /\ window \in [Tiers -> [Buckets -> WindowState \cup {NoWindow}]]
    /\ stream \in [Streams -> Stream]
    /\ clock \in Nat
    /\ seen \in [Tiers -> [Buckets -> Nat]]

\* No window ever counts more than its tier allows, and one counts less than
\* it was offered only if the bucket really sent more than that: concurrent
\* streams neither lose a byte nor report an overrun that did not happen.
WindowsHonest ==
    \A i \in Tiers, b \in Buckets :
       window[i][b] # NoWindow =>
          /\ window[i][b].used <= Max[i]
          /\ window[i][b].used # seen[i][b] => seen[i][b] > Max[i]

\* With a result cap (below the width of the counter) no client is sent more
\* than it, and a body is only cut when it does exceed the cap.
HardCap ==
    ResultMax \in 1 .. Top - 1 =>
       \A s \in Streams :
          /\ stream[s].sent <= ResultMax
          /\ stream[s].outcome = "cut" => stream[s].pulled > ResultMax

\* The connection windows never cut a body: what ends as complete was sent in
\* full.
SoftCap ==
    \A s \in Streams :
       stream[s].outcome = "complete" => stream[s].sent = stream[s].pulled

\* No stream of the bucket has a chunk that tier i has been charged for and
\* tier j has not.
NoneBetween(i, j, b) ==
    \A s \in Streams :
       stream[s].pc = "charge" /\ stream[s].bucket = b =>
          stream[s].tier \notin i + 1 .. j

\* Every byte an earlier tier was offered, refused or not, is counted by each
\* later tier: a later window that is no younger counts at least what the
\* earlier one was offered, unless it refused some of its own, however streams
\* interleave between the tiers and windows elapse in between
\* (BandwidthLimiter::charge attempts every tier).
LaterTiersCount ==
    \A b \in Buckets : \A j \in Tiers : \A i \in 1 .. j - 1 :
       /\ window[i][b] # NoWindow
       /\ NoneBetween(i, j, b)
       => /\ window[j][b] # NoWindow
          /\ window[j][b].start <= window[i][b].start
                /\ seen[j][b] <= Max[j] =>
             window[j][b].used >= seen[i][b]

-----------------------------------------------------------------------------
(* The inductive invariant *)

\* What the guard has counted of a body of which p bytes were pulled.
GuardCount(p) == IF ResultMax = 0 THEN 0 ELSE IF p > Top THEN Top ELSE p

StreamOK(r) ==
    /\ r.pc \in {"pull", "charge"} => r.bucket \in Buckets
    /\ r.pc \in {"unused", "pull"} => r.sent = r.pulled
    /\ r.pc = "charge" => r.sent + r.n = r.pulled
    /\ r.pc # "ended" => r.outcome = "none"
    /\ r.outcome = "complete" => r.sent = r.pulled
    /\ r.sent <= r.pulled
    /\ r.used = GuardCount(r.pulled)
    /\ ResultMax \in 1 .. Top - 1 =>
          /\ r.outcome # "cut" => r.pulled <= ResultMax
          /\ r.sent <= ResultMax
          /\ r.outcome = "cut" => r.pulled > ResultMax

IndInv == TypeOK /\ WindowsHonest /\ \A s \in Streams : StreamOK(stream[s])

=============================================================================
