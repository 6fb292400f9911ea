------------------------ MODULE DiskCacheLimitProofs ------------------------
(***************************************************************************)
(* Proofs about DiskCache that need sums and counts: what the startup      *)
(* cleanup leaves, that one request at a time keeps the directory within   *)
(* max_size, and that requests and starts get nearer to their end.  The    *)
(* sum over the directory is related to the running totals of              *)
(* cleanup_startup and of evict key by key, with the lemmas of FoldProofs. *)
(***************************************************************************)
EXTENDS DiskCacheProofs, FoldProofs

-----------------------------------------------------------------------------
(* The inductive invariants *)

\* What a snapshot of key k says of its size in a directory with bodies b.
SizeIn(b, k) == MetaSize + (IF b[k] = NoBody THEN 0 ELSE b[k].len)

KeysOf(F) == {x.key : x \in F}

\* The part of the directory the snapshots in F stand for.
Counted(b, F) == [k \in Keys |-> IF k \in KeysOf(F) THEN SizeIn(b, k) ELSE 0]

\* The snapshots in F, taken of a directory with metadata m and bodies b while
\* the keys in todo are still to be visited, are exact, one for a key, and
\* total is the sum of their sizes.
Accounted(m, b, F, todo, total) ==
    /\ \A x \in F : /\ x.key \notin todo
                    /\ x.size = SizeIn(b, x.key)
                    /\ Usable(m[x.key], b[x.key])
    /\ \A x, y \in F : x.key = y.key => x = y
    /\ total = SumFunction(Counted(b, F))

\* A cleanup without errors so far: what is still in the directory is to be
\* visited or accounted for, the bodies of no one excepted until they are
\* looked for.
BootOK ==
    phase \in {"sweep", "shrink"} /\ ~ boot.failed =>
       /\ ~ litter
       /\ Accounted(meta, body, boot.valid, boot.todo, boot.total)
       /\ \A x \in boot.valid : Keeps(x.key, boot.now)
       /\ \A k \in Keys \ (boot.todo \cup KeysOf(boot.valid)) :
             meta[k] = NoMeta /\ (phase = "shrink" => body[k] = NoBody)
       /\ phase = "shrink" => boot.todo = {}

\* Nothing is served while the process is down or starts.
Down == phase # "up" => \A s \in Slots : task[s] = Idle

\* The sizes of the files of each key, as in FileSizes.
Sizes(m, b) ==
  [k \in Keys |-> (IF m[k] = NoMeta THEN 0 ELSE MetaSize)
                  + (IF b[k] = NoBody THEN 0 ELSE b[k].len)]

Empty(m, b, k) == m[k] = NoMeta /\ b[k] = NoBody

\* But for the keys in K there are whole entries only, and their size is
\* within the limit n.
Calm(m, b, K, n) ==
    /\ \A k \in Keys \ K : Usable(m[k], b[k]) \/ Empty(m, b, k)
    /\ SumFunction(Sizes(m, b)) <= n

\* What evict has yet to visit or has found is, but for K, all there is.
Evicting(m, b, r, K) ==
    /\ Accounted(m, b, r.found, r.todo, r.total)
    /\ \A k \in Keys \ (r.todo \cup KeysOf(r.found) \cup K) : Empty(m, b, k)

\* How far a commit may exceed max_size, before and after its metadata.
Overshoot == MaxSize + Largest
FullOvershoot == MaxSize + MetaSize + Largest

\* The record of the only request of a serving process, over metadata m and
\* bodies b, when no call fails and no client leaves.
AloneOK(m, b, r) ==
    /\ r.pc # "drop"
    /\ r.pc \notin {"commit", "scan", "unlink"} => Calm(m, b, {}, MaxSize)
    /\ r.pc = "read" => r.entry = NoEntry
    /\ r.pc \in {"stat", "touch", "refresh"}
         \/ (r.pc = "fetch" /\ r.entry # NoEntry) =>
          m[r.key] \in Entry /\ m[r.key].len = r.entry.len
    /\ r.pc = "commit" => /\ Calm(m, b, {r.key}, Overshoot)
                          /\ b[r.key] = [ver |-> r.ver, len |-> r.got]
    /\ r.pc = "scan" => /\ Calm(m, b, {}, FullOvershoot)
                        /\ Evicting(m, b, r, {})
    /\ r.pc = "unlink" => /\ Calm(m, b, {r.victim}, FullOvershoot)
                          /\ Evicting(m, b, r, {r.victim})
                          /\ r.todo = {} /\ m[r.victim] = NoMeta
                          /\ r.victim \notin KeysOf(r.found)

LimitInv ==
    /\ BootOK /\ ~ boot.failed /\ Down
    /\ phase = "up" => \A s \in Slots : AloneOK(meta, body, task[s])

\* The record of the only request of a process, over bodies b: an accepted
\* entry describes the body that is still on disk.
ServedOK(b, r) ==
    /\ r.pc \in {"read", "drop"} => r.entry = NoEntry
    /\ r.pc \in {"touch", "refresh", "open"}
         \/ (r.pc = "fetch" /\ r.entry # NoEntry) =>
          b[r.key] # NoBody /\ b[r.key].ver = r.entry.ver
    /\ r.pc = "reply" => r.ver = r.entry.ver

ServedInv == Down /\ \A s \in Slots : ServedOK(body, task[s])

-----------------------------------------------------------------------------
(* Accounting for a directory, snapshot by snapshot *)

Bodies == [Keys -> Content \cup {NoBody}]

\* Sizes are natural.
LEMMA SizeType ==
  ASSUME NEW b \in Bodies
  PROVE  /\ \A k \in Keys : SizeIn(b, k) \in Nat
         /\ \A F : Counted(b, F) \in [Keys -> Nat]
  <1>1. ASSUME NEW k \in Keys PROVE SizeIn(b, k) \in Nat
    BY NumbersAssumption DEF SizeIn, Bodies, Content
  <1> QED BY <1>1 DEF Counted

\* Nothing counted is nothing.
LEMMA AccountNone ==
  ASSUME NEW m, NEW b \in Bodies, NEW todo, NEW total,
         Accounted(m, b, {}, todo, total)
  PROVE  total = 0
  <1>1. \A k \in Keys : Counted(b, {})[k] = 0
    BY DEF Counted, KeysOf
  <1>2. SumFunction(Counted(b, {})) = 0
    BY <1>1, SizeType, SumZero, FiniteAssumption
  <1> QED BY <1>2 DEF Accounted

\* Before anything is counted the account is in order with total 0.
LEMMA AccountStart ==
  ASSUME NEW m, NEW b \in Bodies, NEW todo
  PROVE  Accounted(m, b, {}, todo, 0)
  <1>1. \A k \in Keys : Counted(b, {})[k] = 0
    BY DEF Counted, KeysOf
  <1>2. SumFunction(Counted(b, {})) = 0
    BY <1>1, SizeType, SumZero, FiniteAssumption
  <1> QED BY <1>2 DEF Accounted

\* What does not change the files counted does not change the account.
LEMMA AccountElsewhere ==
  ASSUME NEW m, NEW b \in Bodies, NEW m2, NEW b2 \in Bodies, NEW F, NEW todo,
         NEW todo2 \in SUBSET todo, NEW total,
         Accounted(m, b, F, todo, total),
         \A k \in KeysOf(F) : m2[k] = m[k] /\ b2[k] = b[k]
  PROVE  Accounted(m2, b2, F, todo2, total)
  <1>1. Counted(b2, F) = Counted(b, F)
    BY DEF Counted, SizeIn
  <1> QED BY <1>1 DEF Accounted, KeysOf, SizeIn

\* Another usable entry is counted.
LEMMA AccountMore ==
  ASSUME NEW m, NEW b \in Bodies, NEW F \in SUBSET Snapshots,
         NEW todo \in SUBSET Keys, NEW total,
         Accounted(m, b, F, todo, total),
         NEW x \in Snapshots, x.key \in todo, x.size = SizeIn(b, x.key),
         Usable(m[x.key], b[x.key])
  PROVE  Accounted(m, b, F \cup {x}, todo \ {x.key}, total + x.size)
  <1> DEFINE G == F \cup {x}
  <1>1. x.key \notin KeysOf(F)
    BY DEF Accounted, KeysOf
  <1>2. KeysOf(G) = KeysOf(F) \cup {x.key}
    BY DEF KeysOf
  <1>3. SumFunction(Counted(b, F)) - 0 = SumFunction(Counted(b, G)) - x.size
    <2>1. Counted(b, F) \in [Keys -> Nat] /\ Counted(b, G) \in [Keys -> Nat]
      BY SizeType
    <2>2. Counted(b, F)[x.key] = 0 /\ Counted(b, G)[x.key] = x.size
      BY <1>1, <1>2 DEF Counted
    <2>3. \A k \in Keys : k # x.key => Counted(b, F)[k] = Counted(b, G)[k]
      BY <1>2 DEF Counted
    <2> HIDE DEF G
    <2> QED BY <2>1, <2>2, <2>3, SumChange, FiniteAssumption
  <1>4. SumFunction(Counted(b, F)) \in Nat /\ SumFunction(Counted(b, G)) \in Nat
    BY SizeType, SumType, FiniteAssumption
  <1>5. x.size \in Nat
    BY DEF Snapshots
  <1>6. total + x.size = SumFunction(Counted(b, G))
    BY <1>3, <1>4, <1>5 DEF Accounted
  <1>7. \A y \in F : y.key # x.key
    BY <1>1 DEF KeysOf
  <1> QED BY <1>6, <1>7 DEF Accounted

\* The directory m2, b2 differs from m, b in the files of key x at most.
SameBut(m, b, m2, b2, x) ==
  \A k \in Keys : k # x => m2[k] = m[k] /\ b2[k] = b[k]

\* What is counted is part of the total.
LEMMA AccountBound ==
  ASSUME NEW m, NEW b \in Bodies, NEW F \in SUBSET Snapshots, NEW todo,
         NEW total, Accounted(m, b, F, todo, total), NEW x \in F
  PROVE  /\ total \in Nat /\ x.size \in Nat /\ total >= x.size
         /\ \A G : G = F \ {x} => KeysOf(G) = KeysOf(F) \ {x.key}
  <1>1. Counted(b, F) \in [Keys -> Nat]
    BY SizeType
  <1>2. x.key \in Keys /\ x.size \in Nat /\ Counted(b, F)[x.key] = x.size
    BY DEF Snapshots, Counted, Accounted, KeysOf
  <1>3. /\ SumFunction(Counted(b, F)) \in Nat
        /\ SumFunction(Counted(b, F)) >= x.size
    BY <1>1, <1>2, SumBound, FiniteAssumption
  <1>4. KeysOf(F \ {x}) = KeysOf(F) \ {x.key}
    BY DEF Accounted, KeysOf
  <1> QED BY <1>2, <1>3, <1>4 DEF Accounted

\* A snapshot is taken out of the account, whatever becomes of its files.
LEMMA AccountLess ==
  ASSUME NEW m, NEW b \in Bodies, NEW m2, NEW b2 \in Bodies,
         NEW F \in SUBSET Snapshots, NEW todo, NEW total,
         Accounted(m, b, F, todo, total), NEW x \in F,
         SameBut(m, b, m2, b2, x.key),
         NEW G, G = F \ {x}, NEW rest, rest = total - x.size
  PROVE  Accounted(m2, b2, G, todo, rest)
  <1>1. KeysOf(G) = KeysOf(F) \ {x.key}
    BY AccountBound
  <1>2. x.key \in Keys /\ x.size \in Nat
    BY DEF Snapshots
  <1>3. SumFunction(Counted(b, F)) - x.size = SumFunction(Counted(b2, G)) - 0
    <2>1. Counted(b, F) \in [Keys -> Nat] /\ Counted(b2, G) \in [Keys -> Nat]
      BY SizeType
    <2>2. Counted(b, F)[x.key] = x.size /\ Counted(b2, G)[x.key] = 0
      BY <1>1, <1>2 DEF Counted, Accounted, KeysOf
    <2>3. \A k \in Keys : k # x.key => Counted(b, F)[k] = Counted(b2, G)[k]
      BY <1>1 DEF Counted, SizeIn, SameBut
    <2> QED BY <1>2, <2>1, <2>2, <2>3, SumChange, FiniteAssumption
  <1>4. SumFunction(Counted(b, F)) \in Nat /\ SumFunction(Counted(b2, G)) \in Nat
    BY SizeType, SumType, FiniteAssumption
  <1>5. total = SumFunction(Counted(b, F))
    BY DEF Accounted
  <1>6. rest = SumFunction(Counted(b2, G))
    BY <1>2, <1>3, <1>4, <1>5
  <1>7. \A y \in G : y.key # x.key /\ y.key \in Keys
    BY DEF Accounted, Snapshots
  <1> QED BY <1>6, <1>7 DEF Accounted, SizeIn, SameBut

-----------------------------------------------------------------------------
(* The size of a directory *)

\* The size of a directory is natural.
LEMMA SizesType ==
  ASSUME NEW m, NEW b \in Bodies
  PROVE  Sizes(m, b) \in [Keys -> Nat] /\ SumFunction(Sizes(m, b)) \in Nat
  <1>1. Sizes(m, b) \in [Keys -> Nat]
    BY NumbersAssumption DEF Sizes, Bodies, Content
  <1> QED BY <1>1, SumType, FiniteAssumption

\* DiskTotal is that size, before and after a step.
LEMMA DiskTotalIs ==
  /\ DiskTotal = SumFunction(Sizes(meta, body))
  /\ DiskTotal' = SumFunction(Sizes(meta', body'))
  <1>1. FileSizes = Sizes(meta, body) /\ FileSizes' = Sizes(meta', body')
    BY DEF FileSizes, Sizes, BodyLen
  <1> QED BY <1>1 DEF DiskTotal

\* When no file is left out, the account is the size of the directory.
LEMMA AccountAll ==
  ASSUME NEW m, NEW b \in Bodies, NEW F \in SUBSET Snapshots, NEW todo,
         NEW total, Accounted(m, b, F, todo, total),
         \A k \in Keys \ KeysOf(F) : m[k] = NoMeta /\ b[k] = NoBody
  PROVE  SumFunction(Sizes(m, b)) = total
  <1>1. ASSUME NEW k \in KeysOf(F) PROVE m[k] # NoMeta
    BY SetsAssumption DEF Accounted, KeysOf, Usable
  <1>2. Sizes(m, b) = Counted(b, F)
    BY <1>1 DEF Sizes, Counted, SizeIn
  <1> QED BY <1>2 DEF Accounted

\* The size of a directory that differs in the files of one key.
LEMMA SizesChange ==
  ASSUME NEW m, NEW b \in Bodies, NEW m2, NEW b2 \in Bodies, NEW x \in Keys,
         SameBut(m, b, m2, b2, x)
  PROVE  SumFunction(Sizes(m2, b2)) - Sizes(m2, b2)[x]
            = SumFunction(Sizes(m, b)) - Sizes(m, b)[x]
  <1>1. Sizes(m, b) \in [Keys -> Nat] /\ Sizes(m2, b2) \in [Keys -> Nat]
    BY SizesType
  <1>2. \A k \in Keys : k # x => Sizes(m2, b2)[k] = Sizes(m, b)[k]
    BY DEF Sizes, SameBut
  <1> QED BY <1>1, <1>2, SumChange, FiniteAssumption

-----------------------------------------------------------------------------
(* The startup cleanup *)

\* Requests are served by a serving process only.
LEMMA SlotStepUp ==
  ASSUME NEW s \in Slots, Start(s) \/ Handle(s) \/ Cancel(s)
  PROVE  phase = "up" /\ phase' = "up"
  BY DEF Start, Handle, Cancel, Lookup, Exchange, Stream, Commit, Evict, Serve,
         ReadMeta, StatBody, DropMeta, TouchMeta, FetchFails, NotModified,
         Refresh, FullResponse, Chunk, StreamBreaks, StreamCut, StreamEnd,
         RenameBody, CommitMeta, Scan, EvictMeta, EvictBody, EvictDone,
         ScanEnds, OpenBody, Replied, At

\* What BootOK says of a cleanup under way.
Cleaning ==
    /\ ~ litter
    /\ Accounted(meta, body, boot.valid, boot.todo, boot.total)
    /\ \A x \in boot.valid : Keeps(x.key, boot.now)
    /\ \A k \in Keys \ (boot.todo \cup KeysOf(boot.valid)) :
          meta[k] = NoMeta /\ (phase = "shrink" => body[k] = NoBody)
    /\ phase = "shrink" => boot.todo = {}

\* An entry that is kept is counted, and what is not kept is removed, but for
\* the body of unreadable metadata.
LEMMA SweepAccounts ==
  ASSUME IndInv, NEW k \in Keys, BootSweep(k), Cleaning, ~ boot'.failed
  PROVE  Cleaning'
  <1>0. /\ boot \in Cleanup /\ boot.valid \in SUBSET Snapshots
        /\ boot.todo \in SUBSET Keys /\ boot.total \in Nat
        /\ body \in Bodies /\ body' \in Bodies
        /\ k \in boot.todo /\ phase = "sweep" /\ phase' = "sweep"
        /\ UNCHANGED litter
    <2>1. IndInv'
      BY BootSweepStep
    <2> QED BY <2>1 DEF IndInv, TypeOK, Cleanup, Bodies, BootSweep
  <1>1. CASE /\ Keeps(k, boot.now)
             /\ boot' = [boot EXCEPT !.todo = @ \ {k},
                                     !.valid = @ \cup {Snapshot(k)},
                                     !.total = @ + EntrySize(k)]
             /\ UNCHANGED <<meta, body>>
    <2> DEFINE x == Snapshot(k)
    <2>1. x \in Snapshots
      BY SnapshotType DEF IndInv
    <2>2. x.key = k /\ x.size = EntrySize(k) /\ x.size = SizeIn(body, k)
      BY DEF Snapshot, EntrySize, SizeIn, BodyLen
    <2> HIDE DEF x
    <2>3. /\ boot'.todo = boot.todo \ {k} /\ boot'.valid = boot.valid \cup {x}
          /\ boot'.total = boot.total + x.size /\ boot'.now = boot.now
      BY <1>0, <1>1, <2>2 DEF Cleanup, x
    <2>4. Accounted(meta, body, boot.valid \cup {x}, boot.todo \ {k},
                    boot.total + x.size)
      BY <1>0, <1>1, <2>1, <2>2, AccountMore DEF Cleaning, Keeps
    <2>5. KeysOf(boot'.valid) = KeysOf(boot.valid) \cup {k}
      BY <2>2, <2>3 DEF KeysOf
    <2> QED BY <1>0, <1>1, <2>2, <2>3, <2>4, <2>5 DEF Cleaning, Keeps
  <1>2. ASSUME NEW gone \in Removed(Condemned(k)),
               meta' = IF "meta" \in gone
                       THEN [meta EXCEPT ![k] = NoMeta] ELSE meta,
               body' = IF "body" \in gone
                       THEN [body EXCEPT ![k] = NoBody] ELSE body,
               boot' = [boot EXCEPT !.todo = @ \ {k},
                                    !.failed = @ \/ gone # Condemned(k)]
        PROVE  Cleaning'
    <2>1. gone = Condemned(k) /\ boot'.todo = boot.todo \ {k}
          /\ boot'.valid = boot.valid /\ boot'.total = boot.total
          /\ boot'.now = boot.now
      BY <1>0, <1>2 DEF Cleanup
    <2>2. meta'[k] = NoMeta /\ \A j \in Keys : j # k => meta'[j] = meta[j]
                                                     /\ body'[j] = body[j]
      BY <1>2, <2>1 DEF Condemned, IndInv, TypeOK
    <2>3. \A j \in KeysOf(boot.valid) : j \in Keys /\ j # k
      BY <1>0 DEF KeysOf, Snapshots, Cleaning, Accounted
    <2>4. Accounted(meta', body', boot.valid, boot.todo \ {k}, boot.total)
      BY <1>0, <2>2, <2>3, AccountElsewhere DEF Cleaning
    <2>5. \A x \in boot.valid : meta'[x.key] = meta[x.key]
                                 /\ body'[x.key] = body[x.key]
      BY <2>2, <2>3 DEF KeysOf
    <2> QED BY <1>0, <2>1, <2>2, <2>4, <2>5 DEF Cleaning, Keeps
  <1> QED BY <1>1, <1>2 DEF BootSweep

\* The bodies nothing stands for are removed.
LEMMA OrphansAccount ==
  ASSUME IndInv, BootOrphans, Cleaning, ~ boot'.failed
  PROVE  Cleaning'
  <1>0. /\ boot \in Cleanup /\ boot.todo = {} /\ body \in Bodies
        /\ body' \in Bodies /\ phase' = "shrink" /\ UNCHANGED <<meta, litter>>
    <2>1. IndInv'
      BY BootOrphansStep
    <2> QED BY <2>1 DEF IndInv, TypeOK, Bodies, BootOrphans
  <1>1. PICK gone \in Removed(Orphans) :
          /\ body' = [k \in Keys |-> IF k \in gone THEN NoBody ELSE body[k]]
          /\ boot' = [boot EXCEPT !.failed = @ \/ gone # Orphans]
    BY DEF BootOrphans
  <1>2. gone = Orphans /\ boot'.valid = boot.valid /\ boot'.todo = boot.todo
        /\ boot'.total = boot.total /\ boot'.now = boot.now
    BY <1>0, <1>1 DEF Cleanup
  <1>3. \A k \in Keys : body'[k] = IF k \in KeysOf(boot.valid) THEN body[k]
                                                               ELSE NoBody
    BY <1>1, <1>2 DEF Orphans, KeysOf
  <1>4. \A x \in boot.valid : x.key \in Keys /\ x.key \in KeysOf(boot.valid)
    BY <1>0 DEF Cleanup, Snapshots, KeysOf
  <1>5. \A k \in KeysOf(boot.valid) : k \in Keys
    BY <1>4 DEF KeysOf
  <1>6. Accounted(meta, body', boot.valid, boot.todo, boot.total)
    BY <1>0, <1>3, <1>5, AccountElsewhere DEF Cleaning
  <1> QED BY <1>0, <1>2, <1>3, <1>4, <1>6 DEF Cleaning, Keeps

\* What is evicted is no longer counted.
LEMMA BootEvictAccounts ==
  ASSUME IndInv, BootEvict, Cleaning, ~ boot'.failed
  PROVE  Cleaning'
  <1>0. /\ boot \in Cleanup /\ boot.valid \in SUBSET Snapshots
        /\ body \in Bodies /\ body' \in Bodies
        /\ phase = "shrink" /\ UNCHANGED <<litter, phase>>
    <2>1. IndInv'
      BY BootEvictStep
    <2> QED BY <2>1 DEF IndInv, TypeOK, Cleanup, Bodies, BootEvict
  <1>1. PICK x \in Oldest(boot.valid), gone \in Removed({"meta", "body"}) :
          /\ meta' = IF "meta" \in gone
                     THEN [meta EXCEPT ![x.key] = NoMeta] ELSE meta
          /\ body' = IF "body" \in gone
                     THEN [body EXCEPT ![x.key] = NoBody] ELSE body
          /\ boot' = [boot EXCEPT
                        !.valid = @ \ {x},
                        !.total = IF @ >= x.size THEN @ - x.size ELSE 0,
                        !.failed = @ \/ gone # {"meta", "body"}]
    BY DEF BootEvict
  <1>2. x \in boot.valid
    BY DEF Oldest
  <1>3. /\ gone = {"meta", "body"} /\ boot'.valid = boot.valid \ {x}
        /\ boot'.total = (IF boot.total >= x.size THEN boot.total - x.size ELSE 0)
        /\ boot'.todo = boot.todo /\ boot'.now = boot.now
    BY <1>0, <1>1 DEF Cleanup
  <1>4. /\ meta'[x.key] = NoMeta /\ body'[x.key] = NoBody
        /\ SameBut(meta, body, meta', body', x.key)
    BY <1>0, <1>1, <1>2, <1>3 DEF Snapshots, IndInv, TypeOK, SameBut
  <1>5. /\ boot.total >= x.size
        /\ KeysOf(boot.valid \ {x}) = KeysOf(boot.valid) \ {x.key}
        /\ Accounted(meta', body', boot.valid \ {x}, boot.todo,
                     boot.total - x.size)
    <2>1. Accounted(meta, body, boot.valid, boot.todo, boot.total)
      BY DEF Cleaning
    <2>2. boot.total >= x.size
      BY <1>0, <1>2, <2>1, AccountBound
    <2> DEFINE G == boot.valid \ {x}
               rest == boot.total - x.size
    <2>3. G = boot.valid \ {x}
      OBVIOUS
    <2>4. rest = boot.total - x.size
      OBVIOUS
    <2> HIDE DEF G, rest
    <2>5. KeysOf(G) = KeysOf(boot.valid) \ {x.key}
      BY <1>0, <1>2, <2>1, <2>3, AccountBound
    <2>6. Accounted(meta', body', G, boot.todo, rest)
      BY <1>0, <1>2, <1>4, <2>1, <2>3, <2>4, AccountLess
    <2> QED BY <2>2, <2>3, <2>4, <2>5, <2>6
  <1>6. \A y \in boot'.valid : /\ y \in boot.valid /\ y.key \in Keys
                               /\ y.key # x.key
    BY <1>0, <1>2, <1>3 DEF Cleaning, Accounted, Snapshots
  <1> QED BY <1>0, <1>3, <1>4, <1>5, <1>6 DEF Cleaning, Keeps, SameBut

\* Every step preserves what is known of a cleanup.
LEMMA BootOKStep == ASSUME IndInv, BootOK, [Next]_vars PROVE BootOK'
  <1>1. CASE BootStart
    <2>1. phase' = "sweep" /\ boot'.todo = Keys /\ boot'.valid = {}
          /\ boot'.total = 0 /\ boot'.failed = litter' /\ body' \in Bodies
      BY <1>1 DEF BootStart, IndInv, TypeOK, Bodies
    <2>2. Accounted(meta', body', {}, Keys, 0)
      BY <2>1, AccountStart
    <2> QED BY <2>1, <2>2 DEF BootOK
  <1>2. ASSUME phase \in {"sweep", "shrink"} /\ (~ boot'.failed => ~ boot.failed),
               Cleaning /\ ~ boot'.failed => Cleaning'
        PROVE  BootOK'
    BY <1>2 DEF BootOK, Cleaning
  <1>3. ASSUME NEW k \in Keys, BootSweep(k) PROVE BootOK'
    <2>1. phase = "sweep" /\ (~ boot'.failed => ~ boot.failed)
      BY <1>3 DEF BootSweep, IndInv, TypeOK, Cleanup
    <2> QED BY <1>2, <1>3, <2>1, SweepAccounts
  <1>4. CASE BootOrphans
    <2>1. phase = "sweep" /\ (~ boot'.failed => ~ boot.failed)
      BY <1>4 DEF BootOrphans, IndInv, TypeOK, Cleanup
    <2> QED BY <1>2, <1>4, <2>1, OrphansAccount
  <1>5. CASE BootEvict
    <2>1. phase = "shrink" /\ (~ boot'.failed => ~ boot.failed)
      BY <1>5 DEF BootEvict, IndInv, TypeOK, Cleanup
    <2> QED BY <1>2, <1>5, <2>1, BootEvictAccounts
  <1>6. CASE phase' \in {"up", "off"}
    BY <1>6 DEF BootOK
  <1>7. CASE UNCHANGED <<dir, phase, boot>>
    BY <1>7 DEF BootOK, dir, Keeps
  <1>8. CASE Boot
    BY <1>1, <1>3, <1>4, <1>5, <1>6, <1>8 DEF Boot, BootDone
  <1>9. CASE Crash \/ \E s \in Slots : Start(s) \/ Handle(s) \/ Cancel(s)
    BY <1>6, <1>9, SlotStepUp DEF Crash
  <1>10. CASE Tick \/ (\E k \in Keys : Publish(k)) \/ UNCHANGED vars
    BY <1>7, <1>10 DEF Tick, Publish, vars, dir
  <1> QED BY <1>8, <1>9, <1>10 DEF Next

\* The files an errorless cleanup leaves are those it accounted for.
LEMMA CleaningDone ==
  ASSUME IndInv, Cleaning, BootDone
  PROVE  /\ \A k \in Keys : meta[k] # NoMeta => Keeps(k, boot.now)
         /\ \A k \in Keys : body[k] # NoBody => meta[k] # NoMeta
         /\ DiskTotal <= MaxSize
  <1>0. /\ boot.valid \in SUBSET Snapshots /\ boot.total \in Nat
        /\ body \in Bodies /\ phase = "shrink" /\ boot.todo = {}
    BY DEF IndInv, TypeOK, Cleanup, Bodies, BootDone, Cleaning
  <1>1. \A k \in Keys \ KeysOf(boot.valid) : meta[k] = NoMeta /\ body[k] = NoBody
    BY <1>0 DEF Cleaning
  <1>2. \A k \in KeysOf(boot.valid) : Keeps(k, boot.now)
    BY DEF Cleaning, KeysOf
  <1>3. DiskTotal = boot.total
    BY <1>0, <1>1, AccountAll, DiskTotalIs DEF Cleaning
  <1>4. boot.total <= MaxSize
    <2>1. boot.valid = {} => boot.total = 0
      BY <1>0, AccountNone DEF Cleaning
    <2> QED BY <2>1, NumbersAssumption DEF BootDone
  <1>5. \A k \in KeysOf(boot.valid) : meta[k] # NoMeta
    BY <1>2, SetsAssumption DEF Keeps, Usable
  <1> QED BY <1>1, <1>2, <1>3, <1>4, <1>5

\* A cleanup that met no error leaves no temporary file, no body without an
\* entry, no expired or foreign entry, and a directory within max_size
\* (cache.rs, cleanup_startup: its running total is the size of what is left).
THEOREM CleanStarts == Spec => CleanStart
  <1>1. Init => BootOK
    BY DEF Init, BootOK
  <1>2. Spec => []BootOK
    BY <1>1, BootOKStep, Invariance, PTL DEF Spec
  <1>3. IndInv /\ BootOK /\ [Next]_vars =>
          (phase # "up" /\ phase' = "up" /\ ~ boot.failed =>
             /\ ~ litter
             /\ \A k \in Keys : meta[k] # NoMeta => Keeps(k, boot.now)
             /\ \A k \in Keys : body[k] # NoBody => meta[k] # NoMeta
             /\ DiskTotal <= MaxSize)
    <2> SUFFICES ASSUME IndInv, BootOK, [Next]_vars, phase # "up", phase' = "up",
                        ~ boot.failed
                 PROVE  /\ ~ litter
                        /\ \A k \in Keys : meta[k] # NoMeta => Keeps(k, boot.now)
                        /\ \A k \in Keys : body[k] # NoBody => meta[k] # NoMeta
                        /\ DiskTotal <= MaxSize
      OBVIOUS
    <2>1. BootDone
      BY SlotStepUp DEF Next, Boot, BootStart, BootSweep, BootOrphans,
           BootEvict, Crash, Tick, Publish, vars
    <2>2. Cleaning
      BY <2>1 DEF BootOK, Cleaning, BootDone
    <2> QED BY <2>1, <2>2, CleaningDone DEF Cleaning
  <1> QED BY <1>2, <1>3, Invariance, PTL DEF Spec, CleanStart

-----------------------------------------------------------------------------
(* One request at a time: what is served *)

\* Only Crash, and BootDone, change whether requests are served.
LEMMA DownStep == ASSUME task \in [Slots -> Task], Down, [Next]_vars PROVE Down'
  <1>1. CASE Boot
    BY <1>1 DEF Boot, BootStart, BootSweep, BootOrphans, BootEvict, BootDone,
                Down
  <1>2. CASE Crash
    BY <1>2 DEF Crash, Down
  <1>3. CASE \E s \in Slots : Start(s) \/ Handle(s) \/ Cancel(s)
    BY <1>3, SlotStepUp DEF Down
  <1>4. CASE Tick \/ (\E k \in Keys : Publish(k)) \/ UNCHANGED vars
    BY <1>4 DEF Tick, Publish, vars, Down
  <1> QED BY <1>1, <1>2, <1>3, <1>4 DEF Next

\* A record at a program point that makes no claim about a body.
LEMMA NothingServed ==
  ASSUME NEW b, NEW r,
         \/ r.pc \in {"idle", "stat", "stream", "rename", "commit", "scan",
                       "unlink"}
         \/ r.pc \in {"read", "drop", "fetch"} /\ r.entry = NoEntry
  PROVE  ServedOK(b, r)
  BY DEF ServedOK

\* A lookup goes on with an entry whose length is that of its body, and
\* lengths tell responses apart.
LEMMA LookupServes ==
  ASSUME IndInv, LengthsDiffer, NEW s \in Slots, ServedOK(body, task[s]), Lookup(s)
  PROVE  ServedOK(body', task'[s])
  <1> DEFINE r == task[s]
             q == task'[s]
  <1>0. r \in Task /\ task \in [Slots -> Task] /\ TaskOK(contact, r)
    BY DEF IndInv, TypeOK
  <1>1. CASE ReadMeta(s)
    <2> DEFINE fetch == [r EXCEPT !.pc = "fetch"]
               drop == [r EXCEPT !.pc = "drop"]
               stat == [r EXCEPT !.pc = "stat", !.entry = meta[r.key]]
    <2>1. r.pc = "read" /\ q \in {fetch, drop, stat}
      BY <1>0, <1>1 DEF ReadMeta, At, Goto
    <2>2. fetch.pc = "fetch" /\ drop.pc = "drop" /\ stat.pc = "stat"
          /\ fetch.entry = r.entry /\ drop.entry = r.entry
      BY <1>0 DEF Task
    <2>3. r.entry = NoEntry
      BY <2>1 DEF ServedOK
    <2>4. q.pc = "stat" \/ (q.pc \in {"fetch", "drop"} /\ q.entry = NoEntry)
      BY <2>1, <2>2, <2>3
    <2> QED BY <2>4, NothingServed
  <1>2. CASE StatBody(s)
    <2> DEFINE touch == [r EXCEPT !.pc = "touch", !.entry.access = r.now]
               drop == [r EXCEPT !.pc = "drop", !.entry = NoEntry]
               b == body[r.key]
    <2>1. /\ r.pc = "stat" /\ UNCHANGED body
          /\ (q = touch /\ Usable(r.entry, b)) \/ q = drop
      BY <1>0, <1>2 DEF StatBody, At, Goto, dir
    <2>2. r.entry \in Entry /\ Whole(r.entry) /\ r.key \in Keys
      BY <1>0, <2>1, SetsAssumption DEF TaskOK
    <2>3. touch.pc = "touch" /\ touch.key = r.key
          /\ touch.entry.ver = r.entry.ver
          /\ drop.pc = "drop" /\ drop.entry = NoEntry
      BY <1>0, <2>2 DEF Task, Entry
    <2>4. CASE q = drop
      <3> HIDE DEF drop
      <3>1. q.pc = "drop" /\ q.entry = NoEntry
        BY <2>3, <2>4
      <3> QED BY <3>1, NothingServed
    <2>5. CASE q = touch /\ Usable(r.entry, b)
      <3>1. b # NoBody /\ b \in Content /\ Genuine(r.key, b)
        BY <2>2, <2>5 DEF IndInv, TypeOK, DiskOK, Usable
      <3>2. BodySize[b.ver] = BodySize[r.entry.ver]
        BY <2>2, <2>5, <3>1 DEF Usable, Whole, Genuine
      <3>3. b.ver = r.entry.ver
        BY <2>2, <3>1, <3>2 DEF LengthsDiffer, Entry, Content
      <3> QED BY <2>1, <2>3, <2>5, <3>1, <3>3 DEF ServedOK
    <2> QED BY <2>1, <2>4, <2>5
  <1>3. CASE DropMeta(s)
    <2> DEFINE fetch == [r EXCEPT !.pc = "fetch"]
    <2>1. r.pc = "drop" /\ q = fetch
      BY <1>0, <1>3 DEF DropMeta, At, Goto
    <2>2. fetch.pc = "fetch" /\ fetch.entry = r.entry
      BY <1>0 DEF Task
    <2>3. r.entry = NoEntry
      BY <2>1 DEF ServedOK
    <2> QED BY <2>1, <2>2, <2>3, NothingServed
  <1>4. CASE TouchMeta(s)
    <2> DEFINE hit == [Idle EXCEPT !.pc = "open", !.key = r.key,
                                   !.entry = r.entry, !.label = "HIT"]
               fetch == [r EXCEPT !.pc = "fetch"]
    <2>1. r.pc = "touch" /\ UNCHANGED body /\ q \in {Idle, hit, fetch}
      BY <1>0, <1>4 DEF TouchMeta, At, Goto, CachedResponse
    <2>2. Idle.pc = "idle" /\ hit.pc = "open" /\ hit.key = r.key
          /\ hit.entry = r.entry /\ fetch.pc = "fetch" /\ fetch.key = r.key
          /\ fetch.entry = r.entry
      BY <1>0 DEF Idle, Task
    <2>3. body[r.key] # NoBody /\ body[r.key].ver = r.entry.ver
      BY <2>1 DEF ServedOK
    <2> HIDE DEF hit, fetch
    <2>4. CASE q = Idle
      BY <2>2, <2>4, NothingServed
    <2>5. CASE q \in {hit, fetch}
      <3>1. q.pc \in {"open", "fetch"} /\ q.key = r.key /\ q.entry = r.entry
        BY <2>2, <2>5
      <3> QED BY <2>1, <2>3, <3>1 DEF ServedOK
    <2> QED BY <2>1, <2>4, <2>5
  <1> QED BY <1>1, <1>2, <1>3, <1>4 DEF Lookup

\* A 304 keeps the body; any other answer lets go of the entry.
LEMMA ExchangeServes ==
  ASSUME IndInv, NEW s \in Slots, ServedOK(body, task[s]), Exchange(s)
  PROVE  ServedOK(body', task'[s])
  <1> DEFINE r == task[s]
             q == task'[s]
  <1>0. r \in Task /\ task \in [Slots -> Task] /\ Idle.pc = "idle"
    BY DEF IndInv, TypeOK, Idle
  <1>1. CASE FetchFails(s)
    BY <1>0, <1>1, NothingServed DEF FetchFails, Goto
  <1>2. CASE NotModified(s)
    <2>1. PICK l \in ConfirmTtls :
            Goto(s, [r EXCEPT !.pc = "refresh",
                              !.entry = [@ EXCEPT !.created = clock,
                                                  !.access = clock,
                                                  !.ttl = l]])
      BY <1>2 DEF NotModified
    <2>2. r.pc = "fetch" /\ r.entry # NoEntry /\ UNCHANGED body
      BY <1>2 DEF NotModified, At, dir
    <2>3. r.entry \in Entry
      BY <1>0, <2>2 DEF Task
    <2>4. q.pc = "refresh" /\ q.key = r.key /\ q.entry.ver = r.entry.ver
      BY <1>0, <2>1, <2>3 DEF Goto, Task, Entry
    <2>5. body[r.key] # NoBody /\ body[r.key].ver = r.entry.ver
      BY <2>2 DEF ServedOK
    <2> QED BY <2>2, <2>4, <2>5 DEF ServedOK
  <1>3. CASE Refresh(s)
    <2> DEFINE hit == [Idle EXCEPT !.pc = "open", !.key = r.key,
                                   !.entry = r.entry, !.label = "REVALIDATED"]
    <2>1. r.pc = "refresh" /\ UNCHANGED body /\ q \in {Idle, hit}
      BY <1>0, <1>3 DEF Refresh, At, Goto, CachedResponse
    <2>2. hit.pc = "open" /\ hit.key = r.key /\ hit.entry = r.entry
      BY DEF Idle
    <2>3. body[r.key] # NoBody /\ body[r.key].ver = r.entry.ver
      BY <2>1 DEF ServedOK
    <2> QED BY <1>0, <2>1, <2>2, <2>3 DEF ServedOK
  <1>4. CASE FullResponse(s)
    <2> DEFINE v == origin[r.key]
               plain == [Idle EXCEPT !.pc = "stream", !.key = r.key,
                                     !.label = MissLabel(r), !.ver = v]
               teed == [plain EXCEPT !.writing = TRUE, !.entry = NewEntry(v)]
    <2>1. q \in {Idle, plain, teed}
      BY <1>0, <1>4 DEF FullResponse, Goto
    <2>2. plain.pc = "stream" /\ teed.pc = "stream"
      BY DEF Idle
    <2> QED BY <1>0, <2>1, <2>2, NothingServed
  <1> QED BY <1>1, <1>2, <1>3, <1>4 DEF Exchange

\* What streams, commits and evicts makes no claim about the body on disk.
LEMMA WritePoints ==
  ASSUME IndInv, NEW s \in Slots, Stream(s) \/ Commit(s) \/ Evict(s)
  PROVE  task'[s].pc \in {"idle", "stream", "rename", "commit", "scan", "unlink"}
  <1> DEFINE r == task[s]
  <1>0. r \in Task /\ task \in [Slots -> Task] /\ Idle.pc = "idle"
    BY DEF IndInv, TypeOK, Idle
  <1>1. CASE Chunk(s)
    <2> DEFINE more == [r EXCEPT !.got = @ + 1]
               bare == [r EXCEPT !.got = @ + 1, !.writing = FALSE,
                                 !.entry = NoEntry]
    <2>1. r.pc = "stream" /\ task'[s] \in {more, bare}
      BY <1>0, <1>1 DEF Chunk, At, Goto
    <2>2. more.pc = r.pc /\ bare.pc = r.pc
      BY <1>0 DEF Task
    <2> QED BY <2>1, <2>2
  <1>2. CASE StreamBreaks(s) \/ StreamCut(s) \/ EvictDone(s)
    BY <1>0, <1>2 DEF StreamBreaks, StreamCut, EvictDone, Goto
  <1>3. CASE StreamEnd(s)
    BY <1>0, <1>3 DEF StreamEnd, Goto, Task
  <1>4. CASE RenameBody(s)
    BY <1>0, <1>4 DEF RenameBody, Goto, Task
  <1>5. CASE CommitMeta(s)
    <2> DEFINE scan == [Idle EXCEPT !.pc = "scan", !.todo = Keys]
    <2>1. task'[s] \in {scan, Idle} /\ scan.pc = "scan"
      BY <1>0, <1>5 DEF CommitMeta, Goto, Idle
    <2> QED BY <1>0, <2>1
  <1>6. ASSUME NEW k \in Keys, Scan(s, k) PROVE task'[s].pc = "scan"
    <2> DEFINE p == [r EXCEPT !.todo = @ \ {k}]
               q == [p EXCEPT !.found = @ \cup {Snapshot(k)},
                              !.total = @ + EntrySize(k)]
    <2>1. r.pc = "scan" /\ task'[s] \in {p, q}
      BY <1>0, <1>6 DEF Scan, At, Goto
    <2>2. p.pc = r.pc /\ q.pc = r.pc
      BY <1>0 DEF Task
    <2> QED BY <2>1, <2>2
  <1>7. CASE EvictMeta(s)
    BY <1>0, <1>7 DEF EvictMeta, Goto, Task
  <1>8. CASE EvictBody(s)
    BY <1>0, <1>8 DEF EvictBody, Goto, Task
  <1> QED BY <1>1, <1>2, <1>3, <1>4, <1>5, <1>6, <1>7, <1>8
          DEF Stream, Commit, Evict

\* Every step of a request keeps the claim it has on its body.
LEMMA OwnStepServes ==
  ASSUME IndInv, LengthsDiffer, NEW s \in Slots, ServedOK(body, task[s]),
         Start(s) \/ Handle(s) \/ Cancel(s)
  PROVE  ServedOK(body', task'[s])
  <1> DEFINE r == task[s]
             q == task'[s]
  <1>0. r \in Task /\ task \in [Slots -> Task] /\ Idle.pc = "idle"
    BY DEF IndInv, TypeOK, Idle
  <1>1. CASE Start(s)
    <2>1. q.pc = "read" /\ q.entry = NoEntry
      BY <1>0, <1>1 DEF Start, Goto, Idle
    <2> QED BY <2>1, NothingServed
  <1>2. CASE Cancel(s) \/ Replied(s)
    BY <1>0, <1>2, NothingServed DEF Cancel, Replied, Goto
  <1>3. CASE OpenBody(s)
    <2> DEFINE reply == [r EXCEPT !.pc = "reply", !.ver = body[r.key].ver,
                                  !.got = body[r.key].len]
    <2>1. r.pc = "open" /\ UNCHANGED body /\ q \in {reply, Idle}
      BY <1>0, <1>3 DEF OpenBody, At, Goto, dir
    <2>2. /\ reply.pc = "reply" /\ reply.ver = body[r.key].ver
          /\ reply.entry = r.entry
      BY <1>0 DEF Task
    <2>3. body[r.key].ver = r.entry.ver
      BY <2>1 DEF ServedOK
    <2> QED BY <1>0, <2>1, <2>2, <2>3 DEF ServedOK
  <1>4. CASE Stream(s) \/ Commit(s) \/ Evict(s)
    BY <1>4, WritePoints, NothingServed
  <1> QED BY <1>1, <1>2, <1>3, <1>4, LookupServes, ExchangeServes
          DEF Handle, Serve

\* One request at a time is answered with the body its headers came with,
\* whatever crashed, failed or was abandoned before.
THEOREM WholeAnswers ==
  ASSUME NEW only, Slots = {only}, LengthsDiffer
  PROVE  Spec => []ServedIsWhole
  <1>1. Init => ServedInv
    BY DEF Init, ServedInv, ServedOK, Down, Idle
  <1>2. IndInv /\ ServedInv /\ [Next]_vars => ServedInv'
    <2> SUFFICES ASSUME IndInv, ServedInv, [Next]_vars PROVE ServedInv'
      OBVIOUS
    <2>0. Down'
      BY DownStep DEF IndInv, TypeOK, ServedInv
    <2>1. CASE phase' # "up"
      <3>1. \A s \in Slots : task'[s].pc = "idle"
        BY <2>0, <2>1 DEF Down, Idle
      <3>2. \A s \in Slots : ServedOK(body', task'[s])
        BY <3>1 DEF ServedOK
      <3> QED BY <2>0, <3>2 DEF ServedInv
    <2>2. CASE phase' = "up" /\ phase # "up"
      <3>1. \A s \in Slots : task[s].pc = "idle"
        BY <2>2 DEF ServedInv, Down, Idle
      <3>2. UNCHANGED task
        BY <2>2, SlotStepUp DEF Next, Boot, BootStart, BootSweep, BootOrphans,
             BootEvict, BootDone, Crash, Tick, Publish, vars
      <3>3. \A s \in Slots : ServedOK(body', task'[s])
        BY <3>1, <3>2 DEF ServedOK
      <3> QED BY <2>0, <3>3 DEF ServedInv
    <2>3. CASE UNCHANGED <<task, body>>
      BY <2>0, <2>3 DEF ServedInv, ServedOK
    <2>4. CASE \E s \in Slots : Start(s) \/ Handle(s) \/ Cancel(s)
      BY <2>0, <2>4, OwnStepServes DEF ServedInv
    <2>5. CASE phase = "up" /\ (Boot \/ Crash)
      BY <2>1, <2>5 DEF Boot, BootStart, BootSweep, BootOrphans, BootEvict,
           BootDone, Crash
    <2>6. CASE Tick \/ (\E k \in Keys : Publish(k)) \/ UNCHANGED vars
      BY <2>3, <2>6 DEF Tick, Publish, vars, dir
    <2> QED BY <2>1, <2>2, <2>4, <2>5, <2>6 DEF Next
  <1>3. ServedInv => ServedIsWhole
    BY DEF ServedInv, ServedOK, ServedIsWhole
  <1> QED BY <1>1, <1>2, <1>3, Invariance, PTL DEF Spec

-----------------------------------------------------------------------------
(* One request at a time: the limit *)

\* The longest body an origin gives.
LEMMA LargestIs ==
  Largest \in Nat /\ \A v \in Versions : BodySize[v] <= Largest
  <1>1. BodySize \in [Versions -> Nat] /\ BodySize \in [Versions -> Int]
    BY SetsAssumption
  <1>2. PICK x \in Versions : \A y \in Versions : BodySize[y] <= BodySize[x]
    BY <1>1, LargestExists, FiniteAssumption
  <1>3. \E n \in Range(BodySize) : \A m \in Range(BodySize) : m <= n
    BY <1>1, <1>2 DEF Range
  <1>4. Largest \in Range(BodySize) /\ \A m \in Range(BodySize) : m <= Largest
    BY <1>3 DEF Largest
  <1> QED BY <1>1, <1>4 DEF Range

\* Records that claim nothing beyond a directory within the limit.
LEMMA CalmOK ==
  ASSUME NEW m, NEW b, NEW r, Calm(m, b, {}, MaxSize),
         \/ r.pc \in {"idle", "stream", "rename", "open", "reply"}
         \/ r.pc \in {"read", "fetch"} /\ r.entry = NoEntry
         \/ /\ r.pc \in {"stat", "touch", "fetch", "refresh"}
            /\ m[r.key] \in Entry /\ m[r.key].len = r.entry.len
  PROVE  AloneOK(m, b, r)
  BY DEF AloneOK

\* Rewriting the metadata of a looked-up entry changes no size.
LEMMA RewriteCalm ==
  ASSUME NEW m \in [Keys -> Entry \cup {NoMeta, Garbled, Foreign}],
         NEW b \in Bodies, NEW k \in Keys, NEW e \in Entry, NEW n,
         Calm(m, b, {}, n), m[k] \in Entry, m[k].len = e.len,
         NEW m2, m2 = [m EXCEPT ![k] = e]
  PROVE  Calm(m2, b, {}, n)
  <1>1. m[k] # NoMeta /\ e # NoMeta
    BY SetsAssumption
  <1>2. Sizes(m2, b) = Sizes(m, b)
    BY <1>1 DEF Sizes
  <1>3. Usable(m2[k], b[k])
    BY <1>1 DEF Calm, Usable, Empty
  <1>4. \A j \in Keys : j # k => m2[j] = m[j]
    OBVIOUS
  <1> QED BY <1>2, <1>3, <1>4 DEF Calm, Empty

\* A lookup removes a whole entry or rewrites its metadata.
LEMMA LookupKeeps ==
  ASSUME ~ Faults, IndInv, NEW s \in Slots, AloneOK(meta, body, task[s]),
         Lookup(s)
  PROVE  AloneOK(meta', body', task'[s])
  <1> DEFINE r == task[s]
             q == task'[s]
  <1>0. /\ r \in Task /\ task \in [Slots -> Task] /\ TaskOK(contact, r)
        /\ meta \in [Keys -> Entry \cup {NoMeta, Garbled, Foreign}]
        /\ body \in Bodies
    BY DEF IndInv, TypeOK, Bodies
  <1>1. CASE ReadMeta(s)
    <2> DEFINE fetch == [r EXCEPT !.pc = "fetch"]
               drop == [r EXCEPT !.pc = "drop"]
               stat == [r EXCEPT !.pc = "stat", !.entry = meta[r.key]]
    <2>1. /\ r.pc = "read" /\ UNCHANGED <<meta, body>>
          /\ \/ q = fetch
             \/ q = drop /\ meta[r.key] \in {Garbled, Foreign}
             \/ q = stat /\ meta[r.key] \in Entry
      BY <1>0, <1>1 DEF ReadMeta, At, Goto, dir
    <2>2. /\ Calm(meta, body, {}, MaxSize) /\ r.entry = NoEntry /\ r.key \in Keys
      BY <1>0, <2>1 DEF AloneOK, TaskOK
    <2>3. meta[r.key] \notin {Garbled, Foreign}
      BY <2>2, SetsAssumption, MarksAssumption DEF Calm, Usable, Empty
    <2>4. fetch.pc = "fetch" /\ fetch.entry = r.entry /\ stat.pc = "stat"
          /\ stat.key = r.key /\ stat.entry = meta[r.key]
      BY <1>0 DEF Task
    <2> HIDE DEF fetch, drop, stat
    <2>5. \/ q.pc = "fetch" /\ q.entry = NoEntry
          \/ q.pc = "stat" /\ meta[q.key] \in Entry /\ q.entry = meta[q.key]
      BY <2>1, <2>2, <2>3, <2>4
    <2> QED BY <2>1, <2>2, <2>5, CalmOK
  <1>2. CASE StatBody(s)
    <2> DEFINE touch == [r EXCEPT !.pc = "touch", !.entry.access = r.now]
    <2>1. /\ r.pc = "stat" /\ UNCHANGED <<meta, body>>
          /\ q = touch \/ ~ Usable(r.entry, body[r.key])
      BY <1>0, <1>2 DEF StatBody, At, Goto, dir
    <2>2. r.entry \in Entry /\ r.key \in Keys
      BY <1>0, <2>1 DEF TaskOK
    <2>3. /\ Calm(meta, body, {}, MaxSize)
          /\ meta[r.key] \in Entry /\ meta[r.key].len = r.entry.len
      BY <2>1 DEF AloneOK
    <2>4. Usable(r.entry, body[r.key])
      BY <2>2, <2>3, SetsAssumption DEF Calm, Usable, Empty
    <2>5. touch.pc = "touch" /\ touch.key = r.key /\ touch.entry.len = r.entry.len
      BY <1>0, <2>2 DEF Task, Entry
    <2> HIDE DEF touch
    <2> QED BY <2>1, <2>3, <2>4, <2>5, CalmOK
  <1>3. CASE DropMeta(s)
    BY <1>3 DEF DropMeta, At, AloneOK
  <1>4. CASE TouchMeta(s)
    <2> DEFINE hit == [Idle EXCEPT !.pc = "open", !.key = r.key,
                                   !.entry = r.entry, !.label = "HIT"]
               fetch == [r EXCEPT !.pc = "fetch"]
    <2>1. /\ r.pc = "touch" /\ UNCHANGED body
          /\ meta' = [meta EXCEPT ![r.key] = r.entry]
          /\ q \in {Idle, hit, fetch}
      BY <1>0, <1>4 DEF TouchMeta, At, Goto, CachedResponse, WriteMeta,
                        WriteMetaFails
    <2>2. r.entry \in Entry /\ r.key \in Keys
      BY <1>0, <2>1 DEF TaskOK
    <2>3. /\ Calm(meta, body, {}, MaxSize)
          /\ meta[r.key] \in Entry /\ meta[r.key].len = r.entry.len
      BY <2>1 DEF AloneOK
    <2>4. Calm(meta', body', {}, MaxSize)
      BY <1>0, <2>1, <2>2, <2>3, RewriteCalm
    <2>5. meta'[r.key] = r.entry
      BY <1>0, <2>1, <2>2
    <2>6. Idle.pc = "idle" /\ hit.pc = "open" /\ fetch.pc = "fetch"
          /\ fetch.key = r.key /\ fetch.entry = r.entry
      BY <1>0 DEF Idle, Task
    <2> HIDE DEF hit, fetch
    <2> QED BY <2>1, <2>2, <2>4, <2>5, <2>6, CalmOK
  <1> QED BY <1>1, <1>2, <1>3, <1>4 DEF Lookup

\* A 304 rewrites the metadata of the entry.
LEMMA ExchangeKeeps ==
  ASSUME ~ Faults, IndInv, NEW s \in Slots, AloneOK(meta, body, task[s]),
         Exchange(s)
  PROVE  AloneOK(meta', body', task'[s])
  <1> DEFINE r == task[s]
             q == task'[s]
  <1>0. /\ r \in Task /\ task \in [Slots -> Task] /\ TaskOK(contact, r)
        /\ meta \in [Keys -> Entry \cup {NoMeta, Garbled, Foreign}]
        /\ body \in Bodies /\ Idle.pc = "idle"
    BY DEF IndInv, TypeOK, Bodies, Idle
  <1>1. Calm(meta, body, {}, MaxSize)
    BY DEF Exchange, FetchFails, NotModified, Refresh, FullResponse, At,
           AloneOK
  <1>2. CASE FetchFails(s)
    <2>1. UNCHANGED <<meta, body>> /\ q = Idle
      BY <1>0, <1>2 DEF FetchFails, Goto, dir
    <2> QED BY <1>0, <1>1, <2>1, CalmOK
  <1>3. CASE NotModified(s)
    <2>1. PICK l \in ConfirmTtls :
            Goto(s, [r EXCEPT !.pc = "refresh",
                              !.entry = [@ EXCEPT !.created = clock,
                                                  !.access = clock,
                                                  !.ttl = l]])
      BY <1>3 DEF NotModified
    <2>2. r.pc = "fetch" /\ r.entry # NoEntry /\ UNCHANGED <<meta, body>>
      BY <1>3 DEF NotModified, At, dir
    <2>3. r.entry \in Entry
      BY <1>0, <2>2 DEF Task
    <2>4. q.pc = "refresh" /\ q.key = r.key /\ q.entry.len = r.entry.len
      BY <1>0, <2>1, <2>3 DEF Goto, Task, Entry
    <2>5. meta[r.key] \in Entry /\ meta[r.key].len = r.entry.len
      BY <2>2 DEF AloneOK
    <2> QED BY <1>1, <2>2, <2>4, <2>5, CalmOK
  <1>4. CASE Refresh(s)
    <2> DEFINE hit == [Idle EXCEPT !.pc = "open", !.key = r.key,
                                   !.entry = r.entry, !.label = "REVALIDATED"]
    <2>1. /\ r.pc = "refresh" /\ UNCHANGED body /\ q \in {Idle, hit}
          /\ meta' = [meta EXCEPT ![r.key] = r.entry]
      BY <1>0, <1>4 DEF Refresh, At, Goto, CachedResponse, WriteMeta,
                        WriteMetaFails
    <2>2. r.entry \in Entry /\ r.key \in Keys
      BY <1>0, <2>1 DEF TaskOK
    <2>3. meta[r.key] \in Entry /\ meta[r.key].len = r.entry.len
      BY <2>1 DEF AloneOK
    <2>4. Calm(meta', body', {}, MaxSize)
      BY <1>0, <1>1, <2>1, <2>2, <2>3, RewriteCalm
    <2>5. hit.pc = "open"
      BY DEF Idle
    <2> HIDE DEF hit
    <2> QED BY <1>0, <2>1, <2>4, <2>5, CalmOK
  <1>5. CASE FullResponse(s)
    <2> DEFINE v == origin[r.key]
               plain == [Idle EXCEPT !.pc = "stream", !.key = r.key,
                                     !.label = MissLabel(r), !.ver = v]
               teed == [plain EXCEPT !.writing = TRUE, !.entry = NewEntry(v)]
    <2>1. q \in {Idle, plain, teed} /\ UNCHANGED <<meta, body>>
      BY <1>0, <1>5 DEF FullResponse, Goto, dir
    <2>2. plain.pc = "stream" /\ teed.pc = "stream"
      BY DEF Idle
    <2> HIDE DEF plain, teed
    <2> QED BY <1>0, <1>1, <2>1, <2>2, CalmOK
  <1> QED BY <1>2, <1>3, <1>4, <1>5 DEF Exchange

\* Streaming and serving leave the directory as it is.
LEMMA StreamKeeps ==
  ASSUME ~ Faults, IndInv, NEW s \in Slots, AloneOK(meta, body, task[s]),
         Stream(s) \/ Serve(s) \/ Start(s)
  PROVE  AloneOK(meta', body', task'[s])
  <1> DEFINE r == task[s]
             q == task'[s]
  <1>0. r \in Task /\ task \in [Slots -> Task] /\ Idle.pc = "idle"
    BY DEF IndInv, TypeOK, Idle
  <1>1. Calm(meta, body, {}, MaxSize) /\ UNCHANGED <<meta, body>>
    BY DEF Stream, Serve, Start, Chunk, StreamBreaks, StreamCut, StreamEnd,
           OpenBody, Replied, At, AloneOK, dir
  <1>2. \/ q.pc \in {"idle", "stream", "rename", "reply"}
        \/ q.pc = "read" /\ q.entry = NoEntry
    <2>1. CASE Start(s)
      BY <1>0, <2>1 DEF Start, Goto, Idle
    <2>2. CASE StreamBreaks(s) \/ StreamCut(s) \/ Replied(s)
      BY <1>0, <2>2 DEF StreamBreaks, StreamCut, Replied, Goto
    <2>3. CASE StreamEnd(s)
      BY <1>0, <2>3 DEF StreamEnd, Goto, Task
    <2>4. CASE Chunk(s)
      <3> DEFINE more == [r EXCEPT !.got = @ + 1]
                 bare == [r EXCEPT !.got = @ + 1, !.writing = FALSE,
                                   !.entry = NoEntry]
      <3>1. r.pc = "stream" /\ q \in {more, bare}
        BY <1>0, <2>4 DEF Chunk, At, Goto
      <3>2. more.pc = r.pc /\ bare.pc = r.pc
        BY <1>0 DEF Task
      <3> HIDE DEF more, bare
      <3> QED BY <3>1, <3>2
    <2>5. CASE OpenBody(s)
      <3> DEFINE reply == [r EXCEPT !.pc = "reply", !.ver = body[r.key].ver,
                                    !.got = body[r.key].len]
      <3>1. q \in {reply, Idle}
        BY <1>0, <2>5 DEF OpenBody, Goto
      <3>2. reply.pc = "reply"
        BY <1>0 DEF Task
      <3> HIDE DEF reply
      <3> QED BY <1>0, <3>1, <3>2
    <2> QED BY <2>1, <2>2, <2>3, <2>4, <2>5 DEF Stream, Serve
  <1> QED BY <1>1, <1>2, CalmOK

\* A body renamed into place adds at most its own length.
LEMMA RenameCalm ==
  ASSUME NEW m, NEW b \in Bodies, NEW k \in Keys, NEW c \in Content,
         NEW n \in Nat, c.len <= n, Calm(m, b, {}, MaxSize),
         NEW b2, b2 = [b EXCEPT ![k] = c]
  PROVE  Calm(m, b2, {k}, MaxSize + n)
  <1>1. /\ b2 \in Bodies /\ b2[k] = c /\ SameBut(m, b, m, b2, k)
        /\ \A j \in Keys : j # k => b2[j] = b[j]
    BY DEF Bodies, SameBut
  <1>2. SumFunction(Sizes(m, b2)) - Sizes(m, b2)[k]
           = SumFunction(Sizes(m, b)) - Sizes(m, b)[k]
    BY <1>1, SizesChange
  <1>3. /\ Sizes(m, b) \in [Keys -> Nat] /\ SumFunction(Sizes(m, b)) \in Nat
        /\ Sizes(m, b2) \in [Keys -> Nat] /\ SumFunction(Sizes(m, b2)) \in Nat
    BY <1>1, SizesType
  <1>4. Sizes(m, b2)[k] <= Sizes(m, b)[k] + n
    <2> DEFINE old == IF b[k] = NoBody THEN 0 ELSE b[k].len
               file == IF m[k] = NoMeta THEN 0 ELSE MetaSize
    <2>1. old \in Nat /\ file \in Nat /\ c.len \in Nat
      BY NumbersAssumption DEF Bodies, Content
    <2>2. Sizes(m, b)[k] = file + old /\ Sizes(m, b2)[k] = file + c.len
      BY <1>1, SetsAssumption DEF Sizes
    <2> HIDE DEF old, file
    <2> QED BY <2>1, <2>2
  <1>5. SumFunction(Sizes(m, b2)) <= MaxSize + n
    <2>1. SumFunction(Sizes(m, b)) <= MaxSize /\ MaxSize \in Nat
      BY NumbersAssumption DEF Calm
    <2>2. Sizes(m, b)[k] \in Nat /\ Sizes(m, b2)[k] \in Nat
      BY <1>3
    <2> QED BY <1>2, <1>3, <1>4, <2>1, <2>2
  <1> QED BY <1>1, <1>5 DEF Calm, Empty

\* The metadata of a renamed body adds its own size, and nothing is to be
\* exempted any more.
LEMMA CommitCalm ==
  ASSUME NEW m \in [Keys -> Entry \cup {NoMeta, Garbled, Foreign}],
         NEW b \in Bodies, NEW k \in Keys, NEW e \in Entry,
         b[k] # NoBody, b[k].len = e.len, Calm(m, b, {k}, Overshoot),
         NEW m2, m2 = [m EXCEPT ![k] = e]
  PROVE  Calm(m2, b, {}, FullOvershoot)
  <1>1. /\ m2[k] = e /\ SameBut(m, b, m2, b, k)
        /\ \A j \in Keys : j # k => m2[j] = m[j]
    BY DEF SameBut
  <1>2. SumFunction(Sizes(m2, b)) - Sizes(m2, b)[k]
           = SumFunction(Sizes(m, b)) - Sizes(m, b)[k]
    BY <1>1, SizesChange
  <1>3. /\ Sizes(m, b) \in [Keys -> Nat] /\ SumFunction(Sizes(m, b)) \in Nat
        /\ Sizes(m2, b) \in [Keys -> Nat] /\ SumFunction(Sizes(m2, b)) \in Nat
    BY SizesType
  <1>4. Sizes(m2, b)[k] <= Sizes(m, b)[k] + MetaSize
    <2> DEFINE len == IF b[k] = NoBody THEN 0 ELSE b[k].len
               file == IF m[k] = NoMeta THEN 0 ELSE MetaSize
    <2>1. len \in Nat /\ file \in Nat /\ MetaSize \in Nat
      BY NumbersAssumption DEF Bodies, Content
    <2>2. Sizes(m, b)[k] = file + len /\ Sizes(m2, b)[k] = MetaSize + len
      BY <1>1, SetsAssumption DEF Sizes
    <2> HIDE DEF len, file
    <2> QED BY <2>1, <2>2
  <1>5. SumFunction(Sizes(m2, b)) <= FullOvershoot
    <2>1. /\ SumFunction(Sizes(m, b)) <= MaxSize + Largest
          /\ MaxSize \in Nat /\ MetaSize \in Nat /\ Largest \in Nat
      BY NumbersAssumption, LargestIs DEF Calm, Overshoot
    <2>2. Sizes(m, b)[k] \in Nat /\ Sizes(m2, b)[k] \in Nat
      BY <1>3
    <2> QED BY <1>2, <1>3, <1>4, <2>1, <2>2 DEF FullOvershoot
  <1>6. Usable(m2[k], b[k])
    BY <1>1 DEF Usable
  <1> QED BY <1>1, <1>5, <1>6 DEF Calm, Empty

\* The two renames of a commit add one entry at most.
LEMMA CommitKeeps ==
  ASSUME ~ Faults, IndInv, NEW s \in Slots, AloneOK(meta, body, task[s]),
         Commit(s)
  PROVE  AloneOK(meta', body', task'[s])
  <1> DEFINE r == task[s]
             q == task'[s]
  <1>0. /\ r \in Task /\ task \in [Slots -> Task] /\ TaskOK(contact, r)
        /\ meta \in [Keys -> Entry \cup {NoMeta, Garbled, Foreign}]
        /\ body \in Bodies
    BY DEF IndInv, TypeOK, Bodies
  <1>1. CASE RenameBody(s)
    <2> DEFINE c == [ver |-> r.ver, len |-> r.got]
    <2>1. /\ r.pc = "rename" /\ UNCHANGED meta
          /\ body' = [body EXCEPT ![r.key] = c]
          /\ q = [r EXCEPT !.pc = "commit"]
      BY <1>0, <1>1 DEF RenameBody, At, Goto
    <2>2. r.key \in Keys /\ r.ver \in Versions /\ r.got = BodySize[r.ver]
      BY <1>0, <2>1 DEF TaskOK
    <2>3. c \in Content /\ c.len <= Largest /\ Largest \in Nat
      BY <2>2, LargestIs, SetsAssumption DEF Content
    <2>4. Calm(meta, body, {}, MaxSize)
      BY <2>1 DEF AloneOK
    <2>5. q.pc = "commit" /\ q.key = r.key /\ q.ver = r.ver /\ q.got = r.got
      BY <1>0, <2>1 DEF Task
    <2>6. body'[r.key] = c
      BY <1>0, <2>1, <2>2 DEF Bodies
    <2> HIDE DEF c
    <2>7. Calm(meta', body', {q.key}, Overshoot)
      BY <1>0, <2>1, <2>2, <2>3, <2>4, <2>5, RenameCalm DEF Overshoot
    <2> QED BY <2>5, <2>6, <2>7 DEF AloneOK, c
  <1>2. CASE CommitMeta(s)
    <2> DEFINE scan == [Idle EXCEPT !.pc = "scan", !.todo = Keys]
    <2>1. /\ r.pc = "commit" /\ UNCHANGED body /\ q = scan
          /\ meta' = [meta EXCEPT ![r.key] = r.entry]
      BY <1>0, <1>2 DEF CommitMeta, At, Goto, WriteMeta, WriteMetaFails
    <2>2. /\ r.key \in Keys /\ r.entry \in Entry /\ Whole(r.entry)
          /\ r.got = BodySize[r.ver] /\ r.entry.ver = r.ver
          /\ r.ver \in Versions
      BY <1>0, <2>1, SetsAssumption DEF TaskOK
    <2>3. /\ Calm(meta, body, {r.key}, Overshoot)
          /\ body[r.key] = [ver |-> r.ver, len |-> r.got]
      BY <2>1 DEF AloneOK
    <2>4. body[r.key] # NoBody /\ body[r.key].len = r.entry.len
      BY <1>0, <2>2, <2>3, SetsAssumption DEF Whole, Content
    <2>5. Calm(meta', body', {}, FullOvershoot)
      BY <1>0, <2>1, <2>2, <2>3, <2>4, CommitCalm
    <2>6. scan.pc = "scan" /\ scan.todo = Keys /\ scan.found = {}
          /\ scan.total = 0
      BY DEF Idle
    <2>7. Evicting(meta', body', scan, {})
      BY <1>0, <2>1, <2>6, AccountStart DEF Evicting
    <2> HIDE DEF scan
    <2> QED BY <2>1, <2>5, <2>6, <2>7 DEF AloneOK
  <1> QED BY <1>1, <1>2 DEF Commit

\* Removing files makes the directory no larger.
LEMMA RemoveCalm ==
  ASSUME NEW m, NEW b \in Bodies, NEW m2, NEW b2 \in Bodies, NEW k \in Keys,
         SameBut(m, b, m2, b2, k), m2[k] \in {m[k], NoMeta},
         b2[k] \in {b[k], NoBody}, NEW n \in Nat,
         SumFunction(Sizes(m, b)) <= n
  PROVE  SumFunction(Sizes(m2, b2)) <= n
  <1>1. /\ Sizes(m, b) \in [Keys -> Nat] /\ SumFunction(Sizes(m, b)) \in Nat
        /\ Sizes(m2, b2) \in [Keys -> Nat] /\ SumFunction(Sizes(m2, b2)) \in Nat
    BY SizesType
  <1>2. ASSUME NEW j \in Keys PROVE Sizes(m2, b2)[j] <= Sizes(m, b)[j]
    <2> DEFINE len == IF b[j] = NoBody THEN 0 ELSE b[j].len
               file == IF m[j] = NoMeta THEN 0 ELSE MetaSize
               len2 == IF b2[j] = NoBody THEN 0 ELSE b2[j].len
               file2 == IF m2[j] = NoMeta THEN 0 ELSE MetaSize
    <2>1. len \in Nat /\ file \in Nat /\ len2 \in {0, len} /\ file2 \in {0, file}
      BY NumbersAssumption DEF Bodies, Content, SameBut
    <2>2. Sizes(m, b)[j] = file + len /\ Sizes(m2, b2)[j] = file2 + len2
      BY DEF Sizes
    <2> HIDE DEF len, file, len2, file2
    <2> QED BY <2>1, <2>2
  <1>3. SumFunction(Sizes(m2, b2)) <= SumFunction(Sizes(m, b))
    BY <1>1, <1>2, SumLess, FiniteAssumption
  <1> QED BY <1>1, <1>3

\* The two bounds on the way are natural.
LEMMA OvershootTypes == Overshoot \in Nat /\ FullOvershoot \in Nat
  BY LargestIs, NumbersAssumption DEF Overshoot, FullOvershoot

\* Visiting an entry moves it from what is to be visited to what is found.
LEMMA ScanKeeps ==
  ASSUME ~ Faults, IndInv, NEW s \in Slots, AloneOK(meta, body, task[s]),
         NEW k \in Keys, Scan(s, k)
  PROVE  AloneOK(meta', body', task'[s])
  <1> DEFINE r == task[s]
             q == task'[s]
             p == [r EXCEPT !.todo = @ \ {k}]
             x == Snapshot(k)
  <1>0. /\ r \in Task /\ task \in [Slots -> Task] /\ body \in Bodies
        /\ r.pc = "scan" /\ k \in r.todo /\ UNCHANGED <<meta, body>>
    BY DEF IndInv, TypeOK, Bodies, Scan, At, dir
  <1>1. r.found \in SUBSET Snapshots /\ r.todo \in SUBSET Keys /\ r.total \in Nat
    BY <1>0 DEF Task
  <1>2. Calm(meta, body, {}, FullOvershoot) /\ Evicting(meta, body, r, {})
    BY <1>0 DEF AloneOK
  <1>3. p.pc = "scan" /\ p.todo = r.todo \ {k} /\ p.found = r.found
        /\ p.total = r.total
    BY <1>0 DEF Task
  <1>4. ASSUME q = p, meta[k] = NoMeta PROVE Evicting(meta, body, q, {})
    <2>1. Empty(meta, body, k)
      BY <1>2, <1>4, SetsAssumption DEF Calm, Usable
    <2> DEFINE T == r.todo \ {k}
    <2>2. T = r.todo \ {k} /\ T \in SUBSET r.todo
      OBVIOUS
    <2>3. Accounted(meta, body, r.found, r.todo, r.total)
      BY <1>2 DEF Evicting
    <2> HIDE DEF p, T
    <2>4. Accounted(meta, body, r.found, T, r.total)
      BY <1>0, <2>2, <2>3, AccountElsewhere
    <2> QED BY <1>2, <1>3, <1>4, <2>1, <2>2, <2>4 DEF Evicting
  <1>5. ASSUME q = [p EXCEPT !.found = @ \cup {x},
                             !.total = @ + EntrySize(k)],
               meta[k] \in Entry \cup {Foreign}
        PROVE  Evicting(meta, body, q, {}) /\ q.pc = "scan"
    <2>1. q.pc = "scan" /\ q.todo = r.todo \ {k} /\ q.found = r.found \cup {x}
          /\ q.total = r.total + EntrySize(k)
      BY <1>0, <1>5 DEF Task
    <2>2. x \in Snapshots /\ x.key = k /\ x.size = EntrySize(k)
          /\ x.size = SizeIn(body, k)
      BY SnapshotType DEF Snapshot, EntrySize, SizeIn, BodyLen, IndInv
    <2>3. Usable(meta[k], body[k])
      BY <1>2, <1>5, SetsAssumption, MarksAssumption DEF Calm, Empty
    <2> HIDE DEF x, p
    <2>4. Accounted(meta, body, r.found \cup {x}, r.todo \ {x.key},
                    r.total + x.size)
      BY <1>0, <1>1, <1>2, <2>2, <2>3, AccountMore DEF Evicting
    <2>5. KeysOf(r.found \cup {x}) = KeysOf(r.found) \cup {k}
      BY <2>2 DEF KeysOf
    <2> QED BY <1>2, <2>1, <2>2, <2>4, <2>5 DEF Evicting
  <1>6. meta[k] # Garbled
    BY <1>2, SetsAssumption, MarksAssumption DEF Calm, Usable, Empty
  <1>7. Evicting(meta, body, q, {}) /\ q.pc = "scan"
    <2>1. \/ q = p /\ meta[k] \in {NoMeta, Garbled}
          \/ /\ q = [p EXCEPT !.found = @ \cup {x}, !.total = @ + EntrySize(k)]
             /\ meta[k] \in Entry \cup {Foreign}
      BY <1>0 DEF Scan, Goto
    <2> QED BY <1>3, <1>4, <1>5, <1>6, <2>1
  <1> QED BY <1>0, <1>2, <1>7 DEF AloneOK

\* Evicting takes the victim out of the account before its files go.
LEMMA EvictMetaKeeps ==
  ASSUME ~ Faults, IndInv, NEW s \in Slots, AloneOK(meta, body, task[s]),
         EvictMeta(s)
  PROVE  AloneOK(meta', body', task'[s])
  <1> DEFINE r == task[s]
             q == task'[s]
  <1>0. /\ r \in Task /\ task \in [Slots -> Task] /\ body \in Bodies
        /\ meta \in [Keys -> Entry \cup {NoMeta, Garbled, Foreign}]
        /\ r.pc = "scan" /\ r.todo = {} /\ UNCHANGED body
    BY DEF IndInv, TypeOK, Bodies, EvictMeta, ScanEnds, At
  <1>1. r.found \in SUBSET Snapshots /\ r.total \in Nat
    BY <1>0 DEF Task
  <1>2. /\ Calm(meta, body, {}, FullOvershoot) /\ Evicting(meta, body, r, {})
        /\ Accounted(meta, body, r.found, r.todo, r.total)
    BY <1>0 DEF AloneOK, Evicting
  <1>3. PICK x \in Oldest(r.found) :
          /\ meta' = [meta EXCEPT ![x.key] = NoMeta]
          /\ q = [r EXCEPT !.pc = "unlink", !.victim = x.key,
                           !.found = @ \ {x},
                           !.total = IF @ >= x.size THEN @ - x.size ELSE 0]
    BY <1>0 DEF EvictMeta, Goto
  <1>4. x \in r.found /\ x.key \in Keys
    BY <1>1 DEF Oldest, Snapshots
  <1>5. /\ meta'[x.key] = NoMeta
        /\ SameBut(meta, body, meta', body', x.key)
    BY <1>0, <1>3, <1>4 DEF SameBut
  <1>6. r.total >= x.size
    BY <1>0, <1>1, <1>2, <1>4, AccountBound
  <1> DEFINE G == r.found \ {x}
             rest == r.total - x.size
  <1>7. q.pc = "unlink" /\ q.victim = x.key /\ q.found = G /\ q.total = rest
        /\ q.todo = {}
    BY <1>0, <1>3, <1>6 DEF Task
  <1>8. G = r.found \ {x}
    OBVIOUS
  <1>9. rest = r.total - x.size
    OBVIOUS
  <1> HIDE DEF G, rest
  <1>10. KeysOf(G) = KeysOf(r.found) \ {x.key}
    BY <1>0, <1>1, <1>2, <1>4, <1>8, AccountBound
  <1>11. Accounted(meta', body', G, r.todo, rest)
    BY <1>0, <1>1, <1>2, <1>4, <1>5, <1>8, <1>9, AccountLess
  <1>12. SumFunction(Sizes(meta', body')) <= FullOvershoot
    BY <1>0, <1>2, <1>4, <1>5, RemoveCalm, OvershootTypes DEF Calm
  <1>13. Calm(meta', body', {x.key}, FullOvershoot)
    BY <1>2, <1>5, <1>12 DEF Calm, SameBut, Empty
  <1>14. Evicting(meta', body', q, {x.key})
    <2>1. \A k \in Keys \ (KeysOf(G) \cup {x.key}) : Empty(meta', body', k)
      BY <1>0, <1>2, <1>5, <1>10 DEF Evicting, SameBut, Empty
    <2> QED BY <1>0, <1>7, <1>11, <2>1 DEF Evicting
  <1> QED BY <1>5, <1>7, <1>10, <1>13, <1>14 DEF AloneOK

\* With its body the victim is gone.
LEMMA EvictBodyKeeps ==
  ASSUME ~ Faults, IndInv, NEW s \in Slots, AloneOK(meta, body, task[s]),
         EvictBody(s)
  PROVE  AloneOK(meta', body', task'[s])
  <1> DEFINE r == task[s]
             q == task'[s]
             v == task[s].victim
  <1>0. /\ r \in Task /\ task \in [Slots -> Task] /\ TaskOK(contact, r)
        /\ body \in Bodies /\ r.pc = "unlink" /\ UNCHANGED meta
        /\ body' = [body EXCEPT ![v] = NoBody]
        /\ q = [r EXCEPT !.pc = "scan", !.victim = NoKey]
    BY DEF IndInv, TypeOK, Bodies, EvictBody, At, Goto
  <1>1. v \in Keys
    BY <1>0 DEF TaskOK
  <1>2. /\ Calm(meta, body, {v}, FullOvershoot) /\ Evicting(meta, body, r, {v})
        /\ meta[v] = NoMeta /\ v \notin KeysOf(r.found) /\ r.todo = {}
    BY <1>0 DEF AloneOK
  <1>3. q.pc = "scan" /\ q.found = r.found /\ q.todo = r.todo /\ q.total = r.total
    BY <1>0 DEF Task
  <1>4. /\ body' \in Bodies /\ body'[v] = NoBody
        /\ SameBut(meta, body, meta', body', v)
    BY <1>0, <1>1 DEF Bodies, SameBut
  <1>5. KeysOf(r.found) \in SUBSET Keys
    BY <1>0 DEF Task, KeysOf, Snapshots
  <1>6. Accounted(meta', body', r.found, r.todo, r.total)
    <2>1. \A k \in KeysOf(r.found) : meta'[k] = meta[k] /\ body'[k] = body[k]
      BY <1>2, <1>4, <1>5 DEF SameBut
    <2>2. Accounted(meta, body, r.found, r.todo, r.total)
      BY <1>2 DEF Evicting
    <2> DEFINE T == r.todo
    <2>3. T = r.todo /\ T \in SUBSET r.todo
      OBVIOUS
    <2>4. body \in Bodies /\ body' \in Bodies
      BY <1>0, <1>4
    <2> DEFINE F == r.found
               total == r.total
    <2> HIDE DEF T, F, total
    <2>5. Accounted(meta, body, F, r.todo, total)
          /\ \A k \in KeysOf(F) : meta'[k] = meta[k] /\ body'[k] = body[k]
      BY <2>1, <2>2 DEF F, total
    <2>6. Accounted(meta', body', F, T, total)
      BY <2>3, <2>4, <2>5, AccountElsewhere
    <2> QED BY <2>3, <2>6 DEF F, total
  <1>7. SumFunction(Sizes(meta', body')) <= FullOvershoot
    <2>1. meta'[v] \in {meta[v], NoMeta} /\ body'[v] \in {body[v], NoBody}
      BY <1>0, <1>4
    <2>2. SumFunction(Sizes(meta, body)) <= FullOvershoot
      BY <1>2 DEF Calm
    <2>3. body \in Bodies
      BY <1>0
    <2> QED BY <1>1, <1>4, <2>1, <2>2, <2>3, RemoveCalm, OvershootTypes
  <1>8. Empty(meta', body', v)
    BY <1>0, <1>2, <1>4 DEF Empty
  <1>9. Calm(meta', body', {}, FullOvershoot)
    BY <1>2, <1>4, <1>7, <1>8 DEF Calm, SameBut, Empty
  <1>10. Evicting(meta', body', q, {})
    BY <1>2, <1>3, <1>4, <1>6, <1>8 DEF Evicting, SameBut, Empty
  <1> QED BY <1>3, <1>9, <1>10 DEF AloneOK

\* When evict has found everything and its total is within the limit, so is the
\* directory.
LEMMA EvictDoneKeeps ==
  ASSUME ~ Faults, IndInv, NEW s \in Slots, AloneOK(meta, body, task[s]),
         EvictDone(s)
  PROVE  AloneOK(meta', body', task'[s])
  <1> DEFINE r == task[s]
  <1>0. /\ r \in Task /\ task \in [Slots -> Task] /\ body \in Bodies
        /\ r.pc = "scan" /\ r.todo = {} /\ ~ OverLimit(r)
        /\ UNCHANGED <<meta, body>> /\ task'[s] = Idle
    BY DEF IndInv, TypeOK, Bodies, EvictDone, ScanEnds, At, Goto, dir
  <1>1. r.found \in SUBSET Snapshots /\ r.total \in Nat
    BY <1>0 DEF Task
  <1>2. /\ Calm(meta, body, {}, FullOvershoot)
        /\ Accounted(meta, body, r.found, r.todo, r.total)
        /\ \A k \in Keys \ KeysOf(r.found) : Empty(meta, body, k)
    BY <1>0 DEF AloneOK, Evicting
  <1>3. SumFunction(Sizes(meta, body)) = r.total
    BY <1>0, <1>1, <1>2, AccountAll DEF Empty
  <1>4. r.found = {} => r.total = 0
    BY <1>0, <1>2, AccountNone
  <1>5. r.total <= MaxSize
    BY <1>0, <1>1, <1>4, NumbersAssumption DEF OverLimit
  <1>6. Calm(meta, body, {}, MaxSize)
    BY <1>2, <1>3, <1>5 DEF Calm
  <1> QED BY <1>0, <1>6, CalmOK DEF Idle

\* A step of the only request keeps it: no call fails, no client leaves.
LEMMA OwnStepKeeps ==
  ASSUME ~ Faults, ~ Cancels, IndInv, NEW s \in Slots,
         AloneOK(meta, body, task[s]), Start(s) \/ Handle(s) \/ Cancel(s)
  PROVE  AloneOK(meta', body', task'[s])
  <1>1. CASE Start(s)
    BY <1>1, StreamKeeps
  <1>2. CASE Cancel(s)
    BY <1>2 DEF Cancel
  <1>3. CASE Handle(s)
    <2>1. CASE Stream(s) \/ Serve(s)
      BY <2>1, StreamKeeps
    <2>2. CASE Evict(s)
      BY <2>2, ScanKeeps, EvictMetaKeeps, EvictBodyKeeps, EvictDoneKeeps
         DEF Evict
    <2> QED BY <1>3, <2>1, <2>2, LookupKeeps, ExchangeKeeps, CommitKeeps
            DEF Handle
  <1> QED BY <1>1, <1>2, <1>3

\* Without failing calls no cleanup fails.
LEMMA CleanupSucceeds ==
  ASSUME ~ Faults, IndInv, ~ boot.failed, [Next]_vars PROVE ~ boot'.failed
  <1>0. boot \in Cleanup
    BY DEF IndInv, TypeOK
  <1>1. CASE BootStart
    BY <1>1 DEF BootStart
  <1>2. CASE \E k \in Keys : BootSweep(k)
    BY <1>0, <1>2 DEF BootSweep, Removed, Cleanup
  <1>3. CASE BootOrphans
    BY <1>0, <1>3 DEF BootOrphans, Removed, Cleanup
  <1>4. CASE BootEvict
    BY <1>0, <1>4 DEF BootEvict, Removed, Cleanup
  <1>5. CASE BootDone \/ Crash
    BY <1>5 DEF BootDone, Crash, NotBooting
  <1>6. CASE UNCHANGED boot
    BY <1>6
  <1>7. CASE \E s \in Slots : Start(s) \/ Handle(s) \/ Cancel(s)
    BY <1>6, <1>7 DEF Start, Handle, Cancel, Lookup, Exchange, Stream, Commit,
         Evict, Serve, ReadMeta, StatBody, DropMeta, TouchMeta, FetchFails,
         NotModified, Refresh, FullResponse, Chunk, StreamBreaks, StreamCut,
         StreamEnd, RenameBody, CommitMeta, Scan, EvictMeta, EvictBody,
         EvictDone, OpenBody, Replied
  <1>8. CASE Tick \/ (\E k \in Keys : Publish(k)) \/ UNCHANGED vars
    BY <1>6, <1>8 DEF Tick, Publish, vars
  <1> QED BY <1>1, <1>2, <1>3, <1>4, <1>5, <1>7, <1>8 DEF Next, Boot

\* Serving starts in a directory within the limit.
LEMMA ServingStarts ==
  ASSUME IndInv, BootOK, ~ boot.failed, Down, BootDone
  PROVE  \A s \in Slots : AloneOK(meta', body', task'[s])
  <1>1. UNCHANGED <<meta, body, task>> /\ phase = "shrink"
    BY DEF BootDone, dir
  <1>2. Cleaning
    BY <1>1 DEF BootOK, Cleaning
  <1>3. /\ \A k \in Keys : meta[k] # NoMeta => Keeps(k, boot.now)
        /\ \A k \in Keys : body[k] # NoBody => meta[k] # NoMeta
        /\ DiskTotal <= MaxSize
    BY <1>2, CleaningDone
  <1>4. Calm(meta, body, {}, MaxSize)
    BY <1>3, DiskTotalIs DEF Calm, Keeps, Empty
  <1>5. \A s \in Slots : task[s].pc = "idle"
    BY <1>1 DEF Down, Idle
  <1> QED BY <1>1, <1>4, <1>5, CalmOK

\* The inductive step of LimitInv.
LEMMA LimitStep ==
  ASSUME NEW only, Slots = {only}, ~ Faults, ~ Cancels, IndInv, LimitInv,
         [Next]_vars
  PROVE  LimitInv'
  <1>1. BootOK' /\ ~ boot'.failed /\ Down'
    BY BootOKStep, CleanupSucceeds, DownStep DEF LimitInv, IndInv, TypeOK
  <1>2. CASE phase' # "up"
    BY <1>1, <1>2 DEF LimitInv
  <1>3. CASE phase' = "up" /\ BootDone
    BY <1>1, <1>3, ServingStarts DEF LimitInv
  <1>4. CASE UNCHANGED <<meta, body, task, phase>>
    BY <1>1, <1>4 DEF LimitInv
  <1>5. CASE \E s \in Slots : Start(s) \/ Handle(s) \/ Cancel(s)
    BY <1>1, <1>5, OwnStepKeeps, SlotStepUp DEF LimitInv
  <1>6. CASE Boot \/ Crash
    BY <1>2, <1>3, <1>6 DEF Boot, BootStart, BootSweep, BootOrphans, BootEvict,
         Crash
  <1>7. CASE Tick \/ (\E k \in Keys : Publish(k)) \/ UNCHANGED vars
    BY <1>4, <1>7 DEF Tick, Publish, vars, dir
  <1> QED BY <1>5, <1>6, <1>7 DEF Next

\* The invariant of one request at a time without failing calls.
LEMMA LimitInvariance ==
  ASSUME NEW only, Slots = {only}, ~ Faults, ~ Cancels
  PROVE  Spec => []LimitInv
  <1>1. Init => LimitInv
    BY DEF Init, LimitInv, BootOK, Down, NotBooting
  <1>2. IndInv /\ LimitInv /\ [Next]_vars => LimitInv'
    BY LimitStep
  <1> QED BY <1>1, <1>2, Invariance, PTL DEF Spec

\* With one connection, and as long as no call fails and no client leaves,
\* the cache is within cache.max_size whenever no request is under way:
\* evict is run to its end by every commit, and every start of the process
\* cleans up after a crash between the two (cache.rs, commit and
\* cleanup_startup).
THEOREM LimitKeeping ==
  ASSUME NEW only, Slots = {only}, ~ Faults, ~ Cancels
  PROVE  Spec => []LimitKept
  <1>1. IndInv /\ LimitInv => LimitKept
    <2> SUFFICES ASSUME LimitInv, Quiet PROVE DiskTotal <= MaxSize
      BY DEF LimitKept
    <2>1. task[only].pc = "idle" /\ AloneOK(meta, body, task[only])
      BY DEF Quiet, LimitInv
    <2> QED BY <2>1, DiskTotalIs DEF AloneOK, Calm
  <1> QED BY <1>1, Invariance, LimitInvariance, PTL

\* One request at a time exceeds cache.max_size by no more than the entry it
\* stores (cache.rs, commit renames both files before it evicts).
THEOREM OvershootBound ==
  ASSUME ~ Faults, ~ Cancels PROVE Spec => []OvershootBounded
  <1>1. CASE Cardinality(Slots) # 1
    <2>1. OvershootBounded
      BY <1>1 DEF OvershootBounded
    <2> QED BY <2>1, PTL
  <1>2. CASE Cardinality(Slots) = 1
    <2>1. PICK only : Slots = {only}
      BY <1>2, FiniteAssumption, FS_Singleton
    <2>2. IndInv /\ LimitInv => OvershootBounded
      <3> SUFFICES ASSUME IndInv, LimitInv, phase = "up"
                   PROVE  DiskTotal <= MaxSize + MetaSize + Largest
        BY DEF OvershootBounded
      <3>1. DiskTotal \in Nat
        BY SizesType, DiskTotalIs DEF IndInv, TypeOK, Bodies
      <3>2. \/ DiskTotal <= MaxSize
            \/ DiskTotal <= Overshoot
            \/ DiskTotal <= FullOvershoot
        BY <2>1, DiskTotalIs DEF LimitInv, AloneOK, Calm
      <3> QED BY <3>1, <3>2, LargestIs, NumbersAssumption
              DEF Overshoot, FullOvershoot
    <2>3. Spec => []IndInv
      BY Invariance
    <2>4. Spec => []LimitInv
      BY <2>1, LimitInvariance
    <2> QED BY <2>2, <2>3, <2>4, PTL
  <1> QED BY <1>1, <1>2

-----------------------------------------------------------------------------
(* The end of a request, and of a start *)

KeyCount == Cardinality(Keys)

\* What evict has yet to do: three steps for each key to visit, two for each
\* entry found.
EvictSteps(r) == 3 * Cardinality(r.todo) + 2 * Cardinality(r.found)

\* How many steps a request is from its end.
StepsLeft(r) ==
  CASE r.pc = "read"    -> 3 * KeyCount + Largest + 9
    [] r.pc = "stat"    -> 3 * KeyCount + Largest + 8
    [] r.pc = "touch"   -> 3 * KeyCount + Largest + 7
    [] r.pc = "drop"    -> 3 * KeyCount + Largest + 6
    [] r.pc = "fetch"   -> 3 * KeyCount + Largest + 5
    [] r.pc = "stream"  -> 3 * KeyCount + 4 + (BodySize[r.ver] - r.got)
    [] r.pc = "rename"  -> 3 * KeyCount + 3
    [] r.pc = "commit"  -> 3 * KeyCount + 2
    [] r.pc = "scan"    -> EvictSteps(r) + 1
    [] r.pc = "unlink"  -> EvictSteps(r) + 2
    [] r.pc = "refresh" -> 3
    [] r.pc = "open"    -> 2
    [] r.pc = "reply"   -> 1
    [] OTHER            -> 0

\* A body is never longer than it is, and evict finds a key once at most.
PaceOK(r) ==
  /\ r.pc = "stream" => r.got <= BodySize[r.ver]
  /\ r.pc \in {"scan", "unlink"} =>
       /\ IsFiniteSet(r.found)
       /\ Cardinality(r.todo) + Cardinality(r.found) <= KeyCount

\* A step from r to q gets a request nearer to its end.
Nearer(r, q) == PaceOK(q) /\ StepsLeft(q) < StepsLeft(r)

\* Cardinalities of what a request carries.
LEMMA CountType ==
  /\ KeyCount \in Nat
  /\ \A S \in SUBSET Keys : Cardinality(S) \in Nat /\ Cardinality(S) <= KeyCount
  BY FiniteAssumption, FS_Subset, FS_CardinalityType DEF KeyCount

\* StepsLeft at each program point.
LEMMA StepsAt ==
  ASSUME NEW r
  PROVE  /\ r.pc = "read" => StepsLeft(r) = 3 * KeyCount + Largest + 9
         /\ r.pc = "stat" => StepsLeft(r) = 3 * KeyCount + Largest + 8
         /\ r.pc = "touch" => StepsLeft(r) = 3 * KeyCount + Largest + 7
         /\ r.pc = "drop" => StepsLeft(r) = 3 * KeyCount + Largest + 6
         /\ r.pc = "fetch" => StepsLeft(r) = 3 * KeyCount + Largest + 5
         /\ r.pc = "stream" => StepsLeft(r) = 3 * KeyCount + 4
                                                + (BodySize[r.ver] - r.got)
         /\ r.pc = "rename" => StepsLeft(r) = 3 * KeyCount + 3
         /\ r.pc = "commit" => StepsLeft(r) = 3 * KeyCount + 2
         /\ r.pc = "scan" => StepsLeft(r) = EvictSteps(r) + 1
         /\ r.pc = "unlink" => StepsLeft(r) = EvictSteps(r) + 2
         /\ r.pc = "refresh" => StepsLeft(r) = 3
         /\ r.pc = "open" => StepsLeft(r) = 2
         /\ r.pc = "reply" => StepsLeft(r) = 1
         /\ r.pc = "idle" => StepsLeft(r) = 0
  <1>1. ASSUME r.pc = "read" PROVE StepsLeft(r) = 3 * KeyCount + Largest + 9
    BY <1>1 DEF StepsLeft
  <1>2. ASSUME r.pc = "stat" PROVE StepsLeft(r) = 3 * KeyCount + Largest + 8
    BY <1>2 DEF StepsLeft
  <1>3. ASSUME r.pc = "touch" PROVE StepsLeft(r) = 3 * KeyCount + Largest + 7
    BY <1>3 DEF StepsLeft
  <1>4. ASSUME r.pc = "drop" PROVE StepsLeft(r) = 3 * KeyCount + Largest + 6
    BY <1>4 DEF StepsLeft
  <1>5. ASSUME r.pc = "fetch" PROVE StepsLeft(r) = 3 * KeyCount + Largest + 5
    BY <1>5 DEF StepsLeft
  <1>6. ASSUME r.pc = "stream"
        PROVE  StepsLeft(r) = 3 * KeyCount + 4 + (BodySize[r.ver] - r.got)
    BY <1>6 DEF StepsLeft
  <1>7. ASSUME r.pc = "rename" PROVE StepsLeft(r) = 3 * KeyCount + 3
    BY <1>7 DEF StepsLeft
  <1>8. ASSUME r.pc = "commit" PROVE StepsLeft(r) = 3 * KeyCount + 2
    BY <1>8 DEF StepsLeft
  <1>9. ASSUME r.pc = "scan" PROVE StepsLeft(r) = EvictSteps(r) + 1
    BY <1>9 DEF StepsLeft
  <1>10. ASSUME r.pc = "unlink" PROVE StepsLeft(r) = EvictSteps(r) + 2
    BY <1>10 DEF StepsLeft
  <1>11. ASSUME r.pc = "refresh" PROVE StepsLeft(r) = 3
    BY <1>11 DEF StepsLeft
  <1>12. ASSUME r.pc = "open" PROVE StepsLeft(r) = 2
    BY <1>12 DEF StepsLeft
  <1>13. ASSUME r.pc = "reply" PROVE StepsLeft(r) = 1
    BY <1>13 DEF StepsLeft
  <1>14. ASSUME r.pc = "idle" PROVE StepsLeft(r) = 0
    BY <1>14 DEF StepsLeft
  <1> QED BY <1>1, <1>2, <1>3, <1>4, <1>5, <1>6, <1>7, <1>8, <1>9,
            <1>10, <1>11, <1>12, <1>13, <1>14

\* One element more is one more at most.
LEMMA OneMore ==
  ASSUME NEW S, IsFiniteSet(S), NEW x
  PROVE  /\ IsFiniteSet(S \cup {x}) /\ Cardinality(S \cup {x}) \in Nat
         /\ Cardinality(S \cup {x}) <= Cardinality(S) + 1
  <1>1. IsFiniteSet(S \cup {x}) /\ Cardinality(S) \in Nat
    BY FS_AddElement, FS_CardinalityType
  <1>2. Cardinality(S \cup {x}) \in {Cardinality(S), Cardinality(S) + 1}
    BY FS_AddElement
  <1> QED BY <1>1, <1>2

\* The steps left are a natural number, none in a slot that is free, and never
\* more than a lookup, a contact, the longest body and a full eviction take.
LEMMA StepsLeftType ==
  ASSUME NEW r \in Task, PaceOK(r), r.pc = "stream" => r.ver \in Versions
  PROVE  /\ StepsLeft(r) \in 0 .. 3 * KeyCount + Largest + 9
         /\ StepsLeft(r) = 0 <=> r.pc = "idle"
  <1>1. r.pc \in Points /\ r.got \in Nat /\ r.todo \in SUBSET Keys
    BY DEF Task
  <1>2. KeyCount \in Nat /\ Largest \in Nat /\ Cardinality(r.todo) \in Nat
    BY <1>1, CountType, LargestIs
  <1>3. CASE r.pc = "stream"
    <2>1. BodySize[r.ver] \in Nat /\ BodySize[r.ver] <= Largest
      BY <1>3, LargestIs, SetsAssumption
    <2> QED BY <1>1, <1>2, <1>3, <2>1, StepsAt DEF PaceOK
  <1>4. CASE r.pc \in {"scan", "unlink"}
    <2>1. Cardinality(r.found) \in Nat
      BY <1>4, FS_CardinalityType DEF PaceOK
    <2> QED BY <1>2, <1>4, <2>1, StepsAt DEF EvictSteps, PaceOK
  <1>5. CASE r.pc \in {"read", "stat", "touch", "drop", "fetch"}
    BY <1>2, <1>5, StepsAt
  <1>6. CASE r.pc \in {"rename", "commit", "refresh", "open", "reply", "idle"}
    BY <1>2, <1>6, StepsAt
  <1> QED BY <1>1, <1>3, <1>4, <1>5, <1>6 DEF Points

\* What ends is nearer than what is under way.
LEMMA EndNearer ==
  ASSUME NEW r \in Task, PaceOK(r), r.pc = "stream" => r.ver \in Versions,
         r.pc # "idle", NEW q, q.pc = "idle"
  PROVE  Nearer(r, q)
  <1>1. StepsLeft(r) \in Nat /\ StepsLeft(r) > 0
    BY StepsLeftType, CountType, LargestIs
  <1>2. StepsLeft(q) = 0 /\ PaceOK(q)
    BY StepsAt DEF PaceOK
  <1> QED BY <1>1, <1>2 DEF Nearer


\* A lookup goes on to the exchange, or to its hit.
LEMMA OnwardNearer ==
  ASSUME NEW r, NEW q,
         <<r.pc, q.pc>> \in ({"read"} \X {"stat", "drop", "fetch"})
            \cup ({"stat"} \X {"touch", "drop"}) \cup ({"drop"} \X {"fetch"})
            \cup ({"touch"} \X {"fetch", "open"})
            \cup ({"fetch"} \X {"refresh"}) \cup ({"refresh"} \X {"open"})
            \cup ({"open"} \X {"reply"}) \cup ({"rename"} \X {"commit"})
  PROVE  Nearer(r, q)
  <1>1. KeyCount \in Nat /\ Largest \in Nat
    BY CountType, LargestIs
  <1>2. PaceOK(q)
    BY DEF PaceOK
  <1>3. StepsLeft(q) < StepsLeft(r)
    BY <1>1, StepsAt
  <1> QED BY <1>2, <1>3 DEF Nearer

\* Lookups and answers from the cache get nearer to the end.
LEMMA LookupNearer ==
  ASSUME IndInv, NEW s \in Slots, PaceOK(task[s]),
         Lookup(s) \/ NotModified(s) \/ Refresh(s) \/ Serve(s)
  PROVE  Nearer(task[s], task'[s])
  <1> DEFINE r == task[s]
             q == task'[s]
  <1>1. /\ r \in Task /\ task \in [Slots -> Task] /\ Idle.pc = "idle"
        /\ r.pc = "stream" => r.ver \in Versions
    BY DEF IndInv, TypeOK, TaskOK, Idle
  <1>2. ASSUME NEW e, NEW l
        PROVE  CachedResponse(r, e, l).pc \in {"idle", "open"}
    BY DEF CachedResponse, Idle
  <1>3. CASE ReadMeta(s)
    <2>1. r.pc = "read" /\ q.pc \in {"stat", "drop", "fetch"}
      BY <1>1, <1>3 DEF ReadMeta, At, Goto, Task
    <2> QED BY <2>1, OnwardNearer
  <1>4. CASE StatBody(s)
    <2>1. r.pc = "stat" /\ q.pc \in {"touch", "drop"}
      BY <1>1, <1>4 DEF StatBody, At, Goto, Task
    <2> QED BY <2>1, OnwardNearer
  <1>5. CASE DropMeta(s)
    <2>1. r.pc = "drop" /\ q.pc = "fetch"
      BY <1>1, <1>5 DEF DropMeta, At, Goto, Task
    <2> QED BY <2>1, OnwardNearer
  <1>6. CASE TouchMeta(s)
    <2>1. /\ r.pc = "touch"
          /\ q \in {CachedResponse(r, r.entry, "HIT"), [r EXCEPT !.pc = "fetch"]}
      BY <1>1, <1>6 DEF TouchMeta, At, Goto
    <2>2. q.pc \in {"idle", "open", "fetch"}
      BY <1>1, <1>2, <2>1 DEF Task
    <2> QED BY <1>1, <2>1, <2>2, OnwardNearer, EndNearer
  <1>7. CASE NotModified(s)
    <2>1. r.pc = "fetch" /\ q.pc = "refresh"
      BY <1>1, <1>7 DEF NotModified, At, Goto, Task
    <2> QED BY <2>1, OnwardNearer
  <1>8. CASE Refresh(s)
    <2>1. /\ r.pc = "refresh"
          /\ q \in {CachedResponse(r, r.entry, "REVALIDATED"), Idle}
      BY <1>1, <1>8 DEF Refresh, At, Goto
    <2>2. q.pc \in {"idle", "open"}
      BY <1>1, <1>2, <2>1
    <2> QED BY <1>1, <2>1, <2>2, OnwardNearer, EndNearer
  <1>9. CASE OpenBody(s)
    <2>1. r.pc = "open" /\ q.pc \in {"idle", "reply"}
      BY <1>1, <1>9 DEF OpenBody, At, Goto, Task
    <2> QED BY <1>1, <2>1, OnwardNearer, EndNearer
  <1>10. CASE Replied(s)
    <2>1. r.pc = "reply" /\ q.pc = "idle"
      BY <1>1, <1>10 DEF Replied, At, Goto
    <2> QED BY <1>1, <2>1, EndNearer
  <1> QED BY <1>3, <1>4, <1>5, <1>6, <1>7, <1>8, <1>9, <1>10 DEF Lookup, Serve

\* So do the body of a response and its way into the cache.
LEMMA BodyNearer ==
  ASSUME IndInv, NEW s \in Slots, PaceOK(task[s]),
         FetchFails(s) \/ FullResponse(s) \/ Stream(s) \/ Commit(s)
  PROVE  Nearer(task[s], task'[s])
  <1> DEFINE r == task[s]
             q == task'[s]
  <1>1. /\ r \in Task /\ task \in [Slots -> Task] /\ Idle.pc = "idle"
        /\ r.pc = "stream" => r.ver \in Versions
        /\ r.pc = "fetch" => r.key \in Keys
    BY DEF IndInv, TypeOK, TaskOK, Idle
  <1>2. KeyCount \in Nat /\ Largest \in Nat
    BY CountType, LargestIs
  <1>3. CASE FetchFails(s) \/ StreamBreaks(s) \/ StreamCut(s)
    <2>1. r.pc # "idle" /\ q.pc = "idle"
      BY <1>1, <1>3 DEF FetchFails, StreamBreaks, StreamCut, At, Goto
    <2> QED BY <1>1, <2>1, EndNearer
  <1>4. CASE FullResponse(s)
    <2> DEFINE v == origin[r.key]
    <2>1. r.pc = "fetch" /\ v \in Versions
      BY <1>1, <1>4 DEF FullResponse, At, IndInv, TypeOK
    <2>2. \/ q.pc = "idle"
          \/ q.pc = "stream" /\ q.ver = v /\ q.got = 0
      <3> DEFINE plain == [Idle EXCEPT !.pc = "stream", !.key = r.key,
                                       !.label = MissLabel(r), !.ver = v]
                 teed == [plain EXCEPT !.writing = TRUE, !.entry = NewEntry(v)]
      <3>1. q \in {Idle, plain, teed}
        BY <1>1, <1>4 DEF FullResponse, Goto
      <3>2. plain.pc = "stream" /\ plain.ver = v /\ plain.got = 0
        BY DEF Idle
      <3>3. teed.pc = plain.pc /\ teed.ver = plain.ver /\ teed.got = plain.got
        BY DEF Idle
      <3> HIDE DEF plain, teed
      <3> QED BY <1>1, <3>1, <3>2, <3>3
    <2>3. BodySize[v] \in Nat /\ BodySize[v] <= Largest
      BY <2>1, LargestIs, SetsAssumption
    <2>4. CASE q.pc = "stream"
      BY <1>2, <2>1, <2>2, <2>3, <2>4, StepsAt DEF Nearer, PaceOK
    <2> QED BY <1>1, <2>1, <2>2, <2>4, EndNearer
  <1>5. CASE Chunk(s)
    <2> DEFINE more == [r EXCEPT !.got = @ + 1]
               bare == [r EXCEPT !.got = @ + 1, !.writing = FALSE,
                                 !.entry = NoEntry]
    <2>1. /\ r.pc = "stream" /\ r.got < BodySize[r.ver] /\ r.got \in Nat
          /\ q \in {more, bare}
      BY <1>1, <1>5 DEF Chunk, At, Goto, Task
    <2>2. q.pc = "stream" /\ q.ver = r.ver /\ q.got = r.got + 1
      BY <1>1, <2>1 DEF Task
    <2>3. BodySize[r.ver] \in Nat
      BY <1>1, <2>1, SetsAssumption
    <2> QED BY <1>2, <2>1, <2>2, <2>3, StepsAt DEF Nearer, PaceOK
  <1>6. CASE StreamEnd(s)
    <2>1. /\ r.pc = "stream" /\ r.got = BodySize[r.ver] /\ r.got \in Nat
          /\ q.pc \in {"idle", "rename"}
      BY <1>1, <1>6 DEF StreamEnd, At, Goto, Task
    <2>2. CASE q.pc = "rename"
      BY <1>2, <2>1, <2>2, StepsAt DEF Nearer, PaceOK
    <2> QED BY <1>1, <2>1, <2>2, EndNearer
  <1>7. CASE RenameBody(s)
    <2>1. r.pc = "rename" /\ q.pc \in {"idle", "commit"}
      BY <1>1, <1>7 DEF RenameBody, At, Goto, Task
    <2> QED BY <1>1, <2>1, OnwardNearer, EndNearer
  <1>8. CASE CommitMeta(s)
    <2>1. /\ r.pc = "commit"
          /\ \/ q.pc = "idle"
             \/ q.pc = "scan" /\ q.todo = Keys /\ q.found = {}
      BY <1>1, <1>8 DEF CommitMeta, At, Goto, Idle
    <2>2. CASE q.pc = "scan"
      <3>1. EvictSteps(q) = 3 * KeyCount
        BY <1>2, <2>1, <2>2, FS_EmptySet DEF EvictSteps, KeyCount
      <3>2. IsFiniteSet(q.found) /\ Cardinality(q.found) = 0
            /\ Cardinality(q.todo) = KeyCount
        BY <2>1, <2>2, FS_EmptySet DEF KeyCount
      <3>3. PaceOK(q)
        BY <1>2, <2>2, <3>2 DEF PaceOK
      <3> QED BY <1>2, <2>1, <2>2, <3>1, <3>3, StepsAt DEF Nearer
    <2> QED BY <1>1, <2>1, <2>2, EndNearer
  <1> QED BY <1>3, <1>4, <1>5, <1>6, <1>7, <1>8 DEF Stream, Commit

\* Evict visits every key once and gets rid of every entry once.
LEMMA EvictNearer ==
  ASSUME IndInv, NEW s \in Slots, PaceOK(task[s]), Evict(s)
  PROVE  Nearer(task[s], task'[s])
  <1> DEFINE r == task[s]
             q == task'[s]
  <1>1. /\ r \in Task /\ task \in [Slots -> Task] /\ Idle.pc = "idle"
        /\ r.todo \in SUBSET Keys
    BY DEF IndInv, TypeOK, Idle, Task
  <1>2. r.pc \in {"scan", "unlink"}
    BY <1>1 DEF Evict, Scan, ScanEnds, EvictMeta, EvictBody, EvictDone, At
  <1>3. /\ IsFiniteSet(r.todo) /\ IsFiniteSet(r.found)
        /\ Cardinality(r.todo) \in Nat /\ Cardinality(r.found) \in Nat
        /\ Cardinality(r.todo) + Cardinality(r.found) <= KeyCount
        /\ KeyCount \in Nat
    BY <1>1, <1>2, CountType, FS_Subset, FS_CardinalityType, FiniteAssumption
       DEF PaceOK
  <1>4. ASSUME NEW k \in Keys, Scan(s, k) PROVE Nearer(r, q)
    <2> DEFINE p == [r EXCEPT !.todo = @ \ {k}]
               more == [p EXCEPT !.found = @ \cup {Snapshot(k)},
                                 !.total = @ + EntrySize(k)]
    <2>1. r.pc = "scan" /\ k \in r.todo /\ q \in {p, more}
      BY <1>1, <1>4 DEF Scan, At, Goto
    <2>2. /\ q.pc = "scan" /\ q.todo = r.todo \ {k}
          /\ q.found = r.found \/ q.found = r.found \cup {Snapshot(k)}
      BY <1>1, <2>1 DEF Task
    <2> HIDE DEF p, more
    <2>3. Cardinality(r.todo \ {k}) = Cardinality(r.todo) - 1
      BY <1>3, <2>1, FS_RemoveElement
    <2>4. /\ IsFiniteSet(r.found \cup {Snapshot(k)})
          /\ Cardinality(r.found \cup {Snapshot(k)}) \in Nat
          /\ Cardinality(r.found \cup {Snapshot(k)}) <= Cardinality(r.found) + 1
      BY <1>3, OneMore
    <2>5. /\ Cardinality(q.todo) = Cardinality(r.todo) - 1
          /\ IsFiniteSet(q.found) /\ Cardinality(q.found) \in Nat
          /\ Cardinality(q.found) <= Cardinality(r.found) + 1
      <3>1. q.todo = r.todo \ {k}
        BY <2>2
      <3>2. CASE q.found = r.found
        BY <1>3, <2>3, <3>1, <3>2
      <3>3. CASE q.found = r.found \cup {Snapshot(k)}
        BY <2>3, <2>4, <3>1, <3>3
      <3> QED BY <2>2, <3>2, <3>3
    <2>6. PaceOK(q)
      BY <1>3, <2>2, <2>5 DEF PaceOK
    <2>7. StepsLeft(q) = EvictSteps(q) + 1 /\ StepsLeft(r) = EvictSteps(r) + 1
      BY <2>1, <2>2, StepsAt
    <2>8. EvictSteps(q) < EvictSteps(r) /\ EvictSteps(q) \in Int
          /\ EvictSteps(r) \in Int
      BY <1>3, <2>5, CountType DEF EvictSteps
    <2> QED BY <2>6, <2>7, <2>8 DEF Nearer
  <1>5. CASE EvictMeta(s)
    <2>1. PICK x \in r.found :
            q = [r EXCEPT !.pc = "unlink", !.victim = x.key,
                          !.found = @ \ {x},
                          !.total = IF @ >= x.size THEN @ - x.size ELSE 0]
      BY <1>1, <1>5 DEF EvictMeta, Goto, Oldest
    <2>2. /\ r.pc = "scan"
          /\ q.pc = "unlink" /\ q.todo = r.todo /\ q.found = r.found \ {x}
      BY <1>1, <1>5, <2>1 DEF EvictMeta, ScanEnds, At, Task
    <2>3. /\ IsFiniteSet(q.found)
          /\ Cardinality(q.found) = Cardinality(r.found) - 1
      BY <1>3, <2>2, FS_RemoveElement
    <2>4. Cardinality(q.found) \in Nat
      BY <2>3, FS_CardinalityType
    <2>5. PaceOK(q)
      BY <1>3, <2>2, <2>3, <2>4 DEF PaceOK
    <2>6. StepsLeft(q) = EvictSteps(q) + 2 /\ StepsLeft(r) = EvictSteps(r) + 1
      BY <2>2, StepsAt
    <2>7. /\ EvictSteps(q) \in Int /\ EvictSteps(r) \in Int
          /\ EvictSteps(q) + 2 = EvictSteps(r)
      BY <1>3, <2>2, <2>3, <2>4 DEF EvictSteps
    <2> QED BY <2>5, <2>6, <2>7 DEF Nearer
  <1>6. CASE EvictBody(s)
    <2>1. /\ r.pc = "unlink"
          /\ q.pc = "scan" /\ q.todo = r.todo /\ q.found = r.found
      BY <1>1, <1>6 DEF EvictBody, At, Goto, Task
    <2> QED BY <1>3, <2>1, StepsAt DEF Nearer, EvictSteps, PaceOK
  <1>7. CASE EvictDone(s)
    <2>1. q.pc = "idle"
      BY <1>1, <1>7 DEF EvictDone, Goto
    <2> QED BY <1>1, <1>2, <2>1, EndNearer
  <1> QED BY <1>4, <1>5, <1>6, <1>7 DEF Evict

\* Every step of the handler brings its request nearer to the end.
LEMMA HandleNearer ==
  ASSUME IndInv, NEW s \in Slots, PaceOK(task[s]), Handle(s)
  PROVE  Nearer(task[s], task'[s])
  BY LookupNearer, BodyNearer, EvictNearer DEF Handle, Exchange

\* No request works for ever, whatever other requests, the origin and failing
\* calls do to it: from its arrival on, each of its steps lowers the number of
\* those left, until its slot is free (lookup, evict, the tee of proxy_handler).
THEOREM RequestsGetNearer ==
  Spec => [][\A s \in Slots :
                /\ StepsLeft(task[s]) \in 0 .. 3 * KeyCount + Largest + 9
                /\ \/ task[s].pc = "idle" \/ task'[s] \in {Idle, task[s]}
                   \/ StepsLeft(task'[s]) < StepsLeft(task[s])]_vars
  <1> DEFINE Pace == \A s \in Slots : PaceOK(task[s])
             Step == \A s \in Slots :
                /\ StepsLeft(task[s]) \in 0 .. 3 * KeyCount + Largest + 9
                /\ \/ task[s].pc = "idle" \/ task'[s] \in {Idle, task[s]}
                   \/ StepsLeft(task'[s]) < StepsLeft(task[s])
  <1>1. Init => Pace
    BY DEF Init, PaceOK, Idle
  <1>2. ASSUME IndInv, Pace, [Next]_vars, NEW s \in Slots
        PROVE  \/ task[s].pc = "idle" /\ PaceOK(task'[s])
               \/ task'[s] \in {Idle, task[s]} \/ Nearer(task[s], task'[s])
    <2>1. CASE Start(s)
      <3>1. task[s].pc = "idle" /\ task'[s].pc = "read"
        BY <1>2, <2>1 DEF Start, At, Goto, Idle, IndInv, TypeOK
      <3> QED BY <3>1 DEF PaceOK
    <2>2. CASE Handle(s)
      BY <1>2, <2>2, HandleNearer
    <2>3. CASE Cancel(s)
      BY <1>2, <2>3 DEF Cancel, Goto, IndInv, TypeOK
    <2>4. ASSUME NEW t \in Slots, t # s, Start(t) \/ Handle(t) \/ Cancel(t)
          PROVE  task'[s] = task[s]
      BY <1>2, <2>4, OtherSlot DEF IndInv, TypeOK
    <2>5. CASE Boot \/ Crash \/ Tick \/ (\E k \in Keys : Publish(k))
                 \/ UNCHANGED vars
      BY <1>2, <2>5, NoSlotSteps
    <2> QED BY <1>2, <2>1, <2>2, <2>3, <2>4, <2>5 DEF Next
  <1>3. IndInv /\ Pace /\ [Next]_vars => Pace'
    <2>1. PaceOK(Idle)
      BY DEF PaceOK, Idle
    <2> QED BY <1>2, <2>1 DEF Nearer
  <1>4. IndInv /\ Pace /\ [Next]_vars => [Step]_vars
    <2>1. ASSUME IndInv, Pace, NEW s \in Slots
          PROVE  StepsLeft(task[s]) \in 0 .. 3 * KeyCount + Largest + 9
      <3>1. task[s] \in Task /\ (task[s].pc = "stream" => task[s].ver \in Versions)
        BY <2>1 DEF IndInv, TypeOK, TaskOK
      <3> QED BY <2>1, <3>1, StepsLeftType
    <2> QED BY <1>2, <2>1 DEF Nearer
  <1> HIDE DEF Pace, Step
  <1>5. Spec => [][Step]_vars
    BY <1>1, <1>3, <1>4, Invariance, PTL DEF Spec
  <1> QED BY <1>5 DEF Step

\* How many steps a start of the process is from serving: two for each key to
\* look at, one for each entry kept.
BootStepsLeft ==
  CASE phase = "off"    -> 2 * KeyCount + 3
    [] phase = "sweep"  -> 2 * Cardinality(boot.todo) + Cardinality(boot.valid) + 2
    [] phase = "shrink" -> Cardinality(boot.valid) + 1
    [] OTHER            -> 0

\* The cleanup keeps a key once at most.
BootPace ==
  phase \in {"sweep", "shrink"} =>
    /\ IsFiniteSet(boot.valid)
    /\ Cardinality(boot.todo) + Cardinality(boot.valid) <= KeyCount

\* Every step of the cleanup brings the process nearer to serving.
LEMMA BootNearer ==
  ASSUME TypeOK, BootPace, Boot
  PROVE  /\ BootPace'
         /\ BootStepsLeft' < BootStepsLeft
  <1>1. /\ boot \in Cleanup /\ boot.todo \in SUBSET Keys
        /\ IsFiniteSet(boot.todo) /\ Cardinality(boot.todo) \in Nat
        /\ KeyCount \in Nat
    BY CountType, FS_Subset, FiniteAssumption DEF TypeOK, Cleanup
  <1>2. phase \in {"sweep", "shrink"} => Cardinality(boot.valid) \in Nat
    BY FS_CardinalityType DEF BootPace
  <1>3. CASE BootStart
    <2>1. /\ phase = "off" /\ phase' = "sweep"
          /\ boot'.todo = Keys /\ boot'.valid = {}
      BY <1>3 DEF BootStart
    <2>2. /\ IsFiniteSet(boot'.valid) /\ Cardinality(boot'.valid) = 0
          /\ Cardinality(boot'.todo) = KeyCount
      BY <2>1, FS_EmptySet DEF KeyCount
    <2>3. BootStepsLeft = 2 * KeyCount + 3 /\ BootStepsLeft' = 2 * KeyCount + 2
      BY <1>1, <2>1, <2>2 DEF BootStepsLeft, KeyCount
    <2> QED BY <1>1, <2>1, <2>2, <2>3 DEF BootPace, KeyCount
  <1>4. ASSUME NEW k \in Keys, BootSweep(k)
        PROVE  BootPace' /\ BootStepsLeft' < BootStepsLeft
    <2>1. /\ phase = "sweep" /\ phase' = "sweep" /\ k \in boot.todo
          /\ boot'.todo = boot.todo \ {k}
          /\ \/ boot'.valid = boot.valid
             \/ boot'.valid = boot.valid \cup {Snapshot(k)}
      BY <1>1, <1>4 DEF BootSweep, Cleanup
    <2>2. IsFiniteSet(boot.valid) /\ Cardinality(boot.valid) \in Nat
          /\ Cardinality(boot.todo) + Cardinality(boot.valid) <= KeyCount
      BY <1>2, <2>1 DEF BootPace
    <2>3. Cardinality(boot.todo \ {k}) = Cardinality(boot.todo) - 1
      BY <1>1, <2>1, FS_RemoveElement
    <2>4. /\ IsFiniteSet(boot.valid \cup {Snapshot(k)})
          /\ Cardinality(boot.valid \cup {Snapshot(k)}) \in Nat
          /\ Cardinality(boot.valid \cup {Snapshot(k)})
               <= Cardinality(boot.valid) + 1
      BY <2>2, OneMore
    <2>5. /\ Cardinality(boot'.todo) = Cardinality(boot.todo) - 1
          /\ IsFiniteSet(boot'.valid) /\ Cardinality(boot'.valid) \in Nat
          /\ Cardinality(boot'.valid) <= Cardinality(boot.valid) + 1
      <3>1. CASE boot'.valid = boot.valid
        BY <2>1, <2>2, <2>3, <3>1
      <3>2. CASE boot'.valid = boot.valid \cup {Snapshot(k)}
        BY <2>1, <2>3, <2>4, <3>2
      <3> QED BY <2>1, <3>1, <3>2
    <2>6. BootPace'
      BY <1>1, <2>1, <2>2, <2>5 DEF BootPace, KeyCount
    <2>7. /\ BootStepsLeft
               = 2 * Cardinality(boot.todo) + Cardinality(boot.valid) + 2
          /\ BootStepsLeft'
               = 2 * Cardinality(boot'.todo) + Cardinality(boot'.valid) + 2
      BY <2>1 DEF BootStepsLeft
    <2> QED BY <1>1, <2>2, <2>5, <2>6, <2>7
  <1>5. CASE BootOrphans
    <2>1. /\ phase = "sweep" /\ phase' = "shrink" /\ boot.todo = {}
          /\ boot'.todo = boot.todo /\ boot'.valid = boot.valid
      BY <1>1, <1>5 DEF BootOrphans, Cleanup
    <2>2. BootPace'
      BY <2>1 DEF BootPace, KeyCount
    <2>3. /\ BootStepsLeft
               = 2 * Cardinality(boot.todo) + Cardinality(boot.valid) + 2
          /\ BootStepsLeft' = Cardinality(boot.valid) + 1
      BY <2>1 DEF BootStepsLeft
    <2> QED BY <1>1, <1>2, <2>1, <2>2, <2>3
  <1>6. CASE BootEvict
    <2>1. PICK x \in boot.valid : boot'.valid = boot.valid \ {x}
      BY <1>1, <1>6 DEF BootEvict, Oldest, Cleanup
    <2>2. phase = "shrink" /\ phase' = "shrink" /\ boot'.todo = boot.todo
      BY <1>1, <1>6 DEF BootEvict, Cleanup
    <2>3. IsFiniteSet(boot.valid) /\ Cardinality(boot.valid) \in Nat
          /\ Cardinality(boot.todo) + Cardinality(boot.valid) <= KeyCount
      BY <1>2, <2>2 DEF BootPace
    <2>4. /\ IsFiniteSet(boot'.valid)
          /\ Cardinality(boot'.valid) = Cardinality(boot.valid) - 1
      BY <2>1, <2>3, FS_RemoveElement
    <2>5. BootPace'
      BY <1>1, <2>2, <2>3, <2>4 DEF BootPace, KeyCount
    <2>6. /\ BootStepsLeft = Cardinality(boot.valid) + 1
          /\ BootStepsLeft' = Cardinality(boot'.valid) + 1
      BY <2>2 DEF BootStepsLeft
    <2> QED BY <2>3, <2>4, <2>5, <2>6
  <1>7. CASE BootDone
    <2>1. phase = "shrink" /\ phase' = "up"
      BY <1>7 DEF BootDone
    <2>2. BootPace' /\ BootStepsLeft = Cardinality(boot.valid) + 1
          /\ BootStepsLeft' = 0
      BY <2>1 DEF BootPace, BootStepsLeft
    <2> QED BY <1>2, <2>1, <2>2
  <1> QED BY <1>3, <1>4, <1>5, <1>6, <1>7 DEF Boot

\* A start that does not crash gets to serving: each of its steps lowers the
\* number of those left, however many entries are kept, removed or cannot be
\* removed (cleanup_startup).
THEOREM StartsGetNearer ==
  Spec => [][phase # "up" =>
                /\ BootStepsLeft \in 1 .. 2 * KeyCount + 3
                /\ \/ UNCHANGED <<phase, boot>> \/ crashes' # crashes
                   \/ BootStepsLeft' < BootStepsLeft]_vars
  <1> DEFINE Step == phase # "up" =>
                /\ BootStepsLeft \in 1 .. 2 * KeyCount + 3
                /\ \/ UNCHANGED <<phase, boot>> \/ crashes' # crashes
                   \/ BootStepsLeft' < BootStepsLeft
  <1>1. Init => BootPace
    BY DEF Init, BootPace
  <1>2. ASSUME IndInv, [Next]_vars, ~ Boot
        PROVE  \/ UNCHANGED <<phase, boot>>
               \/ Crash /\ phase' = "off"
               \/ phase = "up" /\ phase' = "up"
    <2>1. CASE \E s \in Slots : Start(s) \/ Handle(s) \/ Cancel(s)
      BY <2>1, SlotStepUp
    <2>2. CASE Crash
      BY <2>2 DEF Crash
    <2>3. CASE Tick \/ (\E k \in Keys : Publish(k)) \/ UNCHANGED vars
      BY <2>3 DEF Tick, Publish, vars
    <2> QED BY <1>2, <2>1, <2>2, <2>3 DEF Next
  <1>3. IndInv /\ BootPace /\ [Next]_vars => BootPace'
    <2> SUFFICES ASSUME IndInv, BootPace, [Next]_vars PROVE BootPace'
      OBVIOUS
    <2>1. CASE Boot
      BY <2>1, BootNearer DEF IndInv
    <2>2. CASE UNCHANGED <<phase, boot>>
      BY <2>2 DEF BootPace, KeyCount
    <2>3. CASE phase' \in {"off", "up"}
      BY <2>3 DEF BootPace
    <2> QED BY <1>2, <2>1, <2>2, <2>3
  <1>4. IndInv /\ BootPace /\ [Next]_vars => [Step]_vars
    <2> SUFFICES ASSUME IndInv, BootPace, [Next]_vars, phase # "up"
                 PROVE  /\ BootStepsLeft \in 1 .. 2 * KeyCount + 3
                        /\ \/ UNCHANGED <<phase, boot>> \/ crashes' # crashes
                           \/ BootStepsLeft' < BootStepsLeft
      OBVIOUS
    <2>1. /\ boot.todo \in SUBSET Keys /\ crashes \in Nat /\ KeyCount \in Nat
          /\ Cardinality(boot.todo) \in Nat
          /\ phase \in {"off", "sweep", "shrink"}
      BY CountType DEF IndInv, TypeOK, Cleanup
    <2>2. phase \in {"sweep", "shrink"} => Cardinality(boot.valid) \in Nat
      BY FS_CardinalityType DEF BootPace
    <2>3. BootStepsLeft \in 1 .. 2 * KeyCount + 3
      BY <2>1, <2>2 DEF BootPace, BootStepsLeft
    <2>4. CASE Boot
      BY <2>3, <2>4, BootNearer DEF IndInv
    <2>5. Crash => crashes' # crashes
      BY <2>1 DEF Crash
    <2> QED BY <1>2, <2>3, <2>4, <2>5
  <1> HIDE DEF Step
  <1>5. Spec => [][Step]_vars
    BY <1>1, <1>3, <1>4, Invariance, PTL DEF Spec
  <1> QED BY <1>5 DEF Step
=============================================================================
