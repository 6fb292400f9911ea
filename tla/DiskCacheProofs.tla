-------------------------- MODULE DiskCacheProofs --------------------------
(***************************************************************************)
(* Proofs about DiskCache for every set of keys, slots and responses.      *)
(***************************************************************************)
EXTENDS DiskCache, TLAPS

-----------------------------------------------------------------------------
(* Lemmas about the records of the handler                                 *)

\* The record of a slot that serves nothing is well typed and sound.
LEMMA IdleOK == ASSUME NEW h PROVE Idle \in Task /\ TaskOK(h, Idle)
  BY SetsAssumption DEF Idle, Task, TaskOK, Points, Labels

\* A snapshot taken of a well-typed directory is well typed.
LEMMA SnapshotType ==
  ASSUME TypeOK, NEW k \in Keys
  PROVE  EntrySize(k) \in Nat /\ Snapshot(k) \in Snapshots
  BY NumbersAssumption
  DEF TypeOK, EntrySize, BodyLen, Snapshot, Snapshots, Entry, Content

\* Putting a sound record into slot s, the history unchanged, keeps the
\* invariant of the slots.
LEMMA GotoOK ==
  ASSUME task \in [Slots -> Task], NEW s \in Slots, NEW r \in Task,
         Goto(s, r), TaskOK(contact, r), UNCHANGED contact,
         \A t \in Slots : TaskOK(contact, task[t])
  PROVE  /\ task' \in [Slots -> Task]
         /\ \A t \in Slots : TaskOK(contact', task'[t])
  BY DEF Goto

\* The answer from the cache is sound whenever the looked-up record was.
LEMMA CachedResponseOK ==
  ASSUME NEW h, NEW r \in Task, NEW e \in Entry, NEW l \in Labels,
         r.key \in Keys, EntryOK(h, r.key, e), Whole(e)
  PROVE  /\ CachedResponse(r, e, l) \in Task
         /\ TaskOK(h, CachedResponse(r, e, l))
  <1>1. CASE WouldExceed(e.len)
    BY <1>1, IdleOK DEF CachedResponse
  <1>2. CASE ~ WouldExceed(e.len)
    <2> DEFINE q == [Idle EXCEPT !.pc = "open", !.key = r.key, !.entry = e,
                                 !.label = l]
    <2>1. CachedResponse(r, e, l) = q
      BY <1>2 DEF CachedResponse
    <2>2. q \in Task
      BY IdleOK DEF Task, Points
    <2>3. TaskOK(h, q)
      BY IdleOK DEF Task, Idle, TaskOK
    <2> QED BY <2>1, <2>2, <2>3
  <1> QED BY <1>1, <1>2

\* Type correctness and soundness of the directory survive a metadata write.
LEMMA WriteMetaOK ==
  ASSUME TypeOK, DiskOK, NEW k \in Keys, NEW m \in Entry,
         EntryOK(contact, k, m), Whole(m), UNCHANGED <<body, contact>>,
         WriteMeta(k, m) \/ WriteMetaFails
  PROVE  /\ meta' \in [Keys -> Entry \cup {NoMeta, Garbled, Foreign}]
         /\ litter' \in BOOLEAN
         /\ DiskOK'
  BY DEF TypeOK, DiskOK, WriteMeta, WriteMetaFails, Genuine

\* So does removing any set of metadata and body files.
LEMMA RemoveOK ==
  ASSUME TypeOK, DiskOK, UNCHANGED contact,
         \A k \in Keys : meta'[k] \in {meta[k], NoMeta},
         \A k \in Keys : body'[k] \in {body[k], NoBody},
         meta' \in [Keys -> Entry \cup {NoMeta, Garbled, Foreign}],
         body' \in [Keys -> Content \cup {NoBody}]
  PROVE  DiskOK'
  BY SetsAssumption DEF TypeOK, DiskOK, Genuine

\* A step of slot s that leaves the process, the clock, the origin and the
\* history alone: what is left to show is its record and the directory.
LEMMA SlotStepOK ==
  ASSUME IndInv, NEW s \in Slots, NEW r \in Task, Goto(s, r),
         TaskOK(contact, r), UNCHANGED <<phase, boot, contact, world>>,
         meta' \in [Keys -> Entry \cup {NoMeta, Garbled, Foreign}],
         body' \in [Keys -> Content \cup {NoBody}],
         litter' \in BOOLEAN, DiskOK'
  PROVE  IndInv'
  <1>1. task' \in [Slots -> Task] /\ \A t \in Slots : TaskOK(contact', task'[t])
    BY GotoOK DEF IndInv, TypeOK
  <1>2. TypeOK'
    BY <1>1 DEF IndInv, TypeOK, world
  <1>3. ContactOK'
    BY DEF IndInv, ContactOK, world
  <1> QED BY <1>1, <1>2, <1>3 DEF IndInv

\* The same when the step does not touch the directory.
LEMMA LocalStepOK ==
  ASSUME IndInv, NEW s \in Slots, NEW r \in Task, Goto(s, r),
         TaskOK(contact, r), UNCHANGED <<dir, phase, boot, contact, world>>
  PROVE  IndInv'
  <1>1. DiskOK'
    BY DEF IndInv, DiskOK, dir, Genuine, EntryOK
  <1> QED BY <1>1, SlotStepOK DEF IndInv, TypeOK, dir

-----------------------------------------------------------------------------
(* Cache::lookup preserves the invariant *)

\* A request begins with nothing but its key.
LEMMA StartStep ==
  ASSUME IndInv, NEW s \in Slots, Start(s) PROVE IndInv'
  <1>1. PICK k \in Keys, f \in BOOLEAN :
          Goto(s, [Idle EXCEPT !.pc = "read", !.key = k, !.force = f,
                               !.now = clock])
    BY DEF Start
  <1> DEFINE q == [Idle EXCEPT !.pc = "read", !.key = k, !.force = f,
                               !.now = clock]
  <1>2. q \in Task
    BY IdleOK DEF Task, Points, IndInv, TypeOK
  <1>3. TaskOK(contact, q)
    BY DEF TaskOK, Idle
  <1> QED BY <1>1, <1>2, <1>3, LocalStepOK DEF Start

\* What is read from a metadata file is in order because the disk is.
LEMMA ReadMetaStep ==
  ASSUME IndInv, NEW s \in Slots, ReadMeta(s) PROVE IndInv'
  <1> DEFINE r == task[s]
             fetch == [r EXCEPT !.pc = "fetch"]
             drop == [r EXCEPT !.pc = "drop"]
             stat == [r EXCEPT !.pc = "stat", !.entry = meta[r.key]]
  <1>1. r \in Task /\ TaskOK(contact, r) /\ r.pc = "read" /\ r.key \in Keys
    BY DEF IndInv, TypeOK, ReadMeta, At, TaskOK
  <1>2. CASE Goto(s, fetch)
    <2>1. fetch \in Task /\ TaskOK(contact, fetch)
      BY <1>1 DEF Task, TaskOK, Points
    <2> QED BY <1>2, <2>1, LocalStepOK DEF ReadMeta
  <1>3. CASE Goto(s, drop)
    <2>1. drop \in Task /\ TaskOK(contact, drop)
      BY <1>1 DEF Task, TaskOK, Points
    <2> QED BY <1>3, <2>1, LocalStepOK DEF ReadMeta
  <1>4. CASE meta[r.key] \in Entry /\ Goto(s, stat)
    <2>1. stat \in Task
      BY <1>1, <1>4 DEF Task, Points
    <2>2. TaskOK(contact, stat)
      BY <1>1, <1>4 DEF Task, TaskOK, IndInv, DiskOK
    <2> QED BY <1>4, <2>1, <2>2, LocalStepOK DEF ReadMeta
  <1> QED BY <1>2, <1>3, <1>4 DEF ReadMeta

\* An entry that passes the length check stays in order.
LEMMA StatBodyStep ==
  ASSUME IndInv, NEW s \in Slots, StatBody(s) PROVE IndInv'
  <1> DEFINE r == task[s]
             touch == [r EXCEPT !.pc = "touch", !.entry.access = r.now]
             drop == [r EXCEPT !.pc = "drop", !.entry = NoEntry]
  <1>1. /\ r \in Task /\ TaskOK(contact, r) /\ r.pc = "stat"
        /\ r.key \in Keys /\ r.entry \in Entry
    BY DEF IndInv, TypeOK, StatBody, At, TaskOK
  <1>2. CASE Goto(s, touch)
    <2>1. touch \in Task
      BY <1>1 DEF Task, Points, Entry
    <2>2. TaskOK(contact, touch)
      BY <1>1, SetsAssumption DEF Task, TaskOK, Entry, EntryOK, Whole
    <2> QED BY <1>2, <2>1, <2>2, LocalStepOK DEF StatBody
  <1>3. CASE Goto(s, drop)
    <2>1. drop \in Task /\ TaskOK(contact, drop)
      BY <1>1 DEF Task, TaskOK, Points
    <2> QED BY <1>3, <2>1, LocalStepOK DEF StatBody
  <1> QED BY <1>2, <1>3 DEF StatBody

\* Removing metadata disturbs nothing.
LEMMA DropMetaStep ==
  ASSUME IndInv, NEW s \in Slots, DropMeta(s) PROVE IndInv'
  <1> DEFINE r == task[s]
             fetch == [r EXCEPT !.pc = "fetch"]
  <1>0. r \in Task /\ TaskOK(contact, r) /\ r.pc = "drop"
    BY DEF IndInv, TypeOK, DropMeta, At
  <1>1. fetch \in Task /\ TaskOK(contact, fetch)
    BY <1>0 DEF Task, TaskOK, Points
  <1>2. /\ meta' \in [Keys -> Entry \cup {NoMeta, Garbled, Foreign}]
        /\ body' \in [Keys -> Content \cup {NoBody}]
        /\ \A k \in Keys : meta'[k] \in {meta[k], NoMeta}
        /\ \A k \in Keys : body'[k] \in {body[k], NoBody}
    BY DEF IndInv, TypeOK, DropMeta
  <1>3. DiskOK'
    BY <1>2, RemoveOK DEF IndInv, DropMeta
  <1> QED BY <1>1, <1>2, <1>3, SlotStepOK DEF IndInv, TypeOK, DropMeta

\* Writing back a looked-up entry puts an entry in order on disk.
LEMMA TouchMetaStep ==
  ASSUME IndInv, NEW s \in Slots, TouchMeta(s) PROVE IndInv'
  <1> DEFINE r == task[s]
             hit == CachedResponse(r, r.entry, "HIT")
             fetch == [r EXCEPT !.pc = "fetch"]
             next == IF ~ r.force /\ Fresh(r.entry, clock) THEN hit ELSE fetch
  <1>1. /\ r \in Task /\ TaskOK(contact, r) /\ r.key \in Keys
        /\ r.entry \in Entry /\ EntryOK(contact, r.key, r.entry)
        /\ Whole(r.entry) /\ r.pc = "touch"
    BY SetsAssumption DEF IndInv, TypeOK, TouchMeta, At, TaskOK
  <1>2. hit \in Task /\ TaskOK(contact, hit)
    BY <1>1, CachedResponseOK DEF Labels
  <1>3. fetch \in Task /\ TaskOK(contact, fetch)
    BY <1>1 DEF Task, TaskOK, Points
  <1>4. /\ meta' \in [Keys -> Entry \cup {NoMeta, Garbled, Foreign}]
        /\ litter' \in BOOLEAN
        /\ DiskOK'
    BY <1>1, WriteMetaOK DEF IndInv, TouchMeta
  <1>5. next \in Task /\ TaskOK(contact, next)
    BY <1>2, <1>3
  <1>6. Goto(s, next)
    BY DEF TouchMeta
  <1> QED BY <1>4, <1>5, <1>6, SlotStepOK DEF IndInv, TypeOK, TouchMeta


-----------------------------------------------------------------------------
(* The upstream exchange *)

\* An entry and a request stay sound when the last exchange about a version gets newer.
LEMMA HistoryGrows ==
  ASSUME IndInv, NEW k \in Keys, NEW v \in Versions, HeardOf(k, v)
  PROVE  /\ contact' \in [Keys -> [Versions -> Int]]
         /\ contact'[k][v] = clock
         /\ \A j \in Keys, w \in Versions :
               /\ contact[j][w] <= contact'[j][w]
               /\ contact[j][w] # Never => contact'[j][w] # Never
               /\ contact'[j][w] <= clock
  BY DEF IndInv, TypeOK, ContactOK, HeardOf, Never

\* A later exchange does not spoil an entry.
LEMMA EntryKept ==
  ASSUME IndInv, NEW k \in Keys, NEW v \in Versions, HeardOf(k, v),
         NEW j \in Keys, NEW e \in Entry, EntryOK(contact, j, e)
  PROVE  EntryOK(contact', j, e)
  <1>1. /\ contact[j][e.ver] <= contact'[j][e.ver]
        /\ contact'[j][e.ver] # Never
    BY HistoryGrows DEF EntryOK, Entry
  <1>2. e.created \in Nat /\ e.ver \in Versions
    BY DEF Entry
  <1>3. contact[j][e.ver] \in Int /\ contact'[j][e.ver] \in Int
    BY <1>2, HistoryGrows DEF IndInv, TypeOK
  <1> QED BY <1>1, <1>2, <1>3 DEF EntryOK

\* Nor a request.
LEMMA TaskKept ==
  ASSUME IndInv, NEW k \in Keys, NEW v \in Versions, HeardOf(k, v),
         NEW r \in Task, TaskOK(contact, r)
  PROVE  TaskOK(contact', r)
  <1>1. r.entry # NoEntry => EntryOK(contact', r.key, r.entry)
    BY EntryKept DEF TaskOK, Task
  <1>2. r.pc \in {"stream", "rename", "commit", "reply"} =>
          contact'[r.key][r.ver] # Never
    BY HistoryGrows DEF TaskOK, Task
  <1> QED BY <1>1, <1>2 DEF TaskOK

\* A step of slot s in which an exchange is about one of the versions.
LEMMA ContactStepOK ==
  ASSUME IndInv, NEW s \in Slots, NEW r \in Task, Goto(s, r),
         NEW k \in Keys, NEW v \in Versions, HeardOf(k, v),
         TaskOK(contact', r), UNCHANGED <<dir, phase, boot, world>>
  PROVE  IndInv'
  <1>1. /\ task' \in [Slots -> Task]
        /\ \A t \in Slots : task'[t] = IF t = s THEN r ELSE task[t]
    BY DEF IndInv, TypeOK, Goto
  <1>2. \A t \in Slots : TaskOK(contact', task'[t])
    <2> SUFFICES ASSUME NEW t \in Slots PROVE TaskOK(contact', task'[t])
      OBVIOUS
    <2>1. CASE t = s
      BY <1>1, <2>1
    <2>2. CASE t # s
      <3>1. task[t] \in Task /\ TaskOK(contact, task[t])
        BY DEF IndInv, TypeOK
      <3> QED BY <1>1, <2>2, <3>1, TaskKept
    <2> QED BY <2>1, <2>2
  <1>3. TypeOK'
    BY <1>1, HistoryGrows DEF IndInv, TypeOK, world, dir
  <1>4. ContactOK'
    BY HistoryGrows DEF IndInv, ContactOK, world
  <1>5. DiskOK'
    <2>1. \A j \in Keys : meta'[j] \in Entry =>
            EntryOK(contact', j, meta'[j]) /\ Whole(meta'[j])
      BY EntryKept DEF IndInv, DiskOK, dir
    <2>2. \A j \in Keys : body'[j] # NoBody => Genuine(j, body[j])'
      <3> SUFFICES ASSUME NEW j \in Keys, body'[j] # NoBody
                   PROVE  Genuine(j, body[j])'
        OBVIOUS
      <3>1. body[j] \in Content /\ Genuine(j, body[j]) /\ body' = body
        BY DEF IndInv, TypeOK, DiskOK, dir
      <3>2. contact'[j][body[j].ver] # Never
        BY <3>1, HistoryGrows DEF Genuine, Content
      <3> QED BY <3>1, <3>2 DEF Genuine
    <2> QED BY <2>1, <2>2 DEF DiskOK
  <1> QED BY <1>2, <1>3, <1>4, <1>5 DEF IndInv

\* A failed exchange leaves the disk alone.
LEMMA FetchFailsStep ==
  ASSUME IndInv, NEW s \in Slots, FetchFails(s) PROVE IndInv'
  BY IdleOK, LocalStepOK DEF FetchFails

\* A renewed entry is as young as the 304.
LEMMA NotModifiedStep ==
  ASSUME IndInv, NEW s \in Slots, NotModified(s) PROVE IndInv'
  <1> DEFINE r == task[s]
  <1>1. PICK l \in ConfirmTtls :
          Goto(s, [r EXCEPT !.pc = "refresh",
                            !.entry = [@ EXCEPT !.created = clock,
                                                !.access = clock,
                                                !.ttl = l]])
    BY DEF NotModified
  <1> DEFINE e == [r.entry EXCEPT !.created = clock, !.access = clock,
                                  !.ttl = l]
             q == [r EXCEPT !.pc = "refresh", !.entry = e]
  <1>2. /\ r \in Task /\ r.pc = "fetch" /\ r.key \in Keys
        /\ r.entry \in Entry /\ Whole(r.entry) /\ HeardOf(r.key, r.entry.ver)
        /\ r.entry.ver \in Versions
    BY DEF IndInv, TypeOK, NotModified, At, TaskOK, Task, Entry
  <1>3. clock \in Nat /\ l \in Nat /\ l <= ConfigTtl
    BY NumbersAssumption DEF IndInv, TypeOK
  <1>4. e \in Entry /\ e.ver = r.entry.ver /\ Whole(e) /\ e.created = clock
        /\ e.ttl = l
    BY <1>2, <1>3 DEF Entry, Whole
  <1>5. EntryOK(contact', r.key, e)
    <2>1. contact'[r.key][e.ver] = clock
      BY <1>2, <1>4, HistoryGrows
    <2>2. clock # Never
      BY <1>3 DEF Never
    <2> QED BY <1>3, <1>4, <2>1, <2>2 DEF EntryOK
  <1>6. q \in Task
    BY <1>2, <1>4 DEF Task, Points
  <1>7. TaskOK(contact', q)
    BY <1>2, <1>4, <1>5 DEF Task, TaskOK
  <1>8. Goto(s, q)
    BY <1>1, <1>2 DEF Task
  <1>9. UNCHANGED <<dir, phase, boot, world>>
    BY DEF NotModified
  <1> HIDE DEF q
  <1> QED BY <1>2, <1>6, <1>7, <1>8, <1>9, ContactStepOK

\* Its metadata may be written.
LEMMA RefreshStep ==
  ASSUME IndInv, NEW s \in Slots, Refresh(s) PROVE IndInv'
  <1> DEFINE r == task[s]
             answer == CachedResponse(r, r.entry, "REVALIDATED")
  <1>1. /\ r \in Task /\ TaskOK(contact, r) /\ r.key \in Keys
        /\ r.entry \in Entry /\ EntryOK(contact, r.key, r.entry)
        /\ Whole(r.entry)
    BY SetsAssumption DEF IndInv, TypeOK, Refresh, At, TaskOK
  <1>2. answer \in Task /\ TaskOK(contact, answer)
    BY <1>1, CachedResponseOK DEF Labels
  <1>3. /\ meta' \in [Keys -> Entry \cup {NoMeta, Garbled, Foreign}]
        /\ litter' \in BOOLEAN
        /\ DiskOK'
    BY <1>1, WriteMetaOK DEF IndInv, Refresh
  <1>4. \E q \in {answer, Idle} : Goto(s, q)
    BY DEF Refresh
  <1> QED BY <1>2, <1>3, <1>4, IdleOK, SlotStepOK
          DEF IndInv, TypeOK, Refresh

\* A new entry describes the response being streamed.
LEMMA FullResponseStep ==
  ASSUME IndInv, NEW s \in Slots, FullResponse(s) PROVE IndInv'
  <1> DEFINE r == task[s]
             v == origin[r.key]
             plain == [Idle EXCEPT !.pc = "stream", !.key = r.key,
                                   !.label = MissLabel(r), !.ver = v]
             teed == [plain EXCEPT !.writing = TRUE, !.entry = NewEntry(v)]
  <1>1. r \in Task /\ r.pc = "fetch" /\ r.key \in Keys /\ clock \in Nat
    BY DEF IndInv, TypeOK, FullResponse, At, TaskOK
  <1>2. v \in Versions /\ HeardOf(r.key, v)
    BY <1>1 DEF IndInv, TypeOK, FullResponse
  <1>3. contact'[r.key][v] = clock /\ clock # Never
    BY <1>1, <1>2, HistoryGrows DEF Never
  <1>4. MissLabel(r) \in Labels
    BY DEF MissLabel, Labels
  <1>5. plain \in Task /\ TaskOK(contact', plain)
    <2>1. plain \in Task
      BY <1>1, <1>2, <1>4, IdleOK DEF Task, Points
    <2>2. TaskOK(contact', plain)
      BY <1>1, <1>2, <1>3 DEF TaskOK, Idle
    <2> QED BY <2>1, <2>2
  <1>6. /\ NewEntry(v) \in Entry
        /\ EntryOK(contact', r.key, NewEntry(v))
        /\ NewEntry(v).ver = v
    BY <1>1, <1>2, <1>3, SetsAssumption, NumbersAssumption
    DEF NewEntry, Entry, EntryOK
  <1>7. teed \in Task /\ TaskOK(contact', teed)
    <2>1. teed \in Task
      BY <1>5, <1>6 DEF Task
    <2>2. TaskOK(contact', teed)
      BY <1>1, <1>2, <1>3, <1>6 DEF TaskOK, Idle
    <2> QED BY <2>1, <2>2
  <1>8. Goto(s, Idle) \/ Goto(s, plain) \/ Goto(s, teed)
    BY DEF FullResponse
  <1>9. UNCHANGED <<dir, phase, boot, world>>
    BY DEF FullResponse
  <1>10. Idle \in Task /\ TaskOK(contact', Idle)
    BY IdleOK
  <1> HIDE DEF plain, teed, v
  <1> QED BY <1>1, <1>2, <1>5, <1>7, <1>8, <1>9, <1>10, ContactStepOK

-----------------------------------------------------------------------------
(* Streaming and committing *)

\* A chunk never exceeds the body.
LEMMA ChunkStep ==
  ASSUME IndInv, NEW s \in Slots, Chunk(s) PROVE IndInv'
  <1> DEFINE r == task[s]
             more == [r EXCEPT !.got = @ + 1]
             bare == [r EXCEPT !.got = @ + 1, !.writing = FALSE,
                               !.entry = NoEntry]
  <1>1. r \in Task /\ TaskOK(contact, r) /\ r.pc = "stream"
    BY DEF IndInv, TypeOK, Chunk, At
  <1>2. more \in Task /\ TaskOK(contact, more)
    BY <1>1 DEF Task, TaskOK
  <1>3. bare \in Task /\ TaskOK(contact, bare)
    <2>1. bare \in Task
      <3>1. [r EXCEPT !.got = @ + 1] \in Task
        BY <1>1 DEF Task
      <3>2. bare = [[r EXCEPT !.got = @ + 1] EXCEPT !.writing = FALSE,
                                                    !.entry = NoEntry]
        BY <1>1 DEF Task
      <3> QED BY <3>1, <3>2 DEF Task
    <2>2. /\ bare.pc = "stream" /\ ~ bare.writing /\ bare.entry = NoEntry
          /\ bare.key = r.key /\ bare.ver = r.ver
      BY <1>1 DEF Task
    <2> HIDE DEF bare
    <2> QED BY <1>1, <2>1, <2>2 DEF TaskOK
  <1>4. Goto(s, more) \/ Goto(s, bare)
    BY DEF Chunk
  <1>5. /\ litter' \in BOOLEAN
        /\ UNCHANGED <<meta, body, phase, boot, contact, world>>
    BY DEF Chunk, Discard, IndInv, TypeOK
  <1>6. DiskOK'
    BY <1>5, RemoveOK DEF IndInv, TypeOK
  <1> HIDE DEF more, bare
  <1> QED BY <1>2, <1>3, <1>4, <1>5, <1>6, SlotStepOK DEF IndInv, TypeOK

\* A broken stream leaves no body.
LEMMA StreamBreaksStep ==
  ASSUME IndInv, NEW s \in Slots, StreamBreaks(s) \/ StreamCut(s)
  PROVE  IndInv'
  <1>1. /\ litter' \in BOOLEAN
        /\ UNCHANGED <<meta, body, phase, boot, contact, world>>
        /\ Goto(s, Idle)
    BY DEF StreamBreaks, StreamCut, Discard, IndInv, TypeOK
  <1>2. DiskOK'
    BY <1>1, RemoveOK DEF IndInv, TypeOK
  <1> QED BY <1>1, <1>2, IdleOK, SlotStepOK DEF IndInv, TypeOK

\* Only a complete body is finished.
LEMMA StreamEndStep ==
  ASSUME IndInv, NEW s \in Slots, StreamEnd(s) PROVE IndInv'
  <1> DEFINE r == task[s]
             q == [r EXCEPT !.pc = "rename", !.entry.len = r.got]
  <1>1. /\ r \in Task /\ TaskOK(contact, r) /\ r.pc = "stream"
        /\ r.got = BodySize[r.ver]
    BY DEF IndInv, TypeOK, StreamEnd, At
  <1>2. CASE r.writing /\ Goto(s, q)
    <2>1. r.entry \in Entry /\ r.key \in Keys /\ r.entry.ver = r.ver
      BY <1>1, <1>2 DEF TaskOK
    <2>2. q \in Task
      BY <1>1, <2>1 DEF Task, Points, Entry
    <2>3. TaskOK(contact, q)
      BY <1>1, <2>1, SetsAssumption DEF Task, TaskOK, Entry, EntryOK, Whole
    <2> QED BY <1>2, <2>2, <2>3, LocalStepOK DEF StreamEnd
  <1>3. CASE Goto(s, Idle)
    BY <1>3, IdleOK, LocalStepOK DEF StreamEnd
  <1> QED BY <1>2, <1>3 DEF StreamEnd

\* The renamed body is complete and the origin's.
LEMMA RenameBodyStep ==
  ASSUME IndInv, NEW s \in Slots, RenameBody(s) PROVE IndInv'
  <1> DEFINE r == task[s]
             q == [r EXCEPT !.pc = "commit"]
             c == [ver |-> r.ver, len |-> r.got]
  <1>1. /\ r \in Task /\ TaskOK(contact, r) /\ r.pc = "rename"
        /\ r.key \in Keys /\ r.got = BodySize[r.ver] /\ r.ver \in Versions
        /\ contact[r.key][r.ver] # Never
    BY DEF IndInv, TypeOK, RenameBody, At, TaskOK
  <1>2. q \in Task /\ TaskOK(contact, q)
    BY <1>1 DEF Task, TaskOK, Points
  <1>3. CASE body' = [body EXCEPT ![r.key] = c] /\ Goto(s, q)
             /\ UNCHANGED litter
    <2>1. c \in Content /\ Genuine(r.key, c)
      BY <1>1, SetsAssumption DEF Content, Genuine, Task
    <2>2. body' \in [Keys -> Content \cup {NoBody}]
      BY <1>3, <2>1 DEF IndInv, TypeOK
    <2>3. DiskOK'
      BY <1>3, <2>1 DEF RenameBody, IndInv, TypeOK, DiskOK, Genuine, EntryOK
    <2> HIDE DEF q
    <2> QED BY <1>2, <1>3, <2>2, <2>3, SlotStepOK
            DEF RenameBody, IndInv, TypeOK
  <1>4. CASE litter' = TRUE /\ Goto(s, Idle) /\ UNCHANGED body
    <2>1. DiskOK'
      BY <1>4, RemoveOK DEF RenameBody, IndInv, TypeOK
    <2> QED BY <1>4, <2>1, IdleOK, SlotStepOK DEF RenameBody, IndInv, TypeOK
  <1> QED BY <1>3, <1>4 DEF RenameBody

\* So is the entry that describes it.
LEMMA CommitMetaStep ==
  ASSUME IndInv, NEW s \in Slots, CommitMeta(s) PROVE IndInv'
  <1> DEFINE r == task[s]
             scan == [Idle EXCEPT !.pc = "scan", !.todo = Keys]
  <1>1. /\ r \in Task /\ TaskOK(contact, r) /\ r.key \in Keys
        /\ r.entry \in Entry /\ EntryOK(contact, r.key, r.entry)
        /\ Whole(r.entry)
    BY SetsAssumption DEF IndInv, TypeOK, CommitMeta, At, TaskOK
  <1>2. scan \in Task
    BY IdleOK DEF Task, Points
  <1>3. TaskOK(contact, scan)
    BY DEF TaskOK, Idle
  <1>4. /\ meta' \in [Keys -> Entry \cup {NoMeta, Garbled, Foreign}]
        /\ litter' \in BOOLEAN
        /\ DiskOK'
    BY <1>1, WriteMetaOK DEF IndInv, CommitMeta
  <1>5. Goto(s, scan) \/ Goto(s, Idle)
    BY DEF CommitMeta
  <1> HIDE DEF scan
  <1> QED BY <1>2, <1>3, <1>4, <1>5, IdleOK, SlotStepOK
          DEF IndInv, TypeOK, CommitMeta

-----------------------------------------------------------------------------
(* Eviction and serving from disk *)

\* The eviction scan only reads.
LEMMA ScanStep ==
  ASSUME IndInv, NEW s \in Slots, NEW k \in Keys, Scan(s, k) PROVE IndInv'
  <1> DEFINE r == [task[s] EXCEPT !.todo = @ \ {k}]
             q == [r EXCEPT !.found = @ \cup {Snapshot(k)},
                            !.total = @ + EntrySize(k)]
  <1>1. /\ task[s] \in Task /\ TaskOK(contact, task[s])
        /\ task[s].pc = "scan"
    BY DEF IndInv, TypeOK, Scan, At
  <1>2. r \in Task /\ TaskOK(contact, r)
    BY <1>1 DEF Task, TaskOK
  <1>3. EntrySize(k) \in Nat /\ Snapshot(k) \in Snapshots
    BY SnapshotType DEF IndInv
  <1>4. q \in Task
    <2>1. r.found \cup {Snapshot(k)} \in SUBSET Snapshots
      BY <1>2, <1>3 DEF Task
    <2>2. r.total + EntrySize(k) \in Nat
      BY <1>2, <1>3 DEF Task
    <2> HIDE DEF r
    <2> QED BY <1>2, <2>1, <2>2 DEF Task
  <1>5. TaskOK(contact, q)
    BY <1>1, <1>2 DEF Task, TaskOK
  <1>6. Goto(s, q) \/ Goto(s, r)
    BY DEF Scan
  <1>7. UNCHANGED <<dir, phase, boot, contact, world>>
    BY DEF Scan
  <1> HIDE DEF q, r
  <1> QED BY <1>2, <1>4, <1>5, <1>6, <1>7, LocalStepOK

\* Eviction only removes metadata,
LEMMA EvictMetaStep ==
  ASSUME IndInv, NEW s \in Slots, EvictMeta(s) PROVE IndInv'
  <1> DEFINE r == task[s]
  <1>1. PICK x \in Oldest(r.found) :
          /\ meta' = [meta EXCEPT ![x.key] = NoMeta] \/ UNCHANGED meta
          /\ Goto(s, [r EXCEPT !.pc = "unlink", !.victim = x.key,
                               !.found = @ \ {x},
                               !.total = IF @ >= x.size THEN @ - x.size
                                                        ELSE 0])
    BY DEF EvictMeta
  <1> DEFINE q == [r EXCEPT !.pc = "unlink", !.victim = x.key,
                            !.found = @ \ {x},
                            !.total = IF @ >= x.size THEN @ - x.size ELSE 0]
  <1>2. /\ r \in Task /\ TaskOK(contact, r) /\ r.pc = "scan"
        /\ x \in Snapshots
    BY DEF IndInv, TypeOK, EvictMeta, ScanEnds, At, Oldest, Task
  <1>3. q \in Task
    <2>1. r.found \ {x} \in SUBSET Snapshots /\ x.key \in Keys
      BY <1>2 DEF Task, Snapshots
    <2>2. (IF r.total >= x.size THEN r.total - x.size ELSE 0) \in Nat
      BY <1>2 DEF Task, Snapshots
    <2> QED BY <1>2, <2>1, <2>2 DEF Task, Points
  <1>4. TaskOK(contact, q)
    BY <1>2 DEF Task, TaskOK, Snapshots
  <1>5. /\ meta' \in [Keys -> Entry \cup {NoMeta, Garbled, Foreign}]
        /\ \A k \in Keys : meta'[k] \in {meta[k], NoMeta}
        /\ UNCHANGED <<body, litter, phase, boot, contact, world>>
    BY <1>1 DEF IndInv, TypeOK, EvictMeta
  <1>6. DiskOK'
    BY <1>5, RemoveOK DEF IndInv, TypeOK
  <1>7. Goto(s, q)
    BY <1>1
  <1> HIDE DEF q
  <1> QED BY <1>3, <1>4, <1>5, <1>6, <1>7, SlotStepOK DEF IndInv, TypeOK

\* and bodies.
LEMMA EvictBodyStep ==
  ASSUME IndInv, NEW s \in Slots, EvictBody(s) PROVE IndInv'
  <1> DEFINE r == task[s]
             q == [r EXCEPT !.pc = "scan", !.victim = NoKey]
  <1>1. r \in Task /\ TaskOK(contact, r) /\ r.pc = "unlink"
    BY DEF IndInv, TypeOK, EvictBody, At
  <1>2. q \in Task /\ TaskOK(contact, q)
    BY <1>1 DEF Task, TaskOK, Points
  <1>3. /\ body' \in [Keys -> Content \cup {NoBody}]
        /\ \A k \in Keys : body'[k] \in {body[k], NoBody}
        /\ UNCHANGED <<meta, litter, phase, boot, contact, world>>
    BY DEF IndInv, TypeOK, EvictBody
  <1>4. DiskOK'
    BY <1>3, RemoveOK DEF IndInv, TypeOK
  <1>5. Goto(s, q)
    BY DEF EvictBody
  <1> HIDE DEF q
  <1> QED BY <1>2, <1>3, <1>4, <1>5, SlotStepOK DEF IndInv, TypeOK

\* Then the request is over.
LEMMA EvictDoneStep ==
  ASSUME IndInv, NEW s \in Slots, EvictDone(s) \/ Replied(s) PROVE IndInv'
  BY IdleOK, LocalStepOK DEF EvictDone, Replied

\* What is opened is complete because the disk is.
LEMMA OpenBodyStep ==
  ASSUME IndInv, NEW s \in Slots, OpenBody(s) PROVE IndInv'
  <1> DEFINE r == task[s]
             b == body[r.key]
             q == [r EXCEPT !.pc = "reply", !.ver = b.ver, !.got = b.len]
  <1>1. r \in Task /\ TaskOK(contact, r) /\ r.pc = "open" /\ r.key \in Keys
    BY DEF IndInv, TypeOK, OpenBody, At, TaskOK
  <1>2. CASE b # NoBody /\ Goto(s, q)
    <2>1. b \in Content /\ Genuine(r.key, b)
      BY <1>1, <1>2 DEF IndInv, TypeOK, DiskOK
    <2>2. q \in Task
      BY <1>1, <2>1 DEF Task, Points, Content
    <2>3. TaskOK(contact, q)
      BY <1>1, <2>1 DEF Task, TaskOK, Content, Genuine
    <2> HIDE DEF q
    <2> QED BY <1>2, <2>2, <2>3, LocalStepOK DEF OpenBody
  <1>3. CASE Goto(s, Idle)
    BY <1>3, IdleOK, LocalStepOK DEF OpenBody
  <1> QED BY <1>2, <1>3 DEF OpenBody

-----------------------------------------------------------------------------
(* Disconnects, crashes, startup and the world *)

\* A dropped handler changes no file under its final name.
LEMMA CancelStep ==
  ASSUME IndInv, NEW s \in Slots, Cancel(s) PROVE IndInv'
  <1>1. /\ litter' \in BOOLEAN
        /\ UNCHANGED <<meta, body, phase, boot, contact, world>>
        /\ Goto(s, Idle)
    BY DEF Cancel, LeavesLitter, IndInv, TypeOK
  <1>2. DiskOK'
    BY <1>1, RemoveOK DEF IndInv, TypeOK
  <1> QED BY <1>1, <1>2, IdleOK, SlotStepOK DEF IndInv, TypeOK

\* The steps of startup keep or remove files and touch nothing else.
LEMMA BootStepOK ==
  ASSUME IndInv, UNCHANGED <<task, contact, world>>,
         \A k \in Keys : meta'[k] \in {meta[k], NoMeta},
         \A k \in Keys : body'[k] \in {body[k], NoBody},
         meta' \in [Keys -> Entry \cup {NoMeta, Garbled, Foreign}],
         body' \in [Keys -> Content \cup {NoBody}],
         litter' \in BOOLEAN, boot' \in Cleanup,
         phase' \in {"off", "sweep", "shrink", "up"}
  PROVE  IndInv'
  <1>1. DiskOK'
    BY RemoveOK DEF IndInv
  <1> QED BY <1>1 DEF IndInv, TypeOK, ContactOK, world

\* Startup reads the directory,
LEMMA BootStartStep ==
  ASSUME IndInv, BootStart PROVE IndInv'
  <1>1. litter' \in BOOLEAN
    BY DEF BootStart, IndInv, TypeOK
  <1>2. boot' \in Cleanup
    BY <1>1 DEF BootStart, Cleanup, IndInv, TypeOK
  <1>3. UNCHANGED <<meta, body, task, contact, world>> /\ phase' = "sweep"
    BY DEF BootStart
  <1> QED BY <1>1, <1>2, <1>3, BootStepOK DEF IndInv, TypeOK

\* removes entries,
LEMMA BootSweepStep ==
  ASSUME IndInv, NEW k \in Keys, BootSweep(k) PROVE IndInv'
  <1>1. /\ \A j \in Keys : meta'[j] \in {meta[j], NoMeta}
        /\ \A j \in Keys : body'[j] \in {body[j], NoBody}
        /\ meta' \in [Keys -> Entry \cup {NoMeta, Garbled, Foreign}]
        /\ body' \in [Keys -> Content \cup {NoBody}]
    BY DEF BootSweep, IndInv, TypeOK
  <1>2. boot' \in Cleanup
    <2>1. EntrySize(k) \in Nat /\ Snapshot(k) \in Snapshots
      BY SnapshotType DEF IndInv
    <2>2. boot \in Cleanup
      BY DEF IndInv, TypeOK
    <2>3. /\ boot.valid \cup {Snapshot(k)} \in SUBSET Snapshots
          /\ boot.todo \ {k} \in SUBSET Keys
          /\ boot.total + EntrySize(k) \in Nat
      BY <2>1, <2>2 DEF Cleanup
    <2>4. CASE boot' = [boot EXCEPT !.todo = @ \ {k},
                                    !.valid = @ \cup {Snapshot(k)},
                                    !.total = @ + EntrySize(k)]
      BY <2>2, <2>3, <2>4 DEF Cleanup
    <2>5. ASSUME NEW gone \in Removed(Condemned(k)),
                 boot' = [boot EXCEPT !.todo = @ \ {k},
                                      !.failed = @ \/ gone # Condemned(k)]
          PROVE  boot' \in Cleanup
      <3>1. PICK b \in BOOLEAN :
              boot' = [boot EXCEPT !.todo = @ \ {k}, !.failed = b]
        BY <2>5, Zenon
      <3> QED BY <2>2, <2>3, <3>1 DEF Cleanup
    <2> QED BY <2>4, <2>5 DEF BootSweep
  <1>3. UNCHANGED <<litter, task, phase, contact, world>>
    BY DEF BootSweep
  <1> QED BY <1>1, <1>2, <1>3, BootStepOK DEF IndInv, TypeOK

\* removes bodies,
LEMMA BootOrphansStep ==
  ASSUME IndInv, BootOrphans PROVE IndInv'
  <1>1. /\ \A j \in Keys : body'[j] \in {body[j], NoBody}
        /\ body' \in [Keys -> Content \cup {NoBody}]
        /\ boot' \in Cleanup
    BY DEF BootOrphans, IndInv, TypeOK, Cleanup
  <1>2. UNCHANGED <<meta, litter, task, contact, world>> /\ phase' = "shrink"
    BY DEF BootOrphans
  <1> QED BY <1>1, <1>2, BootStepOK DEF IndInv, TypeOK

\* removes the oldest entries,
LEMMA BootEvictStep ==
  ASSUME IndInv, BootEvict PROVE IndInv'
  <1>1. PICK x \in Oldest(boot.valid), gone \in Removed({"meta", "body"}) :
          /\ meta' = IF "meta" \in gone
                     THEN [meta EXCEPT ![x.key] = NoMeta] ELSE meta
          /\ body' = IF "body" \in gone
                     THEN [body EXCEPT ![x.key] = NoBody] ELSE body
          /\ boot' = [boot EXCEPT
                        !.valid = @ \ {x},
                        !.total = IF @ >= x.size THEN @ - x.size ELSE 0,
                        !.failed = @ \/ gone # {"meta", "body"}]
    BY DEF BootEvict
  <1>2. boot \in Cleanup /\ x \in Snapshots
    BY DEF IndInv, TypeOK, Cleanup, Oldest
  <1>3. boot' \in Cleanup
    <2> DEFINE rest == IF boot.total >= x.size THEN boot.total - x.size ELSE 0
    <2>1. boot.valid \ {x} \in SUBSET Snapshots /\ rest \in Nat
      BY <1>2 DEF Cleanup, Snapshots
    <2>2. PICK b \in BOOLEAN :
            boot' = [boot EXCEPT !.valid = @ \ {x}, !.total = rest,
                                 !.failed = b]
      BY <1>1, Zenon
    <2> HIDE DEF rest
    <2> QED BY <1>2, <2>1, <2>2 DEF Cleanup
  <1>4. /\ \A j \in Keys : meta'[j] \in {meta[j], NoMeta}
        /\ \A j \in Keys : body'[j] \in {body[j], NoBody}
        /\ meta' \in [Keys -> Entry \cup {NoMeta, Garbled, Foreign}]
        /\ body' \in [Keys -> Content \cup {NoBody}]
    BY <1>1 DEF IndInv, TypeOK
  <1>5. UNCHANGED <<litter, task, phase, contact, world>>
    BY DEF BootEvict
  <1> QED BY <1>3, <1>4, <1>5, BootStepOK DEF IndInv, TypeOK

\* and starts to serve.
LEMMA BootDoneStep ==
  ASSUME IndInv, BootDone PROVE IndInv'
  <1>1. boot' \in Cleanup
    BY DEF BootDone, NotBooting, Cleanup
  <1> QED BY <1>1, BootStepOK DEF BootDone, IndInv, TypeOK, dir

\* A crash forgets requests, never files.
LEMMA CrashStep ==
  ASSUME IndInv, Crash PROVE IndInv'
  <1>1. /\ litter' \in BOOLEAN /\ boot' \in Cleanup
        /\ UNCHANGED <<meta, body, clock, origin, contact>>
        /\ phase' = "off" /\ crashes' \in Nat
    <2>1. litter' \in BOOLEAN
      BY DEF Crash, LeavesLitter, IndInv, TypeOK
    <2>2. boot' \in Cleanup
      BY DEF Crash, NotBooting, Cleanup
    <2> QED BY <2>1, <2>2 DEF Crash, IndInv, TypeOK
  <1>2. /\ task' \in [Slots -> Task]
        /\ \A s \in Slots : TaskOK(contact', task'[s])
    BY IdleOK DEF Crash
  <1>3. DiskOK'
    BY <1>1, RemoveOK DEF IndInv, TypeOK
  <1> QED BY <1>1, <1>2, <1>3 DEF IndInv, TypeOK, ContactOK

\* Time and the origin move on.
LEMMA WorldStep ==
  ASSUME IndInv, Tick \/ \E k \in Keys : Publish(k) PROVE IndInv'
  <1>1. /\ clock' \in Nat /\ clock <= clock' /\ origin' \in [Keys -> Versions]
        /\ UNCHANGED <<dir, task, phase, boot, contact, crashes>>
    BY DEF Tick, Publish, IndInv, TypeOK
  <1>2. TypeOK'
    BY <1>1 DEF IndInv, TypeOK, dir
  <1>3. ContactOK'
    BY <1>1 DEF IndInv, TypeOK, ContactOK
  <1>4. DiskOK'
    BY <1>1, RemoveOK DEF IndInv, TypeOK, dir
  <1> QED BY <1>1, <1>2, <1>3, <1>4 DEF IndInv

-----------------------------------------------------------------------------
(* The theorems *)

\* The initial directories are in order.
LEMMA IndInvInit == Init => IndInv
  <1> SUFFICES ASSUME Init PROVE IndInv
    OBVIOUS
  <1>1. TypeOK
    BY IdleOK, SetsAssumption
    DEF Init, TypeOK, NotBooting, Cleanup, Never
  <1>2. ContactOK
    BY DEF Init, ContactOK, Never
  <1>3. DiskOK
    BY SetsAssumption DEF Init, DiskOK
  <1>4. \A s \in Slots : TaskOK(contact, task[s])
    BY IdleOK DEF Init
  <1> QED BY <1>1, <1>2, <1>3, <1>4 DEF IndInv

\* Stuttering keeps the invariant.
LEMMA IndInvStutter == ASSUME IndInv, UNCHANGED vars PROVE IndInv'
  <1>1. DiskOK'
    BY RemoveOK DEF IndInv, TypeOK, vars
  <1> QED BY <1>1 DEF IndInv, TypeOK, ContactOK, vars

\* Every step of a handler keeps it.
LEMMA HandleStep ==
  ASSUME IndInv, NEW s \in Slots, Handle(s) PROVE IndInv'
  <1>1. CASE Lookup(s)
    BY <1>1, ReadMetaStep, StatBodyStep, DropMetaStep, TouchMetaStep
    DEF Lookup
  <1>2. CASE Exchange(s)
    BY <1>2, FetchFailsStep, NotModifiedStep, RefreshStep, FullResponseStep
    DEF Exchange
  <1>3. CASE Stream(s)
    BY <1>3, ChunkStep, StreamBreaksStep, StreamEndStep DEF Stream
  <1>4. CASE Commit(s)
    BY <1>4, RenameBodyStep, CommitMetaStep DEF Commit
  <1>5. CASE Evict(s)
    BY <1>5, ScanStep, EvictMetaStep, EvictBodyStep, EvictDoneStep DEF Evict
  <1>6. CASE Serve(s)
    BY <1>6, OpenBodyStep, EvictDoneStep DEF Serve
  <1> QED BY <1>1, <1>2, <1>3, <1>4, <1>5, <1>6 DEF Handle

\* Every step of startup keeps it.
LEMMA BootStep == ASSUME IndInv, Boot PROVE IndInv'
  BY BootStartStep, BootSweepStep, BootOrphansStep, BootEvictStep,
     BootDoneStep DEF Boot

\* Every step keeps it.
LEMMA IndInvNext == IndInv /\ [Next]_vars => IndInv'
  <1> SUFFICES ASSUME IndInv, [Next]_vars PROVE IndInv'
    OBVIOUS
  <1>1. CASE Boot
    BY <1>1, BootStep
  <1>2. ASSUME NEW s \in Slots, Start(s) \/ Handle(s) \/ Cancel(s)
        PROVE  IndInv'
    BY <1>2, StartStep, HandleStep, CancelStep
  <1>3. CASE Crash
    BY <1>3, CrashStep
  <1>4. CASE Tick \/ \E k \in Keys : Publish(k)
    BY <1>4, WorldStep
  <1>5. CASE UNCHANGED vars
    BY <1>5, IndInvStutter
  <1> QED BY <1>1, <1>2, <1>3, <1>4, <1>5 DEF Next

\* The cache never leaves its inductive invariant, whatever requests run
\* concurrently, whatever file-system call fails, client disconnects or crash
\* happens; in particular its state is always well typed.
THEOREM Invariance == Spec => []IndInv
  BY IndInvInit, IndInvNext, PTL DEF Spec

\* Neither on disk nor on its way to a client is there ever an incomplete
\* body or one of another key (commit only runs at the clean end of a stream).
THEOREM CompleteBodies == Spec => []BodiesComplete
  <1>1. IndInv => BodiesComplete
    <2> SUFFICES ASSUME IndInv, NEW s \in Slots, task[s].pc = "reply"
                 PROVE  Genuine(task[s].key,
                                [ver |-> task[s].ver, len |-> task[s].got])
      BY DEF BodiesComplete, IndInv, DiskOK
    <2>1. TaskOK(contact, task[s])
      BY DEF IndInv
    <2> QED BY <2>1 DEF TaskOK, Genuine
  <1> QED BY <1>1, Invariance, PTL

-----------------------------------------------------------------------------
(* What a step does to a slot that does not take it *)

\* A step of one slot leaves the others alone.
LEMMA OtherSlot ==
  ASSUME task \in [Slots -> Task], NEW s \in Slots, NEW t \in Slots, s # t,
         Start(t) \/ Handle(t) \/ Cancel(t)
  PROVE  task'[s] = task[s]
  BY DEF Start, Handle, Cancel, Lookup, Exchange, Stream, Commit, Evict,
         Serve, ReadMeta, StatBody, DropMeta, TouchMeta, FetchFails,
         NotModified, Refresh, FullResponse, Chunk, StreamBreaks, StreamCut,
         StreamEnd, RenameBody, CommitMeta, Scan, EvictMeta, EvictBody,
         EvictDone, OpenBody, Replied, Goto

\* Steps of no slot leave a slot as it is or empty it.
LEMMA NoSlotSteps ==
  ASSUME IndInv, NEW s \in Slots,
         Boot \/ Crash \/ Tick \/ (\E k \in Keys : Publish(k))
           \/ UNCHANGED vars
  PROVE  task'[s] = task[s] \/ task'[s] = Idle
  BY DEF Boot, BootStart, BootSweep, BootOrphans, BootEvict, BootDone, Crash,
         Tick, Publish, vars, world, dir

\* Slot s goes from one program point to another only by its own steps.
LEMMA OwnStep ==
  ASSUME IndInv, [Next]_vars, NEW s \in Slots,
         task'[s] # task[s], task'[s] # Idle
  PROVE  Start(s) \/ Handle(s) \/ Cancel(s)
  <1>1. CASE \E t \in Slots : Start(t) \/ Handle(t) \/ Cancel(t)
    <2>1. PICK t \in Slots : Start(t) \/ Handle(t) \/ Cancel(t)
      BY <1>1
    <2>2. s = t
      BY <2>1, OtherSlot DEF IndInv, TypeOK
    <2> QED BY <2>1, <2>2
  <1>2. CASE Boot \/ Crash \/ Tick \/ (\E k \in Keys : Publish(k))
               \/ UNCHANGED vars
    BY <1>2, NoSlotSteps
  <1> QED BY <1>1, <1>2 DEF Next

\* A cached response is opened or refused, never already under way.
LEMMA CachedPc ==
  ASSUME NEW r, NEW e, NEW l
  PROVE  CachedResponse(r, e, l).pc \in {"open", "idle"} /\ Idle.pc = "idle"
  BY DEF CachedResponse, Idle

\* The program points a step of the handler leads from and to.
LEMMA Moves ==
  ASSUME IndInv, NEW s \in Slots, Start(s) \/ Handle(s) \/ Cancel(s)
  PROVE  /\ task[s].pc = "stat" /\ task'[s].pc = "touch" => StatBody(s)
         /\ task[s].pc # "open" /\ task'[s].pc = "open" =>
              TouchMeta(s) \/ Refresh(s)
         /\ task'[s].pc = "reply" => OpenBody(s)
  <1> DEFINE From(p) == task[s].pc = p
             To(P) == task'[s].pc \in P
  <1>1. task[s] \in Task /\ task \in [Slots -> Task]
    BY DEF IndInv, TypeOK
  <1>2. Start(s) => To({"read"})
    BY <1>1 DEF Start, Goto, Idle
  <1>3. Cancel(s) => To({"idle"})
    BY <1>1 DEF Cancel, Goto, Idle
  <1>4. ReadMeta(s) => From("read") /\ To({"fetch", "drop", "stat"})
    <2> DEFINE r == task[s]
               fetch == [r EXCEPT !.pc = "fetch"]
               drop == [r EXCEPT !.pc = "drop"]
               stat == [r EXCEPT !.pc = "stat", !.entry = meta[r.key]]
    <2>1. ReadMeta(s) => From("read") /\ task'[s] \in {fetch, drop, stat}
      BY <1>1 DEF ReadMeta, At, Goto
    <2>2. fetch.pc = "fetch" /\ drop.pc = "drop" /\ stat.pc = "stat"
      BY <1>1 DEF Task
    <2> QED BY <2>1, <2>2
  <1>5. DropMeta(s) => To({"fetch"})
    BY <1>1 DEF DropMeta, Goto, Task
  <1>6. StatBody(s) => To({"touch", "drop"})
    BY <1>1 DEF StatBody, Goto, Task
  <1>7. TouchMeta(s) => From("touch") /\ To({"open", "fetch", "idle"})
    BY <1>1 DEF TouchMeta, At, Goto, Task, CachedResponse, Idle
  <1>8. NotModified(s) => To({"refresh"})
    BY <1>1 DEF NotModified, Goto, Task
  <1>9. Refresh(s) => From("refresh") /\ To({"open", "idle"})
    <2> DEFINE q == CachedResponse(task[s], task[s].entry, "REVALIDATED")
    <2>1. Refresh(s) => From("refresh") /\ task'[s] \in {q, Idle}
      BY <1>1 DEF Refresh, At, Goto
    <2> QED BY <2>1, CachedPc
  <1>10. FullResponse(s) => To({"stream", "idle"})
    <2> DEFINE v == origin[task[s].key]
               plain == [Idle EXCEPT !.pc = "stream", !.key = task[s].key,
                                     !.label = MissLabel(task[s]), !.ver = v]
               teed == [plain EXCEPT !.writing = TRUE, !.entry = NewEntry(v)]
    <2>1. FullResponse(s) => task'[s] \in {Idle, plain, teed}
      BY <1>1 DEF FullResponse, Goto
    <2>2. Idle.pc = "idle" /\ plain.pc = "stream" /\ teed.pc = "stream"
      BY DEF Idle
    <2> QED BY <2>1, <2>2
  <1>11. Chunk(s) => To({"stream"})
    <2> DEFINE r == task[s]
               more == [r EXCEPT !.got = @ + 1]
               bare == [r EXCEPT !.got = @ + 1, !.writing = FALSE,
                                 !.entry = NoEntry]
    <2>1. Chunk(s) => From("stream") /\ task'[s] \in {more, bare}
      BY <1>1 DEF Chunk, At, Goto
    <2>2. more.pc = r.pc /\ bare.pc = r.pc
      BY <1>1 DEF Task
    <2> QED BY <2>1, <2>2
  <1>12. StreamEnd(s) => To({"rename", "idle"})
    BY <1>1 DEF StreamEnd, Goto, Task, Idle
  <1>13. FetchFails(s) \/ StreamBreaks(s) \/ StreamCut(s) \/ EvictDone(s)
           \/ Replied(s) => To({"idle"})
    BY <1>1 DEF FetchFails, StreamBreaks, StreamCut, EvictDone, Replied,
                Goto, Idle
  <1>14. RenameBody(s) => To({"commit", "idle"})
    BY <1>1 DEF RenameBody, Goto, Task, Idle
  <1>15. CommitMeta(s) => To({"scan", "idle"})
    <2> DEFINE scan == [Idle EXCEPT !.pc = "scan", !.todo = Keys]
    <2>1. CommitMeta(s) => task'[s] \in {scan, Idle}
      BY <1>1 DEF CommitMeta, Goto
    <2>2. scan.pc = "scan" /\ Idle.pc = "idle"
      BY DEF Idle
    <2> QED BY <2>1, <2>2
  <1>16. ASSUME NEW k \in Keys PROVE Scan(s, k) => To({"scan"})
    <2> DEFINE r == [task[s] EXCEPT !.todo = @ \ {k}]
               q == [r EXCEPT !.found = @ \cup {Snapshot(k)},
                              !.total = @ + EntrySize(k)]
    <2>1. Scan(s, k) => From("scan") /\ task'[s] \in {r, q}
      BY <1>1 DEF Scan, At, Goto
    <2>2. r.pc = task[s].pc /\ q.pc = task[s].pc
      BY <1>1 DEF Task
    <2> QED BY <2>1, <2>2
  <1>17. EvictMeta(s) => To({"unlink"})
    BY <1>1 DEF EvictMeta, Goto, Task
  <1>18. EvictBody(s) => To({"scan"})
    BY <1>1 DEF EvictBody, Goto, Task
  <1>19. OpenBody(s) => From("open") /\ To({"reply", "idle"})
    <2> DEFINE r == task[s]
               q == [r EXCEPT !.pc = "reply", !.ver = body[r.key].ver,
                              !.got = body[r.key].len]
    <2>1. OpenBody(s) => From("open") /\ task'[s] \in {q, Idle}
      BY <1>1 DEF OpenBody, At, Goto
    <2>2. q.pc = "reply" /\ Idle.pc = "idle"
      BY <1>1 DEF Task, Idle
    <2> QED BY <2>1, <2>2
  <1> QED BY <1>2, <1>3, <1>4, <1>5, <1>6, <1>7, <1>8, <1>9, <1>10, <1>11,
             <1>12, <1>13, <1>14, <1>15, <1>16, <1>17, <1>18, <1>19
          DEF Handle, Lookup, Exchange, Stream, Commit, Evict, Serve

\* When no two responses share a length, lookup only accepts an entry whose
\* body on disk is the one it describes, under every interleaving and crash.
THEOREM WholeEntriesAccepted == Spec => AcceptedIsWhole
  <1>1. ASSUME IndInv, [Next]_vars, LengthsDiffer, NEW s \in Slots,
               task[s].pc = "stat", task'[s].pc = "touch"
        PROVE  body[task[s].key].ver = task[s].entry.ver
    <2> DEFINE r == task[s]
               b == body[r.key]
    <2>1. StatBody(s)
      <3>1. task'[s] # task[s] /\ task'[s] # Idle
        BY <1>1 DEF Idle
      <3> QED BY <1>1, <3>1, OwnStep, Moves
    <2>2. r \in Task /\ TaskOK(contact, r) /\ r.key \in Keys
      BY <1>1 DEF IndInv, TypeOK, TaskOK
    <2>3. r.entry \in Entry /\ Whole(r.entry)
      BY <1>1, <2>2, SetsAssumption DEF TaskOK
    <2>4. Usable(r.entry, b)
      BY <1>1, <2>1, <2>2 DEF StatBody, Goto, IndInv, TypeOK, Task
    <2>5. b \in Content /\ Genuine(r.key, b)
      BY <1>1, <2>2, <2>4 DEF IndInv, TypeOK, DiskOK, Usable
    <2>6. BodySize[b.ver] = BodySize[r.entry.ver]
      BY <2>3, <2>4, <2>5 DEF Usable, Whole, Genuine
    <2> QED BY <1>1, <2>3, <2>5, <2>6 DEF LengthsDiffer, Entry, Content
  <1>2. IndInv /\ [Next]_vars =>
          [LengthsDiffer =>
             \A s \in Slots :
                task[s].pc = "stat" /\ task'[s].pc = "touch" =>
                   body[task[s].key].ver = task[s].entry.ver]_vars
    BY <1>1
  <1> QED BY <1>2, Invariance, PTL DEF Spec, AcceptedIsWhole

\* A HIT rests on an exchange with the origin that is younger than the configured
\* age, however often the entry was looked up, refreshed or carried over.
THEOREM RecentHits == Spec => HitIsRecent
  <1> DEFINE Recent(s) ==
        LET c == contact[task'[s].key][task'[s].entry.ver]
        IN  c # Never /\ clock - c < ConfigTtl
  <1>1. ASSUME IndInv, [Next]_vars, NEW s \in Slots, task[s].pc # "open",
               task'[s].pc = "open", task'[s].label = "HIT"
        PROVE  Recent(s)
    <2> DEFINE r == task[s]
               e == r.entry
               c == contact[r.key][e.ver]
    <2>0. r \in Task /\ TaskOK(contact, r) /\ task \in [Slots -> Task]
      BY <1>1 DEF IndInv, TypeOK
    <2>1. TouchMeta(s)
      <3>1. task'[s] # task[s] /\ task'[s] # Idle
        BY <1>1 DEF Idle
      <3>2. TouchMeta(s) \/ Refresh(s)
        BY <1>1, <3>1, OwnStep, Moves
      <3>3. Refresh(s) => task'[s].label # "HIT"
        <4> DEFINE q == CachedResponse(r, e, "REVALIDATED")
        <4>1. Refresh(s) => task'[s] \in {q, Idle}
          BY <2>0 DEF Refresh, Goto
        <4>2. q.label # "HIT" /\ Idle.label # "HIT"
          BY DEF CachedResponse, Idle
        <4> QED BY <4>1, <4>2
      <3> QED BY <1>1, <3>2, <3>3
    <2>2. Fresh(e, clock) /\ task'[s].entry = e /\ task'[s].key = r.key
      BY <1>1, <2>0, <2>1 DEF TouchMeta, At, Goto, CachedResponse, Idle, Task
    <2>3. e \in Entry /\ r.key \in Keys /\ EntryOK(contact, r.key, e)
      BY <2>0, <2>1, SetsAssumption DEF TouchMeta, At, TaskOK
    <2>4. /\ clock \in Nat /\ c \in Int /\ e.created \in Nat
          /\ e.ttl \in Nat /\ ConfigTtl \in Nat
      BY <1>1, <2>3, NumbersAssumption DEF IndInv, TypeOK, Entry
    <2>5. c # Never /\ e.created <= c /\ e.ttl <= ConfigTtl
      BY <2>3 DEF EntryOK
    <2>6. clock - c < ConfigTtl
      BY <2>2, <2>4, <2>5 DEF Fresh, Age
    <2> QED BY <2>2, <2>5, <2>6
  <1>2. IndInv /\ [Next]_vars =>
          [\A s \in Slots :
             task[s].pc # "open" /\ task'[s].pc = "open"
                /\ task'[s].label = "HIT" => Recent(s)]_vars
    BY <1>1
  <1> QED BY <1>2, Invariance, PTL DEF Spec, HitIsRecent

-----------------------------------------------------------------------------
(* Refinement of ResponseStore *)

\* Slots that stop sending close their replies, the others keep theirs.
LEMMA ClosesStep ==
  ASSUME NEW C \in SUBSET Slots, UNCHANGED <<body, contact>>,
         \A t \in Slots \ C : task'[t] = task[t],
         \A t \in C : task'[t].pc # "reply"
  PROVE  Store!Next
  <1>1. Given' = Given /\ Stored' = Stored
    BY DEF Given, Stored
  <1>2. Replies' = [t \in Slots |-> IF t \in C THEN NoVersion ELSE Replies[t]]
    BY DEF Replies
  <1>3. Store!Close(C)
    BY <1>1, <1>2 DEF Store!Close
  <1> QED BY <1>3 DEF Store!Next

\* Ending one reply is closing it in the store.
LEMMA CloseOneStep ==
  ASSUME IndInv, NEW s \in Slots, Start(s) \/ Handle(s) \/ Cancel(s),
         UNCHANGED <<body, contact>>, task'[s].pc # "reply"
  PROVE  Store!Next
  <1>1. \A t \in Slots \ {s} : task'[t] = task[t]
    BY OtherSlot DEF IndInv, TypeOK
  <1>2. {s} \in SUBSET Slots /\ \A t \in {s} : task'[t].pc # "reply"
    OBVIOUS
  <1> QED BY <1>1, <1>2, ClosesStep

\* Removing body files loses what they stored.
LEMMA LosesStep ==
  ASSUME NEW D \in SUBSET Keys, UNCHANGED contact, Replies' = Replies,
         body' = [k \in Keys |-> IF k \in D THEN NoBody ELSE body[k]]
  PROVE  Store!Next
  <1>1. Given' = Given
    BY DEF Given
  <1>2. Stored' = [k \in Keys |-> IF k \in D THEN NoVersion ELSE Stored[k]]
    BY DEF Stored
  <1>3. Store!Lose(D)
    BY <1>1, <1>2 DEF Store!Lose
  <1> QED BY <1>3 DEF Store!Next

\* A step of slot s between two points at which it sends nothing.
LEMMA RepliesKept ==
  ASSUME IndInv, NEW s \in Slots, Start(s) \/ Handle(s) \/ Cancel(s),
         task[s].pc # "reply", task'[s].pc # "reply"
  PROVE  Replies' = Replies
  BY OtherSlot DEF IndInv, TypeOK, Replies

\* An answer of the origin adds to what it has given.
LEMMA GivesStep ==
  ASSUME IndInv, NEW s \in Slots, NEW k \in Keys, NEW v \in Versions,
         HeardOf(k, v), UNCHANGED body, Handle(s), At(s, "fetch"),
         task'[s].pc # "reply"
  PROVE  Store!Next
  <1>1. Replies' = Replies
    BY RepliesKept DEF At
  <1>2. Stored' = Stored
    BY DEF Stored
  <1>3. Given' = [Given EXCEPT ![k] = @ \cup {v}]
    <2>1. \A j \in Keys : contact'[j] = IF j = k
                                        THEN [contact[k] EXCEPT ![v] = clock]
                                        ELSE contact[j]
      BY DEF HeardOf, IndInv, TypeOK
    <2>2. clock # Never /\ contact[k] \in [Versions -> Int]
      BY DEF IndInv, TypeOK, Never
    <2>3. \A j \in Keys : Given'[j] = IF j = k THEN Given[k] \cup {v}
                                               ELSE Given[j]
      BY <2>1, <2>2 DEF Given
    <2>4. Given' = [j \in Keys |-> Given'[j]]
      BY DEF Given
    <2> QED BY <2>3, <2>4 DEF Given
  <1>4. Store!Give(k, v)
    BY <1>1, <1>2, <1>3 DEF Store!Give
  <1> QED BY <1>4 DEF Store!Next

\* The rename of a body is a Put of the store.
LEMMA RenameRefines ==
  ASSUME IndInv, NEW s \in Slots, RenameBody(s) PROVE Store!Next
  <1> DEFINE r == task[s]
             c == [ver |-> r.ver, len |-> r.got]
  <1>1. /\ r.pc = "rename" /\ r.key \in Keys /\ r.ver \in Versions
        /\ r.got = BodySize[r.ver] /\ contact[r.key][r.ver] # Never
    BY DEF IndInv, RenameBody, At, TaskOK
  <1>2. task'[s].pc # "reply"
    BY <1>1, Moves DEF Handle, Commit, RenameBody, OpenBody, At
  <1>3. CASE body' = [body EXCEPT ![r.key] = c]
    <2>1. c # NoBody /\ Response(c) = r.ver
      BY <1>1, SetsAssumption DEF Response, Content
    <2>2. Stored' = [Stored EXCEPT ![r.key] = r.ver]
      BY <1>1, <1>3, <2>1 DEF Stored, IndInv, TypeOK
    <2>3. r.ver \in Given[r.key]
      BY <1>1 DEF Given
    <2>4. Given' = Given
      BY DEF RenameBody, Given
    <2>5. Replies' = Replies
      BY <1>1, <1>2, RepliesKept DEF Handle, Commit
    <2>6. Store!Put(r.key, r.ver)
      BY <2>2, <2>3, <2>4, <2>5 DEF Store!Put
    <2> QED BY <1>1, <2>6 DEF Store!Next
  <1>4. CASE UNCHANGED body
    BY <1>2, <1>4, CloseOneStep DEF RenameBody, Handle, Commit
  <1> QED BY <1>3, <1>4 DEF RenameBody

\* Opening a body is an Answer of the store.
LEMMA OpenRefines ==
  ASSUME IndInv, NEW s \in Slots, OpenBody(s) PROVE Store!Next
  <1> DEFINE r == task[s]
             b == body[r.key]
             q == [r EXCEPT !.pc = "reply", !.ver = b.ver, !.got = b.len]
  <1>1. r \in Task /\ r.pc = "open" /\ r.key \in Keys
    BY DEF IndInv, TypeOK, OpenBody, At, TaskOK
  <1>2. CASE b # NoBody /\ Goto(s, q)
    <2>1. b \in Content /\ Genuine(r.key, b)
      BY <1>1, <1>2 DEF IndInv, TypeOK, DiskOK
    <2>2. Stored[r.key] = b.ver /\ b.ver # NoVersion
      BY <1>1, <1>2, <2>1, SetsAssumption
      DEF Stored, Response, Genuine, Content
    <2>3. task'[s] = q
      BY <1>2 DEF IndInv, TypeOK, Goto
    <2>4. q.pc = "reply" /\ q.ver = b.ver /\ q.got = b.len
      BY <1>1 DEF Task
    <2>5. Replies' = [Replies EXCEPT ![s] = Stored[r.key]]
      <3>1. \A t \in Slots : t # s => task'[t] = task[t]
        BY OtherSlot DEF IndInv, TypeOK, Handle, Serve
      <3>2. Response([ver |-> b.ver, len |-> b.len]) = b.ver
        BY <2>1 DEF Response, Genuine
      <3> HIDE DEF q
      <3> QED BY <2>2, <2>3, <2>4, <3>1, <3>2 DEF Replies
    <2>6. Replies[s] = NoVersion
      BY <1>1 DEF Replies
    <2>7. Given' = Given /\ Stored' = Stored
      BY DEF OpenBody, dir, Given, Stored
    <2>8. Store!Answer(s, r.key)
      BY <2>2, <2>5, <2>6, <2>7 DEF Store!Answer
    <2> QED BY <1>1, <2>8 DEF Store!Next
  <1>3. CASE Goto(s, Idle)
    <2>1. task'[s].pc # "reply"
      BY <1>3 DEF IndInv, TypeOK, Goto, Idle
    <2> QED BY <2>1, CloseOneStep DEF OpenBody, dir, Handle, Serve
  <1> QED BY <1>2, <1>3 DEF OpenBody

\* Steps that keep bodies and replies lose nothing.
LEMMA LosesNone ==
  ASSUME body \in [Keys -> Content \cup {NoBody}], UNCHANGED body
  PROVE  \E D \in SUBSET Keys :
           body' = [j \in Keys |-> IF j \in D THEN NoBody ELSE body[j]]
  <1> WITNESS {} \in SUBSET Keys
  <1> QED OBVIOUS

\* Removing one body file or none removes a set of them.
LEMMA LosesAtMost ==
  ASSUME NEW k \in Keys, body \in [Keys -> Content \cup {NoBody}],
         body' = [body EXCEPT ![k] = NoBody] \/ UNCHANGED body
  PROVE  \E D \in SUBSET Keys :
           body' = [j \in Keys |-> IF j \in D THEN NoBody ELSE body[j]]
  <1>1. CASE body' = [body EXCEPT ![k] = NoBody]
    <2>1. body' = [j \in Keys |-> IF j \in {k} THEN NoBody ELSE body[j]]
      BY <1>1
    <2> QED BY <2>1
  <1>2. CASE UNCHANGED body
    BY <1>2, LosesNone
  <1> QED BY <1>1, <1>2

\* Evictions are losses of the store.
LEMMA EvictRefines ==
  ASSUME IndInv, NEW s \in Slots, EvictBody(s) PROVE Store!Next
  <1> DEFINE v == task[s].victim
  <1>1. task[s].pc = "unlink" /\ v \in Keys
    BY DEF IndInv, EvictBody, At, TaskOK
  <1>2. Replies' = Replies
    BY <1>1, Moves, RepliesKept DEF Handle, Evict, EvictBody, OpenBody, At
  <1>3. \E D \in SUBSET Keys :
          body' = [k \in Keys |-> IF k \in D THEN NoBody ELSE body[k]]
    BY <1>1, LosesAtMost DEF EvictBody, IndInv, TypeOK
  <1> QED BY <1>1, <1>2, <1>3, LosesStep DEF EvictBody

\* All other steps of a slot leave bodies and history alone.
LEMMA HandleRefines ==
  ASSUME IndInv, NEW s \in Slots, Start(s) \/ Handle(s) \/ Cancel(s)
  PROVE  Store!Next
  <1>1. CASE NotModified(s) \/ FullResponse(s)
    <2>1. Handle(s)
      BY <1>1 DEF Handle, Exchange
    <2>2. At(s, "fetch") /\ task[s].key \in Keys
      BY <1>1 DEF NotModified, FullResponse, IndInv, TaskOK, At
    <2>3. \E v \in Versions : HeardOf(task[s].key, v)
      <3>1. task[s].entry # NoEntry => task[s].entry.ver \in Versions
        BY DEF IndInv, TypeOK, Task, Entry
      <3>2. origin[task[s].key] \in Versions
        BY <2>2 DEF IndInv, TypeOK
      <3> QED BY <1>1, <3>1, <3>2 DEF NotModified, FullResponse
    <2>4. task'[s].pc # "reply"
      BY <2>1, <2>2, Moves DEF OpenBody, At
    <2>5. UNCHANGED body
      BY <1>1 DEF NotModified, FullResponse, dir
    <2> QED BY <2>1, <2>2, <2>3, <2>4, <2>5, GivesStep
  <1>2. CASE RenameBody(s) \/ OpenBody(s) \/ EvictBody(s)
    BY <1>2, RenameRefines, OpenRefines, EvictRefines
  <1>3. ASSUME ~ (NotModified(s) \/ FullResponse(s) \/ RenameBody(s)
                  \/ OpenBody(s) \/ EvictBody(s))
        PROVE  Store!Next
    <2>1. UNCHANGED <<body, contact>>
      BY <1>3 DEF Start, Handle, Cancel, Lookup, Exchange, Stream, Commit,
           Evict, Serve, ReadMeta, StatBody, DropMeta, TouchMeta, FetchFails,
           Refresh, Chunk, StreamBreaks, StreamCut, StreamEnd, CommitMeta,
           Scan, EvictMeta, EvictDone, Replied, dir
    <2>2. task'[s].pc # "reply"
      BY <1>3, Moves
    <2> QED BY <2>1, <2>2, CloseOneStep
  <1> QED BY <1>1, <1>2, <1>3

\* So are the removals at startup.
LEMMA BootRefines == ASSUME IndInv, Boot PROVE Store!Next
  <1>1. UNCHANGED contact /\ Replies' = Replies
    BY DEF Boot, BootStart, BootSweep, BootOrphans, BootEvict, BootDone,
           Replies
  <1>2. \E D \in SUBSET Keys :
          body' = [k \in Keys |-> IF k \in D THEN NoBody ELSE body[k]]
    <2>0. body \in [Keys -> Content \cup {NoBody}]
      BY DEF IndInv, TypeOK
    <2>1. CASE UNCHANGED body
      BY <2>0, <2>1, LosesNone
    <2>2. CASE \E k \in Keys : body' = [body EXCEPT ![k] = NoBody]
      BY <2>0, <2>2, LosesAtMost
    <2>3. CASE BootOrphans
      BY <2>3 DEF BootOrphans, Removed, Orphans
    <2>4. ASSUME NEW k \in Keys, BootSweep(k)
          PROVE  UNCHANGED body \/ body' = [body EXCEPT ![k] = NoBody]
      BY <2>4 DEF BootSweep
    <2>5. BootEvict => \/ UNCHANGED body
                       \/ \E k \in Keys : body' = [body EXCEPT ![k] = NoBody]
      BY DEF BootEvict, Oldest, IndInv, TypeOK, Cleanup, Snapshots
    <2>6. BootStart \/ BootDone => UNCHANGED body
      BY DEF BootStart, BootDone, dir
    <2> QED BY <2>1, <2>2, <2>3, <2>4, <2>5, <2>6 DEF Boot
  <1> QED BY <1>1, <1>2, LosesStep

\* The directory of files implements a register per key: whatever runs
\* concurrently, fails or crashes, it only holds and only sends complete
\* responses the origin gave for the key, each answer what it held at once.
THEOREM Refinement == Spec => ImplementsStore
  <1>1. Init => Store!Init
    BY DEF Init, Store!Init, Given, Stored, Replies, Idle
  <1>2. ASSUME IndInv, [Next]_vars PROVE [Store!Next]_(Store!svars)
    <2>1. CASE Boot
      BY <1>2, <2>1, BootRefines
    <2>2. ASSUME NEW s \in Slots, Start(s) \/ Handle(s) \/ Cancel(s)
          PROVE  Store!Next
      BY <1>2, <2>2, HandleRefines
    <2>3. CASE Crash
      <3>1. UNCHANGED <<body, contact>> /\ task' = [s \in Slots |-> Idle]
        BY <2>3 DEF Crash
      <3>2. \A s \in Slots : task'[s].pc # "reply"
        BY <3>1 DEF Idle
      <3>3. Slots \in SUBSET Slots
        OBVIOUS
      <3> QED BY <3>1, <3>2, <3>3, ClosesStep
    <2>4. CASE Tick \/ (\E k \in Keys : Publish(k)) \/ UNCHANGED vars
      <3>1. UNCHANGED <<body, contact, task>>
        BY <2>4 DEF Tick, Publish, vars, dir
      <3>2. Given' = Given /\ Stored' = Stored /\ Replies' = Replies
        BY <3>1 DEF Given, Stored, Replies
      <3> QED BY <3>2 DEF Store!svars
    <2> QED BY <1>2, <2>1, <2>2, <2>3, <2>4 DEF Next
  <1> QED BY <1>1, <1>2, Invariance, PTL
          DEF Spec, ImplementsStore, Store!Spec

-----------------------------------------------------------------------------
(* Temporary files *)

\* Already the startup sweep leaves no temporary file without an owner.
SweptClean == ~ Faults /\ ~ Cancels /\ phase # "off" => ~ litter

\* Only a crash orphans a temporary file, and ends the process.
LEMMA SweptCleanStep == SweptClean /\ [Next]_vars => SweptClean'
  <1> SUFFICES ASSUME SweptClean, [Next]_vars, ~ Faults, ~ Cancels,
                      phase' # "off"
               PROVE  ~ litter'
    BY DEF SweptClean
  <1>1. CASE BootStart
    BY <1>1 DEF BootStart
  <1>2. CASE UNCHANGED litter /\ phase # "off"
    BY <1>2 DEF SweptClean
  <1>3. ASSUME Boot, ~ BootStart PROVE UNCHANGED litter /\ phase # "off"
    BY <1>3 DEF Boot, BootSweep, BootOrphans, BootEvict, BootDone, dir
  <1>4. ASSUME NEW s \in Slots, Start(s) \/ Handle(s) \/ Cancel(s)
        PROVE  UNCHANGED litter /\ phase # "off"
    <2>1. phase # "off"
      BY <1>4 DEF Start, Handle, Cancel, Lookup, Exchange, Stream, Commit,
                  Evict, Serve, ReadMeta, StatBody, DropMeta, TouchMeta,
                  FetchFails, NotModified, Refresh, FullResponse, Chunk,
                  StreamBreaks, StreamCut, StreamEnd, RenameBody, CommitMeta,
                  Scan, EvictMeta, EvictBody, EvictDone, ScanEnds, OpenBody,
                  Replied, At
    <2>2. UNCHANGED litter
      BY <1>4 DEF Start, Handle, Cancel, Lookup, Exchange, Stream, Commit,
                  Evict, Serve, ReadMeta, StatBody, DropMeta, TouchMeta,
                  FetchFails, NotModified, Refresh, FullResponse, Chunk,
                  StreamBreaks, StreamCut, StreamEnd, RenameBody, CommitMeta,
                  Scan, EvictMeta, EvictBody, EvictDone, OpenBody, Replied,
                  WriteMeta, WriteMetaFails, Discard, dir
    <2> QED BY <2>1, <2>2
  <1>5. ~ Crash
    BY DEF Crash
  <1>6. CASE Tick \/ (\E k \in Keys : Publish(k)) \/ UNCHANGED vars
    BY <1>2, <1>6 DEF Tick, Publish, dir, vars
  <1> QED BY <1>1, <1>2, <1>3, <1>4, <1>5, <1>6 DEF Next

\* CacheWriter::finish and discard, and write_metadata, account for every
\* temporary file of a process that is not interrupted.
THEOREM NoLitter == Spec => []WritersCleanUp
  <1>1. Init => SweptClean
    BY DEF Init, SweptClean
  <1>2. SweptClean => WritersCleanUp
    BY DEF SweptClean, WritersCleanUp
  <1> QED BY <1>1, <1>2, SweptCleanStep, PTL DEF Spec
=============================================================================
