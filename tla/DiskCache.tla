----------------------------- MODULE DiskCache -----------------------------
(***************************************************************************)
(* The persistent response cache of corsget (src/src/cache.rs) together    *)
(* with the part of the request handler that drives it (proxy_handler in   *)
(* src/src/proxy.rs): request slots run concurrently over one directory    *)
(* holding, for each cache key, a metadata file and a body file.  Every    *)
(* await point of the code is a step boundary; between two steps any other *)
(* request may run, the client may go away, or the process may die.        *)
(***************************************************************************)
EXTENDS Integers, FiniteSetsExt

CONSTANTS
    Keys,       \* cache keys (normalised URL + request variants)
    Slots,      \* connections, each serving one request at a time
    Versions,   \* the distinct responses an origin can give
    BodySize,   \* BodySize[v]: length of the body of response v
    Life,       \* Life[v]: effective_ttl of response v under the configuration
    Storable,   \* responses begin_write accepts: 2xx, no no-store/private/...
    NoCache,    \* responses marked Cache-Control: no-cache
    ConfigTtl,  \* the ttl the matching whitelist rule plans
    ConfirmTtls,\* effective_ttl values of the 304 answers an origin gives
    MetaSize,   \* size of a metadata file
    MaxSize,    \* cache.max_size
    ResultMax,  \* bandwidth_limit.result.max; 0 is "no cap"
    LeftBy,     \* metadata an earlier installation may have left for a key
    Faults,     \* TRUE: a file-system call may fail
    Cancels,    \* TRUE: a client may disconnect at any await point
    MaxTime,    \* bound on the clock
    MaxCrashes, \* bound on the number of crashes
    NoMeta, Garbled, Foreign, NoBody, NoEntry, NoKey, NoVersion

Never == -1

Entry == [ver: Versions, len: Nat, created: Nat, access: Nat, ttl: Nat,
          revalidate: BOOLEAN]
Content == [ver: Versions, len: Nat]

ASSUME SetsAssumption ==
    /\ BodySize \in [Versions -> Nat]
    /\ Life \in [Versions -> Nat]
    /\ Storable \subseteq Versions
    /\ NoCache \subseteq Versions
    /\ {NoMeta, Garbled, Foreign} \cap Entry = {}
    /\ NoEntry \notin Entry
    /\ NoBody \notin Content
    /\ NoKey \notin Keys
    /\ NoVersion \notin Versions
    /\ Garbled \notin Versions
    /\ LeftBy \subseteq {NoMeta, Garbled, Foreign}

ASSUME MarksAssumption ==
    NoMeta # Garbled /\ NoMeta # Foreign /\ Garbled # Foreign

ASSUME NumbersAssumption ==
    /\ ConfigTtl \in Nat /\ MetaSize \in Nat /\ MaxSize \in Nat
    /\ ResultMax \in Nat /\ MaxTime \in Nat /\ MaxCrashes \in Nat
    /\ ConfirmTtls \subseteq 0 .. ConfigTtl
    /\ \A v \in Versions : Life[v] <= ConfigTtl
    /\ Faults \in BOOLEAN /\ Cancels \in BOOLEAN

\* A directory holds finitely many files, a process has finitely many
\* connections, an origin has something to say.
ASSUME FiniteAssumption ==
    /\ IsFiniteSet(Keys) /\ IsFiniteSet(Slots)
    /\ IsFiniteSet(Versions) /\ Versions # {}

VARIABLES
    meta,    \* meta[k]: what <key>.json holds
    body,    \* body[k]: what <key>.body holds
    litter,  \* TRUE: a temporary file without an owner is in the directory
    task,    \* task[s]: the request in slot s
    phase,   \* life of the process
    boot,    \* local state of cleanup_startup
    clock,   \* wall-clock seconds
    origin,  \* origin[k]: the response the origin currently has for k
    contact, \* history: contact[k][v] is when v last came in full for k, or a
             \* 304 was taken for it
    crashes  \* number of crashes so far

dir == <<meta, body, litter>>
world == <<clock, origin, crashes>>
vars == <<meta, body, litter, task, phase, boot, clock, origin, contact,
          crashes>>

-----------------------------------------------------------------------------
(* Helpers *)

\* WouldExceed: ResultSizeGuard::would_exceed, 0 being "no cap".
WouldExceed(n) == ResultMax # 0 /\ n > ResultMax

\* Age is a saturating subtraction.
Age(e, now) == IF now >= e.created THEN now - e.created ELSE 0

Fresh(e, now) == ~ e.revalidate /\ Age(e, now) < e.ttl

\* MUTANT of Usable: the body length is not compared.
UsableAnyLength(m, b) == m \in Entry /\ b # NoBody

\* An entry is usable when the body file has the length it records.
Usable(m, b) == m \in Entry /\ b # NoBody /\ b.len = m.len

BodyLen(k) == IF body[k] = NoBody THEN 0 ELSE body[k].len

\* MUTANT of EntrySize: metadata files are not counted.
BodySizeOnly(k) == BodyLen(k)

EntrySize(k) == MetaSize + BodyLen(k)

Oldest(S) == {x \in S : \A y \in S : x.access <= y.access}

Snapshot(k) ==
    [key |-> k, size |-> EntrySize(k),
     access |-> IF meta[k] \in Entry THEN meta[k].access ELSE 0]

Idle == [pc |-> "idle", key |-> NoKey, force |-> FALSE, now |-> 0,
         entry |-> NoEntry, label |-> "NONE", ver |-> NoVersion, got |-> 0,
         writing |-> FALSE, todo |-> {}, found |-> {}, total |-> 0,
         victim |-> NoKey]

NotBooting == [now |-> 0, todo |-> {}, valid |-> {}, total |-> 0,
               failed |-> FALSE]

\* Slot s is at program point p and the process is serving requests.
At(s, p) == phase = "up" /\ task[s].pc = p

Goto(s, r) == task' = [task EXCEPT ![s] = r]

\* write_metadata: the temporary file is renamed over <key>.json, or, when a
\* call fails, the old file stays and the temporary one may be left over.
WriteMeta(k, m) ==
    meta' = [meta EXCEPT ![k] = m] /\ UNCHANGED litter

WriteMetaFails ==
    Faults /\ litter' \in {litter, TRUE} /\ UNCHANGED meta

\* The temporary body of a request is on disk while its writer is alive.
HoldsTemp(r) == r.writing /\ r.pc \in {"stream", "rename"}

\* Program points with a write_metadata in progress.
WritesMeta(r) == r.pc \in {"touch", "refresh", "commit"}

\* cached_response: 413 when the entry is over the cap, otherwise a response
\* whose body file is opened only when the body is polled.
CachedResponse(r, e, label) ==
    IF WouldExceed(e.len)
    THEN Idle
    ELSE [Idle EXCEPT !.pc = "open", !.key = r.key, !.entry = e,
                      !.label = label]

-----------------------------------------------------------------------------
(* Initial directories are those an earlier run or installation can leave. *)

Init ==
    /\ meta \in [Keys -> LeftBy]
    /\ body = [k \in Keys |-> NoBody]
    /\ litter \in BOOLEAN
    /\ task = [s \in Slots |-> Idle]
    /\ phase = "off"
    /\ boot = NotBooting
    /\ clock = 0
    /\ origin \in [Keys -> Versions]
    /\ contact = [k \in Keys |-> [v \in Versions |-> Never]]
    /\ crashes = 0

-----------------------------------------------------------------------------
(* Cache::initialize and cleanup_startup                                   *)

\* Removing the files in R may fail for some of them (remove_cache_file).
Removed(R) == IF Faults THEN SUBSET R ELSE {R}

BootStart ==
    /\ phase = "off"
    /\ phase' = "sweep"
    /\ litter' \in IF Faults THEN {litter, FALSE} ELSE {FALSE}
    /\ boot' = [now |-> clock, todo |-> Keys, valid |-> {}, total |-> 0,
                failed |-> litter']
    /\ UNCHANGED <<meta, body, task, contact, world>>

\* An entry cleanup keeps: readable, complete, current and still fresh.
Keeps(k, now) ==
    /\ Usable(meta[k], body[k])
    /\ Fresh(meta[k], now)

\* The files cleanup removes for a metadata file it does not keep.  Metadata
\* that does not parse goes alone, its body is left to the orphan pass.
Condemned(k) ==
    {f \in {"meta", "body"} :
        \/ f = "meta" /\ meta[k] # NoMeta
        \/ f = "body" /\ meta[k] \notin {NoMeta, Garbled} /\ body[k] # NoBody}

\* MUTANT of BootSweep: what is not kept stays on the list.
BootSweepForever(k) ==
    /\ phase = "sweep"
    /\ k \in boot.todo
    /\ \/ /\ Keeps(k, boot.now)
          /\ boot' = [boot EXCEPT !.todo = @ \ {k},
                                  !.valid = @ \cup {Snapshot(k)},
                                  !.total = @ + EntrySize(k)]
          /\ UNCHANGED <<meta, body>>
       \/ /\ ~ Keeps(k, boot.now) \/ Faults
          /\ \E gone \in Removed(Condemned(k)) :
               /\ meta' = IF "meta" \in gone
                          THEN [meta EXCEPT ![k] = NoMeta] ELSE meta
               /\ body' = IF "body" \in gone
                          THEN [body EXCEPT ![k] = NoBody] ELSE body
               /\ boot' = [boot EXCEPT !.failed = @ \/ gone # Condemned(k)]
    /\ UNCHANGED <<litter, task, phase, contact, world>>

BootSweep(k) ==
    /\ phase = "sweep"
    /\ k \in boot.todo
    /\ \/ /\ Keeps(k, boot.now)
          /\ boot' = [boot EXCEPT !.todo = @ \ {k},
                                  !.valid = @ \cup {Snapshot(k)},
                                  !.total = @ + EntrySize(k)]
          /\ UNCHANGED <<meta, body>>
       \/ /\ ~ Keeps(k, boot.now) \/ Faults    \* or it cannot be read
          /\ \E gone \in Removed(Condemned(k)) :
               /\ meta' = IF "meta" \in gone
                          THEN [meta EXCEPT ![k] = NoMeta] ELSE meta
               /\ body' = IF "body" \in gone
                          THEN [body EXCEPT ![k] = NoBody] ELSE body
               /\ boot' = [boot EXCEPT !.todo = @ \ {k},
                                       !.failed = @ \/ gone # Condemned(k)]
    /\ UNCHANGED <<litter, task, phase, contact, world>>

\* MUTANT of Orphans: only bodies of removed entries are looked for.
OrphansOfGarbled == {k \in Keys : body[k] # NoBody /\ meta[k] = Garbled}

Orphans == {k \in Keys : body[k] # NoBody
                         /\ \A x \in boot.valid : x.key # k}

BootOrphans ==
    /\ phase = "sweep"
    /\ boot.todo = {}
    /\ \E gone \in Removed(Orphans) :
         /\ body' = [k \in Keys |-> IF k \in gone THEN NoBody ELSE body[k]]
         /\ boot' = [boot EXCEPT !.failed = @ \/ gone # Orphans]
    /\ phase' = "shrink"
    /\ UNCHANGED <<meta, litter, task, contact, world>>

BootEvict ==
    /\ phase = "shrink"
    /\ boot.total > MaxSize
    /\ \E x \in Oldest(boot.valid), gone \in Removed({"meta", "body"}) :
         /\ meta' = IF "meta" \in gone
                    THEN [meta EXCEPT ![x.key] = NoMeta] ELSE meta
         /\ body' = IF "body" \in gone
                    THEN [body EXCEPT ![x.key] = NoBody] ELSE body
         /\ boot' = [boot EXCEPT
                       !.valid = @ \ {x},
                       !.total = IF @ >= x.size THEN @ - x.size ELSE 0,
                       !.failed = @ \/ gone # {"meta", "body"}]
    /\ UNCHANGED <<litter, task, phase, contact, world>>

BootDone ==
    /\ phase = "shrink"
    /\ boot.total <= MaxSize \/ boot.valid = {}
    /\ phase' = "up"
    /\ boot' = NotBooting
    /\ UNCHANGED <<dir, task, contact, world>>

-----------------------------------------------------------------------------
(* Cache::lookup                                                           *)

\* A request that passed the policy and the rate limits has a cache plan.
Start(s) ==
    /\ At(s, "idle")
    /\ \E k \in Keys, f \in BOOLEAN :
         Goto(s, [Idle EXCEPT !.pc = "read", !.key = k, !.force = f,
                              !.now = clock])
    /\ UNCHANGED <<dir, phase, boot, contact, world>>

ReadMeta(s) ==
    /\ At(s, "read")
    /\ LET r == task[s]
           m == meta[r.key]
       IN  \/ /\ m = NoMeta \/ Faults
              /\ Goto(s, [r EXCEPT !.pc = "fetch"])
           \/ /\ m = Garbled
              /\ Goto(s, [r EXCEPT !.pc = "drop"])
           \/ /\ m = Foreign
              /\ Goto(s, [r EXCEPT !.pc = "drop"])
           \/ /\ m \in Entry
              /\ Goto(s, [r EXCEPT !.pc = "stat", !.entry = m])
    /\ UNCHANGED <<dir, phase, boot, contact, world>>

\* MUTANT of StatBody: a lookup renews the age of the entry.
StatBodyRenews(s) ==
    /\ At(s, "stat")
    /\ LET r == task[s]
       IN  \/ /\ Usable(r.entry, body[r.key])
              /\ Goto(s, [r EXCEPT !.pc = "touch", !.entry.access = r.now,
                                   !.entry.created = r.now])
           \/ /\ ~ Usable(r.entry, body[r.key]) \/ Faults
              /\ Goto(s, [r EXCEPT !.pc = "drop", !.entry = NoEntry])
    /\ UNCHANGED <<dir, phase, boot, contact, world>>

StatBody(s) ==
    /\ At(s, "stat")
    /\ LET r == task[s]
       IN  \/ /\ Usable(r.entry, body[r.key])
              /\ Goto(s, [r EXCEPT !.pc = "touch", !.entry.access = r.now])
           \/ /\ ~ Usable(r.entry, body[r.key]) \/ Faults
              /\ Goto(s, [r EXCEPT !.pc = "drop", !.entry = NoEntry])
    /\ UNCHANGED <<dir, phase, boot, contact, world>>

\* MUTANT of DropMeta: the lookup starts over after dropping an entry.
DropMetaRetries(s) ==
    /\ At(s, "drop")
    /\ \/ meta' = [meta EXCEPT ![task[s].key] = NoMeta]
       \/ Faults /\ UNCHANGED meta
    /\ Goto(s, [task[s] EXCEPT !.pc = "read"])
    /\ UNCHANGED <<body, litter, phase, boot, contact, world>>

DropMeta(s) ==
    /\ At(s, "drop")
    /\ \/ meta' = [meta EXCEPT ![task[s].key] = NoMeta]
       \/ Faults /\ UNCHANGED meta
    /\ Goto(s, [task[s] EXCEPT !.pc = "fetch"])
    /\ UNCHANGED <<body, litter, phase, boot, contact, world>>

\* The touch of last_access ends the lookup, the handler then decides.
TouchMeta(s) ==
    /\ At(s, "touch")
    /\ LET r == task[s]
       IN  /\ WriteMeta(r.key, r.entry) \/ WriteMetaFails
           /\ Goto(s, IF ~ r.force /\ Fresh(r.entry, clock)
                      THEN CachedResponse(r, r.entry, "HIT")
                      ELSE [r EXCEPT !.pc = "fetch"])
    /\ UNCHANGED <<body, phase, boot, contact, world>>

-----------------------------------------------------------------------------
(* The upstream exchange                                                   *)

HeardOf(k, v) == contact' = [contact EXCEPT ![k][v] = clock]

\* Timeout, connection error, redirect refused: an error response.
FetchFails(s) ==
    /\ At(s, "fetch")
    /\ Goto(s, Idle)
    /\ UNCHANGED <<dir, phase, boot, contact, world>>

\* Any 304 is taken for a word on the entry: also one that vouches for a copy
\* of the client's, and one of a host the target redirected to.  refresh starts.
NotModified(s) ==
    /\ At(s, "fetch")
    /\ LET r == task[s]
       IN  /\ r.entry # NoEntry
           /\ HeardOf(r.key, r.entry.ver)
           /\ \E l \in ConfirmTtls :
                Goto(s, [r EXCEPT !.pc = "refresh",
                                  !.entry = [@ EXCEPT !.created = clock,
                                                      !.access = clock,
                                                      !.ttl = l]])
    /\ UNCHANGED <<dir, phase, boot, world>>

\* refresh failing to write is answered with a 502.
Refresh(s) ==
    /\ At(s, "refresh")
    /\ LET r == task[s]
       IN  \/ /\ WriteMeta(r.key, r.entry)
              /\ Goto(s, CachedResponse(r, r.entry, "REVALIDATED"))
           \/ /\ WriteMetaFails
              /\ Goto(s, Idle)
    /\ UNCHANGED <<body, phase, boot, contact, world>>

NewEntry(v) ==
    [ver |-> v, len |-> 0, created |-> clock, access |-> clock,
     ttl |-> Life[v], revalidate |-> v \in NoCache]

Cacheable(v) == v \in Storable /\ Life[v] # 0

\* X-Cache of a response the origin sent in full.
MissLabel(r) == IF r.entry # NoEntry /\ r.force THEN "REVALIDATED" ELSE "MISS"

\* A full response: 413 on a declared length over the cap, otherwise
\* begin_write decides whether the stream is teed into a temporary body.
FullResponse(s) ==
    /\ At(s, "fetch")
    /\ LET r == task[s]
           v == origin[r.key]
           streaming == [Idle EXCEPT !.pc = "stream", !.key = r.key,
                                     !.label = MissLabel(r), !.ver = v]
       IN  /\ HeardOf(r.key, v)
           /\ \/ /\ WouldExceed(BodySize[v])
                 /\ Goto(s, Idle)
              \/ /\ ~ Cacheable(v) \/ Faults
                 /\ Goto(s, streaming)
              \/ /\ Cacheable(v)
                 /\ Goto(s, [streaming EXCEPT !.writing = TRUE,
                                              !.entry = NewEntry(v)])
    /\ UNCHANGED <<dir, phase, boot, world>>

-----------------------------------------------------------------------------
(* Streaming a miss, teed into the temporary body                          *)

\* MUTANT of Discard: the writer is dropped without unlinking its file.
DiscardNothing(r) == IF r.writing THEN litter' = TRUE ELSE UNCHANGED litter

\* discard removes the temporary body, the removal may fail silently.
Discard(r) ==
    IF r.writing /\ Faults THEN litter' \in {litter, TRUE}
                           ELSE UNCHANGED litter

Chunk(s) ==
    /\ At(s, "stream")
    /\ LET r == task[s]
       IN  /\ r.got < BodySize[r.ver]
           /\ ~ WouldExceed(r.got + 1)
           /\ \/ /\ Goto(s, [r EXCEPT !.got = @ + 1])
                 /\ UNCHANGED litter
              \/ /\ r.writing /\ Faults        \* the write failed
                 /\ Goto(s, [r EXCEPT !.got = @ + 1, !.writing = FALSE,
                                      !.entry = NoEntry])
                 /\ Discard(r)
    /\ UNCHANGED <<meta, body, phase, boot, contact, world>>

\* The upstream fails in the middle of the body.
StreamBreaks(s) ==
    /\ At(s, "stream")
    /\ Discard(task[s])
    /\ Goto(s, Idle)
    /\ UNCHANGED <<meta, body, phase, boot, contact, world>>

\* MUTANT of StreamCut: the writer of a cut stream is finished.
StreamCutFinishes(s) ==
    /\ At(s, "stream")
    /\ task[s].got < BodySize[task[s].ver]
    /\ WouldExceed(task[s].got + 1)
    /\ Goto(s, IF task[s].writing
               THEN [task[s] EXCEPT !.pc = "rename", !.entry.len = task[s].got]
               ELSE Idle)
    /\ UNCHANGED <<dir, phase, boot, contact, world>>

\* The result cap cuts an undeclared or understated body.
StreamCut(s) ==
    /\ At(s, "stream")
    /\ task[s].got < BodySize[task[s].ver]
    /\ WouldExceed(task[s].got + 1)
    /\ Discard(task[s])
    /\ Goto(s, Idle)
    /\ UNCHANGED <<meta, body, phase, boot, contact, world>>

\* MUTANT of StreamEnd: the writer is finished wherever the stream stops.
StreamEndAnywhere(s) ==
    /\ At(s, "stream")
    /\ Goto(s, IF task[s].writing
               THEN [task[s] EXCEPT !.pc = "rename", !.entry.len = task[s].got]
               ELSE Idle)
    /\ UNCHANGED <<dir, phase, boot, contact, world>>

\* The stream ended: finish commits what a live writer has written.
StreamEnd(s) ==
    /\ At(s, "stream")
    /\ LET r == task[s]
       IN  /\ r.got = BodySize[r.ver]
           /\ Goto(s, IF r.writing
                      THEN [r EXCEPT !.pc = "rename", !.entry.len = r.got]
                      ELSE Idle)
    /\ UNCHANGED <<dir, phase, boot, contact, world>>

-----------------------------------------------------------------------------
(* Cache::commit: body first, then metadata, then eviction                 *)

\* A flush or a rename that fails leaves the temporary body behind.
RenameBody(s) ==
    /\ At(s, "rename")
    /\ LET r == task[s]
       IN  \/ /\ body' = [body EXCEPT ![r.key] = [ver |-> r.ver,
                                                  len |-> r.got]]
              /\ Goto(s, [r EXCEPT !.pc = "commit"])
              /\ UNCHANGED litter
           \/ /\ Faults
              /\ litter' = TRUE
              /\ Goto(s, Idle)
              /\ UNCHANGED body
    /\ UNCHANGED <<meta, phase, boot, contact, world>>

CommitMeta(s) ==
    /\ At(s, "commit")
    /\ LET r == task[s]
       IN  \/ /\ WriteMeta(r.key, r.entry)
              /\ Goto(s, [Idle EXCEPT !.pc = "scan", !.todo = Keys])
           \/ /\ WriteMetaFails
              /\ Goto(s, Idle)
    /\ UNCHANGED <<body, phase, boot, contact, world>>

\* evict scans the directory entry by entry while others change it.
Scan(s, k) ==
    /\ At(s, "scan")
    /\ k \in task[s].todo
    /\ LET r == [task[s] EXCEPT !.todo = @ \ {k}]
       IN  \/ /\ meta[k] \in Entry \cup {Foreign}
              /\ Goto(s, [r EXCEPT !.found = @ \cup {Snapshot(k)},
                                   !.total = @ + EntrySize(k)])
           \/ /\ meta[k] \in {NoMeta, Garbled} \/ Faults
              /\ Goto(s, r)
    /\ UNCHANGED <<dir, phase, boot, contact, world>>

ScanEnds(s) == At(s, "scan") /\ task[s].todo = {}

\* MUTANT of OverLimit: the last entry is spared.
OverLimitButOne(r) == r.total > MaxSize /\ Cardinality(r.found) > 1

OverLimit(r) == r.total > MaxSize /\ r.found # {}

EvictMeta(s) ==
    /\ ScanEnds(s)
    /\ OverLimit(task[s])
    /\ \E x \in Oldest(task[s].found) :
         /\ \/ meta' = [meta EXCEPT ![x.key] = NoMeta]
            \/ Faults /\ UNCHANGED meta
         /\ Goto(s, [task[s] EXCEPT
                       !.pc = "unlink", !.victim = x.key,
                       !.found = @ \ {x},
                       !.total = IF @ >= x.size THEN @ - x.size ELSE 0])
    /\ UNCHANGED <<body, litter, phase, boot, contact, world>>

EvictBody(s) ==
    /\ At(s, "unlink")
    /\ \/ body' = [body EXCEPT ![task[s].victim] = NoBody]
       \/ Faults /\ UNCHANGED body
    /\ Goto(s, [task[s] EXCEPT !.pc = "scan", !.victim = NoKey])
    /\ UNCHANGED <<meta, litter, phase, boot, contact, world>>

EvictDone(s) ==
    /\ ScanEnds(s)
    /\ ~ OverLimit(task[s])
    /\ Goto(s, Idle)
    /\ UNCHANGED <<dir, phase, boot, contact, world>>

-----------------------------------------------------------------------------
(* Serving from disk                                                       *)

\* file_stream opens the body when polled.  The open file then stays what it
\* was, whatever happens to the directory.
OpenBody(s) ==
    /\ At(s, "open")
    /\ LET r == task[s]
           b == body[r.key]
       IN  \/ /\ b # NoBody
              /\ Goto(s, [r EXCEPT !.pc = "reply", !.ver = b.ver,
                                   !.got = b.len])
           \/ /\ b = NoBody \/ Faults
              /\ Goto(s, Idle)
    /\ UNCHANGED <<dir, phase, boot, contact, world>>

\* The response has been delivered, or cut where the guard says.
Replied(s) ==
    /\ At(s, "reply")
    /\ Goto(s, Idle)
    /\ UNCHANGED <<dir, phase, boot, contact, world>>

-----------------------------------------------------------------------------
(* The environment                                                         *)

LeavesLitter(R) ==
    \/ \E r \in R : HoldsTemp(r) /\ litter' = TRUE
    \/ (\A r \in R : ~ HoldsTemp(r))
       /\ \/ UNCHANGED litter
          \/ (\E r \in R : WritesMeta(r)) /\ litter' = TRUE

\* MUTANT of Cancel: a dropped stream finishes its writer.
CancelFinishes(s) ==
    /\ Cancels
    /\ At(s, "stream")
    /\ task[s].writing
    /\ Goto(s, [task[s] EXCEPT !.pc = "rename", !.entry.len = task[s].got])
    /\ UNCHANGED <<dir, phase, boot, contact, world>>

\* The client disconnects: the handler or its body stream is dropped.
Cancel(s) ==
    /\ Cancels
    /\ phase = "up"
    /\ task[s].pc # "idle"
    /\ LeavesLitter({task[s]})
    /\ Goto(s, Idle)
    /\ UNCHANGED <<meta, body, phase, boot, contact, world>>

\* The process dies (panic = "abort", kill) at any point of its life.
Crash ==
    /\ phase # "off"
    /\ crashes < MaxCrashes
    /\ crashes' = crashes + 1
    /\ phase' = "off"
    /\ boot' = NotBooting
    /\ LeavesLitter({task[s] : s \in Slots})
    /\ task' = [s \in Slots |-> Idle]
    /\ UNCHANGED <<meta, body, clock, origin, contact>>

Tick ==
    /\ clock < MaxTime
    /\ clock' = clock + 1
    /\ UNCHANGED <<dir, task, phase, boot, origin, contact, crashes>>

\* The origin changes its mind about a resource.
Publish(k) ==
    /\ \E v \in Versions \ {origin[k]} : origin' = [origin EXCEPT ![k] = v]
    /\ UNCHANGED <<dir, task, phase, boot, clock, contact, crashes>>

-----------------------------------------------------------------------------
Boot == \/ BootStart
        \/ \E k \in Keys : BootSweep(k)
        \/ BootOrphans
        \/ BootEvict
        \/ BootDone

Lookup(s) == ReadMeta(s) \/ StatBody(s) \/ DropMeta(s) \/ TouchMeta(s)

Exchange(s) == FetchFails(s) \/ NotModified(s) \/ Refresh(s)
               \/ FullResponse(s)

Stream(s) == Chunk(s) \/ StreamBreaks(s) \/ StreamCut(s) \/ StreamEnd(s)

Commit(s) == RenameBody(s) \/ CommitMeta(s)

Evict(s) == \/ \E k \in Keys : Scan(s, k)
            \/ EvictMeta(s) \/ EvictBody(s) \/ EvictDone(s)

Serve(s) == OpenBody(s) \/ Replied(s)

\* What the handler of slot s does on its own once a request is accepted.
Handle(s) == \/ Lookup(s) \/ Exchange(s) \/ Stream(s) \/ Commit(s)
             \/ Evict(s) \/ Serve(s)

Next == \/ Boot
        \/ \E s \in Slots : Start(s) \/ Handle(s) \/ Cancel(s)
        \/ Crash
        \/ Tick
        \/ \E k \in Keys : Publish(k)

Spec == Init /\ [][Next]_vars

\* A started cleanup goes on, and the runtime polls every accepted request.
FairSpec == Spec /\ WF_vars(Boot) /\ \A s \in Slots : WF_vars(Handle(s))

-----------------------------------------------------------------------------
(* Properties *)

Points == {"idle", "read", "stat", "drop", "touch", "fetch", "refresh",
           "stream", "rename", "commit", "scan", "unlink", "open", "reply"}

Labels == {"NONE", "HIT", "MISS", "REVALIDATED"}

Snapshots == [key: Keys, size: Nat, access: Nat]

Task == [pc: Points, key: Keys \cup {NoKey}, force: BOOLEAN, now: Nat,
         entry: Entry \cup {NoEntry}, label: Labels,
         ver: Versions \cup {NoVersion}, got: Nat, writing: BOOLEAN,
         todo: SUBSET Keys, found: SUBSET Snapshots, total: Nat,
         victim: Keys \cup {NoKey}]

Cleanup == [now: Nat, todo: SUBSET Keys, valid: SUBSET Snapshots, total: Nat,
            failed: BOOLEAN]

TypeOK ==
    /\ meta \in [Keys -> Entry \cup {NoMeta, Garbled, Foreign}]
    /\ body \in [Keys -> Content \cup {NoBody}]
    /\ litter \in BOOLEAN
    /\ task \in [Slots -> Task]
    /\ phase \in {"off", "sweep", "shrink", "up"}
    /\ boot \in Cleanup
    /\ clock \in Nat
    /\ origin \in [Keys -> Versions]
    /\ contact \in [Keys -> [Versions -> Int]]
    /\ crashes \in Nat

\* A complete body of a response the origin has given for k.
Genuine(k, c) == c.len = BodySize[c.ver] /\ contact[k][c.ver] # Never

\* Neither on disk nor on its way to a client is there ever a body that was
\* cut short (by the cap, the upstream, a disconnect or a crash) or that
\* belongs to another key.
BodiesComplete ==
    /\ \A k \in Keys : body[k] # NoBody => Genuine(k, body[k])
    /\ \A s \in Slots : task[s].pc = "reply" =>
          Genuine(task[s].key, [ver |-> task[s].ver, len |-> task[s].got])

LengthsDiffer == \A v, w \in Versions : BodySize[v] = BodySize[w] => v = w

\* When no two responses have the same length, the length comparison of
\* lookup suffices: an accepted entry describes the body that is on disk,
\* whatever crashed, failed or ran concurrently before.
AcceptedIsWhole ==
    [][LengthsDiffer =>
         \A s \in Slots :
            task[s].pc = "stat" /\ task'[s].pc = "touch" =>
               body[task[s].key].ver = task[s].entry.ver]_vars

\* A HIT is only given for a response that came in full, or that a 304 renewed,
\* less than the configured age ago: only an exchange with the origin prolongs
\* an entry's life, and no lookup, restart or write of older metadata over newer
\* does (lookup, refresh, is_fresh).
HitIsRecent ==
    [][\A s \in Slots :
          task[s].pc # "open" /\ task'[s].pc = "open"
             /\ task'[s].label = "HIT" =>
          LET c == contact[task'[s].key][task'[s].entry.ver]
          IN  c # Never /\ clock - c < ConfigTtl]_vars

FileSizes ==
    [k \in Keys |-> (IF meta[k] = NoMeta THEN 0 ELSE MetaSize) + BodyLen(k)]

DiskTotal == SumFunction(FileSizes)

\* A startup cleanup without errors leaves no temporary file, only fresh and
\* complete entries, no body without one, and a directory within max_size.
CleanStart ==
    [][phase # "up" /\ phase' = "up" /\ ~ boot.failed =>
         /\ ~ litter
         /\ \A k \in Keys : meta[k] # NoMeta => Keeps(k, boot.now)
         /\ \A k \in Keys : body[k] # NoBody => meta[k] # NoMeta
         /\ DiskTotal <= MaxSize]_vars

\* Without failing calls and disconnects every temporary body is renamed or
\* removed, so that a serving process owns every temporary file.
WritersCleanUp ==
    ~ Faults /\ ~ Cancels /\ phase = "up" => ~ litter

Quiet == phase = "up" /\ \A s \in Slots : task[s].pc = "idle"

\* Whenever no request is under way the files of the cache, body and
\* metadata files together, are within cache.max_size.
LimitKept == Quiet => DiskTotal <= MaxSize

Largest == CHOOSE n \in Range(BodySize) : \A m \in Range(BodySize) : m <= n

\* A commit stores first and evicts after it (cache.rs, commit), so the files
\* may exceed cache.max_size, but one request at a time never by more than the
\* entry it stores: no entry is spared, even one larger than the whole cache.
OvershootBounded ==
    Cardinality(Slots) = 1 /\ phase = "up" =>
        DiskTotal <= MaxSize + MetaSize + Largest

\* The body sent with cached headers is the one these headers came with
\* (cache.rs, lookup and file_stream).
ServedIsWhole ==
    \A s \in Slots : task[s].pc = "reply" => task[s].ver = task[s].entry.ver

\* Every accepted request ends, every start of the process gets to serving.
RequestsEnd == \A s \in Slots : task[s].pc # "idle" ~> task[s].pc = "idle"
StartupEnds == phase # "up" ~> phase = "up"

-----------------------------------------------------------------------------
(* The inductive invariant behind BodiesComplete, AcceptedIsWhole,           *)
(* HitIsRecent and the refinement                                            *)

\* With contact history h: an entry of k rests on a response the origin gave
\* for k, and does not claim to be younger than the last exchange about it.
EntryOK(h, k, e) ==
    /\ h[k][e.ver] # Never
    /\ e.created <= h[k][e.ver]
    /\ e.ttl <= ConfigTtl

Whole(e) == e.len = BodySize[e.ver]

TaskOK(h, r) ==
    /\ r.pc \notin {"idle", "scan", "unlink"} => r.key \in Keys
    /\ r.pc = "unlink" => r.victim \in Keys
    /\ r.pc \in {"stat", "touch", "refresh", "open", "reply", "rename",
                 "commit"} => r.entry \in Entry
    /\ r.pc = "stream" /\ r.writing => r.entry \in Entry
    /\ r.entry # NoEntry => /\ r.key \in Keys
                            /\ EntryOK(h, r.key, r.entry)
                            /\ r.pc = "stream" \/ Whole(r.entry)
    /\ r.pc \in {"stream", "rename", "commit", "reply"} =>
          r.ver \in Versions /\ h[r.key][r.ver] # Never
    /\ r.pc \in {"rename", "commit", "reply"} => r.got = BodySize[r.ver]
    /\ r.pc \in {"rename", "commit"} \/ (r.pc = "stream" /\ r.writing) =>
          r.entry.ver = r.ver

DiskOK ==
    /\ \A k \in Keys : meta[k] \in Entry =>
          EntryOK(contact, k, meta[k]) /\ Whole(meta[k])
    /\ \A k \in Keys : body[k] # NoBody => Genuine(k, body[k])

ContactOK ==
    \A k \in Keys, v \in Versions : contact[k][v] <= clock

\* The conjunction that every step preserves.
IndInv == TypeOK /\ ContactOK /\ DiskOK /\ \A s \in Slots : TaskOK(contact, task[s])

-----------------------------------------------------------------------------
(* Refinement: the directory is a response store.  A body that is not a     *)
(* complete response maps to Garbled, which no store can hold.              *)

Response(c) == IF c.len = BodySize[c.ver] THEN c.ver ELSE Garbled

Given == [k \in Keys |-> {v \in Versions : contact[k][v] # Never}]

Stored == [k \in Keys |-> IF body[k] = NoBody THEN NoVersion
                                             ELSE Response(body[k])]

Replies == [s \in Slots |->
              IF task[s].pc = "reply"
              THEN Response([ver |-> task[s].ver, len |-> task[s].got])
              ELSE NoVersion]

Store == INSTANCE ResponseStore WITH
    Nothing <- NoVersion, given <- Given, stored <- Stored, reply <- Replies

\* Every step of the cache over its directory is a step of the register it
\* promises to be: stores of complete responses, losses, atomic answers.
ImplementsStore == Store!Spec
=============================================================================
