------------------------------ MODULE Startup ------------------------------
(***************************************************************************)
(* The life of the corsget process: reading and validating the             *)
(* configuration (src/src/config.rs), building the shared state            *)
(* (src/src/state.rs), binding every address, serving, and the graceful    *)
(* shutdown each listener awaits on its own (src/src/main.rs).  Operators  *)
(* edit the file and send signals whenever they like.                      *)
(***************************************************************************)
EXTENDS Integers, FiniteSets, SequencesExt

CONSTANTS
    Hosts,        \* values of application.host
    BadHosts,     \* those that do not parse as an address
    BadPatterns,  \* patterns that do not compile
    Files,        \* what config.yml may hold
    Torn,         \* what of the template a failing write may leave in it
    Template,     \* config.example.yml, embedded in the binary
    MaxWord,      \* the largest u64
    Null,         \* a YAML null, as a list or as an entry of one
    Absent,       \* no file
    NoConf,       \* no configuration loaded
    MaxInFlight   \* bound: requests in flight per listener

NotNumber == -1   \* a factor that is not a number, or an expression in error

ASSUME StartupAssumption ==
    /\ Template \in Files /\ Torn \subseteq Files /\ Absent \notin Files
    /\ IsFiniteSet(Hosts) /\ MaxInFlight \in Nat
    /\ \A f \in Files : f.hosts \in Seq(Hosts)

\* A product and a tier as they are written, and lists of them.
Expressions == Seq(Nat \cup {NotNumber})
WrittenTiers == [window : Nat, max : Expressions]
Lists(S) == {Null} \cup Seq(S \cup {Null})

ASSUME FilesAssumption ==
    \A f \in Files :
        /\ f.rate_limit \in Lists(WrittenTiers)
        /\ f.bandwidth \in Lists(WrittenTiers)
        /\ f.result \in Expressions /\ f.cache \in Expressions
        /\ f.redirects \in Nat /\ f.timeout \in Nat

VARIABLES
    file,       \* config.yml
    explicit,   \* its path was given on the command line or in CORSGET_CONFIG
    stage,      \* where main is
    read,       \* what Config::load last read
    conf,       \* the configuration it made of that
    queue,      \* addresses still to bind
    server,     \* server[l]: where the listener of host l is
    inflight,   \* inflight[l]: requests it is serving
    exit,       \* how the process ended
    lost,       \* history: listeners with requests in flight when it ended
    served,     \* history: this process has accepted a request
    touched     \* history: an operator edited the file during this start

progress == <<stage, queue, server, inflight, exit, lost>>
vars == <<file, explicit, read, conf, progress, served, touched>>

-----------------------------------------------------------------------------
(* Deserialisation *)

\* MUTANT of EvalByteExpr: wrapping_mul.
EvalByteExprWrapping(e) ==
    FoldLeft(LAMBDA acc, n : IF NotNumber \in {acc, n} THEN NotNumber
                             ELSE (acc * n) % (MaxWord + 1), 1, e)

\* eval_byte_expr: the product of the factors, checked after each.
EvalByteExpr(e) ==
    FoldLeft(LAMBDA acc, n : IF NotNumber \in {acc, n} \/ acc * n > MaxWord
                             THEN NotNumber ELSE acc * n, 1, e)

\* MUTANT of Listed: a list with a null entry is null.
ListedWhole(l) == IF l = Null \/ Null \in Range(l) THEN <<>> ELSE l

\* deserialize_optional_vec
Listed(l) ==
    IF l = Null THEN <<>>
    ELSE FoldLeft(LAMBDA kept, x : IF x = Null THEN kept ELSE Append(kept, x),
                  <<>>, l)

\* deserialize_non_empty_strings
NonEmpty(l) == SelectSeq(Listed(l), LAMBDA x : x # "")

Tiers(l) == [i \in DOMAIN Listed(l) |->
                [window |-> Listed(l)[i].window,
                 max |-> EvalByteExpr(Listed(l)[i].max)]]

\* What the file says, when every key is known and every value has its type.
ConfigOf(f) ==
    [hosts |-> f.hosts, rate_limit |-> Tiers(f.rate_limit),
     bandwidth |-> Tiers(f.bandwidth), result |-> EvalByteExpr(f.result),
     lists |-> NonEmpty(f.lists), redirects |-> f.redirects,
     timeout |-> f.timeout, overrides |-> Listed(f.overrides),
     cache |-> EvalByteExpr(f.cache)]

\* from_reader_strict succeeds.
Deserializes(f) ==
    LET c == ConfigOf(f)
    IN  /\ f.typed /\ f.hosts # <<>>
        /\ NotNumber \notin {c.result, c.cache}
        /\ \A t \in Range(c.rate_limit) \cup Range(c.bandwidth) : t.max # NotNumber

\* Config::validate
Valid(c) ==
    /\ \A t \in Range(c.rate_limit) \cup Range(c.bandwidth) :
          t.window > 0 /\ t.max > 0
    /\ c.redirects # 0 \/ c.timeout # 0
    /\ \A o \in Range(c.overrides) : o.site # "" /\ o.actions # {}

\* Config::load
Loads(f) == f # Absent /\ Deserializes(f) /\ Valid(ConfigOf(f))

-----------------------------------------------------------------------------
(* Starting *)

Stages == {"down", "load", "look", "create", "reload", "addresses", "build",
           "bind", "serving"}
ServerStates == {"off", "bound", "running", "armed", "notified", "closing", "done"}

Bound == {l \in Hosts : server[l] # "off"}
Armed == {l \in Hosts : server[l] \in {"armed", "notified", "closing", "done"}}
AllOff == [l \in Hosts |-> "off"]
Idle == [l \in Hosts |-> 0]
Busy == {l \in Hosts : inflight[l] > 0}

Init ==
    /\ file \in Files \cup {Absent}
    /\ explicit = FALSE /\ read = Absent /\ conf = NoConf
    /\ stage = "down" /\ queue = <<>> /\ server = AllOff /\ inflight = Idle
    /\ exit = "none" /\ lost = {}
    /\ served = FALSE /\ touched = FALSE

\* The operator runs the program, with a path or without.
Launch(path) ==
    /\ stage = "down"
    /\ stage' = "load" /\ explicit' = path /\ exit' = "none" /\ lost' = {}
    /\ read' = Absent /\ conf' = NoConf /\ served' = FALSE /\ touched' = FALSE
    /\ UNCHANGED <<file, queue, server, inflight>>

Steady == UNCHANGED <<file, explicit, read, conf, served, touched>>

\* main goes on to the next stage.
Go(next) == stage' = next /\ UNCHANGED <<queue, server, inflight, exit, lost>>

\* main returns or the process dies: what it was serving is lost.
End(how) ==
    /\ stage' = "down" /\ exit' = how /\ lost' = Busy
    /\ queue' = <<>> /\ server' = AllOff /\ inflight' = Idle

Fail == End("error")

\* Config::load, called by main; failed: what follows an error.
Loading(from, failed) ==
    /\ stage = from /\ read' = file
    /\ IF Loads(file) THEN conf' = ConfigOf(file) /\ Go("addresses")
                      ELSE failed /\ UNCHANGED conf
    /\ UNCHANGED <<file, explicit, served, touched>>

\* Only the implicit path may be created.
Load == Loading("load", IF explicit THEN Fail ELSE Go("look"))

Reload == Loading("reload", Fail)

\* MUTANT of Look: whatever failed to load is replaced.
LookBlind ==
    /\ stage = "look" /\ Go("create")
    /\ Steady

\* MUTANT of Look: a file that is there is loaded again.
LookRetry ==
    /\ stage = "look"
    /\ IF file = Absent THEN Go("create") ELSE Go("load")
    /\ Steady

\* config_path.exists(): asked after the load, answered before the write.
Look ==
    /\ stage = "look"
    /\ IF file = Absent THEN Go("create") ELSE Fail
    /\ Steady

\* fs::write truncates what is there by now, or fails, perhaps half way.
Create ==
    /\ stage = "create"
    /\ \/ file' = Template /\ Go("reload")
       \/ Fail /\ file' \in {file} \cup Torn
    /\ UNCHANGED <<explicit, read, conf, served, touched>>

\* Every host must parse as an address before anything is bound.
Addresses ==
    /\ stage = "addresses"
    /\ IF Range(conf.hosts) \cap BadHosts = {} THEN Go("build") ELSE Fail
    /\ Steady

\* AppState::new: the match policy and the overrides must compile.
Builds(c) ==
    /\ Range(c.lists) \cap BadPatterns = {}
    /\ \A o \in Range(c.overrides) : o.site \notin BadPatterns /\ o.compiles

Build ==
    /\ stage = "build"
    /\ IF Builds(conf)
       THEN /\ stage' = "bind" /\ queue' = conf.hosts
            /\ UNCHANGED <<server, inflight, exit, lost>>
       ELSE Fail
    /\ Steady

\* MUTANT of Bind: an address that cannot be bound is left out.
BindOrSkip ==
    /\ stage = "bind" /\ queue # <<>>
    /\ queue' = Tail(queue)
    /\ \/ server' = [server EXCEPT ![Head(queue)] = "bound"]
       \/ UNCHANGED server
    /\ Steady /\ UNCHANGED <<stage, inflight, exit, lost>>

\* Binding the next address; one already bound is in use, and so may any be.
Bind ==
    /\ stage = "bind" /\ queue # <<>>
    /\ \/ /\ server[Head(queue)] = "off"
          /\ server' = [server EXCEPT ![Head(queue)] = "bound"]
          /\ queue' = Tail(queue)
          /\ UNCHANGED <<stage, inflight, exit, lost>>
       \/ Fail
    /\ Steady

-----------------------------------------------------------------------------
(* Serving and shutting down *)

\* One listener moves; nothing else of the process does.
ServerStep(l, from, to) ==
    /\ stage = "serving" /\ server[l] = from
    /\ server' = [server EXCEPT ![l] = to]
    /\ Steady /\ UNCHANGED <<stage, queue, inflight, exit, lost>>

\* try_join_all polls the server of every listener.
Serve ==
    /\ stage = "bind" /\ queue = <<>>
    /\ stage' = "serving"
    /\ server' = [l \in Hosts |-> IF l \in Bound THEN "running" ELSE "off"]
    /\ Steady /\ UNCHANGED <<queue, inflight, exit, lost>>

\* The task of shutdown_signal that axum spawns for l registers its handlers.
Arm(l) == ServerStep(l, "running", "armed")

\* MUTANT of Open: a bound listener already answers.
OpenBound(l) == server[l] \in {"bound", "running", "armed", "notified"}

\* MUTANT of Open: until the last request is done.
OpenClosing(l) == server[l] \in {"running", "armed", "notified", "closing", "done"}

\* l accepts connections.
Open(l) == server[l] \in {"running", "armed", "notified"}

Accept(l) ==
    /\ Open(l) /\ inflight[l] < MaxInFlight
    /\ inflight' = [inflight EXCEPT ![l] = @ + 1] /\ served' = TRUE
    /\ UNCHANGED <<file, explicit, read, conf, touched, stage, queue, server,
                   exit, lost>>

\* A response is delivered, or its client is gone.
Finish(l) ==
    /\ inflight[l] > 0
    /\ inflight' = [inflight EXCEPT ![l] = @ - 1]
    /\ Steady /\ UNCHANGED <<stage, queue, server, exit, lost>>

\* Ctrl-C or SIGTERM.  With no handler registered it kills the process; a
\* handler registered later does not learn of it.
Signal ==
    /\ stage # "down"
    /\ IF Armed = {}
       THEN End("killed")
       ELSE /\ server' = [l \in Hosts |-> IF server[l] = "armed" THEN "notified"
                                                                 ELSE server[l]]
            /\ UNCHANGED <<stage, queue, inflight, exit, lost>>
    /\ Steady

\* MUTANT of Close: the flag is looked at after a connection is accepted.
CloseAfterAccept(l) == inflight[l] > 0 /\ ServerStep(l, "notified", "closing")

\* with_graceful_shutdown: l accepts no more.
Close(l) == ServerStep(l, "notified", "closing")

\* Its last connection is closed, and its future is done.
Drain(l) == inflight[l] = 0 /\ ServerStep(l, "closing", "done")

\* Every server is done: main returns.
Exit ==
    /\ stage = "serving" /\ \A l \in Bound : server[l] = "done"
    /\ End("ok")
    /\ Steady

\* The operator writes or removes the file.
Edit ==
    /\ file' \in (Files \cup {Absent}) \ {file}
    /\ touched' = TRUE
    /\ UNCHANGED <<explicit, read, conf, progress, served>>

Begin == Load \/ Look \/ Create \/ Reload \/ Addresses \/ Build \/ Bind \/ Serve

Next ==
    \/ \E path \in BOOLEAN : Launch(path)
    \/ Begin \/ Signal \/ Exit \/ Edit
    \/ \E l \in Hosts : Arm(l) \/ Accept(l) \/ Finish(l) \/ Close(l) \/ Drain(l)

\* The runtime polls every ready task; a client takes its response or leaves.
Fairness ==
    /\ WF_vars(Begin) /\ WF_vars(Exit)
    /\ \A l \in Hosts : WF_vars(Arm(l)) /\ WF_vars(Finish(l))
                        /\ WF_vars(Close(l)) /\ WF_vars(Drain(l))

Spec == Init /\ [][Next]_vars

FairSpec == Spec /\ Fairness

-----------------------------------------------------------------------------
(* Properties *)

TypeOK ==
    /\ file \in Files \cup {Absent} /\ read \in Files \cup {Absent}
    /\ explicit \in BOOLEAN /\ stage \in Stages
    /\ conf \in {ConfigOf(f) : f \in Files} \cup {NoConf}
    /\ queue \in Seq(Hosts)
    /\ server \in [Hosts -> ServerStates] /\ inflight \in [Hosts -> 0..MaxInFlight]
    /\ served \in BOOLEAN /\ touched \in BOOLEAN
    /\ lost \subseteq Hosts /\ exit \in {"none", "error", "killed", "ok"}

\* The exact product, whatever its size.
Product(e) == FoldRight(LAMBDA n, acc : n * acc, e, 1)

TiersSound(tiers, written) ==
    /\ Len(tiers) = IF written = Null THEN 0
                    ELSE Cardinality({i \in DOMAIN written : written[i] # Null})
    /\ \A t \in Range(tiers) :
          /\ t.window > 0 /\ t.max > 0
          /\ \E w \in Range(written) \ {Null} : t.window = w.window /\ t.max = Product(w.max)

\* A configuration in use enforces what its file says: every limit is the
\* exact product of its factors, no tier is lost beside a null entry, and no
\* tier can never be met or never expires (config.rs, eval_byte_expr,
\* deserialize_optional_vec, validate).
ConfigSound ==
    conf # NoConf =>
        /\ TiersSound(conf.rate_limit, read.rate_limit)
        /\ TiersSound(conf.bandwidth, read.bandwidth)
        /\ conf.result = Product(read.result) /\ conf.cache = Product(read.cache)
        /\ NotNumber \notin Range(read.result) \cup Range(read.cache)
        /\ conf.redirects + conf.timeout > 0

\* Clients never meet a half-started proxy: a process that serves has bound
\* every address of its configuration, and one that fails to start has not
\* answered a request on any (main.rs, serving only after every bind).
AllOrNothing ==
    /\ stage = "serving" => Bound = Range(conf.hosts)
    /\ exit = "error" => ~ served

\* A process that shuts down on its own has cut no request short
\* (main.rs, with_graceful_shutdown and try_join_all).
NoneCut == exit = "ok" => lost = {}

\* The program writes a configuration only at the implicit path, and over an
\* existing file only if someone put it there during this very start (main.rs,
\* the implicit default).
OwnWrite == file' # file /\ stage' # stage
TemplateOnlyIfMissing ==
    [][OwnWrite => ~ explicit /\ (file = Absent \/ touched)]_vars

\* A launched process serves or is over (main).
StartsOrFails == (stage # "down") ~> (stage \in {"serving", "down"})

\* When every listener has learnt of the signal the process ends.
NotifiedEnds ==
    (stage = "serving" /\ \A l \in Bound : server[l] \in {"notified", "closing", "done"})
        ~> (stage = "down")

=============================================================================
