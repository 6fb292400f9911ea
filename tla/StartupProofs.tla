--------------------------- MODULE StartupProofs ---------------------------
(* What Startup promises, for any addresses, files and words.              *)
EXTENDS Startup, FoldProofs

\* What main has made of its configuration so far.
Bindings ==
    /\ stage \in {"addresses", "build", "bind", "serving"} =>
          conf \in {ConfigOf(f) : f \in Files}
    /\ stage = "bind" => Range(conf.hosts) = Bound \cup Range(queue)
    /\ stage = "serving" => Bound = Range(conf.hosts)
    /\ stage \notin {"bind", "serving"} => server = AllOff
    /\ stage # "serving" => \A l \in Hosts : server[l] \in {"off", "bound"}

\* Who may have requests in flight.
Requests ==
    /\ \A l \in Hosts : server[l] \in {"off", "bound", "done"} => inflight[l] = 0
    /\ stage \notin {"down", "serving"} => ~ served
    /\ stage # "down" => exit = "none"

\* When the file may be written.
Writing ==
    /\ stage = "look" => ~ explicit
    /\ stage = "create" => ~ explicit /\ (file = Absent \/ touched)

\* A start that fails has not served.
Failing == exit = "error" => ~ served

IInv == TypeOK /\ Bindings /\ Requests /\ Writing /\ Failing /\ NoneCut

-----------------------------------------------------------------------------

\* The addresses of a configuration are hosts.
LEMMA HostsOf ==
    ASSUME NEW f \in Files
    PROVE  ConfigOf(f).hosts \in Seq(Hosts)
BY StartupAssumption DEF ConfigOf

\* The first address and those after it are all of them.
LEMMA HeadAndTail ==
    ASSUME NEW S, NEW s \in Seq(S), s # <<>>
    PROVE  /\ Head(s) \in S /\ Tail(s) \in Seq(S)
           /\ Range(s) = {Head(s)} \cup Range(Tail(s))
<1>1. Len(s) \in Nat \ {0} /\ DOMAIN s = 1 .. Len(s)
  OBVIOUS
<1>2. /\ Len(Tail(s)) = Len(s) - 1 /\ DOMAIN Tail(s) = 1 .. Len(s) - 1
      /\ \A i \in 1 .. Len(s) - 1 : Tail(s)[i] = s[i + 1]
  BY <1>1
<1>3. Head(s) = s[1] /\ Head(s) \in S /\ Tail(s) \in Seq(S)
  BY <1>1
<1>4. ASSUME NEW i \in DOMAIN s, i # 1
      PROVE  s[i] \in Range(Tail(s))
  <2>1. i - 1 \in 1 .. Len(s) - 1 /\ Tail(s)[i - 1] = s[i]
    BY <1>1, <1>2, <1>4
  <2> QED
    BY <1>2, <2>1 DEF Range
<1>5. Range(s) \subseteq {Head(s)} \cup Range(Tail(s))
  BY <1>3, <1>4 DEF Range
<1>6. Range(Tail(s)) \subseteq Range(s)
  BY <1>1, <1>2 DEF Range
<1>7. Head(s) \in Range(s)
  BY <1>1, <1>3 DEF Range
<1> QED
  BY <1>3, <1>5, <1>6, <1>7

\* Ending at any point where nobody is cut, or by a signal or an error.
LEMMA EndKeeps ==
    ASSUME IInv, NEW how \in {"error", "killed", "ok"}, End(how),
           UNCHANGED <<explicit, conf, served, touched>>,
           {read', file'} \subseteq Files \cup {Absent},
           how = "error" => ~ served,
           how = "ok" => Busy = {}
    PROVE  IInv'
<1> USE DEF IInv
<1>1. TypeOK'
  <2>1. <<>> \in Seq(Hosts) /\ AllOff \in [Hosts -> ServerStates]
        /\ Idle \in [Hosts -> 0 .. MaxInFlight] /\ Busy \subseteq Hosts
    BY StartupAssumption DEF AllOff, ServerStates, Idle, Busy
  <2> QED
    BY <2>1 DEF TypeOK, End, Stages
<1>2. Bindings'
  BY DEF Bindings, End, AllOff
<1>3. Requests'
  BY DEF Requests, End, Idle
<1>4. Writing' /\ Failing' /\ NoneCut'
  BY DEF Writing, Failing, NoneCut, End
<1> QED
  BY <1>1, <1>2, <1>3, <1>4

\* A listener that is not serving anybody, or starts no later than it is told.
LEMMA ServerStepKeeps ==
    ASSUME IInv, NEW l \in Hosts, NEW from \in ServerStates, NEW to \in ServerStates,
           ServerStep(l, from, to), from # "off", to \notin {"off", "bound"},
           to = "done" => inflight[l] = 0
    PROVE  IInv'
<1> USE DEF IInv
<1>1. TypeOK'
  BY DEF TypeOK, ServerStep, Steady
<1>2. Bound' = Bound
  BY DEF ServerStep, Bound, TypeOK
<1>3. Bindings'
  BY <1>2 DEF Bindings, ServerStep, Steady
<1>4. Requests'
  BY DEF Requests, ServerStep, Steady, TypeOK
<1>5. Writing' /\ Failing' /\ NoneCut'
  BY DEF Writing, Failing, NoneCut, ServerStep, Steady
<1> QED
  BY <1>1, <1>3, <1>4, <1>5

\* A step among the stages before any address is bound.
LEMMA GoKeeps ==
    ASSUME IInv, NEW next \in Stages \ {"down", "bind", "serving"}, Go(next),
           stage \notin {"down", "bind", "serving"},
           UNCHANGED <<explicit, served, touched>>,
           file' \in Files \cup {Absent}, read' \in Files \cup {Absent},
           conf' \in {ConfigOf(f) : f \in Files} \cup {NoConf},
           next \in {"addresses", "build"} => conf' \in {ConfigOf(f) : f \in Files},
           next = "look" => ~ explicit,
           next = "create" => ~ explicit /\ file' = Absent
    PROVE  IInv'
<1> USE DEF IInv
<1>1. TypeOK'
  BY DEF TypeOK, Go, Stages
<1>2. Bindings'
  BY DEF Bindings, Go, Stages, AllOff
<1>3. Requests'
  BY DEF Requests, Go, TypeOK
<1>4. Writing' /\ Failing' /\ NoneCut'
  BY DEF Writing, Failing, NoneCut, Go
<1> QED
  BY <1>1, <1>2, <1>3, <1>4

\* Loading goes on to the addresses, to the implicit default or to the end.
LEMMA LoadingKeeps ==
    ASSUME IInv, NEW from \in {"load", "reload"}, stage = from,
           read' = file,
           IF Loads(file) THEN conf' = ConfigOf(file) /\ Go("addresses")
           ELSE /\ UNCHANGED conf
                /\ \/ from = "load" /\ ~ explicit /\ Go("look")
                   \/ Fail,
           UNCHANGED <<file, explicit, served, touched>>
    PROVE  IInv'
<1>1. CASE Loads(file)
  <2>1. file \in Files /\ conf' \in {ConfigOf(f) : f \in Files}
    BY <1>1 DEF Loads, IInv, TypeOK
  <2> QED
    BY <1>1, <2>1, GoKeeps DEF Stages
<1>2. CASE ~ Loads(file) /\ ~ explicit /\ Go("look")
  BY <1>2, GoKeeps DEF Stages, IInv, TypeOK
<1>3. CASE ~ Loads(file) /\ Fail
  <2>1. ~ served /\ read' \in Files \cup {Absent}
    BY DEF IInv, Requests, TypeOK
  <2> QED
    BY <1>3, <2>1, EndKeeps DEF Fail
<1> QED
  BY <1>1, <1>2, <1>3

\* Every step of main up to serving keeps the invariant.
LEMMA BeginKeeps ==
    ASSUME IInv, Begin
    PROVE  IInv'
<1> USE DEF IInv
<1>1. ASSUME stage \notin {"down", "serving"}
      PROVE  ~ served
  BY <1>1 DEF Requests
<1>2. CASE Load
  BY <1>2, LoadingKeeps DEF Load, Loading
<1>3. CASE Reload
  BY <1>3, LoadingKeeps DEF Reload, Loading
<1>4. CASE Look
  <2>1. CASE file = Absent
    BY <1>4, <2>1, GoKeeps DEF Look, Steady, Stages, TypeOK, Writing
  <2>2. CASE file # Absent
    BY <1>1, <1>4, <2>2, EndKeeps DEF Look, Fail, Steady, TypeOK
  <2> QED
    BY <2>1, <2>2
<1>5. CASE Create
  <2>1. CASE file' = Template /\ Go("reload")
    BY <1>5, <2>1, GoKeeps, StartupAssumption DEF Create, Stages, TypeOK
  <2>2. CASE Fail /\ file' \in {file} \cup Torn
    BY <1>1, <1>5, <2>2, EndKeeps, StartupAssumption DEF Create, Fail, TypeOK
  <2> QED
    BY <1>5, <2>1, <2>2 DEF Create
<1>6. CASE Addresses
  <2>1. CASE Range(conf.hosts) \cap BadHosts = {}
    BY <1>6, <2>1, GoKeeps DEF Addresses, Steady, Stages, TypeOK, Bindings
  <2>2. CASE Range(conf.hosts) \cap BadHosts # {}
    BY <1>1, <1>6, <2>2, EndKeeps DEF Addresses, Fail, Steady, TypeOK
  <2> QED
    BY <2>1, <2>2
<1>7. CASE Build
  <2>1. CASE Builds(conf)
    <3>1. conf.hosts \in Seq(Hosts) /\ Bound = {} /\ Bound' = {}
      BY <1>7, <2>1, HostsOf DEF Build, Bindings, Bound, AllOff, Stages
    <3>2. TypeOK'
      BY <1>7, <2>1, <3>1 DEF Build, Steady, TypeOK, Stages
    <3>3. Bindings'
      BY <1>7, <2>1, <3>1 DEF Build, Steady, Bindings, Stages
    <3>4. Requests' /\ Writing' /\ Failing' /\ NoneCut'
      BY <1>7, <2>1 DEF Build, Steady, Requests, Writing, Failing, NoneCut
    <3> QED
      BY <3>2, <3>3, <3>4
  <2>2. CASE ~ Builds(conf)
    BY <1>1, <1>7, <2>2, EndKeeps DEF Build, Fail, Steady, TypeOK
  <2> QED
    BY <2>1, <2>2
<1>8. CASE Bind
  <2> DEFINE l == Head(queue)
  <2>1. stage = "bind" /\ queue # <<>> /\ Steady
    BY <1>8 DEF Bind
  <2>2. l \in Hosts /\ Tail(queue) \in Seq(Hosts)
        /\ Range(queue) = {l} \cup Range(Tail(queue))
    BY <2>1, HeadAndTail DEF TypeOK
  <2>3. CASE Fail
    BY <1>1, <2>1, <2>3, EndKeeps DEF Fail, Steady, TypeOK
  <2>4. CASE /\ server[l] = "off"
             /\ server' = [server EXCEPT ![l] = "bound"]
             /\ queue' = Tail(queue)
             /\ UNCHANGED <<stage, inflight, exit, lost>>
    <3>1. Bound' = Bound \cup {l}
      BY <2>2, <2>4 DEF Bound, TypeOK
    <3>2. TypeOK'
      BY <2>1, <2>2, <2>4 DEF TypeOK, Steady, ServerStates
    <3>3. Bindings'
      <4>1. Range(conf'.hosts) = Bound' \cup Range(queue')
        BY <2>1, <2>2, <2>4, <3>1 DEF Bindings, Steady
      <4> QED
        BY <2>1, <2>2, <2>4, <4>1 DEF Bindings, Steady, TypeOK
    <3>4. Requests'
      BY <2>1, <2>2, <2>4 DEF Requests, Steady, TypeOK
    <3>5. Writing' /\ Failing' /\ NoneCut'
      BY <2>1, <2>4 DEF Writing, Failing, NoneCut, Steady
    <3> QED
      BY <3>2, <3>3, <3>4, <3>5
  <2> QED
    BY <1>8, <2>3, <2>4 DEF Bind
<1>9. CASE Serve
  <2>1. Range(queue) = {} /\ Bound' = Bound
    BY <1>9 DEF Serve, Range, Bound
  <2>2. TypeOK'
    BY <1>9 DEF Serve, Steady, TypeOK, Stages, ServerStates
  <2>3. Bindings'
    BY <1>9, <2>1 DEF Serve, Steady, Bindings
  <2>4. Requests'
    BY <1>9 DEF Serve, Steady, Requests, Bound, TypeOK
  <2>5. Writing' /\ Failing' /\ NoneCut'
    BY <1>9 DEF Serve, Steady, Writing, Failing, NoneCut
  <2> QED
    BY <2>2, <2>3, <2>4, <2>5
<1> QED
  BY <1>2, <1>3, <1>4, <1>5, <1>6, <1>7, <1>8, <1>9 DEF Begin

\* Every step of a listener keeps it.
LEMMA ServingKeeps ==
    ASSUME IInv, NEW l \in Hosts,
           Arm(l) \/ Accept(l) \/ Finish(l) \/ Close(l) \/ Drain(l)
    PROVE  IInv'
<1> USE DEF IInv
<1>1. CASE Arm(l) \/ Close(l) \/ Drain(l)
  BY <1>1, ServerStepKeeps DEF Arm, Close, Drain, ServerStates
<1>2. CASE Accept(l)
  <2>1. stage = "serving" /\ exit = "none"
    BY <1>2 DEF Accept, Open, Bindings, Requests
  <2>2. TypeOK'
    BY <1>2, StartupAssumption DEF Accept, TypeOK
  <2>3. Bindings' /\ Writing'
    BY <1>2 DEF Accept, Bindings, Writing, Bound
  <2>4. Requests'
    BY <1>2, <2>1 DEF Accept, Open, Requests, TypeOK
  <2>5. Failing' /\ NoneCut'
    BY <1>2, <2>1 DEF Accept, Failing, NoneCut
  <2> QED
    BY <2>2, <2>3, <2>4, <2>5
<1>3. CASE Finish(l)
  <2>1. TypeOK'
    BY <1>3, StartupAssumption DEF Finish, Steady, TypeOK
  <2>2. Bindings' /\ Writing' /\ Failing' /\ NoneCut'
    BY <1>3 DEF Finish, Steady, Bindings, Writing, Failing, NoneCut, Bound
  <2>3. Requests'
    BY <1>3 DEF Finish, Steady, Requests, TypeOK
  <2> QED
    BY <2>1, <2>2, <2>3
<1> QED
  BY <1>1, <1>2, <1>3

\* So does a signal, whoever is armed.
LEMMA SignalKeeps ==
    ASSUME IInv, Signal
    PROVE  IInv'
<1> USE DEF IInv
<1>1. CASE Armed = {}
  BY <1>1, EndKeeps DEF Signal, Steady, TypeOK
<1>2. CASE Armed # {}
  <2>1. Bound' = Bound
    BY <1>2 DEF Signal, Bound, TypeOK
  <2>2. TypeOK'
    BY <1>2 DEF Signal, Steady, TypeOK, ServerStates
  <2>3. Bindings'
    <3>1. stage = "serving"
      BY <1>2 DEF Armed, Bindings
    <3> QED
      BY <1>2, <2>1, <3>1 DEF Signal, Steady, Bindings
  <2>4. Requests'
    BY <1>2 DEF Signal, Steady, Requests, TypeOK
  <2>5. Writing' /\ Failing' /\ NoneCut'
    BY <1>2 DEF Signal, Steady, Writing, Failing, NoneCut
  <2> QED
    BY <2>2, <2>3, <2>4, <2>5
<1> QED
  BY <1>1, <1>2

\* The strengthening holds at first: nothing runs.
THEOREM InitIInv == Init => IInv
<1> SUFFICES ASSUME Init PROVE IInv
  OBVIOUS
<1>1. TypeOK
  <2>1. <<>> \in Seq(Hosts) /\ AllOff \in [Hosts -> ServerStates]
        /\ Idle \in [Hosts -> 0 .. MaxInFlight]
    BY StartupAssumption DEF AllOff, ServerStates, Idle
  <2> QED
    BY <2>1 DEF Init, TypeOK, Stages
<1>2. Bindings /\ Requests /\ Writing /\ Failing /\ NoneCut
  BY DEF Init, Bindings, Requests, Writing, Failing, NoneCut, AllOff, Idle
<1> QED
  BY <1>1, <1>2 DEF IInv

\* Every step of main, of a listener and of the operator keeps it.
THEOREM NextIInv == IInv /\ [Next]_vars => IInv'
<1> SUFFICES ASSUME IInv, [Next]_vars PROVE IInv'
  OBVIOUS
<1>1. ASSUME NEW path \in BOOLEAN, Launch(path)
      PROVE  IInv'
  <2>1. TypeOK'
    BY <1>1 DEF IInv, TypeOK, Launch, Stages
  <2>2. Bindings' /\ Requests' /\ Writing' /\ Failing' /\ NoneCut'
    BY <1>1 DEF IInv, Bindings, Requests, Writing, Failing, NoneCut, Launch, AllOff
  <2> QED
    BY <2>1, <2>2 DEF IInv
<1>2. CASE Begin
  BY <1>2, BeginKeeps
<1>3. CASE Signal
  BY <1>3, SignalKeeps
<1>4. CASE Exit
  <2>1. Busy = {}
    BY <1>4 DEF Exit, Busy, Bound, IInv, Requests, TypeOK
  <2> QED
    BY <1>4, <2>1, EndKeeps DEF Exit, Steady, IInv, TypeOK
<1>5. CASE Edit
  BY <1>5 DEF Edit, progress, IInv, TypeOK, Bindings, Requests, Writing, Failing,
              NoneCut, Bound
<1>6. ASSUME NEW l \in Hosts,
             Arm(l) \/ Accept(l) \/ Finish(l) \/ Close(l) \/ Drain(l)
      PROVE  IInv'
  BY <1>6, ServingKeeps
<1>7. CASE UNCHANGED vars
  BY <1>7 DEF vars, progress, IInv, TypeOK, Bindings, Requests, Writing, Failing,
              NoneCut, Bound
<1> QED
  BY <1>1, <1>2, <1>3, <1>4, <1>5, <1>6, <1>7 DEF Next

\* The strengthening always holds.
THEOREM SpecIInv == Spec => []IInv
BY InitIInv, NextIInv, PTL DEF Spec

\* Every variable keeps its type: the configuration in use is one of the
\* files', and a listener's count of requests never goes below zero.
THEOREM TypeCorrect == Spec => []TypeOK
<1>1. IInv => TypeOK
  BY DEF IInv
<1> QED
  BY <1>1, SpecIInv, PTL

\* A process that serves is bound to all of its addresses, and one that fails
\* to start has answered nobody.
THEOREM AlwaysAllOrNothing == Spec => []AllOrNothing
<1>1. IInv => AllOrNothing
  BY DEF IInv, Bindings, Failing, AllOrNothing
<1> QED
  BY <1>1, SpecIInv, PTL

\* A process that ends by itself cuts nobody short, for any number of
\* listeners and requests.
THEOREM AlwaysNoneCut == Spec => []NoneCut
<1>1. IInv => NoneCut
  BY DEF IInv
<1> QED
  BY <1>1, SpecIInv, PTL

\* Only the implicit path is written, and never a file that was already there
\* when the program was started.
THEOREM WritesOnlyIfMissing == Spec => TemplateOnlyIfMissing
<1>1. IInv /\ [Next]_vars => [OwnWrite => ~ explicit /\ (file = Absent \/ touched)]_vars
  <2> SUFFICES ASSUME IInv, Next, OwnWrite
               PROVE  ~ explicit /\ (file = Absent \/ touched)
    OBVIOUS
  <2>1. CASE Begin
    <3>1. CASE Create
      BY <3>1 DEF Create, IInv, Writing
    <3> QED
      BY <2>1, <3>1 DEF Begin, Load, Reload, Loading, Look, Addresses, Build, Bind,
                        Serve, Steady, OwnWrite
  <2>2. CASE ~ Begin
    BY <2>2 DEF Next, OwnWrite, Launch, Signal, Exit, Edit, progress, Steady,
                Arm, Close, Drain, ServerStep, Accept, Finish
  <2> QED
    BY <2>1, <2>2
<1> QED
  BY <1>1, SpecIInv, PTL DEF Spec, TemplateOnlyIfMissing

-----------------------------------------------------------------------------
(* What the loops of the deserialisers amount to *)

\* A sequence with one more element.
LEMMA Appended ==
    ASSUME NEW S, NEW k \in Seq(S), NEW x \in S
    PROVE  /\ Append(k, x) \in Seq(S) /\ Len(Append(k, x)) = Len(k) + 1
           /\ \A j \in DOMAIN Append(k, x) :
                \/ Append(k, x)[j] = x
                \/ j \in DOMAIN k /\ Append(k, x)[j] = k[j]
OBVIOUS

\* The entries of a list that are kept are those that are not null, and no
\* entry is lost beside a null one (deserialize_optional_vec).
LEMMA ListedIs ==
    ASSUME NEW S, NEW l \in Lists(S)
    PROVE  /\ Listed(l) \in Seq(S \ {Null})
           /\ Len(Listed(l)) = IF l = Null THEN 0
                               ELSE Cardinality({i \in DOMAIN l : l[i] # Null})
           /\ \A k \in Range(Listed(l)) : k \in Range(l) \ {Null}
<1>1. CASE l = Null
  <2>1. Listed(l) = <<>>
    BY <1>1 DEF Listed
  <2>2. <<>> \in Seq(S \ {Null}) /\ Len(<<>>) = 0 /\ Range(<<>>) = {}
    BY DEF Range
  <2> QED
    BY <1>1, <2>1, <2>2
<1>2. CASE l # Null
  <2> DEFINE D == DOMAIN l
             n == Len(l)
             V == Seq(S \ {Null})
             none == <<>>
             step == [i \in D |-> [kept \in V |-> IF l[i] = Null THEN kept
                                                  ELSE Append(kept, l[i])]]
             rec(g) == [s \in SUBSET D |->
                          IF s = {} THEN <<>>
                          ELSE IF l[Max(s)] = Null THEN g[s \ {Max(s)}]
                               ELSE Append(g[s \ {Max(s)}], l[Max(s)])]
             it == CHOOSE iter : iter = rec(iter)
             At(s) == {i \in s : l[i] # Null}
  <2>1. /\ l \in Seq(S \cup {Null}) /\ n \in Nat /\ D = 1 .. n /\ IsFiniteSet(D)
        /\ \A i \in D : l[i] # Null => l[i] \in S \ {Null}
    BY <1>2, FS_Interval DEF Lists
  <2>2. none \in V /\ step \in [1 .. n -> [V -> V]]
    BY <2>1
  <2>3. \A s \in SUBSET D : s # {} => Max(s) \in s
    BY <2>1, LatestIs
  <2>4. PICK g \in [SUBSET D -> V] : Follows(Latest(n), none, step, g, D)
    <3> HIDE DEF V, none, n, step
    <3>1. \E h \in [SUBSET (1 .. n) -> V] :
             Follows(Latest(n), none, step, h, 1 .. n)
      BY <2>1, <2>2, FoldsFromLeft
    <3> QED
      BY <2>1, <3>1
  <2>5. g = rec(g)
    <3>1. ASSUME NEW s \in SUBSET D PROVE g[s] = rec(g)[s]
      <4>1. g[s] = IF s = {} THEN <<>> ELSE step[Max(s)][g[s \ {Max(s)}]]
        BY <2>1, <2>4 DEF Latest, Follows, FoldsAt
      <4>2. s # {} => Max(s) \in D /\ g[s \ {Max(s)}] \in V
        BY <2>3, <2>4
      <4> QED
        BY <4>1, <4>2
    <3> QED
      BY <3>1
  <2>6. it = rec(it)
    BY <2>5, Zenon
  <2>7. Listed(l) = it[D]
    BY <1>2 DEF Listed, FoldLeft, MapThenFoldSet
  <2> HIDE DEF it
  <2>8. ASSUME NEW s \in SUBSET D
        PROVE  it[s] = IF s = {} THEN <<>>
                       ELSE IF l[Max(s)] = Null THEN it[s \ {Max(s)}]
                            ELSE Append(it[s \ {Max(s)}], l[Max(s)])
    BY <2>6
  <2> DEFINE Good == {s \in SUBSET D :
                        /\ it[s] \in V /\ Len(it[s]) = Cardinality(At(s))
                        /\ \A j \in DOMAIN it[s] : \E i \in At(s) : it[s][j] = l[i]}
  <2>9. ASSUME NEW s \in SUBSET D, \A t \in SUBSET s : t # s => t \in Good
        PROVE  s \in Good
    <3>1. CASE s = {}
      <4>1. it[s] = <<>> /\ At(s) = {} /\ Cardinality({}) = 0
        BY <2>8, <3>1, FS_EmptySet
      <4>2. /\ <<>> \in V /\ Len(<<>>) = 0 /\ DOMAIN <<>> = {}
        OBVIOUS
      <4> QED
        BY <4>1, <4>2
    <3>2. CASE s # {}
      <4> DEFINE m == Max(s)
                 t == s \ {m}
      <4>1. m \in s /\ t \in Good
        BY <2>3, <2>9, <3>2
      <4>2. it[s] = IF l[m] = Null THEN it[t] ELSE Append(it[t], l[m])
        BY <2>8, <3>2
      <4> HIDE DEF m
      <4>3. CASE l[m] = Null
        <5>1. At(s) = At(t)
          BY <4>3
        <5> QED
          BY <4>1, <4>2, <4>3, <5>1
      <4>4. CASE l[m] # Null
        <5>1. At(s) = At(t) \cup {m} /\ m \notin At(t)
          BY <4>1, <4>4
        <5>2. IsFiniteSet(At(t))
          BY <2>1, FS_Subset
        <5>3. Cardinality(At(s)) = Cardinality(At(t)) + 1
          <6> HIDE DEF At
          <6> QED
            BY <5>1, <5>2, FS_AddElement
        <5>4. /\ it[t] \in V /\ Len(it[t]) = Cardinality(At(t))
              /\ \A j \in DOMAIN it[t] : \E i \in At(t) : it[t][j] = l[i]
          BY <4>1
        <5>5. it[s] = Append(it[t], l[m]) /\ l[m] \in S \ {Null}
          BY <2>1, <4>1, <4>2, <4>4
        <5>6. /\ it[s] \in V /\ Len(it[s]) = Len(it[t]) + 1
              /\ \A j \in DOMAIN it[s] :
                   \/ it[s][j] = l[m]
                   \/ j \in DOMAIN it[t] /\ it[s][j] = it[t][j]
          <6> DEFINE k == it[t]
                     x == l[m]
          <6>1. k \in Seq(S \ {Null}) /\ x \in S \ {Null} /\ it[s] = Append(k, x)
            BY <5>4, <5>5
          <6> HIDE DEF k, x
          <6>2. /\ it[s] \in Seq(S \ {Null}) /\ Len(it[s]) = Len(k) + 1
                /\ \A j \in DOMAIN it[s] :
                     \/ it[s][j] = x
                     \/ j \in DOMAIN k /\ it[s][j] = k[j]
            BY <6>1, Appended
          <6> QED
            BY <6>2 DEF k, x
        <5>7. ASSUME NEW j \in DOMAIN it[s]
              PROVE  \E i \in At(s) : it[s][j] = l[i]
          <6>1. CASE it[s][j] = l[m]
            BY <5>1, <6>1
          <6>2. CASE j \in DOMAIN it[t] /\ it[s][j] = it[t][j]
            BY <5>1, <5>4, <6>2
          <6> QED
            BY <5>6, <6>1, <6>2
        <5> HIDE DEF At
        <5> QED
          BY <5>3, <5>4, <5>6, <5>7
      <4> QED
        BY <4>3, <4>4
    <3> QED
      BY <3>1, <3>2
  <2>10. IsFiniteSet(D)
    BY <2>1
  <2>11. D \in Good
    <3> HIDE DEF Good, D
    <3> QED
      BY <2>9, <2>10, SubsetInduction
  <2> QED
    BY <1>2, <2>7, <2>11 DEF Range
<1> QED
  BY <1>1, <1>2

\* g holds the products of the factors at every set of indices, with the last
\* factor multiplied last, and h those with the first one multiplied last.
FromLeft(n, e, g) ==
    /\ g \in [SUBSET (1 .. n) -> Int]
    /\ \A s \in SUBSET (1 .. n) :
          g[s] = IF s = {} THEN 1 ELSE g[s \ {Max(s)}] * e[Max(s)]

FromRight(n, e, h) ==
    /\ h \in [SUBSET (1 .. n) -> Int]
    /\ \A s \in SUBSET (1 .. n) :
          h[s] = IF s = {} THEN 1 ELSE e[Min(s)] * h[s \ {Min(s)}]

\* Multiplying from the last factor on gives what multiplying from the first
\* on gives.
LEMMA ProductsAgree ==
    ASSUME NEW n \in Nat, NEW e \in [1 .. n -> Int],
           NEW g, FromLeft(n, e, g), NEW h, FromRight(n, e, h)
    PROVE  g[1 .. n] = h[1 .. n]
<1> USE DEF FromLeft, FromRight
<1> DEFINE D == 1 .. n
           Same == {s \in SUBSET D : g[s] = h[s]}
<1>1. IsFiniteSet(D)
  BY FS_Interval
<1>2. ASSUME NEW s \in SUBSET D, \A t \in SUBSET s : t # s => t \in Same
      PROVE  s \in Same
  <2>1. CASE s = {}
    BY <2>1
  <2>2. CASE s # {}
    <3> DEFINE a == Min(s)
               z == Max(s)
               front == s \ {z}
               back == s \ {a}
               mid == (s \ {a}) \ {z}
    <3>1. a \in s /\ z \in s /\ s \subseteq Int /\ (\A i \in s : a <= i /\ i <= z)
      <4>1. a \in s /\ \A i \in s : a <= i
        BY <2>2, EarliestIs
      <4>2. z \in s /\ \A i \in s : i <= z
        BY <2>2, LatestIs
      <4>3. s \subseteq Int
        OBVIOUS
      <4> QED
        BY <4>1, <4>2, <4>3
    <3>2. g[s] = g[front] * e[z] /\ h[s] = e[a] * h[back]
      BY <2>2
    <3>3. CASE a = z
      <4>1. {} \in SUBSET D /\ g[{}] = 1 /\ h[{}] = 1
        OBVIOUS
      <4> HIDE DEF a, z
      <4>2. \A i \in s : i = a
        BY <3>1, <3>3
      <4>3. front = {} /\ back = {}
        BY <3>3, <4>2
      <4>4. e[a] \in Int
        BY <3>1
      <4>5. g[s] = 1 * e[a] /\ h[s] = e[a] * 1
        BY <3>2, <3>3, <4>1, <4>3
      <4> QED
        BY <4>4, <4>5
    <3>4. CASE a # z
      <4>1. a \in front /\ z \in back
        BY <3>1, <3>4
      <4>2. Min(front) = a
        <5>1. Min(front) \in front /\ \A i \in front : Min(front) <= i
          BY <4>1, EarliestIs
        <5> HIDE DEF a, z
        <5> DEFINE m == Min(front)
        <5> HIDE DEF m
        <5>2. m \in Int /\ a \in Int /\ m <= a /\ a <= m
          BY <3>1, <4>1, <5>1 DEF m
        <5> QED
          BY <5>2 DEF m
      <4>3. Max(back) = z
        <5>1. Max(back) \in back /\ \A i \in back : i <= Max(back)
          BY <4>1, LatestIs
        <5> HIDE DEF a, z
        <5> DEFINE m == Max(back)
        <5> HIDE DEF m
        <5>2. m \in Int /\ z \in Int /\ z <= m /\ m <= z
          BY <3>1, <4>1, <5>1 DEF m
        <5> QED
          BY <5>2 DEF m
      <4> HIDE DEF a, z
      <4>4. h[front] = e[a] * h[mid] /\ g[back] = g[mid] * e[z]
        <5>1. front \ {a} = mid /\ back \ {z} = mid
          OBVIOUS
        <5> QED
          BY <4>1, <4>2, <4>3, <5>1
      <4>5. /\ front \in SUBSET s /\ front # s /\ back \in SUBSET s /\ back # s
            /\ mid \in SUBSET s /\ mid # s
        BY <3>1
      <4>6. g[front] = h[front] /\ g[back] = h[back] /\ g[mid] = h[mid]
        BY <1>2, <4>5
      <4>7. e[a] \in Int /\ e[z] \in Int /\ g[mid] \in Int
        BY <3>1, <4>5
      <4>8. \A x, y, w \in Int : (x * y) * w = x * (y * w)
        OBVIOUS
      <4> QED
        BY <3>2, <4>4, <4>6, <4>7, <4>8
    <3> QED
      BY <3>3, <3>4
  <2> QED
    BY <2>1, <2>2
<1>3. D \in Same
  <2> HIDE DEF Same, D
  <2> QED
    BY <1>1, <1>2, SubsetInduction
<1> QED
  BY <1>3

\* The exact product of the factors follows its definition.
LEMMA ProductIs ==
    ASSUME NEW e \in Seq(Int)
    PROVE  \E h : FromRight(Len(e), e, h) /\ Product(e) = h[1 .. Len(e)]
<1> DEFINE n == Len(e)
           D == 1 .. n
           step == [i \in D |-> [acc \in Int |-> e[i] * acc]]
           rec(g) == [s \in SUBSET DOMAIN e |->
                        IF s = {} THEN 1 ELSE e[Min(s)] * g[s \ {Min(s)}]]
           it == CHOOSE iter : iter = rec(iter)
<1>1. n \in Nat /\ D = DOMAIN e /\ IsFiniteSet(D) /\ e \in [D -> Int]
  BY FS_Interval
<1>2. \A s \in SUBSET D : s # {} => Min(s) \in s
  BY <1>1, EarliestIs
<1>3. PICK h \in [SUBSET D -> Int] : Follows(Earliest(n), 1, step, h, D)
  <2> DEFINE V == Int
             one == 1
  <2>1. one \in V /\ step \in [1 .. n -> [V -> V]]
    BY <1>1
  <2> HIDE DEF V, one, n, step
  <2>2. \E g \in [SUBSET (1 .. n) -> V] :
           Follows(Earliest(n), one, step, g, 1 .. n)
    BY <1>1, <2>1, FoldsFromRight
  <2> QED
    BY <2>2 DEF V, one
<1>4. ASSUME NEW s \in SUBSET D
      PROVE  h[s] = IF s = {} THEN 1 ELSE e[Min(s)] * h[s \ {Min(s)}]
  <2>1. h[s] = IF s = {} THEN 1 ELSE step[Min(s)][h[s \ {Min(s)}]]
    BY <1>3 DEF Earliest, Follows, FoldsAt
  <2>2. s # {} => Min(s) \in D /\ h[s \ {Min(s)}] \in Int
    BY <1>2, <1>3
  <2> QED
    BY <2>1, <2>2
<1>5. h = rec(h)
  BY <1>1, <1>4
<1>6. it = rec(it)
  BY <1>5, Zenon
<1>7. Product(e) = it[D]
  BY <1>1 DEF Product, FoldRight, MapThenFoldSet
<1> HIDE DEF it
<1>8. ASSUME NEW s \in SUBSET D
      PROVE  it[s] = IF s = {} THEN 1 ELSE e[Min(s)] * it[s \ {Min(s)}]
  BY <1>1, <1>6
<1> DEFINE Same == {s \in SUBSET D : it[s] = h[s]}
<1>9. ASSUME NEW s \in SUBSET D, \A t \in SUBSET s : t # s => t \in Same
      PROVE  s \in Same
  <2>1. CASE s = {}
    BY <1>4, <1>8, <2>1
  <2>2. CASE s # {}
    <3>1. it[s \ {Min(s)}] = h[s \ {Min(s)}]
      BY <1>2, <1>9, <2>2
    <3> QED
      BY <1>4, <1>8, <2>2, <3>1
  <2> QED
    BY <2>1, <2>2
<1>10. IsFiniteSet(D)
  BY <1>1
<1>11. D \in Same
  <2> HIDE DEF Same, D
  <2> QED
    BY <1>9, <1>10, SubsetInduction
<1> QED
  BY <1>4, <1>7, <1>11 DEF FromRight

\* A byte count that is not refused is the exact product of its factors, none
\* of which failed to parse (eval_byte_expr).
LEMMA EvalExact ==
    ASSUME NEW e \in Expressions, EvalByteExpr(e) # NotNumber
    PROVE  /\ EvalByteExpr(e) \in Nat
           /\ EvalByteExpr(e) = Product(e)
           /\ NotNumber \notin Range(e)
<1> DEFINE n == Len(e)
           D == 1 .. n
           N == Nat \cup {NotNumber}
           capped == [i \in D |-> [acc \in N |->
                        IF NotNumber \in {acc, e[i]} \/ acc * e[i] > MaxWord
                        THEN NotNumber ELSE acc * e[i]]]
           exact == [i \in D |-> [acc \in Int |-> acc * e[i]]]
           rec(g) == [s \in SUBSET DOMAIN e |->
                        IF s = {} THEN 1
                        ELSE IF \/ NotNumber \in {g[s \ {Max(s)}], e[Max(s)]}
                                \/ g[s \ {Max(s)}] * e[Max(s)] > MaxWord
                             THEN NotNumber ELSE g[s \ {Max(s)}] * e[Max(s)]]
           it == CHOOSE iter : iter = rec(iter)
<1>1. /\ n \in Nat /\ D = DOMAIN e /\ IsFiniteSet(D)
      /\ e \in [D -> N] /\ e \in [D -> Int] /\ e \in Seq(Int)
  <2>1. e \in Seq(N) /\ N \subseteq Int
    BY DEF Expressions, NotNumber
  <2>2. n \in Nat /\ D = DOMAIN e /\ IsFiniteSet(D)
    BY <2>1, FS_Interval
  <2> HIDE DEF N
  <2>3. e \in [D -> N]
    BY <2>1
  <2> HIDE DEF D
  <2>6. \A i \in D : e[i] \in Int
    BY <2>1, <2>3
  <2>4. e \in [D -> Int]
    BY <2>3, <2>6
  <2>5. e \in Seq(Int)
    BY <2>2, <2>4 DEF D
  <2> QED
    BY <2>2, <2>3, <2>4, <2>5
<1>2. \A s \in SUBSET D : s # {} => Max(s) \in s
  BY <1>1, LatestIs
<1>3. PICK c \in [SUBSET D -> N] : Follows(Latest(n), 1, capped, c, D)
  <2> DEFINE one == 1
  <2>1. \A x, y \in Nat : x * y \in Nat
    OBVIOUS
  <2>2. one \in N /\ capped \in [1 .. n -> [N -> N]]
    BY <1>1, <2>1
  <2> HIDE DEF N, one, n, capped
  <2>3. \E g \in [SUBSET (1 .. n) -> N] :
           Follows(Latest(n), one, capped, g, 1 .. n)
    BY <1>1, <2>2, FoldsFromLeft
  <2> QED
    BY <2>3 DEF one
<1>4. PICK p \in [SUBSET D -> Int] : Follows(Latest(n), 1, exact, p, D)
  <2> DEFINE V == Int
             one == 1
  <2>1. one \in V /\ exact \in [1 .. n -> [V -> V]]
    BY <1>1
  <2> HIDE DEF V, one, n, exact
  <2>2. \E g \in [SUBSET (1 .. n) -> V] :
           Follows(Latest(n), one, exact, g, 1 .. n)
    BY <1>1, <2>1, FoldsFromLeft
  <2> QED
    BY <2>2 DEF V, one
<1>5. ASSUME NEW s \in SUBSET D
      PROVE  /\ c[s] = rec(c)[s]
             /\ p[s] = IF s = {} THEN 1 ELSE p[s \ {Max(s)}] * e[Max(s)]
  <2>1. /\ c[s] = IF s = {} THEN 1 ELSE capped[Max(s)][c[s \ {Max(s)}]]
        /\ p[s] = IF s = {} THEN 1 ELSE exact[Max(s)][p[s \ {Max(s)}]]
    BY <1>3, <1>4 DEF Latest, Follows, FoldsAt
  <2>2. s # {} => /\ Max(s) \in D /\ c[s \ {Max(s)}] \in N
                  /\ p[s \ {Max(s)}] \in Int
    BY <1>2, <1>3, <1>4
  <2> QED
    BY <1>1, <2>1, <2>2
<1>6. c = rec(c)
  BY <1>1, <1>5
<1>7. it = rec(it)
  BY <1>6, Zenon
<1>8. EvalByteExpr(e) = it[D]
  BY <1>1 DEF EvalByteExpr, FoldLeft, MapThenFoldSet
<1> HIDE DEF it
<1>9. ASSUME NEW s \in SUBSET D PROVE it[s] = rec(it)[s]
  BY <1>7
<1> DEFINE Good == {s \in SUBSET D :
                      it[s] # NotNumber => /\ it[s] \in Nat /\ it[s] = p[s]
                                           /\ \A i \in s : e[i] # NotNumber}
<1>10. ASSUME NEW s \in SUBSET D, \A t \in SUBSET s : t # s => t \in Good
       PROVE  s \in Good
  <2> SUFFICES ASSUME it[s] # NotNumber
               PROVE  /\ it[s] \in Nat /\ it[s] = p[s]
                      /\ \A i \in s : e[i] # NotNumber
    OBVIOUS
  <2>1. CASE s = {}
    <3>1. it[s] = 1 /\ p[s] = 1
      BY <1>1, <1>5, <1>9, <2>1
    <3> QED
      BY <2>1, <3>1
  <2>2. CASE s # {}
    <3> DEFINE m == Max(s)
               t == s \ {m}
    <3>1. m \in s /\ t \in Good
      BY <1>2, <1>10, <2>2
    <3>2. /\ it[s] = it[t] * e[m]
          /\ it[t] # NotNumber /\ e[m] # NotNumber
      BY <1>1, <1>9, <2>2
    <3>3. p[s] = p[t] * e[m]
      BY <1>5, <2>2
    <3> HIDE DEF m
    <3>4. /\ it[t] \in Nat /\ it[t] = p[t]
          /\ \A i \in t : e[i] # NotNumber
      BY <3>1, <3>2
    <3>5. e[m] \in Nat
      BY <1>1, <3>1, <3>2
    <3>6. it[t] * e[m] \in Nat
      BY <3>4, <3>5
    <3> QED
      BY <3>1, <3>2, <3>3, <3>4, <3>6
  <2> QED
    BY <2>1, <2>2
<1>11. IsFiniteSet(D)
  BY <1>1
<1>12. D \in Good
  <2> HIDE DEF Good, D
  <2> QED
    BY <1>10, <1>11, SubsetInduction
<1>13. PICK h : FromRight(n, e, h) /\ Product(e) = h[D]
  BY <1>1, ProductIs
<1>14. FromLeft(n, e, p)
  BY <1>5 DEF FromLeft
<1>15. p[1 .. n] = h[1 .. n]
  <2> HIDE DEF n
  <2> QED
    BY <1>1, <1>13, <1>14, ProductsAgree
<1> QED
  BY <1>1, <1>8, <1>12, <1>13, <1>15 DEF Range

\* Tiers that were taken and have passed validate are what the file says.
LEMMA TiersTaken ==
    ASSUME NEW w \in Lists(WrittenTiers),
           \A t \in Range(Tiers(w)) : t.max # NotNumber /\ t.window > 0 /\ t.max > 0
    PROVE  TiersSound(Tiers(w), w)
<1> DEFINE k == Listed(w)
<1>1. /\ k \in Seq(WrittenTiers \ {Null})
      /\ Len(k) = IF w = Null THEN 0
                  ELSE Cardinality({i \in DOMAIN w : w[i] # Null})
      /\ \A x \in Range(k) : x \in Range(w) \ {Null}
  BY ListedIs
<1>2. Tiers(w) = [i \in DOMAIN k |-> [window |-> k[i].window,
                                      max |-> EvalByteExpr(k[i].max)]]
  BY DEF Tiers
<1> HIDE DEF k
<1>3. Len(Tiers(w)) = Len(k)
  BY <1>1, <1>2
<1>4. ASSUME NEW t \in Range(Tiers(w))
      PROVE  \E x \in Range(w) \ {Null} : t.window = x.window /\ t.max = Product(x.max)
  <2>1. PICK i \in DOMAIN k : t = Tiers(w)[i]
    BY <1>2 DEF Range
  <2>2. t.window = k[i].window /\ t.max = EvalByteExpr(k[i].max)
    BY <1>2, <2>1
  <2>3. k[i] \in Range(k) /\ k[i] \in WrittenTiers
    BY <1>1 DEF Range
  <2>4. k[i].max \in Expressions
    BY <2>3 DEF WrittenTiers
  <2>5. EvalByteExpr(k[i].max) = Product(k[i].max)
    BY <1>4, <2>2, <2>4, EvalExact
  <2> QED
    BY <1>1, <2>2, <2>3, <2>5
<1> QED
  BY <1>1, <1>3, <1>4 DEF TiersSound

\* A file that loads makes a sound configuration (Config::load).
LEMMA LoadedSound ==
    ASSUME NEW f \in Files, Loads(f)
    PROVE  LET c == ConfigOf(f)
           IN  /\ TiersSound(c.rate_limit, f.rate_limit)
               /\ TiersSound(c.bandwidth, f.bandwidth)
               /\ c.result = Product(f.result) /\ c.cache = Product(f.cache)
               /\ NotNumber \notin Range(f.result) \cup Range(f.cache)
               /\ c.redirects + c.timeout > 0
<1> DEFINE c == ConfigOf(f)
<1>1. /\ c.rate_limit = Tiers(f.rate_limit) /\ c.bandwidth = Tiers(f.bandwidth)
      /\ c.result = EvalByteExpr(f.result) /\ c.cache = EvalByteExpr(f.cache)
      /\ c.redirects = f.redirects /\ c.timeout = f.timeout
  BY DEF ConfigOf
<1>2. Deserializes(f) /\ Valid(c)
  BY DEF Loads
<1> HIDE DEF c
<1>3. /\ c.result # NotNumber /\ c.cache # NotNumber
      /\ \A t \in Range(c.rate_limit) \cup Range(c.bandwidth) : t.max # NotNumber
  BY <1>2 DEF Deserializes, c
<1>4. /\ \A t \in Range(c.rate_limit) \cup Range(c.bandwidth) :
            t.window > 0 /\ t.max > 0
      /\ c.redirects # 0 \/ c.timeout # 0
  BY <1>2 DEF Valid
<1>5. TiersSound(c.rate_limit, f.rate_limit) /\ TiersSound(c.bandwidth, f.bandwidth)
  BY <1>1, <1>3, <1>4, TiersTaken, FilesAssumption
<1>6. /\ c.result = Product(f.result) /\ c.cache = Product(f.cache)
      /\ NotNumber \notin Range(f.result) \cup Range(f.cache)
  BY <1>1, <1>3, EvalExact, FilesAssumption
<1>7. c.redirects + c.timeout > 0
  BY <1>1, <1>4, FilesAssumption
<1> QED
  BY <1>5, <1>6, <1>7 DEF c

\* The configuration in use is what the file last read says, and there is none
\* while main is still looking for one.
Taken ==
    /\ stage \in {"load", "look", "create", "reload"} => conf = NoConf
    /\ conf # NoConf => read \in Files /\ Loads(read) /\ conf = ConfigOf(read)

\* Only a launch and Config::load change the configuration.
LEMMA NextTaken ==
    ASSUME IInv, Taken, [Next]_vars
    PROVE  Taken'
<1> USE DEF Taken
<1>1. ASSUME NEW from \in {"load", "reload"}, stage = from, read' = file,
             IF Loads(file) THEN conf' = ConfigOf(file) /\ Go("addresses")
             ELSE UNCHANGED conf /\ (Go("look") \/ Fail)
      PROVE  Taken'
  <2>1. CASE Loads(file)
    <3>1. file \in Files
      BY <2>1 DEF Loads, IInv, TypeOK
    <3> QED
      BY <1>1, <2>1, <3>1 DEF Go
  <2>2. CASE ~ Loads(file)
    BY <1>1, <2>2 DEF Go, Fail, End
  <2> QED
    BY <2>1, <2>2
<1>2. CASE Load
  BY <1>1, <1>2 DEF Load, Loading
<1>3. CASE Reload
  BY <1>1, <1>3 DEF Reload, Loading
<1>4. CASE Look \/ Create \/ Addresses \/ Build \/ Bind \/ Serve
  BY <1>4 DEF Look, Create, Addresses, Build, Bind, Serve, Steady, Go, Fail, End
<1>5. ASSUME NEW path \in BOOLEAN, Launch(path) PROVE Taken'
  BY <1>5 DEF Launch
<1>6. CASE Signal \/ Exit \/ Edit \/ UNCHANGED vars
  BY <1>6 DEF Signal, Exit, Edit, vars, progress, Steady, End
<1>7. ASSUME NEW l \in Hosts,
             Arm(l) \/ Accept(l) \/ Finish(l) \/ Close(l) \/ Drain(l)
      PROVE  Taken'
  BY <1>7 DEF Arm, Accept, Finish, Close, Drain, ServerStep, Steady
<1> QED
  BY <1>2, <1>3, <1>4, <1>5, <1>6, <1>7 DEF Next, Begin

\* A configuration in use enforces what its file says, for files of any length
\* and numbers of any size: every limit is the exact product of its factors, no
\* tier is lost beside a null entry, and none can never be met.
THEOREM AlwaysConfigSound == Spec => []ConfigSound
<1>1. Init => Taken
  BY DEF Init, Taken
<1>2. IInv /\ Taken /\ [Next]_vars => Taken'
  BY NextTaken
<1>3. IInv /\ Taken => ConfigSound
  BY LoadedSound DEF Taken, ConfigSound
<1> QED
  BY <1>1, <1>2, <1>3, SpecIInv, PTL DEF Spec

=============================================================================
