-------------------------- MODULE SinkShutdownProofs --------------------------
(***************************************************************************)
(* Proofs about SinkShutdown, for any number of sessions and any times:    *)
(* when every delay and every blocking call is shorter than the waits of   *)
(* the two stops, the unlocked counts are never too low, a connection has  *)
(* one caller, the stats queue outlives its users, a stop closes only idle *)
(* connections, and a wait that expires does so over dead tasks.           *)
(*                                                                         *)
(* The argument is one induction over all of it, since each part needs the *)
(* others: the wait ends over dead tasks because the count is not too low  *)
(* or because its clock has outlasted them, and the counts may be reset    *)
(* and the tasks of the next session counted because nobody is left.       *)
(***************************************************************************)
EXTENDS SinkShutdown, FiniteSetTheorems, TLAPS

\* The longest a task stays in a delay or in a blocking call.
Longest == IF CallTime < Period THEN Period ELSE CallTime

\* What tcp_client_pipeline_stop() counts on ("every blocking call above is
\* bounded"): the waits outlast every delay and every call.
CallsFitTheWait == Longest < SinkWait /\ Longest < StatsWait

Places == {"none", "boot", "loop", "delay", "work", "call", "exit", "store",
           "gone"}
Todos == {<<>>, <<"sink">>, <<"stats", "sink">>, <<"sink", "stats", "sink">>,
          <<"stats", "stats", "sink">>}

TypeOK ==
  /\ session \in 0..MaxSessions /\ step \in 1..4 /\ todo \in Todos
  /\ control \in {"off", "load", "store", "stats", "streaming", "stopping",
                  "waiting"}
  /\ waited \in Nat /\ counted \in Int
  /\ stop \in [Groups -> BOOLEAN] /\ alive \in [Groups -> Int]
  /\ loaded \in [Tasks -> Int] /\ at \in [Tasks -> Places]
  /\ left \in [Tasks -> 0..Longest]

Starting == control \in {"load", "store"}
Stopping == control \in {"stopping", "waiting"}

\* Nothing is left to stop unless the state machine is stopping, ...
TodoInv ==
  /\ ~Stopping => todo = <<>>
  /\ control = "waiting" => todo # <<>> /\ stop[Head(todo)]
  /\ Starting \/ control = "stats" => session >= 1

\* ... and only tasks of the latest session run, none of them while it is off.
\* A stats task runs only between its creation and the wait for the stats
\* pipeline, and until then it has its queue.
LifeInv ==
  /\ \A t \in Tasks : Running(t) => t[2] = session /\ control # "off"
  /\ \A t \in Tasks : Running(t) /\ Stopping => todo # <<>>
  /\ \A t \in Tasks : Running(t) /\ Group(Kind(t)) = "stats" =>
       /\ statsQueue # 0 /\ at[t] # "boot" /\ control # "stats"
       /\ Starting => step = 4
       /\ Stopping => Head(todo) = "stats"
       /\ at[t] \in {"exit", "store"} => stop["stats"]
  /\ Starting /\ step >= 3 => statsQueue # 0 /\ ~stop["stats"]

\* Every copy of a count that will be stored is high enough.
CountInvOf(g) ==
  /\ Cardinality(RunningOf(g)) <= alive[g]
  /\ \A t \in Tasks : at[t] = "store" /\ Group(Kind(t)) = g =>
       Cardinality(RunningOf(g)) <= loaded[t]
  /\ control = "store" /\ Group(Order[step]) = g =>
       Cardinality(RunningOf(g)) <= counted

CountInv == \A g \in Groups : CountInvOf(g)

\* A task of the group that is waited for does not begin another delay or call,
\* so what is left of the present one and the time waited add up to no more
\* than the longest one.
ClockInv ==
  control = "waiting" => \A t \in Tasks :
    Running(t) /\ Group(Kind(t)) = Head(todo) =>
      /\ waited <= Longest
      /\ at[t] \in {"delay", "call"} => left[t] + waited <= Longest
      /\ at[t] = "work" /\ Kind(t) = "stat" => waited = 0

IInv == TypeOK /\ TodoInv /\ LifeInv /\ CountInv /\ ClockInv

-----------------------------------------------------------------------------
(***************************************************************************)
(* Kinds, and how many run.                                                *)
(***************************************************************************)

\* The sink's tasks are created first, then those of the stats pipeline.
LEMMA OrderOfKinds ==
  /\ Order[1] = "imu" /\ Order[2] = "cam"
  /\ Order[3] = "prod" /\ Order[4] = "stat"
  /\ \A i \in 1..4 : Order[i] \in Kinds
  /\ Group("imu") = "sink" /\ Group("cam") = "sink"
  /\ Group("prod") = "stats" /\ Group("stat") = "stats"
BY DEF Order, Kinds, Group

\* A task has a kind, and a kind is of one of the two groups.
LEMMA KindOfTask ==
  ASSUME NEW t \in Tasks
  PROVE  /\ Kind(t) \in Kinds /\ Group(Kind(t)) \in Groups
         /\ t[2] \in 1..MaxSessions /\ t = <<Kind(t), t[2]>>
         /\ Group(Kind(t)) = "sink" <=> Kind(t) \in {"imu", "cam"}
         /\ Group(Kind(t)) = "stats" <=> Kind(t) \in {"prod", "stat"}
BY DEF Tasks, Kind, Kinds, Group, Groups

\* There are finitely many tasks, so they can be counted.
LEMMA RunningFinite ==
  ASSUME NEW g
  PROVE  IsFiniteSet(RunningOf(g)) /\ Cardinality(RunningOf(g)) \in Nat
<1>1. IsFiniteSet(1..MaxSessions)
  BY TimeAssumption, FS_Interval
<1>2. IsFiniteSet(Kinds)
  <2>1. IsFiniteSet({"imu"} \cup {"cam"})
    BY FS_Singleton, FS_AddElement
  <2>2. IsFiniteSet(({"imu"} \cup {"cam"}) \cup {"prod"})
    BY <2>1, FS_AddElement
  <2>3. IsFiniteSet((({"imu"} \cup {"cam"}) \cup {"prod"}) \cup {"stat"})
    BY <2>2, FS_AddElement
  <2>4. Kinds = (({"imu"} \cup {"cam"}) \cup {"prod"}) \cup {"stat"}
    BY DEF Kinds
  <2> QED
    BY <2>3, <2>4
<1>3. IsFiniteSet(Tasks)
  BY <1>1, <1>2, FS_Product DEF Tasks
<1>4. RunningOf(g) \in SUBSET Tasks
  BY DEF RunningOf
<1>5. IsFiniteSet(RunningOf(g))
  BY <1>3, <1>4, FS_Subset
<1> QED
  BY <1>5, FS_CardinalityType

\* When no task is new, no more of them run.
LEMMA FewerRun ==
  ASSUME NEW g, \A t \in Tasks : Running(t)' => Running(t)
  PROVE  /\ Cardinality(RunningOf(g)') <= Cardinality(RunningOf(g))
         /\ Cardinality(RunningOf(g)') \in Nat
<1>1. RunningOf(g)' \in SUBSET RunningOf(g)
  BY DEF RunningOf
<1> QED
  BY <1>1, RunningFinite, FS_Subset, FS_CardinalityType

\* When one task of the group ends, one fewer runs.
LEMMA OneEnds ==
  ASSUME NEW t \in Tasks, Running(t), ~Running(t)',
         \A u \in Tasks : Running(u)' => Running(u)
  PROVE  LET g == Group(Kind(t))
         IN  Cardinality(RunningOf(g)') <= Cardinality(RunningOf(g)) - 1
<1> DEFINE g == Group(Kind(t))
<1>1. RunningOf(g)' \in SUBSET (RunningOf(g) \ {t})
  BY DEF RunningOf
<1>2. t \in RunningOf(g)
  BY DEF RunningOf
<1>3. /\ IsFiniteSet(RunningOf(g) \ {t})
      /\ Cardinality(RunningOf(g) \ {t}) = Cardinality(RunningOf(g)) - 1
  BY <1>2, RunningFinite, FS_RemoveElement
<1>4. /\ IsFiniteSet(RunningOf(g)')
      /\ Cardinality(RunningOf(g)') <= Cardinality(RunningOf(g) \ {t})
  BY <1>1, <1>3, FS_Subset
<1> QED
  BY <1>3, <1>4

\* When one task is new, at most one more of its group runs, and no more of
\* the other.
LEMMA OneMore ==
  ASSUME NEW t, NEW g,
         \A u \in Tasks : Running(u)' => Running(u) \/ u = t
  PROVE  /\ Cardinality(RunningOf(g)') <= Cardinality(RunningOf(g)) + 1
         /\ Group(Kind(t)) # g
              => Cardinality(RunningOf(g)') <= Cardinality(RunningOf(g))
         /\ Cardinality(RunningOf(g)') \in Nat
<1>1. RunningOf(g)' \in SUBSET (RunningOf(g) \cup {t})
  BY DEF RunningOf
<1>2. /\ IsFiniteSet(RunningOf(g) \cup {t})
      /\ Cardinality(RunningOf(g) \cup {t}) <= Cardinality(RunningOf(g)) + 1
  BY RunningFinite, FS_AddElement
<1>3. Cardinality(RunningOf(g)') <= Cardinality(RunningOf(g) \cup {t})
  BY <1>1, <1>2, FS_Subset
<1>4. Cardinality(RunningOf(g)') \in Nat
  <2>1. IsFiniteSet(RunningOf(g)')
    BY <1>1, <1>2, FS_Subset
  <2> QED
    BY <2>1, FS_CardinalityType
<1>5. ASSUME Group(Kind(t)) # g
      PROVE  Cardinality(RunningOf(g)') <= Cardinality(RunningOf(g))
  <2>1. RunningOf(g)' \in SUBSET RunningOf(g)
    BY <1>5 DEF RunningOf
  <2> QED
    BY <2>1, RunningFinite, FS_Subset
<1> QED
  BY <1>2, <1>3, <1>4, <1>5, RunningFinite, FS_CardinalityType

-----------------------------------------------------------------------------
(***************************************************************************)
(* What a step of a task, and of the state machine, does.                  *)
(***************************************************************************)

\* A task moves to the place p: with the flag of its group up it begins no
\* delay, with the flag of the sink up no call, and it leaves for good only
\* over a flag it has seen, or for want of memory.
Moves(t, p) ==
  /\ at' = [at EXCEPT ![t] = p] /\ p \in Places \ {"none", "boot"}
  /\ p \in {"exit", "store"} => at[t] \in {"exit", "boot"} \/ StopSeen(t)
  /\ p = "work" => Kind(t) = "cam" \/ ~StopSeen(t)
  /\ p = "delay" => ~StopSeen(t)
  /\ p = "call" => at[t] = "work" /\ Kind(t) # "prod" /\ ~stop["sink"]
  /\ \/ left' = left /\ p \notin {"delay", "call"}
     \/ \E d \in 1..Longest : left' = [left EXCEPT ![t] = d]

\* Every step of a task is such a move.
LEMMA TaskMoves ==
  ASSUME NEW t \in Tasks, TaskStep(t)
  PROVE  /\ UNCHANGED taskFrame /\ Running(t)
         /\ \E p \in Places : Moves(t, p)
<1>1. UNCHANGED taskFrame
  BY DEF TaskStep, Boot, EndCall, Loop, Wake, WorkDone, BeginCall, ExitLoad,
         ExitStore
<1>2. Running(t)
  BY DEF Running, TaskStep, Boot, EndCall, Loop, Wake, WorkDone, BeginCall,
         ExitLoad, ExitStore
<1>3. Period \in 1..Longest /\ CallTime \in 1..Longest /\ Longest \in Nat
  BY TimeAssumption DEF Longest
<1>4. \E p \in Places : Moves(t, p)
  <2>1. ASSUME NEW ok \in BOOLEAN, Boot(t, ok) PROVE \E p \in Places : Moves(t, p)
    BY <2>1 DEF Boot, Go, Moves, Places
  <2>2. ASSUME NEW ok \in BOOLEAN, EndCall(t, ok)
        PROVE  \E p \in Places : Moves(t, p)
    BY <2>2 DEF EndCall, Go, Moves, Places
  <2>3. CASE Loop(t)
    <3>1. CASE StopSeen(t)
      BY <2>3, <3>1 DEF Loop, Go, Moves, Places
    <3>2. CASE ~StopSeen(t)
      <4>1. PICK d \in 1..Period : left' = [left EXCEPT ![t] = d]
        BY <2>3, <3>2 DEF Loop
      <4>2. d \in 1..Longest
        BY <1>3
      <4> QED
        BY <2>3, <3>2, <4>1, <4>2 DEF Loop, Go, Moves, Places
    <3> QED
      BY <3>1, <3>2
  <2>4. CASE Wake(t)
    BY <2>4 DEF Wake, Go, Moves, Places
  <2>5. CASE WorkDone(t)
    BY <2>5 DEF WorkDone, Go, Moves, Places
  <2>6. CASE BeginCall(t)
    <3>1. CASE stop["sink"]
      BY <2>6, <3>1 DEF BeginCall, Go, Moves, Places
    <3>2. CASE ~stop["sink"]
      <4>1. PICK d \in 1..CallTime : left' = [left EXCEPT ![t] = d]
        BY <2>6, <3>2 DEF BeginCall
      <4>2. d \in 1..Longest
        BY <1>3
      <4> QED
        BY <2>6, <3>2, <4>1, <4>2 DEF BeginCall, Go, Moves, Places
    <3> QED
      BY <3>1, <3>2
  <2>7. CASE ExitLoad(t)
    BY <2>7 DEF ExitLoad, Go, Moves, Places
  <2>8. CASE ExitStore(t)
    BY <2>8 DEF ExitStore, Go, Moves, Places
  <2> QED
    BY <2>1, <2>2, <2>3, <2>4, <2>5, <2>6, <2>7, <2>8 DEF TaskStep
<1> QED
  BY <1>1, <1>2, <1>4

\* Creating a task, or failing to, moves the state machine on as follows.
LEMMA AfterCreation ==
  ASSUME TypeOK, TodoInv, Create \/ CreateFails
  PROVE  /\ control = "store" /\ <<Order[step], session>> \in Tasks
         /\ \/ /\ step \in {1, 3} /\ control' = "load" /\ step' = step + 1
               /\ Create /\ todo' = todo
            \/ /\ step = 2 /\ control' = "stats" /\ step' = step
               /\ Create /\ todo' = todo
            \/ /\ step = 4 /\ control' = "streaming" /\ step' = step
               /\ Create /\ todo' = todo
            \/ /\ CreateFails /\ control' = "stopping" /\ step' = step
               /\ todo' \in Todos \ {<<>>, <<"sink">>}
               /\ step = 4 => Head(todo') = "stats"
<1> USE OrderOfKinds
<1>1. step \in 1..4 /\ session \in 0..MaxSessions /\ control = "store"
  BY DEF TypeOK, Create, CreateFails
<1>2. <<Order[step], session>> \in Tasks
  BY <1>1, TimeAssumption DEF TodoInv, Starting, Tasks
<1>3. CASE Create
  <2>1. AfterCreate /\ todo' = todo
    BY <1>3 DEF Create
  <2>2. CASE step = 2
    BY <1>1, <1>2, <1>3, <2>1, <2>2 DEF AfterCreate
  <2>3. CASE step = 4
    BY <1>1, <1>2, <1>3, <2>1, <2>3 DEF AfterCreate
  <2>4. CASE step \in {1, 3}
    BY <1>1, <1>2, <1>3, <2>1, <2>4 DEF AfterCreate
  <2> QED
    BY <1>1, <2>2, <2>3, <2>4
<1>4. CASE CreateFails
  <2>1. /\ control' = "stopping" /\ step' = step
        /\ todo' = CASE Order[step] = "cam"  -> <<"sink", "stats", "sink">>
                     [] Order[step] = "stat" -> <<"stats", "stats", "sink">>
                     [] OTHER                -> <<"stats", "sink">>
    BY <1>4 DEF CreateFails
  <2>2. CASE step = 2
    BY <1>1, <1>2, <1>4, <2>1, <2>2 DEF Todos
  <2>3. CASE step = 4
    BY <1>1, <1>2, <1>4, <2>1, <2>3 DEF Todos
  <2>4. CASE step \in {1, 3}
    BY <1>1, <1>2, <1>4, <2>1, <2>4 DEF Todos
  <2> QED
    BY <1>1, <2>2, <2>3, <2>4
<1> QED
  BY <1>3, <1>4

\* The list of groups to stop is used up from its head.
LEMMA TodoShrinks ==
  /\ \A w \in Todos \ {<<>>} : Head(w) \in Groups /\ Tail(w) \in Todos
  /\ \A w \in Todos \ {<<>>, <<"sink">>} : Tail(w) # <<>>
<1>1. Head(<<"sink">>) = "sink" /\ Tail(<<"sink">>) = <<>>
  OBVIOUS
<1>2. /\ Head(<<"stats", "sink">>) = "stats"
      /\ Tail(<<"stats", "sink">>) = <<"sink">>
  OBVIOUS
<1>3. /\ Head(<<"sink", "stats", "sink">>) = "sink"
      /\ Tail(<<"sink", "stats", "sink">>) = <<"stats", "sink">>
  OBVIOUS
<1>4. /\ Head(<<"stats", "stats", "sink">>) = "stats"
      /\ Tail(<<"stats", "stats", "sink">>) = <<"stats", "sink">>
  OBVIOUS
<1>5. /\ <<"sink">> # <<>> /\ <<"stats", "sink">> # <<>>
      /\ <<"sink">> # <<"stats", "sink">>
  OBVIOUS
<1> QED
  BY <1>1, <1>2, <1>3, <1>4, <1>5 DEF Todos, Groups

-----------------------------------------------------------------------------
(***************************************************************************)
(* Every step preserves the parts of the invariant.                        *)
(***************************************************************************)

\* The state machine keeps the variables in their types.
LEMMA TypeControl ==
  ASSUME TypeOK, TodoInv, ControlStep
  PROVE  TypeOK'
<1> USE DEF TypeOK
<1>1. CASE StartSink
  BY <1>1, TimeAssumption DEF StartSink, resourceVars, Groups
<1>2. ASSUME NEW ok \in BOOLEAN, StartStats(ok) PROVE TypeOK'
  BY <1>2 DEF StartStats, Todos, Groups
<1>3. CASE LoadCount
  BY <1>3, OrderOfKinds DEF LoadCount, Groups
<1>4. CASE Create \/ CreateFails
  <2>1. /\ step' \in 1..4 /\ todo' \in Todos
        /\ control' \in {"load", "stats", "streaming", "stopping"}
    BY <1>4, AfterCreation
  <2>2. /\ UNCHANGED <<session, waited, stop, counted, loaded, left>>
        /\ alive' \in [Groups -> Int] /\ at' \in [Tasks -> Places]
    <3>1. CASE Create
      <4>1. /\ Group(Order[step]) \in Groups /\ counted + 1 \in Int
            /\ alive' = [alive EXCEPT ![Group(Order[step])] = counted + 1]
            /\ UNCHANGED <<session, waited, stop, counted, loaded, left>>
        BY <3>1, OrderOfKinds DEF Create, Groups
      <4>2. \E p \in {"boot", "loop"} :
              at' = [at EXCEPT ![<<Order[step], session>>] = p]
        BY <3>1 DEF Create
      <4> QED
        BY <4>1, <4>2 DEF Places
    <3>2. CASE CreateFails
      BY <3>2, OrderOfKinds DEF CreateFails, Groups
    <3> QED
      BY <1>4, <3>1, <3>2
  <2> QED
    BY <2>1, <2>2
<1>5. CASE RollBackEarly \/ TearDown
  BY <1>5 DEF RollBackEarly, TearDown, Todos, Groups
<1>6. CASE BeginWait
  BY <1>6, TodoShrinks DEF BeginWait
<1>7. CASE AllStopped
  BY <1>7 DEF AllStopped, controlVars
<1>8. CASE WaitDone \/ WaitExpires
  <2>1. todo \in Todos \ {<<>>}
    BY <1>8 DEF WaitDone, WaitExpires, TodoInv
  <2>2. todo' \in Todos
    BY <1>8, <2>1, TodoShrinks DEF WaitDone, WaitExpires
  <2>3. /\ waited' = 0 /\ control' = "stopping"
        /\ UNCHANGED <<session, step, stop, alive, counted, loaded, at, left>>
    BY <1>8 DEF WaitDone, WaitExpires
  <2> QED
    BY <2>2, <2>3
<1> QED
  BY <1>1, <1>2, <1>3, <1>4, <1>5, <1>6, <1>7, <1>8 DEF ControlStep, StopStep

\* So do the tasks ...
LEMMA TypeTask ==
  ASSUME TypeOK, NEW t \in Tasks, TaskStep(t)
  PROVE  TypeOK'
<1>1. UNCHANGED <<session, step, todo, waited, counted, control, stop>>
  BY TaskMoves DEF taskFrame, controlVars
<1>2. at' \in [Tasks -> Places] /\ left' \in [Tasks -> 0..Longest]
  <2>1. PICK p \in Places : Moves(t, p)
    BY TaskMoves
  <2>2. at' \in [Tasks -> Places]
    BY <2>1 DEF Moves, TypeOK
  <2>3. Longest \in Nat
    BY TimeAssumption DEF Longest
  <2>4. left' \in [Tasks -> 0..Longest]
    BY <2>1, <2>3 DEF Moves, TypeOK
  <2> QED
    BY <2>2, <2>4
<1>3. alive' \in [Groups -> Int] /\ loaded' \in [Tasks -> Int]
  BY KindOfTask DEF TypeOK, TaskStep, Boot, EndCall, Loop, Wake, WorkDone,
     BeginCall, ExitLoad, ExitStore
<1> QED
  BY <1>1, <1>2, <1>3 DEF TypeOK

\* ... and the clock.
LEMMA TypeTick ==
  ASSUME TypeOK, Tick
  PROVE  TypeOK'
BY TimeAssumption DEF TypeOK, Tick, Longest, Sleeping, resourceVars

\* What is left to stop, and its flag.
LEMMA TodoNext ==
  ASSUME TypeOK, TodoInv, Next
  PROVE  TodoInv'
<1> USE DEF TodoInv, Starting, Stopping
<1>1. CASE StartSink
  BY <1>1 DEF StartSink, TypeOK
<1>2. ASSUME NEW ok \in BOOLEAN, StartStats(ok) PROVE TodoInv'
  BY <1>2 DEF StartStats
<1>3. CASE LoadCount
  BY <1>3 DEF LoadCount
<1>4. CASE Create \/ CreateFails
  <2>1. session' = session /\ control = "store"
    BY <1>4 DEF Create, CreateFails
  <2> QED
    BY <1>4, <2>1, AfterCreation
<1>5. CASE RollBackEarly \/ TearDown
  BY <1>5 DEF RollBackEarly, TearDown
<1>6. CASE BeginWait
  BY <1>6, TodoShrinks DEF BeginWait, TypeOK
<1>7. CASE AllStopped
  BY <1>7 DEF AllStopped, controlVars
<1>8. CASE WaitDone \/ WaitExpires
  BY <1>8 DEF WaitDone, WaitExpires
<1>9. ASSUME NEW t \in Tasks, TaskStep(t) PROVE TodoInv'
  BY <1>9, TaskMoves DEF taskFrame, controlVars
<1>10. CASE Tick
  BY <1>10 DEF Tick
<1> QED
  BY <1>1, <1>2, <1>3, <1>4, <1>5, <1>6, <1>7, <1>8, <1>9, <1>10
  DEF Next, ControlStep, StopStep

\* A wait that ends has outlived the group it was for.
LEMMA WaitOutlives ==
  ASSUME CallsFitTheWait, TypeOK, TodoInv, CountNeverLow, ClockInv,
         WaitDone \/ WaitExpires
  PROVE  RunningOf(Head(todo)) = {}
<1> DEFINE g == Head(todo)
<1>1. g \in Groups /\ control = "waiting"
  BY TodoShrinks DEF TypeOK, TodoInv, WaitDone, WaitExpires
<1>2. CASE WaitDone
  <2>1. Cardinality(RunningOf(g)) <= alive[g] /\ alive[g] <= 0
    BY <1>1, <1>2 DEF CountNeverLow, WaitDone
  <2>2. Cardinality(RunningOf(g)) = 0
    BY <1>1, <2>1, RunningFinite DEF TypeOK
  <2> QED
    BY <2>2, RunningFinite, FS_EmptySet
<1>3. CASE WaitExpires
  <2>1. waited > Longest
    BY <1>1, <1>3, TimeAssumption
    DEF WaitExpires, WaitLimit, CallsFitTheWait, Longest, Groups
  <2>2. ASSUME NEW t \in RunningOf(g) PROVE FALSE
    <3>1. t \in Tasks /\ Running(t) /\ Group(Kind(t)) = g
      BY DEF RunningOf
    <3>2. waited <= Longest
      BY <1>1, <3>1 DEF ClockInv
    <3> QED
      BY <2>1, <3>2, TimeAssumption DEF TypeOK, Longest
  <2> QED
    BY <2>2
<1> QED
  BY <1>2, <1>3

\* Who lives when.
LEMMA LifeNext ==
  ASSUME CallsFitTheWait, IInv, Next
  PROVE  LifeInv'
<1> USE DEF IInv, LifeInv, Starting, Stopping
<1>1. CASE StartSink
  BY <1>1 DEF StartSink, Running
<1>2. ASSUME NEW ok \in BOOLEAN, StartStats(ok) PROVE LifeInv'
  <2>1. session >= 1
    BY <1>2 DEF StartStats, TodoInv
  <2>2. \A t \in Tasks : Running(t) => Kind(t) \notin {"prod", "stat"}
    BY <1>2, KindOfTask DEF StartStats
  <2>3. /\ control = "stats" /\ at' = at /\ session' = session
        /\ \/ ok /\ control' = "load" /\ statsQueue' = session
           \/ ~ok /\ control' = "stopping" /\ todo' = <<"stats", "sink">>
        /\ stop' = [stop EXCEPT !["stats"] = FALSE]
    BY <1>2 DEF StartStats
  <2> QED
    BY <2>1, <2>2, <2>3, KindOfTask DEF Running, TypeOK, Groups
<1>3. CASE LoadCount
  BY <1>3 DEF LoadCount, Running, resourceVars
<1>4. CASE Create
  <2> DEFINE n == <<Order[step], session>>
  <2>1. /\ n \in Tasks /\ Kind(n) = Order[step] /\ n[2] = session
        /\ step \in 1..4 /\ control = "store"
    BY <1>4, AfterCreation DEF Kind, TypeOK
  <2>2. /\ at' = [at EXCEPT ![n] = at'[n]]
        /\ at'[n] = IF step <= 2 THEN "boot" ELSE "loop"
        /\ UNCHANGED <<session, todo, stop, statsQueue>>
    BY <1>4, <2>1, OrderOfKinds DEF Create, TypeOK, resourceVars
  <2>3. \/ step \in {1, 3} /\ control' = "load" /\ step' = step + 1
        \/ step = 2 /\ control' = "stats"
        \/ step = 4 /\ control' = "streaming"
    <3>1. AfterCreate
      BY <1>4 DEF Create
    <3> QED
      BY <2>1, <3>1 DEF AfterCreate
  <2>4. Group(Kind(n)) = "stats" => step >= 3
    BY <2>1, OrderOfKinds
  <2>5. \A t \in Tasks : Running(t)' =>
          t = n \/ (Running(t) /\ at'[t] = at[t])
    BY <2>1, <2>2 DEF Running, TypeOK
  <2>6. ASSUME NEW t \in Tasks, Running(t)'
        PROVE  /\ t[2] = session' /\ control' # "off" /\ ~Stopping'
               /\ Group(Kind(t)) = "stats" =>
                    /\ statsQueue' # 0 /\ at'[t] # "boot" /\ control' # "stats"
                    /\ Starting' => step' = 4
                    /\ at'[t] \in {"exit", "store"} => stop'["stats"]
    <3>1. CASE t = n
      BY <2>1, <2>2, <2>3, <2>4, <3>1
    <3>2. CASE t # n
      BY <2>1, <2>2, <2>3, <2>5, <2>6, <3>2
    <3> QED
      BY <3>1, <3>2
  <2>7. Starting' /\ step' >= 3 => statsQueue' # 0 /\ ~stop'["stats"]
    BY <2>1, <2>2, <2>3
  <2> QED
    BY <2>6, <2>7
<1>5. CASE CreateFails
  <2>1. /\ control = "store" /\ step \in 1..4 /\ control' = "stopping"
        /\ todo' # <<>> /\ (step = 4 => Head(todo') = "stats")
    BY <1>5, AfterCreation DEF TypeOK, Create, CreateFails
  <2>2. UNCHANGED <<session, at, stop>>
    BY <1>5 DEF CreateFails
  <2>3. step = 4 => statsQueue' = statsQueue
    BY <1>5, OrderOfKinds DEF CreateFails
  <2> QED
    BY <2>1, <2>2, <2>3 DEF Running
<1>6. CASE RollBackEarly \/ TearDown
  <2>1. /\ control \in {"off", "streaming"} /\ control' = "stopping"
        /\ todo' = <<"stats", "sink">> /\ Head(todo') = "stats"
        /\ UNCHANGED <<session, at, statsQueue>>
        /\ stop'["stats"] = stop["stats"]
    BY <1>6 DEF RollBackEarly, TearDown, resourceVars, TypeOK, Groups
  <2> QED
    BY <2>1 DEF Running
<1>7. CASE BeginWait
  <2>1. stop["stats"] => stop'["stats"]
    BY <1>7, TodoShrinks DEF BeginWait, TypeOK, Groups
  <2> QED
    BY <1>7, <2>1 DEF BeginWait, Running, resourceVars
<1>8. CASE AllStopped
  BY <1>8 DEF AllStopped, Running, controlVars, resourceVars
<1>9. CASE WaitDone \/ WaitExpires
  <2>1. RunningOf(Head(todo)) = {}
    BY <1>9, WaitOutlives DEF CountInv, CountInvOf, CountNeverLow
  <2>2. /\ control = "waiting" /\ control' = "stopping" /\ todo # <<>>
        /\ todo' = Tail(todo) /\ UNCHANGED <<session, at, stop>>
        /\ Head(todo) # "stats" => statsQueue' = statsQueue
    BY <1>9 DEF WaitDone, WaitExpires, TodoInv, Reclaim, resourceVars
  <2>3. ASSUME NEW t \in Tasks, Running(t)
        PROVE  Group(Kind(t)) = "sink" /\ Tail(todo) # <<>>
    <3>1. Group(Kind(t)) # Head(todo)
      BY <2>1, <2>3 DEF RunningOf
    <3>2. Group(Kind(t)) \in {"sink", "stats"} /\ Group(Kind(t)) # "stats"
      BY <2>2, <2>3, <3>1, KindOfTask DEF Groups
    <3>3. todo \in Todos \ {<<>>, <<"sink">>}
      BY <2>2, <3>1, <3>2, Head(<<"sink">>) = "sink" DEF TypeOK
    <3> QED
      BY <3>2, <3>3, TodoShrinks
  <2> QED
    BY <2>2, <2>3 DEF Running
<1>10. ASSUME NEW t \in Tasks, TaskStep(t) PROVE LifeInv'
  <2>1. PICK p \in Places : Moves(t, p)
    BY <1>10, TaskMoves
  <2>2. UNCHANGED taskFrame /\ Running(t)
    BY <1>10, TaskMoves
  <2>3. /\ at' = [at EXCEPT ![t] = p] /\ p # "boot"
        /\ p \in {"exit", "store"} => at[t] \in {"exit", "boot"} \/ StopSeen(t)
    BY <2>1 DEF Moves
  <2>4. \A u \in Tasks : Running(u)' => Running(u)
    BY <2>2, <2>3 DEF Running, TypeOK
  <2> QED
    BY <2>2, <2>3, <2>4 DEF taskFrame, controlVars, StopSeen, TypeOK
<1>11. CASE Tick
  BY <1>11 DEF Tick, Running, resourceVars
<1> QED
  BY <1>1, <1>2, <1>3, <1>4, <1>5, <1>6, <1>7, <1>8, <1>9, <1>10, <1>11
  DEF Next, ControlStep, StopStep

\* The clock of a wait: a task that is waited for sees the flag of its group
\* wherever it could begin a delay, and the flag of the sink before a call; the
\* stats writer alone may begin one more call, before any time has passed.
LEMMA ClockNext ==
  ASSUME CallsFitTheWait, IInv, Next
  PROVE  ClockInv'
<1> USE DEF IInv
<1>1. CASE control' # "waiting"
  BY <1>1 DEF ClockInv
<1>2. CASE BeginWait
  <2>1. waited' = 0 /\ UNCHANGED <<at, left, todo>>
    BY <1>2 DEF BeginWait
  <2>2. \A t \in Tasks : left[t] \in 0..Longest
    BY DEF TypeOK
  <2>3. Longest \in Nat
    BY TimeAssumption DEF Longest
  <2> QED
    BY <2>1, <2>2, <2>3 DEF ClockInv, Running
<1>3. ASSUME NEW t \in Tasks, TaskStep(t), control' = "waiting" PROVE ClockInv'
  <2>1. PICK p \in Places : Moves(t, p)
    BY <1>3, TaskMoves
  <2>2. UNCHANGED <<todo, waited, control, stop>> /\ Running(t)
    BY <1>3, TaskMoves DEF taskFrame, controlVars
  <2>3. /\ at' = [at EXCEPT ![t] = p] /\ \A u \in Tasks \ {t} : left'[u] = left[u]
    BY <2>1 DEF Moves, TypeOK
  <2>4. control = "waiting" /\ todo # <<>> /\ stop[Head(todo)]
    BY <1>3, <2>2 DEF TodoInv
  <2>5. ASSUME Group(Kind(t)) = Head(todo)
        PROVE  /\ waited <= Longest
               /\ p \in {"delay", "call"} => left'[t] + waited <= Longest
               /\ p = "work" /\ Kind(t) = "stat" => waited = 0
    <3>1. StopSeen(t) /\ waited <= Longest
      BY <2>2, <2>4, <2>5 DEF StopSeen, ClockInv
    <3>2. p # "delay" /\ (p = "work" => Kind(t) = "cam")
      BY <2>1, <3>1 DEF Moves
    <3>3. ASSUME p = "call"
          PROVE  Kind(t) = "stat" /\ at[t] = "work" /\ left'[t] \in 1..Longest
      <4>1. at[t] = "work" /\ Kind(t) # "prod" /\ ~stop["sink"]
        BY <2>1, <3>3 DEF Moves
      <4>2. Group(Kind(t)) # "sink" /\ Kind(t) \in Kinds
        BY <2>4, <2>5, <4>1, KindOfTask
      <4>3. Kind(t) = "stat"
        BY <4>1, <4>2 DEF Group, Kinds
      <4>4. left'[t] \in 1..Longest
        BY <2>1, <3>3 DEF Moves, TypeOK
      <4> QED
        BY <4>1, <4>3, <4>4
    <3>4. at[t] = "work" /\ Kind(t) = "stat" => waited = 0
      BY <2>2, <2>4, <2>5 DEF ClockInv
    <3> QED
      BY <3>1, <3>2, <3>3, <3>4, TimeAssumption DEF Longest
  <2>6. \A u \in Tasks \ {t} : at'[u] = at[u]
    BY <2>3 DEF TypeOK
  <2>7. at'[t] = p
    BY <2>3 DEF TypeOK
  <2> QED
    BY <2>2, <2>3, <2>4, <2>5, <2>6, <2>7 DEF ClockInv, Running
<1>4. ASSUME Tick, control' = "waiting" PROVE ClockInv'
  <2>1. control = "waiting" /\ waited' = waited + 1 /\ UNCHANGED <<todo, at>>
    BY <1>4 DEF Tick
  <2>2. ASSUME NEW t \in Tasks, Running(t), Group(Kind(t)) = Head(todo)
        PROVE  /\ at[t] \in {"delay", "call"} /\ left'[t] = left[t] - 1
               /\ left[t] \in 1..Longest /\ left[t] + waited <= Longest
    <3>1. Sleeping(t) /\ left'[t] = left[t] - 1
      BY <1>4, <2>2 DEF Tick
    <3>2. left[t] + waited <= Longest
      BY <2>1, <2>2, <3>1 DEF ClockInv, Sleeping
    <3> QED
      BY <3>1, <3>2 DEF Sleeping, TypeOK
  <2>3. waited \in Nat /\ Longest \in Nat
    BY TimeAssumption DEF TypeOK, Longest
  <2> QED
    BY <2>1, <2>2, <2>3 DEF ClockInv, Running
<1>5. ASSUME control' = "waiting"
      PROVE  BeginWait \/ (\E t \in Tasks : TaskStep(t)) \/ Tick
  <2>1. ~(StartSink \/ LoadCount \/ RollBackEarly \/ TearDown)
    BY <1>5 DEF StartSink, LoadCount, RollBackEarly, TearDown
  <2>2. ~(AllStopped \/ WaitDone \/ WaitExpires)
    BY <1>5 DEF AllStopped, WaitDone, WaitExpires
  <2>3. \A ok \in BOOLEAN : ~StartStats(ok)
    BY <1>5 DEF StartStats
  <2>4. ~(Create \/ CreateFails)
    BY <1>5, AfterCreation
  <2> QED
    BY <2>1, <2>2, <2>3, <2>4 DEF Next, ControlStep, StopStep
<1> QED
  BY <1>1, <1>2, <1>3, <1>4, <1>5

\* No step makes a count too low.  A count is incremented only while no task of
\* its group is between the load and the store of its own update: a consumer
\* task outranks the state machine on its core, and a stats task does not end
\* before it has seen the flag.
LEMMA CountNext ==
  ASSUME CallsFitTheWait, IInv, Next
  PROVE  CountInv'
<1> SUFFICES ASSUME NEW g \in Groups
             PROVE  CountInvOf(g)'
  BY DEF CountInv
<1> USE DEF IInv, CountInvOf
<1> DEFINE n == Cardinality(RunningOf(g))
<1>0. CountInvOf(g)
  BY DEF CountInv
<1>1. n \in Nat
  BY RunningFinite
<1>2. ASSUME at' = at PROVE n' = n
  BY <1>2 DEF RunningOf, Running
<1>3. CASE StartSink
  <2>1. /\ at' = at /\ loaded' = loaded /\ control' = "load"
        /\ alive' = [alive EXCEPT !["sink"] = 0]
    BY <1>3 DEF StartSink
  <2>2. RunningOf(g) = {}
    BY <1>3 DEF StartSink, LifeInv, RunningOf
  <2>3. n = 0
    BY <2>2, FS_EmptySet
  <2>4. alive'[g] >= 0
    BY <1>0, <2>1, <2>3 DEF TypeOK
  <2>5. \A t \in Tasks : at'[t] = "store" /\ Group(Kind(t)) = g => n <= loaded'[t]
    BY <1>0, <2>1
  <2> QED
    BY <1>2, <2>1, <2>3, <2>4, <2>5
<1>4. ASSUME NEW ok \in BOOLEAN, StartStats(ok) PROVE CountInvOf(g)'
  <2>1. /\ at' = at /\ loaded' = loaded /\ control' # "store"
        /\ alive' = [alive EXCEPT !["stats"] = 0]
    BY <1>4 DEF StartStats
  <2>2. RunningOf("stats") = {}
    BY <1>4 DEF StartStats, LifeInv, RunningOf
  <2>3. g = "stats" => n = 0
    BY <2>2, FS_EmptySet
  <2>4. n <= alive'[g]
    BY <1>0, <2>1, <2>3 DEF TypeOK
  <2>5. \A t \in Tasks : at'[t] = "store" /\ Group(Kind(t)) = g => n <= loaded'[t]
    BY <1>0, <2>1
  <2> QED
    BY <1>2, <2>1, <2>4, <2>5
<1>5. CASE LoadCount
  <2>1. /\ UNCHANGED <<at, loaded, alive, step>>
        /\ counted' = alive[Group(Order[step])]
    BY <1>5 DEF LoadCount
  <2> QED
    BY <1>0, <1>2, <2>1
<1>6. CASE Create
  <2> DEFINE k == Order[step]
             m == <<k, session>>
  <2>1. m \in Tasks /\ Kind(m) = k /\ step \in 1..4 /\ control' # "store"
    BY <1>6, AfterCreation DEF Kind, TypeOK
  <2>2. Group(k) \in Groups /\ control = "store"
    BY <1>6, <2>1, OrderOfKinds DEF Groups, Create
  <2>3. /\ alive' = [alive EXCEPT ![Group(k)] = counted + 1]
        /\ loaded' = loaded /\ MayRun("ctl")
        /\ at' = [at EXCEPT ![m] = at'[m]] /\ at'[m] \in {"boot", "loop"}
    BY <1>6, <2>1 DEF Create, TypeOK
  <2>4. n' <= n + 1 /\ (Group(k) # g => n' <= n) /\ n' \in Nat
    <3>1. \A u \in Tasks : Running(u)' => Running(u) \/ u = m
      BY <2>1, <2>3 DEF Running, TypeOK
    <3> QED
      BY <2>1, <3>1, OneMore
  <2>5. Group(k) = g => n <= counted
    BY <1>0, <2>2
  <2>6. ASSUME NEW t \in Tasks, at[t] = "store" PROVE Group(Kind(t)) # Group(k)
    <3>1. ~Outranks(Kind(t), "ctl") /\ Kind(t) \in Kinds
      BY <2>3, <2>6, KindOfTask DEF MayRun
    <3>2. Kind(t) \in {"prod", "stat"}
      BY <3>1 DEF Outranks, Core, Priority, Kinds
    <3>3. Group(Kind(t)) = "stats" /\ stop["stats"]
      BY <2>6, <3>2, KindOfTask DEF LifeInv, Running
    <3>4. step <= 2
      BY <2>1, <2>2, <3>3 DEF LifeInv, Starting
    <3> QED
      BY <2>1, <3>3, <3>4, OrderOfKinds
  <2>7. n' <= alive'[g]
    BY <1>0, <1>1, <2>2, <2>3, <2>4, <2>5 DEF TypeOK
  <2>8. \A t \in Tasks : at'[t] = "store" /\ Group(Kind(t)) = g => n' <= loaded'[t]
    <3>1. \A t \in Tasks : at'[t] = "store" => at[t] = "store"
      BY <2>1, <2>3 DEF TypeOK
    <3> QED
      BY <1>0, <1>1, <2>3, <2>4, <2>6, <3>1 DEF TypeOK
  <2> QED
    BY <2>1, <2>7, <2>8
<1>7. CASE CreateFails
  <2>1. /\ at' = at /\ loaded' = loaded /\ control' # "store"
        /\ alive' = [alive EXCEPT ![Group(Order[step])] = counted]
        /\ control = "store"
    BY <1>7 DEF CreateFails
  <2> QED
    BY <1>0, <1>2, <2>1 DEF TypeOK
<1>8. CASE RollBackEarly \/ TearDown \/ StopStep \/ Tick
  <2>1. at' = at /\ loaded' = loaded /\ alive' = alive
    BY <1>8 DEF RollBackEarly, TearDown, StopStep, BeginWait, AllStopped,
       WaitDone, WaitExpires, Tick, resourceVars
  <2>2. control' # "store"
    BY <1>8 DEF RollBackEarly, TearDown, StopStep, BeginWait, AllStopped,
       WaitDone, WaitExpires, Tick, ControlWaits
  <2> QED
    BY <1>0, <1>2, <2>1, <2>2
<1>9. ASSUME NEW t \in Tasks, TaskStep(t) PROVE CountInvOf(g)'
  <2>1. UNCHANGED <<control, counted, step>> /\ Running(t)
    BY <1>9, TaskMoves DEF taskFrame, controlVars
  <2>2. \A u \in Tasks : Running(u)' => Running(u)
    BY <1>9, <2>1, TaskMoves DEF Moves, Running, TypeOK
  <2>3. n' <= n /\ n' \in Nat
    BY <2>2, FewerRun
  <2>4. control' = "store" /\ Group(Order[step'])  = g => n' <= counted'
    BY <1>0, <1>1, <2>1, <2>3 DEF TypeOK
  <2>5. CASE ExitLoad(t)
    <3>1. /\ alive' = alive /\ \A u \in Tasks \ {t} : at'[u] = at[u]
          /\ loaded' = [loaded EXCEPT ![t] = alive[Group(Kind(t))]]
      BY <2>5 DEF ExitLoad, Go, TypeOK
    <3> QED
      BY <1>0, <1>1, <2>3, <2>4, <3>1 DEF TypeOK
  <2>6. CASE ExitStore(t)
    <3>1. /\ at[t] = "store" /\ at' = [at EXCEPT ![t] = "gone"]
          /\ alive' = [alive EXCEPT ![Group(Kind(t))] = loaded[t] - 1]
          /\ loaded' = [loaded EXCEPT ![t] = 0]
      BY <2>6 DEF ExitStore, Go
    <3>2. at'[t] = "gone" /\ ~Running(t)'
      BY <3>1 DEF Running, TypeOK
    <3>3. Group(Kind(t)) = g => n' <= n - 1
      BY <2>1, <2>2, <3>2, OneEnds
    <3>4. Group(Kind(t)) = g => n <= loaded[t]
      BY <1>0, <3>1
    <3>5. n' <= alive'[g]
      BY <1>0, <1>1, <2>3, <3>1, <3>3, <3>4 DEF TypeOK
    <3>6. \A u \in Tasks : at'[u] = "store" =>
            at[u] = "store" /\ loaded'[u] = loaded[u]
      BY <3>1, <3>2 DEF TypeOK
    <3>7. \A u \in Tasks : at'[u] = "store" /\ Group(Kind(u)) = g
            => n' <= loaded'[u]
      BY <1>0, <1>1, <2>3, <3>6 DEF TypeOK
    <3> QED
      BY <2>4, <3>5, <3>7
  <2>7. CASE ~ExitLoad(t) /\ ~ExitStore(t)
    <3>1. alive' = alive /\ loaded' = loaded
      BY <1>9, <2>7 DEF TaskStep, Boot, EndCall, Loop, Wake, WorkDone,
                        BeginCall
    <3>2. \A u \in Tasks : at'[u] = "store" => at[u] = "store"
      BY <1>9, <2>7 DEF TaskStep, Boot, EndCall, Loop, Wake, WorkDone,
                        BeginCall, Go, TypeOK
    <3> QED
      BY <1>0, <1>1, <2>3, <2>4, <3>1, <3>2 DEF TypeOK
  <2> QED
    BY <2>5, <2>6, <2>7
<1> QED
  BY <1>3, <1>4, <1>5, <1>6, <1>7, <1>8, <1>9 DEF Next, ControlStep

-----------------------------------------------------------------------------
(***************************************************************************)
(* The theorems.                                                           *)
(***************************************************************************)

\* Nothing runs at first.
LEMMA InitIInv == Init => IInv
<1> SUFFICES ASSUME Init PROVE IInv
  OBVIOUS
<1>1. Longest \in Nat
  BY TimeAssumption DEF Longest
<1>2. TypeOK
  BY <1>1, TimeAssumption DEF Init, TypeOK, Todos, Places
<1>3. \A t \in Tasks : ~Running(t) /\ at[t] # "store"
  BY DEF Init, Running
<1>4. TodoInv /\ LifeInv /\ ClockInv
  BY <1>3 DEF Init, TodoInv, LifeInv, ClockInv, Starting, Stopping
<1>5. \A g \in Groups : CountInvOf(g)
  <2>1. \A g : RunningOf(g) = {}
    BY <1>3 DEF RunningOf
  <2>2. \A g : Cardinality(RunningOf(g)) = 0
    BY <2>1, FS_EmptySet
  <2> QED
    BY <1>3, <2>2 DEF Init, CountInvOf
<1> QED
  BY <1>2, <1>4, <1>5 DEF IInv, CountInv

\* Every step of the tasks, the state machine and the clock preserves it all.
LEMMA NextIInv ==
  ASSUME CallsFitTheWait, IInv, [Next]_vars
  PROVE  IInv'
<1>1. CASE Next
  <2>1. TypeOK'
    BY <1>1, TypeControl, TypeTask, TypeTick DEF IInv, Next
  <2>2. TodoInv' /\ LifeInv' /\ CountInv' /\ ClockInv'
    BY <1>1, TodoNext, LifeNext, CountNext, ClockNext DEF IInv
  <2> QED
    BY <2>1, <2>2 DEF IInv
<1>2. CASE UNCHANGED vars
  <2>1. UNCHANGED <<session, control, step, todo, waited, stop, alive, counted,
                    loaded, at, left, open, statsQueue>>
    BY <1>2 DEF vars
  <2>2. TypeOK' /\ TodoInv' /\ LifeInv' /\ ClockInv'
    BY <2>1 DEF IInv, TypeOK, TodoInv, LifeInv, ClockInv, Running, Starting,
                Stopping
  <2>3. \A g : RunningOf(g)' = RunningOf(g)
    BY <2>1 DEF RunningOf, Running
  <2>4. CountInv'
    BY <2>1, <2>3 DEF IInv, CountInv, CountInvOf
  <2> QED
    BY <2>2, <2>4 DEF IInv
<1> QED
  BY <1>1, <1>2

\* The inductive invariant: types, what is left to stop, who lives when, the
\* counts and the clock of a wait.
THEOREM SinkInvariant ==
  ASSUME CallsFitTheWait
  PROVE  Spec => []IInv
BY InitIInv, NextIInv, PTL DEF Spec

\* A lost update of s_alive or s_stats_alive errs on the safe side only.
THEOREM CountsErrUpwards ==
  ASSUME CallsFitTheWait
  PROVE  Spec => []CountNeverLow
<1>1. IInv => CountNeverLow
  BY DEF IInv, CountInv, CountInvOf, CountNeverLow
<1> QED
  BY <1>1, SinkInvariant, PTL

\* The tasks in a call on one connection are one task: tasks of two sessions
\* never run at once, for no start comes before the earlier tasks have ended.
THEOREM OneCallerEach ==
  ASSUME CallsFitTheWait
  PROVE  Spec => []SingleCaller
<1>1. IInv => SingleCaller
  <2> SUFFICES ASSUME IInv, NEW t \in Tasks, NEW u \in Tasks,
                      at[t] = "call", at[u] = "call", Kind(t) = Kind(u)
               PROVE  t = u
    BY DEF SingleCaller
  <2>1. t[2] = session /\ u[2] = session
    BY DEF IInv, LifeInv, Running
  <2> QED
    BY <2>1, KindOfTask
<1> QED
  BY <1>1, SinkInvariant, PTL

\* s_stats_queue is there as long as one of the stats tasks is.
THEOREM StatsQueueStays ==
  ASSUME CallsFitTheWait
  PROVE  Spec => []QueueOutlivesStats
<1>1. IInv => QueueOutlivesStats
  BY DEF IInv, LifeInv, QueueOutlivesStats, RunningOf
<1> QED
  BY <1>1, SinkInvariant, PTL

\* tcp_client_pipeline_stop() closes the connections over idle tasks only: the
\* consumers have ended, and the stats writer was stopped before them.
THEOREM StopClosesIdle ==
  ASSUME CallsFitTheWait
  PROVE  Spec => ClosesIdleConnections
<1>1. IInv /\ [Next]_vars
        => [WaitDone /\ Head(todo) = "sink"
              => \A t \in Tasks : at[t] # "call"]_vars
  <2> SUFFICES ASSUME IInv, WaitDone, Head(todo) = "sink",
                      NEW t \in Tasks, at[t] = "call"
               PROVE  FALSE
    OBVIOUS
  <2>1. RunningOf("sink") = {}
    BY WaitOutlives DEF IInv, CountInv, CountInvOf, CountNeverLow
  <2>2. Running(t) /\ control = "waiting"
    BY DEF Running, WaitDone
  <2>3. Group(Kind(t)) = "stats"
    BY <2>1, <2>2, KindOfTask DEF RunningOf, Groups
  <2> QED
    BY <2>2, <2>3 DEF IInv, LifeInv, Stopping
<1> QED
  BY <1>1, SinkInvariant, PTL DEF Spec, ClosesIdleConnections

\* "leaving them to finish" is said of tasks that have finished.
THEOREM ExpiryFindsNobody ==
  ASSUME CallsFitTheWait
  PROVE  Spec => ExpiryIsFalseAlarm
<1>1. IInv /\ [Next]_vars
        => [WaitExpires => RunningOf(Head(todo)) = {}]_vars
  BY WaitOutlives DEF IInv, CountInv, CountInvOf, CountNeverLow
<1> QED
  BY <1>1, SinkInvariant, PTL DEF Spec, ExpiryIsFalseAlarm
=============================================================================
