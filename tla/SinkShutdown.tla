---------------------------- MODULE SinkShutdown ----------------------------
(***************************************************************************)
(* Cooperative shutdown in the data-capture firmware: the consumer tasks   *)
(* of a network sink (tcp_client.c; net_client.c has the same shape), the  *)
(* two tasks of the stats pipeline (sysstats.c), and the state-machine     *)
(* task that starts and stops them, session after session.                 *)
(*                                                                         *)
(* Nobody deletes these tasks.  A stop raises a flag, waits until a count  *)
(* of live tasks is down to zero, and gives up after a bounded time.  The  *)
(* count is a plain volatile int, so ++ and -- are a load and a store, and *)
(* what may happen in between depends on cores and priorities (config.h):  *)
(* a task is interrupted by any task of another core, but on its own core  *)
(* only by one that does not have a lower priority.                        *)
(*                                                                         *)
(* Time is counted in ticks.  Only the waiting of the state machine, the   *)
(* periodic delays and the blocking network calls take time.               *)
(***************************************************************************)
EXTENDS Integers, Sequences, FiniteSets

CONSTANTS
  MaxSessions,  \* bound: sessions started
  CallTime,     \* the longest a task stays in one blocking network call
  Period,       \* the longest vTaskDelayUntil() of a task
  SinkWait,     \* ticks tcp_client_pipeline_stop() waits
  StatsWait     \* ticks sysstats_pipeline_stop() waits

ASSUME TimeAssumption ==
  /\ MaxSessions \in Nat
  /\ CallTime \in Nat \ {0} /\ Period \in Nat \ {0}
  /\ SinkWait \in Nat /\ StatsWait \in Nat

Order == <<"imu", "cam", "prod", "stat">>   \* in the order they are created
Kinds == {"imu", "cam", "prod", "stat"}
Groups == {"sink", "stats"}
Group(k) == IF k \in {"imu", "cam"} THEN "sink" ELSE "stats"

Core == [imu |-> 0, cam |-> 0, prod |-> 1, stat |-> 0, ctl |-> 0]
Priority == [imu |-> 18, cam |-> 17, prod |-> 12, stat |-> 7, ctl |-> 10]

Tasks == Kinds \X (1..MaxSessions)   \* a task is named by kind and session
Kind(t) == t[1]

VARIABLES
  session,     \* sessions started so far
  control,     \* where the state-machine task is
  step,        \* index in Order of the task it is creating
  todo,        \* groups it has still to stop
  waited,      \* ticks it has been waiting for Head(todo)
  stop,        \* s_stop, s_stats_stop
  alive,       \* s_alive, s_stats_alive
  counted,     \* the count the state machine has loaded
  loaded,      \* the count each task has loaded
  at,          \* where each task is
  left,        \* ticks left of its delay or call
  open,        \* connections whose sock is >= 0, by kind of caller
  statsQueue   \* s_stats_queue: the session it was created in, 0 for NULL

controlVars == <<session, step, todo, waited, counted>>
resourceVars == <<open, statsQueue>>
vars == <<session, control, step, todo, waited, stop, alive, counted, loaded,
          at, left, open, statsQueue>>

Init ==
  /\ session = 0 /\ control = "off" /\ step = 1 /\ todo = <<>> /\ waited = 0
  /\ stop = [g \in Groups |-> FALSE] /\ alive = [g \in Groups |-> 0]
  /\ counted = 0 /\ loaded = [t \in Tasks |-> 0]
  /\ at = [t \in Tasks |-> "none"] /\ left = [t \in Tasks |-> 0]
  /\ open = {} /\ statsQueue = 0

Running(t) == at[t] \notin {"none", "gone"}

\* A task of kind k gets its processor only while no task that outranks it on
\* the same core is in the middle of an update.
Outranks(a, k) == Core[a] = Core[k] /\ Priority[a] > Priority[k]
MayRun(k) ==
  /\ \A t \in Tasks : at[t] = "store" => ~Outranks(Kind(t), k)
  /\ control = "store" => ~Outranks("ctl", k)

(***************************************************************************)
(* The state-machine task: a start ...                                     *)
(***************************************************************************)
StartSink ==
  /\ control = "off" /\ session < MaxSessions
  /\ session' = session + 1 /\ step' = 1
  /\ stop' = [stop EXCEPT !["sink"] = FALSE]
  /\ alive' = [alive EXCEPT !["sink"] = 0]
  /\ control' = "load"
  /\ UNCHANGED <<todo, waited, counted, loaded, at, left, resourceVars>>

\* s_stats_queue is overwritten, whatever it was.
StartStats(ok) ==
  /\ control = "stats"
  /\ stop' = [stop EXCEPT !["stats"] = FALSE]
  /\ alive' = [alive EXCEPT !["stats"] = 0]
  /\ statsQueue' = IF ok THEN session ELSE 0
  /\ IF ok THEN control' = "load" /\ step' = 3 /\ UNCHANGED todo
           ELSE control' = "stopping" /\ todo' = <<"stats", "sink">>
                                      /\ UNCHANGED step
  /\ UNCHANGED <<session, waited, counted, loaded, at, left, open>>

LoadCount ==
  /\ control = "load" /\ MayRun("ctl")
  /\ counted' = alive[Group(Order[step])]
  /\ control' = "store"
  /\ UNCHANGED <<session, step, todo, waited, stop, alive, loaded, at, left,
                 resourceVars>>

AfterCreate ==
  CASE step = 2 -> control' = "stats" /\ UNCHANGED step
    [] step = 4 -> control' = "streaming" /\ UNCHANGED step
    [] OTHER    -> control' = "load" /\ step' = step + 1

\* Mutant of Create: "= 1" for "++".
CreateAsFirst ==
  LET k == Order[step] IN
  /\ control = "store" /\ MayRun("ctl")
  /\ alive' = [alive EXCEPT ![Group(k)] = 1]
  /\ at' = [at EXCEPT ![<<k, session>>] = IF k \in {"imu", "cam"} THEN "boot"
                                                                 ELSE "loop"]
  /\ AfterCreate
  /\ UNCHANGED <<session, todo, waited, stop, counted, loaded, left,
                 resourceVars>>

\* The task is counted before it exists.
Create ==
  LET k == Order[step] IN
  /\ control = "store" /\ MayRun("ctl")
  /\ alive' = [alive EXCEPT ![Group(k)] = counted + 1]
  /\ at' = [at EXCEPT ![<<k, session>>] = IF k \in {"imu", "cam"} THEN "boot"
                                                                 ELSE "loop"]
  /\ AfterCreate
  /\ UNCHANGED <<session, todo, waited, stop, counted, loaded, left,
                 resourceVars>>

\* xTaskCreatePinnedToCore() failed: it is not counted after all, the function
\* that was starting the group cleans up, and then enter_stream_*() rolls back.
CreateFails ==
  LET k == Order[step] IN
  /\ control = "store" /\ MayRun("ctl")
  /\ alive' = [alive EXCEPT ![Group(k)] = counted]
  /\ statsQueue' = IF k = "prod" THEN 0 ELSE statsQueue
  /\ todo' = CASE k = "cam"  -> <<"sink", "stats", "sink">>
               [] k = "stat" -> <<"stats", "stats", "sink">>
               [] OTHER      -> <<"stats", "sink">>
  /\ control' = "stopping"
  /\ UNCHANGED <<session, step, waited, stop, counted, loaded, at, left,
                 open>>

(***************************************************************************)
(* ... and a stop.                                                         *)
(***************************************************************************)
\* enter_stream_tcp() failed before it reached the sink, and rolls back all.
RollBackEarly ==
  /\ control = "off"
  /\ todo' = <<"stats", "sink">> /\ control' = "stopping"
  /\ UNCHANGED <<session, step, waited, stop, alive, counted, loaded, at,
                 left, resourceVars>>

\* Mutant of TearDown: the sink first, as for the SD card.
TearDownSinkFirst ==
  /\ control = "streaming"
  /\ stop' = [stop EXCEPT !["sink"] = TRUE]
  /\ todo' = <<"sink", "stats">> /\ control' = "stopping"
  /\ UNCHANGED <<session, step, waited, alive, counted, loaded, at, left,
                 resourceVars>>

\* Raise the sink's flag, stop the stats pipeline, then stop the sink.
TearDown ==
  /\ control = "streaming"
  /\ stop' = [stop EXCEPT !["sink"] = TRUE]
  /\ todo' = <<"stats", "sink">> /\ control' = "stopping"
  /\ UNCHANGED <<session, step, waited, alive, counted, loaded, at, left,
                 resourceVars>>

BeginWait ==
  /\ control = "stopping" /\ todo # <<>>
  /\ stop' = [stop EXCEPT ![Head(todo)] = TRUE]
  /\ waited' = 0 /\ control' = "waiting"
  /\ UNCHANGED <<session, step, todo, alive, counted, loaded, at, left,
                 resourceVars>>

AllStopped ==
  /\ control = "stopping" /\ todo = <<>>
  /\ control' = "off"
  /\ UNCHANGED <<controlVars, stop, alive, loaded, at, left, resourceVars>>

WaitLimit(g) == IF g = "sink" THEN SinkWait ELSE StatsWait

\* The connections are closed, or the queue is deleted.
Reclaim(g) ==
  /\ open' = IF g = "sink" THEN {} ELSE open
  /\ statsQueue' = IF g = "stats" THEN 0 ELSE statsQueue

\* Mutant of WaitDone: the last task is not waited for.
WaitDoneEarly ==
  /\ control = "waiting" /\ alive[Head(todo)] <= 1
  /\ Reclaim(Head(todo))
  /\ todo' = Tail(todo) /\ waited' = 0 /\ control' = "stopping"
  /\ UNCHANGED <<session, step, stop, alive, counted, loaded, at, left>>

WaitDone ==
  /\ control = "waiting" /\ alive[Head(todo)] <= 0
  /\ Reclaim(Head(todo))
  /\ todo' = Tail(todo) /\ waited' = 0 /\ control' = "stopping"
  /\ UNCHANGED <<session, step, stop, alive, counted, loaded, at, left>>

\* Mutant of WaitExpires: it never does, Tick stops at the limit.
WaitNeverExpires ==
  /\ control = "waiting" /\ alive[Head(todo)] > 0
  /\ waited > WaitLimit(Head(todo))
  /\ todo' = Tail(todo) /\ waited' = 0 /\ control' = "stopping"
  /\ UNCHANGED <<session, step, stop, alive, counted, loaded, at, left,
                 resourceVars>>

\* "still busy; leaving them to finish": everything stays as it is.
WaitExpires ==
  /\ control = "waiting" /\ alive[Head(todo)] > 0
  /\ waited = WaitLimit(Head(todo))
  /\ todo' = Tail(todo) /\ waited' = 0 /\ control' = "stopping"
  /\ UNCHANGED <<session, step, stop, alive, counted, loaded, at, left,
                 resourceVars>>

StopStep == BeginWait \/ AllStopped \/ WaitDone \/ WaitExpires

ControlStep ==
  \/ StartSink \/ \E ok \in BOOLEAN : StartStats(ok)
  \/ LoadCount \/ Create \/ CreateFails
  \/ RollBackEarly \/ TearDown \/ StopStep

(***************************************************************************)
(* The tasks.                                                              *)
(***************************************************************************)
taskFrame == <<controlVars, control, stop, statsQueue>>

Go(t, place) == at' = [at EXCEPT ![t] = place]
StopSeen(t) == stop[Group(Kind(t))]

\* A consumer may find no memory for its buffers and end at once.
Boot(t, ok) ==
  /\ at[t] = "boot" /\ MayRun(Kind(t))
  /\ Go(t, IF ok THEN "loop" ELSE "exit")
  /\ UNCHANGED <<taskFrame, alive, loaded, left, open>>

\* Mutant of Loop: while (1).
LoopDeaf(t) ==
  /\ at[t] = "loop" /\ MayRun(Kind(t))
  /\ Go(t, "delay") /\ \E d \in 1..Period : left' = [left EXCEPT ![t] = d]
  /\ UNCHANGED <<taskFrame, alive, loaded, open>>

Loop(t) ==
  /\ at[t] = "loop" /\ MayRun(Kind(t))
  /\ IF StopSeen(t)
       THEN Go(t, "exit") /\ UNCHANGED left
       ELSE /\ Go(t, "delay")
            /\ \E d \in 1..Period : left' = [left EXCEPT ![t] = d]
  /\ UNCHANGED <<taskFrame, alive, loaded, open>>

\* All but the camera consumer look at the flag again after the delay.
Wake(t) ==
  /\ at[t] = "delay" /\ left[t] = 0 /\ MayRun(Kind(t))
  /\ Go(t, IF StopSeen(t) /\ Kind(t) # "cam" THEN "exit" ELSE "work")
  /\ UNCHANGED <<taskFrame, alive, loaded, left, open>>

\* Nothing (more) to send: the producer only queues its snapshot, a queue may
\* have been empty, and the camera consumer sends nothing once it is stopped.
WorkDone(t) ==
  /\ at[t] = "work" /\ MayRun(Kind(t))
  /\ Go(t, "loop")
  /\ UNCHANGED <<taskFrame, alive, loaded, left, open>>

\* send_msg(): connect if need be and send.  Both look at s_stop first, and a
\* failure closes the connection.
BeginCall(t) ==
  /\ at[t] = "work" /\ Kind(t) # "prod" /\ MayRun(Kind(t))
  /\ ~(Kind(t) = "cam" /\ stop["sink"])
  /\ IF stop["sink"]
       THEN Go(t, "loop") /\ open' = open \ {Kind(t)} /\ UNCHANGED left
       ELSE /\ Go(t, "call") /\ open' = open \cup {Kind(t)}
            /\ \E d \in 1..CallTime : left' = [left EXCEPT ![t] = d]
  /\ UNCHANGED <<taskFrame, alive, loaded>>

EndCall(t, ok) ==
  /\ at[t] = "call" /\ left[t] = 0 /\ MayRun(Kind(t))
  /\ Go(t, IF Kind(t) = "cam" THEN "work" ELSE "loop")
  /\ open' = IF ok THEN open ELSE open \ {Kind(t)}
  /\ UNCHANGED <<taskFrame, alive, loaded, left>>

\* s_alive--: a load ...
ExitLoad(t) ==
  /\ at[t] = "exit" /\ MayRun(Kind(t))
  /\ loaded' = [loaded EXCEPT ![t] = alive[Group(Kind(t))]]
  /\ Go(t, "store")
  /\ UNCHANGED <<taskFrame, alive, left, open>>

\* ... and a store, then vTaskDelete(NULL).
ExitStore(t) ==
  /\ at[t] = "store" /\ MayRun(Kind(t))
  /\ alive' = [alive EXCEPT ![Group(Kind(t))] = loaded[t] - 1]
  /\ loaded' = [loaded EXCEPT ![t] = 0]
  /\ Go(t, "gone")
  /\ UNCHANGED <<taskFrame, left, open>>

TaskStep(t) ==
  \/ \E ok \in BOOLEAN : Boot(t, ok) \/ EndCall(t, ok)
  \/ Loop(t) \/ Wake(t) \/ WorkDone(t) \/ BeginCall(t)
  \/ ExitLoad(t) \/ ExitStore(t)

(***************************************************************************)
(* Time passes when every task and the state machine wait for it.          *)
(***************************************************************************)
Sleeping(t) == at[t] \in {"delay", "call"} /\ left[t] > 0

ControlWaits ==
  \/ control \in {"off", "streaming"}
  \/ /\ control = "waiting" /\ alive[Head(todo)] > 0
     /\ waited < WaitLimit(Head(todo))

Tick ==
  /\ \A t \in Tasks : Running(t) => Sleeping(t)
  /\ ControlWaits
  /\ left' = [t \in Tasks |-> IF Sleeping(t) THEN left[t] - 1 ELSE left[t]]
  /\ waited' = IF control = "waiting" THEN waited + 1 ELSE waited
  /\ UNCHANGED <<session, control, step, todo, stop, alive, counted, loaded,
                 at, resourceVars>>

Next == ControlStep \/ (\E t \in Tasks : TaskStep(t)) \/ Tick

Spec == Init /\ [][Next]_vars

-----------------------------------------------------------------------------
(***************************************************************************)
(* Properties.                                                             *)
(***************************************************************************)
RunningOf(g) == {t \in Tasks : Running(t) /\ Group(Kind(t)) = g}

\* The unlocked counts err on the safe side only: an update may get lost, but a
\* count is never below the number of tasks it stands for, so a wait never ends
\* under a running task.
CountNeverLow ==
  \A g \in Groups : Cardinality(RunningOf(g)) <= alive[g]

\* Each connection has one caller task (tcp_client.h): nobody is in a send on
\* a connection that a task of an earlier session is still using.
SingleCaller ==
  \A t, u \in Tasks :
    at[t] = "call" /\ at[u] = "call" /\ Kind(t) = Kind(u) => t = u

\* The stats tasks use s_stats_queue without looking whether it is there.
QueueOutlivesStats == RunningOf("stats") # {} => statsQueue # 0

\* A stop of the sink closes no connection that a task, the stats writer among
\* them, is in the middle of using.
ClosesIdleConnections ==
  [][WaitDone /\ Head(todo) = "sink" => \A t \in Tasks : at[t] # "call"]_vars

\* As long as every call returns within the wait, giving up is a false alarm:
\* the tasks are gone and only their count is wrong.  So a start after it,
\* which takes the flag back, revives nobody.
ExpiryIsFalseAlarm ==
  [][WaitExpires => RunningOf(Head(todo)) = {}]_vars

(***************************************************************************)
(* Fairness: the scheduler runs tasks as long as one is ready, whichever    *)
(* it picks, the state machine goes on with a stop it began, and time      *)
(* passes.                                                                 *)
(***************************************************************************)
FairSpec ==
  /\ Spec /\ WF_vars(StopStep) /\ WF_vars(Tick)
  /\ WF_vars(\E t \in Tasks : TaskStep(t))

\* The state machine comes back from a stop, lost updates or not.
StopReturns == control \in {"stopping", "waiting"} ~> control = "off"
=============================================================================
