------------------------------ MODULE HostServer ------------------------------
(***************************************************************************)
(* The host server's calibration console (app.py, console.py): HTTP        *)
(* threads that set the device's state and a poller that watches it both   *)
(* build and close the one console, whose worker thread runs the           *)
(* operator's commands on the device.                                      *)
(*                                                                         *)
(* The device takes a mode later than it acknowledges the request for it,  *)
(* and gets requests from its serial port as well.                         *)
(***************************************************************************)
EXTENDS Integers, Sequences, FiniteSets

CONSTANTS
  Handlers,   \* HTTP threads
  Poller,     \* the thread "state-poll"
  MaxOps,     \* bound: requests, lines, answers and serial commands
  MaxQueue    \* bound: the device's command queue

ASSUME ServerAssumption ==
  /\ Poller \notin Handlers /\ IsFiniteSet(Handlers)
  /\ "free" \notin Handlers \cup {Poller}
  /\ MaxOps \in Nat /\ MaxQueue \in Nat \ {0}

Threads == Handlers \cup {Poller}
Modes == {"calib", "other"}
Consoles == 1..(2 * MaxOps + 1)   \* CalibrationConsoles
NoConsole == 0

VARIABLES
  device,    \* the device's state
  queued,    \* the requests it has acknowledged and not taken yet
  last,      \* Server._last_state, "none" at first
  lock,      \* CalibrationManager._lock: its owner, or "free"
  console,   \* CalibrationManager.console
  pc,        \* where each thread is
  arg,       \* handler: the state it asks for; poller: the one it has read
  seen,      \* the console whose prompt a handler answers, if it does
  worker,    \* where each console's worker is: "none" before and after its life
  told,      \* CalibrationConsole._stop
  lines,     \* _cmd_queue's length
  answers,   \* _answer_queue's length
  ops        \* operations so far

deviceVars == <<device, queued>>
args == <<arg, seen>>
consoleVars == <<worker, told, lines, answers>>
vars == <<deviceVars, last, lock, console, pc, args, consoleVars, ops>>

Init ==
  /\ device = "other" /\ queued = <<>> /\ last = "none"
  /\ lock = "free" /\ console = NoConsole
  /\ pc = [t \in Threads |-> "idle"] /\ arg = [t \in Threads |-> "other"]
  /\ seen = [h \in Handlers |-> NoConsole]
  /\ worker = [c \in Consoles |-> "none"] /\ told = [c \in Consoles |-> FALSE]
  /\ lines = [c \in Consoles |-> 0] /\ answers = [c \in Consoles |-> 0]
  /\ ops = 0

Go(t, to) == pc' = [pc EXCEPT ![t] = to]
Operation == ops < MaxOps /\ ops' = ops + 1

(***************************************************************************)
(* The device, its serial port, and calls to it.  A call that fails, by a  *)
(* timeout or because the queue is full, raises DeviceSessionError; the    *)
(* device may have taken the request all the same.                         *)
(***************************************************************************)
Post(m) == queued' = Append(queued, m)
Posted(m) == Len(queued) < MaxQueue /\ Post(m)
PostedOrNot(m) == Posted(m) \/ UNCHANGED queued

DeviceTurns ==
  /\ queued # <<>>
  /\ device' = Head(queued) /\ queued' = Tail(queued)
  /\ UNCHANGED <<last, lock, console, pc, args, consoleVars, ops>>

Serial(m) ==
  /\ Operation /\ Posted(m)
  /\ UNCHANGED <<device, last, lock, console, pc, args, consoleVars>>

(***************************************************************************)
(* _set_state() on an HTTP thread.                                         *)
(***************************************************************************)
Request(h, m) ==
  /\ pc[h] = "idle" /\ Operation
  /\ arg' = [arg EXCEPT ![h] = m]
  /\ Go(h, IF m # "calib" /\ last = "calib" THEN "leave" ELSE "call")
  /\ UNCHANGED <<deviceVars, last, lock, console, seen, consoleVars>>

CallFails(h) ==
  /\ pc[h] = "call" /\ PostedOrNot(arg[h]) /\ Go(h, "idle")
  /\ UNCHANGED <<device, last, lock, console, args, consoleVars, ops>>

CallDone(h) ==
  /\ pc[h] = "call" /\ Posted(arg[h]) /\ Go(h, "tcp")
  /\ UNCHANGED <<device, last, lock, console, args, consoleVars, ops>>

\* Opening the ingest's ports, or closing them, comes first and takes up to five
\* seconds.
TcpSet(h) ==
  /\ pc[h] = "tcp"
  /\ IF arg[h] = "calib" THEN Go(h, "wait") /\ UNCHANGED last
                         ELSE Go(h, "idle") /\ last' = arg[h]
  /\ UNCHANGED <<deviceVars, lock, console, args, consoleVars, ops>>

\* _wait_for_device_state() gives up after two seconds.
Waited(h) ==
  /\ pc[h] = "wait"
  /\ last' = "calib" /\ Go(h, "enter")
  /\ UNCHANGED <<deviceVars, lock, console, args, consoleVars, ops>>

(***************************************************************************)
(* _poll_loop().                                                           *)
(***************************************************************************)
PollRead ==
  /\ pc[Poller] = "idle"
  /\ arg' = [arg EXCEPT ![Poller] = device] /\ Go(Poller, "compare")
  /\ UNCHANGED <<deviceVars, last, lock, console, seen, consoleVars, ops>>

PollCompare ==
  /\ pc[Poller] = "compare"
  /\ Go(Poller, IF arg[Poller] = last THEN "idle" ELSE "active")
  /\ UNCHANGED <<deviceVars, last, lock, console, args, consoleVars, ops>>

PollActive ==
  /\ pc[Poller] = "active"
  /\ Go(Poller,
        CASE arg[Poller] = "calib" /\ console = NoConsole -> "enter"
          [] arg[Poller] # "calib" /\ console # NoConsole -> "leave"
          [] OTHER -> "record")
  /\ UNCHANGED <<deviceVars, last, lock, console, args, consoleVars, ops>>

PollRecord ==
  /\ pc[Poller] = "record"
  /\ last' = arg[Poller] /\ Go(Poller, "idle")
  /\ UNCHANGED <<deviceVars, lock, console, args, consoleVars, ops>>

(***************************************************************************)
(* CalibrationManager.enter() and leave(), for handlers and poller.        *)
(***************************************************************************)
AfterEnter(t) == IF t = Poller THEN "record" ELSE "idle"
AfterLeave(t) == IF t = Poller THEN "record" ELSE "call"

\* Mutant of Enter: enter() without its lock.
EnterUnlocked(t) ==
  /\ pc[t] = "enter"
  /\ Go(t, IF console = NoConsole THEN "build" ELSE AfterEnter(t))
  /\ UNCHANGED <<lock, deviceVars, last, console, args, consoleVars, ops>>

Enter(t) ==
  /\ pc[t] = "enter" /\ lock = "free"
  /\ IF console = NoConsole THEN lock' = t /\ Go(t, "build")
                            ELSE UNCHANGED lock /\ Go(t, AfterEnter(t))
  /\ UNCHANGED <<deviceVars, last, console, args, consoleVars, ops>>

\* The factory backs up all registers first, which takes seconds; if the device
\* does not answer there is a console all the same: a number that nobody refers
\* to.
Build(t) ==
  /\ pc[t] = "build"
  /\ LET c == CHOOSE c \in Consoles :
                worker[c] = "none" /\ \A h \in Handlers : seen[h] # c IN
     /\ console' = c /\ worker' = [worker EXCEPT ![c] = "check"]
     /\ told' = [told EXCEPT ![c] = FALSE]
     /\ lines' = [lines EXCEPT ![c] = 0] /\ answers' = [answers EXCEPT ![c] = 0]
  /\ lock' = "free" /\ Go(t, AfterEnter(t))
  /\ UNCHANGED <<deviceVars, last, args, ops>>

\* Any other exception (a session directory that cannot be written) leaves no
\* console; it ends the request, and the poller's thread with it.
BuildFails(t) ==
  /\ pc[t] = "build"
  /\ lock' = "free" /\ Go(t, IF t = Poller THEN "dead" ELSE "idle")
  /\ UNCHANGED <<deviceVars, last, console, args, consoleVars, ops>>

\* close() lets a prompt that is open go on with an answer of its own.
Leave(t) ==
  /\ pc[t] = "leave" /\ lock = "free"
  /\ IF console = NoConsole
       THEN Go(t, AfterLeave(t)) /\ UNCHANGED <<lock, told, answers>>
       ELSE /\ lock' = t /\ Go(t, "join")
            /\ told' = [told EXCEPT ![console] = TRUE]
            /\ answers' = IF worker[console] = "prompt"
                            THEN [answers EXCEPT ![console] = @ + 1]
                            ELSE answers
  /\ UNCHANGED <<deviceVars, last, console, args, worker, lines, ops>>

Left(t) ==
  /\ console' = NoConsole /\ lock' = "free" /\ Go(t, AfterLeave(t))
  /\ UNCHANGED <<deviceVars, last, args, consoleVars, ops>>

Joined(t) == pc[t] = "join" /\ worker[console] = "none" /\ Left(t)

\* Mutant of JoinTimesOut: close() waits as long as it takes.
JoinWaits(t) == pc[t] = "join" /\ worker[console] = "none" /\ Left(t)

\* After 20 s the worker is abandoned.
JoinTimesOut(t) ==
  pc[t] = "join" /\ worker[console] \in {"busy", "prompt"} /\ Left(t)

(***************************************************************************)
(* The console: /calib/line, /calib/answer, and the worker.                *)
(***************************************************************************)
Submit ==
  /\ console # NoConsole /\ Operation
  /\ lines' = [lines EXCEPT ![console] = @ + 1]
  /\ UNCHANGED <<deviceVars, last, lock, console, pc, args, worker, told,
                 answers>>

\* answer(): the prompt it has seen may be gone when it puts the answer.
AnswerSees(h) ==
  /\ pc[h] = "idle" /\ console # NoConsole /\ worker[console] = "prompt"
  /\ Operation /\ Go(h, "answer")
  /\ seen' = [seen EXCEPT ![h] = console]
  /\ UNCHANGED <<deviceVars, last, lock, console, arg, consoleVars>>

AnswerPut(h) ==
  /\ pc[h] = "answer" /\ Go(h, "idle")
  /\ answers' = [answers EXCEPT ![seen[h]] = @ + 1]
  /\ seen' = [seen EXCEPT ![h] = NoConsole]
  /\ UNCHANGED <<deviceVars, last, lock, console, arg, worker, told, lines,
                 ops>>

Works(c, to) == worker' = [worker EXCEPT ![c] = to]
workerFrame ==
  UNCHANGED <<deviceVars, last, lock, console, pc, args, told, ops>>

Check(c) ==
  /\ worker[c] = "check"
  /\ Works(c, IF told[c] THEN "none" ELSE "get")
  /\ UNCHANGED <<lines, answers>> /\ workerFrame

\* A line that comes between the check and the get is still run.
Get(c) ==
  /\ worker[c] = "get"
  /\ IF lines[c] > 0
       THEN Works(c, "busy") /\ lines' = [lines EXCEPT ![c] = @ - 1]
       ELSE Works(c, "check") /\ UNCHANGED lines
  /\ UNCHANGED answers /\ workerFrame

Prompt(c) ==
  /\ worker[c] = "busy" /\ Works(c, "prompt")
  /\ UNCHANGED <<lines, answers>> /\ workerFrame

Answered(c) ==
  /\ worker[c] = "prompt" /\ answers[c] > 0
  /\ answers' = [answers EXCEPT ![c] = @ - 1] /\ Works(c, "busy")
  /\ UNCHANGED lines /\ workerFrame

Finish(c) ==
  /\ worker[c] = "busy" /\ Works(c, "check")
  /\ UNCHANGED <<lines, answers>> /\ workerFrame

\* The command "exit" asks the device itself to leave, if it is in the mode.
Exit(c) ==
  /\ worker[c] = "busy" /\ device = "calib"
  /\ Posted("other") /\ Works(c, "check")
  /\ UNCHANGED <<device, last, lock, console, pc, args, told, lines,
                 answers, ops>>

HandlerStep(h) ==
  \/ \E m \in Modes : Request(h, m)
  \/ CallFails(h) \/ CallDone(h) \/ TcpSet(h) \/ Waited(h)
  \/ AnswerSees(h) \/ AnswerPut(h)
PollStep == PollRead \/ PollCompare \/ PollActive \/ PollRecord
ManagerStep(t) ==
  Enter(t) \/ Build(t) \/ BuildFails(t) \/ Leave(t) \/ Joined(t) \/ JoinTimesOut(t)
WorkerStep(c) ==
  Check(c) \/ Get(c) \/ Prompt(c) \/ Answered(c) \/ Finish(c) \/ Exit(c)

Next ==
  \/ DeviceTurns \/ (\E m \in Modes : Serial(m)) \/ Submit \/ PollStep
  \/ (\E h \in Handlers : HandlerStep(h)) \/ (\E t \in Threads : ManagerStep(t))
  \/ (\E c \in Consoles : WorkerStep(c))

\* The scheduler runs every thread, the device takes what it has acknowledged,
\* a call and a join return; no command has to end, and no prompt to be
\* answered.
Fairness ==
  /\ WF_vars(DeviceTurns) /\ WF_vars(PollStep)
  /\ \A t \in Threads : WF_vars(ManagerStep(t))
  /\ \A h \in Handlers : WF_vars(CallFails(h) \/ CallDone(h) \/ TcpSet(h)
                                   \/ Waited(h) \/ AnswerPut(h))
  /\ \A c \in Consoles : WF_vars(Check(c) \/ Get(c))

Spec == Init /\ [][Next]_vars /\ Fairness

(***************************************************************************)
(* Properties.                                                             *)
(***************************************************************************)
\* There is one console: a worker that is neither that of the current console
\* nor told to stop (and given up after close()'s 20 s) would share the device
\* and the operator's session with another, which is what _lock is there for.
OneConsole ==
  \A c \in Consoles : worker[c] # "none" => c = console \/ told[c]

\* Every request and every turn of the poller ends, although they queue for the
\* lock behind each other's closing, and a prompt that a command opens just
\* after close() has looked for one is answered by nobody.  (The poller ends
\* for good if an exception of the factory gets through.)
Over == {"idle", "dead"}
RequestsEnd ==
  \A t \in Threads : pc[t] \notin Over ~> pc[t] \in Over

\* The console is "live for as long as the device is in camera_calibration":
\* while the device stays there, a console that is there is not closed, unless
\* somebody goes on to build the next one.
ConsoleFollowsMode ==
  [](/\ console # NoConsole
     /\ [](device = "calib" /\ \A t \in Threads : pc[t] # "build")
     => [](console # NoConsole))
=============================================================================
