----------------------------- MODULE ConsoleProofs -----------------------------
(***************************************************************************)
(* The calibration console on the host: its manager and its registers.     *)
(*                                                                         *)
(* For any number of HTTP threads, however requests, polls, builds and     *)
(* closings interleave: there is one console whose worker may take a       *)
(* command.                                                                *)
(*                                                                         *)
(* For any registers, values and requests, whichever calls, loads and      *)
(* stores fail or lose their reply and whatever the state machine does to  *)
(* the camera meanwhile: register by register, "undo" brings back what     *)
(* nothing but the log's own calls has changed, and a save leaves NVS      *)
(* alone or stores the whole merge with the set that it could read.        *)
(***************************************************************************)
EXTENDS HostServer, RegisterChain, FiniteSetTheorems, SequenceTheorems, TLAPS

-----------------------------------------------------------------------------
(***************************************************************************)
(* The console's manager.                                                  *)
(***************************************************************************)
\* Where a thread does not hold the lock, and where a worker lives.
Unlocked ==
  {"idle", "leave", "call", "tcp", "wait", "enter", "compare", "active",
   "record", "answer", "dead"}
Alive == {"check", "get", "busy", "prompt"}

\* The lock is held over the whole of a build and the whole of a close().
LockHeld == \A t \in Threads : pc[t] \in {"build", "join"} => lock = t

\* Who builds has found no console, and keeps finding none.
NoneWhileBuilding ==
  \A t \in Threads : pc[t] = "build" => console = NoConsole

\* Who waits for the worker has told it to stop.
ToldWhileJoining ==
  \A t \in Threads : pc[t] = "join" /\ console \in Consoles => told[console]

ConsoleInv ==
  /\ pc \in [Threads -> Unlocked \cup {"build", "join"}]
  /\ told \in [Consoles -> BOOLEAN]
  /\ worker \in [Consoles -> Alive \cup {"none"}]
  /\ LockHeld /\ NoneWhileBuilding /\ ToldWhileJoining /\ OneConsole

\* What no thread does that has nothing to do with the manager.
Elsewhere(t) ==
  /\ UNCHANGED <<lock, console, told>>
  /\ \E to \in Unlocked : Go(t, to)

\* A thread that goes on elsewhere keeps the invariant, if no worker starts.
LEMMA ElsewhereKeeps ==
  ASSUME ConsoleInv, NEW t \in Threads, Elsewhere(t), UNCHANGED worker
  PROVE  ConsoleInv'
BY DEF ConsoleInv, Elsewhere, Go, Unlocked, LockHeld, NoneWhileBuilding,
   ToldWhileJoining, OneConsole

\* A step that leaves the threads and the manager alone, and lets a worker go
\* on or end.
Beside ==
  /\ UNCHANGED <<lock, console, told, pc>>
  /\ \/ UNCHANGED worker
     \/ \E c \in Consoles, to \in Alive \cup {"none"} :
          worker[c] # "none" /\ Works(c, to)

\* Such a step keeps the invariant.
LEMMA BesideKeeps ==
  ASSUME ConsoleInv, Beside
  PROVE  ConsoleInv'
BY DEF ConsoleInv, Beside, Works, Alive, LockHeld, NoneWhileBuilding,
   ToldWhileJoining, OneConsole

\* enter(), and the build under its lock, which may come to nothing.
LEMMA EnterKeeps ==
  ASSUME ServerAssumption, ConsoleInv, NEW t \in Threads,
         Enter(t) \/ Build(t) \/ BuildFails(t)
  PROVE  ConsoleInv'
<1>1. AfterEnter(t) \in Unlocked
  BY DEF Unlocked, AfterEnter
<1>2. t # "free" /\ NoConsole \notin Consoles
  BY DEF ServerAssumption, Threads, NoConsole, Consoles
<1>3. CASE Enter(t)
  <2>1. CASE console = NoConsole
    <3>1. /\ lock = "free" /\ lock' = t /\ Go(t, "build")
          /\ UNCHANGED <<console, worker, told>>
      BY <1>3, <2>1 DEF Enter, consoleVars
    <3>2. \A u \in Threads : pc[u] \notin {"build", "join"}
      BY <3>1 DEF ConsoleInv, LockHeld, ServerAssumption, Threads
    <3> QED
      BY <2>1, <3>1, <3>2 DEF ConsoleInv, Go, LockHeld, NoneWhileBuilding,
         ToldWhileJoining, OneConsole, Unlocked
  <2>2. CASE console # NoConsole
    <3>1. Elsewhere(t) /\ UNCHANGED worker
      BY <1>1, <1>3, <2>2 DEF Enter, consoleVars, Elsewhere
    <3> QED
      BY <3>1, ElsewhereKeeps
  <2> QED
    BY <2>1, <2>2
<1>4. CASE Build(t)
  <2> DEFINE c == CHOOSE c \in Consoles :
                    worker[c] = "none" /\ \A h \in Handlers : seen[h] # c
  <2>1. /\ pc[t] = "build" /\ lock = t /\ console = NoConsole
        /\ \A u \in Threads : pc[u] \in {"build", "join"} => u = t
    BY <1>4 DEF Build, ConsoleInv, LockHeld, NoneWhileBuilding
  <2>2. PICK d : d = c
    OBVIOUS
  <2>3. /\ console' = d /\ worker' = [worker EXCEPT ![d] = "check"]
        /\ told' = [told EXCEPT ![d] = FALSE] /\ lock' = "free"
        /\ Go(t, AfterEnter(t))
    BY <1>4, <2>2 DEF Build
  <2>4. \A u \in Threads : pc'[u] \notin {"build", "join"}
    BY <1>1, <2>1, <2>3 DEF Go, ConsoleInv, Unlocked
  <2> QED
    <3>1. /\ pc' \in [Threads -> Unlocked \cup {"build", "join"}]
          /\ told' \in [Consoles -> BOOLEAN]
          /\ worker' \in [Consoles -> Alive \cup {"none"}]
      BY <1>1, <2>3 DEF ConsoleInv, Go, Alive
    <3>2. LockHeld' /\ NoneWhileBuilding' /\ ToldWhileJoining'
      BY <2>4 DEF LockHeld, NoneWhileBuilding, ToldWhileJoining
    <3>3. OneConsole'
      BY <1>2, <2>1, <2>3 DEF ConsoleInv, OneConsole
    <3> QED
      BY <3>1, <3>2, <3>3 DEF ConsoleInv
<1>5. CASE BuildFails(t)
  <2>1. /\ pc[t] = "build" /\ lock' = "free"
        /\ UNCHANGED <<console, worker, told>>
        /\ \A u \in Threads : pc[u] \in {"build", "join"} => u = t
    BY <1>5 DEF BuildFails, consoleVars, ConsoleInv, LockHeld
  <2>2. \E to \in Unlocked : Go(t, to)
    BY <1>5 DEF BuildFails, Unlocked
  <2>3. \A u \in Threads : pc'[u] \notin {"build", "join"}
    BY <2>1, <2>2 DEF Go, ConsoleInv, Unlocked
  <2> QED
    BY <2>1, <2>2, <2>3 DEF ConsoleInv, Go, LockHeld, NoneWhileBuilding,
       ToldWhileJoining, OneConsole
<1> QED
  BY <1>3, <1>4, <1>5

\* leave(): its close() and the end of it.
LEMMA LeaveKeeps ==
  ASSUME ServerAssumption, ConsoleInv, NEW t \in Threads,
         Leave(t) \/ Joined(t) \/ JoinTimesOut(t)
  PROVE  ConsoleInv'
<1>1. AfterLeave(t) \in Unlocked
  BY DEF Unlocked, AfterLeave
<1>2. t # "free" /\ NoConsole \notin Consoles
  BY DEF ServerAssumption, Threads, NoConsole, Consoles
<1>3. CASE Leave(t)
  <2>1. CASE console = NoConsole
    <3>1. Elsewhere(t) /\ UNCHANGED worker
      BY <1>1, <1>3, <2>1 DEF Leave, Elsewhere
    <3> QED
      BY <3>1, ElsewhereKeeps
  <2>2. CASE console # NoConsole
    <3>1. /\ lock = "free" /\ lock' = t /\ Go(t, "join")
          /\ told' = [told EXCEPT ![console] = TRUE]
          /\ UNCHANGED <<console, worker>>
      BY <1>3, <2>2 DEF Leave
    <3>2. \A u \in Threads : pc[u] \notin {"build", "join"}
      BY <1>2, <3>1 DEF ConsoleInv, LockHeld, ServerAssumption, Threads
    <3> QED
      BY ZenonT(60), <3>1, <3>2 DEF ConsoleInv, Go, LockHeld, NoneWhileBuilding,
         ToldWhileJoining, OneConsole, Unlocked
  <2> QED
    BY <2>1, <2>2
<1>4. CASE Joined(t) \/ JoinTimesOut(t)
  <2>1. /\ pc[t] = "join" /\ console' = NoConsole /\ lock' = "free"
        /\ Go(t, AfterLeave(t)) /\ UNCHANGED <<worker, told>>
    BY <1>4 DEF Joined, JoinTimesOut, Left, consoleVars
  <2>2. \A u \in Threads : pc[u] \in {"build", "join"} => u = t
    BY <2>1 DEF ConsoleInv, LockHeld
  <2>3. \A u \in Threads : pc'[u] \notin {"build", "join"}
    BY <1>1, <2>1, <2>2 DEF Go, ConsoleInv, Unlocked
  <2>4. \A c \in Consoles : worker[c] # "none" => told[c]
    BY <2>1 DEF ConsoleInv, OneConsole, ToldWhileJoining
  <2> QED
    BY <1>1, <1>2, <2>1, <2>3, <2>4 DEF ConsoleInv, Go, LockHeld,
       NoneWhileBuilding, ToldWhileJoining, OneConsole, Unlocked
<1> QED
  BY <1>3, <1>4

\* The other steps of handlers and of the poller.
LEMMA ThreadsKeep ==
  ASSUME ConsoleInv, PollStep \/ \E h \in Handlers : HandlerStep(h)
  PROVE  ConsoleInv'
<1>1. CASE PollStep
  <2>1. UNCHANGED <<lock, console, told, worker>>
    BY <1>1 DEF PollStep, PollRead, PollCompare, PollActive, PollRecord,
       consoleVars
  <2>2. \E to \in Unlocked : Go(Poller, to)
    <3>1. CASE PollRead \/ PollRecord
      BY <3>1 DEF PollRead, PollRecord, Unlocked
    <3>2. CASE PollCompare \/ PollActive
      BY <3>2 DEF PollCompare, PollActive, Unlocked
    <3> QED
      BY <1>1, <3>1, <3>2 DEF PollStep
  <2> QED
    BY <2>1, <2>2, ElsewhereKeeps DEF Elsewhere, Threads
<1>2. ASSUME NEW h \in Handlers, HandlerStep(h)
      PROVE  ConsoleInv'
  <2>1. UNCHANGED <<lock, console, told, worker>>
    BY <1>2 DEF HandlerStep, Request, CallFails, CallDone, TcpSet, Waited,
       AnswerSees, AnswerPut, consoleVars
  <2>2. \E to \in Unlocked : Go(h, to)
    <3>1. ASSUME NEW m \in Modes, Request(h, m)
          PROVE  \E to \in Unlocked : Go(h, to)
      <4>1. CASE m # "calib" /\ last = "calib"
        <5>1. Go(h, "leave")
          BY <3>1, <4>1 DEF Request
        <5> QED
          BY <5>1 DEF Unlocked
      <4>2. CASE ~(m # "calib" /\ last = "calib")
        <5>1. Go(h, "call")
          BY <3>1, <4>2 DEF Request
        <5> QED
          BY <5>1 DEF Unlocked
      <4> QED
        BY <4>1, <4>2
    <3>2. CASE CallFails(h) \/ CallDone(h) \/ TcpSet(h)
      BY <3>2 DEF CallFails, CallDone, TcpSet, Unlocked
    <3>3. CASE Waited(h) \/ AnswerSees(h) \/ AnswerPut(h)
      BY <3>3 DEF Waited, AnswerSees, AnswerPut, Unlocked
    <3> QED
      BY <1>2, <3>1, <3>2, <3>3 DEF HandlerStep
  <2>3. Elsewhere(h)
    BY <2>1, <2>2 DEF Elsewhere
  <2> QED
    BY <2>1, <2>3, ElsewhereKeeps DEF Threads
<1> QED
  BY <1>1, <1>2

\* A worker goes on, or ends, but does not come to life.
LEMMA WorkersKeep ==
  ASSUME ConsoleInv, NEW c \in Consoles, WorkerStep(c)
  PROVE  ConsoleInv'
<1>1. Beside
  <2>1. UNCHANGED <<lock, console, told, pc>> /\ worker[c] # "none"
    BY DEF WorkerStep, Check, Get, Prompt, Answered, Finish, Exit, workerFrame
  <2>2. \E to \in Alive \cup {"none"} : Works(c, to)
    BY DEF WorkerStep, Check, Get, Prompt, Answered, Finish, Exit, Alive
  <2> QED
    BY <2>1, <2>2 DEF Beside
<1> QED
  BY <1>1, BesideKeeps

\* Every step keeps the invariant.
LEMMA ServerStepKeeps ==
  ASSUME ServerAssumption, ConsoleInv, [Next]_vars
  PROVE  ConsoleInv'
<1>1. CASE DeviceTurns \/ (\E m \in Modes : Serial(m)) \/ Submit
           \/ UNCHANGED vars
  <2>1. Beside
    BY <1>1 DEF DeviceTurns, Serial, Submit, vars, Beside, consoleVars
  <2> QED
    BY <2>1, BesideKeeps
<1>2. CASE PollStep \/ \E h \in Handlers : HandlerStep(h)
  BY <1>2, ThreadsKeep
<1>3. ASSUME NEW t \in Threads, ManagerStep(t)
      PROVE  ConsoleInv'
  BY <1>3, EnterKeeps, LeaveKeeps DEF ManagerStep
<1>4. ASSUME NEW c \in Consoles, WorkerStep(c)
      PROVE  ConsoleInv'
  BY <1>4, WorkersKeep
<1> QED
  BY <1>1, <1>2, <1>3, <1>4 DEF Next

\* One console: any other worker has been told to stop.
THEOREM OneConsoleAtATime == Spec => []OneConsole
<1>1. Init => ConsoleInv
  BY DEF Init, ConsoleInv, LockHeld, NoneWhileBuilding, ToldWhileJoining,
     OneConsole, Unlocked, Alive
<1>2. ConsoleInv /\ [Next]_vars => ConsoleInv'
  BY ServerAssumption, ServerStepKeeps
<1>3. ConsoleInv => OneConsole
  BY DEF ConsoleInv
<1> QED
  BY <1>1, <1>2, <1>3, PTL DEF Spec

-----------------------------------------------------------------------------
(***************************************************************************)
(* Addresses in order, and the first entry of a log for an address.        *)
(***************************************************************************)

\* How many members of S are not above a: the position of a in S.
Rank(S, a) == Cardinality({b \in S : b <= a})

\* Positions start at 1, and grow with the members.
LEMMA RankGrows ==
  ASSUME NEW S \in SUBSET Nat, IsFiniteSet(S), NEW a \in S
  PROVE  /\ Rank(S, a) \in 1..Cardinality(S)
         /\ \A b \in S : a < b => Rank(S, a) < Rank(S, b)
<1>1. \A c : IsFiniteSet({b \in S : b <= c}) /\ Rank(S, c) \in Nat
             /\ Rank(S, c) <= Cardinality(S)
  <2> TAKE c
  <2>1. {b \in S : b <= c} \in SUBSET S
    OBVIOUS
  <2> QED
    BY <2>1, FS_Subset, FS_CardinalityType DEF Rank
<1>2. Rank(S, a) # 0
  <2>1. {b \in S : b <= a} # {}
    OBVIOUS
  <2> QED
    BY <1>1, <2>1, FS_EmptySet DEF Rank
<1>3. ASSUME NEW b \in S, a < b PROVE Rank(S, a) < Rank(S, b)
  <2> DEFINE A == {c \in S : c <= a}
             B == {c \in S : c <= b}
  <2>1. A \in SUBSET B /\ A # B
    <3>1. a \in Nat /\ b \in Nat /\ ~(b <= a)
      BY <1>3
    <3>2. b \in B /\ b \notin A
      BY <3>1
    <3>3. ASSUME NEW c \in A PROVE c \in B
      <4>1. c \in S /\ c <= a /\ c \in Nat
        OBVIOUS
      <4>2. c <= b
        BY <1>3, <3>1, <4>1
      <4> QED
        BY <4>1, <4>2
    <3> QED
      BY <3>2, <3>3
  <2>2. IsFiniteSet(B) /\ Rank(S, a) = Cardinality(A) /\ Rank(S, b) = Cardinality(B)
    BY <1>1 DEF Rank
  <2>3. Cardinality(A) <= Cardinality(B) /\ Cardinality(A) # Cardinality(B)
    <3> HIDE DEF A, B
    <3> QED
      BY <2>1, <2>2, FS_Subset
  <2> QED
    BY <1>1, <2>2, <2>3
<1>4. Rank(S, a) \in 1..Cardinality(S)
  <2>1. Cardinality(S) \in Nat
    BY FS_CardinalityType
  <2>2. Rank(S, a) \in Nat /\ Rank(S, a) <= Cardinality(S)
    BY <1>1
  <2> QED
    BY <1>2, <2>1, <2>2
<1> QED
  BY <1>3, <1>4

\* InOrder(S) lists S, each member once, from the lowest to the highest.
LEMMA InOrderLists ==
  ASSUME NEW S \in SUBSET Nat, IsFiniteSet(S)
  PROVE  /\ Cardinality(S) \in Nat
         /\ InOrder(S) \in [1..Cardinality(S) -> S]
         /\ \A a \in S : \E i \in 1..Cardinality(S) : InOrder(S)[i] = a
         /\ \A i, j \in 1..Cardinality(S) :
              i < j => InOrder(S)[i] < InOrder(S)[j]
<1> DEFINE n == Cardinality(S)
           rank == [a \in S |-> Rank(S, a)]
<1>1. n \in Nat /\ IsFiniteSet(1..n) /\ Cardinality(1..n) = n
  BY FS_CardinalityType, FS_Interval
<1>2. /\ rank \in [S -> 1..n]
      /\ \A a, b \in S : a < b => rank[a] < rank[b]
  BY RankGrows
<1>3. \A a, b \in S : rank[a] = rank[b] => a = b
  <2> SUFFICES ASSUME NEW a \in S, NEW b \in S, rank[a] = rank[b], a # b
               PROVE  FALSE
    OBVIOUS
  <2>1. rank[a] \in 1..n /\ (a < b \/ b < a)
    BY <1>2
  <2> QED
    BY <1>1, <1>2, <2>1
<1>4. \A i \in 1..n : \E a \in S : rank[a] = i
  <2> HIDE DEF rank, n
  <2>1. rank \in Injection(S, 1..n)
    BY <1>2, <1>3 DEF Injection, IsInjective
  <2>2. rank \in Surjection(S, 1..n)
    BY <1>1, <2>1, FS_Injection DEF n
  <2> QED
    BY <2>2 DEF Surjection
<1>5. /\ DOMAIN InOrder(S) = 1..n
      /\ \A i \in 1..n : InOrder(S)[i] = CHOOSE a \in S : rank[a] = i
  BY DEF InOrder, Rank
<1>6. \A i \in 1..n : InOrder(S)[i] \in S /\ rank[InOrder(S)[i]] = i
  <2> HIDE DEF rank
  <2> QED
    BY <1>4, <1>5
<1>7. InOrder(S) \in [1..n -> S]
  BY <1>6 DEF InOrder
<1>8. ASSUME NEW a \in S PROVE \E i \in 1..n : InOrder(S)[i] = a
  <2> HIDE DEF rank
  <2> QED
    BY <1>2, <1>3, <1>6
<1>9. ASSUME NEW i \in 1..n, NEW j \in 1..n, i < j
      PROVE  InOrder(S)[i] < InOrder(S)[j]
  <2> HIDE DEF rank
  <2> DEFINE a == InOrder(S)[i]
             b == InOrder(S)[j]
  <2>1. a \in S /\ b \in S /\ rank[a] = i /\ rank[b] = j
    BY <1>6
  <2>2. a \in Nat /\ b \in Nat
    BY <2>1
  <2>3. ~(b < a) /\ a # b
    <3> HIDE DEF a, b
    <3> QED
      BY <1>1, <1>2, <1>9, <2>1
  <2> QED
    BY <2>2, <2>3
<1> QED
  BY <1>1, <1>7, <1>8, <1>9

\* A nonempty finite set of numbers has a least and a greatest member.
LEMMA Extremes ==
  ASSUME NEW S \in SUBSET Nat, IsFiniteSet(S), S # {}
  PROVE  /\ \E a \in S : \A b \in S : a <= b
         /\ \E a \in S : \A b \in S : b <= a
<1> DEFINE n == Cardinality(S)
           q == InOrder(S)
<1>1. /\ n \in Nat /\ q \in [1..n -> S]
      /\ \A a \in S : \E i \in 1..n : q[i] = a
      /\ \A i, j \in 1..n : i < j => q[i] < q[j]
  BY InOrderLists
<1> HIDE DEF n, q
<1>2. n >= 1
  <2>1. PICK b : b \in S
    OBVIOUS
  <2>2. \E i \in 1..n : q[i] = b
    BY <1>1, <2>1
  <2> QED
    BY <1>1, <2>2
<1>3. 1 \in 1..n /\ n \in 1..n /\ q[1] \in S /\ q[n] \in S
  BY <1>1, <1>2
<1>4. ASSUME NEW b \in S PROVE q[1] <= b /\ b <= q[n]
  <2>1. PICK i \in 1..n : q[i] = b
    BY <1>1
  <2>2. i \in Nat /\ 1 <= i /\ i <= n
    BY <1>1
  <2>3. b \in Nat /\ q[1] \in Nat /\ q[n] \in Nat
    <3>1. \A c \in S : c \in Nat
      OBVIOUS
    <3> QED
      BY <1>3, <3>1
  <2>4. n \in Nat
    BY <1>1
  <2>5. 1 < i => q[1] < q[i]
    BY <1>1, <1>3
  <2>6. i < n => q[i] < q[n]
    BY <1>1, <1>3
  <2>7. q[1] <= b
    <3>1. CASE i = 1
      BY <2>1, <2>3, <3>1
    <3>2. CASE 1 < i
      BY <2>1, <2>5, <2>3, <3>2
    <3> QED
      BY <2>2, <3>1, <3>2
  <2>8. b <= q[n]
    <3>1. CASE i = n
      BY <2>1, <2>3, <3>1
    <3>2. CASE i < n
      BY <2>1, <2>6, <2>3, <3>2
    <3> QED
      BY <2>2, <2>4, <3>1, <3>2
  <2> QED
    BY <2>7, <2>8
<1> QED
  BY <1>3, <1>4

\* A function on 1..n is a sequence of that length.
LEMMA SequenceOf ==
  ASSUME NEW n \in Nat, NEW S, NEW f \in [1..n -> S]
  PROVE  f \in Seq(S) /\ Len(f) = n
<1>1. f \in Seq(S)
  BY SeqDef
<1>2. DOMAIN f = 1..n /\ DOMAIN f = 1..Len(f) /\ Len(f) \in Nat
  BY <1>1, LenProperties
<1> QED
  BY <1>1, <1>2

\* Entry i is the first of the log for address a.
IsFirst(log, a, i) ==
  /\ i \in 1..Len(log) /\ log[i].a = a
  /\ \A j \in 1..(i - 1) : log[j].a # a

\* The entries of a log for an address it names begin somewhere ...
LEMMA FirstExists ==
  ASSUME NEW T, NEW log \in Seq(T), NEW a \in AddressesOf(log)
  PROVE  \E i : IsFirst(log, a, i)
<1> DEFINE S == {i \in 1..Len(log) : log[i].a = a}
<1>1. Len(log) \in Nat
  BY LenProperties
<1>2. S \in SUBSET Nat /\ S # {} /\ IsFiniteSet(S)
  <2>1. IsFiniteSet(1..Len(log)) /\ S \in SUBSET (1..Len(log))
    BY <1>1, FS_Interval
  <2> QED
    BY <1>1, <2>1, FS_Subset DEF AddressesOf
<1>3. PICK i \in S : \A j \in S : i <= j
  <2> HIDE DEF S
  <2> QED
    BY <1>2, Extremes
<1>4. ASSUME NEW j \in 1..(i - 1) PROVE log[j].a # a
  BY <1>1, <1>3
<1> QED
  BY <1>3, <1>4 DEF IsFirst

\* ... and FirstOld() is the old value of the first of them.
LEMMA FirstOldIs ==
  ASSUME NEW log, NEW a, NEW i, IsFirst(log, a, i), Len(log) \in Nat
  PROVE  FirstOld(log, a) = log[i].old
<1>1. \A j : IsFirst(log, a, j) => j = i
  <2> SUFFICES ASSUME NEW j, IsFirst(log, a, j), j # i PROVE FALSE
    OBVIOUS
  <2>1. i \in 1..Len(log) /\ j \in 1..Len(log)
    BY DEF IsFirst
  <2>2. i \in 1..(j - 1) \/ j \in 1..(i - 1)
    BY <2>1
  <2> QED
    BY <2>2 DEF IsFirst
<1>2. FirstOld(log, a) = log[CHOOSE j \in 1..Len(log) : IsFirst(log, a, j)].old
  BY DEF FirstOld, IsFirst
<1>3. i \in 1..Len(log)
  BY DEF IsFirst
<1> QED
  BY <1>1, <1>2, <1>3

\* In two logs one after the other, the first one comes first.
LEMMA FirstOldOfTwo ==
  ASSUME NEW T, NEW s \in Seq(T), NEW r \in Seq(T)
  PROVE  /\ AddressesOf(s \o r) = AddressesOf(s) \cup AddressesOf(r)
         /\ \A a \in AddressesOf(s) : FirstOld(s \o r, a) = FirstOld(s, a)
         /\ \A a \in AddressesOf(r) \ AddressesOf(s) :
              FirstOld(s \o r, a) = FirstOld(r, a)
<1> DEFINE log == s \o r
<1>1. /\ Len(s) \in Nat /\ Len(r) \in Nat /\ Len(log) = Len(s) + Len(r)
      /\ \A i \in 1..Len(s) : log[i] = s[i]
      /\ \A i \in 1..Len(r) : log[Len(s) + i] = r[i]
  <2>1. Len(s) \in Nat /\ Len(r) \in Nat
    BY LenProperties
  <2>2. /\ Len(log) = Len(s) + Len(r)
        /\ \A i \in 1..Len(s) + Len(r) :
             log[i] = IF i <= Len(s) THEN s[i] ELSE r[i - Len(s)]
    BY ConcatProperties
  <2> HIDE DEF log
  <2>3. ASSUME NEW i \in 1..Len(s) PROVE log[i] = s[i]
    BY <2>1, <2>2
  <2>4. ASSUME NEW i \in 1..Len(r) PROVE log[Len(s) + i] = r[i]
    <3>1. /\ Len(s) + i \in 1..Len(s) + Len(r) /\ ~(Len(s) + i <= Len(s))
          /\ (Len(s) + i) - Len(s) = i
      BY <2>1
    <3> QED
      BY <2>2, <3>1
  <2> QED
    BY <2>1, <2>2, <2>3, <2>4
<1> HIDE DEF log
<1>2. ASSUME NEW i \in 1..Len(log)
      PROVE  i \in 1..Len(s) \/ \E k \in 1..Len(r) : i = Len(s) + k
  <2>1. CASE i <= Len(s)
    BY <1>1, <2>1
  <2>2. CASE i > Len(s)
    <3>1. i - Len(s) \in 1..Len(r) /\ i = Len(s) + (i - Len(s))
      BY <1>1, <2>2
    <3> QED
      BY <3>1
  <2> QED
    BY <1>1, <2>1, <2>2
<1>3. AddressesOf(log) \subseteq AddressesOf(s) \cup AddressesOf(r)
  <2> SUFFICES ASSUME NEW i \in 1..Len(log)
               PROVE  log[i].a \in AddressesOf(s) \cup AddressesOf(r)
    BY DEF AddressesOf
  <2>1. CASE i \in 1..Len(s)
    BY <1>1, <2>1 DEF AddressesOf
  <2>2. ASSUME NEW k \in 1..Len(r), i = Len(s) + k
        PROVE  log[i].a \in AddressesOf(r)
    <3>1. log[i] = r[k]
      BY <1>1, <2>2
    <3> QED
      BY <3>1 DEF AddressesOf
  <2> QED
    BY <1>2, <2>1, <2>2
<1>4. AddressesOf(s) \subseteq AddressesOf(log)
  <2> SUFFICES ASSUME NEW i \in 1..Len(s) PROVE s[i].a \in AddressesOf(log)
    BY DEF AddressesOf
  <2>1. i \in 1..Len(log) /\ log[i] = s[i]
    BY <1>1
  <2> QED
    BY <2>1 DEF AddressesOf
<1>5. AddressesOf(r) \subseteq AddressesOf(log)
  <2> SUFFICES ASSUME NEW i \in 1..Len(r) PROVE r[i].a \in AddressesOf(log)
    BY DEF AddressesOf
  <2>1. Len(s) + i \in 1..Len(log) /\ log[Len(s) + i] = r[i]
    BY <1>1
  <2> QED
    BY <2>1 DEF AddressesOf
<1>6. ASSUME NEW a \in AddressesOf(s) PROVE FirstOld(log, a) = FirstOld(s, a)
  <2>1. PICK i : IsFirst(s, a, i)
    BY FirstExists
  <2>2. IsFirst(log, a, i)
    <3>1. i \in 1..Len(s) /\ \A j \in 1..(i - 1) : j \in 1..Len(s)
      BY <1>1, <2>1 DEF IsFirst
    <3>2. i \in 1..Len(log)
      BY <1>1, <3>1
    <3> QED
      BY <1>1, <2>1, <3>1, <3>2 DEF IsFirst
  <2>3. log[i] = s[i] /\ Len(log) \in Nat
    BY <1>1, <2>1 DEF IsFirst
  <2> QED
    BY <1>1, <2>1, <2>2, <2>3, FirstOldIs
<1>7. ASSUME NEW a \in AddressesOf(r) \ AddressesOf(s)
      PROVE  FirstOld(log, a) = FirstOld(r, a)
  <2>1. PICK i : IsFirst(r, a, i)
    BY FirstExists
  <2>2. i \in 1..Len(r) /\ r[i].a = a /\ \A j \in 1..(i - 1) : r[j].a # a
    BY <2>1 DEF IsFirst
  <2>3. Len(s) + i \in 1..Len(log) /\ log[Len(s) + i] = r[i] /\ Len(log) \in Nat
    BY <1>1, <2>2
  <2>4. ASSUME NEW j \in 1..((Len(s) + i) - 1) PROVE log[j].a # a
    <3>1. j \in 1..Len(log)
      BY <1>1, <2>2
    <3>2. CASE j \in 1..Len(s)
      BY <1>1, <3>2 DEF AddressesOf
    <3>3. ASSUME NEW k \in 1..Len(r), j = Len(s) + k PROVE log[j].a # a
      <4>1. k \in 1..(i - 1) /\ log[j] = r[k]
        BY <1>1, <2>2, <3>3
      <4> QED
        BY <2>2, <4>1
    <3> QED
      BY <1>2, <3>1, <3>2, <3>3
  <2>5. IsFirst(log, a, Len(s) + i)
    BY <2>2, <2>3, <2>4 DEF IsFirst
  <2>6. FirstOld(log, a) = log[Len(s) + i].old
    BY <2>3, <2>5, FirstOldIs
  <2>7. FirstOld(r, a) = r[i].old
    BY <1>1, <2>1, FirstOldIs
  <2> QED
    BY <2>3, <2>6, <2>7
<1> QED
  BY <1>3, <1>4, <1>5, <1>6, <1>7 DEF log

-----------------------------------------------------------------------------
(***************************************************************************)
(* Types.                                                                  *)
(***************************************************************************)

Entries == [a : Addr, v : Values]
UndoRecords == [a : Addr, old : Values, new : Values]
Requests == UNION {[as -> Values] : as \in SUBSET Addr}

LogTypes ==
  /\ sensor \in [Addr -> Values] /\ base \in [Addr -> Values]
  /\ mirror \in Values /\ undo \in Seq(UndoRecords) /\ strays \in SUBSET Addr

SaveTypes ==
  /\ nvs \in Seq(Entries) /\ Len(nvs) <= Limit
  /\ sregs \in [1..Limit -> Entries] /\ writes \in Requests
  /\ count \in 0..Limit /\ loaded \in 0..Limit

ChainTypes == LogTypes /\ SaveTypes

\* Sets of addresses are finite, and 1 is an address.
LEMMA Addresses ==
  /\ \A S \in SUBSET Addr : S \in SUBSET Nat /\ IsFiniteSet(S)
  /\ Orientation \in Addr
<1>1. IsFiniteSet(Addr) /\ Addr \in SUBSET Nat /\ Orientation \in Addr
  BY RegisterAssumption, FS_Interval DEF Addr, Orientation
<1> QED
  BY <1>1, FS_Subset

\* A request writes values to addresses.
LEMMA RequestsAre ==
  /\ \A w \in Requests : DOMAIN w \in SUBSET Addr /\ w \in [DOMAIN w -> Values]
  /\ \A v \in Values, b \in BOOLEAN :
       /\ OrientationIf(b, v) \in Requests
       /\ DOMAIN OrientationIf(b, v) = IF b THEN {Orientation} ELSE {}
       /\ b => OrientationIf(b, v)[Orientation] = v
BY Addresses DEF Requests, OrientationIf

\* What is written is a value.
LEMMA WrittenTypes ==
  ASSUME NEW s \in [Addr -> Values], NEW w \in Requests, NEW failed
  PROVE  Written(s, w, failed) \in [Addr -> Values]
BY RequestsAre DEF Written

\* The undo records of a write: one for each register that changes, with the
\* value it had.
LEMMA RecordsAre ==
  ASSUME sensor \in [Addr -> Values], NEW w \in Requests,
         NEW as \in SUBSET DOMAIN w
  PROVE  /\ Records(w, as) \in Seq(UndoRecords)
         /\ AddressesOf(Records(w, as)) = {a \in as : w[a] # sensor[a]}
         /\ \A i \in 1..Len(Records(w, as)) :
              Records(w, as)[i].old = sensor[Records(w, as)[i].a]
<1> DEFINE S == {a \in as : w[a] # sensor[a]}
           q == InOrder(S)
           n == Cardinality(S)
           r == Records(w, as)
<1>1. S \in SUBSET Addr /\ as \in SUBSET Addr /\ w \in [DOMAIN w -> Values]
  BY RequestsAre
<1>2. /\ n \in Nat /\ q \in [1..n -> S]
      /\ \A a \in S : \E i \in 1..n : q[i] = a
  <2> HIDE DEF S
  <2> QED
    BY <1>1, Addresses, InOrderLists
<1>3. Len(q) = n
  <2> HIDE DEF q, n, S
  <2> QED
    BY <1>2, SequenceOf
<1>4. r = [i \in 1..n |-> [a |-> q[i], old |-> sensor[q[i]], new |-> w[q[i]]]]
  BY <1>3 DEF Records
<1> HIDE DEF q, n, r
<1>5. r \in [1..n -> UndoRecords]
  <2> SUFFICES ASSUME NEW i \in 1..n
               PROVE  [a |-> q[i], old |-> sensor[q[i]], new |-> w[q[i]]]
                        \in UndoRecords
    BY <1>4
  <2>1. q[i] \in Addr /\ q[i] \in DOMAIN w
    BY <1>1, <1>2
  <2> QED
    BY <1>1, <2>1 DEF UndoRecords
<1>6. r \in Seq(UndoRecords) /\ Len(r) = n
  BY <1>2, <1>5, SequenceOf
<1>7. \A i \in 1..n : r[i].a = q[i] /\ r[i].old = sensor[q[i]]
  BY <1>4
<1>8. AddressesOf(r) = S
  <2> HIDE DEF S
  <2>1. AddressesOf(r) = {r[i].a : i \in 1..n}
    BY <1>6 DEF AddressesOf
  <2>2. \A i \in 1..n : r[i].a \in S
    BY <1>2, <1>7
  <2>3. \A a \in S : \E i \in 1..n : r[i].a = a
    BY <1>2, <1>7
  <2> QED
    BY <2>1, <2>2, <2>3
<1> QED
  BY <1>6, <1>7, <1>8 DEF r

\* What a log says of an address it names is a value.
LEMMA FirstOldTypes ==
  ASSUME NEW log \in Seq(UndoRecords), NEW a \in AddressesOf(log)
  PROVE  a \in Addr /\ FirstOld(log, a) \in Values
<1>1. PICK i : IsFirst(log, a, i)
  BY FirstExists
<1>2. i \in 1..Len(log) /\ log[i].a = a
  BY <1>1 DEF IsFirst
<1>3. Len(log) \in Nat /\ log[i] \in UndoRecords
  BY <1>2, LenProperties, ElementOfSeq
<1> QED
  BY <1>1, <1>2, <1>3, FirstOldIs DEF UndoRecords

\* The first old value is the one of some entry for the address.
LEMMA FirstOldAmong ==
  ASSUME NEW T, NEW log \in Seq(T), NEW a \in AddressesOf(log)
  PROVE  \E i \in 1..Len(log) : log[i].a = a /\ FirstOld(log, a) = log[i].old
<1>1. PICK i : IsFirst(log, a, i)
  BY FirstExists
<1>2. i \in 1..Len(log) /\ log[i].a = a
  BY <1>1 DEF IsFirst
<1> QED
  BY <1>1, <1>2, FirstOldIs, LenProperties

-----------------------------------------------------------------------------
(***************************************************************************)
(* The undo log.                                                           *)
(***************************************************************************)

\* The log covers the session; strays are what the property excepts.
CoverInv == LogTypes /\ UndoCovers

\* Who has not strayed after a step had not before, and is in the log, or was
\* told to the host, or is as it was.
LEMMA StrayedIs ==
  ASSUME strays \in SUBSET Addr, NEW s, NEW known
  PROVE  /\ Strayed(s, known) \in SUBSET Addr
         /\ \A a \in Addr \ Strayed(s, known) :
              /\ a \notin strays
              /\ a \notin Logged /\ a \notin known => s[a] = sensor[a]
BY DEF Strayed

\* A change of the sensor of which nobody tells the host costs the log only
\* what strays.
LEMMA UntoldCovers ==
  ASSUME CoverInv, UNCHANGED <<undo, base>>, strays' = Strayed(sensor', {})
  PROVE  UndoCovers'
<1>1. \A a \in Addr \ strays' :
        /\ a \notin strays
        /\ a \notin Logged => sensor'[a] = sensor[a]
  <2> DEFINE s == sensor'
  <2>1. strays' = Strayed(s, {}) /\ strays \in SUBSET Addr
    BY DEF CoverInv, LogTypes
  <2> HIDE DEF s
  <2>2. \A a \in Addr \ strays' :
          /\ a \notin strays
          /\ a \notin Logged => s[a] = sensor[a]
    BY <2>1, StrayedIs
  <2> QED
    BY <2>2 DEF s
<1> QED
  BY <1>1 DEF CoverInv, UndoCovers, Logged

\* A write that is recorded as far as the host was told leaves the log covering
\* the session: the new records are of registers that the session has not
\* changed before, or come behind older ones.
LEMMA RecordedWriteCovers ==
  ASSUME LogTypes, UndoCovers, NEW w \in Requests, NEW failed,
         NEW heard \in SUBSET DOMAIN w,
         sensor' = Written(sensor, w, failed), base' = base,
         undo' = undo \o Records(w, heard), strays' = Strayed(sensor', heard)
  PROVE  UndoCovers'
<1> DEFINE r == Records(w, heard)
<1>1. /\ r \in Seq(UndoRecords)
      /\ AddressesOf(r) = {a \in heard : w[a] # sensor[a]}
      /\ \A i \in 1..Len(r) : r[i].old = sensor[r[i].a]
  BY RecordsAre DEF LogTypes
<1>2. \A a \in Addr : \/ sensor'[a] = sensor[a]
                     \/ (a \in DOMAIN w /\ sensor'[a] = w[a])
  BY DEF Written
<1>7. \A a \in Addr \ strays' :
        /\ a \notin strays
        /\ a \notin Logged /\ a \notin heard => sensor'[a] = sensor[a]
  <2> DEFINE s == sensor'
  <2>1. strays' = Strayed(s, heard) /\ strays \in SUBSET Addr
    BY DEF LogTypes
  <2> HIDE DEF s
  <2>2. \A a \in Addr \ strays' :
          /\ a \notin strays
          /\ a \notin Logged /\ a \notin heard => s[a] = sensor[a]
    BY <2>1, StrayedIs
  <2> QED
    BY <2>2 DEF s
<1>3. undo' = undo \o r
  OBVIOUS
<1> HIDE DEF r
<1>4. /\ AddressesOf(undo \o r) = Logged \cup AddressesOf(r)
      /\ \A a \in Logged : FirstOld(undo \o r, a) = FirstOld(undo, a)
      /\ \A a \in AddressesOf(r) \ Logged :
           FirstOld(undo \o r, a) = FirstOld(r, a)
  BY <1>1, FirstOldOfTwo DEF LogTypes, Logged
<1>5. ASSUME NEW a \in AddressesOf(r) PROVE FirstOld(r, a) = sensor[a]
  <2>1. PICK i \in 1..Len(r) : r[i].a = a /\ FirstOld(r, a) = r[i].old
    BY <1>1, FirstOldAmong
  <2> QED
    BY <1>1, <2>1
<1>6. ASSUME NEW a \in Addr \ strays'
      PROVE  IF a \in AddressesOf(undo') THEN FirstOld(undo', a) = base'[a]
                                         ELSE sensor'[a] = base'[a]
  <2>1. CASE a \in Logged
    BY <1>3, <1>4, <1>7, <2>1 DEF UndoCovers
  <2>2. CASE a \in AddressesOf(r) \ Logged
    BY <1>3, <1>4, <1>5, <1>7, <2>2 DEF UndoCovers
  <2>3. CASE a \notin Logged \cup AddressesOf(r)
    <3>1. sensor'[a] = sensor[a]
      BY <1>1, <1>2, <1>7, <2>3
    <3> QED
      BY <1>3, <1>4, <1>7, <2>3, <3>1 DEF UndoCovers
  <2> QED
    BY <2>1, <2>2, <2>3
<1> QED
  BY <1>6 DEF UndoCovers, Logged

\* RegisterBank.write().
LEMMA RegwCovers ==
  ASSUME CoverInv, NEW w \in Requests, NEW failed, NEW record \in BOOLEAN,
         NEW answered \in BOOLEAN, Regw(w, failed, record, answered)
  PROVE  CoverInv'
<1> DEFINE heard == IF record /\ answered
                      THEN {a \in DOMAIN w : \A f \in failed : a < f} ELSE {}
           r == Records(w, heard)
<1>1. /\ sensor' = Written(sensor, w, failed) /\ undo' = undo \o r
      /\ strays' = Strayed(sensor', heard) /\ UNCHANGED <<mirror, base>>
  BY DEF Regw
<1>2. heard \in SUBSET DOMAIN w
  OBVIOUS
<1> HIDE DEF heard
<1>3. r \in Seq(UndoRecords)
  BY <1>2, RecordsAre DEF CoverInv, LogTypes
<1>4. LogTypes'
  <2>1. sensor' \in [Addr -> Values]
    BY <1>1, WrittenTypes DEF CoverInv, LogTypes
  <2>2. undo' \in Seq(UndoRecords)
    <3> HIDE DEF r
    <3> QED
      BY <1>1, <1>3, ConcatProperties DEF CoverInv, LogTypes
  <2>3. strays' \in SUBSET Addr
    BY <1>1, StrayedIs DEF CoverInv, LogTypes
  <2> QED
    BY <1>1, <2>1, <2>2, <2>3 DEF CoverInv, LogTypes
<1>5. UndoCovers'
  BY <1>1, <1>2, RecordedWriteCovers DEF CoverInv
<1> QED
  BY <1>4, <1>5 DEF CoverInv

\* set_orientation is a write of one register.
LEMMA OrientCovers ==
  ASSUME CoverInv, NEW v \in Values, NEW done \in BOOLEAN,
         NEW answered \in BOOLEAN, Orient(v, done, answered)
  PROVE  CoverInv'
<1> DEFINE w == OrientationIf(done, v)
           all == DOMAIN w
           r == Records(w, all)
<1>1. /\ sensor' = Written(sensor, w, {})
      /\ undo' = IF answered THEN undo \o r ELSE undo
      /\ mirror' = IF answered THEN v ELSE mirror
      /\ strays' = Strayed(sensor', IF answered THEN all ELSE {})
      /\ base' = base
  BY DEF Orient
<1>2. w \in Requests /\ all \in SUBSET DOMAIN w
  BY RequestsAre
<1> HIDE DEF w, all
<1>3. r \in Seq(UndoRecords)
  BY <1>2, RecordsAre DEF CoverInv, LogTypes
<1>4. LogTypes'
  <2>1. sensor' \in [Addr -> Values]
    BY <1>1, <1>2, WrittenTypes DEF CoverInv, LogTypes
  <2>2. undo' \in Seq(UndoRecords)
    <3> HIDE DEF r
    <3> QED
      BY <1>1, <1>3, ConcatProperties DEF CoverInv, LogTypes
  <2>3. strays' \in SUBSET Addr
    BY <1>1, StrayedIs DEF CoverInv, LogTypes
  <2> QED
    BY <1>1, <2>1, <2>2, <2>3 DEF CoverInv, LogTypes
<1>5. UndoCovers'
  <2>1. CASE answered
    <3>1. undo' = undo \o Records(w, all) /\ strays' = Strayed(sensor', all)
      BY <1>1, <2>1
    <3> QED
      BY <1>1, <1>2, <3>1, RecordedWriteCovers DEF CoverInv
  <2>2. CASE ~answered
    <3>1. undo' = undo /\ strays' = Strayed(sensor', {})
      BY <1>1, <2>2
    <3> QED
      BY <1>1, <3>1, UntoldCovers
  <2> QED
    BY <2>1, <2>2
<1> QED
  BY <1>4, <1>5 DEF CoverInv

\* revert_to(): what is undone gets its first old value, which is the one of the
\* whole log unless an entry before the mark has an older one.
LEMMA RevertCovers ==
  ASSUME CoverInv, NEW mark \in 0..Len(undo), NEW failed \in SUBSET Addr,
         NEW answered \in BOOLEAN, Revert(mark, failed, answered)
  PROVE  CoverInv'
<1> DEFINE held == SubSeq(undo, 1, mark)
           pending == SubSeq(undo, mark + 1, Len(undo))
           w == [a \in AddressesOf(pending) |-> FirstOld(pending, a)]
<1>1. /\ sensor' = Written(sensor, w, failed)
      /\ undo' = IF answered /\ failed = {} THEN held ELSE undo
      /\ UNCHANGED <<mirror, base, strays>>
  BY DEF Revert
<1>2. undo \in Seq(UndoRecords) /\ Len(undo) \in Nat
  BY LenProperties DEF CoverInv, LogTypes
<1>3. held \in Seq(UndoRecords) /\ pending \in Seq(UndoRecords)
  <2>1. \A i \in 1..Len(undo) : undo[i] \in UndoRecords
    BY <1>2, ElementOfSeq
  <2>2. \A i \in 1..mark : undo[i] \in UndoRecords
    BY <1>2, <2>1
  <2>3. \A i \in (mark + 1)..Len(undo) : undo[i] \in UndoRecords
    BY <1>2, <2>1
  <2> QED
    BY <1>2, <2>2, <2>3, SubSeqProperties
<1>4. undo = held \o pending
  <2>1. /\ 1 \in 1..(Len(undo) + 1) /\ mark \in (1 - 1)..Len(undo)
        /\ Len(undo) \in mark..Len(undo)
    BY <1>2
  <2>2. held \o pending = SubSeq(undo, 1, Len(undo))
    BY <1>2, <2>1, ConcatAdjacentSubSeq
  <2> QED
    BY <1>2, <2>2, SubSeqFull
<1> HIDE DEF held, pending
<1>5. w \in Requests /\ DOMAIN w = AddressesOf(pending)
  BY <1>3, FirstOldTypes DEF Requests
<1>6. LogTypes'
  <2>1. sensor' \in [Addr -> Values]
    BY <1>1, <1>5, WrittenTypes DEF CoverInv, LogTypes
  <2> QED
    BY <1>1, <1>2, <1>3, <2>1 DEF CoverInv, LogTypes
<1>7. \A a \in Addr : sensor'[a] = IF a \in AddressesOf(pending) \ failed
                                     THEN FirstOld(pending, a) ELSE sensor[a]
  BY <1>1 DEF Written
<1>8. /\ Logged = AddressesOf(held) \cup AddressesOf(pending)
      /\ \A a \in AddressesOf(held) : FirstOld(undo, a) = FirstOld(held, a)
      /\ \A a \in AddressesOf(pending) \ AddressesOf(held) :
           FirstOld(undo, a) = FirstOld(pending, a)
  BY <1>3, <1>4, FirstOldOfTwo DEF Logged
<1>9. CASE ~(answered /\ failed = {})
  <2>1. undo' = undo
    BY <1>1, <1>9
  <2>2. \A a \in Addr \ Logged : sensor'[a] = sensor[a]
    BY <1>7, <1>8
  <2>3. UndoCovers'
    BY <1>1, <2>1, <2>2 DEF CoverInv, UndoCovers, Logged
  <2> QED
    BY <1>6, <2>3 DEF CoverInv
<1>10. CASE answered /\ failed = {}
  <2>1. undo' = held /\ failed = {}
    BY <1>1, <1>10
  <2>2. ASSUME NEW a \in Addr \ strays'
        PROVE  IF a \in AddressesOf(undo') THEN FirstOld(undo', a) = base'[a]
                                           ELSE sensor'[a] = base'[a]
    <3>0. a \in Addr \ strays
      BY <1>1
    <3>1. CASE a \in AddressesOf(held)
      BY <1>1, <1>8, <2>1, <3>0, <3>1 DEF CoverInv, UndoCovers
    <3>2. CASE a \in AddressesOf(pending) \ AddressesOf(held)
      <4>1. FirstOld(undo, a) = base[a]
        BY <1>8, <3>0, <3>2 DEF CoverInv, UndoCovers
      <4> QED
        BY <1>1, <1>7, <1>8, <2>1, <3>2, <4>1
    <3>3. CASE a \notin Logged
      <4>1. sensor[a] = base[a]
        BY <3>0, <3>3 DEF CoverInv, UndoCovers
      <4> QED
        BY <1>1, <1>7, <1>8, <2>1, <3>3, <4>1
    <3> QED
      BY <1>8, <3>1, <3>2, <3>3
  <2>3. UndoCovers'
    BY <2>2 DEF UndoCovers, Logged
  <2> QED
    BY <1>6, <2>3 DEF CoverInv
<1> QED
  BY <1>9, <1>10

\* A sequence of one entry names its address, and has its old value.
LEMMA OneRecord ==
  ASSUME NEW e \in UndoRecords
  PROVE  /\ <<e>> \in Seq(UndoRecords)
         /\ AddressesOf(<<e>>) = {e.a} /\ FirstOld(<<e>>, e.a) = e.old
<1>1. <<e>> \in Seq(UndoRecords) /\ Len(<<e>>) = 1 /\ <<e>>[1] = e
  OBVIOUS
<1>2. AddressesOf(<<e>>) = {e.a}
  BY <1>1 DEF AddressesOf
<1>3. IsFirst(<<e>>, e.a, 1)
  BY <1>1 DEF IsFirst
<1>4. FirstOld(<<e>>, e.a) = e.old
  <2> DEFINE log == <<e>>
             x == e.a
  <2>1. IsFirst(log, x, 1) /\ Len(log) \in Nat /\ log[1] = e
    BY <1>1, <1>3
  <2>2. FirstOld(log, x) = log[1].old
    <3> HIDE DEF log, x
    <3> QED
      BY <2>1, FirstOldIs
  <2> QED
    BY <2>1, <2>2
<1> QED
  BY <1>1, <1>2, <1>4

\* An empty log names nothing.
LEMMA EmptyLog == AddressesOf(<<>>) = {} /\ <<>> \in Seq(UndoRecords)
BY DEF AddressesOf

\* App.set_mode(): the log begins anew, with the orientation if it was set.
LEMMA SetModeCovers ==
  ASSUME CoverInv, NEW answered \in BOOLEAN, NEW done \in BOOLEAN,
         NEW heard \in BOOLEAN, SetMode(answered, done, heard)
  PROVE  CoverInv'
<1> DEFINE again == answered /\ mirror # 0
           o == OrientationIf(again, mirror)
           e == [a |-> Orientation, old |-> 0, new |-> mirror]
<1>1. /\ sensor' = Written(Default, o, IF done THEN {} ELSE {Orientation})
      /\ undo' = IF ~answered THEN undo
                 ELSE IF ~(again /\ done /\ heard) THEN <<>> ELSE <<e>>
      /\ base' = IF answered THEN Default ELSE base
      /\ strays' = IF ~answered THEN Strayed(sensor', {})
                   ELSE IF again /\ done /\ ~heard THEN {Orientation} ELSE {}
      /\ mirror' = mirror
  BY DEF SetMode
<1>2. mirror \in Values /\ again \in BOOLEAN /\ Default \in [Addr -> Values]
  BY RegisterAssumption DEF CoverInv, LogTypes, Default
<1>3. /\ o \in Requests /\ DOMAIN o = IF again THEN {Orientation} ELSE {}
  <2> HIDE DEF again
  <2> QED
    BY <1>2, RequestsAre
<1>4. /\ e \in UndoRecords /\ <<e>> \in Seq(UndoRecords)
      /\ AddressesOf(<<e>>) = {Orientation} /\ FirstOld(<<e>>, Orientation) = 0
  <2>1. e \in UndoRecords /\ e.a = Orientation /\ e.old = 0
    BY <1>2, Addresses, RegisterAssumption DEF UndoRecords
  <2> HIDE DEF e
  <2> QED
    BY <2>1, OneRecord
<1>5. LogTypes'
  <2> HIDE DEF again, e, o
  <2>1. sensor' \in [Addr -> Values]
    BY <1>1, <1>2, <1>3, WrittenTypes
  <2>2. undo' \in Seq(UndoRecords)
    BY <1>1, <1>4, EmptyLog DEF CoverInv, LogTypes
  <2>3. strays' \in SUBSET Addr
    <3>1. Strayed(sensor', {}) \in SUBSET Addr
      BY StrayedIs DEF CoverInv, LogTypes
    <3> QED
      BY <1>1, <3>1, Addresses
  <2> QED
    BY <1>1, <1>2, <2>1, <2>2, <2>3 DEF CoverInv, LogTypes
<1>6. CASE ~answered
  <2>1. UNCHANGED <<undo, base>> /\ strays' = Strayed(sensor', {})
    BY <1>1, <1>6
  <2> QED
    BY <1>5, <2>1, UntoldCovers DEF CoverInv
<1>7. CASE answered
  <2> HIDE DEF again, e, o
  <2>1. base' = Default
    BY <1>1, <1>7
  <2>2. \A a \in Addr : a # Orientation => sensor'[a] = Default[a]
    BY <1>1, <1>3 DEF Written
  <2>3. CASE again /\ done /\ heard
    <3>1. undo' = <<e>>
      BY <1>1, <1>7, <2>3
    <3>2. UndoCovers'
      BY <1>4, <2>1, <2>2, <3>1 DEF UndoCovers, Logged, Default
    <3> QED
      BY <1>5, <3>2 DEF CoverInv
  <2>4. CASE again /\ done /\ ~heard
    <3>1. undo' = <<>> /\ Logged' = {} /\ strays' = {Orientation}
      BY <1>1, <1>7, <2>4, EmptyLog DEF Logged
    <3>2. UndoCovers'
      BY <2>1, <2>2, <3>1 DEF UndoCovers
    <3> QED
      BY <1>5, <3>2 DEF CoverInv
  <2>5. CASE ~(again /\ done)
    <3>1. undo' = <<>> /\ Logged' = {}
      BY <1>1, <1>7, <2>5, EmptyLog DEF Logged
    <3>2. \A a \in Addr : sensor'[a] = Default[a]
      BY <1>1, <1>3, <2>5 DEF Written
    <3>3. UndoCovers'
      BY <2>1, <3>1, <3>2 DEF UndoCovers
    <3> QED
      BY <1>5, <3>3 DEF CoverInv
  <2> QED
    BY <2>3, <2>4, <2>5
<1> QED
  BY <1>6, <1>7

-----------------------------------------------------------------------------
(***************************************************************************)
(* Saving and applying the overrides.                                      *)
(***************************************************************************)

\* s_regs after a load holds entries.
LEMMA LoadedTypes ==
  ASSUME SaveTypes, NEW ok \in BOOLEAN
  PROVE  /\ Loaded(ok) \in [1..Limit -> Entries] /\ Len(nvs) \in 0..Limit
         /\ Entered(ok) \in 0..Limit
         /\ ok => \A i \in 1..Len(nvs) : Loaded(ok)[i] = nvs[i]
         /\ \A i \in 1..Limit : ~ok \/ i > Len(nvs) => Loaded(ok)[i] = sregs[i]
<1>1. Len(nvs) \in Nat /\ \A i \in 1..Len(nvs) : nvs[i] \in Entries
  BY LenProperties, ElementOfSeq DEF SaveTypes
<1>2. Len(nvs) \in 0..Limit /\ 1..Len(nvs) \in SUBSET (1..Limit)
  BY <1>1, RegisterAssumption DEF SaveTypes
<1>3. ASSUME NEW i \in 1..Limit
      PROVE  (IF ok /\ i <= Len(nvs) THEN nvs[i] ELSE sregs[i]) \in Entries
  BY <1>1, <1>3 DEF SaveTypes
<1>4. ASSUME ok, NEW i \in 1..Len(nvs) PROVE Loaded(ok)[i] = nvs[i]
  <2>1. i \in 1..Limit /\ i <= Len(nvs)
    BY <1>1, <1>2
  <2> QED
    BY <1>4, <2>1 DEF Loaded
<1>5. ASSUME NEW i \in 1..Limit, ~ok \/ i > Len(nvs)
      PROVE  Loaded(ok)[i] = sregs[i]
  <2>1. ~(ok /\ i <= Len(nvs))
    BY <1>1, <1>5
  <2> QED
    BY <2>1 DEF Loaded
<1>6. Entered(ok) \in 0..Limit
  BY <1>2, RegisterAssumption DEF Entered
<1>7. Loaded(ok) \in [1..Limit -> Entries]
  BY <1>3 DEF Loaded
<1> QED
  BY <1>2, <1>4, <1>5, <1>6, <1>7

\* What apply() leaves in the sensor are values.
LEMMA AppliedTypes ==
  ASSUME SaveTypes, sensor \in [Addr -> Values], NEW n \in 0..Limit
  PROVE  Applied(sensor, n) \in [Addr -> Values]
<1> SUFFICES ASSUME NEW a \in Addr
             PROVE  LET at == {i \in 1..n : sregs[i].a = a}
                    IN  (IF at = {} THEN sensor[a]
                         ELSE sregs[CHOOSE i \in at : \A j \in at : j <= i].v)
                        \in Values
  BY DEF Applied
<1> DEFINE at == {i \in 1..n : sregs[i].a = a}
<1>1. /\ n \in Nat /\ at \in SUBSET (1..n) /\ at \in SUBSET Nat
      /\ 1..n \in SUBSET (1..Limit)
  BY RegisterAssumption
<1>2. IsFiniteSet(at)
  <2>1. IsFiniteSet(1..n)
    BY <1>1, FS_Interval
  <2> HIDE DEF at
  <2> QED
    BY <1>1, <2>1, FS_Subset
<1>3. ASSUME at # {}
      PROVE  sregs[CHOOSE i \in at : \A j \in at : j <= i].v \in Values
  <2> DEFINE k == CHOOSE i \in at : \A j \in at : j <= i
  <2>1. k \in at
    <3> HIDE DEF at
    <3>1. \E i \in at : \A j \in at : j <= i
      BY <1>1, <1>2, <1>3, Extremes
    <3> QED
      BY <3>1
  <2>2. sregs[k] \in Entries
    <3> HIDE DEF k
    <3> QED
      BY <1>1, <2>1 DEF SaveTypes
  <2> QED
    BY <2>2 DEF Entries
<1> QED
  BY <1>3

\* The newest value in the log of an address it names is a value.
LEMMA LastNewTypes ==
  ASSUME LogTypes, NEW a \in Logged
  PROVE  a \in Addr /\ LastNew(a) \in Values
<1> DEFINE at == {i \in 1..Len(undo) : undo[i].a = a}
           Last(i) == undo[i].a = a
                      /\ \A j \in (i + 1)..Len(undo) : undo[j].a # a
           k == CHOOSE i \in 1..Len(undo) : Last(i)
<1>1. Len(undo) \in Nat /\ \A i \in 1..Len(undo) : undo[i] \in UndoRecords
  BY LenProperties, ElementOfSeq DEF LogTypes
<1>2. at \in SUBSET (1..Len(undo)) /\ at \in SUBSET Nat /\ at # {}
  BY <1>1 DEF Logged, AddressesOf
<1>3. PICK i \in at : \A j \in at : j <= i
  <2>1. IsFiniteSet(at)
    <3>1. IsFiniteSet(1..Len(undo))
      BY <1>1, FS_Interval
    <3> HIDE DEF at
    <3> QED
      BY <1>2, <3>1, FS_Subset
  <2> HIDE DEF at
  <2> QED
    BY <1>2, <2>1, Extremes
<1>4. ASSUME NEW j \in (i + 1)..Len(undo) PROVE undo[j].a # a
  <2>1. i \in 1..Len(undo) /\ j \in 1..Len(undo) /\ ~(j <= i)
    BY <1>1
  <2> QED
    BY <1>3, <2>1
<1>5. i \in 1..Len(undo) /\ Last(i)
  BY <1>4
<1>6. k \in 1..Len(undo) /\ undo[k].a = a
  <2>1. k \in 1..Len(undo) /\ Last(k)
    <3> HIDE DEF Last
    <3> QED
      BY <1>5
  <2> QED
    BY <2>1
<1>7. LastNew(a) = undo[k].new
  BY DEF LastNew
<1> HIDE DEF k
<1> QED
  BY <1>1, <1>6, <1>7 DEF UndoRecords

\* The addresses of a request that a set does not have.
NewTo(s, w) == {a \in DOMAIN w : \A j \in 1..Len(s) : s[j].a # a}

\* The updates and the fresh entries of a merge.
LEMMA MergedIs ==
  ASSUME NEW s \in Seq(Entries), NEW w \in Requests
  PROVE  LET k == Cardinality(NewTo(s, w))
             m == Merged(s, Len(s), w)
         IN  /\ k \in Nat /\ m \in Seq(Entries) /\ Len(m) = Len(s) + k
             /\ \A i \in 1..Len(s) : m[i].a = s[i].a
             /\ \A i \in 1..k : m[Len(s) + i].a = InOrder(NewTo(s, w))[i]
<1> DEFINE n == Len(s)
           new == NewTo(s, w)
           k == Cardinality(new)
           q == InOrder(new)
           u == Updated(s, n, w)
           f == Fresh(s, n, w)
           m == Merged(s, n, w)
<1>0. n \in Nat /\ \A i \in 1..n : s[i] \in Entries
  BY LenProperties, ElementOfSeq
<1>1. /\ new \in SUBSET Addr /\ new \in SUBSET DOMAIN w
      /\ w \in [DOMAIN w -> Values]
  BY RequestsAre DEF NewTo
<1>2. k \in Nat /\ q \in [1..k -> new]
  <2> HIDE DEF new
  <2> QED
    BY <1>1, Addresses, InOrderLists
<1>3. Len(q) = k
  <2> HIDE DEF new, k, q
  <2> QED
    BY <1>2, SequenceOf
<1>4. f = [i \in 1..k |-> [a |-> q[i], v |-> w[q[i]]]]
  BY <1>3 DEF Fresh, NewTo
<1>5. \A i \in 1..n : u[i] = s[i] \/ (/\ s[i].a \in DOMAIN w
                                     /\ u[i] = [s[i] EXCEPT !.v = w[s[i].a]])
  BY DEF Updated
<1>13. u = [i \in 1..n |-> u[i]]
  BY DEF Updated
<1>6. m = u \o f
  BY DEF Merged
<1> HIDE DEF n, new, k, q, u, f, m
<1>7. f \in [1..k -> Entries] /\ \A i \in 1..k : f[i].a = q[i]
  <2> SUFFICES ASSUME NEW i \in 1..k
               PROVE  [a |-> q[i], v |-> w[q[i]]] \in Entries
    BY <1>4
  <2>1. q[i] \in Addr /\ q[i] \in DOMAIN w
    BY <1>1, <1>2
  <2> QED
    BY <1>1, <2>1 DEF Entries
<1>8. u \in [1..n -> Entries] /\ \A i \in 1..n : u[i].a = s[i].a
  <2>1. ASSUME NEW i \in 1..n
        PROVE  u[i] \in Entries /\ u[i].a = s[i].a
    <3>1. s[i] \in [a : Addr, v : Values]
      BY <1>0 DEF Entries
    <3>2. CASE u[i] = s[i]
      BY <3>1, <3>2 DEF Entries
    <3>3. CASE /\ s[i].a \in DOMAIN w /\ u[i] = [s[i] EXCEPT !.v = w[s[i].a]]
      <4>1. w[s[i].a] \in Values
        BY <1>1, <3>3
      <4> QED
        BY <3>1, <3>3, <4>1 DEF Entries
    <3> QED
      BY <1>5, <3>2, <3>3
  <2> QED
    BY <1>13, <2>1
<1>9. f \in Seq(Entries) /\ Len(f) = k /\ u \in Seq(Entries) /\ Len(u) = n
  BY <1>0, <1>2, <1>7, <1>8, SequenceOf
<1>10. /\ m \in Seq(Entries) /\ Len(m) = n + k
       /\ \A i \in 1..n + k : m[i] = IF i <= n THEN u[i] ELSE f[i - n]
  BY <1>6, <1>9, ConcatProperties
<1>11. ASSUME NEW i \in 1..n PROVE m[i].a = s[i].a
  <2>1. i \in 1..n + k /\ i <= n
    BY <1>0, <1>2
  <2> QED
    BY <1>8, <1>10, <2>1
<1>12. ASSUME NEW i \in 1..k PROVE m[n + i].a = q[i]
  <2>1. n + i \in 1..n + k /\ ~(n + i <= n) /\ (n + i) - n = i
    BY <1>0, <1>2
  <2> QED
    BY <1>7, <1>10, <2>1
<1> QED
  BY <1>2, <1>10, <1>11, <1>12 DEF m, n, new, k, q

\* A merge looks at no more than the first n entries.
LEMMA MergedSame ==
  ASSUME NEW s, NEW t, NEW n \in Nat, NEW w, \A i \in 1..n : s[i] = t[i]
  PROVE  Merged(s, n, w) = Merged(t, n, w)
<1>1. Updated(s, n, w) = Updated(t, n, w)
  BY DEF Updated
<1>2. {a \in DOMAIN w : \A j \in 1..n : s[j].a # a}
        = {a \in DOMAIN w : \A j \in 1..n : t[j].a # a}
  OBVIOUS
<1>3. Fresh(s, n, w) = Fresh(t, n, w)
  BY <1>2 DEF Fresh
<1> QED
  BY <1>1, <1>3 DEF Merged

\* A merge names each address of the set and of the request, and once if the set
\* does.
LEMMA MergedAddresses ==
  ASSUME NEW s \in Seq(Entries), NEW w \in Requests
  PROVE  LET m == Merged(s, Len(s), w)
         IN  /\ m \in Seq(Entries) /\ Len(s) <= Len(m)
             /\ Once(s) => Once(m)
             /\ AddressesOf(m) = AddressesOf(s) \cup DOMAIN w
             /\ \A i \in 1..Len(s) : m[i].a = s[i].a
<1> DEFINE n == Len(s)
           new == NewTo(s, w)
           k == Cardinality(new)
           q == InOrder(new)
           m == Merged(s, n, w)
<1>1. n \in Nat
  BY LenProperties
<1>2. /\ k \in Nat /\ m \in Seq(Entries) /\ Len(m) = n + k
      /\ \A i \in 1..n : m[i].a = s[i].a
      /\ \A i \in 1..k : m[n + i].a = q[i]
  BY MergedIs
<1>3. /\ q \in [1..k -> new] /\ new \in SUBSET Nat
      /\ \A a \in new : \E i \in 1..k : q[i] = a
      /\ \A i, j \in 1..k : i < j => q[i] < q[j]
  <2>1. new \in SUBSET Addr
    BY RequestsAre DEF NewTo
  <2> HIDE DEF new
  <2> QED
    BY <2>1, Addresses, InOrderLists
<1>4. \A i \in 1..k : q[i] \in Nat
  BY <1>3
<1>5. AddressesOf(s) = {s[i].a : i \in 1..n}
      /\ new = DOMAIN w \ AddressesOf(s)
  BY DEF AddressesOf, NewTo
<1> HIDE DEF k, q, m, n, new
<1>6. ASSUME NEW i \in 1..Len(m)
      PROVE  i \in 1..n \/ \E j \in 1..k : i = n + j
  <2>1. CASE i <= n
    BY <1>1, <2>1
  <2>2. CASE i > n
    <3>1. i - n \in 1..k /\ i = n + (i - n)
      BY <1>1, <1>2, <2>2
    <3> QED
      BY <3>1
  <2> QED
    BY <1>1, <2>1, <2>2
<1>7. \A i \in 1..n : m[i].a \in AddressesOf(s)
  BY <1>2, <1>5
<1>8. ASSUME NEW i \in 1..k PROVE m[n + i].a \in new /\ n + i \in 1..Len(m)
  <2>1. m[n + i].a = q[i] /\ q[i] \in new
    BY <1>2, <1>3
  <2>2. n + i \in 1..n + k
    BY <1>1, <1>2
  <2> QED
    BY <1>2, <2>1, <2>2
<1>9. AddressesOf(m) = AddressesOf(s) \cup DOMAIN w
  <2>1. ASSUME NEW i \in 1..Len(m) PROVE m[i].a \in AddressesOf(s) \cup DOMAIN w
    BY <1>5, <1>6, <1>7, <1>8
  <2>2. ASSUME NEW a \in AddressesOf(s) PROVE \E i \in 1..Len(m) : m[i].a = a
    <3>1. PICK i \in 1..n : s[i].a = a
      BY <1>5
    <3>2. i \in 1..Len(m)
      BY <1>1, <1>2
    <3> QED
      BY <1>2, <3>1, <3>2
  <2>3. ASSUME NEW a \in new PROVE \E i \in 1..Len(m) : m[i].a = a
    <3>1. PICK i \in 1..k : q[i] = a
      BY <1>3
    <3> QED
      BY <1>2, <1>8, <3>1
  <2> QED
    BY <1>5, <2>1, <2>2, <2>3 DEF AddressesOf
<1>10. ASSUME Once(s), NEW i \in 1..Len(m), NEW j \in 1..Len(m), m[i].a = m[j].a
       PROVE  i = j
  <2>1. CASE i \in 1..n /\ j \in 1..n
    BY <1>2, <1>10, <2>1 DEF Once, n
  <2>2. ASSUME NEW x \in 1..k, NEW y \in 1..k, i = n + x, j = n + y
        PROVE  i = j
    <3>1. q[x] = q[y] /\ ~(q[x] < q[y]) /\ ~(q[y] < q[x])
      BY <1>2, <1>4, <1>10, <2>2
    <3>2. ~(x < y) /\ ~(y < x)
      BY <1>3, <3>1
    <3> QED
      BY <1>2, <2>2, <3>2
  <2>3. ASSUME NEW x \in 1..k, i = n + x, j \in 1..n PROVE FALSE
    BY <1>5, <1>7, <1>8, <1>10, <2>3
  <2>4. ASSUME NEW y \in 1..k, i \in 1..n, j = n + y PROVE FALSE
    BY <1>5, <1>7, <1>8, <1>10, <2>4
  <2> QED
    BY <1>6, <2>1, <2>2, <2>3, <2>4
<1> QED
  BY <1>1, <1>2, <1>9, <1>10 DEF Once, m, n

-----------------------------------------------------------------------------
(***************************************************************************)
(* The invariant: what a save has in s_regs when it merges and when it     *)
(* stores.  An apply of the state machine in between loads the stored      *)
(* entries again, over the same addresses and perhaps other values if the  *)
(* save had read them too.                                                 *)
(***************************************************************************)
Was == IF kept THEN nvs ELSE <<>>

MergeInv ==
  link = "merge" => count = Len(Was) /\ \A i \in 1..Len(Was) : sregs[i] = Was[i]

StoreInv ==
  link = "store" =>
    LET m == Merged(Was, Len(Was), writes)
    IN  /\ Len(m) = count
        /\ \A i \in 1..count : /\ kept \/ ~overlap => sregs[i].a = m[i].a
                               /\ ~overlap => sregs[i] = m[i]

SaveInv == SaveTypes /\ kept \in BOOLEAN /\ MergeInv /\ StoreInv

\* What the save could read is a set of entries within the limit.
LEMMA WasIs ==
  ASSUME SaveInv
  PROVE  Was \in Seq(Entries) /\ Len(Was) \in 0..Limit
<1>1. Len(nvs) \in Nat
  BY LenProperties DEF SaveInv, SaveTypes
<1> QED
  BY <1>1, RegisterAssumption DEF SaveInv, SaveTypes, Was

\* A call other than a save or a clear leaves all of this alone.
LEMMA OtherCalls ==
  ASSUME SaveInv, link = "ready", deviceFrame
  PROVE  SaveInv'
BY DEF SaveInv, SaveTypes, MergeInv, StoreInv, Was, deviceFrame, saveVars,
       machineVars

\* The control link loads the stored set.
LEMMA SaveLoadKeeps ==
  ASSUME SaveInv, LogTypes, NEW ok \in BOOLEAN, SaveLoad(ok)
  PROVE  SaveInv'
<1>1. /\ writes' = [a \in Logged |-> LastNew(a)]
      /\ sregs' = Loaded(ok) /\ count' = Entered(ok) /\ kept' = ok
      /\ link' = "merge" /\ UNCHANGED <<nvs, loaded>>
  BY DEF SaveLoad, machineVars
<1>2. /\ Loaded(ok) \in [1..Limit -> Entries] /\ Entered(ok) \in 0..Limit
      /\ ok => \A i \in 1..Len(nvs) : Loaded(ok)[i] = nvs[i]
  BY LoadedTypes DEF SaveInv
<1>3. writes' \in Requests
  <2>1. Logged \in SUBSET Addr /\ writes' \in [Logged -> Values]
    BY <1>1, LastNewTypes
  <2> QED
    BY <2>1 DEF Requests
<1>4. SaveTypes'
  BY <1>1, <1>2, <1>3 DEF SaveInv, SaveTypes
<1>5. MergeInv'
  <2>1. CASE ok
    <3>1. Was' = nvs /\ count' = Len(nvs)
      BY <1>1, <2>1 DEF Was, Entered
    <3> QED
      BY <1>1, <1>2, <2>1, <3>1 DEF MergeInv
  <2>2. CASE ~ok
    <3>1. Was' = <<>> /\ count' = 0 /\ Len(<<>>) = 0
      BY <1>1, <2>2 DEF Was, Entered
    <3> QED
      BY <3>1 DEF MergeInv
  <2> QED
    BY <2>1, <2>2
<1> QED
  BY <1>1, <1>4, <1>5 DEF SaveInv, StoreInv

\* It merges the request into it, or gives up half way.
LEMMA SaveMergeKeeps ==
  ASSUME SaveInv, SaveMerge
  PROVE  SaveInv'
<1> DEFINE m == Merged(sregs, count, writes)
           n == Merged(Was, Len(Was), writes)
<1>1. /\ link = "merge"
      /\ sregs' = [i \in 1..Limit |-> IF i <= Len(m) THEN m[i] ELSE sregs[i]]
      /\ IF Len(m) > Limit THEN link' = "ready" /\ UNCHANGED count
                           ELSE link' = "store" /\ count' = Len(m)
      /\ UNCHANGED <<nvs, writes, kept, loaded, overlap>>
  BY DEF SaveMerge, machineVars
<1>2. /\ Was \in Seq(Entries) /\ Len(Was) \in Nat /\ writes \in Requests
  BY WasIs, LenProperties DEF SaveInv, SaveTypes
<1>3. m = n
  <2>1. count = Len(Was) /\ \A i \in 1..Len(Was) : sregs[i] = Was[i]
    BY <1>1 DEF SaveInv, MergeInv
  <2> DEFINE k == Len(Was)
  <2>2. k \in Nat /\ \A i \in 1..k : sregs[i] = Was[i]
    BY <1>2, <2>1
  <2>3. Merged(sregs, k, writes) = Merged(Was, k, writes)
    <3> HIDE DEF k
    <3> QED
      BY <2>2, MergedSame
  <2> QED
    BY <2>1, <2>3
<1>4. m \in Seq(Entries) /\ Len(m) \in Nat
  BY <1>2, <1>3, MergedAddresses, LenProperties
<1>5. n' = n
  BY <1>1 DEF Was
<1> HIDE DEF m, n
<1>6. \A i \in 1..Len(m) : m[i] \in Entries
  BY <1>4, ElementOfSeq
<1>7. sregs' \in [1..Limit -> Entries]
  <2> SUFFICES ASSUME NEW i \in 1..Limit
               PROVE  (IF i <= Len(m) THEN m[i] ELSE sregs[i]) \in Entries
    BY <1>1
  <2> QED
    BY <1>4, <1>6 DEF SaveInv, SaveTypes
<1>8. count' \in 0..Limit
  BY <1>1, <1>4, RegisterAssumption DEF SaveInv, SaveTypes
<1>9. SaveTypes' /\ kept' \in BOOLEAN
  BY <1>1, <1>7, <1>8 DEF SaveInv, SaveTypes
<1>10. ASSUME link' = "store"
       PROVE  /\ Len(n) = count' /\ \A i \in 1..count' : sregs'[i] = n[i]
  <2>1. ~(Len(m) > Limit) /\ count' = Len(m)
    BY <1>1, <1>10
  <2>2. ASSUME NEW i \in 1..count' PROVE sregs'[i] = m[i]
    <3>1. i \in 1..Limit /\ i <= Len(m)
      BY <1>4, <2>1, RegisterAssumption
    <3> QED
      BY <1>1, <3>1
  <2> QED
    BY <1>3, <2>1, <2>2
<1>11. StoreInv'
  BY <1>5, <1>10 DEF StoreInv, n
<1>12. MergeInv'
  BY <1>1 DEF MergeInv
<1> QED
  BY <1>9, <1>11, <1>12 DEF SaveInv

\* What the control link stores is the merged set, by its addresses, and by its
\* values too unless s_regs has been loaded meanwhile.  (If the save could not
\* read the set, such a load may replace its addresses.)
LEMMA StoredIs ==
  ASSUME SaveInv, link = "store"
  PROVE  LET stored == SubSeq(sregs, 1, count)
         IN  /\ stored \in Seq(Entries) /\ Len(stored) = count
             /\ kept \/ ~overlap =>
                  /\ Once(Was) => Once(stored)
                  /\ AddressesOf(stored) = AddressesOf(Was) \cup DOMAIN writes
             /\ ~overlap => stored = Merged(Was, Len(Was), writes)
<1> DEFINE stored == SubSeq(sregs, 1, count)
           m == Merged(Was, Len(Was), writes)
<1>1. /\ m \in Seq(Entries) /\ (Once(Was) => Once(m))
      /\ AddressesOf(m) = AddressesOf(Was) \cup DOMAIN writes
  BY WasIs, MergedAddresses DEF SaveInv, SaveTypes
<1>2. /\ Len(m) = count
      /\ \A i \in 1..count : /\ kept \/ ~overlap => sregs[i].a = m[i].a
                             /\ ~overlap => sregs[i] = m[i]
  BY DEF SaveInv, StoreInv
<1>9. /\ kept \/ ~overlap => \A i \in 1..count : sregs[i].a = m[i].a
      /\ ~overlap => \A i \in 1..count : sregs[i] = m[i]
  <2> HIDE DEF m
  <2>1. ASSUME kept \/ ~overlap, NEW i \in 1..count PROVE sregs[i].a = m[i].a
    BY <1>2, <2>1, Zenon
  <2>2. ASSUME ~overlap, NEW i \in 1..count PROVE sregs[i] = m[i]
    BY <1>2, <2>2, Zenon
  <2> QED
    BY <2>1, <2>2, Zenon
<1>3. /\ Limit \in Nat /\ count \in 0..Limit /\ sregs \in Seq(Entries)
      /\ Len(sregs) = Limit /\ \A i \in 1..Limit : sregs[i] \in Entries
  BY SequenceOf, RegisterAssumption DEF SaveInv, SaveTypes
<1>4. /\ stored \in Seq(Entries) /\ Len(stored) = count
      /\ \A i \in 1..count : stored[i] = sregs[i]
  <2>1. /\ \A i \in 1..count : sregs[i] \in Entries
        /\ count \in Nat
    BY <1>3
  <2>2. /\ stored \in Seq(Entries)
        /\ Len(stored) = IF 1 <= count THEN (count - 1) + 1 ELSE 0
        /\ \A i \in 1..(count - 1) + 1 : stored[i] = sregs[(1 + i) - 1]
    <3>1. stored = [i \in 1..count |-> sregs[(i + 1) - 1]]
      BY <2>1 DEF stored
    <3> QED
      BY <1>3, <2>1, <3>1
  <2>3. ASSUME NEW i \in 1..count PROVE stored[i] = sregs[i]
    <3>1. i \in 1..(count - 1) + 1 /\ (1 + i) - 1 = i
      BY <2>1
    <3> QED
      BY <2>2, <3>1
  <2> QED
    BY <2>1, <2>2, <2>3
<1> HIDE DEF stored, m
<1>5. ASSUME kept \/ ~overlap PROVE \A i \in 1..count : stored[i].a = m[i].a
  <2>1. \A i \in 1..count : sregs[i].a = m[i].a
    BY <1>5, <1>9, Zenon
  <2> QED
    BY <1>4, <2>1
<1>6. ASSUME kept \/ ~overlap, Once(Was) PROVE Once(stored)
  BY <1>1, <1>2, <1>4, <1>5, <1>6 DEF Once
<1>7. ASSUME kept \/ ~overlap PROVE AddressesOf(stored) = AddressesOf(m)
  BY <1>2, <1>4, <1>5, <1>7 DEF AddressesOf
<1>8. ASSUME ~overlap PROVE stored = m
  <2>1. DOMAIN stored = 1..count /\ DOMAIN m = 1..count
    BY <1>1, <1>2, <1>4, LenProperties
  <2>4. \A i \in 1..count : sregs[i] = m[i]
    BY <1>8, <1>9, Zenon
  <2>2. \A i \in 1..count : stored[i] = m[i]
    BY <1>4, <2>4
  <2>3. stored = [i \in 1..count |-> stored[i]] /\ m = [i \in 1..count |-> m[i]]
    BY <1>1, <1>4, <2>1, LenProperties
  <2> QED
    BY <2>2, <2>3
<1> QED
  BY <1>1, <1>4, <1>6, <1>7, <1>8 DEF stored, m

\* It stores the merged set, or fails to.
LEMMA SaveStoreKeeps ==
  ASSUME SaveInv, NEW ok \in BOOLEAN, SaveStore(ok)
  PROVE  SaveInv'
<1>1. /\ link = "store" /\ link' \in {"apply", "ready"}
      /\ nvs' = IF ok THEN SubSeq(sregs, 1, count) ELSE nvs
      /\ UNCHANGED <<sregs, writes, count, kept, loaded>>
  BY DEF SaveStore, machineVars
<1>2. nvs' \in Seq(Entries) /\ Len(nvs') <= Limit
  <2>1. CASE ok
    <3> DEFINE stored == SubSeq(sregs, 1, count)
    <3>1. stored \in Seq(Entries) /\ Len(stored) = count
      BY <1>1, StoredIs
    <3>2. nvs' = stored /\ count <= Limit
      BY <1>1, <2>1, RegisterAssumption DEF SaveInv, SaveTypes
    <3> HIDE DEF stored
    <3> QED
      BY <3>1, <3>2
  <2>2. CASE ~ok
    BY <1>1, <2>2 DEF SaveInv, SaveTypes
  <2> QED
    BY <2>1, <2>2
<1> QED
  BY <1>1, <1>2 DEF SaveInv, SaveTypes, MergeInv, StoreInv, Was

\* It applies the stored set, which it loads again.
LEMMA SaveApplyKeeps ==
  ASSUME SaveInv, NEW ok \in BOOLEAN, SaveApply(ok)
  PROVE  SaveInv'
<1>1. /\ sregs' = Loaded(ok) /\ link' = "ready"
      /\ UNCHANGED <<nvs, writes, count, kept, loaded>>
  BY DEF SaveApply, machineVars
<1>2. Loaded(ok) \in [1..Limit -> Entries]
  BY LoadedTypes DEF SaveInv
<1> QED
  BY <1>1, <1>2 DEF SaveInv, SaveTypes, MergeInv, StoreInv

\* "regw_clear" erases the stored set.
LEMMA ClearKeeps ==
  ASSUME SaveInv, Clear
  PROVE  SaveInv'
<1>1. /\ nvs' = <<>> /\ link = "ready"
      /\ UNCHANGED <<sregs, link, writes, count, kept, loaded>>
  BY DEF Clear, Call, saveVars, machineVars
<1>2. nvs' \in Seq(Entries) /\ Len(nvs') <= Limit
  BY <1>1, RegisterAssumption
<1> QED
  BY <1>1, <1>2 DEF SaveInv, SaveTypes, MergeInv, StoreInv

\* The state machine loads the stored set into s_regs, whatever the control
\* link does there: the addresses of what it merged stay if it had read the same
\* set.
LEMMA ApplyLoadKeeps ==
  ASSUME SaveInv, NEW ok \in BOOLEAN, ApplyLoad(ok)
  PROVE  SaveInv'
<1>1. /\ sregs' = Loaded(ok) /\ loaded' = Entered(ok)
      /\ overlap' = (overlap \/ (ok /\ link \in {"merge", "store"}))
      /\ UNCHANGED <<nvs, writes, count, link, kept>> /\ Was' = Was
  BY DEF ApplyLoad, saveVars, Was
<1>2. /\ Loaded(ok) \in [1..Limit -> Entries] /\ Len(nvs) \in 0..Limit
      /\ Entered(ok) \in 0..Limit
      /\ ok => \A i \in 1..Len(nvs) : Loaded(ok)[i] = nvs[i]
      /\ \A i \in 1..Limit : ~ok \/ i > Len(nvs) => Loaded(ok)[i] = sregs[i]
  BY LoadedTypes DEF SaveInv
<1>3. SaveTypes' /\ kept' \in BOOLEAN
  BY <1>1, <1>2 DEF SaveInv, SaveTypes
<1>4. MergeInv'
  <2> SUFFICES ASSUME link = "merge", NEW i \in 1..Len(Was)
               PROVE  Loaded(ok)[i] = Was[i]
    BY <1>1 DEF SaveInv, MergeInv
  <2>1. sregs[i] = Was[i]
    BY DEF SaveInv, MergeInv
  <2>2. CASE kept /\ ok
    BY <1>2, <2>2 DEF Was
  <2>3. CASE kept /\ ~ok
    <3>1. i \in 1..Limit
      BY <1>2, <2>3, RegisterAssumption DEF Was
    <3> QED
      BY <1>2, <2>1, <2>3, <3>1
  <2>4. CASE ~kept
    <3>1. Len(Was) = 0
      BY <2>4 DEF Was
    <3> QED
      BY <3>1
  <2> QED
    BY <2>2, <2>3, <2>4 DEF SaveInv
<1>5. StoreInv'
  <2> SUFFICES ASSUME link = "store"
               PROVE  LET m == Merged(Was, Len(Was), writes)
                      IN  /\ Len(m) = count
                          /\ \A i \in 1..count :
                               /\ kept \/ ~overlap' => Loaded(ok)[i].a = m[i].a
                               /\ ~overlap' => Loaded(ok)[i] = m[i]
    BY <1>1 DEF StoreInv
  <2> DEFINE m == Merged(Was, Len(Was), writes)
  <2>1. \A i \in 1..Len(Was) : m[i].a = Was[i].a
    BY WasIs, MergedAddresses DEF SaveInv, SaveTypes
  <2>2. /\ Len(m) = count
        /\ \A i \in 1..count : /\ kept \/ ~overlap => sregs[i].a = m[i].a
                               /\ ~overlap => sregs[i] = m[i]
    BY DEF SaveInv, StoreInv
  <2> HIDE DEF m
  <2>3. ASSUME NEW i \in 1..count
        PROVE  /\ kept \/ ~overlap' => Loaded(ok)[i].a = m[i].a
               /\ ~overlap' => Loaded(ok)[i] = m[i]
    <3>1. i \in 1..Limit /\ i \in Nat /\ i >= 1
      BY RegisterAssumption DEF SaveInv, SaveTypes
    <3>2. CASE ok /\ i <= Len(nvs)
      <4>3. i \in 1..Len(nvs)
        BY <1>2, <3>1, <3>2
      <4>5. link \in {"merge", "store"}
        OBVIOUS
      <4>4. overlap'
        BY <1>1, <3>2, <4>5, Zenon
      <4>1. overlap' /\ i \in 1..Len(nvs)
        BY <4>3, <4>4, Zenon
      <4>2. ASSUME kept PROVE Loaded(ok)[i].a = m[i].a
        <5>1. Was = nvs
          BY <4>2 DEF Was
        <5> QED
          BY <1>2, <2>1, <3>2, <4>1, <5>1
      <4> QED
        BY <4>1, <4>2
    <3>3. CASE ~(ok /\ i <= Len(nvs))
      <4>1. ~ok \/ i > Len(nvs)
        BY <1>2, <3>1, <3>3
      <4>2. Loaded(ok)[i] = sregs[i]
        BY <1>2, <3>1, <4>1
      <4>3. ~overlap' => ~overlap
        BY <1>1, Zenon
      <4>4. /\ kept \/ ~overlap => sregs[i].a = m[i].a
            /\ ~overlap => sregs[i] = m[i]
        BY <2>2
      <4> QED
        BY <4>2, <4>3, <4>4, Zenon
    <3> QED
      BY <3>2, <3>3
  <2> QED
    BY <2>2, <2>3 DEF m
<1> QED
  BY <1>3, <1>4, <1>5 DEF SaveInv

\* The other steps of the state machine leave the save alone.
LEMMA CameraKeeps ==
  ASSUME SaveInv,
         \/ CameraInit \/ UNCHANGED chainVars
         \/ \E stays \in BOOLEAN : ApplySet(stays)
  PROVE  SaveInv'
<1>1. UNCHANGED <<nvs, sregs, writes, count, link, kept, loaded, overlap>>
  BY DEF CameraInit, ApplySet, saveVars, chainVars, machineVars
<1> QED
  BY <1>1 DEF SaveInv, SaveTypes, MergeInv, StoreInv, Was

\* Saving does not touch what the undo log is about until it applies the set;
\* what it changes in the sensor then strays unless the log names it.
LEMMA SaveCovers ==
  ASSUME CoverInv, SaveInv,
         \/ SaveMerge \/ Clear \/ UNCHANGED chainVars
         \/ \E ok \in BOOLEAN :
              SaveLoad(ok) \/ SaveStore(ok) \/ ApplyLoad(ok) \/ SaveApply(ok)
  PROVE  CoverInv'
<1>1. CASE \/ SaveMerge \/ Clear \/ UNCHANGED chainVars
           \/ \E ok \in BOOLEAN : SaveLoad(ok) \/ SaveStore(ok) \/ ApplyLoad(ok)
  <2>1. UNCHANGED <<sensor, base, mirror, undo, strays>>
    BY <1>1 DEF SaveLoad, SaveMerge, Clear, SaveStore, ApplyLoad, chainVars,
                hostVars
  <2> QED
    BY <2>1 DEF CoverInv, LogTypes, UndoCovers, Logged
<1>2. ASSUME NEW ok \in BOOLEAN, SaveApply(ok) PROVE CoverInv'
  <2>1. /\ sensor' = Applied(sensor, count) /\ strays' = Strayed(sensor', {})
        /\ UNCHANGED <<undo, mirror, base>>
    BY <1>2 DEF SaveApply
  <2>2. sensor' \in [Addr -> Values] /\ strays' \in SUBSET Addr
    BY <2>1, AppliedTypes, StrayedIs DEF SaveInv, SaveTypes, CoverInv, LogTypes
  <2>3. UndoCovers'
    BY <2>1, UntoldCovers
  <2> QED
    BY <2>1, <2>2, <2>3 DEF CoverInv, LogTypes
<1> QED
  BY <1>1, <1>2

\* The state machine sets up the camera, and a new console begins a new log.
LEMMA CameraCovers ==
  ASSUME CoverInv, SaveInv,
         CameraInit \/ (\E stays \in BOOLEAN : ApplySet(stays))
  PROVE  CoverInv'
<1>1. CASE CameraInit
  <2>1. /\ sensor' = Default /\ strays' = Strayed(sensor', {})
        /\ UNCHANGED <<undo, mirror, base>>
    BY <1>1 DEF CameraInit
  <2>2. sensor' \in [Addr -> Values] /\ strays' \in SUBSET Addr
    BY <2>1, RegisterAssumption, StrayedIs DEF Default, CoverInv, LogTypes
  <2>3. UndoCovers'
    BY <2>1, UntoldCovers
  <2> QED
    BY <2>1, <2>2, <2>3 DEF CoverInv, LogTypes
<1>2. ASSUME NEW stays \in BOOLEAN, ApplySet(stays) PROVE CoverInv'
  <2>1. /\ sensor' = Applied(sensor, loaded)
        /\ \/ /\ undo' = <<>> /\ mirror' \in {0, sensor'[Orientation]}
              /\ base' = sensor' /\ strays' = {}
           \/ UNCHANGED <<undo, mirror, base>> /\ strays' = Strayed(sensor', {})
    BY <1>2 DEF ApplySet
  <2>2. sensor' \in [Addr -> Values]
    BY <2>1, AppliedTypes DEF SaveInv, SaveTypes, CoverInv, LogTypes
  <2>3. CASE /\ undo' = <<>> /\ mirror' \in {0, sensor'[Orientation]}
             /\ base' = sensor' /\ strays' = {}
    <3>1. mirror' \in Values
      BY <2>2, <2>3, Addresses, RegisterAssumption
    <3> QED
      BY <2>2, <2>3, <3>1, EmptyLog DEF CoverInv, LogTypes, UndoCovers, Logged
  <2>4. CASE UNCHANGED <<undo, mirror, base>> /\ strays' = Strayed(sensor', {})
    <3>1. UndoCovers' /\ strays' \in SUBSET Addr
      BY <2>4, UntoldCovers, StrayedIs DEF CoverInv, LogTypes
    <3> QED
      BY <2>2, <2>4, <3>1 DEF CoverInv, LogTypes
  <2> QED
    BY <2>1, <2>3, <2>4
<1> QED
  BY <1>1, <1>2

-----------------------------------------------------------------------------
(***************************************************************************)
(* The theorems.                                                           *)
(***************************************************************************)
ChainInv == CoverInv /\ SaveInv

\* The invariant holds when the console has just been opened.
LEMMA ChainStarts ==
  ASSUME ChainInit
  PROVE  ChainInv
<1>1. LogTypes
  BY RegisterAssumption, EmptyLog DEF ChainInit, LogTypes, Default
<1>2. UndoCovers
  BY EmptyLog DEF ChainInit, UndoCovers, Logged
<1>3. SaveTypes
  <2>1. Blank \in Entries
    BY RegisterAssumption, Addresses DEF Blank, Entries
  <2>2. <<>> \in Requests
    <3>1. <<>> \in [{} -> Values]
      OBVIOUS
    <3> QED
      BY <3>1 DEF Requests
  <2>3. 0 \in 0..Limit /\ Len(<<>>) <= Limit /\ <<>> \in Seq(Entries)
    BY RegisterAssumption
  <2> QED
    BY <2>1, <2>2, <2>3 DEF ChainInit, SaveTypes
<1>4. kept \in BOOLEAN /\ MergeInv /\ StoreInv
  BY DEF ChainInit, MergeInv, StoreInv
<1> QED
  BY <1>1, <1>2, <1>3, <1>4 DEF ChainInv, CoverInv, SaveInv

\* Every step keeps the invariant.
LEMMA ChainSteps ==
  ASSUME ChainInv, [ChainNext]_chainVars
  PROVE  ChainInv'
<1> USE DEF ChainInv
<1>1. ASSUME NEW as \in SUBSET Addr \ {{}}, NEW record \in BOOLEAN,
             NEW answered \in BOOLEAN, NEW w \in [as -> Values],
             NEW failed \in SUBSET as, Regw(w, failed, record, answered)
      PROVE  ChainInv'
  <2>1. w \in Requests
    BY DEF Requests
  <2>2. link = "ready" /\ deviceFrame
    BY <1>1 DEF Regw, Call
  <2> QED
    BY <1>1, <2>1, <2>2, RegwCovers, OtherCalls
<1>2. ASSUME NEW v \in Values, NEW done \in BOOLEAN, NEW answered \in BOOLEAN,
             Orient(v, done, answered)
      PROVE  ChainInv'
  <2>1. link = "ready" /\ deviceFrame
    BY <1>2 DEF Orient, Call
  <2> QED
    BY <1>2, <2>1, OrientCovers, OtherCalls
<1>3. ASSUME NEW mark \in 0..Len(undo), NEW failed \in SUBSET Addr,
             NEW answered \in BOOLEAN, Revert(mark, failed, answered)
      PROVE  ChainInv'
  <2>1. link = "ready" /\ deviceFrame
    BY <1>3 DEF Revert, Call
  <2> QED
    BY <1>3, <2>1, RevertCovers, OtherCalls
<1>4. ASSUME NEW answered \in BOOLEAN, NEW done \in BOOLEAN, NEW heard \in BOOLEAN,
             SetMode(answered, done, heard)
      PROVE  ChainInv'
  <2>1. link = "ready" /\ deviceFrame
    BY <1>4 DEF SetMode, Call
  <2> QED
    BY <1>4, <2>1, SetModeCovers, OtherCalls
<1>5. CASE \E ok \in BOOLEAN : SaveLoad(ok)
  BY <1>5, SaveCovers, SaveLoadKeeps DEF CoverInv
<1>6. CASE Clear
  BY <1>6, SaveCovers, ClearKeeps
<1>7. CASE SaveMerge
  BY <1>7, SaveCovers, SaveMergeKeeps
<1>8. CASE \E ok \in BOOLEAN : SaveStore(ok)
  BY <1>8, SaveCovers, SaveStoreKeeps
<1>9. CASE \E ok \in BOOLEAN : SaveApply(ok)
  BY <1>9, SaveCovers, SaveApplyKeeps
<1>10. CASE \E ok \in BOOLEAN : ApplyLoad(ok)
  BY <1>10, SaveCovers, ApplyLoadKeeps
<1>11. CASE CameraInit \/ (\E stays \in BOOLEAN : ApplySet(stays))
  BY <1>11, CameraCovers, CameraKeeps
<1>12. CASE UNCHANGED chainVars
  BY <1>12, SaveCovers, CameraKeeps
<1> QED
  BY <1>1, <1>2, <1>3, <1>4, <1>5, <1>6, <1>7, <1>8, <1>9, <1>10, <1>11, <1>12
     DEF ChainNext, ConsoleStep, LinkStep, MachineStep

\* The log, the types and the save's hold on s_regs, in every state.
THEOREM ChainInvariant == ChainSpec => []ChainInv
<1>1. ChainInit => ChainInv
  BY ChainStarts
<1>2. ChainInv /\ [ChainNext]_chainVars => ChainInv'
  BY ChainSteps
<1> QED
  BY <1>1, <1>2, PTL DEF ChainSpec

\* "undo" brings back every register of a console's session, for any number of
\* registers, any values, any requests and tuning steps and any failed writes,
\* but for the registers that were changed behind the log's back.
THEOREM UndoBringsBack == ChainSpec => []UndoCovers
<1>1. ChainInv => UndoCovers
  BY DEF ChainInv, CoverInv
<1> QED
  BY <1>1, ChainInvariant, PTL

\* A save stores the set that it could read merged with the request, or nothing,
\* for any limit, with loads and stores that fail, and a state machine that
\* loads s_regs in the middle of it.
THEOREM SavesAreWhole == ChainSpec => SaveIsWhole
<1> DEFINE Whole ==
      LET was == IF kept THEN nvs ELSE <<>>
      IN  nvs' \notin {nvs, <<>>} =>
            /\ Len(nvs') <= Limit
            /\ kept \/ ~overlap =>
                 /\ Once(was) => Once(nvs')
                 /\ AddressesOf(nvs') = AddressesOf(was) \cup DOMAIN writes
            /\ ~overlap => nvs' = Merged(was, Len(was), writes)
<1>1. ASSUME ChainInv, [ChainNext]_chainVars PROVE Whole
  <2>1. CASE \E ok \in BOOLEAN : SaveStore(ok)
    <3> DEFINE stored == SubSeq(sregs, 1, count)
    <3>1. link = "store" /\ (nvs' = stored \/ nvs' = nvs)
      BY <2>1 DEF SaveStore
    <3>2. /\ Len(stored) = count
          /\ kept \/ ~overlap =>
               /\ Once(Was) => Once(stored)
               /\ AddressesOf(stored) = AddressesOf(Was) \cup DOMAIN writes
          /\ ~overlap => stored = Merged(Was, Len(Was), writes)
      BY <1>1, <3>1, StoredIs DEF ChainInv
    <3>3. count <= Limit
      BY <1>1, RegisterAssumption DEF ChainInv, SaveInv, SaveTypes
    <3> HIDE DEF stored
    <3>4. nvs' = stored => Whole
      BY <3>2, <3>3 DEF Was
    <3> QED
      BY <3>1, <3>4
  <2>2. CASE ~\E ok \in BOOLEAN : SaveStore(ok)
    <3>1. nvs' = nvs \/ nvs' = <<>>
      BY <1>1, <2>2 DEF ChainNext, ConsoleStep, LinkStep, MachineStep, Regw,
         Orient, Revert, SetMode, SaveLoad, Clear, SaveMerge, SaveApply,
         CameraInit, ApplyLoad, ApplySet, deviceFrame, chainVars
    <3> QED
      BY <3>1
  <2> QED
    BY <2>1, <2>2
<1>2. ChainInv /\ ChainInv' /\ [ChainNext]_chainVars => [Whole]_chainVars
  BY <1>1
<1> QED
  BY <1>2, ChainInvariant, PTL DEF ChainSpec, SaveIsWhole
=============================================================================
