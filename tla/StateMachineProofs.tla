------------------------- MODULE StateMachineProofs -------------------------
(***************************************************************************)
(* For any queue length, number of inputs, and with or without IMU and SD  *)
(* card: between commands the mode tells what runs, and the mode a host    *)
(* sees implements OperatingMode.                                          *)
(*                                                                         *)
(* The invariant says what a transition may count on at each of its steps: *)
(* a teardown and a roll-back still have every running pipeline ahead of   *)
(* them in their plan, a start has exactly the rest of its order ahead.    *)
(* The control link takes no part: it changes no variable of the argument. *)
(***************************************************************************)
EXTENDS StateMachine, SequenceTheorems, TLAPS

Elements(s) == {s[i] : i \in DOMAIN s}
Needed(m) == {"camera", "stats", m}
Allowed(m) == {"imu", "camera", "stats", m}

\* What a start of m still has to do, and what it has done.
Starting(m) ==
  \/ plan = <<"imu", "camera", m, "stats">> /\ running = {}
  \/ plan = <<"camera", m, "stats">> /\ running \subseteq {"imu"}
  \/ /\ plan = <<m, "stats">>
     /\ "camera" \in running /\ running \subseteq {"imu", "camera"}
  \/ /\ plan = <<"stats">>
     /\ {"camera", m} \subseteq running
     /\ running \subseteq {"imu", "camera", m}
  \/ /\ plan = <<>>
     /\ Needed(m) \subseteq running /\ running \subseteq Allowed(m)

AtRest ==
  task \in {"serial", "queue", "dispatch"} =>
    IF mode \in Streams
      THEN Needed(mode) \subseteq running /\ running \subseteq Allowed(mode)
      ELSE running = {} /\ mode # "imu_cal"

Stopping ==
  /\ task = "leaveCal" =>
       running = {} /\ plan = <<>> /\ cmd.mode \in Modes
  /\ task = "teardown" =>
       running \subseteq Elements(plan) /\ cmd.mode \in Modes
  /\ task = "rollback" => running \subseteq Elements(plan) /\ mode = "idle"

Entering ==
  /\ task \in {"enterCal", "resize", "start"} => mode = "idle"
  /\ task = "enterCal" => running = {}
  /\ task \in {"resize", "start"} =>
       cmd.mode \in Streams /\ Starting(cmd.mode)
  /\ task \in {"imuCal", "prompt", "calibrate"} => running = {}

TransitionInv == AtRest /\ Stopping /\ Entering

-----------------------------------------------------------------------------
(***************************************************************************)
(* Facts about plans.                                                      *)
(***************************************************************************)
\* The elements of a sequence are its head's and its tail's.
LEMMA ElementsOfTail ==
  ASSUME NEW S, NEW s \in Seq(S), s # <<>>
  PROVE  Elements(s) = {Head(s)} \cup Elements(Tail(s))
<1>1. /\ Head(s) = s[1] /\ Len(s) \in Nat \ {0} /\ DOMAIN s = 1..Len(s)
      /\ DOMAIN Tail(s) = 1..(Len(s) - 1)
      /\ \A i \in 1..(Len(s) - 1) : Tail(s)[i] = s[i + 1]
  BY HeadTailProperties, LenProperties, EmptySeq
<1>2. ASSUME NEW i \in 1..Len(s)
      PROVE  s[i] \in {Head(s)} \cup Elements(Tail(s))
  <2>1. CASE i = 1
    BY <1>1, <2>1
  <2>2. CASE i # 1
    <3>1. i - 1 \in 1..(Len(s) - 1) /\ s[i] = Tail(s)[i - 1]
      BY <1>1, <1>2, <2>2
    <3> QED
      BY <1>1, <3>1 DEF Elements
  <2> QED
    BY <2>1, <2>2
<1>3. ASSUME NEW i \in 1..(Len(s) - 1)
      PROVE  Tail(s)[i] \in Elements(s)
  BY <1>1, <1>3 DEF Elements
<1>4. Head(s) \in Elements(s)
  BY <1>1 DEF Elements
<1> QED
  BY <1>1, <1>2, <1>3, <1>4 DEF Elements

\* An empty plan has no elements.
LEMMA ElementsOfEmpty == Elements(<<>>) = {}
BY DEF Elements

\* The stop order of a stream names all that can run under it.
LEMMA StopOrderFacts ==
  ASSUME NEW m \in Streams
  PROVE  StopOrder(m) \in Seq(Pipelines) /\ Elements(StopOrder(m)) = Allowed(m)
<1>1. CASE m = "sdcard"
  BY <1>1 DEF StopOrder, Pipelines, Streams, Elements, Allowed
<1>2. CASE m # "sdcard"
  BY <1>2 DEF StopOrder, Pipelines, Streams, Elements, Allowed
<1> QED
  BY <1>1, <1>2

\* A start begins at the first stage of its order.
LEMMA StartOrderFacts ==
  ASSUME NEW c, c.mode \in Streams
  PROVE  /\ StartOrder(c) \in Seq(Pipelines)
         /\ \/ StartOrder(c) = <<"imu", "camera", c.mode, "stats">>
            \/ StartOrder(c) = <<"camera", c.mode, "stats">>
<1>1. CASE c.imu /\ ImuPresent
  BY <1>1 DEF StartOrder, Pipelines, Streams
<1>2. CASE ~(c.imu /\ ImuPresent)
  BY <1>2 DEF StartOrder, Pipelines, Streams
<1> QED
  BY <1>1, <1>2
-----------------------------------------------------------------------------
(***************************************************************************)
(* The steps.                                                              *)
(***************************************************************************)
\* The control link and the console change nothing of a transition.
LEMMA OthersKeepOut ==
  ASSUME LinkStep \/ \E b \in Bytes : TypeByte(b)
  PROVE  UNCHANGED <<mode, task, source, cmd, plan, running>>
<1>1. ASSUME NEW b \in Bytes, TypeByte(b)
      PROVE  UNCHANGED <<mode, task, source, cmd, plan, running>>
  BY <1>1 DEF TypeByte, deviceVars
<1>2. CASE LinkStep
  BY <1>2 DEF LinkStep, deviceVars, SetState, SeePrompt, PostAxis,
    BeginCalibrationCommand, UseCamera, SetMode, RestoreCamera, PostExit
<1> QED
  BY <1>1, <1>2

\* The command that ends a calibration is one the link may post.
LEMMA IdleCommand ==
  /\ Command("idle", FALSE, FALSE) \in LinkCommands
  /\ Command("idle", FALSE, FALSE) \in AnyCommand
BY DEF Command, LinkCommands, AnyCommand, Modes, Streams

\* Nothing runs and nothing is asked for when the firmware starts.
LEMMA InitInv == Init => TypeOK /\ TransitionInv
<1> SUFFICES ASSUME Init PROVE TypeOK /\ TransitionInv
  OBVIOUS
<1>1. Command("idle", FALSE, FALSE) \in AnyCommand
  BY IdleCommand
<1>2. TypeOK
  <2>1. serial \in Seq(Bytes) /\ cmds \in Seq(LinkCommands)
    BY EmptySeq DEF Init
  <2>2. plan \in Seq(Pipelines) /\ Len(cmds) = 0
    BY EmptySeq DEF Init
  <2>3. Len(cmds) <= CmdQueueLen /\ 0 \in 0..MaxInputs
    BY <2>2, InputAssumption
  <2>4. mode \in Modes /\ running \subseteq Pipelines
    BY DEF Init, Modes
  <2>5. cmd \in AnyCommand
    BY <1>1 DEF Init
  <2> QED
    BY <2>1, <2>2, <2>3, <2>4, <2>5 DEF Init, TypeOK
<1>3. TransitionInv
  BY DEF Init, TransitionInv, AtRest, Stopping, Entering, Modes, Streams
<1> QED
  BY <1>2, <1>3

\* Every step keeps what a transition may count on.
LEMMA TransitionNext ==
  ASSUME TypeOK, TransitionInv, [Next]_vars
  PROVE  TransitionInv'
<1> USE DEF TransitionInv, handleFrame, imuFrame, pollFrame, inputVars,
        linkVars, promptVars
<1>1. CASE SerialByte
  BY <1>1 DEF SerialByte, AtRest, Stopping, Entering
<1>2. CASE SerialDrained
  BY <1>2 DEF SerialDrained, AtRest, Stopping, Entering
<1>3. CASE QueuedCommand
  BY <1>3 DEF QueuedCommand, AtRest, Stopping, Entering
<1>4. CASE QueueDrained
  BY <1>4 DEF QueueDrained, AtRest, Stopping, Entering
<1>5. CASE Dispatch
  <2>1. CASE Ignored(cmd)
    BY <1>5, <2>1 DEF Dispatch, AtRest, Stopping, Entering, TypeOK
  <2>2. CASE ~Ignored(cmd) /\ mode \in Streams
    <3>1. task' = "teardown" /\ plan' = StopOrder(mode)
      BY <1>5, <2>2 DEF Dispatch, Streams
    <3>2. running' \subseteq Elements(plan')
      BY <1>5, <2>2, <3>1, StopOrderFacts DEF Dispatch, AtRest
    <3> QED
      BY <1>5, <2>2, <3>1, <3>2
      DEF Dispatch, Ignored, AtRest, Stopping, Entering
  <2>3. CASE ~Ignored(cmd) /\ mode \notin Streams
    BY <1>5, <2>3, ElementsOfEmpty
    DEF Dispatch, Ignored, AtRest, Stopping, Entering
  <2> QED
    BY <2>1, <2>2, <2>3
<1>6. CASE StopPipeline
  <2>1. running' \subseteq Elements(plan')
    BY <1>6, ElementsOfTail DEF StopPipeline, Stopping, TypeOK
  <2> QED
    BY <1>6, <2>1 DEF StopPipeline, AtRest, Stopping, Entering
<1>7. ASSUME NEW ok \in BOOLEAN, LeaveCalibration(ok)
      PROVE  TransitionInv'
  BY <1>7, ElementsOfEmpty
  DEF LeaveCalibration, AtRest, Stopping, Entering
<1>8. CASE Enter
  <2>1. running = {} /\ running' = {} /\ cmd.mode \in Modes /\ cmd' = cmd
    BY <1>8, ElementsOfEmpty DEF Enter, Stopping
  <2>2. CASE cmd.mode \in Streams
    <3>1. Starting(cmd.mode)'
      BY <1>8, <2>1, <2>2, StartOrderFacts DEF Enter, Starting
    <3>2. task' \in {"resize", "start"} /\ mode' = "idle"
      BY <1>8, <2>2 DEF Enter, Streams
    <3> QED
      BY <2>1, <2>2, <3>1, <3>2 DEF AtRest, Stopping, Entering
  <2>3. CASE cmd.mode \notin Streams
    <3>1. cmd.mode \in {"idle", "imu_cal", "cam_cal"}
      BY <2>1, <2>3 DEF Modes, Calibrations
    <3> QED
      BY <1>8, <2>1, <3>1
      DEF Enter, AtRest, Stopping, Entering, Streams, TypeOK
  <2> QED
    BY <2>2, <2>3
<1>9. ASSUME NEW ok \in BOOLEAN, EnterCalibration(ok)
      PROVE  TransitionInv'
  BY <1>9 DEF EnterCalibration, AtRest, Stopping, Entering, Streams, TypeOK
<1>10. ASSUME NEW ok \in BOOLEAN, Resize(ok)
       PROVE  TransitionInv'
  BY <1>10 DEF Resize, AtRest, Stopping, Entering, Starting
<1>11. CASE StartPipeline
  <2> DEFINE m == cmd.mode
  <2>1. m \in Streams /\ Starting(m) /\ plan # <<>>
    BY <1>11 DEF StartPipeline, Entering
  <2>2. running' = running \cup {Head(plan)} /\ plan' = Tail(plan)
    BY <1>11 DEF StartPipeline
  <2>3. CASE plan = <<"imu", "camera", m, "stats">> /\ running = {}
    <3>1. running' = {"imu"} /\ plan' = <<"camera", m, "stats">>
      BY <2>2, <2>3
    <3> QED
      BY <1>11, <2>1, <3>1
      DEF StartPipeline, Starting, AtRest, Stopping, Entering
  <2>4. CASE /\ plan = <<"camera", m, "stats">>
             /\ running \subseteq {"imu"}
    <3>1. running' = running \cup {"camera"} /\ plan' = <<m, "stats">>
      BY <2>2, <2>4
    <3> QED
      BY <1>11, <2>1, <2>4, <3>1
      DEF StartPipeline, Starting, AtRest, Stopping, Entering
  <2>5. CASE /\ plan = <<m, "stats">> /\ "camera" \in running
             /\ running \subseteq {"imu", "camera"}
    <3>1. running' = running \cup {m} /\ plan' = <<"stats">>
      BY <2>2, <2>5
    <3> QED
      BY <1>11, <2>1, <2>5, <3>1
      DEF StartPipeline, Starting, AtRest, Stopping, Entering
  <2>6. CASE /\ plan = <<"stats">> /\ {"camera", m} \subseteq running
             /\ running \subseteq {"imu", "camera", m}
    <3>1. running' = running \cup {"stats"} /\ plan' = <<>>
      BY <2>2, <2>6
    <3> QED
      BY <1>11, <2>1, <2>6, <3>1
      DEF StartPipeline, Starting, AtRest, Stopping, Entering,
          Needed, Allowed
  <2> QED
    BY <2>1, <2>3, <2>4, <2>5, <2>6 DEF Starting
<1>12. CASE StartFails
  <2>1. cmd.mode \in Streams /\ running \subseteq Allowed(cmd.mode)
    BY <1>12 DEF StartFails, Entering, Starting, Allowed
  <2>2. running' \subseteq Elements(plan')
    BY <1>12, <2>1, StopOrderFacts DEF StartFails
  <2> QED
    BY <1>12, <2>2 DEF StartFails, AtRest, Stopping, Entering
<1>13. CASE RolledBack
  BY <1>13, ElementsOfEmpty
  DEF RolledBack, AtRest, Stopping, Entering, Streams, TypeOK
<1>14. CASE Started
  BY <1>14 DEF Started, AtRest, Stopping, Entering, Starting, TypeOK
<1>15. CASE CalibrationUnavailable
  BY <1>15
  DEF CalibrationUnavailable, AtRest, Stopping, Entering, Streams, TypeOK
<1>16. CASE Ask
  BY <1>16 DEF Ask, AtRest, Stopping, Entering
<1>17. CASE SerialNewline
  BY <1>17 DEF SerialNewline, AtRest, Stopping, Entering
<1>18. CASE SerialAnswer
  BY <1>18 DEF SerialAnswer, AtRest, Stopping, Entering
<1>19. CASE LinkAnswer
  BY <1>19 DEF LinkAnswer, AtRest, Stopping, Entering
<1>20. CASE Calibrated
  BY <1>20 DEF Calibrated, AtRest, Stopping, Entering, Streams, TypeOK
<1>21. CASE UNCHANGED <<mode, task, source, cmd, plan, running>>
  BY <1>21 DEF AtRest, Stopping, Entering, Starting
<1> QED
  BY <1>1, <1>2, <1>3, <1>4, <1>5, <1>6, <1>7, <1>8, <1>9, <1>10, <1>11,
     <1>12, <1>13, <1>14, <1>15, <1>16, <1>17, <1>18, <1>19, <1>20, <1>21,
     OthersKeepOut
  DEF Next, TaskStep, vars

\* Every step keeps the types.
LEMMA TypeNext ==
  ASSUME TypeOK, TransitionInv, [Next]_vars
  PROVE  TypeOK'
<1> USE InputAssumption
    DEF handleFrame, imuFrame, pollFrame, inputVars, linkVars, promptVars,
        deviceVars
<1>1. CASE SerialByte
  <2>1. Head(serial) \in Bytes /\ Tail(serial) \in Seq(Bytes)
    BY <1>1, HeadTailProperties DEF SerialByte, TypeOK
  <2>2. Command(Head(serial), FALSE, FALSE) \in AnyCommand
    BY <2>1 DEF AnyCommand, Command
  <2> QED
    BY <1>1, <2>1, <2>2 DEF SerialByte, TypeOK
<1>2. CASE QueuedCommand
  <2>1. Head(cmds) \in AnyCommand /\ Tail(cmds) \in Seq(LinkCommands)
    BY <1>2, HeadTailProperties DEF QueuedCommand, TypeOK, AnyCommand
  <2>2. Len(Tail(cmds)) <= CmdQueueLen
    BY <1>2, HeadTailProperties, LenProperties DEF QueuedCommand, TypeOK
  <2> QED
    BY <1>2, <2>1, <2>2 DEF QueuedCommand, TypeOK
<1>3. CASE SerialDrained \/ QueueDrained
  BY <1>3 DEF SerialDrained, QueueDrained, TypeOK
<1>4. CASE Dispatch
  <2>1. plan' \in Seq(Pipelines)
    BY <1>4, StopOrderFacts, EmptySeq DEF Dispatch, TypeOK
  <2>2. task' \in {"serial", "queue", "leaveCal", "teardown"}
    BY <1>4 DEF Dispatch, TypeOK
  <2> QED
    BY <1>4, <2>1, <2>2 DEF Dispatch, TypeOK
<1>5. CASE StopPipeline
  <2>1. Tail(plan) \in Seq(Pipelines)
    BY <1>5, HeadTailProperties DEF StopPipeline, TypeOK
  <2> QED
    BY <1>5, <2>1 DEF StopPipeline, TypeOK
<1>6. ASSUME NEW ok \in BOOLEAN,
             LeaveCalibration(ok) \/ EnterCalibration(ok) \/ Resize(ok)
      PROVE  TypeOK'
  BY <1>6 DEF LeaveCalibration, EnterCalibration, Resize, TypeOK, Modes,
    Calibrations
<1>7. CASE Enter
  <2>1. plan' \in Seq(Pipelines)
    BY <1>7, StartOrderFacts, EmptySeq DEF Enter
  <2>2. mode' \in Modes
    BY <1>7 DEF Enter, Modes, Calibrations
  <2>3. task' \in {"serial", "queue", "imuCal", "enterCal", "resize", "start"}
    BY <1>7 DEF Enter, TypeOK
  <2> QED
    BY <1>7, <2>1, <2>2, <2>3 DEF Enter, TypeOK
<1>8. CASE StartPipeline
  <2>1. Head(plan) \in Pipelines /\ Tail(plan) \in Seq(Pipelines)
    BY <1>8, HeadTailProperties DEF StartPipeline, TypeOK
  <2> QED
    BY <1>8, <2>1 DEF StartPipeline, TypeOK
<1>9. CASE StartFails
  <2>1. plan' \in Seq(Pipelines)
    BY <1>9, StopOrderFacts DEF StartFails, TransitionInv, Entering
  <2> QED
    BY <1>9, <2>1 DEF StartFails, TypeOK
<1>10. CASE RolledBack \/ Started
  BY <1>10
  DEF RolledBack, Started, TypeOK, TransitionInv, Entering, Modes
<1>11. CASE CalibrationUnavailable \/ Ask \/ LinkAnswer \/ Calibrated
  <2>1. CASE CalibrationUnavailable \/ Calibrated
    BY <2>1 DEF CalibrationUnavailable, Calibrated, TypeOK, Modes
  <2>2. CASE Ask
    BY <2>2 DEF Ask, TypeOK
  <2>3. CASE LinkAnswer
    BY <2>3 DEF LinkAnswer, TypeOK
  <2> QED
    BY <1>11, <2>1, <2>2, <2>3
<1>12. CASE SerialNewline \/ SerialAnswer
  <2>1. Tail(serial) \in Seq(Bytes)
    BY <1>12, HeadTailProperties DEF SerialNewline, SerialAnswer, TypeOK
  <2> QED
    BY <1>12, <2>1 DEF SerialNewline, SerialAnswer, TypeOK
<1>13. ASSUME NEW b \in Bytes, TypeByte(b)
       PROVE  TypeOK'
  <2>1. serial' \in Seq(Bytes)
    BY <1>13, AppendProperties DEF TypeByte, TypeOK
  <2> QED
    BY <1>13, <2>1 DEF TypeByte, TypeOK
<1>14. ASSUME NEW c \in LinkCommands, SetState(c)
       PROVE  TypeOK'
  <2>1. cmds' \in Seq(LinkCommands) /\ Len(cmds') <= CmdQueueLen
    BY <1>14, AppendProperties, LenProperties DEF SetState, TypeOK
  <2> QED
    BY <1>14, <2>1 DEF SetState, TypeOK
<1>15. CASE SeePrompt \/ PostAxis \/ UseCamera
  BY <1>15 DEF SeePrompt, PostAxis, UseCamera, TypeOK
<1>16. ASSUME NEW kind \in {"use", "setMode", "exit"},
              BeginCalibrationCommand(kind)
       PROVE  TypeOK'
  BY <1>16 DEF BeginCalibrationCommand, TypeOK
<1>17. ASSUME NEW ok \in BOOLEAN, SetMode(ok) \/ RestoreCamera(ok)
       PROVE  TypeOK'
  BY <1>17 DEF SetMode, RestoreCamera, TypeOK
<1>18. CASE PostExit
  <2> DEFINE c == Command("idle", FALSE, FALSE)
  <2>1. c \in LinkCommands
    BY IdleCommand
  <2>2. cmds' = IF Len(cmds) < CmdQueueLen THEN Append(cmds, c) ELSE cmds
    BY <1>18 DEF PostExit
  <2> HIDE DEF c
  <2>3. cmds' \in Seq(LinkCommands) /\ Len(cmds') <= CmdQueueLen
    BY <2>1, <2>2, AppendProperties, LenProperties DEF TypeOK
  <2> QED
    BY <1>18, <2>3 DEF PostExit, TypeOK
<1>19. CASE UNCHANGED vars
  BY <1>19 DEF vars, TypeOK
<1> QED
  BY <1>1, <1>2, <1>3, <1>4, <1>5, <1>6, <1>7, <1>8, <1>9, <1>10, <1>11,
     <1>12, <1>13, <1>14, <1>15, <1>16, <1>17, <1>18, <1>19
  DEF Next, TaskStep, LinkStep

-----------------------------------------------------------------------------
(***************************************************************************)
(* The theorems.                                                           *)
(***************************************************************************)
\* The inductive invariant of state_machine.c: types, and what every place
\* of a transition may count on.
THEOREM TransitionCorrect == Spec => [](TypeOK /\ TransitionInv)
<1>1. TypeOK /\ TransitionInv /\ [Next]_vars => (TypeOK /\ TransitionInv)'
  BY TypeNext, TransitionNext
<1> QED
  BY <1>1, InitInv, PTL DEF Spec

\* Every reachable state is well typed, and s_cmd_queue never holds more
\* commands than it was created for.
THEOREM TypesCorrect == Spec => []TypeOK
BY TransitionCorrect, PTL

\* Whatever fails on the way into a mode, between commands s_state tells
\* which pipelines exist.
THEOREM ModeIsTruthful == Spec => []ModeTellsPipelines
<1>1. TypeOK /\ TransitionInv => ModeTellsPipelines
  BY DEF TypeOK, TransitionInv, AtRest, ModeTellsPipelines, Needed, Allowed,
    Streams
<1> QED
  BY <1>1, TransitionCorrect, PTL

\* A step of the firmware is a step, or none, of the announced mode.
LEMMA StepImplements ==
  ASSUME TypeOK, TransitionInv, [Next]_vars
  PROVE  [Announced!Next]_<<mode, running>>
<1> USE DEF TransitionInv, handleFrame, imuFrame, pollFrame, Announced!Next
<1>1. CASE StopPipeline
  <2>1. Head(plan) \in Pipelines
    BY <1>1, HeadTailProperties DEF StopPipeline, TypeOK
  <2> QED
    BY <1>1, <2>1 DEF StopPipeline, Announced!Stop, Pipelines
<1>2. CASE StartPipeline
  <2>1. mode = "idle" /\ cmd.mode \in Streams /\ Starting(cmd.mode)
    BY <1>2 DEF StartPipeline, Entering
  <2>2. Head(plan) \in Streams => running \cap Streams = {}
    BY <1>2, <2>1 DEF StartPipeline, Starting, Streams
  <2>3. Head(plan) \in Pipelines
    BY <1>2, HeadTailProperties DEF StartPipeline, TypeOK
  <2> QED
    BY <1>2, <2>1, <2>2, <2>3
    DEF StartPipeline, Announced!Start, Announced!Idle, Pipelines
<1>3. CASE Enter
  <2>1. running = {}
    BY <1>3, ElementsOfEmpty DEF Enter, Stopping
  <2> QED
    BY <1>3, <2>1
    DEF Enter, Announced!Leave, Announced!Calibrate, Announced!Idle,
        Calibrations
<1>4. ASSUME NEW ok \in BOOLEAN, EnterCalibration(ok)
      PROVE  [Announced!Next]_<<mode, running>>
  BY <1>4 DEF EnterCalibration, Entering, Announced!Calibrate, Calibrations
<1>5. CASE Started
  BY <1>5
  DEF Started, Entering, Starting, Needed, Announced!Announce,
      Announced!Needed, Announced!Idle
<1>6. CASE CalibrationUnavailable \/ Calibrated
  BY <1>6
  DEF CalibrationUnavailable, Calibrated, Entering, Announced!Leave,
      Announced!Idle
<1>7. CASE UNCHANGED <<mode, running>>
  BY <1>7
<1> QED
  BY <1>1, <1>2, <1>3, <1>4, <1>5, <1>6, <1>7, OthersKeepOut
  DEF Next, TaskStep, vars, SerialByte, SerialDrained, QueuedCommand,
      QueueDrained, Dispatch, LeaveCalibration, Resize, StartFails,
      RolledBack, Ask, SerialNewline, SerialAnswer, LinkAnswer

\* state_machine.c implements OperatingMode: a stream is announced only with
\* all its pipelines up, a calibration only with none, and nothing is started
\* under an announced mode.
THEOREM ModeIsImplemented == Spec => ImplementsOperatingMode
<1>1. Init => Announced!Init
  BY DEF Init, Announced!Init, Announced!Idle
<1>2. TypeOK /\ TransitionInv /\ [Next]_vars
        => [Announced!Next]_<<mode, running>>
  BY StepImplements
<1> QED
  BY <1>1, <1>2, TransitionCorrect, PTL
  DEF Spec, ImplementsOperatingMode, Announced!Spec
=============================================================================
