---------------------------- MODULE StateMachine ----------------------------
(***************************************************************************)
(* The firmware's operating mode (state_machine.c), its two sources of     *)
(* commands, the serial console and the control link (control_link.c), and *)
(* the two things both tasks touch: the camera's configuration and the     *)
(* one-slot queue of the IMU calibration prompt.                           *)
(*                                                                         *)
(* A pipeline is a name here: "imu", "camera", "stats", and the mode's own *)
(* name for its sink.  What starting and stopping one does inside is the   *)
(* subject of CameraPipeline and SinkShutdown.                             *)
(***************************************************************************)
EXTENDS Integers, Sequences, FiniteSets

CONSTANTS
  CmdQueueLen,  \* length of s_cmd_queue
  MaxInputs,    \* bound: serial bytes and link requests, answers aside
  ImuPresent,   \* imu_available()
  SdPresent     \* s_sdcard_available

ASSUME InputAssumption ==
  /\ CmdQueueLen \in Nat \ {0} /\ MaxInputs \in Nat
  /\ ImuPresent \in BOOLEAN /\ SdPresent \in BOOLEAN

Streams == {"wifi", "sdcard", "tcp"}
Calibrations == {"imu_cal", "cam_cal"}
Modes == Streams \cup Calibrations \cup {"idle"}
Bytes == Modes \cup {"newline", "other"}   \* a digit is named by its mode

Command(m, resize, imu) == [mode |-> m, resize |-> resize, imu |-> imu]
\* fps, framesize and include_imu mean something to the stream modes only.
LinkCommands ==
  [mode : Streams, resize : BOOLEAN, imu : BOOLEAN]
    \cup [mode : Modes \ Streams, resize : {FALSE}, imu : {FALSE}]

VARIABLES
  mode,      \* s_state
  serial,    \* bytes waiting on stdin
  cmds,      \* s_cmd_queue
  task,      \* where main_state_machine_task is
  source,    \* the loop it returns to, "serial" or "queue"
  cmd,       \* the command being handled
  plan,      \* pipelines it has still to start or stop
  running,   \* pipelines that exist
  camera,    \* configuration of the camera driver
  waiting,   \* s_imu_axis_wait_active
  prompt,    \* number of the last prompt
  answer,    \* s_imu_answer_queue: the prompt it was meant for, 0 if empty
  link,      \* where control_link_task is
  asked,     \* the prompt its imu_cal_axis found pending
  inputs     \* inputs so far

linkVars == <<link, asked>>
promptVars == <<waiting, prompt, answer>>
inputVars == <<serial, cmds, inputs>>
vars == <<mode, serial, cmds, task, source, cmd, plan, running, camera,
          waiting, prompt, answer, link, asked, inputs>>

Init ==
  /\ mode = "idle" /\ serial = <<>> /\ cmds = <<>>
  /\ task = "serial" /\ source = "serial"
  /\ cmd = Command("idle", FALSE, FALSE) /\ plan = <<>>
  /\ running = {} /\ camera = "streaming"
  /\ waiting = FALSE /\ prompt = 0 /\ answer = 0
  /\ link = "idle" /\ asked = 0 /\ inputs = 0

(***************************************************************************)
(* main_state_machine_task: every POLL_MS it drains stdin, then the queue. *)
(***************************************************************************)
pollFrame == <<mode, plan, running, camera, promptVars, linkVars, inputs>>

SerialByte ==
  /\ task = "serial" /\ serial # <<>>
  /\ cmd' = Command(Head(serial), FALSE, FALSE) /\ serial' = Tail(serial)
  /\ source' = "serial" /\ task' = "dispatch"
  /\ UNCHANGED <<pollFrame, cmds>>

\* Mutant of SerialDrained: stdin was left blocking, fgetc() waits.
SerialBlocks ==
  /\ task = "serial" /\ serial = <<>>
  /\ UNCHANGED <<pollFrame, cmds, serial, cmd, source, task>>

SerialDrained ==
  /\ task = "serial" /\ serial = <<>>
  /\ task' = "queue"
  /\ UNCHANGED <<pollFrame, cmds, serial, cmd, source>>

QueuedCommand ==
  /\ task = "queue" /\ cmds # <<>>
  /\ cmd' = Head(cmds) /\ cmds' = Tail(cmds)
  /\ source' = "queue" /\ task' = "dispatch"
  /\ UNCHANGED <<pollFrame, serial>>

QueueDrained ==
  /\ task = "queue" /\ cmds = <<>>
  /\ task' = "serial"
  /\ UNCHANGED <<pollFrame, cmds, serial, cmd, source>>

(***************************************************************************)
(* handle_command(), teardown_active_pipelines() and enter_*().            *)
(***************************************************************************)
handleFrame == <<inputVars, source, cmd, linkVars>>

Ignored(c) == c.mode \notin Modes \/ (c.mode = "sdcard" /\ ~SdPresent)

StopOrder(m) ==
  IF m = "sdcard" THEN <<m, "stats", "camera", "imu">>
                  ELSE <<"stats", m, "camera", "imu">>

\* Mutant of Dispatch: the IMU calibration starts without a teardown.
DispatchKeeping ==
  /\ task = "dispatch"
  /\ IF Ignored(cmd)
       THEN task' = source /\ UNCHANGED plan
       ELSE /\ task' = IF mode = "cam_cal" THEN "leaveCal" ELSE "teardown"
            /\ plan' = IF mode \in Streams /\ cmd.mode # "imu_cal"
                         THEN StopOrder(mode) ELSE <<>>
  /\ UNCHANGED <<handleFrame, mode, running, camera, promptVars>>

Dispatch ==
  /\ task = "dispatch"
  /\ IF Ignored(cmd)
       THEN task' = source /\ UNCHANGED plan
       ELSE /\ task' = IF mode = "cam_cal" THEN "leaveCal" ELSE "teardown"
            /\ plan' = IF mode \in Streams THEN StopOrder(mode) ELSE <<>>
  /\ UNCHANGED <<handleFrame, mode, running, camera, promptVars>>

\* *_pipeline_stop(); each is harmless for a pipeline that does not run.
StopPipeline ==
  /\ task \in {"teardown", "rollback"} /\ plan # <<>>
  /\ running' = running \ {Head(plan)} /\ plan' = Tail(plan)
  /\ UNCHANGED <<handleFrame, mode, task, camera, promptVars>>

\* cam_calib_exit_mode(): the result of camera_init() is dropped.
LeaveCalibration(ok) ==
  /\ task = "leaveCal"
  /\ camera' = IF ok THEN "streaming" ELSE "down"
  /\ task' = "teardown"
  /\ UNCHANGED <<handleFrame, mode, plan, running, promptVars>>

StartOrder(c) ==
  IF c.imu /\ ImuPresent THEN <<"imu", "camera", c.mode, "stats">>
                         ELSE <<"camera", c.mode, "stats">>

\* Teardown is over; s_state is IDLE, or IMU_CALIBRATION at once.
Enter ==
  /\ task = "teardown" /\ plan = <<>>
  /\ mode' = IF cmd.mode = "imu_cal" THEN "imu_cal" ELSE "idle"
  /\ task' = CASE cmd.mode = "idle"    -> source
               [] cmd.mode = "imu_cal" -> "imuCal"
               [] cmd.mode = "cam_cal" -> "enterCal"
               [] OTHER -> IF cmd.resize THEN "resize" ELSE "start"
  /\ plan' = IF cmd.mode \in Streams THEN StartOrder(cmd) ELSE <<>>
  /\ UNCHANGED <<handleFrame, running, camera, promptVars>>

EnterCalibration(ok) ==
  /\ task = "enterCal"
  /\ camera' = IF ok THEN "calibration" ELSE "down"
  /\ mode' = IF ok THEN "cam_cal" ELSE mode
  /\ task' = source
  /\ UNCHANGED <<handleFrame, plan, running, promptVars>>

\* apply_requested_framesize(): no caller looks at its result.
Resize(ok) ==
  /\ task = "resize"
  /\ camera' = IF ok THEN "streaming" ELSE "down"
  /\ task' = "start"
  /\ UNCHANGED <<handleFrame, mode, plan, running, promptVars>>

StartPipeline ==
  /\ task = "start" /\ plan # <<>>
  /\ running' = running \cup {Head(plan)} /\ plan' = Tail(plan)
  /\ UNCHANGED <<handleFrame, mode, task, camera, promptVars>>

\* Mutant of StartFails: the roll-back stops short of the IMU pipeline.
StartFailsKeepingImu ==
  /\ task = "start" /\ plan # <<>>
  /\ task' = "rollback"
  /\ plan' = SubSeq(StopOrder(cmd.mode), 1, 3)
  /\ UNCHANGED <<handleFrame, mode, running, camera, promptVars>>

StartFails ==
  /\ task = "start" /\ plan # <<>>
  /\ task' = "rollback"
  /\ plan' = StopOrder(cmd.mode)
  /\ UNCHANGED <<handleFrame, mode, running, camera, promptVars>>

RolledBack ==
  /\ task = "rollback" /\ plan = <<>>
  /\ task' = source
  /\ UNCHANGED <<handleFrame, mode, plan, running, camera, promptVars>>

Started ==
  /\ task = "start" /\ plan = <<>>
  /\ mode' = cmd.mode
  /\ task' = source
  /\ UNCHANGED <<handleFrame, plan, running, camera, promptVars>>

(***************************************************************************)
(* imu_calibration_run(), on the same task.                                *)
(***************************************************************************)
imuFrame == <<cmd, source, plan, running, camera, linkVars, cmds, inputs>>

\* No sensor, or the preview failed.
CalibrationUnavailable ==
  /\ task = "imuCal"
  /\ mode' = "idle" /\ task' = source
  /\ UNCHANGED <<imuFrame, serial, promptVars>>

Ask ==
  /\ task = "imuCal" /\ ImuPresent
  /\ waiting' = TRUE /\ prompt' = prompt + 1
  /\ task' = "prompt"
  /\ UNCHANGED <<imuFrame, serial, mode, answer>>

\* wait_for_operator_digit(): stdin first; a line end is not an answer.
SerialNewline ==
  /\ task = "prompt" /\ serial # <<>> /\ Head(serial) = "newline"
  /\ serial' = Tail(serial)
  /\ UNCHANGED <<imuFrame, mode, task, promptVars>>

SerialAnswer ==
  /\ task = "prompt" /\ serial # <<>> /\ Head(serial) # "newline"
  /\ serial' = Tail(serial)
  /\ waiting' = FALSE
  /\ task' = "calibrate"
  /\ UNCHANGED <<imuFrame, mode, prompt, answer>>

LinkAnswer ==
  /\ task = "prompt" /\ serial = <<>> /\ answer # 0
  /\ answer' = 0
  /\ waiting' = FALSE
  /\ task' = "calibrate"
  /\ UNCHANGED <<imuFrame, serial, mode, prompt>>

\* The calibration runs, fails, or was aborted by the answer.
Calibrated ==
  /\ task = "calibrate"
  /\ mode' = "idle" /\ task' = source
  /\ UNCHANGED <<imuFrame, serial, promptVars>>

TaskStep ==
  \/ SerialByte \/ SerialDrained \/ QueuedCommand \/ QueueDrained
  \/ Dispatch \/ StopPipeline \/ Enter
  \/ \E ok \in BOOLEAN :
       LeaveCalibration(ok) \/ EnterCalibration(ok) \/ Resize(ok)
  \/ StartPipeline \/ StartFails \/ RolledBack \/ Started
  \/ CalibrationUnavailable \/ Ask
  \/ SerialNewline \/ SerialAnswer \/ LinkAnswer \/ Calibrated

(***************************************************************************)
(* The operator at the serial console.                                     *)
(***************************************************************************)
deviceVars == <<mode, task, source, cmd, plan, running, waiting, prompt>>

TypeByte(b) ==
  /\ inputs < MaxInputs
  /\ serial' = Append(serial, b) /\ inputs' = inputs + 1
  /\ UNCHANGED <<deviceVars, cmds, camera, answer, linkVars>>

(***************************************************************************)
(* control_link_task.                                                      *)
(***************************************************************************)
\* Mutant of SetState: the queue grows.
SetStateBeyond(c) ==
  /\ link = "idle" /\ inputs < MaxInputs
  /\ cmds' = Append(cmds, c) /\ inputs' = inputs + 1
  /\ UNCHANGED <<deviceVars, serial, camera, answer, linkVars>>

\* set_state; with the queue full the host gets an error and nothing changes.
SetState(c) ==
  /\ link = "idle" /\ inputs < MaxInputs /\ Len(cmds) < CmdQueueLen
  /\ cmds' = Append(cmds, c) /\ inputs' = inputs + 1
  /\ UNCHANGED <<deviceVars, serial, camera, answer, linkVars>>

\* imu_cal_axis and imu_cal_abort: first s_imu_axis_wait_active is read ...
SeePrompt ==
  /\ link = "idle" /\ waiting
  /\ link' = "axis" /\ asked' = prompt
  /\ UNCHANGED <<deviceVars, inputVars, camera, answer>>

\* ... then the slot is overwritten.
PostAxis ==
  /\ link = "axis"
  /\ answer' = asked /\ link' = "idle"
  /\ UNCHANGED <<deviceVars, inputVars, camera, asked>>

\* Any calibration command: the mode is looked at once, here.
BeginCalibrationCommand(kind) ==
  /\ link = "idle" /\ inputs < MaxInputs /\ mode = "cam_cal"
  /\ link' = kind /\ inputs' = inputs + 1
  /\ UNCHANGED <<deviceVars, serial, cmds, camera, answer, asked>>

\* capture, fps_probe and the register commands use the camera as it is.
UseCamera ==
  /\ link = "use"
  /\ link' = "idle"
  /\ UNCHANGED <<deviceVars, inputVars, camera, answer, asked>>

\* set_mode: camera_init_ex(), with a second one to go back if it fails.
SetMode(ok) ==
  /\ link = "setMode"
  /\ camera' = IF ok THEN "calibration" ELSE "down"
  /\ link' = "idle"
  /\ UNCHANGED <<deviceVars, inputVars, answer, asked>>

\* exit: restore the streaming configuration, then post command 3, whether
\* there is room for it or not.
RestoreCamera(ok) ==
  /\ link = "exit"
  /\ camera' = IF ok THEN "streaming" ELSE "down"
  /\ link' = "exited"
  /\ UNCHANGED <<deviceVars, inputVars, answer, asked>>

PostExit ==
  /\ link = "exited"
  /\ cmds' = IF Len(cmds) < CmdQueueLen
               THEN Append(cmds, Command("idle", FALSE, FALSE)) ELSE cmds
  /\ link' = "idle"
  /\ UNCHANGED <<deviceVars, serial, inputs, camera, answer, asked>>

LinkStep ==
  \/ \E c \in LinkCommands : SetState(c)
  \/ SeePrompt \/ PostAxis
  \/ \E kind \in {"use", "setMode", "exit"} : BeginCalibrationCommand(kind)
  \/ UseCamera
  \/ \E ok \in BOOLEAN : SetMode(ok) \/ RestoreCamera(ok)
  \/ PostExit

Next == TaskStep \/ (\E b \in Bytes : TypeByte(b)) \/ LinkStep

Spec == Init /\ [][Next]_vars

-----------------------------------------------------------------------------
(***************************************************************************)
(* Properties.                                                             *)
(***************************************************************************)
Pipelines == Streams \cup {"imu", "camera", "stats"}
AnyCommand == [mode : Bytes, resize : {FALSE}, imu : {FALSE}] \cup LinkCommands

\* The variables hold values of their types, and s_cmd_queue stays within its
\* length, also for the command that exit posts by itself.
TypeOK ==
  /\ mode \in Modes
  /\ serial \in Seq(Bytes) /\ cmds \in Seq(LinkCommands)
  /\ Len(cmds) <= CmdQueueLen
  /\ task \in {"serial", "queue", "dispatch", "teardown", "rollback",
               "leaveCal", "enterCal", "resize", "start", "imuCal", "prompt",
               "calibrate"}
  /\ source \in {"serial", "queue"} /\ cmd \in AnyCommand
  /\ plan \in Seq(Pipelines) /\ running \subseteq Pipelines
  /\ camera \in {"streaming", "calibration", "down"}
  /\ waiting \in BOOLEAN /\ prompt \in Nat /\ answer \in Nat
  /\ link \in {"idle", "axis", "use", "setMode", "exit", "exited"}
  /\ asked \in Nat /\ inputs \in 0..MaxInputs

\* Between commands the mode tells what runs: a stream has all its pipelines
\* and one sink, any other mode has none, whatever failed on the way there.
ModeTellsPipelines ==
  task \in {"serial", "queue"} =>
    /\ mode \in Streams =>
         /\ {"camera", "stats", mode} \subseteq running
         /\ running \cap Streams = {mode}
    /\ mode \notin Streams => running = {}

\* The mode a host sees implements OperatingMode.
Announced == INSTANCE OperatingMode
ImplementsOperatingMode == Announced!Spec

\* camera.h: camera_init_ex() is not called while the pipeline is active, by
\* the control link's set_mode and exit as little as by the mode changes.
ReinitOnlyWhenStopped ==
  link \in {"setMode", "exit"} => "camera" \notin running

(***************************************************************************)
(* Fairness: the state-machine task keeps running.                         *)
(***************************************************************************)
FairSpec == Spec /\ WF_vars(TaskStep)

\* Every posted command is handled, unless a calibration prompt waits for its
\* answer: nothing else holds the task up.
CommandsAreHandled == cmds # <<>> ~> (cmds = <<>> \/ task = "prompt")
=============================================================================
