---------------------------- MODULE OperatingMode ----------------------------
(***************************************************************************)
(* What the firmware's operating mode promises whoever reads it: a stream  *)
(* is announced only when all of its pipelines are up, a calibration only  *)
(* when none is, there is never a second sink, and nothing is started      *)
(* while a mode is announced.                                              *)
(***************************************************************************)
EXTENDS FiniteSets

CONSTANTS Streams, Calibrations

Idle == "idle"
Needed(m) == {"camera", "stats", m}      \* "imu" is optional

VARIABLES mode, running

Init == mode = Idle /\ running = {}

Start(p) ==
  /\ mode = Idle
  /\ p \in Streams => running \cap Streams = {}
  /\ running' = running \cup {p} /\ UNCHANGED mode

Stop(p) == running' = running \ {p} /\ UNCHANGED mode

Announce(m) ==
  /\ mode = Idle /\ Needed(m) \subseteq running
  /\ mode' = m /\ UNCHANGED running

Calibrate(m) == running = {} /\ mode' = m /\ UNCHANGED running

Leave == running = {} /\ mode' = Idle /\ UNCHANGED running

Next ==
  \/ \E p \in Streams \cup {"imu", "camera", "stats"} : Start(p) \/ Stop(p)
  \/ \E m \in Streams : Announce(m)
  \/ \E m \in Calibrations : Calibrate(m)
  \/ Leave

Spec == Init /\ [][Next]_<<mode, running>>
=============================================================================
