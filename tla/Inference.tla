------------------------------- MODULE Inference -------------------------------
(***************************************************************************)
(* The inference firmware (inference_on_esp32s3.cpp): the capture task     *)
(* grabs every frame and leaves the newest in a slot; the inference task,  *)
(* on the other core, takes it from there, runs the model on it and tells  *)
(* the wave detector where the hand is.                                    *)
(***************************************************************************)
EXTENDS WaveDetector

CONSTANTS
  Buffers,    \* the driver's frame buffers
  Positions,  \* positions of a hand
  MaxGap,     \* bound: time between two frames
  MaxTime     \* bound: time

ASSUME InferenceAssumption ==
  /\ IsFiniteSet(Buffers) /\ Positions \subseteq Nat
  /\ {MaxGap, MaxTime} \subseteq Nat

VARIABLES
  pool,      \* buffers the driver has
  now,       \* esp_timer's time at the last grab
  capture,   \* where capture_task is
  hand,      \* the frame it has grabbed
  stale,     \* the frame it has found in the slot
  slot,      \* s_slot_fb, with s_slot_ts_us
  notified,  \* the inference task's notification
  infer,     \* where inference_task is
  mine,      \* the frame it works on
  detector,  \* wave
  waving     \* s_waving

captureVars == <<now, capture, hand, stale>>
inferVars == <<infer, mine, detector, waving>>
vars == <<pool, slot, notified, captureVars, inferVars>>

Init ==
  /\ pool = Buffers /\ now = 0 /\ capture = "grab" /\ hand = {} /\ stale = {}
  /\ slot = {} /\ notified = FALSE /\ infer = "wait" /\ mine = {}
  /\ detector = Detector /\ waving = FALSE

(***************************************************************************)
(* A frame is a set of at most one [buf, ts].  The slot's mutex makes each *)
(* of Publish and Take one step.                                           *)
(***************************************************************************)
BuffersOf(frames) == {f.buf : f \in frames}

Grab ==
  /\ capture = "grab"
  /\ \E b \in pool, gap \in 1..MaxGap :
       /\ now + gap <= MaxTime
       /\ pool' = pool \ {b} /\ now' = now + gap
       /\ hand' = {[buf |-> b, ts |-> now']}
  /\ capture' = "publish"
  /\ UNCHANGED <<stale, slot, notified, inferVars>>

Publish ==
  /\ capture = "publish"
  /\ stale' = slot /\ slot' = hand /\ hand' = {}
  /\ capture' = "notify"
  /\ UNCHANGED <<pool, now, notified, inferVars>>

Notify ==
  /\ capture = "notify"
  /\ pool' = pool \cup BuffersOf(stale) /\ stale' = {}
  /\ notified' = TRUE /\ capture' = "grab"
  /\ UNCHANGED <<now, hand, slot, inferVars>>

Wake ==
  /\ infer = "wait" /\ notified
  /\ notified' = FALSE /\ infer' = "take"
  /\ UNCHANGED <<pool, slot, captureVars, mine, detector, waving>>

\* Mutant of Take: the frame stays in the slot.
TakeCopy ==
  /\ infer = "take"
  /\ mine' = slot
  /\ infer' = IF slot = {} THEN "wait" ELSE "run"
  /\ UNCHANGED <<pool, slot, notified, captureVars, detector, waving>>

\* Nothing is there if a wake-up before this one has already taken the frame.
Take ==
  /\ infer = "take"
  /\ mine' = slot /\ slot' = {}
  /\ infer' = IF slot = {} THEN "wait" ELSE "run"
  /\ UNCHANGED <<pool, notified, captureVars, detector, waving>>

\* The model's answer: the most confident hand, or none.
Run(x) ==
  /\ infer = "run"
  /\ \E f \in mine :
       /\ detector' = Updated(detector, f.ts, x)
       /\ waving' = Waving(detector', f.ts)
  /\ infer' = "return"
  /\ UNCHANGED <<pool, slot, notified, captureVars, mine>>

Return ==
  /\ infer = "return"
  /\ pool' = pool \cup BuffersOf(mine) /\ mine' = {}
  /\ infer' = "wait"
  /\ UNCHANGED <<slot, notified, captureVars, detector, waving>>

CaptureStep == Grab \/ Publish \/ Notify
InferStep ==
  Wake \/ Take \/ (\E x \in Positions \cup {NoHand} : Run(x)) \/ Return

Next == CaptureStep \/ InferStep

Spec == Init /\ [][Next]_vars

(***************************************************************************)
(* Properties.                                                             *)
(***************************************************************************)
Held == <<hand, stale, slot, mine>>

\* Every buffer is in one place, so none is returned while another task looks
\* at it, and none twice; and when the capture task waits for a frame, at most
\* two buffers are out: with "1 in inference + 1 being filled + 1 spare" the
\* driver always has one to fill, however long the model takes.
BuffersSuffice ==
  /\ \A i, j \in 1..4 : i # j => BuffersOf(Held[i]) \cap BuffersOf(Held[j]) = {}
  /\ \A i \in 1..4 : BuffersOf(Held[i]) \cap pool = {}
  /\ pool \cup UNION {BuffersOf(Held[i]) : i \in 1..4} = Buffers
  /\ capture = "grab" /\ Cardinality(Buffers) >= 3 => pool # {}

\* The reversals that decide on a wave, and that the stats show, are those of
\* the samples in the ring, whatever was dropped from it, and their number is
\* the greatest that swings of the threshold, from the oldest sample on, allow.
ReversalsAreSwings ==
  detector.reversals = MostReversals(detector.samples)
=============================================================================
