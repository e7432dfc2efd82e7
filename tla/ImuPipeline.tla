----------------------------- MODULE ImuPipeline ------------------------------
(***************************************************************************)
(* The IMU side of the data-capture firmware (imu.c): a timer wakes the    *)
(* capture task on core 1, which reads the sensor over I2C into imu_queue; *)
(* a consumer on core 0 (of a network sink or of the SD card) drains it in *)
(* batches and reads the sensor once more, for the pair of clocks from     *)
(* which the host (wire.py) computes when each sample was taken; the       *)
(* state-machine task starts and stops all this, and, with nothing         *)
(* running, calibrates the chip.                                           *)
(*                                                                         *)
(* A sample is the true time at which it was taken: the chip stamps it     *)
(* with that time modulo Wrap.  One unit of time is a capture period.      *)
(***************************************************************************)
EXTENDS Integers, Sequences, FiniteSets

CONSTANTS
  Wrap,         \* values of the chip's 24-bit clock
  MaxAge,       \* the age a sample may reach before it is stamped
  QueueLen,     \* CONFIG_IMU_QUEUE_LEN
  Batch,        \* CONFIG_IMU_CONSUMER_BATCH
  MaxTime,      \* bound: time
  MaxSessions   \* bound: streams and calibrations

ASSUME ImuAssumption ==
  /\ Wrap \in Nat \ {0} /\ MaxAge \in Nat /\ 2 * MaxAge < Wrap
  /\ QueueLen \in Nat \ {0} /\ Batch \in Nat \ {0}
  /\ MaxTime \in Nat /\ MaxSessions \in Nat

None == -1                              \* no sample, no time
Times == 0..MaxTime

VARIABLES
  now,         \* the true time
  bus,         \* who is inside an I2C transfer: "free", a task, or "lost"
  notified,    \* the capture task's notification
  timer,       \* s_capture_timer runs
  capture,     \* where the capture task is
  sample,      \* the sample in its hands
  queue,       \* imu_queue
  overflow,    \* s_overflow_count
  consumer,    \* where the consumer is
  batch,       \* the samples it has drained
  ref,         \* true time of its reference read, None if that failed
  us,          \* esp_timer's time it has put beside it, 0 when it has none
  stop,        \* s_stop of the network sink
  control,     \* where the state-machine task is
  sink,        \* "net" or "sd"
  session,     \* streams and calibrations begun
  chip,        \* "on", or "reset" to power-on defaults
  active, nvm, \* the offsets in use and those in the chip's NVM
  report,      \* what the last calibration returned
  taken,       \* number of samples read in this stream (history)
  delivered    \* the samples its sink took (history)

captureVars == <<notified, capture, sample, queue, overflow, taken>>
consumerVars == <<consumer, batch, ref, us, delivered>>
controlVars == <<timer, stop, control, sink, session>>
chipVars == <<chip, active, nvm, report>>
vars == <<now, bus, captureVars, consumerVars, controlVars, chipVars>>

Init ==
  /\ now = 0 /\ bus = "free" /\ notified = FALSE /\ timer = FALSE
  /\ capture = "none" /\ sample = None /\ queue = <<>> /\ overflow = 0
  /\ consumer = "none" /\ batch = <<>> /\ ref = None /\ us = 0
  /\ stop = FALSE /\ control = "idle" /\ sink = "net" /\ session = 0
  /\ chip = "on" /\ active = 0 /\ nvm = 0 /\ report = "none"
  /\ taken = 0 /\ delivered = <<>>

(***************************************************************************)
(* Time.  The timer's callback runs on core 0 above all these tasks.  The  *)
(* consumer comes round in time: no sample gets older than MaxAge.         *)
(***************************************************************************)
Punctual == \A i \in 1..Len(queue) : now - queue[i] < MaxAge
Unstamped == IF consumer \in {"drain", "want", "read", "stamp"} THEN batch ELSE <<>>

Tick ==
  /\ now < MaxTime /\ Punctual
  /\ \A i \in 1..Len(Unstamped) : now - Unstamped[i] < MaxAge
  /\ sample # None => now - sample < MaxAge
  /\ now' = now + 1
  /\ notified' = (notified \/ timer)
  /\ UNCHANGED <<bus, capture, sample, queue, overflow, taken, consumerVars,
                 controlVars, chipVars>>

(***************************************************************************)
(* imu_capture_task.  The driver waits for the bus and gives up after a    *)
(* while.                                                                  *)
(***************************************************************************)
Wake ==
  /\ capture = "wait" /\ notified
  /\ notified' = FALSE /\ capture' = "want"
  /\ UNCHANGED <<now, bus, sample, queue, overflow, taken, consumerVars,
                 controlVars, chipVars>>

BeginRead ==
  /\ capture = "want"
  /\ IF bus = "free" THEN bus' = "capture" /\ capture' = "read"
                     ELSE UNCHANGED bus /\ capture' = "wait"
  /\ UNCHANGED <<now, notified, sample, queue, overflow, taken, consumerVars,
                 controlVars, chipVars>>

EndRead(ok) ==
  /\ capture = "read"
  /\ bus' = "free"
  /\ IF ok THEN capture' = "send" /\ sample' = now /\ taken' = taken + 1
           ELSE capture' = "wait" /\ UNCHANGED <<sample, taken>>
  /\ UNCHANGED <<now, notified, queue, overflow, consumerVars, controlVars,
                 chipVars>>

Full == Len(queue) >= QueueLen

\* Mutant of Send: the queue has no limit.
SendAnyway ==
  /\ capture = "send"
  /\ queue' = Append(queue, sample) /\ capture' = "wait" /\ sample' = None
  /\ UNCHANGED <<now, bus, notified, overflow, taken, consumerVars,
                 controlVars, chipVars>>

\* xQueueSend() with no wait.
Send ==
  /\ capture = "send"
  /\ IF Full THEN capture' = "evict" /\ UNCHANGED <<queue, sample>>
             ELSE /\ queue' = Append(queue, sample)
                  /\ capture' = "wait" /\ sample' = None
  /\ UNCHANGED <<now, bus, notified, overflow, taken, consumerVars,
                 controlVars, chipVars>>

\* Nothing to receive if the consumer has been quicker.
Evict ==
  /\ capture = "evict"
  /\ queue' = IF queue = <<>> THEN <<>> ELSE Tail(queue)
  /\ capture' = "resend"
  /\ UNCHANGED <<now, bus, notified, sample, overflow, taken, consumerVars,
                 controlVars, chipVars>>

\* Mutant of Resend: the second send goes to the front.
ResendToFront ==
  /\ capture = "resend"
  /\ queue' = IF Full THEN queue ELSE <<sample>> \o queue
  /\ overflow' = overflow + 1
  /\ capture' = "wait" /\ sample' = None
  /\ UNCHANGED <<now, bus, notified, taken, consumerVars, controlVars,
                 chipVars>>

\* Mutant of Resend: the drop is counted only if the second send fails.
ResendCounting ==
  /\ capture = "resend"
  /\ queue' = IF Full THEN queue ELSE Append(queue, sample)
  /\ overflow' = IF Full THEN overflow + 1 ELSE overflow
  /\ capture' = "wait" /\ sample' = None
  /\ UNCHANGED <<now, bus, notified, taken, consumerVars, controlVars,
                 chipVars>>

Resend ==
  /\ capture = "resend"
  /\ queue' = IF Full THEN queue ELSE Append(queue, sample)
  /\ overflow' = overflow + 1
  /\ capture' = "wait" /\ sample' = None
  /\ UNCHANGED <<now, bus, notified, taken, consumerVars, controlVars,
                 chipVars>>

CaptureStep ==
  Wake \/ BeginRead \/ (\E ok \in BOOLEAN : EndRead(ok)) \/ Send \/ Evict \/ Resend

(***************************************************************************)
(* The consumer: imu_tcp_consumer_task and its two sisters.                *)
(***************************************************************************)
consumerFrame == UNCHANGED <<now, captureVars, controlVars, chipVars>>

ConsumerWakes ==
  /\ consumer = "sleep"
  /\ consumer' = IF stop THEN "none" ELSE "drain"
  /\ UNCHANGED <<bus, batch, ref, us, delivered>> /\ consumerFrame

\* imu_queue_drain(): one receive at a time, then the reference read.
Drain ==
  /\ consumer = "drain"
  /\ IF Len(batch) < Batch /\ queue # <<>>
       THEN batch' = Append(batch, Head(queue)) /\ queue' = Tail(queue)
            /\ UNCHANGED consumer
       ELSE consumer' = "want" /\ UNCHANGED <<batch, queue>>
  /\ UNCHANGED <<now, bus, notified, capture, sample, overflow, taken, ref, us,
                 delivered, controlVars, chipVars>>

BeginRef ==
  /\ consumer = "want"
  /\ IF bus = "free" THEN bus' = "consumer" /\ consumer' = "read"
                     ELSE UNCHANGED bus /\ consumer' = "stamp"
  /\ UNCHANGED <<batch, ref, us, delivered>> /\ consumerFrame

EndRef(ok) ==
  /\ consumer = "read"
  /\ bus' = "free" /\ consumer' = "stamp"
  /\ ref' = IF ok THEN now ELSE None
  /\ UNCHANGED <<batch, us, delivered>> /\ consumerFrame

Stamp ==
  /\ consumer = "stamp"
  /\ IF batch = <<>> THEN consumer' = "sleep" /\ ref' = None /\ UNCHANGED us
                     ELSE consumer' = "send" /\ us' = now /\ UNCHANGED ref
  /\ UNCHANGED <<bus, batch, delivered>> /\ consumerFrame

Deliver ==
  /\ consumer = "send"
  /\ delivered' = delivered \o batch
  /\ batch' = <<>> /\ ref' = None /\ us' = 0 /\ consumer' = "sleep"
  /\ UNCHANGED bus /\ consumerFrame

ConsumerStep ==
  \/ ConsumerWakes \/ Drain \/ BeginRef \/ (\E ok \in BOOLEAN : EndRef(ok))
  \/ Stamp \/ Deliver

(***************************************************************************)
(* The state-machine task: streams.  A sink that fails to start is stopped *)
(* like one that runs.                                                     *)
(***************************************************************************)
StartImu(ok) ==
  /\ control = "idle" /\ session < MaxSessions
  /\ session' = session + 1
  /\ overflow' = 0
  /\ IF ok THEN control' = "imu" /\ capture' = "wait" /\ timer' = TRUE
           ELSE UNCHANGED <<control, capture, timer>>
  /\ UNCHANGED <<now, bus, notified, sample, queue, taken, consumerVars, stop,
                 sink, chipVars>>

StartSink(s, ok) ==
  /\ control = "imu"
  /\ sink' = s /\ stop' = FALSE /\ control' = "run"
  /\ consumer' = IF ok THEN "sleep" ELSE consumer
  /\ UNCHANGED <<now, bus, captureVars, batch, ref, us, delivered, timer,
                 session, chipVars>>

\* sdcard_pipeline_stop() deletes the consumer, wherever it is; the network
\* sinks raise the flag and wait.
StopSink ==
  /\ control = "run"
  /\ IF sink = "sd"
       THEN /\ consumer' = "none" /\ batch' = <<>> /\ ref' = None /\ us' = 0
            /\ bus' = IF bus = "consumer" THEN "lost" ELSE bus
            /\ control' = "sinkless" /\ UNCHANGED stop
       ELSE /\ stop' = TRUE /\ control' = "waiting"
            /\ UNCHANGED <<bus, consumer, batch, ref, us>>
  /\ UNCHANGED <<now, captureVars, delivered, timer, sink, session,
                 chipVars>>

SinkGone ==
  /\ control = "waiting" /\ consumer = "none"
  /\ control' = "sinkless"
  /\ UNCHANGED <<now, bus, captureVars, consumerVars, timer, stop, sink,
                 session, chipVars>>

\* imu_pipeline_stop(): timer, task, queue.
StopTimer ==
  /\ control = "sinkless" /\ timer
  /\ timer' = FALSE
  /\ UNCHANGED <<now, bus, captureVars, consumerVars, stop, control, sink,
                 session, chipVars>>

DeleteCapture ==
  /\ control = "sinkless" /\ ~timer
  /\ bus' = IF bus = "capture" THEN "lost" ELSE bus
  /\ capture' = "none" /\ sample' = None /\ notified' = FALSE
  /\ control' = "flush"
  /\ UNCHANGED <<now, queue, overflow, taken, consumerVars, timer, stop, sink,
                 session, chipVars>>

DeleteQueue ==
  /\ control = "flush"
  /\ queue' = <<>> /\ control' = "idle"
  /\ taken' = 0 /\ delivered' = <<>>
  /\ UNCHANGED <<now, bus, notified, capture, sample, overflow, consumer,
                 batch, ref, us, timer, stop, sink, session, chipVars>>

(***************************************************************************)
(* imu_run_hw_foc_calibration(), on the state-machine task.  Each stage    *)
(* reads or writes the chip and may fail, and does without the bus.        *)
(***************************************************************************)
calibrationFrame ==
  UNCHANGED <<now, bus, captureVars, consumerVars, timer, stop, sink>>

Calibrate ==
  /\ control = "idle" /\ session < MaxSessions
  /\ session' = session + 1 /\ control' = "before"
  /\ report' = "none"
  /\ UNCHANGED <<chip, active, nvm>> /\ calibrationFrame

Return(r) == control' = "idle" /\ report' = r

Stationary(from, to) ==
  /\ control = from
  /\ \/ bus # "lost" /\ (IF to = "foc" THEN control' = to /\ UNCHANGED report
                                        ELSE Return(to))
     \/ Return("FAIL")
  /\ UNCHANGED <<session, chip, active, nvm>> /\ calibrationFrame

\* Accel, then gyro: what the first has changed stays if the second fails.
Foc ==
  /\ control = "foc"
  /\ \/ /\ bus # "lost" /\ active' = session
        /\ control' = "nvm" /\ UNCHANGED report
     \/ /\ active' \in IF bus = "lost" THEN {active} ELSE {active, session}
        /\ Return("FAIL")
  /\ UNCHANGED <<session, chip, nvm>> /\ calibrationFrame

\* Programming ends with a soft reset: the offsets come from the NVM then, and
\* the sensors are off.  A failure may reset the chip too.
NvmProg(ok) ==
  /\ control = "nvm"
  /\ ok => bus # "lost"
  /\ nvm' = IF ok THEN active ELSE nvm
  /\ chip' \in IF ok THEN {"reset"} ELSE {chip, "reset"}
  /\ active' = IF chip' = "reset" THEN nvm' ELSE active
  /\ control' = IF ok THEN "configure" ELSE "reconfigure"
  /\ UNCHANGED <<session, report>> /\ calibrationFrame

\* Mutant of Configure: nobody configures the chip again.
ConfigureNot ==
  /\ control \in {"configure", "reconfigure"}
  /\ control' = IF control = "configure" THEN "after" ELSE "unsaved"
  /\ UNCHANGED <<session, chip, active, nvm, report>> /\ calibrationFrame

\* configure_bmi270_sensors(), which may reset the chip once more.
Configure ==
  /\ control \in {"configure", "reconfigure"}
  /\ \/ /\ bus # "lost" /\ chip' = "on" /\ UNCHANGED report
        /\ control' = IF control = "configure" THEN "after" ELSE "unsaved"
     \/ chip' \in {chip, "reset"} /\ Return("FAIL")
  /\ active' \in {active, nvm}
  /\ UNCHANGED <<session, nvm>> /\ calibrationFrame

CalibrationStep ==
  \/ Calibrate \/ Stationary("before", "foc") \/ Foc
  \/ (\E ok \in BOOLEAN : NvmProg(ok)) \/ Configure
  \/ Stationary("after", "OK") \/ Stationary("unsaved", "INVALID_STATE")

ControlStep ==
  \/ \E ok \in BOOLEAN : StartImu(ok)
  \/ \E s \in {"net", "sd"}, ok \in BOOLEAN : StartSink(s, ok)
  \/ StopSink \/ SinkGone \/ StopTimer \/ DeleteCapture \/ DeleteQueue
  \/ CalibrationStep

Next == Tick \/ CaptureStep \/ ConsumerStep \/ ControlStep

Spec == Init /\ [][Next]_vars

(***************************************************************************)
(* The host's view: parse_imu_payload() of wire.py.                        *)
(***************************************************************************)
Ticks(t) == IF t = None THEN 0 ELSE t % Wrap

\* Mutant of Wrapped: the formula of imu.h, a plain difference.
WrappedNot(d) == d

\* _wrap24(): the difference as a signed number of the clock's width.
Wrapped(d) ==
  LET m == d % Wrap IN IF 2 * m >= Wrap THEN m - Wrap ELSE m

EspTime(t) == us + Wrapped(Ticks(t) - Ticks(ref))

(***************************************************************************)
(* Properties.                                                             *)
(***************************************************************************)
\* The type invariant.
TypeOK ==
  /\ now \in Times /\ us \in Times /\ ref \in Times \cup {None}
  /\ sample \in Times \cup {None}
  /\ bus \in {"free", "capture", "consumer", "lost"}
  /\ notified \in BOOLEAN /\ timer \in BOOLEAN /\ stop \in BOOLEAN
  /\ capture \in {"none", "wait", "want", "read", "send", "evict", "resend"}
  /\ consumer \in {"none", "sleep", "drain", "want", "read", "stamp", "send"}
  /\ control \in {"idle", "imu", "run", "waiting", "sinkless", "flush", "before",
                  "foc", "nvm", "configure", "reconfigure", "after", "unsaved"}
  /\ sink \in {"net", "sd"} /\ session \in 0..MaxSessions
  /\ {queue, batch, delivered} \subseteq Seq(Times)
  /\ Len(queue) <= QueueLen /\ Len(batch) <= Batch
  /\ overflow \in Nat /\ taken \in Nat
  /\ chip \in {"on", "reset"} /\ {active, nvm} \subseteq 0..MaxSessions
  /\ report \in {"none", "OK", "INVALID_STATE", "FAIL"}

Sorted(s) == \A i, j \in 1..Len(s) : i < j => s[i] <= s[j]
Hand == IF sample = None THEN <<>> ELSE <<sample>>

\* What the sink takes, and what is still on its way to it, is in the order in
\* which it was taken, although the capture task evicts from a queue that the
\* consumer drains on the other core: the host integrates it in this order.
SamplesInOrder == Sorted(delivered \o batch \o queue \o Hand)

\* No sample goes twice, and every sample that does not arrive is counted by
\* s_overflow_count (the eviction in progress excepted), as long as nothing is
\* being torn down; the counter may count an eviction that found nothing.
EveryLossIsCounted ==
  control \in {"imu", "run"} =>
    LET held == Len(delivered) + Len(batch) + Len(queue) + Len(Hand) IN
    held <= taken /\
    taken - held <= overflow + (IF capture = "resend" THEN 1 ELSE 0)

\* If the reference read did not fail, the times the host computes for a batch
\* are off by the time between that read and esp_timer's, the same for every
\* sample, wherever the chip's clock has wrapped.
BatchClock ==
  consumer = "send" /\ ref # None =>
    /\ ref <= us
    /\ \A i \in 1..Len(batch) : EspTime(batch[i]) - batch[i] = us - ref

\* A calibration that was reported as done has left the chip running on offsets
\* that its NVM holds, and one whose offsets could not be saved has left it
\* running, whatever went before: an I2C bus lost to a deleted task, or a chip
\* left in reset by an earlier failure.
ReportIsTrue ==
  /\ report = "OK" => chip = "on" /\ active = nvm
  /\ report = "INVALID_STATE" => chip = "on"
=============================================================================
