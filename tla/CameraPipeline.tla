--------------------------- MODULE CameraPipeline ---------------------------
(***************************************************************************)
(* The camera pipeline of the data-capture firmware: the driver's pool of  *)
(* frame buffers, camera_queue, camera_capture_task, the consumer task of  *)
(* one sink, and the state-machine task that creates and deletes them.     *)
(*                                                                         *)
(* A frame buffer is always in one place: in the driver (pool), in the     *)
(* capture task's hand, in camera_queue, in the batch a consumer drained,  *)
(* or nowhere any more, because the task that held it was vTaskDelete()d.  *)
(*                                                                         *)
(* Sinks are of two kinds.  A cooperative one (net_client.c, tcp_client.c) *)
(* is asked to stop and exits by itself; the SD-card one is deleted        *)
(* wherever it happens to be.  The bound on the wait for a cooperative     *)
(* sink is not modelled here: see SinkShutdown.                            *)
(***************************************************************************)
EXTENDS Integers, Sequences, FiniteSets

CONSTANTS
  Buffers,      \* the frame buffers the driver owns (CONFIG_CAMERA_FB_COUNT)
  QueueLen,     \* CONFIG_CAMERA_QUEUE_LEN
  CoopSinks,    \* sinks stopped by a flag and a wait
  KillSinks,    \* sinks stopped by vTaskDelete
  MaxFrames,    \* bound: grabs per session
  QInit, QMin, QMax, QHigh, QStep, QOverflowStep, \* CONFIG_CAMERA_JPEG_QUALITY_*
  NoFrame       \* "no frame in hand"

Sinks == CoopSinks \cup KillSinks

ASSUME PoolAssumption ==
  /\ IsFiniteSet(Buffers)
  /\ QueueLen \in Nat \ {0}
  /\ MaxFrames \in Nat

ASSUME SinkAssumption == CoopSinks \cap KillSinks = {}

ASSUME QualityAssumption ==
  /\ QMin \in Nat /\ QMax \in Nat /\ QInit \in QMin..QMax
  /\ QHigh \in Nat /\ QStep \in Nat /\ QOverflowStep \in Nat

Frames == [fb : Buffers, ts : 1..MaxFrames]

ASSUME NoFrameAssumption == NoFrame \notin Frames

VARIABLES
  up,              \* s_camera_up
  pool,            \* buffers the driver holds, filled or being filled
  queueLive,       \* s_camera_queue # NULL
  queue,           \* contents of camera_queue
  timer,           \* the capture timer is armed
  notified,        \* pending task notification of camera_capture_task
  capture,         \* where camera_capture_task is
  inHand,          \* its local `frame`
  discard,         \* its local `discard`
  consumer,        \* where the sink's camera consumer is
  batch,           \* frames it drained and has not released
  stopFlag,        \* s_stop of the cooperative sinks
  sink,            \* the sink of the session
  control,         \* where the state-machine task is
  clock,           \* esp_timer reading at the last grab
  lastSent,        \* timestamp of the last frame handed to the sink
  overflows,       \* s_overflow_count
  seenOverflows,   \* s_quality_last_overflow_count
  quality          \* s_current_jpeg_quality

bufferVars  == <<pool, inHand, discard, batch, queue>>
taskVars    == <<capture, consumer, notified>>
sessionVars == <<queueLive, timer, stopFlag, sink, control>>
qualityVars == <<overflows, seenOverflows, quality>>
vars == <<up, pool, queueLive, queue, timer, notified, capture, inHand,
          discard, consumer, batch, stopFlag, sink, control, clock, lastSent,
          overflows, seenOverflows, quality>>

(***************************************************************************)
(* The state-machine task.  The pipeline has no task of its own for this:  *)
(* start and stop run inside enter_stream_*() and                          *)
(* teardown_active_pipelines().                                            *)
(***************************************************************************)
Init ==
  /\ up = TRUE /\ pool = Buffers
  /\ queueLive = FALSE /\ queue = <<>>
  /\ timer = FALSE /\ notified = FALSE
  /\ capture = "none" /\ inHand = NoFrame /\ discard = NoFrame
  /\ consumer = "none" /\ batch = <<>>
  /\ stopFlag = FALSE /\ sink \in Sinks
  /\ control = "off"
  /\ clock = 0 /\ lastSent = 0
  /\ overflows = 0 /\ seenOverflows = 0 /\ quality = QInit

\* camera_init_ex(): deinit frees every buffer of the pool, wherever it is;
\* the driver comes back with a fresh pool or not at all.  No caller of the
\* streaming path looks at the result.
Reconfigure(ok) ==
  /\ control = "off"
  /\ up' = ok
  /\ pool' = IF ok THEN Buffers ELSE {}
  /\ UNCHANGED <<queue, inHand, discard, batch, clock, lastSent>>
  /\ UNCHANGED <<taskVars, sessionVars, qualityVars>>

\* The first lines of camera_pipeline_start(), reached also when it fails.
ResetCounters ==
  /\ overflows' = 0 /\ seenOverflows' = 0 /\ quality' = QInit

\* camera_pipeline_start(): the queue, the task and the timer exist.
PipelineStart(s) ==
  /\ control = "off"
  /\ ResetCounters
  /\ queueLive' = TRUE /\ queue' = <<>>
  /\ capture' = "wait" /\ notified' = FALSE
  /\ timer' = TRUE
  /\ sink' = s /\ control' = "starting"
  /\ UNCHANGED <<up, pool, inHand, discard, consumer, batch, stopFlag, clock,
                 lastSent>>

\* camera_pipeline_start() could not create the queue, the task or the timer
\* and undid what it had; the caller's roll-back finds nothing to stop.
PipelineStartFails ==
  /\ control = "off"
  /\ ResetCounters
  /\ UNCHANGED <<up, bufferVars, taskVars, sessionVars, clock, lastSent>>

\* *_pipeline_start(): the consumer task is created.
SinkStart ==
  /\ control = "starting"
  /\ stopFlag' = IF sink \in CoopSinks THEN FALSE ELSE stopFlag
  /\ consumer' = "boot"
  /\ control' = "streaming"
  /\ UNCHANGED <<up, bufferVars, capture, notified, queueLive, timer, sink,
                 clock, lastSent, qualityVars>>

\* The consumer task could not be created: the caller rolls back.
SinkStartFails ==
  /\ control = "starting"
  /\ stopFlag' = IF sink \in CoopSinks THEN TRUE ELSE stopFlag
  /\ control' = "stopTimer"
  /\ UNCHANGED <<up, bufferVars, taskVars, queueLive, timer, sink, clock,
                 lastSent, qualityVars>>

\* Mutant of RequestStop: the flag is raised and nobody waits.
RequestStopNoWait ==
  /\ control = "streaming" /\ sink \in CoopSinks
  /\ stopFlag' = TRUE
  /\ control' = "stopTimer"
  /\ UNCHANGED <<up, bufferVars, taskVars, queueLive, timer, sink, clock,
                 lastSent, qualityVars>>

\* Teardown of a cooperative sink: raise the flag, then wait.
RequestStop ==
  /\ control = "streaming" /\ sink \in CoopSinks
  /\ stopFlag' = TRUE
  /\ control' = "waitSink"
  /\ UNCHANGED <<up, bufferVars, taskVars, queueLive, timer, sink, clock,
                 lastSent, qualityVars>>

SinkStopped ==
  /\ control = "waitSink" /\ consumer = "none"
  /\ control' = "stopTimer"
  /\ UNCHANGED <<up, bufferVars, taskVars, queueLive, timer, stopFlag, sink,
                 clock, lastSent, qualityVars>>

\* sdcard_pipeline_stop(): the consumer is deleted with what it holds.
KillConsumer ==
  /\ control = "streaming" /\ sink \in KillSinks
  /\ consumer' = "none" /\ batch' = <<>>
  /\ control' = "stopTimer"
  /\ UNCHANGED <<up, pool, inHand, discard, queue, capture, notified,
                 queueLive, timer, stopFlag, sink, clock, lastSent,
                 qualityVars>>

\* camera_pipeline_stop(): the timer, then the task, then the queue.
StopTimer ==
  /\ control = "stopTimer"
  /\ timer' = FALSE
  /\ control' = "killCapture"
  /\ UNCHANGED <<up, bufferVars, taskVars, queueLive, stopFlag, sink, clock,
                 lastSent, qualityVars>>

KillCapture ==
  /\ control = "killCapture"
  /\ capture' = "none" /\ notified' = FALSE
  /\ inHand' = NoFrame /\ discard' = NoFrame
  /\ control' = "flush"
  /\ UNCHANGED <<up, pool, queue, batch, consumer, queueLive, timer, stopFlag,
                 sink, clock, lastSent, qualityVars>>

\* Mutant of FlushFrame: the queue is reset, its buffers are not released.
FlushForgetting ==
  /\ control = "flush" /\ queue # <<>>
  /\ queue' = Tail(queue)
  /\ UNCHANGED <<up, pool, inHand, discard, batch, taskVars, sessionVars,
                 clock, lastSent, qualityVars>>

FlushFrame ==
  /\ control = "flush" /\ queue # <<>>
  /\ pool' = pool \cup {Head(queue).fb}
  /\ queue' = Tail(queue)
  /\ UNCHANGED <<up, inHand, discard, batch, taskVars, sessionVars, clock,
                 lastSent, qualityVars>>

\* The clock is relabelled from 0 for the next session: no frame of this one
\* is left to compare with.
DeleteQueue ==
  /\ control = "flush" /\ queue = <<>>
  /\ queueLive' = FALSE
  /\ control' = "off"
  /\ clock' = 0 /\ lastSent' = 0
  /\ UNCHANGED <<up, bufferVars, taskVars, timer, stopFlag, sink, qualityVars>>

ControlStep ==
  \/ \E ok \in BOOLEAN : Reconfigure(ok)
  \/ \E s \in Sinks : PipelineStart(s)
  \/ PipelineStartFails
  \/ SinkStart \/ SinkStartFails
  \/ RequestStop \/ SinkStopped \/ KillConsumer
  \/ StopTimer \/ KillCapture \/ FlushFrame \/ DeleteQueue

(***************************************************************************)
(* The capture timer and camera_capture_task.                              *)
(***************************************************************************)
captureFrame == <<up, batch, consumer, lastSent, sessionVars>>

TimerTick ==
  /\ timer /\ ~notified
  /\ notified' = TRUE
  /\ UNCHANGED <<up, bufferVars, capture, consumer, sessionVars, clock,
                 lastSent, qualityVars>>

\* The timestamp is read before the frame is asked for.
CaptureWake ==
  /\ capture = "wait" /\ notified /\ clock < MaxFrames
  /\ notified' = FALSE
  /\ clock' = clock + 1
  /\ capture' = "grab"
  /\ UNCHANGED <<captureFrame, pool, queue, inHand, discard, qualityVars>>

Grab(b) ==
  /\ capture = "grab"
  /\ b \in pool
  /\ pool' = pool \ {b}
  /\ inHand' = [fb |-> b, ts |-> clock]
  /\ capture' = "send"
  /\ UNCHANGED <<captureFrame, queue, discard, notified, clock, qualityVars>>

\* esp_camera_fb_get() returned NULL: its own time-out, or no driver.
GrabFails ==
  /\ capture = "grab"
  /\ capture' = "wait"
  /\ UNCHANGED <<captureFrame, bufferVars, notified, clock, qualityVars>>

\* Mutant of Enqueue: xQueueSendToFront().
EnqueueInFront ==
  /\ queue' = <<inHand>> \o queue
  /\ inHand' = NoFrame
  /\ capture' = "adjust"

Enqueue ==
  /\ queue' = Append(queue, inHand)
  /\ inHand' = NoFrame
  /\ capture' = "adjust"

Send ==
  /\ capture = "send" /\ Len(queue) < QueueLen
  /\ Enqueue
  /\ UNCHANGED <<captureFrame, pool, discard, notified, clock, qualityVars>>

\* Mutant of SendFull: one slot is never used.
SendFullEarly ==
  /\ capture = "send" /\ Len(queue) >= QueueLen - 1
  /\ capture' = "evict"
  /\ UNCHANGED <<captureFrame, bufferVars, notified, clock, qualityVars>>

SendFull ==
  /\ capture = "send" /\ Len(queue) >= QueueLen
  /\ capture' = "evict"
  /\ UNCHANGED <<captureFrame, bufferVars, notified, clock, qualityVars>>

\* Drop the oldest frame; the consumer may have emptied the queue meanwhile.
Evict ==
  /\ capture = "evict"
  /\ IF queue # <<>>
       THEN /\ discard' = Head(queue) /\ queue' = Tail(queue)
            /\ capture' = "release"
       ELSE /\ capture' = "resend"
            /\ UNCHANGED <<discard, queue>>
  /\ UNCHANGED <<captureFrame, pool, inHand, notified, clock, qualityVars>>

ReleaseDiscard ==
  /\ capture = "release"
  /\ pool' = pool \cup {discard.fb}
  /\ discard' = NoFrame
  /\ capture' = "resend"
  /\ UNCHANGED <<captureFrame, queue, inHand, notified, clock, qualityVars>>

\* The result of the second xQueueSend() is not looked at.
Resend ==
  /\ capture = "resend"
  /\ IF Len(queue) < QueueLen
       THEN Enqueue
       ELSE inHand' = NoFrame /\ capture' = "adjust" /\ UNCHANGED queue
  /\ overflows' = overflows + 1
  /\ UNCHANGED <<captureFrame, pool, discard, notified, clock, seenOverflows,
                 quality>>

\* Mutant of Clamp: the upper bound is forgotten.
ClampBelow(q) == IF q < QMin THEN QMin ELSE q

Clamp(q) == IF q < QMin THEN QMin ELSE IF q > QMax THEN QMax ELSE q

\* adjust_jpeg_quality(): larger is a more compressed, smaller picture.
AdjustedQuality(q, depth, overflowed) ==
  Clamp(IF overflowed THEN q + QOverflowStep
        ELSE IF depth >= QHigh THEN q + QStep
        ELSE IF depth = 0 THEN q - QStep ELSE q)

AdjustQuality ==
  /\ capture = "adjust"
  /\ quality' = AdjustedQuality(quality, Len(queue), overflows # seenOverflows)
  /\ seenOverflows' = overflows
  /\ capture' = "wait"
  /\ UNCHANGED <<captureFrame, bufferVars, notified, clock, overflows>>

CaptureStep ==
  \/ CaptureWake
  \/ \E b \in Buffers : Grab(b)
  \/ GrabFails
  \/ Send \/ SendFull \/ Evict \/ ReleaseDiscard \/ Resend
  \/ AdjustQuality

(***************************************************************************)
(* The camera consumer of the sink.                                        *)
(***************************************************************************)
consumerFrame == <<up, inHand, discard, capture, notified, sessionVars, clock,
                   qualityVars>>

Stopping == sink \in CoopSinks /\ stopFlag

\* The batch array could not be allocated: the task ends at once.
ConsumerBoot(ok) ==
  /\ consumer = "boot"
  /\ consumer' = IF ok THEN "loop" ELSE "none"
  /\ UNCHANGED <<consumerFrame, pool, queue, batch, lastSent>>

\* Mutant of ConsumerLoop: the stop flag is not looked at.
ConsumerLoopDeaf ==
  /\ consumer = "loop"
  /\ consumer' = "drain"
  /\ UNCHANGED <<consumerFrame, pool, queue, batch, lastSent>>

ConsumerLoop ==
  /\ consumer = "loop"
  /\ consumer' = IF Stopping THEN "none" ELSE "drain"
  /\ UNCHANGED <<consumerFrame, pool, queue, batch, lastSent>>

\* camera_queue_drain(), one xQueueReceive() at a time.
DrainFrame ==
  /\ consumer = "drain" /\ Len(batch) < QueueLen /\ queue # <<>>
  /\ batch' = Append(batch, Head(queue))
  /\ queue' = Tail(queue)
  /\ UNCHANGED <<consumerFrame, pool, consumer, lastSent>>

\* Mutant of Drained: the receive blocks until the batch is full.
DrainedWhenFull ==
  /\ consumer = "drain" /\ Len(batch) >= QueueLen
  /\ consumer' = "work"
  /\ UNCHANGED <<consumerFrame, pool, queue, batch, lastSent>>

Drained ==
  /\ consumer = "drain" /\ (Len(batch) >= QueueLen \/ queue = <<>>)
  /\ consumer' = "work"
  /\ UNCHANGED <<consumerFrame, pool, queue, batch, lastSent>>

\* Mutant of Deliver: the buffer is released before the frame is sent.
DeliverReleased ==
  /\ consumer = "work" /\ batch # <<>>
  /\ pool' = pool \cup {Head(batch).fb}
  /\ lastSent' = IF Stopping THEN lastSent ELSE Head(batch).ts
  /\ consumer' = "release"
  /\ UNCHANGED <<consumerFrame, queue, batch>>

\* The frame is handed to the sink unless a stop was requested ...
Deliver ==
  /\ consumer = "work" /\ batch # <<>>
  /\ lastSent' = IF Stopping THEN lastSent ELSE Head(batch).ts
  /\ consumer' = "release"
  /\ UNCHANGED <<consumerFrame, pool, queue, batch>>

\* Mutant of ReleaseFrame: no release once a stop was requested.
ReleaseUnlessStopping ==
  /\ consumer = "release"
  /\ pool' = IF Stopping THEN pool ELSE pool \cup {Head(batch).fb}
  /\ batch' = Tail(batch)
  /\ consumer' = "work"
  /\ UNCHANGED <<consumerFrame, queue, lastSent>>

\* ... and always given back to the driver.
ReleaseFrame ==
  /\ consumer = "release"
  /\ pool' = pool \cup {Head(batch).fb}
  /\ batch' = Tail(batch)
  /\ consumer' = "work"
  /\ UNCHANGED <<consumerFrame, queue, lastSent>>

BatchDone ==
  /\ consumer = "work" /\ batch = <<>>
  /\ consumer' = "loop"
  /\ UNCHANGED <<consumerFrame, pool, queue, batch, lastSent>>

ConsumerStep ==
  \/ \E ok \in BOOLEAN : ConsumerBoot(ok)
  \/ ConsumerLoop \/ DrainFrame \/ Drained \/ Deliver \/ ReleaseFrame
  \/ BatchDone

Next == ControlStep \/ TimerTick \/ CaptureStep \/ ConsumerStep

Spec == Init /\ [][Next]_vars

-----------------------------------------------------------------------------
(***************************************************************************)
(* Properties.                                                             *)
(***************************************************************************)
BuffersIn(frames) == {frames[i].fb : i \in DOMAIN frames}
BufferOf(f) == IF f = NoFrame THEN {} ELSE {f.fb}
Distinct(frames) ==
  \A i, j \in DOMAIN frames : frames[i].fb = frames[j].fb => i = j

CheckedOut == BufferOf(inHand) \cup BufferOf(discard)
                \cup BuffersIn(queue) \cup BuffersIn(batch)

\* Buffers the driver will not see again before the next deinit.
Lost == IF up THEN Buffers \ (pool \cup CheckedOut) ELSE {}

BufferTypes ==
  /\ pool \subseteq Buffers
  /\ queue \in Seq(Frames) /\ Len(queue) <= QueueLen
  /\ batch \in Seq(Frames) /\ Len(batch) <= QueueLen
  /\ inHand \in Frames \cup {NoFrame}
  /\ discard \in Frames \cup {NoFrame}

TaskTypes ==
  /\ capture \in {"none", "wait", "grab", "send", "evict", "release",
                  "resend", "adjust"}
  /\ consumer \in {"none", "boot", "loop", "drain", "work", "release"}
  /\ control \in {"off", "starting", "streaming", "waitSink", "stopTimer",
                  "killCapture", "flush"}
  /\ sink \in Sinks

FlagTypes ==
  /\ up \in BOOLEAN /\ queueLive \in BOOLEAN /\ timer \in BOOLEAN
  /\ notified \in BOOLEAN /\ stopFlag \in BOOLEAN

CounterTypes ==
  /\ clock \in 0..MaxFrames /\ lastSent \in 0..MaxFrames
  /\ overflows \in Nat /\ seenOverflows \in Nat
  /\ quality \in QMin..QMax

\* The variables hold values of their types, the queue and a batch stay within
\* QueueLen, and the quality stays within its clamp.
TypeOK == BufferTypes /\ TaskTypes /\ FlagTypes /\ CounterTypes

\* A frame buffer is never in two places: the driver does not fill one that the
\* queue, a consumer or the capture task still holds, and none is released
\* twice (camera_release() by whoever drained or evicted it).
ExclusiveBuffers ==
  /\ Distinct(queue) /\ Distinct(batch)
  /\ pool \cap CheckedOut = {}
  /\ BuffersIn(queue) \cap BuffersIn(batch) = {}
  /\ (BuffersIn(queue) \cup BuffersIn(batch))
       \cap (BufferOf(inHand) \cup BufferOf(discard)) = {}
  /\ BufferOf(inHand) \cap BufferOf(discard) = {}

\* camera_queue is deleted only when no task is left that may send to it or
\* receive from it.
QueueOutlivesItsUsers ==
  ~queueLive => /\ capture = "none"
                /\ consumer = "none"
                /\ queue = <<>>

\* With no more frame buffers than queue slots the drop-oldest path of
\* camera_capture_task is dead code: the queue is never full when a frame is
\* pushed, and camera_queue_overflow_count() stays 0.
OverflowUnreachable ==
  Cardinality(Buffers) <= QueueLen =>
    /\ capture \notin {"evict", "release", "resend"}
    /\ overflows = 0

\* A buffer is lost only when a task is deleted from outside, never on a path a
\* task takes by itself: not by a skipped send, an eviction or the flush.
LostOnlyByDeletion ==
  [][Lost' \subseteq Lost \/ KillCapture \/ KillConsumer]_vars

\* Stopping a cooperative sink loses at most what camera_capture_task held:
\* whatever the consumer drained goes back to the driver.
CoopStopKeepsBatch ==
  [][(sink \in CoopSinks) =>
       (Lost' \ Lost) \subseteq (BufferOf(inHand) \cup BufferOf(discard))]_vars

(***************************************************************************)
(* The pipeline implements FrameStream: the frames on their way are the    *)
(* batch, without a head the sink already has, and the queue.              *)
(***************************************************************************)
Unsent == IF consumer = "release" THEN Tail(batch) ELSE batch

Stream == INSTANCE FrameStream WITH
  Times <- 1..MaxFrames,
  line  <- [i \in 1..Len(Unsent \o queue) |-> (Unsent \o queue)[i].ts],
  last  <- lastSent

\* The sink sees each frame of a session at most once and in capture order,
\* with gaps but never a frame of an earlier session, across evictions,
\* failed starts and both ways of stopping.
ImplementsFrameStream == Stream!Spec

(***************************************************************************)
(* Fairness.  The state-machine task always finishes a teardown it began   *)
(* and the consumer, whose sends are bounded by time-outs, keeps running.  *)
(* Nothing is assumed of commands, of the timer or of the camera.          *)
(***************************************************************************)
TeardownStep ==
  SinkStopped \/ StopTimer \/ KillCapture \/ FlushFrame \/ DeleteQueue

FairSpec == Spec /\ WF_vars(TeardownStep) /\ WF_vars(ConsumerStep)

\* A teardown that began ends with the pipeline gone.
TeardownEnds ==
  control \in {"waitSink", "stopTimer", "killCapture", "flush"}
    ~> control = "off"

\* A frame in the queue goes back to the driver, sent or not, as long as the
\* consumer of a cooperative sink came up.
QueuedIsReleased ==
  \A b \in Buffers : (b \in BuffersIn(queue)) ~> (b \in pool \/ consumer = "none")
=============================================================================
