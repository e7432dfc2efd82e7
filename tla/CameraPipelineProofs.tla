------------------------ MODULE CameraPipelineProofs ------------------------
(***************************************************************************)
(* Proofs about CameraPipeline: its type invariant, that a frame buffer is *)
(* never in two places, that camera_queue outlives its users, that the     *)
(* drop-oldest path cannot be reached with CONFIG_CAMERA_FB_COUNT no       *)
(* larger than CONFIG_CAMERA_QUEUE_LEN, that only the deletion of a task   *)
(* loses a buffer, and that the pipeline implements FrameStream.           *)
(*                                                                         *)
(* The properties are not inductive.  Placement ties the position of each  *)
(* task to what it may hold and to what exists; Inv is the conjunction     *)
(* that every step preserves.                                              *)
(***************************************************************************)
EXTENDS CameraPipeline, FiniteSetTheorems, SequenceTheorems, TLAPS

Placement ==
  /\ queueLive <=> control # "off"
  /\ capture # "none" =>
       control \in {"starting", "streaming", "waitSink", "stopTimer",
                    "killCapture"}
  /\ consumer # "none" => control \in {"streaming", "waitSink"}
  /\ control = "off" => queue = <<>>
  /\ inHand # NoFrame <=> capture \in {"send", "evict", "release", "resend"}
  /\ discard # NoFrame <=> capture = "release"
  /\ capture = "grab" => clock >= 1
  /\ consumer \in {"none", "boot", "loop"} => batch = <<>>
  /\ consumer = "release" => batch # <<>>

Inv == TypeOK /\ Placement /\ ExclusiveBuffers /\ OverflowUnreachable

-----------------------------------------------------------------------------
(***************************************************************************)
(* Frames and sequences of frames.                                         *)
(***************************************************************************)

\* Taking the head of a sequence of frames with distinct buffers leaves the
\* other buffers in it, and no longer that one.
LEMMA TakeHead ==
  ASSUME NEW s \in Seq(Frames), s # <<>>
  PROVE  /\ Head(s) \in Frames
         /\ Tail(s) \in Seq(Frames)
         /\ Len(Tail(s)) = Len(s) - 1
         /\ BuffersIn(s) = BuffersIn(Tail(s)) \cup {Head(s).fb}
         /\ Distinct(s) => Distinct(Tail(s)) /\ Head(s).fb \notin BuffersIn(Tail(s))
<1> DEFINE t == Tail(s)
<1>1. /\ Head(s) = s[1] /\ Head(s) \in Frames
      /\ t \in Seq(Frames) /\ Len(t) = Len(s) - 1
      /\ \A i \in 1..Len(t) : t[i] = s[i + 1]
  BY HeadTailProperties
<1>2. Len(s) \in Nat /\ Len(s) # 0 /\ DOMAIN s = 1..Len(s) /\ DOMAIN t = 1..Len(t)
  BY <1>1, LenProperties, EmptySeq
<1> HIDE DEF t
<1>3. BuffersIn(s) \subseteq BuffersIn(t) \cup {Head(s).fb}
  <2> SUFFICES ASSUME NEW i \in DOMAIN s, i # 1
               PROVE  s[i].fb \in BuffersIn(t)
    BY <1>1 DEF BuffersIn
  <2>1. i - 1 \in DOMAIN t /\ t[i - 1] = s[i]
    BY <1>1, <1>2
  <2> QED
    BY <2>1 DEF BuffersIn
<1>4. BuffersIn(t) \cup {Head(s).fb} \subseteq BuffersIn(s)
  <2>1. \A i \in DOMAIN t : i + 1 \in DOMAIN s /\ t[i] = s[i + 1]
    BY <1>1, <1>2
  <2>2. 1 \in DOMAIN s
    BY <1>2
  <2> QED
    BY <2>1, <2>2, <1>1 DEF BuffersIn
<1>5. ASSUME Distinct(s)
      PROVE  Distinct(t) /\ Head(s).fb \notin BuffersIn(t)
  <2>1. \A i \in DOMAIN t : i + 1 \in DOMAIN s /\ t[i] = s[i + 1] /\ i + 1 # 1
    BY <1>1, <1>2
  <2>2. 1 \in DOMAIN s
    BY <1>2
  <2>3. Head(s).fb \notin BuffersIn(t)
    BY <2>1, <2>2, <1>5, <1>1 DEF Distinct, BuffersIn
  <2>4. Distinct(t)
    BY <2>1, <1>5, <1>2 DEF Distinct
  <2> QED
    BY <2>3, <2>4
<1> QED
  BY <1>1, <1>3, <1>4, <1>5 DEF t

\* Appending a frame adds its buffer.
LEMMA AppendFrame ==
  ASSUME NEW s \in Seq(Frames), NEW f \in Frames
  PROVE  /\ Append(s, f) \in Seq(Frames)
         /\ Len(Append(s, f)) = Len(s) + 1
         /\ BuffersIn(Append(s, f)) = BuffersIn(s) \cup {f.fb}
         /\ Distinct(s) /\ f.fb \notin BuffersIn(s) => Distinct(Append(s, f))
<1> DEFINE t == Append(s, f)
<1>1. /\ t \in Seq(Frames) /\ Len(t) = Len(s) + 1
      /\ \A i \in 1..Len(s) : t[i] = s[i]
      /\ t[Len(s) + 1] = f
  BY AppendProperties
<1>2. Len(s) \in Nat /\ DOMAIN s = 1..Len(s) /\ DOMAIN t = 1..(Len(s) + 1)
  BY <1>1, LenProperties
<1> HIDE DEF t
<1>3. /\ Len(s) + 1 \in DOMAIN t
      /\ \A i \in DOMAIN s : i \in DOMAIN t
      /\ \A i \in DOMAIN t : i = Len(s) + 1 \/ i \in DOMAIN s
      /\ \A i \in DOMAIN s : t[i] = s[i]
  BY <1>1, <1>2
<1>4. BuffersIn(t) = BuffersIn(s) \cup {f.fb}
  BY <1>1, <1>3 DEF BuffersIn
<1>5. Distinct(s) /\ f.fb \notin BuffersIn(s) => Distinct(t)
  BY <1>1, <1>3 DEF BuffersIn, Distinct
<1> QED
  BY <1>1, <1>4, <1>5 DEF t

\* Distinct buffers in a queue that misses one of them: the queue is shorter
\* than the pool is large.
LEMMA QueueShorterThanPool ==
  ASSUME NEW s \in Seq(Frames), Distinct(s),
         NEW b \in Buffers, b \notin BuffersIn(s)
  PROVE  Len(s) < Cardinality(Buffers)
<1> DEFINE n == Len(s)
           f == [i \in 1..n |-> s[i].fb]
           T == Buffers \ {b}
<1>1. n \in Nat /\ DOMAIN s = 1..n /\ \A i \in 1..n : s[i] \in Frames
  BY LenProperties, ElementOfSeq
<1>2. /\ IsFiniteSet(T) /\ Cardinality(T) = Cardinality(Buffers) - 1
      /\ Cardinality(Buffers) \in Nat
  BY PoolAssumption, FS_RemoveElement, FS_CardinalityType
<1>3. f \in Injection(1..n, T)
  <2>1. f \in [1..n -> T]
    BY <1>1 DEF Frames, BuffersIn
  <2>2. \A i, j \in 1..n : f[i] = f[j] => i = j
    BY <1>1 DEF Distinct
  <2> QED
    BY <2>1, <2>2 DEF Injection, IsInjective
<1> HIDE DEF n, f, T
<1>4. Cardinality(1..n) <= Cardinality(T)
  BY <1>2, <1>3, FS_Injection
<1>5. Cardinality(1..n) = n
  BY <1>1, FS_Interval
<1> QED
  BY <1>1, <1>2, <1>4, <1>5 DEF n

-----------------------------------------------------------------------------
(***************************************************************************)
(* The invariant holds initially and every step keeps it.                  *)
(***************************************************************************)

\* At first no task exists and every buffer is in the pool.
LEMMA InvInit == Init => Inv
<1> SUFFICES ASSUME Init PROVE Inv
  OBVIOUS
<1> USE PoolAssumption, QualityAssumption DEF Init
<1>1. TypeOK
  <2>1. queue \in Seq(Frames) /\ Len(queue) = 0
    BY EmptySeq
  <2>2. batch \in Seq(Frames) /\ Len(batch) = 0
    BY EmptySeq
  <2>3. /\ clock \in 0..MaxFrames /\ lastSent \in 0..MaxFrames
        /\ Len(queue) <= QueueLen /\ Len(batch) <= QueueLen
        /\ overflows \in Nat /\ seenOverflows \in Nat
        /\ quality \in QMin..QMax
    BY <2>1, <2>2
  <2> QED
    BY <2>1, <2>2, <2>3, Zenon
    DEF TypeOK, BufferTypes, TaskTypes, FlagTypes, CounterTypes
<1>2. Placement
  BY DEF Placement
<1>3. ExclusiveBuffers /\ OverflowUnreachable
  BY DEF ExclusiveBuffers, OverflowUnreachable, Distinct, BuffersIn, BufferOf,
         CheckedOut
<1> QED
  BY <1>1, <1>2, <1>3 DEF Inv

\* A property of the buffers that no step touches stays true.
LEMMA BuffersUntouched ==
  ASSUME ExclusiveBuffers, UNCHANGED bufferVars
  PROVE  ExclusiveBuffers'
BY DEF ExclusiveBuffers, CheckedOut, BufferOf, BuffersIn, Distinct, bufferVars

\* The three sequence facts the steps need, for the queue and the batch.
LEMMA QueueFacts ==
  ASSUME TypeOK, ExclusiveBuffers
  PROVE  /\ queue # <<>> =>
              /\ Head(queue) \in Frames /\ Tail(queue) \in Seq(Frames)
              /\ Len(Tail(queue)) = Len(queue) - 1
              /\ BuffersIn(queue) = BuffersIn(Tail(queue)) \cup {Head(queue).fb}
              /\ Distinct(Tail(queue)) /\ Head(queue).fb \notin BuffersIn(Tail(queue))
         /\ batch # <<>> =>
              /\ Head(batch) \in Frames /\ Tail(batch) \in Seq(Frames)
              /\ Len(Tail(batch)) = Len(batch) - 1
              /\ BuffersIn(batch) = BuffersIn(Tail(batch)) \cup {Head(batch).fb}
              /\ Distinct(Tail(batch)) /\ Head(batch).fb \notin BuffersIn(Tail(batch))
         /\ inHand \in Frames =>
              /\ Append(queue, inHand) \in Seq(Frames)
              /\ Len(Append(queue, inHand)) = Len(queue) + 1
              /\ BuffersIn(Append(queue, inHand)) = BuffersIn(queue) \cup {inHand.fb}
              /\ Distinct(Append(queue, inHand))
         /\ queue # <<>> =>
              /\ Append(batch, Head(queue)) \in Seq(Frames)
              /\ Len(Append(batch, Head(queue))) = Len(batch) + 1
              /\ BuffersIn(Append(batch, Head(queue)))
                   = BuffersIn(batch) \cup {Head(queue).fb}
              /\ Distinct(Append(batch, Head(queue)))
         /\ Len(queue) \in Nat /\ Len(batch) \in Nat
<1>1. queue \in Seq(Frames) /\ batch \in Seq(Frames)
  BY DEF TypeOK, BufferTypes
<1>2. /\ Distinct(queue) /\ Distinct(batch)
      /\ BuffersIn(queue) \cap BuffersIn(batch) = {}
      /\ inHand \in Frames => inHand.fb \notin BuffersIn(queue)
  <2>1. inHand \in Frames => BufferOf(inHand) = {inHand.fb}
    BY NoFrameAssumption DEF BufferOf
  <2> QED
    BY <2>1 DEF ExclusiveBuffers
<1>3. queue # <<>> => Head(queue) \in Frames /\ Head(queue).fb \notin BuffersIn(batch)
  BY <1>1, <1>2, TakeHead
<1> QED
  BY <1>1, <1>2, <1>3, TakeHead, AppendFrame, LenProperties

\* Empty sequences hold no buffer.
LEMMA NoBuffers ==
  /\ <<>> \in Seq(Frames) /\ Len(<<>>) = 0
  /\ BuffersIn(<<>>) = {} /\ Distinct(<<>>)
BY EmptySeq DEF BuffersIn, Distinct

\* Every step keeps the types of the buffer-carrying variables.
LEMMA BufferTypesNext ==
  ASSUME TypeOK, Placement, ExclusiveBuffers, [Next]_vars
  PROVE  BufferTypes'
<1> USE PoolAssumption DEF BufferTypes, TypeOK, bufferVars, taskVars,
    sessionVars, qualityVars, captureFrame, consumerFrame
<1>1. ASSUME NEW ok \in BOOLEAN, Reconfigure(ok)
      PROVE  BufferTypes'
  BY <1>1 DEF Reconfigure
<1>2. ASSUME NEW s \in Sinks, PipelineStart(s)
      PROVE  BufferTypes'
  BY <1>2, NoBuffers DEF PipelineStart, ResetCounters
<1>3. CASE KillConsumer
  BY <1>3, NoBuffers DEF KillConsumer
<1>4. CASE KillCapture
  BY <1>4 DEF KillCapture
<1>5. CASE FlushFrame
  BY <1>5, QueueFacts DEF FlushFrame, Frames
<1>6. ASSUME NEW b \in Buffers, Grab(b)
      PROVE  BufferTypes'
  BY <1>6 DEF Grab, Frames, Placement, CounterTypes
<1>7. CASE Send
  BY <1>7, QueueFacts DEF Send, Enqueue, Placement
<1>8. CASE Evict
  BY SMTT(30), <1>8, QueueFacts DEF Evict
<1>9. CASE ReleaseDiscard
  BY <1>9 DEF ReleaseDiscard, Placement, Frames
<1>10. CASE Resend
  <2>1. CASE Len(queue) < QueueLen
    <3>1. inHand \in Frames
      BY <1>10 DEF Resend, Placement
    <3> QED
      BY SMTT(30), <1>10, <2>1, <3>1, QueueFacts DEF Resend, Enqueue
  <2>2. CASE ~(Len(queue) < QueueLen)
    BY <1>10, <2>2 DEF Resend
  <2> QED
    BY <2>1, <2>2
<1>11. CASE DrainFrame
  BY <1>11, QueueFacts DEF DrainFrame
<1>12. CASE ReleaseFrame
  BY <1>12, QueueFacts DEF ReleaseFrame, Frames, Placement
<1>13. CASE UNCHANGED bufferVars
  BY <1>13
<1> QED
  BY <1>1, <1>2, <1>3, <1>4, <1>5, <1>6, <1>7, <1>8, <1>9, <1>10, <1>11, <1>12,
      <1>13
  DEF Next, ControlStep, CaptureStep, ConsumerStep, vars, PipelineStartFails,
      SinkStart, SinkStartFails, RequestStop, SinkStopped, StopTimer,
      DeleteQueue, TimerTick, CaptureWake, GrabFails, SendFull, AdjustQuality,
      ConsumerBoot, ConsumerLoop, Drained, Deliver, BatchDone

\* Every step leaves every task at one of its places.
LEMMA TaskTypesNext ==
  ASSUME TypeOK, Placement, ExclusiveBuffers, [Next]_vars
  PROVE  TaskTypes'
BY DEF Next, ControlStep, CaptureStep, ConsumerStep, TypeOK, TaskTypes,
  bufferVars, taskVars, sessionVars, qualityVars, captureFrame, consumerFrame,
  Reconfigure, PipelineStart, PipelineStartFails, SinkStart, SinkStartFails,
  RequestStop, SinkStopped, KillConsumer, StopTimer, KillCapture, FlushFrame,
  DeleteQueue, TimerTick, CaptureWake, Grab, GrabFails, Send, SendFull, Evict,
  ReleaseDiscard, Resend, AdjustQuality, ConsumerBoot, ConsumerLoop,
  DrainFrame, Drained, Deliver, ReleaseFrame, BatchDone, ResetCounters,
  Enqueue, Stopping, vars

\* Every step keeps the flags Boolean.
LEMMA FlagTypesNext ==
  ASSUME TypeOK, Placement, ExclusiveBuffers, [Next]_vars
  PROVE  FlagTypes'
BY DEF Next, ControlStep, CaptureStep, ConsumerStep, TypeOK, FlagTypes,
  bufferVars, taskVars, sessionVars, qualityVars, captureFrame, consumerFrame,
  Reconfigure, PipelineStart, PipelineStartFails, SinkStart, SinkStartFails,
  RequestStop, SinkStopped, KillConsumer, StopTimer, KillCapture, FlushFrame,
  DeleteQueue, TimerTick, CaptureWake, Grab, GrabFails, Send, SendFull, Evict,
  ReleaseDiscard, Resend, AdjustQuality, ConsumerBoot, ConsumerLoop,
  DrainFrame, Drained, Deliver, ReleaseFrame, BatchDone, ResetCounters,
  Enqueue, Stopping, vars

\* adjust_jpeg_quality() ends with its two limits.
LEMMA ClampBounds ==
  ASSUME NEW q \in Int
  PROVE  Clamp(q) \in QMin..QMax
BY QualityAssumption DEF Clamp

\* So the new quality is within them, whatever it adapts to.
LEMMA AdjustedInRange ==
  ASSUME NEW q \in Int, NEW depth \in Nat, NEW overflowed \in BOOLEAN
  PROVE  AdjustedQuality(q, depth, overflowed) \in QMin..QMax
<1>1. /\ q + QOverflowStep \in Int
      /\ q + QStep \in Int
      /\ q - QStep \in Int
  BY QualityAssumption
<1>2. /\ Clamp(q + QOverflowStep) \in QMin..QMax
      /\ Clamp(q + QStep) \in QMin..QMax
      /\ Clamp(q - QStep) \in QMin..QMax
      /\ Clamp(q) \in QMin..QMax
  BY <1>1, ClampBounds
<1>3. AdjustedQuality(q, depth, overflowed)
        \in {Clamp(q + QOverflowStep), Clamp(q + QStep), Clamp(q - QStep),
             Clamp(q)}
  BY DEF AdjustedQuality
<1> QED
  BY <1>2, <1>3

\* Every step keeps the counters and the quality in range.
LEMMA CounterTypesNext ==
  ASSUME TypeOK, Placement, ExclusiveBuffers, [Next]_vars
  PROVE  CounterTypes'
<1> USE PoolAssumption, QualityAssumption DEF CounterTypes, TypeOK, bufferVars,
    taskVars, sessionVars, qualityVars, captureFrame, consumerFrame
<1>1. ASSUME NEW s \in Sinks, PipelineStart(s)
      PROVE  CounterTypes'
  BY <1>1 DEF PipelineStart, ResetCounters
<1>2. CASE PipelineStartFails
  BY <1>2 DEF PipelineStartFails, ResetCounters
<1>3. CASE DeleteQueue
  BY <1>3 DEF DeleteQueue
<1>4. CASE CaptureWake
  BY <1>4 DEF CaptureWake
<1>5. CASE Resend
  BY <1>5 DEF Resend, Enqueue
<1>6. CASE AdjustQuality
  <2>1. Len(queue) \in Nat /\ quality \in Int
    BY DEF BufferTypes
  <2>2. AdjustedQuality(quality, Len(queue), overflows # seenOverflows)
          \in QMin..QMax
    BY <2>1, AdjustedInRange
  <2> QED
    BY <1>6, <2>2 DEF AdjustQuality
<1>7. CASE Deliver
  BY <1>7, QueueFacts DEF Deliver, Stopping, Frames
<1>8. CASE UNCHANGED <<clock, lastSent, qualityVars>>
  BY <1>8
<1> QED
  BY <1>1, <1>2, <1>3, <1>4, <1>5, <1>6, <1>7, <1>8
  DEF Next, ControlStep, CaptureStep, ConsumerStep, vars, Reconfigure,
      SinkStart, SinkStartFails, RequestStop, SinkStopped, KillConsumer,
      StopTimer, KillCapture, FlushFrame, TimerTick, Grab, GrabFails, Send,
      SendFull, Evict, ReleaseDiscard, ConsumerBoot, ConsumerLoop, DrainFrame,
      Drained, ReleaseFrame, BatchDone

\* Every step keeps tasks and holdings in step.
LEMMA PlacementNext ==
  ASSUME TypeOK, Placement, ExclusiveBuffers, [Next]_vars
  PROVE  Placement'
<1> USE NoFrameAssumption DEF Placement, bufferVars, taskVars, sessionVars,
    qualityVars, captureFrame, consumerFrame
<1>1. ASSUME NEW ok \in BOOLEAN, Reconfigure(ok)
      PROVE  Placement'
  BY <1>1 DEF Reconfigure
<1>2. ASSUME NEW s \in Sinks, PipelineStart(s)
      PROVE  Placement'
  BY <1>2 DEF PipelineStart, ResetCounters
<1>3. CASE PipelineStartFails
  BY <1>3 DEF PipelineStartFails, ResetCounters
<1>4. CASE SinkStart
  BY <1>4 DEF SinkStart
<1>5. CASE SinkStartFails
  BY <1>5 DEF SinkStartFails
<1>6. CASE RequestStop
  BY <1>6 DEF RequestStop
<1>7. CASE SinkStopped
  BY <1>7 DEF SinkStopped
<1>8. CASE KillConsumer
  BY <1>8 DEF KillConsumer
<1>9. CASE StopTimer
  BY <1>9 DEF StopTimer
<1>10. CASE KillCapture
  BY <1>10 DEF KillCapture
<1>11. CASE FlushFrame
  BY <1>11 DEF FlushFrame
<1>12. CASE DeleteQueue
  BY <1>12 DEF DeleteQueue
<1>13. CASE TimerTick
  BY <1>13 DEF TimerTick
<1>14. CASE CaptureWake
  BY <1>14 DEF CaptureWake, TypeOK, CounterTypes
<1>15. ASSUME NEW b \in Buffers, Grab(b)
      PROVE  Placement'
  BY <1>15 DEF Grab, Frames, TypeOK, CounterTypes
<1>16. CASE GrabFails
  BY <1>16 DEF GrabFails
<1>17. CASE Send
  BY <1>17 DEF Send, Enqueue
<1>18. CASE SendFull
  BY <1>18 DEF SendFull
<1>19. CASE Evict
  <2>1. CASE queue = <<>>
    BY <1>19, <2>1 DEF Evict
  <2>2. CASE queue # <<>>
    <3>1. Head(queue) # NoFrame
      BY <2>2, QueueFacts
    <3> QED
      BY <1>19, <2>2, <3>1 DEF Evict
  <2> QED
    BY <2>1, <2>2
<1>20. CASE ReleaseDiscard
  BY <1>20 DEF ReleaseDiscard
<1>21. CASE Resend
  BY <1>21 DEF Resend, Enqueue
<1>22. CASE AdjustQuality
  BY <1>22 DEF AdjustQuality
<1>23. ASSUME NEW ok \in BOOLEAN, ConsumerBoot(ok)
      PROVE  Placement'
  BY <1>23 DEF ConsumerBoot
<1>24. CASE ConsumerLoop
  BY <1>24 DEF ConsumerLoop, Stopping
<1>25. CASE DrainFrame
  BY <1>25 DEF DrainFrame
<1>26. CASE Drained
  BY <1>26 DEF Drained
<1>27. CASE Deliver
  BY <1>27 DEF Deliver, Stopping
<1>28. CASE ReleaseFrame
  BY <1>28 DEF ReleaseFrame
<1>29. CASE BatchDone
  BY <1>29 DEF BatchDone
<1>30. CASE UNCHANGED vars
  BY <1>30 DEF vars
<1> QED
  BY <1>1, <1>2, <1>3, <1>4, <1>5, <1>6, <1>7, <1>8, <1>9, <1>10, <1>11, <1>12,
      <1>13, <1>14, <1>15, <1>16, <1>17, <1>18, <1>19, <1>20, <1>21, <1>22,
      <1>23, <1>24, <1>25, <1>26, <1>27, <1>28, <1>29, <1>30
  DEF Next, ControlStep, CaptureStep, ConsumerStep

\* Every step keeps each buffer in one place.
LEMMA ExclusiveNext ==
  ASSUME TypeOK, Placement, ExclusiveBuffers, [Next]_vars
  PROVE  ExclusiveBuffers'
<1> USE NoFrameAssumption DEF bufferVars, taskVars, sessionVars, qualityVars,
    captureFrame, consumerFrame
<1>1. ASSUME NEW ok \in BOOLEAN, Reconfigure(ok)
      PROVE  ExclusiveBuffers'
  BY <1>1, NoBuffers DEF Reconfigure, ExclusiveBuffers, CheckedOut, BufferOf,
      TypeOK, BufferTypes, Placement, Frames
<1>2. ASSUME NEW s \in Sinks, PipelineStart(s)
      PROVE  ExclusiveBuffers'
  BY <1>2, NoBuffers DEF PipelineStart, ResetCounters, ExclusiveBuffers,
      CheckedOut, BufferOf, TypeOK, BufferTypes, Placement, Frames
<1>3. CASE PipelineStartFails
  BY <1>3, BuffersUntouched DEF PipelineStartFails, ResetCounters
<1>4. CASE SinkStart
  BY <1>4, BuffersUntouched DEF SinkStart
<1>5. CASE SinkStartFails
  BY <1>5, BuffersUntouched DEF SinkStartFails
<1>6. CASE RequestStop
  BY <1>6, BuffersUntouched DEF RequestStop
<1>7. CASE SinkStopped
  BY <1>7, BuffersUntouched DEF SinkStopped
<1>8. CASE KillConsumer
  BY <1>8, NoBuffers DEF KillConsumer, ExclusiveBuffers, CheckedOut, BufferOf,
      TypeOK, BufferTypes, Placement, Frames
<1>9. CASE StopTimer
  BY <1>9, BuffersUntouched DEF StopTimer
<1>10. CASE KillCapture
  BY <1>10 DEF KillCapture, ExclusiveBuffers, CheckedOut, BufferOf, TypeOK,
      BufferTypes, Placement, Frames
<1>11. CASE FlushFrame
  BY <1>11, QueueFacts DEF FlushFrame, ExclusiveBuffers, CheckedOut, BufferOf,
      TypeOK, BufferTypes, Placement, Frames
<1>12. CASE DeleteQueue
  BY <1>12, BuffersUntouched DEF DeleteQueue
<1>13. CASE TimerTick
  BY <1>13, BuffersUntouched DEF TimerTick
<1>14. CASE CaptureWake
  BY <1>14, BuffersUntouched DEF CaptureWake
<1>15. ASSUME NEW b \in Buffers, Grab(b)
      PROVE  ExclusiveBuffers'
  BY <1>15 DEF Grab, ExclusiveBuffers, CheckedOut, BufferOf, TypeOK,
      BufferTypes, Placement, Frames
<1>16. CASE GrabFails
  BY <1>16, BuffersUntouched DEF GrabFails
<1>17. CASE Send
  BY <1>17, QueueFacts DEF Send, Enqueue, ExclusiveBuffers, CheckedOut,
      BufferOf, TypeOK, BufferTypes, Placement, Frames
<1>18. CASE SendFull
  BY <1>18, BuffersUntouched DEF SendFull
<1>19. CASE Evict
  <2>1. CASE queue = <<>>
    BY <1>19, <2>1, BuffersUntouched DEF Evict
  <2>2. CASE queue # <<>>
    <3>1. /\ queue' = Tail(queue) /\ discard' = Head(queue) /\ discard = NoFrame
          /\ UNCHANGED <<pool, inHand, batch>>
      BY <1>19, <2>2 DEF Evict, Placement
    <3>2. BufferOf(discard') = {Head(queue).fb} /\ BufferOf(discard) = {}
      BY <2>2, <3>1, QueueFacts DEF BufferOf
    <3> QED
      BY <2>2, <3>1, <3>2, QueueFacts DEF ExclusiveBuffers, CheckedOut,
          BufferOf
  <2> QED
    BY <2>1, <2>2
<1>20. CASE ReleaseDiscard
  BY <1>20 DEF ReleaseDiscard, ExclusiveBuffers, CheckedOut, BufferOf, TypeOK,
      BufferTypes, Placement, Frames
<1>21. CASE Resend
  BY <1>21, QueueFacts DEF Resend, Enqueue, ExclusiveBuffers, CheckedOut,
      BufferOf, TypeOK, BufferTypes, Placement, Frames
<1>22. CASE AdjustQuality
  BY <1>22, BuffersUntouched DEF AdjustQuality
<1>23. ASSUME NEW ok \in BOOLEAN, ConsumerBoot(ok)
      PROVE  ExclusiveBuffers'
  BY <1>23, BuffersUntouched DEF ConsumerBoot
<1>24. CASE ConsumerLoop
  BY <1>24, BuffersUntouched DEF ConsumerLoop, Stopping
<1>25. CASE DrainFrame
  BY SMTT(30), <1>25, QueueFacts DEF DrainFrame, ExclusiveBuffers, CheckedOut, BufferOf,
      TypeOK, BufferTypes, Placement, Frames
<1>26. CASE Drained
  BY <1>26, BuffersUntouched DEF Drained
<1>27. CASE Deliver
  BY <1>27, BuffersUntouched DEF Deliver, Stopping
<1>28. CASE ReleaseFrame
  BY <1>28, QueueFacts DEF ReleaseFrame, ExclusiveBuffers, CheckedOut,
      BufferOf, TypeOK, BufferTypes, Placement, Frames
<1>29. CASE BatchDone
  BY <1>29, BuffersUntouched DEF BatchDone
<1>30. CASE UNCHANGED vars
  BY <1>30, BuffersUntouched DEF vars
<1> QED
  BY <1>1, <1>2, <1>3, <1>4, <1>5, <1>6, <1>7, <1>8, <1>9, <1>10, <1>11, <1>12,
      <1>13, <1>14, <1>15, <1>16, <1>17, <1>18, <1>19, <1>20, <1>21, <1>22,
      <1>23, <1>24, <1>25, <1>26, <1>27, <1>28, <1>29, <1>30
  DEF Next, ControlStep, CaptureStep, ConsumerStep

\* Every step keeps the drop-oldest path unreachable.
LEMMA OverflowNext ==
  ASSUME TypeOK, Placement, ExclusiveBuffers, OverflowUnreachable, [Next]_vars
  PROVE  OverflowUnreachable'
<1> USE DEF OverflowUnreachable, bufferVars, taskVars, sessionVars,
    qualityVars, captureFrame, consumerFrame
<1>1. ASSUME NEW ok \in BOOLEAN, Reconfigure(ok)
      PROVE  OverflowUnreachable'
  BY <1>1 DEF Reconfigure
<1>2. ASSUME NEW s \in Sinks, PipelineStart(s)
      PROVE  OverflowUnreachable'
  BY <1>2 DEF PipelineStart, ResetCounters
<1>3. CASE PipelineStartFails
  BY <1>3 DEF PipelineStartFails, ResetCounters
<1>4. CASE SinkStart
  BY <1>4 DEF SinkStart
<1>5. CASE SinkStartFails
  BY <1>5 DEF SinkStartFails
<1>6. CASE RequestStop
  BY <1>6 DEF RequestStop
<1>7. CASE SinkStopped
  BY <1>7 DEF SinkStopped
<1>8. CASE KillConsumer
  BY <1>8 DEF KillConsumer
<1>9. CASE StopTimer
  BY <1>9 DEF StopTimer
<1>10. CASE KillCapture
  BY <1>10 DEF KillCapture, Placement
<1>11. CASE FlushFrame
  BY <1>11 DEF FlushFrame
<1>12. CASE DeleteQueue
  BY <1>12 DEF DeleteQueue
<1>13. CASE TimerTick
  BY <1>13 DEF TimerTick
<1>14. CASE CaptureWake
  BY <1>14 DEF CaptureWake
<1>15. ASSUME NEW b \in Buffers, Grab(b)
      PROVE  OverflowUnreachable'
  BY <1>15 DEF Grab
<1>16. CASE GrabFails
  BY <1>16 DEF GrabFails
<1>17. CASE Send
  BY <1>17 DEF Send, Enqueue
<1>18. CASE SendFull
  <2>1. inHand \in Frames /\ inHand.fb \in Buffers /\ inHand.fb \notin BuffersIn(queue)
    BY <1>18, NoFrameAssumption
    DEF SendFull, TypeOK, BufferTypes, Placement, ExclusiveBuffers, BufferOf,
        Frames, CheckedOut
  <2>2. Len(queue) < Cardinality(Buffers)
    BY <2>1, QueueShorterThanPool DEF TypeOK, BufferTypes, ExclusiveBuffers
  <2>3. Cardinality(Buffers) \in Nat /\ Len(queue) \in Nat /\ QueueLen \in Nat
    BY PoolAssumption, FS_CardinalityType, LenProperties DEF TypeOK,
        BufferTypes
  <2> QED
    BY <1>18, <2>2, <2>3 DEF SendFull
<1>19. CASE Evict
  BY <1>19 DEF Evict
<1>20. CASE ReleaseDiscard
  BY <1>20 DEF ReleaseDiscard
<1>21. CASE Resend
  BY <1>21 DEF Resend, Enqueue
<1>22. CASE AdjustQuality
  BY <1>22 DEF AdjustQuality
<1>23. ASSUME NEW ok \in BOOLEAN, ConsumerBoot(ok)
      PROVE  OverflowUnreachable'
  BY <1>23 DEF ConsumerBoot
<1>24. CASE ConsumerLoop
  BY <1>24 DEF ConsumerLoop, Stopping
<1>25. CASE DrainFrame
  BY <1>25 DEF DrainFrame
<1>26. CASE Drained
  BY <1>26 DEF Drained
<1>27. CASE Deliver
  BY <1>27 DEF Deliver, Stopping
<1>28. CASE ReleaseFrame
  BY <1>28 DEF ReleaseFrame
<1>29. CASE BatchDone
  BY <1>29 DEF BatchDone
<1>30. CASE UNCHANGED vars
  BY <1>30 DEF vars
<1> QED
  BY <1>1, <1>2, <1>3, <1>4, <1>5, <1>6, <1>7, <1>8, <1>9, <1>10, <1>11, <1>12,
      <1>13, <1>14, <1>15, <1>16, <1>17, <1>18, <1>19, <1>20, <1>21, <1>22,
      <1>23, <1>24, <1>25, <1>26, <1>27, <1>28, <1>29, <1>30
  DEF Next, ControlStep, CaptureStep, ConsumerStep

-----------------------------------------------------------------------------

\* Inv is an inductive invariant of the specification.
THEOREM InvCorrect == Spec => []Inv
<1>1. Inv /\ [Next]_vars => Inv'
  BY BufferTypesNext, TaskTypesNext, FlagTypesNext, CounterTypesNext,
      PlacementNext, ExclusiveNext, OverflowNext
  DEF Inv, TypeOK
<1> QED
  BY InvInit, <1>1, PTL DEF Spec

\* Type correctness, for any number of buffers and any queue length.
THEOREM TypeCorrect == Spec => []TypeOK
<1>1. Inv => TypeOK
  BY DEF Inv
<1> QED
  BY InvCorrect, <1>1, PTL

\* No frame buffer is ever in two places: neither filled by the driver while
\* somebody holds it nor given back twice.
THEOREM BuffersAreExclusive == Spec => []ExclusiveBuffers
<1>1. Inv => ExclusiveBuffers
  BY DEF Inv
<1> QED
  BY InvCorrect, <1>1, PTL

\* No task is left with a deleted camera_queue.
THEOREM QueueIsSafeToDelete == Spec => []QueueOutlivesItsUsers
<1>1. Inv => QueueOutlivesItsUsers
  BY DEF Inv, Placement, QueueOutlivesItsUsers
<1> QED
  BY InvCorrect, <1>1, PTL

\* With fb_count no larger than the queue, drop-oldest never runs.
THEOREM DropOldestIsDead == Spec => []OverflowUnreachable
<1>1. Inv => OverflowUnreachable
  BY DEF Inv
<1> QED
  BY InvCorrect, <1>1, PTL

-----------------------------------------------------------------------------
(***************************************************************************)
(* Losses.                                                                 *)
(***************************************************************************)

\* The eviction makes room: nobody else sends to camera_queue.
Room == capture \in {"release", "resend"} => Len(queue) < QueueLen

\* Every step keeps the room until the second send.
LEMMA RoomNext ==
  ASSUME Inv, Room, [Next]_vars
  PROVE  Room'
<1> USE PoolAssumption DEF Inv, Placement, Room, bufferVars, taskVars,
    captureFrame, consumerFrame
<1>1. Len(queue) \in Nat /\ Len(queue) <= QueueLen
  <2>1. queue \in Seq(Frames) /\ Len(queue) <= QueueLen
    BY DEF TypeOK, BufferTypes
  <2> QED
    BY <2>1, LenProperties
<1>2. queue # <<>> => Len(Tail(queue)) = Len(queue) - 1
  BY QueueFacts
<1>3. CASE FlushFrame
  BY <1>3 DEF FlushFrame
<1>4. CASE DrainFrame
  BY <1>1, <1>2, <1>4 DEF DrainFrame
<1>5. CASE Evict
  <2>1. CASE queue # <<>>
    BY <1>1, <1>2, <1>5, <2>1 DEF Evict
  <2>2. CASE queue = <<>>
    <3>1. Len(queue) = 0 /\ queue' = queue
      BY <1>5, <2>2 DEF Evict
    <3> QED
      BY <3>1
  <2> QED
    BY <2>1, <2>2
<1>6. ASSUME NEW s \in Sinks, PipelineStart(s)
      PROVE  Room'
  BY <1>6 DEF PipelineStart
<1>7. CASE Send \/ Resend
  BY <1>7 DEF Send, Resend, Enqueue
<1>8. CASE KillCapture
  BY <1>8 DEF KillCapture
<1>9. CASE ReleaseDiscard
  BY <1>9 DEF ReleaseDiscard
<1>10. CASE capture' \notin {"release", "resend"}
  BY <1>10
<1>11. CASE UNCHANGED <<capture, queue>>
  BY <1>11
<1> QED
  BY <1>3, <1>4, <1>5, <1>6, <1>7, <1>8, <1>9, <1>10, <1>11
  DEF Next, ControlStep, CaptureStep, ConsumerStep, vars, Reconfigure,
      PipelineStartFails, SinkStart, SinkStartFails, RequestStop, SinkStopped,
      KillConsumer, StopTimer, DeleteQueue, TimerTick, CaptureWake, Grab,
      GrabFails, SendFull, AdjustQuality, ConsumerBoot, ConsumerLoop, Drained,
      Deliver, ReleaseFrame, BatchDone

\* A step that keeps every buffer somewhere loses none.
LEMMA KeptIsNotLost ==
  ASSUME up' = up, (pool \cup CheckedOut) \subseteq (pool' \cup CheckedOut')
  PROVE  Lost' \subseteq Lost
BY DEF Lost

\* A step that moves no buffer, or starts with a new pool, loses none.
LEMMA UnmovedIsNotLost ==
  ASSUME up' = up, UNCHANGED bufferVars
  PROVE  Lost' \subseteq Lost
BY DEF Lost, CheckedOut, BufferOf, BuffersIn, bufferVars

\* The state-machine task: only its two deletions can lose a buffer.
LEMMA ControlKeeps ==
  ASSUME Inv, ControlStep
  PROVE  Lost' \subseteq Lost \/ KillCapture \/ KillConsumer
<1> USE DEF Inv, Placement
<1>1. ASSUME NEW ok \in BOOLEAN, Reconfigure(ok)
      PROVE  Lost' \subseteq Lost
  BY <1>1 DEF Reconfigure, Lost
<1>2. ASSUME NEW s \in Sinks, PipelineStart(s)
      PROVE  Lost' \subseteq Lost
  <2>1. up' = up /\ UNCHANGED bufferVars
    BY <1>2 DEF PipelineStart, bufferVars
  <2> QED
    BY <2>1, UnmovedIsNotLost
<1>3. CASE FlushFrame
  <2>1. /\ up' = up /\ queue # <<>> /\ pool' = pool \cup {Head(queue).fb}
        /\ queue' = Tail(queue) /\ inHand' = inHand /\ discard' = discard
        /\ batch' = batch
    BY <1>3 DEF FlushFrame
  <2>2. BuffersIn(queue) = BuffersIn(Tail(queue)) \cup {Head(queue).fb}
    BY <2>1, QueueFacts
  <2>3. BuffersIn(queue)' = BuffersIn(Tail(queue))
    BY <2>1 DEF BuffersIn
  <2> QED
    BY <2>1, <2>2, <2>3, KeptIsNotLost DEF CheckedOut, BufferOf, BuffersIn
<1>4. ASSUME \/ PipelineStartFails \/ SinkStart \/ SinkStartFails
             \/ RequestStop \/ SinkStopped \/ StopTimer \/ DeleteQueue
      PROVE  Lost' \subseteq Lost
  <2>1. up' = up /\ UNCHANGED bufferVars
    BY <1>4 DEF PipelineStartFails, SinkStart, SinkStartFails, RequestStop,
                SinkStopped, StopTimer, DeleteQueue
  <2> QED
    BY <2>1, UnmovedIsNotLost
<1> QED
  BY <1>1, <1>2, <1>3, <1>4 DEF ControlStep

\* camera_capture_task loses nothing by itself: a frame is sent, or it is the
\* evicted one that goes back.
LEMMA CaptureKeeps ==
  ASSUME Inv, Room, CaptureStep
  PROVE  Lost' \subseteq Lost
<1> USE DEF Inv, Placement, captureFrame
<1>1. ASSUME NEW b \in Buffers, Grab(b)
      PROVE  Lost' \subseteq Lost
  <2>1. /\ up' = up /\ pool' = pool \ {b} /\ inHand' = [fb |-> b, ts |-> clock]
        /\ inHand = NoFrame /\ queue' = queue /\ batch' = batch
        /\ discard' = discard
    BY <1>1 DEF Grab
  <2>2. inHand' \in Frames
    BY <1>1, <2>1, PoolAssumption
    DEF Grab, Frames, TypeOK, CounterTypes
  <2>3. BufferOf(inHand)' = {b} /\ BufferOf(inHand) = {}
    BY <2>1, <2>2, NoFrameAssumption DEF BufferOf
  <2> QED
    BY <2>1, <2>3, KeptIsNotLost DEF CheckedOut, BufferOf, BuffersIn
<1>2. ASSUME Send \/ (Resend /\ Len(queue) < QueueLen)
      PROVE  Lost' \subseteq Lost
  <2>1. /\ up' = up /\ pool' = pool /\ inHand # NoFrame /\ inHand' = NoFrame
        /\ queue' = Append(queue, inHand) /\ batch' = batch
        /\ discard' = discard
    BY <1>2 DEF Send, Resend, Enqueue
  <2>2. inHand \in Frames
    BY <2>1 DEF TypeOK, BufferTypes
  <2>3. /\ BuffersIn(queue)' = BuffersIn(queue) \cup {inHand.fb}
        /\ BufferOf(inHand) = {inHand.fb}
    <3>1. BuffersIn(Append(queue, inHand)) = BuffersIn(queue) \cup {inHand.fb}
      BY <2>2, QueueFacts
    <3> QED
      BY <2>1, <3>1 DEF BuffersIn, BufferOf
  <2> QED
    BY <2>1, <2>3, KeptIsNotLost DEF CheckedOut, BufferOf, BuffersIn
<1>3. CASE Evict
  <2>1. CASE queue # <<>>
    <3>1. /\ up' = up /\ pool' = pool /\ inHand' = inHand /\ batch' = batch
          /\ discard = NoFrame /\ discard' = Head(queue) /\ queue' = Tail(queue)
      BY <1>3, <2>1 DEF Evict
    <3>2. /\ BuffersIn(queue) = BuffersIn(Tail(queue)) \cup {Head(queue).fb}
          /\ Head(queue) \in Frames
      BY <2>1, QueueFacts
    <3>3. /\ BufferOf(discard)' = {Head(queue).fb} /\ BufferOf(discard) = {}
          /\ BuffersIn(queue)' = BuffersIn(Tail(queue))
      BY <3>1, <3>2, NoFrameAssumption DEF BufferOf, BuffersIn
    <3> QED
      BY <3>1, <3>2, <3>3, KeptIsNotLost DEF CheckedOut, BufferOf, BuffersIn
  <2>2. CASE queue = <<>>
    <3>1. up' = up /\ UNCHANGED bufferVars
      BY <1>3, <2>2 DEF Evict, bufferVars
    <3> QED
      BY <3>1, UnmovedIsNotLost
  <2> QED
    BY <2>1, <2>2
<1>4. CASE ReleaseDiscard
  <2>1. /\ up' = up /\ pool' = pool \cup {discard.fb} /\ discard # NoFrame
        /\ discard' = NoFrame /\ inHand' = inHand /\ queue' = queue
        /\ batch' = batch
    BY <1>4 DEF ReleaseDiscard
  <2> QED
    BY <2>1, KeptIsNotLost DEF CheckedOut, BufferOf, BuffersIn
<1>5. ASSUME Resend, ~(Len(queue) < QueueLen)
      PROVE  FALSE
  BY <1>5 DEF Resend, Room
<1>6. ASSUME CaptureWake \/ GrabFails \/ SendFull \/ AdjustQuality
      PROVE  Lost' \subseteq Lost
  <2>1. up' = up /\ UNCHANGED bufferVars
    BY <1>6 DEF CaptureWake, GrabFails, SendFull, AdjustQuality, bufferVars
  <2> QED
    BY <2>1, UnmovedIsNotLost
<1> QED
  BY <1>1, <1>2, <1>3, <1>4, <1>5, <1>6 DEF CaptureStep

\* The consumer gives back every frame it drained, sent or not.
LEMMA ConsumerKeeps ==
  ASSUME Inv, ConsumerStep
  PROVE  Lost' \subseteq Lost
<1> USE DEF Inv, Placement, consumerFrame
<1>1. CASE DrainFrame
  <2>1. /\ up' = up /\ pool' = pool /\ inHand' = inHand /\ discard' = discard
        /\ queue # <<>> /\ queue' = Tail(queue)
        /\ batch' = Append(batch, Head(queue))
    BY <1>1 DEF DrainFrame
  <2>2. /\ BuffersIn(queue) = BuffersIn(Tail(queue)) \cup {Head(queue).fb}
        /\ BuffersIn(Append(batch, Head(queue)))
             = BuffersIn(batch) \cup {Head(queue).fb}
    BY <2>1, QueueFacts
  <2>3. /\ BuffersIn(queue)' = BuffersIn(Tail(queue))
        /\ BuffersIn(batch)' = BuffersIn(Append(batch, Head(queue)))
    BY <2>1 DEF BuffersIn
  <2> QED
    BY <2>1, <2>2, <2>3, KeptIsNotLost DEF CheckedOut, BufferOf
<1>2. CASE ReleaseFrame
  <2>1. /\ up' = up /\ inHand' = inHand /\ discard' = discard
        /\ queue' = queue /\ batch # <<>> /\ batch' = Tail(batch)
        /\ pool' = pool \cup {Head(batch).fb}
    BY <1>2 DEF ReleaseFrame
  <2>2. BuffersIn(batch) = BuffersIn(Tail(batch)) \cup {Head(batch).fb}
    BY <2>1, QueueFacts
  <2>3. /\ BuffersIn(batch)' = BuffersIn(Tail(batch))
        /\ BuffersIn(queue)' = BuffersIn(queue)
    BY <2>1 DEF BuffersIn
  <2> QED
    BY <2>1, <2>2, <2>3, KeptIsNotLost DEF CheckedOut, BufferOf
<1>3. ASSUME \/ \E ok \in BOOLEAN : ConsumerBoot(ok)
             \/ ConsumerLoop \/ Drained \/ Deliver \/ BatchDone
      PROVE  Lost' \subseteq Lost
  <2>1. up' = up /\ UNCHANGED bufferVars
    BY <1>3 DEF ConsumerBoot, ConsumerLoop, Drained, Deliver, BatchDone,
                bufferVars
  <2> QED
    BY <2>1, UnmovedIsNotLost
<1> QED
  BY <1>1, <1>2, <1>3 DEF ConsumerStep

\* Every step but the two deletions loses nothing.
LEMMA StepKeeps ==
  ASSUME Inv, Room, [Next]_vars
  PROVE  Lost' \subseteq Lost \/ KillCapture \/ KillConsumer
<1>1. CASE TimerTick \/ UNCHANGED vars
  <2>1. up' = up /\ UNCHANGED bufferVars
    BY <1>1 DEF TimerTick, vars, bufferVars
  <2> QED
    BY <2>1, UnmovedIsNotLost
<1> QED
  BY <1>1, ControlKeeps, CaptureKeeps, ConsumerKeeps DEF Next

\* With a cooperative sink a deletion loses what the capture task held.
LEMMA CoopLoss ==
  ASSUME Inv, Room, [Next]_vars, sink \in CoopSinks
  PROVE  (Lost' \ Lost) \subseteq (BufferOf(inHand) \cup BufferOf(discard))
<1>1. CASE KillCapture
  <2>1. /\ up' = up /\ pool' = pool /\ queue' = queue /\ batch' = batch
        /\ inHand' = NoFrame /\ discard' = NoFrame
    BY <1>1 DEF KillCapture
  <2>2. /\ BuffersIn(queue)' = BuffersIn(queue)
        /\ BuffersIn(batch)' = BuffersIn(batch)
    BY <2>1 DEF BuffersIn
  <2> QED
    BY <2>1, <2>2 DEF Lost, CheckedOut
<1>2. ~KillConsumer
  BY SinkAssumption DEF KillConsumer
<1> QED
  BY <1>1, <1>2, StepKeeps

\* A buffer is lost only when a task is deleted from outside; every path that
\* a task takes by itself gives the buffer back.
THEOREM DeletionAloneLoses == Spec => LostOnlyByDeletion
<1>1. Init => Room
  BY DEF Init, Room
<1>2. Inv /\ Room /\ [Next]_vars => Room'
  BY RoomNext
<1>3. Inv /\ Room /\ [Next]_vars
        => [Lost' \subseteq Lost \/ KillCapture \/ KillConsumer]_vars
  BY StepKeeps
<1> QED
  BY <1>1, <1>2, <1>3, InvCorrect, PTL DEF Spec, LostOnlyByDeletion

\* Stopping a cooperative sink loses at most what camera_capture_task held.
THEOREM CoopStopReturnsBatch == Spec => CoopStopKeepsBatch
<1>1. Init => Room
  BY DEF Init, Room
<1>2. Inv /\ Room /\ [Next]_vars => Room'
  BY RoomNext
<1>3. Inv /\ Room /\ [Next]_vars
        => [(sink \in CoopSinks) =>
              (Lost' \ Lost)
                 \subseteq (BufferOf(inHand) \cup BufferOf(discard))]_vars
  BY CoopLoss
<1> QED
  BY <1>1, <1>2, <1>3, InvCorrect, PTL DEF Spec, CoopStopKeepsBatch

-----------------------------------------------------------------------------
(***************************************************************************)
(* CameraPipeline implements FrameStream, for any buffers, queue length,   *)
(* sinks and number of frames.                                             *)
(*                                                                         *)
(* Way is the sequence of the frames on their way to the sink.  Whatever   *)
(* the tasks do, it gets the captured frame at its end, loses its head,    *)
(* one frame or a front part, or stays as it is; OrderInv says that the    *)
(* frame that comes in is younger than all it holds.                       *)
(***************************************************************************)

Way == Unsent \o queue
Stamps(s) == [i \in 1..Len(s) |-> s[i].ts]

\* The capture task has read the clock for a frame that is not queued yet.
Fresh == capture \in {"grab", "send", "evict", "release", "resend"}

\* No frame on its way is younger than this.
Youngest == IF Fresh THEN clock - 1 ELSE clock

\* The times of the frames of w rise, from above l up to at most y.
Rising(w, l, y) ==
  \A i \in 1..Len(w) :
    /\ l < w[i].ts /\ w[i].ts <= y
    /\ \A j \in 1..Len(w) : i < j => w[i].ts < w[j].ts

OrderInv ==
  /\ Rising(Way, lastSent, Youngest) /\ lastSent <= Youngest
  /\ inHand # NoFrame => inHand.ts = clock

(***************************************************************************)
(* What a step does to the frames on their way.                            *)
(***************************************************************************)
Stays == Way' = Way /\ lastSent' = lastSent /\ Youngest <= Youngest'
Enters ==
  /\ inHand \in Frames /\ Way' = Append(Way, inHand) /\ lastSent' = lastSent
  /\ inHand.ts = clock /\ Youngest = clock - 1 /\ Youngest' = clock
Leaves ==
  /\ Way # <<>> /\ Way' = Tail(Way) /\ Youngest' = Youngest
  /\ lastSent' = lastSent \/ lastSent' = Head(Way).ts
Lost1 ==
  /\ \E n \in 1..Len(Way) : Way' = Stream!RemoveAt(Way, n)
  /\ lastSent' = lastSent /\ Youngest' = Youngest
LostBatch ==
  /\ \E n \in 1..Len(Way) : Way' = SubSeq(Way, n + 1, Len(Way))
  /\ lastSent' = lastSent /\ Youngest' = Youngest
Ends == Way = <<>> /\ Way' = <<>> /\ lastSent' = 0 /\ Youngest' = 0

Moves == Stays \/ Enters \/ Leaves \/ Lost1 \/ LostBatch \/ Ends

-----------------------------------------------------------------------------
(***************************************************************************)
(* Sequences.                                                              *)
(***************************************************************************)

\* An element is taken out of the middle.
LEMMA Removed ==
  ASSUME NEW S, NEW s \in Seq(S), NEW n \in 1..Len(s)
  PROVE  /\ Stream!RemoveAt(s, n) \in Seq(S)
         /\ Len(Stream!RemoveAt(s, n)) = Len(s) - 1
         /\ \A j \in 1..(Len(s) - 1) :
              Stream!RemoveAt(s, n)[j] = IF j < n THEN s[j] ELSE s[j + 1]
<1> DEFINE a == SubSeq(s, 1, n - 1)
           b == SubSeq(s, n + 1, Len(s))
<1>1. Len(s) \in Nat /\ n \in Nat /\ n <= Len(s) /\ 1 <= n
  BY LenProperties
<1>2. /\ \A i \in 1..(n - 1) : s[i] \in S
      /\ \A i \in (n + 1)..Len(s) : s[i] \in S
  BY <1>1, ElementOfSeq
<1>3. /\ a \in Seq(S) /\ Len(a) = n - 1
      /\ \A i \in 1..(n - 1) : a[i] = s[i]
  <2>1. /\ a \in Seq(S)
        /\ Len(a) = IF 1 <= n - 1 THEN (n - 1) - 1 + 1 ELSE 0
        /\ \A i \in 1..((n - 1) - 1 + 1) : a[i] = s[1 + i - 1]
    BY <1>1, <1>2, SubSeqProperties
  <2> HIDE DEF a
  <2> QED
    BY <1>1, <2>1
<1>4. /\ b \in Seq(S) /\ Len(b) = Len(s) - n
      /\ \A i \in 1..(Len(s) - n) : b[i] = s[n + i]
  <2>1. /\ b \in Seq(S)
        /\ Len(b) = IF n + 1 <= Len(s) THEN Len(s) - (n + 1) + 1 ELSE 0
        /\ \A i \in 1..(Len(s) - (n + 1) + 1) : b[i] = s[(n + 1) + i - 1]
    BY <1>1, <1>2, SubSeqProperties
  <2> HIDE DEF b
  <2> QED
    BY <1>1, <2>1
<1> HIDE DEF a, b
<1>5. /\ a \o b \in Seq(S) /\ Len(a \o b) = Len(a) + Len(b)
      /\ \A j \in 1..(Len(a) + Len(b)) :
           (a \o b)[j] = IF j <= Len(a) THEN a[j] ELSE b[j - Len(a)]
  BY <1>3, <1>4, ConcatProperties
<1>6. Len(a \o b) = Len(s) - 1
  BY <1>1, <1>3, <1>4, <1>5
<1>7. ASSUME NEW j \in 1..(Len(s) - 1)
      PROVE  (a \o b)[j] = IF j < n THEN s[j] ELSE s[j + 1]
  <2>1. CASE j < n
    BY <1>1, <1>3, <1>4, <1>5, <2>1
  <2>2. CASE ~(j < n)
    <3>1. /\ (a \o b)[j] = b[j - (n - 1)] /\ j - (n - 1) \in 1..(Len(s) - n)
          /\ n + (j - (n - 1)) = j + 1
      BY <1>1, <1>3, <1>4, <1>5, <2>2
    <3> QED
      BY <1>4, <2>2, <3>1
  <2> QED
    BY <2>1, <2>2
<1> QED
  BY <1>5, <1>6, <1>7 DEF Stream!RemoveAt, a, b

\* The sequence on its way consists of two.  What is added to the second is
\* added to the whole,
LEMMA AddedBehind ==
  ASSUME NEW S, NEW u \in Seq(S), NEW q \in Seq(S), NEW f \in S
  PROVE  u \o Append(q, f) = Append(u \o q, f)
<1>1. /\ u \o q \in Seq(S) /\ Len(u \o q) = Len(u) + Len(q)
      /\ \A i \in 1..(Len(u) + Len(q)) :
           (u \o q)[i] = IF i <= Len(u) THEN u[i] ELSE q[i - Len(u)]
      /\ Len(u) \in Nat /\ Len(q) \in Nat
  BY ConcatProperties, LenProperties
<1>2. <<f>> \in Seq(S)
  OBVIOUS
<1>3. Append(q, f) = q \o <<f>> /\ Append(u \o q, f) = (u \o q) \o <<f>>
  BY <1>1, AppendIsConcat
<1> QED
  BY <1>2, <1>3, ConcatAssociative

\* what the first loses in front the whole loses in front,
LEMMA LostInFront ==
  ASSUME NEW S, NEW u \in Seq(S), NEW q \in Seq(S), u # <<>>
  PROVE  /\ u \o q # <<>> /\ Head(u \o q) = Head(u)
         /\ Tail(u) \o q = Tail(u \o q)
         /\ <<>> \o q = SubSeq(u \o q, Len(u) + 1, Len(u \o q))
<1>1. /\ u \o q \in Seq(S) /\ Len(u \o q) = Len(u) + Len(q)
      /\ \A i \in 1..(Len(u) + Len(q)) :
           (u \o q)[i] = IF i <= Len(u) THEN u[i] ELSE q[i - Len(u)]
      /\ Len(u) \in Nat /\ Len(q) \in Nat
  BY ConcatProperties, LenProperties
<1>2. /\ Tail(u) \in Seq(S) /\ Len(Tail(u)) = Len(u) - 1
      /\ \A i \in 1..Len(Tail(u)) : Tail(u)[i] = u[i + 1]
      /\ Len(u) >= 1 /\ Head(u) = u[1]
  BY <1>1, HeadTailProperties, EmptySeq
<1>3. u \o q # <<>> /\ Head(u \o q) = Head(u)
  <2>1. u \o q # <<>>
    BY <1>1, <1>2, EmptySeq
  <2>2. Head(u \o q) = (u \o q)[1]
    BY <1>1, <2>1
  <2> QED
    BY <1>1, <1>2, <2>1, <2>2
<1>4. Tail(u) \o q = Tail(u \o q)
  <2>1. /\ Tail(u \o q) \in Seq(S) /\ Len(Tail(u \o q)) = Len(u) + Len(q) - 1
        /\ \A i \in 1..(Len(u) + Len(q) - 1) :
             Tail(u \o q)[i] = (u \o q)[i + 1]
    BY <1>1, <1>3, HeadTailProperties
  <2>2. /\ Tail(u) \o q \in Seq(S)
        /\ Len(Tail(u) \o q) = Len(u) + Len(q) - 1
        /\ \A i \in 1..(Len(u) + Len(q) - 1) :
             (Tail(u) \o q)[i] = IF i <= Len(u) - 1 THEN Tail(u)[i]
                                 ELSE q[i - (Len(u) - 1)]
    <3>1. /\ Tail(u) \o q \in Seq(S)
          /\ Len(Tail(u) \o q) = Len(Tail(u)) + Len(q)
          /\ \A i \in 1..(Len(Tail(u)) + Len(q)) :
               (Tail(u) \o q)[i] = IF i <= Len(Tail(u)) THEN Tail(u)[i]
                                   ELSE q[i - Len(Tail(u))]
      BY <1>2, ConcatProperties
    <3>2. Len(Tail(u)) + Len(q) = Len(u) + Len(q) - 1
      BY <1>1, <1>2
    <3> QED
      BY <1>2, <3>1, <3>2
  <2>3. ASSUME NEW i \in 1..(Len(u) + Len(q) - 1)
        PROVE  (Tail(u) \o q)[i] = Tail(u \o q)[i]
    <3>1. /\ i \in Nat /\ i >= 1 /\ i + 1 \in 1..(Len(u) + Len(q))
          /\ (i + 1) - Len(u) = i - (Len(u) - 1)
      BY <1>1, <1>2
    <3>2. CASE i <= Len(u) - 1
      <4>1. i + 1 <= Len(u) /\ i \in 1..Len(Tail(u))
        BY <1>1, <1>2, <3>1, <3>2
      <4> QED
        BY <1>1, <1>2, <2>1, <2>2, <3>1, <3>2, <4>1
    <3>3. CASE ~(i <= Len(u) - 1)
      <4>1. ~(i + 1 <= Len(u))
        BY <1>1, <3>1, <3>3
      <4> QED
        BY <1>1, <2>1, <2>2, <3>1, <3>3, <4>1
    <3> QED
      BY <3>2, <3>3
  <2> QED
    BY <2>1, <2>2, <2>3, SeqEqual
<1>5. <<>> \o q = SubSeq(u \o q, Len(u) + 1, Len(u \o q))
  <2> DEFINE t == SubSeq(u \o q, Len(u) + 1, Len(u) + Len(q))
  <2>1. \A i \in (Len(u) + 1)..(Len(u) + Len(q)) : (u \o q)[i] \in S
    BY <1>1, ElementOfSeq
  <2>2. /\ t \in Seq(S)
        /\ Len(t) = IF Len(u) + 1 <= Len(u) + Len(q)
                      THEN Len(u) + Len(q) - (Len(u) + 1) + 1 ELSE 0
        /\ \A i \in 1..(Len(u) + Len(q) - (Len(u) + 1) + 1) :
             t[i] = (u \o q)[(Len(u) + 1) + i - 1]
    BY <1>1, <2>1, SubSeqProperties
  <2> HIDE DEF t
  <2>3. Len(t) = Len(q)
    BY <1>1, <2>2
  <2>4. ASSUME NEW i \in 1..Len(q)
        PROVE  t[i] = q[i]
    <3>1. /\ i \in 1..(Len(u) + Len(q) - (Len(u) + 1) + 1)
          /\ (Len(u) + 1) + i - 1 = Len(u) + i
          /\ Len(u) + i \in 1..(Len(u) + Len(q)) /\ ~(Len(u) + i <= Len(u))
          /\ (Len(u) + i) - Len(u) = i
      BY <1>1
    <3> QED
      BY <1>1, <2>2, <3>1
  <2>5. t = q
    BY <2>2, <2>3, <2>4, SeqEqual
  <2> QED
    BY <1>1, <2>5, ConcatEmptySeq DEF t
<1> QED
  BY <1>3, <1>4, <1>5

\* and an element that goes from the second to the first keeps its place.
LEMMA PassedOn ==
  ASSUME NEW S, NEW u \in Seq(S), NEW q \in Seq(S), q # <<>>
  PROVE  Append(u, Head(q)) \o Tail(q) = u \o q
<1>1. /\ u \o q \in Seq(S) /\ Len(u \o q) = Len(u) + Len(q)
      /\ \A i \in 1..(Len(u) + Len(q)) :
           (u \o q)[i] = IF i <= Len(u) THEN u[i] ELSE q[i - Len(u)]
      /\ Len(u) \in Nat /\ Len(q) \in Nat
  BY ConcatProperties, LenProperties
<1>2. /\ Tail(q) \in Seq(S) /\ Len(Tail(q)) = Len(q) - 1
      /\ \A i \in 1..Len(Tail(q)) : Tail(q)[i] = q[i + 1]
      /\ Len(q) >= 1 /\ Head(q) = q[1] /\ Head(q) \in S
  BY <1>1, HeadTailProperties, EmptySeq
<1>3. Append(u, Head(q)) \o Tail(q) = u \o q
  <2>1. /\ <<Head(q)>> \in Seq(S) /\ Append(u, Head(q)) = u \o <<Head(q)>>
    BY <1>2, AppendIsConcat
  <2>2. <<Head(q)>> \o Tail(q) = q
    <3> DEFINE h == <<Head(q)>>
    <3>1. h \in Seq(S) /\ Len(h) = 1 /\ h[1] = q[1]
      <4>1. h \in Seq(S)
        BY <2>1
      <4>2. Len(h) = 1
        OBVIOUS
      <4>3. h[1] = Head(q)
        OBVIOUS
      <4> QED
        BY <1>2, <4>1, <4>2, <4>3
    <3> HIDE DEF h
    <3>2. /\ h \o Tail(q) \in Seq(S) /\ Len(h \o Tail(q)) = 1 + Len(Tail(q))
          /\ \A i \in 1..(1 + Len(Tail(q))) :
               (h \o Tail(q))[i] = IF i <= 1 THEN h[i] ELSE Tail(q)[i - 1]
      <4> DEFINE t == Tail(q)
      <4>2. h \in Seq(S) /\ t \in Seq(S)
        BY <1>2, <3>1
      <4> HIDE DEF t
      <4>3. /\ h \o t \in Seq(S) /\ Len(h \o t) = Len(h) + Len(t)
            /\ \A i \in 1..(Len(h) + Len(t)) :
                 (h \o t)[i] = IF i <= Len(h) THEN h[i] ELSE t[i - Len(h)]
        BY <4>2, ConcatProperties
      <4>1. /\ h \o t \in Seq(S) /\ Len(h \o t) = 1 + Len(t)
            /\ \A i \in 1..(1 + Len(t)) :
                 (h \o t)[i] = IF i <= 1 THEN h[i] ELSE t[i - 1]
        BY <3>1, <4>3
      <4> USE DEF t
      <4> QED
        BY <3>1, <4>1
    <3>3. \A i \in 1..Len(q) : (h \o Tail(q))[i] = q[i]
      <4> SUFFICES ASSUME NEW i \in 1..Len(q)
                   PROVE  (h \o Tail(q))[i] = q[i]
        OBVIOUS
      <4>1. i \in 1..(1 + Len(Tail(q)))
        BY <1>1, <1>2
      <4>2. CASE i = 1
        BY <3>1, <3>2, <4>1, <4>2
      <4>3. CASE i # 1
        <5>1. i - 1 \in 1..Len(Tail(q)) /\ (i - 1) + 1 = i /\ ~(i <= 1)
          BY <1>1, <1>2, <4>3
        <5> QED
          BY <1>2, <3>2, <4>1, <5>1
      <4> QED
        BY <4>2, <4>3
    <3>4. h \o Tail(q) = q
      BY <1>1, <1>2, <3>2, <3>3, SeqEqual
    <3> QED
      BY <3>4 DEF h
  <2> QED
    BY <1>2, <2>1, <2>2, ConcatAssociative
<1> QED
  BY <1>3

\* Losing the head of the second part is losing an element of the middle.
LEMMA MiddleLost ==
  ASSUME NEW S, NEW u \in Seq(S), NEW q \in Seq(S), q # <<>>
  PROVE  /\ Len(u \o q) = Len(u) + Len(q)
         /\ u \o Tail(q) = Stream!RemoveAt(u \o q, Len(u) + 1)
<1>1. /\ u \o q \in Seq(S) /\ Len(u \o q) = Len(u) + Len(q)
      /\ \A i \in 1..(Len(u) + Len(q)) :
           (u \o q)[i] = IF i <= Len(u) THEN u[i] ELSE q[i - Len(u)]
      /\ Len(u) \in Nat /\ Len(q) \in Nat
  BY ConcatProperties, LenProperties
<1>2. /\ Tail(q) \in Seq(S) /\ Len(Tail(q)) = Len(q) - 1
      /\ \A i \in 1..Len(Tail(q)) : Tail(q)[i] = q[i + 1]
      /\ Len(q) >= 1
  BY <1>1, HeadTailProperties, EmptySeq
<1> DEFINE r == Stream!RemoveAt(u \o q, Len(u) + 1)
<1>3. Len(u) + 1 \in 1..Len(u \o q)
  BY <1>1, <1>2
<1>4. /\ r \in Seq(S) /\ Len(r) = Len(u \o q) - 1
      /\ \A j \in 1..(Len(u \o q) - 1) :
           r[j] = IF j < Len(u) + 1 THEN (u \o q)[j] ELSE (u \o q)[j + 1]
  BY <1>1, <1>3, Removed
<1> HIDE DEF r
<1>5. /\ u \o Tail(q) \in Seq(S)
      /\ Len(u \o Tail(q)) = Len(u) + Len(Tail(q))
      /\ \A i \in 1..(Len(u) + Len(Tail(q))) :
           (u \o Tail(q))[i] = IF i <= Len(u) THEN u[i]
                               ELSE Tail(q)[i - Len(u)]
  BY <1>2, ConcatProperties
<1>6. Len(u \o Tail(q)) = Len(r)
  BY <1>1, <1>2, <1>4, <1>5
<1>7. ASSUME NEW j \in 1..Len(u \o Tail(q))
      PROVE  (u \o Tail(q))[j] = r[j]
  <2>1. /\ j \in 1..(Len(u) + Len(Tail(q))) /\ j \in 1..(Len(u \o q) - 1)
        /\ j \in 1..(Len(u) + Len(q)) /\ j + 1 \in 1..(Len(u) + Len(q))
    BY <1>1, <1>2, <1>5
  <2>2. CASE j <= Len(u)
    <3>1. j < Len(u) + 1
      BY <1>1, <2>2
    <3> QED
      BY <1>1, <1>4, <1>5, <2>1, <2>2, <3>1
  <2>3. CASE ~(j <= Len(u))
    <3>1. /\ ~(j < Len(u) + 1) /\ ~(j + 1 <= Len(u))
          /\ j - Len(u) \in 1..Len(Tail(q))
          /\ (j - Len(u)) + 1 = (j + 1) - Len(u)
      BY <1>1, <1>2, <2>1, <2>3
    <3> QED
      BY <1>1, <1>2, <1>4, <1>5, <2>1, <2>3, <3>1
  <2> QED
    BY <2>2, <2>3
<1>8. u \o Tail(q) = r
  BY <1>4, <1>5, <1>6, <1>7, SeqEqual
<1> QED
  BY <1>1, <1>8 DEF r

\* The capture time of a frame is a number.
LEMMA FrameTime ==
  ASSUME NEW f \in Frames
  PROVE  f.ts \in Int /\ 1 <= f.ts /\ f.ts <= MaxFrames
<1>1. f.ts \in 1..MaxFrames
  BY DEF Frames
<1> QED
  BY <1>1, PoolAssumption

\* The times of a sequence of frames change as the sequence does.
LEMMA StampsFollow ==
  ASSUME NEW s \in Seq(Frames)
  PROVE  /\ Stamps(s) \in Seq(Int) /\ Len(Stamps(s)) = Len(s)
         /\ \A i \in 1..Len(s) : Stamps(s)[i] = s[i].ts
         /\ DOMAIN Stamps(s) = 1..Len(s)
<1>1. Len(s) \in Nat /\ \A i \in 1..Len(s) : s[i].ts \in Int
  <2>1. Len(s) \in Nat /\ \A i \in 1..Len(s) : s[i] \in Frames
    BY LenProperties, ElementOfSeq
  <2> QED
    BY <2>1, FrameTime
<1>2. Stamps(s) \in [1..Len(s) -> Int]
  BY <1>1 DEF Stamps
<1>3. Stamps(s) \in Seq(Int)
  BY <1>1, <1>2, SeqDef
<1>4. DOMAIN Stamps(s) = 1..Len(s) /\ DOMAIN Stamps(s) = 1..Len(Stamps(s))
  BY <1>2, <1>3, LenProperties
<1>5. Len(Stamps(s)) = Len(s)
  BY <1>1, <1>3, <1>4, LenProperties
<1> QED
  BY <1>3, <1>4, <1>5 DEF Stamps

\* Two sequences of times are the same if their elements are.
LEMMA SameStamps ==
  ASSUME NEW s \in Seq(Frames), NEW t \in Seq(Int), Len(t) = Len(s),
         \A i \in 1..Len(s) : t[i] = s[i].ts
  PROVE  Stamps(s) = t
<1>1. /\ Stamps(s) \in Seq(Int) /\ Len(Stamps(s)) = Len(t)
      /\ \A i \in 1..Len(Stamps(s)) : Stamps(s)[i] = t[i]
  BY StampsFollow
<1> QED
  BY <1>1, SeqEqual

\* The abstract line follows each way in which the sequence changes.
LEMMA StampsMove ==
  ASSUME NEW s \in Seq(Frames), NEW f \in Frames
  PROVE  /\ Stamps(Append(s, f)) = Append(Stamps(s), f.ts)
         /\ s # <<>> => /\ Stamps(s) # <<>> /\ Head(Stamps(s)) = Head(s).ts
                        /\ Stamps(Tail(s)) = Tail(Stamps(s))
         /\ \A n \in 1..Len(s) :
              /\ Stamps(Stream!RemoveAt(s, n)) = Stream!RemoveAt(Stamps(s), n)
              /\ Stamps(SubSeq(s, n + 1, Len(s)))
                   = SubSeq(Stamps(s), n + 1, Len(Stamps(s)))
<1>1. /\ Stamps(s) \in Seq(Int) /\ Len(Stamps(s)) = Len(s) /\ Len(s) \in Nat
      /\ \A i \in 1..Len(s) : Stamps(s)[i] = s[i].ts
      /\ f.ts \in Int
  BY StampsFollow, LenProperties, FrameTime
<1>2. Stamps(Append(s, f)) = Append(Stamps(s), f.ts)
  <2>1. /\ Append(s, f) \in Seq(Frames) /\ Len(Append(s, f)) = Len(s) + 1
        /\ \A i \in 1..Len(s) : Append(s, f)[i] = s[i]
        /\ Append(s, f)[Len(s) + 1] = f
    BY AppendProperties
  <2>2. /\ Append(Stamps(s), f.ts) \in Seq(Int)
        /\ Len(Append(Stamps(s), f.ts)) = Len(s) + 1
        /\ \A i \in 1..Len(s) : Append(Stamps(s), f.ts)[i] = Stamps(s)[i]
        /\ Append(Stamps(s), f.ts)[Len(s) + 1] = f.ts
    BY <1>1, AppendProperties
  <2>3. \A i \in 1..(Len(s) + 1) : i \in 1..Len(s) \/ i = Len(s) + 1
    BY <1>1
  <2>4. \A i \in 1..Len(Append(s, f)) :
          Append(Stamps(s), f.ts)[i] = Append(s, f)[i].ts
    BY <1>1, <2>1, <2>2, <2>3
  <2> QED
    BY <2>1, <2>2, <2>4, SameStamps
<1>3. ASSUME s # <<>>
      PROVE  /\ Stamps(s) # <<>> /\ Head(Stamps(s)) = Head(s).ts
             /\ Stamps(Tail(s)) = Tail(Stamps(s))
  <2>1. /\ Tail(s) \in Seq(Frames) /\ Len(Tail(s)) = Len(s) - 1
        /\ \A i \in 1..(Len(s) - 1) : Tail(s)[i] = s[i + 1]
        /\ Head(s) = s[1] /\ Len(s) >= 1
    BY <1>1, <1>3, HeadTailProperties, EmptySeq
  <2>2. Stamps(s) # <<>> /\ Head(Stamps(s)) = Stamps(s)[1]
    BY <1>1, <2>1, EmptySeq
  <2>3. /\ Tail(Stamps(s)) \in Seq(Int) /\ Len(Tail(Stamps(s))) = Len(s) - 1
        /\ \A i \in 1..(Len(s) - 1) : Tail(Stamps(s))[i] = Stamps(s)[i + 1]
    BY <1>1, <2>2, HeadTailProperties
  <2>4. \A i \in 1..(Len(s) - 1) : i + 1 \in 1..Len(s)
    BY <1>1, <2>1
  <2>5. \A i \in 1..Len(Tail(s)) : Tail(Stamps(s))[i] = Tail(s)[i].ts
    BY <1>1, <2>1, <2>3, <2>4
  <2>6. Stamps(Tail(s)) = Tail(Stamps(s))
    BY <2>1, <2>3, <2>5, SameStamps
  <2> QED
    BY <1>1, <2>1, <2>2, <2>6
<1>4. ASSUME NEW n \in 1..Len(s)
      PROVE  Stamps(Stream!RemoveAt(s, n)) = Stream!RemoveAt(Stamps(s), n)
  <2> DEFINE r == Stream!RemoveAt(s, n)
             t == Stream!RemoveAt(Stamps(s), n)
  <2>1. /\ r \in Seq(Frames) /\ Len(r) = Len(s) - 1
        /\ \A j \in 1..(Len(s) - 1) : r[j] = IF j < n THEN s[j] ELSE s[j + 1]
    BY Removed
  <2>2. /\ t \in Seq(Int) /\ Len(t) = Len(s) - 1
        /\ \A j \in 1..(Len(s) - 1) :
             t[j] = IF j < n THEN Stamps(s)[j] ELSE Stamps(s)[j + 1]
    BY <1>1, Removed
  <2> HIDE DEF r, t
  <2>3. \A j \in 1..(Len(s) - 1) : j \in 1..Len(s) /\ j + 1 \in 1..Len(s)
    BY <1>1
  <2>4. \A j \in 1..Len(r) : t[j] = r[j].ts
    BY <1>1, <2>1, <2>2, <2>3
  <2>5. Stamps(r) = t
    BY <2>1, <2>2, <2>4, SameStamps
  <2> QED
    BY <2>5 DEF r, t
<1>5. ASSUME NEW n \in 1..Len(s)
      PROVE  Stamps(SubSeq(s, n + 1, Len(s)))
               = SubSeq(Stamps(s), n + 1, Len(Stamps(s)))
  <2> DEFINE r == SubSeq(s, n + 1, Len(s))
             t == SubSeq(Stamps(s), n + 1, Len(s))
  <2>1. /\ \A i \in (n + 1)..Len(s) : s[i] \in Frames /\ Stamps(s)[i] \in Int
        /\ n + 1 \in Int
    BY <1>1, ElementOfSeq
  <2>2. /\ r \in Seq(Frames)
        /\ Len(r) = IF n + 1 <= Len(s) THEN Len(s) - (n + 1) + 1 ELSE 0
        /\ \A i \in 1..(Len(s) - (n + 1) + 1) : r[i] = s[(n + 1) + i - 1]
    BY <1>1, <2>1, SubSeqProperties
  <2>3. /\ t \in Seq(Int)
        /\ Len(t) = IF n + 1 <= Len(s) THEN Len(s) - (n + 1) + 1 ELSE 0
        /\ \A i \in 1..(Len(s) - (n + 1) + 1) :
             t[i] = Stamps(s)[(n + 1) + i - 1]
    BY <1>1, <2>1, SubSeqProperties
  <2> HIDE DEF r, t
  <2>4. /\ Len(r) = Len(s) - n
        /\ \A i \in 1..(Len(s) - n) : /\ i \in 1..(Len(s) - (n + 1) + 1)
                                     /\ (n + 1) + i - 1 \in 1..Len(s)
    BY <1>1, <2>2
  <2>5. \A j \in 1..Len(r) : t[j] = r[j].ts
    BY <1>1, <2>2, <2>3, <2>4
  <2>6. Stamps(r) = t
    BY <2>2, <2>3, <2>5, SameStamps
  <2> QED
    BY <1>1, <2>6 DEF r, t
<1> QED
  BY <1>2, <1>3, <1>4, <1>5

-----------------------------------------------------------------------------
(***************************************************************************)
(* Every step is one of the moves.                                         *)
(***************************************************************************)

\* The way is a sequence of frames, of the batch and the queue.
LEMMA WayTypes ==
  ASSUME TypeOK, Placement
  PROVE  /\ Unsent \in Seq(Frames) /\ queue \in Seq(Frames)
         /\ batch \in Seq(Frames) /\ Way \in Seq(Frames)
         /\ lastSent \in Int /\ clock \in Int /\ Youngest \in Int
<1>1. queue \in Seq(Frames) /\ batch \in Seq(Frames)
  BY DEF TypeOK, BufferTypes
<1>2. Unsent \in Seq(Frames)
  <2>1. CASE consumer = "release"
    <3>1. batch # <<>>
      BY <2>1 DEF Placement
    <3> QED
      BY <1>1, <2>1, <3>1, HeadTailProperties DEF Unsent
  <2>2. CASE consumer # "release"
    BY <1>1, <2>2 DEF Unsent
  <2> QED
    BY <2>1, <2>2
<1>3. Way \in Seq(Frames)
  BY <1>1, <1>2, ConcatProperties DEF Way
<1>4. lastSent \in Int /\ clock \in Int
  BY PoolAssumption DEF TypeOK, CounterTypes
<1> QED
  BY <1>1, <1>2, <1>3, <1>4 DEF Youngest

\* The steps that neither change what is on its way nor the clock.
LEMMA StaysWhere ==
  ASSUME TypeOK, Placement, Unsent' = Unsent, queue' = queue,
         lastSent' = lastSent, clock' = clock, Fresh' => Fresh
  PROVE  Stays
<1>1. Way' = Way
  BY DEF Way
<1>2. Youngest <= Youngest'
  BY WayTypes DEF Youngest
<1> QED
  BY <1>1, <1>2 DEF Stays

\* The oldest frame of the queue leaves the way from its middle.
LEMMA HeadOfQueueLost ==
  ASSUME TypeOK, Placement, Unsent' = Unsent, queue # <<>>,
         queue' = Tail(queue)
  PROVE  \E n \in 1..Len(Way) : Way' = Stream!RemoveAt(Way, n)
<1>1. Unsent \in Seq(Frames) /\ queue \in Seq(Frames)
  BY WayTypes
<1>2. /\ Unsent \o Tail(queue)
           = Stream!RemoveAt(Unsent \o queue, Len(Unsent) + 1)
      /\ Len(Unsent \o queue) = Len(Unsent) + Len(queue)
  BY <1>1, MiddleLost
<1>3. Len(Unsent) \in Nat /\ Len(queue) \in Nat /\ Len(queue) # 0
  BY WayTypes, LenProperties, EmptySeq
<1>4. Len(Unsent) + 1 \in 1..Len(Way)
  BY <1>2, <1>3 DEF Way
<1>5. Way' = Stream!RemoveAt(Way, Len(Unsent) + 1)
  BY <1>2 DEF Way
<1> QED
  BY <1>4, <1>5

\* The state-machine task: a deleted consumer takes its batch along, the
\* flush drops the queue, and the next session starts with nothing.
LEMMA ControlMoves ==
  ASSUME TypeOK, Placement, OrderInv, ControlStep
  PROVE  Moves
<1> USE DEF Moves, Placement, bufferVars, taskVars, sessionVars
<1>1. ASSUME \/ \E ok \in BOOLEAN : Reconfigure(ok)
             \/ \E s \in Sinks : PipelineStart(s)
             \/ PipelineStartFails \/ SinkStart \/ SinkStartFails
             \/ RequestStop \/ SinkStopped \/ StopTimer \/ KillCapture
      PROVE  Moves
  <2>1. /\ Unsent' = Unsent /\ queue' = queue /\ lastSent' = lastSent
        /\ clock' = clock /\ (Fresh' => Fresh)
    BY <1>1
    DEF Reconfigure, PipelineStart, PipelineStartFails, SinkStart,
        SinkStartFails, RequestStop, SinkStopped, StopTimer, KillCapture,
        Unsent, Fresh
  <2> QED
    BY <2>1, StaysWhere
<1>2. CASE KillConsumer
  <2>1. /\ Unsent' = <<>> /\ queue' = queue /\ lastSent' = lastSent
        /\ Youngest' = Youngest
    BY <1>2 DEF KillConsumer, Unsent, Youngest, Fresh
  <2>2. CASE Unsent = <<>>
    BY <2>1, <2>2, WayTypes DEF Stays, Way
  <2>3. CASE Unsent # <<>>
    <3>1. Len(Unsent) \in 1..Len(Way)
      <4>1. /\ Len(Unsent) \in Nat /\ Len(queue) \in Nat /\ Len(Unsent) # 0
            /\ Len(Way) = Len(Unsent) + Len(queue)
        BY <2>3, WayTypes, LenProperties, EmptySeq, ConcatProperties DEF Way
      <4> QED
        BY <4>1
    <3>2. Unsent # <<>> =>
            <<>> \o queue = SubSeq(Way, Len(Unsent) + 1, Len(Way))
      <4>1. Unsent \in Seq(Frames) /\ queue \in Seq(Frames)
        BY WayTypes
      <4> QED
        BY <4>1, LostInFront DEF Way
    <3>3. Way' = SubSeq(Way, Len(Unsent) + 1, Len(Way))
      BY <2>1, <2>3, <3>2 DEF Way
    <3> QED
      BY <2>1, <3>1, <3>3 DEF LostBatch
  <2> QED
    BY <2>2, <2>3
<1>3. CASE FlushFrame
  <2>1. /\ Unsent' = Unsent /\ queue # <<>> /\ queue' = Tail(queue)
        /\ lastSent' = lastSent /\ Youngest' = Youngest
    BY <1>3 DEF FlushFrame, Unsent, Youngest, Fresh
  <2> QED
    BY <2>1, HeadOfQueueLost DEF Lost1
<1>4. CASE DeleteQueue
  <2>1. /\ consumer = "none" /\ batch = <<>> /\ queue = <<>>
        /\ capture = "none"
    BY <1>4 DEF DeleteQueue
  <2>2. /\ consumer' = "none" /\ batch' = <<>> /\ queue' = <<>>
        /\ capture' = "none" /\ clock' = 0 /\ lastSent' = 0
    BY <1>4, <2>1 DEF DeleteQueue
  <2>3. <<>> \o queue = <<>>
    BY <2>1, WayTypes, ConcatEmptySeq
  <2>4. Way = <<>> /\ Way' = <<>>
    BY <2>1, <2>2, <2>3 DEF Way, Unsent
  <2>5. Youngest' = 0
    BY <2>2 DEF Youngest, Fresh
  <2> QED
    BY <2>2, <2>4, <2>5 DEF Ends
<1> QED
  BY <1>1, <1>2, <1>3, <1>4 DEF ControlStep

\* camera_capture_task: a frame comes in behind the others, or one is evicted.
LEMMA CaptureMoves ==
  ASSUME TypeOK, Placement, OrderInv, CaptureStep
  PROVE  Moves
<1> USE DEF Moves, Placement, bufferVars, taskVars, sessionVars, captureFrame
<1>1. ASSUME \/ \E b \in Buffers : Grab(b)
             \/ GrabFails \/ SendFull \/ ReleaseDiscard \/ AdjustQuality
      PROVE  Moves
  <2>1. /\ Unsent' = Unsent /\ queue' = queue /\ lastSent' = lastSent
        /\ clock' = clock /\ (Fresh' => Fresh)
    BY <1>1 DEF Grab, GrabFails, SendFull, ReleaseDiscard, AdjustQuality,
                Unsent, Fresh
  <2> QED
    BY <2>1, StaysWhere
<1>2. CASE CaptureWake
  <2>1. /\ Unsent' = Unsent /\ queue' = queue /\ lastSent' = lastSent
        /\ clock' = clock + 1 /\ ~Fresh /\ Fresh'
    <3>1. capture = "wait" /\ capture' = "grab" /\ clock' = clock + 1
      BY <1>2 DEF CaptureWake
    <3>2. /\ batch' = batch /\ consumer' = consumer /\ queue' = queue
          /\ lastSent' = lastSent
      BY <1>2 DEF CaptureWake
    <3> QED
      BY <3>1, <3>2 DEF Unsent, Fresh
  <2>2. Youngest' = Youngest /\ Youngest <= Youngest'
    <3>1. Youngest = clock
      BY <2>1 DEF Youngest
    <3>2. Youngest' = clock' - 1
      BY <2>1 DEF Youngest
    <3>3. clock \in Int
      BY WayTypes
    <3> QED
      BY <2>1, <3>1, <3>2, <3>3
  <2> QED
    BY <2>1, <2>2 DEF Stays, Way
<1>3. ASSUME \/ Send
             \/ Resend /\ Len(queue) < QueueLen
      PROVE  Moves
  <2>1. /\ queue' = Append(queue, inHand) /\ Unsent' = Unsent
        /\ lastSent' = lastSent /\ clock' = clock
        /\ Fresh /\ ~Fresh' /\ inHand # NoFrame
    BY <1>3 DEF Send, Resend, Enqueue, Unsent, Fresh
  <2>2. inHand \in Frames /\ inHand.ts = clock
    BY <2>1 DEF TypeOK, BufferTypes, OrderInv
  <2>3. Youngest = clock - 1 /\ Youngest' = clock
    BY <2>1 DEF Youngest
  <2>4. Unsent \o Append(queue, inHand) = Append(Unsent \o queue, inHand)
    <3>1. Unsent \in Seq(Frames) /\ queue \in Seq(Frames)
      BY WayTypes
    <3> QED
      BY <2>2, <3>1, AddedBehind
  <2>5. Way' = Append(Way, inHand)
    BY <2>1, <2>4 DEF Way
  <2> QED
    BY <2>1, <2>2, <2>3, <2>5 DEF Enters
<1>4. CASE Evict
  <2>1. CASE queue # <<>>
    <3>1. /\ Unsent' = Unsent /\ queue' = Tail(queue)
          /\ lastSent' = lastSent /\ Youngest' = Youngest
      BY <1>4, <2>1 DEF Evict, Unsent, Youngest, Fresh
    <3> QED
      BY <2>1, <3>1, HeadOfQueueLost DEF Lost1
  <2>2. CASE queue = <<>>
    <3>1. /\ Unsent' = Unsent /\ queue' = queue /\ lastSent' = lastSent
          /\ clock' = clock /\ (Fresh' => Fresh)
      BY <1>4, <2>2 DEF Evict, Unsent, Fresh
    <3> QED
      BY <3>1, StaysWhere
  <2> QED
    BY <2>1, <2>2
<1>5. CASE Resend /\ ~(Len(queue) < QueueLen)
  <2>1. /\ Unsent' = Unsent /\ queue' = queue /\ lastSent' = lastSent
        /\ clock' = clock /\ (Fresh' => Fresh)
    BY <1>5 DEF Resend, Unsent, Fresh
  <2> QED
    BY <2>1, StaysWhere
<1> QED
  BY <1>1, <1>2, <1>3, <1>4, <1>5 DEF CaptureStep

\* The consumer: a drained frame keeps its place, a delivered one is gone.
LEMMA ConsumerMoves ==
  ASSUME TypeOK, Placement, OrderInv, ConsumerStep
  PROVE  Moves
<1> USE DEF Moves, Placement, sessionVars, consumerFrame, qualityVars
<1>1. ASSUME \/ \E ok \in BOOLEAN : ConsumerBoot(ok)
             \/ ConsumerLoop \/ Drained \/ ReleaseFrame \/ BatchDone
      PROVE  Moves
  <2>1. /\ Unsent' = Unsent /\ queue' = queue /\ lastSent' = lastSent
        /\ clock' = clock /\ (Fresh' => Fresh)
    BY <1>1 DEF ConsumerBoot, ConsumerLoop, Drained, ReleaseFrame, BatchDone,
                Unsent, Fresh
  <2> QED
    BY <2>1, StaysWhere
<1>2. CASE DrainFrame
  <2>1. /\ queue # <<>> /\ queue' = Tail(queue) /\ Unsent = batch
        /\ Unsent' = Append(Unsent, Head(queue))
        /\ lastSent' = lastSent /\ Youngest' = Youngest
    BY <1>2 DEF DrainFrame, Unsent, Youngest, Fresh
  <2>2. Append(Unsent, Head(queue)) \o Tail(queue) = Unsent \o queue
    <3>1. Unsent \in Seq(Frames) /\ queue \in Seq(Frames)
      BY WayTypes
    <3> QED
      BY <2>1, <3>1, PassedOn
  <2>3. Way' = Way
    BY <2>1, <2>2 DEF Way
  <2>4. Youngest \in Int
    BY WayTypes
  <2>5. Youngest <= Youngest'
    BY <2>1, <2>4
  <2> QED
    BY <2>1, <2>3, <2>5 DEF Stays
<1>3. CASE Deliver
  <2>1. /\ batch # <<>> /\ Unsent = batch /\ Unsent' = Tail(batch)
        /\ queue' = queue /\ Youngest' = Youngest
        /\ lastSent' = lastSent \/ lastSent' = Head(batch).ts
    BY <1>3 DEF Deliver, Unsent, Youngest, Fresh
  <2>2. /\ Unsent \o queue # <<>> /\ Head(Unsent \o queue) = Head(Unsent)
        /\ Tail(Unsent) \o queue = Tail(Unsent \o queue)
    <3>1. Unsent \in Seq(Frames) /\ queue \in Seq(Frames) /\ Unsent # <<>>
      BY <2>1, WayTypes
    <3> QED
      BY <3>1, LostInFront
  <2>3. Way # <<>> /\ Way' = Tail(Way) /\ Head(Way) = Head(batch)
    BY <2>1, <2>2 DEF Way
  <2> QED
    BY <2>1, <2>3 DEF Leaves
<1> QED
  BY <1>1, <1>2, <1>3 DEF ConsumerStep

\* Every step of the tasks is a move.
LEMMA StepMoves ==
  ASSUME TypeOK, Placement, OrderInv, [Next]_vars
  PROVE  Moves
<1>1. CASE TimerTick \/ UNCHANGED vars
  <2>1. /\ Unsent' = Unsent /\ queue' = queue /\ lastSent' = lastSent
        /\ clock' = clock /\ (Fresh' => Fresh)
    BY <1>1 DEF TimerTick, vars, bufferVars, Unsent, Fresh
  <2> QED
    BY <2>1, StaysWhere DEF Moves
<1> QED
  BY <1>1, ControlMoves, CaptureMoves, ConsumerMoves DEF Next

-----------------------------------------------------------------------------
(***************************************************************************)
(* The order on the way is kept.                                           *)
(***************************************************************************)

\* A sequence made of some of the elements of s, in their order, rises if s
\* does.
LEMMA Thinner ==
  ASSUME NEW s \in Seq(Frames), NEW t \in Seq(Frames), NEW l, NEW y,
         Rising(s, l, y), NEW g,
         \A i \in 1..Len(t) :
           /\ g[i] \in 1..Len(s) /\ t[i] = s[g[i]]
           /\ \A j \in 1..Len(t) : i < j => g[i] < g[j]
  PROVE  Rising(t, l, y)
BY DEF Rising

\* Each move keeps a sequence rising, above what was delivered.
LEMMA RisingMoves ==
  ASSUME NEW s \in Seq(Frames), NEW l \in Int, NEW y \in Int, Rising(s, l, y)
  PROVE  /\ \A z \in Int : y <= z => Rising(s, l, z)
         /\ \A f \in Frames :
              l <= y /\ y < f.ts => Rising(Append(s, f), l, f.ts)
         /\ s # <<>> => /\ Rising(Tail(s), Head(s).ts, y)
                        /\ Rising(Tail(s), l, y)
                        /\ Head(s).ts <= y
         /\ \A n \in 1..Len(s) : /\ Rising(Stream!RemoveAt(s, n), l, y)
                                 /\ Rising(SubSeq(s, n + 1, Len(s)), l, y)
<1>1. /\ Len(s) \in Nat
      /\ \A i \in 1..Len(s) : s[i] \in Frames /\ s[i].ts \in Int
  <2>1. Len(s) \in Nat /\ \A i \in 1..Len(s) : s[i] \in Frames
    BY LenProperties, ElementOfSeq
  <2> QED
    BY <2>1, FrameTime
<1>2. ASSUME NEW z \in Int, y <= z
      PROVE  Rising(s, l, z)
  BY <1>1, <1>2 DEF Rising
<1>3. ASSUME NEW f \in Frames, l <= y, y < f.ts
      PROVE  Rising(Append(s, f), l, f.ts)
  <2> DEFINE t == Append(s, f)
  <2>1. /\ Len(t) = Len(s) + 1 /\ t[Len(s) + 1] = f
        /\ \A i \in 1..Len(s) : t[i] = s[i]
    BY AppendProperties
  <2> HIDE DEF t
  <2>2. \A i \in 1..Len(t) : i \in 1..Len(s) \/ i = Len(s) + 1
    BY <1>1, <2>1
  <2>3. f.ts \in Int
    BY FrameTime
  <2>4. ASSUME NEW i \in 1..Len(t)
        PROVE  l < t[i].ts /\ t[i].ts <= f.ts
    BY <1>1, <1>3, <2>1, <2>2, <2>3 DEF Rising
  <2>5. ASSUME NEW i \in 1..Len(t), NEW j \in 1..Len(t), i < j
        PROVE  t[i].ts < t[j].ts
    <3>1. i \in 1..Len(s)
      BY <1>1, <2>1, <2>5
    <3>2. CASE j \in 1..Len(s)
      BY <2>1, <2>5, <3>1, <3>2 DEF Rising
    <3>3. CASE j = Len(s) + 1
      <4>1. s[i].ts <= y
        BY <3>1 DEF Rising
      <4> QED
        BY <1>1, <1>3, <2>1, <2>3, <3>1, <3>3, <4>1
    <3> QED
      BY <2>2, <3>2, <3>3
  <2>6. Rising(t, l, f.ts)
    BY <2>4, <2>5 DEF Rising
  <2> QED
    BY <2>6 DEF t
<1>4. ASSUME s # <<>>
      PROVE  /\ Rising(Tail(s), Head(s).ts, y)
             /\ Rising(Tail(s), l, y)
             /\ Head(s).ts <= y
  <2> DEFINE t == Tail(s)
             g == [i \in 1..Len(t) |-> i + 1]
  <2>1. /\ t \in Seq(Frames) /\ Len(t) = Len(s) - 1 /\ Head(s) = s[1]
        /\ \A i \in 1..Len(t) : t[i] = s[i + 1]
        /\ Len(s) >= 1
    BY <1>1, <1>4, HeadTailProperties, EmptySeq
  <2> HIDE DEF t
  <2>2. \A i \in 1..Len(t) :
          /\ g[i] \in 1..Len(s) /\ t[i] = s[g[i]] /\ 1 < g[i]
          /\ \A j \in 1..Len(t) : i < j => g[i] < g[j]
    BY <1>1, <2>1
  <2> HIDE DEF g
  <2>3. Rising(t, l, y)
    BY <2>1, <2>2, Thinner
  <2>4. 1 \in 1..Len(s) /\ Head(s).ts <= y
    BY <1>1, <2>1 DEF Rising
  <2>5. \A i \in 1..Len(t) : Head(s).ts < t[i].ts
    BY <2>1, <2>2, <2>4 DEF Rising
  <2>6. Rising(t, Head(s).ts, y)
    BY <2>3, <2>5 DEF Rising
  <2> QED
    BY <2>3, <2>4, <2>6 DEF t
<1>5. ASSUME NEW n \in 1..Len(s)
      PROVE  Rising(Stream!RemoveAt(s, n), l, y)
  <2> DEFINE t == Stream!RemoveAt(s, n)
             g == [i \in 1..Len(t) |-> IF i < n THEN i ELSE i + 1]
  <2>1. /\ t \in Seq(Frames) /\ Len(t) = Len(s) - 1
        /\ \A j \in 1..(Len(s) - 1) : t[j] = IF j < n THEN s[j] ELSE s[j + 1]
    BY Removed
  <2> HIDE DEF t
  <2>2. \A i \in 1..Len(t) :
          /\ g[i] \in 1..Len(s) /\ t[i] = s[g[i]]
          /\ \A j \in 1..Len(t) : i < j => g[i] < g[j]
    BY <1>1, <2>1
  <2> HIDE DEF g
  <2>3. Rising(t, l, y)
    BY <2>1, <2>2, Thinner
  <2> QED
    BY <2>3 DEF t
<1>6. ASSUME NEW n \in 1..Len(s)
      PROVE  Rising(SubSeq(s, n + 1, Len(s)), l, y)
  <2> DEFINE t == SubSeq(s, n + 1, Len(s))
             g == [i \in 1..Len(t) |-> n + i]
  <2>1. n + 1 \in Int /\ n \in Nat /\ n <= Len(s) /\ 1 <= n
    BY <1>1
  <2>2. \A i \in (n + 1)..Len(s) : s[i] \in Frames
    BY <1>1, <2>1
  <2>3. /\ t \in Seq(Frames)
        /\ Len(t) = IF n + 1 <= Len(s) THEN Len(s) - (n + 1) + 1 ELSE 0
        /\ \A i \in 1..(Len(s) - (n + 1) + 1) : t[i] = s[(n + 1) + i - 1]
    BY <1>1, <2>1, <2>2, SubSeqProperties
  <2> HIDE DEF t
  <2>4. Len(t) = Len(s) - n /\ \A i \in 1..(Len(s) - n) : t[i] = s[n + i]
    BY <1>1, <2>1, <2>3
  <2>5. \A i \in 1..Len(t) :
          /\ g[i] \in 1..Len(s) /\ t[i] = s[g[i]]
          /\ \A j \in 1..Len(t) : i < j => g[i] < g[j]
    BY <1>1, <2>1, <2>4
  <2> HIDE DEF g
  <2>6. Rising(t, l, y)
    BY <2>3, <2>5, Thinner
  <2> QED
    BY <2>6 DEF t
<1> QED
  BY <1>2, <1>3, <1>4, <1>5, <1>6

\* Every move keeps the way rising.
LEMMA MovesKeepRising ==
  ASSUME TypeOK, Placement, OrderInv, Moves, TypeOK', Placement'
  PROVE  Rising(Way, lastSent, Youngest)' /\ (lastSent <= Youngest)'
<1>1. /\ Way \in Seq(Frames) /\ lastSent \in Int /\ Youngest \in Int
      /\ Youngest' \in Int /\ clock \in Int /\ Rising(Way, lastSent, Youngest)
      /\ lastSent <= Youngest
  <2>1. Youngest' \in Int
    BY PoolAssumption DEF TypeOK, CounterTypes, Youngest
  <2> QED
    BY <2>1, WayTypes DEF OrderInv
<1> SUFFICES Rising(Way', lastSent', Youngest') /\ lastSent' <= Youngest'
  BY DEF Rising
<1>2. CASE Stays
  <2>1. Rising(Way, lastSent, Youngest')
    BY <1>1, <1>2, RisingMoves DEF Stays
  <2> QED
    BY <1>1, <1>2, <2>1 DEF Stays
<1>3. CASE Enters
  <2>1. inHand \in Frames /\ Youngest < inHand.ts
    BY <1>1, <1>3 DEF Enters
  <2>2. Rising(Append(Way, inHand), lastSent, inHand.ts)
    BY <1>1, <2>1, RisingMoves
  <2> QED
    BY <1>1, <1>3, <2>2 DEF Enters
<1>4. CASE Leaves
  <2>1. /\ Rising(Tail(Way), Head(Way).ts, Youngest)
        /\ Rising(Tail(Way), lastSent, Youngest)
        /\ Head(Way).ts <= Youngest
    BY <1>1, <1>4, RisingMoves DEF Leaves
  <2> QED
    BY <1>1, <1>4, <2>1 DEF Leaves
<1>5. CASE Lost1
  <2>1. PICK n \in 1..Len(Way) : Way' = Stream!RemoveAt(Way, n)
    BY <1>5 DEF Lost1
  <2>2. Rising(Stream!RemoveAt(Way, n), lastSent, Youngest)
    BY <1>1, RisingMoves
  <2> QED
    BY <1>1, <1>5, <2>1, <2>2 DEF Lost1
<1>6. CASE LostBatch
  <2>1. PICK n \in 1..Len(Way) : Way' = SubSeq(Way, n + 1, Len(Way))
    BY <1>6 DEF LostBatch
  <2>2. Rising(SubSeq(Way, n + 1, Len(Way)), lastSent, Youngest)
    BY <1>1, RisingMoves
  <2> QED
    BY <1>1, <1>6, <2>1, <2>2 DEF LostBatch
<1>7. CASE Ends
  <2>1. Way' = <<>> /\ lastSent' = 0 /\ Youngest' = 0
    BY <1>7 DEF Ends
  <2>2. Len(Way') = 0
    BY <2>1
  <2> QED
    BY <2>1, <2>2 DEF Rising
<1> QED
  BY <1>2, <1>3, <1>4, <1>5, <1>6, <1>7 DEF Moves

\* The frame in hand carries the time of the clock.
LEMMA HandNext ==
  ASSUME TypeOK, Placement, OrderInv, [Next]_vars, inHand' # NoFrame
  PROVE  inHand'.ts = clock'
<1> USE DEF OrderInv, Placement, bufferVars, captureFrame, consumerFrame
<1>1. CASE \E b \in Buffers : Grab(b)
  BY <1>1 DEF Grab
<1>2. CASE KillCapture
  BY <1>2 DEF KillCapture
<1>3. CASE CaptureWake
  BY <1>3 DEF CaptureWake
<1>4. CASE DeleteQueue
  BY <1>4 DEF DeleteQueue, taskVars
<1>5. CASE inHand' = inHand /\ clock' = clock
  BY <1>5
<1>6. CASE Send \/ Resend
  BY <1>6 DEF Send, Resend, Enqueue
<1> QED
  BY <1>1, <1>2, <1>3, <1>4, <1>5, <1>6
  DEF Next, ControlStep, CaptureStep, ConsumerStep, vars, Reconfigure,
      PipelineStart, PipelineStartFails, SinkStart, SinkStartFails,
      RequestStop, SinkStopped, KillConsumer, StopTimer, FlushFrame,
      TimerTick, GrabFails, SendFull, Evict, ReleaseDiscard, AdjustQuality,
      ConsumerBoot, ConsumerLoop, DrainFrame, Drained, Deliver, ReleaseFrame,
      BatchDone

\* OrderInv holds initially: nothing is on its way.
LEMMA OrderInit == Init => OrderInv
<1> SUFFICES ASSUME Init PROVE OrderInv
  OBVIOUS
<1>1. Way = <<>>
  <2>1. <<>> \o <<>> = <<>>
    BY EmptySeq, ConcatEmptySeq
  <2> QED
    BY <2>1 DEF Init, Way, Unsent
<1>2. Youngest = 0 /\ lastSent = 0 /\ inHand = NoFrame
  BY DEF Init, Youngest, Fresh
<1>3. Len(Way) = 0
  BY <1>1
<1> QED
  BY <1>2, <1>3 DEF OrderInv, Rising

\* Every step keeps it.
LEMMA OrderNext ==
  ASSUME Inv, Inv', OrderInv, [Next]_vars
  PROVE  OrderInv'
<1>1. Moves
  BY StepMoves DEF Inv
<1>2. Rising(Way, lastSent, Youngest)' /\ (lastSent <= Youngest)'
  BY <1>1, MovesKeepRising DEF Inv
<1>3. (inHand # NoFrame => inHand.ts = clock)'
  BY HandNext DEF Inv
<1> QED
  BY <1>2, <1>3 DEF OrderInv

-----------------------------------------------------------------------------
(***************************************************************************)
(* The refinement.                                                         *)
(***************************************************************************)

\* Losing the head is losing the front part of length one.
LEMMA TailIsPart ==
  ASSUME NEW S, NEW s \in Seq(S), s # <<>>
  PROVE  /\ Tail(s) = SubSeq(s, 2, Len(s)) /\ 1 \in 1..Len(s)
<1> DEFINE t == SubSeq(s, 2, Len(s))
<1>1. /\ Tail(s) \in Seq(S) /\ Len(Tail(s)) = Len(s) - 1
      /\ \A i \in 1..(Len(s) - 1) : Tail(s)[i] = s[i + 1]
      /\ Len(s) \in Nat /\ Len(s) >= 1
  BY HeadTailProperties, LenProperties, EmptySeq
<1>2. \A i \in 2..Len(s) : s[i] \in S
  BY <1>1, ElementOfSeq
<1>3. /\ t \in Seq(S)
      /\ Len(t) = IF 2 <= Len(s) THEN Len(s) - 2 + 1 ELSE 0
      /\ \A i \in 1..(Len(s) - 2 + 1) : t[i] = s[2 + i - 1]
  BY <1>1, <1>2, SubSeqProperties
<1> HIDE DEF t
<1>4. Len(t) = Len(s) - 1
  <2>1. CASE 2 <= Len(s)
    BY <1>1, <1>3, <2>1
  <2>2. CASE ~(2 <= Len(s))
    <3>1. Len(s) = 1
      BY <1>1, <2>2
    <3>2. Len(t) = 0
      BY <1>3, <2>2
    <3> QED
      BY <3>1, <3>2
  <2> QED
    BY <2>1, <2>2
<1>5. ASSUME NEW i \in 1..(Len(s) - 1)
      PROVE  Tail(s)[i] = t[i]
  <2>1. i \in 1..(Len(s) - 2 + 1) /\ 2 + i - 1 = i + 1
    BY <1>1
  <2> QED
    BY <1>1, <1>3, <2>1
<1>6. Tail(s) = t
  <2> DEFINE u == Tail(s)
  <2>1. u \in Seq(S) /\ Len(u) = Len(t) /\ \A i \in 1..Len(u) : u[i] = t[i]
    BY <1>1, <1>4, <1>5
  <2> HIDE DEF u
  <2>2. u = t
    BY <1>3, <2>1, SeqEqual
  <2> QED
    BY <2>2 DEF u
<1> QED
  BY <1>1, <1>6 DEF t

\* The pipeline starts as an empty stream.
LEMMA StreamInit == Init => Stream!Init
<1> SUFFICES ASSUME Init PROVE Stream!Init
  OBVIOUS
<1>1. Unsent \o queue = <<>> /\ lastSent = 0
  <2>1. <<>> \o <<>> = <<>>
    BY EmptySeq, ConcatEmptySeq
  <2> QED
    BY <2>1 DEF Init, Unsent
<1>2. Stamps(Way) = <<>>
  <2>1. Way \in Seq(Frames) /\ Len(Way) = 0
    BY <1>1, EmptySeq DEF Way
  <2>2. Stamps(Way) \in Seq(Int) /\ Len(Stamps(Way)) = 0
    BY <2>1, StampsFollow
  <2> QED
    BY <2>2, EmptySeq
<1> QED
  BY <1>1, <1>2 DEF Stream!Init, Stamps, Way

\* Every move is a step of the stream, or none of it.
LEMMA MovesRefine ==
  ASSUME Inv, OrderInv, Moves
  PROVE  Stream!Next \/ (Stamps(Way)' = Stamps(Way) /\ lastSent' = lastSent)
<1>1. /\ Way \in Seq(Frames) /\ lastSent \in Int /\ Youngest \in Int
      /\ clock \in Int /\ Rising(Way, lastSent, Youngest)
      /\ lastSent <= Youngest
  BY WayTypes DEF Inv, OrderInv
<1>2. /\ Stamps(Way) \in Seq(Int) /\ Len(Stamps(Way)) = Len(Way)
      /\ \A i \in 1..Len(Way) : Stamps(Way)[i] = Way[i].ts
      /\ DOMAIN Stamps(Way) = 1..Len(Way)
  BY <1>1, StampsFollow
<1>3. CASE Stays
  BY <1>3 DEF Stays, Stamps
<1>4. CASE Enters
  <2>1. /\ inHand \in Frames /\ Way' = Append(Way, inHand)
        /\ lastSent' = lastSent /\ inHand.ts = clock /\ Youngest = clock - 1
    BY <1>4 DEF Enters
  <2>2. clock \in 1..MaxFrames
    BY <2>1 DEF Frames
  <2>3. Stamps(Way') = Append(Stamps(Way), clock)
    BY <1>1, <2>1, StampsMove
  <2>4. clock > lastSent
    BY <1>1, <2>1
  <2>5. \A i \in DOMAIN Stamps(Way) : clock > Stamps(Way)[i]
    <3> SUFFICES ASSUME NEW i \in 1..Len(Way)
                 PROVE  clock > Stamps(Way)[i]
      BY <1>2
    <3>1. Way[i].ts <= Youngest
      BY <1>1 DEF Rising
    <3>2. Stamps(Way)[i] \in Int /\ Stamps(Way)[i] = Way[i].ts
      BY <1>2, ElementOfSeq
    <3> QED
      BY <1>1, <2>1, <3>1, <3>2
  <2>6. PICK t \in 1..MaxFrames : t = clock
    BY <2>2
  <2>7. Stream!Accept(t)
    BY <2>1, <2>3, <2>4, <2>5, <2>6 DEF Stream!Accept, Stamps, Way
  <2> QED
    BY <2>7 DEF Stream!Next
<1>5. CASE Leaves
  <2>1. Way # <<>> /\ Way' = Tail(Way)
    BY <1>5 DEF Leaves
  <2>2. PICK f \in Frames : f = Head(Way)
    BY <1>1, <2>1, HeadTailProperties
  <2>3. /\ Stamps(Way) # <<>> /\ Head(Stamps(Way)) = Head(Way).ts
        /\ Stamps(Way') = Tail(Stamps(Way))
    BY <1>1, <2>1, <2>2, StampsMove
  <2>4. CASE lastSent' = Head(Way).ts
    <3>1. Stream!Deliver
      BY <2>3, <2>4 DEF Stream!Deliver, Stamps, Way
    <3> QED
      BY <3>1 DEF Stream!Next
  <2>5. CASE lastSent' = lastSent
    <3>1. /\ Stamps(Way') = SubSeq(Stamps(Way), 1 + 1, Len(Stamps(Way)))
          /\ 1 \in DOMAIN Stamps(Way)
      BY <1>2, <2>3, TailIsPart
    <3>2. Stream!DropBatch
      BY <2>5, <3>1 DEF Stream!DropBatch, Stamps, Way
    <3> QED
      BY <3>2 DEF Stream!Next
  <2> QED
    BY <1>5, <2>4, <2>5 DEF Leaves
<1>6. CASE Lost1
  <2>1. PICK n \in 1..Len(Way) : Way' = Stream!RemoveAt(Way, n)
    BY <1>6 DEF Lost1
  <2>2. PICK f \in Frames : f = Way[n]
    BY <1>1, ElementOfSeq
  <2>3. /\ Stamps(Way') = Stream!RemoveAt(Stamps(Way), n)
        /\ n \in DOMAIN Stamps(Way)
    BY <1>1, <1>2, <2>1, <2>2, StampsMove
  <2>4. Stream!Drop
    BY <1>6, <2>3 DEF Lost1, Stream!Drop, Stamps, Way
  <2> QED
    BY <2>4 DEF Stream!Next
<1>7. CASE LostBatch
  <2>1. PICK n \in 1..Len(Way) : Way' = SubSeq(Way, n + 1, Len(Way))
    BY <1>7 DEF LostBatch
  <2>2. PICK f \in Frames : f = Way[n]
    BY <1>1, ElementOfSeq
  <2>3. /\ Stamps(Way') = SubSeq(Stamps(Way), n + 1, Len(Stamps(Way)))
        /\ n \in DOMAIN Stamps(Way)
    BY <1>1, <1>2, <2>1, <2>2, StampsMove
  <2>4. Stream!DropBatch
    BY <1>7, <2>3 DEF LostBatch, Stream!DropBatch, Stamps, Way
  <2> QED
    BY <2>4 DEF Stream!Next
<1>8. CASE Ends
  <2>1. Way = <<>> /\ Way' = <<>> /\ lastSent' = 0
    BY <1>8 DEF Ends
  <2>2. Stamps(Way) = <<>> /\ Stamps(Way') = Stamps(Way)
    BY <1>2, <2>1, EmptySeq
  <2>3. Stream!EndSession
    BY <2>1, <2>2 DEF Stream!EndSession, Stamps, Way
  <2> QED
    BY <2>3 DEF Stream!Next
<1> QED
  BY <1>3, <1>4, <1>5, <1>6, <1>7, <1>8 DEF Moves

-----------------------------------------------------------------------------

\* The frames of a session reach the sink in the order they were captured,
\* each at most once, and none of an earlier session, for any number of
\* buffers and any queue length.
THEOREM StreamIsImplemented == Spec => ImplementsFrameStream
<1>1. Init => Stream!Init
  BY StreamInit
<1>2. ASSUME Inv, Inv', OrderInv, [Next]_vars
      PROVE  /\ OrderInv'
             /\ [Stream!Next]_<<[i \in 1..Len(Unsent \o queue) |->
                                   (Unsent \o queue)[i].ts], lastSent>>
  <2>1. Stream!Next \/ (Stamps(Way)' = Stamps(Way) /\ lastSent' = lastSent)
    BY <1>2, StepMoves, MovesRefine DEF Inv
  <2>2. OrderInv'
    BY <1>2, OrderNext
  <2> QED
    BY <2>1, <2>2 DEF Stamps, Way
<1> QED
  BY <1>1, <1>2, InvCorrect, OrderInit, PTL
  DEF Spec, ImplementsFrameStream, Stream!Spec
=============================================================================
