-------------------------- MODULE ImuPipelineProofs --------------------------
(***************************************************************************)
(* For any clock width, queue, batch and number of streams: samples stay   *)
(* in order, losses are counted, the host's times are right, and so is     *)
(* what a calibration reports.                                             *)
(***************************************************************************)
EXTENDS ImuPipeline, SequenceTheorems, TLAPS

(***************************************************************************)
(* Types, and what the places of the three tasks say of each other.        *)
(***************************************************************************)
Calibrating ==
  {"before", "foc", "nvm", "configure", "reconfigure", "after", "unsaved"}

CaptureTypes ==
  /\ sample \in Times \cup {None} /\ notified \in BOOLEAN
  /\ capture \in {"none", "wait", "want", "read", "send", "evict", "resend"}
  /\ queue \in Seq(Times) /\ Len(queue) <= QueueLen
  /\ overflow \in Nat /\ taken \in Nat

ConsumerTypes ==
  /\ consumer \in {"none", "sleep", "drain", "want", "read", "stamp", "send"}
  /\ batch \in Seq(Times) /\ Len(batch) <= Batch
  /\ ref \in Times \cup {None} /\ us \in Times /\ delivered \in Seq(Times)

ControlTypes ==
  /\ timer \in BOOLEAN /\ stop \in BOOLEAN /\ sink \in {"net", "sd"}
  /\ control \in {"idle", "imu", "run", "waiting", "sinkless", "flush"}
                   \cup Calibrating
  /\ session \in 0..MaxSessions

ChipTypes ==
  /\ now \in Times /\ bus \in {"free", "capture", "consumer", "lost"}
  /\ chip \in {"on", "reset"} /\ active \in 0..MaxSessions
  /\ nvm \in 0..MaxSessions
  /\ report \in {"none", "OK", "INVALID_STATE", "FAIL"}

\* The capture task has a sample from the read to the end of its send; the
\* consumer has a batch, and a reference, only while it works; tasks and queue
\* are gone when no stream is on.
HandInv == capture \in {"send", "evict", "resend"} <=> sample # None
BatchInv ==
  /\ consumer \in {"none", "sleep"} => batch = <<>>
  /\ consumer \in {"none", "sleep", "drain", "want", "read"} => ref = None
TaskInv ==
  /\ capture # "none" => control \in {"imu", "run", "waiting", "sinkless"}
  /\ consumer # "none" => control \in {"run", "waiting"}
  /\ control \in {"idle"} \cup Calibrating =>
       queue = <<>> /\ delivered = <<>> /\ taken = 0

TypeInv ==
  /\ CaptureTypes /\ ConsumerTypes /\ ControlTypes /\ ChipTypes
  /\ HandInv /\ BatchInv /\ TaskInv

\* The time goes on.
LEMMA TickKeepsTypes ==
  ASSUME ImuAssumption, TypeInv, Tick
  PROVE  TypeInv'
BY DEF ImuAssumption, TypeInv, Tick, Times, CaptureTypes, ConsumerTypes,
   ControlTypes, ChipTypes, HandInv, BatchInv, TaskInv, consumerVars,
   controlVars, chipVars

\* A step of the capture task.
LEMMA CaptureKeepsTypes ==
  ASSUME ImuAssumption, TypeInv, CaptureStep
  PROVE  TypeInv'
<1> USE DEF ImuAssumption, TypeInv
<1>1. CaptureTypes' /\ HandInv'
  <2>1. CASE Wake \/ BeginRead
    BY <2>1 DEF Wake, BeginRead, CaptureTypes, HandInv
  <2>2. ASSUME NEW ok \in BOOLEAN, EndRead(ok)
        PROVE  CaptureTypes' /\ HandInv'
    BY <2>2 DEF EndRead, CaptureTypes, HandInv, ChipTypes, Times, None
  <2>3. CASE Send
    <3>1. sample \in Times
      BY <2>3 DEF Send, HandInv, CaptureTypes
    <3>2. /\ Append(queue, sample) \in Seq(Times)
          /\ Len(Append(queue, sample)) = Len(queue) + 1
          /\ Len(queue) \in Nat
      BY <3>1, AppendProperties, LenProperties DEF CaptureTypes
    <3> QED
      BY <2>3, <3>1, <3>2 DEF Send, Full, CaptureTypes, HandInv
  <2>4. CASE Evict
    <3>1. queue # <<>> => /\ Tail(queue) \in Seq(Times)
                          /\ Len(Tail(queue)) = Len(queue) - 1
      BY HeadTailProperties DEF CaptureTypes
    <3>2. Len(queue) \in Nat
      BY LenProperties DEF CaptureTypes
    <3> QED
      BY <2>4, <3>1, <3>2 DEF Evict, CaptureTypes, HandInv
  <2>5. CASE Resend
    <3>1. sample \in Times
      BY <2>5 DEF Resend, HandInv, CaptureTypes
    <3>2. /\ Append(queue, sample) \in Seq(Times)
          /\ Len(Append(queue, sample)) = Len(queue) + 1
          /\ Len(queue) \in Nat
      BY <3>1, AppendProperties, LenProperties DEF CaptureTypes
    <3> QED
      BY <2>5, <3>1, <3>2 DEF Resend, Full, CaptureTypes, HandInv
  <2> QED
    BY <2>1, <2>2, <2>3, <2>4, <2>5 DEF CaptureStep
<1>2. UNCHANGED <<now, consumerVars, controlVars, chipVars>>
  BY DEF CaptureStep, Wake, BeginRead, EndRead, Send, Evict, Resend
<1>3. bus' \in {"free", "capture", bus} /\ capture # "none"
      /\ (control \in {"idle"} \cup Calibrating => UNCHANGED <<queue, taken>>)
  BY DEF CaptureStep, Wake, BeginRead, EndRead, Send, Evict, Resend, TaskInv,
     Calibrating
<1> QED
  BY <1>1, <1>2, <1>3 DEF consumerVars, controlVars, chipVars, ConsumerTypes,
     ControlTypes, ChipTypes, BatchInv, TaskInv

\* A step of the consumer.
LEMMA ConsumerKeepsTypes ==
  ASSUME ImuAssumption, TypeInv, ConsumerStep
  PROVE  TypeInv'
<1> USE DEF ImuAssumption, TypeInv
<1>1. ConsumerTypes' /\ BatchInv'
  <2>1. CASE ConsumerWakes \/ BeginRef \/ \E ok \in BOOLEAN : EndRef(ok)
    BY <2>1 DEF ConsumerWakes, BeginRef, EndRef, ConsumerTypes, BatchInv,
       ChipTypes
  <2>2. CASE Drain
    <3>1. queue # <<>> => /\ Head(queue) \in Times
                          /\ Append(batch, Head(queue)) \in Seq(Times)
                          /\ Len(Append(batch, Head(queue))) = Len(batch) + 1
      BY HeadTailProperties, AppendProperties DEF CaptureTypes, ConsumerTypes
    <3>2. Len(batch) \in Nat
      BY LenProperties DEF ConsumerTypes
    <3> QED
      <4>1. CASE Len(batch) < Batch /\ queue # <<>>
        <5>1. /\ batch' = Append(batch, Head(queue))
              /\ UNCHANGED <<consumer, ref, us, delivered>> /\ consumer = "drain"
          BY <2>2, <4>1 DEF Drain
        <5>2. Len(batch') <= Batch
          BY <3>1, <3>2, <4>1, <5>1
        <5> QED
          BY <3>1, <4>1, <5>1, <5>2 DEF ConsumerTypes, BatchInv
      <4>2. CASE ~(Len(batch) < Batch /\ queue # <<>>)
        BY <2>2, <4>2 DEF Drain, ConsumerTypes, BatchInv
      <4> QED
        BY <4>1, <4>2
  <2>3. CASE Stamp
    <3>1. CASE batch = <<>>
      BY <2>3, <3>1 DEF Stamp, ConsumerTypes, BatchInv
    <3>2. CASE batch # <<>>
      BY <2>3, <3>2 DEF Stamp, ConsumerTypes, BatchInv, ChipTypes
    <3> QED
      BY <3>1, <3>2
  <2>4. CASE Deliver
    <3>1. delivered \o batch \in Seq(Times)
      BY ConcatProperties DEF ConsumerTypes
    <3>2. <<>> \in Seq(Times) /\ Len(<<>>) = 0 /\ 0 \in Times
      BY EmptySeq DEF Times
    <3> QED
      BY <2>4, <3>1, <3>2 DEF Deliver, ConsumerTypes, BatchInv
  <2> QED
    BY <2>1, <2>2, <2>3, <2>4 DEF ConsumerStep
<1>2. CaptureTypes' /\ HandInv'
  <2>1. UNCHANGED captureVars
        \/ (Drain /\ queue # <<>> /\ queue' = Tail(queue)
            /\ UNCHANGED <<notified, capture, sample, overflow, taken>>)
    BY DEF ConsumerStep, ConsumerWakes, Drain, BeginRef, EndRef, Stamp,
       Deliver, consumerFrame, captureVars
  <2>2. queue # <<>> => /\ Tail(queue) \in Seq(Times)
                        /\ Len(Tail(queue)) = Len(queue) - 1
                        /\ Len(queue) \in Nat
    BY HeadTailProperties, LenProperties DEF CaptureTypes
  <2> QED
    BY <2>1, <2>2 DEF captureVars, CaptureTypes, HandInv
<1>3. /\ UNCHANGED <<now, controlVars, chipVars, capture, taken>>
      /\ bus' \in {"free", "consumer", bus} /\ consumer # "none"
  BY DEF ConsumerStep, ConsumerWakes, Drain, BeginRef, EndRef, Stamp, Deliver,
     consumerFrame, captureVars
<1>4. control \in {"run", "waiting"} /\ control' = control
  BY <1>3 DEF TaskInv, controlVars
<1>5. TaskInv'
  BY <1>3, <1>4 DEF TaskInv, Calibrating
<1> QED
  BY <1>1, <1>2, <1>3, <1>5 DEF controlVars, chipVars, ControlTypes, ChipTypes

\* A step of the state-machine task: a stream.
StreamStep ==
  \/ \E ok \in BOOLEAN : StartImu(ok)
  \/ \E s \in {"net", "sd"}, ok \in BOOLEAN : StartSink(s, ok)
  \/ StopSink \/ SinkGone \/ StopTimer \/ DeleteCapture \/ DeleteQueue

\* It keeps types and tasks, ...
LEMMA StreamKeepsTypes ==
  ASSUME ImuAssumption, TypeInv, StreamStep
  PROVE  TypeInv'
<1> USE DEF ImuAssumption, TypeInv
<1>1. <<>> \in Seq(Times) /\ Len(<<>>) = 0 /\ 0 \in Times
  BY EmptySeq DEF Times
<1>2. ChipTypes' /\ ControlTypes'
  <2>1. UNCHANGED <<now, chipVars>> /\ bus' \in {bus, "lost"}
    BY DEF StreamStep, StartImu, StartSink, StopSink, SinkGone, StopTimer,
       DeleteCapture, DeleteQueue
  <2>2. /\ timer' \in BOOLEAN /\ stop' \in BOOLEAN
        /\ sink' \in {sink, "net", "sd"}
        /\ control' \in {control, "idle", "imu", "run", "waiting", "sinkless",
                         "flush"}
        /\ \/ session' = session
           \/ session < MaxSessions /\ session' = session + 1
    <3>1. CASE \E ok \in BOOLEAN : StartImu(ok)
      BY <3>1 DEF StartImu, ControlTypes
    <3>2. CASE \E s \in {"net", "sd"}, ok \in BOOLEAN : StartSink(s, ok)
      BY <3>2 DEF StartSink, ControlTypes
    <3>3. CASE StopSink \/ SinkGone \/ StopTimer \/ DeleteCapture \/ DeleteQueue
      BY <3>3 DEF StopSink, SinkGone, StopTimer, DeleteCapture, DeleteQueue,
         ControlTypes
    <3> QED
      BY <3>1, <3>2, <3>3 DEF StreamStep
  <2>3. session + 1 \in 0..MaxSessions \/ ~(session < MaxSessions)
    BY DEF ControlTypes
  <2>4. ControlTypes'
    BY <2>2, <2>3 DEF ControlTypes
  <2> QED
    BY <2>1, <2>4 DEF ChipTypes, chipVars
<1>3. CASE \E ok \in BOOLEAN : StartImu(ok)
  BY <1>2, <1>3 DEF StartImu, CaptureTypes, ConsumerTypes, HandInv, BatchInv,
     TaskInv, consumerVars, Calibrating
<1>4. CASE \E s \in {"net", "sd"}, ok \in BOOLEAN : StartSink(s, ok)
  BY <1>2, <1>4 DEF StartSink, CaptureTypes, ConsumerTypes, HandInv, BatchInv,
     TaskInv, captureVars, Calibrating
<1>5. CASE StopSink
  <2>1. CASE sink = "sd"
    BY <1>1, <1>2, <1>5, <2>1 DEF StopSink, CaptureTypes, ConsumerTypes,
       HandInv, BatchInv, TaskInv, captureVars, Calibrating
  <2>2. CASE sink # "sd"
    BY <1>2, <1>5, <2>2 DEF StopSink, CaptureTypes, ConsumerTypes, HandInv,
       BatchInv, TaskInv, captureVars, Calibrating
  <2> QED
    BY <2>1, <2>2
<1>6. CASE SinkGone \/ StopTimer
  BY <1>2, <1>6 DEF SinkGone, StopTimer, CaptureTypes, ConsumerTypes, HandInv,
     BatchInv, TaskInv, captureVars, consumerVars, Calibrating
<1>7. CASE DeleteCapture
  BY <1>2, <1>7 DEF DeleteCapture, CaptureTypes, ConsumerTypes, HandInv,
     BatchInv, TaskInv, consumerVars, Calibrating
<1>8. CASE DeleteQueue
  BY <1>1, <1>2, <1>8 DEF DeleteQueue, CaptureTypes, ConsumerTypes, HandInv,
     BatchInv, TaskInv, Calibrating
<1> QED
  BY <1>3, <1>4, <1>5, <1>6, <1>7, <1>8 DEF StreamStep

\* A calibration stage leaves the stream's variables alone.
LEMMA CalibrationFrame ==
  ASSUME CalibrationStep
  PROVE  /\ UNCHANGED <<now, bus, captureVars, consumerVars, timer, stop, sink>>
         /\ control \in {"idle"} \cup Calibrating
         /\ control' \in {"idle"} \cup Calibrating
BY DEF CalibrationStep, Calibrate, Stationary, Foc, NvmProg, Configure, Return,
   calibrationFrame, Calibrating

\* ... so does a step of a calibration, ...
LEMMA CalibrationKeepsTypes ==
  ASSUME ImuAssumption, TypeInv, CalibrationStep
  PROVE  TypeInv'
<1> USE DEF ImuAssumption, TypeInv
<1>1. ChipTypes' /\ session' \in 0..MaxSessions
  BY DEF CalibrationStep, Calibrate, Stationary, Foc, NvmProg, Configure,
     Return, calibrationFrame, ChipTypes, ControlTypes
<1>2. CaptureTypes' /\ HandInv'
  BY CalibrationFrame DEF captureVars, CaptureTypes, HandInv
<1>3. ConsumerTypes' /\ BatchInv'
  BY CalibrationFrame DEF consumerVars, ConsumerTypes, BatchInv
<1>4. ControlTypes'
  BY <1>1, CalibrationFrame DEF ControlTypes
<1>5. TaskInv'
  BY CalibrationFrame DEF captureVars, consumerVars, TaskInv, Calibrating
<1> QED
  BY <1>1, <1>2, <1>3, <1>4, <1>5

\* Every reachable state is well typed.
LEMMA TypesKept ==
  ASSUME ImuAssumption, TypeInv, [Next]_vars
  PROVE  TypeInv'
<1>1. CASE UNCHANGED vars
  BY <1>1 DEF vars, TypeInv, captureVars, consumerVars, controlVars, chipVars,
     CaptureTypes, ConsumerTypes, ControlTypes, ChipTypes, HandInv, BatchInv,
     TaskInv
<1>2. CASE ControlStep
  BY <1>2, StreamKeepsTypes, CalibrationKeepsTypes DEF ControlStep, StreamStep
<1> QED
  BY <1>1, <1>2, TickKeepsTypes, CaptureKeepsTypes, ConsumerKeepsTypes DEF Next

\* ... and they hold in the beginning.
LEMMA TypesAtFirst ==
  ASSUME ImuAssumption, Init
  PROVE  TypeInv
<1>1. /\ <<>> \in Seq(Times) /\ Len(<<>>) = 0 /\ 0 \in Times
      /\ 0 \in 0..MaxSessions /\ 0 <= QueueLen /\ 0 <= Batch
  BY EmptySeq DEF ImuAssumption, Times
<1>2. CaptureTypes /\ ConsumerTypes
  BY <1>1 DEF Init, CaptureTypes, ConsumerTypes
<1>3. ControlTypes /\ ChipTypes
  BY <1>1 DEF Init, ControlTypes, ChipTypes
<1>4. HandInv /\ BatchInv /\ TaskInv
  BY DEF Init, HandInv, BatchInv, TaskInv
<1> QED
  BY <1>2, <1>3, <1>4 DEF TypeInv

\* imu_queue, batches and times of the IMU pipeline stay within their ranges,
\* whatever is deleted or fails.
THEOREM TypesCorrect == Spec => []TypeOK
<1>1. Init => TypeInv
  BY ImuAssumption, TypesAtFirst
<1>2. TypeInv /\ [Next]_vars => TypeInv'
  BY ImuAssumption, TypesKept
<1>3. TypeInv => TypeOK
  BY DEF TypeInv, TypeOK, CaptureTypes, ConsumerTypes, ControlTypes, ChipTypes,
     Calibrating
<1> QED
  BY <1>1, <1>2, <1>3, PTL DEF Spec

(***************************************************************************)
(* Order.  Before(s, t): nothing in s is newer than anything in t.         *)
(***************************************************************************)
Before(s, t) == \A i \in 1..Len(s), j \in 1..Len(t) : s[i] <= t[j]
UpTo(s, x) == \A i \in 1..Len(s) : s[i] <= x

\* What follows for the empty sequence.
LEMMA OrderOfEmpty ==
  ASSUME NEW s, NEW x
  PROVE  Sorted(<<>>) /\ Before(<<>>, s) /\ Before(s, <<>>) /\ UpTo(<<>>, x)
BY EmptySeq DEF Sorted, Before, UpTo

\* Appending what is newest keeps the order.
LEMMA OrderOfAppend ==
  ASSUME NEW s \in Seq(Times), NEW x \in Times
  PROVE  /\ Sorted(s) /\ UpTo(s, x) => Sorted(Append(s, x))
         /\ \A t \in Seq(Times) :
              /\ Before(t, s) /\ UpTo(t, x) => Before(t, Append(s, x))
              /\ Before(s, t) /\ (\A j \in 1..Len(t) : x <= t[j])
                   => Before(Append(s, x), t)
         /\ \A y \in Times : UpTo(s, y) /\ x <= y => UpTo(Append(s, x), y)
<1> DEFINE a == Append(s, x)
<1>1. /\ Len(a) = Len(s) + 1 /\ Len(s) \in Nat
      /\ \A i \in 1..Len(s) : a[i] = s[i] /\ s[i] \in Times
      /\ a[Len(s) + 1] = x
  BY AppendProperties, LenProperties, ElementOfSeq
<1>2. \A i \in 1..Len(a) : \/ i \in 1..Len(s) /\ a[i] = s[i]
                           \/ i = Len(s) + 1 /\ a[i] = x
  BY <1>1
<1>3. ASSUME Sorted(s), UpTo(s, x)
      PROVE  Sorted(a)
  BY <1>1, <1>2, <1>3 DEF Sorted, UpTo, Times
<1>4. ASSUME NEW t \in Seq(Times), Before(t, s), UpTo(t, x)
      PROVE  Before(t, a)
  BY <1>2, <1>4 DEF Before, UpTo
<1>5. ASSUME NEW t \in Seq(Times), Before(s, t), \A j \in 1..Len(t) : x <= t[j]
      PROVE  Before(a, t)
  BY <1>2, <1>5 DEF Before
<1>6. ASSUME NEW y \in Times, UpTo(s, y), x <= y
      PROVE  UpTo(a, y)
  BY <1>2, <1>6 DEF UpTo
<1> QED
  BY <1>3, <1>4, <1>5, <1>6

\* So does taking the oldest away.
LEMMA OrderOfTail ==
  ASSUME NEW s \in Seq(Times), s # <<>>
  PROVE  /\ Tail(s) \in Seq(Times) /\ Head(s) \in Times
         /\ Sorted(s) => /\ Sorted(Tail(s))
                         /\ \A j \in 1..Len(Tail(s)) : Head(s) <= Tail(s)[j]
         /\ \A t \in Seq(Times) : Before(t, s) => /\ Before(t, Tail(s))
                                                  /\ UpTo(t, Head(s))
         /\ \A y \in Times : UpTo(s, y) => UpTo(Tail(s), y) /\ Head(s) <= y
<1> DEFINE r == Tail(s)
<1>1. /\ r \in Seq(Times) /\ Len(r) = Len(s) - 1 /\ Len(s) \in Nat
      /\ Head(s) = s[1] /\ Len(s) >= 1 /\ Head(s) \in Times
      /\ \A j \in 1..Len(r) : r[j] = s[j + 1]
  <2>1. /\ r \in Seq(Times) /\ Len(r) = Len(s) - 1 /\ Head(s) \in Times
        /\ \A j \in 1..Len(r) : r[j] = s[j + 1]
    BY HeadTailProperties
  <2>2. Len(s) \in Nat /\ Len(r) \in Nat
    BY <2>1, LenProperties
  <2>3. Head(s) = s[1]
    BY HeadTailProperties
  <2> QED
    BY <2>1, <2>2, <2>3
<1>2. \A j \in 1..Len(r) : j + 1 \in 1..Len(s) /\ 1 < j + 1
  BY <1>1
<1>3. 1 \in 1..Len(s)
  BY <1>1
<1>4. ASSUME Sorted(s)
      PROVE  Sorted(r) /\ \A j \in 1..Len(r) : Head(s) <= r[j]
  BY <1>1, <1>2, <1>3, <1>4 DEF Sorted
<1>5. ASSUME NEW t \in Seq(Times), Before(t, s)
      PROVE  Before(t, r) /\ UpTo(t, Head(s))
  BY <1>1, <1>2, <1>3, <1>5 DEF Before, UpTo
<1>6. ASSUME NEW y \in Times, UpTo(s, y)
      PROVE  UpTo(r, y) /\ Head(s) <= y
  BY <1>1, <1>2, <1>3, <1>6 DEF UpTo
<1> QED
  BY <1>1, <1>4, <1>5, <1>6

\* And so does joining two sequences.
LEMMA OrderOfConcat ==
  ASSUME NEW s \in Seq(Times), NEW t \in Seq(Times)
  PROVE  /\ s \o t \in Seq(Times)
         /\ Sorted(s) /\ Sorted(t) /\ Before(s, t) => Sorted(s \o t)
         /\ \A u \in Seq(Times) :
              Before(s, u) /\ Before(t, u) => Before(s \o t, u)
         /\ \A y \in Times : UpTo(s, y) /\ UpTo(t, y) => UpTo(s \o t, y)
<1> DEFINE c == s \o t
<1>1. /\ c \in Seq(Times) /\ Len(c) = Len(s) + Len(t)
      /\ \A i \in 1..(Len(s) + Len(t)) :
           c[i] = IF i <= Len(s) THEN s[i] ELSE t[i - Len(s)]
  BY ConcatProperties
<1>2. Len(s) \in Nat /\ Len(t) \in Nat
  BY LenProperties
<1>3. \A i \in 1..Len(c) :
        \/ i \in 1..Len(s) /\ c[i] = s[i]
        \/ i - Len(s) \in 1..Len(t) /\ c[i] = t[i - Len(s)]
  BY <1>1, <1>2
<1>4. \A i, j \in 1..Len(c) : i < j /\ i \notin 1..Len(s) => j \notin 1..Len(s)
  BY <1>1, <1>2
<1>5. ASSUME Sorted(s), Sorted(t), Before(s, t),
             NEW i \in 1..Len(c), NEW j \in 1..Len(c), i < j
      PROVE  c[i] <= c[j]
  <2>1. CASE j \in 1..Len(s) /\ c[j] = s[j]
    <3>1. i \in 1..Len(s) /\ c[i] = s[i]
      BY <1>1, <1>2, <1>5, <2>1
    <3> QED
      BY <1>5, <2>1, <3>1 DEF Sorted
  <2>2. CASE j - Len(s) \in 1..Len(t) /\ c[j] = t[j - Len(s)]
    <3>1. CASE i \in 1..Len(s) /\ c[i] = s[i]
      BY <1>5, <2>2, <3>1 DEF Before
    <3>2. CASE i - Len(s) \in 1..Len(t) /\ c[i] = t[i - Len(s)]
      <4>1. i - Len(s) < j - Len(s)
        BY <1>1, <1>2, <1>5
      <4> QED
        BY <1>5, <2>2, <3>2, <4>1 DEF Sorted
    <3> QED
      BY <1>3, <3>1, <3>2
  <2> QED
    BY <1>3, <2>1, <2>2
<1>6. ASSUME NEW u \in Seq(Times), Before(s, u), Before(t, u)
      PROVE  Before(c, u)
  BY <1>3, <1>6 DEF Before
<1>7. ASSUME NEW y \in Times, UpTo(s, y), UpTo(t, y)
      PROVE  UpTo(c, y)
  BY <1>3, <1>7 DEF UpTo
<1>8. ASSUME Sorted(s), Sorted(t), Before(s, t)
      PROVE  Sorted(c)
  BY <1>5, <1>8 DEF Sorted
<1> QED
  BY <1>1, <1>6, <1>7, <1>8

OrderInv ==
  /\ Sorted(delivered) /\ Sorted(batch) /\ Sorted(queue)
  /\ Before(delivered, batch) /\ Before(delivered, queue)
  /\ Before(batch, queue)
  /\ UpTo(delivered, now) /\ UpTo(batch, now) /\ UpTo(queue, now)
  /\ sample # None => /\ UpTo(delivered, sample) /\ UpTo(batch, sample)
                      /\ UpTo(queue, sample) /\ sample <= now

\* Time goes on.
LEMMA TickKeepsOrder ==
  ASSUME TypeInv, OrderInv, Tick
  PROVE  OrderInv'
<1>1. UNCHANGED <<delivered, batch, queue, sample>> /\ now' = now + 1
  BY DEF Tick, consumerVars
<1>2. ASSUME NEW s \in Seq(Times), UpTo(s, now)
      PROVE  UpTo(s, now + 1)
  <2>1. \A i \in 1..Len(s) : s[i] \in Times
    BY ElementOfSeq
  <2>2. now \in Int /\ \A i \in 1..Len(s) : s[i] \in Int
    BY <2>1 DEF TypeInv, ChipTypes, Times
  <2> QED
    BY <1>2, <2>2 DEF UpTo
<1>3. sample # None => sample <= now + 1
  BY DEF OrderInv, TypeInv, CaptureTypes, ChipTypes, Times
<1> QED
  BY <1>1, <1>2, <1>3 DEF OrderInv, TypeInv, CaptureTypes, ConsumerTypes

\* The capture task: only a new sample, its send and an eviction matter.
LEMMA CaptureKeepsOrder ==
  ASSUME TypeInv, OrderInv, CaptureStep
  PROVE  OrderInv'
<1>1. UNCHANGED <<delivered, batch, now>>
  BY DEF CaptureStep, Wake, BeginRead, EndRead, Send, Evict, Resend,
     consumerVars
<1>2. /\ queue \in Seq(Times) /\ delivered \in Seq(Times)
      /\ batch \in Seq(Times) /\ now \in Times
  BY DEF TypeInv, CaptureTypes, ConsumerTypes, ChipTypes
<1>3. CASE UNCHANGED <<queue, sample>>
  BY <1>1, <1>3 DEF OrderInv
<1>4. CASE \E ok \in BOOLEAN : EndRead(ok)
  <2>1. UNCHANGED queue /\ sample' \in {sample, now}
    BY <1>4 DEF EndRead
  <2> QED
    BY <1>1, <1>2, <2>1 DEF OrderInv, Times
<1>5. CASE Send \/ Resend
  <2>1. sample \in Times /\ sample # None
    BY <1>5 DEF Send, Resend, TypeInv, HandInv, CaptureTypes
  <2>2. \/ UNCHANGED <<queue, sample>>
        \/ sample' = None /\ queue' \in {queue, Append(queue, sample)}
    BY <1>5 DEF Send, Resend
  <2>3. /\ Sorted(Append(queue, sample)) /\ UpTo(Append(queue, sample), now)
        /\ Before(delivered, Append(queue, sample))
        /\ Before(batch, Append(queue, sample))
    BY <1>2, <2>1, OrderOfAppend DEF OrderInv
  <2> QED
    BY <1>1, <2>2, <2>3 DEF OrderInv
<1>6. CASE Evict /\ queue # <<>>
  <2>1. queue' = Tail(queue) /\ UNCHANGED sample
    BY <1>6 DEF Evict
  <2>2. sample # None => sample \in Times
    BY DEF TypeInv, CaptureTypes
  <2> QED
    BY <1>1, <1>2, <1>6, <2>1, <2>2, OrderOfTail DEF OrderInv
<1>7. CASE Evict /\ queue = <<>>
  BY <1>3, <1>7 DEF Evict
<1>8. CASE Wake \/ BeginRead
  BY <1>3, <1>8 DEF Wake, BeginRead
<1> QED
  BY <1>4, <1>5, <1>6, <1>7, <1>8 DEF CaptureStep

\* The consumer: samples move from the queue to the batch, and to the sink.
LEMMA ConsumerKeepsOrder ==
  ASSUME TypeInv, OrderInv, ConsumerStep
  PROVE  OrderInv'
<1>1. /\ queue \in Seq(Times) /\ delivered \in Seq(Times)
      /\ batch \in Seq(Times) /\ now \in Times
      /\ sample # None => sample \in Times
  BY DEF TypeInv, CaptureTypes, ConsumerTypes, ChipTypes
<1>2. CASE Drain /\ queue' # queue
  <2>1. /\ queue # <<>> /\ batch' = Append(batch, Head(queue))
        /\ queue' = Tail(queue) /\ UNCHANGED <<delivered, sample, now>>
    BY <1>2 DEF Drain
  <2>2. /\ Tail(queue) \in Seq(Times) /\ Head(queue) \in Times
        /\ Sorted(Tail(queue)) /\ Before(delivered, Tail(queue))
        /\ Before(batch, Tail(queue)) /\ UpTo(Tail(queue), now)
        /\ \A j \in 1..Len(Tail(queue)) : Head(queue) <= Tail(queue)[j]
        /\ UpTo(delivered, Head(queue)) /\ UpTo(batch, Head(queue))
        /\ Head(queue) <= now
        /\ sample # None => /\ UpTo(Tail(queue), sample)
                            /\ Head(queue) <= sample
    BY <1>1, <2>1, OrderOfTail DEF OrderInv
  <2>3. Sorted(batch') /\ Before(delivered, batch') /\ UpTo(batch', now)
    BY <1>1, <2>1, <2>2, OrderOfAppend DEF OrderInv
  <2>4. Before(batch', Tail(queue))
    BY <1>1, <2>1, <2>2, OrderOfAppend DEF OrderInv
  <2>5. sample # None => UpTo(batch', sample)
    BY <1>1, <2>1, <2>2, OrderOfAppend DEF OrderInv
  <2> QED
    BY <2>1, <2>2, <2>3, <2>4, <2>5 DEF OrderInv
<1>3. CASE Deliver
  <2>1. /\ delivered' = delivered \o batch /\ batch' = <<>>
        /\ UNCHANGED <<queue, sample, now>>
    BY <1>3 DEF Deliver, consumerFrame, captureVars
  <2>2. /\ Sorted(delivered') /\ Before(delivered', queue)
        /\ UpTo(delivered', now)
        /\ sample # None => UpTo(delivered', sample)
    BY <1>1, <2>1, OrderOfConcat DEF OrderInv
  <2>3. /\ Sorted(<<>>) /\ Before(delivered', <<>>) /\ Before(<<>>, queue)
        /\ UpTo(<<>>, now) /\ UpTo(<<>>, sample)
    BY OrderOfEmpty
  <2> QED
    BY <2>1, <2>2, <2>3 DEF OrderInv
<1>4. CASE UNCHANGED <<queue, batch, delivered, sample, now>>
  BY <1>4 DEF OrderInv
<1>5. Drain => UNCHANGED <<batch, delivered, sample, now>> \/ queue' # queue
  <2>1. queue # <<>> => Len(Tail(queue)) # Len(queue)
    BY <1>1, HeadTailProperties, LenProperties
  <2> QED
    BY <2>1 DEF Drain
<1>6. ConsumerWakes \/ BeginRef \/ (\E ok \in BOOLEAN : EndRef(ok)) \/ Stamp
        => UNCHANGED <<queue, batch, delivered, sample, now>>
  BY DEF ConsumerWakes, BeginRef, EndRef, Stamp, consumerFrame, captureVars
<1> QED
  BY <1>2, <1>3, <1>4, <1>5, <1>6 DEF ConsumerStep

\* The state-machine task throws away batch, sample or queue, but moves nothing.
LEMMA ControlKeepsOrder ==
  ASSUME TypeInv, OrderInv, ControlStep
  PROVE  OrderInv'
<1>1. /\ now' = now /\ sample' \in {sample, None}
      /\ queue' \in {queue, <<>>} /\ batch' \in {batch, <<>>}
      /\ delivered' \in {delivered, <<>>}
  <2>1. CASE CalibrationStep
    BY <2>1, CalibrationFrame DEF captureVars, consumerVars
  <2>2. CASE \E ok \in BOOLEAN : StartImu(ok)
    BY <2>2 DEF StartImu, consumerVars
  <2>3. CASE \E s \in {"net", "sd"}, ok \in BOOLEAN : StartSink(s, ok)
    BY <2>3 DEF StartSink, captureVars
  <2>4. CASE StopSink \/ SinkGone \/ StopTimer
    BY <2>4 DEF StopSink, SinkGone, StopTimer, captureVars, consumerVars
  <2>5. CASE DeleteCapture \/ DeleteQueue
    BY <2>5 DEF DeleteCapture, DeleteQueue, consumerVars
  <2> QED
    BY <2>1, <2>2, <2>3, <2>4, <2>5 DEF ControlStep
<1>2. \A s : /\ Sorted(<<>>) /\ Before(<<>>, s) /\ Before(s, <<>>)
             /\ UpTo(<<>>, now) /\ UpTo(<<>>, sample)
  BY OrderOfEmpty
<1> QED
  BY <1>1, <1>2 DEF OrderInv

\* Taking, evicting, draining and sending samples keep their order.
LEMMA OrderKept ==
  ASSUME TypeInv, OrderInv, [Next]_vars
  PROVE  OrderInv'
<1>1. CASE UNCHANGED vars
  BY <1>1 DEF vars, captureVars, consumerVars, OrderInv
<1> QED
  BY <1>1, TickKeepsOrder, CaptureKeepsOrder, ConsumerKeepsOrder,
     ControlKeepsOrder DEF Next

\* The order of the parts is the order of the whole.
LEMMA OrderOfAll ==
  ASSUME TypeInv, OrderInv
  PROVE  SamplesInOrder
<1> DEFINE db == delivered \o batch
           dbq == db \o queue
<1>1. /\ queue \in Seq(Times) /\ delivered \in Seq(Times)
      /\ batch \in Seq(Times) /\ now \in Times
  BY DEF TypeInv, CaptureTypes, ConsumerTypes, ChipTypes
<1>2. db \in Seq(Times) /\ Sorted(db) /\ Before(db, queue)
  BY <1>1, OrderOfConcat DEF OrderInv
<1>3. dbq \in Seq(Times) /\ Sorted(dbq)
  BY <1>1, <1>2, OrderOfConcat DEF OrderInv
<1>4. CASE sample = None
  <2>1. Hand = <<>> /\ dbq \o <<>> = dbq
    BY <1>3, <1>4, ConcatEmptySeq DEF Hand
  <2> QED
    BY <1>3, <2>1 DEF SamplesInOrder
<1>5. CASE sample # None
  <2>1. sample \in Times
    BY <1>5 DEF TypeInv, CaptureTypes
  <2>2. UpTo(db, sample)
    BY <1>1, <1>5, <2>1, OrderOfConcat DEF OrderInv
  <2>3. UpTo(dbq, sample)
    BY <1>1, <1>2, <1>5, <2>1, <2>2, OrderOfConcat DEF OrderInv
  <2>4. Sorted(Append(dbq, sample))
    BY <1>3, <2>1, <2>3, OrderOfAppend
  <2>5. Append(dbq, sample) = dbq \o Hand
    BY <1>3, <1>5, <2>1, AppendIsConcat DEF Hand
  <2> QED
    BY <2>4, <2>5 DEF SamplesInOrder
<1> QED
  BY <1>4, <1>5

\* Samples reach the sink in the order in which they were taken.
THEOREM SamplesAreInOrder == Spec => []SamplesInOrder
<1>1. Init => TypeInv /\ OrderInv
  BY ImuAssumption, TypesAtFirst, OrderOfEmpty DEF Init, OrderInv
<1>2. TypeInv /\ OrderInv /\ [Next]_vars => (TypeInv /\ OrderInv)'
  BY ImuAssumption, TypesKept, OrderKept
<1>3. TypeInv /\ OrderInv => SamplesInOrder
  BY OrderOfAll
<1> QED
  BY <1>1, <1>2, <1>3, PTL DEF Spec

(***************************************************************************)
(* Losses.  While the eviction is in progress the queue has room: only the *)
(* capture task puts anything in.                                          *)
(***************************************************************************)
HandLen == IF sample = None THEN 0 ELSE 1
Held == Len(delivered) + Len(batch) + Len(queue) + HandLen
Evicted == IF capture = "resend" THEN 1 ELSE 0

CountInv ==
  /\ capture = "resend" => Len(queue) < QueueLen
  /\ control \in {"imu", "run"} =>
       Held <= taken /\ taken - Held <= overflow + Evicted

\* Lengths are numbers.
LEMMA Lengths ==
  ASSUME TypeInv
  PROVE  /\ Len(queue) \in Nat /\ Len(batch) \in Nat /\ Len(delivered) \in Nat
         /\ queue = <<>> => Len(queue) = 0
         /\ batch = <<>> => Len(batch) = 0
         /\ delivered = <<>> => Len(delivered) = 0
BY LenProperties, EmptySeq DEF TypeInv, CaptureTypes, ConsumerTypes

\* The capture task reads, sends, evicts and counts.
LEMMA CaptureKeepsCount ==
  ASSUME ImuAssumption, TypeInv, CountInv, CaptureStep
  PROVE  CountInv'
<1>1. UNCHANGED <<delivered, batch, control>>
  BY DEF CaptureStep, Wake, BeginRead, EndRead, Send, Evict, Resend,
     consumerVars, controlVars
<1>2. overflow \in Nat /\ taken \in Nat
  BY DEF TypeInv, CaptureTypes
<1>3. CASE Wake \/ BeginRead
  BY <1>3, <1>1 DEF Wake, BeginRead, CountInv, Held, HandLen, Evicted
<1>4. CASE \E ok \in BOOLEAN : EndRead(ok)
  <2>1. sample = None /\ now # None
    BY <1>4 DEF EndRead, TypeInv, HandInv, ChipTypes, Times, None
  <2>2. /\ UNCHANGED <<queue, overflow>> /\ capture' # "resend" /\ capture = "read"
        /\ \/ UNCHANGED <<sample, taken>>
           \/ sample' = now /\ taken' = taken + 1
    BY <1>4 DEF EndRead
  <2> QED
    BY <1>1, <1>2, <2>1, <2>2, Lengths DEF CountInv, Held, HandLen, Evicted
<1>5. CASE Send
  <2>1. sample # None
    BY <1>5 DEF Send, TypeInv, HandInv
  <2>2. /\ UNCHANGED <<overflow, taken>> /\ capture' # "resend" /\ capture = "send"
        /\ \/ UNCHANGED <<queue, sample>>
           \/ sample' = None /\ queue' = Append(queue, sample)
    BY <1>5 DEF Send
  <2>3. Len(Append(queue, sample)) = Len(queue) + 1
    BY <2>1, AppendProperties DEF TypeInv, CaptureTypes
  <2> QED
    BY <1>1, <1>2, <2>1, <2>2, <2>3, Lengths
       DEF CountInv, Held, HandLen, Evicted
<1>6. CASE Evict
  <2>1. /\ UNCHANGED <<sample, overflow, taken>> /\ capture' = "resend"
        /\ capture = "evict" /\ queue' = IF queue = <<>> THEN <<>> ELSE Tail(queue)
    BY <1>6 DEF Evict
  <2>2. queue # <<>> => Len(queue') = Len(queue) - 1
    BY <2>1, HeadTailProperties DEF TypeInv, CaptureTypes
  <2>3. queue = <<>> => Len(queue') = 0 /\ Len(queue) = 0
    BY <2>1, EmptySeq
  <2>4. Len(queue) <= QueueLen /\ QueueLen \in Nat /\ QueueLen > 0
    BY DEF ImuAssumption, TypeInv, CaptureTypes
  <2>5. Len(queue') < QueueLen
    BY <2>2, <2>3, <2>4, Lengths
  <2>6. Len(queue') = Len(queue) \/ Len(queue') = Len(queue) - 1
    BY <2>2, <2>3
  <2>7. Evicted = 0 /\ Evicted' = 1
    BY <2>1 DEF Evicted
  <2>8. HandLen' = HandLen /\ HandLen \in {0, 1}
    BY <2>1 DEF HandLen
  <2>9. (Held' = Held \/ Held' = Held - 1) /\ Held \in Nat
    BY <1>1, <2>6, <2>8, Lengths DEF Held
  <2> QED
    BY <1>1, <1>2, <2>1, <2>5, <2>7, <2>9 DEF CountInv
<1>7. CASE Resend
  <2>1. sample # None /\ capture = "resend" /\ Len(queue) < QueueLen
    BY <1>7 DEF Resend, TypeInv, HandInv, CountInv
  <2>2. ~Full
    BY <2>1, Lengths DEF Full, ImuAssumption
  <2>3. /\ queue' = Append(queue, sample) /\ sample' = None /\ taken' = taken
        /\ overflow' = overflow + 1 /\ capture' = "wait"
    BY <1>7, <2>2 DEF Resend
  <2>4. Len(queue') = Len(queue) + 1
    BY <2>1, <2>3, AppendProperties DEF TypeInv, CaptureTypes
  <2> QED
    BY <1>1, <1>2, <2>1, <2>3, <2>4, Lengths
       DEF CountInv, Held, HandLen, Evicted
<1> QED
  BY <1>3, <1>4, <1>5, <1>6, <1>7 DEF CaptureStep

\* The consumer moves samples, and loses none.
LEMMA ConsumerKeepsCount ==
  ASSUME ImuAssumption, TypeInv, CountInv, ConsumerStep
  PROVE  CountInv'
<1>1. UNCHANGED <<control, capture, sample, overflow, taken>>
  BY DEF ConsumerStep, ConsumerWakes, Drain, BeginRef, EndRef, Stamp, Deliver,
     consumerFrame, captureVars, controlVars
<1>2. /\ Len(queue') <= Len(queue) /\ Len(queue') \in Nat
      /\ Len(delivered') + Len(batch') + Len(queue')
           = Len(delivered) + Len(batch) + Len(queue)
  <2>1. CASE UNCHANGED <<queue, batch, delivered>>
    BY <2>1, Lengths
  <2>2. CASE Drain /\ queue # <<>> /\ Len(batch) < Batch
    <3>1. /\ queue' = Tail(queue) /\ batch' = Append(batch, Head(queue))
          /\ UNCHANGED delivered
      BY <2>2 DEF Drain
    <3>2. Len(queue') = Len(queue) - 1 /\ Head(queue) \in Times
          /\ queue' \in Seq(Times)
      BY <2>2, <3>1, HeadTailProperties DEF TypeInv, CaptureTypes
    <3>3. Len(batch') = Len(batch) + 1
      BY <3>1, <3>2, AppendProperties DEF TypeInv, ConsumerTypes
    <3>4. Len(queue') \in Nat
      BY <3>2, LenProperties
    <3> QED
      BY <3>1, <3>2, <3>3, <3>4, Lengths
  <2>3. CASE Deliver
    <3>1. /\ delivered' = delivered \o batch /\ batch' = <<>>
          /\ UNCHANGED queue
      BY <2>3 DEF Deliver, consumerFrame, captureVars
    <3>2. Len(delivered') = Len(delivered) + Len(batch)
      BY <3>1, ConcatProperties DEF TypeInv, ConsumerTypes
    <3>3. Len(batch') = 0
      BY <3>1, EmptySeq
    <3> QED
      BY <3>1, <3>2, <3>3, Lengths
  <2>4. CASE ConsumerWakes \/ BeginRef \/ (\E ok \in BOOLEAN : EndRef(ok)) \/ Stamp
    BY <2>1, <2>4 DEF ConsumerWakes, BeginRef, EndRef, Stamp, consumerFrame,
       captureVars
  <2>5. CASE Drain /\ ~(queue # <<>> /\ Len(batch) < Batch)
    BY <2>1, <2>5 DEF Drain
  <2> QED
    BY <2>2, <2>3, <2>4, <2>5 DEF ConsumerStep
<1>3. HandLen' = HandLen /\ Evicted' = Evicted /\ HandLen \in {0, 1}
  BY <1>1 DEF HandLen, Evicted
<1>4. Held' = Held
  BY <1>2, <1>3, Lengths DEF Held
<1>5. Len(queue') < QueueLen \/ ~(Len(queue) < QueueLen)
  BY <1>2, Lengths DEF ImuAssumption
<1> QED
  BY <1>1, <1>3, <1>4, <1>5 DEF CountInv

\* The state-machine task begins a stream with nothing taken, and tears down
\* only what has left the states in which the losses are counted.
LEMMA ControlKeepsCount ==
  ASSUME TypeInv, CountInv, ControlStep
  PROVE  CountInv'
<1>1. CASE \E ok \in BOOLEAN : StartImu(ok)
  <2>1. /\ control = "idle" /\ overflow' = 0
        /\ UNCHANGED <<delivered, batch, queue, sample, taken>>
        /\ capture' \in {capture, "wait"}
    BY <1>1 DEF StartImu, consumerVars
  <2>2. queue = <<>> /\ delivered = <<>> /\ taken = 0 /\ capture = "none"
        /\ consumer = "none"
    BY <2>1 DEF TypeInv, TaskInv
  <2>3. batch = <<>> /\ sample = None
    BY <2>2 DEF TypeInv, BatchInv, HandInv
  <2>4. Held' = 0 /\ taken' = 0
    BY <2>1, <2>2, <2>3, Lengths DEF Held, HandLen
  <2>5. Evicted' = 0 /\ capture' # "resend"
    BY <2>1, <2>2 DEF Evicted
  <2> QED
    BY <2>1, <2>4, <2>5 DEF CountInv
<1>2. CASE \E s \in {"net", "sd"}, ok \in BOOLEAN : StartSink(s, ok)
  <2>1. /\ control = "imu" /\ UNCHANGED <<captureVars, batch, delivered>>
    BY <1>2 DEF StartSink
  <2> QED
    BY <2>1 DEF CountInv, Held, HandLen, Evicted, captureVars
<1>3. CASE StopSink \/ SinkGone \/ StopTimer
  <2>1. control' \notin {"imu", "run"} /\ UNCHANGED captureVars
    BY <1>3 DEF StopSink, SinkGone, StopTimer
  <2> QED
    BY <2>1 DEF CountInv, captureVars
<1>4. CASE DeleteCapture \/ DeleteQueue
  <2>1. control' \notin {"imu", "run"} /\ capture' \in {"none", capture}
    BY <1>4 DEF DeleteCapture, DeleteQueue
  <2>2. DeleteQueue => capture = "none"
    BY DEF DeleteQueue, TypeInv, TaskInv
  <2>3. DeleteCapture => capture' = "none"
    BY DEF DeleteCapture
  <2> QED
    BY <1>4, <2>1, <2>2, <2>3 DEF CountInv
<1>5. CASE CalibrationStep
  <2>1. control' \notin {"imu", "run"} /\ UNCHANGED captureVars
    BY <1>5, CalibrationFrame DEF Calibrating
  <2> QED
    BY <2>1 DEF CountInv, captureVars
<1> QED
  BY <1>1, <1>2, <1>3, <1>4, <1>5 DEF ControlStep

\* No step loses a sample without counting it.
LEMMA CountKept ==
  ASSUME ImuAssumption, TypeInv, CountInv, [Next]_vars
  PROVE  CountInv'
<1>1. CASE Tick \/ UNCHANGED vars
  BY <1>1 DEF Tick, vars, captureVars, consumerVars, controlVars, CountInv,
     Held, HandLen, Evicted
<1> QED
  BY <1>1, CaptureKeepsCount, ConsumerKeepsCount, ControlKeepsCount DEF Next

\* A sample that does not arrive is counted.
THEOREM LossesAreCounted == Spec => []EveryLossIsCounted
<1>1. Init => TypeInv /\ CountInv
  BY ImuAssumption, TypesAtFirst DEF Init, CountInv
<1>2. TypeInv /\ CountInv /\ [Next]_vars => (TypeInv /\ CountInv)'
  BY ImuAssumption, TypesKept, CountKept
<1>3. TypeInv /\ CountInv => EveryLossIsCounted
  <2>1. Len(Hand) = HandLen
    BY DEF Hand, HandLen
  <2> QED
    BY <2>1 DEF CountInv, EveryLossIsCounted, Held, Evicted
<1> QED
  BY <1>1, <1>2, <1>3, PTL DEF Spec

(***************************************************************************)
(* Calibration: until it returns nothing is reported, and the stages that  *)
(* may end well come after a configuration that did.                       *)
(***************************************************************************)
ReportInv ==
  /\ ReportIsTrue
  /\ control \in Calibrating => report = "none"
  /\ control = "configure" => active = nvm
  /\ control = "after" => chip = "on" /\ active = nvm
  /\ control = "unsaved" => chip = "on"

\* Each stage of a calibration leaves the chip as its report will say.
LEMMA ReportKept ==
  ASSUME TypeInv, ReportInv, [Next]_vars
  PROVE  ReportInv'
<1> USE DEF ReportInv, ReportIsTrue, Calibrating
<1>1. CASE Tick \/ CaptureStep \/ ConsumerStep \/ UNCHANGED vars
  <2>1. UNCHANGED <<control, chipVars>>
    BY <1>1 DEF Tick, CaptureStep, Wake, BeginRead, EndRead, Send, Evict,
       Resend, ConsumerStep, ConsumerWakes, Drain, BeginRef, EndRef, Stamp,
       Deliver, consumerFrame, controlVars, vars
  <2> QED
    BY <2>1 DEF chipVars
<1>2. CASE StreamStep
  <2>1. UNCHANGED chipVars /\ control' \notin Calibrating
    BY <1>2 DEF StreamStep, StartImu, StartSink, StopSink, SinkGone,
       StopTimer, DeleteCapture, DeleteQueue
  <2> QED
    BY <2>1 DEF chipVars
<1>3. CASE Calibrate
  BY <1>3 DEF Calibrate
<1>4. CASE Stationary("before", "foc")
  BY <1>4 DEF Stationary, Return
<1>5. CASE Foc
  BY <1>5 DEF Foc, Return
<1>6. CASE \E ok \in BOOLEAN : NvmProg(ok)
  <2>1. PICK ok \in BOOLEAN : NvmProg(ok)
    BY <1>6
  <2>2. CASE ok = TRUE
    BY <2>1, <2>2 DEF NvmProg
  <2>3. CASE ok = FALSE
    BY <2>1, <2>3 DEF NvmProg
  <2> QED
    BY <2>2, <2>3
<1>7. CASE Configure
  <2>1. CASE control = "configure"
    BY <1>7, <2>1 DEF Configure, Return
  <2>2. CASE control = "reconfigure"
    BY <1>7, <2>2 DEF Configure, Return
  <2> QED
    BY <1>7, <2>1, <2>2 DEF Configure
<1>8. CASE Stationary("after", "OK") \/ Stationary("unsaved", "INVALID_STATE")
  BY <1>8 DEF Stationary, Return
<1> QED
  BY <1>1, <1>2, <1>3, <1>4, <1>5, <1>6, <1>7, <1>8
     DEF Next, ControlStep, StreamStep, CalibrationStep

\* What a calibration has reported is true, and stays true.
THEOREM ReportsAreTrue == Spec => []ReportIsTrue
<1>1. Init => TypeInv /\ ReportInv
  BY ImuAssumption, TypesAtFirst
     DEF Init, ReportInv, ReportIsTrue, Calibrating
<1>2. TypeInv /\ ReportInv /\ [Next]_vars => (TypeInv /\ ReportInv)'
  BY ImuAssumption, TypesKept, ReportKept
<1>3. ReportInv => ReportIsTrue
  BY DEF ReportInv
<1> QED
  BY <1>1, <1>2, <1>3, PTL DEF Spec

(***************************************************************************)
(* The clock.  No sample is older than MaxAge when the reference is read,  *)
(* so the difference of the two stamps fits in half the clock's width.     *)
(***************************************************************************)
Fresh(s, t) == \A i \in 1..Len(s) : t - s[i] <= MaxAge

AgeInv ==
  /\ Fresh(queue, now) /\ (sample # None => now - sample <= MaxAge)
  /\ consumer \in {"drain", "want", "read", "stamp"} => Fresh(batch, now)
  /\ ref # None => /\ Fresh(batch, ref) /\ UpTo(batch, ref)
                   /\ consumer = "stamp" => ref <= now
                   /\ consumer = "send" => ref <= us

\* Time waits for the consumer.
LEMMA TickKeepsAge ==
  ASSUME ImuAssumption, TypeInv, AgeInv, Tick
  PROVE  AgeInv'
<1>1. /\ now' = now + 1 /\ now \in Int
      /\ UNCHANGED <<queue, sample, consumer, batch, ref, us>>
  BY DEF Tick, consumerVars, TypeInv, ChipTypes, Times
<1>2. /\ \A i \in 1..Len(queue) : queue[i] \in Int
      /\ \A i \in 1..Len(batch) : batch[i] \in Int
      /\ sample # None => sample \in Int
      /\ ref # None => ref \in Int
  BY SMTT(30), ElementOfSeq DEF TypeInv, CaptureTypes, ConsumerTypes, Times
<1>3. MaxAge \in Int
  BY DEF ImuAssumption
<1>4. Fresh(queue', now')
  BY <1>1, <1>2, <1>3 DEF Tick, Punctual, Fresh
<1>5. sample' # None => now' - sample' <= MaxAge
  BY <1>1, <1>2, <1>3 DEF Tick
<1>6. consumer' \in {"drain", "want", "read", "stamp"} => Fresh(batch', now')
  BY <1>1, <1>2, <1>3 DEF Tick, Unstamped, Fresh
<1>7. ref' # None => /\ Fresh(batch', ref') /\ UpTo(batch', ref')
                     /\ consumer' = "stamp" => ref' <= now'
                     /\ consumer' = "send" => ref' <= us'
  BY <1>1, <1>2 DEF AgeInv
<1> QED
  BY <1>4, <1>5, <1>6, <1>7 DEF AgeInv

\* What is added to a fresh sequence or taken from it.
LEMMA FreshSequences ==
  ASSUME NEW s \in Seq(Times), NEW x \in Times, NEW t
  PROVE  /\ Fresh(s, t) /\ t - x <= MaxAge => Fresh(Append(s, x), t)
         /\ s # <<>> /\ Fresh(s, t) => /\ Fresh(Tail(s), t)
                                       /\ t - Head(s) <= MaxAge
         /\ Fresh(<<>>, t)
<1>1. ASSUME Fresh(s, t), t - x <= MaxAge
      PROVE  Fresh(Append(s, x), t)
  <2>1. /\ Len(Append(s, x)) = Len(s) + 1 /\ Len(s) \in Nat
        /\ \A i \in 1..Len(s) : Append(s, x)[i] = s[i]
        /\ Append(s, x)[Len(s) + 1] = x
    BY AppendProperties, LenProperties
  <2>2. \A i \in 1..Len(Append(s, x)) : i \in 1..Len(s) \/ i = Len(s) + 1
    BY <2>1
  <2> QED
    BY <1>1, <2>1, <2>2 DEF Fresh
<1>2. ASSUME s # <<>>, Fresh(s, t)
      PROVE  Fresh(Tail(s), t) /\ t - Head(s) <= MaxAge
  <2>1. /\ Len(Tail(s)) = Len(s) - 1 /\ Head(s) = s[1]
        /\ \A j \in 1..Len(Tail(s)) : Tail(s)[j] = s[j + 1]
    BY <1>2, HeadTailProperties
  <2>2. Len(s) \in Nat /\ Len(s) >= 1
    BY <1>2, EmptySeq, LenProperties
  <2>3. 1 \in 1..Len(s) /\ \A j \in 1..Len(Tail(s)) : j + 1 \in 1..Len(s)
    BY <2>1, <2>2
  <2> QED
    BY <1>2, <2>1, <2>3 DEF Fresh
<1>3. Fresh(<<>>, t)
  BY EmptySeq DEF Fresh
<1> QED
  BY <1>1, <1>2, <1>3

\* The capture task adds a sample that is as fresh as can be, or one it held.
LEMMA CaptureKeepsAge ==
  ASSUME ImuAssumption, TypeInv, AgeInv, CaptureStep
  PROVE  AgeInv'
<1>1. UNCHANGED <<now, consumer, batch, ref, us>>
  BY DEF CaptureStep, Wake, BeginRead, EndRead, Send, Evict, Resend,
     consumerVars
<1>2. queue \in Seq(Times) /\ now \in Times /\ MaxAge \in Nat
  BY DEF ImuAssumption, TypeInv, CaptureTypes, ChipTypes
<1>3. CASE Wake \/ BeginRead \/ \E ok \in BOOLEAN : EndRead(ok)
  <2>1. UNCHANGED queue /\ sample' \in {sample, now}
    BY <1>3 DEF Wake, BeginRead, EndRead
  <2>2. now - now <= MaxAge
    BY <1>2 DEF Times
  <2> QED
    BY <1>1, <2>1, <2>2 DEF AgeInv
<1>4. CASE Send \/ Resend
  <2>1. sample \in Times /\ sample # None
    BY <1>4 DEF Send, Resend, TypeInv, HandInv, CaptureTypes
  <2>2. \/ UNCHANGED <<queue, sample>>
        \/ sample' = None /\ queue' \in {queue, Append(queue, sample)}
    BY <1>4 DEF Send, Resend
  <2>3. Fresh(Append(queue, sample), now)
    BY <1>2, <2>1, FreshSequences DEF AgeInv
  <2> QED
    BY <1>1, <2>2, <2>3 DEF AgeInv
<1>5. CASE Evict
  <2>1. queue' = (IF queue = <<>> THEN <<>> ELSE Tail(queue)) /\ UNCHANGED sample
    BY <1>5 DEF Evict
  <2>2. queue # <<>> => Fresh(Tail(queue), now)
    BY <1>2, FreshSequences DEF AgeInv
  <2> QED
    BY <1>1, <2>1, <2>2 DEF AgeInv
<1> QED
  BY <1>3, <1>4, <1>5 DEF CaptureStep

\* The consumer reads the reference last, and esp_timer after it.
LEMMA ConsumerKeepsAge ==
  ASSUME ImuAssumption, TypeInv, OrderInv, AgeInv, ConsumerStep
  PROVE  AgeInv'
<1>1. UNCHANGED <<now, sample>>
  BY DEF ConsumerStep, ConsumerWakes, Drain, BeginRef, EndRef, Stamp, Deliver,
     consumerFrame, captureVars
<1>2. /\ queue \in Seq(Times) /\ batch \in Seq(Times) /\ now \in Times
      /\ Fresh(<<>>, now)
  BY FreshSequences DEF TypeInv, CaptureTypes, ConsumerTypes, ChipTypes
<1>3. CASE Drain
  <2>1. ref = None /\ ref' = None
    BY <1>3 DEF Drain, TypeInv, BatchInv
  <2>2. CASE UNCHANGED <<queue, batch>>
    BY <1>1, <1>3, <2>1, <2>2 DEF Drain, AgeInv
  <2>3. CASE queue # <<>> /\ batch' = Append(batch, Head(queue))
             /\ queue' = Tail(queue)
    <3>1. Head(queue) \in Times
      BY <1>2, <2>3, HeadTailProperties
    <3>2. Fresh(Tail(queue), now) /\ now - Head(queue) <= MaxAge
      BY <1>2, <2>3, FreshSequences DEF AgeInv
    <3>3. Fresh(batch, now)
      BY <1>3 DEF Drain, AgeInv
    <3>4. Fresh(Append(batch, Head(queue)), now)
      BY <1>2, <3>1, <3>2, <3>3, FreshSequences
    <3> QED
      BY <1>1, <2>1, <2>3, <3>2, <3>4 DEF AgeInv
  <2> QED
    BY <1>3, <2>2, <2>3 DEF Drain
<1>4. CASE ConsumerWakes \/ Deliver
  <2>1. UNCHANGED queue
    BY <1>4 DEF ConsumerWakes, Deliver, consumerFrame, captureVars
  <2>2. batch' = <<>> /\ ref' = None
    BY <1>4 DEF ConsumerWakes, Deliver, TypeInv, BatchInv
  <2> QED
    BY <1>1, <1>2, <2>1, <2>2 DEF AgeInv
<1>5. CASE BeginRef
  <2>1. UNCHANGED <<queue, batch, ref>> /\ ref = None
        /\ consumer = "want"
    BY <1>5 DEF BeginRef, consumerFrame, captureVars, TypeInv, BatchInv
  <2> QED
    BY <1>1, <2>1 DEF AgeInv
<1>6. CASE \E ok \in BOOLEAN : EndRef(ok)
  <2>1. UNCHANGED <<queue, batch>> /\ ref' \in {now, None}
        /\ consumer = "read" /\ consumer' = "stamp"
    BY <1>6 DEF EndRef, consumerFrame, captureVars
  <2>2. Fresh(batch, now) /\ UpTo(batch, now) /\ now <= now
    BY <1>2, <2>1 DEF AgeInv, OrderInv, Times
  <2> QED
    BY <1>1, <2>1, <2>2 DEF AgeInv
<1>7. CASE Stamp
  <2>1. CASE batch = <<>>
    BY <1>1, <1>7, <2>1 DEF Stamp, consumerFrame, captureVars, AgeInv
  <2>2. CASE batch # <<>>
    BY <1>1, <1>7, <2>2 DEF Stamp, consumerFrame, captureVars, AgeInv
  <2> QED
    BY <2>1, <2>2
<1> QED
  BY <1>3, <1>4, <1>5, <1>6, <1>7 DEF ConsumerStep

\* The state-machine task drops what it does not leave alone.
LEMMA ControlKeepsAge ==
  ASSUME ImuAssumption, TypeInv, AgeInv, ControlStep
  PROVE  AgeInv'
<1>1. /\ now' = now /\ us' \in {us, 0}
      /\ sample' \in {sample, None} /\ queue' \in {queue, <<>>}
      /\ \/ UNCHANGED <<batch, ref, us, consumer>>
         \/ batch = <<>> /\ ref = None /\ UNCHANGED <<batch, ref>>
         \/ batch' = <<>> /\ ref' = None
  <2>1. CASE CalibrationStep
    BY <2>1, CalibrationFrame DEF captureVars, consumerVars
  <2>2. CASE \E ok \in BOOLEAN : StartImu(ok)
    BY <2>2 DEF StartImu, consumerVars
  <2>3. CASE \E s \in {"net", "sd"}, ok \in BOOLEAN : StartSink(s, ok)
    <3>1. consumer = "none"
      BY <2>3 DEF StartSink, TypeInv, TaskInv
    <3> QED
      BY <2>3, <3>1 DEF StartSink, captureVars, TypeInv, BatchInv
  <2>4. CASE StopSink
    BY <2>4 DEF StopSink, captureVars
  <2>5. CASE SinkGone \/ StopTimer
    BY <2>5 DEF SinkGone, StopTimer, captureVars, consumerVars
  <2>6. CASE DeleteCapture \/ DeleteQueue
    BY <2>6 DEF DeleteCapture, DeleteQueue, consumerVars
  <2> QED
    BY <2>1, <2>2, <2>3, <2>4, <2>5, <2>6 DEF ControlStep
<1>2. Fresh(<<>>, now)
  BY EmptySeq DEF Fresh
<1> QED
  BY <1>1, <1>2 DEF AgeInv

\* No sample that is not stamped yet gets too old.
LEMMA AgeKept ==
  ASSUME ImuAssumption, TypeInv, OrderInv, AgeInv, [Next]_vars
  PROVE  AgeInv'
<1>1. CASE UNCHANGED vars
  BY <1>1 DEF vars, captureVars, consumerVars, AgeInv
<1> QED
  BY <1>1, TickKeepsAge, CaptureKeepsAge, ConsumerKeepsAge, ControlKeepsAge
     DEF Next

\* A remainder is in its range, and the quotient is there.
LEMMA Remainder ==
  ASSUME NEW w \in Nat \ {0}, NEW x \in Int
  PROVE  /\ (x % w) \in 0..(w - 1)
         /\ \E q \in Int : x = w * q + (x % w)
<1>1. x = w * (x \div w) + (x % w) /\ x \div w \in Int
  OBVIOUS
<1>2. (x % w) \in 0..(w - 1)
  OBVIOUS
<1> QED
  BY <1>1, <1>2

\* It is the only one.
LEMMA RemainderUnique ==
  ASSUME NEW w \in Nat \ {0}, NEW x \in Int, NEW q \in Int,
         NEW r \in 0..(w - 1), x = w * q + r
  PROVE  x % w = r
<1>1. PICK p \in Int : x = w * p + (x % w)
  BY Remainder
<1> DEFINE m == x % w
<1>2. m \in 0..(w - 1)
  BY Remainder
<1>3. x = w * p + m
  BY <1>1
<1> HIDE DEF m
<1>4. w * (q - p) = m - r
  BY <1>2, <1>3
<1>5. ~(q - p >= 1)
  <2>1. SUFFICES ASSUME q - p >= 1 PROVE FALSE
    OBVIOUS
  <2>2. w * (q - p) >= w
    BY <2>1
  <2> QED
    BY <1>2, <1>4, <2>2
<1>6. ~(q - p <= -1)
  <2>1. SUFFICES ASSUME q - p <= -1 PROVE FALSE
    OBVIOUS
  <2>2. w * (q - p) <= -w
    BY <2>1
  <2> QED
    BY <1>2, <1>4, <2>2
<1>7. q = p
  BY <1>5, <1>6
<1>8. m = r
  BY <1>2, <1>3, <1>7
<1> QED
  BY <1>8 DEF m

\* wire.py's difference of two stamps is the difference of the times, wherever
\* the clock has wrapped, as long as they are less than half its width apart.
LEMMA WrappedIsDifference ==
  ASSUME ImuAssumption, NEW t \in Nat, NEW r \in Nat,
         r - t >= 0, r - t <= MaxAge
  PROVE  Wrapped((t % Wrap) - (r % Wrap)) = t - r
<1> DEFINE d == (t % Wrap) - (r % Wrap)
<1>1. /\ Wrap \in Nat \ {0} /\ MaxAge \in Nat /\ 2 * MaxAge < Wrap
      /\ t \in Int /\ r \in Int
  BY DEF ImuAssumption
<1>2. PICK p \in Int : t = Wrap * p + (t % Wrap)
  BY <1>1, Remainder, Zenon
<1>3. PICK q \in Int : r = Wrap * q + (r % Wrap)
  BY <1>1, Remainder, Zenon
<1>4. (t % Wrap) \in Int /\ (r % Wrap) \in Int
  BY <1>1, Remainder
<1>5. d \in Int /\ d = Wrap * (q - p) + (t - r)
  BY <1>1, <1>2, <1>3, <1>4
<1>6. Wrapped(d) = IF 2 * (d % Wrap) >= Wrap THEN (d % Wrap) - Wrap ELSE d % Wrap
  BY DEF Wrapped
<1> HIDE DEF d
<1>7. CASE t - r = 0
  <2>1. d % Wrap = 0
    BY <1>1, <1>5, <1>7, RemainderUnique
  <2> QED
    BY <1>1, <1>6, <1>7, <2>1 DEF d
<1>8. CASE t - r < 0
  <2>1. t - r + Wrap \in 0..(Wrap - 1) /\ 2 * (t - r + Wrap) >= Wrap
    BY <1>1, <1>8
  <2>2. d = Wrap * (q - p - 1) + (t - r + Wrap) /\ q - p - 1 \in Int
    BY <1>1, <1>5
  <2>3. d % Wrap = t - r + Wrap
    BY <1>1, <1>5, <2>1, <2>2, RemainderUnique, Zenon
  <2> QED
    BY <1>1, <1>6, <2>1, <2>3 DEF d
<1> QED
  BY <1>7, <1>8

\* The host's sample times are right but for the moment between two reads.
THEOREM TimesAreRight == Spec => []BatchClock
<1>1. Init => TypeInv /\ OrderInv /\ AgeInv
  <2>1. ASSUME Init PROVE OrderInv /\ AgeInv
    BY <2>1, OrderOfEmpty, EmptySeq DEF Init, OrderInv, AgeInv, Fresh
  <2> QED
    BY <2>1, ImuAssumption, TypesAtFirst
<1>2. TypeInv /\ OrderInv /\ AgeInv /\ [Next]_vars
        => (TypeInv /\ OrderInv /\ AgeInv)'
  BY ImuAssumption, TypesKept, OrderKept, AgeKept
<1>3. TypeInv /\ AgeInv => BatchClock
  <2>1. SUFFICES ASSUME TypeInv, AgeInv, consumer = "send", ref # None
                 PROVE  /\ ref <= us
                        /\ \A i \in 1..Len(batch) :
                             EspTime(batch[i]) - batch[i] = us - ref
    BY DEF BatchClock
  <2>2. ref <= us
    BY <2>1 DEF AgeInv
  <2>3. ASSUME NEW i \in 1..Len(batch)
        PROVE  EspTime(batch[i]) - batch[i] = us - ref
    <3>1. batch[i] \in Nat /\ batch[i] # None /\ ref \in Nat /\ us \in Nat
      <4>1. batch \in Seq(Times) /\ ref \in Times /\ us \in Times
        BY <2>1 DEF TypeInv, ConsumerTypes
      <4>2. batch[i] \in Times
        BY <2>3, <4>1, ElementOfSeq
      <4> QED
        BY <4>1, <4>2, ImuAssumption DEF ImuAssumption, Times, None
    <3>2. ref - batch[i] >= 0 /\ ref - batch[i] <= MaxAge
      BY <2>1, <2>3, <3>1 DEF AgeInv, Fresh, UpTo
    <3>3. Wrapped((batch[i] % Wrap) - (ref % Wrap)) = batch[i] - ref
      BY <3>1, <3>2, ImuAssumption, WrappedIsDifference
    <3>4. EspTime(batch[i]) = us + (batch[i] - ref)
      BY <2>1, <3>1, <3>3 DEF EspTime, Ticks
    <3> QED
      BY <3>1, <3>4
  <2> QED
    BY <2>2, <2>3
<1> QED
  BY <1>1, <1>2, <1>3, PTL DEF Spec
=============================================================================
