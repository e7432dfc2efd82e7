----------------------------- MODULE FrameStream -----------------------------
(***************************************************************************)
(* What the camera pipeline promises a sink, without buffers, tasks or     *)
(* queues: within a session frames come out in the order they were         *)
(* captured, each at most once, and some may be missing.  A session ends   *)
(* by losing whatever has not come out; nothing of it shows up in the next *)
(* one.                                                                    *)
(***************************************************************************)
EXTENDS Integers, Sequences, SequencesExt

CONSTANT Times      \* capture times within a session

VARIABLES
  line,   \* capture times of the frames on their way, oldest first
  last    \* capture time of the frame that came out last, 0 for none

Init == line = <<>> /\ last = 0

\* A frame enters behind everything that is on its way or came out.
Accept(t) ==
  /\ t > last
  /\ \A i \in DOMAIN line : t > line[i]
  /\ line' = Append(line, t)
  /\ UNCHANGED last

Deliver ==
  /\ line # <<>>
  /\ last' = Head(line)
  /\ line' = Tail(line)

\* One frame is dropped: evicted, flushed, or drained and not sent.
Drop ==
  /\ \E i \in DOMAIN line : line' = RemoveAt(line, i)
  /\ UNCHANGED last

\* The task that held the next frames is gone, and so are they.
DropBatch ==
  /\ \E i \in DOMAIN line : line' = SubSeq(line, i + 1, Len(line))
  /\ UNCHANGED last

EndSession == line = <<>> /\ last' = 0 /\ UNCHANGED line

Next ==
  \/ \E t \in Times : Accept(t)
  \/ Deliver \/ Drop \/ DropBatch \/ EndSession

Spec == Init /\ [][Next]_<<line, last>>
=============================================================================
