----------------------------- MODULE HostIngest ------------------------------
(***************************************************************************)
(* From the host's sockets to the bag: the raw-TCP connection threads, the *)
(* bounded write queue with its drop-oldest and its shutdown sentinel, the *)
(* writer thread (tcp_ingest.py), the HTTP posts that write by themselves  *)
(* (app.py), and the recorder they share, which the browser swaps at       *)
(* runtime (bag_recorder.py).                                              *)
(*                                                                         *)
(* Every accept starts a thread and nobody joins one: after a reconnect a  *)
(* port may have its old thread and its new one at work.  So a record is   *)
(* the thread it came by and its number there, and the ports, which no     *)
(* code behind the socket tells apart, are left out.  The name of a thread *)
(* that has ended may be used again, for the port's next connection say;   *)
(* its numbers go on.  Bags are numbered as they are opened.               *)
(***************************************************************************)
EXTENDS Integers, Sequences, Functions

CONSTANTS
  Handlers,    \* connection threads of the raw-TCP ports, of whichever port
  Posters,     \* threads of the HTTP server that handle posts
  QueueLen,    \* _WRITE_QUEUE_LEN
  MaxRecords,  \* bound: records of all threads
  MaxBags      \* bound: bags opened or failed to open

ASSUME IngestAssumption ==
  /\ QueueLen \in Nat \ {0} /\ MaxRecords \in Nat /\ MaxBags \in Nat
  /\ Handlers \cap Posters = {} /\ "bag" \notin Posters

Receivers == Handlers \cup Posters
Record(s, n) == [from |-> s, n |-> n]
Sentinel == [from |-> "nobody", n |-> 0]     \* the None that ends the writer
Nothing == Sentinel
Writers == {"bag"} \cup Posters    \* _bag_writer_loop and every do_POST

VARIABLES
  place,     \* where each connection thread is in _enqueue_write()
  count,     \* records each thread has received
  queue,     \* write_queue
  server,    \* where serve_tcp_ingest() is
  at,        \* where each writer is
  item,      \* the record in its hands
  seen,      \* its local c: the bag it read from _current, 0 for None
  current,   \* _current, 0 for None
  open,      \* bags whose _writer is there
  opened,    \* bags numbered so far
  toggle,    \* where a _set_recording() under the slot's lock is
  last       \* the number of the last record on disk, by receiver

threadVars == <<place, count, queue>>
writerVars == <<at, item, seen>>
slotVars == <<current, open, opened, toggle>>
vars == <<threadVars, server, writerVars, slotVars, last>>

Bags == 1..MaxBags
Received == FoldFunction(+, 0, count)

Init ==
  /\ place = [h \in Handlers |-> "away"] /\ count = [s \in Receivers |-> 0]
  /\ queue = <<>> /\ server = "up"
  /\ at = [w \in Writers |-> "get"] /\ item = [w \in Writers |-> Nothing]
  /\ seen = [w \in Writers |-> 0]
  /\ current = 0 /\ open = {} /\ opened = 0 /\ toggle = "idle"
  /\ last = [s \in Receivers |-> 0]

(***************************************************************************)
(* The connection threads.  They are daemons nobody joins, and go on when  *)
(* the listener that made them is gone.                                    *)
(***************************************************************************)
otherVars == <<server, writerVars, slotVars, last>>

\* A connection of a port, beside those that still have a thread.
Connect(h) ==
  /\ server \in {"up", "joining"} /\ place[h] = "away"
  /\ place' = [place EXCEPT ![h] = "read"]
  /\ UNCHANGED <<count, queue, otherVars>>

Disconnect(h) ==
  /\ place[h] = "read"
  /\ place' = [place EXCEPT ![h] = "away"]
  /\ UNCHANGED <<count, queue, otherVars>>

Arrive(h) ==
  /\ place[h] = "read" /\ Received < MaxRecords
  /\ count' = [count EXCEPT ![h] = @ + 1]
  /\ place' = [place EXCEPT ![h] = "put"]
  /\ UNCHANGED <<queue, otherVars>>

InHand(h) == Record(h, count[h])
Full == Len(queue) = QueueLen

\* Mutant of Put: put(), which waits for room.
PutWaiting(h) ==
  /\ place[h] = "put" /\ ~Full
  /\ queue' = Append(queue, InHand(h))
  /\ place' = [place EXCEPT ![h] = "read"]
  /\ UNCHANGED <<count, otherVars>>

\* put_nowait(), which raises on a full queue.
Put(h) ==
  /\ place[h] = "put"
  /\ queue' = IF Full THEN queue ELSE Append(queue, InHand(h))
  /\ place' = [place EXCEPT ![h] = IF Full THEN "evict" ELSE "read"]
  /\ UNCHANGED <<count, otherVars>>

\* get_nowait() of whatever is the oldest, the sentinel included; by now the
\* queue may be empty.
EvictOldest(h) ==
  /\ place[h] = "evict"
  /\ queue' = IF queue = <<>> THEN queue ELSE Tail(queue)
  /\ place' = [place EXCEPT ![h] = "retry"]
  /\ UNCHANGED <<count, otherVars>>

\* Mutant of Retry: the new record takes the place of the old one.
RetryInFront(h) ==
  /\ place[h] = "retry"
  /\ queue' = IF Full THEN queue ELSE <<InHand(h)>> \o queue
  /\ place' = [place EXCEPT ![h] = "read"]
  /\ UNCHANGED <<count, otherVars>>

\* Another thread may have taken the room; then the new record is dropped.
Retry(h) ==
  /\ place[h] = "retry"
  /\ queue' = IF Full THEN queue ELSE Append(queue, InHand(h))
  /\ place' = [place EXCEPT ![h] = "read"]
  /\ UNCHANGED <<count, otherVars>>

Enqueue(h) == Put(h) \/ EvictOldest(h) \/ Retry(h)
HandlerStep(h) == Connect(h) \/ Disconnect(h) \/ Arrive(h) \/ Enqueue(h)

(***************************************************************************)
(* serve_tcp_ingest(), from the stop on.                                   *)
(***************************************************************************)
Stop ==
  /\ server = "up"
  /\ server' = "joining"
  /\ UNCHANGED <<threadVars, writerVars, slotVars, last>>

\* The listeners look at the stop flag once a second, and are waited for two.
ListenersJoined ==
  /\ server = "joining"
  /\ server' = "put"
  /\ UNCHANGED <<threadVars, writerVars, slotVars, last>>

\* Mutant of PutSentinel: put_nowait(), which a full queue refuses.
PutSentinelNow ==
  /\ server = "put"
  /\ queue' = IF Full THEN queue ELSE Append(queue, Sentinel)
  /\ server' = "join"
  /\ UNCHANGED <<place, count, writerVars, slotVars, last>>

\* put(None), which waits for room.
PutSentinel ==
  /\ server = "put" /\ ~Full
  /\ queue' = Append(queue, Sentinel)
  /\ server' = "join"
  /\ UNCHANGED <<place, count, writerVars, slotVars, last>>

\* writer.join(timeout=2.0), whether the writer has ended or not.
WriterJoined ==
  /\ server = "join"
  /\ server' = "gone"
  /\ UNCHANGED <<threadVars, writerVars, slotVars, last>>

ServerStep == ListenersJoined \/ PutSentinel \/ WriterJoined

(***************************************************************************)
(* The writers.                                                            *)
(***************************************************************************)
Get ==
  /\ at["bag"] = "get" /\ queue # <<>>
  /\ queue' = Tail(queue)
  /\ IF Head(queue) = Sentinel
       THEN at' = [at EXCEPT !["bag"] = "gone"] /\ UNCHANGED item
       ELSE /\ at' = [at EXCEPT !["bag"] = "look"]
            /\ item' = [item EXCEPT !["bag"] = Head(queue)]
  /\ UNCHANGED <<place, count, server, seen, slotVars, last>>

\* The posts of one connection follow each other; those of two may overlap.
Post(p) ==
  /\ at[p] = "get" /\ Received < MaxRecords
  /\ count' = [count EXCEPT ![p] = @ + 1]
  /\ item' = [item EXCEPT ![p] = Record(p, count[p] + 1)]
  /\ at' = [at EXCEPT ![p] = "look"]
  /\ UNCHANGED <<place, queue, server, seen, slotVars, last>>

Done(w) ==
  /\ at' = [at EXCEPT ![w] = "get"] /\ item' = [item EXCEPT ![w] = Nothing]
  /\ seen' = [seen EXCEPT ![w] = 0]

\* RecordingSlot.write_*(): _current is read without the slot's lock ...
Look(w) ==
  /\ at[w] = "look"
  /\ IF current = 0
       THEN Done(w)
       ELSE /\ seen' = [seen EXCEPT ![w] = current]
            /\ at' = [at EXCEPT ![w] = "write"] /\ UNCHANGED item
  /\ UNCHANGED <<threadVars, server, slotVars, last>>

\* ... and written to under the recorder's.
Write(w) ==
  /\ at[w] = "write" /\ seen[w] \in open
  /\ last' = [last EXCEPT ![item[w].from] = item[w].n]
  /\ Done(w)
  /\ UNCHANGED <<threadVars, server, slotVars>>

\* Mutant of WriteFails: a failed write is tried again later.
WriteFailsRequeued(w) ==
  /\ at[w] = "write" /\ seen[w] \notin open
  /\ queue' = IF Full THEN queue ELSE Append(queue, item[w])
  /\ Done(w)
  /\ UNCHANGED <<place, count, server, slotVars, last>>

\* None.write() raises: the writer thread prints it, and the HTTP server drops
\* the connection of the post.
WriteFails(w) ==
  /\ at[w] = "write" /\ seen[w] \notin open
  /\ Done(w)
  /\ UNCHANGED <<threadVars, server, slotVars, last>>

BagWriterStep == Get \/ Look("bag") \/ Write("bag") \/ WriteFails("bag")
PostStep == \E p \in Posters : Post(p) \/ Look(p) \/ Write(p) \/ WriteFails(p)

(***************************************************************************)
(* RecordingSlot.start() and stop(), under its lock.                       *)
(***************************************************************************)
Toggle(from, to) == toggle = from /\ toggle' = to
slotFrame == <<threadVars, server, writerVars>>

BeginStart ==
  /\ Toggle("idle", IF current = 0 THEN "open" ELSE "close") /\ opened < MaxBags
  /\ UNCHANGED <<slotFrame, current, open, opened, last>>

BeginStop ==
  /\ Toggle("idle", "closeLast") /\ current # 0
  /\ UNCHANGED <<slotFrame, current, open, opened, last>>

\* close() of the old recorder, which waits for a write under way.
CloseOld ==
  /\ Toggle("close", "open")
  /\ open' = open \ {current}
  /\ UNCHANGED <<slotFrame, current, opened, last>>

OpenNew ==
  /\ Toggle("open", "idle")
  /\ opened' = opened + 1 /\ current' = opened + 1
  /\ open' = open \cup {opened + 1}
  /\ UNCHANGED <<slotFrame, last>>

\* open() of the bag raises; _current stays as it is.
OpenFails ==
  /\ Toggle("open", "idle")
  /\ opened' = opened + 1
  /\ UNCHANGED <<slotFrame, current, open, last>>

\* Mutant of CloseLast: only the reference goes.
CloseLastUnclosed ==
  /\ Toggle("closeLast", "clear")
  /\ UNCHANGED <<slotFrame, current, open, opened, last>>

CloseLast ==
  /\ Toggle("closeLast", "clear")
  /\ open' = open \ {current}
  /\ UNCHANGED <<slotFrame, current, opened, last>>

Clear ==
  /\ Toggle("clear", "idle")
  /\ current' = 0
  /\ UNCHANGED <<slotFrame, open, opened, last>>

SlotStep ==
  BeginStart \/ BeginStop \/ CloseOld \/ OpenNew \/ OpenFails \/ CloseLast \/ Clear

Next ==
  \/ \E h \in Handlers : HandlerStep(h)
  \/ Stop \/ ServerStep \/ BagWriterStep \/ PostStep \/ SlotStep

Spec == Init /\ [][Next]_vars

-----------------------------------------------------------------------------
(***************************************************************************)
(* Properties.                                                             *)
(***************************************************************************)

\* What is on its way to the disk, and who has a record to queue.
OnTheWay ==
  ({item[w] : w \in Writers} \cup {queue[i] : i \in 1..Len(queue)}) \ {Nothing}
Busy(h) == place[h] \in {"put", "evict", "retry"}

Ahead(r, t) == r # Nothing /\ t # Nothing /\ r.from = t.from => r.n < t.n

\* Whatever is evicted, dropped or lost, however the threads of a port overlap
\* and however often the recorder is swapped: the records that came over one
\* connection get to the disk in their order, none twice, and so do those of a
\* port as long as its old thread has ended when the next one starts.  (Of
\* threads that overlap the new one's record may be written first.)  So the
\* writers' records come before the queue's, the queue is in order, and what is
\* in a thread's hand is newer than all of them.
InOrderOnce ==
  /\ \A r \in OnTheWay : last[r.from] < r.n
  /\ \A i, j \in 1..Len(queue) : i < j => Ahead(queue[i], queue[j])
  /\ \A w \in Writers, i \in 1..Len(queue) : Ahead(item[w], queue[i])
  /\ \A v, w \in Writers : v # w => Ahead(item[v], item[w])
  /\ \A h \in Handlers : Busy(h) =>
       /\ last[h] < count[h]
       /\ \A r \in OnTheWay : r.from = h => r.n < count[h]

\* There is never a second bag open, and none when the recording is off.
OneBagOpen ==
  /\ open \subseteq {current}
  /\ toggle = "idle" /\ current = 0 => open = {}

(***************************************************************************)
(* Fairness: a connection thread that has work goes on.  The writer is not *)
(* in it, for the disk may stall for as long as it likes.                  *)
(***************************************************************************)
FairSpec == Spec /\ \A h \in Handlers : WF_vars(Enqueue(h))

\* A connection thread gets back to its socket by its own steps, whatever the
\* disk does: the back-pressure that the queue is there to keep off.
NeverBlocks ==
  \A h \in Handlers : (place[h] = "put") ~> (place[h] = "read")

\* If the disk works, a stop after the last connection has closed ends the
\* writer, and what was in the queue is not left behind.
QuietStopEndsWriter ==
  WF_vars(ServerStep) /\ WF_vars(BagWriterStep) =>
    ((server = "put" /\ \A h \in Handlers : place[h] = "away")
       ~> (at["bag"] = "gone" /\ queue = <<>>))
=============================================================================
