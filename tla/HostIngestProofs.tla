-------------------------- MODULE HostIngestProofs ---------------------------
(***************************************************************************)
(* For any connection threads and posts at once, any queue length and      *)
(* number of bags: however the recorder is swapped, stopped or fails to    *)
(* open, there is at most one bag open, and the records of a connection    *)
(* reach the disk in order.                                                *)
(***************************************************************************)
EXTENDS HostIngest, SequenceTheorems, TLAPS

\* Between the close of the old bag and the end of the toggle nothing is open,
\* also when the new bag could not be opened.
SlotInv ==
  /\ open \subseteq {current}
  /\ toggle \in {"open", "clear"} => open = {}
  /\ toggle = "idle" /\ current = 0 => open = {}
  /\ toggle \in {"idle", "close", "open", "closeLast", "clear"}
  /\ opened \in Nat

\* A step keeps the recorder's invariant.
LEMMA SlotStepKeeps ==
  ASSUME SlotInv, [Next]_vars
  PROVE  SlotInv'
<1>1. CASE UNCHANGED slotVars
  BY <1>1 DEF SlotInv, slotVars
<1>2. CASE BeginStart \/ BeginStop
  BY <1>2 DEF SlotInv, BeginStart, BeginStop, Toggle
<1>3. CASE CloseOld \/ CloseLast
  BY <1>3 DEF SlotInv, CloseOld, CloseLast, Toggle
<1>4. CASE OpenNew \/ OpenFails
  BY <1>4 DEF SlotInv, OpenNew, OpenFails, Toggle
<1>5. CASE Clear
  BY <1>5 DEF SlotInv, Clear, Toggle
<1>6. ASSUME NEW h \in Handlers, HandlerStep(h)
      PROVE  UNCHANGED slotVars
  BY <1>6 DEF HandlerStep, Connect, Disconnect, Arrive, Enqueue, Put,
     EvictOldest, Retry, otherVars
<1>7. CASE Stop \/ ServerStep
  BY <1>1, <1>7 DEF Stop, ServerStep, ListenersJoined, PutSentinel, WriterJoined
<1>8. CASE BagWriterStep \/ PostStep
  BY <1>1, <1>8 DEF BagWriterStep, PostStep, Get, Post, Look, Write, WriteFails
<1>9. CASE UNCHANGED vars
  BY <1>1, <1>9 DEF vars
<1> QED
  BY <1>1, <1>2, <1>3, <1>4, <1>5, <1>6, <1>7, <1>8, <1>9 DEF Next, SlotStep

\* There is never a second bag open, and none when the recording is off.
THEOREM OneBagAtATime == Spec => []OneBagOpen
<1>1. Init => SlotInv
  BY DEF Init, SlotInv
<1>2. SlotInv => OneBagOpen
  BY DEF SlotInv, OneBagOpen
<1> QED
  BY <1>1, <1>2, SlotStepKeeps, PTL DEF Spec

(***************************************************************************)
(* Order.                                                                  *)
(***************************************************************************)
Recs == [from : Receivers, n : Nat]
Rec == Recs \cup {Nothing}

FlowTypes ==
  /\ place \in [Handlers -> {"away", "read", "put", "evict", "retry"}]
  /\ count \in [Receivers -> Nat] /\ last \in [Receivers -> Nat]
  /\ queue \in Seq(Rec) /\ item \in [Writers -> Rec]
  /\ \A w \in Writers : at[w] \in {"look", "write"} => item[w] # Nothing
  /\ at \in [Writers -> {"get", "look", "write", "gone"}]

\* The queue is for the connection threads, a post writes by itself; and no
\* number is ahead of its thread's count.
Origins ==
  /\ \A i \in 1..Len(queue) : queue[i] # Nothing => queue[i].from \in Handlers
  /\ item["bag"] # Nothing => item["bag"].from \in Handlers
  /\ \A p \in Posters : item[p] # Nothing => item[p].from = p
  /\ \A s \in Receivers : last[s] <= count[s]
  /\ \A r \in OnTheWay : r.n <= count[r.from]

FlowInv == FlowTypes /\ Origins /\ InOrderOnce

\* What is on its way is a record that some thread has received.
LEMMA OnTheWayAre ==
  ASSUME FlowTypes
  PROVE  /\ OnTheWay \subseteq Recs /\ Nothing \in Rec
         /\ \A i \in 1..Len(queue) : queue[i] \in Rec
         /\ Len(queue) \in Nat
<1>1. /\ Len(queue) \in Nat /\ \A i \in 1..Len(queue) : queue[i] \in Rec
      /\ \A w \in Writers : item[w] \in Rec
  BY LenProperties, ElementOfSeq DEF FlowTypes
<1>2. Nothing \in Rec /\ \A r \in Rec : r # Nothing => r \in Recs
  BY DEF Rec
<1> QED
  BY <1>1, <1>2 DEF OnTheWay

\* A thread's steps outside the queue.
LEMMA ArriveKeeps ==
  ASSUME IngestAssumption, FlowInv, NEW h \in Handlers,
         Connect(h) \/ Disconnect(h) \/ Arrive(h)
  PROVE  FlowInv'
<1>1. /\ UNCHANGED <<queue, item, last, at>> /\ OnTheWay' = OnTheWay
  BY DEF Connect, Disconnect, Arrive, otherVars, writerVars, OnTheWay
<1>2. h \in Receivers /\ count[h] \in Nat /\ OnTheWay \subseteq Recs
  BY OnTheWayAre DEF Receivers, FlowInv, FlowTypes
<1>3. CASE Connect(h) \/ Disconnect(h)
  <2>1. UNCHANGED count /\ \A g \in Handlers : Busy(g)' => Busy(g)
    BY <1>3 DEF Connect, Disconnect, Busy, FlowInv, FlowTypes
  <2>2. place' \in [Handlers -> {"away", "read", "put", "evict", "retry"}]
    BY <1>3 DEF Connect, Disconnect, FlowInv, FlowTypes
  <2> QED
    BY <1>1, <2>1, <2>2 DEF FlowInv, FlowTypes, Origins, InOrderOnce
<1>4. CASE Arrive(h)
  <2>1. /\ count' = [count EXCEPT ![h] = count[h] + 1]
        /\ place' = [place EXCEPT ![h] = "put"]
    BY <1>4 DEF Arrive
  <2>2. FlowTypes'
    BY <1>1, <1>2, <2>1 DEF FlowInv, FlowTypes
  <2>3. \A s \in Receivers : count'[s] \in Nat /\ count'[s] >= count[s]
    BY <1>2, <2>1 DEF FlowInv, FlowTypes
  <2>4. \A s \in Receivers : last[s] \in Nat /\ count[s] \in Nat
    BY DEF FlowInv, FlowTypes
  <2>5. Origins'
    <3>1. \A s \in Receivers : last[s] <= count'[s]
      BY <2>3, <2>4 DEF FlowInv, Origins
    <3>2. ASSUME NEW r \in OnTheWay
          PROVE  r.n <= count'[r.from]
      <4>1. r.from \in Receivers /\ r.n \in Nat /\ r.n <= count[r.from]
        BY <1>2, <3>2 DEF FlowInv, Origins, Recs
      <4> QED
        BY <2>3, <2>4, <4>1
    <3> QED
      BY <1>1, <3>1, <3>2 DEF FlowInv, Origins
  <2>6. ASSUME NEW g \in Handlers, Busy(g)'
        PROVE  /\ last[g] < count'[g]
               /\ \A r \in OnTheWay : r.from = g => r.n < count'[g]
    <3>1. CASE g = h
      <4>1. count'[h] = count[h] + 1
        BY <1>2, <2>1 DEF FlowInv, FlowTypes
      <4>2. last[h] <= count[h]
        BY <1>2 DEF FlowInv, Origins
      <4>3. \A r \in OnTheWay : r.from = h => r.n \in Nat /\ r.n <= count[h]
        BY <1>2 DEF FlowInv, Origins, Recs
      <4> QED
        BY <1>2, <2>4, <3>1, <4>1, <4>2, <4>3
    <3>2. CASE g # h
      <4>1. Busy(g) /\ count'[g] = count[g]
        BY <2>1, <2>6, <3>2 DEF Busy, FlowInv, FlowTypes, Receivers
      <4> QED
        BY <4>1 DEF FlowInv, InOrderOnce
    <3> QED
      BY <3>1, <3>2
  <2> QED
    BY <1>1, <2>2, <2>5, <2>6 DEF FlowInv, InOrderOnce
<1> QED
  BY <1>3, <1>4

\* A record at the end of the queue that is newer than what is on its way.
LEMMA AppendKeeps ==
  ASSUME IngestAssumption, FlowInv, NEW r \in Rec,
         queue' = Append(queue, r), UNCHANGED <<count, item, last, at>>,
         place' \in [Handlers -> {"away", "read", "put", "evict", "retry"}],
         \A g \in Handlers : Busy(g)' => Busy(g) /\ (r # Nothing => g # r.from),
         r # Nothing => r.from \in Handlers /\ Busy(r.from)
                        /\ r.n = count[r.from]
  PROVE  FlowInv'
<1>1. /\ Len(queue') = Len(queue) + 1 /\ Len(queue) \in Nat
      /\ queue' \in Seq(Rec) /\ queue'[Len(queue) + 1] = r
      /\ \A i \in 1..Len(queue) : queue'[i] = queue[i]
  BY AppendProperties, LenProperties DEF FlowInv, FlowTypes
<1>2. \A i \in 1..Len(queue') : i \in 1..Len(queue) \/ i = Len(queue) + 1
  BY <1>1
<1>3. FlowTypes'
  BY <1>1 DEF FlowInv, FlowTypes
<1>4. OnTheWay' = OnTheWay \cup ({r} \ {Nothing})
  BY <1>1, <1>2 DEF OnTheWay
<1>5. r # Nothing => \A t \in OnTheWay : t.from = r.from => t.n < r.n
  BY DEF FlowInv, InOrderOnce
<1>6. Origins'
  <2>1. r # Nothing => r.n <= count[r.from]
    BY DEF Rec, Recs
  <2> QED
    BY <1>1, <1>2, <1>4, <2>1 DEF FlowInv, Origins
<1>7. \A t \in OnTheWay' : last[t.from] < t.n
  BY <1>4 DEF FlowInv, InOrderOnce
<1>8. ASSUME NEW i \in 1..Len(queue'), NEW j \in 1..Len(queue'), i < j
      PROVE  Ahead(queue'[i], queue'[j])
  <2>1. i \in 1..Len(queue)
    BY <1>1, <1>2, <1>8
  <2>2. CASE j \in 1..Len(queue)
    BY <1>1, <1>8, <2>1, <2>2 DEF FlowInv, InOrderOnce
  <2>3. CASE j = Len(queue) + 1
    <3>1. queue[i] # Nothing => queue[i] \in OnTheWay
      BY <2>1 DEF OnTheWay
    <3> QED
      BY <1>1, <1>5, <2>1, <2>3, <3>1 DEF Ahead
  <2> QED
    BY <1>2, <2>2, <2>3
<1>9. ASSUME NEW w \in Writers, NEW i \in 1..Len(queue')
      PROVE  Ahead(item[w], queue'[i])
  <2>1. CASE i \in 1..Len(queue)
    BY <1>1, <2>1 DEF FlowInv, InOrderOnce
  <2>2. CASE i = Len(queue) + 1
    <3>1. item[w] # Nothing => item[w] \in OnTheWay
      BY DEF OnTheWay
    <3> QED
      BY <1>1, <1>5, <2>2, <3>1 DEF Ahead
  <2> QED
    BY <1>2, <2>1, <2>2
<1>10. ASSUME NEW g \in Handlers, Busy(g)'
       PROVE  /\ last[g] < count[g]
              /\ \A t \in OnTheWay' : t.from = g => t.n < count[g]
  BY <1>4, <1>10 DEF FlowInv, InOrderOnce
<1> QED
  BY <1>3, <1>6, <1>7, <1>8, <1>9, <1>10 DEF FlowInv, InOrderOnce

\* The oldest record goes, to the writer or nowhere.
LEMMA TailKeeps ==
  ASSUME IngestAssumption, FlowInv, queue # <<>>, queue' = Tail(queue),
         UNCHANGED <<count, last>>,
         place' \in [Handlers -> {"away", "read", "put", "evict", "retry"}],
         \A g \in Handlers : Busy(g)' => Busy(g),
         at' \in [Writers -> {"get", "look", "write", "gone"}],
         \/ UNCHANGED <<item, at>>
         \/ item' = item /\ at' = [at EXCEPT !["bag"] = "gone"]
         \/ /\ item' = [item EXCEPT !["bag"] = Head(queue)]
            /\ Head(queue) # Nothing /\ at' = [at EXCEPT !["bag"] = "look"]
  PROVE  FlowInv'
<1>1. /\ Len(queue') = Len(queue) - 1 /\ Len(queue) \in Nat /\ Len(queue) >= 1
      /\ queue' \in Seq(Rec) /\ Head(queue) = queue[1] /\ Head(queue) \in Rec
      /\ \A i \in 1..Len(queue') : queue'[i] = queue[i + 1]
  <2>1. queue \in Seq(Rec)
    BY DEF FlowInv, FlowTypes
  <2> QED
    BY <2>1, HeadTailProperties, LenProperties, EmptySeq
<1>2. /\ 1 \in 1..Len(queue)
      /\ \A i \in 1..Len(queue') : i + 1 \in 1..Len(queue) /\ 1 < i + 1
  BY <1>1
<1>3. FlowTypes'
  <2>1. /\ item \in [Writers -> Rec] /\ "bag" \in Writers
        /\ at \in [Writers -> {"get", "look", "write", "gone"}]
        /\ \A w \in Writers : at[w] \in {"look", "write"} => item[w] # Nothing
    BY DEF FlowInv, FlowTypes, Writers
  <2>2. item' \in [Writers -> Rec]
    BY <1>1, <2>1
  <2>3. \A w \in Writers : at'[w] \in {"look", "write"} => item'[w] # Nothing
    BY <1>1, <2>1
  <2> QED
    BY <1>1, <2>2, <2>3 DEF FlowInv, FlowTypes
<1>4. /\ \A p \in Posters : item'[p] = item[p]
      /\ item'["bag"] = item["bag"] \/ item'["bag"] = queue[1]
  BY <1>1 DEF FlowInv, FlowTypes, Writers, IngestAssumption
<1>5. OnTheWay' \subseteq OnTheWay
  <2>1. \A w \in Writers : item'[w] = item[w] \/ item'[w] = queue[1]
    BY <1>4 DEF Writers
  <2> QED
    BY <1>1, <1>2, <2>1 DEF OnTheWay
<1>6. Origins'
  BY <1>1, <1>2, <1>5, <1>4 DEF FlowInv, Origins
<1>7. \A t \in OnTheWay' : last[t.from] < t.n
  BY <1>5 DEF FlowInv, InOrderOnce
<1>8. \A i, j \in 1..Len(queue') : i < j => Ahead(queue'[i], queue'[j])
  <2>1. ASSUME NEW i \in 1..Len(queue'), NEW j \in 1..Len(queue'), i < j
        PROVE  Ahead(queue[i + 1], queue[j + 1])
    <3>1. i + 1 < j + 1
      BY <1>1, <2>1
    <3> QED
      BY <1>2, <3>1 DEF FlowInv, InOrderOnce
  <2> QED
    BY <1>1, <2>1
<1>9. ASSUME NEW w \in Writers, NEW i \in 1..Len(queue')
      PROVE  Ahead(item'[w], queue'[i])
  <2>1. Ahead(item[w], queue[i + 1]) /\ Ahead(queue[1], queue[i + 1])
    BY <1>2 DEF FlowInv, InOrderOnce
  <2>2. item'[w] = item[w] \/ item'[w] = queue[1]
    BY <1>4 DEF Writers
  <2> QED
    BY <1>1, <2>1, <2>2
<1>10. \A v, w \in Writers : v # w => Ahead(item'[v], item'[w])
  BY <1>6 DEF Origins, Ahead, IngestAssumption, Writers
<1>11. ASSUME NEW g \in Handlers, Busy(g)'
       PROVE  /\ last[g] < count[g]
              /\ \A t \in OnTheWay' : t.from = g => t.n < count[g]
  BY <1>5, <1>11 DEF FlowInv, InOrderOnce
<1> QED
  BY <1>3, <1>6, <1>7, <1>8, <1>9, <1>10, <1>11 DEF FlowInv, InOrderOnce

\* A writer's hands become empty, and the disk may have what was in them.
LEMMA DoneKeeps ==
  ASSUME IngestAssumption, FlowInv, NEW w \in Writers, Done(w),
         UNCHANGED <<place, count, queue>>,
         \/ UNCHANGED last
         \/ item[w] # Nothing /\ last' = [last EXCEPT ![item[w].from] = item[w].n]
  PROVE  FlowInv'
<1>1. /\ item \in [Writers -> Rec] /\ item' = [item EXCEPT ![w] = Nothing]
      /\ at' = [at EXCEPT ![w] = "get"]
      /\ at \in [Writers -> {"get", "look", "write", "gone"}]
      /\ last \in [Receivers -> Nat] /\ count \in [Receivers -> Nat]
  BY DEF Done, FlowInv, FlowTypes
<1>2. \A v \in Writers : item'[v] = (IF v = w THEN Nothing ELSE item[v])
  BY <1>1
<1>3. item[w] # Nothing => item[w].from \in Receivers /\ item[w].n \in Nat
  BY <1>1 DEF Rec, Recs
<1>4. OnTheWay' \subseteq OnTheWay
  BY <1>2 DEF OnTheWay
<1>5. item[w] # Nothing => item[w] \in OnTheWay
  BY DEF OnTheWay
<1>6. last' \in [Receivers -> Nat]
  BY <1>1, <1>3
<1>7. \A s \in Receivers : \/ last'[s] = last[s]
                         \/ /\ item[w] # Nothing /\ s = item[w].from
                            /\ last'[s] = item[w].n
  BY <1>1
<1>8. FlowTypes'
  <2>1. \A v \in Writers : at'[v] \in {"look", "write"} =>
          v # w /\ at[v] \in {"look", "write"}
    BY <1>1
  <2>2. \A v \in Writers : at'[v] \in {"look", "write"} => item'[v] # Nothing
    BY <1>2, <2>1 DEF FlowInv, FlowTypes
  <2>3. item' \in [Writers -> Rec]
    BY <1>1, OnTheWayAre DEF FlowInv
  <2> QED
    BY <1>1, <1>6, <2>2, <2>3 DEF FlowInv, FlowTypes
<1>9. Origins'
  <2>1. \A s \in Receivers : last'[s] <= count[s]
    BY <1>5, <1>7 DEF FlowInv, Origins
  <2>2. /\ item'["bag"] # Nothing => item'["bag"].from \in Handlers
        /\ \A p \in Posters : item'[p] # Nothing => item'[p].from = p
    BY <1>2 DEF FlowInv, Origins, Writers
  <2> QED
    BY <1>4, <2>1, <2>2 DEF FlowInv, Origins
<1>10. ASSUME NEW r \in OnTheWay'
       PROVE  last'[r.from] < r.n
  <2>1. r \in OnTheWay /\ r.from \in Receivers /\ last[r.from] < r.n
    BY <1>4, OnTheWayAre DEF FlowInv, InOrderOnce, Recs
  <2>2. CASE item[w] # Nothing /\ r.from = item[w].from
             /\ last'[r.from] = item[w].n
    <3>1. CASE \E v \in Writers : r = item'[v] /\ r # Nothing
      <4>1. PICK v \in Writers : r = item'[v]
        BY <3>1
      <4>2. r = item[v] /\ v # w
        BY <1>2, <3>1, <4>1
      <4>3. Ahead(item[w], item[v])
        BY <4>2 DEF FlowInv, InOrderOnce, Writers
      <4> QED
        BY <2>2, <3>1, <4>2, <4>3 DEF Ahead
    <3>2. CASE \E i \in 1..Len(queue) : r = queue[i] /\ r # Nothing
      BY <2>2, <3>2 DEF FlowInv, InOrderOnce, Ahead
    <3> QED
      BY <3>1, <3>2 DEF OnTheWay
  <2> QED
    BY <1>7, <2>1, <2>2
<1>11. \A v \in Writers, i \in 1..Len(queue) : Ahead(item'[v], queue[i])
  BY <1>2 DEF FlowInv, InOrderOnce, Ahead
<1>12. \A u, v \in Writers : u # v => Ahead(item'[u], item'[v])
  BY <1>9 DEF Origins, Ahead, IngestAssumption, Writers
<1>13. ASSUME NEW g \in Handlers, Busy(g)'
       PROVE  /\ last'[g] < count[g]
              /\ \A t \in OnTheWay' : t.from = g => t.n < count[g]
  <2>1. Busy(g) /\ g \in Receivers
    BY <1>13 DEF Busy, Receivers
  <2> QED
    BY <1>4, <1>5, <1>7, <2>1 DEF FlowInv, InOrderOnce
<1> QED
  BY <1>8, <1>9, <1>10, <1>11, <1>12, <1>13 DEF FlowInv, InOrderOnce

\* A post takes a record that is newer than its thread's last.
LEMMA PostKeeps ==
  ASSUME IngestAssumption, FlowInv, NEW p \in Posters, Post(p)
  PROVE  FlowInv'
<1> DEFINE r == Record(p, count[p] + 1)
<1>1. /\ item \in [Writers -> Rec] /\ count \in [Receivers -> Nat]
      /\ at \in [Writers -> {"get", "look", "write", "gone"}]
      /\ p \in Receivers /\ last \in [Receivers -> Nat]
      /\ p \in Writers /\ p # "bag" /\ p \notin Handlers
  BY DEF FlowInv, FlowTypes, Receivers, Writers, IngestAssumption
<1>2. /\ count' = [count EXCEPT ![p] = count[p] + 1]
      /\ item' = [item EXCEPT ![p] = r] /\ at' = [at EXCEPT ![p] = "look"]
      /\ UNCHANGED <<place, queue, last>>
  BY DEF Post, slotVars
<1>3. r \in Recs /\ r \in Rec /\ r # Nothing /\ r.from = p /\ r.n = count[p] + 1
  BY <1>1 DEF Record, Rec, Recs, Nothing, Sentinel
<1> HIDE DEF r
<1>4. /\ item'[p] = r /\ item'["bag"] = item["bag"]
      /\ \A v \in Writers : v # p => item'[v] = item[v]
  BY <1>1, <1>2 DEF Writers
<1>5. OnTheWay' \subseteq OnTheWay \cup {r}
  BY <1>2, <1>4 DEF OnTheWay
<1>6. /\ count' \in [Receivers -> Nat]
      /\ \A s \in Receivers : s # p => count'[s] = count[s]
      /\ count'[p] = count[p] + 1
  BY <1>1, <1>2
<1>7. FlowTypes'
  BY ZenonT(60), <1>1, <1>2, <1>3, <1>4, <1>6 DEF FlowInv, FlowTypes
<1>8. Origins'
  <2>1. ASSUME NEW s \in Receivers
        PROVE  last[s] <= count'[s] /\ count[s] <= count'[s]
    <3>1. last[s] \in Nat /\ count[s] \in Nat /\ last[s] <= count[s]
      BY <1>1 DEF FlowInv, Origins
    <3>2. count'[s] = count[s] \/ count'[s] = count[s] + 1
      BY <1>6
    <3> QED
      BY <3>1, <3>2
  <2>2. ASSUME NEW t \in OnTheWay'
        PROVE  t.n <= count'[t.from]
    <3>1. CASE t = r
      BY <1>1, <1>3, <1>6, <3>1
    <3>2. CASE t \in OnTheWay
      <4>1. t.from \in Receivers /\ t.n \in Nat /\ t.n <= count[t.from]
        BY <3>2, OnTheWayAre DEF FlowInv, Origins, Recs
      <4> QED
        BY <1>1, <1>6, <2>1, <4>1
    <3> QED
      BY <1>5, <3>1, <3>2
  <2> QED
    BY <1>2, <1>3, <1>4, <2>1, <2>2 DEF FlowInv, Origins
<1>9. ASSUME NEW t \in OnTheWay'
      PROVE  last[t.from] < t.n
  <2>1. last[p] < r.n
    BY <1>1, <1>3 DEF FlowInv, Origins
  <2> QED
    BY <1>3, <1>5, <2>1 DEF FlowInv, InOrderOnce
<1>10. ASSUME NEW i \in 1..Len(queue)
       PROVE  Ahead(r, queue[i])
  BY <1>1, <1>3 DEF FlowInv, Origins, Ahead
<1>11. \A u, v \in Writers : u # v => Ahead(item'[u], item'[v])
  <2>1. \A v \in Writers : v # p => Ahead(item[v], r) /\ Ahead(r, item[v])
    BY <1>1, <1>3 DEF FlowInv, Origins, Ahead, Writers
  <2> QED
    BY <1>4, <2>1 DEF FlowInv, InOrderOnce
<1>12. ASSUME NEW g \in Handlers, Busy(g)'
       PROVE  /\ last[g] < count'[g]
              /\ \A t \in OnTheWay' : t.from = g => t.n < count'[g]
  <2>1. Busy(g) /\ g # p /\ count'[g] = count[g]
    BY <1>2, <1>6, <1>12 DEF Busy, IngestAssumption, Receivers
  <2> QED
    BY <1>3, <1>5, <2>1 DEF FlowInv, InOrderOnce
<1>13. \A v \in Writers, i \in 1..Len(queue) : Ahead(item'[v], queue'[i])
  BY <1>2, <1>4, <1>10 DEF FlowInv, InOrderOnce
<1> QED
  BY <1>2, <1>4, <1>7, <1>8, <1>9, <1>11, <1>12, <1>13 DEF FlowInv, InOrderOnce

\* A step that touches no record.
LEMMA ElseKeeps ==
  ASSUME FlowInv, UNCHANGED <<place, count, queue, item, last>>,
         at' \in [Writers -> {"get", "look", "write", "gone"}],
         \A w \in Writers :
           at'[w] \in {"look", "write"} => at[w] \in {"look", "write"}
  PROVE  FlowInv'
<1>1. OnTheWay' = OnTheWay /\ \A g \in Handlers : Busy(g)' = Busy(g)
  BY DEF OnTheWay, Busy
<1> QED
  BY <1>1 DEF FlowInv, FlowTypes, Origins, InOrderOnce

\* Puts, evictions and writes keep the records of every stream in order.
LEMMA FlowKept ==
  ASSUME IngestAssumption, FlowInv, [Next]_vars
  PROVE  FlowInv'
<1>1. at \in [Writers -> {"get", "look", "write", "gone"}]
  BY DEF FlowInv, FlowTypes
<1>2. CASE UNCHANGED <<place, count, queue, item, last, at>>
  BY <1>1, <1>2, ElseKeeps
<1>3. CASE UNCHANGED vars
  BY <1>2, <1>3 DEF vars, threadVars, writerVars
<1>4. CASE Stop \/ ListenersJoined \/ WriterJoined \/ SlotStep
  BY <1>2, <1>4 DEF Stop, ListenersJoined, WriterJoined, SlotStep, BeginStart,
     BeginStop, CloseOld, OpenNew, OpenFails, CloseLast, Clear, slotFrame,
     threadVars, writerVars
<1>5. ASSUME NEW h \in Handlers, HandlerStep(h)
      PROVE  FlowInv'
  <2>1. CASE Connect(h) \/ Disconnect(h) \/ Arrive(h)
    BY <2>1, ArriveKeeps
  <2>2. CASE Put(h) \/ Retry(h)
    <3>1. /\ Busy(h) /\ UNCHANGED <<count, item, last, at>>
          /\ \E to \in {"evict", "read"} : place' = [place EXCEPT ![h] = to]
          /\ \/ queue' = queue
             \/ queue' = Append(queue, InHand(h)) /\ place'[h] = "read"
      BY <2>2 DEF Put, Retry, Busy, otherVars, writerVars, FlowInv, FlowTypes
    <3>2. /\ place' \in [Handlers -> {"away", "read", "put", "evict", "retry"}]
          /\ \A g \in Handlers : Busy(g)' => Busy(g)
          /\ place'[h] = "read" => \A g \in Handlers : Busy(g)' => g # h
      BY <3>1 DEF Busy, FlowInv, FlowTypes
    <3>3. CASE queue' = queue
      <4>1. OnTheWay' = OnTheWay
        BY <3>1, <3>3 DEF OnTheWay
      <4> QED
        BY <3>1, <3>2, <3>3, <4>1
           DEF FlowInv, FlowTypes, Origins, InOrderOnce
    <3>4. CASE queue' = Append(queue, InHand(h)) /\ place'[h] = "read"
      <4>1. InHand(h) \in Rec /\ InHand(h).from = h /\ InHand(h).n = count[h]
        BY DEF InHand, Record, Rec, Recs, Receivers, FlowInv, FlowTypes
      <4> QED
        BY <3>1, <3>2, <3>4, <4>1, AppendKeeps
    <3> QED
      BY <3>1, <3>3, <3>4
  <2>3. CASE EvictOldest(h)
    <3>1. /\ UNCHANGED <<count, item, last, at>>
          /\ queue' = (IF queue = <<>> THEN queue ELSE Tail(queue))
          /\ place' \in [Handlers -> {"away", "read", "put", "evict", "retry"}]
          /\ \A g \in Handlers : Busy(g)' => Busy(g)
      BY <2>3 DEF EvictOldest, Busy, otherVars, writerVars, FlowInv, FlowTypes
    <3>2. CASE queue = <<>>
      <4>1. OnTheWay' = OnTheWay
        BY <3>1, <3>2 DEF OnTheWay
      <4> QED
        BY <3>1, <3>2, <4>1 DEF FlowInv, FlowTypes, Origins, InOrderOnce
    <3>3. CASE queue # <<>>
      BY <1>1, <3>1, <3>3, TailKeeps
    <3> QED
      BY <3>2, <3>3
  <2> QED
    BY <1>5, <2>1, <2>2, <2>3 DEF HandlerStep, Enqueue
<1>6. CASE PutSentinel
  <2>1. /\ queue' = Append(queue, Nothing)
        /\ UNCHANGED <<place, count, item, last, at>>
    BY <1>6 DEF PutSentinel, Nothing, writerVars
  <2>2. /\ place' \in [Handlers -> {"away", "read", "put", "evict", "retry"}]
        /\ Nothing \in Rec
    BY <2>1, OnTheWayAre DEF FlowInv, FlowTypes
  <2>3. \A g \in Handlers : Busy(g)' => Busy(g)
    BY <2>1 DEF Busy
  <2> QED
    BY <2>1, <2>2, <2>3, AppendKeeps
<1>7. CASE Get
  <2>1. /\ queue # <<>> /\ queue' = Tail(queue) /\ UNCHANGED <<place, count, last>>
        /\ \/ item' = item /\ at' = [at EXCEPT !["bag"] = "gone"]
           \/ /\ item' = [item EXCEPT !["bag"] = Head(queue)]
              /\ Head(queue) # Nothing /\ at' = [at EXCEPT !["bag"] = "look"]
    BY <1>7 DEF Get, Nothing
  <2>2. /\ place' \in [Handlers -> {"away", "read", "put", "evict", "retry"}]
        /\ \A g \in Handlers : Busy(g)' => Busy(g)
        /\ at' \in [Writers -> {"get", "look", "write", "gone"}]
    BY <1>1, <2>1 DEF Busy, FlowInv, FlowTypes
  <2> QED
    BY <2>1, <2>2, TailKeeps
<1>8. ASSUME NEW w \in Writers, Look(w) \/ Write(w) \/ WriteFails(w)
      PROVE  FlowInv'
  <2>1. UNCHANGED <<place, count, queue>>
    BY <1>8 DEF Look, Write, WriteFails, threadVars
  <2>2. CASE Done(w) /\ UNCHANGED last
    BY <2>1, <2>2, DoneKeeps
  <2>3. CASE Write(w)
    <3>1. Done(w) /\ last' = [last EXCEPT ![item[w].from] = item[w].n]
          /\ item[w] # Nothing
      BY <2>3 DEF Write, FlowInv, FlowTypes
    <3> QED
      BY <2>1, <3>1, DoneKeeps
  <2>4. CASE Look(w) /\ ~Done(w)
    <3>1. /\ at' = [at EXCEPT ![w] = "write"] /\ at[w] = "look"
          /\ UNCHANGED <<item, last>>
      BY <2>4 DEF Look
    <3> QED
      BY <1>1, <2>1, <3>1, ElseKeeps
  <2> QED
    BY <1>8, <2>2, <2>3, <2>4 DEF Look, WriteFails
<1>9. CASE BagWriterStep \/ PostStep
  BY <1>7, <1>8, <1>9, PostKeeps DEF BagWriterStep, PostStep, Writers
<1> QED
  BY <1>3, <1>4, <1>5, <1>6, <1>9 DEF Next, ServerStep

\* The records of a connection reach the disk in order, none twice.
THEOREM RecordsInOrder == Spec => []InOrderOnce
<1>1. Init => FlowInv
  <2>1. SUFFICES ASSUME Init PROVE FlowInv
    OBVIOUS
  <2>2. /\ queue = <<>> /\ Len(queue) = 0 /\ queue \in Seq(Rec)
        /\ Nothing \in Rec
    BY <2>1, EmptySeq DEF Init, Nothing, Sentinel, Rec, Receivers
  <2>3. OnTheWay = {}
    BY <2>1, <2>2 DEF Init, OnTheWay
  <2>4. FlowTypes
    BY <2>1, <2>2 DEF Init, FlowTypes
  <2>5. Origins /\ InOrderOnce
    BY <2>1, <2>2, <2>3
       DEF Init, Origins, InOrderOnce, Busy, Ahead, Writers
  <2> QED
    BY <2>4, <2>5 DEF FlowInv
<1>2. FlowInv /\ [Next]_vars => FlowInv'
  BY IngestAssumption, FlowKept
<1>3. FlowInv => InOrderOnce
  BY DEF FlowInv
<1> QED
  BY <1>1, <1>2, <1>3, PTL DEF Spec
=============================================================================
