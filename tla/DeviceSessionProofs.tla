------------------------- MODULE DeviceSessionProofs -------------------------
(***************************************************************************)
(* For any callers, calls, connections and messages in flight: what is     *)
(* pending belongs to the holder of _call_lock, answers reach their own    *)
(* calls, and a disconnect fails calls of dead connections only.           *)
(*                                                                         *)
(* The caller and the reader both write _pending, without a common lock.   *)
(* Two facts keep them apart: an id that was pending once is never pending *)
(* again, and every connection that the reader has left is dead.           *)
(***************************************************************************)
EXTENDS DeviceSession, SequenceTheorems, TLAPS

InLoop == reader \in {"read", "unpend", "wake"}

\* One caller at a time, with an id of its own and a connection that was
\* accepted before.
LockInv ==
  /\ \A c, d \in Callers : place[c] # "idle" /\ place[d] # "idle" => c = d
  /\ \A c \in Callers : IF place[c] = "idle" THEN rid[c] = 0
                          ELSE rid[c] \in 1..(nextId - 1)
  /\ \A r \in Ids : IF r < nextId THEN via[r] \in 1..accepted
                                 ELSE data[r] = 0

\* An id is pending from SetPending on and before it is answered: it is new
\* when the caller sets it, and over when the reader has taken it.
PendingInv ==
  /\ PendingIsHeld
  /\ held < nextId /\ \A r \in woken : r < nextId
  /\ \A c \in Callers :
       place[c] = "pend" => /\ pending = 0
                            /\ rid[c] \notin woken /\ rid[c] # held
  /\ pending \notin woken
  /\ reader \in {"unpend", "wake", "failClear", "failWake"} => held # 0
  /\ reader \in {"wake", "failWake"} => held # pending

\* The reader reads the last connection accepted; those before it are dead.
ConnInv ==
  /\ reader # "accept" => accepted # 0
  /\ conn # 0 => conn = accepted /\ InLoop
  /\ \A k \in 1..accepted : k \in ended \/ (k = accepted /\ InLoop)
  /\ reader \in {"failClear", "failWake"} => via[held] \in ended

LinkInv ==
  /\ dev # "dial" => sock # 0
  /\ dev = "work" => doing # 0

Inv ==
  /\ HostTypes /\ AnswerTypes /\ DeviceTypes /\ NetTypes
  /\ LockInv /\ PendingInv /\ ConnInv /\ LinkInv
  /\ OwnAnswers /\ FailsOnlyDead

-----------------------------------------------------------------------------
USE BoundAssumption DEF Ids, Conns

\* Taking a message leaves shorter messages of the same kind behind.
LEMMA Taken ==
  ASSUME NEW S, NEW s \in Seq(S), s # <<>>
  PROVE  Head(s) \in S /\ Tail(s) \in Seq(S) /\ Len(Tail(s)) <= Len(s)
BY HeadTailProperties, LenProperties

\* A prefix of a sequence is one of its type, and no longer.
LEMMA Prefix ==
  ASSUME NEW S, NEW s \in Seq(S), NEW n \in 0..Len(s)
  PROVE  SubSeq(s, 1, n) \in Seq(S) /\ Len(SubSeq(s, 1, n)) <= Len(s)
<1>1. Len(s) \in Nat /\ n \in Int /\ n <= Len(s) /\ 1 \in Int
  BY LenProperties
<1>2. \A i \in 1..n : s[i] \in S
  BY <1>1, ElementOfSeq
<1>3. /\ SubSeq(s, 1, n) \in Seq(S)
      /\ Len(SubSeq(s, 1, n)) = IF 1 <= n THEN n - 1 + 1 ELSE 0
  BY <1>1, <1>2, SubSeqProperties
<1> QED
  BY <1>1, <1>3

\* An answer is a message about a call.
LEMMA AnswerHasId ==
  ASSUME HostTypes, NetTypes, ConnInv, NEW kind, Incoming(kind)
  PROVE  /\ accepted \in Conns
         /\ toHost[accepted] \in Seq(Messages)
         /\ Head(toHost[accepted]) \in Messages
         /\ kind # "event" => TheId \in Ids
         /\ toHost' \in [Conns -> Seq(Messages)]
         /\ \A k \in Conns : Len(toHost'[k]) <= MaxFlight
<1>1. accepted \in Conns /\ toHost[accepted] \in Seq(Messages)
  BY DEF HostTypes, NetTypes, ConnInv, Incoming
<1>2. /\ Head(toHost[accepted]) \in Messages
      /\ Tail(toHost[accepted]) \in Seq(Messages)
      /\ Len(Tail(toHost[accepted])) <= Len(toHost[accepted])
  BY <1>1, Taken DEF Incoming
<1>3. kind # "event" => TheId \in Ids
  BY <1>2 DEF Messages, TheId, Incoming
<1>4. /\ toHost' \in [Conns -> Seq(Messages)]
      /\ \A k \in Conns : Len(toHost'[k]) <= MaxFlight
  <2>1. Len(Tail(toHost[accepted])) <= MaxFlight
    <3>1. Len(Tail(toHost[accepted])) \in Nat /\ Len(toHost[accepted]) \in Nat
      BY <1>1, <1>2, LenProperties
    <3>2. Len(toHost[accepted]) <= MaxFlight
      BY <1>1 DEF NetTypes
    <3> QED
      BY <1>2, <3>1, <3>2
  <2>2. toHost' = [toHost EXCEPT ![accepted] = Tail(toHost[accepted])]
    BY DEF Incoming
  <2>3. toHost \in [Conns -> Seq(Messages)]
    BY DEF NetTypes
  <2>4. \A k \in Conns : Len(toHost[k]) <= MaxFlight
    BY DEF NetTypes
  <2>5. toHost' \in [Conns -> Seq(Messages)]
    BY <1>1, <1>2, <2>2, <2>3
  <2>6. ASSUME NEW k \in Conns
        PROVE  Len(toHost'[k]) <= MaxFlight
    <3>1. CASE k = accepted
      BY <3>1, <2>1, <2>2, <2>3
    <3>2. CASE k # accepted
      BY <3>2, <2>2, <2>3, <2>4
    <3> QED
      BY <3>1, <3>2
  <2> QED
    BY <2>5, <2>6
<1> QED
  BY <1>1, <1>2, <1>3, <1>4

\* What the device sends fits.
LEMMA EmitKeepsTypes ==
  ASSUME DeviceTypes, NetTypes, sock # 0, NEW kind, NEW id,
         Message(kind, id) \in Messages, Emit(kind, id)
  PROVE  /\ toHost' \in [Conns -> Seq(Messages)]
         /\ \A k \in Conns : Len(toHost'[k]) <= MaxFlight
<1>1. sock \in Conns /\ toHost[sock] \in Seq(Messages)
  BY DEF DeviceTypes, NetTypes
<1>2. LET t == Append(toHost[sock], Message(kind, id))
      IN t \in Seq(Messages) /\ Len(t) = Len(toHost[sock]) + 1
  BY <1>1, AppendProperties
<1>3. Len(toHost[sock]) \in Nat
  BY <1>1, LenProperties
<1> QED
  BY <1>1, <1>2, <1>3 DEF NetTypes, Emit

\* The device and the path only matter by the connections they end.
LEMMA HostKept ==
  ASSUME LockInv, PendingInv, ConnInv, OwnAnswers, FailsOnlyDead,
         UNCHANGED hostVars, ended \subseteq ended'
  PROVE  /\ LockInv' /\ PendingInv' /\ ConnInv'
         /\ OwnAnswers' /\ FailsOnlyDead'
BY DEF LockInv, PendingInv, PendingIsHeld, Active, ConnInv, InLoop, OwnAnswers,
       FailsOnlyDead, hostVars, callVars, answerVars, readerVars

\* The initial state satisfies the invariant.
LEMMA InitInv == Init => Inv
BY DEF Init, Inv, HostTypes, AnswerTypes, DeviceTypes, NetTypes, LockInv,
       PendingInv, PendingIsHeld, Active, ConnInv, InLoop, LinkInv, OwnAnswers,
       FailsOnlyDead, Lost, Messages, PartKinds

\* A step of a caller keeps the invariant.
LEMMA CallKeepsInv ==
  ASSUME Inv, NEW c \in Callers, CallStep(c)
  PROVE  Inv'
<1>0. /\ HostTypes /\ AnswerTypes /\ DeviceTypes /\ NetTypes /\ LockInv
      /\ PendingInv /\ ConnInv /\ LinkInv /\ OwnAnswers /\ FailsOnlyDead
  BY DEF Inv
<1>1. /\ UNCHANGED answerVars /\ UNCHANGED readerVars
      /\ UNCHANGED deviceVars /\ UNCHANGED <<toHost, gone, ended>>
  BY DEF CallStep, Begin, SetPending, Send, SendFails, Return, TimeOut, GiveUp,
         netVars
<1>2. AnswerTypes' /\ DeviceTypes' /\ LinkInv' /\ OwnAnswers'
  BY <1>0, <1>1 DEF AnswerTypes, DeviceTypes, LinkInv, OwnAnswers, answerVars,
       readerVars, deviceVars
<1>3. NetTypes'
  <2>1. CASE Send(c)
    <3>1. rid[c] \in Ids /\ via[rid[c]] \in 0..MaxConns
      BY <1>0, <2>1 DEF Send, HostTypes, LockInv
    <3>2. CASE via[rid[c]] \in gone \cup ended
      BY <1>0, <1>1, <2>1, <3>2 DEF Send, NetTypes
    <3>3. CASE via[rid[c]] \notin gone \cup ended
      <4>1. toDev' \in [Conns -> Seq(Ids)]
        <5>1. ASSUME NEW k \in Conns
              PROVE  Append(toDev[k], rid[c]) \in Seq(Ids)
          BY <1>0, <3>1, AppendProperties DEF NetTypes
        <5> QED
          BY <1>0, <2>1, <3>3, <5>1 DEF Send, NetTypes
      <4> QED
        BY <1>0, <1>1, <4>1 DEF NetTypes
    <3> QED
      BY <3>2, <3>3
  <2>2. CASE ~Send(c)
    <3>1. UNCHANGED toDev
      BY <2>2 DEF CallStep, Begin, SetPending, SendFails, Return, TimeOut,
             GiveUp, netVars
    <3> QED
      BY <1>0, <1>1, <3>1 DEF NetTypes
  <2> QED
    BY <2>1, <2>2
<1>4. ConnInv' /\ FailsOnlyDead'
  <2>1. CASE Begin(c)
    <3>1. held < nextId /\ nextId \in Ids
      BY <1>0, <2>1 DEF PendingInv, Begin, HostTypes
    <3>2. \A r \in Ids : r # nextId => via'[r] = via[r]
      BY <1>0, <2>1 DEF Begin, HostTypes
    <3>3. ConnInv'
      BY <1>0, <1>1, <3>1, <3>2 DEF ConnInv, InLoop, HostTypes, PendingInv,
           readerVars
    <3>4. data[nextId] = 0
      BY <1>0, <3>1 DEF LockInv
    <3>5. FailsOnlyDead'
      BY <1>0, <1>1, <3>1, <3>2, <3>4 DEF FailsOnlyDead, Lost, answerVars
    <3> QED
      BY <3>3, <3>5
  <2>2. CASE ~Begin(c)
    <3>1. UNCHANGED via
      BY <2>2 DEF CallStep, SetPending, Send, SendFails, Return, TimeOut, GiveUp
    <3>2. ConnInv'
      BY <1>0, <1>1, <3>1 DEF ConnInv, InLoop, readerVars
    <3>3. FailsOnlyDead'
      BY <1>0, <1>1, <3>1 DEF FailsOnlyDead, answerVars
    <3> QED
      BY <3>2, <3>3
  <2> QED
    BY <2>1, <2>2
<1>5. HostTypes' /\ LockInv' /\ PendingInv'
  <2> USE DEF Go, Leave, answerVars, readerVars
  <2>1. CASE Begin(c)
    <3>1. HostTypes'
      BY <1>0, <1>1, <2>1 DEF Begin, HostTypes, LockInv
    <3>2. LockInv'
      <4>1. \A d \in Callers : place[d] = "idle" /\ rid[d] = 0
        BY <1>0, <2>1 DEF Begin, LockInv
      <4>2. /\ place' = [place EXCEPT ![c] = "pend"]
            /\ rid' = [rid EXCEPT ![c] = nextId]
            /\ via' = [via EXCEPT ![nextId] = conn]
            /\ nextId' = nextId + 1 /\ nextId \in Ids
        BY <1>0, <2>1 DEF Begin, HostTypes
      <4>3. \A d, e \in Callers :
              place'[d] # "idle" /\ place'[e] # "idle" => d = e
        BY <1>0, <4>1, <4>2 DEF HostTypes
      <4>4. \A d \in Callers : IF place'[d] = "idle" THEN rid'[d] = 0
                                 ELSE rid'[d] \in 1..(nextId' - 1)
        BY <1>0, <4>1, <4>2 DEF HostTypes
      <4>5. conn \in 1..accepted
        BY <1>0, <2>1 DEF Begin, ConnInv, HostTypes
      <4>6. \A r \in Ids : IF r < nextId' THEN via'[r] \in 1..accepted
                                           ELSE data[r] = 0
        BY <1>0, <4>2, <4>5 DEF HostTypes, LockInv
      <4> QED
        BY <1>1, <4>3, <4>4, <4>6 DEF LockInv
    <3>3. PendingInv'
      BY <1>0, <1>1, <2>1 DEF Begin, HostTypes, LockInv, PendingInv,
           PendingIsHeld, Active
    <3> QED
      BY <3>1, <3>2, <3>3
  <2>2. CASE SetPending(c)
    <3>1. HostTypes'
      BY <1>0, <1>1, <2>2 DEF SetPending, HostTypes, LockInv
    <3>2. LockInv'
      BY <1>0, <1>1, <2>2 DEF SetPending, HostTypes, LockInv
    <3>3. PendingInv'
      <4>1. /\ place[c] = "pend" /\ place' = [place EXCEPT ![c] = "send"]
            /\ pending' = rid[c] /\ UNCHANGED <<rid, nextId>>
        BY <2>2 DEF SetPending
      <4>2. PendingIsHeld'
        BY <1>0, <4>1 DEF HostTypes, PendingIsHeld, Active
      <4>3. \A d \in Callers : place'[d] # "pend"
        BY <1>0, <4>1 DEF HostTypes, LockInv
      <4> QED
        BY <1>0, <1>1, <4>1, <4>2, <4>3 DEF PendingInv
    <3> QED
      BY <3>1, <3>2, <3>3
  <2>3. CASE Send(c)
    <3>1. HostTypes'
      BY <1>0, <1>1, <2>3 DEF Send, HostTypes, LockInv
    <3>2. LockInv'
      BY <1>0, <1>1, <2>3 DEF Send, HostTypes, LockInv
    <3>3. PendingInv'
      BY <1>0, <1>1, <2>3 DEF Send, HostTypes, LockInv, PendingInv,
           PendingIsHeld, Active
    <3> QED
      BY <3>1, <3>2, <3>3
  <2>4. CASE SendFails(c)
    <3>1. HostTypes'
      BY <1>0, <1>1, <2>4 DEF SendFails, HostTypes, LockInv
    <3>2. LockInv'
      BY <1>0, <1>1, <2>4 DEF SendFails, HostTypes, LockInv
    <3>3. PendingInv'
      <4>1. /\ place' = [place EXCEPT ![c] = "idle"] /\ pending' = 0
            /\ UNCHANGED nextId
            /\ \A d \in Callers : d # c => rid'[d] = rid[d]
        BY <1>0, <2>4 DEF SendFails, HostTypes
      <4>2. reader \in {"wake", "failWake"} => held # 0
        BY <1>0 DEF PendingInv
      <4> QED
        BY <1>0, <1>1, <4>1, <4>2 DEF HostTypes, PendingInv, PendingIsHeld
    <3> QED
      BY <3>1, <3>2, <3>3
  <2>5. CASE Return(c)
    <3>1. HostTypes'
      BY <1>0, <1>1, <2>5 DEF Return, HostTypes, LockInv
    <3>2. LockInv'
      BY <1>0, <1>1, <2>5 DEF Return, HostTypes, LockInv
    <3>3. PendingInv'
      BY <1>0, <1>1, <2>5 DEF Return, HostTypes, LockInv, PendingInv,
           PendingIsHeld, Active
    <3> QED
      BY <3>1, <3>2, <3>3
  <2>6. CASE TimeOut(c)
    <3>1. HostTypes'
      BY <1>0, <1>1, <2>6 DEF TimeOut, HostTypes, LockInv
    <3>2. LockInv'
      BY <1>0, <1>1, <2>6 DEF TimeOut, HostTypes, LockInv
    <3>3. PendingInv'
      BY <1>0, <1>1, <2>6 DEF TimeOut, HostTypes, LockInv, PendingInv,
           PendingIsHeld, Active
    <3> QED
      BY <3>1, <3>2, <3>3
  <2>7. CASE GiveUp(c)
    <3>1. HostTypes'
      BY <1>0, <1>1, <2>7 DEF GiveUp, HostTypes, LockInv
    <3>2. LockInv'
      BY <1>0, <1>1, <2>7 DEF GiveUp, HostTypes, LockInv
    <3>3. PendingInv'
      BY <1>0, <1>1, <2>7 DEF GiveUp, HostTypes, LockInv, PendingInv,
           PendingIsHeld, Active
    <3> QED
      BY <3>1, <3>2, <3>3
  <2> QED
    BY <2>1, <2>2, <2>3, <2>4, <2>5, <2>6, <2>7 DEF CallStep
<1> QED
  BY <1>2, <1>3, <1>4, <1>5 DEF Inv

\* A step of the reader keeps the invariant.
LEMMA ReaderKeepsInv ==
  ASSUME Inv, ReaderStep
  PROVE  Inv'
<1>0. /\ HostTypes /\ AnswerTypes /\ DeviceTypes /\ NetTypes /\ LockInv
      /\ PendingInv /\ ConnInv /\ LinkInv /\ OwnAnswers /\ FailsOnlyDead
  BY DEF Inv
<1>1. /\ UNCHANGED <<place, rid, via, nextId, toDev, gone, ended>>
      /\ UNCHANGED <<dev, sock, doing, sent, dials>>
  <2> USE DEF readFrame, callVars, deviceVars, netVars
  <2>1. CASE Accept
    BY <2>1 DEF Accept
  <2>2. CASE ReadEvent
    BY <2>2 DEF ReadEvent
  <2>3. CASE ReadImage
    BY <2>3 DEF ReadImage
  <2>4. CASE ReadChunk
    BY <2>4 DEF ReadChunk
  <2>5. CASE ReadReply
    BY <2>5 DEF ReadReply
  <2>6. CASE Unpend
    BY <2>6 DEF Unpend
  <2>7. CASE Wake
    BY <2>7 DEF Wake
  <2>8. CASE ReadEnds
    BY <2>8 DEF ReadEnds
  <2>9. CASE FailRead
    BY <2>9 DEF FailRead
  <2>10. CASE FailClear
    BY <2>10 DEF FailClear
  <2>11. CASE FailWake
    BY <2>11 DEF FailWake
  <2> QED
    BY <2>1, <2>2, <2>3, <2>4, <2>5, <2>6, <2>7, <2>8, <2>9, <2>10, <2>11
       DEF ReaderStep
<1>2. LinkInv'
  BY <1>0, <1>1 DEF LinkInv
<1>3. NetTypes'
  <2>1. ASSUME NEW kind, Incoming(kind)
        PROVE  NetTypes'
    <3>1. /\ toHost' \in [Conns -> Seq(Messages)]
          /\ \A k \in Conns : Len(toHost'[k]) <= MaxFlight
      BY <1>0, <2>1, AnswerHasId
    <3> QED
      BY <1>0, <1>1, <3>1 DEF NetTypes
  <2>2. CASE UNCHANGED toHost
    BY <1>0, <1>1, <2>2 DEF NetTypes
  <2>3. CASE ReadEvent
    BY <2>1, <2>3 DEF ReadEvent
  <2>4. CASE ReadImage
    BY <2>1, <2>4 DEF ReadImage
  <2>5. CASE ReadChunk
    BY <2>1, <2>5 DEF ReadChunk
  <2>6. CASE ReadReply
    BY <2>1, <2>6 DEF ReadReply
  <2>7. CASE Accept \/ Unpend \/ Wake \/ ReadEnds
    BY <2>2, <2>7 DEF Accept, Unpend, Wake, ReadEnds, netVars
  <2>8. CASE FailRead \/ FailClear \/ FailWake
    BY <2>2, <2>8 DEF FailRead, FailClear, FailWake
  <2> QED
    BY <2>3, <2>4, <2>5, <2>6, <2>7, <2>8 DEF ReaderStep
<1>4. /\ HostTypes' /\ AnswerTypes' /\ DeviceTypes' /\ LockInv' /\ PendingInv'
      /\ ConnInv' /\ OwnAnswers' /\ FailsOnlyDead'
  <2> USE DEF answerVars, readFrame
  <2>1. CASE Accept
    <3>1. HostTypes' /\ DeviceTypes'
      BY <1>0, <1>1, <2>1 DEF Accept, HostTypes, DeviceTypes, ConnInv
    <3>2. AnswerTypes'
      BY <1>0, <1>1, <2>1 DEF Accept, HostTypes, AnswerTypes, PartKinds, Lost
    <3>3. LockInv'
      BY <1>0, <1>1, <2>1 DEF Accept, HostTypes, LockInv, PendingInv,
           PendingIsHeld
    <3>4. PendingInv'
      BY <1>0, <1>1, <2>1 DEF Accept, HostTypes, LockInv, PendingInv,
           PendingIsHeld, Active
    <3>5. ConnInv'
      BY <1>0, <1>1, <2>1 DEF Accept, HostTypes, LockInv, PendingInv,
           PendingIsHeld, ConnInv, InLoop
    <3>6. OwnAnswers' /\ FailsOnlyDead'
      BY <1>0, <1>1, <2>1 DEF Accept, HostTypes, AnswerTypes, PendingInv,
           ConnInv, OwnAnswers, FailsOnlyDead, Lost
    <3> QED
      BY <3>1, <3>2, <3>3, <3>4, <3>5, <3>6
  <2>2. CASE ReadEvent
    <3>1. HostTypes' /\ DeviceTypes'
      BY <1>0, <1>1, <2>2 DEF ReadEvent, HostTypes, DeviceTypes, ConnInv
    <3>2. AnswerTypes'
      BY <1>0, <1>1, <2>2 DEF ReadEvent, HostTypes, AnswerTypes, PartKinds,
           Lost
    <3>3. LockInv'
      BY <1>0, <1>1, <2>2 DEF ReadEvent, HostTypes, LockInv, PendingInv,
           PendingIsHeld
    <3>4. PendingInv'
      BY <1>0, <1>1, <2>2 DEF ReadEvent, HostTypes, LockInv, PendingInv,
           PendingIsHeld, Active
    <3>5. ConnInv'
      BY <1>0, <1>1, <2>2 DEF ReadEvent, HostTypes, LockInv, PendingInv,
           PendingIsHeld, ConnInv, InLoop
    <3>6. OwnAnswers' /\ FailsOnlyDead'
      BY <1>0, <1>1, <2>2 DEF ReadEvent, HostTypes, AnswerTypes, PendingInv,
           ConnInv, OwnAnswers, FailsOnlyDead, Lost
    <3> QED
      BY <3>1, <3>2, <3>3, <3>4, <3>5, <3>6
  <2>3. CASE ReadImage
    <3>1. TheId \in Ids
      BY <1>0, <2>3, AnswerHasId DEF ReadImage
    <3>2. HostTypes' /\ DeviceTypes'
      BY <1>0, <1>1, <2>3, <3>1 DEF ReadImage, HostTypes, DeviceTypes, ConnInv
    <3>3. AnswerTypes'
      <4>1. <<"image", TheId>> \in PartKinds \X Ids
        BY <3>1 DEF PartKinds
      <4> QED
        BY <1>0, <2>3, <4>1 DEF ReadImage, AnswerTypes
    <3>4. LockInv'
      BY <1>0, <1>1, <2>3, <3>1 DEF ReadImage, HostTypes, LockInv, PendingInv,
           PendingIsHeld
    <3>5. PendingInv'
      BY <1>0, <1>1, <2>3, <3>1 DEF ReadImage, HostTypes, LockInv, PendingInv,
           PendingIsHeld, Active
    <3>6. ConnInv'
      BY <1>0, <1>1, <2>3, <3>1 DEF ReadImage, HostTypes, LockInv, PendingInv,
           PendingIsHeld, ConnInv, InLoop
    <3>7. OwnAnswers' /\ FailsOnlyDead'
      BY <1>0, <1>1, <2>3, <3>1 DEF ReadImage, HostTypes, AnswerTypes,
           PendingInv, ConnInv, OwnAnswers, FailsOnlyDead, Lost
    <3> QED
      BY <3>2, <3>3, <3>4, <3>5, <3>6, <3>7
  <2>4. CASE ReadChunk
    <3>1. TheId \in Ids
      BY <1>0, <2>4, AnswerHasId DEF ReadChunk
    <3>2. HostTypes' /\ DeviceTypes'
      BY <1>0, <1>1, <2>4, <3>1 DEF ReadChunk, HostTypes, DeviceTypes, ConnInv
    <3>3. AnswerTypes'
      <4>1. <<"chunk", TheId>> \in PartKinds \X Ids
        BY <3>1 DEF PartKinds
      <4> QED
        BY <1>0, <2>4, <4>1 DEF ReadChunk, AnswerTypes
    <3>4. LockInv'
      BY <1>0, <1>1, <2>4, <3>1 DEF ReadChunk, HostTypes, LockInv, PendingInv,
           PendingIsHeld
    <3>5. PendingInv'
      BY <1>0, <1>1, <2>4, <3>1 DEF ReadChunk, HostTypes, LockInv, PendingInv,
           PendingIsHeld, Active
    <3>6. ConnInv'
      BY <1>0, <1>1, <2>4, <3>1 DEF ReadChunk, HostTypes, LockInv, PendingInv,
           PendingIsHeld, ConnInv, InLoop
    <3>7. OwnAnswers' /\ FailsOnlyDead'
      BY <1>0, <1>1, <2>4, <3>1 DEF ReadChunk, HostTypes, AnswerTypes,
           PendingInv, ConnInv, OwnAnswers, FailsOnlyDead, Lost
    <3> QED
      BY <3>2, <3>3, <3>4, <3>5, <3>6, <3>7
  <2>5. CASE ReadReply
    <3>1. TheId \in Ids
      BY <1>0, <2>5, AnswerHasId DEF ReadReply
    <3>2. HostTypes' /\ DeviceTypes'
      BY <1>0, <1>1, <2>5, <3>1 DEF ReadReply, HostTypes, DeviceTypes, ConnInv
    <3>3. AnswerTypes'
      <4>1. TheId \in Lost..MaxCalls
        BY <3>1 DEF Lost
      <4> QED
        BY <1>0, <2>5, <4>1 DEF ReadReply, AnswerTypes
    <3>4. LockInv'
      <4>1. pending # 0 => pending < nextId
        BY SMTT(30), <1>0 DEF PendingInv, PendingIsHeld, Active, LockInv, HostTypes
      <4>2. \A r \in Ids : r >= nextId => data'[r] = data[r]
        BY <1>0, <2>5, <3>1, <4>1 DEF ReadReply, AnswerTypes, HostTypes
      <4> QED
        BY <1>0, <1>1, <2>5, <4>2 DEF ReadReply, LockInv, HostTypes
    <3>5. PendingInv'
      BY SMTT(30), <1>0, <1>1, <2>5, <3>1 DEF ReadReply, HostTypes, LockInv, PendingInv,
           PendingIsHeld, Active
    <3>6. ConnInv'
      BY <1>0, <1>1, <2>5, <3>1 DEF ReadReply, HostTypes, LockInv, PendingInv,
           PendingIsHeld, ConnInv, InLoop
    <3>7. OwnAnswers' /\ FailsOnlyDead'
      <4>1. UNCHANGED parts
        BY <2>5 DEF ReadReply
      <4>2. \A r \in Ids : data'[r] = data[r] \/ data'[r] = r
        BY <1>0, <2>5, <3>1 DEF ReadReply, AnswerTypes
      <4> QED
        BY <1>0, <1>1, <4>1, <4>2 DEF OwnAnswers, FailsOnlyDead, Lost
    <3> QED
      BY <3>2, <3>3, <3>4, <3>5, <3>6, <3>7
  <2>6. CASE Unpend
    <3>1. HostTypes' /\ DeviceTypes'
      BY <1>0, <1>1, <2>6 DEF Unpend, HostTypes, DeviceTypes, ConnInv
    <3>2. AnswerTypes'
      BY <1>0, <1>1, <2>6 DEF Unpend, HostTypes, AnswerTypes, PartKinds, Lost
    <3>3. LockInv'
      BY <1>0, <1>1, <2>6 DEF Unpend, HostTypes, LockInv, PendingInv,
           PendingIsHeld
    <3>4. PendingInv'
      BY <1>0, <1>1, <2>6 DEF Unpend, HostTypes, LockInv, PendingInv,
           PendingIsHeld, Active
    <3>5. ConnInv'
      BY <1>0, <1>1, <2>6 DEF Unpend, HostTypes, LockInv, PendingInv,
           PendingIsHeld, ConnInv, InLoop
    <3>6. OwnAnswers' /\ FailsOnlyDead'
      BY <1>0, <1>1, <2>6 DEF Unpend, HostTypes, AnswerTypes, PendingInv,
           ConnInv, OwnAnswers, FailsOnlyDead, Lost
    <3> QED
      BY <3>1, <3>2, <3>3, <3>4, <3>5, <3>6
  <2>7. CASE Wake
    <3>1. HostTypes' /\ DeviceTypes'
      BY <1>0, <1>1, <2>7 DEF Wake, HostTypes, DeviceTypes, ConnInv, PendingInv
    <3>2. AnswerTypes'
      BY <1>0, <1>1, <2>7 DEF Wake, HostTypes, AnswerTypes, PartKinds, Lost
    <3>3. LockInv'
      BY <1>0, <1>1, <2>7 DEF Wake, HostTypes, LockInv, PendingInv,
           PendingIsHeld
    <3>4. PendingInv'
      BY <1>0, <1>1, <2>7 DEF Wake, HostTypes, LockInv, PendingInv,
           PendingIsHeld, Active
    <3>5. ConnInv'
      BY <1>0, <1>1, <2>7 DEF Wake, HostTypes, LockInv, PendingInv,
           PendingIsHeld, ConnInv, InLoop
    <3>6. OwnAnswers' /\ FailsOnlyDead'
      BY <1>0, <1>1, <2>7 DEF Wake, HostTypes, AnswerTypes, PendingInv,
           ConnInv, OwnAnswers, FailsOnlyDead, Lost
    <3> QED
      BY <3>1, <3>2, <3>3, <3>4, <3>5, <3>6
  <2>8. CASE ReadEnds
    <3>1. HostTypes' /\ DeviceTypes'
      BY <1>0, <1>1, <2>8 DEF ReadEnds, HostTypes, DeviceTypes, ConnInv
    <3>2. AnswerTypes'
      BY <1>0, <1>1, <2>8 DEF ReadEnds, HostTypes, AnswerTypes, PartKinds,
           Lost
    <3>3. LockInv'
      BY <1>0, <1>1, <2>8 DEF ReadEnds, HostTypes, LockInv, PendingInv,
           PendingIsHeld
    <3>4. PendingInv'
      BY <1>0, <1>1, <2>8 DEF ReadEnds, HostTypes, LockInv, PendingInv,
           PendingIsHeld, Active
    <3>5. ConnInv'
      BY <1>0, <1>1, <2>8 DEF ReadEnds, HostTypes, LockInv, PendingInv,
           PendingIsHeld, ConnInv, InLoop
    <3>6. OwnAnswers' /\ FailsOnlyDead'
      BY <1>0, <1>1, <2>8 DEF ReadEnds, HostTypes, AnswerTypes, PendingInv,
           ConnInv, OwnAnswers, FailsOnlyDead, Lost
    <3> QED
      BY <3>1, <3>2, <3>3, <3>4, <3>5, <3>6
  <2>9. CASE FailRead
    <3>1. HostTypes' /\ DeviceTypes'
      BY <1>0, <1>1, <2>9 DEF FailRead, HostTypes, DeviceTypes, ConnInv
    <3>2. AnswerTypes'
      BY <1>0, <1>1, <2>9 DEF FailRead, HostTypes, AnswerTypes, PartKinds,
           Lost
    <3>3. LockInv'
      BY <1>0, <1>1, <2>9 DEF FailRead, HostTypes, LockInv, PendingInv,
           PendingIsHeld
    <3>4. PendingInv'
      <4>1. pending # 0 => pending < nextId
        BY SMTT(30), <1>0 DEF PendingInv, PendingIsHeld, Active, LockInv, HostTypes
      <4>2. /\ UNCHANGED <<pending, woken>> /\ held' = pending
            /\ reader' \in {"accept", "failClear"}
            /\ reader' = "failClear" => pending # 0
        BY <2>9 DEF FailRead
      <4>3. PendingIsHeld'
        BY <1>0, <1>1, <4>2 DEF PendingInv, PendingIsHeld, Active
      <4>4. \A d \in Callers : place[d] = "pend" => rid[d] # pending
        BY <1>0 DEF PendingInv, LockInv, HostTypes
      <4> QED
        BY <1>0, <1>1, <4>1, <4>2, <4>3, <4>4 DEF PendingInv, HostTypes
    <3>5. ConnInv'
      BY <1>0, <1>1, <2>9 DEF FailRead, HostTypes, LockInv, PendingInv,
           PendingIsHeld, ConnInv, InLoop
    <3>6. OwnAnswers' /\ FailsOnlyDead'
      BY <1>0, <1>1, <2>9 DEF FailRead, HostTypes, AnswerTypes, PendingInv,
           ConnInv, OwnAnswers, FailsOnlyDead, Lost
    <3> QED
      BY <3>1, <3>2, <3>3, <3>4, <3>5, <3>6
  <2>10. CASE FailClear
    <3>1. HostTypes' /\ DeviceTypes'
      BY <1>0, <1>1, <2>10 DEF FailClear, HostTypes, DeviceTypes, ConnInv
    <3>2. AnswerTypes'
      BY <1>0, <1>1, <2>10 DEF FailClear, HostTypes, AnswerTypes, PartKinds,
           Lost
    <3>3. LockInv'
      BY <1>0, <1>1, <2>10 DEF FailClear, HostTypes, LockInv, PendingInv,
           PendingIsHeld
    <3>4. PendingInv'
      BY <1>0, <1>1, <2>10 DEF FailClear, HostTypes, LockInv, PendingInv,
           PendingIsHeld, Active
    <3>5. ConnInv'
      BY <1>0, <1>1, <2>10 DEF FailClear, HostTypes, LockInv, PendingInv,
           PendingIsHeld, ConnInv, InLoop
    <3>6. OwnAnswers' /\ FailsOnlyDead'
      BY <1>0, <1>1, <2>10 DEF FailClear, HostTypes, AnswerTypes, PendingInv,
           ConnInv, OwnAnswers, FailsOnlyDead, Lost
    <3> QED
      BY <3>1, <3>2, <3>3, <3>4, <3>5, <3>6
  <2>11. CASE FailWake
    <3>1. HostTypes' /\ DeviceTypes'
      BY <1>0, <1>1, <2>11 DEF FailWake, HostTypes, DeviceTypes, ConnInv, PendingInv
    <3>2. AnswerTypes'
      <4>1. Lost \in Lost..MaxCalls
        BY DEF Lost
      <4> QED
        BY <1>0, <2>11, <4>1 DEF FailWake, AnswerTypes
    <3>3. LockInv'
      BY <1>0, <1>1, <2>11 DEF FailWake, HostTypes, LockInv, PendingInv,
           PendingIsHeld
    <3>4. PendingInv'
      <4>1. /\ UNCHANGED pending /\ held' = 0
            /\ woken' = woken \cup {held} /\ reader' = "accept"
        BY <2>11 DEF FailWake
      <4>2. reader = "failWake"
        BY <2>11 DEF FailWake
      <4>3. PendingIsHeld'
        BY <1>0, <1>1, <4>1 DEF PendingInv, PendingIsHeld, Active
      <4>4. \A d \in Callers : place[d] = "pend" => rid[d] # 0
        BY <1>0 DEF LockInv
      <4> QED
        BY <1>0, <1>1, <4>1, <4>2, <4>3, <4>4 DEF PendingInv, HostTypes
    <3>5. ConnInv'
      BY <1>0, <1>1, <2>11 DEF FailWake, HostTypes, LockInv, PendingInv,
           PendingIsHeld, ConnInv, InLoop
    <3>6. OwnAnswers' /\ FailsOnlyDead'
      BY <1>0, <1>1, <2>11 DEF FailWake, HostTypes, AnswerTypes, PendingInv,
           ConnInv, OwnAnswers, FailsOnlyDead, Lost
    <3> QED
      BY <3>1, <3>2, <3>3, <3>4, <3>5, <3>6
  <2> QED
    BY <2>1, <2>2, <2>3, <2>4, <2>5, <2>6, <2>7, <2>8, <2>9, <2>10, <2>11
       DEF ReaderStep
<1> QED
  BY <1>2, <1>3, <1>4 DEF Inv

\* A step of the device or of the path keeps the invariant.
LEMMA LinkKeepsInv ==
  ASSUME Inv, DeviceStep \/ PathStep
  PROVE  Inv'
<1>0. /\ HostTypes /\ AnswerTypes /\ DeviceTypes /\ NetTypes /\ LockInv
      /\ PendingInv /\ ConnInv /\ LinkInv /\ OwnAnswers /\ FailsOnlyDead
  BY DEF Inv
<1>1. UNCHANGED hostVars /\ ended \subseteq ended'
  BY DEF DeviceStep, Dial, Hello, Receive, SendPart, SendReply, LinkFails,
         SendStalls, Close, PathStep, Vanish, Notice, netVars
<1>2. /\ LockInv' /\ PendingInv' /\ ConnInv' /\ OwnAnswers'
      /\ FailsOnlyDead'
  BY <1>0, <1>1, HostKept
<1>3. HostTypes' /\ AnswerTypes'
  BY <1>0, <1>1 DEF HostTypes, AnswerTypes, hostVars, callVars, answerVars,
       readerVars
<1>4. UNCHANGED accepted
  BY <1>1 DEF hostVars, readerVars
<1>5. DeviceTypes' /\ LinkInv' /\ NetTypes'
  <2> USE DEF netVars, deviceVars
  <2>1. CASE Dial
    BY <1>0, <1>4, <2>1 DEF Dial, HostTypes, DeviceTypes, LinkInv, NetTypes
  <2>2. CASE Hello
    <3>1. Message("event", 0) \in Messages
      BY DEF Message, Messages
    <3>2. sock # 0 /\ Emit("event", 0)
      BY <1>0, <2>2 DEF Hello, LinkInv
    <3>3. /\ toHost' \in [Conns -> Seq(Messages)]
          /\ \A k \in Conns : Len(toHost'[k]) <= MaxFlight
      BY <1>0, <3>1, <3>2, EmitKeepsTypes
    <3> QED
      BY <1>0, <1>4, <2>2, <3>3 DEF Hello, DeviceTypes, LinkInv, NetTypes
  <2>3. CASE Receive
    <3>1. sock \in Conns /\ toDev[sock] \in Seq(Ids) /\ toDev[sock] # <<>>
      BY <1>0, <2>3 DEF Receive, DeviceTypes, LinkInv, NetTypes
    <3>2. Head(toDev[sock]) \in Ids /\ Tail(toDev[sock]) \in Seq(Ids)
      BY <3>1, Taken
    <3>3. /\ doing' \in Ids /\ dev' = "work"
          /\ toDev' = [toDev EXCEPT ![sock] = Tail(toDev[sock])]
          /\ UNCHANGED <<sock, sent, dials, toHost, gone, ended>>
      BY <2>3, <3>2 DEF Receive
    <3>4. toDev' \in [Conns -> Seq(Ids)]
      BY <1>0, <3>1, <3>2, <3>3 DEF NetTypes
    <3>5. NetTypes'
      BY <1>0, <3>3, <3>4 DEF NetTypes
    <3>6. DeviceTypes' /\ LinkInv'
      BY <1>0, <1>4, <3>1, <3>3 DEF DeviceTypes, LinkInv
    <3> QED
      BY <3>5, <3>6
  <2>4. ASSUME NEW kind \in PartKinds, SendPart(kind)
        PROVE  DeviceTypes' /\ LinkInv' /\ NetTypes'
    <3>1. doing \in Ids /\ sock # 0 /\ Emit(kind, doing)
      BY <1>0, <2>4 DEF SendPart, DeviceTypes, LinkInv
    <3>2. Message(kind, doing) \in Messages
      BY <3>1 DEF Message, Messages
    <3>3. /\ toHost' \in [Conns -> Seq(Messages)]
          /\ \A k \in Conns : Len(toHost'[k]) <= MaxFlight
      BY <1>0, <3>1, <3>2, EmitKeepsTypes
    <3> QED
      BY <1>0, <1>4, <2>4, <3>1, <3>3
         DEF SendPart, DeviceTypes, LinkInv, NetTypes
  <2>5. CASE SendReply
    <3>1. doing \in Ids /\ sock # 0 /\ Emit("reply", doing)
      BY <1>0, <2>5 DEF SendReply, DeviceTypes, LinkInv
    <3>2. Message("reply", doing) \in Messages
      BY <3>1 DEF Message, Messages
    <3>3. /\ toHost' \in [Conns -> Seq(Messages)]
          /\ \A k \in Conns : Len(toHost'[k]) <= MaxFlight
      BY <1>0, <3>1, <3>2, EmitKeepsTypes
    <3> QED
      BY <1>0, <1>4, <2>5, <3>3 DEF SendReply, DeviceTypes, LinkInv, NetTypes
  <2>6. CASE LinkFails \/ SendStalls
    <3>1. UNCHANGED <<toHost, toDev, gone, ended>>
      BY <2>6 DEF LinkFails, SendStalls
    <3>2. dev # "dial" /\ dev' = "close" /\ doing' = 0
          /\ UNCHANGED <<sock, sent, dials>>
      BY <2>6 DEF LinkFails, SendStalls
    <3>3. NetTypes'
      BY <1>0, <3>1 DEF NetTypes
    <3> QED
      BY <1>0, <1>4, <3>2, <3>3 DEF DeviceTypes, LinkInv
  <2>7. CASE Close
    <3>1. sock \in Conns
      BY <1>0, <2>7 DEF Close, DeviceTypes, LinkInv
    <3>2. <<>> \in Seq(Ids)
      BY EmptySeq
    <3> QED
      BY <1>0, <1>4, <2>7, <3>1, <3>2
         DEF Close, DeviceTypes, LinkInv, NetTypes
  <2>8. CASE Vanish
    <3>1. /\ sock \in Conns /\ toHost[sock] \in Seq(Messages)
          /\ Len(toHost[sock]) <= MaxFlight
      BY <1>0, <2>8 DEF Vanish, DeviceTypes, NetTypes
    <3>2. PICK n \in 0..Len(toHost[sock]) :
            toHost' = [toHost EXCEPT ![sock] = SubSeq(@, 1, n)]
      BY <2>8 DEF Vanish
    <3>3. DEFINE kept == SubSeq(toHost[sock], 1, n)
    <3>4. kept \in Seq(Messages) /\ Len(kept) <= Len(toHost[sock])
      BY <3>1, Prefix
    <3>5. Len(kept) \in Nat /\ Len(toHost[sock]) \in Nat
      BY <3>1, <3>4, LenProperties
    <3>6. toHost' = [toHost EXCEPT ![sock] = kept]
      BY <3>2
    <3> HIDE DEF kept
    <3>7. /\ toHost' \in [Conns -> Seq(Messages)]
          /\ \A k \in Conns : Len(toHost'[k]) <= MaxFlight
      BY <1>0, <3>1, <3>4, <3>5, <3>6 DEF NetTypes
    <3>8. <<>> \in Seq(Ids)
      BY EmptySeq
    <3> QED
      BY <1>0, <1>4, <2>8, <3>1, <3>7, <3>8
         DEF Vanish, DeviceTypes, LinkInv, NetTypes
  <2>9. ASSUME NEW k \in Conns, Notice(k)
        PROVE  DeviceTypes' /\ LinkInv' /\ NetTypes'
    BY <1>0, <1>4, <2>9 DEF Notice, DeviceTypes, LinkInv, NetTypes
  <2> QED
    BY <2>1, <2>2, <2>3, <2>4, <2>5, <2>6, <2>7, <2>8, <2>9
       DEF DeviceStep, PathStep
<1> QED
  BY <1>2, <1>3, <1>5 DEF Inv

-----------------------------------------------------------------------------
\* The invariant holds of every run.
THEOREM SessionCorrect == Spec => []Inv
<1>1. ASSUME Inv, [Next]_vars
      PROVE  Inv'
  <2>1. CASE \E c \in Callers : CallStep(c)
    BY <1>1, <2>1, CallKeepsInv
  <2>2. CASE ReaderStep
    BY <1>1, <2>2, ReaderKeepsInv
  <2>3. CASE DeviceStep \/ PathStep
    BY <1>1, <2>3, LinkKeepsInv
  <2>4. CASE UNCHANGED vars
    <3>1. UNCHANGED hostVars /\ UNCHANGED deviceVars /\ UNCHANGED netVars
      BY <2>4 DEF vars, hostVars
    <3>2. /\ LockInv' /\ PendingInv' /\ ConnInv' /\ OwnAnswers'
          /\ FailsOnlyDead'
      BY <1>1, <3>1, HostKept DEF Inv, netVars
    <3>3. HostTypes' /\ AnswerTypes'
      BY <1>1, <3>1 DEF Inv, HostTypes, AnswerTypes, hostVars, callVars,
         answerVars, readerVars
    <3>4. DeviceTypes' /\ LinkInv' /\ NetTypes'
      BY <1>1, <3>1 DEF Inv, DeviceTypes, LinkInv, NetTypes, hostVars,
         readerVars, deviceVars, netVars
    <3> QED
      BY <3>2, <3>3, <3>4 DEF Inv
  <2> QED
    BY <1>1, <2>1, <2>2, <2>3, <2>4 DEF Next
<1> QED
  BY InitInv, <1>1, PTL DEF Spec

\* _pending never outlives the call that set it, although the reader and the
\* callers write it without a common lock.
THEOREM PendingBelongs == Spec => []PendingIsHeld
<1>1. Inv => PendingIsHeld
  BY DEF Inv, PendingInv
<1> QED
  BY SessionCorrect, <1>1, PTL

\* A call is answered by its own reply and its own register chunks, whatever
\* is late, lost or given up.
THEOREM AnswersAreOwn == Spec => []OwnAnswers
<1>1. Inv => OwnAnswers
  BY DEF Inv
<1> QED
  BY SessionCorrect, <1>1, PTL

\* A disconnect fails no call that is bound to another connection.
THEOREM FailuresAreOwn == Spec => []FailsOnlyDead
<1>1. Inv => FailsOnlyDead
  BY DEF Inv
<1> QED
  BY SessionCorrect, <1>1, PTL

\* The variables keep their types, and accepting a connection never replaces
\* one that is still in use.
THEOREM SessionTypes == Spec => []TypeOK
<1>1. Inv => TypeOK
  BY DEF Inv, TypeOK, ConnInv, InLoop
<1> QED
  BY SessionCorrect, <1>1, PTL

(***************************************************************************)
(* Completeness.  A command is asked once, the device answers it on the    *)
(* connection it came by, in order, and what is cut off a connection is    *)
(* cut off its end: a reply that arrives has its parts before it.          *)
(***************************************************************************)
New(r) ==
  r >= nextId \/ \E c \in Callers : place[c] \in {"pend", "send"} /\ rid[c] = r
Asked(r) == \E k \in Conns : \E i \in 1..Len(toDev[k]) : toDev[k][i] = r
Over(r) == ~New(r) /\ doing # r /\ ~Asked(r)

Got(r, kind) == <<kind, r>> \in parts[r]
Coming(k, r, kind) ==
  \E i \in 1..Len(toHost[k]) : toHost[k][i] = Message(kind, r)
Before(k, n, r, kind) ==
  \E i \in 1..Len(toHost[k]) : i < n /\ toHost[k][i] = Message(kind, r)

AskInv ==
  /\ \A k \in Conns, r \in Ids : \A i \in 1..Len(toDev[k]) : toDev[k][i] = r =>
       /\ ~New(r) /\ doing # r /\ via[r] = k /\ sent[r] = {}
       /\ \A j \in 1..Len(toDev[k]) : toDev[k][j] = r => i = j
  /\ doing # 0 => dev = "work" /\ via[doing] = sock
  /\ \A r \in Ids : New(r) => doing # r /\ sent[r] = {}

\* A reply is its command's last message, and the parts are ahead of it.
ReplyInv ==
  \A k \in Conns : \A n \in 1..Len(toHost[k]), r \in Ids :
    toHost[k][n] = Message("reply", r) =>
      /\ Over(r)
      /\ pending = r => \A kind \in sent[r] : Got(r, kind) \/ Before(k, n, r, kind)

WorkInv ==
  \A r \in Ids, k \in Conns :
    doing = r /\ pending = r /\ sock = k /\ k \notin gone =>
      \A kind \in sent[r] : Got(r, kind) \/ Coming(k, r, kind)

DoneInv ==
  \A r \in Ids : data[r] = r => Over(r) /\ \A kind \in sent[r] : Got(r, kind)

ReplyIsLast == AskInv /\ ReplyInv /\ WorkInv /\ DoneInv

\* One more position.
LEMMA OneMore ==
  ASSUME NEW n \in Nat
  PROVE  /\ \A i \in 1..(n + 1) : i \in 1..n \/ i = n + 1
         /\ \A i \in 1..n : i \in 1..(n + 1) /\ i < n + 1
         /\ n + 1 \in 1..(n + 1)
OBVIOUS

\* What the two ends of a connection hold is typed.
LEMMA NetElements ==
  ASSUME Inv
  PROVE  /\ \A k \in Conns : /\ toDev[k] \in Seq(Ids) /\ Len(toDev[k]) \in Nat
                             /\ \A i \in 1..Len(toDev[k]) : toDev[k][i] \in Ids
                             /\ toHost[k] \in Seq(Messages)
                             /\ Len(toHost[k]) \in Nat
         /\ dev # "dial" => sock \in Conns
         /\ dev = "work" => doing \in Ids
         /\ \A r \in Ids : sent[r] \subseteq PartKinds
         /\ reader # "accept" => accepted \in Conns
<1>1. \A k \in Conns : toDev[k] \in Seq(Ids) /\ toHost[k] \in Seq(Messages)
  BY DEF Inv, NetTypes
<1>2. \A k \in Conns : /\ Len(toDev[k]) \in Nat /\ Len(toHost[k]) \in Nat
                       /\ \A i \in 1..Len(toDev[k]) : toDev[k][i] \in Ids
  BY <1>1, LenProperties, ElementOfSeq
<1>3. \A r \in Ids : sent[r] \subseteq PartKinds
  BY DEF Inv, DeviceTypes
<1>4. /\ dev # "dial" => sock \in Conns
      /\ dev = "work" => doing \in Ids
  BY DEF Inv, DeviceTypes, LinkInv
<1>5. reader # "accept" => accepted \in Conns
  BY DEF Inv, HostTypes, ConnInv
<1> QED
  BY <1>1, <1>2, <1>3, <1>4, <1>5

\* A caller: its command is new until it is asked, and asked once.
LEMMA CallKeepsReplies ==
  ASSUME Inv, ReplyIsLast, NEW c \in Callers, CallStep(c)
  PROVE  ReplyIsLast'
<1>1. /\ UNCHANGED <<data, parts, dev, sock, doing, sent>>
      /\ UNCHANGED <<toHost, gone>>
  BY DEF CallStep, Begin, SetPending, Send, SendFails, Return, TimeOut, GiveUp,
     netVars, answerVars, deviceVars
<1>2. /\ place \in [Callers -> {"idle", "pend", "send", "wait", "late"}]
      /\ rid \in [Callers -> 0..MaxCalls] /\ nextId \in Nat /\ nextId' \in Nat
      /\ nextId' >= nextId /\ via \in [Ids -> 0..MaxConns]
  BY SMTT(60)
  DEF Inv, HostTypes, CallStep, Begin, SetPending, Send, SendFails, Return,
     TimeOut, GiveUp
<1>3. \A r \in Ids : New(r)' => New(r)
  <2>1. CASE Begin(c)
    <3>1. \A d \in Callers : place'[d] \in {"pend", "send"} =>
            rid'[d] = nextId \/ (place[d] \in {"pend", "send"} /\ rid'[d] = rid[d])
      BY <1>2, <2>1 DEF Begin, Go
    <3> QED
      BY <1>2, <3>1 DEF New
  <2>2. CASE ~Begin(c)
    <3>1. /\ nextId' = nextId
          /\ \A d \in Callers : place'[d] \in {"pend", "send"} =>
               place[d] \in {"pend", "send"} /\ rid'[d] = rid[d]
      BY <1>2, <2>2 DEF CallStep, SetPending, Send, SendFails, Return, TimeOut,
         GiveUp, Go, Leave
    <3> QED
      BY <3>1 DEF New
  <2> QED
    BY <2>1, <2>2
<1>4. pending' \in {pending, 0} \/ \E r \in Ids : pending' = r /\ New(r)'
  <2>1. CASE SetPending(c)
    <3>1. /\ pending' = rid[c] /\ rid' = rid /\ place'[c] = "send"
          /\ rid[c] \in Ids
      BY <1>2, <2>1 DEF SetPending, Go, Inv, HostTypes, LockInv
    <3> QED
      BY <3>1 DEF New
  <2>2. CASE ~SetPending(c)
    BY <2>2 DEF CallStep, Begin, Send, SendFails, Return, TimeOut, GiveUp
  <2> QED
    BY <2>1, <2>2
<1>5. \A r \in Ids : ~New(r) => via'[r] = via[r]
  <2>1. via' = via \/ via' = [via EXCEPT ![nextId] = conn]
    BY DEF CallStep, Begin, SetPending, Send, SendFails, Return, TimeOut, GiveUp
  <2>2. \A r \in Ids : ~New(r) => r # nextId
    BY <1>2 DEF New
  <2> QED
    BY <1>2, <2>1, <2>2
<1>6. \/ toDev' = toDev
      \/ \E r \in Ids :
           /\ New(r) /\ ~New(r)' /\ via[r] \in Conns /\ via' = via
           /\ toDev' = [toDev EXCEPT ![via[r]] = Append(toDev[via[r]], r)]
  <2>1. CASE ~Send(c)
    BY <2>1 DEF CallStep, Begin, SetPending, SendFails, Return, TimeOut, GiveUp,
       netVars
  <2>2. CASE Send(c)
    <3>1. New(rid[c])
      BY <2>2 DEF Send, New
    <3>2. rid[c] \in Ids /\ rid[c] < nextId /\ via[rid[c]] \in Conns
      BY <1>2, <2>2 DEF Send, Inv, HostTypes, LockInv
    <3>3. ~New(rid[c])'
      <4>1. nextId' = nextId /\ rid' = rid /\ place' = [place EXCEPT ![c] = "wait"]
        BY <2>2 DEF Send, Go
      <4>2. \A d \in Callers : place'[d] \notin {"pend", "send"}
        BY <1>2, <2>2, <4>1 DEF Send, Inv, LockInv
      <4> QED
        BY <1>2, <3>2, <4>1, <4>2 DEF New
    <3>4. toDev' = toDev \/
          toDev' = [toDev EXCEPT
                      ![via[rid[c]]] = Append(toDev[via[rid[c]]], rid[c])]
      BY <2>2 DEF Send
    <3>5. via' = via
      BY <2>2 DEF Send
    <3>6. rid[c]' = rid[c]
      BY <2>2 DEF Send
    <3> QED
      BY <3>1, <3>2, <3>3, <3>4, <3>5, <3>6
  <2> QED
    BY <2>1, <2>2
<1>7. \A r \in Ids : ~New(r) /\ Asked(r)' => Asked(r)
  <2>1. CASE toDev' = toDev
    BY <2>1 DEF Asked
  <2>2. CASE toDev' # toDev
    <3>1. PICK x \in Ids :
            /\ New(x) /\ via[x] \in Conns
            /\ toDev' = [toDev EXCEPT ![via[x]] = Append(toDev[via[x]], x)]
      BY <1>6, <2>2
    <3>2. /\ Len(Append(toDev[via[x]], x)) = Len(toDev[via[x]]) + 1
          /\ \A i \in 1..(Len(toDev[via[x]]) + 1) :
               \/ i \in 1..Len(toDev[via[x]])
                  /\ Append(toDev[via[x]], x)[i] = toDev[via[x]][i]
               \/ Append(toDev[via[x]], x)[i] = x
      <4>1. toDev[via[x]] \in Seq(Ids) /\ Len(toDev[via[x]]) \in Nat
        BY <3>1, NetElements
      <4>2. /\ Len(Append(toDev[via[x]], x)) = Len(toDev[via[x]]) + 1
            /\ \A i \in 1..Len(toDev[via[x]]) :
                 Append(toDev[via[x]], x)[i] = toDev[via[x]][i]
            /\ Append(toDev[via[x]], x)[Len(toDev[via[x]]) + 1] = x
        BY <4>1, AppendProperties
      <4>3. \A i \in 1..(Len(toDev[via[x]]) + 1) :
              i \in 1..Len(toDev[via[x]]) \/ i = Len(toDev[via[x]]) + 1
        BY <4>1, OneMore
      <4> QED
        BY <4>2, <4>3
    <3>3. toDev \in [Conns -> Seq(Ids)]
      BY DEF Inv, NetTypes
    <3> QED
      BY <3>1, <3>2, <3>3 DEF Asked
  <2> QED
    BY <2>1, <2>2
<1>8. \A r \in Ids : Over(r) => Over(r)'
  BY <1>1, <1>3, <1>7 DEF Over
<1>9. AskInv'
  <2>1. doing' # 0 => dev' = "work" /\ via'[doing'] = sock'
    BY <1>1, <1>5, NetElements DEF ReplyIsLast, AskInv
  <2>2. \A r \in Ids : New(r)' => doing' # r /\ sent'[r] = {}
    BY <1>1, <1>3 DEF ReplyIsLast, AskInv
  <2>3. ASSUME NEW k \in Conns, NEW r \in Ids, NEW i \in 1..Len(toDev'[k]),
               toDev'[k][i] = r
        PROVE  /\ ~New(r)' /\ doing' # r /\ via'[r] = k /\ sent'[r] = {}
               /\ \A j \in 1..Len(toDev'[k]) : toDev'[k][j] = r => i = j
    <3>1. CASE toDev'[k] = toDev[k]
      BY <1>1, <1>3, <1>5, <2>3, <3>1 DEF ReplyIsLast, AskInv
    <3>2. CASE toDev'[k] # toDev[k]
      <4>1. PICK x \in Ids :
              /\ k = via[x] /\ toDev'[k] = Append(toDev[k], x)
              /\ New(x) /\ ~New(x)' /\ via' = via
        BY <1>6, <3>2 DEF Inv, NetTypes
      <4>2. /\ Len(toDev'[k]) = Len(toDev[k]) + 1 /\ Len(toDev[k]) \in Nat
            /\ toDev'[k][Len(toDev[k]) + 1] = x
            /\ \A j \in 1..Len(toDev[k]) : toDev'[k][j] = toDev[k][j]
        BY SMTT(30), <4>1, NetElements, AppendProperties
      <4>3. \A j \in 1..Len(toDev'[k]) :
              j \in 1..Len(toDev[k]) \/ j = Len(toDev[k]) + 1
        BY <4>2, OneMore
      <4>4. \A j \in 1..Len(toDev[k]) : toDev[k][j] # x
        BY <4>1 DEF ReplyIsLast, AskInv
      <4>5. CASE i \in 1..Len(toDev[k])
        <5>1. /\ ~New(r) /\ doing # r /\ via[r] = k /\ sent[r] = {} /\ r # x
              /\ \A j \in 1..Len(toDev[k]) : toDev[k][j] = r => i = j
          BY SMTT(30), <2>3, <4>1, <4>2, <4>4, <4>5 DEF ReplyIsLast, AskInv
        <5>2. \A j \in 1..Len(toDev'[k]) : toDev'[k][j] = r => i = j
          BY <4>2, <4>3, <5>1
        <5> QED
          BY <1>1, <1>3, <4>1, <5>1, <5>2
      <4>6. CASE i = Len(toDev[k]) + 1
        <5>1. r = x /\ doing # x /\ sent[x] = {}
          BY <2>3, <4>1, <4>2, <4>6 DEF ReplyIsLast, AskInv
        <5>2. \A j \in 1..Len(toDev'[k]) : toDev'[k][j] = r => i = j
          BY <4>2, <4>3, <4>4, <4>6, <5>1
        <5> QED
          BY <1>1, <4>1, <5>1, <5>2
      <4> QED
        BY <2>3, <4>3, <4>5, <4>6
    <3> QED
      BY <3>1, <3>2
  <2> QED
    BY <2>1, <2>2, <2>3 DEF AskInv
<1>10. ReplyInv'
  <2>1. ASSUME NEW k \in Conns, NEW n \in 1..Len(toHost[k]), NEW r \in Ids,
               toHost[k][n] = Message("reply", r)
        PROVE  /\ Over(r)'
               /\ pending' = r => \A kind \in sent[r] :
                                    Got(r, kind) \/ Before(k, n, r, kind)
    <3>1. Over(r)'
      BY <1>8, <2>1 DEF ReplyIsLast, ReplyInv
    <3>2. pending' = r => pending = r
      BY <1>4, <3>1 DEF Over
    <3>3. pending = r => \A kind \in sent[r] :
                           Got(r, kind) \/ Before(k, n, r, kind)
      BY <2>1 DEF ReplyIsLast, ReplyInv
    <3> QED
      BY <3>1, <3>2, <3>3
  <2> QED
    BY <1>1, <2>1 DEF ReplyInv, Got, Before
<1>11. WorkInv'
  <2>1. \A r \in Ids : doing = r /\ pending' = r => pending = r
    BY <1>1, <1>4, <1>9 DEF AskInv
  <2> QED
    BY <1>1, <2>1 DEF ReplyIsLast, WorkInv, Got, Coming
<1>12. DoneInv'
  BY <1>1, <1>8 DEF ReplyIsLast, DoneInv, Got
<1> QED
  BY <1>9, <1>10, <1>11, <1>12 DEF ReplyIsLast

\* Taking a message moves those behind it one place forward.
LEMMA TakenMoves ==
  ASSUME Inv, NEW kind, Incoming(kind)
  PROVE  /\ accepted \in Conns /\ Len(toHost[accepted]) \in Nat
         /\ Len(toHost[accepted]) >= 1
         /\ toHost[accepted][1] = Head(toHost[accepted])
         /\ toHost[accepted][1].kind = kind
         /\ \A k \in Conns : k # accepted => toHost'[k] = toHost[k]
         /\ Len(toHost'[accepted]) = Len(toHost[accepted]) - 1
         /\ \A n \in 1..Len(toHost'[accepted]) :
              toHost'[accepted][n] = toHost[accepted][n + 1]
<1>1. /\ accepted \in Conns /\ toHost[accepted] \in Seq(Messages)
      /\ toHost[accepted] # <<>> /\ toHost \in [Conns -> Seq(Messages)]
      /\ toHost' = [toHost EXCEPT ![accepted] = Tail(toHost[accepted])]
  BY NetElements DEF Incoming, Inv, NetTypes
<1>2. /\ Len(Tail(toHost[accepted])) = Len(toHost[accepted]) - 1
      /\ \A n \in 1..Len(Tail(toHost[accepted])) :
           Tail(toHost[accepted])[n] = toHost[accepted][n + 1]
      /\ toHost[accepted][1] = Head(toHost[accepted])
  BY <1>1, HeadTailProperties
<1>3. Len(toHost[accepted]) \in Nat /\ Len(toHost[accepted]) >= 1
  BY <1>1, LenProperties, EmptySeq
<1> QED
  BY <1>1, <1>2, <1>3 DEF Incoming

\* The reader: it takes the parts of what is pending before the reply.
LEMMA ReaderKeepsReplies ==
  ASSUME Inv, ReplyIsLast, ReaderStep
  PROVE  ReplyIsLast'
<1>1. /\ UNCHANGED callVars /\ UNCHANGED deviceVars
      /\ UNCHANGED <<toDev, gone>>
      /\ pending' \in {pending, 0}
  BY DEF ReaderStep, Accept, ReadEvent, ReadImage, ReadChunk, ReadReply, Unpend,
     Wake, ReadEnds, FailRead, FailClear, FailWake, readFrame, netVars
<1>2. UNCHANGED <<place, rid, via, nextId, sock, doing, sent, dev>>
  BY <1>1 DEF callVars, deviceVars
<1>3. /\ \A r : New(r)' = New(r)
      /\ \A r : Asked(r)' = Asked(r)
      /\ \A r : Over(r)' = Over(r)
  <2>1. (\A r : New(r)' = New(r)) /\ \A r : Asked(r)' = Asked(r)
    BY <1>1, <1>2 DEF New, Asked
  <2> QED
    BY <1>2, <2>1 DEF Over
<1>4. AskInv'
  BY <1>1, <1>2, <1>3 DEF ReplyIsLast, AskInv
<1>5. \A r \in Ids : \A kind : Got(r, kind) => Got(r, kind)'
  <2>1. parts \in [Ids -> SUBSET (PartKinds \X Ids)]
    BY DEF Inv, AnswerTypes
  <2>2. parts' = parts \/ \E x : parts' = [parts EXCEPT ![pending] = @ \cup {x}]
    BY DEF ReaderStep, Accept, ReadEvent, ReadImage, ReadChunk, ReadReply,
       Unpend, Wake, ReadEnds, FailRead, FailClear, FailWake, answerVars
  <2> QED
    BY <2>1, <2>2 DEF Got
<1>6. ASSUME reader = "read", toHost[accepted] # <<>>
      PROVE  /\ ReadEvent \/ ReadImage \/ ReadChunk \/ ReadReply
             /\ \E kd : Incoming(kd)
  <2>1. ReadEvent \/ ReadImage \/ ReadChunk \/ ReadReply
    BY <1>6 DEF ReaderStep, Accept, Unpend, Wake, ReadEnds, FailRead, FailClear,
       FailWake
  <2> QED
    BY <2>1 DEF ReadEvent, ReadImage, ReadChunk, ReadReply
<1>7. ASSUME ~(reader = "read" /\ toHost[accepted] # <<>>)
      PROVE  /\ toHost' = toHost /\ parts' = parts
             /\ data' = data \/ data' = [data EXCEPT ![held] = Lost]
  BY <1>7 DEF ReaderStep, Accept, ReadEvent, ReadImage, ReadChunk, ReadReply,
     Unpend, Wake, ReadEnds, FailRead, FailClear, FailWake, Incoming, netVars,
     answerVars
<1>8. ASSUME reader = "read", toHost[accepted] # <<>>, NEW kind \in PartKinds,
             NEW r \in Ids, pending = r, toHost[accepted][1] = Message(kind, r)
      PROVE  Got(r, kind)'
  <2>1. Head(toHost[accepted]) = Message(kind, r)
    BY <1>6, <1>8, TakenMoves
  <2>2. TheId = r /\ Head(toHost[accepted]).kind = kind
    BY <2>1 DEF Message, TheId
  <2>3. parts' = [parts EXCEPT ![r] = @ \cup {<<kind, r>>}]
    <3>1. CASE kind = "image"
      <4>1. ReadImage
        BY <1>6, <1>8, <2>2, <3>1 DEF ReadEvent, ReadChunk, ReadReply, Incoming
      <4> QED
        BY <1>8, <2>2, <3>1, <4>1 DEF ReadImage, Ids
    <3>2. CASE kind = "chunk"
      <4>1. ReadChunk
        BY <1>6, <1>8, <2>2, <3>2 DEF ReadEvent, ReadImage, ReadReply, Incoming
      <4> QED
        BY <1>8, <2>2, <3>2, <4>1 DEF ReadChunk
    <3> QED
      BY <1>8, <3>1, <3>2 DEF PartKinds
  <2>4. parts \in [Ids -> SUBSET (PartKinds \X Ids)]
    BY DEF Inv, AnswerTypes
  <2> QED
    BY <2>3, <2>4 DEF Got
<1>9. \A r \in Ids : /\ sent[r] \subseteq PartKinds
                     /\ pending' = r => pending = r
  BY <1>1, NetElements DEF Ids
<1>10. ReplyInv'
  <2> SUFFICES ASSUME NEW k \in Conns, NEW n \in 1..Len(toHost'[k]), NEW r \in Ids,
                      toHost'[k][n] = Message("reply", r)
               PROVE  /\ Over(r)'
                      /\ pending' = r => \A kind \in sent'[r] :
                           Got(r, kind)' \/ Before(k, n, r, kind)'
    BY DEF ReplyInv
  <2>1. CASE ~(reader = "read" /\ toHost[accepted] # <<>>)
    BY <1>2, <1>3, <1>7, <1>9, <2>1 DEF ReplyIsLast, ReplyInv, Got, Before
  <2>2. CASE reader = "read" /\ toHost[accepted] # <<>> /\ k # accepted
    <3>1. toHost'[k] = toHost[k]
      BY <1>6, <2>2, TakenMoves
    <3>2. Over(r) /\ (pending = r => \A kind \in sent[r] :
                                      Got(r, kind) \/ Before(k, n, r, kind))
      BY <3>1 DEF ReplyIsLast, ReplyInv
    <3>3. \A kind : Before(k, n, r, kind) => Before(k, n, r, kind)'
      BY <3>1 DEF Before
    <3> QED
      BY <1>2, <1>3, <1>5, <1>9, <3>2, <3>3
  <2>3. CASE reader = "read" /\ toHost[accepted] # <<>> /\ k = accepted
    <3>1. /\ Len(toHost[k]) \in Nat /\ Len(toHost'[k]) = Len(toHost[k]) - 1
          /\ \A i \in 1..Len(toHost'[k]) : toHost'[k][i] = toHost[k][i + 1]
      BY <1>6, <2>3, TakenMoves
    <3>2. n + 1 \in 1..Len(toHost[k]) /\ toHost[k][n + 1] = Message("reply", r)
      BY <3>1
    <3>3. Over(r) /\ (pending = r => \A kind \in sent[r] :
                                      Got(r, kind) \/ Before(k, n + 1, r, kind))
      BY <3>2 DEF ReplyIsLast, ReplyInv
    <3>4. ASSUME NEW kind \in PartKinds, pending = r, Before(k, n + 1, r, kind)
          PROVE  Got(r, kind)' \/ Before(k, n, r, kind)'
      <4>1. PICK i \in 1..Len(toHost[k]) :
                   i < n + 1 /\ toHost[k][i] = Message(kind, r)
        BY <3>4 DEF Before
      <4>2. CASE i = 1
        BY <1>8, <2>3, <3>4, <4>1, <4>2
      <4>3. CASE i # 1
        <5>1. /\ i \in Nat /\ n \in Nat /\ n <= Len(toHost'[k]) /\ i > 1
              /\ i <= n
          BY <3>1, <4>1, <4>3
        <5>2. i - 1 \in 1..Len(toHost'[k]) /\ i - 1 < n /\ (i - 1) + 1 = i
          BY <3>1, <5>1
        <5>3. toHost'[k][i - 1] = Message(kind, r)
          BY <3>1, <4>1, <5>2
        <5> QED
          BY <5>2, <5>3 DEF Before
      <4> QED
        BY <4>2, <4>3
    <3> QED
      BY <1>2, <1>3, <1>5, <1>9, <3>3, <3>4
  <2> QED
    BY <2>1, <2>2, <2>3
<1>11. WorkInv'
  <2> SUFFICES ASSUME NEW r \in Ids, NEW k \in Conns, doing' = r, pending' = r,
                      sock' = k, k \notin gone', NEW kind \in sent'[r]
               PROVE  Got(r, kind)' \/ Coming(k, r, kind)'
    BY DEF WorkInv
  <2>1. kind \in PartKinds /\ pending = r /\ (Got(r, kind) \/ Coming(k, r, kind))
    BY <1>1, <1>2, <1>9 DEF ReplyIsLast, WorkInv
  <2>2. CASE Got(r, kind)
    BY <1>5, <2>2
  <2>3. CASE Coming(k, r, kind)
    <3>1. PICK i \in 1..Len(toHost[k]) : toHost[k][i] = Message(kind, r)
      BY <2>3 DEF Coming
    <3>2. CASE ~(reader = "read" /\ toHost[accepted] # <<>>)
      BY <1>7, <3>1, <3>2 DEF Coming
    <3>3. CASE reader = "read" /\ toHost[accepted] # <<>> /\ k # accepted
      <4>1. toHost'[k] = toHost[k]
        BY <1>6, <3>3, TakenMoves
      <4> QED
        BY <3>1, <4>1 DEF Coming
    <3>4. CASE reader = "read" /\ toHost[accepted] # <<>> /\ k = accepted
      <4>1. /\ Len(toHost[k]) \in Nat /\ Len(toHost'[k]) = Len(toHost[k]) - 1
            /\ \A j \in 1..Len(toHost'[k]) : toHost'[k][j] = toHost[k][j + 1]
        BY <1>6, <3>4, TakenMoves
      <4>2. CASE i = 1
        BY <1>8, <2>1, <3>1, <3>4, <4>2
      <4>3. CASE i # 1
        <5>1. /\ i - 1 \in 1..Len(toHost'[k])
              /\ toHost'[k][i - 1] = Message(kind, r)
          BY <3>1, <4>1, <4>3
        <5> QED
          BY <5>1 DEF Coming
      <4> QED
        BY <4>2, <4>3
    <3> QED
      BY <3>2, <3>3, <3>4
  <2> QED
    BY <2>1, <2>2, <2>3
<1>12. DoneInv'
  <2> SUFFICES ASSUME NEW r \in Ids, data'[r] = r
               PROVE  Over(r) /\ \A kind \in sent[r] : Got(r, kind)
    BY <1>2, <1>3, <1>5 DEF DoneInv
  <2>1. data \in [Ids -> Lost..MaxCalls]
    BY DEF Inv, AnswerTypes
  <2>2. CASE data[r] = r
    BY <2>2 DEF ReplyIsLast, DoneInv
  <2>3. CASE data[r] # r
    <3>1. reader = "read" /\ toHost[accepted] # <<>>
      BY <1>7, <2>1, <2>3 DEF Lost, Ids
    <3>2. /\ ReadReply /\ pending = r /\ TheId = r
      <4>1. ReadReply
        BY <1>6, <2>3, <3>1 DEF ReadEvent, ReadImage, ReadChunk, answerVars
      <4> QED
        BY <2>1, <2>3, <4>1 DEF ReadReply
    <3>3. toHost[accepted][1] = Message("reply", r)
      <4>1. Head(toHost[accepted]).kind = "reply"
        BY <3>2 DEF ReadReply, Incoming
      <4>2. /\ toHost[accepted][1] = Head(toHost[accepted])
            /\ accepted \in Conns /\ 1 \in 1..Len(toHost[accepted])
        BY <1>6, <3>1, TakenMoves
      <4>3. toHost[accepted][1] \in Messages
        BY <4>2, NetElements, ElementOfSeq
      <4> QED
        BY <3>2, <4>1, <4>2, <4>3 DEF TheId, Messages, Message
    <3>4. accepted \in Conns /\ 1 \in 1..Len(toHost[accepted])
      BY <1>6, <3>1, TakenMoves
    <3>5. Over(r) /\ \A kind \in sent[r] :
                       Got(r, kind) \/ Before(accepted, 1, r, kind)
      BY <3>2, <3>3, <3>4 DEF ReplyIsLast, ReplyInv
    <3>6. \A kind : ~Before(accepted, 1, r, kind)
      BY <3>4 DEF Before
    <3> QED
      BY <3>5, <3>6
  <2> QED
    BY <2>2, <2>3
<1> QED
  BY <1>4, <1>10, <1>11, <1>12 DEF ReplyIsLast

\* A message that is sent goes behind the others of its connection.
LEMMA EmitAppends ==
  ASSUME Inv, sock \in Conns, NEW kind, NEW id, Message(kind, id) \in Messages,
         Emit(kind, id)
  PROVE  /\ \A k \in Conns : \A n \in 1..Len(toHost[k]) :
              n \in 1..Len(toHost'[k]) /\ toHost'[k][n] = toHost[k][n]
         /\ \A k \in Conns : \A n \in 1..Len(toHost'[k]) :
              \/ n \in 1..Len(toHost[k])
              \/ /\ k = sock /\ k \notin gone /\ n = Len(toHost[k]) + 1
                 /\ toHost'[k][n] = Message(kind, id)
         /\ sock \notin gone =>
              /\ Len(toHost[sock]) + 1 \in 1..Len(toHost'[sock])
              /\ toHost'[sock][Len(toHost[sock]) + 1] = Message(kind, id)
<1>1. toHost \in [Conns -> Seq(Messages)] /\ \A k \in Conns : Len(toHost[k]) \in Nat
  BY NetElements DEF Inv, NetTypes
<1>2. CASE sock \in gone
  BY <1>1, <1>2 DEF Emit
<1>3. CASE sock \notin gone
  <2>1. toHost' = [toHost EXCEPT ![sock] = Append(toHost[sock], Message(kind, id))]
    BY <1>3 DEF Emit
  <2>2. /\ toHost'[sock] = Append(toHost[sock], Message(kind, id))
        /\ \A k \in Conns : k # sock => toHost'[k] = toHost[k]
    BY <1>1, <2>1
  <2>3. /\ Len(toHost'[sock]) = Len(toHost[sock]) + 1
        /\ \A n \in 1..Len(toHost[sock]) : toHost'[sock][n] = toHost[sock][n]
        /\ toHost'[sock][Len(toHost[sock]) + 1] = Message(kind, id)
    BY <1>1, <2>2, AppendProperties
  <2>4. \A n \in 1..Len(toHost'[sock]) :
          n \in 1..Len(toHost[sock]) \/ n = Len(toHost[sock]) + 1
    BY <1>1, <2>3, OneMore
  <2>5. /\ \A n \in 1..Len(toHost[sock]) : n \in 1..Len(toHost'[sock])
        /\ Len(toHost[sock]) + 1 \in 1..Len(toHost'[sock])
    BY <1>1, <2>3, OneMore
  <2>6. ASSUME NEW k \in Conns
        PROVE  /\ \A n \in 1..Len(toHost[k]) :
                    n \in 1..Len(toHost'[k]) /\ toHost'[k][n] = toHost[k][n]
               /\ \A n \in 1..Len(toHost'[k]) :
                    \/ n \in 1..Len(toHost[k])
                    \/ /\ k = sock /\ k \notin gone /\ n = Len(toHost[k]) + 1
                       /\ toHost'[k][n] = Message(kind, id)
    <3>1. CASE k = sock
      BY <1>3, <2>3, <2>4, <2>5, <3>1
    <3>2. CASE k # sock
      BY <2>2, <3>2
    <3> QED
      BY <3>1, <3>2
  <2> QED
    BY <2>3, <2>5, <2>6
<1> QED
  BY <1>2, <1>3

\* What the device's steps and the path's leave alone.
LEMMA LinkFrame ==
  ASSUME UNCHANGED hostVars
  PROVE  /\ UNCHANGED <<place, rid, via, nextId, pending, data, parts>>
         /\ \A r : New(r)' = New(r)
         /\ \A r, kind : Got(r, kind)' = Got(r, kind)
<1>1. UNCHANGED <<place, rid, via, nextId, pending, data, parts>>
  BY DEF hostVars, callVars, answerVars
<1>2. (\A r : New(r)' = New(r)) /\ \A r, kind : Got(r, kind)' = Got(r, kind)
  BY <1>1 DEF New, Got
<1> QED
  BY <1>1, <1>2

\* What is over stays over, and where nothing new is sent the order stays.
LEMMA KeptOrder ==
  ASSUME ReplyIsLast, UNCHANGED <<pending, data>>,
         \A r, kind : Got(r, kind)' = Got(r, kind),
         \A r \in Ids : Over(r) => Over(r)' /\ sent'[r] = sent[r],
         NEW k \in Conns, NEW n \in 1..Len(toHost[k]), NEW r \in Ids,
         toHost[k][n] = Message("reply", r),
         \A i \in 1..n : i \in 1..Len(toHost'[k]) /\ toHost'[k][i] = toHost[k][i],
         \A i \in 1..Len(toHost[k]) : i < n => i \in 1..n
  PROVE  /\ Over(r)'
         /\ pending' = r => \A kind \in sent'[r] :
              Got(r, kind)' \/ Before(k, n, r, kind)'
<1>1. Over(r) /\ (pending = r => \A kind \in sent[r] :
                                   Got(r, kind) \/ Before(k, n, r, kind))
  BY DEF ReplyIsLast, ReplyInv
<1>2. \A kind : Before(k, n, r, kind) => Before(k, n, r, kind)'
  BY DEF Before
<1> QED
  BY <1>1, <1>2

\* The device answers a command after it took it, with the reply last; the
\* path cuts a connection's messages off at some point.
LEMMA LinkKeepsReplies ==
  ASSUME Inv, ReplyIsLast, DeviceStep \/ PathStep
  PROVE  ReplyIsLast'
<1>1. UNCHANGED hostVars
  BY DEF DeviceStep, PathStep, Dial, Hello, Receive, SendPart, SendReply,
     LinkFails, SendStalls, Close, Vanish, Notice
<1>2. /\ UNCHANGED <<place, rid, via, nextId, pending, data, parts>>
      /\ \A r : New(r)' = New(r)
      /\ \A r, kind : Got(r, kind)' = Got(r, kind)
  BY <1>1, LinkFrame
<1>3. /\ \A k \in Conns : Len(toHost[k]) \in Nat /\ Len(toDev[k]) \in Nat
      /\ toHost \in [Conns -> Seq(Messages)] /\ toDev \in [Conns -> Seq(Ids)]
      /\ sent \in [Ids -> SUBSET PartKinds]
      /\ dev # "dial" => sock \in Conns
      /\ dev = "work" => doing \in Ids
  BY NetElements DEF Inv, NetTypes, DeviceTypes
<1>4. dev # "work" => doing = 0
  BY DEF ReplyIsLast, AskInv
<1>5. ASSUME \A r \in Ids : Over(r) => Over(r)' /\ sent'[r] = sent[r]
      PROVE  DoneInv'
  BY <1>2, <1>5 DEF ReplyIsLast, DoneInv
<1>6. ASSUME \A r \in Ids : Over(r) => Over(r)' /\ sent'[r] = sent[r],
             \A k \in Conns : \A n \in 1..Len(toHost'[k]) :
               /\ n \in 1..Len(toHost[k])
               /\ \A i \in 1..n : /\ i \in 1..Len(toHost'[k])
                                  /\ toHost'[k][i] = toHost[k][i]
      PROVE  ReplyInv'
  <2> SUFFICES ASSUME NEW k \in Conns, NEW n \in 1..Len(toHost'[k]), NEW r \in Ids,
                      toHost'[k][n] = Message("reply", r)
               PROVE  /\ Over(r)'
                      /\ pending' = r => \A kind \in sent'[r] :
                           Got(r, kind)' \/ Before(k, n, r, kind)'
    BY DEF ReplyInv
  <2>1. /\ n \in 1..Len(toHost[k]) /\ n \in 1..n
        /\ \A i \in 1..n : i \in 1..Len(toHost'[k]) /\ toHost'[k][i] = toHost[k][i]
        /\ \A i \in 1..Len(toHost[k]) : i < n => i \in 1..n
    BY <1>3, <1>6
  <2>2. toHost[k][n] = Message("reply", r)
    BY <2>1
  <2> QED
    BY <1>2, <1>6, <2>1, <2>2, KeptOrder
<1>7. ASSUME UNCHANGED <<toHost, toDev, sent>>, doing' = 0
      PROVE  ReplyIsLast'
  <2>1. \A r \in Ids : Over(r) => Over(r)' /\ sent'[r] = sent[r]
    BY <1>2, <1>7 DEF Over, Asked
  <2>2. AskInv'
    BY <1>2, <1>7 DEF ReplyIsLast, AskInv
  <2>3. ReplyInv'
    <3>1. \A k \in Conns : \A n \in 1..Len(toHost'[k]) :
            /\ n \in 1..Len(toHost[k])
            /\ \A i \in 1..n : /\ i \in 1..Len(toHost'[k])
                               /\ toHost'[k][i] = toHost[k][i]
      BY <1>3, <1>7
    <3> QED
      BY <1>6, <2>1, <3>1
  <2>4. WorkInv'
    BY <1>7 DEF WorkInv
  <2> QED
    BY <1>5, <2>1, <2>2, <2>3, <2>4 DEF ReplyIsLast
<1>8. CASE Dial \/ LinkFails \/ SendStalls
  BY <1>4, <1>7, <1>8 DEF Dial, LinkFails, SendStalls, netVars
<1>9. CASE \E k \in Conns : Notice(k)
  <2>1. UNCHANGED <<toHost, toDev, gone, dev, sock, doing, sent>>
    BY <1>9 DEF Notice, deviceVars
  <2>2. /\ \A r : Over(r)' = Over(r)
        /\ \A k, n, r, kind : Before(k, n, r, kind)' = Before(k, n, r, kind)
        /\ \A k, r, kind : Coming(k, r, kind)' = Coming(k, r, kind)
    BY <1>2, <2>1 DEF Over, Asked, Before, Coming
  <2> QED
    BY <1>2, <2>1, <2>2 DEF ReplyIsLast, AskInv, ReplyInv, WorkInv, DoneInv
<1>10. CASE Hello
  <2>1. UNCHANGED <<toDev, sent, doing>> /\ doing = 0 /\ Emit("event", 0)
    BY <1>4, <1>10 DEF Hello
  <2>2. \A r \in Ids : Over(r) => Over(r)' /\ sent'[r] = sent[r]
    BY <1>2, <2>1 DEF Over, Asked
  <2>3. AskInv'
    BY <1>2, <2>1 DEF ReplyIsLast, AskInv
  <2>4. sock \in Conns /\ Message("event", 0) \in Messages
    BY <1>3, <1>10 DEF Hello, Message, Messages
  <2>5. ReplyInv'
    <3> SUFFICES ASSUME NEW k \in Conns, NEW n \in 1..Len(toHost'[k]),
                        NEW r \in Ids, toHost'[k][n] = Message("reply", r)
                 PROVE  /\ Over(r)'
                        /\ pending' = r => \A kind \in sent'[r] :
                             Got(r, kind)' \/ Before(k, n, r, kind)'
      BY DEF ReplyInv
    <3>1. n \in 1..Len(toHost[k])
      BY SMTT(30), <2>1, <2>4, EmitAppends DEF Message
    <3>2. /\ \A i \in 1..n : i \in 1..Len(toHost'[k])
                             /\ toHost'[k][i] = toHost[k][i]
          /\ n \in 1..n
          /\ \A i \in 1..Len(toHost[k]) : i < n => i \in 1..n
      BY SMTT(60), <1>3, <2>1, <2>4, <3>1, EmitAppends
    <3>3. toHost[k][n] = Message("reply", r)
      BY <3>2
    <3> QED
      BY <1>2, <2>2, <3>1, <3>2, <3>3, KeptOrder
  <2>6. WorkInv'
    BY <2>1 DEF WorkInv
  <2> QED
    BY <1>5, <2>2, <2>3, <2>5, <2>6 DEF ReplyIsLast
<1>11. CASE Receive
  <2>1. /\ UNCHANGED <<sock, sent, toHost, gone>> /\ dev' = "work"
        /\ doing = 0 /\ sock \in Conns /\ toDev[sock] # <<>>
        /\ doing' = Head(toDev[sock])
        /\ toDev' = [toDev EXCEPT ![sock] = Tail(toDev[sock])]
    BY <1>3, <1>4, <1>11 DEF Receive
  <2>2. /\ Len(Tail(toDev[sock])) = Len(toDev[sock]) - 1
        /\ \A n \in 1..Len(Tail(toDev[sock])) :
             Tail(toDev[sock])[n] = toDev[sock][n + 1]
        /\ toDev[sock][1] = Head(toDev[sock])
    BY <1>3, <2>1, HeadTailProperties
  <2>3. 1 \in 1..Len(toDev[sock])
    BY <1>3, <2>1, EmptySeq
  <2>4. /\ doing' \in Ids /\ ~New(doing') /\ via[doing'] = sock
        /\ sent[doing'] = {}
        /\ \A j \in 1..Len(toDev[sock]) : toDev[sock][j] = doing' => j = 1
    <3>1. doing' \in Ids /\ toDev[sock][1] = doing'
      BY <2>1, <2>2, <2>3, NetElements
    <3> QED
      BY <2>1, <2>3, <3>1 DEF ReplyIsLast, AskInv
  <2>5. ASSUME NEW k \in Conns, NEW i \in 1..Len(toDev'[k])
        PROVE  \E j \in 1..Len(toDev[k]) :
                 /\ toDev[k][j] = toDev'[k][i] /\ toDev'[k][i] # doing'
                 /\ j = IF k = sock THEN i + 1 ELSE i
    <3>1. CASE k # sock
      <4>1. toDev'[k] = toDev[k]
        BY <1>3, <2>1, <3>1
      <4>2. toDev[k][i] \in Ids /\ i \in 1..Len(toDev[k])
        BY <4>1, NetElements
      <4>3. via[toDev[k][i]] = k
        BY <4>2 DEF ReplyIsLast, AskInv
      <4> QED
        BY <2>4, <3>1, <4>1, <4>2, <4>3
    <3>2. CASE k = sock
      <4>1. toDev'[k] = Tail(toDev[sock])
        BY <1>3, <2>1, <3>2
      <4>2. /\ i + 1 \in 1..Len(toDev[k]) /\ i + 1 # 1
            /\ toDev'[k][i] = toDev[k][i + 1]
        BY <1>3, <2>2, <3>2, <4>1
      <4> QED
        BY <2>4, <3>2, <4>2
    <3> QED
      BY <3>1, <3>2
  <2>6. \A r \in Ids : Over(r) => Over(r)' /\ sent'[r] = sent[r]
    <3>1. ASSUME NEW r \in Ids, Asked(r)'
          PROVE  Asked(r)
      <4>1. PICK k \in Conns : \E i \in 1..Len(toDev'[k]) : toDev'[k][i] = r
        BY <3>1 DEF Asked
      <4>2. \E j \in 1..Len(toDev[k]) : toDev[k][j] = r
        BY SMTT(30), <2>5, <4>1
      <4> QED
        BY <4>2 DEF Asked
    <3>2. Asked(doing')
      BY <2>1, <2>2, <2>3 DEF Asked
    <3> QED
      BY <1>2, <2>1, <3>1, <3>2 DEF Over
  <2>7. AskInv'
    <3>1. ASSUME NEW k \in Conns, NEW r \in Ids, NEW i \in 1..Len(toDev'[k]),
                 toDev'[k][i] = r
          PROVE  /\ ~New(r)' /\ doing' # r /\ via'[r] = k /\ sent'[r] = {}
                 /\ \A j \in 1..Len(toDev'[k]) : toDev'[k][j] = r => i = j
      <4>1. PICK a \in 1..Len(toDev[k]) :
              /\ toDev[k][a] = r /\ r # doing'
              /\ a = IF k = sock THEN i + 1 ELSE i
        BY <2>5, <3>1
      <4>2. /\ ~New(r) /\ via[r] = k /\ sent[r] = {}
            /\ \A b \in 1..Len(toDev[k]) : toDev[k][b] = r => a = b
        BY <4>1 DEF ReplyIsLast, AskInv
      <4>3. ASSUME NEW j \in 1..Len(toDev'[k]), toDev'[k][j] = r
            PROVE  i = j
        <5>1. PICK b \in 1..Len(toDev[k]) :
                toDev[k][b] = r /\ b = IF k = sock THEN j + 1 ELSE j
          BY <2>5, <4>3
        <5>2. a = b
          BY <4>2, <5>1
        <5>3. i \in Int /\ j \in Int
          OBVIOUS
        <5> QED
          BY <4>1, <5>1, <5>2, <5>3
      <4> QED
        BY <1>2, <2>1, <4>1, <4>2, <4>3
    <3>2. doing' # 0 => dev' = "work" /\ via'[doing'] = sock'
      BY <1>2, <2>1, <2>4
    <3>3. \A r \in Ids : New(r)' => doing' # r /\ sent'[r] = {}
      BY <1>2, <2>1, <2>4 DEF ReplyIsLast, AskInv
    <3> QED
      BY <3>1, <3>2, <3>3 DEF AskInv
  <2>8. ReplyInv'
    <3>1. \A k \in Conns : \A n \in 1..Len(toHost'[k]) :
            /\ n \in 1..Len(toHost[k])
            /\ \A i \in 1..n : /\ i \in 1..Len(toHost'[k])
                               /\ toHost'[k][i] = toHost[k][i]
      BY <1>3, <2>1
    <3> QED
      BY <1>6, <2>6, <3>1
  <2>9. WorkInv'
    BY <2>1, <2>4 DEF WorkInv
  <2> QED
    BY <1>5, <2>6, <2>7, <2>8, <2>9 DEF ReplyIsLast
<1>12. CASE \E part \in PartKinds : SendPart(part)
  <2>0. PICK part \in PartKinds : SendPart(part)
    BY <1>12
  <2>1. /\ UNCHANGED <<toDev, gone, dev, sock, doing>> /\ dev = "work"
        /\ sent[doing] = {} /\ Emit(part, doing)
        /\ sent' = [sent EXCEPT ![doing] = {part}]
        /\ doing \in Ids /\ sock \in Conns /\ Message(part, doing) \in Messages
        /\ part # "reply"
    BY <1>3, <2>0 DEF SendPart, Message, Messages, PartKinds
  <2>2. \A r \in Ids : Over(r) => Over(r)' /\ sent'[r] = sent[r]
    <3>1. \A r \in Ids : Asked(r)' = Asked(r)
      BY <2>1 DEF Asked
    <3> QED
      BY <1>2, <1>3, <2>1, <3>1 DEF Over
  <2>3. AskInv'
    <3>1. /\ UNCHANGED <<toDev, dev, sock, doing>> /\ doing \in Ids
          /\ \A r \in Ids : r # doing => sent'[r] = sent[r]
      BY <1>3, <2>1
    <3>2. dev = "work" /\ via[doing] = sock
      BY <1>3, <2>1 DEF ReplyIsLast, AskInv, Inv, LinkInv
    <3>3. \A r \in Ids : New(r) => doing # r /\ sent[r] = {}
      BY DEF ReplyIsLast, AskInv
    <3>4. \A r \in Ids : New(r)' => doing' # r /\ sent'[r] = {}
      BY <1>2, <3>1, <3>3
    <3>5. ASSUME NEW k \in Conns, NEW r \in Ids, NEW i \in 1..Len(toDev'[k]),
                 toDev'[k][i] = r
          PROVE  /\ ~New(r)' /\ doing' # r /\ via'[r] = k /\ sent'[r] = {}
                 /\ \A j \in 1..Len(toDev'[k]) : toDev'[k][j] = r => i = j
      BY <1>2, <3>1, <3>5 DEF ReplyIsLast, AskInv
    <3> QED
      BY <1>2, <3>1, <3>2, <3>4, <3>5 DEF AskInv
  <2>4. ReplyInv'
    <3> SUFFICES ASSUME NEW k \in Conns, NEW n \in 1..Len(toHost'[k]),
                        NEW r \in Ids, toHost'[k][n] = Message("reply", r)
                 PROVE  /\ Over(r)'
                        /\ pending' = r => \A kind \in sent'[r] :
                             Got(r, kind)' \/ Before(k, n, r, kind)'
      BY DEF ReplyInv
    <3>1. n \in 1..Len(toHost[k])
      BY <2>1, EmitAppends DEF Message
    <3>2. /\ \A i \in 1..n : i \in 1..Len(toHost'[k])
                             /\ toHost'[k][i] = toHost[k][i]
          /\ n \in 1..n
          /\ \A i \in 1..Len(toHost[k]) : i < n => i \in 1..n
      BY SMTT(30), <1>3, <2>1, <3>1, EmitAppends
    <3>3. toHost[k][n] = Message("reply", r)
      BY <3>2
    <3> QED
      BY <1>2, <2>2, <3>1, <3>2, <3>3, KeptOrder
  <2>5. WorkInv'
    <3>1. sock \notin gone => Coming(sock, doing, part)'
      BY <2>1, EmitAppends DEF Coming
    <3>2. sent'[doing] = {part}
      BY <1>3, <2>1
    <3> QED
      BY <2>1, <3>1, <3>2 DEF WorkInv
  <2> QED
    BY <1>5, <2>2, <2>3, <2>4, <2>5 DEF ReplyIsLast
<1>13. CASE SendReply
  <2>1. /\ UNCHANGED <<toDev, gone, sock, sent>> /\ doing' = 0
        /\ Emit("reply", doing) /\ doing \in Ids /\ sock \in Conns
        /\ Message("reply", doing) \in Messages
    BY <1>3, <1>13 DEF SendReply, Message, Messages
  <2>2. \A r \in Ids : Over(r) => Over(r)' /\ sent'[r] = sent[r]
    <3>1. \A r \in Ids : Asked(r)' = Asked(r)
      BY <2>1 DEF Asked
    <3> QED
      BY <1>2, <2>1, <3>1 DEF Over
  <2>3. AskInv'
    <3>1. UNCHANGED <<toDev, sent>> /\ doing' = 0
      BY <2>1
    <3> QED
      BY <1>2, <3>1 DEF ReplyIsLast, AskInv
  <2>4. ReplyInv'
    <3> SUFFICES ASSUME NEW k \in Conns, NEW n \in 1..Len(toHost'[k]),
                        NEW r \in Ids, toHost'[k][n] = Message("reply", r)
                 PROVE  /\ Over(r)'
                        /\ pending' = r => \A kind \in sent'[r] :
                             Got(r, kind)' \/ Before(k, n, r, kind)'
      BY DEF ReplyInv
    <3>0. \A i \in 1..Len(toHost[k]) :
            i \in 1..Len(toHost'[k]) /\ toHost'[k][i] = toHost[k][i]
      BY <2>1, EmitAppends
    <3>1. CASE n \in 1..Len(toHost[k])
      <4>1. /\ \A i \in 1..n : i \in 1..Len(toHost'[k])
                               /\ toHost'[k][i] = toHost[k][i]
            /\ n \in 1..n
            /\ \A i \in 1..Len(toHost[k]) : i < n => i \in 1..n
        BY SMTT(30), <1>3, <3>0, <3>1
      <4>2. toHost[k][n] = Message("reply", r)
        BY <4>1
      <4> QED
        BY <1>2, <2>2, <3>1, <4>1, <4>2, KeptOrder
    <3>2. CASE n \notin 1..Len(toHost[k])
      <4>1. /\ k = sock /\ k \notin gone /\ n = Len(toHost[k]) + 1
            /\ toHost'[k][n] = Message("reply", doing)
        BY <2>1, <3>2, EmitAppends
      <4>2. r = doing
        BY <4>1 DEF Message
      <4>3. Over(r)'
        BY <1>2, <2>1, <4>2 DEF Over, Asked, ReplyIsLast, AskInv
      <4>4. pending = r => \A kind \in sent[r] :
                             Got(r, kind) \/ Coming(k, r, kind)
        BY <4>1, <4>2 DEF ReplyIsLast, WorkInv
      <4>5. \A kind : Coming(k, r, kind) => Before(k, n, r, kind)'
        <5>1. \A i \in 1..Len(toHost[k]) :
                /\ i < n /\ i \in 1..Len(toHost'[k])
                /\ toHost'[k][i] = toHost[k][i]
          BY <1>3, <2>1, <4>1, EmitAppends
        <5> QED
          BY <5>1 DEF Coming, Before
      <4> QED
        BY <1>2, <2>1, <4>3, <4>4, <4>5
    <3> QED
      BY <3>1, <3>2
  <2>5. WorkInv'
    BY <2>1 DEF WorkInv
  <2> QED
    BY <1>5, <2>2, <2>3, <2>4, <2>5 DEF ReplyIsLast
<1>14. CASE Close \/ Vanish
  <2>1. /\ toDev' = [toDev EXCEPT ![sock] = <<>>]
        /\ UNCHANGED <<doing, sent>>
        /\ doing = 0 \/ (UNCHANGED <<dev, sock>> /\ sock \in gone')
        /\ gone \subseteq gone'
    BY <1>3, <1>4, <1>14 DEF Close, Vanish, deviceVars, Inv, DeviceTypes
  <2>2. sock \in Conns
    BY <1>3, <1>14 DEF Close, Vanish, Inv, DeviceTypes
  <2>3. \A k \in Conns : \A i \in 1..Len(toDev'[k]) :
          /\ i \in 1..Len(toDev[k]) /\ toDev'[k] = toDev[k]
    <3>1. ASSUME NEW k \in Conns, NEW i \in 1..Len(toDev'[k])
          PROVE  k # sock
      BY <1>3, <2>1, <2>2, <3>1, EmptySeq
    <3> QED
      BY <1>3, <2>1, <3>1
  <2>4. \A r \in Ids : Over(r) => Over(r)' /\ sent'[r] = sent[r]
    BY <1>2, <2>1, <2>3 DEF Over, Asked
  <2>5. AskInv'
    <3>1. doing' # 0 => dev' = "work" /\ via'[doing'] = sock'
      BY <1>2, <2>1 DEF ReplyIsLast, AskInv
    <3>2. \A r \in Ids : New(r)' => doing' # r /\ sent'[r] = {}
      BY <1>2, <2>1 DEF ReplyIsLast, AskInv
    <3>3. ASSUME NEW k \in Conns, NEW r \in Ids, NEW i \in 1..Len(toDev'[k]),
                 toDev'[k][i] = r
          PROVE  /\ ~New(r)' /\ doing' # r /\ via'[r] = k /\ sent'[r] = {}
                 /\ \A j \in 1..Len(toDev'[k]) : toDev'[k][j] = r => i = j
      <4>1. i \in 1..Len(toDev[k]) /\ toDev'[k] = toDev[k]
        BY <2>3
      <4> QED
        BY <1>2, <2>1, <3>3, <4>1 DEF ReplyIsLast, AskInv
    <3> QED
      BY <3>1, <3>2, <3>3 DEF AskInv
  <2>6. ReplyInv'
    <3>1. CASE toHost' = toHost
      <4>1. \A k \in Conns : \A n \in 1..Len(toHost'[k]) :
              /\ n \in 1..Len(toHost[k])
              /\ \A i \in 1..n : /\ i \in 1..Len(toHost'[k])
                                 /\ toHost'[k][i] = toHost[k][i]
        BY <1>3, <3>1
      <4> QED
        BY <1>6, <2>4, <4>1
    <3>2. CASE toHost' # toHost
      <4>1. PICK m \in 0..Len(toHost[sock]) :
              toHost' = [toHost EXCEPT ![sock] = SubSeq(toHost[sock], 1, m)]
        BY <1>14, <3>2 DEF Close, Vanish
      <4>2. /\ Len(SubSeq(toHost[sock], 1, m)) = m
            /\ \A i \in 1..m : SubSeq(toHost[sock], 1, m)[i] = toHost[sock][i]
        <5>1. /\ m \in Nat /\ m <= Len(toHost[sock]) /\ 1 \in Int
              /\ \A i \in 1..m : toHost[sock][i] \in Messages
          BY <1>3, <2>2, ElementOfSeq
        <5>2. /\ Len(SubSeq(toHost[sock], 1, m)) = IF 1 <= m THEN m - 1 + 1 ELSE 0
              /\ \A i \in 1..(m - 1 + 1) :
                   SubSeq(toHost[sock], 1, m)[i] = toHost[sock][1 + i - 1]
          BY <5>1, SubSeqProperties
        <5> QED
          BY <5>1, <5>2
      <4>3. \A k \in Conns : \A n \in 1..Len(toHost'[k]) :
              /\ n \in 1..Len(toHost[k])
              /\ \A i \in 1..n : /\ i \in 1..Len(toHost'[k])
                                 /\ toHost'[k][i] = toHost[k][i]
        BY SMTT(30), <1>3, <2>2, <4>1, <4>2
      <4> QED
        BY <1>6, <2>4, <4>3
    <3> QED
      BY <3>1, <3>2
  <2>7. WorkInv'
    BY <2>1 DEF WorkInv
  <2> QED
    BY <1>5, <2>4, <2>5, <2>6, <2>7 DEF ReplyIsLast
<1> QED
  BY <1>8, <1>9, <1>10, <1>11, <1>12, <1>13, <1>14 DEF DeviceStep, PathStep

\* A reply that reached its call left nothing of its answer behind.
THEOREM RepliesAreComplete == Spec => []CompleteReply
<1>1. Init => ReplyIsLast
  <2> SUFFICES ASSUME Init PROVE ReplyIsLast
    OBVIOUS
  <2>1. /\ \A k \in Conns : toHost[k] = <<>> /\ toDev[k] = <<>>
        /\ doing = 0 /\ \A r \in Ids : sent[r] = {} /\ data[r] = 0
    BY DEF Init
  <2>2. Len(<<>>) = 0 /\ 1..0 = {}
    BY EmptySeq
  <2> QED
    BY <2>1, <2>2 DEF ReplyIsLast, AskInv, ReplyInv, WorkInv, DoneInv
<1>2. ASSUME Inv, ReplyIsLast, [Next]_vars
      PROVE  ReplyIsLast'
  <2>1. CASE \E c \in Callers : CallStep(c)
    BY <1>2, <2>1, CallKeepsReplies
  <2>2. CASE ReaderStep
    BY <1>2, <2>2, ReaderKeepsReplies
  <2>3. CASE DeviceStep \/ PathStep
    BY <1>2, <2>3, LinkKeepsReplies
  <2>4. CASE UNCHANGED vars
    <3>1. /\ UNCHANGED <<place, rid, via, nextId, pending, data, parts>>
          /\ UNCHANGED <<dev, sock, doing, sent, toHost, toDev, gone>>
      BY <2>4 DEF vars, callVars, answerVars, deviceVars, netVars
    <3>2. /\ \A r : New(r)' = New(r) /\ Asked(r)' = Asked(r)
          /\ \A r, kind : Got(r, kind)' = Got(r, kind)
          /\ \A k, n, r, kind : Before(k, n, r, kind)' = Before(k, n, r, kind)
          /\ \A k, r, kind : Coming(k, r, kind)' = Coming(k, r, kind)
      BY <3>1 DEF New, Asked, Got, Before, Coming
    <3>3. \A r : Over(r)' = Over(r)
      BY <3>1, <3>2 DEF Over
    <3> QED
      BY SMTT(30), <1>2, <3>1, <3>2, <3>3
         DEF ReplyIsLast, AskInv, ReplyInv, WorkInv, DoneInv
  <2> QED
    BY <1>2, <2>1, <2>2, <2>3, <2>4 DEF Next
<1>3. ReplyIsLast => CompleteReply
  BY DEF ReplyIsLast, DoneInv, CompleteReply, Got
<1> QED
  BY <1>1, <1>2, <1>3, SessionCorrect, PTL DEF Spec

=============================================================================
