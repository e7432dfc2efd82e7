---------------------------- MODULE DeviceSession ----------------------------
(***************************************************************************)
(* The control channel: the host's DeviceSession (device_session.py), the  *)
(* device's control_link_task (control_link.c) and the connections between *)
(* them.                                                                   *)
(*                                                                         *)
(* Callers are serialised by _call_lock, but the reader thread works on    *)
(* _pending without any lock, between any two steps of a caller.  A call   *)
(* is named by its id, and so are the Reply and the Event that belong to   *)
(* it.  A command is answered by parts, images or register chunks, and a   *)
(* final reply.                                                            *)
(***************************************************************************)
EXTENDS Integers, Sequences, FiniteSets

CONSTANTS
  Callers,     \* threads that use the session
  MaxCalls,    \* bound: ids given out
  MaxConns,    \* bound: connections dialled
  MaxFlight    \* bound: messages of the device on their way

ASSUME BoundAssumption ==
  MaxCalls \in Nat \ {0} /\ MaxConns \in Nat \ {0} /\ MaxFlight \in Nat \ {0}

Ids == 1..MaxCalls
Conns == 1..MaxConns
PartKinds == {"image", "chunk"}
Message(kind, id) == [kind |-> kind, id |-> id]
Messages == [kind : PartKinds \cup {"reply"}, id : Ids]
              \cup [kind : {"event"}, id : {0}]
Lost == -1           \* the data "device disconnected"

VARIABLES
  place,     \* where each caller is in call()
  rid,       \* its id
  via,       \* the connection each call read from _conn
  nextId,    \* _next_id
  pending,   \* id in _pending, 0 for None
  data,      \* Reply.data of a call: 0, the id of the answer it got, or Lost
  parts,     \* Reply.images and Reply.chunks
  woken,     \* calls whose Event is set
  conn,      \* _conn, 0 for None
  accepted,  \* connections accepted; the last one is the reader's
  reader,    \* where the accept/read thread is
  held,      \* its local p
  dev,       \* where control_link_task is
  sock,      \* s_sock, 0 for -1
  doing,     \* the command it handles
  sent,      \* the parts it sent for each command
  dials,     \* connections dialled
  toHost, toDev,  \* messages on their way, by connection
  gone,      \* connections whose device end vanished without a FIN
  ended      \* connections whose end the host can see

callVars == <<place, rid, via, nextId>>
answerVars == <<data, parts, woken>>
readerVars == <<conn, accepted, reader, held>>
deviceVars == <<dev, sock, doing, sent, dials>>
netVars == <<toHost, toDev, gone, ended>>
vars == <<callVars, pending, answerVars, readerVars, deviceVars, netVars>>

Init ==
  /\ place = [c \in Callers |-> "idle"] /\ rid = [c \in Callers |-> 0]
  /\ via = [r \in Ids |-> 0] /\ nextId = 1 /\ pending = 0
  /\ data = [r \in Ids |-> 0] /\ parts = [r \in Ids |-> {}] /\ woken = {}
  /\ conn = 0 /\ accepted = 0 /\ reader = "accept" /\ held = 0
  /\ dev = "dial" /\ sock = 0 /\ doing = 0 /\ sent = [r \in Ids |-> {}]
  /\ dials = 0
  /\ toHost = [k \in Conns |-> <<>>] /\ toDev = [k \in Conns |-> <<>>]
  /\ gone = {} /\ ended = {}

(***************************************************************************)
(* call(), under _call_lock.                                               *)
(***************************************************************************)
Go(c, where) == place' = [place EXCEPT ![c] = where]

\* _call_lock is released, and the locals are gone.
Leave(c) == Go(c, "idle") /\ rid' = [rid EXCEPT ![c] = 0]

\* Without a connection the call is refused and nothing changes.
Begin(c) ==
  /\ \A d \in Callers : place[d] = "idle"
  /\ conn # 0 /\ nextId <= MaxCalls
  /\ Go(c, "pend")
  /\ rid' = [rid EXCEPT ![c] = nextId] /\ via' = [via EXCEPT ![nextId] = conn]
  /\ nextId' = nextId + 1
  /\ UNCHANGED <<pending, answerVars, readerVars, deviceVars, netVars>>

SetPending(c) ==
  /\ place[c] = "pend"
  /\ pending' = rid[c] /\ Go(c, "send")
  /\ UNCHANGED <<rid, via, nextId, answerVars, readerVars, deviceVars,
                 netVars>>

\* sendall() is happy with a connection whose other end is gone.
Send(c) ==
  /\ place[c] = "send"
  /\ toDev' = IF via[rid[c]] \in gone \cup ended THEN toDev
                ELSE [toDev EXCEPT ![via[rid[c]]] = Append(@, rid[c])]
  /\ Go(c, "wait")
  /\ UNCHANGED <<rid, via, nextId, pending, answerVars, readerVars, deviceVars,
                 toHost, gone, ended>>

SendFails(c) ==
  /\ place[c] = "send" /\ via[rid[c]] \in ended
  /\ pending' = 0 /\ Leave(c)
  /\ UNCHANGED <<via, nextId, answerVars, readerVars, deviceVars,
                 netVars>>

Return(c) ==
  /\ place[c] = "wait" /\ rid[c] \in woken
  /\ Leave(c)
  /\ UNCHANGED <<via, nextId, pending, answerVars, readerVars,
                 deviceVars, netVars>>

\* ev.wait() ran out ...
TimeOut(c) ==
  /\ place[c] = "wait" /\ rid[c] \notin woken
  /\ Go(c, "late")
  /\ UNCHANGED <<rid, via, nextId, pending, answerVars, readerVars,
                 deviceVars, netVars>>

\* Mutant of GiveUp: _pending stays.
GiveUpKeeping(c) ==
  /\ place[c] = "late"
  /\ Leave(c)
  /\ UNCHANGED <<via, nextId, pending, answerVars, readerVars,
                 deviceVars, netVars>>

\* ... and what it waited for is forgotten.
GiveUp(c) ==
  /\ place[c] = "late"
  /\ pending' = 0 /\ Leave(c)
  /\ UNCHANGED <<via, nextId, answerVars, readerVars, deviceVars,
                 netVars>>

CallStep(c) ==
  \/ Begin(c) \/ SetPending(c) \/ Send(c) \/ SendFails(c) \/ Return(c)
  \/ TimeOut(c) \/ GiveUp(c)

(***************************************************************************)
(* _accept_loop() and _read_loop(), one thread.                            *)
(***************************************************************************)
readFrame == <<callVars, deviceVars, toDev, gone, ended, conn, accepted>>

\* The next connection is accepted when the last one has been read to its end;
\* there is never an old _conn to close.
Accept ==
  /\ reader = "accept" /\ accepted < dials
  /\ accepted' = accepted + 1 /\ conn' = accepted + 1
  /\ reader' = "read"
  /\ UNCHANGED <<callVars, pending, answerVars, held, deviceVars, netVars>>

Incoming(kind) ==
  /\ reader = "read" /\ toHost[accepted] # <<>>
  /\ Head(toHost[accepted]).kind = kind
  /\ toHost' = [toHost EXCEPT ![accepted] = Tail(@)]

TheId == Head(toHost[accepted]).id

\* hello and the other events go to fields of their own.
ReadEvent ==
  /\ Incoming("event")
  /\ UNCHANGED <<readFrame, pending, answerVars, reader, held>>

\* An image carries no id; whoever waits gets it.
ReadImage ==
  /\ Incoming("image")
  /\ parts' = IF pending = 0 THEN parts
                ELSE [parts EXCEPT ![pending] = @ \cup {<<"image", TheId>>}]
  /\ UNCHANGED <<readFrame, pending, data, woken, reader, held>>

\* Mutant of ReadChunk: anything with an "evt" is an event.
ReadChunkAsEvent ==
  /\ Incoming("chunk")
  /\ UNCHANGED <<readFrame, pending, answerVars, reader, held>>

ReadChunk ==
  /\ Incoming("chunk")
  /\ parts' = IF pending = TheId
                THEN [parts EXCEPT ![pending] = @ \cup {<<"chunk", TheId>>}]
                ELSE parts
  /\ UNCHANGED <<readFrame, pending, data, woken, reader, held>>

\* Mutant of ReadReply: whoever waits gets it.
ReadAnyReply ==
  /\ Incoming("reply")
  /\ IF pending # 0
       THEN /\ data' = [data EXCEPT ![pending] = TheId]
            /\ held' = pending /\ reader' = "unpend"
       ELSE UNCHANGED <<data, held, reader>>
  /\ UNCHANGED <<readFrame, pending, parts, woken>>

\* The reply of the pending call; any other is dropped.
ReadReply ==
  /\ Incoming("reply")
  /\ IF pending = TheId
       THEN /\ data' = [data EXCEPT ![pending] = TheId]
            /\ held' = pending /\ reader' = "unpend"
       ELSE UNCHANGED <<data, held, reader>>
  /\ UNCHANGED <<readFrame, pending, parts, woken>>

\* By now the caller may have given up, and another one be pending.
Unpend ==
  /\ reader = "unpend"
  /\ pending' = 0 /\ reader' = "wake"
  /\ UNCHANGED <<readFrame, answerVars, held, toHost>>

Wake ==
  /\ reader = "wake"
  /\ woken' = woken \cup {held} /\ held' = 0 /\ reader' = "read"
  /\ UNCHANGED <<readFrame, pending, data, parts, toHost>>

\* Mutant of ReadEnds: _conn stays.
ReadEndsKeeping ==
  /\ reader = "read" /\ toHost[accepted] = <<>> /\ accepted \in ended
  /\ reader' = "failRead"
  /\ UNCHANGED <<callVars, pending, answerVars, conn, accepted, held,
                 deviceVars, netVars>>

\* Mutant of ReadEnds: a recv() that runs into a time-out ends the loop.
ReadEndsIdle ==
  /\ reader = "read" /\ toHost[accepted] = <<>>
  /\ conn' = 0 /\ reader' = "failRead"
  /\ UNCHANGED <<callVars, pending, answerVars, accepted, held, deviceVars,
                 netVars>>

ReadEnds ==
  /\ reader = "read" /\ toHost[accepted] = <<>> /\ accepted \in ended
  /\ conn' = 0 /\ reader' = "failRead"
  /\ UNCHANGED <<callVars, pending, answerVars, accepted, held, deviceVars,
                 netVars>>

\* _fail_pending(): look ...
FailRead ==
  /\ reader = "failRead"
  /\ held' = pending /\ reader' = IF pending = 0 THEN "accept" ELSE "failClear"
  /\ UNCHANGED <<readFrame, pending, answerVars, toHost>>

\* ... clear ...
FailClear ==
  /\ reader = "failClear"
  /\ pending' = 0 /\ reader' = "failWake"
  /\ UNCHANGED <<readFrame, answerVars, held, toHost>>

\* ... and fail what was there.
FailWake ==
  /\ reader = "failWake"
  /\ data' = [data EXCEPT ![held] = Lost] /\ woken' = woken \cup {held}
  /\ held' = 0 /\ reader' = "accept"
  /\ UNCHANGED <<readFrame, pending, parts, toHost>>

ReaderStep ==
  \/ Accept \/ ReadEvent \/ ReadImage \/ ReadChunk \/ ReadReply
  \/ Unpend \/ Wake \/ ReadEnds \/ FailRead \/ FailClear \/ FailWake

(***************************************************************************)
(* control_link_task.                                                      *)
(***************************************************************************)
hostVars == <<callVars, pending, answerVars, readerVars>>

\* One message, sent whole under s_tx_mutex.
Emit(kind, id) ==
  /\ Len(toHost[sock]) < MaxFlight
  /\ toHost' = IF sock \in gone THEN toHost
                 ELSE [toHost EXCEPT ![sock] = Append(@, Message(kind, id))]

Dial ==
  /\ dev = "dial" /\ dials < MaxConns
  /\ dials' = dials + 1 /\ sock' = dials + 1 /\ dev' = "hello"
  /\ UNCHANGED <<hostVars, doing, sent, netVars>>

\* The result of sending hello is not looked at; without memory for commands
\* the connection is closed again.  The events the state-machine task sends
\* later look the same to the reader and are left out.
Hello ==
  /\ dev = "hello"
  /\ Emit("event", 0)
  /\ dev' \in {"recv", "close"}
  /\ UNCHANGED <<hostVars, sock, doing, sent, dials, toDev, gone, ended>>

Receive ==
  /\ dev = "recv" /\ toDev[sock] # <<>>
  /\ doing' = Head(toDev[sock]) /\ dev' = "work"
  /\ toDev' = [toDev EXCEPT ![sock] = Tail(@)]
  /\ UNCHANGED <<hostVars, sock, sent, dials, toHost, gone, ended>>

\* Images or chunks, depending on the command; one stands for all of them.
SendPart(kind) ==
  /\ dev = "work" /\ sent[doing] = {}
  /\ Emit(kind, doing)
  /\ sent' = [sent EXCEPT ![doing] = @ \cup {kind}]
  /\ UNCHANGED <<hostVars, dev, sock, doing, dials, toDev, gone, ended>>

\* The final reply, good or bad, as far as the command got.
SendReply ==
  /\ dev = "work"
  /\ Emit("reply", doing)
  /\ dev' = "recv" /\ doing' = 0
  /\ UNCHANGED <<hostVars, sock, sent, dials, toDev, gone, ended>>

\* A send or a receive fails once the path is gone, and serve_connection()
\* returns.
LinkFails ==
  /\ dev \in {"recv", "work"} /\ sock \in gone
  /\ dev' = "close" /\ doing' = 0
  /\ UNCHANGED <<hostVars, sock, sent, dials, netVars>>

\* A send stalls for its whole time-out on a path that is still there.
SendStalls ==
  /\ dev = "work"
  /\ dev' = "close" /\ doing' = 0
  /\ UNCHANGED <<hostVars, sock, sent, dials, netVars>>

\* Mutant of Close: the descriptor is forgotten, not closed.
CloseLeaking ==
  /\ dev = "close"
  /\ sock' = 0 /\ dev' = "dial"
  /\ UNCHANGED <<hostVars, doing, sent, dials, netVars>>

Close ==
  /\ dev = "close"
  /\ ended' = IF sock \in gone THEN ended ELSE ended \cup {sock}
  /\ toDev' = [toDev EXCEPT ![sock] = <<>>]
  /\ sock' = 0 /\ dev' = "dial"
  /\ UNCHANGED <<hostVars, doing, sent, dials, toHost, gone>>

DeviceStep ==
  \/ Dial \/ Hello \/ Receive \/ (\E kind \in PartKinds : SendPart(kind))
  \/ SendReply \/ LinkFails \/ SendStalls \/ Close

(***************************************************************************)
(* The path: a WiFi drop, or a reboot, which is one that the device sees   *)
(* at once; and the host's TCP noticing it.                                *)
(***************************************************************************)
Vanish ==
  /\ sock # 0 /\ sock \notin gone
  /\ gone' = gone \cup {sock}
  /\ \E n \in 0..Len(toHost[sock]) :
       toHost' = [toHost EXCEPT ![sock] = SubSeq(@, 1, n)]
  /\ toDev' = [toDev EXCEPT ![sock] = <<>>]
  /\ UNCHANGED <<hostVars, deviceVars, ended>>

\* A reset in answer to something the host sent, or its own time-out.
Notice(k) ==
  /\ k \in gone \ ended
  /\ ended' = ended \cup {k}
  /\ UNCHANGED <<hostVars, deviceVars, toHost, toDev, gone>>

PathStep == Vanish \/ \E k \in Conns : Notice(k)

Next == (\E c \in Callers : CallStep(c)) \/ ReaderStep \/ DeviceStep \/ PathStep

Spec == Init /\ [][Next]_vars

-----------------------------------------------------------------------------
(***************************************************************************)
(* Properties.                                                             *)
(***************************************************************************)
Active(c) == place[c] \in {"send", "wait", "late"}

HostTypes ==
  /\ place \in [Callers -> {"idle", "pend", "send", "wait", "late"}]
  /\ rid \in [Callers -> 0..MaxCalls] /\ via \in [Ids -> 0..MaxConns]
  /\ nextId \in 1..(MaxCalls + 1) /\ pending \in 0..MaxCalls
  /\ woken \subseteq Ids /\ held \in 0..MaxCalls
  /\ conn \in 0..MaxConns /\ accepted \in 0..MaxConns
  /\ reader \in {"accept", "read", "unpend", "wake", "failRead", "failClear",
                 "failWake"}

AnswerTypes ==
  /\ data \in [Ids -> Lost..MaxCalls]
  /\ parts \in [Ids -> SUBSET (PartKinds \X Ids)]

DeviceTypes ==
  /\ dev \in {"dial", "hello", "recv", "work", "close"}
  /\ sock \in 0..MaxConns /\ doing \in 0..MaxCalls
  /\ sent \in [Ids -> SUBSET PartKinds]
  /\ dials \in 0..MaxConns /\ accepted <= dials

NetTypes ==
  /\ toHost \in [Conns -> Seq(Messages)] /\ toDev \in [Conns -> Seq(Ids)]
  /\ \A k \in Conns : Len(toHost[k]) <= MaxFlight
  /\ gone \subseteq Conns /\ ended \subseteq Conns

\* The variables hold values of their types, and there is never a connection
\* that accepting a new one would have to close.
TypeOK ==
  /\ HostTypes /\ AnswerTypes /\ DeviceTypes /\ NetTypes
  /\ reader = "accept" => conn = 0

\* _pending never outlives the call that set it: what is pending is what the
\* holder of _call_lock waits for, whatever the reader did meanwhile.
PendingIsHeld ==
  pending # 0 => \E c \in Callers : Active(c) /\ rid[c] = pending

\* A call is answered by its own reply and its own register chunks, however
\* late the answers to earlier calls arrive.
OwnAnswers ==
  \A r \in Ids : /\ data[r] \in {0, Lost, r}
                 /\ \A i \in Ids : <<"chunk", i>> \in parts[r] => i = r

\* A call that got its reply has everything the device sent for it, across
\* drops, reconnects and given-up calls before it.
CompleteReply ==
  \A r \in Ids : data[r] = r => \A kind \in sent[r] : <<kind, r>> \in parts[r]

\* A disconnect fails no call that is bound to another connection.
FailsOnlyDead ==
  \A r \in Ids : data[r] = Lost => via[r] \in ended

(***************************************************************************)
(* Fairness: the reader thread runs, the device closes and dials, and a    *)
(* dead path is noticed in the end.                                        *)
(***************************************************************************)
FairSpec ==
  /\ Spec /\ WF_vars(ReaderStep) /\ WF_vars(LinkFails) /\ WF_vars(Close)
  /\ \A k \in Conns : WF_vars(Notice(k))

\* A device that reconnects is served, although the host reads one connection
\* to its end before it accepts the next.
ReconnectIsServed ==
  \A k \in Conns : (dials >= k) ~> (accepted >= k)
=============================================================================
