---------------------------- MODULE HostRpcProofs ----------------------------
(***************************************************************************)
(* Theorems about HostRpc, for any set of calls and connections and any    *)
(* behaviour of the browser.                                               *)
(*                                                                         *)
(* TypeOK, NoLeak, SenderHeld, NeverBoth and OneDelivery are not inductive *)
(* one by one: that an entry is never overwritten needs the counter to be  *)
(* ahead of every id in use, that a delivery is the only one of its call   *)
(* needs ids to be distinct.  IInv is the conjunction that is inductive.   *)
(***************************************************************************)
EXTENDS HostRpc, TLAPS

IInv == TypeOK /\ NoLeak /\ SenderHeld /\ NeverBoth /\ OneDelivery /\ IdsFresh

(* Taking out the entry just put in under a fresh id changes nothing.      *)
LEMMA InsertThenRemove ==
  ASSUME NEW id, NEW f, id \notin DOMAIN pending,
         pending \in [DOMAIN pending -> Calls]
  PROVE  Without(With(pending, id, f), id) = pending
BY DEF Without, With, Restrict

LEMMA WithFacts ==
  ASSUME NEW id, NEW f, NEW table
  PROVE  /\ DOMAIN With(table, id, f) = DOMAIN table \cup {id}
         /\ With(table, id, f)[id] = f
         /\ \A i \in DOMAIN table : i # id => With(table, id, f)[i] = table[i]
BY DEF With

LEMMA WithoutFacts ==
  ASSUME NEW id, NEW table
  PROVE  /\ DOMAIN Without(table, id) = DOMAIN table \ {id}
         /\ \A i \in DOMAIN table : i # id => Without(table, id)[i] = table[i]
BY DEF Without, Restrict

LEMMA InitIInv == Init => IInv
BY NoConnAssumption, NoReplyAssumption
   DEF Init, IInv, TypeOK, NoLeak, SenderHeld, NeverBoth, OneDelivery, IdsFresh,
       Phases, Outcomes, ReplyKinds

LEMMA RegisterSinkInv ==
  ASSUME IInv, NEW c \in Conns, RegisterSink(c)
  PROVE  IInv'
BY DEF RegisterSink, tableVars, callVars, IInv, TypeOK, NoLeak, SenderHeld, NeverBoth,
       OneDelivery, IdsFresh

LEMMA UnregisterSinkInv ==
  ASSUME IInv, UnregisterSink
  PROVE  IInv'
BY DEF UnregisterSink, tableVars, callVars, IInv, TypeOK, NoLeak, SenderHeld, NeverBoth,
       OneDelivery, IdsFresh

LEMMA DropReceiverInv ==
  ASSUME IInv, NEW c \in Conns, DropReceiver(c)
  PROVE  IInv'
BY DEF DropReceiver, tableVars, callVars, IInv, TypeOK, NoLeak, SenderHeld, NeverBoth,
       OneDelivery, IdsFresh

LEMMA SendNoSinkInv ==
  ASSUME IInv, NEW f \in Calls, SendNoSink(f)
  PROVE  IInv'
<1> USE DEF IInv, SendNoSink, tableVars, callVars, Finish
<1>1. TypeOK'
  BY WithFacts, WithoutFacts, InsertThenRemove 
     DEF TypeOK, NoLeak, SenderHeld, NeverBoth, OneDelivery, IdsFresh, Phases,
         Outcomes, ReplyKinds, Replies, Deliveries
<1>2. NoLeak'
  BY WithFacts, WithoutFacts, InsertThenRemove 
     DEF TypeOK, NoLeak, SenderHeld, NeverBoth, OneDelivery, IdsFresh, Phases,
         Outcomes, ReplyKinds, Replies, Deliveries
<1>3. SenderHeld'
  BY WithFacts, WithoutFacts, InsertThenRemove 
     DEF TypeOK, NoLeak, SenderHeld, NeverBoth, OneDelivery, IdsFresh, Phases,
         Outcomes, ReplyKinds, Replies, Deliveries
<1>4. NeverBoth'
  BY WithFacts, WithoutFacts, InsertThenRemove 
     DEF TypeOK, NoLeak, SenderHeld, NeverBoth, OneDelivery, IdsFresh, Phases,
         Outcomes, ReplyKinds, Replies, Deliveries
<1>5. OneDelivery'
  BY WithFacts, WithoutFacts, InsertThenRemove 
     DEF TypeOK, NoLeak, SenderHeld, NeverBoth, OneDelivery, IdsFresh, Phases,
         Outcomes, ReplyKinds, Replies, Deliveries
<1>6. IdsFresh'
  BY WithFacts, WithoutFacts, InsertThenRemove 
     DEF TypeOK, NoLeak, SenderHeld, NeverBoth, OneDelivery, IdsFresh, Phases,
         Outcomes, ReplyKinds, Replies, Deliveries
<1> QED  BY <1>1, <1>2, <1>3, <1>4, <1>5, <1>6

LEMMA SendDeadSinkInv ==
  ASSUME IInv, NEW f \in Calls, SendDeadSink(f)
  PROVE  IInv'
<1> USE DEF IInv, SendDeadSink, tableVars, callVars, Finish
<1>1. TypeOK'
  BY WithFacts, WithoutFacts, InsertThenRemove 
     DEF TypeOK, NoLeak, SenderHeld, NeverBoth, OneDelivery, IdsFresh, Phases,
         Outcomes, ReplyKinds, Replies, Deliveries
<1>2. NoLeak'
  BY WithFacts, WithoutFacts, InsertThenRemove 
     DEF TypeOK, NoLeak, SenderHeld, NeverBoth, OneDelivery, IdsFresh, Phases,
         Outcomes, ReplyKinds, Replies, Deliveries
<1>3. SenderHeld'
  BY WithFacts, WithoutFacts, InsertThenRemove 
     DEF TypeOK, NoLeak, SenderHeld, NeverBoth, OneDelivery, IdsFresh, Phases,
         Outcomes, ReplyKinds, Replies, Deliveries
<1>4. NeverBoth'
  BY WithFacts, WithoutFacts, InsertThenRemove 
     DEF TypeOK, NoLeak, SenderHeld, NeverBoth, OneDelivery, IdsFresh, Phases,
         Outcomes, ReplyKinds, Replies, Deliveries
<1>5. OneDelivery'
  BY WithFacts, WithoutFacts, InsertThenRemove 
     DEF TypeOK, NoLeak, SenderHeld, NeverBoth, OneDelivery, IdsFresh, Phases,
         Outcomes, ReplyKinds, Replies, Deliveries
<1>6. IdsFresh'
  BY WithFacts, WithoutFacts, InsertThenRemove 
     DEF TypeOK, NoLeak, SenderHeld, NeverBoth, OneDelivery, IdsFresh, Phases,
         Outcomes, ReplyKinds, Replies, Deliveries
<1> QED  BY <1>1, <1>2, <1>3, <1>4, <1>5, <1>6

LEMMA SendQueuedInv ==
  ASSUME IInv, NEW f \in Calls, SendQueued(f)
  PROVE  IInv'
<1>1. nextId \notin DOMAIN pending
  BY DEF IInv, TypeOK, NoLeak, IdsFresh
<1>2. /\ DOMAIN pending' = DOMAIN pending \cup {nextId}
      /\ pending'[nextId] = f
      /\ \A i \in DOMAIN pending : pending'[i] = pending[i]
      /\ pending' \in [DOMAIN pending' -> Calls]
  BY <1>1, WithFacts DEF SendQueued, IInv, TypeOK, With
<1>3. /\ nextId' = nextId + 1
      /\ rid' = [rid EXCEPT ![f] = nextId]
      /\ phase' = [phase EXCEPT ![f] = "waiting"]
      /\ phase[f] = "idle" /\ UNCHANGED <<sink, open, channel, delivering, outcome>>
  BY DEF SendQueued
<1>4. TypeOK'
  BY <1>2, <1>3 DEF IInv, TypeOK, Phases
<1>5. channel[f] = NoReply /\ \A i \in DOMAIN pending : pending[i] # f
  BY <1>3 DEF IInv, TypeOK, IdsFresh, NoLeak, Replies
<1>6. NoLeak'
  BY <1>1, <1>2, <1>3, <1>5 DEF IInv, TypeOK, NoLeak
<1>7. SenderHeld'
  BY <1>1, <1>2, <1>3 DEF IInv, TypeOK, SenderHeld
<1>8. NeverBoth'
  BY <1>3 DEF IInv, TypeOK, NeverBoth
<1>9. OneDelivery'
  BY <1>1, <1>2, <1>3 DEF IInv, TypeOK, OneDelivery, IdsFresh, Deliveries, Replies
<1>10. IdsFresh'
  BY <1>1, <1>2, <1>3, <1>5 DEF IInv, TypeOK, IdsFresh, Deliveries, Replies
<1> QED  BY <1>4, <1>6, <1>7, <1>8, <1>9, <1>10 DEF IInv

LEMMA ReceiveInv ==
  ASSUME IInv, NEW f \in Calls, Receive(f)
  PROVE  IInv'
<1> USE DEF IInv, Receive, tableVars, callVars, Finish
<1>1. TypeOK'
  BY WithFacts, WithoutFacts, InsertThenRemove 
     DEF TypeOK, NoLeak, SenderHeld, NeverBoth, OneDelivery, IdsFresh, Phases,
         Outcomes, ReplyKinds, Replies, Deliveries
<1>2. NoLeak'
  BY WithFacts, WithoutFacts, InsertThenRemove 
     DEF TypeOK, NoLeak, SenderHeld, NeverBoth, OneDelivery, IdsFresh, Phases,
         Outcomes, ReplyKinds, Replies, Deliveries
<1>3. SenderHeld'
  BY WithFacts, WithoutFacts, InsertThenRemove 
     DEF TypeOK, NoLeak, SenderHeld, NeverBoth, OneDelivery, IdsFresh, Phases,
         Outcomes, ReplyKinds, Replies, Deliveries
<1>4. NeverBoth'
  BY WithFacts, WithoutFacts, InsertThenRemove 
     DEF TypeOK, NoLeak, SenderHeld, NeverBoth, OneDelivery, IdsFresh, Phases,
         Outcomes, ReplyKinds, Replies, Deliveries
<1>5. OneDelivery'
  BY WithFacts, WithoutFacts, InsertThenRemove 
     DEF TypeOK, NoLeak, SenderHeld, NeverBoth, OneDelivery, IdsFresh, Phases,
         Outcomes, ReplyKinds, Replies, Deliveries
<1>6. IdsFresh'
  BY WithFacts, WithoutFacts, InsertThenRemove 
     DEF TypeOK, NoLeak, SenderHeld, NeverBoth, OneDelivery, IdsFresh, Phases,
         Outcomes, ReplyKinds, Replies, Deliveries
<1> QED  BY <1>1, <1>2, <1>3, <1>4, <1>5, <1>6

LEMMA ElapseInv ==
  ASSUME IInv, NEW f \in Calls, Elapse(f)
  PROVE  IInv'
<1> USE DEF IInv, Elapse, tableVars, callVars
<1>1. TypeOK'
  BY WithFacts, WithoutFacts, InsertThenRemove 
     DEF TypeOK, NoLeak, SenderHeld, NeverBoth, OneDelivery, IdsFresh, Phases,
         Outcomes, ReplyKinds, Replies, Deliveries
<1>2. NoLeak'
  BY WithFacts, WithoutFacts, InsertThenRemove 
     DEF TypeOK, NoLeak, SenderHeld, NeverBoth, OneDelivery, IdsFresh, Phases,
         Outcomes, ReplyKinds, Replies, Deliveries
<1>3. SenderHeld'
  BY WithFacts, WithoutFacts, InsertThenRemove 
     DEF TypeOK, NoLeak, SenderHeld, NeverBoth, OneDelivery, IdsFresh, Phases,
         Outcomes, ReplyKinds, Replies, Deliveries
<1>4. NeverBoth'
  BY WithFacts, WithoutFacts, InsertThenRemove 
     DEF TypeOK, NoLeak, SenderHeld, NeverBoth, OneDelivery, IdsFresh, Phases,
         Outcomes, ReplyKinds, Replies, Deliveries
<1>5. OneDelivery'
  BY WithFacts, WithoutFacts, InsertThenRemove 
     DEF TypeOK, NoLeak, SenderHeld, NeverBoth, OneDelivery, IdsFresh, Phases,
         Outcomes, ReplyKinds, Replies, Deliveries
<1>6. IdsFresh'
  BY WithFacts, WithoutFacts, InsertThenRemove 
     DEF TypeOK, NoLeak, SenderHeld, NeverBoth, OneDelivery, IdsFresh, Phases,
         Outcomes, ReplyKinds, Replies, Deliveries
<1> QED  BY <1>1, <1>2, <1>3, <1>4, <1>5, <1>6

LEMMA CleanUpInv ==
  ASSUME IInv, NEW f \in Calls, CleanUp(f)
  PROVE  IInv'
<1>1. /\ DOMAIN pending' = DOMAIN pending \ {rid[f]}
      /\ \A i \in DOMAIN pending' : pending'[i] = pending[i]
      /\ pending' \in [DOMAIN pending' -> Calls]
  BY DEF CleanUp, IInv, TypeOK, Without, Restrict
<1>2. /\ phase' = [phase EXCEPT ![f] = "done"]
      /\ outcome' = [outcome EXCEPT ![f] = "timed_out"]
      /\ phase[f] = "cleaning"
      /\ UNCHANGED <<sink, open, nextId, rid, channel, delivering>>
  BY DEF CleanUp, Finish
<1>3. \A i \in DOMAIN pending' : pending[i] # f
  BY <1>1 DEF IInv, TypeOK, NoLeak
<1>4. TypeOK'
  BY <1>1, <1>2 DEF IInv, TypeOK, Phases, Outcomes
<1>5. NoLeak'
  BY <1>1, <1>2, <1>3 DEF IInv, TypeOK, NoLeak
<1>6. SenderHeld'
  BY <1>1, <1>2 DEF IInv, TypeOK, SenderHeld, IdsFresh
<1>7. NeverBoth'
  BY <1>2 DEF IInv, TypeOK, NeverBoth
<1>8. OneDelivery'
  BY <1>1, <1>2 DEF IInv, TypeOK, OneDelivery, Deliveries, Replies
<1>9. IdsFresh'
  BY <1>1, <1>2 DEF IInv, TypeOK, IdsFresh, Deliveries, ReplyKinds
<1> QED  BY <1>4, <1>5, <1>6, <1>7, <1>8, <1>9 DEF IInv

LEMMA DeliverRemoveInv ==
  ASSUME IInv, NEW reply \in Replies, DeliverRemove(reply)
  PROVE  IInv'
<1> DEFINE f == pending[reply.id]
           d == [call |-> f, reply |-> reply]
<1>1. /\ reply.id \in DOMAIN pending
      /\ DOMAIN pending' = DOMAIN pending \ {reply.id}
      /\ \A i \in DOMAIN pending' : pending'[i] = pending[i]
      /\ pending' \in [DOMAIN pending' -> Calls]
  BY DEF DeliverRemove, IInv, TypeOK, Without, Restrict
<1>2. /\ delivering' = delivering \cup {d}
      /\ UNCHANGED <<sink, open, nextId, phase, rid, channel, outcome>>
  BY DEF DeliverRemove
<1>3. f \in Calls /\ d.call = f /\ d.reply = reply /\ d \in Deliveries
  BY <1>1 DEF IInv, TypeOK, Deliveries
<1>4. /\ rid[f] = reply.id /\ channel[f] = NoReply
      /\ phase[f] \in {"waiting", "cleaning"}
      /\ \A e \in delivering : e.call # f
  BY <1>1, <1>3 DEF IInv, NoLeak, IdsFresh, OneDelivery
<1> HIDE DEF f, d
<1>5. TypeOK'
  BY <1>1, <1>2, <1>3 DEF IInv, TypeOK
<1>6. NoLeak'
  BY <1>1, <1>2 DEF IInv, NoLeak
<1>7. SenderHeld'
  BY <1>1, <1>2, <1>3, <1>4 DEF IInv, TypeOK, SenderHeld, IdsFresh, f
<1>8. NeverBoth'
  BY <1>2 DEF IInv, NeverBoth
<1>9. OneDelivery'
  BY <1>1, <1>2, <1>3, <1>4 DEF IInv, TypeOK, OneDelivery
<1>10. IdsFresh'
  BY <1>1, <1>2, <1>3, <1>4 DEF IInv, IdsFresh
<1> QED  BY <1>5, <1>6, <1>7, <1>8, <1>9, <1>10 DEF IInv

LEMMA DeliverSendInv ==
  ASSUME IInv, NEW d \in delivering, DeliverSend(d)
  PROVE  IInv'
<1>1. d \in Deliveries /\ d.call \in Calls /\ d.reply \in Replies
  BY DEF IInv, TypeOK, Deliveries
<1>2. /\ delivering' = delivering \ {d}
      /\ UNCHANGED <<sink, open, pending, nextId, phase, rid, outcome>>
  BY DEF DeliverSend, tableVars
<1>3. CASE phase[d.call] = "waiting"
  <2>1. channel' = [channel EXCEPT ![d.call] = d.reply]
    BY <1>3 DEF DeliverSend
  <2>2. \A e \in delivering' : e.call # d.call
    BY <1>2 DEF IInv, OneDelivery
  <2>3. \A i \in DOMAIN pending : pending[i] # d.call
    BY DEF IInv, OneDelivery, NoLeak
  <2>4. TypeOK'
    BY <1>1, <1>2, <2>1 DEF IInv, TypeOK
  <2>5. NoLeak'
    BY <1>2 DEF IInv, NoLeak
  <2>6. SenderHeld'
    BY <1>1, <1>2, <2>1, NoReplyAssumption
       DEF IInv, TypeOK, SenderHeld, Replies, ReplyKinds
  <2>7. NeverBoth'
    BY <1>1, <1>2, <1>3, <2>1 DEF IInv, TypeOK, NeverBoth, IdsFresh
  <2>8. OneDelivery'
    BY <1>1, <1>2, <2>1, <2>2 DEF IInv, TypeOK, OneDelivery, Deliveries
  <2>9. IdsFresh'
    BY <1>1, <1>2, <1>3, <2>1, <2>3
       DEF IInv, TypeOK, IdsFresh, OneDelivery, Deliveries, ReplyKinds
  <2> QED  BY <2>4, <2>5, <2>6, <2>7, <2>8, <2>9 DEF IInv
<1>4. CASE phase[d.call] # "waiting"
  <2>1. UNCHANGED channel
    BY <1>4 DEF DeliverSend
  <2> QED  BY <1>1, <1>2, <1>4, <2>1
     DEF IInv, TypeOK, NoLeak, SenderHeld, NeverBoth, OneDelivery, IdsFresh
<1> QED  BY <1>3, <1>4

LEMMA NextIInv == IInv /\ [Next]_vars => IInv'
<1> SUFFICES ASSUME IInv, [Next]_vars PROVE IInv'
  OBVIOUS
<1>1. CASE \E c \in Conns : RegisterSink(c) \/ DropReceiver(c)
  BY <1>1, RegisterSinkInv, DropReceiverInv
<1>2. CASE UnregisterSink
  BY <1>2, UnregisterSinkInv
<1>3. CASE \E f \in Calls : CallStep(f)
  BY <1>3, SendNoSinkInv, SendDeadSinkInv, SendQueuedInv, ReceiveInv, ElapseInv,
     CleanUpInv DEF CallStep
<1>4. CASE \E i \in DOMAIN pending, k \in ReplyKinds, b \in Bodies :
              DeliverRemove([id |-> i, kind |-> k, body |-> b])
  <2>1. PICK i \in DOMAIN pending, k \in ReplyKinds, b \in Bodies :
               DeliverRemove([id |-> i, kind |-> k, body |-> b])
    BY <1>4
  <2>2. [id |-> i, kind |-> k, body |-> b] \in Replies
    BY DEF Replies, IInv, TypeOK
  <2> QED  BY <2>1, <2>2, DeliverRemoveInv
<1>5. CASE \E d \in delivering : DeliverSend(d)
  BY <1>5, DeliverSendInv
<1>6. CASE UNCHANGED vars
  BY <1>6 DEF vars, IInv, TypeOK, NoLeak, SenderHeld, NeverBoth, OneDelivery, IdsFresh
<1> QED  BY <1>1, <1>2, <1>3, <1>4, <1>5, <1>6 DEF Next

(* The table of pending calls in every reachable state: no entry leaks, no *)
(* waiting call is without its sender, no call is both timed out and       *)
(* answered, no oneshot is used twice, no id is reused (mod.rs:164-277).   *)
THEOREM Invariance == Spec => []IInv
BY InitIInv, NextIInv, PTL DEF Spec

(* Type correctness of the host RPC state (mod.rs:88-104).                 *)
THEOREM TypeCorrect == Spec => []TypeOK
BY Invariance, PTL DEF IInv

(* No entry of the pending table outlives its call (mod.rs:239-276).       *)
THEOREM TableDoesNotLeak == Spec => []NoLeak
BY Invariance, PTL DEF IInv

(* "reply channel closed unexpectedly" is unreachable (mod.rs:256-262).    *)
THEOREM SenderAlwaysHeld == Spec => []SenderHeld
BY Invariance, PTL DEF IInv

(* A late reply and the timer never both win (mod.rs:253-276).             *)
THEOREM TimeoutExcludesAnswer == Spec => []NeverBoth
BY Invariance, PTL DEF IInv

(* A call's oneshot is used once: an answer that is repeated, or two that  *)
(* are delivered at the same time, reach nobody twice (mod.rs:164-176).    *)
THEOREM DeliveredOnce == Spec => []OneDelivery
BY Invariance, PTL DEF IInv

-----------------------------------------------------------------------------
(***************************************************************************)
(* HostRpc implements FetchPromise.  Connecting, disconnecting, the timer  *)
(* going off and the delivery of a reply into a channel are stutters of    *)
(* the promise; each way out of send_request is one of its actions.        *)
(***************************************************************************)
LEMMA InitPromise == Init => Promise!Init
BY DEF Init, Promise!Init, resultBar, ticketBar, stubBar, ReplyKinds

LEMMA RefuseStep ==
  ASSUME IInv, NEW f \in Calls, SendNoSink(f) \/ SendDeadSink(f)
  PROVE  Promise!Refuse(f)
<1>1. phase[f] = "idle" /\ outcome[f] = "none" /\ rid[f] = 0
  BY DEF SendNoSink, SendDeadSink, IInv, IdsFresh
<1>2. /\ phase' = [phase EXCEPT ![f] = "done"]
      /\ UNCHANGED channel
      /\ \/ outcome' = [outcome EXCEPT ![f] = "no_sink"] /\ rid' = rid
         \/ outcome' = [outcome EXCEPT ![f] = "dead_sink"]
            /\ rid' = [rid EXCEPT ![f] = nextId]
  BY DEF SendNoSink, SendDeadSink, Finish
<1>3. resultBar[f] = "none"
  BY <1>1 DEF resultBar
<1>4. resultBar' = [resultBar EXCEPT ![f] = "refused"]
  BY <1>1, <1>2 DEF resultBar, IInv, TypeOK
<1>5. ticketBar' = ticketBar
  BY <1>1, <1>2 DEF ticketBar, IInv, TypeOK
<1>6. stubBar' = stubBar
  BY <1>1, <1>2 DEF stubBar, ReplyKinds, IInv, TypeOK
<1> QED  BY <1>3, <1>4, <1>5, <1>6 DEF Promise!Refuse

LEMMA IssueStep ==
  ASSUME IInv, NEW f \in Calls, SendQueued(f)
  PROVE  Promise!Issue(f)
<1>1. phase[f] = "idle" /\ outcome[f] = "none" /\ rid[f] = 0
  BY DEF SendQueued, IInv, IdsFresh
<1>2. /\ phase' = [phase EXCEPT ![f] = "waiting"]
      /\ rid' = [rid EXCEPT ![f] = nextId]
      /\ UNCHANGED <<channel, outcome>>
  BY DEF SendQueued
<1>3. resultBar[f] = "none" /\ resultBar' = [resultBar EXCEPT ![f] = "open"]
  BY <1>1, <1>2 DEF resultBar, IInv, TypeOK
<1>4. ticketBar'[f] = nextId
  BY <1>1, <1>2 DEF ticketBar, IInv, TypeOK
<1>5. nextId \in Nat \ {0} /\ \A g \in Calls : ticketBar[g] # nextId
  BY DEF ticketBar, IInv, TypeOK, IdsFresh
<1>6. ticketBar' = [ticketBar EXCEPT ![f] = nextId]
  BY <1>1, <1>2 DEF ticketBar, IInv, TypeOK
<1>7. stubBar' = stubBar
  BY <1>2 DEF stubBar
<1> QED  BY <1>3, <1>4, <1>5, <1>6, <1>7 DEF Promise!Issue

LEMMA AnswerStep ==
  ASSUME IInv, NEW f \in Calls, Receive(f)
  PROVE  Promise!Answer(f, channel[f].kind) /\ channel[f].kind \in {"ok", "error"}
<1>1. /\ phase[f] = "waiting" /\ outcome[f] = "none"
      /\ channel[f] \in Replies /\ channel[f].id = rid[f]
      /\ channel[f].kind \in {"ok", "error"}
  BY DEF Receive, IInv, TypeOK, IdsFresh, Replies, ReplyKinds
<1>2. /\ phase' = [phase EXCEPT ![f] = "done"]
      /\ outcome' = [outcome EXCEPT ![f] = channel[f].kind]
      /\ UNCHANGED <<rid, channel>>
  BY DEF Receive, Finish
<1>3. resultBar[f] = "open"
  BY <1>1 DEF resultBar
<1>4. resultBar' = [resultBar EXCEPT ![f] = channel[f].kind]
  BY <1>1, <1>2 DEF resultBar, IInv, TypeOK
<1>5. ticketBar' = ticketBar /\ ticketBar[f] = rid[f]
  BY <1>1, <1>2 DEF ticketBar, IInv, TypeOK
<1>6. stubBar' = [stubBar EXCEPT ![f] = rid[f]]
  BY <1>1, <1>2 DEF stubBar, ReplyKinds, IInv, TypeOK
<1> QED  BY <1>1, <1>3, <1>4, <1>5, <1>6 DEF Promise!Answer

LEMMA FailStep ==
  ASSUME IInv, NEW f \in Calls, CleanUp(f)
  PROVE  Promise!Fail(f)
<1>1. phase[f] = "cleaning" /\ outcome[f] = "none"
  BY DEF CleanUp, IInv, IdsFresh
<1>2. /\ phase' = [phase EXCEPT ![f] = "done"]
      /\ outcome' = [outcome EXCEPT ![f] = "timed_out"]
      /\ UNCHANGED <<rid, channel>>
  BY DEF CleanUp, Finish
<1>3. resultBar[f] = "open" /\ resultBar' = [resultBar EXCEPT ![f] = "failed"]
  BY <1>1, <1>2 DEF resultBar, IInv, TypeOK
<1>4. ticketBar' = ticketBar
  BY <1>1, <1>2 DEF ticketBar, IInv, TypeOK
<1>5. stubBar' = stubBar
  BY <1>1, <1>2 DEF stubBar, ReplyKinds, IInv, TypeOK
<1> QED  BY <1>3, <1>4, <1>5 DEF Promise!Fail

LEMMA ElapseStutters ==
  ASSUME IInv, NEW f \in Calls, Elapse(f)
  PROVE  UNCHANGED <<resultBar, ticketBar, stubBar>>
BY DEF Elapse, tableVars, resultBar, ticketBar, stubBar, IInv, TypeOK

LEMMA DeliveryStutters ==
  ASSUME IInv, NEW d \in delivering, DeliverSend(d)
  PROVE  UNCHANGED <<resultBar, ticketBar, stubBar>>
<1>1. d.call \in Calls /\ UNCHANGED <<phase, rid, outcome>>
  BY DEF DeliverSend, IInv, TypeOK, Deliveries
<1>2. resultBar' = resultBar /\ ticketBar' = ticketBar
  BY <1>1 DEF resultBar, ticketBar
<1>3. \A f \in Calls : outcome[f] \in ReplyKinds => channel'[f] = channel[f]
  BY <1>1 DEF DeliverSend, IInv, TypeOK, IdsFresh, ReplyKinds
<1>4. stubBar' = stubBar
  BY <1>1, <1>3 DEF stubBar
<1> QED  BY <1>2, <1>4

LEMMA NextPromise ==
  IInv /\ [Next]_vars => [Promise!Next]_(Promise!promiseVars)
<1> SUFFICES ASSUME IInv, [Next]_vars
             PROVE  Promise!Next \/ UNCHANGED <<resultBar, ticketBar, stubBar>>
  BY DEF Promise!promiseVars
<1>1. CASE \E f \in Calls : CallStep(f)
  <2>1. PICK f \in Calls : CallStep(f)
    BY <1>1
  <2>2. CASE SendNoSink(f) \/ SendDeadSink(f)
    BY <2>2, RefuseStep DEF Promise!Next
  <2>3. CASE SendQueued(f)
    BY <2>3, IssueStep DEF Promise!Next
  <2>4. CASE Receive(f)
    BY <2>4, AnswerStep DEF Promise!Next
  <2>5. CASE Elapse(f)
    BY <2>5, ElapseStutters
  <2>6. CASE CleanUp(f)
    BY <2>6, FailStep DEF Promise!Next
  <2> QED  BY <2>1, <2>2, <2>3, <2>4, <2>5, <2>6 DEF CallStep
<1>2. CASE \E d \in delivering : DeliverSend(d)
  BY <1>2, DeliveryStutters
<1>3. CASE UNCHANGED <<phase, rid, channel, outcome>>
  BY <1>3 DEF resultBar, ticketBar, stubBar
<1>4. CASE \E c \in Conns : RegisterSink(c) \/ DropReceiver(c)
  BY <1>3, <1>4 DEF RegisterSink, DropReceiver, callVars
<1>5. CASE UnregisterSink
  BY <1>3, <1>5 DEF UnregisterSink, callVars
<1>6. CASE \E i \in DOMAIN pending, k \in ReplyKinds, b \in Bodies :
              DeliverRemove([id |-> i, kind |-> k, body |-> b])
  BY <1>3, <1>6 DEF DeliverRemove
<1>7. CASE UNCHANGED vars
  BY <1>3, <1>7 DEF vars
<1> QED  BY <1>1, <1>2, <1>4, <1>5, <1>6, <1>7 DEF Next

(* HostRpc implements the promise made to the tools: a fetch ends once, in *)
(* a reply to its own, never reused, id or in a failure (mod.rs:164-277).  *)
THEOREM Implements == Spec => KeepsPromise
BY InitPromise, NextPromise, Invariance, PTL DEF Spec, KeepsPromise, Promise!Spec
=============================================================================
