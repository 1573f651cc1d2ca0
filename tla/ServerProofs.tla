---------------------------- MODULE ServerProofs ----------------------------
(***************************************************************************)
(* Theorems about Server, for any number of requests and connections and   *)
(* any browser: the server drives host_rpc as HostRpc allows, so that all  *)
(* that is proved of HostRpc holds of the composition; a fetch is answered *)
(* by the answer to its own request; and a fetch that waits while every    *)
(* connection is up is on its way somewhere.                               *)
(*                                                                         *)
(* The types of what is queued depend on the state: a reply that travels   *)
(* is about the call that was given its id (TrueReplies).  Since an id,    *)
(* once given, stays with its call, these types only grow.                 *)
(***************************************************************************)
EXTENDS Server, SequenceTheorems, TLAPS

RpcProofs == INSTANCE HostRpcProofs WITH Bodies <- Calls

Asks == {q \in [id : Nat \ {0}, call : Calls] : rid[q.call] = q.id}
TrueReplies == {r \in RpcProofs!Replies : rid[r.body] = r.id}

Requests == [type : {"request"}, call : Calls]
Answers == [type : {"reply"}, reply : TrueReplies]
Junk == [type : {"junk"}, shape : JunkShapes]
Fetches ==
  {m \in [type : {"fetch"}, id : Nat \ {0}, call : Calls] : rid[m.call] = m.id}
Responses == [type : {"response"}, call : Calls]
In == Requests \cup Answers \cup Junk
Out == Fetches \cup Responses

Stages == {"absent", "reading", "unregistering", "aborting", "gone", "panicked"}
Tasks == {"unsent", "sent", "running", "responded", "panicked"}

Typed ==
  /\ stage \in [Conns -> Stages]
  /\ link \subseteq Conns
  /\ inbound \in [Conns -> Seq(In)]
  /\ outbox \in [Conns -> Seq(Out)]
  /\ asked \subseteq Asks
  /\ arrived \subseteq TrueReplies
  /\ task \in [Calls -> Tasks]
  /\ home \in [Calls -> Conns \cup {NoConn}]

(* What is being delivered, or was, is about the call it is delivered to.  *)
OwnDeliveries == \A d \in delivering : d.reply.body = d.call

(* The writer of a connection that is up and read lives, and a connection  *)
(* that was never made has none.                                           *)
WritersLive ==
  /\ \A c \in Conns : stage[c] = "reading" /\ c \in link => c \in open
  /\ \A c \in open : stage[c] # "absent"

IInv ==
  /\ RpcProofs!IInv
  /\ Typed
  /\ OwnDeliveries
  /\ OwnAnswer
  /\ NoDanglingSink
  /\ WritersLive
  /\ NothingLost

-----------------------------------------------------------------------------
(***************************************************************************)
(* The server uses HostRpc.                                                *)
(***************************************************************************)
LEMMA SameNext == Rpc!Next => RpcProofs!Next
BY DEF Rpc!Next, RpcProofs!Next, Rpc!RegisterSink, RpcProofs!RegisterSink,
   Rpc!DropReceiver, RpcProofs!DropReceiver, Rpc!UnregisterSink,
   RpcProofs!UnregisterSink, Rpc!CallStep, RpcProofs!CallStep, Rpc!SendNoSink,
   RpcProofs!SendNoSink, Rpc!SendDeadSink, RpcProofs!SendDeadSink,
   Rpc!SendQueued, RpcProofs!SendQueued, Rpc!Receive, RpcProofs!Receive,
   Rpc!Elapse, RpcProofs!Elapse, Rpc!CleanUp, RpcProofs!CleanUp,
   Rpc!DeliverRemove, RpcProofs!DeliverRemove, Rpc!DeliverSend,
   RpcProofs!DeliverSend, Rpc!ReplyKinds, RpcProofs!ReplyKinds, Rpc!Finish,
   RpcProofs!Finish, Rpc!With, RpcProofs!With, Rpc!Without, RpcProofs!Without,
   Rpc!Restrict, RpcProofs!Restrict,
   Rpc!tableVars, RpcProofs!tableVars, Rpc!callVars, RpcProofs!callVars

LEMMA InitRpc == Init => Rpc!Init /\ RpcProofs!Init
BY DEF Init, Rpc!Init, RpcProofs!Init

(* A reply of the known kinds, about some call, is delivered as HostRpc    *)
(* says; the other steps of the server are steps of HostRpc by their form. *)
LEMMA NextRpc == ASSUME Typed, [Next]_vars PROVE [Rpc!Next]_rpcVars
<1>1. CASE Daemon
  <2>1. CASE \E c \in Conns :
              \/ ReadRequest(c) \/ ReadReply(c) \/ ReadJunk(c) \/ ReaderEnds(c)
              \/ WriterSends(c) \/ WriterLoses(c)
    BY <2>1 DEF ReadRequest, ReadReply, ReadJunk, ReaderEnds, WriterSends, WriterLoses
  <2>2. CASE \E c \in Conns : Unregister(c)
    BY <2>2 DEF Unregister, Rpc!Next
  <2>3. CASE \E c \in Conns : AbortWriter(c) \/ WriterFails(c) \/ WriterEnds(c)
    BY <2>3 DEF AbortWriter, WriterFails, WriterEnds, Rpc!Next
  <2>4. CASE \E reply \in arrived : DeliverReply(reply)
    <3>1. PICK reply \in arrived : DeliverReply(reply)
      BY <2>4
    <3>2. /\ reply = [id |-> reply.id, kind |-> reply.kind, body |-> reply.body]
          /\ reply.kind \in Rpc!ReplyKinds /\ reply.body \in Calls
      BY DEF Typed, TrueReplies, RpcProofs!Replies, RpcProofs!ReplyKinds, Rpc!ReplyKinds
    <3> DEFINE r == [id |-> reply.id, kind |-> reply.kind, body |-> reply.body]
    <3>3. CASE reply.id \in DOMAIN pending
      <4>1. Rpc!DeliverRemove(r)
        BY <3>1, <3>2, <3>3 DEF DeliverReply
      <4> QED  BY <3>2, <3>3, <4>1 DEF Rpc!Next
    <3>4. CASE reply.id \notin DOMAIN pending
      BY <3>1, <3>4 DEF DeliverReply
    <3> QED  BY <3>3, <3>4
  <2>5. CASE \E d \in delivering : CompleteReply(d)
    BY <2>5 DEF CompleteReply, Rpc!Next
  <2>6. CASE \E h \in Calls : Fetch(h) \/ FetchEnds(h)
    BY <2>6 DEF Fetch, FetchEnds, Rpc!Next, Rpc!CallStep
  <2>7. CASE \E h \in Calls : Respond(h) \/ HandlerPanics(h)
    BY <2>7 DEF Respond, HandlerPanics
  <2> QED  BY <1>1, <2>1, <2>2, <2>3, <2>4, <2>5, <2>6, <2>7 DEF Daemon
<1>2. CASE Timers
  BY <1>2 DEF Timers, FetchTimesOut, Rpc!Next, Rpc!CallStep
<1>3. CASE Browser
  <2>1. CASE \E c \in Conns : Connect(c)
    BY <2>1 DEF Connect, Rpc!Next
  <2>2. CASE ~ \E c \in Conns : Connect(c)
    BY <1>3, <2>2 DEF Browser, BrowserLeaves, BrowserRequests, BrowserAnswers, BrowserSendsJunk
  <2> QED  BY <2>1, <2>2
<1>4. CASE UNCHANGED vars
  BY <1>4 DEF vars, rpcVars
<1> QED  BY <1>1, <1>2, <1>3, <1>4 DEF Next

LEMMA RpcInv ==
  ASSUME RpcProofs!IInv, Typed, [Next]_vars
  PROVE  [RpcProofs!Next]_rpcVars /\ RpcProofs!IInv'
<1>1. [RpcProofs!Next]_rpcVars
  BY NextRpc, SameNext
<1>2. RpcProofs!IInv /\ [RpcProofs!Next]_(RpcProofs!vars) => RpcProofs!IInv'
  BY NoConnAssumption, NoReplyAssumption, RpcProofs!NextIInv
<1> QED  BY <1>1, <1>2 DEF rpcVars, RpcProofs!vars

-----------------------------------------------------------------------------
(***************************************************************************)
(* What a step of HostRpc leaves of ids and calls.                         *)
(***************************************************************************)
LEMMA RidStays ==
  ASSUME RpcProofs!IInv, [RpcProofs!Next]_rpcVars
  PROVE  /\ rid' \in [Calls -> Nat]
         /\ \A h \in Calls : rid[h] # 0 => rid'[h] = rid[h]
<1> USE DEF RpcProofs!IInv, RpcProofs!TypeOK, RpcProofs!IdsFresh
<1>1. CASE \E f \in Calls : RpcProofs!SendDeadSink(f) \/ RpcProofs!SendQueued(f)
  BY <1>1 DEF RpcProofs!SendDeadSink, RpcProofs!SendQueued
<1>2. CASE UNCHANGED rid
  BY <1>2
<1> QED
  BY <1>1, <1>2 DEF RpcProofs!Next, RpcProofs!RegisterSink, RpcProofs!DropReceiver,
     RpcProofs!UnregisterSink, RpcProofs!CallStep, RpcProofs!SendNoSink,
     RpcProofs!Receive, RpcProofs!Elapse, RpcProofs!CleanUp, RpcProofs!DeliverRemove,
     RpcProofs!DeliverSend, RpcProofs!tableVars, RpcProofs!callVars, rpcVars

LEMMA TruthGrows ==
  ASSUME RpcProofs!IInv, [RpcProofs!Next]_rpcVars
  PROVE  /\ Asks \subseteq Asks' /\ TrueReplies \subseteq TrueReplies'
         /\ In \subseteq In' /\ Out \subseteq Out'
         /\ Seq(In) \subseteq Seq(In') /\ Seq(Out) \subseteq Seq(Out')
<1>1. \A h \in Calls : rid[h] # 0 => rid'[h] = rid[h]
  BY RidStays
<1>2. Asks \subseteq Asks' /\ TrueReplies \subseteq TrueReplies'
  BY <1>1 DEF Asks, TrueReplies, RpcProofs!Replies
<1>3. In \subseteq In'
  BY <1>2 DEF In, Answers, Requests, Junk
<1>4. Out \subseteq Out'
  BY <1>1 DEF Out, Fetches, Responses
<1>5. Seq(In) \subseteq Seq(In') /\ Seq(Out) \subseteq Seq(Out')
  BY <1>3, <1>4, SeqMonotonic
<1> QED  BY <1>2, <1>3, <1>4, <1>5

(* What a call that waits for its reply did in a step: it was waiting, or  *)
(* it has just sent its request.                                           *)
LEMMA WaitingBefore ==
  ASSUME RpcProofs!IInv, [RpcProofs!Next]_rpcVars, NEW h \in Calls,
         phase'[h] = "waiting", channel'[h] = NoReply
  PROVE  \/ phase[h] = "waiting" /\ channel[h] = NoReply /\ rid'[h] = rid[h]
         \/ phase[h] = "idle" /\ rid'[h] = nextId
<1> USE DEF RpcProofs!IInv, RpcProofs!TypeOK, RpcProofs!IdsFresh
<1>1. CASE \E f \in Calls : RpcProofs!CallStep(f)
  BY <1>1 DEF RpcProofs!CallStep, RpcProofs!SendNoSink, RpcProofs!SendDeadSink,
     RpcProofs!SendQueued, RpcProofs!Receive, RpcProofs!Elapse, RpcProofs!CleanUp,
     RpcProofs!Finish, RpcProofs!tableVars
<1>2. CASE \E d \in delivering : RpcProofs!DeliverSend(d)
  <2>1. PICK d \in delivering : RpcProofs!DeliverSend(d)
    BY <1>2
  <2>2. d.call \in Calls /\ d.reply # NoReply
    BY NoReplyAssumption DEF RpcProofs!Deliveries, RpcProofs!Replies, RpcProofs!ReplyKinds
  <2> QED  BY <2>1, <2>2 DEF RpcProofs!DeliverSend
<1>3. CASE UNCHANGED <<phase, rid, channel>>
  BY <1>3
<1> QED
  BY <1>1, <1>2, <1>3 DEF RpcProofs!Next, RpcProofs!RegisterSink, RpcProofs!DropReceiver,
     RpcProofs!UnregisterSink, RpcProofs!DeliverRemove, RpcProofs!tableVars,
     RpcProofs!callVars, rpcVars

-----------------------------------------------------------------------------
(***************************************************************************)
(* Types, and whose answer is whose.                                       *)
(***************************************************************************)
LEMMA TakeTyped ==
  ASSUME Typed, NEW c \in Conns, Reading(c), Take(c)
  PROVE  inbound' \in [Conns -> Seq(In)] /\ Head(inbound[c]) \in In
BY DEF Typed, Reading, Take

LEMMA PutTyped ==
  ASSUME Typed, NEW c \in Conns, NEW m \in In, Put(c, m)
  PROVE  inbound' \in [Conns -> Seq(In)]
BY DEF Typed, Put

(* A step that gives no new id leaves every queue well typed by the ids    *)
(* given before it.                                                        *)
LEMMA TypedStep ==
  ASSUME RpcProofs!IInv, Typed, NoDanglingSink, [Next]_vars,
         ~ \E h \in Calls : Fetch(h)
  PROVE  /\ stage' \in [Conns -> Stages]
         /\ link' \subseteq Conns
         /\ inbound' \in [Conns -> Seq(In)]
         /\ outbox' \in [Conns -> Seq(Out)]
         /\ asked' \subseteq Asks
         /\ arrived' \subseteq TrueReplies
         /\ task' \in [Calls -> Tasks]
         /\ home' \in [Calls -> Conns \cup {NoConn}]
<1> DEFINE Goal ==
      /\ stage' \in [Conns -> Stages]
      /\ link' \subseteq Conns
      /\ inbound' \in [Conns -> Seq(In)]
      /\ outbox' \in [Conns -> Seq(Out)]
      /\ asked' \subseteq Asks
      /\ arrived' \subseteq TrueReplies
      /\ task' \in [Calls -> Tasks]
      /\ home' \in [Calls -> Conns \cup {NoConn}]
<1> SUFFICES Goal
  OBVIOUS
<1>0. <<>> \in Seq(In) /\ <<>> \in Seq(Out)
  BY EmptySeq
<1>1. ASSUME NEW c \in Conns, ReadRequest(c) \/ ReadReply(c) \/ ReadJunk(c)
      PROVE  Goal
  <2>1. inbound' \in [Conns -> Seq(In)] /\ Head(inbound[c]) \in In
    BY <1>1, TakeTyped DEF ReadRequest, ReadReply, ReadJunk
  <2>2. CASE ReadRequest(c)
    <3>1. Head(inbound[c]).call \in Calls
      BY <2>1, <2>2 DEF ReadRequest, In, Requests, Answers, Junk
    <3> QED  BY <2>1, <2>2, <3>1 DEF ReadRequest, Typed, Tasks
  <2>3. CASE ReadReply(c)
    <3>1. Head(inbound[c]).reply \in TrueReplies
      BY <2>1, <2>3 DEF ReadReply, In, Requests, Answers, Junk
    <3> QED  BY <2>1, <2>3, <3>1 DEF ReadReply, Typed, taskVars
  <2>4. CASE ReadJunk(c)
    BY <2>1, <2>4 DEF ReadJunk, Typed, taskVars, Stages
  <2> QED  BY <1>1, <2>2, <2>3, <2>4
<1>2. ASSUME NEW c \in Conns, ReaderEnds(c) \/ Unregister(c) \/ AbortWriter(c)
      PROVE  Goal
  BY <1>2, <1>0 DEF ReaderEnds, Unregister, AbortWriter, Typed, taskVars, Stages
<1>3. ASSUME NEW c \in Conns,
             WriterSends(c) \/ WriterLoses(c) \/ WriterFails(c) \/ WriterEnds(c)
      PROVE  Goal
  <2>1. CASE WriterSends(c)
    <3>1. Head(outbox[c]) \in Out /\ outbox' \in [Conns -> Seq(Out)]
      BY <2>1 DEF WriterSends, Typed
    <3>2. CASE Head(outbox[c]).type = "fetch"
      <4>1. [id |-> Head(outbox[c]).id, call |-> Head(outbox[c]).call] \in Asks
        BY <3>1, <3>2 DEF Out, Fetches, Responses, Asks
      <4> QED  BY <2>1, <3>1, <3>2, <4>1 DEF WriterSends, Typed
    <3>3. CASE Head(outbox[c]).type # "fetch"
      BY <2>1, <3>1, <3>3 DEF WriterSends, Typed
    <3> QED  BY <3>2, <3>3
  <2>2. CASE WriterLoses(c)
    BY <2>2 DEF WriterLoses, Typed, taskVars
  <2>3. CASE WriterFails(c) \/ WriterEnds(c)
    BY <2>3, <1>0 DEF WriterFails, WriterEnds, Typed, taskVars, connVars
  <2> QED  BY <1>3, <2>1, <2>2, <2>3
<1>4. ASSUME NEW reply \in arrived, DeliverReply(reply)
      PROVE  Goal
  BY <1>4 DEF DeliverReply, Typed, connVars
<1>5. ASSUME NEW h \in Calls,
             FetchEnds(h) \/ FetchTimesOut(h) \/ Respond(h) \/ HandlerPanics(h)
      PROVE  Goal
  <2>1. CASE Respond(h)
    <3>1. [type |-> "response", call |-> h] \in Out
      BY DEF Out, Responses
    <3>2. \A c \in Conns :
            Append(outbox[c], [type |-> "response", call |-> h]) \in Seq(Out)
      BY <3>1, AppendProperties DEF Typed
    <3>3. outbox' \in [Conns -> Seq(Out)]
      BY <2>1, <3>2 DEF Respond, Typed
    <3> QED  BY <2>1, <3>3 DEF Respond, Typed, Tasks
  <2>2. CASE FetchEnds(h) \/ FetchTimesOut(h) \/ HandlerPanics(h)
    BY <2>2 DEF FetchEnds, FetchTimesOut, HandlerPanics, Typed, connVars, taskVars, Tasks
  <2> QED  BY <1>5, <2>1, <2>2
<1>6. ASSUME NEW d \in delivering, CompleteReply(d)
      PROVE  Goal
  BY <1>6 DEF CompleteReply, Typed, connVars, taskVars
<1>7. ASSUME NEW c \in Conns, Connect(c) \/ BrowserLeaves(c)
      PROVE  Goal
  BY <1>7 DEF Connect, BrowserLeaves, Typed, taskVars, Stages
<1>8. ASSUME NEW c \in Conns, NEW h \in Calls, BrowserRequests(c, h)
      PROVE  Goal
  <2>1. [type |-> "request", call |-> h] \in In
    BY DEF In, Requests
  <2>2. inbound' \in [Conns -> Seq(In)]
    BY <1>8, <2>1, PutTyped DEF BrowserRequests
  <2> QED  BY <1>8, <2>2 DEF BrowserRequests, Typed, Tasks
<1>9. ASSUME NEW c \in Conns, NEW q \in asked, NEW k \in AnswerKinds, NEW again,
             BrowserAnswers(c, q, k, again)
      PROVE  Goal
  <2>1. [id |-> q.id, kind |-> k, body |-> q.call] \in TrueReplies
    BY AnswerAssumption DEF Typed, Asks, TrueReplies, RpcProofs!Replies, RpcProofs!ReplyKinds
  <2>2. [type |-> "reply", reply |-> [id |-> q.id, kind |-> k, body |-> q.call]] \in In
    BY <2>1 DEF In, Answers
  <2>3. inbound' \in [Conns -> Seq(In)]
    BY <1>9, <2>2, PutTyped DEF BrowserAnswers
  <2> QED  BY <1>9, <2>3 DEF BrowserAnswers, Typed, taskVars
<1>10. ASSUME NEW c \in Conns, NEW s \in JunkShapes, BrowserSendsJunk(c, s)
       PROVE  Goal
  <2>1. [type |-> "junk", shape |-> s] \in In
    BY DEF In, Junk
  <2>2. inbound' \in [Conns -> Seq(In)]
    BY <1>10, <2>1, PutTyped DEF BrowserSendsJunk
  <2> QED  BY <1>10, <2>2 DEF BrowserSendsJunk, Typed, taskVars
<1>11. CASE UNCHANGED vars
  BY <1>11 DEF vars, Typed
<1> HIDE DEF Goal
<1> QED
  BY <1>1, <1>2, <1>3, <1>4, <1>5, <1>6, <1>7, <1>8, <1>9, <1>10, <1>11
     DEF Next, Daemon, Timers, Browser

(* A request queued under a new id is a request of the call that has it.   *)
LEMMA FetchTyped ==
  ASSUME RpcProofs!IInv, Typed, NEW h \in Calls, Fetch(h), RpcProofs!IInv',
         [RpcProofs!Next]_rpcVars
  PROVE  Typed'
<1>1. /\ inbound' \in [Conns -> Seq(In')]
      /\ outbox \in [Conns -> Seq(Out')]
      /\ asked' \subseteq Asks' /\ arrived' \subseteq TrueReplies'
  BY TruthGrows DEF Typed, Fetch, taskVars
<1>2. outbox' \in [Conns -> Seq(Out')]
  <2>1. CASE UNCHANGED outbox
    BY <1>1, <2>1
  <2>2. CASE ~ UNCHANGED outbox
    <3>1. /\ outbox' = [outbox EXCEPT ![sink] =
                          Append(@, [type |-> "fetch", id |-> nextId, call |-> h])]
          /\ rid' = [rid EXCEPT ![h] = nextId]
      BY <2>2 DEF Fetch, Rpc!SendQueued
    <3>2. nextId \in Nat \ {0} /\ rid'[h] = nextId
      BY <3>1 DEF RpcProofs!IInv, RpcProofs!TypeOK
    <3>3. [type |-> "fetch", id |-> nextId, call |-> h] \in Out'
      BY <3>2 DEF Out, Fetches
    <3>4. \A c \in Conns :
            Append(outbox[c], [type |-> "fetch", id |-> nextId, call |-> h]) \in Seq(Out')
      BY <1>1, <3>3, AppendProperties
    <3> QED  BY <1>1, <3>1, <3>4
  <2> QED  BY <2>1, <2>2
<1> QED  BY <1>1, <1>2 DEF Typed, Fetch, taskVars

LEMMA TypedInv ==
  ASSUME RpcProofs!IInv, Typed, NoDanglingSink, [Next]_vars,
         RpcProofs!IInv', [RpcProofs!Next]_rpcVars
  PROVE  Typed'
<1>1. CASE \E h \in Calls : Fetch(h)
  BY <1>1, FetchTyped
<1>2. CASE ~ \E h \in Calls : Fetch(h)
  <2>1. /\ stage' \in [Conns -> Stages]
        /\ link' \subseteq Conns
        /\ inbound' \in [Conns -> Seq(In)]
        /\ outbox' \in [Conns -> Seq(Out)]
        /\ asked' \subseteq Asks
        /\ arrived' \subseteq TrueReplies
        /\ task' \in [Calls -> Tasks]
        /\ home' \in [Calls -> Conns \cup {NoConn}]
    BY <1>2, TypedStep
  <2> QED  BY <2>1, TruthGrows DEF Typed
<1> QED  BY <1>1, <1>2

(* A delivery is about the call that owns the id, since no two have one.   *)
LEMMA OwnInv ==
  ASSUME RpcProofs!IInv, Typed, OwnDeliveries, OwnAnswer, [Next]_vars,
         [Rpc!Next]_rpcVars
  PROVE  OwnDeliveries' /\ OwnAnswer'
<1> USE DEF RpcProofs!IInv, RpcProofs!TypeOK
<1>1. CASE \E reply \in arrived : DeliverReply(reply)
  <2>1. PICK reply \in arrived : DeliverReply(reply)
    BY <1>1
  <2>2. CASE reply.id \in DOMAIN pending
    <3>1. /\ delivering' = delivering \cup {[call |-> pending[reply.id], reply |-> reply]}
          /\ channel' = channel
      BY <2>1, <2>2 DEF DeliverReply, Rpc!DeliverRemove
    <3>2. reply.body = pending[reply.id]
      BY <2>2 DEF Typed, TrueReplies, RpcProofs!Replies, RpcProofs!NoLeak, RpcProofs!IdsFresh
    <3> QED  BY <3>1, <3>2 DEF OwnDeliveries, OwnAnswer
  <2>3. CASE reply.id \notin DOMAIN pending
    BY <2>1, <2>3 DEF DeliverReply, rpcVars, OwnDeliveries, OwnAnswer
  <2> QED  BY <2>2, <2>3
<1>2. CASE \E d \in delivering : CompleteReply(d)
  <2>1. PICK d \in delivering : CompleteReply(d)
    BY <1>2
  <2>2. d.call \in Calls /\ d.reply.body = d.call
    BY DEF OwnDeliveries, RpcProofs!Deliveries
  <2>3. delivering' \subseteq delivering
        /\ (channel' = [channel EXCEPT ![d.call] = d.reply] \/ channel' = channel)
    BY <2>1 DEF CompleteReply, Rpc!DeliverSend
  <2> QED  BY <2>2, <2>3 DEF OwnDeliveries, OwnAnswer
<1>3. CASE UNCHANGED <<delivering, channel>>
  BY <1>3 DEF OwnDeliveries, OwnAnswer
<1>4. UNCHANGED <<delivering, channel>>
        \/ (\E reply \in arrived : DeliverReply(reply))
        \/ (\E d \in delivering : CompleteReply(d))
  BY DEF Next, Daemon, Timers, Browser, ReadRequest, ReadReply, ReadJunk, ReaderEnds,
     Unregister, AbortWriter, WriterSends, WriterLoses, WriterFails, WriterEnds, Fetch,
     FetchEnds, FetchTimesOut, Respond, HandlerPanics, Connect, BrowserLeaves,
     BrowserRequests, BrowserAnswers, BrowserSendsJunk, vars, rpcVars,
     Rpc!RegisterSink, Rpc!UnregisterSink, Rpc!DropReceiver, Rpc!SendNoSink,
     Rpc!SendDeadSink, Rpc!SendQueued, Rpc!Receive, Rpc!Elapse, Rpc!CleanUp,
     Rpc!tableVars, Rpc!callVars
<1> QED  BY <1>1, <1>2, <1>3, <1>4

-----------------------------------------------------------------------------
(***************************************************************************)
(* Connections: the sink and the writers.                                  *)
(***************************************************************************)
LEMMA ConnectionsInv ==
  ASSUME RpcProofs!IInv, Typed, NoDanglingSink, WritersLive, [Next]_vars
  PROVE  NoDanglingSink' /\ WritersLive'
<1> USE DEF RpcProofs!IInv, RpcProofs!TypeOK, Typed, NoDanglingSink, WritersLive
<1>1. ASSUME NEW c \in Conns, Connect(c)
      PROVE  NoDanglingSink' /\ WritersLive'
  BY <1>1 DEF Connect, Rpc!RegisterSink
<1>2. ASSUME NEW c \in Conns, ReadJunk(c) \/ ReaderEnds(c) \/ Unregister(c)
      PROVE  NoDanglingSink' /\ WritersLive'
  BY <1>2 DEF ReadJunk, Reading, ReaderEnds, Unregister, Rpc!UnregisterSink, rpcVars
<1>3. ASSUME NEW c \in Conns, AbortWriter(c) \/ WriterFails(c) \/ WriterEnds(c)
      PROVE  NoDanglingSink' /\ WritersLive'
  BY <1>3 DEF AbortWriter, WriterFails, WriterEnds, Rpc!DropReceiver, connVars, rpcVars
<1>4. ASSUME NEW c \in Conns, BrowserLeaves(c)
      PROVE  NoDanglingSink' /\ WritersLive'
  BY <1>4 DEF BrowserLeaves, rpcVars
<1>5. CASE UNCHANGED <<sink, open, stage, link>>
  BY <1>5
<1>6. \/ UNCHANGED <<sink, open, stage, link>>
      \/ \E c \in Conns :
           \/ Connect(c) \/ ReadJunk(c) \/ ReaderEnds(c) \/ Unregister(c)
           \/ AbortWriter(c) \/ WriterFails(c) \/ WriterEnds(c) \/ BrowserLeaves(c)
  BY DEF Next, Daemon, Timers, Browser, ReadRequest, ReadReply, WriterSends,
     WriterLoses, DeliverReply, CompleteReply, Fetch, FetchEnds, FetchTimesOut, Respond,
     HandlerPanics, BrowserRequests, BrowserAnswers, BrowserSendsJunk, vars, rpcVars,
     connVars, Rpc!SendNoSink, Rpc!SendDeadSink, Rpc!SendQueued, Rpc!Receive,
     Rpc!Elapse, Rpc!CleanUp, Rpc!DeliverRemove, Rpc!DeliverSend, Rpc!tableVars
<1> QED  BY <1>1, <1>2, <1>3, <1>4, <1>5, <1>6

-----------------------------------------------------------------------------
(***************************************************************************)
(* Nothing is lost.                                                        *)
(***************************************************************************)
LEMMA HoldsInTail ==
  ASSUME NEW S, NEW s \in Seq(S), s # <<>>, NEW id
  PROVE  /\ HoldsFetch(s, id) =>
              HoldsFetch(Tail(s), id) \/ (Head(s).type = "fetch" /\ Head(s).id = id)
         /\ HoldsReply(s, id) =>
              HoldsReply(Tail(s), id) \/ (Head(s).type = "reply" /\ Head(s).reply.id = id)
<1>1. \A i \in DOMAIN s : s[i] = Head(s) \/ \E j \in DOMAIN Tail(s) : Tail(s)[j] = s[i]
  <2> SUFFICES ASSUME NEW i \in DOMAIN s, i # 1
               PROVE  \E j \in DOMAIN Tail(s) : Tail(s)[j] = s[i]
    OBVIOUS
  <2>1. i - 1 \in DOMAIN Tail(s) /\ Tail(s)[i - 1] = s[i]
    OBVIOUS
  <2> QED  BY <2>1
<1> QED  BY <1>1 DEF HoldsFetch, HoldsReply

LEMMA HoldsInAppend ==
  ASSUME NEW S, NEW s \in Seq(S), NEW m, NEW id
  PROVE  /\ HoldsFetch(s, id) => HoldsFetch(Append(s, m), id)
         /\ HoldsReply(s, id) => HoldsReply(Append(s, m), id)
         /\ m.type = "fetch" /\ m.id = id => HoldsFetch(Append(s, m), id)
         /\ m.type = "reply" /\ m.reply.id = id => HoldsReply(Append(s, m), id)
<1>1. /\ \A i \in DOMAIN s : i \in DOMAIN Append(s, m) /\ Append(s, m)[i] = s[i]
      /\ Len(s) + 1 \in DOMAIN Append(s, m) /\ Append(s, m)[Len(s) + 1] = m
  <2>1. s \in Seq(S \cup {m}) /\ m \in S \cup {m}
    BY SeqMonotonic
  <2> QED  BY <2>1, AppendProperties, LenProperties
<1> QED  BY <1>1 DEF HoldsFetch, HoldsReply

LEMMA HoldsInQueues ==
  ASSUME Typed, NEW c \in Conns, NEW m, NEW id
  PROVE  /\ HoldsFetch(outbox[c], id) => HoldsFetch(Append(outbox[c], m), id)
         /\ m.type = "fetch" /\ m.id = id => HoldsFetch(Append(outbox[c], m), id)
         /\ HoldsReply(inbound[c], id) => HoldsReply(Append(inbound[c], m), id)
         /\ m.type = "reply" /\ m.reply.id = id => HoldsReply(Append(inbound[c], m), id)
<1>1. outbox[c] \in Seq(Out) /\ inbound[c] \in Seq(In)
  BY DEF Typed
<1> QED  BY <1>1, HoldsInAppend

(* Once down, a link or a reader stays down.                               *)
LEMMA AllUpBefore ==
  ASSUME Typed, [Next]_vars, AllUp'
  PROVE  AllUp
<1> USE DEF Typed, AllUp
<1>1. CASE \E c \in Conns :
            Connect(c) \/ ReaderEnds(c) \/ ReadJunk(c) \/ Unregister(c) \/ AbortWriter(c)
  BY <1>1 DEF Connect, ReaderEnds, ReadJunk, Reading, Unregister, AbortWriter
<1>2. CASE \E c \in Conns : BrowserLeaves(c)
  BY <1>2 DEF BrowserLeaves
<1>3. CASE UNCHANGED <<stage, link>>
  BY <1>3
<1> QED
  BY <1>1, <1>2, <1>3 DEF Next, Daemon, Timers, Browser, ReadRequest, ReadReply,
     WriterSends, WriterLoses, WriterFails, WriterEnds, DeliverReply, CompleteReply, Fetch,
     FetchEnds, FetchTimesOut, Respond, HandlerPanics, BrowserRequests, BrowserAnswers,
     BrowserSendsJunk, vars, connVars

(* A call that waits in the step of no fetch was waiting before it.        *)
LEMMA OnlyFetchWaits ==
  ASSUME RpcProofs!IInv, [Next]_vars, ~ \E f \in Calls : Fetch(f), NEW h \in Calls,
         phase'[h] = "waiting"
  PROVE  phase[h] = "waiting"
<1> USE DEF RpcProofs!IInv, RpcProofs!TypeOK
<1>1. CASE \E f \in Calls : FetchEnds(f) \/ FetchTimesOut(f)
  BY <1>1 DEF FetchEnds, FetchTimesOut, Rpc!Receive, Rpc!CleanUp, Rpc!Elapse, Rpc!Finish
<1>2. CASE UNCHANGED phase
  BY <1>2
<1> QED
  BY <1>1, <1>2 DEF Next, Daemon, Timers, Browser, ReadRequest, ReadReply, ReadJunk,
     ReaderEnds, Unregister, AbortWriter, WriterSends, WriterLoses, WriterFails, WriterEnds,
     DeliverReply, CompleteReply, Respond, HandlerPanics, Connect, BrowserLeaves,
     BrowserRequests, BrowserAnswers, BrowserSendsJunk, vars, rpcVars,
     Rpc!RegisterSink, Rpc!UnregisterSink, Rpc!DropReceiver, Rpc!DeliverRemove,
     Rpc!DeliverSend, Rpc!callVars

LEMMA FetchKeeps ==
  ASSUME RpcProofs!IInv, Typed, [RpcProofs!Next]_rpcVars, NEW f \in Calls, Fetch(f),
         NEW h \in Calls, phase'[h] = "waiting", channel'[h] = NoReply,
         phase[h] = "waiting" /\ channel[h] = NoReply => InFlight(h)
  PROVE  InFlight(h)'
<1> USE DEF RpcProofs!IInv, RpcProofs!TypeOK, Typed
<1>1. UNCHANGED <<open, inbound, asked, arrived, delivering>>
  BY DEF Fetch, taskVars, Rpc!SendNoSink, Rpc!SendDeadSink, Rpc!SendQueued, Rpc!tableVars
<1>2. \A c \in Conns : \A id :
        HoldsFetch(outbox[c], id) => HoldsFetch(outbox'[c], id)
  <2> SUFFICES ASSUME NEW c \in Conns, NEW id, HoldsFetch(outbox[c], id)
               PROVE  HoldsFetch(outbox'[c], id)
    OBVIOUS
  <2> DEFINE m == [type |-> "fetch", id |-> nextId, call |-> f]
  <2>1. outbox'[c] = outbox[c] \/ outbox'[c] = Append(outbox[c], m)
    BY DEF Fetch
  <2> HIDE DEF m
  <2>2. HoldsFetch(outbox[c], id) => HoldsFetch(Append(outbox[c], m), id)
    <3> HIDE DEF Typed
    <3> QED  BY HoldsInQueues
  <2> QED  BY <2>1, <2>2
<1>3. CASE phase[h] = "waiting" /\ channel[h] = NoReply /\ rid'[h] = rid[h]
  BY <1>1, <1>2, <1>3 DEF InFlight
<1>4. CASE phase[h] = "idle" /\ rid'[h] = nextId
  <2> DEFINE m == [type |-> "fetch", id |-> nextId, call |-> f]
  <2>1. sink \in open /\ outbox' = [outbox EXCEPT ![sink] = Append(@, m)]
    BY <1>4 DEF Fetch, Rpc!SendNoSink, Rpc!SendDeadSink, Rpc!SendQueued, Rpc!Finish
  <2>2. m.type = "fetch" /\ m.id = nextId /\ outbox'[sink] = Append(outbox[sink], m)
    BY <2>1
  <2> HIDE DEF m
  <2>3. HoldsFetch(outbox'[sink], nextId)
    BY <2>1, <2>2, HoldsInQueues
  <2> QED  BY <1>1, <1>4, <2>1, <2>3 DEF InFlight
<1> QED  BY <1>3, <1>4, WaitingBefore

(* The queues, the browser and the tasks hand on what they hold; while all *)
(* are up no writer fails, and a call that waits is in the table, so that  *)
(* its reply is no orphan.                                                 *)
LEMMA OthersKeep ==
  ASSUME RpcProofs!IInv, Typed, WritersLive, [Next]_vars, ~ \E f \in Calls : Fetch(f),
         AllUp, AllUp', NEW h \in Calls, InFlight(h), rid'[h] = rid[h],
         phase[h] = "waiting", channel[h] = NoReply,
         phase'[h] = "waiting", channel'[h] = NoReply
  PROVE  InFlight(h)'
<1> USE DEF RpcProofs!IInv, RpcProofs!TypeOK, Typed
<1> DEFINE Kept ==
      /\ \A c \in open : HoldsFetch(outbox[c], rid[h]) =>
           \/ c \in open' /\ HoldsFetch(outbox'[c], rid[h])
           \/ \E q \in asked' : q.id = rid[h]
      /\ \A c \in Conns : HoldsReply(inbound[c], rid[h]) =>
           \/ HoldsReply(inbound'[c], rid[h])
           \/ \E reply \in arrived' : reply.id = rid[h]
      /\ \A q \in asked : q.id = rid[h] =>
           \/ q \in asked'
           \/ \E c \in Conns : HoldsReply(inbound'[c], rid[h])
      /\ \A reply \in arrived : reply.id = rid[h] =>
           \/ reply \in arrived'
           \/ \E d \in delivering' : d.call = h
      /\ \A d \in delivering : d.call = h => d \in delivering'
<1> SUFFICES Kept
  BY DEF InFlight
<1>1. ASSUME NEW c \in Conns, ReadRequest(c) \/ ReadReply(c) \/ ReadJunk(c)
      PROVE  Kept
  <2>1. inbound[c] \in Seq(In) /\ inbound[c] # <<>>
    BY <1>1 DEF ReadRequest, ReadReply, ReadJunk, Reading
  <2>2. inbound' = [inbound EXCEPT ![c] = Tail(inbound[c])]
        /\ UNCHANGED <<open, outbox, asked, delivering>>
    BY <1>1 DEF ReadRequest, ReadReply, ReadJunk, Take, rpcVars
  <2>3. arrived \subseteq arrived' /\ (Head(inbound[c]).type = "reply" =>
          Head(inbound[c]).reply \in arrived')
    BY <1>1 DEF ReadRequest, ReadReply, ReadJunk, taskVars
  <2>4. HoldsReply(inbound[c], rid[h]) =>
          HoldsReply(inbound'[c], rid[h]) \/ \E reply \in arrived' : reply.id = rid[h]
    BY <2>1, <2>2, <2>3, HoldsInTail
  <2> QED  BY <2>2, <2>3, <2>4
<1>2. ASSUME NEW c \in Conns, ReaderEnds(c) \/ AbortWriter(c)
      PROVE  Kept
  BY <1>2 DEF ReaderEnds, AbortWriter, AllUp
<1>3. ASSUME NEW c \in Conns, WriterSends(c)
      PROVE  Kept
  <2>1. outbox[c] \in Seq(Out) /\ outbox[c] # <<>>
    BY <1>3 DEF WriterSends
  <2>2. outbox' = [outbox EXCEPT ![c] = Tail(outbox[c])]
        /\ UNCHANGED <<open, inbound, arrived, delivering>>
    BY <1>3 DEF WriterSends, rpcVars
  <2>3. asked \subseteq asked' /\ (Head(outbox[c]).type = "fetch" =>
          \E q \in asked' : q.id = Head(outbox[c]).id)
    <3> DEFINE q == [id |-> Head(outbox[c]).id, call |-> Head(outbox[c]).call]
    <3>1. asked \subseteq asked' /\ (Head(outbox[c]).type = "fetch" => q \in asked')
      BY <1>3 DEF WriterSends
    <3>2. q.id = Head(outbox[c]).id
      OBVIOUS
    <3> HIDE DEF q
    <3> QED  BY <3>1, <3>2
  <2>4. HoldsFetch(outbox[c], rid[h]) =>
          HoldsFetch(outbox'[c], rid[h]) \/ \E q \in asked' : q.id = rid[h]
    BY <2>1, <2>2, <2>3, HoldsInTail
  <2> QED  BY <2>2, <2>3, <2>4
<1>4. ASSUME NEW c \in Conns, WriterLoses(c) \/ WriterFails(c) \/ WriterEnds(c)
      PROVE  Kept
  <2>1. c \in open
    BY <1>4 DEF WriterLoses, WriterFails, WriterEnds, Rpc!DropReceiver
  <2>2. stage[c] = "reading" /\ c \in link
    BY <2>1 DEF AllUp, WritersLive
  <2> QED  BY <1>4, <2>2 DEF WriterLoses, WriterFails, WriterEnds
<1>5. ASSUME NEW reply \in arrived, DeliverReply(reply)
      PROVE  Kept
  <2>1. UNCHANGED <<open, inbound, outbox, asked>> /\ arrived' = arrived \ {reply}
    BY <1>5 DEF DeliverReply, connVars, rpcVars, Rpc!DeliverRemove
  <2>2. delivering \subseteq delivering'
    BY <1>5 DEF DeliverReply, rpcVars, Rpc!DeliverRemove
  <2>3. reply.id = rid[h] => \E d \in delivering' : d.call = h
    <3> SUFFICES ASSUME reply.id = rid[h]
                 PROVE  \E d \in delivering' : d.call = h
      OBVIOUS
    <3>1. CASE rid[h] \in DOMAIN pending /\ pending[rid[h]] = h
      <4>1. [call |-> h, reply |-> reply] \in delivering'
        BY <1>5, <3>1 DEF DeliverReply, Rpc!DeliverRemove
      <4> QED  BY <4>1
    <3>2. CASE \E d \in delivering : d.call = h
      BY <2>2, <3>2
    <3> QED  BY <3>1, <3>2 DEF RpcProofs!SenderHeld
  <2> QED  BY <2>1, <2>2, <2>3
<1>6. ASSUME NEW d \in delivering, CompleteReply(d)
      PROVE  Kept
  <2>1. UNCHANGED <<open, inbound, outbox, asked, arrived>>
    BY <1>6 DEF CompleteReply, connVars, taskVars, Rpc!DeliverSend, Rpc!tableVars
  <2>2. d.call # h
    <3>1. d.reply # NoReply
      BY NoReplyAssumption DEF RpcProofs!Deliveries, RpcProofs!Replies, RpcProofs!ReplyKinds
    <3> QED  BY <1>6, <3>1 DEF CompleteReply, Rpc!DeliverSend
  <2> QED  BY <1>6, <2>1, <2>2 DEF CompleteReply, Rpc!DeliverSend
<1>7. ASSUME NEW f \in Calls, Respond(f)
      PROVE  Kept
  <2> DEFINE m == [type |-> "response", call |-> f]
  <2>1. UNCHANGED <<open, inbound, asked, arrived, delivering>>
    BY <1>7 DEF Respond, rpcVars
  <2>2. \A c \in Conns : outbox'[c] = outbox[c] \/ outbox'[c] = Append(outbox[c], m)
    BY <1>7 DEF Respond
  <2> HIDE DEF m
  <2>3. \A c \in Conns :
          HoldsFetch(outbox[c], rid[h]) => HoldsFetch(Append(outbox[c], m), rid[h])
    <3> HIDE DEF Typed
    <3> QED  BY HoldsInQueues
  <2>4. \A c \in Conns : HoldsFetch(outbox[c], rid[h]) => HoldsFetch(outbox'[c], rid[h])
    BY <2>2, <2>3
  <2> QED  BY <2>1, <2>4
<1>8. ASSUME NEW c \in Conns, NEW m \in In, Put(c, m),
             UNCHANGED <<open, outbox, arrived, delivering>>,
             \A q \in asked \ asked' : m.type = "reply" /\ m.reply.id = q.id
      PROVE  Kept
  <2>1. \A b \in Conns : inbound'[b] = IF b = c THEN Append(inbound[b], m) ELSE inbound[b]
    BY <1>8 DEF Put
  <2>2. /\ \A b \in Conns :
             HoldsReply(inbound[b], rid[h]) => HoldsReply(Append(inbound[b], m), rid[h])
        /\ m.type = "reply" /\ m.reply.id = rid[h] =>
             HoldsReply(Append(inbound[c], m), rid[h])
    <3> HIDE DEF Typed
    <3> QED  BY HoldsInQueues
  <2>3. \A b \in Conns : HoldsReply(inbound[b], rid[h]) => HoldsReply(inbound'[b], rid[h])
    BY <2>1, <2>2
  <2>4. \A q \in asked \ asked' : q.id = rid[h] => HoldsReply(inbound'[c], rid[h])
    BY <1>8, <2>1, <2>2
  <2> QED  BY <1>8, <2>3, <2>4
<1>9. ASSUME NEW c \in Conns, NEW f \in Calls, BrowserRequests(c, f)
      PROVE  Kept
  <2>1. [type |-> "request", call |-> f] \in In
    BY DEF In, Requests
  <2> QED  BY <1>8, <1>9, <2>1 DEF BrowserRequests, rpcVars
<1>10. ASSUME NEW c \in Conns, NEW q \in asked, NEW k \in AnswerKinds, NEW again,
              BrowserAnswers(c, q, k, again)
       PROVE  Kept
  <2> DEFINE m == [type |-> "reply", reply |-> [id |-> q.id, kind |-> k, body |-> q.call]]
  <2>1. [id |-> q.id, kind |-> k, body |-> q.call] \in TrueReplies
    BY AnswerAssumption DEF Asks, TrueReplies, RpcProofs!Replies, RpcProofs!ReplyKinds
  <2>2. m \in In /\ m.type = "reply" /\ m.reply.id = q.id
    BY <2>1 DEF In, Answers
  <2>3. Put(c, m) /\ UNCHANGED <<open, outbox, arrived, delivering>> /\ asked \ asked' \subseteq {q}
    BY <1>10 DEF BrowserAnswers, taskVars, rpcVars
  <2> HIDE DEF m, Kept
  <2> QED  BY <1>8, <2>2, <2>3
<1>11. ASSUME NEW c \in Conns, NEW s \in JunkShapes, BrowserSendsJunk(c, s)
       PROVE  Kept
  <2>1. [type |-> "junk", shape |-> s] \in In
    BY DEF In, Junk
  <2> QED  BY <1>8, <1>11, <2>1 DEF BrowserSendsJunk, taskVars, rpcVars
<1>12. ASSUME NEW c \in Conns, Connect(c)
       PROVE  Kept
  BY <1>12 DEF Connect, taskVars, Rpc!RegisterSink, Rpc!callVars
<1>13. CASE UNCHANGED <<open, inbound, outbox, asked, arrived, delivering>>
  BY <1>13
<1>14. ASSUME (\E c \in Conns : Unregister(c) \/ BrowserLeaves(c))
                \/ (\E f \in Calls : FetchEnds(f) \/ FetchTimesOut(f) \/ HandlerPanics(f))
                \/ UNCHANGED vars
       PROVE  UNCHANGED <<open, inbound, outbox, asked, arrived, delivering>>
  BY <1>14 DEF Unregister, BrowserLeaves, FetchEnds, FetchTimesOut, HandlerPanics, vars,
     rpcVars, connVars, taskVars, Rpc!UnregisterSink, Rpc!Receive, Rpc!CleanUp, Rpc!Elapse,
     Rpc!tableVars, Rpc!callVars
<1> HIDE DEF Kept
<1> QED
  BY <1>1, <1>2, <1>3, <1>4, <1>5, <1>6, <1>7, <1>9, <1>10, <1>11, <1>12, <1>13, <1>14
     DEF Next, Daemon, Timers, Browser

LEMMA NothingLostInv ==
  ASSUME RpcProofs!IInv, Typed, WritersLive, NothingLost, [Next]_vars,
         [RpcProofs!Next]_rpcVars
  PROVE  NothingLost'
<1> SUFFICES ASSUME AllUp', NEW h \in Calls, phase'[h] = "waiting", channel'[h] = NoReply
             PROVE  InFlight(h)'
  BY DEF NothingLost
<1>1. AllUp
  BY AllUpBefore
<1>2. phase[h] = "waiting" /\ channel[h] = NoReply => InFlight(h)
  BY <1>1 DEF NothingLost
<1>3. CASE \E f \in Calls : Fetch(f)
  BY <1>2, <1>3, FetchKeeps
<1>4. CASE ~ \E f \in Calls : Fetch(f)
  <2>1. phase[h] = "waiting" /\ channel[h] = NoReply /\ rid'[h] = rid[h]
    BY <1>4, WaitingBefore, OnlyFetchWaits
  <2> QED  BY <1>1, <1>2, <1>4, <2>1, OthersKeep
<1> QED  BY <1>3, <1>4

-----------------------------------------------------------------------------
LEMMA InitIInv == Init => IInv
<1> SUFFICES ASSUME Init PROVE IInv
  OBVIOUS
<1>1. RpcProofs!IInv
  BY InitRpc, NoConnAssumption, NoReplyAssumption, RpcProofs!InitIInv
<1>2. Typed
  BY EmptySeq DEF Init, Typed, Stages, Tasks
<1>3. OwnDeliveries /\ OwnAnswer /\ NoDanglingSink /\ WritersLive /\ NothingLost
  BY DEF Init, Rpc!Init, OwnDeliveries, OwnAnswer, NoDanglingSink, WritersLive, NothingLost
<1> QED  BY <1>1, <1>2, <1>3 DEF IInv

LEMMA NextIInv == IInv /\ [Next]_vars => IInv' /\ [Rpc!Next]_rpcVars
<1> SUFFICES ASSUME IInv, [Next]_vars PROVE IInv' /\ [Rpc!Next]_rpcVars
  OBVIOUS
<1>1. [Rpc!Next]_rpcVars /\ [RpcProofs!Next]_rpcVars /\ RpcProofs!IInv'
  BY NextRpc, RpcInv DEF IInv
<1>2. Typed'
  BY <1>1, TypedInv DEF IInv
<1>3. OwnDeliveries' /\ OwnAnswer'
  BY <1>1, OwnInv DEF IInv
<1>4. NoDanglingSink' /\ WritersLive'
  BY ConnectionsInv DEF IInv
<1>5. NothingLost'
  BY <1>1, NothingLostInv DEF IInv
<1> QED  BY <1>1, <1>2, <1>3, <1>4, <1>5 DEF IInv

(* The server and its clients, in every reachable state: replies travel    *)
(* under the id of the call they are about, writers live while they are    *)
(* needed, and the table of pending calls is as HostRpc promises           *)
(* (server.rs:51-197, mod.rs:122-277).                                     *)
THEOREM Invariance == Spec => []IInv
BY InitIInv, NextIInv, PTL DEF Spec

(* The server uses host_rpc as HostRpc allows: replies it delivers are of  *)
(* the known kinds, a sink is registered once per connection and dropped   *)
(* once (server.rs:68-97, 179-197).                                        *)
THEOREM UsesHostRpcAsSpecified == Spec => UsesHostRpc
<1>1. Init => Rpc!Init
  BY InitRpc
<1>2. Spec => [][Rpc!Next]_(Rpc!vars)
  <2>1. IInv /\ [Next]_vars => [Rpc!Next]_(Rpc!vars)
    BY NextIInv DEF rpcVars, Rpc!vars
  <2> QED  BY <2>1, Invariance, PTL DEF Spec
<1> QED  BY <1>1, <1>2, PTL DEF Spec, UsesHostRpc, Rpc!Spec

(* A fetch returns the answer to the request it sent, whatever connects,   *)
(* leaves, repeats or overtakes meanwhile (mod.rs:164-176, 214-277).       *)
THEOREM AnswersAreOwn == Spec => []OwnAnswer
BY Invariance, PTL DEF IInv

(* No fetch is sent to a connection that has been torn down                *)
(* (server.rs:71, 82-89).                                                  *)
THEOREM SinkNeverDangles == Spec => []NoDanglingSink
BY Invariance, PTL DEF IInv

(* While every connection is up, what a fetch waits for is on its way      *)
(* (server.rs:71-132, 179-197).                                            *)
THEOREM NothingIsLost == Spec => []NothingLost
BY Invariance, PTL DEF IInv

(* What host_rpc promises the tools holds of the daemon with its server,   *)
(* its connections and any browser: a fetch ends once, with a reply to its *)
(* own, never reused, id or in a failure (mod.rs:164-277).                 *)
THEOREM FetchesKeepPromise == Spec => RpcProofs!KeepsPromise
<1>1. RpcProofs!Spec => RpcProofs!KeepsPromise
  BY NoConnAssumption, NoReplyAssumption, RpcProofs!Implements
<1>2. Spec => RpcProofs!Spec
  <2>1. Init => RpcProofs!Init
    BY InitRpc
  <2>2. IInv /\ [Next]_vars => [RpcProofs!Next]_(RpcProofs!vars)
    BY NextIInv, SameNext DEF rpcVars, RpcProofs!vars
  <2> QED  BY <2>1, <2>2, Invariance, PTL DEF Spec, RpcProofs!Spec
<1> QED  BY <1>1, <1>2
=============================================================================
