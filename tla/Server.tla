------------------------------- MODULE Server -------------------------------
(***************************************************************************)
(* The WebSocket server: daemon/src/server.rs, composed with HostRpc.       *)
(*                                                                         *)
(* Each connection has a task (register the sink, read until the stream    *)
(* ends, unregister the sink, abort the writer) and a writer task that     *)
(* owns out_rx.  A browser request is a task of its own, which may fetch   *)
(* through the browser before it responds; a browser reply is a task of    *)
(* its own too, so replies may be delivered in any order.  The browser is  *)
(* external: it sends requests, answers what it was asked once, twice or   *)
(* never, over whatever link is up, and leaves when it likes.              *)
(***************************************************************************)
EXTENDS Naturals, Sequences, FiniteSets

CONSTANTS
  Calls,       \* browser requests; each handler makes at most one fetch
  Conns,       \* connections accepted, each used once
  NoConn,
  NoReply,
  JunkShapes,  \* messages without method or status: "plain", "split"
  AnswerKinds, \* kinds of answer the browser gives
  Fatal,       \* requests whose handler may panic on their content
  MaxInbound   \* messages of one connection the socket holds at once

ASSUME NoConnAssumption == NoConn \notin Conns
ASSUME NoReplyAssumption ==
  NoReply \notin [id : Nat \ {0}, kind : {"ok", "error"}, body : Calls]
ASSUME JunkAssumption == JunkShapes \subseteq {"plain", "split"}
ASSUME AnswerAssumption == AnswerKinds \subseteq {"ok", "error"}
ASSUME FatalAssumption == Fatal \subseteq Calls
ASSUME InboundAssumption == MaxInbound \in Nat \ {0}

VARIABLES
  sink, open, pending, nextId, phase, rid, channel, delivering, outcome,
  stage,      \* stage[c]: where the connection task of c stands
  link,       \* links the browser still holds up
  inbound,    \* inbound[c]: what the browser sent and c has not read
  outbox,     \* outbox[c]: what is queued for the writer of c
  asked,      \* requests the browser has received: [id, call]
  arrived,    \* reply tasks spawned and not yet run
  task,       \* task[h]: where the handler of request h stands
  home,       \* home[h]: the connection the request came over
  served      \* requests whose response reached the browser

connVars == <<stage, link, inbound, outbox, asked>>
taskVars == <<arrived, task, home, served>>
rpcVars == <<sink, open, pending, nextId, phase, rid, channel, delivering, outcome>>
vars == <<sink, open, pending, nextId, phase, rid, channel, delivering, outcome,
          stage, link, inbound, outbox, asked, arrived, task, home, served>>

(* A reply is about the call whose request the browser was answering.      *)
Rpc == INSTANCE HostRpc WITH Bodies <- Calls

Init ==
  /\ Rpc!Init
  /\ stage = [c \in Conns |-> "absent"]
  /\ link = {}
  /\ inbound = [c \in Conns |-> <<>>]
  /\ outbox = [c \in Conns |-> <<>>]
  /\ asked = {}
  /\ arrived = {}
  /\ task = [h \in Calls |-> "unsent"]
  /\ home = [h \in Calls |-> NoConn]
  /\ served = {}

-----------------------------------------------------------------------------
(* The browser.                                                            *)
Deliverable(c) == c \in link /\ Len(inbound[c]) < MaxInbound
Put(c, m) == inbound' = [inbound EXCEPT ![c] = Append(@, m)]

BrowserRequests(c, h) ==
  /\ task[h] = "unsent"
  /\ Deliverable(c)
  /\ Put(c, [type |-> "request", call |-> h])
  /\ task' = [task EXCEPT ![h] = "sent"]
  /\ home' = [home EXCEPT ![h] = c]
  /\ UNCHANGED <<stage, link, outbox, asked, arrived, served>>
  /\ UNCHANGED rpcVars

BrowserAnswers(c, q, k, again) ==
  /\ q \in asked
  /\ Deliverable(c)
  /\ Put(c, [type |-> "reply", reply |-> [id |-> q.id, kind |-> k, body |-> q.call]])
  /\ asked' = IF again THEN asked ELSE asked \ {q}
  /\ UNCHANGED <<stage, link, outbox>>
  /\ UNCHANGED taskVars
  /\ UNCHANGED rpcVars

BrowserSendsJunk(c, s) ==
  /\ Deliverable(c)
  /\ Put(c, [type |-> "junk", shape |-> s])
  /\ UNCHANGED <<stage, link, outbox, asked>>
  /\ UNCHANGED taskVars
  /\ UNCHANGED rpcVars

(* The link goes down at either end; what was sent may still be read.      *)
BrowserLeaves(c) ==
  /\ c \in link
  /\ link' = link \ {c}
  /\ UNCHANGED <<stage, inbound, outbox, asked>>
  /\ UNCHANGED taskVars
  /\ UNCHANGED rpcVars

-----------------------------------------------------------------------------
(* handle_connection: handshake, channel, register_sink, spawn the writer. *)
Connect(c) ==
  /\ stage[c] = "absent"
  /\ Rpc!RegisterSink(c)
  /\ stage' = [stage EXCEPT ![c] = "reading"]
  /\ link' = link \cup {c}
  /\ UNCHANGED <<inbound, outbox, asked>>
  /\ UNCHANGED taskVars

(* handle_inbound_loop and dispatch_or_spawn, one message.                 *)
Reading(c) == stage[c] = "reading" /\ inbound[c] # <<>>
Take(c) == inbound' = [inbound EXCEPT ![c] = Tail(@)]

(* Mutated ReadReply: handlers are awaited inline by the inbound loop.     *)
ReadReplyInline(c) ==
  /\ Reading(c)
  /\ Head(inbound[c]).type = "reply"
  /\ \A h \in Calls : home[h] = c => task[h] # "running"
  /\ Take(c)
  /\ arrived' = arrived \cup {Head(inbound[c]).reply}
  /\ UNCHANGED <<stage, link, outbox, asked, task, home, served>>
  /\ UNCHANGED rpcVars

(* Mutated ReadReply: a reply counts only from the registered client.      *)
ReadReplyFromSink(c) ==
  /\ Reading(c)
  /\ Head(inbound[c]).type = "reply"
  /\ Take(c)
  /\ arrived' = IF sink = c THEN arrived \cup {Head(inbound[c]).reply} ELSE arrived
  /\ UNCHANGED <<stage, link, outbox, asked, task, home, served>>
  /\ UNCHANGED rpcVars

ReadRequest(c) ==
  /\ Reading(c)
  /\ Head(inbound[c]).type = "request"
  /\ Take(c)
  /\ task' = [task EXCEPT ![Head(inbound[c]).call] = "running"]
  /\ UNCHANGED <<stage, link, outbox, asked, arrived, home, served>>
  /\ UNCHANGED rpcVars

ReadReply(c) ==
  /\ Reading(c)
  /\ Head(inbound[c]).type = "reply"
  /\ Take(c)
  /\ arrived' = arrived \cup {Head(inbound[c]).reply}
  /\ UNCHANGED <<stage, link, outbox, asked, task, home, served>>
  /\ UNCHANGED rpcVars

(* A message of neither kind is logged and dropped, but the log line cuts  *)
(* the text at byte 80: where that splits a character the connection task  *)
(* panics, and nothing it would do at the end is done.                     *)
ReadJunk(c) ==
  /\ Reading(c)
  /\ Head(inbound[c]).type = "junk"
  /\ Take(c)
  /\ stage' = IF Head(inbound[c]).shape = "split"
              THEN [stage EXCEPT ![c] = "panicked"]
              ELSE stage
  /\ UNCHANGED <<link, outbox, asked>>
  /\ UNCHANGED taskVars
  /\ UNCHANGED rpcVars

(* Close frame, end of stream or read error.                               *)
ReaderEnds(c) ==
  /\ stage[c] = "reading"
  /\ c \notin link
  /\ stage' = [stage EXCEPT ![c] = "unregistering"]
  /\ inbound' = [inbound EXCEPT ![c] = <<>>]
  /\ UNCHANGED <<link, outbox, asked>>
  /\ UNCHANGED taskVars
  /\ UNCHANGED rpcVars

(* Mutated Unregister: a read error returns from the task before it.       *)
UnregisterSkipped(c) ==
  /\ stage[c] = "unregistering"
  /\ stage' = [stage EXCEPT ![c] = "aborting"]
  /\ UNCHANGED <<link, inbound, outbox, asked>>
  /\ UNCHANGED taskVars
  /\ UNCHANGED rpcVars

(* Mutated Unregister: teardown cancels the calls in flight.               *)
UnregisterCancelling(c) ==
  /\ stage[c] = "unregistering"
  /\ sink' = NoConn
  /\ pending' = [i \in {} |-> 0]
  /\ stage' = [stage EXCEPT ![c] = "aborting"]
  /\ UNCHANGED <<open, nextId, phase, rid, channel, delivering, outcome>>
  /\ UNCHANGED <<link, inbound, outbox, asked>>
  /\ UNCHANGED taskVars

(* Teardown, the sink first.                                               *)
Unregister(c) ==
  /\ stage[c] = "unregistering"
  /\ Rpc!UnregisterSink
  /\ stage' = [stage EXCEPT ![c] = "aborting"]
  /\ UNCHANGED <<link, inbound, outbox, asked>>
  /\ UNCHANGED taskVars

(* writer.abort: what is still queued is lost.                             *)
AbortWriter(c) ==
  /\ stage[c] = "aborting"
  /\ stage' = [stage EXCEPT ![c] = "gone"]
  /\ outbox' = [outbox EXCEPT ![c] = <<>>]
  /\ IF c \in open THEN Rpc!DropReceiver(c) ELSE UNCHANGED rpcVars
  /\ UNCHANGED <<link, inbound, asked>>
  /\ UNCHANGED taskVars

-----------------------------------------------------------------------------
(* handle_outbound_loop, one message.                                      *)
WriterSends(c) ==
  /\ c \in open /\ c \in link /\ outbox[c] # <<>>
  /\ outbox' = [outbox EXCEPT ![c] = Tail(@)]
  /\ LET m == Head(outbox[c]) IN
       IF m.type = "fetch"
       THEN asked' = asked \cup {[id |-> m.id, call |-> m.call]} /\ UNCHANGED served
       ELSE served' = served \cup {m.call} /\ UNCHANGED asked
  /\ UNCHANGED <<stage, link, inbound, arrived, task, home>>
  /\ UNCHANGED rpcVars

(* The link is down: the message vanishes in a buffer, or the send fails   *)
(* and the writer ends with all that is queued.                            *)
WriterLoses(c) ==
  /\ c \in open /\ c \notin link /\ outbox[c] # <<>>
  /\ outbox' = [outbox EXCEPT ![c] = Tail(@)]
  /\ UNCHANGED <<stage, link, inbound, asked>>
  /\ UNCHANGED taskVars
  /\ UNCHANGED rpcVars

WriterFails(c) ==
  /\ c \notin link /\ outbox[c] # <<>>
  /\ Rpc!DropReceiver(c)
  /\ outbox' = [outbox EXCEPT ![c] = <<>>]
  /\ UNCHANGED <<stage, link, inbound, asked>>
  /\ UNCHANGED taskVars

(* Every sender of the channel is gone: recv returns None.                 *)
WriterEnds(c) ==
  /\ outbox[c] = <<>>
  /\ stage[c] # "reading" /\ sink # c
  /\ \A h \in Calls : home[h] = c => task[h] # "running"
  /\ Rpc!DropReceiver(c)
  /\ UNCHANGED connVars
  /\ UNCHANGED taskVars

-----------------------------------------------------------------------------
(* A spawned reply task runs deliver_reply.                                *)
DeliverReply(reply) ==
  /\ reply \in arrived
  /\ arrived' = arrived \ {reply}
  /\ IF reply.id \in DOMAIN pending
     THEN Rpc!DeliverRemove(reply)
     ELSE UNCHANGED rpcVars
  /\ UNCHANGED <<task, home, served>>
  /\ UNCHANGED connVars

CompleteReply(d) ==
  /\ Rpc!DeliverSend(d)
  /\ UNCHANGED connVars
  /\ UNCHANGED taskVars

(* A spawned request task: at most one fetch, then the response.           *)
Fetch(h) ==
  /\ task[h] = "running"
  /\ \/ /\ Rpc!SendNoSink(h) \/ Rpc!SendDeadSink(h)
        /\ UNCHANGED outbox
     \/ /\ Rpc!SendQueued(h)
        /\ outbox' = [outbox EXCEPT ![sink] =
                        Append(@, [type |-> "fetch", id |-> nextId, call |-> h])]
  /\ UNCHANGED <<stage, link, inbound, asked>>
  /\ UNCHANGED taskVars

FetchEnds(h) ==
  /\ Rpc!Receive(h) \/ Rpc!CleanUp(h)
  /\ UNCHANGED connVars
  /\ UNCHANGED taskVars

FetchTimesOut(h) ==
  /\ Rpc!Elapse(h)
  /\ UNCHANGED connVars
  /\ UNCHANGED taskVars

(* out_tx.send fails once the writer is gone: the response is lost.        *)
Respond(h) ==
  /\ task[h] = "running"
  /\ phase[h] \in {"idle", "done"}
  /\ task' = [task EXCEPT ![h] = "responded"]
  /\ outbox' = IF home[h] \in open
               THEN [outbox EXCEPT ![home[h]] =
                       Append(@, [type |-> "response", call |-> h])]
               ELSE outbox
  /\ UNCHANGED <<stage, link, inbound, asked, arrived, home, served>>
  /\ UNCHANGED rpcVars

(* A handler that panics (a page text cut inside a character) takes its    *)
(* task with it: nothing is sent.                                          *)
HandlerPanics(h) ==
  /\ h \in Fatal
  /\ task[h] = "running"
  /\ phase[h] \in {"idle", "done"}
  /\ task' = [task EXCEPT ![h] = "panicked"]
  /\ UNCHANGED <<arrived, home, served>>
  /\ UNCHANGED connVars
  /\ UNCHANGED rpcVars

-----------------------------------------------------------------------------
Daemon ==
  \/ \E c \in Conns :
       \/ ReadRequest(c) \/ ReadReply(c) \/ ReadJunk(c)
       \/ ReaderEnds(c) \/ Unregister(c) \/ AbortWriter(c)
       \/ WriterSends(c) \/ WriterLoses(c) \/ WriterFails(c) \/ WriterEnds(c)
  \/ \E reply \in arrived : DeliverReply(reply)
  \/ \E d \in delivering : CompleteReply(d)
  \/ \E h \in Calls : Fetch(h) \/ FetchEnds(h) \/ Respond(h) \/ HandlerPanics(h)

Timers == \E h \in Calls : FetchTimesOut(h)

Browser ==
  \E c \in Conns :
    \/ Connect(c)
    \/ BrowserLeaves(c)
    \/ \E h \in Calls : BrowserRequests(c, h)
    \/ \E q \in asked, k \in AnswerKinds : BrowserAnswers(c, q, k, TRUE) \/ BrowserAnswers(c, q, k, FALSE)
    \/ \E s \in JunkShapes : BrowserSendsJunk(c, s)

Next == Daemon \/ Timers \/ Browser

Spec == Init /\ [][Next]_vars

(* The runtime schedules every task that can run, timers fire, sockets     *)
(* drain.  Nothing is assumed of the browser.                              *)
DaemonFairness ==
  /\ \A c \in Conns :
       /\ WF_vars(ReadRequest(c) \/ ReadReply(c) \/ ReadJunk(c))
       /\ WF_vars(ReaderEnds(c))
       /\ WF_vars(Unregister(c))
       /\ WF_vars(AbortWriter(c))
       /\ WF_vars(WriterSends(c) \/ WriterLoses(c) \/ WriterFails(c))
  /\ WF_vars(\E reply \in arrived : DeliverReply(reply))
  /\ WF_vars(\E d \in delivering : CompleteReply(d))
  /\ \A h \in Calls : WF_vars(Fetch(h) \/ Respond(h)) /\ WF_vars(FetchEnds(h))

FairSpec ==
  Spec /\ DaemonFairness /\ \A h \in Calls : WF_vars(FetchTimesOut(h))

(* The good case: a browser that stays, answers everything it is asked     *)
(* once, and does so within the 30 s, so that no timer fires.              *)
PromptBrowser ==
  \E c \in Conns :
    \/ Connect(c)
    \/ \E h \in Calls : BrowserRequests(c, h)
    \/ \E q \in asked, k \in AnswerKinds : BrowserAnswers(c, q, k, FALSE)

PromptNext == Daemon \/ PromptBrowser

PromptSpec ==
  /\ Init /\ [][PromptNext]_vars
  /\ DaemonFairness
  /\ \A h \in Calls :
       WF_vars(\E c \in Conns, q \in asked, k \in AnswerKinds :
                 q.call = h /\ BrowserAnswers(c, q, k, FALSE))

-----------------------------------------------------------------------------
(* What a fetch returns is the answer to the request it sent, whichever    *)
(* connection the answer came over and whatever happened to the one the    *)
(* request went out on (server.rs:179-197, mod.rs:164-176, 214-277).       *)
OwnAnswer ==
  \A h \in Calls : channel[h] # NoReply => channel[h].body = h

(* The registered sink never belongs to a connection whose teardown has    *)
(* passed unregister_sink: fetches are not sent into the void              *)
(* (server.rs:71, 82-89).                                                  *)
NoDanglingSink ==
  sink # NoConn => stage[sink] \in {"reading", "unregistering", "panicked"}

(* While every connection ever made is up and reading, a fetch that waits  *)
(* is still on its way: its request or its reply is in a queue, with the   *)
(* browser, or in the hands of a task.  Nothing is lost but by a broken    *)
(* link (server.rs:71-132, 179-197).  A second client that registers does  *)
(* not break one: what was sent over the first's sink stays pending and on *)
(* its way (mod.rs:128-135), although the comment at mod.rs:126-127 says   *)
(* that it is dropped.                                                     *)
AllUp == \A c \in Conns : stage[c] = "absent" \/ (stage[c] = "reading" /\ c \in link)
HoldsFetch(queue, id) ==
  \E i \in DOMAIN queue : queue[i].type = "fetch" /\ queue[i].id = id
HoldsReply(queue, id) ==
  \E i \in DOMAIN queue : queue[i].type = "reply" /\ queue[i].reply.id = id
InFlight(h) ==
  \/ \E c \in open : HoldsFetch(outbox[c], rid[h])
  \/ \E c \in Conns : HoldsReply(inbound[c], rid[h])
  \/ \E q \in asked : q.id = rid[h]
  \/ \E reply \in arrived : reply.id = rid[h]
  \/ \E d \in delivering : d.call = h
NothingLost ==
  AllUp => \A h \in Calls :
             phase[h] = "waiting" /\ channel[h] = NoReply => InFlight(h)

(* The handler of every request the daemon has read ends, whatever the     *)
(* browser does: none waits for ever on a fetch (server.rs:162-178,        *)
(* mod.rs:253-276).                                                        *)
EveryRequestEnds ==
  \A h \in Calls : (task[h] = "running") ~> (task[h] \in {"responded", "panicked"})

(* With a browser that stays and answers, every request read is served     *)
(* without any timer: replies are read while handlers run, the host_fetch  *)
(* deadlock of the comment at server.rs:108-120 does not happen.  That     *)
(* goes for a request whose fetch went to a client that a second one       *)
(* displaces as well: register_sink leaves the call pending, and its reply *)
(* is taken over either link (mod.rs:128-135, 164-176; the comment at      *)
(* mod.rs:126-127 has it time out).                                        *)
ServedWithoutTimers ==
  \A h \in Calls : (task[h] = "running") ~> (h \in served)

(* The server uses host_rpc as HostRpc allows, so what is proved of        *)
(* HostRpc holds here.                                                     *)
UsesHostRpc == Rpc!Spec

(* What the comment on register_sink says (mod.rs:124-126): "if a second   *)
(* client connects while the first is still around, the second wins", so a *)
(* registered client that is still reading is displaced by a newer client  *)
(* only.                                                                   *)
SecondClientWins ==
  [][\A c \in Conns : sink = c /\ stage[c] = "reading" => sink' # NoConn]_vars
=============================================================================
