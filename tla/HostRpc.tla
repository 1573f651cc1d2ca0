------------------------------- MODULE HostRpc -------------------------------
(***************************************************************************)
(* Daemon -> browser calls: daemon/src/host_rpc/mod.rs.                     *)
(*                                                                         *)
(* One global mutex guards the outbound sink, the table of pending calls   *)
(* and the id counter.  No lock is held across an await, so one critical   *)
(* section is one action; what happens between two sections (the oneshot   *)
(* send after the lock is dropped, the wait for the reply, the timer) is   *)
(* an action of its own.                                                   *)
(*                                                                         *)
(* The module is open: connections come and go, channels die and replies   *)
(* arrive in any order, for any id, any number of times.  Server closes it *)
(* with the connection code that really drives it.                         *)
(***************************************************************************)
EXTENDS Naturals, Functions

CONSTANTS
  Calls,      \* invocations of send_request, each made at most once
  Conns,      \* connections, each owning one outbound mpsc channel
  Bodies,     \* what a reply is about (its payload)
  NoConn,     \* no sink registered
  NoReply     \* an empty oneshot channel

ASSUME NoConnAssumption == NoConn \notin Conns
ASSUME NoReplyAssumption ==
  NoReply \notin [id : Nat \ {0}, kind : {"ok", "error"}, body : Bodies]

VARIABLES
  sink,       \* HostRpcState.sink: the connection whose channel is registered
  open,       \* connections whose channel still has its receiver (out_rx)
  pending,    \* HostRpcState.pending: id -> the call whose oneshot tx it holds
  nextId,     \* HostRpcState.next_id
  phase,      \* phase[f]: where call f stands in send_request
  rid,        \* rid[f]: the id allocated to f, 0 before one is
  channel,    \* channel[f]: what f's oneshot channel holds
  delivering, \* deliver_reply tasks between pending.remove and tx.send
  outcome     \* outcome[f]: how f ended

tableVars == <<sink, open, pending, nextId>>
callVars == <<phase, rid, channel, delivering, outcome>>
vars == <<sink, open, pending, nextId, phase, rid, channel, delivering, outcome>>

(* "error" stands for an error reply and for a result that does not        *)
(* decode: fetch turns both into LupusError::HostFetch.                    *)
ReplyKinds == {"ok", "error"}
Replies == [id : Nat \ {0}, kind : ReplyKinds, body : Bodies]
Deliveries == [call : Calls, reply : Replies]

Phases == {"idle", "waiting", "cleaning", "done"}
Outcomes == {"none", "no_sink", "dead_sink", "ok", "error", "timed_out"}

TypeOK ==
  /\ sink \in Conns \cup {NoConn}
  /\ open \subseteq Conns
  /\ DOMAIN pending \subseteq Nat \ {0}
  /\ pending \in [DOMAIN pending -> Calls]
  /\ nextId \in Nat \ {0}
  /\ phase \in [Calls -> Phases]
  /\ rid \in [Calls -> Nat]
  /\ channel \in [Calls -> Replies \cup {NoReply}]
  /\ delivering \subseteq Deliveries
  /\ outcome \in [Calls -> Outcomes]

(***************************************************************************)
(* HashMap::insert and HashMap::remove.                                    *)
(***************************************************************************)
With(table, id, f) ==
  [i \in DOMAIN table \cup {id} |-> IF i = id THEN f ELSE table[i]]
Without(table, id) == Restrict(table, DOMAIN table \ {id})

(* Mutated Init: #[derive(Default)] instead of the hand-written impl.      *)
InitDerived ==
  /\ sink = NoConn
  /\ open = {}
  /\ pending = [i \in {} |-> 0]
  /\ nextId = 0
  /\ phase = [f \in Calls |-> "idle"]
  /\ rid = [f \in Calls |-> 0]
  /\ channel = [f \in Calls |-> NoReply]
  /\ delivering = {}
  /\ outcome = [f \in Calls |-> "none"]

Init ==
  /\ sink = NoConn
  /\ open = {}
  /\ pending = [i \in {} |-> 0]
  /\ nextId = 1
  /\ phase = [f \in Calls |-> "idle"]
  /\ rid = [f \in Calls |-> 0]
  /\ channel = [f \in Calls |-> NoReply]
  /\ delivering = {}
  /\ outcome = [f \in Calls |-> "none"]

Finish(f, o) ==
  /\ phase' = [phase EXCEPT ![f] = "done"]
  /\ outcome' = [outcome EXCEPT ![f] = o]

-----------------------------------------------------------------------------
(* Mutated RegisterSink: a fresh table for every browser.                  *)
RegisterSinkClearing(c) ==
  /\ c \notin open
  /\ open' = open \cup {c}
  /\ sink' = c
  /\ pending' = [i \in {} |-> 0]
  /\ UNCHANGED nextId
  /\ UNCHANGED callVars

(* Mutated RegisterSink: ids start over with every browser.                *)
RegisterSinkAfresh(c) ==
  /\ c \notin open
  /\ open' = open \cup {c}
  /\ sink' = c
  /\ nextId' = 1
  /\ UNCHANGED pending
  /\ UNCHANGED callVars

(* register_sink: a new connection's channel replaces whatever is there.   *)
RegisterSink(c) ==
  /\ c \notin open
  /\ open' = open \cup {c}
  /\ sink' = c
  /\ UNCHANGED <<pending, nextId>>
  /\ UNCHANGED callVars

(* unregister_sink: the slot is emptied whoever is in it; calls in flight  *)
(* stay in the table.                                                      *)
UnregisterSink ==
  /\ sink' = NoConn
  /\ UNCHANGED <<open, pending, nextId>>
  /\ UNCHANGED callVars

(* The writer task that owns out_rx ends: sends to the channel now fail.   *)
DropReceiver(c) ==
  /\ c \in open
  /\ open' = open \ {c}
  /\ UNCHANGED <<sink, pending, nextId>>
  /\ UNCHANGED callVars

-----------------------------------------------------------------------------
(* send_request, first critical section, three ways out of it.             *)
SendNoSink(f) ==
  /\ phase[f] = "idle"
  /\ sink = NoConn
  /\ Finish(f, "no_sink")
  /\ UNCHANGED <<rid, channel, delivering>>
  /\ UNCHANGED tableVars

(* The writer is gone: the entry just inserted is taken out again, the id  *)
(* stays used.                                                             *)
SendDeadSink(f) ==
  /\ phase[f] = "idle"
  /\ sink # NoConn
  /\ sink \notin open
  /\ nextId' = nextId + 1
  /\ rid' = [rid EXCEPT ![f] = nextId]
  /\ pending' = Without(With(pending, nextId, f), nextId)
  /\ Finish(f, "dead_sink")
  /\ UNCHANGED <<sink, open, channel, delivering>>

SendQueued(f) ==
  /\ phase[f] = "idle"
  /\ sink \in open
  /\ nextId' = nextId + 1
  /\ rid' = [rid EXCEPT ![f] = nextId]
  /\ pending' = With(pending, nextId, f)
  /\ phase' = [phase EXCEPT ![f] = "waiting"]
  /\ UNCHANGED <<sink, open, channel, delivering, outcome>>

(* timeout(30 s, rx): the reply is polled before the timer, so the timer   *)
(* wins only on an empty channel; rx is dropped as the await ends.         *)
Receive(f) ==
  /\ phase[f] = "waiting"
  /\ channel[f] # NoReply
  /\ Finish(f, channel[f].kind)
  /\ UNCHANGED <<rid, channel, delivering>>
  /\ UNCHANGED tableVars

(* Mutated Elapse: the timer is polled first.                              *)
ElapseFirst(f) ==
  /\ phase[f] = "waiting"
  /\ phase' = [phase EXCEPT ![f] = "cleaning"]
  /\ UNCHANGED <<rid, channel, delivering, outcome>>
  /\ UNCHANGED tableVars

(* Mutated Elapse: rx.await without a timeout.                             *)
ElapseNever(f) == FALSE /\ UNCHANGED vars

Elapse(f) ==
  /\ phase[f] = "waiting"
  /\ channel[f] = NoReply
  /\ phase' = [phase EXCEPT ![f] = "cleaning"]
  /\ UNCHANGED <<rid, channel, delivering, outcome>>
  /\ UNCHANGED tableVars

(* Mutated CleanUp: the timed-out entry stays in the table.                *)
CleanUpLeaking(f) ==
  /\ phase[f] = "cleaning"
  /\ Finish(f, "timed_out")
  /\ UNCHANGED <<rid, channel, delivering>>
  /\ UNCHANGED tableVars

(* The second critical section, after the timer fired.                     *)
CleanUp(f) ==
  /\ phase[f] = "cleaning"
  /\ pending' = Without(pending, rid[f])
  /\ Finish(f, "timed_out")
  /\ UNCHANGED <<sink, open, nextId, rid, channel, delivering>>

-----------------------------------------------------------------------------
(* Mutated DeliverRemove: pending.get where pending.remove is meant.       *)
DeliverRemovePeeking(reply) ==
  /\ reply.id \in DOMAIN pending
  /\ delivering' = delivering \cup {[call |-> pending[reply.id], reply |-> reply]}
  /\ UNCHANGED <<sink, open, pending, nextId, phase, rid, channel, outcome>>

(* deliver_reply, under the lock: the sender leaves the table.  A reply    *)
(* with no entry is an orphan and changes nothing.                         *)
DeliverRemove(reply) ==
  /\ reply.id \in DOMAIN pending
  /\ delivering' = delivering \cup {[call |-> pending[reply.id], reply |-> reply]}
  /\ pending' = Without(pending, reply.id)
  /\ UNCHANGED <<sink, open, nextId, phase, rid, channel, outcome>>

(* deliver_reply, after the lock is dropped: a oneshot send reaches the    *)
(* call only while it still holds its receiver.                            *)
DeliverSend(d) ==
  /\ d \in delivering
  /\ delivering' = delivering \ {d}
  /\ channel' = IF phase[d.call] = "waiting"
                THEN [channel EXCEPT ![d.call] = d.reply]
                ELSE channel
  /\ UNCHANGED <<phase, rid, outcome>>
  /\ UNCHANGED tableVars

-----------------------------------------------------------------------------
CallStep(f) ==
  \/ SendNoSink(f)
  \/ SendDeadSink(f)
  \/ SendQueued(f)
  \/ Receive(f)
  \/ Elapse(f)
  \/ CleanUp(f)

Next ==
  \/ \E c \in Conns : RegisterSink(c) \/ DropReceiver(c)
  \/ UnregisterSink
  \/ \E f \in Calls : CallStep(f)
  \/ \E i \in DOMAIN pending, k \in ReplyKinds, b \in Bodies :
       DeliverRemove([id |-> i, kind |-> k, body |-> b])
  \/ \E d \in delivering : DeliverSend(d)

Spec == Init /\ [][Next]_vars

(* The runtime keeps polling a task that can run, the timer of a pending   *)
(* call fires after 30 s, and tokio's mutex is first come, first served.   *)
(* Nothing is assumed of the browser or of the connections.                *)
Fairness ==
  /\ \A f \in Calls : WF_vars(Receive(f)) /\ WF_vars(Elapse(f)) /\ WF_vars(CleanUp(f))
  /\ WF_vars(\E d \in delivering : DeliverSend(d))

FairSpec == Spec /\ Fairness

-----------------------------------------------------------------------------
(* Every entry of the table belongs to a call that is still in             *)
(* send_request and will remove it, under the id that call was given: no   *)
(* path (reply, timeout, dead sink) leaks an entry, "to prevent the table  *)
(* from leaking" (mod.rs:255).                                             *)
NoLeak ==
  \A i \in DOMAIN pending :
    /\ phase[pending[i]] \in {"waiting", "cleaning"}
    /\ rid[pending[i]] = i

(* A call that waits on an empty channel still has a sender, in the table  *)
(* or in the hands of a deliver_reply task: "reply channel closed          *)
(* unexpectedly" (mod.rs:256-262) cannot be reached, whatever connects,    *)
(* disconnects or is delivered meanwhile.                                  *)
SenderHeld ==
  \A f \in Calls :
    phase[f] = "waiting" /\ channel[f] = NoReply =>
      \/ rid[f] \in DOMAIN pending /\ pending[rid[f]] = f
      \/ \E d \in delivering : d.call = f

(* A call never both times out and is answered: a reply that races the     *)
(* timer is either what the call returns or is dropped by its sender.      *)
NeverBoth ==
  \A f \in Calls :
    phase[f] = "cleaning" \/ outcome[f] = "timed_out" => channel[f] = NoReply

(* Two replies are never on their way to one call, and none is on its way  *)
(* to a call that has been given one: the oneshot is used once.            *)
OneDelivery ==
  \A d \in delivering :
    /\ channel[d.call] = NoReply
    /\ d.reply.id = rid[d.call]
    /\ d.reply.id \notin DOMAIN pending
    /\ \A e \in delivering : e.call = d.call => e = d

(* The counter is ahead of every id handed out, and no id was handed out   *)
(* twice; a call that waits, or holds a reply, has one.                    *)
IdsFresh ==
  /\ \A f \in Calls : rid[f] < nextId
  /\ \A f, g \in Calls : rid[f] = rid[g] /\ rid[f] # 0 => f = g
  /\ \A f \in Calls : phase[f] = "idle" => rid[f] = 0 /\ outcome[f] = "none"
  /\ \A f \in Calls : phase[f] \in {"waiting", "cleaning"} =>
       rid[f] # 0 /\ outcome[f] = "none"
  /\ \A f \in Calls : channel[f] # NoReply => channel[f].id = rid[f]
  /\ \A i \in DOMAIN pending : channel[pending[i]] = NoReply
  /\ \A d \in delivering : phase[d.call] # "idle"
  /\ \A f \in Calls : outcome[f] \in ReplyKinds =>
       channel[f] # NoReply /\ channel[f].kind = outcome[f]

(* What the table, the locks and the channels add up to (FetchPromise):    *)
(* ids are never reused, across reconnects included, and a call ends once, *)
(* with the reply to its own id or with a failure.                         *)
resultBar ==
  [f \in Calls |->
     CASE phase[f] = "idle" -> "none"
       [] phase[f] \in {"waiting", "cleaning"} -> "open"
       [] OTHER -> CASE outcome[f] \in {"no_sink", "dead_sink"} -> "refused"
                     [] outcome[f] = "timed_out" -> "failed"
                     [] OTHER -> outcome[f]]
ticketBar == [f \in Calls |-> IF outcome[f] = "dead_sink" THEN 0 ELSE rid[f]]
stubBar ==
  [f \in Calls |-> IF outcome[f] \in ReplyKinds THEN channel[f].id ELSE 0]

Promise == INSTANCE FetchPromise
             WITH result <- resultBar, ticket <- ticketBar, stub <- stubBar
KeepsPromise == Promise!Spec

(* Every fetch that was sent ends, whatever the browser and the            *)
(* connections do: the 30 s timer stands behind every wait.                *)
EveryFetchEnds ==
  \A f \in Calls : (phase[f] = "waiting") ~> (phase[f] = "done")
=============================================================================
