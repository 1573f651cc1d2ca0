---------------------------- MODULE FetchPromise ----------------------------
(***************************************************************************)
(* What `host_rpc::fetch` promises to the tools that call it, with no      *)
(* table, no lock, no channel and no socket: a fetch is refused at once,   *)
(* or it takes a ticket nobody took before and ends exactly once, with a   *)
(* reply that bears its own ticket or with a failure.  HostRpc implements  *)
(* it under the mapping given there.                                       *)
(***************************************************************************)
EXTENDS Naturals

CONSTANT Calls      \* the invocations of fetch, each made at most once

VARIABLES
  result,     \* result[f]: how far fetch f has come, and how it ended
  ticket,     \* ticket[f]: the ticket the fetch holds, 0 for none
  stub        \* stub[f]: the ticket on the reply it ended with, 0 for none

promiseVars == <<result, ticket, stub>>

Results == {"none", "open", "refused", "failed", "ok", "error"}

PromiseTypeOK ==
  /\ result \in [Calls -> Results]
  /\ ticket \in [Calls -> Nat]
  /\ stub \in [Calls -> Nat]

Init ==
  /\ result = [f \in Calls |-> "none"]
  /\ ticket = [f \in Calls |-> 0]
  /\ stub = [f \in Calls |-> 0]

(* The fetch cannot be sent: nobody is connected.                          *)
Refuse(f) ==
  /\ result[f] = "none"
  /\ result' = [result EXCEPT ![f] = "refused"]
  /\ UNCHANGED <<ticket, stub>>

(* The fetch is sent, under a ticket no other fetch holds or has held.     *)
Issue(f) ==
  /\ result[f] = "none"
  /\ result' = [result EXCEPT ![f] = "open"]
  /\ ticket'[f] \in Nat \ {0}
  /\ \A g \in Calls : ticket[g] # ticket'[f]
  /\ ticket' = [ticket EXCEPT ![f] = ticket'[f]]
  /\ UNCHANGED stub

(* The fetch ends with a reply to its own ticket.                          *)
Answer(f, kind) ==
  /\ result[f] = "open"
  /\ result' = [result EXCEPT ![f] = kind]
  /\ stub' = [stub EXCEPT ![f] = ticket[f]]
  /\ UNCHANGED ticket

(* The fetch ends without a reply.                                         *)
Fail(f) ==
  /\ result[f] = "open"
  /\ result' = [result EXCEPT ![f] = "failed"]
  /\ UNCHANGED <<ticket, stub>>

Next ==
  \E f \in Calls :
    \/ Refuse(f)
    \/ Issue(f)
    \/ \E kind \in {"ok", "error"} : Answer(f, kind)
    \/ Fail(f)

Spec == Init /\ [][Next]_promiseVars
=============================================================================
