------------------------------- MODULE Daemon -------------------------------
(***************************************************************************)
(* The daemon's start-up and the requests that use its agent:              *)
(* daemon/src/main.rs, daemon/src/daemon.rs and daemon/src/agent.rs, with  *)
(* the engine of daemon/src/agent/inference.rs behind its mutex.           *)
(*                                                                         *)
(* Every request is a task.  Searches, summaries and status reports read   *)
(* the agent, swap_adapter writes it, through a tokio RwLock that serves   *)
(* its queue in order.  A search leaves the lock only when it is answered: *)
(* it plans on a blocking thread that holds the engine's std mutex, runs   *)
(* its tools, and joins on such a thread again.  Tasks are used over and   *)
(* over.  What the tools and the models return is left open.               *)
(***************************************************************************)
EXTENDS Naturals, Sequences, FiniteSets

CONSTANTS
  Tasks,
  NoTask,     \* nobody holds the engine
  Names       \* adapters a client may ask for

Known == {"search", "content"}

ASSUME NoTaskAssumption == NoTask \notin Tasks
ASSUME NamesAssumption == Known \subseteq Names /\ "none" \notin Names

VARIABLES
  boot,       \* what main has still to do, or "serving", "exited"
  loaded,     \* AgentState::Loaded
  adapter,    \* the name it carries
  queue,      \* tasks that wait for Daemon.agent, first come first served
  holding,    \* tasks that hold it
  engine,     \* the task that holds the engine's mutex
  poisoned,   \* a thread panicked with the engine in its hands
  at,         \* at[j]: where task j stands
  kind,       \* kind[j]: its request's method
  name,       \* name[j]: the adapter it asks for
  seen        \* seen[j]: the adapter it found: what a status reports, and a
              \* ghost for a search

agentVars == <<loaded, adapter>>
lockVars == <<queue, holding>>
engineVars == <<engine, poisoned>>
taskVars == <<at, kind, name, seen>>
vars == <<boot, agentVars, lockVars, engineVars, taskVars>>

Kinds == {"search", "summarize", "get_status", "swap_adapter"}
Places == {"idle", "queued", "entered", "toPlan", "planning", "executing",
           "toJoin", "joining", "reporting"}
Booting == {"config", "security", "agent", "blobs", "den", "bind"}
Adapters == Known \cup {"none"}

TypeOK ==
  /\ boot \in Booting \cup {"serving", "exited"}
  /\ loaded \in BOOLEAN
  /\ adapter \in Known
  /\ queue \in Seq(Tasks)
  /\ holding \subseteq Tasks
  /\ engine \in Tasks \cup {NoTask}
  /\ poisoned \in BOOLEAN
  /\ at \in [Tasks -> Places]
  /\ kind \in [Tasks -> Kinds]
  /\ name \in [Tasks -> Names]
  /\ seen \in [Tasks -> Adapters]

Init ==
  /\ boot = "config"
  /\ loaded = FALSE
  /\ adapter = "search"
  /\ queue = <<>>
  /\ holding = {}
  /\ engine = NoTask
  /\ poisoned = FALSE
  /\ at = [j \in Tasks |-> "idle"]
  /\ kind = [j \in Tasks |-> "search"]
  /\ name = [j \in Tasks |-> "search"]
  /\ seen = [j \in Tasks |-> "none"]

-----------------------------------------------------------------------------
(* main: a configuration or a den that does not load, or a port that is    *)
(* taken, ends the process; a model or a store that does not load leaves   *)
(* its slot empty for good.                                                *)
LoadConfig ==
  /\ boot = "config"
  /\ boot' \in {"security", "exited"}
  /\ UNCHANGED <<agentVars, lockVars, engineVars, taskVars>>

LoadSecurity ==
  /\ boot = "security"
  /\ boot' = "agent"
  /\ UNCHANGED <<agentVars, lockVars, engineVars, taskVars>>

(* Agent::load.                                                            *)
LoadAgent ==
  /\ boot = "agent"
  /\ boot' = "blobs"
  /\ loaded' \in BOOLEAN
  /\ adapter' = "search"
  /\ UNCHANGED <<lockVars, engineVars, taskVars>>

ConnectBlobs ==
  /\ boot = "blobs"
  /\ boot' = "den"
  /\ UNCHANGED <<agentVars, lockVars, engineVars, taskVars>>

LoadDen ==
  /\ boot = "den"
  /\ boot' \in {"bind", "exited"}
  /\ UNCHANGED <<agentVars, lockVars, engineVars, taskVars>>

Serve ==
  /\ boot = "bind"
  /\ boot' \in {"serving", "exited"}
  /\ UNCHANGED <<agentVars, lockVars, engineVars, taskVars>>

(* The process is killed, or is started again after it gave up.            *)
Restart ==
  /\ boot \in {"serving", "exited"}
  /\ boot' = "config"
  /\ loaded' = FALSE
  /\ queue' = <<>>
  /\ holding' = {}
  /\ engine' = NoTask
  /\ poisoned' = FALSE
  /\ at' = [j \in Tasks |-> "idle"]
  /\ kind' = [j \in Tasks |-> "search"]
  /\ name' = [j \in Tasks |-> "search"]
  /\ seen' = [j \in Tasks |-> "none"]
  /\ UNCHANGED adapter

-----------------------------------------------------------------------------
Go(j, place) == at' = [at EXCEPT ![j] = place]

(* A request is read and its parameters decode; one that does not parse is *)
(* answered at once and touches nothing.                                   *)
Arrive(j, k, n) ==
  /\ boot = "serving"
  /\ at[j] = "idle"
  /\ k # "swap_adapter" => n = "search"
  /\ Go(j, "queued")
  /\ kind' = [kind EXCEPT ![j] = k]
  /\ name' = [name EXCEPT ![j] = n]
  /\ queue' = Append(queue, j)
  /\ UNCHANGED <<boot, agentVars, holding, engineVars, seen>>

Writes(j) == kind[j] = "swap_adapter"

(* Mutated Compatible: swap_adapter takes the lock for reading.            *)
CompatibleShared(j) == TRUE

(* The lock's rule: readers together, a writer alone.                      *)
Compatible(j) ==
  IF Writes(j) THEN holding = {} ELSE \A i \in holding : ~Writes(i)

(* Mutated Enter: a reader overtakes a writer that waits.                  *)
EnterPast(j) ==
  /\ at[j] = "queued"
  /\ Writes(j) => Head(queue) = j
  /\ Compatible(j)
  /\ queue' = SelectSeq(queue, LAMBDA i : i # j)
  /\ holding' = holding \cup {j}
  /\ Go(j, "entered")
  /\ UNCHANGED <<boot, agentVars, engineVars, kind, name, seen>>

Enter(j) ==
  /\ queue # <<>>
  /\ Head(queue) = j
  /\ Compatible(j)
  /\ queue' = Tail(queue)
  /\ holding' = holding \cup {j}
  /\ Go(j, "entered")
  /\ UNCHANGED <<boot, agentVars, engineVars, kind, name, seen>>

(* The answer is made and the guard dropped; or the task panicked, which   *)
(* drops the guard as well.                                                *)
Leave(j) ==
  /\ holding' = holding \ {j}
  /\ Go(j, "idle")
  /\ kind' = [kind EXCEPT ![j] = "search"]
  /\ name' = [name EXCEPT ![j] = "search"]
  /\ seen' = [seen EXCEPT ![j] = "none"]
  /\ UNCHANGED <<boot, queue>>

(* Mutated SwapAdapter: the arm for unknown names is gone.                 *)
SwapAnything(j) ==
  /\ at[j] = "entered" /\ kind[j] = "swap_adapter"
  /\ adapter' = IF loaded THEN name[j] ELSE adapter
  /\ Leave(j)
  /\ UNCHANGED <<loaded, engineVars>>

(* handle_swap_adapter: a name that is known is recorded, in an agent that *)
(* is loaded; nothing else happens to the engine.                          *)
SwapAdapter(j) ==
  /\ at[j] = "entered" /\ kind[j] = "swap_adapter"
  /\ adapter' = IF loaded /\ name[j] \in Known THEN name[j] ELSE adapter
  /\ Leave(j)
  /\ UNCHANGED <<loaded, engineVars>>

(* handle_summarize: a stub that needs a loaded agent.                     *)
Summarize(j) ==
  /\ at[j] = "entered" /\ kind[j] = "summarize"
  /\ Leave(j)
  /\ UNCHANGED <<agentVars, engineVars>>

CurrentAdapter == IF loaded THEN adapter ELSE "none"

(* Mutated ReadStatus: the guard is a temporary, dropped before the wait.  *)
ReadStatusUnlocked(j) ==
  /\ at[j] = "entered" /\ kind[j] = "get_status"
  /\ seen' = [seen EXCEPT ![j] = CurrentAdapter]
  /\ holding' = holding \ {j}
  /\ Go(j, "reporting")
  /\ UNCHANGED <<boot, agentVars, queue, engineVars, kind, name>>

(* handle_status reads all but the den, then waits for the den's mutex     *)
(* with the agent still locked.                                            *)
ReadStatus(j) ==
  /\ at[j] = "entered" /\ kind[j] = "get_status"
  /\ seen' = [seen EXCEPT ![j] = CurrentAdapter]
  /\ Go(j, "reporting")
  /\ UNCHANGED <<boot, agentVars, lockVars, engineVars, kind, name>>

Report(j) ==
  /\ at[j] = "reporting"
  /\ Leave(j)
  /\ UNCHANGED <<agentVars, engineVars>>

-----------------------------------------------------------------------------
(* Agent::hunt.                                                            *)
BeginHunt(j) ==
  /\ at[j] = "entered" /\ kind[j] = "search"
  /\ loaded
  /\ seen' = [seen EXCEPT ![j] = CurrentAdapter]
  /\ Go(j, "toPlan")
  /\ UNCHANGED <<boot, agentVars, lockVars, engineVars, kind, name>>

(* require_loaded fails.                                                   *)
RefuseHunt(j) ==
  /\ at[j] = "entered" /\ kind[j] = "search"
  /\ ~loaded
  /\ Leave(j)
  /\ UNCHANGED <<agentVars, engineVars>>

Inferring == {"planning", "joining"}
Turn(place) == IF place = "toPlan" THEN "planning" ELSE "joining"

(* Mutated TakeEngine: lock() with the poison ignored.                     *)
TakeEngineAnyway(j) ==
  /\ at[j] \in {"toPlan", "toJoin"}
  /\ engine = NoTask
  /\ engine' = j
  /\ Go(j, Turn(at[j]))
  /\ UNCHANGED <<boot, agentVars, lockVars, poisoned, kind, name, seen>>

(* A blocking thread gets the engine's mutex.                              *)
TakeEngine(j) ==
  /\ at[j] \in {"toPlan", "toJoin"}
  /\ engine = NoTask
  /\ ~poisoned
  /\ engine' = j
  /\ Go(j, Turn(at[j]))
  /\ UNCHANGED <<boot, agentVars, lockVars, poisoned, kind, name, seen>>

(* lock() returns the poison, which the search is answered with.           *)
FindPoison(j) ==
  /\ at[j] \in {"toPlan", "toJoin"}
  /\ engine = NoTask
  /\ poisoned
  /\ Leave(j)
  /\ UNCHANGED <<agentVars, engineVars>>

(* The planner has generated a plan that parses.                           *)
Plan(j) ==
  /\ at[j] = "planning"
  /\ engine' = NoTask
  /\ Go(j, "executing")
  /\ UNCHANGED <<boot, agentVars, lockVars, poisoned, kind, name, seen>>

(* execute_plan has run every step.                                        *)
Execute(j) ==
  /\ at[j] = "executing"
  /\ Go(j, "toJoin")
  /\ UNCHANGED <<boot, agentVars, lockVars, engineVars, kind, name, seen>>

(* A tool panics in the task itself (page text cut inside a character).    *)
ToolPanics(j) ==
  /\ at[j] = "executing"
  /\ Leave(j)
  /\ UNCHANGED <<agentVars, engineVars>>

(* Inference ends the search: the joinner's answer or its wish to replan,  *)
(* which is an error, or an inference that fails in either place.          *)
AnswerHunt(j) ==
  /\ at[j] \in Inferring
  /\ engine' = NoTask
  /\ Leave(j)
  /\ UNCHANGED <<agentVars, poisoned>>

(* build_scratchpad, called with the engine locked, cuts an observation    *)
(* inside a character: the thread panics and poisons the mutex.            *)
JoinnerPanics(j) ==
  /\ at[j] = "joining"
  /\ engine' = NoTask
  /\ poisoned' = TRUE
  /\ Leave(j)
  /\ UNCHANGED <<agentVars>>

-----------------------------------------------------------------------------
Boot == LoadConfig \/ LoadSecurity \/ LoadAgent \/ ConnectBlobs \/ LoadDen \/ Serve

Hunt(j) ==
  \/ BeginHunt(j) \/ RefuseHunt(j)
  \/ TakeEngine(j) \/ FindPoison(j)
  \/ Plan(j) \/ Execute(j) \/ ToolPanics(j)
  \/ AnswerHunt(j) \/ JoinnerPanics(j)

Handler(j) ==
  \/ Enter(j)
  \/ SwapAdapter(j) \/ Summarize(j)
  \/ ReadStatus(j) \/ Report(j)
  \/ Hunt(j)

Next ==
  \/ Boot \/ Restart
  \/ \E j \in Tasks :
       \/ Handler(j)
       \/ \E k \in Kinds, n \in Names : Arrive(j, k, n)

Spec == Init /\ [][Next]_vars

(* Tasks that can run are polled, blocking threads get their turn, tools   *)
(* and inference end.  The std mutex is not fair, so nothing more than     *)
(* weak fairness is assumed of it.                                         *)
FairSpec == Spec /\ \A j \in Tasks : WF_vars(Handler(j))

-----------------------------------------------------------------------------
InHunt == {"toPlan", "planning", "executing", "toJoin", "joining"}

(* The adapter a status reports is still the agent's when the report is    *)
(* made, though the report waits for the den in between; and the agent a   *)
(* hunt began with is the one it joins with, however long its tools take:  *)
(* no swap comes between (daemon.rs:86-91, 201-215, 226-234).              *)
SeenIsCurrent ==
  \A j \in Tasks : at[j] \in InHunt \cup {"reporting"} => seen[j] = CurrentAdapter

(* One inference at a time, and none on an engine a panic left half used:  *)
(* whoever infers holds the mutex, and it is not poisoned                  *)
(* (agent.rs:170-205).                                                     *)
EngineSound ==
  \A j \in Tasks : at[j] \in Inferring => engine = j /\ ~poisoned

(* Nobody waits for the agent forever, whatever searches keep coming: a    *)
(* swap behind long hunts gets its turn, and so does everyone behind the   *)
(* swap.  What needs no engine is also answered (daemon.rs:86, 228).       *)
NoStarvation ==
  \A j \in Tasks :
    /\ (at[j] = "queued") ~> (at[j] # "queued")
    /\ (at[j] # "idle" /\ kind[j] # "search") ~> (at[j] = "idle")
=============================================================================
