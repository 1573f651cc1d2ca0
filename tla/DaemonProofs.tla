---------------------------- MODULE DaemonProofs ----------------------------
(***************************************************************************)
(* Theorems about Daemon, for any number of requests and any names.        *)
(***************************************************************************)
EXTENDS Daemon, SequenceTheorems, TLAPS

Running == InHunt \cup {"entered", "reporting"}

(* Who runs holds the agent, a writer holds it alone, and who waits is in  *)
(* the queue once.                                                         *)
RunningHolds == \A j \in Tasks : at[j] \in Running <=> j \in holding
WriterAlone == \A i, j \in holding : Writes(i) => i = j
QueueWaits ==
  /\ \A i \in DOMAIN queue : at[queue[i]] = "queued"
  /\ \A i, j \in DOMAIN queue : queue[i] = queue[j] => i = j

(* Nothing runs in a daemon that does not serve.                           *)
QuietUntilServed == boot # "serving" => \A j \in Tasks : at[j] = "idle"

IInv ==
  /\ TypeOK /\ RunningHolds /\ WriterAlone /\ QueueWaits /\ QuietUntilServed
  /\ SeenIsCurrent /\ EngineSound

-----------------------------------------------------------------------------
LEMMA InitInv == Init => IInv
<1> SUFFICES ASSUME Init PROVE IInv
  OBVIOUS
<1> USE DEF Init
<1>1. TypeOK
  <2>1. queue \in Seq(Tasks) /\ holding \subseteq Tasks /\ engine \in Tasks \cup {NoTask}
    OBVIOUS
  <2>2. boot \in Booting \cup {"serving", "exited"} /\ loaded \in BOOLEAN /\ poisoned \in BOOLEAN
    BY DEF Booting
  <2>3. at \in [Tasks -> Places] /\ kind \in [Tasks -> Kinds] /\ seen \in [Tasks -> Adapters]
    BY DEF Places, Kinds, Adapters
  <2>4. adapter \in Known /\ name \in [Tasks -> Names]
    BY NamesAssumption DEF Known
  <2> QED  BY <2>1, <2>2, <2>3, <2>4 DEF TypeOK
<1>2. RunningHolds /\ WriterAlone /\ QueueWaits /\ QuietUntilServed
  BY DEF RunningHolds, WriterAlone, QueueWaits, QuietUntilServed, Running, InHunt
<1>3. SeenIsCurrent /\ EngineSound
  BY DEF SeenIsCurrent, EngineSound, InHunt, Inferring
<1> QED  BY <1>1, <1>2, <1>3 DEF IInv

(* Start-up and restarts happen while nothing runs, or end all that does.  *)
LEMMA BootInv == IInv /\ Boot => IInv'
<1> SUFFICES ASSUME IInv, Boot PROVE IInv'
  OBVIOUS
<1> USE DEF IInv
<1>1. /\ boot \in Booting /\ boot' \in Booting \cup {"serving", "exited"}
      /\ loaded' \in BOOLEAN /\ adapter' \in Known
      /\ UNCHANGED <<lockVars, engineVars, taskVars>>
  BY DEF Boot, LoadConfig, LoadSecurity, LoadAgent, ConnectBlobs, LoadDen, Serve, Booting,
     TypeOK, agentVars, Known
<1>2. \A j \in Tasks : at[j] = "idle" /\ at'[j] = "idle"
  BY <1>1 DEF QuietUntilServed, Booting, taskVars
<1>3. TypeOK'
  BY <1>1 DEF TypeOK, lockVars, engineVars, taskVars
<1>4. RunningHolds' /\ WriterAlone' /\ QueueWaits'
  BY <1>1 DEF RunningHolds, WriterAlone, QueueWaits, Writes, lockVars, taskVars
<1>5. QuietUntilServed' /\ SeenIsCurrent' /\ EngineSound'
  BY <1>2 DEF QuietUntilServed, SeenIsCurrent, EngineSound, InHunt, Inferring
<1> QED  BY <1>3, <1>4, <1>5

LEMMA RestartInv == IInv /\ Restart => IInv'
<1> SUFFICES ASSUME IInv, Restart PROVE IInv'
  OBVIOUS
<1> USE DEF IInv, Restart
<1>1. TypeOK'
  <2>1. (queue \in Seq(Tasks) /\ holding \subseteq Tasks /\ engine \in Tasks \cup {NoTask})'
    OBVIOUS
  <2>2. (boot \in Booting \cup {"serving", "exited"} /\ loaded \in BOOLEAN /\ poisoned \in BOOLEAN)'
    BY DEF Booting
  <2>3. (at \in [Tasks -> Places] /\ kind \in [Tasks -> Kinds] /\ seen \in [Tasks -> Adapters])'
    BY DEF Places, Kinds, Adapters
  <2>4. (adapter \in Known /\ name \in [Tasks -> Names])'
    BY NamesAssumption DEF Known, TypeOK
  <2> QED  BY <2>1, <2>2, <2>3, <2>4 DEF TypeOK
<1>2. RunningHolds' /\ WriterAlone' /\ QueueWaits' /\ QuietUntilServed'
  BY DEF RunningHolds, WriterAlone, QueueWaits, QuietUntilServed, Running, InHunt
<1>3. SeenIsCurrent' /\ EngineSound'
  BY DEF SeenIsCurrent, EngineSound, InHunt, Inferring
<1> QED  BY <1>1, <1>2, <1>3

-----------------------------------------------------------------------------
LEMMA ArriveInv ==
  ASSUME NEW j \in Tasks, NEW k \in Kinds, NEW n \in Names, IInv, Arrive(j, k, n)
  PROVE  IInv'
<1> USE DEF IInv, Arrive, Go, agentVars, engineVars
<1>0. /\ at \in [Tasks -> Places] /\ kind \in [Tasks -> Kinds] /\ queue \in Seq(Tasks)
      /\ holding \subseteq Tasks /\ at[j] = "idle"
  BY DEF TypeOK
<1>1. TypeOK'
  BY <1>0 DEF TypeOK, Places
<1>2. \A i \in Tasks \ {j} : at'[i] = at[i] /\ kind'[i] = kind[i]
  BY <1>0
<1>3. at'[j] = "queued" /\ j \notin holding
  BY <1>0 DEF RunningHolds, Running, InHunt
<1>4. RunningHolds'
  BY <1>2, <1>3 DEF RunningHolds, Running, InHunt
<1>5. WriterAlone'
  BY <1>0, <1>2, <1>3 DEF WriterAlone, Writes
<1>6. QueueWaits'
  <2>1. \A i \in DOMAIN queue : queue[i] \in Tasks \ {j}
    BY <1>0 DEF QueueWaits
  <2>2. DOMAIN queue' = DOMAIN queue \cup {Len(queue) + 1} /\ queue'[Len(queue) + 1] = j
    BY <1>0
  <2>3. \A i \in DOMAIN queue : queue'[i] = queue[i]
    BY <1>0
  <2> QED  BY <2>1, <2>2, <2>3, <1>2, <1>3 DEF QueueWaits
<1>7. QuietUntilServed' /\ SeenIsCurrent' /\ EngineSound'
  BY <1>2, <1>3 DEF QuietUntilServed, SeenIsCurrent, EngineSound, InHunt, Inferring, CurrentAdapter
<1> QED  BY <1>1, <1>4, <1>5, <1>6, <1>7

LEMMA EnterInv == ASSUME NEW j \in Tasks, IInv, Enter(j) PROVE IInv'
<1> USE DEF IInv, Enter, Go, agentVars, engineVars
<1>0. /\ at \in [Tasks -> Places] /\ queue \in Seq(Tasks) /\ queue # <<>> /\ queue[1] = j
      /\ holding \subseteq Tasks
  BY DEF TypeOK
<1>1. at[j] = "queued" /\ j \notin holding /\ at'[j] = "entered"
  BY <1>0 DEF QueueWaits, RunningHolds, Running, InHunt
<1>2. TypeOK'
  BY <1>0 DEF TypeOK, Places
<1>3. \A i \in Tasks \ {j} : at'[i] = at[i]
  BY <1>0
<1>4. RunningHolds'
  BY <1>1, <1>3 DEF RunningHolds, Running
<1>5. WriterAlone'
  BY <1>1 DEF WriterAlone, Compatible, Writes
<1>6. QueueWaits'
  <2>1. \A i \in DOMAIN queue' :
          i \in Nat /\ i >= 1 /\ i + 1 \in DOMAIN queue /\ queue'[i] = queue[i + 1] /\ i + 1 # 1
    BY <1>0
  <2>2. \A i \in DOMAIN queue' : queue'[i] # j /\ queue'[i] \in Tasks
    BY <2>1, <1>0 DEF QueueWaits
  <2>3. \A i \in DOMAIN queue' : at'[queue'[i]] = "queued"
    BY <2>1, <2>2, <1>3 DEF QueueWaits
  <2>4. \A i, k \in DOMAIN queue' : queue'[i] = queue'[k] => i = k
    <3>1. SUFFICES ASSUME NEW i \in DOMAIN queue', NEW k \in DOMAIN queue', queue'[i] = queue'[k]
                   PROVE  i = k
      OBVIOUS
    <3>2. queue[i + 1] = queue[k + 1] /\ i + 1 \in DOMAIN queue /\ k + 1 \in DOMAIN queue
      BY <2>1, <3>1
    <3>3. i + 1 = k + 1
      BY <3>2 DEF QueueWaits
    <3> QED  BY <3>3, <2>1
  <2> QED  BY <2>3, <2>4 DEF QueueWaits
<1>7. QuietUntilServed' /\ SeenIsCurrent' /\ EngineSound'
  BY <1>1, <1>3 DEF QuietUntilServed, SeenIsCurrent, EngineSound, InHunt, Inferring, CurrentAdapter
<1> QED  BY <1>2, <1>4, <1>5, <1>6, <1>7

(* A running request is done: what it gives up is its own.                 *)
LEMMA LeaveInv ==
  ASSUME NEW j \in Tasks, IInv, at[j] \in Running, Leave(j),
         UNCHANGED loaded, adapter' \in Known,
         adapter' = adapter \/ holding = {j},
         \/ UNCHANGED engineVars
         \/ at[j] \in Inferring /\ engine' = NoTask /\ poisoned' \in BOOLEAN
  PROVE  IInv'
<1> USE DEF IInv, Leave, Go
<1>0. /\ at \in [Tasks -> Places] /\ kind \in [Tasks -> Kinds] /\ name \in [Tasks -> Names]
      /\ seen \in [Tasks -> Adapters] /\ queue \in Seq(Tasks) /\ holding \subseteq Tasks
  BY DEF TypeOK
<1>1. TypeOK'
  <2>1. "search" \in Names /\ "search" \in Kinds /\ "none" \in Adapters /\ "idle" \in Places
    BY NamesAssumption DEF Known, Kinds, Adapters, Places
  <2> QED  BY <1>0, <2>1 DEF TypeOK, engineVars
<1>2. \A i \in Tasks \ {j} : at'[i] = at[i] /\ kind'[i] = kind[i] /\ seen'[i] = seen[i]
  BY <1>0
<1>3. at'[j] = "idle" /\ at[j] \notin {"idle", "queued"} /\ boot = "serving"
  BY <1>0 DEF Running, InHunt, QuietUntilServed
<1>4. RunningHolds'
  BY <1>2, <1>3 DEF RunningHolds, Running, InHunt
<1>5. WriterAlone'
  BY <1>0, <1>2 DEF WriterAlone, Writes
<1>6. QueueWaits'
  BY <1>0, <1>2, <1>3 DEF QueueWaits
<1>7. QuietUntilServed'
  BY <1>3 DEF QuietUntilServed
<1>8. SeenIsCurrent'
  BY <1>2, <1>3 DEF SeenIsCurrent, CurrentAdapter, RunningHolds, Running, InHunt
<1>9. EngineSound'
  BY <1>2, <1>3 DEF EngineSound, Inferring, engineVars
<1> QED  BY <1>1, <1>4, <1>5, <1>6, <1>7, <1>8, <1>9

(* A running request goes on, to a place where what it found is current    *)
(* and, if it infers there, the engine is its own.                         *)
LEMMA MoveInv ==
  ASSUME NEW j \in Tasks, NEW place \in Running, IInv, at[j] \in Running, Go(j, place),
         UNCHANGED <<boot, agentVars, lockVars, poisoned, kind, name>>,
         \/ UNCHANGED seen /\ at[j] \in InHunt \cup {"reporting"}
         \/ seen' = [seen EXCEPT ![j] = CurrentAdapter],
         \/ UNCHANGED engine /\ place \notin Inferring
         \/ engine = NoTask /\ engine' = j /\ ~poisoned
         \/ at[j] \in Inferring /\ engine' = NoTask /\ place \notin Inferring
  PROVE  IInv'
<1> USE DEF IInv, Go, agentVars, lockVars
<1>0. /\ at \in [Tasks -> Places] /\ seen \in [Tasks -> Adapters] /\ queue \in Seq(Tasks)
      /\ CurrentAdapter \in Adapters
  BY DEF TypeOK, CurrentAdapter, Adapters
<1>1. TypeOK'
  <2>1. Running \subseteq Places
    BY DEF Running, InHunt, Places
  <2> QED  BY <1>0, <2>1 DEF TypeOK
<1>2. \A i \in Tasks \ {j} : at'[i] = at[i] /\ seen'[i] = seen[i]
  BY <1>0
<1>3. at'[j] = place /\ at[j] \notin {"idle", "queued"} /\ boot = "serving"
  BY <1>0 DEF Running, InHunt, QuietUntilServed
<1>4. RunningHolds' /\ WriterAlone'
  BY <1>2, <1>3 DEF RunningHolds, WriterAlone, Writes
<1>5. QueueWaits'
  BY <1>0, <1>2, <1>3 DEF QueueWaits
<1>6. QuietUntilServed'
  BY <1>3 DEF QuietUntilServed
<1>7. SeenIsCurrent'
  <2>1. seen'[j] = CurrentAdapter
    BY <1>0 DEF SeenIsCurrent
  <2> QED  BY <1>2, <2>1 DEF SeenIsCurrent, CurrentAdapter
<1>8. EngineSound'
  BY <1>2, <1>3, NoTaskAssumption DEF EngineSound
<1> QED  BY <1>1, <1>4, <1>5, <1>6, <1>7, <1>8

-----------------------------------------------------------------------------
LEMMA SwapAdapterInv == ASSUME NEW j \in Tasks, IInv, SwapAdapter(j) PROVE IInv'
<1>1. at[j] \in Running /\ j \in holding /\ Writes(j)
  BY DEF SwapAdapter, IInv, Running, RunningHolds, Writes
<1>2. holding = {j}
  BY <1>1 DEF IInv, WriterAlone
<1>3. adapter' \in Known
  BY DEF SwapAdapter, IInv, TypeOK
<1> QED  BY <1>1, <1>2, <1>3, LeaveInv DEF SwapAdapter

(* The other ways out change the agent in nothing.                         *)
LEMMA LeavingInv ==
  ASSUME NEW j \in Tasks, IInv,
         \/ Summarize(j) \/ Report(j) \/ RefuseHunt(j) \/ FindPoison(j)
         \/ ToolPanics(j) \/ AnswerHunt(j) \/ JoinnerPanics(j)
  PROVE  IInv'
<1>1. at[j] \in Running /\ Leave(j) /\ UNCHANGED agentVars
  BY DEF Summarize, Report, RefuseHunt, FindPoison, ToolPanics, AnswerHunt, JoinnerPanics,
     Running, InHunt, Inferring
<1>2. \/ UNCHANGED engineVars
      \/ at[j] \in Inferring /\ engine' = NoTask /\ poisoned' \in BOOLEAN
  BY DEF Summarize, Report, RefuseHunt, FindPoison, ToolPanics, AnswerHunt, JoinnerPanics,
     Inferring, IInv, TypeOK, engineVars
<1>3. adapter' = adapter /\ adapter' \in Known /\ UNCHANGED loaded
  BY <1>1 DEF IInv, TypeOK, agentVars
<1> QED  BY <1>1, <1>2, <1>3, LeaveInv

LEMMA ReadStatusInv == ASSUME NEW j \in Tasks, IInv, ReadStatus(j) PROVE IInv'
<1>1. "reporting" \in Running /\ at[j] \in Running /\ "reporting" \notin Inferring
  BY DEF ReadStatus, Running, Inferring
<1> QED  BY <1>1, MoveInv DEF ReadStatus, engineVars

LEMMA BeginHuntInv == ASSUME NEW j \in Tasks, IInv, BeginHunt(j) PROVE IInv'
<1>1. "toPlan" \in Running /\ at[j] \in Running /\ "toPlan" \notin Inferring
  BY DEF BeginHunt, Running, InHunt, Inferring
<1> QED  BY <1>1, MoveInv DEF BeginHunt, engineVars

LEMMA TakeEngineInv == ASSUME NEW j \in Tasks, IInv, TakeEngine(j) PROVE IInv'
<1>1. Turn(at[j]) \in Running /\ at[j] \in Running /\ at[j] \in InHunt
  BY DEF TakeEngine, Turn, Running, InHunt
<1> QED  BY <1>1, MoveInv DEF TakeEngine

LEMMA PlanInv == ASSUME NEW j \in Tasks, IInv, Plan(j) PROVE IInv'
<1>1. /\ "executing" \in Running /\ "executing" \notin Inferring
      /\ at[j] \in Running /\ at[j] \in InHunt /\ at[j] \in Inferring
  BY DEF Plan, Running, InHunt, Inferring
<1> QED  BY <1>1, MoveInv DEF Plan

LEMMA ExecuteInv == ASSUME NEW j \in Tasks, IInv, Execute(j) PROVE IInv'
<1>1. "toJoin" \in Running /\ "toJoin" \notin Inferring /\ at[j] \in Running /\ at[j] \in InHunt
  BY DEF Execute, Running, InHunt, Inferring
<1> QED  BY <1>1, MoveInv DEF Execute, engineVars

LEMMA NextInv == IInv /\ [Next]_vars => IInv'
<1> SUFFICES ASSUME IInv, [Next]_vars PROVE IInv'
  OBVIOUS
<1>1. CASE Boot
  BY <1>1, BootInv
<1>2. CASE Restart
  BY <1>2, RestartInv
<1>3. ASSUME NEW j \in Tasks, Handler(j) PROVE IInv'
  BY <1>3, EnterInv, SwapAdapterInv, LeavingInv, ReadStatusInv, BeginHuntInv, TakeEngineInv,
     PlanInv, ExecuteInv DEF Handler, Hunt
<1>4. ASSUME NEW j \in Tasks, NEW k \in Kinds, NEW n \in Names, Arrive(j, k, n) PROVE IInv'
  BY <1>4, ArriveInv
<1>5. CASE UNCHANGED vars
  BY <1>5 DEF vars, agentVars, lockVars, engineVars, taskVars, IInv, TypeOK, RunningHolds,
     WriterAlone, Writes, QueueWaits, QuietUntilServed, SeenIsCurrent, CurrentAdapter, EngineSound
<1> QED  BY <1>1, <1>2, <1>3, <1>4, <1>5 DEF Next

(* The types of the daemon's state: among them that the agent's adapter is *)
(* always one that is known, whatever names clients ask for                *)
(* (agent.rs:107-127).                                                     *)
THEOREM TypeCorrect == Spec => []TypeOK
<1>1. IInv => TypeOK
  BY DEF IInv
<1> QED  BY InitInv, NextInv, <1>1, PTL DEF Spec

(* What a status reports and what a hunt began with is the agent's adapter *)
(* until they end (daemon.rs:86-91, 201-215, 226-234).                     *)
THEOREM NothingStaleIsSeen == Spec => []SeenIsCurrent
<1>1. IInv => SeenIsCurrent
  BY DEF IInv
<1> QED  BY InitInv, NextInv, <1>1, PTL DEF Spec

(* One inference at a time, none on a poisoned engine (agent.rs:170-205).  *)
THEOREM EngineIsSound == Spec => []EngineSound
<1>1. IInv => EngineSound
  BY DEF IInv
<1> QED  BY InitInv, NextInv, <1>1, PTL DEF Spec
=============================================================================
