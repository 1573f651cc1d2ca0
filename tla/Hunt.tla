-------------------------------- MODULE Hunt --------------------------------
(***************************************************************************)
(* One hunt of the agent, from the planner's text to the reply:            *)
(* parse_plan of daemon/src/agent/plan.rs, execute_plan and smart_extract  *)
(* of daemon/src/agent/executor.rs, the tools they run, build_scratchpad   *)
(* of daemon/src/agent/joinner.rs and the end of Agent::hunt.              *)
(*                                                                         *)
(* The text is any short sequence of Lines, as the planner is a model and  *)
(* may write anything.  A value is not a string but where it came from:    *)
(* which field of which earlier observation.                               *)
(***************************************************************************)
EXTENDS Integers, Sequences

CONSTANTS
  Lines,      \* lines the planner may write
  MaxLines,   \* how many it writes at most
  MaxIdx      \* u32::MAX, the greatest number a step or a reference can have

(* What an argument is written as: "word", a string that is no reference;  *)
(* "digits", a quoted number; "int"; "ref", a quoted $n; "other".          *)
ArgKinds == {"word", "digits", "int", "ref", "other"}

ASSUME LinesAssumption ==
  Lines \subseteq [idx : Nat, name : STRING, args : Seq([kind : ArgKinds, n : Int])]
ASSUME BoundsAssumption == MaxLines \in Nat /\ MaxIdx \in Nat

VARIABLES
  phase,
  text,       \* what the planner wrote
  plan,
  records,    \* execute_plan's records; args is a ghost, what the tool got
  scratch,    \* the scratchpad the joinner reads
  reply       \* SearchResponse: the plan's records and whether there is an
              \* answer in it

vars == <<phase, text, plan, records, scratch, reply>>

Phases == {"planning", "executing", "joining", "answered", "failed", "panicked"}
Results == {"ok", "coercion", "tool", "join"}
Joins == {"join", "join_finish", "join_replan"}
IsJoin(step) == step.name \in Joins

(* The arguments each tool takes; optional ones fall back on a default     *)
(* whatever is wrong with them.                                            *)
Slots == [search_subnet |-> <<"query", "scope">>,
          search_local_index |-> <<"query", "top_k">>,
          fetch_page |-> <<"url">>,
          extract_content |-> <<"html", "format">>,
          scan_security |-> <<"html", "url">>,
          crawl_index |-> <<"source">>]
Tools == DOMAIN Slots
Optional == {"scope", "top_k", "format"}

(* The field `what` of the observation in record `from`; from is 0 for     *)
(* what the planner wrote or the code supplies.                            *)
Value(what, from) == [what |-> what, from |-> from]
Nothing == Value("nothing", 0)
Wholes == {"nothing", "text", "default", "count", "negative"}
Parts == {"url", "body", "summary", "json"}
Values == [what : Wholes \cup Parts, from : Nat]
Record == [step : Lines, args : Seq(Values), result : Results]

(* What may be in each argument: text or JSON of any step, a url or a body *)
(* only where one is asked for, a count only where a count is.             *)
Textual == {"text", "summary", "json"}
Takes(field) ==
  CASE field = "query" -> Textual
    [] field \in {"url", "source"} -> Textual \cup {"url"}
    [] field = "html" -> Textual \cup {"body"}
    [] field \in {"scope", "format"} -> Textual \cup {"default"}
    [] field = "top_k" -> {"count", "negative", "default"}

(* A step that ran named a tool and handed it a value for each of its      *)
(* arguments, of a kind the argument takes; no other step has arguments.   *)
Fits(r) ==
  IF r.result \in {"ok", "tool"}
  THEN /\ r.step.name \in Tools
       /\ DOMAIN r.args = DOMAIN Slots[r.step.name]
       /\ \A s \in DOMAIN r.args : r.args[s].what \in Takes(Slots[r.step.name][s])
  ELSE r.args = <<>>

(* Of what kind everything is, the arguments tools are handed included     *)
(* (executor.rs:143-231, 266-355).                                         *)
TypeOK ==
  /\ phase \in Phases
  /\ text \in Seq(Lines)
  /\ plan \in Seq(Lines)
  /\ records \in Seq(Record)
  /\ \A i \in DOMAIN records : Fits(records[i])
  /\ scratch \in Seq([step : Lines, shows : {"observation", "error"}])
  /\ reply \in Seq([idx : Nat, tool : STRING, observed : BOOLEAN,
                    failed : BOOLEAN, is_join : BOOLEAN])

Init ==
  /\ phase = "planning"
  /\ text = <<>>
  /\ plan = <<>>
  /\ records = <<>>
  /\ scratch = <<>>
  /\ reply = <<>>

-----------------------------------------------------------------------------
(* A line that is no step, or whose number does not fit, is skipped: both  *)
(* are lines with a number above MaxIdx here.                              *)
Skipped(line) == line.idx > MaxIdx

(* The elements of s at the positions in K, in their order.                *)
Kept(s, K) ==
  LET upto[i \in 0 .. Len(s)] ==
        IF i = 0 THEN <<>>
        ELSE IF i \in K THEN Append(upto[i - 1], s[i])
        ELSE upto[i - 1]
  IN upto[Len(s)]

(* Mutated ParsePlan: the steps after a join are kept.                     *)
ParsePlanOn(lines) == Kept(lines, {i \in DOMAIN lines : ~Skipped(lines[i])})

(* The steps up to the first join.  Nothing is asked of their numbers.     *)
ParsePlan(lines) ==
  LET steps == {i \in DOMAIN lines : ~Skipped(lines[i])}
  IN Kept(lines, {i \in steps : \A h \in steps : IsJoin(lines[h]) => i <= h})

-----------------------------------------------------------------------------
Numbered(n, prior) == {i \in DOMAIN prior : prior[i].step.idx = n}

(* Mutated Producer: the latest step of that number.                       *)
ProducerLast(n, prior) ==
  CHOOSE i \in Numbered(n, prior) : \A j \in Numbered(n, prior) : j <= i

(* The step that $n stands for: the first of that number.                  *)
Producer(n, prior) ==
  CHOOSE i \in Numbered(n, prior) : \A j \in Numbered(n, prior) : i <= j

(* The part of a tool's observation that a slot takes.  Both searches      *)
(* return empty lists today, so that there is no first hit.                *)
Part(tool, field) ==
  CASE tool \in {"search_local_index", "search_subnet"} /\ field \in {"url", "source"} -> "nothing"
    [] tool = "fetch_page" /\ field = "html" -> "body"
    [] tool = "fetch_page" /\ field = "url" -> "url"
    [] tool = "crawl_index" /\ field \in {"url", "source"} -> "url"
    [] tool = "extract_content" -> "summary"
    [] OTHER -> "json"

(* Mutated Extract: a step that failed has its error quoted.               *)
ExtractAny(n, field, prior) ==
  IF Numbered(n, prior) = {} THEN Nothing
  ELSE LET i == Producer(n, prior)
           part == Part(prior[i].step.name, field)
       IN IF part = "nothing" THEN Nothing ELSE Value(part, i)

(* smart_extract.                                                          *)
Extract(n, field, prior) ==
  IF Numbered(n, prior) = {} THEN Nothing
  ELSE LET i == Producer(n, prior)
           part == Part(prior[i].step.name, field)
       IN IF prior[i].result # "ok" \/ part = "nothing" THEN Nothing
          ELSE Value(part, i)

(* int_arg with its default; a negative one does not fit top_k: usize.     *)
Count(arg) ==
  Value(IF arg.kind \in {"int", "digits"} /\ arg.n < 0 THEN "negative" ELSE "count", 0)

IsRef(arg) == arg.kind = "ref" /\ arg.n \in 0 .. MaxIdx

(* string_arg, or int_arg for top_k.                                       *)
Resolve(arg, field, prior) ==
  IF field = "top_k" THEN Count(arg)
  ELSE IF IsRef(arg) THEN Extract(arg.n, field, prior)
  ELSE Value("text", 0)

(* Mutated Slot: no default for an optional argument.                      *)
SlotStrict(step, s, prior) ==
  IF s \in DOMAIN step.args THEN Resolve(step.args[s], Slots[step.name][s], prior) ELSE Nothing

Slot(step, s, prior) ==
  LET field == Slots[step.name][s]
      value == IF s \in DOMAIN step.args THEN Resolve(step.args[s], field, prior) ELSE Nothing
  IN IF value = Nothing /\ field \in Optional THEN Value("default", 0) ELSE value

CoerceArgs(step, prior) ==
  [s \in DOMAIN Slots[step.name] |-> Slot(step, s, prior)]

Coerces(step, prior) ==
  /\ step.name \in Tools
  /\ \A s \in DOMAIN Slots[step.name] : Slot(step, s, prior) # Nothing

(* How each tool may end.  A search finds nothing yet, and never fails but *)
(* on arguments that do not decode; a page may not be there to fetch.      *)
SearchLocalIndex(args) == IF args[2].what = "negative" THEN {"tool"} ELSE {"ok"}
SearchSubnet == {"ok"}
FetchPage == {"ok", "tool"}
CrawlIndex == {"ok", "tool"}
ExtractContent == {"ok"}
ScanSecurity == {"ok"}

Ends(step, args) ==
  CASE step.name = "search_local_index" -> SearchLocalIndex(args)
    [] step.name = "search_subnet" -> SearchSubnet
    [] step.name = "fetch_page" -> FetchPage
    [] step.name = "crawl_index" -> CrawlIndex
    [] step.name = "extract_content" -> ExtractContent
    [] step.name = "scan_security" -> ScanSecurity

-----------------------------------------------------------------------------
(* The planner's inference fails, or its text is parsed.                   *)
PlannerFails ==
  /\ phase = "planning"
  /\ phase' = "failed"
  /\ UNCHANGED <<text, plan, records, scratch, reply>>

Texts == UNION {[1 .. n -> Lines] : n \in 0 .. MaxLines}

Plan ==
  /\ phase = "planning"
  /\ text' \in Texts
  /\ plan' = ParsePlan(text')
  /\ phase' = "executing"
  /\ UNCHANGED <<records, scratch, reply>>

More == phase = "executing" /\ Len(records) < Len(plan)
Current == plan[Len(records) + 1]
Push(args, result) ==
  /\ records' = Append(records, [step |-> Current, args |-> args, result |-> result])
  /\ UNCHANGED <<phase, text, plan, scratch, reply>>

StepJoin == More /\ IsJoin(Current) /\ Push(<<>>, "join")

StepMiscoerces ==
  More /\ ~IsJoin(Current) /\ ~Coerces(Current, records) /\ Push(<<>>, "coercion")

StepRuns ==
  /\ More /\ ~IsJoin(Current) /\ Coerces(Current, records)
  /\ LET args == CoerceArgs(Current, records)
     IN \E result \in Ends(Current, args) : Push(args, result)

(* The text extraction of a tool panics, and the request with it.          *)
StepPanics ==
  /\ More /\ ~IsJoin(Current) /\ Coerces(Current, records)
  /\ Current.name \in {"extract_content", "crawl_index"}
  /\ phase' = "panicked"
  /\ UNCHANGED <<text, plan, records, scratch, reply>>

-----------------------------------------------------------------------------
Ran(recs) == Kept(recs, {i \in DOMAIN recs : ~IsJoin(recs[i].step)})

(* Mutated BuildScratchpad: the join is shown too, with its "(no result)". *)
BuildScratchpadAll(recs) ==
  [i \in DOMAIN recs |->
    [step |-> recs[i].step,
     shows |-> IF recs[i].result = "ok" THEN "observation"
               ELSE IF recs[i].result = "join" THEN "no result" ELSE "error"]]

BuildScratchpad(recs) ==
  LET shown == Ran(recs)
  IN [i \in DOMAIN shown |->
       [step |-> shown[i].step,
        shows |-> IF shown[i].result = "ok" THEN "observation" ELSE "error"]]

(* record_to_wire.                                                         *)
Wire(r) ==
  [idx |-> r.step.idx, tool |-> r.step.name, observed |-> r.result = "ok",
   failed |-> r.result \in {"coercion", "tool"}, is_join |-> IsJoin(r.step)]

Done == phase = "executing" /\ Len(records) = Len(plan)

BeginJoin ==
  /\ Done
  /\ scratch' = BuildScratchpad(records)
  /\ phase' = "joining"
  /\ UNCHANGED <<text, plan, records, reply>>

(* A long observation or error is cut inside a character.                  *)
ScratchpadPanics ==
  /\ Done
  /\ Ran(records) # <<>>
  /\ phase' = "panicked"
  /\ UNCHANGED <<text, plan, records, scratch, reply>>

Answer ==
  /\ phase = "joining"
  /\ phase' = "answered"
  /\ reply' = [i \in DOMAIN records |-> Wire(records[i])]
  /\ UNCHANGED <<text, plan, records, scratch>>

(* Inference fails, or the joinner asks to replan: the plan is not sent.   *)
JoinnerFails ==
  /\ phase = "joining"
  /\ phase' = "failed"
  /\ UNCHANGED <<text, plan, records, scratch, reply>>

-----------------------------------------------------------------------------
Execute == StepJoin \/ StepMiscoerces \/ StepRuns \/ StepPanics
Join == BeginJoin \/ ScratchpadPanics \/ Answer \/ JoinnerFails

Next ==
  \/ PlannerFails \/ Plan
  \/ Execute
  \/ Join

Spec == Init /\ [][Next]_vars

-----------------------------------------------------------------------------
(* Whatever a tool gets out of an observation comes from the first earlier *)
(* step of the number its argument names, and that step succeeded; no step *)
(* added later changes what it stood for (executor.rs:203-206, 272-287).   *)
RefsPointBack ==
  \A i \in DOMAIN records : \A s \in DOMAIN records[i].args :
    LET value == records[i].args[s]
        arg == records[i].step.args[s]
    IN value.from # 0 =>
         /\ value.from < i
         /\ records[value.from].result = "ok"
         /\ IsRef(arg) /\ records[value.from].step.idx = arg.n
         /\ \A h \in 1 .. value.from - 1 : records[h].step.idx # arg.n

(* A step that could not be run names a tool that is not there, lacks an   *)
(* argument, or refers to a step that failed, does not exist, comes later  *)
(* or is a search: a failure spreads along references and no other way     *)
(* (executor.rs:70-73).                                                    *)
FailuresSpreadByReference ==
  \A i \in DOMAIN records :
    LET step == records[i].step
        usable(n) == \E h \in 1 .. i - 1 :
          records[h].step.idx = n /\ records[h].result = "ok"
            /\ records[h].step.name \notin {"search_local_index", "search_subnet"}
        doubled(n) == \E h, k \in 1 .. i - 1 :
          h # k /\ records[h].step.idx = n /\ records[k].step.idx = n
    IN records[i].result = "coercion" /\ step.name \in Tools =>
         \E s \in DOMAIN Slots[step.name] :
           /\ Slots[step.name][s] \notin Optional
           /\ s \in DOMAIN step.args =>
                IsRef(step.args[s]) /\ (usable(step.args[s].n) => doubled(step.args[s].n))

(* Each step of the plan has one record, in the plan's order, a join is    *)
(* the last; the joinner sees all but the join, failures included, and the *)
(* client sees them all (executor.rs:70-76, joinner.rs:257-304).           *)
EveryStepAccounted ==
  /\ \A i \in DOMAIN records : records[i].step = plan[i]
  /\ \A i \in DOMAIN records : IsJoin(records[i].step) => i = Len(plan)
  /\ phase \in {"joining", "answered"} =>
       /\ Len(records) = Len(plan)
       /\ DOMAIN scratch = {i \in DOMAIN plan : ~IsJoin(plan[i])}
       /\ \A i \in DOMAIN scratch :
            /\ scratch[i].step = plan[i]
            /\ (scratch[i].shows = "observation") = (records[i].result = "ok")
  /\ phase = "answered" =>
       /\ Len(reply) = Len(plan)
       /\ \A i \in DOMAIN reply : reply[i].observed = (records[i].result = "ok")
       /\ \A i \in DOMAIN reply :
            reply[i].is_join <=> ~reply[i].observed /\ ~reply[i].failed
=============================================================================
