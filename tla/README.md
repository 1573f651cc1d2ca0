# Lupus in TLA+

Lupus is the daemon beside the Lepus browser: it answers the browser's requests
over one WebSocket, asks the browser in turn to fetch pages for it, keeps a
store of indexed and pinned pages (the den) with their bodies in a local blob
store, scans pages for threats and runs a planner model that turns a question
into a plan of tool calls. This directory models the daemon
(`src/daemon/src`), checks it with TLC and proves the central results with TLAPS.

## 1. Inventory

| Component | State | Operations | Interacts with | What is hard | What makes it correct |
|---|---|---|---|---|---|
| Daemon-to-browser RPC (`host_rpc/mod.rs`) | one mutex: outbound sink, table of pending calls, id counter; one oneshot channel per call | `register_sink`, `unregister_sink`, `fetch`/`send_request`, `deliver_reply`, the 30 s timer | called by tools; driven by the server | a reply racing the timer, the lock dropped before the oneshot send, connections that change under a call | nothing leaks, timer and reply exclude each other, a call ends once with the reply to its own id |
| WebSocket server (`server.rs`) | per connection: reader task, writer task, outbound channel; one task per request and per reply | accept, read and dispatch a message, write a message, tear down | host_rpc, the daemon's handlers, the browser | overlapping connections, aborted writers, replies delivered by tasks in any order, a handler that waits for a reply the reader must read | a fetch gets its own answer, handlers end, no deadlock, the sink belongs to a live connection |
| Den (`den.rs`) | vector of entries, capacity, `den.json` | `add_page`, `pin_page`, eviction, `is_pinned`, `save`, `load_or_create` | indexing handlers, start-up, shutdown | capacity, pins against re-indexing, a file larger than the capacity, a save cut short | one entry per page, pins outlive everything unpinned, bounded growth |
| Indexing (`crawler.rs`, `daemon.rs`, `tools/crawl_index.rs`, `ipfs.rs`) | crawler lock, blob store slot, session counter | `index_page`, `archive_page`, `crawl_index`, `add_blob`, `shutdown` | den, host_rpc, system clock | the stamp is taken before the den's lock, from a clock that may be set back; the blob store may be gone; shutdown runs beside handlers | what the den says of a page was true of a copy of it; shutdown persists what was acknowledged |
| Agent (`agent.rs`, `agent/inference.rs`) | `RwLock<Agent>`, engine mutex and its poison, adapter name, output bytes of an inference | `load`, `hunt`, `summarize`, `swap_adapter`, `infer` | executor, tools, host_rpc | a writer behind a long reader, a poisoned mutex, stop strings that span tokens | status tells the truth, one inference at a time, nobody starves, text ends before its stop string |
| Planner and executor (`agent/plan.rs`, `executor.rs`, `joinner.rs`) | plan steps, records | `parse_plan`, `execute_plan`, `build_scratchpad`, `parse_joinner_output` | model output, tools | step numbers that repeat or run backwards, references to steps that failed or do not exist, quotes and parentheses inside strings | a step sees only results of earlier steps that succeeded, failures spread by reference only, every step is accounted for, a call and an answer are read as they were written |
| Tools (`tools/*.rs`) | - | one `execute` each | host_rpc, den, scanner | page text: offsets in bytes, lower-case copies, slices | noise and nothing else is removed, no slice is out of bounds |
| Security (`security.rs`) | slot of the classifier behind a mutex, its KV cache | `load`, `run_full_scan`, `classify`, scoring | agent tool, request handler | one cache for all scans, a classifier that fails half way, boundaries of the score | findings depend on the page alone, the score is monotonic and stays within 0..100 |
| Dispatch, configuration, start-up (`daemon.rs`, `protocol*.rs`, `config.rs`, `main.rs`) | configuration | dispatch by method, `get_status` | all of the above | order of loading, components that failed to load | every request is answered with its own id |
| Training, evaluation, data sets | files | offline scripts | - | - | not part of the running system |

## 2. Modules

- `FetchPromise` - what `fetch` promises its callers, with no table and no lock.
- `HostRpc` - `host_rpc/mod.rs`, open to any behaviour of connections and browser.
- `HostRpcProofs` - its inductive invariant and theorems.
- `Server`, `ServerProofs` - `server.rs` around an instance of `HostRpc`, and the
  browser.
- `Den`, `DenProofs` - `den.rs` with start-up, save, crash and restart.
- `Indexing`, `IndexingProofs` - the handlers that fill the den, the blob store
  and shutdown, around an instance of `Den`.
- `Daemon`, `DaemonProofs` - `main.rs`'s start-up and the requests that use the
  agent, with its lock and the engine's mutex.
- `Hunt`, `HuntProofs` - one search from the planner's text to the reply.
- `Speech` - the sampling loop, and how a call and a joinner's answer are read.
- `Scan`, `ScanProofs` - `security.rs`.
- `Page` - how a page's text is read by the tool and by the crawler.
- `Text`, `TextProofs` - how both look for a piece in a text; the theorems about
  both, with the lemmas on joined texts and recursive functions they share. For
  its sake the specification of `Speech` is named `SpeechSpec`.
- `MC*` - instances for TLC.

How they fit: `Server` drives an instance of `HostRpc`, which implements
`FetchPromise`; `Indexing` drives an instance of `Den`. `Daemon` says when a
search plans, executes and joins; `Hunt` says what it computes there, with
`Speech` for the characters that come in and `Page` and `Scan` for two of its
tools. These meet in plain values (a plan, a text, a page), so they are checked
one by one and not composed.

### HostRpc

The tokio mutex is never held across an await, so a critical section is one
action and everything between two sections is another:

| Code | Action |
|---|---|
| `register_sink` / `unregister_sink` | `RegisterSink`, `UnregisterSink` |
| writer task ends (drops `out_rx`) | `DropReceiver` |
| first section of `send_request` | `SendNoSink`, `SendDeadSink`, `SendQueued` |
| `timeout(30 s, rx)` returns the reply / elapses | `Receive` / `Elapse` |
| second section (timer cleanup) | `CleanUp` |
| `deliver_reply` under the lock / the oneshot send after it | `DeliverRemove` / `DeliverSend` |

`pending` maps ids to calls (the call that owns the receiver), `channel[f]` is
the oneshot channel. A reply is polled before the timer, so `Elapse` needs an
empty channel. Two outcomes that no state reaches are left out: a serialisation
error of a `String` and "reply channel closed unexpectedly", which `SenderHeld`
shows unreachable. Bodies are opaque; a result that does not decode counts as
an error reply, as `fetch` maps both to `HostFetch`.

### Server

`stage[c]` follows the connection's task through `handle_connection`;
`inbound[c]` is what the socket holds for the reader, `outbox[c]` the mpsc
queue of the writer, `arrived` the reply tasks spawned and not yet run,
`task[h]` the task of request `h`. A handler makes at most one fetch: that is
enough for every way a fetch can meet a connection; what handlers do besides is
the business of other modules. A handler named in `Fatal` may panic instead of
answering (page text cut inside a character), and a message of neither kind
may end the reader's task the same way. The browser answers a request once,
twice or never, over any link that is up.

### Den

The vector is a set: its order only breaks ties between stamps, and the model
allows either entry to go. A save is two steps, as the file is truncated before
it is written; a crash may fall between them and leaves a file that stops every
later start. The configuration may change the capacity at each start.

### Indexing

A job is a request (`index_page`, `archive_page`, `shutdown`) or a tool call
(`crawl_index`); `at[j]` is the place where its task stands. The first step of a
job is the one its handler begins with (`FirstStep`); the later ones are shared:

| Code | Action |
|---|---|
| `self.crawler.write().await` | `LockCrawler` (`index_page` only), `Release` when the guard is dropped |
| `host_rpc::fetch` returns a page / an error | `FetchPage` / `FetchFails` |
| `ipfs::add_blob`, best effort, then `SystemTime::now` | `StoreBody` |
| `extract_summary` cuts inside a character | `Panics` |
| `den::add_page`, `den::pin_page`, the response | `AddEntry` |
| `den::save` in `handle_shutdown` | `SaveBegins`, `SaveEnds`, `SaveFails` |
| `IpfsClient::shutdown`, the response | `CloseStore` |
| `IpfsClient::connect`, `load_or_create` at start-up | `Start` |

The content of an entry is the body it was made from (title, summary and
keywords are functions of it) and the CID recorded for it. `SystemTime::now` may
step back, so `StoreBody` reads any time of `Times`. A new blob store
directory is empty and only grows: nothing collects it. That a body once
reported stored survives the death of the process is assumed of the store
library. `saved` is a ghost: the jobs acknowledged when a save succeeded; so is
`before`: the jobs that were done, or held the crawler's lock, when a job took it.
Each request
is a task of its own, so that those of two visits may take the lock in either
order: `IndexedInOrder` is about the order of the lock, as no code orders the
visits.

### Daemon

| Code | Action |
|---|---|
| `main`, part by part | `LoadConfig` ... `Serve`, `Restart` |
| a request whose parameters decode | `Arrive` (what does not decode is answered before any lock is taken) |
| `self.agent.read().await` / `.write().await` | `Enter`, in the order of `queue`, when `Compatible` |
| `swap_adapter`, `summarize` | `SwapAdapter`, `Summarize` |
| `handle_status` up to `den::info().await` / its end | `ReadStatus` / `Report` |
| `Agent::hunt` | `BeginHunt` or `RefuseHunt`; `TakeEngine` or `FindPoison` on a blocking thread; `Plan`; `Execute` or `ToolPanics`; `TakeEngine` again; `AnswerHunt` or `JoinnerPanics` |
| a guard is dropped, by a return or a panic | `Leave` |

A tokio `RwLock` serves its queue in order, a std `Mutex` does not: `engine` has
no queue. `poisoned` stays until a restart. A model that fails to load leaves its
slot empty for good (`get_status` then says "loading").

### Hunt

A line of the planner is a number, a name and arguments; a value is not a string
but where it came from (`Value(what, from)`): which part of which record's
observation. `ParsePlan` takes the lines up to the first join, as they are;
`StepJoin`, `StepMiscoerces` and `StepRuns` are the arms of `execute_plan`'s
loop, with `coerce_args` and `smart_extract` as `Slot` and `Extract`; then
`BeginJoin` builds the scratchpad and `Answer` the reply. Both searches return
empty lists today, so that a reference to one gives nothing for a URL (`Part`),
and a plan that goes from a search to a page ends in a coercion error there.

### Speech

Text is a sequence of pieces: characters, or words no code looks into. `Sample`
is one round of the loop of `infer_blocking` (append a token, cut at the first
stop string, go on), `End` its other ways out; `ReadCall` is the regular
expression of `plan.rs` with `parse_args_string`, `ReadAnswer` is
`parse_joinner_output`. The joinner may say anything. The planner writes a call
it means (`meant`) in whatever tokens, so that what is lost is lost in reading.
`ParseArgs` is the loop of `parse_args_string`: `ReadArg` is one round of it, and
says where the next begins. A number that does not fit (`Fits`: an `i64`, for a
reference a `u32`) is read as other text or stays a string. `WellFormed` says
what the constants may be: a string does not hold the quote it is written in
(there are no escapes), and one that looks like a reference is one.
`AnswerSurfaces` says which answer is read off a text by positions alone (where
an action begins, what is on its line, the first parenthesis opened and the last
closed); `ReadAnswer` takes the text apart line by line, as the code does.

### Scan

A scan waits for the classifier's mutex in a queue, clears the cache, feeds it
and reads the verdict (`Acquire`, `ClearCache`, `Forward`), or fails before or
after the cache is fed. The network is an operator (`Verdict`) of all the cache
holds; a page is given by what the heuristics count in it and by its URL's
tokens, which are cut to `MaxLength` and lose trailing pads (`Ids`).

### Page

A page is a sequence of characters, with a piece of markup counted as one that
is a byte long; `html` is its bytes and `lower` those of its lower-case copy,
which may be longer or shorter. Each function of `extract_content.rs` is an
action, `strip_noise_tags` one per round of its loop; the crawler's title,
summary and keywords are read of the same page. A slice that is out of bounds or
inside a character is a panic. Blanks, entities and the content class are left
out. `OnlyNoiseIsLost` is said of `page`, the characters themselves: a noise
element reaches to its matching close, which is counted (`Matching`), and what is
outside is kept as it is. The code takes the first close, and copies bytes as
characters, so that the property is said of pages without wide characters in
which no noise element holds one of its own kind (`NoneInItsOwnKind`); the other
pages are in the run for the panics, and in the findings.

## 3. Runs

| Run | Shows | Bounds |
|---|---|---|
| `host_rpc` | safety, refinement of `FetchPromise`, liveness: `TypeOK`, `NoLeak`, `SenderHeld`, `NeverBoth`, `OneDelivery`, `KeepsPromise`, `EveryFetchEnds` | 3 calls, 2 connections: two calls race on one table while a third arrives after a reconnection |
| `server` | safety of the composition: `OwnAnswer`, `NoDanglingSink`, `NothingLost` | 2 requests, 2 connections, one message per socket buffer; overlap of two clients needs two of each |
| `server_prompt` | no host_fetch deadlock: served without timers: `ServedWithoutTimers` | 2 requests, 2 connections, two messages per socket buffer so that a reply waits behind a request |
| `server_live` | handlers end under any browser, use of `HostRpc`: `EveryRequestEnds`, `UsesHostRpc` | 1 request, 2 connections, junk and panics allowed; that the server uses `HostRpc` as it allows is proved for any number |
| `server_second` | finding: the first client's teardown removes the second's sink: `SecondClientWins` | as `server` |
| `den` | safety of the den: `TypeOK`, `OnePerUrl`, `PinsKept`, `GrowsWithinCapacity`, `EvictsTheStalest` | 4 pages, capacities 1 to 3, 2 stamps: a den loaded with more entries than its capacity, full of pins, or both |
| `indexing` | safety of the handlers, use of `Den`, liveness: `TypeOK`, `CidsResolve`, `IndexedInOrder`, `AckedIsKept`, `UsesDen`, `EveryJobEnds` | 2 jobs of any kind, 2 pages, 3 bodies (one may panic), room for every page, a clock that reads 0 or 1, either after the other: a writer of a page beside another or beside a shutdown, a job that panics with the lock another waits for, restarts. Safety is proved for any number of jobs |
| `daemon` | safety and liveness of the agent's requests: `TypeOK`, `SeenIsCurrent`, `EngineSound`, `NoStarvation` | 3 tasks, used over and over, 3 names: a hunt, a swap behind it and a status behind the swap; safety is proved for any number |
| `hunt` | references, failures, the account of a plan: `TypeOK`, `RefsPointBack`, `FailuresSpreadByReference`, `EveryStepAccounted` | plans of up to 4 of 14 lines with numbers 1 to 3 (a fourth does not fit): references forward, backward, to oneself, to a number taken twice; negative, quoted and missing arguments |
| `scan` | purity of scans, monotonic score: `TypeOK`, `ScanIsPure`, `WorseScoresNoHigher` | 3 scans used over and over, 4 pages, a window of 2 tokens: one that holds the classifier, one that waits, one that was fed before |
| `speech` | stop strings, calls, answers: `CutAtFirstStop`, `CallReadAsMeant`, `AnswerSurfaces` | 5 tokens of 11 (a stop string in one, in two, or with text after it), 8 calls: commas, parentheses, quotes of the other kind, comments and references inside strings, numbers that do not fit. The three are proved for any tokens, stop strings and calls |
| `page` | what noise stripping keeps, which pages can panic: `OnlyNoiseIsLost`, `PlainPagesAreRead` | every page of up to 3 of 22 pieces, and families of longer ones for nested noise, paragraphs and meta tags around each limit; limits scaled down to 1 to 5 |

`CHECK_DEADLOCK FALSE` is set where the modelled system stops: connections of
the server runs are used once each, jobs are made once each, a torn `den.json`
prevents every start, and a hunt, an inference or a page is done when it is
read. In `daemon` and `scan` it is for the start-up that gives up and for tasks
that are all done.
Symmetry is used in runs without liveness only. Every property has a mutated
definition (named after what it breaks, just before the definition it changes)
under which TLC finds it violated.

Findings of PROJECT.json that name no run were met while modelling: the model
has the behaviour (the timer's outcome and its way out in `HostRpc`, the reader
that panics in `Server`, the pin that gives way in `Den`, the shutdown after
which `Indexing` goes on, the calls a second client leaves in the table in `HostRpc`
and `Server`, the name a swap records in `Daemon`, the first step of
a number in `Hunt`, the cut parenthesis and the emptied answer in `Speech`, the
shifted copy, the cut window and the noise that ends at an inner close in `Page`), and the quoted text says otherwise.

## 4. Fairness

Weak fairness of each step of a task: the tokio runtime polls a task that can
run, its mutex is first come first served, timers fire. A std mutex is not fair, so that a hunt's
wait for the engine is not promised to end: `NoStarvation` is about the agent's
lock and about requests that need no engine. Nothing is assumed of
the browser or of connections, except in `PromptSpec`, which is the good case
and says so: links stay, every request is answered, no timer fires.

## 5. Proofs

`HostRpcProofs`: `IInv` joins `TypeOK`, `NoLeak`, `SenderHeld`, `NeverBoth`,
`OneDelivery` and `IdsFresh`. None of the named properties is inductive alone:
that a waiting call's sender is in the table needs that ids are fresh (or an
insertion would overwrite it), that a delivery is the only one needs that its
entry left the table under the id of its call. The refinement
`Spec => KeepsPromise` maps the states of a call to the promise's result and its
ids to tickets; `IdsFresh` gives the freshness of a ticket.

`ServerProofs`: `IInv` joins the invariant of `HostRpcProofs`, read at the
server's instance of `HostRpc`, with the server's own. What is queued is typed
by the state: a reply that travels bears the id that was given to the call it is
about (`TrueReplies`), and so does a request on its way (`Asks`). As an id stays
with its call, these types only grow, and a reply that reaches a channel is the
channel's own (`OwnDeliveries`), whichever link it came over: that is
`OwnAnswer`. `NothingLost` needs that writers live as long as their sinks
(`WritersLive`) and, for the step that takes an entry out of the table,
`SenderHeld`: a reply whose call waits is never an orphan. Each step of the
server is a step of `HostRpc` or leaves it alone (`UsesHostRpcAsSpecified`), so
that what `HostRpcProofs` shows of `HostRpc` holds of the daemon with its server
and any browser (`FetchesKeepPromise`).

`DenProofs`: `TypeOK`, `OnePerUrl` and finiteness of the entries are inductive
together; `GrowsWithinCapacity`, `PinsKept` and `EvictsTheStalest` follow step by
step, with cardinality facts of `FiniteSetTheorems`. Since a page is held once, pinned
entries and pinned pages are equally many, which is what relates an eviction to
the capacity. Both are about the page a step adds (`Added`), whose own older
copy `Kept` has taken out before a page is chosen to make room.

`IndexingProofs`: `IInv` joins `TypeOK` with where a job of each kind can stand
(`OnPath`), that an index job past locking holds the crawler's lock
(`LockHeld`), what a job carries (`Carries`: its CID is empty, or in the store and
its body's), that a process that is down has no handlers (`NobodyDown`) and
`CidsResolve`, which is not inductive without them. `IndexedInOrder` needs
besides that whoever was done when a job took the lock has ended (`Earlier`, in
`OInv`): the only job that can add a page after the last holder of the lock did
is one that is not in `before`. Nothing is assumed of the order of `Times`.
`UsesDen` follows step by step: each action is an operation of the den or leaves it alone.
`AckedIsKept` needs `KInv`: pages are held once, a process that is down has no
job in progress, a job acknowledged before a save stays so, and an addition
evicts nothing while the capacity is at least the number of pages (a pigeonhole
argument over the URLs of the entries kept).

`DaemonProofs`: `IInv` joins `TypeOK`, `SeenIsCurrent` and `EngineSound` with
what the lock means: who runs holds it (`RunningHolds`), a writer holds it alone
(`WriterAlone`), who waits is in the queue once, and nothing runs in a daemon
that does not serve. `SeenIsCurrent` needs `WriterAlone`: a swap finds nobody
else inside. The actions are two kinds, ways out (`LeaveInv`) and steps on
(`MoveInv`), each proved once.

`HuntProofs`: `RefsPointBack` and `FailuresSpreadByReference` speak of earlier
records only, so that one more record (`PushInv`) leaves them true of the rest;
of the new one they follow from what `Extract` and `Slot` return
(`SlotOrigin`, `SlotEmpty`, `ExtractEmpty`), which rests on the producer being
the first of its number (`ProducerIsFirst`). `TypeOK` and `EveryStepAccounted`
are parts of `AInv` (`TypeOK` has it that a tool that ran was handed a value for
each of its arguments, of a kind it takes: `Fits`, from `SlotFits` and
`CoerceArgsFit`), with a join only at a plan's end (`JoinEnds`), joins
recorded as such and nothing else (`JoinsRecorded`), and one record a step
(`OneByOne`). What the planner's text and the scratchpad are cut down to is
`Kept`, a recursive function over positions: it keeps what it should, in order
(`KeptElements`, `KeptPrefix`), shown by `Climb`: a set with 0 and, with a
number, the next, has them all. `Climb` rests on `NatMin` (a set of naturals has
a least element), as the library's induction takes an operator the provers
cannot instantiate.

`ScanProofs`: `ScanIsPure` needs that the cache a scan feeds is empty
(`ClearedForIt`), hence that the classifier serves one at a time
(`OneAtATime`), and that the tokens it is fed are a window of the URL
(`IdsAreAWindow`). `WorseScoresNoHigher` follows from the types and from the
score being the one of what was found.

`TextProofs`, of `Page`: `KeptSoFar` says that the text kept up to `at` is what
stands outside noise up to the first close, over the bytes of the page
(`Outside`), and `KeptOutside` that at the end; both hold with wide characters
too, as long as the copy is aligned. `OnlyNoiseIsLost` follows (`LostIs`): a
page without wide characters is its own bytes and its copy is its tags
(`PlainCopies`), and where no noise element holds one of its own kind the first
close is the matching one (`MatchingIs`). `KeptSoFar` needs that the page and its lower-case copy are equally
long and that wherever the copy opens noise the page holds markup (`Matched`,
from `Letters` by `FlattenAligned`), and that nothing between an opening and its
closing is outside (`NoiseLasts`). For `PlainPagesAreRead`, a page without wide
characters has no byte that is a part of one, and neither has what is cut out of
it (`PlainPage`, `ElementType`, `StripTagsType`), so that each way to panic is
disabled (`NoPanic`).

`TextProofs`, of `Speech` (under `TextsAssumption`: text is as `WellFormed` has it):

- `StopsAreCut`: `SInv` is `CutAtFirstStop` with the types. The loop looks for
  stop strings in all of the output, one token after the other, so that the
  output it adds a token to holds none and is all that was said (the third part
  of `CutAtFirstStop`, without which it is not inductive): the first stop string
  of what has grown is the first of what was said, and in what is kept before it
  no stop string can begin (`StopsOfPrefix`), as it would have begun there before.
- `AnswersSurface` and `CallsAreReadAsMeant`: with `ReadInv` (what was read is
  `ReadCall` or `ReadAnswer` of the output, which no step changes after) they
  become statements about the two functions, for texts of any length.
- For the answer: every line that begins somewhere is the one the code cuts out,
  from its `Action:` on (`LineIs`), so that positions where an action begins and
  the lines the code reads are in step (`ActionBegins`, `BeginsOnLine`, in order
  by `LinesApart`). What is wrapped on such a line is the same text either way
  (`CutOfLine`, `LineWraps`), so is a replan (`LineReplans`), and the last line
  that wraps anything gives the answer (`AnswerWrapped`); without an action the
  last thought or the whole text does (`ThoughtIs`, `AnswerSpoken`).
- For the call: where each argument stands in the written call (`AtIs`,
  `ArgStands`); that no parenthesis before the call's own ends it (`ClosesLast`),
  since one in a legible argument is followed by something solid that is no
  comment, be it the argument's closing quote; that the loop of
  `parse_args_string`, written as a recursive function that hands on to a later
  position, exists and does what it says (`HandOn`, built from the end of the text
  back by `Climb`); and that it goes from each argument over the separator to
  the next (`BodyIsRead`).

A proof of `CallReadAsMeant` with "no `)#` in a string" for its condition fails:
the expression of `plan.rs` allows blanks between the two, as in `") #"`, so that
`Legible` rules those out too, and the run has such a call.

Assumptions: only those named in the modules (`NoConn`, `NoReply`, `NoTask` and
`Nobody` differ from real values; stamps are naturals, capacities positive, the
classifier's verdict on a window of tokens is a verdict; the names the model
gives to single bytes of wide characters are no characters of a page, and text is as `WellFormed` has it).

Model-checked only: liveness (`EveryFetchEnds`, `EveryRequestEnds`,
`ServedWithoutTimers`, `EveryJobEnds`, `NoStarvation`), which is out of this
prover's reach. Every safety property that a passing run checks is a theorem.

## 6. Not modelled, and why

- The training, evaluation and data set scripts, examples and test doubles:
  offline, or drivers of the code modelled here.
- The networks: a token, a verdict, an embedding is an oracle's. Prompts
  (`prompt.rs`) and the tools' schemas are wording.
- Reads: `search`, `search_keyword` and `is_pinned` of the den, `get_blob`,
  `component_state`, `index_stats`. A status that finds the classifier's mutex
  taken (`try_lock`) says it is loading.
- `harvest_search_results`: it takes results out of search observations, and
  both searches return empty lists.
- `max_entries = 0`: the first page panics; capacities are positive.
- How long a step takes: the classifier runs on a worker of the runtime.
- Logging, message texts, JSON syntax, YAML and its defaults, a request that
  does not parse (it is answered with the id "unknown" and touches nothing).

## 7. Plan

1. `Hunt` with searches that find something, once the code's do.
2. `Daemon` with `Server`: a swap's answer and a client that leaves.
