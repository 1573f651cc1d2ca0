------------------------------ MODULE Indexing ------------------------------
(***************************************************************************)
(* The handlers that fill the den, and the shutdown that saves it:         *)
(* daemon/src/daemon.rs (index_page, archive_page, shutdown),              *)
(* daemon/src/crawler.rs, daemon/src/tools/crawl_index.rs and              *)
(* daemon/src/ipfs.rs, composed with Den.                                  *)
(*                                                                         *)
(* Every handler is a task.  What it does under one lock, or between two   *)
(* awaits, is one action: take the crawler's lock, store the body and read *)
(* the clock, add the entry.  The clock is SystemTime::now, which may have *)
(* been set back since it was last read: it gives any time.  The blob      *)
(* slot's mutex is held across the store's own await, so an addition and a *)
(* shutdown of the store do not overlap.                                   *)
(***************************************************************************)
EXTENDS Naturals, FiniteSets

CONSTANTS
  Urls, Capacities,
  Bodies,       \* what a page may hold
  FatalBodies,  \* bodies whose summary is cut inside a character
  Jobs,         \* requests and tool calls, each made at most once
  NoBody,       \* an empty content_cid
  NoJob,        \* nobody holds the crawler
  Times         \* what the clock may read

ASSUME PagesAssumption == Urls # {} /\ Bodies # {}
ASSUME CapacitiesAssumption == Capacities \subseteq Nat \ {0}
ASSUME FatalAssumption == FatalBodies \subseteq Bodies
ASSUME NoBodyAssumption == NoBody \notin Bodies
ASSUME NoJobAssumption == NoJob \notin Jobs
ASSUME TimesAssumption == Times # {} /\ Times \subseteq Nat

VARIABLES
  entries, capacity, disk, process,   \* the den's (Den)
  store,      \* BLOB_STORE: whether the slot holds a store
  blobs,      \* bodies in the store's directory
  crawler,    \* the job that holds Daemon.crawler for writing
  at,         \* at[j]: where job j stands
  kind,       \* kind[j]: what job j is
  page,       \* page[j]: the page it is about
  cid,        \* cid[j]: the CID it obtained
  stamp,      \* stamp[j]: the time it read
  before,     \* before[j]: the jobs that were done, or held the crawler,
              \* when j took it (ghost)
  saved       \* jobs acknowledged before the last save that succeeded (ghost)

denVars == <<entries, capacity, disk, process>>
jobVars == <<at, kind, page, cid, stamp>>
vars == <<entries, capacity, disk, process, store, blobs, crawler,
          at, kind, page, cid, stamp, before, saved>>

Cids == Bodies \cup {NoBody}
D == INSTANCE Den WITH Contents <- [body : Bodies, cid : Cids]

Kinds == {"index", "archive", "crawl", "shutdown"}
Pages == [url : Urls, body : Bodies]

(* "past": the job belongs to a process that is no more.                   *)
Waiting == {"locking", "fetching", "storing", "adding", "saving", "writing", "closing"}
Ended == {"done", "failed", "panicked", "past"}
Places == {"unsent"} \cup Waiting \cup Ended

TypeOK ==
  /\ D!TypeOK
  /\ store \in {"open", "none"}
  /\ blobs \subseteq Bodies
  /\ crawler \in Jobs \cup {NoJob}
  /\ at \in [Jobs -> Places]
  /\ kind \in [Jobs -> Kinds]
  /\ page \in [Jobs -> Pages]
  /\ cid \in [Jobs -> Cids]
  /\ stamp \in [Jobs -> Times]
  /\ before \in [Jobs -> SUBSET Jobs]
  /\ saved \subseteq Jobs

SomePage == CHOOSE p \in Pages : TRUE
SomeTime == CHOOSE t \in Times : TRUE

Init ==
  /\ D!Init
  /\ store = "none"
  /\ blobs = {}
  /\ crawler = NoJob
  /\ at = [j \in Jobs |-> "unsent"]
  /\ kind = [j \in Jobs |-> "index"]
  /\ page = [j \in Jobs |-> SomePage]
  /\ cid = [j \in Jobs |-> NoBody]
  /\ stamp = [j \in Jobs |-> SomeTime]
  /\ before = [j \in Jobs |-> {}]
  /\ saved = {}

Go(j, place) == at' = [at EXCEPT ![j] = place]

-----------------------------------------------------------------------------
(* The process.  IpfsClient::connect leaves the slot empty when the store  *)
(* is disabled or does not open; the daemon serves without it.             *)
Start(cap) ==
  /\ D!Start(cap)
  /\ store' \in {"open", "none"}
  /\ UNCHANGED jobVars
  /\ UNCHANGED <<blobs, crawler, before, saved>>

(* The end of the process.  What add_blob reported as stored is taken to   *)
(* be on the disk: the store's own durability is not this code's.          *)
Crash ==
  /\ D!Crash
  /\ store' = "none"
  /\ crawler' = NoJob
  /\ at' = [j \in Jobs |-> IF at[j] = "unsent" THEN "unsent" ELSE "past"]
  /\ UNCHANGED <<blobs, kind, page, cid, stamp, before, saved>>

-----------------------------------------------------------------------------
(* A request arrives.                                                      *)
FirstStep(k) ==
  CASE k = "index" -> "locking"
    [] k = "archive" -> "storing"
    [] k = "crawl" -> "fetching"
    [] k = "shutdown" -> "saving"

Arrive(j, k) ==
  /\ process # "down"
  /\ at[j] = "unsent"
  /\ Go(j, FirstStep(k))
  /\ kind' = [kind EXCEPT ![j] = k]
  /\ IF k \in {"index", "archive"}
     THEN \E p \in Pages : page' = [page EXCEPT ![j] = p]
     ELSE UNCHANGED page
  /\ UNCHANGED denVars
  /\ UNCHANGED <<store, blobs, crawler, cid, stamp, before, saved>>

(* The jobs that come before one that takes the lock now.                  *)
HadItsTurn(i) ==
  at[i] = "done" \/ (kind[i] = "index" /\ at[i] \in {"storing", "adding"})

(* Mutated LockCrawler: a read lock, which many may hold.                  *)
LockCrawlerShared(j) ==
  /\ at[j] = "locking"
  /\ crawler' = j
  /\ before' = [before EXCEPT ![j] = {i \in Jobs : HadItsTurn(i)}]
  /\ Go(j, "storing")
  /\ UNCHANGED denVars
  /\ UNCHANGED <<store, blobs, kind, page, cid, stamp, saved>>

(* handle_index_page: self.crawler.write().                                *)
LockCrawler(j) ==
  /\ at[j] = "locking"
  /\ crawler = NoJob
  /\ crawler' = j
  /\ before' = [before EXCEPT ![j] = {i \in Jobs : HadItsTurn(i)}]
  /\ Go(j, "storing")
  /\ UNCHANGED denVars
  /\ UNCHANGED <<store, blobs, kind, page, cid, stamp, saved>>

(* crawl_index: the browser fetches the page, or the fetch fails.  The     *)
(* final url may differ from the one asked for.                            *)
FetchPage(j) ==
  /\ at[j] = "fetching"
  /\ \E p \in Pages : page' = [page EXCEPT ![j] = p]
  /\ Go(j, "storing")
  /\ UNCHANGED denVars
  /\ UNCHANGED <<store, blobs, crawler, kind, cid, stamp, before, saved>>

FetchFails(j) ==
  /\ at[j] = "fetching"
  /\ Go(j, "failed")
  /\ UNCHANGED denVars
  /\ UNCHANGED <<store, blobs, crawler, kind, page, cid, stamp, before, saved>>

(* The crawler's guard is dropped however its holder ends.                 *)
Release(j) == crawler' = IF crawler = j THEN NoJob ELSE crawler

(* Mutated StoreBody: the CID is computed whether or not the body is kept. *)
StoreBodyHashed(j) ==
  /\ at[j] = "storing"
  /\ page[j].body \notin FatalBodies
  /\ \/ store = "open" /\ blobs' = blobs \cup {page[j].body}
     \/ UNCHANGED blobs
  /\ cid' = [cid EXCEPT ![j] = page[j].body]
  /\ \E t \in Times : stamp' = [stamp EXCEPT ![j] = t]
  /\ Go(j, "adding")
  /\ UNCHANGED denVars
  /\ UNCHANGED <<store, crawler, kind, page, before, saved>>

(* ipfs::add_blob, best effort: an empty slot, or a store that fails,      *)
(* leaves the CID empty.  Then the clock is read.                          *)
StoreBody(j) ==
  /\ at[j] = "storing"
  /\ page[j].body \notin FatalBodies
  /\ \/ /\ store = "open"
        /\ blobs' = blobs \cup {page[j].body}
        /\ cid' = [cid EXCEPT ![j] = page[j].body]
     \/ /\ cid' = [cid EXCEPT ![j] = NoBody]
        /\ UNCHANGED blobs
  /\ \E t \in Times : stamp' = [stamp EXCEPT ![j] = t]
  /\ Go(j, "adding")
  /\ UNCHANGED denVars
  /\ UNCHANGED <<store, crawler, kind, page, before, saved>>

(* Mutated Panics: the lock is poisoned, or never dropped.                 *)
PanicsHolding(j) ==
  /\ at[j] = "storing"
  /\ page[j].body \in FatalBodies
  /\ Go(j, "panicked")
  /\ UNCHANGED <<blobs, crawler>>
  /\ UNCHANGED denVars
  /\ UNCHANGED <<store, kind, page, cid, stamp, before, saved>>

(* extract_summary panics: before the body is stored in index_page and     *)
(* crawl_index, after it in archive_page.                                  *)
Panics(j) ==
  /\ at[j] = "storing"
  /\ page[j].body \in FatalBodies
  /\ Go(j, "panicked")
  /\ Release(j)
  /\ \/ UNCHANGED blobs
     \/ /\ kind[j] = "archive" /\ store = "open"
        /\ blobs' = blobs \cup {page[j].body}
  /\ UNCHANGED denVars
  /\ UNCHANGED <<store, kind, page, cid, stamp, before, saved>>

Entry(j) ==
  [url |-> page[j].url, content |-> [body |-> page[j].body, cid |-> cid[j]],
   at |-> stamp[j], pinned |-> kind[j] = "archive"]

(* Mutated AddEntry: pushed past Den::add.                                 *)
AddEntryRaw(j) ==
  /\ at[j] = "adding"
  /\ process = "serving"
  /\ entries' = entries \cup {Entry(j)}
  /\ Go(j, "done")
  /\ Release(j)
  /\ UNCHANGED <<capacity, disk, process>>
  /\ UNCHANGED <<store, blobs, kind, page, cid, stamp, before, saved>>

(* den::add_page or den::pin_page, and the acknowledgement.                *)
AddEntry(j) ==
  /\ at[j] = "adding"
  /\ IF kind[j] = "archive" THEN D!PinPage(Entry(j)) ELSE D!AddPage(Entry(j))
  /\ Go(j, "done")
  /\ Release(j)
  /\ UNCHANGED <<store, blobs, kind, page, cid, stamp, before, saved>>

-----------------------------------------------------------------------------
(* handle_shutdown: the den is saved, then the blob store closed.  Errors  *)
(* are logged, the request succeeds, and the daemon goes on.               *)
SaveBegins(j) ==
  /\ at[j] = "saving"
  /\ D!SaveBegins
  /\ Go(j, "writing")
  /\ UNCHANGED <<store, blobs, crawler, kind, page, cid, stamp, before, saved>>

Acked == {j \in Jobs : at[j] = "done" /\ kind[j] # "shutdown"}

SaveEnds(j) ==
  /\ at[j] = "writing"
  /\ D!SaveEnds
  /\ Go(j, "closing")
  /\ saved' = saved \cup Acked
  /\ UNCHANGED <<store, blobs, crawler, kind, page, cid, stamp, before>>

SaveFails(j) ==
  /\ at[j] = "writing"
  /\ D!SaveFails
  /\ Go(j, "closing")
  /\ UNCHANGED <<store, blobs, crawler, kind, page, cid, stamp, before, saved>>

CloseStore(j) ==
  /\ at[j] = "closing"
  /\ store' = "none"
  /\ Go(j, "done")
  /\ UNCHANGED denVars
  /\ UNCHANGED <<blobs, crawler, kind, page, cid, stamp, before, saved>>

-----------------------------------------------------------------------------
Handler(j) ==
  \/ LockCrawler(j)
  \/ FetchPage(j) \/ FetchFails(j)
  \/ StoreBody(j) \/ Panics(j)
  \/ AddEntry(j)
  \/ SaveBegins(j) \/ SaveEnds(j) \/ SaveFails(j)
  \/ CloseStore(j)

Next ==
  \/ \E cap \in Capacities : Start(cap)
  \/ Crash
  \/ \E j \in Jobs : Handler(j) \/ \E k \in Kinds : Arrive(j, k)

Spec == Init /\ [][Next]_vars

(* Tasks that can run are polled, locks are first come first served, a     *)
(* fetch ends (HostRpc).                                                   *)
FairSpec == Spec /\ \A j \in Jobs : WF_vars(Handler(j))

-----------------------------------------------------------------------------
(* A CID the den gives, in memory or in its file, leads to the body it was *)
(* made from: never to nothing, though the store may be absent, fail, or   *)
(* be closed by a shutdown under a handler that is using it                *)
(* (crawler.rs:54-60, daemon.rs:132-141, ipfs.rs:76-87, 225-235).          *)
CidsResolve ==
  \A e \in entries \cup disk.entries :
    e.content.cid # NoBody => e.content.cid \in blobs /\ e.content.cid = e.content.body

(* Background indexing is in order.  When the index job that took the      *)
(* crawler's lock last is done, and no archive_page or crawl_index of its  *)
(* page was done after it took it, the den holds its copy of the page,     *)
(* with its CID and its time, and no other: a copy that was stored and     *)
(* timed earlier cannot slip in behind it, as the lock is held from before *)
(* the body is stored until the entry is in (daemon.rs:106-113,            *)
(* crawler.rs:37-83).  The order is that of the lock, which the tasks of   *)
(* two visits may take in either order, and not that of the stamps, as the *)
(* clock may have been set back.                                           *)
IndexedInOrder ==
  \A j \in Acked :
    /\ kind[j] = "index"
    /\ \A i \in Acked \ {j} : page[i].url = page[j].url => i \in before[j]
    => \A e \in entries :
         e.url = page[j].url =>
           /\ e.content = [body |-> page[j].body, cid |-> cid[j]]
           /\ e.at = stamp[j]

(* What was acknowledged is there: while the daemon runs, a page indexed   *)
(* or pinned in it is in the den, and a pinned one is pinned, whatever     *)
(* other handlers do to the same page; and so is one acknowledged before a *)
(* save that succeeded, after any crash and restart.  (Where the den has   *)
(* room: eviction is Den's.)                                               *)
Held(es, j) ==
  \E e \in es : e.url = page[j].url /\ (kind[j] = "archive" => e.pinned)
AckedIsKept ==
  (\A cap \in Capacities : cap >= Cardinality(Urls)) =>
    /\ process # "down" => \A j \in Acked \cup saved : Held(entries, j)
    /\ disk.state = "whole" => \A j \in saved : Held(disk.entries, j)

(* Handlers reach the den through its operations only, one at a time: what *)
(* is proved of Den holds of the daemon.                                   *)
UsesDen == D!Spec

(* Every handler ends, panics of others included: locks are taken in the   *)
(* order crawler, blob slot, den, and dropped on unwinding                 *)
(* (daemon.rs:106-179, 236-247).                                           *)
EveryJobEnds == \A j \in Jobs : (at[j] \in Waiting) ~> (at[j] \in Ended)
=============================================================================
