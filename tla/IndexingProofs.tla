--------------------------- MODULE IndexingProofs ---------------------------
(***************************************************************************)
(* Theorems about Indexing, for any set of jobs, pages, bodies and         *)
(* capacities, and any clock.                                              *)
(***************************************************************************)
EXTENDS Indexing, FiniteSetTheorems, TLAPS

(* The crawler's lock is held by the index job that is past it.            *)
LockHeld ==
  \A j \in Jobs :
    kind[j] = "index" /\ at[j] \in {"storing", "adding"} => crawler = j

(* Where a job stands tells what it is.                                    *)
OnPath ==
  \A j \in Jobs :
    /\ at[j] = "locking" => kind[j] = "index"
    /\ at[j] = "fetching" => kind[j] = "crawl"
    /\ at[j] \in {"storing", "adding"} => kind[j] # "shutdown"
    /\ at[j] \in {"saving", "writing", "closing"} => kind[j] = "shutdown"

(* What a job carries to the den: a CID that resolves.                     *)
Carries ==
  \A j \in Jobs :
    at[j] = "adding" /\ cid[j] # NoBody => cid[j] \in blobs /\ cid[j] = page[j].body

(* A process that is down has no handlers.                                 *)
NobodyDown == process = "down" => \A j \in Jobs : at[j] \in {"unsent", "past"}

IInv == TypeOK /\ OnPath /\ LockHeld /\ Carries /\ CidsResolve /\ NobodyDown

Entry_Type == \A j \in Jobs : Entry(j) \in D!Entries

LEMMA EntryType == TypeOK => Entry_Type
BY DEF TypeOK, Entry_Type, Entry, D!Entries, Pages, Kinds

(* An addition brings in one entry, with the url, content and stamp given. *)
LEMMA AddBrings ==
  ASSUME NEW e \in D!Entries, D!Add(e)
  PROVE  \A x \in entries' :
           \/ x \in entries
           \/ x \in D!Entries /\ x.content = e.content
<1> DEFINE c == D!Carried(e)
<1>1. c \in D!Entries /\ c.content = e.content
  BY DEF D!Carried, D!Entries
<1>2. D!Kept(e) \subseteq entries
  BY DEF D!Kept
<1>3. \/ entries' = D!Kept(e) \cup {c}
      \/ \E v \in D!Victims(D!Kept(e)) : entries' = (D!Kept(e) \ {v}) \cup {c}
  BY DEF D!Add
<1> QED  BY <1>1, <1>2, <1>3

LEMMA AddEntryBrings ==
  ASSUME TypeOK, NEW j \in Jobs, AddEntry(j)
  PROVE  /\ \A x \in entries' :
              \/ x \in entries
              \/ x \in D!Entries /\ x.content = [body |-> page[j].body, cid |-> cid[j]]
         /\ UNCHANGED <<capacity, disk, process>>
<1> DEFINE e == Entry(j)
           p == [e EXCEPT !.pinned = TRUE]
<1>1. e \in D!Entries /\ e.content = [body |-> page[j].body, cid |-> cid[j]]
  BY EntryType DEF Entry_Type, Entry
<1>2. p \in D!Entries /\ p.content = e.content
  BY <1>1 DEF D!Entries
<1>3. (D!Add(e) \/ D!Add(p)) /\ UNCHANGED <<capacity, disk, process>>
  BY DEF AddEntry, D!AddPage, D!PinPage
<1> QED  BY <1>1, <1>2, <1>3, AddBrings

LEMMA InitInv == Init => IInv
<1> SUFFICES ASSUME Init PROVE IInv
  OBVIOUS
<1>1. D!TypeOK
  BY DEF Init, D!Init, D!TypeOK, D!Absent
<1>2. SomePage \in Pages
  <2>1. PICK u \in Urls, b \in Bodies : TRUE
    BY PagesAssumption
  <2>2. [url |-> u, body |-> b] \in Pages
    BY DEF Pages
  <2> QED  BY <2>2 DEF SomePage
<1>3. TypeOK
  <2>1. SomeTime \in Times
    BY TimesAssumption DEF SomeTime
  <2> QED  BY <1>1, <1>2, <2>1 DEF Init, TypeOK, Places, Kinds, Cids
<1> QED
  BY <1>3
     DEF Init, D!Init, D!Absent, IInv, OnPath, LockHeld, Carries, CidsResolve, NobodyDown

(***************************************************************************)
(* Steps that move one job along and leave the den alone.                  *)
(***************************************************************************)
LEMMA StartInv == ASSUME IInv, NEW cap \in Capacities, Start(cap) PROVE IInv'
<1>1. TypeOK'
  BY DEF IInv, TypeOK, Start, jobVars, D!Start, D!TypeOK
<1> QED
  BY <1>1 DEF IInv, Start, D!Start, jobVars, OnPath, LockHeld, Carries, CidsResolve, NobodyDown

LEMMA CrashInv == IInv /\ Crash => IInv'
<1> SUFFICES ASSUME IInv, Crash PROVE IInv'
  OBVIOUS
<1>1. TypeOK'
  BY DEF IInv, TypeOK, Crash, D!Crash, D!TypeOK, Places, Ended
<1>2. \A j \in Jobs : at'[j] \in {"unsent", "past"}
  BY DEF Crash
<1>3. OnPath' /\ LockHeld' /\ Carries' /\ NobodyDown'
  BY <1>2 DEF OnPath, LockHeld, Carries, NobodyDown
<1> QED
  BY <1>1, <1>3 DEF IInv, Crash, D!Crash, CidsResolve

LEMMA ArriveInv == ASSUME IInv, NEW j \in Jobs, NEW k \in Kinds, Arrive(j, k) PROVE IInv'
<1>1. /\ FirstStep(k) \in {"locking", "storing", "fetching", "saving"}
      /\ k = "index" => FirstStep(k) = "locking"
      /\ FirstStep(k) = "locking" => k = "index"
      /\ FirstStep(k) = "storing" => k = "archive"
      /\ FirstStep(k) = "fetching" => k = "crawl"
      /\ FirstStep(k) = "saving" => k = "shutdown"
  BY DEF FirstStep, Kinds
<1>2. TypeOK'
  BY <1>1 DEF IInv, TypeOK, Arrive, Go, denVars, D!TypeOK, Places, Waiting
<1>3. OnPath' /\ LockHeld'
  BY <1>1 DEF IInv, TypeOK, OnPath, LockHeld, Arrive, Go
<1>4. Carries' /\ NobodyDown'
  BY <1>1 DEF IInv, TypeOK, Carries, NobodyDown, Arrive, Go, denVars
<1> QED
  BY <1>2, <1>3, <1>4 DEF IInv, Arrive, denVars, CidsResolve

LEMMA LockCrawlerInv == ASSUME IInv, NEW j \in Jobs, LockCrawler(j) PROVE IInv'
<1>1. TypeOK'
  BY DEF IInv, TypeOK, LockCrawler, Go, denVars, D!TypeOK, Places, Waiting
<1>2. OnPath' /\ LockHeld'
  BY NoJobAssumption DEF IInv, TypeOK, OnPath, LockHeld, LockCrawler, Go
<1>3. Carries' /\ NobodyDown'
  BY DEF IInv, TypeOK, Carries, NobodyDown, LockCrawler, Go, denVars
<1> QED
  BY <1>1, <1>2, <1>3 DEF IInv, LockCrawler, denVars, CidsResolve

LEMMA FetchInv ==
  ASSUME IInv, NEW j \in Jobs, FetchPage(j) \/ FetchFails(j) PROVE IInv'
<1>1. TypeOK'
  BY DEF IInv, TypeOK, FetchPage, FetchFails, Go, denVars, D!TypeOK, Places, Waiting, Ended
<1>2. OnPath' /\ LockHeld'
  BY DEF IInv, TypeOK, OnPath, LockHeld, FetchPage, FetchFails, Go
<1>3. Carries' /\ NobodyDown'
  BY DEF IInv, TypeOK, OnPath, Carries, NobodyDown, FetchPage, FetchFails, Go, denVars
<1> QED
  BY <1>1, <1>2, <1>3 DEF IInv, FetchPage, FetchFails, denVars, CidsResolve

LEMMA StoreBodyInv == ASSUME IInv, NEW j \in Jobs, StoreBody(j) PROVE IInv'
<1>1. TypeOK'
  BY DEF IInv, TypeOK, StoreBody, Go, denVars, D!TypeOK, Places, Waiting, Cids, Pages
<1>2. OnPath' /\ LockHeld'
  BY DEF IInv, TypeOK, OnPath, LockHeld, StoreBody, Go
<1>3. Carries'
  BY DEF IInv, TypeOK, Carries, StoreBody, Go, Cids
<1>4. CidsResolve'
  BY DEF IInv, CidsResolve, StoreBody, denVars
<1>5. NobodyDown'
  BY DEF IInv, TypeOK, NobodyDown, StoreBody, Go, denVars
<1> QED  BY <1>1, <1>2, <1>3, <1>4, <1>5 DEF IInv

LEMMA PanicsInv == ASSUME IInv, NEW j \in Jobs, Panics(j) PROVE IInv'
<1>1. TypeOK'
  BY DEF IInv, TypeOK, Panics, Go, Release, denVars, D!TypeOK, Places, Ended, Pages
<1>2. OnPath' /\ LockHeld'
  BY DEF IInv, TypeOK, OnPath, LockHeld, Panics, Go, Release
<1>3. Carries' /\ NobodyDown'
  BY DEF IInv, TypeOK, Carries, NobodyDown, Panics, Go, denVars
<1>4. CidsResolve'
  BY DEF IInv, CidsResolve, Panics, denVars
<1> QED  BY <1>1, <1>2, <1>3, <1>4 DEF IInv

LEMMA AddEntryInv == ASSUME IInv, NEW j \in Jobs, AddEntry(j) PROVE IInv'
<1>1. /\ \A x \in entries' :
           \/ x \in entries
           \/ x \in D!Entries /\ x.content = [body |-> page[j].body, cid |-> cid[j]]
      /\ UNCHANGED <<capacity, disk, process>>
  BY AddEntryBrings DEF IInv
<1>2. TypeOK'
  BY <1>1 DEF IInv, TypeOK, AddEntry, Go, Release, D!TypeOK, Places, Ended
<1>3. OnPath' /\ LockHeld'
  BY DEF IInv, TypeOK, OnPath, LockHeld, AddEntry, Go, Release
<1>4. Carries'
  BY DEF IInv, TypeOK, Carries, AddEntry, Go
<1>5. NobodyDown'
  BY <1>1 DEF IInv, TypeOK, NobodyDown, AddEntry, Go
<1>6. CidsResolve'
  <2>1. at[j] = "adding" /\ UNCHANGED blobs
    BY DEF AddEntry
  <2>2. cid[j] # NoBody => cid[j] \in blobs /\ cid[j] = page[j].body
    BY <2>1 DEF IInv, Carries
  <2> QED  BY <1>1, <2>1, <2>2 DEF IInv, CidsResolve
<1> QED  BY <1>2, <1>3, <1>4, <1>5, <1>6 DEF IInv

LEMMA ShutdownInv ==
  ASSUME IInv, NEW j \in Jobs,
         SaveBegins(j) \/ SaveEnds(j) \/ SaveFails(j) \/ CloseStore(j)
  PROVE  IInv'
<1>1. TypeOK'
  BY DEF IInv, TypeOK, SaveBegins, SaveEnds, SaveFails, CloseStore, Go, Acked, denVars,
         D!TypeOK, D!SaveBegins, D!SaveEnds, D!SaveFails, D!Torn, D!Whole,
         Places, Waiting, Ended
<1>2. OnPath' /\ LockHeld'
  BY DEF IInv, TypeOK, OnPath, LockHeld, SaveBegins, SaveEnds, SaveFails, CloseStore, Go
<1>3. Carries' /\ NobodyDown'
  BY DEF IInv, TypeOK, OnPath, Carries, NobodyDown, denVars,
         SaveBegins, SaveEnds, SaveFails, CloseStore, Go,
         D!SaveBegins, D!SaveEnds, D!SaveFails
<1>4. CidsResolve'
  BY DEF IInv, CidsResolve, SaveBegins, SaveEnds, SaveFails, CloseStore, denVars,
         D!SaveBegins, D!SaveEnds, D!SaveFails, D!Torn, D!Whole
<1> QED  BY <1>1, <1>2, <1>3, <1>4 DEF IInv

LEMMA NextInv == IInv /\ [Next]_vars => IInv'
<1> SUFFICES ASSUME IInv, [Next]_vars PROVE IInv'
  OBVIOUS
<1>1. ASSUME NEW j \in Jobs, Handler(j) PROVE IInv'
  BY <1>1, LockCrawlerInv, FetchInv, StoreBodyInv, PanicsInv, AddEntryInv, ShutdownInv
     DEF Handler
<1>2. CASE UNCHANGED vars
  BY <1>2 DEF vars, IInv, TypeOK, D!TypeOK, OnPath, LockHeld, Carries, CidsResolve,
                  NobodyDown
<1> QED
  BY <1>1, <1>2, StartInv, CrashInv, ArriveInv DEF Next

LEMMA Inductive == Spec => []IInv
BY InitInv, NextInv, PTL DEF Spec

(* Type correctness of the handlers, the blob store and the den beneath.   *)
THEOREM TypeCorrect == Spec => []TypeOK
BY Inductive, PTL DEF IInv

(* A CID the den gives leads to its body (crawler.rs:54-60, ipfs.rs:76-87).*)
THEOREM CidsAlwaysResolve == Spec => []CidsResolve
BY Inductive, PTL DEF IInv

-----------------------------------------------------------------------------
(***************************************************************************)
(* Background indexing is in order.  Whoever came before a holder of the   *)
(* crawler's lock has ended, so only a job that came after it can replace  *)
(* its copy.                                                               *)
(***************************************************************************)
Earlier == \A j \in Jobs : before[j] \subseteq {i \in Jobs : at[i] \in {"done", "past"}}

OInv == IInv /\ Earlier /\ IndexedInOrder

(* Job j took the lock after all the others that are done with its page.   *)
LastTurn(j) ==
  kind[j] = "index" /\ \A i \in Acked \ {j} : page[i].url = page[j].url => i \in before[j]

(* An entry that holds job j's copy.                                       *)
CopyOf(j, e) ==
  e.content = [body |-> page[j].body, cid |-> cid[j]] /\ e.at = stamp[j]

LEMMA InOrder ==
  IndexedInOrder <=>
    \A j \in Acked : LastTurn(j) =>
      \A e \in entries : e.url = page[j].url => CopyOf(j, e)
BY DEF IndexedInOrder, LastTurn, CopyOf

(* A step that adds nothing to the den and brings no job to its end but a  *)
(* shutdown: a job on its way may change what it carries.                  *)
LEMMA QuietStep ==
  ASSUME OInv, IInv', NEW j \in Jobs, at[j] \notin {"done", "past"},
         UNCHANGED entries,
         \A k \in Jobs : k # j => /\ at'[k] = at[k] /\ kind'[k] = kind[k]
                                  /\ page'[k] = page[k] /\ cid'[k] = cid[k]
                                  /\ stamp'[k] = stamp[k] /\ before'[k] = before[k],
         at'[j] # "done" \/ kind'[j] = "shutdown",
         before'[j] \subseteq {i \in Jobs : at[i] \in {"done", "past"}}
  PROVE  OInv'
<1>1. Acked' = Acked /\ j \notin Acked
  BY DEF Acked
<1>2. Earlier'
  BY DEF OInv, Earlier
<1>3. ASSUME NEW k \in Acked', LastTurn(k)'
      PROVE  \A e \in entries' : e.url = page'[k].url => CopyOf(k, e)'
  <2>1. k \in Acked /\ k # j /\ k \in Jobs
    BY <1>1, <1>3 DEF Acked
  <2>2. /\ kind'[k] = kind[k] /\ page'[k] = page[k] /\ cid'[k] = cid[k]
        /\ stamp'[k] = stamp[k] /\ before'[k] = before[k]
    BY <2>1
  <2>3. \A i \in Acked \ {k} : page'[i] = page[i]
    BY <1>1 DEF Acked
  <2>4. LastTurn(k)
    BY <1>1, <1>3, <2>2, <2>3 DEF LastTurn
  <2>5. \A e \in entries : e.url = page[k].url => CopyOf(k, e)
    BY <2>1, <2>4, InOrder DEF OInv
  <2> QED  BY <2>2, <2>5 DEF CopyOf
<1>4. IndexedInOrder'
  BY <1>3 DEF IndexedInOrder, LastTurn, CopyOf
<1> QED  BY <1>2, <1>4 DEF OInv

(* Nobody is between the lock and the den when the lock is free.           *)
LEMMA LockCrawlerOrder ==
  ASSUME OInv, IInv', NEW j \in Jobs, LockCrawler(j) PROVE OInv'
<1>1. \A i \in Jobs : HadItsTurn(i) => at[i] = "done"
  BY NoJobAssumption DEF LockCrawler, HadItsTurn, OInv, IInv, LockHeld
<1>2. before'[j] \subseteq {i \in Jobs : at[i] \in {"done", "past"}}
  BY <1>1 DEF LockCrawler, OInv, IInv, TypeOK
<1>3. /\ at[j] = "locking" /\ at'[j] = "storing" /\ UNCHANGED entries
      /\ \A k \in Jobs : k # j => /\ at'[k] = at[k] /\ kind'[k] = kind[k]
                                  /\ page'[k] = page[k] /\ cid'[k] = cid[k]
                                  /\ stamp'[k] = stamp[k] /\ before'[k] = before[k]
  BY DEF LockCrawler, Go, denVars, OInv, IInv, TypeOK
<1> QED  BY <1>2, <1>3, QuietStep

LEMMA OnItsWayOrder ==
  ASSUME OInv, IInv', NEW j \in Jobs,
         FetchPage(j) \/ FetchFails(j) \/ StoreBody(j) \/ Panics(j)
  PROVE  OInv'
<1>1. /\ at[j] \in {"fetching", "storing"} /\ at'[j] \in {"storing", "failed", "adding", "panicked"}
      /\ UNCHANGED <<entries, before>>
      /\ \A k \in Jobs : k # j => /\ at'[k] = at[k] /\ kind'[k] = kind[k]
                                  /\ page'[k] = page[k] /\ cid'[k] = cid[k]
                                  /\ stamp'[k] = stamp[k]
  BY DEF FetchPage, FetchFails, StoreBody, Panics, Go, denVars, OInv, IInv, TypeOK
<1>2. before'[j] \subseteq {i \in Jobs : at[i] \in {"done", "past"}}
  BY <1>1 DEF OInv, Earlier
<1> QED  BY <1>1, <1>2, QuietStep

LEMMA ShutdownOrder ==
  ASSUME OInv, IInv', NEW j \in Jobs,
         SaveBegins(j) \/ SaveEnds(j) \/ SaveFails(j) \/ CloseStore(j)
  PROVE  OInv'
<1>1. /\ at[j] \in {"saving", "writing", "closing"}
      /\ UNCHANGED <<entries, before, kind, page, cid, stamp>>
      /\ \A k \in Jobs : k # j => at'[k] = at[k]
  BY DEF SaveBegins, SaveEnds, SaveFails, CloseStore, Go, denVars, OInv, IInv, TypeOK,
         D!SaveBegins, D!SaveEnds, D!SaveFails
<1>2. kind'[j] = "shutdown"
  BY <1>1 DEF OInv, IInv, OnPath
<1>3. before'[j] \subseteq {i \in Jobs : at[i] \in {"done", "past"}}
  BY <1>1 DEF OInv, Earlier
<1> QED  BY <1>1, <1>2, <1>3, QuietStep

LEMMA ArriveOrder ==
  ASSUME OInv, IInv', NEW j \in Jobs, NEW k \in Kinds, Arrive(j, k)
  PROVE  OInv'
<1>1. /\ at[j] = "unsent" /\ at'[j] = FirstStep(k) /\ UNCHANGED <<entries, before>>
      /\ \A i \in Jobs : i # j => /\ at'[i] = at[i] /\ kind'[i] = kind[i]
                                  /\ page'[i] = page[i] /\ cid'[i] = cid[i]
                                  /\ stamp'[i] = stamp[i]
  BY DEF Arrive, Go, denVars, OInv, IInv, TypeOK
<1>2. FirstStep(k) # "done"
  BY DEF FirstStep, Kinds
<1>3. before'[j] \subseteq {i \in Jobs : at[i] \in {"done", "past"}}
  BY <1>1 DEF OInv, Earlier
<1> QED  BY <1>1, <1>2, <1>3, QuietStep

(* An addition of an entry leaves the other pages' entries as they are,    *)
(* and one entry, the new one, of its own page.                            *)
LEMMA AddReplaces ==
  ASSUME NEW e \in D!Entries, D!Add(e)
  PROVE  \A x \in entries' :
           /\ x.url = e.url => x.content = e.content /\ x.at = e.at
           /\ x.url # e.url => x \in entries
<1> DEFINE c == D!Carried(e)
<1>1. c.url = e.url /\ c.content = e.content /\ c.at = e.at
  BY DEF D!Carried, D!Entries
<1>2. D!Kept(e) = {x \in entries : x.url # e.url}
  BY DEF D!Kept
<1>3. \/ entries' = D!Kept(e) \cup {c}
      \/ \E v \in D!Victims(D!Kept(e)) : entries' = (D!Kept(e) \ {v}) \cup {c}
  BY DEF D!Add
<1>4. \A x \in entries' : x = c \/ (x \in entries /\ x.url # e.url)
  BY <1>2, <1>3
<1> QED  BY <1>1, <1>4

LEMMA AddEntryOrder ==
  ASSUME OInv, IInv', NEW j \in Jobs, AddEntry(j)
  PROVE  OInv'
<1> DEFINE e == Entry(j)
           p == [e EXCEPT !.pinned = TRUE]
<1>1. /\ e \in D!Entries /\ e.url = page[j].url /\ CopyOf(j, e)
  BY EntryType DEF OInv, IInv, Entry_Type, Entry, CopyOf
<1>2. p \in D!Entries /\ p.url = e.url /\ p.content = e.content /\ p.at = e.at
  BY <1>1 DEF D!Entries
<1>3. PICK a \in D!Entries : D!Add(a) /\ a.url = page[j].url /\ CopyOf(j, a)
  BY <1>1, <1>2 DEF AddEntry, D!AddPage, D!PinPage, CopyOf
<1>4. \A x \in entries' :
        /\ x.url = page[j].url => CopyOf(j, x)
        /\ x.url # page[j].url => x \in entries
  BY <1>3, AddReplaces DEF CopyOf
<1>5. /\ at[j] = "adding" /\ at' = [at EXCEPT ![j] = "done"] /\ at'[j] = "done"
      /\ UNCHANGED <<kind, page, cid, stamp, before>>
      /\ \A k \in Jobs : k # j => at'[k] = at[k]
  BY DEF AddEntry, Go, OInv, IInv, TypeOK
<1>6. Earlier'
  BY <1>5 DEF OInv, Earlier
<1>7. j \in Acked'
  BY <1>5 DEF Acked, OInv, IInv, OnPath
<1>8. ASSUME NEW k \in Acked', LastTurn(k)', NEW x \in entries', x.url = page'[k].url
      PROVE  CopyOf(k, x)'
  <2>1. CASE k = j
    BY <1>4, <1>5, <1>8, <2>1 DEF CopyOf
  <2>2. CASE k # j
    <3>1. k \in Jobs /\ k \in Acked /\ Acked \subseteq Acked'
      BY <1>5, <1>8, <2>2 DEF Acked
    <3>2. LastTurn(k)
      BY <1>5, <1>8, <3>1 DEF LastTurn
    <3>3. j \notin before[k]
      BY <1>5, <3>1 DEF OInv, Earlier
    <3>4. page[k].url # page[j].url
      BY <1>5, <1>7, <1>8, <2>2, <3>3 DEF LastTurn
    <3>5. x \in entries
      BY <1>4, <1>5, <1>8, <3>4
    <3>6. CopyOf(k, x)
      BY <1>5, <1>8, <3>1, <3>2, <3>5, InOrder DEF OInv
    <3> QED  BY <1>5, <3>6 DEF CopyOf
  <2> QED  BY <2>1, <2>2
<1>9. IndexedInOrder'
  BY <1>8 DEF IndexedInOrder, LastTurn, CopyOf
<1> QED  BY <1>6, <1>9 DEF OInv

LEMMA NobodyDone ==
  ASSUME IInv', Acked' = {}, Earlier' PROVE OInv'
BY DEF OInv, IndexedInOrder

LEMMA OrderNext == OInv /\ [Next]_vars => OInv'
<1> SUFFICES ASSUME OInv, [Next]_vars PROVE OInv'
  OBVIOUS
<1>1. IInv'
  BY NextInv DEF OInv
<1>2. ASSUME NEW cap \in Capacities, Start(cap) PROVE OInv'
  <2>1. Acked' = {} /\ Earlier'
    BY <1>2 DEF Start, D!Start, jobVars, Acked, Earlier, OInv, IInv, NobodyDown
  <2> QED  BY <1>1, <2>1, NobodyDone
<1>3. CASE Crash
  <2>1. Acked' = {} /\ Earlier'
    BY <1>3 DEF Crash, Acked, Earlier, OInv
  <2> QED  BY <1>1, <2>1, NobodyDone
<1>4. ASSUME NEW j \in Jobs, Handler(j) PROVE OInv'
  BY <1>1, <1>4, LockCrawlerOrder, OnItsWayOrder, ShutdownOrder, AddEntryOrder DEF Handler
<1>5. ASSUME NEW j \in Jobs, NEW k \in Kinds, Arrive(j, k) PROVE OInv'
  BY <1>1, <1>5, ArriveOrder
<1>6. CASE UNCHANGED vars
  <2>1. Acked' = Acked
    BY <1>6 DEF vars, Acked
  <2>2. Earlier'
    BY <1>6 DEF vars, OInv, Earlier
  <2>3. IndexedInOrder'
    BY <1>6, <2>1 DEF vars, OInv, IndexedInOrder
  <2> QED  BY <1>1, <2>2, <2>3 DEF OInv
<1> QED  BY <1>2, <1>3, <1>4, <1>5, <1>6 DEF Next

(* The copy that stays is that of the index job that took the crawler's    *)
(* lock last (daemon.rs:106-113, crawler.rs:37-83).                        *)
THEOREM IndexingIsInOrder == Spec => []IndexedInOrder
<1>1. Init => OInv
  <2> SUFFICES ASSUME Init PROVE OInv
    OBVIOUS
  <2>1. IInv
    BY InitInv
  <2>2. Acked = {} /\ Earlier
    BY DEF Init, Acked, Earlier
  <2> QED  BY <2>1, <2>2 DEF OInv, IndexedInOrder
<1> QED  BY <1>1, OrderNext, PTL DEF Spec, OInv

-----------------------------------------------------------------------------
(***************************************************************************)
(* Every step of the handlers is a step of the den, or none.               *)
(***************************************************************************)
LEMMA StepIsDens == TypeOK /\ [Next]_vars => [D!Next]_(D!vars)
<1> SUFFICES ASSUME TypeOK, [Next]_vars PROVE [D!Next]_(D!vars)
  OBVIOUS
<1>1. ASSUME NEW cap \in Capacities, Start(cap) PROVE D!Next
  BY <1>1 DEF Start, D!Next
<1>2. CASE Crash
  BY <1>2 DEF Crash, D!Next
<1>3. ASSUME NEW j \in Jobs, AddEntry(j) PROVE D!Next
  <2>1. Entry(j) \in D!Entries
    BY EntryType DEF Entry_Type
  <2> QED  BY <1>3, <2>1 DEF AddEntry, D!Next
<1>4. ASSUME NEW j \in Jobs, SaveBegins(j) \/ SaveEnds(j) \/ SaveFails(j) PROVE D!Next
  BY <1>4 DEF SaveBegins, SaveEnds, SaveFails, D!Next, D!Save
<1>5. ASSUME NEW j \in Jobs,
             LockCrawler(j) \/ FetchPage(j) \/ FetchFails(j) \/ StoreBody(j)
               \/ Panics(j) \/ CloseStore(j)
      PROVE  UNCHANGED D!vars
  BY <1>5 DEF LockCrawler, FetchPage, FetchFails, StoreBody, Panics, CloseStore, denVars, D!vars
<1>6. ASSUME NEW j \in Jobs, NEW k \in Kinds, Arrive(j, k) PROVE UNCHANGED D!vars
  BY <1>6 DEF Arrive, denVars, D!vars
<1>7. CASE UNCHANGED vars
  BY <1>7 DEF vars, D!vars
<1> QED
  BY <1>1, <1>2, <1>3, <1>4, <1>5, <1>6, <1>7 DEF Next, Handler

(* The daemon's handlers use the den as Den says (den.rs:110-129, 180-186).*)
THEOREM ImplementsDen == Spec => UsesDen
<1>1. Init => D!Init
  BY DEF Init
<1> QED  BY <1>1, StepIsDens, TypeCorrect, PTL DEF Spec, UsesDen, D!Spec

-----------------------------------------------------------------------------
(***************************************************************************)
(* What was acknowledged is kept, where the den has room for every page.   *)
(* The property needs to know that a job once ended keeps its page, and    *)
(* what is on the disk.                                                    *)
(***************************************************************************)
Room == IsFiniteSet(Urls) /\ \A cap \in Capacities : cap \in Nat /\ cap >= Cardinality(Urls)

SavedEnded ==
  /\ \A j \in saved : at[j] \in {"done", "past"}
  /\ disk.state = "absent" => saved = {}

KInv == IInv /\ D!OnePerUrl /\ SavedEnded
             /\ (process # "down" => \A j \in Acked \cup saved : Held(entries, j))
             /\ (disk.state = "whole" => \A j \in saved : Held(disk.entries, j))

(* The den counts its entries as everybody does.                           *)
LEMMA SameCardinality ==
  ASSUME NEW S PROVE D!Cardinality(S) = Cardinality(S)
BY DEF D!Cardinality, Cardinality

(* With room for every page nothing is evicted.                            *)
LEMMA AddWithRoom ==
  ASSUME Room, TypeOK, D!OnePerUrl, NEW e \in D!Entries, D!Add(e)
  PROVE  entries' = D!Kept(e) \cup {D!Carried(e)}
<1> DEFINE K == D!Kept(e)
           f == [x \in K |-> x.url]
           U == Urls \ {e.url}
<1>1. K \subseteq entries /\ \A x \in K : x.url \in U
  BY DEF D!Kept, TypeOK, D!TypeOK, D!Entries
<1>2. f \in Injection(K, U)
  BY <1>1 DEF Injection, IsInjective, D!OnePerUrl
<1>3. IsFiniteSet(Urls) /\ e.url \in Urls
  BY DEF Room, D!Entries
<1>4. /\ IsFiniteSet(U) /\ Cardinality(U) = Cardinality(Urls) - 1
      /\ Cardinality(Urls) \in Nat /\ Cardinality(U) \in Nat
  BY <1>3, FS_RemoveElement, FS_CardinalityType
<1>5. IsFiniteSet(K) /\ Cardinality(K) <= Cardinality(U) /\ Cardinality(K) \in Nat
  BY <1>2, <1>4, FS_Injection, FS_CardinalityType
<1>6. capacity \in Nat /\ capacity >= Cardinality(Urls)
  BY DEF Room, TypeOK, D!TypeOK
<1>7. ~(Cardinality(D!Kept(e)) >= capacity)
  BY <1>4, <1>5, <1>6
<1>8. \/ /\ ~(D!Cardinality(D!Kept(e)) >= capacity)
         /\ entries' = D!Kept(e) \cup {D!Carried(e)}
      \/ D!Cardinality(D!Kept(e)) >= capacity
  BY DEF D!Add
<1>9. D!Cardinality(D!Kept(e)) = Cardinality(D!Kept(e))
  BY SameCardinality
<1> QED  BY <1>7, <1>8, <1>9

(* An addition keeps every page and every pin, and holds its own page.     *)
LEMMA AddKeeps ==
  ASSUME Room, TypeOK, D!OnePerUrl, NEW e \in D!Entries, D!Add(e)
  PROVE  /\ \A x \in entries :
              \E y \in entries' : y.url = x.url /\ (x.pinned => y.pinned)
         /\ \E y \in entries' : y.url = e.url /\ (e.pinned => y.pinned)
         /\ \A x, y \in entries' : x.url = y.url => x = y
<1> DEFINE c == D!Carried(e)
<1>1. entries' = D!Kept(e) \cup {c}
  BY AddWithRoom
<1>2. c.url = e.url /\ (e.pinned => c.pinned)
  BY DEF D!Carried, D!Entries
<1>3. \A x \in entries : x.url = e.url /\ x.pinned => c.pinned
  BY DEF D!Carried, D!Entries
<1>4. D!Kept(e) = {x \in entries : x.url # e.url}
  BY DEF D!Kept
<1> QED  BY <1>1, <1>2, <1>3, <1>4 DEF D!OnePerUrl

LEMMA AddEntryKeeps ==
  ASSUME Room, KInv, NEW j \in Jobs, AddEntry(j)
  PROVE  KInv'
<1> DEFINE e == Entry(j)
           p == [e EXCEPT !.pinned = TRUE]
<1>1. /\ e \in D!Entries /\ e.url = page[j].url
      /\ e.pinned = (kind[j] = "archive")
  BY EntryType DEF KInv, IInv, Entry_Type, Entry
<1>2. /\ p \in D!Entries /\ p.url = e.url /\ p.pinned
  BY <1>1 DEF D!Entries
<1>3. PICK a \in D!Entries : /\ D!Add(a) /\ a.url = page[j].url
                             /\ kind[j] = "archive" => a.pinned
  BY <1>1, <1>2 DEF AddEntry, D!AddPage, D!PinPage
<1>4. /\ process = "serving" /\ at[j] = "adding"
      /\ UNCHANGED <<capacity, disk, process, kind, page, saved>>
      /\ at' = [at EXCEPT ![j] = "done"]
  BY DEF AddEntry, D!AddPage, D!PinPage, Go
<1>5. /\ \A x \in entries :
           \E y \in entries' : y.url = x.url /\ (x.pinned => y.pinned)
      /\ \E y \in entries' : y.url = page[j].url /\ (kind[j] = "archive" => y.pinned)
      /\ \A x, y \in entries' : x.url = y.url => x = y
  <2>1. TypeOK /\ D!OnePerUrl
    BY DEF KInv, IInv
  <2> QED  BY <1>3, <2>1, AddKeeps
<1>6. IInv'
  BY AddEntryInv DEF KInv
<1>7. D!OnePerUrl'
  BY <1>4, <1>5 DEF KInv, D!OnePerUrl
<1>8. SavedEnded'
  BY <1>4 DEF KInv, SavedEnded, IInv, TypeOK
<1>9. \A k \in (Acked \cup saved)' : Held(entries, k)'
  <2> SUFFICES ASSUME NEW k \in (Acked \cup saved)' PROVE Held(entries, k)'
    OBVIOUS
  <2>1. CASE k = j
    BY <1>4, <1>5, <2>1 DEF Held
  <2>2. CASE k # j
    <3>1. k \in Acked \cup saved
      BY <1>4, <2>2 DEF Acked, KInv, IInv, TypeOK
    <3>2. Held(entries, k)
      BY <1>4, <3>1 DEF KInv
    <3> QED  BY <1>4, <1>5, <3>2 DEF Held
  <2> QED  BY <2>1, <2>2
<1>10. disk'.state = "whole" => \A k \in saved' : Held(disk.entries, k)'
  BY <1>4 DEF KInv, Held
<1> QED  BY <1>6, <1>7, <1>8, <1>9, <1>10 DEF KInv

(* A step of a job that is neither done nor saved, and of the den none.    *)
LEMMA OtherKeeps ==
  ASSUME KInv, IInv', UNCHANGED denVars, NEW j \in Jobs,
         at[j] \notin {"done", "past"}, process # "down",
         at' = [at EXCEPT ![j] = at'[j]],
         at'[j] # "done" \/ kind'[j] = "shutdown",
         \A k \in Jobs : k # j => kind'[k] = kind[k] /\ page'[k] = page[k],
         UNCHANGED saved
  PROVE  KInv'
<1>1. j \notin Acked \cup saved
  BY DEF Acked, KInv, SavedEnded
<1>2. (Acked \cup saved)' \subseteq Acked \cup saved
  BY DEF Acked, KInv, IInv, TypeOK
<1>3. \A k \in Acked \cup saved : kind'[k] = kind[k] /\ page'[k] = page[k]
  BY <1>1 DEF Acked, KInv, IInv, TypeOK
<1>4. D!OnePerUrl'
  BY DEF KInv, D!OnePerUrl, denVars
<1>5. SavedEnded'
  BY DEF KInv, SavedEnded, denVars, IInv, TypeOK
<1>6. process' # "down" => \A k \in (Acked \cup saved)' : Held(entries, k)'
  BY <1>2, <1>3 DEF KInv, Held, denVars
<1>7. disk'.state = "whole" => \A k \in saved' : Held(disk.entries, k)'
  BY <1>3 DEF KInv, Held, denVars
<1> QED  BY <1>4, <1>5, <1>6, <1>7 DEF KInv

LEMMA KInit == Room /\ Init => KInv
<1> SUFFICES ASSUME Room, Init PROVE KInv
  OBVIOUS
<1>1. IInv
  BY InitInv
<1> QED
  BY <1>1 DEF Init, D!Init, D!Absent, KInv, D!OnePerUrl, SavedEnded, Acked, Held

(* Any step of a job but AddEntry and the two ends of a save.              *)
LEMMA HandlerKeeps ==
  ASSUME Room, KInv, IInv', NEW j \in Jobs,
         \/ LockCrawler(j) \/ FetchPage(j) \/ FetchFails(j)
         \/ StoreBody(j) \/ Panics(j) \/ CloseStore(j)
  PROVE  KInv'
<1>1. at[j] \in Waiting /\ at[j] \notin {"done", "past", "unsent"}
  BY DEF LockCrawler, FetchPage, FetchFails, StoreBody, Panics, CloseStore, Waiting
<1>2. process # "down"
  BY <1>1 DEF KInv, IInv, NobodyDown
<1>3. /\ UNCHANGED denVars /\ UNCHANGED <<kind, saved>>
      /\ \A k \in Jobs : k # j => page'[k] = page[k]
      /\ at' = [at EXCEPT ![j] = at'[j]]
  BY DEF KInv, IInv, TypeOK, LockCrawler, FetchPage, FetchFails, StoreBody, Panics, CloseStore,
         Go, denVars
<1>4. at'[j] # "done" \/ kind'[j] = "shutdown"
  BY DEF KInv, IInv, TypeOK, OnPath, LockCrawler, FetchPage, FetchFails, StoreBody, Panics,
         CloseStore, Go
<1> QED  BY <1>1, <1>2, <1>3, <1>4, OtherKeeps

LEMMA ArriveKeeps ==
  ASSUME KInv, IInv', NEW j \in Jobs, NEW k \in Kinds, Arrive(j, k)
  PROVE  KInv'
<1>1. /\ at[j] = "unsent" /\ process # "down"
      /\ UNCHANGED denVars /\ UNCHANGED saved
      /\ \A i \in Jobs : i # j => kind'[i] = kind[i] /\ page'[i] = page[i]
  BY DEF KInv, IInv, TypeOK, Arrive
<1>2. FirstStep(k) # "done" /\ at' = [at EXCEPT ![j] = at'[j]] /\ at'[j] = FirstStep(k)
  BY DEF FirstStep, Kinds, Arrive, Go, KInv, IInv, TypeOK
<1> QED  BY <1>1, <1>2, OtherKeeps

LEMMA SaveKeeps ==
  ASSUME KInv, IInv', NEW j \in Jobs, SaveBegins(j) \/ SaveEnds(j) \/ SaveFails(j)
  PROVE  KInv'
<1>1. /\ at[j] \notin {"unsent", "done", "past"} /\ at'[j] \notin {"unsent", "done", "past"}
      /\ \A k \in Jobs : k # j => at'[k] = at[k]
      /\ UNCHANGED <<entries, kind, page>>
      /\ process # "down" /\ process' # "down"
  BY DEF SaveBegins, SaveEnds, SaveFails, Go, D!SaveBegins, D!SaveEnds, D!SaveFails,
         KInv, IInv, TypeOK
<1>2. Acked' = Acked
  BY <1>1 DEF Acked
<1>3. D!OnePerUrl'
  <2>1. D!OnePerUrl
    BY DEF KInv
  <2>2. disk' \in {disk, D!Torn, D!Whole(entries)}
    BY DEF SaveBegins, SaveEnds, SaveFails, D!SaveBegins, D!SaveEnds, D!SaveFails
  <2> QED  BY <1>1, <2>1, <2>2 DEF D!OnePerUrl, D!Torn, D!Whole
<1>4. saved' \in {saved, saved \cup Acked}
  BY DEF SaveBegins, SaveEnds, SaveFails
<1>5. SavedEnded'
  <2>1. \A k \in saved' : at'[k] \in {"done", "past"}
    BY <1>1, <1>4 DEF KInv, SavedEnded, Acked, IInv, TypeOK
  <2>2. disk'.state = "absent" => saved' = {}
    BY DEF KInv, SavedEnded, SaveBegins, SaveEnds, SaveFails, D!SaveBegins, D!SaveEnds,
           D!SaveFails, D!Torn, D!Whole
  <2> QED  BY <2>1, <2>2 DEF SavedEnded
<1>6. \A k \in (Acked \cup saved)' : Held(entries, k)'
  BY <1>1, <1>2, <1>4 DEF KInv, Held
<1>7. disk'.state = "whole" => \A k \in saved' : Held(disk.entries, k)'
  <2>1. CASE SaveBegins(j)
    BY <2>1 DEF SaveBegins, D!SaveBegins, D!Torn
  <2>2. CASE SaveEnds(j)
    BY <1>1, <1>6, <2>2, <1>4 DEF SaveEnds, D!SaveEnds, D!Whole, Held, KInv
  <2>3. CASE SaveFails(j)
    BY <2>3 DEF SaveFails, D!SaveFails, KInv, Held
  <2> QED  BY <2>1, <2>2, <2>3
<1> QED  BY <1>3, <1>5, <1>6, <1>7 DEF KInv

LEMMA StartKeeps ==
  ASSUME Room, KInv, IInv', NEW cap \in Capacities, Start(cap)
  PROVE  KInv'
<1>1. /\ process = "down" /\ process' # "down" /\ disk.state # "torn"
      /\ entries' = disk.entries
      /\ UNCHANGED <<disk, at, kind, page, saved>>
  BY DEF Start, D!Start, jobVars
<1>2. Acked' = {}
  BY <1>1 DEF Acked, KInv, IInv, NobodyDown
<1>3. D!OnePerUrl' /\ SavedEnded'
  BY <1>1 DEF KInv, D!OnePerUrl, SavedEnded
<1>4. \A k \in saved : Held(disk.entries, k)
  BY <1>1 DEF KInv, IInv, TypeOK, D!TypeOK, SavedEnded
<1> QED  BY <1>1, <1>2, <1>3, <1>4 DEF KInv, Held

LEMMA CrashKeeps ==
  ASSUME KInv, IInv', Crash
  PROVE  KInv'
<1>1. /\ process' = "down" /\ entries' = {}
      /\ UNCHANGED <<disk, kind, page, saved>>
      /\ at' = [j \in Jobs |-> IF at[j] = "unsent" THEN "unsent" ELSE "past"]
  BY DEF Crash, D!Crash
<1>2. D!OnePerUrl'
  BY <1>1 DEF KInv, D!OnePerUrl
<1>3. SavedEnded'
  BY <1>1 DEF KInv, SavedEnded, IInv, TypeOK
<1>4. disk'.state = "whole" => \A k \in saved' : Held(disk.entries, k)'
  BY <1>1 DEF KInv, Held
<1> QED  BY <1>1, <1>2, <1>3, <1>4 DEF KInv

LEMMA KNext ==
  ASSUME Room, KInv, [Next]_vars
  PROVE  KInv'
<1>1. IInv'
  BY NextInv DEF KInv
<1>2. ASSUME NEW cap \in Capacities, Start(cap) PROVE KInv'
  BY <1>1, <1>2, StartKeeps
<1>3. CASE Crash
  BY <1>1, <1>3, CrashKeeps
<1>4. ASSUME NEW j \in Jobs, Handler(j) PROVE KInv'
  BY <1>1, <1>4, HandlerKeeps, AddEntryKeeps, SaveKeeps DEF Handler
<1>5. ASSUME NEW j \in Jobs, NEW k \in Kinds, Arrive(j, k) PROVE KInv'
  BY <1>1, <1>5, ArriveKeeps
<1>6. CASE UNCHANGED vars
  <2>1. UNCHANGED <<entries, disk, process, at, kind, page, saved>>
    BY <1>6 DEF vars
  <2>2. Acked' = Acked
    BY <2>1 DEF Acked
  <2> QED
    BY <1>1, <2>1, <2>2 DEF KInv, D!OnePerUrl, SavedEnded, Held
<1> QED  BY <1>2, <1>3, <1>4, <1>5, <1>6 DEF Next

(* An acknowledged page is not lost, nor its pin, and what was saved is    *)
(* there after any crash (den.rs:180-186, 247-285, 319-328).               *)
THEOREM AcknowledgedIsKept ==
  ASSUME IsFiniteSet(Urls) PROVE Spec => []AckedIsKept
<1>1. CASE \A cap \in Capacities : cap >= Cardinality(Urls)
  <2>1. Room
    BY <1>1, CapacitiesAssumption DEF Room
  <2>2. Init => KInv
    BY <2>1, KInit
  <2>3. KInv /\ [Next]_vars => KInv'
    BY <2>1, KNext
  <2>4. KInv => AckedIsKept
    BY DEF KInv, AckedIsKept
  <2> QED  BY <2>2, <2>3, <2>4, PTL DEF Spec
<1>2. CASE ~\A cap \in Capacities : cap >= Cardinality(Urls)
  <2>1. AckedIsKept
    BY <1>2 DEF AckedIsKept
  <2> QED  BY <2>1, PTL
<1> QED  BY <1>1, <1>2
=============================================================================
