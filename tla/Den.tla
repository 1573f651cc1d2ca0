--------------------------------- MODULE Den ---------------------------------
(***************************************************************************)
(* The den, the daemon's page store: daemon/src/den.rs, with the start-up  *)
(* of daemon/src/main.rs that loads it.                                    *)
(*                                                                         *)
(* entries stands for the Vec<DenEntry>.  The Vec is kept in order of      *)
(* insertion, which only decides between two entries fetched in the same   *)
(* second: here either may be the one evicted, so a set is enough.  What   *)
(* an entry says of its page (title, summary, keywords, body CID) is its   *)
(* content.  The mutex is held through every operation, none of which      *)
(* awaits, so each is one action; a save is two, as the file is truncated  *)
(* before it is written and the process may die in between.                *)
(***************************************************************************)
EXTENDS Naturals, FiniteSets

CONSTANTS
  Urls,
  Contents,     \* what can be known of a page
  Times,        \* fetched_at stamps
  Capacities    \* values of den.max_entries the user configures

ASSUME TimesAssumption == Times \subseteq Nat
ASSUME CapacitiesAssumption == Capacities \subseteq Nat \ {0}

VARIABLES
  entries,      \* Den.entries
  capacity,     \* Den.max_entries, read from the configuration at start-up
  disk,         \* den.json: absent, torn (does not parse) or whole
  process       \* "down", "serving", "saving" (inside fs::write)

vars == <<entries, capacity, disk, process>>

Entries == [url : Urls, content : Contents, at : Times, pinned : BOOLEAN]
Absent == [state |-> "absent", entries |-> {}]
Torn == [state |-> "torn", entries |-> {}]
Whole(es) == [state |-> "whole", entries |-> es]

TypeOK ==
  /\ entries \subseteq Entries
  /\ capacity \in Capacities
  /\ disk \in [state : {"absent", "torn", "whole"}, entries : SUBSET Entries]
  /\ process \in {"down", "serving", "saving"}

Init ==
  /\ entries = {}
  /\ capacity \in Capacities
  /\ disk = Absent
  /\ process = "down"

-----------------------------------------------------------------------------
(* Mutated Start: the last slot is kept free.                              *)
StartShort(cap) ==
  /\ process = "down"
  /\ disk.state # "torn"
  /\ entries' = disk.entries
  /\ capacity' = cap - 1
  /\ process' = "serving"
  /\ UNCHANGED disk

(* load_or_create and install.  A torn file is a parse error, on which     *)
(* main exits: nothing starts.  A file with more entries than the          *)
(* configured capacity is taken as it is.                                  *)
Start(cap) ==
  /\ process = "down"
  /\ disk.state # "torn"
  /\ entries' = disk.entries
  /\ capacity' = cap
  /\ process' = "serving"
  /\ UNCHANGED disk

-----------------------------------------------------------------------------
(* Den::add.                                                               *)

(* Mutated Carried: the new copy decides.                                  *)
CarriedAsGiven(e) == e

(* The entry takes over the pin of an earlier copy.                        *)
Carried(e) ==
  [e EXCEPT !.pinned = e.pinned \/ \E x \in entries : x.url = e.url /\ x.pinned]

(* Mutated Kept: no retain.                                                *)
KeptAll(e) == entries

(* What retain leaves.                                                     *)
Kept(e) == {x \in entries : x.url # e.url}

Oldest(es) == {x \in es : \A y \in es : x.at <= y.at}

Unpinned(es) == {x \in es : ~x.pinned}

(* Mutated Victims: the newest unpinned entry (max_by_key).                *)
VictimsNewest(es) ==
  IF Unpinned(es) # {}
  THEN {x \in Unpinned(es) : \A y \in Unpinned(es) : x.at >= y.at}
  ELSE Oldest(es)

(* Unpinned entries go first; the oldest of them.                          *)
Victims(es) == IF Unpinned(es) # {} THEN Oldest(Unpinned(es)) ELSE Oldest(es)

(* Mutated Add: off by one at capacity.                                    *)
AddLate(e) ==
  LET kept == Kept(e) IN
  IF Cardinality(kept) > capacity
  THEN \E v \in Victims(kept) : entries' = (kept \ {v}) \cup {Carried(e)}
  ELSE entries' = kept \cup {Carried(e)}

Add(e) ==
  LET kept == Kept(e) IN
  IF Cardinality(kept) >= capacity
  THEN \E v \in Victims(kept) : entries' = (kept \ {v}) \cup {Carried(e)}
  ELSE entries' = kept \cup {Carried(e)}

(* den::add_page: index_page and crawl_index, always unpinned.             *)
AddPage(e) ==
  /\ process = "serving"
  /\ ~e.pinned
  /\ Add(e)
  /\ UNCHANGED <<capacity, disk, process>>

(* den::pin_page: archive_page; the pin is forced.                         *)
PinPage(e) ==
  /\ process = "serving"
  /\ Add([e EXCEPT !.pinned = TRUE])
  /\ UNCHANGED <<capacity, disk, process>>

-----------------------------------------------------------------------------
(* den::save: fs::write truncates the file, then writes it.                *)
SaveBegins ==
  /\ process = "serving"
  /\ disk' = Torn
  /\ process' = "saving"
  /\ UNCHANGED <<entries, capacity>>

SaveEnds ==
  /\ process = "saving"
  /\ disk' = Whole(entries)
  /\ process' = "serving"
  /\ UNCHANGED <<entries, capacity>>

(* The write fails half way (a full disk): the error is logged.            *)
SaveFails ==
  /\ process = "saving"
  /\ process' = "serving"
  /\ UNCHANGED <<entries, capacity, disk>>

(* The process ends, by a kill or a crash: nothing of it is left.          *)
Crash ==
  /\ process # "down"
  /\ process' = "down"
  /\ entries' = {}
  /\ UNCHANGED <<capacity, disk>>

Save == SaveBegins \/ SaveEnds \/ SaveFails

Next ==
  \/ \E cap \in Capacities : Start(cap)
  \/ \E e \in Entries : AddPage(e) \/ PinPage(e)
  \/ Save
  \/ Crash

Spec == Init /\ [][Next]_vars

-----------------------------------------------------------------------------
PinnedUrls == {x.url : x \in {y \in entries : y.pinned}}
HeldUrls == {x.url : x \in entries}

(* The step adds page e, indexed or archived.                              *)
Added(e) == AddPage(e) \/ PinPage(e)

(* A step of a process that runs before and after it.                      *)
Running == process # "down" /\ process' # "down"

(* A page is in the den once, in memory and in the file: lookups that take *)
(* the first match (is_pinned, the pin that add carries over) see all      *)
(* there is (den.rs:252-256, 339-343).                                     *)
OnePerUrl ==
  \A es \in {entries, disk.entries} :
    \A x, y \in es : x.url = y.url => x = y

(* While the daemon runs a pin is lost only by eviction from a den that    *)
(* is full of pins: as many as max_entries, no unpinned page but perhaps   *)
(* an older copy of the one being added, and one at a time.  No background *)
(* indexing of the same page, and no order of indexing and archiving,      *)
(* unpins it (den.rs:247-285).                                             *)
PinsKept ==
  [][Running =>
       \A u \in PinnedUrls \ PinnedUrls' :
         /\ Cardinality(PinnedUrls) >= capacity
         /\ \E e \in Entries : Added(e)
         /\ \A e \in Entries :
              Added(e) => /\ e.url # u
                          /\ \A x \in Unpinned(entries) : x.url = e.url
         /\ PinnedUrls \ {u} \subseteq PinnedUrls']_vars

(* The den grows only within its capacity, also when it was loaded with    *)
(* more entries than the configuration now allows (den.rs:209-236, 260).   *)
GrowsWithinCapacity ==
  [][Running /\ Cardinality(entries') > Cardinality(entries)
       => Cardinality(entries') <= capacity]_vars

(* An unpinned page leaves a running den only to make room for another     *)
(* page that is being added, and it is then the one not fetched for        *)
(* longest among all the unpinned pages, the added page's own older copy   *)
(* aside (den.rs:258-268).                                                 *)
EvictsTheStalest ==
  [][Running =>
       \A x \in entries :
         x.url \notin HeldUrls' /\ ~x.pinned =>
           /\ \E e \in Entries : Added(e)
           /\ \A e \in Entries :
                Added(e) => \A y \in Unpinned(entries) :
                              y.url # e.url => x.at <= y.at]_vars
=============================================================================
