------------------------------- MODULE Discovery -------------------------------
(***************************************************************************)
(* How background work queues the download of a unit (an episode) that is  *)
(* missing: SearchPipeline.run_discovery searches for a release and hands  *)
(* it to DownloadManager.add_magnet, which refuses work the user has not   *)
(* allowed and looks for a download of the same unit before it writes a    *)
(* row (src/src/core/search_pipeline.py, downloader.py).  Several callers  *)
(* discover at the same time; every await is a place where another one may *)
(* run.  What becomes of a row is reduced to the statuses callers tell     *)
(* apart; DownloadQueue models the queue itself.                           *)
(***************************************************************************)
EXTENDS Naturals, FiniteSets

CONSTANTS
    Shows,         \* tracked items of the TV category
    Units,         \* their aired episodes, numbered in the order of broadcast
    ShowOf,        \* the show of an episode
    Magnets,       \* releases a search may choose for an episode
    Seekers        \* the callers of run_discovery

ASSUME DiscoveryAssumption == Units \subseteq Nat /\ ShowOf \in [Units -> Shows]

VARIABLES
    tracked,       \* shows in settings.tracked_items
    auto,          \* shows with automatic downloads on
    library,       \* episodes in the library
    rows,          \* the download of an episode by a release
    seek,          \* what each caller is doing
    raced          \* history: episodes two callers added at the same time

discoveryVars == <<tracked, auto, library, rows, seek, raced>>

\* "linked": the library has the files, and the release watch is still to be
\* told; "seeding": it has been.
Active == {"queued", "linked", "seeding"}
RowStatuses == Active \cup {"none", "complete", "failed", "cancelled"}

HasRow(u, among) == \E m \in Magnets : rows[u][m] \in among
Live(u) == HasRow(u, Active)

\* Episodes before one that the user has are gaps, which nothing fills unasked.
Frontier(u) == \A v \in library : ShowOf[v] = ShowOf[u] => v < u

Allowed(u) == ShowOf[u] \in tracked /\ ShowOf[u] \in auto

DiscoveryInit ==
    /\ tracked \in SUBSET Shows
    /\ auto \in SUBSET Shows
    /\ library = {}
    /\ rows = [u \in Units |-> [m \in Magnets |-> "none"]]
    /\ seek = [d \in Seekers |-> [at |-> "idle"]]
    /\ raced = {}

-----------------------------------------------------------------------------
(* run_discovery() and add_magnet() *)

SeekerAt(d, at) == seek[d].at = at
MoveTo(d, at) == seek' = [seek EXCEPT ![d].at = at]

StartSearch(d, u) == seek' = [seek EXCEPT ![d] = [at |-> "search", unit |-> u]]

SearchFinds(d, m) ==
    /\ SeekerAt(d, "search")
    /\ seek' = [seek EXCEPT ![d] = [at |-> "policy", unit |-> seek[d].unit, magnet |-> m]]
    /\ UNCHANGED <<tracked, auto, library, rows, raced>>

\* No acceptable candidate, or an exception.
SearchFails(d) ==
    /\ SeekerAt(d, "search")
    /\ MoveTo(d, "nothing")
    /\ UNCHANGED <<tracked, auto, library, rows, raced>>

\* The policy of the show as it is now; a refusal is an exception.
Permit(d) ==
    /\ SeekerAt(d, "policy")
    /\ MoveTo(d, IF Allowed(seek[d].unit) THEN "add" ELSE "refused")
    /\ UNCHANGED <<tracked, auto, library, rows, raced>>

\* Storage is short, or the torrent cannot be resolved.
AddRaises(d) ==
    /\ SeekerAt(d, "policy")
    /\ MoveTo(d, "refused")
    /\ UNCHANGED <<tracked, auto, library, rows, raced>>

Rivals(d) == {e \in Seekers \ {d} : SeekerAt(e, "write") /\ seek[e].unit = seek[d].unit}

\* Mutant: a duplicate is only found under the same magnet.
SameMagnet(d) == rows[seek[d].unit][seek[d].magnet] # "none"

\* Under the lock of the magnet: a row of the magnet is returned whatever its
\* status, and so is one of the same unit that is neither failed nor cancelled.
Duplicate(d) ==
    \/ rows[seek[d].unit][seek[d].magnet] # "none"
    \/ HasRow(seek[d].unit, Active \cup {"complete"})

LookUp(d) ==
    /\ SeekerAt(d, "add")
    /\ \A e \in Rivals(d) : seek[e].magnet # seek[d].magnet
    /\ MoveTo(d, IF Duplicate(d) THEN "queued" ELSE "write")
    /\ raced' = IF ~Duplicate(d) /\ Rivals(d) # {} THEN raced \cup {seek[d].unit} ELSE raced
    /\ UNCHANGED <<tracked, auto, library, rows>>

Write(d) ==
    /\ SeekerAt(d, "write")
    /\ rows' = [rows EXCEPT ![seek[d].unit][seek[d].magnet] = "queued"]
    /\ MoveTo(d, "queued")
    /\ UNCHANGED <<tracked, auto, library, raced>>

Discover(d) ==
    \/ \E m \in Magnets : SearchFinds(d, m)
    \/ SearchFails(d)
    \/ Permit(d)
    \/ AddRaises(d)
    \/ LookUp(d)
    \/ Write(d)

-----------------------------------------------------------------------------
(* What happens to a download *)

SetRow(u, m, from, to) ==
    /\ rows[u][m] = from
    /\ rows' = [rows EXCEPT ![u][m] = to]
    /\ UNCHANGED <<tracked, auto, seek, raced>>

DownloadFails(u, m) == SetRow(u, m, "queued", "failed") /\ UNCHANGED library
DownloadReady(u, m) == SetRow(u, m, "queued", "linked") /\ library' = library \cup {u}
SeedingEnds(u, m)   == SetRow(u, m, "seeding", "complete") /\ UNCHANGED library

=============================================================================
