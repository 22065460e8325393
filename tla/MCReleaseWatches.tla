--------------------------- MODULE MCReleaseWatches ---------------------------
(***************************************************************************)
(* A small instance of ReleaseWatches: one show with one episode, two      *)
(* rebuilds at a time.                                                     *)
(***************************************************************************)
EXTENDS ReleaseWatches

CONSTANTS i, u, m1, m2, s1, s2

MCShowOf == [v \in Units |-> i]

\* Bound: besides the rebuild of the start and the job, which go on for ever,
\* two disturbances with one release of the episode, or one with two.
Disturbances == edits + events + 2 * troubles + Cardinality(over)
Chosen == {m \in Magnets : rows[u][m] # "none" \/ \E d \in Seekers : SeekerAt(d, "policy") /\ seek[d].magnet = m}
InCast == Disturbances + Cardinality(Chosen) <= 3 /\ Disturbances <= 2

MCInit == Init /\ tracked = Shows /\ SyncAt(s1, "start")

\* The releases are interchangeable, and so are the rebuilds: the first is
\* chosen first.
FirstFirst ==
    /\ SyncAt(s1, "idle") /\ SyncAt(s2, "idle") => sync'[s2].at = "idle"
    /\ m2 \in Chosen' \ Chosen => m1 \in Chosen

MCSpec == MCInit /\ [][Next /\ InCast' /\ FirstFirst]_vars /\ Fairness
=============================================================================
