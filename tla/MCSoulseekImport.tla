--------------------------- MODULE MCSoulseekImport ---------------------------
(***************************************************************************)
(* A small instance of SoulseekImport: a torrent whose files can be linked *)
(* into the library, one whose file has to be copied, and three transfers, *)
(* two attempts a pass.                                                    *)
(***************************************************************************)
EXTENDS SoulseekImport

CONSTANTS t1, t2, f1, f2, g, s1, s2, s3

MCFilesOf == [t \in Torrents |-> IF t = t1 THEN {f1, f2} ELSE {g}]
MCRows == <<s1, s2, s3>>

\* Bound: one torrent, or the transfers.  Torrents and transfers share no file,
\* and none waits for another.
MCInit == Init /\ Cardinality({t \in Torrents : row[t].st # "absent"}) <= 1

MCNext == Next /\ (reported' # {} => \A t \in Torrents : row[t].st = "absent")

MCSpec == MCInit /\ [][MCNext]_vars /\ Fairness

=============================================================================
