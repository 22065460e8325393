------------------------- MODULE SoulseekImportProofs -------------------------
(***************************************************************************)
(* What TLAPS proves of LibraryImport and SoulseekImport for any torrents  *)
(* and transfers, any number of names in the library, any budget and any   *)
(* number of crashes and failed operations: no payload is lost, what is    *)
(* recorded as filed is whole, and a payload that can be linked has one    *)
(* name.                                                                   *)
(***************************************************************************)
EXTENDS SoulseekImport, FiniteSetTheorems, WellFoundedInduction, TLAPS

-----------------------------------------------------------------------------
(* The invariant *)

TorrentFiles == UNION {FilesOf[t] : t \in Torrents}

\* The paths of a row lead to whole files.
PathsWhole(lib, item) == \A p \in Payloads : item.org[p] # 0 => lib[p][item.org[p]] = "whole"

\* A worker has read such rows, and deals with the files of a torrent.  It
\* deletes a source only when the copy is whole, copies only what cannot be
\* linked, and links under the planned name.
WorkerGood(lib, s) ==
    /\ PathsWhole(lib, s.item)
    /\ \A t \in Torrents : PathsWhole(lib, s.list[t])
    /\ s.todo \subseteq TorrentFiles
    /\ s.at \in {"place", "copy", "drop"} => s.file \in TorrentFiles
    /\ s.at = "place" /\ s.file \in Linkable => s.slot = 1
    /\ s.at = "copy" => s.file \notin Linkable
    /\ s.at = "drop" => lib[s.file][s.slot] = "whole"

InLibrary(lib, p) == \E k \in Slots : lib[p][k] = "whole"

\* The monitor overwrites nothing that is whole: no worker files its transfers.
PassGood(lib, s, file) ==
    /\ s.at \in {"place", "copy", "filed"} => s.left # {}
    /\ s.at \in {"place", "copy"} => lib[file][s.slot] # "whole"
    /\ s.at = "place" /\ file \in Linkable => s.slot = 1
    /\ s.at = "copy" => file \notin Linkable
    /\ s.at = "filed" => InLibrary(lib, file)
    /\ \A p \in s.keys : InLibrary(lib, p)

RowsGood == \A t \in Torrents : PathsWhole(library, row[t])
WorkersGood == \A w \in Workers : WorkerGood(library, worker[w])
LedgerGood == PassGood(library, pass, File) /\ \A p \in imported : InLibrary(library, p)

\* What can be linked is there under the planned name, and whole, or not at all.
LinksGood(lib) ==
    \A p \in Linkable, k \in Slots : lib[p][k] # "none" => k = 1 /\ lib[p][k] = "whole"

Inv == TypeOK /\ RowsGood /\ WorkersGood /\ LedgerGood /\ LinksGood(library)

-----------------------------------------------------------------------------
(* Names and contents of the library *)

Libraries == [Payloads -> [Slots -> {"none", "part", "whole"}]]

Grows(lib, lib2) ==
    \A p \in Payloads, k \in Slots : lib[p][k] = "whole" => lib2[p][k] = "whole"

\* Every set of numbers that is not empty has a least one.
LEMMA Least ==
    ASSUME NEW S \in SUBSET Nat, S # {}
    PROVE  \E k \in S : \A l \in S : k <= l
<1> DEFINE Less == OpToRel(<, Nat)
<1>1. \A k, l \in Nat : k < l => <<k, l>> \in Less
  BY SMT DEF OpToRel
<1>2. IsWellFoundedOn(Less, Nat)
  BY NatLessThanWellFounded
<1> HIDE DEF Less
<1>3. PICK k \in S : \A l \in S : ~(<<l, k>> \in Less)
  BY <1>2, WFMin
<1>4. \A l \in S : ~(l < k)
  BY <1>1, <1>3
<1> QED
  BY <1>4

\* The name chosen is free or holds the payload already, and it is the planned
\* one for what can be linked.
LEMMA DestinationIs ==
    ASSUME library \in Libraries, NEW p \in Payloads
    PROVE  /\ Destination(p) \in 0..MaxSlots
           /\ Destination(p) # 0 =>
                Destination(p) \in Slots /\ library[p][Destination(p)] \in {"none", "whole"}
           /\ p \in Linkable /\ LinksGood(library) => Destination(p) = 1
<1> DEFINE free == Slots \ Taken(p)
           k == CHOOSE k \in free : \A l \in free : k <= l
<1>0. MaxSlots \in Nat \ {0} /\ 1 \in Slots /\ Slots \subseteq Nat
  BY ImportAssumption DEF ImportAssumption, Slots
<1>1. free # {} => k \in free
  <2>1. SUFFICES ASSUME free # {} PROVE \E l \in free : \A m \in free : l <= m
    OBVIOUS
  <2>2. free \in SUBSET Nat
    BY <1>0
  <2> HIDE DEF free
  <2> QED
    BY <2>1, <2>2, Least
<1>2. \A l \in free : l \in Slots /\ library[p][l] = "none"
  BY DEF Taken
<1>3. 1 \in free => free # {}
  OBVIOUS
<1>4. Destination(p) = IF 1 \in free \/ library[p][1] = "whole" THEN 1
                       ELSE IF free = {} THEN 0 ELSE k
  BY DEF Destination
<1>5. p \in Linkable /\ LinksGood(library) => 1 \in free \/ library[p][1] = "whole"
  BY <1>0 DEF LinksGood, Taken
<1> HIDE DEF free, k
<1> QED
  BY <1>0, <1>1, <1>2, <1>4, <1>5 DEF Slots

\* Who writes part of a file where nothing whole is, or a whole file, takes
\* nothing away.
LEMMA PutGrows ==
    ASSUME library \in Libraries, LinksGood(library),
           NEW p \in Payloads, NEW k \in Slots, NEW content \in {"part", "whole"},
           content = "whole" \/ library[p][k] # "whole",
           p \in Linkable => k = 1 /\ content = "whole",
           Put(p, k, content)
    PROVE  /\ library' \in Libraries
           /\ Grows(library, library')
           /\ LinksGood(library')
           /\ library'[p][k] = content
           /\ \A q \in Payloads \ {p} : library'[q] = library[q]
<1>0. Linkable \subseteq Payloads
  BY ImportAssumption DEF ImportAssumption
<1>1. library' = [library EXCEPT ![p] = [library[p] EXCEPT ![k] = content]]
  BY DEF Put, Libraries
<1>2. library[p] \in [Slots -> {"none", "part", "whole"}]
  BY DEF Libraries
<1>3. library'[p] = [library[p] EXCEPT ![k] = content]
  BY <1>1 DEF Libraries
<1>4. \A q \in Payloads \ {p} : library'[q] = library[q]
  BY <1>1 DEF Libraries
<1>5. library'[p] \in [Slots -> {"none", "part", "whole"}]
  BY <1>2, <1>3
<1>6. library' \in Libraries
  BY <1>1, <1>3, <1>5 DEF Libraries
<1>7. \A l \in Slots : library'[p][l] = IF l = k THEN content ELSE library[p][l]
  BY <1>2, <1>3
<1>8. Grows(library, library')
  BY <1>4, <1>7 DEF Grows
<1>9. LinksGood(library')
  BY <1>0, <1>4, <1>7 DEF LinksGood
<1> QED
  BY <1>4, <1>6, <1>7, <1>8, <1>9

-----------------------------------------------------------------------------
(* What a step that takes nothing away preserves *)

Kept == \A p \in Payloads : p \in staging \/ Filed(p) => p \in staging' \/ Filed(p)'

\* Row: paths to whole files stay such.
LEMMA PathsStay ==
    ASSUME NEW lib \in Libraries, NEW lib2 \in Libraries, Grows(lib, lib2),
           NEW item \in Row, PathsWhole(lib, item)
    PROVE  PathsWhole(lib2, item)
BY DEF PathsWhole, Grows, Row, Slots

LEMMA WorkerStays ==
    ASSUME NEW lib \in Libraries, NEW lib2 \in Libraries, Grows(lib, lib2),
           NEW s \in WorkerState, WorkerGood(lib, s)
    PROVE  WorkerGood(lib2, s)
<1>1. s.item \in Row /\ (\A t \in Torrents : s.list[t] \in Row) /\ s.file \in Payloads /\ s.slot \in Slots
  BY DEF WorkerState
<1>2. PathsWhole(lib2, s.item) /\ \A t \in Torrents : PathsWhole(lib2, s.list[t])
  BY <1>1, PathsStay DEF WorkerGood
<1> QED
  BY <1>1, <1>2 DEF WorkerGood, Grows

LEMMA InLibraryStays ==
    ASSUME NEW lib \in Libraries, NEW lib2 \in Libraries, Grows(lib, lib2),
           NEW p \in Payloads, InLibrary(lib, p)
    PROVE  InLibrary(lib2, p)
BY DEF InLibrary, Grows

\* The files of transfers are not those of torrents.
LEMMA FoldersOfTheirOwn ==
    /\ Transfers \subseteq Payloads /\ TorrentFiles \subseteq Payloads
    /\ Transfers \cap TorrentFiles = {}
    /\ DOMAIN Rows = 1..Len(Rows) /\ \A i \in DOMAIN Rows : Rows[i] \in Transfers
    /\ \A t \in Torrents : FilesOf[t] \subseteq TorrentFiles
<1>1. DOMAIN Rows = 1..Len(Rows) /\ \A i \in DOMAIN Rows : Rows[i] \in Payloads
  BY SoulseekAssumption DEF SoulseekAssumption
<1>2. \A i \in DOMAIN Rows, t \in Torrents : Rows[i] \notin FilesOf[t]
  BY SoulseekAssumption DEF SoulseekAssumption
<1>3. TorrentFiles \subseteq Payloads
  BY ImportAssumption DEF ImportAssumption, TorrentFiles
<1> QED
  BY <1>1, <1>2, <1>3 DEF Transfers, TorrentFiles

\* The pass is at a row of slskd's as long as one is left.
LEMMA FileIs ==
    ASSUME pass.left \in SUBSET DOMAIN Rows, pass.left # {}
    PROVE  First \in pass.left /\ File \in Transfers
<1>1. pass.left \in SUBSET Nat
  BY FoldersOfTheirOwn
<1>2. \E i \in pass.left : \A j \in pass.left : i <= j
  BY <1>1, Least
<1> QED
  BY <1>2, FoldersOfTheirOwn DEF First, File

-----------------------------------------------------------------------------
(* Steps of the workers *)

\* A step of the monitors or of start-up goes on from good rows and workers to
\* good ones, over a library that grows, and leaves the transfers alone.
LEMMA WorkersMove ==
    ASSUME Inv, Others,
           library' \in Libraries, Grows(library, library'), LinksGood(library'),
           \A p \in Transfers : library'[p] = library[p],
           row' \in [Torrents -> Row], \A t \in Torrents : PathsWhole(library', row'[t]),
           worker' \in [Workers -> WorkerState],
           \A w \in Workers : WorkerGood(library', worker'[w]),
           staging' \subseteq Payloads,
           \A p \in staging \ staging' : InLibrary(library', p),
           troubles' \in 0..MaxTroubles, failed' \subseteq Payloads
    PROVE  Inv' /\ Kept
<1>1. TypeOK'
  BY DEF Inv, TypeOK, Others, Libraries
<1>2. RowsGood' /\ WorkersGood' /\ LinksGood(library)'
  BY DEF RowsGood, WorkersGood
<1>3. \A p \in Transfers : InLibrary(library, p) => InLibrary(library', p)
  BY DEF InLibrary
<1>4. pass' = pass /\ imported' = imported /\ File' = File
  BY DEF Others, File, First
<1>5. pass.left # {} => File \in Transfers
  BY FileIs DEF Inv, TypeOK, PassState
<1>6. pass.keys \subseteq Transfers /\ imported \subseteq Transfers
  BY DEF Inv, TypeOK, PassState
<1>7. PassGood(library', pass, File)
  BY <1>3, <1>5, <1>6 DEF Inv, LedgerGood, PassGood
<1>8. LedgerGood'
  BY <1>3, <1>4, <1>6, <1>7 DEF Inv, LedgerGood
<1>9. Kept
  <2>1. library \in Libraries
    BY DEF Inv, TypeOK, Libraries
  <2>2. \A p \in Payloads : InLibrary(library, p) => InLibrary(library', p)
    BY <2>1, InLibraryStays
  <2>3. \A p \in Payloads : (Filed(p) <=> InLibrary(library, p)) /\ (Filed(p)' <=> InLibrary(library', p))
    BY DEF Filed, InLibrary
  <2> QED
    BY <2>2, <2>3 DEF Kept
<1> QED
  BY <1>1, <1>2, <1>8, <1>9 DEF Inv

\* One worker moves.
LEMMA WorkerMoves ==
    ASSUME Inv, Others, NEW w \in Workers, NEW s \in WorkerState,
           WorkerGood(library', s), worker' = [worker EXCEPT ![w] = s],
           library' \in Libraries, Grows(library, library'), LinksGood(library'),
           \A p \in Transfers : library'[p] = library[p],
           row' \in [Torrents -> Row], \A t \in Torrents : PathsWhole(library', row'[t]),
           staging' \subseteq Payloads,
           \A p \in staging \ staging' : InLibrary(library', p),
           troubles' \in 0..MaxTroubles, failed' \subseteq Payloads
    PROVE  Inv' /\ Kept
<1>1. worker \in [Workers -> WorkerState] /\ library \in Libraries
  BY DEF Inv, TypeOK, Libraries
<1>2. worker' \in [Workers -> WorkerState]
  BY <1>1
<1>3. \A v \in Workers : WorkerGood(library', worker[v])
  BY <1>1, WorkerStays DEF Inv, WorkersGood
<1>4. \A v \in Workers : WorkerGood(library', worker'[v])
  BY <1>1, <1>3
<1> QED
  BY <1>2, <1>4, WorkersMove

\* One worker moves, and library and rows stay as they are.
LEMMA WorkerWaits ==
    ASSUME Inv, Others, NEW w \in Workers, NEW s \in WorkerState,
           WorkerGood(library, s), worker' = [worker EXCEPT ![w] = s],
           library' = library, row' = row, staging' \subseteq Payloads,
           \A p \in staging \ staging' : InLibrary(library, p),
           troubles' \in 0..MaxTroubles, failed' \subseteq Payloads
    PROVE  Inv' /\ Kept
<1>1. library' \in Libraries /\ Grows(library, library') /\ LinksGood(library')
  BY DEF Inv, TypeOK, Libraries, Grows
<1>2. row' \in [Torrents -> Row] /\ \A t \in Torrents : PathsWhole(library', row'[t])
  BY DEF Inv, TypeOK, RowsGood
<1>3. WorkerGood(library', s) /\ \A p \in staging \ staging' : InLibrary(library', p)
  OBVIOUS
<1> QED
  BY <1>1, <1>2, <1>3, WorkerMoves

\* A row gets the paths of a row the worker has read.
LEMMA RowWritten ==
    ASSUME Inv, NEW w \in Workers, NEW s \in WorkerState, WorkerGood(library, s),
           worker' = [worker EXCEPT ![w] = s], NEW t \in Torrents, NEW item \in Row,
           PathsWhole(library, item), Writes(t, item), Others,
           UNCHANGED <<staging, library, troubles, failed>>
    PROVE  Inv' /\ Kept
<1>1. library' \in Libraries /\ Grows(library, library') /\ LinksGood(library')
  BY DEF Inv, TypeOK, Libraries, Grows
<1>2. row' = [row EXCEPT ![t] = item] /\ row \in [Torrents -> Row]
  BY DEF Inv, TypeOK, Writes
<1>3. row' \in [Torrents -> Row]
  BY <1>2
<1>4. \A u \in Torrents : PathsWhole(library', row'[u])
  BY <1>2 DEF Inv, RowsGood
<1>5. WorkerGood(library', s) /\ staging' \subseteq Payloads /\ troubles' \in 0..MaxTroubles /\ failed' \subseteq Payloads
  BY DEF Inv, TypeOK
<1>6. (\A p \in Transfers : library'[p] = library[p]) /\ \A p \in staging \ staging' : InLibrary(library', p)
  OBVIOUS
<1> QED
  BY <1>1, <1>3, <1>4, <1>5, <1>6, WorkerMoves

-----------------------------------------------------------------------------
(* The import of one file *)

\* The path that is noted leads to a whole file.
LEMMA RecordedGood ==
    ASSUME NEW lib \in Libraries, NEW o \in WorkerState, WorkerGood(lib, o),
           NEW p \in Payloads, NEW k \in Slots, lib[p][k] = "whole"
    PROVE  LET s == [o EXCEPT !.at = "file", !.item.org[p] = k, !.todo = @ \ {p}, !.changed = TRUE]
           IN  s \in WorkerState /\ WorkerGood(lib, s)
<1> DEFINE org == [o.item.org EXCEPT ![p] = k]
           item == [st |-> o.item.st, org |-> org]
           s == [o EXCEPT !.at = "file", !.item = item, !.todo = o.todo \ {p}, !.changed = TRUE]
<1>0. o.item \in Row /\ o.todo \subseteq Payloads /\ k \in 0..MaxSlots
  BY ImportAssumption DEF WorkerState, Slots, ImportAssumption
<1>1. [o EXCEPT !.at = "file", !.item.org[p] = k, !.todo = @ \ {p}, !.changed = TRUE] = s
  <2>1. [o.item EXCEPT !.org[p] = k] = item
    BY <1>0 DEF Row
  <2>2. [o EXCEPT !.at = "file", !.item.org[p] = k, !.todo = @ \ {p}, !.changed = TRUE]
        = [o EXCEPT !.at = "file", !.item = [o.item EXCEPT !.org[p] = k], !.todo = o.todo \ {p},
                    !.changed = TRUE]
    BY DEF WorkerState
  <2> QED
    BY <2>1, <2>2
<1>2. org \in [Payloads -> 0..MaxSlots]
  BY <1>0 DEF Row
<1>3. item \in Row
  BY <1>0, <1>2 DEF Row
<1>4. PathsWhole(lib, item)
  BY <1>0 DEF WorkerGood, PathsWhole, Row
<1> HIDE DEF org, item
<1>5. s \in WorkerState
  BY <1>0, <1>3 DEF WorkerState
<1>6. s.at = "file" /\ s.item = item /\ s.todo \subseteq o.todo /\ s.list = o.list
  BY DEF WorkerState
<1> HIDE DEF s
<1>7. WorkerGood(lib, s)
  BY <1>4, <1>6 DEF WorkerGood
<1> QED
  BY <1>1, <1>5, <1>7

\* Recorded() replaces the worker by such a one.
LEMMA RecordedIs ==
    ASSUME Inv, NEW w \in Workers, NEW lib \in Libraries, Grows(library, lib),
           NEW p \in Payloads, NEW k \in Slots, lib[p][k] = "whole", Recorded(w, p, k)
    PROVE  \E s \in WorkerState : WorkerGood(lib, s) /\ worker' = [worker EXCEPT ![w] = s]
<1> DEFINE s == [worker[w] EXCEPT !.at = "file", !.item.org[p] = k, !.todo = @ \ {p}, !.changed = TRUE]
<1>1. worker[w] \in WorkerState /\ library \in Libraries
  BY DEF Inv, TypeOK, Libraries
<1>2. WorkerGood(lib, worker[w])
  BY <1>1, WorkerStays DEF Inv, WorkersGood
<1>3. s \in WorkerState /\ WorkerGood(lib, s)
  BY <1>1, <1>2, RecordedGood
<1>4. worker' = [worker EXCEPT ![w] = s]
  BY DEF Recorded
<1> HIDE DEF s
<1> QED
  BY <1>3, <1>4

\* A worker goes to a label that promises nothing of its file.
LEMMA GoesIs ==
    ASSUME Inv, NEW w \in Workers, NEW lib \in Libraries, Grows(library, lib),
           NEW at \in {"file", "seed", "enough", "complete", "copy", "drop"},
           at \in {"copy", "drop"} => worker[w].at \in {"place", "copy"},
           at = "copy" => worker[w].file \notin Linkable,
           at = "drop" => lib[worker[w].file][worker[w].slot] = "whole", Goes(w, at)
    PROVE  \E s \in WorkerState : WorkerGood(lib, s) /\ worker' = [worker EXCEPT ![w] = s]
<1> DEFINE o == worker[w]
           s == [o EXCEPT !.at = at]
<1>1. o \in WorkerState /\ library \in Libraries
  BY DEF Inv, TypeOK, Libraries
<1>2. WorkerGood(lib, o)
  BY <1>1, WorkerStays DEF Inv, WorkersGood
<1>3. worker' = [worker EXCEPT ![w] = s]
  BY DEF Goes
<1>4. s \in WorkerState
  BY <1>1 DEF WorkerState
<1>5. s.at = at /\ \A f \in {"item", "todo", "list", "file", "slot"} : s[f] = o[f]
  BY <1>1 DEF WorkerState
<1>6. s.item = o.item /\ s.todo = o.todo /\ s.list = o.list /\ s.file = o.file /\ s.slot = o.slot
  BY <1>1 DEF WorkerState
<1> HIDE DEF s
<1>7. WorkerGood(lib, s)
  BY <1>2, <1>5, <1>6 DEF WorkerGood
<1> QED
  BY <1>3, <1>4, <1>7

\* The steps of an import.
LEMMA ImportStep ==
    ASSUME Inv, Others, NEW w \in Workers, Import(w)
    PROVE  Inv' /\ Kept
<1> DEFINE o == worker[w]
           f == o.file
<1>0. /\ library \in Libraries /\ Grows(library, library) /\ LinksGood(library)
      /\ staging \subseteq Payloads /\ troubles \in 0..MaxTroubles /\ failed \subseteq Payloads
      /\ o \in WorkerState /\ WorkerGood(library, o) /\ row \in [Torrents -> Row]
      /\ MaxTroubles \in Nat /\ Linkable \subseteq Payloads
  BY ImportAssumption DEF Inv, TypeOK, Libraries, Grows, WorkersGood, ImportAssumption
<1>a. /\ f \in Payloads /\ o.slot \in Slots /\ o.todo \subseteq Payloads /\ o.t \in Torrents
      /\ o.item \in Row /\ o.then \in {"off", "seed", "clean", "next"}
  BY <1>0 DEF WorkerState
<1>b. \A p \in Payloads, k \in Slots : library[p][k] = "whole" => InLibrary(library, p)
  BY DEF InLibrary
<1>1. ASSUME NEW p \in Pending(w), library[p][Destination(p)] = "whole",
             staging' = IF o.moves /\ p \notin Linkable THEN staging \ {p} ELSE staging,
             Recorded(w, p, Destination(p)), UNCHANGED <<library, row, troubles, failed>>
      PROVE  Inv' /\ Kept
  <2>1. p \in Payloads /\ Destination(p) \in Slots
    BY <1>0, <1>a, DestinationIs DEF Pending
  <2>2. PICK s \in WorkerState : WorkerGood(library, s) /\ worker' = [worker EXCEPT ![w] = s]
    BY <1>0, <1>1, <2>1, RecordedIs
  <2>3. staging' \subseteq Payloads /\ \A q \in staging \ staging' : InLibrary(library, q)
    BY <1>0, <1>1, <1>b, <2>1
  <2> QED
    BY <1>0, <1>1, <2>2, <2>3, WorkerWaits
<1>2. CASE TakeFile(w)
  <2>1. PICK p \in Pending(w) :
           /\ library[p][Destination(p)] # "whole"
           /\ worker' = [worker EXCEPT ![w].at = "place", ![w].file = p, ![w].slot = Destination(p),
                                       ![w].todo = @ \ {p}]
    BY <1>2 DEF TakeFile
  <2> DEFINE s == [o EXCEPT !.at = "place", !.file = p, !.slot = Destination(p), !.todo = o.todo \ {p}]
  <2>2. p \in o.todo /\ p \in Payloads /\ Destination(p) \in Slots /\ (p \in Linkable => Destination(p) = 1)
    BY <1>0, <1>a, DestinationIs DEF Pending
  <2>3. worker' = [worker EXCEPT ![w] = s]
    BY <2>1
  <2>4. s \in WorkerState
    BY <1>0, <1>a, <2>2 DEF WorkerState
  <2>5. /\ s.at = "place" /\ s.file = p /\ s.slot = Destination(p) /\ s.todo \subseteq o.todo
        /\ s.item = o.item /\ s.list = o.list
    BY <1>0 DEF WorkerState
  <2> HIDE DEF s
  <2>6. WorkerGood(library, s)
    BY <1>0, <2>2, <2>5 DEF WorkerGood
  <2>7. UNCHANGED <<staging, library, row, troubles, failed>>
    BY <1>2 DEF TakeFile
  <2> QED
    BY <1>0, <2>3, <2>4, <2>6, <2>7, WorkerWaits
<1>3. ASSUME o.at \in {"place", "copy"}, NEW content \in {"part", "whole"}, Put(f, o.slot, content),
             content = "whole" \/ library[f][o.slot] # "whole", f \in Linkable => o.slot = 1 /\ content = "whole",
             staging' \subseteq staging, staging \ staging' \subseteq {f},
             staging' # staging => content = "whole",
             \/ content = "part" /\ f \notin Linkable /\ Goes(w, "copy")
             \/ content = "whole" /\ o.at = "copy" /\ Goes(w, "drop")
             \/ content = "whole" /\ Recorded(w, f, o.slot),
             UNCHANGED <<row, troubles, failed>>
      PROVE  Inv' /\ Kept
  <2>1. /\ library' \in Libraries /\ Grows(library, library') /\ LinksGood(library')
        /\ library'[f][o.slot] = content /\ \A q \in Payloads \ {f} : library'[q] = library[q]
    BY <1>0, <1>a, <1>3, PutGrows
  <2>2. PICK s \in WorkerState : WorkerGood(library', s) /\ worker' = [worker EXCEPT ![w] = s]
    <3>1. CASE content = "part" /\ f \notin Linkable /\ Goes(w, "copy")
      BY <1>3, <2>1, <3>1, GoesIs
    <3>2. CASE content = "whole" /\ o.at = "copy" /\ Goes(w, "drop")
      BY <2>1, <3>2, GoesIs
    <3>3. CASE content = "whole" /\ Recorded(w, f, o.slot)
      BY <1>a, <2>1, <3>3, RecordedIs
    <3> QED
      BY <1>3, <3>1, <3>2, <3>3
  <2>3. \A p \in Transfers : library'[p] = library[p]
    BY <1>0, <1>3, <2>1, FoldersOfTheirOwn DEF WorkerGood
  <2>4. row' \in [Torrents -> Row] /\ \A t \in Torrents : PathsWhole(library', row'[t])
    <3>1. \A t \in Torrents : row[t] \in Row /\ PathsWhole(library, row[t])
      BY <1>0 DEF Inv, RowsGood
    <3> QED
      BY <1>0, <1>3, <2>1, <3>1, PathsStay
  <2>5. staging' \subseteq Payloads /\ \A p \in staging \ staging' : InLibrary(library', p)
    BY <1>0, <1>3, <1>a, <2>1 DEF InLibrary
  <2> QED
    BY <1>0, <1>3, <2>1, <2>2, <2>3, <2>4, <2>5, WorkerMoves
<1>4. CASE Link(w)
  <2>1. f \in Linkable => o.slot = 1
    BY <1>0, <1>4 DEF Link, At, WorkerGood
  <2> QED
    BY <1>3, <1>4, <2>1 DEF Link, At
<1>5. CASE StartCopy(w)
  BY <1>3, <1>5 DEF StartCopy, At, Occupied
<1>6. CASE EndCopy(w)
  <2>1. f \notin Linkable
    BY <1>0, <1>6 DEF EndCopy, At, WorkerGood
  <2> QED
    BY <1>3, <1>6, <2>1 DEF EndCopy, At
<1>7. CASE Refused(w) \/ CopyFails(w)
  <2>1. PICK s \in WorkerState : WorkerGood(library, s) /\ worker' = [worker EXCEPT ![w] = s]
    BY <1>0, <1>7, GoesIs DEF Refused, CopyFails
  <2>2. staging' = staging /\ library' = library /\ row' = row /\ failed' \subseteq Payloads /\ troubles' \in 0..MaxTroubles
    BY <1>0, <1>7, <1>a DEF Refused, CopyFails
  <2> QED
    BY <1>0, <2>1, <2>2, WorkerWaits
<1>8. CASE DropSource(w)
  <2>1. library[f][o.slot] = "whole"
    BY <1>0, <1>8 DEF DropSource, At, WorkerGood
  <2>2. PICK s \in WorkerState : WorkerGood(library, s) /\ worker' = [worker EXCEPT ![w] = s]
    BY <1>0, <1>8, <1>a, <2>1, RecordedIs DEF DropSource
  <2> QED
    BY <1>0, <1>8, <1>a, <1>b, <2>1, <2>2, WorkerWaits DEF DropSource
<1>9. CASE Update(w)
  <2> DEFINE s == [o EXCEPT !.at = o.then, !.changed = FALSE]
  <2>1. worker' = [worker EXCEPT ![w] = s]
    BY <1>9 DEF Update
  <2>2. s \in WorkerState
    BY <1>0, <1>a DEF WorkerState
  <2>3. s.at = o.then /\ s.item = o.item /\ s.list = o.list /\ s.todo = o.todo
    BY <1>0 DEF WorkerState
  <2> HIDE DEF s
  <2>4. WorkerGood(library, s) /\ PathsWhole(library, o.item)
    BY <1>0, <1>a, <2>3 DEF WorkerGood
  <2>5. CASE o.changed
    BY <1>9, <1>a, <2>1, <2>2, <2>4, <2>5, RowWritten DEF Update
  <2>6. CASE ~o.changed
    BY <1>0, <1>9, <2>1, <2>2, <2>4, <2>6, WorkerWaits DEF Update
  <2> QED
    BY <2>5, <2>6
<1> QED
  BY <1>1, <1>2, <1>4, <1>5, <1>6, <1>7, <1>8, <1>9 DEF Import, Reuse

-----------------------------------------------------------------------------
(* The monitors and start-up *)

\* A worker that is at no file.
LEMMA RestGood ==
    ASSUME Inv, NEW s \in WorkerState, PathsWhole(library, s.item),
           \A t \in Torrents : PathsWhole(library, s.list[t]),
           s.todo \subseteq TorrentFiles, s.at \notin {"place", "copy", "drop"}
    PROVE  WorkerGood(library, s)
BY DEF WorkerGood

\* A worker at rest knows nothing.
LEMMA OffGood ==
    ASSUME NEW lib \in Libraries
    PROVE  /\ NoRow \in Row /\ PathsWhole(lib, NoRow)
           /\ Off \in WorkerState /\ WorkerGood(lib, Off)
           /\ \A at \in {"boot", "start"} :
                [Off EXCEPT !.at = at] \in WorkerState /\ WorkerGood(lib, [Off EXCEPT !.at = at])
           /\ \A t \in Torrents :
                LET s == [Off EXCEPT !.at = "start", !.t = t] IN s \in WorkerState /\ WorkerGood(lib, s)
<1>1. AnyTorrent \in Torrents /\ (CHOOSE p \in Payloads : TRUE) \in Payloads /\ 1 \in Slots /\ 0 \in 0..MaxSlots
  BY ImportAssumption DEF ImportAssumption, AnyTorrent, Slots
<1>2. NoRow \in Row /\ PathsWhole(lib, NoRow)
  BY <1>1 DEF NoRow, Row, Statuses, PathsWhole
<1>3. Off \in WorkerState
  BY <1>1, <1>2 DEF Off, WorkerState
<1>4. WorkerGood(lib, Off)
  BY <1>2 DEF Off, WorkerGood
<1>5. ASSUME NEW s \in WorkerState, s.item = Off.item, s.list = Off.list, s.todo = Off.todo,
             s.at \in {"boot", "start"}
      PROVE  WorkerGood(lib, s)
  BY <1>4, <1>5 DEF WorkerGood
<1>6. ASSUME NEW at \in {"boot", "start"}
      PROVE  [Off EXCEPT !.at = at] \in WorkerState /\ WorkerGood(lib, [Off EXCEPT !.at = at])
  <2> DEFINE s == [Off EXCEPT !.at = at]
  <2>1. s \in WorkerState /\ s.item = Off.item /\ s.list = Off.list /\ s.todo = Off.todo /\ s.at = at
    BY <1>3 DEF WorkerState
  <2> HIDE DEF s
  <2>2. WorkerGood(lib, s)
    BY <1>5, <2>1
  <2> QED
    BY <2>1, <2>2 DEF s
<1>7. ASSUME NEW t \in Torrents
      PROVE  LET s == [Off EXCEPT !.at = "start", !.t = t] IN s \in WorkerState /\ WorkerGood(lib, s)
  <2> DEFINE s == [Off EXCEPT !.at = "start", !.t = t]
  <2>1. s \in WorkerState /\ s.item = Off.item /\ s.list = Off.list /\ s.todo = Off.todo /\ s.at = "start"
    BY <1>3 DEF WorkerState
  <2> HIDE DEF s
  <2>2. WorkerGood(lib, s)
    BY <1>5, <2>1
  <2> QED
    BY <2>1, <2>2 DEF s
<1> QED
  BY <1>2, <1>3, <1>4, <1>6, <1>7

\* What every step of a worker may use.
LEMMA WorkerFacts ==
    ASSUME Inv, NEW w \in Workers
    PROVE  /\ library \in Libraries /\ staging \subseteq Payloads
           /\ troubles \in 0..MaxTroubles /\ failed \subseteq Payloads
           /\ worker[w] \in WorkerState /\ WorkerGood(library, worker[w])
           /\ worker[w].t \in Torrents /\ worker[w].item \in Row
           /\ \A t \in Torrents : /\ row[t] \in Row /\ PathsWhole(library, row[t])
                                  /\ worker[w].list[t] \in Row
BY DEF Inv, TypeOK, Libraries, WorkersGood, RowsGood, WorkerState

\* The steps of the monitor of a torrent.
LEMMA MonitorStep ==
    ASSUME Inv, Others, NEW t \in Torrents, Monitor(t)
    PROVE  Inv' /\ Kept
<1> DEFINE o == worker[t]
<1>0. /\ t \in Workers /\ library \in Libraries /\ staging \subseteq Payloads
      /\ troubles \in 0..MaxTroubles /\ failed \subseteq Payloads
      /\ o \in WorkerState /\ WorkerGood(library, o)
      /\ \A u \in Torrents : row[u] \in Row /\ PathsWhole(library, row[u])
  BY WorkerFacts DEF Workers
<1>a. /\ o.item \in Row /\ o.todo \subseteq TorrentFiles /\ PathsWhole(library, o.item)
      /\ FilesOf[t] \subseteq TorrentFiles /\ TorrentFiles \subseteq Payloads
      /\ (\A u \in Torrents : PathsWhole(library, o.list[u])) /\ o.t \in Torrents
      /\ FilesOf[o.t] \subseteq TorrentFiles
  BY <1>0, FoldersOfTheirOwn DEF WorkerState, WorkerGood
\* It reads a row, and may take up its files.
<1>1. ASSUME NEW u \in Torrents, NEW at \in {"mark", "poll", "file"}, NEW todo \in {o.todo, FilesOf[u]},
             u \in {t, o.t}, NEW moves \in BOOLEAN, NEW then \in {o.then, "clean"},
             worker' = [worker EXCEPT ![t] = [o EXCEPT !.at = at, !.item = row[u], !.todo = todo,
                                                       !.moves = moves, !.then = then]],
             staging \subseteq staging', staging' \subseteq Payloads, UNCHANGED <<library, row, troubles, failed>>
      PROVE  Inv' /\ Kept
  <2> DEFINE s == [o EXCEPT !.at = at, !.item = row[u], !.todo = todo, !.moves = moves, !.then = then]
  <2>0. todo \subseteq TorrentFiles /\ todo \subseteq Payloads
    BY <1>1, <1>a, FoldersOfTheirOwn
  <2>1. s \in WorkerState
    BY <1>0, <1>1, <2>0 DEF WorkerState
  <2>2. s.at = at /\ s.item = row[u] /\ s.todo = todo /\ s.list = o.list
    BY <1>0 DEF WorkerState
  <2> HIDE DEF s
  <2>3. WorkerGood(library, s)
    BY <1>0, <1>a, <2>0, <2>1, <2>2, RestGood
  <2> QED
    BY <1>0, <1>1, <2>1, <2>3, WorkerWaits DEF s
<1>2. CASE MonitorStarts(t)
  <2>1. worker' = [worker EXCEPT ![t] = [o EXCEPT !.at = "mark", !.item = row[t], !.todo = o.todo,
                                                  !.moves = o.moves, !.then = o.then]]
    BY <1>0, <1>2 DEF MonitorStarts, Reads, WorkerState, Inv, TypeOK
  <2>2. o.moves \in BOOLEAN
    BY <1>0 DEF WorkerState
  <2> QED
    BY <1>0, <1>1, <1>2, <1>a, <2>1, <2>2 DEF MonitorStarts
<1>3. CASE SeedReads(t)
  <2>1. worker' = [worker EXCEPT ![t] = [o EXCEPT !.at = "poll", !.item = row[t], !.todo = o.todo,
                                                  !.moves = o.moves, !.then = o.then]]
    BY <1>0, <1>3 DEF SeedReads, Reads, WorkerState, Inv, TypeOK
  <2>2. o.moves \in BOOLEAN
    BY <1>0 DEF WorkerState
  <2> QED
    BY <1>0, <1>1, <1>3, <1>a, <2>1, <2>2 DEF SeedReads
<1>4. CASE Ready(t)
  <2>1. worker' = [worker EXCEPT ![t] = [o EXCEPT !.at = "file", !.item = row[o.t], !.todo = FilesOf[o.t],
                                                  !.moves = FALSE, !.then = o.then]]
    BY <1>0, <1>4 DEF Ready, WorkerState, Inv, TypeOK
  <2> QED
    BY <1>0, <1>1, <1>4, <1>a, <2>1 DEF Ready
<1>5. CASE Complete(t)
  <2>1. worker' = [worker EXCEPT ![t] = [o EXCEPT !.at = "file", !.item = row[t], !.todo = FilesOf[t],
                                                  !.moves = TRUE, !.then = "clean"]]
    BY <1>0, <1>5 DEF Complete, WorkerState, Inv, TypeOK
  <2> QED
    BY <1>0, <1>1, <1>5, <1>a, <2>1 DEF Complete
\* It writes the row it has read with another status.
<1>6. ASSUME NEW at \in {"ready", "seed", "enough", "complete"}, NEW then \in {o.then, "seed"},
             NEW st \in Statuses,
             worker' = [worker EXCEPT ![t] = [o EXCEPT !.at = at, !.then = then]],
             Writes(t, [o.item EXCEPT !.st = st]), UNCHANGED <<staging, library, troubles, failed>>
      PROVE  Inv' /\ Kept
  <2> DEFINE s == [o EXCEPT !.at = at, !.then = then]
             item == [o.item EXCEPT !.st = st]
  <2>1. s \in WorkerState
    BY <1>0 DEF WorkerState
  <2>2. s.at = at /\ s.item = o.item /\ s.todo = o.todo /\ s.list = o.list
    BY <1>0 DEF WorkerState
  <2>3. item \in Row /\ item.org = o.item.org
    BY <1>a DEF Row
  <2> HIDE DEF s, item
  <2>4. WorkerGood(library, s) /\ PathsWhole(library, item)
    BY <1>a, <2>1, <2>2, <2>3, RestGood DEF PathsWhole
  <2>5. worker' = [worker EXCEPT ![t] = s] /\ Writes(t, item)
    BY <1>6 DEF s, item
  <2> QED
    BY <1>0, <1>6, <2>1, <2>3, <2>4, <2>5, RowWritten
<1>7. CASE MarkSeeding(t)
  <2>1. worker' = [worker EXCEPT ![t] = [o EXCEPT !.at = "ready", !.then = "seed"]]
    BY <1>7 DEF MarkSeeding
  <2> QED
    BY <1>6, <1>7, <2>1 DEF MarkSeeding, Statuses
<1>8. CASE MarkComplete(t)
  <2>1. worker' = [worker EXCEPT ![t] = [o EXCEPT !.at = "complete", !.then = o.then]]
    BY <1>0, <1>8 DEF MarkComplete, Goes, WorkerState, Inv, TypeOK
  <2> QED
    BY <1>6, <1>8, <2>1 DEF MarkComplete, Statuses
<1>9. CASE SeedWrites(t)
  <2>1. PICK at \in {"seed", "enough"} : Goes(t, at)
    BY <1>9 DEF SeedWrites
  <2>2. worker' = [worker EXCEPT ![t] = [o EXCEPT !.at = at, !.then = o.then]]
    BY <1>0, <2>1 DEF Goes, WorkerState, Inv, TypeOK
  <2>3. [o.item EXCEPT !.st = o.item.st] = o.item /\ o.item.st \in Statuses
    BY <1>a DEF Row
  <2> QED
    BY <1>6, <1>9, <2>2, <2>3 DEF SeedWrites
<1>10. CASE Clean(t)
  <2>1. staging' \subseteq Payloads /\ UNCHANGED <<library, row, troubles, failed>>
    BY <1>0, <1>10 DEF Clean
  <2>2. \A p \in staging \ staging' : p \in Payloads /\ row[t].org[p] # 0
    BY <1>0, <1>10 DEF Clean
  <2>3. \A p \in staging \ staging' : InLibrary(library, p)
    <3>1. \A p \in Payloads : row[t].org[p] \in 0..MaxSlots
      BY <1>0 DEF Row
    <3> QED
      BY <1>0, <2>2, <3>1 DEF PathsWhole, InLibrary, Slots
  <2>4. Off \in WorkerState /\ WorkerGood(library, Off) /\ worker' = [worker EXCEPT ![t] = Off]
    BY <1>0, <1>10, OffGood DEF Clean
  <2> QED
    BY <1>0, <2>1, <2>3, <2>4, WorkerWaits
<1> QED
  BY <1>2, <1>3, <1>4, <1>5, <1>7, <1>8, <1>9, <1>10 DEF Monitor

\* The steps of start-up.
LEMMA StartUpStep ==
    ASSUME Inv, Others, StartUp
    PROVE  Inv' /\ Kept
<1> DEFINE m == worker[Main]
<1>0. /\ Main \in Workers /\ Main \notin Torrents /\ library \in Libraries /\ staging \subseteq Payloads
      /\ troubles \in 0..MaxTroubles /\ failed \subseteq Payloads
      /\ m \in WorkerState /\ WorkerGood(library, m)
      /\ \A u \in Torrents : row[u] \in Row /\ PathsWhole(library, row[u])
      /\ worker \in [Workers -> WorkerState] /\ row \in [Torrents -> Row]
  BY WorkerFacts, ImportAssumption DEF Workers, ImportAssumption, Inv, TypeOK
<1>a. /\ m.item \in Row /\ m.todo \subseteq TorrentFiles /\ PathsWhole(library, m.item)
      /\ (\A u \in Torrents : m.list[u] \in Row /\ PathsWhole(library, m.list[u]))
      /\ m.t \in Torrents /\ FilesOf[m.t] \subseteq TorrentFiles /\ m.left \subseteq Torrents
      /\ m.list \in [Torrents -> Row] /\ m.todo \subseteq Payloads
  BY <1>0, FoldersOfTheirOwn DEF WorkerState, WorkerGood
<1>1. ASSUME NEW phase \in {"recover", "promote", "repair"}, NEW left \in SUBSET Torrents,
             Phase(phase, left), UNCHANGED <<staging, library, row, troubles, failed>>
      PROVE  Inv' /\ Kept
  <2> DEFINE s == [m EXCEPT !.at = "next", !.phase = phase, !.list = row, !.left = left]
  <2>1. s \in WorkerState
    BY <1>0 DEF WorkerState
  <2>2. s.at = "next" /\ s.item = m.item /\ s.todo = m.todo /\ s.list = row
    BY <1>0 DEF WorkerState
  <2>3. worker' = [worker EXCEPT ![Main] = s]
    BY <1>0, <1>1 DEF Phase
  <2> HIDE DEF s
  <2>4. WorkerGood(library, s)
    BY <1>0, <1>a, <2>1, <2>2, RestGood
  <2> QED
    BY <1>0, <1>1, <2>1, <2>3, <2>4, WorkerWaits
<1>2. CASE Boot
  <2> DEFINE left == {t \in Torrents : row[t].st \in {"active", "seeding"}}
  <2>1. left \in SUBSET Torrents /\ Phase("recover", left)
    BY <1>2 DEF Boot
  <2> HIDE DEF left
  <2> QED
    BY <1>1, <1>2, <2>1 DEF Boot
<1>3. CASE PromotePhase
  <2> DEFINE left == {t \in Torrents : row[t].st = "active"}
  <2>1. left \in SUBSET Torrents /\ Phase("promote", left)
    BY <1>3 DEF PromotePhase
  <2> HIDE DEF left
  <2> QED
    BY <1>1, <1>3, <2>1 DEF PromotePhase
<1>4. CASE RepairPhase
  <2> DEFINE left == {t \in Torrents : row[t].st \in {"seeding", "complete"} /\ NeedsImport(row[t], t)}
  <2>1. left \in SUBSET Torrents /\ Phase("repair", left)
    BY <1>4 DEF RepairPhase
  <2> HIDE DEF left
  <2> QED
    BY <1>1, <1>4, <2>1 DEF RepairPhase
<1>5. CASE BootEnds
  <2>1. Off \in WorkerState /\ WorkerGood(library, Off) /\ worker' = [worker EXCEPT ![Main] = Off]
    BY <1>0, <1>5, OffGood DEF BootEnds
  <2>2. UNCHANGED <<staging, library, row, troubles, failed>>
    BY <1>5 DEF BootEnds
  <2> QED
    BY <1>0, <2>1, <2>2, WorkerWaits
<1>6. CASE Ready(Main)
  <2> DEFINE s == [m EXCEPT !.at = "file", !.item = row[m.t], !.todo = FilesOf[m.t], !.moves = FALSE]
  <2>0. FilesOf[m.t] \subseteq Payloads
    BY <1>a, FoldersOfTheirOwn
  <2>1. s \in WorkerState
    BY <1>0, <1>a, <2>0 DEF WorkerState
  <2>2. s.at = "file" /\ s.item = row[m.t] /\ s.todo = FilesOf[m.t] /\ s.list = m.list
    BY <1>0 DEF WorkerState
  <2>3. worker' = [worker EXCEPT ![Main] = s] /\ UNCHANGED <<staging, library, row, troubles, failed>>
    BY <1>0, <1>6 DEF Ready
  <2> HIDE DEF s
  <2>4. WorkerGood(library, s)
    BY <1>0, <1>a, <2>1, <2>2, RestGood
  <2> QED
    BY <1>0, <2>1, <2>3, <2>4, WorkerWaits
\* The row of the list gets another status.
<1>7. ASSUME NEW t \in Torrents, NEW st \in Statuses
      PROVE  LET item == [m.list[t] EXCEPT !.st = st] IN item \in Row /\ PathsWhole(library, item)
  <2> DEFINE item == [m.list[t] EXCEPT !.st = st]
  <2>1. item \in Row /\ item.org = m.list[t].org
    BY <1>a DEF Row
  <2> HIDE DEF item
  <2>2. PathsWhole(library, item)
    BY <1>a, <2>1 DEF PathsWhole
  <2> QED
    BY <2>1, <2>2 DEF item
<1>8. ASSUME NEW t \in Torrents, Recover(t) PROVE Inv' /\ Kept
  <2> DEFINE item == [m.list[t] EXCEPT !.st = "active"]
             s == [m EXCEPT !.left = m.left \ {t}]
  <2>1. item \in Row /\ PathsWhole(library, item)
    BY <1>7 DEF Statuses
  <2>2. row' = [row EXCEPT ![t] = item] /\ UNCHANGED <<staging, library, troubles, failed>>
    BY <1>8 DEF Recover, Writes
  <2>3. PICK at \in {"start", "off"} :
          worker' = [worker EXCEPT ![Main].left = @ \ {t}, ![t].t = t, ![t].at = at]
    BY <1>8 DEF Recover
  <2> DEFINE o == worker[t]
             r == [o EXCEPT !.t = t, !.at = at]
  <2>4. worker' = [worker EXCEPT ![Main] = s, ![t] = r]
    BY <1>0, <2>3
  <2>5. t \in Workers /\ o \in WorkerState /\ WorkerGood(library, o)
    BY WorkerFacts DEF Workers
  <2>6. s \in WorkerState /\ r \in WorkerState
    BY <1>0, <1>a, <2>5 DEF WorkerState
  <2>7. /\ r.at = at /\ r.item = o.item /\ r.todo = o.todo /\ r.list = o.list
        /\ s.at = m.at /\ s.item = m.item /\ s.todo = m.todo /\ s.list = m.list /\ s.file = m.file
        /\ s.slot = m.slot
    BY <1>0, <2>5 DEF WorkerState
  <2> HIDE DEF s, r, item
  <2>8. WorkerGood(library, s) /\ WorkerGood(library, r)
    BY <1>0, <2>5, <2>6, <2>7 DEF WorkerGood
  <2>9. worker' \in [Workers -> WorkerState] /\ \A v \in Workers : WorkerGood(library', worker'[v])
    BY <1>0, <2>2, <2>4, <2>6, <2>8 DEF Inv, WorkersGood
  <2>10. row' \in [Torrents -> Row] /\ \A u \in Torrents : PathsWhole(library', row'[u])
    BY <1>0, <2>1, <2>2
  <2>11. library' \in Libraries /\ Grows(library, library') /\ LinksGood(library')
    BY <1>0, <2>2 DEF Grows, Inv
  <2>12. (\A p \in Transfers : library'[p] = library[p]) /\ \A p \in staging \ staging' : InLibrary(library', p)
    BY <2>2
  <2> QED
    BY <1>0, <2>2, <2>9, <2>10, <2>11, <2>12, WorkersMove
<1>9. ASSUME NEW t \in Torrents, Promote(t) PROVE Inv' /\ Kept
  <2> DEFINE item == [m.list[t] EXCEPT !.st = "seeding"]
             s == [m EXCEPT !.left = m.left \ {t}, !.t = t, !.at = "ready", !.then = "next"]
  <2>1. item \in Row /\ PathsWhole(library, item)
    BY <1>7 DEF Statuses
  <2>2. s \in WorkerState
    BY <1>0, <1>a DEF WorkerState
  <2>3. s.at = "ready" /\ s.item = m.item /\ s.todo = m.todo /\ s.list = m.list
    BY <1>0 DEF WorkerState
  <2>4. /\ worker' = [worker EXCEPT ![Main] = s] /\ Writes(t, item)
        /\ UNCHANGED <<staging, library, troubles, failed>>
    BY <1>9 DEF Promote
  <2> HIDE DEF s, item
  <2>5. WorkerGood(library, s)
    BY <1>0, <1>a, <2>2, <2>3, RestGood
  <2> QED
    BY <1>0, <2>1, <2>2, <2>4, <2>5, RowWritten
<1>10. ASSUME NEW t \in Torrents, Repair(t) PROVE Inv' /\ Kept
  <2> DEFINE moves == m.list[t].st = "complete"
             s == [m EXCEPT !.left = m.left \ {t}, !.t = t, !.at = "file", !.item = m.list[t],
                            !.todo = FilesOf[t], !.moves = moves, !.then = "next"]
  <2>0. FilesOf[t] \subseteq Payloads /\ FilesOf[t] \subseteq TorrentFiles /\ moves \in BOOLEAN
    BY FoldersOfTheirOwn
  <2>1. worker' = [worker EXCEPT ![Main] = s] /\ UNCHANGED <<staging, library, row, troubles, failed>>
    BY <1>10 DEF Repair
  <2> HIDE DEF moves
  <2>2. s \in WorkerState
    BY <1>0, <1>a, <2>0 DEF WorkerState
  <2>3. s.at = "file" /\ s.item = m.list[t] /\ s.todo = FilesOf[t] /\ s.list = m.list
    BY <1>0 DEF WorkerState
  <2> HIDE DEF s
  <2>4. WorkerGood(library, s)
    BY <1>0, <1>a, <2>0, <2>2, <2>3, RestGood
  <2> QED
    BY <1>0, <2>1, <2>2, <2>4, WorkerWaits
<1> QED
  BY <1>2, <1>3, <1>4, <1>5, <1>6, <1>8, <1>9, <1>10 DEF StartUp

-----------------------------------------------------------------------------
(* The Soulseek monitor *)

\* The pass goes on: what it writes takes nothing away from the library.
LEMMA PassMoves ==
    ASSUME Inv, UNCHANGED <<Monitors, failed>>,
           library' \in Libraries, Grows(library, library'), LinksGood(library'),
           pass' \in PassState, PassGood(library', pass', File'),
           \A p \in imported' : InLibrary(library', p),
           reported' \cup imported' \cup waiting' \subseteq Transfers, circuit' \in BOOLEAN,
           staging' \subseteq Payloads, \A p \in staging \ staging' : InLibrary(library', p),
           troubles' \in 0..MaxTroubles
    PROVE  Inv' /\ Kept
<1>1. TypeOK'
  BY DEF Inv, TypeOK, Libraries, Monitors
<1>2. library \in Libraries /\ worker' = worker /\ row' = row
  BY DEF Inv, TypeOK, Libraries, Monitors
<1>3. RowsGood'
  BY <1>2, PathsStay DEF Inv, RowsGood, TypeOK
<1>4. WorkersGood'
  BY <1>2, WorkerStays DEF Inv, WorkersGood, TypeOK
<1>5. LedgerGood' /\ LinksGood(library)'
  BY DEF LedgerGood
<1>6. Kept
  <2>1. \A p \in Payloads : InLibrary(library, p) => InLibrary(library', p)
    BY <1>2, InLibraryStays
  <2>2. \A p \in Payloads : (Filed(p) <=> InLibrary(library, p)) /\ (Filed(p)' <=> InLibrary(library', p))
    BY DEF Filed, InLibrary
  <2> QED
    BY <2>1, <2>2 DEF Kept
<1> QED
  BY <1>1, <1>3, <1>4, <1>5, <1>6 DEF Inv

LEMMA PassFacts ==
    ASSUME Inv
    PROVE  /\ library \in Libraries /\ Grows(library, library) /\ LinksGood(library)
           /\ pass \in PassState /\ PassGood(library, pass, File)
           /\ pass.left \subseteq DOMAIN Rows /\ pass.keys \subseteq Transfers /\ pass.tries \in 0..Budget
           /\ pass.slot \in Slots
           /\ (\A p \in imported : InLibrary(library, p))
           /\ reported \cup imported \cup waiting \subseteq Transfers /\ circuit \in BOOLEAN
           /\ staging \subseteq Payloads /\ troubles \in 0..MaxTroubles
           /\ (pass.left # {} => First \in pass.left /\ File \in Transfers /\ File \in Payloads)
           /\ Transfers \subseteq Payloads
           /\ 0 \in 0..Budget /\ 1 \in Slots /\ Budget \in Nat /\ MaxTroubles \in Nat
<1>1. 0 \in 0..Budget /\ 1 \in Slots /\ Budget \in Nat /\ MaxTroubles \in Nat
  BY ImportAssumption, SoulseekAssumption DEF ImportAssumption, SoulseekAssumption, Slots
<1>2. pass.left # {} => First \in pass.left /\ File \in Transfers /\ File \in Payloads
  BY FileIs, FoldersOfTheirOwn DEF Inv, TypeOK, PassState
<1> QED
  BY <1>1, <1>2, FoldersOfTheirOwn DEF Inv, TypeOK, Libraries, Grows, LedgerGood, PassState

\* The library stays, and the pass is at no file, or has filed the one it is at.
LEMMA PassWaits ==
    ASSUME Inv, UNCHANGED <<library, Monitors, failed>>,
           NEW s \in PassState, pass' = s, \A p \in s.keys : InLibrary(library, p),
           s.at \notin {"place", "copy", "filed"},
           \A p \in imported' : InLibrary(library, p),
           reported' \cup imported' \cup waiting' \subseteq Transfers, circuit' \in BOOLEAN,
           staging' \subseteq Payloads, \A p \in staging \ staging' : InLibrary(library, p),
           troubles' \in 0..MaxTroubles
    PROVE  Inv' /\ Kept
<1>1. library' \in Libraries /\ Grows(library, library') /\ LinksGood(library') /\ library' = library
  BY PassFacts
<1>2. PassGood(library', pass', File')
  BY <1>1 DEF PassGood
<1> QED
  BY <1>1, <1>2, PassMoves

\* The steps of a pass.
LEMMA RunOnceStep ==
    ASSUME Inv, RunOnce
    PROVE  Inv' /\ Kept
<1>0. /\ library \in Libraries /\ Grows(library, library) /\ LinksGood(library)
      /\ pass \in PassState /\ PassGood(library, pass, File)
      /\ pass.left \subseteq DOMAIN Rows /\ pass.keys \subseteq Transfers /\ pass.tries \in 0..Budget
      /\ pass.slot \in Slots
      /\ (\A p \in imported : InLibrary(library, p))
      /\ reported \subseteq Transfers /\ imported \subseteq Transfers /\ waiting \subseteq Transfers
      /\ circuit \in BOOLEAN
      /\ staging \subseteq Payloads /\ troubles \in 0..MaxTroubles
      /\ (pass.left # {} => First \in pass.left /\ File \in Transfers /\ File \in Payloads)
      /\ Transfers \subseteq Payloads
      /\ 0 \in 0..Budget /\ 1 \in Slots /\ Budget \in Nat /\ MaxTroubles \in Nat
  BY PassFacts
<1>a. \A p \in pass.keys : InLibrary(library, p)
  BY <1>0 DEF PassGood
<1> USE DEF importVars
<1>1. CASE PassStarts
  <2> DEFINE left == {i \in DOMAIN Rows : Rows[i] \in reported}
             s == [NoPass EXCEPT !.at = "keys", !.left = left]
  <2>1. pass' = s /\ UNCHANGED <<importVars, reported, imported, waiting, circuit>>
    BY <1>1 DEF PassStarts
  <2>2. left \in SUBSET DOMAIN Rows
    OBVIOUS
  <2> HIDE DEF left
  <2>3. s \in PassState /\ s.keys = {} /\ s.at = "keys"
    BY <1>0, <2>2 DEF PassState, NoPass
  <2> HIDE DEF s
  <2> QED
    BY <1>0, <2>1, <2>3, PassWaits DEF Monitors
<1>2. CASE LoadKeys
  <2> DEFINE s == [pass EXCEPT !.at = "next", !.keys = imported]
  <2>1. s \in PassState /\ s.keys = imported /\ s.at = "next"
    BY <1>0 DEF PassState
  <2>2. pass' = s /\ UNCHANGED <<importVars, reported, imported, waiting, circuit>>
    BY <1>2 DEF LoadKeys
  <2> HIDE DEF s
  <2> QED
    BY <1>0, <2>1, <2>2, PassWaits DEF Monitors
<1>3. CASE LoadFails
  <2> DEFINE s == [pass EXCEPT !.at = "next"]
  <2>1. s \in PassState /\ s.keys = pass.keys /\ s.at = "next"
    BY <1>0 DEF PassState
  <2>2. pass' = s /\ UNCHANGED <<staging, library, Monitors, failed, reported, imported, waiting, circuit>>
    BY <1>3 DEF LoadFails
  <2>3. troubles' \in 0..MaxTroubles
    BY <1>0, <1>3 DEF LoadFails
  <2> HIDE DEF s
  <2> QED
    BY <1>0, <1>a, <2>1, <2>2, <2>3, PassWaits
<1>4. CASE Skip \/ BudgetReached \/ Missing
  <2>1. PICK at \in {"next", "end"}, tries \in 0..Budget, left \in SUBSET pass.left :
           pass' = [pass EXCEPT !.at = at, !.tries = tries, !.left = left]
    <3>1. CASE Skip
      <4>1. pass' = [pass EXCEPT !.at = "next", !.tries = pass.tries, !.left = pass.left \ {First}]
        BY <1>0, <3>1 DEF Skip, PassAt, PassState
      <4> QED
        BY <1>0, <4>1
    <3>2. CASE BudgetReached
      <4>1. pass' = [pass EXCEPT !.at = "end", !.tries = pass.tries, !.left = pass.left]
        BY <1>0, <3>2 DEF BudgetReached, PassState
      <4> QED
        BY <1>0, <4>1
    <3>3. CASE Missing
      <4>1. pass' = [pass EXCEPT !.at = "next", !.tries = pass.tries + 1, !.left = pass.left \ {First}]
        BY <1>0, <3>3 DEF Missing, Due, PassAt, PassState
      <4>2. pass.tries + 1 \in 0..Budget
        BY <1>0, <3>3 DEF Missing
      <4> QED
        BY <1>0, <4>1, <4>2
    <3> QED
      BY <1>4, <3>1, <3>2, <3>3
  <2> DEFINE s == [pass EXCEPT !.at = at, !.tries = tries, !.left = left]
  <2>2. s \in PassState /\ s.keys = pass.keys /\ s.at = at
    BY <1>0 DEF PassState
  <2>3. UNCHANGED <<importVars, reported, imported, waiting, circuit>>
    BY <1>4 DEF Skip, BudgetReached, Missing
  <2> HIDE DEF s
  <2> QED
    BY <1>0, <1>a, <2>1, <2>2, <2>3, PassWaits DEF Monitors, s
<1>5. CASE Resolve
  <2> DEFINE k == Destination(File)
             at == IF library[File][k] = "whole" THEN "filed" ELSE "place"
             s == [pass EXCEPT !.tries = pass.tries + 1, !.slot = k, !.at = at]
  <2>1. pass.left # {} /\ pass.tries + 1 \in 0..Budget /\ k # 0
    BY <1>0, <1>5 DEF Resolve, Due
  <2>2. k \in Slots /\ (File \in Linkable => k = 1)
    BY <1>0, <2>1, DestinationIs
  <2>3. at \in {"filed", "place"} /\ (at = "filed" <=> library[File][k] = "whole")
    OBVIOUS
  <2>4. pass' = s /\ UNCHANGED <<importVars, reported, imported, waiting, circuit>>
    BY <1>5 DEF Resolve
  <2> HIDE DEF k, at
  <2>5. s \in PassState /\ s.keys = pass.keys /\ s.at = at /\ s.left = pass.left /\ s.slot = k
    BY <1>0, <2>1, <2>2, <2>3 DEF PassState
  <2> HIDE DEF s
  <2>6. File' = File
    BY <2>4, <2>5 DEF File, First
  <2>7. PassGood(library, s, File)
    BY <1>a, <2>1, <2>2, <2>3, <2>5 DEF PassGood, InLibrary
  <2> QED
    BY <1>0, <2>4, <2>5, <2>6, <2>7, PassMoves DEF Monitors
\* The pass writes its file, as a link, a part of a copy or the rest of it.
<1>6. ASSUME pass.at \in {"place", "copy"}, NEW content \in {"part", "whole"}, Put(File, pass.slot, content),
             File \in Linkable => pass.slot = 1 /\ content = "whole",
             pass' = [pass EXCEPT !.at = IF content = "whole" THEN "filed" ELSE "copy"],
             UNCHANGED <<staging, Monitors, troubles, failed, reported, imported, waiting, circuit>>
      PROVE  Inv' /\ Kept
  <2> DEFINE at == IF content = "whole" THEN "filed" ELSE "copy"
             s == [pass EXCEPT !.at = at]
  <2>1. pass.left # {} /\ library[File][pass.slot] # "whole"
    BY <1>0, <1>6 DEF PassGood
  <2>2. /\ library' \in Libraries /\ Grows(library, library') /\ LinksGood(library')
        /\ library'[File][pass.slot] = content
    BY <1>0, <1>6, <2>1, PutGrows
  <2>3. at \in {"filed", "copy"} /\ (at = "filed" <=> content = "whole")
    OBVIOUS
  <2>4. pass' = s
    BY <1>6
  <2> HIDE DEF at
  <2>5. s \in PassState /\ s.keys = pass.keys /\ s.at = at /\ s.left = pass.left /\ s.slot = pass.slot
    BY <1>0, <2>3 DEF PassState
  <2> HIDE DEF s
  <2>6. File' = File
    BY <2>4, <2>5 DEF File, First
  <2>7. \A p \in Transfers : InLibrary(library, p) => InLibrary(library', p)
    BY <1>0, <2>2, InLibraryStays
  <2>8. PassGood(library', s, File)
    <3>1. \A p \in s.keys : InLibrary(library', p)
      BY <1>0, <1>a, <2>5, <2>7
    <3>2. at = "copy" => library'[File][s.slot] # "whole" /\ File \notin Linkable
      BY <1>6, <2>2, <2>3, <2>5
    <3>3. at = "filed" => InLibrary(library', File)
      BY <1>0, <2>2, <2>3 DEF InLibrary
    <3> QED
      BY <2>1, <2>3, <2>5, <3>1, <3>2, <3>3 DEF PassGood
  <2>9. \A p \in imported' : InLibrary(library', p)
    BY <1>0, <1>6, <2>7
  <2> QED
    BY <1>0, <1>6, <2>2, <2>4, <2>5, <2>6, <2>8, <2>9, PassMoves
<1>7. CASE PassLinks
  BY <1>0, <1>6, <1>7 DEF PassLinks, PassAt, PassGood
<1>8. CASE PassCopies
  BY <1>6, <1>8 DEF PassCopies, PassAt
<1>9. CASE PassCopied
  BY <1>0, <1>6, <1>9 DEF PassCopied, PassAt, PassGood
<1>10. CASE PassCopyFails \/ PassRaises
  <2>0. pass.left # {}
    BY <1>0, <1>10 DEF PassCopyFails, PassRaises, PassAt, PassGood
  <2>1. PICK at \in {"next", "end"} : Fails(at)
    BY <1>10 DEF PassCopyFails, PassRaises
  <2> DEFINE s == [pass EXCEPT !.at = at, !.left = pass.left \ {First}]
  <2>2. s \in PassState /\ s.keys = pass.keys /\ s.at = at
    BY <1>0 DEF PassState
  <2>3. pass' = s /\ waiting' \subseteq Transfers
    BY <1>0, <2>0, <2>1 DEF Fails
  <2>4. UNCHANGED <<staging, library, Monitors, failed, reported, imported>> /\ circuit' \in BOOLEAN
    BY <1>0, <1>10 DEF PassCopyFails, PassRaises
  <2>5. troubles' \in 0..MaxTroubles
    BY <1>0, <1>10 DEF PassCopyFails, PassRaises
  <2> HIDE DEF s
  <2> QED
    BY <1>0, <1>a, <2>2, <2>3, <2>4, <2>5, PassWaits
<1>11. CASE PassFiled
  <2>1. pass.left # {} /\ InLibrary(library, File)
    BY <1>0, <1>11 DEF PassFiled, PassAt, PassGood
  <2> DEFINE s == [pass EXCEPT !.at = "next", !.left = pass.left \ {First}, !.keys = pass.keys \cup {File},
                               !.got = TRUE]
  <2>2. s \in PassState /\ s.keys = pass.keys \cup {File} /\ s.at = "next"
    BY <1>0, <2>1 DEF PassState
  <2>3. pass' = s /\ waiting' \subseteq Transfers
    BY <1>0, <1>11 DEF PassFiled
  <2>4. UNCHANGED <<library, Monitors, failed, reported, imported, circuit>>
    BY <1>11 DEF PassFiled
  <2>5. troubles' \in 0..MaxTroubles /\ staging' \subseteq Payloads /\ staging \ staging' \subseteq {File}
    BY <1>0, <1>11 DEF PassFiled
  <2> HIDE DEF s
  <2> QED
    BY <1>0, <1>a, <2>1, <2>2, <2>3, <2>4, <2>5, PassWaits
<1>12. CASE PassEnds
  <2>1. NoPass \in PassState /\ NoPass.keys = {} /\ NoPass.at = "idle"
    BY <1>0 DEF PassState, NoPass
  <2>2. pass' = NoPass /\ UNCHANGED <<staging, library, Monitors, failed, reported, waiting, circuit>>
    BY <1>12 DEF PassEnds
  <2>3. imported' \subseteq Transfers /\ \A p \in imported' : InLibrary(library, p)
    BY <1>0, <1>12, <1>a DEF PassEnds
  <2>4. troubles' \in 0..MaxTroubles
    BY <1>0, <1>12 DEF PassEnds
  <2> QED
    BY <1>0, <2>1, <2>2, <2>3, <2>4, PassWaits
<1> QED
  BY <1>1, <1>2, <1>3, <1>4, <1>5, <1>7, <1>8, <1>9, <1>10, <1>11, <1>12 DEF RunOnce

-----------------------------------------------------------------------------
(* The system *)

\* Nothing is filed, no path noted, and the pass has not begun.
LEMMA InvInit == Init => Inv
<1> SUFFICES ASSUME Init PROVE Inv
  OBVIOUS
<1>1. PICK added \in SUBSET Torrents :
        /\ staging = UNION {FilesOf[t] : t \in added}
        /\ row = [t \in Torrents |-> IF t \in added THEN [NoRow EXCEPT !.st = "active"] ELSE NoRow]
        /\ worker \in {[w \in Workers |-> IF w = Main THEN [Off EXCEPT !.at = "boot"] ELSE Off],
                       [w \in Workers |-> IF w \in added THEN [Off EXCEPT !.at = "start", !.t = w] ELSE Off]}
  BY DEF Init, ImportInit
<1>2. library = [p \in Payloads |-> [k \in Slots |-> "none"]] /\ troubles = 0 /\ failed = {}
  BY DEF Init, ImportInit
<1>3. reported = {} /\ imported = {} /\ waiting = {} /\ circuit = FALSE /\ pass = NoPass
  BY DEF Init
<1>4. library \in Libraries /\ LinksGood(library)
  BY <1>2, ImportAssumption DEF Libraries, LinksGood, ImportAssumption
<1>5. NoRow \in Row /\ [NoRow EXCEPT !.st = "active"] \in Row
  BY OffGood, <1>4 DEF Row, Statuses
<1>6. row \in [Torrents -> Row] /\ RowsGood
  <2>1. NoRow.org = [NoRow EXCEPT !.st = "active"].org /\ PathsWhole(library, NoRow)
    BY <1>4, OffGood DEF NoRow
  <2>2. PathsWhole(library, [NoRow EXCEPT !.st = "active"])
    BY <2>1 DEF PathsWhole
  <2> QED
    BY <1>1, <1>5, <2>1, <2>2 DEF RowsGood
<1>7. worker \in [Workers -> WorkerState] /\ WorkersGood
  <2>1. \A t \in Torrents : [Off EXCEPT !.at = "start", !.t = t] \in WorkerState
                            /\ WorkerGood(library, [Off EXCEPT !.at = "start", !.t = t])
    BY <1>4, OffGood
  <2>2. /\ Off \in WorkerState /\ WorkerGood(library, Off)
        /\ [Off EXCEPT !.at = "boot"] \in WorkerState /\ WorkerGood(library, [Off EXCEPT !.at = "boot"])
    BY <1>4, OffGood
  <2>3. \A w \in Workers : worker[w] \in WorkerState /\ WorkerGood(library, worker[w])
    <3>1. CASE worker = [w \in Workers |-> IF w = Main THEN [Off EXCEPT !.at = "boot"] ELSE Off]
      BY <2>2, <3>1
    <3>2. CASE worker = [w \in Workers |-> IF w \in added THEN [Off EXCEPT !.at = "start", !.t = w] ELSE Off]
      BY <2>1, <2>2, <3>2
    <3> QED
      BY <1>1, <3>1, <3>2
  <2>4. DOMAIN worker = Workers /\ worker = [w \in DOMAIN worker |-> worker[w]]
    BY <1>1
  <2> QED
    BY <2>3, <2>4 DEF WorkersGood
<1>8. pass \in PassState /\ PassGood(library, pass, File)
  BY <1>3, ImportAssumption, SoulseekAssumption
     DEF NoPass, PassState, PassGood, ImportAssumption, SoulseekAssumption, Slots
<1>9. staging \subseteq Payloads /\ troubles \in 0..MaxTroubles
  <2>1. \A t \in Torrents : FilesOf[t] \subseteq Payloads
    BY FoldersOfTheirOwn
  <2>2. troubles \in 0..MaxTroubles
    BY <1>2, ImportAssumption DEF ImportAssumption
  <2>3. ASSUME NEW f \in staging PROVE f \in Payloads
    <3>1. PICK t \in added : f \in FilesOf[t]
      BY <1>1, <2>3
    <3> QED
      BY <2>1, <3>1
  <2> QED
    BY <2>2, <2>3
<1> QED
  BY <1>2, <1>3, <1>4, <1>6, <1>7, <1>8, <1>9 DEF Inv, TypeOK, Libraries, LedgerGood

\* Every step preserves the invariant and loses no payload.
LEMMA InvStep ==
    ASSUME Inv, [Next]_vars
    PROVE  Inv' /\ Kept
<1>0. /\ library \in Libraries /\ Grows(library, library) /\ LinksGood(library)
      /\ pass \in PassState /\ PassGood(library, pass, File)
      /\ (\A p \in imported : InLibrary(library, p))
      /\ reported \subseteq Transfers /\ imported \subseteq Transfers /\ waiting \subseteq Transfers
      /\ circuit \in BOOLEAN
      /\ staging \subseteq Payloads /\ troubles \in 0..MaxTroubles
      /\ Transfers \subseteq Payloads
      /\ 0 \in 0..Budget /\ 1 \in Slots /\ MaxTroubles \in Nat
  BY PassFacts
<1>1. ASSUME NEW w \in Workers, Import(w) /\ Others PROVE Inv' /\ Kept
  BY <1>1, ImportStep
<1>2. ASSUME NEW t \in Torrents, Monitor(t) /\ Others PROVE Inv' /\ Kept
  BY <1>2, MonitorStep
<1>3. CASE StartUp /\ Others
  BY <1>3, StartUpStep
\* The pass stays where it is.
<1>4. ASSUME UNCHANGED <<library, Monitors, troubles, failed, imported, pass>>, circuit' \in BOOLEAN,
             reported' \subseteq Transfers, waiting' \subseteq Transfers,
             staging \subseteq staging', staging' \subseteq Payloads
      PROVE  Inv' /\ Kept
  <2>1. PassGood(library', pass', File')
    BY <1>0, <1>4 DEF File, First
  <2> QED
    BY <1>0, <1>4, <2>1, PassMoves
<1>5. ASSUME NEW p \in Transfers, Report(p) PROVE Inv' /\ Kept
  BY <1>0, <1>4, <1>5 DEF Report
<1>6. ASSUME NEW p \in Transfers, DelayEnds(p) PROVE Inv' /\ Kept
  BY <1>0, <1>4, <1>6 DEF DelayEnds, importVars, Monitors
<1>7. CASE CircuitCloses
  BY <1>0, <1>4, <1>7 DEF CircuitCloses, importVars, Monitors
<1>8. CASE UNCHANGED vars
  BY <1>0, <1>4, <1>8 DEF vars, importVars, Monitors
<1>9. CASE RunOnce
  BY <1>9, RunOnceStep
<1>10. CASE Crash
  <2>1. /\ worker' = [w \in Workers |-> IF w = Main THEN [Off EXCEPT !.at = "boot"] ELSE Off]
        /\ UNCHANGED <<staging, library, row, reported, imported>> /\ failed' = {}
        /\ waiting' = {} /\ circuit' = FALSE /\ pass' = NoPass
    BY <1>10 DEF Crash, ImportCrash
  <2>2. troubles' \in 0..MaxTroubles
    BY <1>0, <1>10 DEF Crash, ImportCrash
  <2>3. worker' \in [Workers -> WorkerState] /\ WorkersGood'
    BY <1>0, <2>1, OffGood DEF WorkersGood
  <2>4. NoPass \in PassState /\ NoPass.at = "idle" /\ NoPass.keys = {}
    BY <1>0 DEF NoPass, PassState
  <2>5. PassGood(library, NoPass, File')
    BY <2>4 DEF PassGood
  <2>6. LedgerGood'
    BY <1>0, <2>1, <2>5 DEF LedgerGood
  <2>7. TypeOK'
    BY <1>0, <2>1, <2>2, <2>3, <2>4 DEF Inv, TypeOK, Libraries
  <2>8. RowsGood' /\ LinksGood(library)' /\ Kept
    BY <2>1 DEF Inv, RowsGood, Kept, Filed
  <2> QED
    BY <2>3, <2>6, <2>7, <2>8 DEF Inv
<1> QED
  BY <1>1, <1>2, <1>3, <1>5, <1>6, <1>7, <1>8, <1>9, <1>10 DEF Next

\* The rows, the workers and the ledger keep their types.
THEOREM ImportTypes == Spec => []TypeOK
<1>1. Inv /\ [Next]_vars => Inv'
  BY InvStep
<1> QED
  BY <1>1, InvInit, PTL DEF Spec, Inv

\* A payload is in staging or whole in the library as long as the process and
\* its monitors exist: what is deleted (after a move, a reuse, the seeding or a
\* Soulseek import) is whole in the library, and nothing whole is overwritten.
THEOREM NothingIsLost == Spec => PayloadKept
<1>1. Inv /\ [Next]_vars => Inv'
  BY InvStep
<1>2. Inv /\ [Next]_vars => [\A p \in Payloads : p \in staging \/ Filed(p) => p \in staging' \/ Filed(p)']_vars
  BY InvStep DEF Kept
<1> QED
  BY <1>1, <1>2, InvInit, PTL DEF Spec, PayloadKept

\* The organized paths of the rows and the ledger of the transfers name what is
\* whole in the library, although every worker writes back a row it read before.
THEOREM RecordsAreWhole == Spec => []RecordedIsWhole
<1>1. Inv /\ [Next]_vars => Inv'
  BY InvStep
<1>2. Inv => RecordedIsWhole
  <2> SUFFICES ASSUME Inv PROVE RecordedIsWhole
    OBVIOUS
  <2>1. \A t \in Torrents : \A p \in FilesOf[t] : row[t].org[p] # 0 => library[p][row[t].org[p]] = "whole"
    BY FoldersOfTheirOwn DEF Inv, RowsGood, PathsWhole
  <2>2. \A p \in imported \cup pass.keys : Filed(p)
    BY DEF Inv, LedgerGood, PassGood, InLibrary, Filed
  <2> QED
    BY <2>1, <2>2 DEF RecordedIsWhole
<1> QED
  BY <1>1, <1>2, InvInit, PTL DEF Spec

\* What can be linked is linked once, whoever imports it and how often
\* (_unique_destination, link_or_copy_file).
THEOREM OneNamePerLink == Spec => []LinkedOnce
<1>1. Inv /\ [Next]_vars => Inv'
  BY InvStep
<1>2. Inv => LinkedOnce
  <2> SUFFICES ASSUME Inv, NEW p \in Linkable PROVE Cardinality(Taken(p)) <= 1
    BY DEF LinkedOnce
  <2>1. Taken(p) \subseteq {1}
    BY DEF Inv, LinksGood, Taken
  <2>2. Taken(p) = {} \/ Taken(p) = {1}
    BY <2>1
  <2>3. Cardinality({}) = 0 /\ Cardinality({1}) = 1
    BY FS_EmptySet, FS_Singleton
  <2> QED
    BY <2>2, <2>3
<1> QED
  BY <1>1, <1>2, InvInit, PTL DEF Spec
=============================================================================
