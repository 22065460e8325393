------------------------- MODULE PromptSchedulerProofs -------------------------
(***************************************************************************)
(* What TLAPS proves of Notifications and of PromptScheduler above it, for *)
(* any notices, bridges, callers, tasks and ticks and any number of        *)
(* crashes and failed statements: a notice reaches a chat twice only for   *)
(* the reasons the model names, none falls between notify() and a bridge   *)
(* that registers, and a task neither speaks nor counts more often than it *)
(* was run.                                                                *)
(***************************************************************************)
EXTENDS PromptScheduler, FiniteSetTheorems, TLAPS

-----------------------------------------------------------------------------
(* The notices *)

InTransit == {"send", "sent", "failed"}

\* Where a courier is says what it holds: nothing before it starts, a notice
\* without a bridge until it fans out, and a post while it sends.  A replay
\* sends to its own bridge.
CourierGood(c, s) ==
    /\ s.at \in {"new", "list", "next"} => s.post = <<Nothing, Nothing>>
    /\ s.at \in {"new", "list", "insert", "fan"} => s.todo = {}
    /\ s.at \in {"insert", "fan"} => s.post \in Notices \X {Nothing}
    /\ s.at \in InTransit => s.post \in Posts
    /\ c \in Bridges => s.todo \subseteq Notices \X {c}
    /\ c \in Bridges => s.at \notin {"insert", "fan"}

Couriering == \A c \in Couriers : CourierGood(c, courier[c])

\* A bridge is registered under its own key.
Registered == \A k \in Keys : bridge[k] # Nothing => KeyOf[bridge[k]] = k

\* The courier is sending to the line.
Sends(c, l) == courier[c].at \in InTransit /\ Line(c) = l

\* What is known of a line that nothing excuses: it has one courier at most,
\* which keeps the ledger, and a message that arrived is in the ledger, or its
\* courier is about to put it there.
Known(l) ==
    /\ \A c, d \in Couriers : Sends(c, l) /\ Sends(d, l) => c = d
    /\ \A c \in Couriers : Sends(c, l) => courier[c].keeps
    /\ \A c \in Couriers : Sends(c, l) /\ courier[c].at \in {"send", "failed"} => sent[l] = 0
    /\ sent[l] <= 1
    /\ sent[l] = 1 => \/ delivery[l] = "delivered"
                      \/ \E c \in Couriers : Sends(c, l) /\ courier[c].at = "sent"

Ledger == \A l \in Notices \X Targets : l \in excused \/ Known(l)

\* A post that a courier has taken up has left its trace.
Traced ==
    \A c \in Couriers : courier[c].at \in InTransit => delivery[Line(c)] # "none" \/ Line(c) \in excused

NoticesInv == NoticesTypeOK /\ Couriering /\ Registered /\ Ledger /\ Traced /\ NoNoticeMissed

-----------------------------------------------------------------------------
(* The tasks *)

\* A row is enabled only as long as the task is to run again.
RowGood(t, r) == r # NoRow => (r.enabled => ~Complete(t, r.count))

\* The tick runs the task it has picked, or is still to deal with the task.
Runs(s, t) == s.task = t /\ s.at \in {"execute", "notify", "told", "success", "failure"}

Open(s, t) == t \in s.rows \/ Runs(s, t)

\* The runs of t that the tick has not counted yet.
Uncounted(s, t) == IF s.task = t /\ s.at \in {"told", "success"} THEN 1 ELSE 0

\* What a tick has read of a task it has not dealt with: the row is enabled,
\* unless its run was counted and could not be written, and its count lies
\* behind the runs by those that are lost.
SnapGood(s, t) ==
    /\ RowGood(t, s.snap[t])
    /\ Open(s, t) =>
        /\ s.snap[t] # NoRow
        /\ ~(s.task = t /\ s.at = "failure") => s.snap[t].enabled
        /\ s.snap[t].count + Uncounted(s, t) <= answers[t]
        /\ answers[t] <= s.snap[t].count + Uncounted(s, t) + troubles

\* A tick holds the flag and runs the task it has picked.
TickGood(s) ==
    /\ s.at # "idle" => running
    /\ s.at = "idle" => s = Idle
    /\ s.at = "read" => s.rows = {}
    /\ s.at \notin {"idle", "read", "pick"} => s.task \in Tasks /\ s.task \notin s.rows
    /\ s.at = "notify" => told[s.task] < MaxNotices

\* The stored count lies behind the runs by those a crash or a failed write has
\* lost and the one that a tick has not counted yet.
StoreGood(t) ==
    /\ RowGood(t, store[t])
    /\ told[t] <= answers[t]
    /\ store[t] # NoRow =>
        /\ store[t].count <= answers[t]
        /\ \/ answers[t] <= store[t].count + troubles
           \/ \E x \in Ticks : Uncounted(tick[x], t) = 1 /\ answers[t] <= store[t].count + troubles + 1

OneTick == \A x, y \in Ticks : tick[x].at # "idle" /\ tick[y].at # "idle" => x = y

TasksInv ==
    /\ OneTick
    /\ \A x \in Ticks : TickGood(tick[x]) /\ \A t \in Tasks : SnapGood(tick[x], t)
    /\ \A t \in Tasks : StoreGood(t)
    /\ ToldNoMoreThanAsked

Inv == TypeOK /\ NoticesInv /\ TasksInv

-----------------------------------------------------------------------------
(* Couriers and lines *)

Lines == Notices \X Targets

\* The courier will come to the notice for the bridge.
Gives(c, s, n, b) ==
    \/ c = b /\ s.at = "list"
    \/ <<n, b>> \in s.todo
    \/ s.post \in {<<n, b>>, <<n, Nothing>>}

\* The send of the notice to the bridge has begun, or nobody can know.
Trace(n, b) == delivery[<<n, TargetOf[b]>>] # "none" \/ <<n, TargetOf[b]>> \in excused

\* The two ways to say that a bridge is offered a notice.
LEMMA OfferIs ==
    ASSUME NEW n, NEW b \in Bridges
    PROVE  (Coming(n, b) <=> \E c \in Couriers : Gives(c, courier[c], n, b))
           /\ (Coming(n, b)' <=> \E c \in Couriers : Gives(c, courier'[c], n, b))
BY DEF Coming, Gives, Couriers

LEMMA MissedNoneIs ==
    ASSUME NoticesTypeOK
    PROVE  NoNoticeMissed <=>
             \A n \in fresh, k \in Keys :
                row[n] = "unread" /\ bridge[k] # Nothing =>
                    Trace(n, bridge[k]) \/ \E c \in Couriers : Gives(c, courier[c], n, bridge[k])
<1>1. \A k \in Keys : bridge[k] # Nothing => bridge[k] \in Bridges
  BY DEF NoticesTypeOK
<1> QED
  BY <1>1, OfferIs DEF NoNoticeMissed, Trace

\* The parts of a post.
LEMMA PostIs ==
    /\ \A p \in Posts : p[1] \in Notices /\ p[2] \in Bridges /\ p = <<p[1], p[2]>> /\ LineOf(p) \in Lines
    /\ \A p \in Notices \X {Nothing} : p[1] \in Notices /\ p = <<p[1], Nothing>>
    /\ Nothing \notin Notices /\ Nothing \notin Bridges
    /\ \A b \in Bridges : KeyOf[b] \in Keys /\ TargetOf[b] \in Targets /\ b \notin Callers
BY NoticesAssumption DEF NoticesAssumption, Posts, LineOf, Lines, Targets, Keys

\* A courier in transit has a line.
LEMMA LineIs ==
    ASSUME NoticesTypeOK, Couriering, NEW c \in Couriers, courier[c].at \in InTransit
    PROVE  courier[c].post \in Posts /\ Line(c) = LineOf(courier[c].post) /\ Line(c) \in Lines
<1>1. courier[c].post \in Posts
  BY DEF Couriering, CourierGood
<1> QED
  BY <1>1, PostIs DEF Line, LineOf, Notice

\* One courier moves on.
LEMMA CourierMoves ==
    ASSUME NoticesInv, NEW c \in Couriers, NEW s \in CourierState,
           courier' = [courier EXCEPT ![c] = s], CourierGood(c, s),
           UNCHANGED <<row, fresh, bridge>>,
           delivery' \in [Lines -> {"none", "pending", "failed", "delivered"}],
           troubles' \in 0..MaxTroubles, sent' \in [Lines -> Nat], excused' \subseteq Lines,
           \A l \in Lines : delivery[l] # "none" \/ l \in excused => delivery'[l] # "none" \/ l \in excused',
           \A n \in fresh, b \in Bridges :
                row[n] = "unread" /\ bridge[KeyOf[b]] = b /\ Gives(c, courier[c], n, b)
                    => Gives(c, s, n, b) \/ Trace(n, b)',
           Ledger', Traced'
    PROVE  NoticesInv'
<1>0. courier \in [Couriers -> CourierState] /\ bridge \in [Keys -> Bridges \cup {Nothing}] /\ fresh \subseteq Notices
  BY DEF NoticesInv, NoticesTypeOK
<1>1. NoticesTypeOK'
  BY <1>0 DEF NoticesInv, NoticesTypeOK, Lines
<1>2. Couriering' /\ Registered'
  BY <1>0 DEF NoticesInv, Couriering, Registered
<1>3. \A n \in Notices, b \in Bridges : Trace(n, b) => Trace(n, b)'
  <2>1. \A n \in Notices, b \in Bridges : <<n, TargetOf[b]>> \in Lines
    BY PostIs DEF Lines
  <2> QED
    BY <2>1 DEF Trace
<1>4. \A n \in fresh, b \in Bridges :
        row[n] = "unread" /\ bridge[KeyOf[b]] = b /\ (\E d \in Couriers : Gives(d, courier[d], n, b))
            => (\E d \in Couriers : Gives(d, courier'[d], n, b)) \/ Trace(n, b)'
  BY <1>0
<1>5. NoNoticeMissed'
  <2>1. \A n \in fresh, k \in Keys :
            row[n] = "unread" /\ bridge[k] # Nothing =>
                Trace(n, bridge[k]) \/ \E d \in Couriers : Gives(d, courier[d], n, bridge[k])
    BY MissedNoneIs DEF NoticesInv
  <2>2. ASSUME NEW n \in fresh, NEW k \in Keys, row[n] = "unread", bridge[k] # Nothing
        PROVE  Trace(n, bridge[k])' \/ \E d \in Couriers : Gives(d, courier'[d], n, bridge[k])
    <3> DEFINE b == bridge[k]
    <3>1. b \in Bridges /\ n \in Notices
      BY <1>0, <2>2
    <3>2. Trace(n, b) \/ \E d \in Couriers : Gives(d, courier[d], n, b)
      BY <2>1, <2>2
    <3>3. b' = b /\ bridge[KeyOf[b]] = b
      BY <2>2 DEF NoticesInv, Registered
    <3> HIDE DEF b
    <3>4. Trace(n, b)' \/ \E d \in Couriers : Gives(d, courier'[d], n, b)
      BY <1>3, <1>4, <2>2, <3>1, <3>2, <3>3 DEF Trace
    <3> QED
      BY <3>4 DEF b
  <2>3. ASSUME NEW n \in fresh', NEW k \in Keys, row'[n] = "unread", bridge'[k] # Nothing
        PROVE  \/ delivery'[<<n, TargetOf[bridge'[k]]>>] # "none"
               \/ <<n, TargetOf[bridge'[k]]>> \in excused'
               \/ Coming(n, bridge[k])'
    <3>1. Trace(n, bridge[k])' \/ \E d \in Couriers : Gives(d, courier'[d], n, bridge[k])
      BY <2>2, <2>3
    <3>2. bridge[k] \in Bridges /\ bridge'[k] = bridge[k]
      BY <1>0, <2>3
    <3>3. Coming(n, bridge[k])' <=> \E d \in Couriers : Gives(d, courier'[d], n, bridge[k])
      BY <3>2 DEF Coming, Gives, Couriers
    <3> QED
      BY <3>1, <3>3 DEF Trace
  <2> QED
    BY <2>3 DEF NoNoticeMissed
<1> QED
  BY <1>1, <1>2, <1>5 DEF NoticesInv

\* A courier that neither comes from a send nor goes to one tells nothing of it.
LEMMA Elsewhere ==
    ASSUME NoticesInv, NEW c \in Couriers, NEW s \in CourierState,
           courier' = [courier EXCEPT ![c] = s],
           courier[c].at \notin InTransit, s.at \notin InTransit,
           UNCHANGED <<delivery, sent, excused>>
    PROVE  Ledger' /\ Traced'
<1>0. courier \in [Couriers -> CourierState]
  BY DEF NoticesInv, NoticesTypeOK
<1>1. courier'[c] = s /\ \A d \in Couriers \ {c} : courier'[d] = courier[d]
  BY <1>0
<1>2. \A d \in Couriers, l \in Lines : Sends(d, l)' <=> Sends(d, l)
  BY <1>1 DEF Sends, Line, Notice
<1>3. \A d \in Couriers, l \in Lines : Sends(d, l) => courier'[d] = courier[d]
  BY <1>1 DEF Sends
<1>4. \A l \in Lines : Known(l) => Known(l)'
  BY <1>2, <1>3 DEF Known
<1>5. Ledger'
  BY <1>4 DEF NoticesInv, Ledger, Lines
<1>6. Traced'
  BY <1>1 DEF NoticesInv, Traced, Line, Notice
<1> QED
  BY <1>5, <1>6

-----------------------------------------------------------------------------
(* notify() *)

\* What the steps of a courier may use.
LEMMA CourierFacts ==
    ASSUME NoticesInv, NEW c \in Couriers
    PROVE  /\ courier \in [Couriers -> CourierState] /\ courier[c] \in CourierState
           /\ CourierGood(c, courier[c])
           /\ row \in [Notices -> {"none", "unread", "read"}] /\ fresh \subseteq Notices
           /\ bridge \in [Keys -> Bridges \cup {Nothing}]
           /\ delivery \in [Lines -> {"none", "pending", "failed", "delivered"}]
           /\ troubles \in 0..MaxTroubles /\ sent \in [Lines -> Nat] /\ excused \subseteq Lines
           /\ MaxTroubles \in Nat
           /\ courier[c].at \in Waits /\ courier[c].todo \subseteq Posts
BY NoticesAssumption
   DEF NoticesInv, NoticesTypeOK, Couriering, CourierState, Lines, NoticesAssumption

LEMMA LookupStep ==
    ASSUME NoticesInv, NEW c \in Callers, NEW n \in Notices, Lookup(c, n)
    PROVE  NoticesInv'
<1> DEFINE at == IF row[n] = "none" THEN "insert" ELSE "fan"
           s == [Resting EXCEPT !.at = at, !.post = <<n, Nothing>>]
<1>0. c \in Couriers /\ c \notin Bridges
  BY PostIs DEF Couriers
<1>1. courier' = [courier EXCEPT ![c] = s] /\ courier[c].at = "new"
      /\ UNCHANGED <<row, fresh, bridge, delivery, troubles, sent, excused>>
  BY DEF Lookup
<1>2. at \in {"insert", "fan"}
  OBVIOUS
<1> HIDE DEF at
<1>3. s.at = at /\ s.post = <<n, Nothing>> /\ s.todo = {} /\ s \in CourierState
  BY <1>2 DEF Resting, CourierState, Waits
<1> HIDE DEF s
<1>4. CourierGood(c, s)
  BY <1>0, <1>2, <1>3 DEF CourierGood, InTransit
<1>5. Ledger' /\ Traced'
  BY <1>0, <1>1, <1>2, <1>3, Elsewhere DEF InTransit
<1>6. \A m \in Notices, b \in Bridges : ~Gives(c, courier[c], m, b)
  <2>1. courier[c].todo = {} /\ courier[c].post = <<Nothing, Nothing>>
    BY <1>0, <1>1, CourierFacts DEF CourierGood
  <2> QED
    BY <1>1, <2>1, PostIs DEF Gives
<1> QED
  BY <1>0, <1>1, <1>3, <1>4, <1>5, <1>6, CourierFacts, CourierMoves

LEMMA PersistStep ==
    ASSUME NoticesInv, NEW c \in Callers, Persist(c)
    PROVE  NoticesInv'
<1> DEFINE o == courier[c]
           n == Notice(c)
<1>0. /\ c \in Couriers /\ c \notin Bridges
      /\ courier \in [Couriers -> CourierState] /\ o \in CourierState
      /\ CourierGood(c, o)
      /\ row \in [Notices -> {"none", "unread", "read"}] /\ fresh \subseteq Notices
      /\ bridge \in [Keys -> Bridges \cup {Nothing}]
      /\ delivery \in [Lines -> {"none", "pending", "failed", "delivered"}]
      /\ troubles \in 0..MaxTroubles /\ sent \in [Lines -> Nat] /\ excused \subseteq Lines
      /\ MaxTroubles \in Nat
  BY PostIs, CourierFacts DEF Couriers
<1>1. o.at \in {"insert", "fan"}
  BY DEF Persist, Insert, InsertRefused, PersistFails, Fan
<1>2. n \in Notices /\ o.post = <<n, Nothing>> /\ o.todo = {}
  BY <1>0, <1>1, PostIs DEF CourierGood, Notice
\* It goes to the fan with the notice it has.
<1>3. ASSUME NEW keeps \in BOOLEAN
      PROVE  LET s == [o EXCEPT !.at = "fan", !.keeps = keeps]
             IN  /\ s \in CourierState /\ CourierGood(c, s)
                 /\ s.at = "fan" /\ s.post = o.post
                 /\ \A m \in Notices, b \in Bridges : Gives(c, o, m, b) => Gives(c, s, m, b)
  <2> DEFINE s == [o EXCEPT !.at = "fan", !.keeps = keeps]
  <2>1. s \in CourierState /\ s.at = "fan" /\ s.post = o.post /\ s.todo = o.todo
    BY <1>0 DEF CourierState, Waits
  <2> HIDE DEF s
  <2>2. CourierGood(c, s)
    BY <1>0, <1>1, <2>1 DEF CourierGood, InTransit
  <2>3. \A m \in Notices, b \in Bridges : Gives(c, o, m, b) => Gives(c, s, m, b)
    BY <1>1, <2>1 DEF Gives
  <2> QED
    BY <2>1, <2>2, <2>3 DEF s
<1>4. CASE Insert(c)
  <2> DEFINE s == [o EXCEPT !.at = "fan", !.keeps = o.keeps]
  <2>1. o.keeps \in BOOLEAN
    BY <1>0 DEF CourierState
  <2>2. courier' = [courier EXCEPT ![c] = s]
    BY <1>0, <1>4 DEF Insert, Goes, CourierState
  <2>3. /\ s \in CourierState /\ CourierGood(c, s) /\ s.at = "fan" /\ s.post = o.post
        /\ \A m \in Notices, b \in Bridges : Gives(c, o, m, b) => Gives(c, s, m, b)
    BY <1>3, <2>1
  <2> HIDE DEF s
  <2>4. /\ row[n] = "none" /\ row' = [row EXCEPT ![n] = "unread"] /\ fresh' = fresh \cup {n}
        /\ UNCHANGED <<bridge, delivery, troubles, sent, excused>>
    BY <1>4 DEF Insert
  <2> HIDE DEF n
  <2>5. NoticesTypeOK'
    BY <1>0, <1>2, <2>2, <2>3, <2>4 DEF NoticesTypeOK, Lines
  <2>6. Couriering' /\ Registered'
    BY <1>0, <2>2, <2>3, <2>4 DEF NoticesInv, Couriering, Registered
  <2>7. Ledger' /\ Traced'
    BY <1>0, <1>1, <2>2, <2>3, <2>4, Elsewhere DEF InTransit
  <2>8. ASSUME NEW m \in fresh', NEW k \in Keys, row'[m] = "unread", bridge[k] # Nothing
        PROVE  Trace(m, bridge[k]) \/ \E d \in Couriers : Gives(d, courier'[d], m, bridge[k])
    <3>0. bridge[k] \in Bridges
      BY <1>0, <2>8
    <3>1. CASE m = n
      <4>1. Gives(c, courier'[c], m, bridge[k])
        BY <1>0, <1>2, <2>2, <2>3, <3>1 DEF Gives
      <4> QED
        BY <1>0, <4>1
    <3>2. CASE m # n
      <4>1. m \in fresh /\ row[m] = "unread" /\ m \in Notices
        BY <1>0, <2>4, <2>8, <3>2
      <4>2. Trace(m, bridge[k]) \/ \E d \in Couriers : Gives(d, courier[d], m, bridge[k])
        BY <2>8, <4>1, MissedNoneIs DEF NoticesInv
      <4> QED
        BY <1>0, <2>2, <2>3, <3>0, <4>1, <4>2
    <3> QED
      BY <3>1, <3>2
  <2>9. NoNoticeMissed'
    <3>1. \A m \in fresh', k \in Keys : row'[m] = "unread" /\ bridge[k] # Nothing =>
             \/ delivery[<<m, TargetOf[bridge[k]]>>] # "none"
             \/ <<m, TargetOf[bridge[k]]>> \in excused
             \/ Coming(m, bridge[k])'
      <4>1. \A m, k : (k \in Keys /\ bridge[k] # Nothing) =>
               (Coming(m, bridge[k])' <=> \E d \in Couriers : Gives(d, courier'[d], m, bridge[k]))
        BY <1>0, <2>4 DEF Coming, Gives, Couriers
      <4> QED
        BY <2>8, <4>1 DEF Trace
    <3> QED
      BY <2>4, <3>1 DEF NoNoticeMissed
  <2> QED
    BY <2>5, <2>6, <2>7, <2>9 DEF NoticesInv
<1>5. CASE InsertRefused(c) \/ PersistFails(c)
  <2> DEFINE s == [o EXCEPT !.at = "fan", !.keeps = FALSE]
  <2>1. courier' = [courier EXCEPT ![c] = s]
    BY <1>5 DEF InsertRefused, PersistFails
  <2>2. /\ s \in CourierState /\ CourierGood(c, s) /\ s.at = "fan"
        /\ \A m \in Notices, b \in Bridges : Gives(c, o, m, b) => Gives(c, s, m, b)
    BY <1>3
  <2> HIDE DEF s
  <2>3. UNCHANGED <<row, fresh, bridge, delivery, sent, excused>> /\ troubles' \in 0..MaxTroubles
    BY <1>0, <1>5 DEF InsertRefused, PersistFails
  <2>4. Ledger' /\ Traced'
    BY <1>0, <1>1, <2>1, <2>2, <2>3, Elsewhere DEF InTransit
  <2> QED
    BY <1>0, <2>1, <2>2, <2>3, <2>4, CourierMoves
<1>6. CASE Fan(c)
  <2> DEFINE todo == {<<n, b>> : b \in {bridge[k] : k \in Keys} \ {Nothing}}
             s == [o EXCEPT !.at = "next", !.post = <<Nothing, Nothing>>, !.todo = todo]
  <2>1. courier' = [courier EXCEPT ![c] = s] /\ UNCHANGED <<row, fresh, bridge, delivery, troubles, sent, excused>>
    BY <1>6 DEF Fan
  <2>2. todo \subseteq Posts
    BY <1>0, <1>2 DEF Posts
  <2>3. \A k \in Keys : bridge[k] # Nothing => <<n, bridge[k]>> \in todo
    OBVIOUS
  <2> HIDE DEF todo
  <2>4. s \in CourierState /\ s.at = "next" /\ s.post = <<Nothing, Nothing>> /\ s.todo = todo
    BY <1>0, <2>2 DEF CourierState, Waits
  <2> HIDE DEF s
  <2>5. CourierGood(c, s)
    BY <1>0, <2>4 DEF CourierGood, InTransit
  <2>6. Ledger' /\ Traced'
    BY <1>0, <1>1, <2>1, <2>4, Elsewhere DEF InTransit
  <2> HIDE DEF n
  <2>7. NoticesTypeOK' /\ Couriering' /\ Registered'
    BY <1>0, <2>1, <2>4, <2>5 DEF NoticesInv, NoticesTypeOK, Couriering, Registered, Lines
  <2>8. ASSUME NEW m \in fresh, NEW k \in Keys, row[m] = "unread", bridge[k] # Nothing
        PROVE  Trace(m, bridge[k]) \/ \E d \in Couriers : Gives(d, courier'[d], m, bridge[k])
    <3>1. CASE m = n
      <4>1. Gives(c, courier'[c], m, bridge[k])
        BY <1>0, <2>1, <2>3, <2>4, <2>8, <3>1 DEF Gives
      <4> QED
        BY <1>0, <4>1
    <3>2. CASE m # n
      <4>1. Trace(m, bridge[k]) \/ \E d \in Couriers : Gives(d, courier[d], m, bridge[k])
        BY <2>8, MissedNoneIs DEF NoticesInv
      <4>2. ~Gives(c, o, m, bridge[k])
        BY <1>0, <1>1, <1>2, <2>8, <3>2 DEF Gives
      <4> QED
        BY <1>0, <2>1, <4>1, <4>2
    <3> QED
      BY <3>1, <3>2
  <2>9. NoNoticeMissed'
    <3>1. \A m \in fresh, k \in Keys : row[m] = "unread" /\ bridge[k] # Nothing =>
             \/ delivery[<<m, TargetOf[bridge[k]]>>] # "none"
             \/ <<m, TargetOf[bridge[k]]>> \in excused
             \/ Coming(m, bridge[k])'
      <4>1. \A m, k : (k \in Keys /\ bridge[k] # Nothing) =>
               (Coming(m, bridge[k])' <=> \E d \in Couriers : Gives(d, courier'[d], m, bridge[k]))
        BY <1>0, <2>1 DEF Coming, Gives, Couriers
      <4> QED
        BY <2>8, <4>1 DEF Trace
    <3> QED
      BY <2>1, <3>1 DEF NoNoticeMissed
  <2> QED
    BY <2>6, <2>7, <2>9 DEF NoticesInv
<1> QED
  BY <1>4, <1>5, <1>6 DEF Persist

-----------------------------------------------------------------------------
(* Sends *)

\* A courier takes up a post of its list, or passes it over.
LEMMA TakeStep ==
    ASSUME NoticesInv, NEW c \in Couriers, NEW p \in Posts, Skip(c, p) \/ Attempt(c, p) \/ LedgerFails(c, p)
    PROVE  NoticesInv'
<1> DEFINE o == courier[c]
           l == LineOf(p)
<1>0. /\ courier \in [Couriers -> CourierState] /\ o \in CourierState
      /\ CourierGood(c, o) /\ fresh \subseteq Notices
      /\ delivery \in [Lines -> {"none", "pending", "failed", "delivered"}]
      /\ troubles \in 0..MaxTroubles /\ sent \in [Lines -> Nat] /\ excused \subseteq Lines
      /\ MaxTroubles \in Nat /\ o.todo \subseteq Posts /\ l \in Lines /\ o.keeps \in BOOLEAN
      /\ p[1] \in Notices /\ p[2] \in Bridges /\ p = <<p[1], p[2]>>
  BY PostIs, CourierFacts DEF CourierState
<1>1. o.at = "next" /\ p \in o.todo
  BY DEF Skip, Attempt, LedgerFails, Takes
<1>2. CASE Skip(c, p)
  <2> DEFINE s == [o EXCEPT !.todo = o.todo \ {p}]
  <2>1. courier' = [courier EXCEPT ![c] = s] /\ UNCHANGED <<row, fresh, bridge, delivery, troubles, sent, excused>>
    BY <1>2 DEF Skip, Left
  <2>2. s \in CourierState /\ s.at = "next" /\ s.todo = o.todo \ {p} /\ s.post = o.post
    BY <1>0, <1>1 DEF CourierState
  <2> HIDE DEF s
  <2>3. CourierGood(c, s)
    BY <1>0, <1>1, <2>2 DEF CourierGood, InTransit
  <2>4. Ledger' /\ Traced'
    BY <1>1, <2>1, <2>2, Elsewhere DEF InTransit
  <2>5. p[1] \notin fresh \/ delivery[l] = "delivered"
    BY <1>0, <1>2 DEF Skip, PassedOver, MaySend
  <2>6. ASSUME NEW n \in fresh, NEW b \in Bridges, Gives(c, o, n, b)
        PROVE  Gives(c, s, n, b) \/ Trace(n, b)'
    <3>1. CASE <<n, b>> = p
      <4>1. n = p[1] /\ b = p[2]
        BY <3>1
      <4> QED
        BY <2>1, <2>5, <2>6, <4>1 DEF Trace, LineOf
    <3>2. CASE <<n, b>> # p
      BY <1>1, <2>2, <2>6, <3>2 DEF Gives
    <3> QED
      BY <3>1, <3>2
  <2> QED
    BY <1>0, <2>1, <2>2, <2>3, <2>4, <2>6, CourierMoves
<1>3. CASE Attempt(c, p) \/ LedgerFails(c, p)
  <2> DEFINE s == [o EXCEPT !.todo = o.todo \ {p}, !.post = p, !.at = "send"]
  <2>1. courier' = [courier EXCEPT ![c] = s]
    BY <1>0, <1>3 DEF Attempt, LedgerFails, Left, CourierState
  <2>2. s \in CourierState /\ s.at = "send" /\ s.todo = o.todo \ {p} /\ s.post = p /\ s.keeps = o.keeps
    BY <1>0, <1>1 DEF CourierState, Waits, Posts
  <2> HIDE DEF s
  <2>3. CourierGood(c, s)
    BY <1>0, <1>1, <2>2 DEF CourierGood, InTransit
  <2>4. /\ UNCHANGED <<row, fresh, bridge, sent>> /\ troubles' \in 0..MaxTroubles
        /\ excused \subseteq excused' /\ excused' \subseteq excused \cup {l}
    BY <1>0, <1>3 DEF Attempt, LedgerFails
  <2>5. delivery' \in [Lines -> {"none", "pending", "failed", "delivered"}]
        /\ (\A m \in Lines \ {l} : delivery'[m] = delivery[m])
        /\ (delivery[l] # "none" => delivery'[l] # "none")
        /\ (delivery'[l] = "none" => l \in excused')
    BY <1>0, <1>3 DEF Attempt, LedgerFails, Unless
  <2>6. Sends(c, l)' /\ Line(c)' = l /\ courier'[c] = s /\ \A d \in Couriers \ {c} : courier'[d] = courier[d]
    BY <1>0, <2>1, <2>2, PostIs DEF Sends, Line, Notice, LineOf, InTransit
  <2>7. \A d \in Couriers \ {c}, m \in Lines : Sends(d, m)' <=> Sends(d, m)
    BY <2>6 DEF Sends, Line, Notice
  <2>8. \A m \in Lines : ~Sends(c, m) /\ (Sends(c, m)' => m = l)
    BY <1>1, <2>6 DEF Sends, InTransit
  <2>9. ASSUME NEW m \in Lines, m # l, Known(m) PROVE Known(m)'
    BY <2>4, <2>5, <2>6, <2>7, <2>8, <2>9 DEF Known
  <2>10. ASSUME l \notin excused' PROVE Known(l)'
    <3>1. Attempt(c, p) /\ ~Unseen(c, l) /\ o.keeps
      BY <1>3, <2>10 DEF Attempt, LedgerFails
    <3>2. delivery[l] # "delivered" /\ l \notin excused
      BY <2>4, <2>10, <3>1 DEF Attempt, MaySend
    <3>3. \A d \in Couriers : ~Sends(d, l)
      <4>1. ASSUME NEW d \in Couriers \ {c}, Sends(d, l) PROVE FALSE
        <5>1. d \in InFlight \ {c} /\ Line(d) = l
          BY <4>1 DEF Sends, InFlight, InTransit
        <5>2. courier[d].post[2] # Nothing
          BY <4>1, LineIs, PostIs DEF Sends, NoticesInv
        <5> QED
          BY <3>1, <5>1, <5>2 DEF Unseen
      <4> QED
        BY <1>0, <2>8, <4>1
    <3>4. Known(l)
      BY <1>0, <3>2 DEF NoticesInv, Ledger, Lines
    <3>5. sent[l] = 0
      <4>1. sent[l] # 1 /\ sent[l] <= 1
        BY <3>2, <3>3, <3>4 DEF Known
      <4>2. sent[l] \in Nat
        BY <1>0
      <4> QED
        BY <4>1, <4>2
    <3>6. \A d \in Couriers : Sends(d, l)' => d = c
      BY <1>0, <2>7, <3>3
    <3>7. courier'[c].keeps /\ sent'[l] = 0
      BY <2>2, <2>4, <2>6, <3>1, <3>5
    <3> QED
      BY <3>6, <3>7 DEF Known
  <2>11. Ledger'
    BY <1>0, <2>4, <2>9, <2>10 DEF NoticesInv, Ledger, Lines
  <2>12. Traced'
    <3>1. delivery'[l] # "none" \/ l \in excused'
      BY <2>5
    <3>2. ASSUME NEW d \in Couriers \ {c}, courier'[d].at \in InTransit
          PROVE  delivery'[Line(d)'] # "none" \/ Line(d)' \in excused'
      <4>1. Line(d)' = Line(d) /\ courier[d].at \in InTransit
        BY <2>6, <3>2 DEF Line, Notice
      <4>2. Line(d) \in Lines
        BY <4>1, LineIs DEF NoticesInv
      <4>3. delivery[Line(d)] # "none" \/ Line(d) \in excused
        BY <4>1 DEF NoticesInv, Traced
      <4> QED
        BY <2>4, <2>5, <4>1, <4>2, <4>3
    <3> QED
      BY <2>6, <3>1, <3>2 DEF Traced
  <2>13. \A n \in fresh, b \in Bridges : Gives(c, o, n, b) => Gives(c, s, n, b)
    BY <1>0, <1>1, <2>2, PostIs DEF Gives, CourierGood
  <2>14. \A m \in Lines : delivery[m] # "none" \/ m \in excused => delivery'[m] # "none" \/ m \in excused'
    BY <2>4, <2>5
  <2>15. excused' \subseteq Lines /\ sent' \in [Lines -> Nat]
    BY <1>0, <2>4
  <2> QED
    BY <2>1, <2>2, <2>3, <2>4, <2>5, <2>11, <2>12, <2>13, <2>14, <2>15, CourierMoves
<1> QED
  BY <1>2, <1>3

\* The message arrives, or does not, and the outcome goes to the ledger.
LEMMA OutcomeStep ==
    ASSUME NoticesInv, NEW c \in Couriers,
           Arrives(c) \/ Refused(c) \/ Delivered(c) \/ Failed(c) \/ OutcomeLost(c)
    PROVE  NoticesInv'
<1> PICK o : o = courier[c]
  OBVIOUS
<1> PICK l : l = Line(c)
  OBVIOUS
<1>0. /\ courier \in [Couriers -> CourierState] /\ o \in CourierState
      /\ CourierGood(c, o) /\ fresh \subseteq Notices
      /\ delivery \in [Lines -> {"none", "pending", "failed", "delivered"}]
      /\ troubles \in 0..MaxTroubles /\ sent \in [Lines -> Nat] /\ excused \subseteq Lines
      /\ MaxTroubles \in Nat /\ o.todo \subseteq Posts /\ o.keeps \in BOOLEAN
  BY CourierFacts DEF CourierState
<1>1. o.at \in InTransit
  BY DEF Arrives, Refused, Delivered, Failed, OutcomeLost, InTransit
<1>2. o.post \in Posts /\ l = LineOf(o.post) /\ l \in Lines /\ Sends(c, l)
  BY <1>1, LineIs DEF NoticesInv, Sends
<1>3. delivery[l] # "none" \/ l \in excused
  BY <1>1 DEF NoticesInv, Traced
<1>4. \A n \in Notices, b \in Bridges : o.post \in {<<n, b>>, <<n, Nothing>>} => l = <<n, TargetOf[b]>>
  BY <1>2, PostIs DEF LineOf
<1>5. l \in excused \/ Known(l)
  BY <1>2 DEF NoticesInv, Ledger, Lines
<1>6. ASSUME NEW s \in CourierState, courier' = [courier EXCEPT ![c] = s], s.todo = o.todo,
             (s.at = "next" /\ s.post = <<Nothing, Nothing>>) \/ (s.at \in InTransit /\ s.post = o.post),
             UNCHANGED <<row, fresh, bridge>>, troubles' \in 0..MaxTroubles,
             delivery' \in [Lines -> {"none", "pending", "failed", "delivered"}],
             delivery'[l] = "none" => delivery[l] = "none",
             \A m \in Lines \ {l} : delivery'[m] = delivery[m] /\ sent'[m] = sent[m],
             sent' \in [Lines -> Nat], excused \subseteq excused', excused' \subseteq excused \cup {l},
             l \in excused' \/ Known(l)'
      PROVE  NoticesInv'
  <2>1. CourierGood(c, s)
    BY <1>0, <1>1, <1>2, <1>6 DEF CourierGood, InTransit
  <2>2. courier'[c] = s /\ \A d \in Couriers \ {c} : courier'[d] = courier[d]
    BY <1>0, <1>6
  <2>3. \A d \in Couriers \ {c} : Line(d)' = Line(d) /\ \A m \in Lines : Sends(d, m)' <=> Sends(d, m)
    BY <2>2 DEF Sends, Line, Notice
  <2>4. \A m \in Lines : (Sends(c, m) => m = l) /\ (Sends(c, m)' => m = l)
    <3>1. s.at \in InTransit => Line(c)' = l
      BY <1>6, <2>2 DEF Line, Notice, InTransit
    <3> QED
      BY <2>2, <3>1 DEF Sends
  <2>5. ASSUME NEW m \in Lines, m # l, Known(m) PROVE Known(m)'
    BY <1>6, <2>2, <2>3, <2>4, <2>5 DEF Known
  <2>6. Ledger'
    <3>1. l \in excused' \/ Known(l)'
      BY <1>6
    <3>2. ASSUME NEW m \in Lines, m # l PROVE m \in excused' \/ Known(m)'
      <4>1. m \in excused \/ Known(m)
        BY <3>2 DEF NoticesInv, Ledger, Lines
      <4> QED
        BY <1>6, <2>5, <3>2, <4>1
    <3> QED
      BY <3>1, <3>2 DEF Ledger, Lines
  <2>7. \A m \in Lines : delivery[m] # "none" \/ m \in excused => delivery'[m] # "none" \/ m \in excused'
    BY <1>6
  <2>8. Traced'
    <3>1. s.at \in InTransit => Line(c)' = l
      BY <1>6, <2>2 DEF Line, Notice, InTransit
    <3>2. ASSUME NEW d \in Couriers \ {c}, courier'[d].at \in InTransit
          PROVE  delivery'[Line(d)'] # "none" \/ Line(d)' \in excused'
      <4>1. Line(d)' = Line(d) /\ courier[d].at \in InTransit
        BY <2>2, <2>3, <3>2
      <4>2. Line(d) \in Lines
        BY <4>1, LineIs DEF NoticesInv
      <4>3. delivery[Line(d)] # "none" \/ Line(d) \in excused
        BY <4>1 DEF NoticesInv, Traced
      <4> QED
        BY <2>7, <4>1, <4>2, <4>3
    <3> QED
      BY <1>2, <1>3, <2>2, <2>7, <3>1, <3>2 DEF Traced
  <2>9. ASSUME NEW n \in fresh, NEW b \in Bridges, Gives(c, o, n, b)
        PROVE  Gives(c, s, n, b) \/ Trace(n, b)'
    <3>1. CASE o.post \in {<<n, b>>, <<n, Nothing>>}
      BY <1>0, <1>2, <1>3, <1>4, <2>7, <3>1 DEF Trace
    <3>2. CASE <<n, b>> \in o.todo
      BY <1>6, <3>2 DEF Gives
    <3> QED
      BY <1>1, <2>9, <3>1, <3>2 DEF Gives, InTransit
  <2>10. excused' \subseteq Lines
    BY <1>0, <1>2, <1>6
  <2> QED
    BY <1>6, <2>1, <2>6, <2>7, <2>8, <2>9, <2>10, CourierMoves
\* The courier returns, or goes on with its post.
<1>7. ASSUME NEW at \in {"next", "sent", "failed"}
      PROVE  LET s == [o EXCEPT !.at = at, !.post = IF at = "next" THEN <<Nothing, Nothing>> ELSE o.post]
             IN  /\ s \in CourierState /\ s.at = at /\ s.todo = o.todo /\ s.keeps = o.keeps
                 /\ s.post = IF at = "next" THEN <<Nothing, Nothing>> ELSE o.post
  BY <1>0 DEF CourierState, Waits
<1>8. CASE Arrives(c) \/ Refused(c)
  <2>1. PICK at \in {"sent", "failed"} : /\ Goes(c, at) /\ (at = "failed" => Refused(c)) /\ (at = "sent" => Arrives(c))
    BY <1>8 DEF Arrives, Refused
  <2> DEFINE s == [o EXCEPT !.at = at, !.post = IF at = "next" THEN <<Nothing, Nothing>> ELSE o.post]
  <2>2. s \in CourierState /\ s.at = at /\ s.todo = o.todo /\ s.post = o.post /\ s.keeps = o.keeps
    BY <1>7
  <2>3. courier' = [courier EXCEPT ![c] = s]
    BY <1>0, <2>1 DEF Goes, CourierState
  <2> HIDE DEF s
  <2>4. o.at = "send" /\ UNCHANGED <<row, fresh, bridge, delivery, troubles, excused>>
    BY <1>8 DEF Arrives, Refused
  <2>5. /\ sent' \in [Lines -> Nat] /\ \A m \in Lines \ {l} : sent'[m] = sent[m]
        /\ sent'[l] = IF at = "sent" THEN sent[l] + 1 ELSE sent[l]
    BY <1>0, <1>2, <2>1 DEF Arrives, Refused
  <2>6. ASSUME Known(l) PROVE Known(l)'
    <3>1. courier'[c] = s /\ \A d \in Couriers \ {c} : courier'[d] = courier[d]
      BY <1>0, <2>3
    <3>2. \A d \in Couriers : Sends(d, l)' => d = c
      <4>1. ASSUME NEW d \in Couriers \ {c}, Sends(d, l)' PROVE FALSE
        <5>1. Sends(d, l)
          BY <3>1, <4>1 DEF Sends, Line, Notice
        <5> QED
          BY <1>2, <2>6, <4>1, <5>1 DEF Known
      <4> QED
        BY <4>1
    <3>3. Sends(c, l)'
      BY <1>2, <2>1, <2>2, <3>1 DEF Sends, Line, Notice, InTransit
    <3>4. sent[l] = 0 /\ courier'[c].keeps
      BY <1>2, <2>2, <2>4, <2>6, <3>1 DEF Known
    <3>5. courier'[c].at = at /\ sent'[l] = IF at = "sent" THEN 1 ELSE 0
      BY <2>2, <2>5, <3>1, <3>4
    <3> QED
      BY <2>1, <3>2, <3>3, <3>4, <3>5 DEF Known
  <2>7. l \in excused' \/ Known(l)'
    BY <1>5, <2>4, <2>6
  <2>8. s.at \in InTransit /\ s.post = o.post
    BY <2>2 DEF InTransit
  <2>9. \A m \in Lines \ {l} : delivery'[m] = delivery[m] /\ sent'[m] = sent[m]
    BY <2>4, <2>5
  <2>10. troubles' \in 0..MaxTroubles /\ excused \subseteq excused' /\ excused' \subseteq excused \cup {l}
    BY <1>0, <2>4
  <2>11. /\ delivery' \in [Lines -> {"none", "pending", "failed", "delivered"}]
         /\ delivery'[l] = "none" => delivery[l] = "none"
    BY <1>0, <2>4
  <2> QED
    BY <1>6, <2>2, <2>3, <2>4, <2>5, <2>7, <2>8, <2>9, <2>10, <2>11
<1>9. CASE Delivered(c) \/ Failed(c) \/ OutcomeLost(c)
  <2> DEFINE s == [o EXCEPT !.at = "next", !.post = IF "next" = "next" THEN <<Nothing, Nothing>> ELSE o.post]
  <2>2. s \in CourierState /\ s.at = "next" /\ s.todo = o.todo /\ s.post = <<Nothing, Nothing>>
    BY <1>7
  <2>3. courier' = [courier EXCEPT ![c] = s]
    BY <1>9 DEF Delivered, Failed, OutcomeLost, Returns
  <2> HIDE DEF s
  <2>4. UNCHANGED <<row, fresh, bridge, sent>> /\ troubles' \in 0..MaxTroubles
    BY <1>0, <1>9 DEF Delivered, Failed, OutcomeLost
  <2>5. /\ delivery' \in [Lines -> {"none", "pending", "failed", "delivered"}]
        /\ \A m \in Lines \ {l} : delivery'[m] = delivery[m]
        /\ delivery'[l] = "none" => delivery[l] = "none"
    BY <1>0, <1>2, <1>9 DEF Delivered, Failed, OutcomeLost, Unless
  <2>6. excused \subseteq excused' /\ excused' \subseteq excused \cup {l}
    BY <1>9 DEF Delivered, Failed, OutcomeLost
  <2>7. ASSUME l \notin excused' PROVE Known(l)'
    <3>0. Known(l) /\ o.keeps
      BY <1>2, <1>5, <2>6, <2>7 DEF Known
    <3>1. courier'[c] = s /\ \A d \in Couriers \ {c} : courier'[d] = courier[d]
      BY <1>0, <2>3
    <3>2. \A d \in Couriers : ~Sends(d, l)'
      <4>1. ASSUME NEW d \in Couriers \ {c}, Sends(d, l)' PROVE FALSE
        <5>1. Sends(d, l)
          BY <3>1, <4>1 DEF Sends, Line, Notice
        <5> QED
          BY <1>2, <3>0, <4>1, <5>1 DEF Known
      <4>2. ~Sends(c, l)'
        BY <2>2, <3>1 DEF Sends, InTransit
      <4> QED
        BY <4>1, <4>2
    <3>3. sent[l] = 0 \/ delivery'[l] = "delivered"
      <4>1. CASE Delivered(c)
        BY <1>0, <1>2, <3>0, <4>1 DEF Delivered
      <4>2. CASE Failed(c)
        BY <1>2, <3>0, <4>2 DEF Failed, Known
      <4>3. CASE OutcomeLost(c)
        BY <2>7, <4>3 DEF OutcomeLost
      <4> QED
        BY <1>9, <4>1, <4>2, <4>3
    <3>4. sent'[l] <= 1 /\ (sent'[l] = 1 => delivery'[l] = "delivered")
      BY <2>4, <3>0, <3>3 DEF Known
    <3> QED
      BY <3>2, <3>4 DEF Known
  <2>8. /\ l \in excused' \/ Known(l)'
        /\ sent' \in [Lines -> Nat]
        /\ \A m \in Lines \ {l} : delivery'[m] = delivery[m] /\ sent'[m] = sent[m]
    BY <1>0, <2>4, <2>5, <2>7
  <2> QED
    BY <1>6, <2>2, <2>3, <2>4, <2>5, <2>6, <2>8
<1> QED
  BY <1>8, <1>9

\* A courier is done with its list: notify() returns to the tick, or the bridge
\* of a replay has gone.
LEMMA DoneStep ==
    ASSUME NoticesInv, NEW c \in Couriers, NEW at \in {"new", "next"},
           courier[c].at = "next", courier' = [courier EXCEPT ![c] = [Resting EXCEPT !.at = at]],
           courier[c].todo = {} \/ (c \in Bridges /\ bridge[KeyOf[c]] # c),
           UNCHANGED <<row, fresh, bridge, delivery, troubles, sent, excused>>
    PROVE  NoticesInv'
<1> DEFINE s == [Resting EXCEPT !.at = at]
<1>1. s \in CourierState /\ s.at = at /\ s.todo = {} /\ s.post = <<Nothing, Nothing>>
  BY DEF Resting, CourierState, Waits
<1>2. courier' = [courier EXCEPT ![c] = s]
  OBVIOUS
<1> HIDE DEF s
<1>3. CourierGood(c, s)
  BY <1>1 DEF CourierGood, InTransit
<1>4. Ledger' /\ Traced'
  BY <1>1, <1>2, Elsewhere DEF InTransit
<1>5. ASSUME NEW n \in fresh, NEW b \in Bridges, bridge[KeyOf[b]] = b, Gives(c, courier[c], n, b)
      PROVE  FALSE
  <2>1. courier[c].post = <<Nothing, Nothing>> /\ n \in Notices
        /\ (c \in Bridges => courier[c].todo \subseteq Notices \X {c})
    BY CourierFacts DEF CourierGood
  <2>2. <<n, b>> \in courier[c].todo
    BY <1>5, <2>1, PostIs DEF Gives
  <2>3. b = c
    BY <2>1, <2>2
  <2> QED
    BY <1>5, <2>2, <2>3
<1> QED
  BY <1>1, <1>2, <1>3, <1>4, <1>5, CourierFacts, CourierMoves

-----------------------------------------------------------------------------
(* Bridges and the inbox *)

\* A bridge that takes its key over will list what it has missed.
LEMMA RegisterStep ==
    ASSUME NoticesInv, NEW b \in Bridges, Register(b)
    PROVE  NoticesInv'
<1> DEFINE s == [courier[b] EXCEPT !.at = "list"]
<1>0. b \in Couriers /\ KeyOf[b] \in Keys
  BY PostIs DEF Couriers
<1>1. /\ courier \in [Couriers -> CourierState] /\ courier[b] \in CourierState
      /\ CourierGood(b, courier[b]) /\ bridge \in [Keys -> Bridges \cup {Nothing}] /\ fresh \subseteq Notices
  BY <1>0, CourierFacts
<1>2. /\ courier[b].at = "new" /\ bridge' = [bridge EXCEPT ![KeyOf[b]] = b]
      /\ UNCHANGED <<row, fresh, delivery, troubles, sent, excused>>
  BY DEF Register
<1>3. s \in CourierState /\ s.at = "list" /\ s.todo = {} /\ s.post = <<Nothing, Nothing>>
  BY <1>1, <1>2 DEF CourierState, Waits, CourierGood
<1>4. courier' = [courier EXCEPT ![b] = s]
  BY <1>0, <1>1 DEF Register, Goes, CourierState
<1> HIDE DEF s
<1>5. NoticesTypeOK'
  BY <1>0, <1>1, <1>2, <1>3, <1>4 DEF NoticesInv, NoticesTypeOK
<1>6. CourierGood(b, s)
  BY <1>3 DEF CourierGood, InTransit
<1>7. Couriering' /\ Registered'
  BY <1>0, <1>1, <1>2, <1>4, <1>6 DEF NoticesInv, Couriering, Registered
<1>8. Ledger' /\ Traced'
  BY <1>0, <1>2, <1>3, <1>4, Elsewhere DEF InTransit
<1>9. ASSUME NEW n \in fresh, NEW k \in Keys, row[n] = "unread", bridge'[k] # Nothing
      PROVE  Trace(n, bridge'[k]) \/ \E d \in Couriers : Gives(d, courier'[d], n, bridge'[k])
  <2>1. CASE k = KeyOf[b]
    <3>1. Gives(b, courier'[b], n, bridge'[k])
      BY <1>0, <1>1, <1>2, <1>3, <1>4, <2>1 DEF Gives
    <3> QED
      BY <1>0, <3>1
  <2>2. CASE k # KeyOf[b]
    <3>1. bridge'[k] = bridge[k] /\ bridge[k] \in Bridges
      BY <1>1, <1>2, <1>9, <2>2
    <3>2. Trace(n, bridge[k]) \/ \E d \in Couriers : Gives(d, courier[d], n, bridge[k])
      BY <1>9, <3>1, MissedNoneIs, PostIs DEF NoticesInv
    <3>3. ~Gives(b, courier[b], n, bridge[k])
      BY <1>1, <1>2, <1>9, <3>1, PostIs DEF Gives, CourierGood
    <3> QED
      BY <1>0, <1>1, <1>4, <3>1, <3>2, <3>3
  <2> QED
    BY <2>1, <2>2
<1>10. NoNoticeMissed'
  <2>1. \A n, k : (k \in Keys /\ bridge'[k] # Nothing) =>
           (Coming(n, bridge[k])' <=> \E d \in Couriers : Gives(d, courier'[d], n, bridge'[k]))
    BY <1>0, <1>1, <1>2 DEF Coming, Gives, Couriers
  <2>2. \A n \in fresh, k \in Keys : row[n] = "unread" /\ bridge'[k] # Nothing =>
           \/ delivery[<<n, TargetOf[bridge'[k]]>>] # "none"
           \/ <<n, TargetOf[bridge'[k]]>> \in excused
           \/ Coming(n, bridge[k])'
    BY <1>9, <2>1 DEF Trace
  <2> QED
    BY <1>2, <2>2 DEF NoNoticeMissed
<1> QED
  BY <1>5, <1>7, <1>8, <1>10 DEF NoticesInv

LEMMA ListStep ==
    ASSUME NoticesInv, NEW b \in Bridges, List(b)
    PROVE  NoticesInv'
<1> DEFINE todo == {<<n, b>> : n \in {m \in Notices : row[m] = "unread"}}
           s == [courier[b] EXCEPT !.at = "next", !.todo = todo]
<1>0. b \in Couriers
  BY DEF Couriers
<1>1. courier[b].at = "list" /\ courier' = [courier EXCEPT ![b] = s]
      /\ UNCHANGED <<row, fresh, bridge, delivery, troubles, sent, excused>>
  BY DEF List
<1>2. todo \subseteq Notices \X {b} /\ \A n \in Notices : row[n] = "unread" => <<n, b>> \in todo
  OBVIOUS
<1> HIDE DEF todo
<1>3. s \in CourierState /\ s.at = "next" /\ s.todo = todo /\ s.post = <<Nothing, Nothing>>
  <2>1. /\ courier[b] \in CourierState /\ CourierGood(b, courier[b]) /\ todo \subseteq Posts
    BY <1>0, <1>2, CourierFacts DEF Posts
  <2> QED
    BY <1>1, <2>1 DEF CourierState, Waits, CourierGood
<1> HIDE DEF s
<1>4. CourierGood(b, s)
  BY <1>2, <1>3 DEF CourierGood, InTransit
<1>5. Ledger' /\ Traced'
  BY <1>0, <1>1, <1>3, Elsewhere DEF InTransit
<1>6. ASSUME NEW n \in fresh, NEW d \in Bridges, row[n] = "unread", Gives(b, courier[b], n, d)
      PROVE  Gives(b, s, n, d)
  <2>1. n \in Notices /\ courier[b].todo = {} /\ courier[b].post = <<Nothing, Nothing>>
    BY <1>0, <1>1, CourierFacts DEF CourierGood
  <2>2. d = b
    BY <1>6, <2>1, PostIs DEF Gives
  <2> QED
    BY <1>2, <1>3, <1>6, <2>1, <2>2 DEF Gives
<1> QED
  BY <1>0, <1>1, <1>3, <1>4, <1>5, <1>6, CourierFacts, CourierMoves

\* What the couriers and the ledger do not see leaves them as they are.
LEMMA Unseeing ==
    ASSUME NoticesInv, UNCHANGED <<delivery, courier, sent, excused>>
    PROVE  Couriering' /\ Ledger' /\ Traced'
<1>1. Couriering'
  BY DEF NoticesInv, Couriering
<1>2. \A d \in Couriers, l \in Lines : Sends(d, l)' <=> Sends(d, l)
  BY DEF Sends, Line, Notice
<1>3. \A l \in Lines : Known(l) => Known(l)'
  BY <1>2 DEF Known
<1>4. Ledger'
  BY <1>3 DEF NoticesInv, Ledger, Lines
<1>5. Traced'
  BY DEF NoticesInv, Traced, Line, Notice
<1> QED
  BY <1>1, <1>4, <1>5

LEMMA NobodySeesStep ==
    ASSUME NoticesInv,
           (\E k \in Keys : Unregister(k)) \/ (\E n \in Notices : MarkRead(n)) \/ UNCHANGED noticeVars
    PROVE  NoticesInv'
<1>0. UNCHANGED <<fresh, delivery, courier, troubles, sent, excused>>
  BY DEF Unregister, MarkRead, noticeVars
<1>1. Couriering' /\ Ledger' /\ Traced'
  BY <1>0, Unseeing
<1>2. /\ row \in [Notices -> {"none", "unread", "read"}] /\ fresh \subseteq Notices
      /\ bridge \in [Keys -> Bridges \cup {Nothing}]
  BY DEF NoticesInv, NoticesTypeOK
<1>3. /\ row' \in [Notices -> {"none", "unread", "read"}]
      /\ \A n \in Notices : row'[n] = "unread" => row[n] = "unread"
  BY <1>2 DEF Unregister, MarkRead, noticeVars
<1>4. /\ bridge' \in [Keys -> Bridges \cup {Nothing}]
      /\ \A k \in Keys : bridge'[k] # Nothing => bridge'[k] = bridge[k]
  BY <1>2 DEF Unregister, MarkRead, noticeVars
<1>5. NoticesTypeOK' /\ Registered'
  BY <1>0, <1>3, <1>4 DEF NoticesInv, NoticesTypeOK, Registered
<1>6. NoNoticeMissed'
  <2>1. \A n, k : k \in Keys /\ bridge'[k] = bridge[k] => (Coming(n, bridge[k])' <=> Coming(n, bridge[k]))
    BY <1>0 DEF Coming
  <2>2. ASSUME NEW n \in fresh, NEW k \in Keys, row'[n] = "unread", bridge'[k] # Nothing
        PROVE  \/ delivery[<<n, TargetOf[bridge'[k]]>>] # "none"
               \/ <<n, TargetOf[bridge'[k]]>> \in excused
               \/ Coming(n, bridge[k])'
    BY <1>2, <1>3, <1>4, <2>1, <2>2 DEF NoticesInv, NoNoticeMissed
  <2> QED
    BY <1>0, <2>2 DEF NoNoticeMissed
<1> QED
  BY <1>1, <1>5, <1>6 DEF NoticesInv

\* The end of the process excuses the messages whose outcome was not recorded.
LEMMA ServiceCrashStep ==
    ASSUME NoticesInv, ServiceCrash
    PROVE  NoticesInv'
<1> DEFINE mute == {Line(c) : c \in {d \in Couriers : courier[d].at = "sent"}}
<1>1. /\ troubles < MaxTroubles /\ troubles' = troubles + 1 /\ fresh' = {} /\ bridge' = [k \in Keys |-> Nothing]
      /\ courier' = [c \in Couriers |-> Resting] /\ excused' = excused \cup mute
      /\ UNCHANGED <<row, delivery, sent>>
  BY DEF ServiceCrash
<1>2. mute \subseteq Lines
  BY LineIs DEF NoticesInv, InTransit
<1>3. \A c \in Couriers : courier[c].at = "sent" => Line(c) \in mute
  OBVIOUS
<1> HIDE DEF mute
<1>4. Resting \in CourierState /\ \A c \in Couriers : CourierGood(c, Resting)
  BY DEF Resting, CourierState, Waits, CourierGood, InTransit
<1>5. NoticesTypeOK'
  BY <1>1, <1>2, <1>4, NoticesAssumption DEF NoticesInv, NoticesTypeOK, Lines, NoticesAssumption
<1>6. Couriering' /\ Registered'
  BY <1>1, <1>4 DEF Couriering, Registered
<1>7. \A c \in Couriers : courier'[c].at \notin InTransit
  BY <1>1 DEF Resting, InTransit
<1>8. Traced'
  BY <1>7 DEF Traced
<1>9. Ledger'
  <2>1. \A c \in Couriers, l \in Lines : ~Sends(c, l)'
    BY <1>7 DEF Sends
  <2>2. ASSUME NEW l \in Lines, l \notin excused' PROVE Known(l)'
    <3>1. Known(l)
      BY <1>1, <2>2 DEF NoticesInv, Ledger, Lines
    <3>2. \A c \in Couriers : ~(Sends(c, l) /\ courier[c].at = "sent")
      BY <1>1, <1>3, <2>2 DEF Sends
    <3>3. sent[l] <= 1 /\ (sent[l] = 1 => delivery[l] = "delivered")
      BY <3>1, <3>2 DEF Known
    <3>4. sent'[l] <= 1 /\ (sent'[l] = 1 => delivery'[l] = "delivered")
      BY <1>1, <3>3
    <3> QED
      BY <2>1, <3>4 DEF Known
  <2> QED
    BY <2>2 DEF Ledger, Lines
<1>10. NoNoticeMissed'
  BY <1>1 DEF NoNoticeMissed
<1> QED
  BY <1>5, <1>6, <1>8, <1>9, <1>10 DEF NoticesInv

LEMMA DeliverStep ==
    ASSUME NoticesInv, NEW c \in Couriers, Deliver(c)
    PROVE  NoticesInv'
<1>1. CASE \E p \in Posts : Skip(c, p) \/ Attempt(c, p) \/ LedgerFails(c, p)
  BY <1>1, TakeStep
<1>2. CASE Arrives(c) \/ Refused(c) \/ Delivered(c) \/ Failed(c) \/ OutcomeLost(c)
  BY <1>2, OutcomeStep
<1>3. CASE c \in Bridges /\ Stop(c)
  <2>1. /\ courier[c].at = "next" /\ courier' = [courier EXCEPT ![c] = [Resting EXCEPT !.at = "next"]]
        /\ bridge[KeyOf[c]] # c /\ UNCHANGED <<row, fresh, bridge, delivery, troubles, sent, excused>>
    BY <1>3 DEF Stop, Over
  <2> QED
    BY <1>3, <2>1, DoneStep
<1> QED
  BY <1>1, <1>2, <1>3 DEF Deliver

LEMMA NoticesNextStep ==
    ASSUME NoticesInv, NoticesNext
    PROVE  NoticesInv'
<1>1. CASE \E c \in Callers : Persist(c)
  BY <1>1, PersistStep
<1>2. CASE \E c \in Couriers : Deliver(c)
  BY <1>2, DeliverStep
<1>3. CASE \E b \in Bridges : Register(b) \/ List(b)
  BY <1>3, RegisterStep, ListStep
<1>4. CASE (\E k \in Keys : Unregister(k)) \/ \E n \in Notices : MarkRead(n)
  BY <1>4, NobodySeesStep
<1> QED
  BY <1>1, <1>2, <1>3, <1>4 DEF NoticesNext

LEMMA NoticesInitially ==
    ASSUME NoticesInit
    PROVE  NoticesInv
<1>1. Resting \in CourierState /\ \A c \in Couriers : CourierGood(c, Resting)
  BY DEF Resting, CourierState, Waits, CourierGood, InTransit
<1>2. NoticesTypeOK
  BY <1>1, NoticesAssumption DEF NoticesInit, NoticesTypeOK, NoticesAssumption
<1>3. Couriering /\ Registered /\ NoNoticeMissed
  BY <1>1 DEF NoticesInit, Couriering, Registered, NoNoticeMissed
<1>4. \A c \in Couriers : courier[c].at \notin InTransit
  BY DEF NoticesInit, Resting, InTransit
<1>5. Traced
  BY <1>4 DEF Traced
<1>6. Ledger
  BY <1>4 DEF NoticesInit, Ledger, Known, Sends
<1> QED
  BY <1>2, <1>3, <1>5, <1>6 DEF NoticesInv

-----------------------------------------------------------------------------
(* Rows and ticks *)

TaskTypes ==
    /\ store \in Rows
    /\ ripe \in [Tasks -> BOOLEAN]
    /\ running \in BOOLEAN
    /\ tick \in [Ticks -> TickState]
    /\ told \in [Tasks -> Nat]
    /\ answers \in [Tasks -> Nat]

\* The rows of a table, and the table with one of them written.
LEMMA RowsAre ==
    /\ \A f \in Rows, t \in Tasks : f[t] # NoRow => /\ f[t] \in [enabled : BOOLEAN, count : Nat]
                                                    /\ f[t].enabled \in BOOLEAN /\ f[t].count \in Nat
                                                    /\ f[t].count \in Counts(t)
    /\ \A f \in Rows, t \in Tasks, r \in [enabled : BOOLEAN, count : Nat] \cup {NoRow} :
          (r # NoRow => r.count \in Counts(t)) =>
             /\ [f EXCEPT ![t] = r] \in Rows
             /\ [f EXCEPT ![t] = r][t] = r
             /\ \A u \in Tasks \ {t} : [f EXCEPT ![t] = r][u] = f[u]
    /\ \A t \in Tasks : MaxRuns[t] \in Nat /\ 0 \in Counts(t)
    /\ [t \in Tasks |-> NoRow] \in Rows
<1>1. \A t \in Tasks : MaxRuns[t] \in Nat
  BY PromptsAssumption DEF PromptsAssumption
<1>2. \A f \in Rows, t \in Tasks : f[t] # NoRow => /\ f[t] \in [enabled : BOOLEAN, count : Nat]
                                                   /\ f[t].enabled \in BOOLEAN /\ f[t].count \in Nat
                                                   /\ f[t].count \in Counts(t)
  BY DEF Rows
<1>3. ASSUME NEW f \in Rows, NEW t \in Tasks, NEW r \in [enabled : BOOLEAN, count : Nat] \cup {NoRow},
             r # NoRow => r.count \in Counts(t)
      PROVE  /\ [f EXCEPT ![t] = r] \in Rows
             /\ [f EXCEPT ![t] = r][t] = r
             /\ \A u \in Tasks \ {t} : [f EXCEPT ![t] = r][u] = f[u]
  <2> DEFINE g == [f EXCEPT ![t] = r]
  <2>1. /\ g \in [Tasks -> [enabled : BOOLEAN, count : Nat] \cup {NoRow}]
        /\ g[t] = r /\ \A u \in Tasks \ {t} : g[u] = f[u]
    BY DEF Rows
  <2> HIDE DEF g
  <2>2. g \in Rows
    BY <1>3, <2>1 DEF Rows
  <2> QED
    BY <2>1, <2>2 DEF g
<1>4. \A t \in Tasks : 0 \in Counts(t)
  BY <1>1 DEF Counts
<1>5. [t \in Tasks |-> NoRow] \in Rows
  BY DEF Rows
<1> QED
  BY <1>1, <1>2, <1>3, <1>4, <1>5

\* The row after a run that counts.
LEMMA CountedIs ==
    ASSUME NEW t \in Tasks, NEW r \in [enabled : BOOLEAN, count : Nat],
           r.count \in Counts(t), RowGood(t, r), r.enabled
    PROVE  /\ Counted(t, r) \in [enabled : BOOLEAN, count : Nat]
           /\ Counted(t, r).count = r.count + 1 /\ Counted(t, r).count \in Counts(t)
           /\ Counted(t, r) # NoRow /\ RowGood(t, Counted(t, r))
<1>1. MaxRuns[t] \in Nat /\ r # NoRow /\ r.count \in Nat
  BY RowsAre, PromptsAssumption DEF PromptsAssumption
<1>2. MaxRuns[t] > 0 => r.count < MaxRuns[t]
  BY <1>1 DEF RowGood, Complete
<1>3. Complete(t, r.count + 1) \in BOOLEAN
  BY DEF Complete
<1>4. Counted(t, r) \in [enabled : BOOLEAN, count : Nat] /\ Counted(t, r).count = r.count + 1
      /\ Counted(t, r).enabled = (r.enabled /\ ~Complete(t, r.count + 1))
  BY <1>1, <1>3 DEF Counted
<1>5. r.count + 1 \in Counts(t)
  BY <1>1, <1>2 DEF Counts
<1>6. Counted(t, r) # NoRow
  BY <1>4, PromptsAssumption DEF PromptsAssumption
<1> QED
  BY <1>4, <1>5, <1>6 DEF RowGood

LEMMA IdleIs ==
    /\ Idle \in TickState /\ Idle.at = "idle" /\ Idle.rows = {} /\ Idle.task = NoRow
    /\ \A t \in Tasks : ~Open(Idle, t) /\ Uncounted(Idle, t) = 0 /\ Idle.snap[t] = NoRow
<1>1. Idle \in TickState /\ Idle.at = "idle" /\ Idle.rows = {} /\ Idle.task = NoRow
      /\ \A t \in Tasks : Idle.snap[t] = NoRow
  BY RowsAre DEF Idle, TickState
<1> QED
  BY <1>1 DEF Open, Runs, Uncounted

\* What a step of a tick may use: no other tick is under way.
LEMMA TickFacts ==
    ASSUME TaskTypes, TasksInv, troubles \in Nat, NEW x \in Ticks, tick[x].at # "idle" \/ ~running
    PROVE  /\ \A y \in Ticks \ {x} : tick[y] = Idle
           /\ tick[x] \in TickState /\ tick[x].snap \in Rows /\ tick[x].rows \subseteq Tasks
           /\ tick[x].task \in Tasks \cup {NoRow}
           /\ TickGood(tick[x])
           /\ \A t \in Tasks :
                /\ SnapGood(tick[x], t) /\ RowGood(t, store[t]) /\ told[t] <= answers[t]
                /\ told[t] \in Nat /\ answers[t] \in Nat /\ ripe[t] \in BOOLEAN
                /\ store[t] # NoRow => /\ store[t].count <= answers[t]
                                       /\ answers[t] <= store[t].count + troubles + Uncounted(tick[x], t)
                /\ MaxRuns[t] > 0 => told[t] <= MaxRuns[t] + troubles
<1>1. \A y \in Ticks \ {x} : tick[y] = Idle
  <2>1. \A y \in Ticks \ {x} : tick[y].at = "idle"
    BY DEF TasksInv, OneTick, TickGood
  <2> QED
    BY <2>1 DEF TasksInv, TickGood
<1>2. /\ tick[x] \in TickState /\ tick[x].snap \in Rows /\ tick[x].rows \subseteq Tasks
      /\ tick[x].task \in Tasks \cup {NoRow}
  BY DEF TaskTypes, TickState
<1>3. ASSUME NEW t \in Tasks
      PROVE  /\ SnapGood(tick[x], t) /\ RowGood(t, store[t]) /\ told[t] <= answers[t]
             /\ told[t] \in Nat /\ answers[t] \in Nat /\ ripe[t] \in BOOLEAN
             /\ store[t] # NoRow => store[t].count <= answers[t]
             /\ MaxRuns[t] > 0 => told[t] <= MaxRuns[t] + troubles
  BY DEF TasksInv, StoreGood, ToldNoMoreThanAsked, TaskTypes
<1>4. ASSUME NEW t \in Tasks, store[t] # NoRow
      PROVE  answers[t] <= store[t].count + troubles + Uncounted(tick[x], t)
  <2>1. store[t].count \in Nat /\ answers[t] \in Nat
    BY <1>4, RowsAre DEF TaskTypes
  <2>2. Uncounted(tick[x], t) \in {0, 1} /\ \A y \in Ticks \ {x} : Uncounted(tick[y], t) = 0
    BY <1>1, IdleIs DEF Uncounted
  <2>3. \/ answers[t] <= store[t].count + troubles
        \/ \E y \in Ticks : Uncounted(tick[y], t) = 1 /\ answers[t] <= store[t].count + troubles + 1
    BY <1>4 DEF TasksInv, StoreGood
  <2>4. \/ answers[t] <= store[t].count + troubles
        \/ Uncounted(tick[x], t) = 1 /\ answers[t] <= store[t].count + troubles + 1
    BY <2>2, <2>3
  <2> QED
    BY <2>1, <2>2, <2>4
<1>5. TickGood(tick[x])
  BY DEF TasksInv
<1> QED
  BY <1>1, <1>2, <1>3, <1>4, <1>5

\* The one tick under way moves on.
LEMMA TickMoves ==
    ASSUME TaskTypes, troubles' \in Nat, NEW x \in Ticks, NEW s \in TickState,
           \A y \in Ticks \ {x} : tick[y] = Idle,
           tick' = [tick EXCEPT ![x] = s],
           store' \in Rows, ripe' \in [Tasks -> BOOLEAN], running' \in BOOLEAN,
           told' \in [Tasks -> Nat], answers' \in [Tasks -> Nat],
           TickGood(s)',
           \A t \in Tasks :
                /\ SnapGood(s, t)' /\ RowGood(t, store'[t]) /\ told'[t] <= answers'[t]
                /\ store'[t] # NoRow => /\ store'[t].count <= answers'[t]
                                        /\ answers'[t] <= store'[t].count + troubles' + Uncounted(s, t)
                /\ MaxRuns[t] > 0 => told'[t] <= MaxRuns[t] + troubles'
    PROVE  TaskTypes' /\ TasksInv'
<1>1. tick \in [Ticks -> TickState] /\ tick'[x] = s /\ \A y \in Ticks \ {x} : tick'[y] = Idle
  BY DEF TaskTypes
<1>2. TaskTypes'
  BY <1>1 DEF TaskTypes
<1>3. OneTick'
  BY <1>1, IdleIs DEF OneTick
<1>4. ASSUME NEW y \in Ticks PROVE TickGood(tick[y])' /\ \A t \in Tasks : SnapGood(tick[y], t)'
  <2>1. CASE y = x
    <3>1. TickGood(tick[x])' /\ \A t \in Tasks : SnapGood(tick[x], t)'
      BY <1>1 DEF TickGood, SnapGood
    <3> QED
      BY <2>1, <3>1
  <2>2. CASE y # x
    <3>1. tick'[y] = Idle
      BY <1>1, <2>2
    <3>2. \A t \in Tasks : SnapGood(tick[y], t)'
      BY <3>1, IdleIs DEF SnapGood, RowGood
    <3>3. TickGood(tick[y])'
      BY <3>1, IdleIs DEF TickGood
    <3> QED
      BY <3>2, <3>3
  <2> QED
    BY <2>1, <2>2
<1>5. ASSUME NEW t \in Tasks PROVE StoreGood(t)'
  <2>1. store'[t] # NoRow => store'[t].count \in Nat /\ answers'[t] \in Nat
    BY RowsAre
  <2>2. Uncounted(s, t) \in {0, 1} /\ Uncounted(tick'[x], t) = Uncounted(s, t)
    BY <1>1 DEF Uncounted
  <2>3. store'[t] # NoRow => \/ answers'[t] <= store'[t].count + troubles'
                             \/ /\ Uncounted(tick'[x], t) = 1
                                /\ answers'[t] <= store'[t].count + troubles' + 1
    BY <2>1, <2>2
  <2> QED
    BY <2>3 DEF StoreGood
<1>6. ToldNoMoreThanAsked'
  BY DEF ToldNoMoreThanAsked
<1> QED
  BY <1>2, <1>3, <1>4, <1>5, <1>6 DEF TasksInv

-----------------------------------------------------------------------------
(* run_due_tasks() *)

\* A step that writes no row and tells nobody: the tick takes up rows it has
\* read, moves its task on, or is over.
LEMMA QuietTick ==
    ASSUME TaskTypes, TasksInv, troubles \in Nat, NEW x \in Ticks,
           \/ TickStart(x) \/ TickRead(x) \/ TickEnd(x) \/ MarkFailureFails(x)
           \/ Executed(x) \/ ExecutionFails(x) \/ Sent(x)
           \/ \E t \in Tasks : TickPick(x, t)
    PROVE  TaskTypes' /\ TasksInv'
<1> PICK o : o = tick[x]
  OBVIOUS
<1>0. /\ tick \in [Ticks -> TickState] /\ store \in Rows /\ ripe \in [Tasks -> BOOLEAN] /\ running \in BOOLEAN
      /\ told \in [Tasks -> Nat] /\ answers \in [Tasks -> Nat]
  BY DEF TaskTypes
<1>1. o.at # "idle" \/ ~running
  BY DEF TickStart, TickRead, TickEnd, MarkFailureFails, Executed, ExecutionFails, Sent, TickPick
<1>2. /\ \A y \in Ticks \ {x} : tick[y] = Idle
      /\ o \in TickState /\ o.snap \in Rows /\ o.rows \subseteq Tasks /\ o.task \in Tasks \cup {NoRow}
      /\ TickGood(o)
      /\ \A t \in Tasks :
           /\ SnapGood(o, t) /\ RowGood(t, store[t]) /\ told[t] <= answers[t]
           /\ told[t] \in Nat /\ answers[t] \in Nat /\ ripe[t] \in BOOLEAN
           /\ store[t] # NoRow => /\ store[t].count <= answers[t]
                                  /\ answers[t] <= store[t].count + troubles + Uncounted(o, t)
           /\ MaxRuns[t] > 0 => told[t] <= MaxRuns[t] + troubles
  BY <1>1, TickFacts
<1>3. ASSUME NEW s \in TickState, tick' = [tick EXCEPT ![x] = s], TickGood(s)',
             UNCHANGED <<store, ripe, told, answers>>, running' \in BOOLEAN,
             troubles' \in Nat, troubles <= troubles',
             \A t \in Tasks : SnapGood(s, t)', \A t \in Tasks : Uncounted(o, t) <= Uncounted(s, t)
      PROVE  TaskTypes' /\ TasksInv'
  <2>1. ASSUME NEW t \in Tasks
        PROVE  /\ store'[t] # NoRow => answers'[t] <= store'[t].count + troubles' + Uncounted(s, t)
               /\ MaxRuns[t] > 0 => told'[t] <= MaxRuns[t] + troubles'
    <3>1. Uncounted(o, t) \in {0, 1} /\ Uncounted(s, t) \in {0, 1}
      BY DEF Uncounted
    <3>2. store[t] # NoRow => store[t].count \in Nat
      BY <1>0, RowsAre
    <3>3. MaxRuns[t] \in Nat
      BY RowsAre
    <3> QED
      BY <1>2, <1>3, <3>1, <3>2, <3>3
  <2> QED
    BY <1>0, <1>2, <1>3, <2>1, TickMoves
\* Only where the tick waits changes.
<1>4. ASSUME NEW at \in {"read", "notify", "failure", "success"}
      PROVE  LET s == [o EXCEPT !.at = at]
             IN  s \in TickState /\ s.at = at /\ s.rows = o.rows /\ s.task = o.task /\ s.snap = o.snap
  BY <1>2 DEF TickState
<1>5. CASE TickStart(x)
  <2> DEFINE s == [o EXCEPT !.at = "read"]
  <2>1. s \in TickState /\ s.at = "read" /\ s.rows = o.rows /\ s.task = o.task /\ s.snap = o.snap
    BY <1>4
  <2>2. tick' = [tick EXCEPT ![x] = s]
    BY <1>0, <1>5 DEF TickStart, Moves, TickState
  <2> HIDE DEF s
  <2>3. /\ o = Idle /\ running' = TRUE /\ UNCHANGED <<store, ripe, told, answers>>
        /\ troubles' \in Nat /\ troubles <= troubles'
    BY <1>2, <1>5 DEF TickStart, TickGood, noticeVars
  <2>4. TickGood(s)'
    BY <2>1, <2>3, IdleIs DEF TickGood
  <2>5. /\ \A t \in Tasks : SnapGood(s, t)'
        /\ \A t \in Tasks : Uncounted(o, t) <= Uncounted(s, t)
    BY <2>1, <2>3, IdleIs DEF SnapGood, RowGood, Open, Runs, Uncounted
  <2> QED
    BY <1>3, <2>1, <2>2, <2>3, <2>4, <2>5
<1>6. CASE TickRead(x)
  <2> PICK rows : rows = {t \in Tasks : store[t] # NoRow /\ store[t].enabled}
    OBVIOUS
  <2> PICK read : read = store
    OBVIOUS
  <2> DEFINE s == [o EXCEPT !.at = "pick", !.snap = read, !.rows = rows]
  <2>1. s \in TickState /\ s.at = "pick" /\ s.rows = rows /\ s.task = o.task /\ s.snap = read
    BY <1>0, <1>2 DEF TickState
  <2>2. /\ o.at = "read" /\ UNCHANGED <<store, ripe, told, answers>>
        /\ troubles' = troubles /\ running' = running
        /\ troubles' \in Nat /\ troubles <= troubles' /\ running' \in BOOLEAN
    BY <1>0, <1>6 DEF TickRead, noticeVars
  <2>7. tick' = [tick EXCEPT ![x] = s]
    BY <1>0, <1>6 DEF TickRead, TickState
  <2>0. \A t \in Tasks : t \in rows => store[t] # NoRow /\ store[t].enabled
    OBVIOUS
  <2> HIDE DEF s
  <2>6. running = TRUE
    BY <1>0, <1>2, <2>2 DEF TickGood
  <2>3. TickGood(s)'
    BY <2>1, <2>2, <2>6 DEF TickGood
  <2>4. ASSUME NEW t \in Tasks PROVE SnapGood(s, t)' /\ Uncounted(o, t) <= Uncounted(s, t)
    <3>1. Uncounted(o, t) = 0 /\ Uncounted(s, t) = 0
      BY <2>1, <2>2 DEF Uncounted
    <3>2. Open(s, t) => store[t] # NoRow /\ store[t].enabled
      BY <2>0, <2>1 DEF Open, Runs
    <3>3. store[t] # NoRow => store[t].count \in Nat
      BY <1>0, RowsAre
    <3>4. RowGood(t, store[t])
      BY <1>2
    <3>5. Open(s, t) => store[t].count <= answers[t] /\ answers[t] <= store[t].count + troubles
      BY <1>2, <3>1, <3>2, <3>3
    <3>6. Uncounted(s, t) = 0 /\ (Open(s, t) => store[t].count + 0 <= answers[t] /\ answers[t] <= store[t].count + 0 + troubles)
      BY <1>2, <3>1, <3>2, <3>3, <3>5
    <3>7. SnapGood(s, t)'
      BY <2>1, <2>2, <3>2, <3>4, <3>6 DEF SnapGood
    <3> QED
      BY <3>1, <3>7
  <2> QED
    BY <1>3, <2>1, <2>2, <2>3, <2>4, <2>7
<1>7. CASE TickEnd(x) \/ MarkFailureFails(x)
  <2>1. /\ tick' = [tick EXCEPT ![x] = Idle] /\ UNCHANGED <<store, ripe, told, answers>>
        /\ running' = FALSE /\ troubles' \in Nat /\ troubles <= troubles'
        /\ o.at \in {"pick", "failure"}
    BY <1>7 DEF TickEnd, MarkFailureFails, noticeVars
  <2>2. \A t \in Tasks : Uncounted(o, t) <= Uncounted(Idle, t)
    BY <2>1, IdleIs DEF Uncounted
  <2>3. TickGood(Idle)' /\ \A t \in Tasks : SnapGood(Idle, t)'
    BY IdleIs DEF TickGood, SnapGood, RowGood
  <2>4. PICK s : s = Idle
    OBVIOUS
  <2>5. /\ s \in TickState /\ tick' = [tick EXCEPT ![x] = s] /\ TickGood(s)'
        /\ \A t \in Tasks : SnapGood(s, t)'
        /\ \A t \in Tasks : Uncounted(o, t) <= Uncounted(s, t)
    BY <2>1, <2>2, <2>3, <2>4, IdleIs
  <2>6. running' \in BOOLEAN
    BY <2>1
  <2> QED
    BY <1>3, <2>1, <2>5, <2>6
<1>8. CASE Executed(x) \/ ExecutionFails(x) \/ Sent(x)
  <2>1. PICK at \in {"notify", "failure", "success"} :
            /\ Moves(x, at)
            /\ at = "success" => o.at = "told"
            /\ at # "success" => o.at = "execute"
            /\ at = "notify" => told[o.task] < MaxNotices
    BY <1>8 DEF Executed, ExecutionFails, Sent, Current
  <2>2. /\ UNCHANGED <<store, ripe, told, answers>> /\ running' = running /\ running' \in BOOLEAN
        /\ troubles' = troubles /\ troubles' \in Nat /\ troubles <= troubles'
    BY <1>0, <1>8 DEF Executed, ExecutionFails, Sent, noticeVars
  <2> DEFINE s == [o EXCEPT !.at = at]
  <2>3. s \in TickState /\ s.at = at /\ s.rows = o.rows /\ s.task = o.task /\ s.snap = o.snap
    BY <1>4
  <2>4. tick' = [tick EXCEPT ![x] = s]
    BY <1>0, <2>1 DEF Moves, TickState
  <2> HIDE DEF s
  <2>5. TickGood(s)'
    BY <1>2, <2>1, <2>2, <2>3 DEF TickGood
  <2>6. \A t \in Tasks : Uncounted(s, t) = Uncounted(o, t) /\ (Open(s, t) <=> Open(o, t))
    BY <2>1, <2>3 DEF Uncounted, Open, Runs
  <2>7. \A t \in Tasks : SnapGood(s, t)'
    BY <1>2, <2>1, <2>2, <2>3, <2>6 DEF SnapGood
  <2>8. \A t \in Tasks : Uncounted(o, t) <= Uncounted(s, t)
    BY <2>6 DEF Uncounted
  <2> QED
    BY <1>3, <2>2, <2>3, <2>4, <2>5, <2>7, <2>8
<1>9. ASSUME NEW p \in Tasks, TickPick(x, p) PROVE TaskTypes' /\ TasksInv'
  <2> PICK at : at = IF ripe[p] THEN "execute" ELSE "pick"
    OBVIOUS
  <2> DEFINE s == [o EXCEPT !.rows = o.rows \ {p}, !.task = p, !.at = at]
  <2>1. /\ o.at = "pick" /\ p \in o.rows
        /\ UNCHANGED <<store, ripe, told, answers>> /\ running' = running /\ running' \in BOOLEAN
        /\ troubles' = troubles /\ troubles' \in Nat /\ troubles <= troubles'
    <3>1. tick[x].at = "pick" /\ p \in tick[x].rows /\ UNCHANGED <<noticeVars, store, ripe, running, told, answers>>
      BY <1>9 DEF TickPick
    <3> QED
      BY <1>0, <3>1 DEF noticeVars
  <2>8. tick' = [tick EXCEPT ![x] = s]
    BY <1>0, <1>9 DEF TickPick, TickState
  <2>2. at \in {"execute", "pick"}
    OBVIOUS
  <2>3. s \in TickState /\ s.at = at /\ s.rows = o.rows \ {p} /\ s.task = p /\ s.snap = o.snap
    BY <1>2, <2>2 DEF TickState
  <2> HIDE DEF s
  <2>9. running = TRUE
    BY <1>0, <1>2, <2>1 DEF TickGood
  <2>4. TickGood(s)'
    BY <2>1, <2>2, <2>3, <2>9 DEF TickGood
  <2>5. \A t \in Tasks : Uncounted(s, t) = 0 /\ Uncounted(o, t) = 0 /\ (Open(s, t) => Open(o, t))
    BY <2>1, <2>2, <2>3 DEF Uncounted, Open, Runs
  <2>6. ASSUME NEW t \in Tasks PROVE SnapGood(s, t)'
    <3>1. SnapGood(o, t)
      BY <1>2
    <3>2. s.at # "failure" /\ o.at # "failure"
      BY <2>1, <2>2, <2>3
    <3> QED
      BY <2>1, <2>3, <2>5, <3>1, <3>2 DEF SnapGood
  <2>7. \A t \in Tasks : Uncounted(o, t) <= Uncounted(s, t)
    BY <2>5
  <2> QED
    BY <1>3, <2>1, <2>3, <2>4, <2>6, <2>7, <2>8
<1> QED
  BY <1>5, <1>6, <1>7, <1>8, <1>9

\* A run that succeeds is one of those the task has left: the message of a run,
\* or the silence of a condition check.
LEMMA RunTick ==
    ASSUME TaskTypes, TasksInv, troubles \in Nat, NEW x \in Ticks, Suppressed(x) \/ Send(x)
    PROVE  TaskTypes' /\ TasksInv'
<1> PICK o : o = tick[x]
  OBVIOUS
<1> PICK t : t = o.task
  OBVIOUS
<1>0. /\ tick \in [Ticks -> TickState] /\ store \in Rows /\ ripe \in [Tasks -> BOOLEAN] /\ running \in BOOLEAN
      /\ told \in [Tasks -> Nat] /\ answers \in [Tasks -> Nat]
  BY DEF TaskTypes
<1>1. o.at \in {"execute", "notify"}
  BY DEF Suppressed, Send
<1>2. /\ \A y \in Ticks \ {x} : tick[y] = Idle
      /\ o \in TickState /\ o.snap \in Rows /\ o.rows \subseteq Tasks /\ o.task \in Tasks \cup {NoRow}
      /\ TickGood(o)
      /\ \A u \in Tasks :
           /\ SnapGood(o, u) /\ RowGood(u, store[u]) /\ told[u] <= answers[u]
           /\ told[u] \in Nat /\ answers[u] \in Nat
           /\ store[u] # NoRow => /\ store[u].count <= answers[u]
                                  /\ answers[u] <= store[u].count + troubles + Uncounted(o, u)
           /\ MaxRuns[u] > 0 => told[u] <= MaxRuns[u] + troubles
  BY <1>1, TickFacts
<1>3. t \in Tasks /\ t \notin o.rows /\ running
  BY <1>1, <1>2 DEF TickGood
<1>4. /\ o.snap[t] # NoRow /\ o.snap[t].enabled /\ o.snap[t].count \in Nat /\ RowGood(t, o.snap[t])
      /\ o.snap[t].count <= answers[t] /\ answers[t] <= o.snap[t].count + troubles
  <2>1. Open(o, t) /\ Uncounted(o, t) = 0
    BY <1>1 DEF Open, Runs, Uncounted
  <2>2. o.snap[t].count \in Nat
    BY <1>2, <1>3, <2>1, RowsAre DEF SnapGood
  <2> QED
    BY <1>1, <1>2, <1>3, <2>1, <2>2 DEF SnapGood
\* It is not complete yet.
<1>5. MaxRuns[t] \in Nat /\ (MaxRuns[t] > 0 => answers[t] + 1 <= MaxRuns[t] + troubles)
  <2>1. MaxRuns[t] \in Nat
    BY <1>3, RowsAre
  <2>2. MaxRuns[t] > 0 => o.snap[t].count < MaxRuns[t]
    BY <1>4, <2>1 DEF RowGood, Complete
  <2> QED
    BY <1>2, <1>3, <1>4, <2>1, <2>2
<1>6. PICK at \in {"told", "success"} : Moves(x, at) /\ (at = "told" => Send(x)) /\ (at = "success" => Suppressed(x))
  BY DEF Suppressed, Send
<1>7. /\ answers' = [answers EXCEPT ![t] = @ + 1]
      /\ told' = [told EXCEPT ![t] = @ + 1] \/ told' = told
      /\ UNCHANGED <<troubles, store, ripe, running>>
  BY DEF Suppressed, Send, Lookup, Current, noticeVars
<1>8. /\ answers'[t] = answers[t] + 1 /\ \A u \in Tasks \ {t} : answers'[u] = answers[u]
      /\ told'[t] \in {told[t], told[t] + 1} /\ \A u \in Tasks \ {t} : told'[u] = told[u]
      /\ answers' \in [Tasks -> Nat] /\ told' \in [Tasks -> Nat]
  BY <1>0, <1>3, <1>7
<1> DEFINE s == [o EXCEPT !.at = at]
<1>9. s \in TickState /\ s.at = at /\ s.rows = o.rows /\ s.task = t /\ s.snap = o.snap
  BY <1>2 DEF TickState
<1>10. tick' = [tick EXCEPT ![x] = s]
  BY <1>0, <1>6 DEF Moves, TickState
<1> HIDE DEF s
<1>11. TickGood(s)'
  BY <1>3, <1>7, <1>9 DEF TickGood
<1>12. /\ Uncounted(s, t) = 1 /\ \A u \in Tasks \ {t} : Uncounted(s, u) = 0 /\ (Open(s, u) <=> Open(o, u))
       /\ \A u \in Tasks : Uncounted(o, u) = 0
  BY <1>1, <1>9 DEF Uncounted, Open, Runs
<1>13. SnapGood(s, t)'
  BY <1>2, <1>3, <1>4, <1>7, <1>8, <1>9, <1>12 DEF SnapGood
<1>14. ASSUME NEW u \in Tasks PROVE SnapGood(s, u)'
  <2>1. CASE u = t
    BY <1>13, <2>1
  <2>2. CASE u # t
    BY <1>2, <1>7, <1>8, <1>9, <1>12, <2>2 DEF SnapGood
  <2> QED
    BY <2>1, <2>2
<1>15. ASSUME NEW u \in Tasks
       PROVE  /\ RowGood(u, store'[u]) /\ told'[u] <= answers'[u]
              /\ store'[u] # NoRow => /\ store'[u].count <= answers'[u]
                                      /\ answers'[u] <= store'[u].count + troubles' + Uncounted(s, u)
              /\ MaxRuns[u] > 0 => told'[u] <= MaxRuns[u] + troubles'
  <2>1. /\ told[u] <= answers[u] /\ RowGood(u, store[u])
        /\ told[u] \in Nat /\ answers[u] \in Nat
        /\ store[u] # NoRow => store[u].count \in Nat /\ store[u].count <= answers[u]
                               /\ answers[u] <= store[u].count + troubles
        /\ MaxRuns[u] > 0 => told[u] <= MaxRuns[u] + troubles
    <3>1. store[u] # NoRow => store[u].count \in Nat
      BY <1>0, RowsAre
    <3> QED
      BY <1>2, <1>12, <3>1
  <2>2. CASE u = t
    BY <1>3, <1>5, <1>7, <1>8, <1>12, <2>1, <2>2
  <2>3. CASE u # t
    BY <1>7, <1>8, <1>12, <2>1, <2>3
  <2> QED
    BY <2>2, <2>3
<1>16. store' \in Rows /\ ripe' \in [Tasks -> BOOLEAN] /\ running' \in BOOLEAN /\ troubles' \in Nat
  BY <1>0, <1>7
<1> QED
  BY <1>2, <1>8, <1>9, <1>10, <1>11, <1>14, <1>15, <1>16, TickMoves

\* A run ends with its row written: counted, or as it was read or counted
\* before.
LEMMA WriteTick ==
    ASSUME TaskTypes, TasksInv, troubles \in Nat, NEW x \in Ticks, MarkSuccess(x) \/ MarkFailure(x)
    PROVE  TaskTypes' /\ TasksInv'
<1> PICK o : o = tick[x]
  OBVIOUS
<1> PICK t : t = o.task
  OBVIOUS
<1>0. /\ tick \in [Ticks -> TickState] /\ store \in Rows /\ ripe \in [Tasks -> BOOLEAN] /\ running \in BOOLEAN
      /\ told \in [Tasks -> Nat] /\ answers \in [Tasks -> Nat]
  BY DEF TaskTypes
<1>1. o.at \in {"success", "failure"}
  BY DEF MarkSuccess, MarkFailure
<1>2. /\ \A y \in Ticks \ {x} : tick[y] = Idle
      /\ o \in TickState /\ o.snap \in Rows /\ o.rows \subseteq Tasks /\ o.task \in Tasks \cup {NoRow}
      /\ TickGood(o)
      /\ \A u \in Tasks :
           /\ SnapGood(o, u) /\ RowGood(u, store[u]) /\ told[u] <= answers[u]
           /\ told[u] \in Nat /\ answers[u] \in Nat
           /\ store[u] # NoRow => /\ store[u].count <= answers[u]
                                  /\ answers[u] <= store[u].count + troubles + Uncounted(o, u)
           /\ MaxRuns[u] > 0 => told[u] <= MaxRuns[u] + troubles
  BY <1>1, TickFacts
<1>3. t \in Tasks /\ t \notin o.rows /\ running = TRUE
  BY <1>0, <1>1, <1>2 DEF TickGood
<1>4. Open(o, t) /\ Uncounted(o, t) = (IF o.at = "success" THEN 1 ELSE 0)
  BY <1>1 DEF Open, Runs, Uncounted
<1>5. PICK r \in [enabled : BOOLEAN, count : Nat] :
         /\ r # NoRow /\ r.count \in Counts(t) /\ RowGood(t, r) /\ r.count \in Nat
         /\ r.count <= answers[t] /\ answers[t] <= r.count + troubles
         /\ store' = [store EXCEPT ![t] = r]
  <2>1. /\ o.snap[t] # NoRow /\ o.snap[t] \in [enabled : BOOLEAN, count : Nat] /\ o.snap[t].count \in Counts(t)
        /\ o.snap[t].count \in Nat /\ RowGood(t, o.snap[t])
        /\ o.snap[t].count + Uncounted(o, t) <= answers[t]
        /\ answers[t] <= o.snap[t].count + Uncounted(o, t) + troubles
    BY <1>2, <1>3, <1>4, RowsAre DEF SnapGood
  <2>2. CASE MarkFailure(x)
    <3>1. o.at = "failure" /\ store' = [store EXCEPT ![t] = o.snap[t]]
      BY <2>2 DEF MarkFailure, Current
    <3>2. o.snap[t].count <= answers[t] /\ answers[t] <= o.snap[t].count + troubles
      BY <1>4, <2>1, <3>1
    <3> QED
      BY <2>1, <3>1, <3>2
  <2>3. CASE MarkSuccess(x)
    <3>1. o.at = "success" /\ store' = [store EXCEPT ![t] = Counted(t, o.snap[t])]
      BY <2>3 DEF MarkSuccess, Current
    <3>2. o.snap[t].enabled
      BY <1>2, <1>3, <1>4, <3>1 DEF SnapGood
    <3>3. /\ Counted(t, o.snap[t]) \in [enabled : BOOLEAN, count : Nat]
          /\ Counted(t, o.snap[t]).count = o.snap[t].count + 1 /\ Counted(t, o.snap[t]).count \in Counts(t)
          /\ Counted(t, o.snap[t]) # NoRow /\ RowGood(t, Counted(t, o.snap[t]))
      BY <1>3, <2>1, <3>2, CountedIs
    <3>4. o.snap[t].count + 1 <= answers[t] /\ answers[t] <= o.snap[t].count + 1 + troubles
          /\ o.snap[t].count + 1 \in Nat
      BY <1>4, <2>1, <3>1
    <3> QED
      BY <3>1, <3>3, <3>4
  <2> QED
    BY <2>2, <2>3
<1>6. ripe' = [ripe EXCEPT ![t] = FALSE] /\ UNCHANGED <<troubles, running, told, answers>> /\ Moves(x, "pick")
  BY DEF MarkSuccess, MarkFailure, Current, noticeVars
<1>7. store' \in Rows /\ store'[t] = r /\ \A u \in Tasks \ {t} : store'[u] = store[u]
  <2>1. r \in [enabled : BOOLEAN, count : Nat] \cup {NoRow} /\ (r # NoRow => r.count \in Counts(t))
    BY <1>5
  <2>2. /\ [store EXCEPT ![t] = r] \in Rows /\ [store EXCEPT ![t] = r][t] = r
        /\ \A u \in Tasks \ {t} : [store EXCEPT ![t] = r][u] = store[u]
    BY <1>0, <1>3, <2>1, RowsAre
  <2> QED
    BY <1>5, <2>2
<1> DEFINE s == [o EXCEPT !.at = "pick"]
<1>8. s \in TickState /\ s.at = "pick" /\ s.rows = o.rows /\ s.task = t /\ s.snap = o.snap
  BY <1>2 DEF TickState
<1>9. tick' = [tick EXCEPT ![x] = s]
  BY <1>0, <1>6 DEF Moves, TickState
<1> HIDE DEF s
<1>10. TickGood(s)'
  BY <1>3, <1>6, <1>8 DEF TickGood
<1>11. /\ \A u \in Tasks : Uncounted(s, u) = 0 /\ (Open(s, u) => u # t)
       /\ \A u \in Tasks \ {t} : Uncounted(o, u) = 0 /\ (Open(s, u) <=> Open(o, u))
  BY <1>3, <1>8 DEF Uncounted, Open, Runs
<1>12. ASSUME NEW u \in Tasks PROVE SnapGood(s, u)'
  <2>1. RowGood(u, o.snap[u])
    BY <1>2 DEF SnapGood
  <2>2. CASE u = t
    BY <1>8, <1>11, <2>1, <2>2 DEF SnapGood
  <2>3. CASE u # t
    <3>1. SnapGood(o, u)
      BY <1>2
    <3>2. Uncounted(s, u) = Uncounted(o, u) /\ (Open(s, u) <=> Open(o, u))
      BY <1>11, <2>3
    <3>3. ~(s.task = u) /\ ~(o.task = u)
      BY <1>8, <2>3
    <3> QED
      BY <1>6, <1>8, <3>1, <3>2, <3>3 DEF SnapGood
  <2> QED
    BY <2>2, <2>3
<1>13. ASSUME NEW u \in Tasks
       PROVE  /\ RowGood(u, store'[u]) /\ told'[u] <= answers'[u]
              /\ store'[u] # NoRow => /\ store'[u].count <= answers'[u]
                                      /\ answers'[u] <= store'[u].count + troubles' + Uncounted(s, u)
              /\ MaxRuns[u] > 0 => told'[u] <= MaxRuns[u] + troubles'
  <2>1. CASE u = t
    BY <1>2, <1>3, <1>5, <1>6, <1>7, <1>11, <2>1
  <2>2. CASE u # t
    BY <1>2, <1>6, <1>7, <1>11, <2>2
  <2> QED
    BY <2>1, <2>2
<1>14. ripe' \in [Tasks -> BOOLEAN] /\ running' \in BOOLEAN /\ troubles' \in Nat
       /\ told' \in [Tasks -> Nat] /\ answers' \in [Tasks -> Nat]
  BY <1>0, <1>6
<1> QED
  BY <1>2, <1>7, <1>8, <1>9, <1>10, <1>12, <1>13, <1>14, TickMoves

\* The counted row cannot be written: it stays with the tick, and the trouble
\* makes up for it.
LEMMA LostTick ==
    ASSUME TaskTypes, TasksInv, troubles \in Nat, NEW x \in Ticks, MarkSuccessFails(x)
    PROVE  TaskTypes' /\ TasksInv'
<1> PICK o : o = tick[x]
  OBVIOUS
<1> PICK t : t = o.task
  OBVIOUS
<1>0. /\ tick \in [Ticks -> TickState] /\ store \in Rows /\ ripe \in [Tasks -> BOOLEAN] /\ running \in BOOLEAN
      /\ told \in [Tasks -> Nat] /\ answers \in [Tasks -> Nat]
  BY DEF TaskTypes
<1>1. /\ o.at = "success" /\ troubles' = troubles + 1
      /\ tick' = [tick EXCEPT ![x].at = "failure", ![x].snap[t] = Counted(t, @)]
      /\ UNCHANGED <<store, ripe, running, told, answers>>
  BY DEF MarkSuccessFails, Current
<1>2. /\ \A y \in Ticks \ {x} : tick[y] = Idle
      /\ o \in TickState /\ o.snap \in Rows /\ o.rows \subseteq Tasks /\ o.task \in Tasks \cup {NoRow}
      /\ TickGood(o)
      /\ \A u \in Tasks :
           /\ SnapGood(o, u) /\ RowGood(u, store[u]) /\ told[u] <= answers[u]
           /\ told[u] \in Nat /\ answers[u] \in Nat
           /\ store[u] # NoRow => /\ store[u].count <= answers[u]
                                  /\ answers[u] <= store[u].count + troubles + Uncounted(o, u)
           /\ MaxRuns[u] > 0 => told[u] <= MaxRuns[u] + troubles
  BY <1>1, TickFacts
<1>3. t \in Tasks /\ t \notin o.rows /\ running = TRUE
  BY <1>0, <1>1, <1>2 DEF TickGood
<1>4. Open(o, t) /\ Uncounted(o, t) = 1
  BY <1>1 DEF Open, Runs, Uncounted
<1>5. /\ o.snap[t] # NoRow /\ o.snap[t] \in [enabled : BOOLEAN, count : Nat] /\ o.snap[t].count \in Counts(t)
      /\ o.snap[t].count \in Nat /\ RowGood(t, o.snap[t]) /\ o.snap[t].enabled
      /\ o.snap[t].count + 1 <= answers[t]
      /\ answers[t] <= o.snap[t].count + 1 + troubles
  BY <1>1, <1>2, <1>3, <1>4, RowsAre DEF SnapGood
<1> PICK r : r = Counted(t, o.snap[t])
  OBVIOUS
<1>6. /\ r \in [enabled : BOOLEAN, count : Nat] /\ r.count = o.snap[t].count + 1 /\ r.count \in Counts(t)
      /\ r # NoRow /\ RowGood(t, r)
  BY <1>3, <1>5, CountedIs
<1> PICK snap : snap = [o.snap EXCEPT ![t] = r]
  OBVIOUS
<1>7. snap \in Rows /\ snap[t] = r /\ \A u \in Tasks \ {t} : snap[u] = o.snap[u]
  BY <1>2, <1>3, <1>6, RowsAre
<1> DEFINE s == [o EXCEPT !.at = "failure", !.snap = snap]
<1>8. s \in TickState /\ s.at = "failure" /\ s.rows = o.rows /\ s.task = t /\ s.snap = snap
  BY <1>2, <1>7 DEF TickState
<1>9. tick' = [tick EXCEPT ![x] = s]
  BY <1>0, <1>1 DEF TickState
<1> HIDE DEF s
<1>10. TickGood(s)'
  BY <1>1, <1>3, <1>8 DEF TickGood
<1>11. /\ Uncounted(s, t) = 0
       /\ \A u \in Tasks \ {t} : Uncounted(s, u) = 0 /\ Uncounted(o, u) = 0 /\ (Open(s, u) <=> Open(o, u))
  BY <1>3, <1>8 DEF Uncounted, Open, Runs
<1>12. ASSUME NEW u \in Tasks PROVE SnapGood(s, u)'
  <2>1. CASE u = t
    <3>1. /\ snap[t].count + 0 <= answers[t] /\ answers[t] <= snap[t].count + 0 + (troubles + 1)
      <4>1. answers[t] \in Nat /\ snap[t].count = o.snap[t].count + 1
        BY <1>2, <1>3, <1>6, <1>7
      <4> QED
        BY <1>5, <4>1
    <3> QED
      BY <1>1, <1>6, <1>7, <1>8, <1>11, <2>1, <3>1 DEF SnapGood
  <2>2. CASE u # t
    <3>1. SnapGood(o, u) /\ ~(s.task = u) /\ ~(o.task = u) /\ snap[u] = o.snap[u]
      BY <1>2, <1>7, <1>8, <2>2
    <3>2. Open(o, u) => o.snap[u].count \in Nat /\ answers[u] <= o.snap[u].count + 0 + (troubles + 1)
                        /\ o.snap[u].count + 0 <= answers[u]
      <4>1. Open(o, u) => o.snap[u].count \in Nat
        BY <1>2, <3>1, RowsAre DEF SnapGood
      <4> QED
        BY <1>2, <1>11, <2>2, <3>1, <4>1 DEF SnapGood
    <3>3. Uncounted(s, u) = 0 /\ (Open(s, u) <=> Open(o, u))
      BY <1>11, <2>2
    <3> QED
      BY <1>1, <1>8, <3>1, <3>2, <3>3 DEF SnapGood
  <2> QED
    BY <2>1, <2>2
<1>13. ASSUME NEW u \in Tasks
       PROVE  /\ RowGood(u, store'[u]) /\ told'[u] <= answers'[u]
              /\ store'[u] # NoRow => /\ store'[u].count <= answers'[u]
                                      /\ answers'[u] <= store'[u].count + troubles' + Uncounted(s, u)
              /\ MaxRuns[u] > 0 => told'[u] <= MaxRuns[u] + troubles'
  <2>1. store[u] # NoRow => store[u].count \in Nat
    BY <1>0, RowsAre
  <2>2. Uncounted(o, u) \in {0, 1} /\ Uncounted(s, u) = 0
    BY <1>8 DEF Uncounted
  <2>3. MaxRuns[u] \in Nat
    BY RowsAre
  <2> QED
    BY <1>1, <1>2, <2>1, <2>2, <2>3
<1>14. /\ store' \in Rows /\ ripe' \in [Tasks -> BOOLEAN] /\ running' \in BOOLEAN /\ troubles' \in Nat
       /\ told' \in [Tasks -> Nat] /\ answers' \in [Tasks -> Nat]
  BY <1>0, <1>1
<1> QED
  BY <1>2, <1>8, <1>9, <1>10, <1>12, <1>13, <1>14, TickMoves

LEMMA TickStep ==
    ASSUME TaskTypes, TasksInv, troubles \in Nat, NEW x \in Ticks, Tick(x)
    PROVE  TaskTypes' /\ TasksInv'
BY QuietTick, RunTick, WriteTick, LostTick DEF Tick

-----------------------------------------------------------------------------
(* The user's side, and the process *)

\* A row is created, removed or falls due.
LEMMA UserStep ==
    ASSUME TaskTypes, TasksInv, troubles \in Nat, NEW t \in Tasks, CreateTask(t) \/ RemoveTask(t) \/ Ripen(t)
    PROVE  TaskTypes' /\ TasksInv'
<1>0. /\ tick \in [Ticks -> TickState] /\ store \in Rows /\ ripe \in [Tasks -> BOOLEAN] /\ running \in BOOLEAN
      /\ told \in [Tasks -> Nat] /\ answers \in [Tasks -> Nat]
  BY DEF TaskTypes
<1>1. UNCHANGED <<troubles, running, tick, told, answers>> /\ ripe' \in [Tasks -> BOOLEAN]
  BY <1>0 DEF CreateTask, RemoveTask, Ripen, noticeVars
<1>2. PICK r \in [enabled : BOOLEAN, count : Nat] \cup {NoRow} :
         /\ r # NoRow => r = [enabled |-> TRUE, count |-> 0] /\ answers[t] = 0
         /\ store' = [store EXCEPT ![t] = r] \/ store' = store
  BY DEF CreateTask, RemoveTask, Ripen
<1>3. MaxRuns[t] \in Nat /\ (r # NoRow => r.count = 0 /\ r.count \in Counts(t))
  BY <1>2, RowsAre
<1>4. RowGood(t, r)
  BY <1>2, <1>3 DEF RowGood, Complete
<1>5. store' \in Rows
  BY <1>0, <1>2, <1>3, RowsAre
<1>6. TaskTypes'
  BY <1>0, <1>1, <1>5 DEF TaskTypes
<1>7. ASSUME NEW u \in Tasks PROVE StoreGood(u)'
  <2>1. StoreGood(u)
    BY DEF TasksInv
  <2>2. CASE store'[u] = store[u]
    BY <1>1, <2>1, <2>2 DEF StoreGood
  <2>3. CASE store'[u] # store[u]
    <3>1. u = t /\ store'[t] = r
      <4>1. /\ [store EXCEPT ![t] = r][t] = r
            /\ \A v \in Tasks \ {t} : [store EXCEPT ![t] = r][v] = store[v]
        BY <1>0 DEF Rows
      <4>2. store' = [store EXCEPT ![t] = r]
        BY <1>2, <2>3
      <4> QED
        BY <2>3, <4>1, <4>2
    <3>2. r # NoRow => r.count <= answers[t] /\ answers[t] <= r.count + troubles
      BY <1>2, <1>3
    <3>3. told[t] <= answers[t]
      BY <2>1, <3>1 DEF StoreGood
    <3> QED
      BY <1>1, <1>4, <3>1, <3>2, <3>3 DEF StoreGood
  <2> QED
    BY <2>2, <2>3
<1>8. \A x \in Ticks : TickGood(tick[x])' /\ \A u \in Tasks : SnapGood(tick[x], u)'
  BY <1>1 DEF TasksInv, TickGood, SnapGood
<1>9. OneTick' /\ ToldNoMoreThanAsked'
  BY <1>1 DEF TasksInv, OneTick, ToldNoMoreThanAsked
<1> QED
  BY <1>6, <1>7, <1>8, <1>9 DEF TasksInv

\* More troubles take nothing away.
LEMMA NoticesBeside ==
    ASSUME TaskTypes, TasksInv, troubles \in Nat, troubles' \in Nat, troubles <= troubles', UNCHANGED promptVars
    PROVE  TaskTypes' /\ TasksInv'
<1>1. UNCHANGED <<store, ripe, running, tick, told, answers>>
  BY DEF promptVars
<1>2. TaskTypes'
  BY <1>1 DEF TaskTypes
<1>3. ASSUME NEW x \in Ticks PROVE TickGood(tick[x])' /\ \A t \in Tasks : SnapGood(tick[x], t)'
  <2>1. TickGood(tick[x])'
    BY <1>1 DEF TasksInv, TickGood
  <2>2. ASSUME NEW t \in Tasks PROVE SnapGood(tick[x], t)'
    <3>1. SnapGood(tick[x], t) /\ answers[t] \in Nat /\ tick[x].snap \in Rows
      BY DEF TasksInv, TaskTypes, TickState
    <3>2. tick[x].snap[t] # NoRow => tick[x].snap[t].count \in Nat
      BY <3>1, RowsAre
    <3>3. Uncounted(tick[x], t) \in Nat
      BY DEF Uncounted
    <3> QED
      BY <1>1, <3>1, <3>2, <3>3 DEF SnapGood
  <2> QED
    BY <2>1, <2>2
<1>4. ASSUME NEW t \in Tasks PROVE StoreGood(t)'
  <2>1. StoreGood(t) /\ answers[t] \in Nat
    BY DEF TasksInv, TaskTypes
  <2>2. store[t] # NoRow => store[t].count \in Nat
    BY RowsAre DEF TaskTypes
  <2> QED
    BY <1>1, <2>1, <2>2 DEF StoreGood
<1>5. OneTick'
  BY <1>1 DEF TasksInv, OneTick
<1>6. ToldNoMoreThanAsked'
  <2>1. ASSUME NEW t \in Tasks, MaxRuns[t] > 0 PROVE told'[t] <= MaxRuns[t] + troubles'
    <3>1. told[t] <= MaxRuns[t] + troubles /\ told[t] \in Nat /\ MaxRuns[t] \in Nat
      BY <2>1, RowsAre DEF TasksInv, ToldNoMoreThanAsked, TaskTypes
    <3> QED
      BY <1>1, <3>1
  <2> QED
    BY <2>1 DEF ToldNoMoreThanAsked
<1> QED
  BY <1>2, <1>3, <1>4, <1>5, <1>6 DEF TasksInv

\* Every tick is gone, and what it had not counted is a trouble more.
LEMMA CrashStep ==
    ASSUME TaskTypes, TasksInv, troubles \in Nat, Crash
    PROVE  TaskTypes' /\ TasksInv'
<1>1. /\ running' = FALSE /\ tick' = [x \in Ticks |-> Idle] /\ UNCHANGED <<store, ripe, told, answers>>
      /\ troubles' = troubles + 1
  BY DEF Crash, ServiceCrash
<1>2. TaskTypes'
  BY <1>1, IdleIs DEF TaskTypes
<1>3. OneTick' /\ \A x \in Ticks : TickGood(tick[x])' /\ \A t \in Tasks : SnapGood(tick[x], t)'
  BY <1>1, IdleIs DEF OneTick, TickGood, SnapGood, RowGood
<1>4. ASSUME NEW t \in Tasks PROVE StoreGood(t)'
  <2>1. StoreGood(t) /\ answers[t] \in Nat
    BY DEF TasksInv, TaskTypes
  <2>2. store[t] # NoRow => store[t].count \in Nat
    BY RowsAre DEF TaskTypes
  <2> QED
    BY <1>1, <2>1, <2>2 DEF StoreGood
<1>5. ToldNoMoreThanAsked'
  <2>1. ASSUME NEW t \in Tasks, MaxRuns[t] > 0 PROVE told'[t] <= MaxRuns[t] + troubles'
    <3>1. told[t] <= MaxRuns[t] + troubles /\ told[t] \in Nat /\ MaxRuns[t] \in Nat
      BY <2>1, RowsAre DEF TasksInv, ToldNoMoreThanAsked, TaskTypes
    <3> QED
      BY <1>1, <3>1
  <2> QED
    BY <2>1 DEF ToldNoMoreThanAsked
<1> QED
  BY <1>2, <1>3, <1>4, <1>5 DEF TasksInv

-----------------------------------------------------------------------------
(* The whole *)

LEMMA Initially == Init => Inv
<1> SUFFICES ASSUME Init PROVE Inv
  OBVIOUS
<1>1. NoticesInv
  BY NoticesInitially DEF Init
<1>2. NoticesTypeOK /\ troubles = 0
  BY <1>1 DEF NoticesInv, Init, NoticesInit
<1>3. /\ store = [t \in Tasks |-> NoRow] /\ tick = [x \in Ticks |-> Idle]
      /\ told = [t \in Tasks |-> 0] /\ answers = [t \in Tasks |-> 0]
      /\ ripe = [t \in Tasks |-> FALSE] /\ running = FALSE
  BY DEF Init
<1>4. TaskTypes
  <2>1. store \in Rows
    BY <1>3, RowsAre
  <2>2. tick \in [Ticks -> TickState]
    BY <1>3, IdleIs
  <2> QED
    BY <1>3, <2>1, <2>2 DEF TaskTypes
<1>5. OneTick /\ \A x \in Ticks : TickGood(tick[x]) /\ \A t \in Tasks : SnapGood(tick[x], t)
  BY <1>3, IdleIs DEF OneTick, TickGood, SnapGood, RowGood
<1>6. (\A t \in Tasks : StoreGood(t)) /\ ToldNoMoreThanAsked
  BY <1>2, <1>3, RowsAre DEF StoreGood, RowGood, ToldNoMoreThanAsked
<1> QED
  BY <1>1, <1>2, <1>4, <1>5, <1>6 DEF Inv, TypeOK, TaskTypes, TasksInv

\* What a tick does to the notices is a call of notify(), or nothing.
LEMMA TickNotices ==
    ASSUME Inv, NEW x \in Ticks, Tick(x)
    PROVE  NoticesInv'
<1>0. NoticesInv /\ x \in Callers /\ x \in Couriers /\ TaskTypes /\ TasksInv
  BY PromptsAssumption DEF Inv, TypeOK, TaskTypes, Couriers, PromptsAssumption
<1>1. CASE Send(x)
  <2>1. tick[x].at = "notify" /\ Lookup(x, NoticeOf(Current(x), told[Current(x)] + 1))
    BY <1>1 DEF Send
  <2>2. TickGood(tick[x])
    BY <1>0 DEF TasksInv
  <2>3. Current(x) \in Tasks /\ told[Current(x)] < MaxNotices /\ told[Current(x)] \in Nat
    BY <1>0, <2>1, <2>2 DEF TickGood, Current, TaskTypes
  <2>4. NoticeOf(Current(x), told[Current(x)] + 1) \in Notices
    BY <2>3, PromptsAssumption DEF NoticeOf, TaskNotices, PromptsAssumption
  <2> QED
    BY <1>0, <2>1, <2>4, LookupStep
<1>2. CASE Sent(x)
  <2>1. courier' = [courier EXCEPT ![x] = [Resting EXCEPT !.at = "new"]]
    BY <1>2 DEF Sent, Resting
  <2>2. courier[x].at = "next" /\ courier[x].todo = {} /\ UNCHANGED <<row, fresh, bridge, delivery, troubles, sent, excused>>
    BY <1>2 DEF Sent
  <2> QED
    BY <1>0, <2>1, <2>2, DoneStep
<1>3. CASE MarkSuccessFails(x) \/ MarkFailureFails(x)
  <2>1. /\ troubles < MaxTroubles /\ troubles' = troubles + 1
        /\ UNCHANGED <<row, fresh, bridge, delivery, courier, sent, excused>>
    BY <1>3 DEF MarkSuccessFails, MarkFailureFails
  <2>2. NoticesTypeOK'
    BY <1>0, <2>1, NoticesAssumption DEF NoticesInv, NoticesTypeOK, NoticesAssumption
  <2>3. Couriering' /\ Ledger' /\ Traced'
    BY <1>0, <2>1, Unseeing
  <2>4. Registered' /\ NoNoticeMissed'
    BY <1>0, <2>1 DEF NoticesInv, Registered, NoNoticeMissed, Coming
  <2> QED
    BY <2>2, <2>3, <2>4 DEF NoticesInv
<1>4. CASE \/ TickStart(x) \/ TickRead(x) \/ TickEnd(x) \/ Executed(x) \/ Suppressed(x) \/ ExecutionFails(x)
           \/ MarkSuccess(x) \/ MarkFailure(x)
           \/ \E t \in Tasks : TickPick(x, t)
  <2>1. UNCHANGED noticeVars
    BY <1>4 DEF TickStart, TickRead, TickEnd, Executed, Suppressed, ExecutionFails, MarkSuccess, MarkFailure, TickPick
  <2> QED
    BY <1>0, <2>1, NobodySeesStep
<1> QED
  BY <1>1, <1>2, <1>3, <1>4 DEF Tick

\* A step of the notices meets one trouble at most.
LEMMA OneTrouble ==
    ASSUME NoticesNext \/ (\E c \in Callers : Notify(c))
    PROVE  troubles' \in {troubles, troubles + 1}
<1>1. CASE NoticesNext
  <2>1. CASE \E c \in Callers : Persist(c)
    BY <2>1 DEF Persist, Insert, InsertRefused, PersistFails, Fan
  <2>2. CASE \E c \in Couriers : Deliver(c)
    BY <2>2 DEF Deliver, Skip, Attempt, LedgerFails, Arrives, Refused, Delivered, Failed, OutcomeLost, Stop
  <2>3. CASE \/ \E b \in Bridges : Register(b) \/ List(b)
             \/ \E k \in Keys : Unregister(k)
             \/ \E n \in Notices : MarkRead(n)
    BY <2>3 DEF Register, List, Unregister, MarkRead
  <2> QED
    BY <1>1, <2>1, <2>2, <2>3 DEF NoticesNext
<1>2. CASE \E c \in Callers : Notify(c)
  BY <1>2 DEF Notify, Lookup
<1> QED
  BY <1>1, <1>2

\* Every step keeps the invariant.
LEMMA Inductive == Inv /\ [Next]_vars => Inv'
<1> SUFFICES ASSUME Inv, [Next]_vars PROVE Inv'
  OBVIOUS
<1>0. NoticesInv /\ TaskTypes /\ TasksInv /\ troubles \in Nat
  BY NoticesAssumption DEF Inv, TypeOK, TaskTypes, NoticesInv, NoticesTypeOK, NoticesAssumption
<1>1. ASSUME NoticesInv', TaskTypes', TasksInv' PROVE Inv'
  BY <1>1 DEF Inv, TypeOK, TaskTypes, NoticesInv
<1>2. CASE \E t \in Tasks : CreateTask(t) \/ RemoveTask(t) \/ Ripen(t)
  <2>1. UNCHANGED noticeVars
    BY <1>2 DEF CreateTask, RemoveTask, Ripen
  <2>2. NoticesInv'
    BY <1>0, <2>1, NobodySeesStep
  <2>3. TaskTypes' /\ TasksInv'
    BY <1>0, <1>2, UserStep
  <2> QED
    BY <1>1, <2>2, <2>3
<1>3. CASE \E x \in Ticks : Tick(x)
  BY <1>0, <1>1, <1>3, TickStep, TickNotices
<1>4. CASE \E c \in Callers : Notify(c)
  <2>1. NoticesInv' /\ UNCHANGED promptVars
    BY <1>0, <1>4, LookupStep DEF Notify
  <2>2. troubles' \in Nat /\ troubles <= troubles'
    BY <1>0, <1>4, OneTrouble
  <2>3. TaskTypes' /\ TasksInv'
    BY <1>0, <2>1, <2>2, NoticesBeside
  <2> QED
    BY <1>1, <2>1, <2>3
<1>5. CASE NoticesNext /\ UNCHANGED promptVars
  <2>1. NoticesInv'
    BY <1>0, <1>5, NoticesNextStep
  <2>2. troubles' \in Nat /\ troubles <= troubles'
    BY <1>0, <1>5, OneTrouble
  <2>3. TaskTypes' /\ TasksInv'
    BY <1>0, <1>5, <2>2, NoticesBeside
  <2> QED
    BY <1>1, <2>1, <2>3
<1>6. CASE Crash
  BY <1>0, <1>1, <1>6, ServiceCrashStep, CrashStep DEF Crash
<1>7. CASE UNCHANGED vars
  <2>1. UNCHANGED noticeVars /\ UNCHANGED promptVars /\ troubles' = troubles
    BY <1>7 DEF vars, noticeVars
  <2>2. NoticesInv'
    BY <1>0, <2>1, NobodySeesStep
  <2>3. TaskTypes' /\ TasksInv'
    BY <1>0, <2>1, NoticesBeside
  <2> QED
    BY <1>1, <2>2, <2>3
<1> QED
  BY <1>2, <1>3, <1>4, <1>5, <1>6, <1>7 DEF Next

LEMMA Invariance == Spec => []Inv
<1>1. Init => Inv
  BY Initially
<1>2. Inv /\ [Next]_vars => Inv'
  BY Inductive
<1> QED
  BY <1>1, <1>2, PTL DEF Spec

-----------------------------------------------------------------------------
(* What it means for the user *)

\* Rows, ticks, couriers, ledger and histories keep their types: a stored count
\* stays within max_runs of its task.
THEOREM PromptTypes == Spec => []TypeOK
<1>1. Inv => TypeOK
  BY DEF Inv
<1> QED
  BY <1>1, Invariance, PTL

\* _deliver_to_bridge() and the ledger: a notice reaches a chat twice only if
\* two couriers of it overlapped, it was sent without the ledger, or the process
\* or the ledger failed between a send and its record.
THEOREM RepeatsAreExcused == Spec => []RepeatIsExcused
<1>1. Inv => RepeatIsExcused
  <2> SUFFICES ASSUME Inv, NEW l \in Lines, sent[l] > 1, l \notin excused PROVE FALSE
    BY DEF RepeatIsExcused, Lines
  <2>1. Known(l) /\ sent[l] \in Nat
    BY DEF Inv, NoticesInv, NoticesTypeOK, Ledger, Lines
  <2> QED
    BY <2>1 DEF Known
<1> QED
  BY <1>1, Invariance, PTL

\* notify() and register_bridge(): whatever the order in which a notice is
\* stored and a bridge registers, every unread notice of the process comes to
\* every bridge.
THEOREM NothingFallsBetween == Spec => []NoNoticeMissed
<1>1. Inv => NoNoticeMissed
  BY DEF Inv, NoticesInv
<1> QED
  BY <1>1, Invariance, PTL

\* run_due_tasks(): a task with a limit speaks no more often than the limit, but
\* for the crashes and failed writes, each of which can make it speak once more.
THEOREM NobodyIsToldTooOften == Spec => []ToldNoMoreThanAsked
<1>1. Inv => ToldNoMoreThanAsked
  BY DEF Inv, TasksInv
<1> QED
  BY <1>1, Invariance, PTL

\* _mark_success() and _mark_failure(): the stored count never runs ahead of the
\* runs, nor behind by more than the one under way and those that are lost.
THEOREM CountsMatchRuns == Spec => []CountMatchesRuns
<1>1. Inv => CountMatchesRuns
  <2> SUFFICES ASSUME Inv, NEW t \in Tasks, store[t] # NoRow
               PROVE  /\ store[t].count <= answers[t]
                      /\ answers[t] <= store[t].count + troubles
                           + Cardinality({x \in Ticks : Current(x) = t /\ tick[x].at \in {"told", "success", "failure"}})
    BY DEF CountMatchesRuns
  <2> DEFINE late == {x \in Ticks : Current(x) = t /\ tick[x].at \in {"told", "success", "failure"}}
  <2>1. /\ store[t].count \in Nat /\ answers[t] \in Nat /\ troubles \in Nat /\ StoreGood(t)
    BY RowsAre, NoticesAssumption DEF Inv, TypeOK, NoticesTypeOK, NoticesAssumption, TasksInv
  <2>2. \A x, y \in late : x = y
    BY DEF Inv, TasksInv, OneTick
  <2>3. (late = {} /\ Cardinality(late) = 0) \/ \E x \in late : Cardinality(late) = 1
    <3>1. CASE late = {}
      BY <3>1, FS_EmptySet
    <3>2. ASSUME NEW x \in late PROVE Cardinality(late) = 1
      <4>1. late = {x}
        BY <2>2, <3>2
      <4> HIDE DEF late
      <4> QED
        BY <4>1, FS_Singleton
    <3> QED
      BY <3>1, <3>2
  <2>4. (\E x \in Ticks : Uncounted(tick[x], t) = 1) => late # {}
    BY DEF Uncounted, Current
  <2>5. \/ answers[t] <= store[t].count + troubles
        \/ late # {} /\ answers[t] <= store[t].count + troubles + 1
    BY <2>1, <2>4 DEF StoreGood
  <2> HIDE DEF late
  <2>6. store[t].count <= answers[t] /\ answers[t] <= store[t].count + troubles + Cardinality(late)
    BY <2>1, <2>3, <2>5 DEF StoreGood
  <2> QED
    BY <2>6 DEF late
<1> QED
  BY <1>1, Invariance, PTL
=============================================================================
