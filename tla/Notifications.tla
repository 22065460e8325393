----------------------------- MODULE Notifications -----------------------------
(***************************************************************************)
(* Notices of the program to its user (src/src/core/notifications.py with  *)
(* src/src/core/repositories/notifications.py).  A notice is stored first, *)
(* then sent through every registered messaging bridge; a bridge that      *)
(* registers is sent the unread notices it has missed.  A ledger of        *)
(* deliveries, one row for a notice and a target, is to keep a notice from *)
(* being sent twice.                                                       *)
(*                                                                         *)
(* A courier is a task that sends: a caller of notify() or the replay that *)
(* register_bridge() spawns.  It awaits every statement on the database    *)
(* and every send, and couriers interleave there.                          *)
(***************************************************************************)
EXTENDS Naturals, FiniteSets

CONSTANTS
    Notices,       \* notices: a dedupe key, or one call of notify() without
    Keyed,         \* those with a dedupe key, which several calls may share
    Callers,       \* tasks that call notify()
    Bridges,       \* bridge objects, each registered once by its adapter
    KeyOf,         \* the registry key of each: "telegram", "discord"
    TargetOf,      \* its delivery_id: the chat or channel it sends to
    MaxTroubles,   \* bound: ends of the process and statements that raise
    Nothing        \* no notice, no bridge

ASSUME NoticesAssumption ==
    /\ Keyed \subseteq Notices
    /\ Nothing \notin Notices \cup Bridges
    /\ Callers \cap Bridges = {}
    /\ MaxTroubles \in Nat

VARIABLES
    row,           \* notifications.status of each notice
    fresh,         \* the notices created since the service started
    bridge,        \* NotificationService._bridges
    delivery,      \* notification_deliveries.status of a notice and a target
    courier,       \* the tasks: a caller's own, a replay named by its bridge
    troubles,      \* ends of the process and statements on the database that
                   \* raised
    sent,          \* history: messages that arrived, by notice and target
    excused        \* history: those whose ledger could not know of a send

noticeVars == <<row, fresh, bridge, delivery, courier, troubles, sent,
                excused>>

Targets == {TargetOf[b] : b \in Bridges}
Keys == {KeyOf[b] : b \in Bridges}
Couriers == Callers \cup Bridges
Posts == Notices \X Bridges

\* at:    where the task waits; "new" is before it starts
\* todo:  the sends it has left
\* post:  the send it is at, or the notice alone before it fans out
\* keeps: whether it has the row's id, without which it skips the ledger
Resting == [at |-> "new", todo |-> {}, post |-> <<Nothing, Nothing>>,
            keeps |-> TRUE]

NoticesInit ==
    /\ row = [n \in Notices |-> "none"]
    /\ fresh = {}
    /\ bridge = [k \in Keys |-> Nothing]
    /\ delivery = [p \in Notices \X Targets |-> "none"]
    /\ courier = [c \in Couriers |-> Resting]
    /\ troubles = 0
    /\ sent = [p \in Notices \X Targets |-> 0]
    /\ excused = {}

Notice(c) == courier[c].post[1]

\* The row of notification_deliveries the courier's send belongs to.
Line(c) == <<Notice(c), TargetOf[courier[c].post[2]]>>

\* The courier is done: notify() returns, or the replay ends.
Over == [Resting EXCEPT !.at = "next"]

Goes(c, at) == courier' = [courier EXCEPT ![c].at = at]

\* It has dealt with the send it was at.
Returns(c) == courier' = [courier EXCEPT ![c].at = "next",
                                         ![c].post = <<Nothing, Nothing>>]

\* The couriers that have looked the line up and not yet recorded the outcome.
InFlight == {c \in Couriers : courier[c].at \in {"send", "sent", "failed"}}

-----------------------------------------------------------------------------
(* notify() *)

\* create() looks for a row with the notice's dedupe key, and updates its text
\* if there is one.
Lookup(c, n) ==
    /\ courier[c].at = "new"
    /\ n \notin Keyed => row[n] = "none" /\ \A d \in Couriers : Notice(d) # n
    /\ courier' = [courier EXCEPT ![c] =
                     [Resting EXCEPT !.at = IF row[n] = "none" THEN "insert" ELSE "fan",
                                     !.post = <<n, Nothing>>]]
    /\ UNCHANGED <<row, fresh, bridge, delivery, troubles, sent, excused>>

\* create() inserts a row.
Insert(c) ==
    LET n == Notice(c) IN
    /\ courier[c].at = "insert"
    /\ row[n] = "none"
    /\ row' = [row EXCEPT ![n] = "unread"]
    /\ fresh' = fresh \cup {n}
    /\ Goes(c, "fan")
    /\ UNCHANGED <<bridge, delivery, troubles, sent, excused>>

\* Another call has inserted the key since the look-up, and the unique index
\* refuses this one: notify() goes on without the row's id.
InsertRefused(c) ==
    /\ courier[c].at = "insert"
    /\ row[Notice(c)] # "none"
    /\ courier' = [courier EXCEPT ![c].at = "fan", ![c].keeps = FALSE]
    /\ UNCHANGED <<row, fresh, bridge, delivery, troubles, sent, excused>>

\* create() raises: the same.
PersistFails(c) ==
    /\ courier[c].at = "insert"
    /\ troubles < MaxTroubles
    /\ troubles' = troubles + 1
    /\ courier' = [courier EXCEPT ![c].at = "fan", ![c].keeps = FALSE]
    /\ UNCHANGED <<row, fresh, bridge, delivery, sent, excused>>

\* The bridges as they are once the row is stored; each gets the notice.
Fan(c) ==
    /\ courier[c].at = "fan"
    /\ courier' = [courier EXCEPT ![c].at = "next", ![c].post = <<Nothing, Nothing>>,
                     ![c].todo = {<<Notice(c), b>> : b \in {bridge[k] : k \in Keys} \ {Nothing}}]
    /\ UNCHANGED <<row, fresh, bridge, delivery, troubles, sent, excused>>

-----------------------------------------------------------------------------
(* _deliver_to_bridge() *)

\* A courier that looks while another has looked and not yet reported cannot
\* know of the other's send.
Unseen(c, l) == \E d \in InFlight \ {c} : courier[d].post[2] # Nothing /\ Line(d) = l

\* Mutant: the ledger is not consulted.
MaySendAgain(c, l) == TRUE

\* should_deliver_to_bridge(): whether the ledger lets the courier go on.  One
\* without the row's id does not ask.
MaySend(c, l) == courier[c].keeps => delivery[l] # "delivered"

\* A replay passes over the notices of an earlier process.
PassedOver(c, p) == c \in Bridges /\ p[1] \notin fresh

\* record_bridge_delivery_attempt() and record_bridge_delivery_failure() leave
\* a delivered line as it is.
Unless(l, status) == IF delivery[l] = "delivered" THEN delivery
                     ELSE [delivery EXCEPT ![l] = status]

\* The next send, which it looks up in the ledger and, as one step with that,
\* records as attempted.
Takes(c, p) ==
    /\ courier[c].at = "next"
    /\ p \in courier[c].todo
    /\ c \in Bridges => bridge[KeyOf[c]] = c

LineOf(p) == <<p[1], TargetOf[p[2]]>>

Left(c, p) == [courier[c] EXCEPT !.todo = @ \ {p}]

Skip(c, p) ==
    /\ Takes(c, p)
    /\ PassedOver(c, p) \/ ~MaySend(c, LineOf(p))
    /\ courier' = [courier EXCEPT ![c] = Left(c, p)]
    /\ UNCHANGED <<row, fresh, bridge, delivery, troubles, sent, excused>>

Attempt(c, p) ==
    LET l == LineOf(p) IN
    /\ Takes(c, p)
    /\ ~PassedOver(c, p) /\ MaySend(c, l)
    /\ courier' = [courier EXCEPT ![c] = [Left(c, p) EXCEPT !.post = p, !.at = "send"]]
    /\ delivery' = IF courier[c].keeps THEN Unless(l, "pending") ELSE delivery
    /\ excused' = IF Unseen(c, l) \/ ~courier[c].keeps THEN excused \cup {l} ELSE excused
    /\ UNCHANGED <<row, fresh, bridge, troubles, sent>>

\* The ledger raises before the send: the notice is sent all the same.
LedgerFails(c, p) ==
    /\ Takes(c, p)
    /\ ~PassedOver(c, p) /\ courier[c].keeps
    /\ troubles < MaxTroubles
    /\ troubles' = troubles + 1
    /\ courier' = [courier EXCEPT ![c] = [Left(c, p) EXCEPT !.post = p, !.at = "send"]]
    /\ excused' = excused \cup {LineOf(p)}
    /\ UNCHANGED <<row, fresh, bridge, delivery, sent>>

\* A replay stops once its bridge has been replaced or unregistered.
Stop(b) ==
    /\ courier[b].at = "next" /\ courier[b].todo # {}
    /\ bridge[KeyOf[b]] # b
    /\ courier' = [courier EXCEPT ![b] = Over]
    /\ UNCHANGED <<row, fresh, bridge, delivery, troubles, sent, excused>>

\* bridge.send_notification() delivers the message.
Arrives(c) ==
    /\ courier[c].at = "send"
    /\ sent' = [sent EXCEPT ![Line(c)] = @ + 1]
    /\ Goes(c, "sent")
    /\ UNCHANGED <<row, fresh, bridge, delivery, troubles, excused>>

\* It returns False or raises: the bridge is not ready, or has been stopped.
Refused(c) ==
    /\ courier[c].at = "send"
    /\ Goes(c, "failed")
    /\ UNCHANGED <<row, fresh, bridge, delivery, troubles, sent, excused>>

\* record_bridge_delivery_success()
Delivered(c) ==
    /\ courier[c].at = "sent"
    /\ delivery' = IF courier[c].keeps THEN [delivery EXCEPT ![Line(c)] = "delivered"]
                   ELSE delivery
    /\ Returns(c)
    /\ UNCHANGED <<row, fresh, bridge, troubles, sent, excused>>

\* record_bridge_delivery_failure()
Failed(c) ==
    /\ courier[c].at = "failed"
    /\ delivery' = IF courier[c].keeps THEN Unless(Line(c), "failed") ELSE delivery
    /\ Returns(c)
    /\ UNCHANGED <<row, fresh, bridge, troubles, sent, excused>>

\* The outcome cannot be recorded, or the message had arrived when the bridge
\* raised (record_external_turn() after the send): the ledger does not know.
OutcomeLost(c) ==
    /\ courier[c].at = "sent"
    /\ troubles < MaxTroubles
    /\ troubles' = troubles + 1
    /\ excused' = excused \cup {Line(c)}
    /\ Returns(c)
    /\ UNCHANGED <<row, fresh, bridge, delivery, sent>>

-----------------------------------------------------------------------------
(* Bridges, the inbox, and the process *)

\* register_bridge(): the new object takes its key over and a replay is spawned.
Register(b) ==
    /\ courier[b].at = "new"
    /\ bridge' = [bridge EXCEPT ![KeyOf[b]] = b]
    /\ Goes(b, "list")
    /\ UNCHANGED <<row, fresh, delivery, troubles, sent, excused>>

\* Mutant: only the sends that failed are made up for.
ListFailed(b) ==
    /\ courier[b].at = "list"
    /\ courier' = [courier EXCEPT ![b].at = "next",
                     ![b].todo = {<<n, b>> : n \in {m \in Notices :
                                      delivery[<<m, TargetOf[b]>>] = "failed"}}]
    /\ UNCHANGED <<row, fresh, bridge, delivery, troubles, sent, excused>>

\* The replay reads the unread notices (20 at most, far above the bound here).
List(b) ==
    /\ courier[b].at = "list"
    /\ courier' = [courier EXCEPT ![b].at = "next",
                     ![b].todo = {<<n, b>> : n \in {m \in Notices : row[m] = "unread"}}]
    /\ UNCHANGED <<row, fresh, bridge, delivery, troubles, sent, excused>>

\* unregister_bridge()
Unregister(k) ==
    /\ bridge[k] # Nothing
    /\ bridge' = [bridge EXCEPT ![k] = Nothing]
    /\ UNCHANGED <<row, fresh, delivery, courier, troubles, sent, excused>>

\* mark_read(), from the inbox page
MarkRead(n) ==
    /\ row[n] = "unread"
    /\ row' = [row EXCEPT ![n] = "read"]
    /\ UNCHANGED <<fresh, bridge, delivery, courier, troubles, sent, excused>>

\* The process ends and starts again.  Of a send in flight nothing is known.
ServiceCrash ==
    /\ troubles < MaxTroubles
    /\ troubles' = troubles + 1
    /\ fresh' = {}
    /\ bridge' = [k \in Keys |-> Nothing]
    /\ courier' = [c \in Couriers |-> Resting]
    /\ excused' = excused \cup {Line(c) : c \in {d \in Couriers : courier[d].at = "sent"}}
    /\ UNCHANGED <<row, delivery, sent>>

Deliver(c) ==
    \/ \E p \in Posts : Skip(c, p) \/ Attempt(c, p) \/ LedgerFails(c, p)
    \/ Arrives(c) \/ Refused(c)
    \/ Delivered(c) \/ Failed(c) \/ OutcomeLost(c)
    \/ c \in Bridges /\ Stop(c)

Persist(c) == Insert(c) \/ InsertRefused(c) \/ PersistFails(c) \/ Fan(c)

\* What happens beside the callers' own decision to notify.
NoticesNext ==
    \/ \E c \in Callers : Persist(c)
    \/ \E c \in Couriers : Deliver(c)
    \/ \E b \in Bridges : Register(b) \/ List(b)
    \/ \E k \in Keys : Unregister(k)
    \/ \E n \in Notices : MarkRead(n)

-----------------------------------------------------------------------------
Waits == {"new", "insert", "fan", "list", "next", "send", "sent",
          "failed"}

CourierState == [at : Waits, todo : SUBSET Posts,
                 post : (Notices \cup {Nothing}) \X (Bridges \cup {Nothing}), keeps : BOOLEAN]

NoticesTypeOK ==
    /\ row \in [Notices -> {"none", "unread", "read"}]
    /\ fresh \subseteq Notices
    /\ bridge \in [Keys -> Bridges \cup {Nothing}]
    /\ delivery \in [Notices \X Targets -> {"none", "pending", "failed", "delivered"}]
    /\ courier \in [Couriers -> CourierState]
    /\ troubles \in 0..MaxTroubles
    /\ sent \in [Notices \X Targets -> Nat]
    /\ excused \subseteq Notices \X Targets

\* A notice reaches a chat twice only if two couriers of it overlapped, it was
\* sent without the ledger, or the process or the ledger failed between a send
\* and its record: in particular, never because a bridge was registered again.
RepeatIsExcused ==
    \A p \in Notices \X Targets : sent[p] > 1 => p \in excused

\* Whether a courier will still come to the notice and the bridge.
Coming(n, b) ==
    \/ courier[b].at = "list"
    \/ \E c \in Couriers :
         \/ <<n, b>> \in courier[c].todo
         \/ courier[c].post \in {<<n, b>>, <<n, Nothing>>}

\* Whatever the order in which a notice is stored and a bridge registers, the
\* bridge is offered every unread notice of this process: none falls between
\* the bridges notify() took and the rows the replay read.
NoNoticeMissed ==
    \A n \in fresh, k \in Keys :
        row[n] = "unread" /\ bridge[k] # Nothing
            => \/ delivery[<<n, TargetOf[bridge[k]]>>] # "none"
               \/ <<n, TargetOf[bridge[k]]>> \in excused
               \/ Coming(n, bridge[k])

=============================================================================
