------------------------------- MODULE ChatTurns -------------------------------
(***************************************************************************)
(* Ownership of a conversation by one assistant task                       *)
(* (src/src/ai/chat_turn_registry.py), with the transports that use it:    *)
(* the chat WebSocket and REST handlers (src/src/web/app.py) and agents    *)
(* outside that delegate turns (agent_delegation.py,                       *)
(* agent_turn_control.py).                                                 *)
(*                                                                         *)
(* The registry's lock is never held across an await, so each method is    *)
(* one step; the turns, and those who stop them, wait between them.        *)
(***************************************************************************)
EXTENDS Naturals, FiniteSets

CONSTANTS
    Sessions,     \* chat sessions
    Turns,        \* requests to run a turn, each one assistant task at most
    SessionOf,    \* the session of each
    Delegated,    \* sessions of outside agents; the others are web sessions
    Stoppers,     \* tasks that serve a request to stop a turn
    Interruptible,\* sessions whose stop requests may be cancelled themselves
                  \* while they wait
    Nobody        \* not a turn

ASSUME TurnsAssumption ==
    /\ SessionOf \in [Turns -> Sessions]
    /\ Delegated \subseteq Sessions
    /\ Interruptible \subseteq Sessions
    /\ Nobody \notin Turns

VARIABLES
    entry,        \* ChatTurnRegistry._turns
    task,         \* the assistant task of each turn
    stop          \* where each stopper is: the turn it waits for, and what it
                  \* was told of it

vars == <<entry, task, stop>>

\* A task that is unwinding has been sent CancelledError and has not ended.
Live == {"running", "unwinding"}

\* What a stopper was told: the turn has settled, or it is still stopping.
Resting == [at |-> "idle", turn |-> Nobody]

Init ==
    /\ entry = [s \in Sessions |-> Nobody]
    /\ task = [t \in Turns |-> "new"]
    /\ stop = [p \in Stoppers |-> Resting]

HasLiveTurn(s) == entry[s] # Nobody /\ task[entry[s]] \in Live

\* release(session_id, turn_id)
Released(s, t) == IF entry[s] = t THEN [entry EXCEPT ![s] = Nobody] ELSE entry

-----------------------------------------------------------------------------
(* Turns *)

\* start(): run the turn unless the session has a live one.
Start(t) ==
    LET s == SessionOf[t] IN
    /\ task[t] = "new"
    /\ IF HasLiveTurn(s)
       THEN task' = [task EXCEPT ![t] = "refused"] /\ UNCHANGED entry
       ELSE /\ task' = [task EXCEPT ![t] = "running"]
            /\ entry' = [entry EXCEPT ![s] = t]
    /\ UNCHANGED stop

\* The assistant task ends.  A web turn releases its session as the last thing
\* it does, unless it is cancelled before its first step; a delegated one leaves
\* that to the task that awaits it.
End(t) ==
    LET s == SessionOf[t] IN
    /\ task[t] \in Live
    /\ task' = [task EXCEPT ![t] = IF s \in Delegated THEN "ended" ELSE "over"]
    /\ \/ s \notin Delegated /\ entry' = Released(s, t)
       \/ (s \in Delegated \/ task[t] = "unwinding") /\ UNCHANGED entry
    /\ UNCHANGED stop

\* _await_turn's finally
OwnerReleases(t) ==
    /\ task[t] = "ended"
    /\ task' = [task EXCEPT ![t] = "over"]
    /\ entry' = Released(SessionOf[t], t)
    /\ UNCHANGED stop

\* The assistant swallows CancelledError and carries on.
Swallow(t) ==
    /\ task[t] = "unwinding"
    /\ task' = [task EXCEPT ![t] = "running"]
    /\ UNCHANGED <<entry, stop>>

\* The transport goes away, or the request that awaits the turn is cancelled:
\* it cancels the turn it owns.
OwnerLeaves(t) ==
    /\ task[t] = "running"
    /\ task' = [task EXCEPT ![t] = "unwinding"]
    /\ UNCHANGED <<entry, stop>>

-----------------------------------------------------------------------------
(* cancel_and_wait and its callers *)

\* cancel(): forget a dead entry, refuse another turn's id, or signal the turn.
StopRequest(p, s, t) ==
    /\ stop[p].at = "idle"
    /\ t # Nobody => SessionOf[t] = s
    /\ IF ~HasLiveTurn(s)
       THEN entry' = [entry EXCEPT ![s] = Nobody] /\ UNCHANGED <<task, stop>>
       ELSE /\ t \in {Nobody, entry[s]}
            /\ task' = [task EXCEPT ![entry[s]] = "unwinding"]
            /\ stop' = [stop EXCEPT ![p] = [at |-> "waiting", turn |-> entry[s]]]
            /\ UNCHANGED entry

Tell(p, what) == stop' = [stop EXCEPT ![p].at = what]

StopSettles(p) ==
    /\ stop[p].at = "waiting"
    /\ task[stop[p].turn] \notin Live
    /\ Tell(p, "settled")
    /\ UNCHANGED <<entry, task>>

StopTimesOut(p) ==
    /\ stop[p].at = "waiting"
    /\ Tell(p, "stopping")
    /\ UNCHANGED <<entry, task>>

\* "except asyncio.CancelledError: return active, True" also catches the
\* cancellation of the task that waits.
StopInterrupted(p) ==
    /\ stop[p].at = "waiting"
    /\ SessionOf[stop[p].turn] \in Interruptible
    /\ Tell(p, "settled")
    /\ UNCHANGED <<entry, task>>

\* Mutant: a stopped session is released although its turn still runs.
StopReleases(p) ==
    /\ stop[p].at \in {"settled", "stopping"}
    /\ entry' = Released(SessionOf[stop[p].turn], stop[p].turn)
    /\ stop' = [stop EXCEPT ![p] = Resting]
    /\ UNCHANGED task

\* The caller reports the answer; one that stopped a delegated turn and was
\* told that it settled releases the session.
StopReturns(p) ==
    LET t == stop[p].turn IN
    /\ stop[p].at \in {"settled", "stopping"}
    /\ entry' = IF stop[p].at = "settled" /\ SessionOf[t] \in Delegated
                THEN Released(SessionOf[t], t) ELSE entry
    /\ stop' = [stop EXCEPT ![p] = Resting]
    /\ UNCHANGED task

-----------------------------------------------------------------------------

TurnStep(t) == Start(t) \/ End(t) \/ OwnerReleases(t) \/ Swallow(t) \/ OwnerLeaves(t)

Waiting(p) == StopSettles(p) \/ StopTimesOut(p) \/ StopInterrupted(p) \/ StopReturns(p)

Next ==
    \/ \E t \in Turns : TurnStep(t)
    \/ \E p \in Stoppers :
        \/ Waiting(p)
        \/ \E s \in Sessions, t \in Turns \cup {Nobody} : StopRequest(p, s, t)

Spec == Init /\ [][Next]_vars

-----------------------------------------------------------------------------
(* Properties *)

TypeOK ==
    /\ entry \in [Sessions -> Turns \cup {Nobody}]
    /\ task \in [Turns -> {"new", "refused", "ended", "over"} \cup Live]
    /\ stop \in [Stoppers -> [at : {"idle", "waiting", "settled", "stopping"},
                              turn : Turns \cup {Nobody}]]

\* A live turn owns its session: a stop request finds it and a later start is
\* refused, whatever stops, disconnects and releases went before.
LiveTurnOwnsSession == \A t \in Turns : task[t] \in Live => entry[SessionOf[t]] = t

\* Unless it is cancelled itself, whoever is told that a turn has settled is told
\* so of a task that has ended ("rather than pretending the turn is idle",
\* chat_turn_registry.py:93).
SettledTurnHasEnded ==
    \A p \in Stoppers :
        stop[p].at = "settled" /\ SessionOf[stop[p].turn] \notin Interruptible =>
            task[stop[p].turn] \in {"ended", "over"}

\* chat_turn_registry.py:27: "Own at most one live assistant task for each chat
\* session."
OneLiveTurn ==
    \A t, u \in Turns : task[t] \in Live /\ task[u] \in Live /\ SessionOf[t] = SessionOf[u] => t = u

=============================================================================
