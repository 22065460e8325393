---------------------------- MODULE AgentDelegation ----------------------------
(***************************************************************************)
(* Messages of an outside agent (src/src/ai/agent_delegation.py), with the *)
(* limit of messages at a time (agent_delegation_admission.py), the        *)
(* handles of its conversations (src/src/core/conversation_handle.py) and  *)
(* the requests to cancel a turn or to close a conversation                *)
(* (agent_turn_control.py).  The turns are those of ChatTurns: a delegated *)
(* turn is one message, a delegated session the conversation of a handle.  *)
(*                                                                         *)
(* All messages are those of one principal: counter and quota are kept for *)
(* each principal, and a handle of another one is refused like a revoked   *)
(* one.  The gate's lock is never held across an await.                    *)
(***************************************************************************)
EXTENDS ChatTurns

CONSTANTS
    Existing,     \* conversations that have a handle in the beginning
    MaxActive,    \* max_active_per_principal of the gate
    MaxHandles    \* max_active_per_principal of the handles

ASSUME DelegationAssumption ==
    /\ Existing \subseteq Delegated
    /\ IsFiniteSet(Existing)
    /\ MaxActive \in Nat \ {0}
    /\ MaxHandles \in Nat \ {0}
    /\ Cardinality(Existing) <= MaxHandles

VARIABLES
    active,       \* AgentDelegationAdmissionGate._active of the principal
    message,      \* where each send_message is
    handle,       \* the row of each conversation
    control,      \* where each stopper is that serves cancel_turn or
                  \* close_conversation
    late          \* history: turns that started on a handle that was being
                  \* closed, or had been

dvars == <<entry, task, stop, active, message, handle, control, late>>
turnvars == <<entry, task, stop>>

Messages == {t \in Turns : SessionOf[t] \in Delegated}

\* The finally of send_message waits for it to leave one of these.
Inside == {"admitted", "minting", "resolved", "running"}

Idle == [at |-> "none", session |-> Nobody, closing |-> FALSE]

DInit ==
    /\ Init
    /\ active = 0
    /\ message = [t \in Messages |-> "new"]
    /\ handle = [s \in Delegated |-> IF s \in Existing THEN "active" ELSE "none"]
    /\ control = [p \in Stoppers |-> Idle]
    /\ late = {}

-----------------------------------------------------------------------------
(* send_message *)

At(t, where) == message' = [message EXCEPT ![t] = where]

\* try_acquire: refused at once when the limit is reached.
Admit(t) ==
    /\ message[t] = "new"
    /\ IF active < MaxActive
       THEN active' = active + 1 /\ At(t, "admitted")
       ELSE UNCHANGED active /\ At(t, "over")
    /\ UNCHANGED <<turnvars, handle, control, late>>

\* release of the gate, in the finally
Leave(t) == active' = active - 1 /\ At(t, "over")

\* resolve: the row is read, and may be touched, before the turn starts.
Resolve(t) ==
    /\ message[t] = "admitted"
    /\ handle[SessionOf[t]] # "none"
    /\ IF handle[SessionOf[t]] = "active"
       THEN At(t, "resolved") /\ UNCHANGED active
       ELSE Leave(t)
    /\ UNCHANGED <<turnvars, handle, control, late>>

ActiveHandles == {s \in Delegated : handle[s] = "active"}

\* Mutant: the quota is not looked at.
MintUncounted(t) ==
    /\ message[t] = "admitted"
    /\ handle[SessionOf[t]] = "none"
    /\ At(t, "minting")
    /\ handle' = [handle EXCEPT ![SessionOf[t]] = "minting"]
    /\ UNCHANGED <<turnvars, active, control, late>>

\* mint: the quota is checked, and a session is made for the conversation.
Mint(t) ==
    /\ message[t] = "admitted"
    /\ handle[SessionOf[t]] = "none"
    /\ IF Cardinality(ActiveHandles) >= MaxHandles
       THEN Leave(t) /\ UNCHANGED handle
       ELSE /\ At(t, "minting")
            /\ handle' = [handle EXCEPT ![SessionOf[t]] = "minting"]
            /\ UNCHANGED active
    /\ UNCHANGED <<turnvars, control, late>>

\* The row is written, or that fails and what was made is taken back.
MintCreates(t) ==
    /\ message[t] = "minting"
    /\ \/ /\ handle' = [handle EXCEPT ![SessionOf[t]] = "active"]
          /\ At(t, "resolved")
          /\ UNCHANGED active
       \/ /\ handle' = [handle EXCEPT ![SessionOf[t]] = "revoked"]
          /\ Leave(t)
    /\ UNCHANGED <<turnvars, control, late>>

\* A close_conversation is under way that will not stop another turn.
Closing(s) == \E p \in Stoppers :
    control[p].closing /\ control[p].at \in {"waiting", "settled"} /\ control[p].session = s

\* The turn starts, whatever has become of the handle, unless the conversation
\* is busy.
SendStarts(t) ==
    LET s == SessionOf[t] IN
    /\ message[t] = "resolved"
    /\ Start(t)
    /\ IF HasLiveTurn(s)
       THEN Leave(t) /\ UNCHANGED late
       ELSE /\ At(t, "running")
            /\ late' = IF handle[s] # "active" \/ Closing(s) THEN late \cup {t} ELSE late
            /\ UNCHANGED active
    /\ UNCHANGED <<handle, control>>

\* The request is cancelled before its turn runs.  A session that was being
\* minted is left behind without a handle.
CallerLeaves(t) ==
    /\ message[t] \in {"admitted", "minting", "resolved"}
    /\ Leave(t)
    /\ handle' = IF message[t] = "minting" THEN [handle EXCEPT ![SessionOf[t]] = "orphan"] ELSE handle
    /\ UNCHANGED <<turnvars, control, late>>

\* Mutant: send_message returns at once.
CallerDetached(t) ==
    /\ message[t] = "running"
    /\ OwnerLeaves(t)
    /\ Leave(t)
    /\ UNCHANGED <<handle, control, late>>

\* _await_turn: cancelling a task that awaits another cancels that one, and the
\* first is told only when it has ended.
CallerCancelled(t) ==
    /\ message[t] = "running"
    /\ OwnerLeaves(t)
    /\ UNCHANGED <<active, message, handle, control, late>>

\* The task has ended: the turn is released, and the slot of the gate.
SendReturns(t) ==
    /\ message[t] = "running"
    /\ OwnerReleases(t)
    /\ Leave(t)
    /\ UNCHANGED <<handle, control, late>>

-----------------------------------------------------------------------------
(* cancel_turn and close_conversation *)

\* Both resolve the handle first.
ControlResolves(p, s, closing) ==
    /\ control[p] = Idle
    /\ stop[p].at = "idle"
    /\ handle[s] = "active"
    /\ control' = [control EXCEPT ![p] = [at |-> "resolved", session |-> s, closing |-> closing]]
    /\ UNCHANGED <<turnvars, active, message, handle, late>>

\* cancel_and_wait, of any turn when the conversation is closed
ControlStops(p, t) ==
    LET s == control[p].session
        closing == control[p].closing IN
    /\ control[p].at = "resolved"
    /\ closing => t = Nobody
    /\ StopRequest(p, s, t)
    /\ control' = [control EXCEPT ![p] =
          IF HasLiveTurn(s) THEN [@ EXCEPT !.at = "waiting"]
          ELSE IF closing THEN [@ EXCEPT !.at = "settled"] ELSE Idle]
    /\ UNCHANGED <<active, message, handle, late>>

\* Another turn than the live one was meant: there is nothing to cancel.
ControlMisses(p, t) ==
    LET s == control[p].session IN
    /\ control[p].at = "resolved"
    /\ ~control[p].closing
    /\ SessionOf[t] = s
    /\ HasLiveTurn(s) /\ entry[s] # t
    /\ control' = [control EXCEPT ![p] = Idle]
    /\ UNCHANGED <<turnvars, active, message, handle, late>>

\* Mutant: a conversation is closed although its turn is still stopping.
ControlPresumes(p) ==
    /\ control[p].at = "waiting"
    /\ StopReturns(p)
    /\ control' = [control EXCEPT ![p] = IF control[p].closing THEN [@ EXCEPT !.at = "settled"] ELSE Idle]
    /\ UNCHANGED <<active, message, handle, late>>

\* A turn that is still stopping is told so, and nothing is closed.
ControlReturns(p) ==
    /\ control[p].at = "waiting"
    /\ StopReturns(p)
    /\ control' = [control EXCEPT ![p] =
          IF control[p].closing /\ stop[p].at = "settled" THEN [@ EXCEPT !.at = "settled"] ELSE Idle]
    /\ UNCHANGED <<active, message, handle, late>>

\* revoke: resolves once more, and deletes the session with the handle.
CloseRevokes(p) ==
    LET s == control[p].session IN
    /\ control[p].at = "settled"
    /\ handle' = IF handle[s] = "active" THEN [handle EXCEPT ![s] = "revoked"] ELSE handle
    /\ control' = [control EXCEPT ![p] = Idle]
    /\ UNCHANGED <<turnvars, active, message, late>>

\* A handle that has not been used for a month is revoked by whoever comes
\* across it.  A message or a request that is under way has just touched it.
Expires(s) ==
    /\ handle[s] = "active"
    /\ \A t \in Messages : SessionOf[t] = s => message[t] \notin {"resolved", "running"}
    /\ \A p \in Stoppers : control[p].session # s
    /\ handle' = [handle EXCEPT ![s] = "revoked"]
    /\ UNCHANGED <<turnvars, active, message, control, late>>

-----------------------------------------------------------------------------

Send(t) ==
    \/ Admit(t) \/ Resolve(t) \/ Mint(t) \/ MintCreates(t) \/ SendStarts(t)
    \/ CallerLeaves(t) \/ CallerCancelled(t) \/ SendReturns(t)

\* What the registry does of itself, and the turns of the web sessions.
Registry ==
    \/ \E t \in Turns : End(t) \/ Swallow(t)
    \/ \E t \in Turns \ Messages : Start(t) \/ OwnerLeaves(t)
    \/ \E p \in Stoppers : StopSettles(p) \/ StopTimesOut(p) \/ StopInterrupted(p)
    \/ \E p \in Stoppers :
        /\ control[p] = Idle
        /\ \/ StopReturns(p)
           \/ \E s \in Sessions \ Delegated, t \in Turns \cup {Nobody} : StopRequest(p, s, t)

DNext ==
    \/ \E t \in Messages : Send(t)
    \/ \E p \in Stoppers :
        \/ \E s \in Delegated, closing \in BOOLEAN : ControlResolves(p, s, closing)
        \/ \E t \in Turns \cup {Nobody} : ControlStops(p, t)
        \/ \E t \in Turns : ControlMisses(p, t)
        \/ ControlReturns(p) \/ CloseRevokes(p)
    \/ \E s \in Delegated : Expires(s)
    \/ Registry /\ UNCHANGED <<active, message, handle, control, late>>

DSpec == DInit /\ [][DNext]_dvars

-----------------------------------------------------------------------------
(* Properties *)

DTypeOK ==
    /\ TypeOK
    /\ active \in Nat
    /\ message \in [Messages -> {"new", "over"} \cup Inside]
    /\ handle \in [Delegated -> {"none", "minting", "active", "revoked", "orphan"}]
    /\ control \in [Stoppers -> [at : {"none", "resolved", "waiting", "settled"},
                                 session : Delegated \cup {Nobody}, closing : BOOLEAN]]
    /\ late \subseteq Messages

\* The gate bounds what really runs: a delegated turn that has not ended holds a
\* slot, also while it unwinds after its caller has gone, and slots are given back.
RunningTurnsAreAdmitted ==
    /\ active = Cardinality({t \in Messages : message[t] \in Inside})
    /\ active <= MaxActive
    /\ \A t \in Messages : task[t] \in Live \cup {"ended"} => message[t] = "running"

\* Messages that mint at the same time count the handles before any of them has
\* written its own; the gate bounds by how many the quota is exceeded.
HandlesWithinQuota == Cardinality(ActiveHandles) <= MaxHandles + MaxActive - 1

\* agent_turn_control.py:57: a handle is revoked "only after settlement".  A turn
\* that runs on a closed handle has started after the turn that was stopped had
\* ended: its message had resolved the handle before.
ClosedAfterSettlement ==
    \A t \in Messages :
        task[t] \in Live /\ handle[SessionOf[t]] = "revoked" => t \in late

=============================================================================
