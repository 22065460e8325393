----------------------------- MODULE CommandOnce -----------------------------
(***************************************************************************)
(* What the action gateway promises about idempotent mutation commands     *)
(* (architecture.md, "Command integrity"), without claims, leases,         *)
(* transactions or crashes: an idempotency scope is taken by one command,  *)
(* that command's handler runs once, and whoever asks with the same key    *)
(* and the same request is told the outcome of that one execution, or is   *)
(* told nothing.                                                           *)
(***************************************************************************)

CONSTANTS
    Commands,     \* the keyed mutation commands callers may submit
    Scopes,       \* (action, source, user, session, idempotency key) tuples
    ScopeOf,      \* the scope a command claims
    Fingerprint,  \* the hash of a command's name and arguments
    Nobody        \* not a command

VARIABLES
    executor,     \* the command whose handler was started, per scope
    outcome,      \* what that handler returned, per scope
    told          \* the outcome a command was answered with

vars == <<executor, outcome, told>>

Outcomes == {"ok", "failed"}

Init ==
    /\ executor = [s \in Scopes |-> Nobody]
    /\ outcome = [s \in Scopes |-> "none"]
    /\ told = [c \in Commands |-> "none"]

\* The first command of a scope starts its handler; no other ever does.
Execute(c) ==
    /\ executor[ScopeOf[c]] = Nobody
    /\ executor' = [executor EXCEPT ![ScopeOf[c]] = c]
    /\ UNCHANGED <<outcome, told>>

\* The handler returns, once.
Return(s, r) ==
    /\ executor[s] # Nobody
    /\ outcome[s] = "none"
    /\ outcome' = [outcome EXCEPT ![s] = r]
    /\ UNCHANGED <<executor, told>>

\* A command is answered with the outcome of the scope's only execution, and
\* only when it asked for the same request.
Tell(c) ==
    /\ told[c] = "none"
    /\ outcome[ScopeOf[c]] # "none"
    /\ Fingerprint[c] = Fingerprint[executor[ScopeOf[c]]]
    /\ told' = [told EXCEPT ![c] = outcome[ScopeOf[c]]]
    /\ UNCHANGED <<executor, outcome>>

Next ==
    \/ \E c \in Commands : Execute(c) \/ Tell(c)
    \/ \E s \in Scopes, r \in Outcomes : Return(s, r)

Spec == Init /\ [][Next]_vars

=============================================================================
