---------------------------- MODULE CommandLedger ----------------------------
(***************************************************************************)
(* ActionGateway.execute and the durable claims and receipts of            *)
(* ActionEventStore (src/src/core/actions/gateway.py, audit.py).           *)
(*                                                                         *)
(* Every command runs on one asyncio loop and one aiosqlite connection     *)
(* that all repositories share, so a statement of another repository may   *)
(* fall between two statements of a ledger transaction, and its commit     *)
(* commits whatever the ledger has written so far.  A step is the code     *)
(* between two awaits; a statement takes effect when it is issued, since   *)
(* the connection executes statements in order.                            *)
(***************************************************************************)
EXTENDS Naturals

CONSTANTS
    Commands,     \* command ids, one per ActionCommand
    Scopes,       \* the five-column primary key of action_command_claims
    ScopeOf,      \* [Commands -> Scopes]: _claim_scope
    Keyed,        \* the commands that carry an idempotency key
    Fingerprint,  \* ActionRequestHasher.fingerprint, per command
    Nobody,       \* not a command
    MaxCrashes    \* bound: how often the process dies

ASSUME LedgerAssumption ==
    /\ ScopeOf \in [Commands -> Scopes]
    /\ Keyed \subseteq Commands
    /\ Nobody \notin Commands
    /\ MaxCrashes \in Nat

VARIABLES
    claim,        \* action_command_claims as this connection sees it
    claimD,       \* ... as last committed
    receipt,      \* action_command_receipts as this connection sees it
    receiptD,     \* ... as last committed
    inTxn,        \* the connection has an open transaction, whoever began it
    writer,       \* holder of ActionEventStore._claim_lock
    lapsed,       \* scopes whose claim's lease_expires_at is in the past
    pc,           \* where gateway.execute is for a command
    reply,        \* the verdict, finally the ActionResult given to the caller
    result,       \* what the handler returned
    ran,          \* commands whose handler was started
    crashes

db == <<claim, claimD, receipt, receiptD, inTxn>>
task == <<pc, reply, result, ran>>
vars == <<claim, claimD, receipt, receiptD, inTxn, writer, lapsed,
          pc, reply, result, ran, crashes>>

-----------------------------------------------------------------------------
(* Tables *)

Outcomes == {"ok", "failed"}

NoClaim == [owner |-> Nobody, state |-> "none", receipt |-> FALSE]

Claim == [owner : Commands \cup {Nobody},
          state : {"none", "running", "completed", "failed", "uncertain"},
          receipt : BOOLEAN]

\* The replayed receipt keeps the outcome the owner recorded.
Replay(r) == IF r = "ok" THEN "replay_ok" ELSE "replay_failed"

\* States of the task that runs gateway.execute.
InTransaction == {"selecting", "claimed", "finalizing", "committing"}
Live == {"claiming", "polling", "starting", "running", "receipting", "doubting"}
            \cup InTransaction
Stages == Live \cup {"idle", "done", "lost"}

Replies == {"none", "acquired", "busy", "conflict", "uncertain", "unavailable",
            "in_progress", "replay_ok", "replay_failed"} \cup Outcomes

Init ==
    /\ claim = [s \in Scopes |-> NoClaim]
    /\ claimD = claim
    /\ receipt = [c \in Commands |-> "none"]
    /\ receiptD = receipt
    /\ inTxn = FALSE
    /\ writer = Nobody
    /\ lapsed = {}
    /\ pc = [c \in Commands |-> "idle"]
    /\ reply = [c \in Commands |-> "none"]
    /\ result = [c \in Commands |-> "none"]
    /\ ran = {}
    /\ crashes = 0

Goto(c, stage) == pc' = [pc EXCEPT ![c] = stage]

Answer(c, what) ==
    /\ Goto(c, "done")
    /\ reply' = [reply EXCEPT ![c] = what]

Commit ==
    /\ claimD' = claim
    /\ receiptD' = receipt
    /\ inTxn' = FALSE
    /\ UNCHANGED <<claim, receipt>>

Rollback ==
    /\ claim' = claimD
    /\ receipt' = receiptD
    /\ inTxn' = FALSE
    /\ UNCHANGED <<claimD, receiptD>>

\* async with self._claim_lock: BEGIN IMMEDIATE
BeginLocked(c) ==
    /\ writer = Nobody
    /\ ~inTxn
    /\ writer' = c
    /\ inTxn' = TRUE

\* BEGIN IMMEDIATE raises inside another writer's open transaction; it stands
\* before the try block, so nothing is rolled back.
BeginRefused(c) ==
    /\ writer = Nobody
    /\ inTxn

-----------------------------------------------------------------------------
(* claim_command: reserve the key before anything is executed *)

Submit(c) ==
    /\ pc[c] = "idle"
    /\ Goto(c, IF c \in Keyed THEN "claiming" ELSE "starting")
    /\ UNCHANGED <<db, writer, lapsed, reply, result, ran, crashes>>

ClaimBegin(c) ==
    /\ pc[c] = "claiming"
    /\ BeginLocked(c)
    /\ Goto(c, "selecting")
    /\ UNCHANGED <<claim, claimD, receipt, receiptD, lapsed, reply, result, ran, crashes>>

ClaimRefused(c) ==
    /\ pc[c] = "claiming"
    /\ BeginRefused(c)
    /\ Answer(c, "unavailable")
    /\ UNCHANGED <<db, writer, lapsed, result, ran, crashes>>

\* No row for the scope: insert it with a fresh lease.
ClaimInsert(c, s) ==
    /\ claim[s].owner = Nobody
    /\ claim' = [claim EXCEPT ![s] =
                    [owner |-> c, state |-> "running", receipt |-> FALSE]]
    /\ lapsed' = lapsed \ {s}
    /\ reply' = [reply EXCEPT ![c] = "acquired"]

\* Mutant: an idempotency key is enough, the arguments are not compared.
VerdictByKey(c, s) ==
    LET row == claim[s] IN
    IF row.receipt /\ receipt[row.owner] # "none" THEN Replay(receipt[row.owner])
    ELSE IF row.state # "running" \/ s \in lapsed THEN "uncertain"
    ELSE "busy"

\* _outcome_for_existing_claim, in the order of its early returns.
Verdict(c, s) ==
    LET row == claim[s] IN
    IF Fingerprint[row.owner] # Fingerprint[c] THEN "conflict"
    ELSE IF row.receipt /\ receipt[row.owner] # "none" THEN Replay(receipt[row.owner])
    ELSE IF row.state # "running" \/ s \in lapsed THEN "uncertain"
    ELSE "busy"

\* Mutant: an expired lease is taken over.
ClaimTakesOver(c, s) ==
    /\ claim[s].owner # Nobody
    /\ IF s \in lapsed /\ claim[s].state = "running"
       THEN /\ claim' = [claim EXCEPT ![s].owner = c]
            /\ reply' = [reply EXCEPT ![c] = "acquired"]
            /\ lapsed' = lapsed \ {s}
       ELSE /\ reply' = [reply EXCEPT ![c] = Verdict(c, s)]
            /\ UNCHANGED <<claim, lapsed>>

ClaimExisting(c, s) ==
    /\ claim[s].owner # Nobody
    /\ reply' = [reply EXCEPT ![c] = Verdict(c, s)]
    /\ claim' = IF Verdict(c, s) = "uncertain" /\ claim[s].state = "running"
                THEN [claim EXCEPT ![s].state = "uncertain"]
                ELSE claim
    /\ UNCHANGED lapsed

ClaimDecide(c) ==
    /\ pc[c] = "selecting"
    /\ ClaimInsert(c, ScopeOf[c]) \/ ClaimExisting(c, ScopeOf[c])
    /\ inTxn' = TRUE
    /\ Goto(c, "claimed")
    /\ UNCHANGED <<claimD, receipt, receiptD, writer, result, ran, crashes>>

ClaimCommit(c) ==
    /\ pc[c] = "claimed"
    /\ Commit
    /\ writer' = Nobody
    /\ Goto(c, CASE reply[c] = "acquired" -> "starting"
                 [] reply[c] = "busy" -> "polling"
                 [] OTHER -> "done")
    /\ UNCHANGED <<lapsed, reply, result, ran, crashes>>

\* A failing statement: roll back, raise, and answer that nothing was executed.
ClaimError(c) ==
    /\ pc[c] \in {"selecting", "claimed"}
    /\ Rollback
    /\ writer' = Nobody
    /\ Answer(c, "unavailable")
    /\ UNCHANGED <<lapsed, result, ran, crashes>>

-----------------------------------------------------------------------------
(* wait_for_claim_receipt: poll for the owner's receipt *)

PollReceipt(c) ==
    LET row == claim[ScopeOf[c]] IN
    /\ pc[c] = "polling"
    /\ writer = Nobody
    /\ \/ /\ row.owner # Nobody
          /\ Fingerprint[row.owner] = Fingerprint[c]
          /\ row.receipt
          /\ receipt[row.owner] # "none"
          /\ Answer(c, Replay(receipt[row.owner]))
       \/ /\ \/ row.owner = Nobody
             \/ Fingerprint[row.owner] # Fingerprint[c]
             \/ /\ ~(row.receipt /\ receipt[row.owner] # "none")
                /\ row.state \in {"completed", "failed", "uncertain"}
          /\ Answer(c, "in_progress")
    /\ UNCHANGED <<db, writer, lapsed, result, ran, crashes>>

\* Mutant: the poll has no deadline.
PollForEver(c) == FALSE

PollTimeout(c) ==
    /\ pc[c] = "polling"
    /\ Answer(c, "in_progress")
    /\ UNCHANGED <<db, writer, lapsed, result, ran, crashes>>

-----------------------------------------------------------------------------
(* _execute_once *)

\* record_started takes the lock for an event row of its own, then the handler
\* is called.
StartHandler(c) ==
    /\ pc[c] = "starting"
    /\ writer = Nobody
    /\ ran' = ran \cup {c}
    /\ Goto(c, "running")
    /\ UNCHANGED <<db, writer, lapsed, reply, result, crashes>>

HandlerReturns(c) ==
    /\ pc[c] = "running"
    /\ \E r \in Outcomes : result' = [result EXCEPT ![c] = r]
    /\ Goto(c, "receipting")
    /\ UNCHANGED <<db, writer, lapsed, reply, ran, crashes>>

-----------------------------------------------------------------------------
(* record_receipt: the receipt and the end of its claim in one transaction *)

\* Mutant: the claim is finalised without a receipt.
ReceiptSkipped(c) ==
    /\ pc[c] = "receipting"
    /\ BeginLocked(c)
    /\ Goto(c, "finalizing")
    /\ UNCHANGED <<claim, claimD, receipt, receiptD, lapsed, reply, result, ran, crashes>>

ReceiptInsert(c) ==
    /\ pc[c] = "receipting"
    /\ BeginLocked(c)
    /\ receipt' = [receipt EXCEPT ![c] = result[c]]
    /\ Goto(c, "finalizing")
    /\ UNCHANGED <<claim, claimD, receiptD, lapsed, reply, result, ran, crashes>>

ReceiptRefused(c) ==
    /\ pc[c] = "receipting"
    /\ BeginRefused(c)
    /\ Goto(c, "doubting")
    /\ UNCHANGED <<db, writer, lapsed, reply, result, ran, crashes>>

\* UPDATE ... WHERE owner_command_id = ?, whatever the claim's state is by now.
ReceiptFinalize(c) ==
    LET s == ScopeOf[c] IN
    /\ pc[c] = "finalizing"
    /\ c \in Keyed => claim[s].owner = c
    /\ claim' = IF c \in Keyed
                THEN [claim EXCEPT ![s].receipt = TRUE,
                                   ![s].state = IF result[c] = "ok" THEN "completed" ELSE "failed"]
                ELSE claim
    /\ inTxn' = TRUE
    /\ Goto(c, "committing")
    /\ UNCHANGED <<claimD, receipt, receiptD, writer, lapsed, reply, result, ran, crashes>>

ReceiptCommit(c) ==
    /\ pc[c] = "committing"
    /\ Commit
    /\ writer' = Nobody
    /\ Answer(c, result[c])
    /\ UNCHANGED <<lapsed, result, ran, crashes>>

\* Mutant: the outcome is told although its receipt was rolled back.
ReceiptErrorIgnored(c) ==
    /\ pc[c] \in {"finalizing", "committing"}
    /\ Rollback
    /\ writer' = Nobody
    /\ Answer(c, result[c])
    /\ UNCHANGED <<lapsed, result, ran, crashes>>

\* A failing statement, or an UPDATE that found no row of this owner.
ReceiptError(c) ==
    /\ pc[c] \in {"finalizing", "committing"}
    /\ Rollback
    /\ writer' = Nobody
    /\ Goto(c, "doubting")
    /\ UNCHANGED <<lapsed, reply, result, ran, crashes>>

\* mark_claim_uncertain updates and commits under the lock, without BEGIN.
DoubtMark(c) ==
    LET s == ScopeOf[c] IN
    /\ pc[c] = "doubting"
    /\ c \in Keyed => writer = Nobody
    /\ IF c \in Keyed /\ claim[s].owner = c
       THEN claim' = [claim EXCEPT ![s].state = "uncertain"]
       ELSE claim' = claim
    /\ IF c \in Keyed
       THEN claimD' = claim' /\ receiptD' = receipt /\ inTxn' = FALSE
       ELSE UNCHANGED <<claimD, receiptD, inTxn>>
    /\ Answer(c, "uncertain")
    /\ UNCHANGED <<receipt, writer, lapsed, result, ran, crashes>>

\* Its errors are swallowed; the UPDATE may stay uncommitted on the connection.
DoubtFails(c) ==
    LET s == ScopeOf[c] IN
    /\ pc[c] = "doubting"
    /\ c \in Keyed
    /\ writer = Nobody
    /\ \/ UNCHANGED <<claim, inTxn>>
       \/ /\ claim[s].owner = c
          /\ claim' = [claim EXCEPT ![s].state = "uncertain"]
          /\ inTxn' = TRUE
    /\ Answer(c, "uncertain")
    /\ UNCHANGED <<claimD, receipt, receiptD, writer, lapsed, result, ran, crashes>>

-----------------------------------------------------------------------------
(* The world around the ledger *)

\* CancelledError is not an Exception: no handler of the gateway or the store
\* catches it, the lock is released and an open transaction stays open.
Abandon(c) ==
    /\ pc[c] \in Live
    /\ Goto(c, "lost")
    /\ writer' = IF writer = c THEN Nobody ELSE writer
    /\ UNCHANGED <<db, lapsed, reply, result, ran, crashes>>

\* Another repository writes a row on the shared connection; sqlite3 opens a
\* transaction for it unless one is open ...
ForeignWrite ==
    /\ ~inTxn
    /\ inTxn' = TRUE
    /\ UNCHANGED <<claim, claimD, receipt, receiptD, writer, lapsed, task, crashes>>

\* ... and commits the connection.
ForeignCommit ==
    /\ inTxn
    /\ Commit
    /\ UNCHANGED <<writer, lapsed, task, crashes>>

LeaseExpires(s) ==
    /\ claim[s].state = "running"
    /\ lapsed' = lapsed \cup {s}
    /\ UNCHANGED <<db, writer, task, crashes>>

\* The process dies and starts again: what was not committed is gone.
Crash ==
    /\ crashes < MaxCrashes
    /\ crashes' = crashes + 1
    /\ Rollback
    /\ writer' = Nobody
    /\ pc' = [c \in Commands |-> IF pc[c] \in Live THEN "lost" ELSE pc[c]]
    /\ UNCHANGED <<lapsed, reply, result, ran>>

-----------------------------------------------------------------------------

ClaimStep(c) ==
    ClaimBegin(c) \/ ClaimRefused(c) \/ ClaimDecide(c) \/ ClaimCommit(c) \/ ClaimError(c)

PollStep(c) == PollReceipt(c) \/ PollTimeout(c)

HandlerStep(c) == StartHandler(c) \/ HandlerReturns(c)

ReceiptStep(c) ==
    \/ ReceiptInsert(c) \/ ReceiptRefused(c) \/ ReceiptFinalize(c)
    \/ ReceiptCommit(c) \/ ReceiptError(c) \/ DoubtMark(c) \/ DoubtFails(c)

Work(c) == ClaimStep(c) \/ PollStep(c) \/ HandlerStep(c) \/ ReceiptStep(c)

Environment ==
    ForeignWrite \/ ForeignCommit \/ Crash \/ \E s \in Scopes : LeaseExpires(s)

Next ==
    \/ \E c \in Commands : Submit(c) \/ Work(c) \/ Abandon(c)
    \/ Environment

Spec == Init /\ [][Next]_vars

\* The loop runs every ready task, asyncio.Lock is handed over in FIFO order
\* (hence strong fairness for steps that wait for it), handlers return.
Fairness == \A c \in Commands : SF_vars(Work(c))

FairSpec == Spec /\ Fairness

-----------------------------------------------------------------------------
(* Properties *)

TypeOK ==
    /\ claim \in [Scopes -> Claim]
    /\ claimD \in [Scopes -> Claim]
    /\ receipt \in [Commands -> Outcomes \cup {"none"}]
    /\ receiptD \in [Commands -> Outcomes \cup {"none"}]
    /\ inTxn \in BOOLEAN
    /\ writer \in Commands \cup {Nobody}
    /\ lapsed \subseteq Scopes
    /\ pc \in [Commands -> Stages]
    /\ reply \in [Commands -> Replies]
    /\ result \in [Commands -> Outcomes \cup {"none"}]
    /\ ran \subseteq Commands
    /\ crashes \in Nat

\* At most one command of an idempotency scope ever has its handler started:
\* not a concurrent duplicate, not a retry after a crash, an expired lease, a
\* lost receipt or a cancelled task, whatever other repositories commit.
\* (claim_command: "Atomically reserve an idempotent command before any
\* mutation executes".)
AtMostOnce ==
    \A c, d \in ran \cap Keyed : ScopeOf[c] = ScopeOf[d] => c = d

\* Once a keyed command is cleared to call its handler, and for ever after the
\* call, the committed claim of its scope names it as the owner: the handler
\* never runs on a claim that a crash or another task's rollback can undo.
ClaimBeforeHandler ==
    \A c \in Keyed : pc[c] = "starting" \/ c \in ran => claimD[ScopeOf[c]].owner = c

\* A claim that is durably finalised leads to a durable receipt of its owner,
\* and a claim settled as completed or failed says what the receipt says.
FinalClaimHasReceipt ==
    \A s \in Scopes : claimD[s].receipt =>
        /\ receiptD[claimD[s].owner] # "none"
        /\ claimD[s].state = "completed" => receiptD[claimD[s].owner] = "ok"
        /\ claimD[s].state = "failed" => receiptD[claimD[s].owner] = "failed"

\* An owner that is told its mutation's outcome, rather than "uncertain", has
\* a durable receipt of that outcome (ActionResult.receipt_persisted), and a
\* command that is answered "no mutation was executed", "conflict" or "already
\* executing" did not run itself.
AnswersAreTrue ==
    \A c \in Commands : pc[c] = "done" =>
        /\ reply[c] \in Outcomes => receiptD[c] = reply[c]
        /\ reply[c] \in {"unavailable", "conflict", "in_progress"} => c \notin ran

\* A receipt that is durable is never changed or removed by any later command,
\* rollback or crash ("Receipts are append-only").
ReceiptsAppendOnly ==
    [][\A c \in Commands : receiptD[c] # "none" => receiptD'[c] = receiptD[c]]_vars

\* A command that is not cancelled and whose process survives is answered: no
\* lock, poll or open transaction keeps it waiting for ever.
CommandsAnswered ==
    \A c \in Commands : pc[c] = "claiming" ~> pc[c] \in {"done", "lost"}

-----------------------------------------------------------------------------
(* The gateway implements the abstract promise *)

Executor(s) ==
    IF \E c \in ran \cap Keyed : ScopeOf[c] = s
    THEN CHOOSE c \in ran \cap Keyed : ScopeOf[c] = s
    ELSE Nobody

OutcomeOf(s) == IF Executor(s) = Nobody THEN "none" ELSE result[Executor(s)]

Told(c) ==
    IF pc[c] # "done" THEN "none"
    ELSE CASE reply[c] \in Outcomes -> reply[c]
           [] reply[c] = "replay_ok" -> "ok"
           [] reply[c] = "replay_failed" -> "failed"
           [] OTHER -> "none"

Once == INSTANCE CommandOnce WITH
            Commands <- Keyed,
            executor <- [s \in Scopes |-> Executor(s)],
            outcome <- [s \in Scopes |-> OutcomeOf(s)],
            told <- [c \in Keyed |-> Told(c)]

\* Every behaviour of the ledger is one of the abstract promise.
ImplementsOnce == Once!Spec

=============================================================================
