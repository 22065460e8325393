------------------------- MODULE CommandLedgerProofs -------------------------
(***************************************************************************)
(* Proofs about CommandLedger, for any set of commands, any idempotency    *)
(* scopes and any number of crashes.                                       *)
(***************************************************************************)
EXTENDS CommandLedger, TLAPS

USE DEF LedgerAssumption, Outcomes, InTransaction, Live, Stages, Replies

(* Type correctness: every action keeps every variable in its type.         *)
LEMMA TypeInit == Init => TypeOK
<1> SUFFICES ASSUME Init PROVE TypeOK
  OBVIOUS
<1>1. NoClaim \in Claim
  BY DEF NoClaim, Claim
<1>2. claim \in [Scopes -> Claim] /\ claimD \in [Scopes -> Claim]
  BY <1>1 DEF Init
<1>3. pc \in [Commands -> Stages] /\ reply \in [Commands -> Replies]
  BY DEF Init
<1> QED
  BY <1>2, <1>3, LedgerAssumption DEF Init, TypeOK

(* Changing a claim's state, or settling it, leaves a claims table.          *)
LEMMA ClaimUpdates ==
  ASSUME NEW table \in [Scopes -> Claim], NEW s \in Scopes,
         NEW st \in {"none", "running", "completed", "failed", "uncertain"}
  PROVE  /\ [table EXCEPT ![s].state = st] \in [Scopes -> Claim]
         /\ [table EXCEPT ![s].receipt = TRUE, ![s].state = st] \in [Scopes -> Claim]
<1>1. [table[s] EXCEPT !.state = st] \in Claim
  BY DEF Claim
<1>2. [[table[s] EXCEPT !.receipt = TRUE] EXCEPT !.state = st] \in Claim
  BY DEF Claim
<1> QED
  BY <1>1, <1>2

(* No command, rollback, foreign commit or crash leaves the types.          *)
LEMMA TypeStep == TypeOK /\ [Next]_vars => TypeOK'
<1> SUFFICES ASSUME TypeOK, [Next]_vars PROVE TypeOK'
  OBVIOUS
<1> USE LedgerAssumption DEF TypeOK, Goto, Answer
<1>1. ASSUME NEW c \in Commands, Submit(c) PROVE TypeOK'
  BY <1>1 DEF Submit, db
<1>2. ASSUME NEW c \in Commands, ClaimStep(c) PROVE TypeOK'
  <2>1. CASE ClaimBegin(c)
    BY <2>1 DEF ClaimBegin, BeginLocked
  <2>2. CASE ClaimRefused(c)
    BY <2>2 DEF ClaimRefused, db
  <2>3. CASE ClaimDecide(c)
    <3>1. CASE ClaimInsert(c, ScopeOf[c])
      BY <2>3, <3>1 DEF ClaimDecide, ClaimInsert, Claim
    <3>2. CASE ClaimExisting(c, ScopeOf[c])
      <4>1. Verdict(c, ScopeOf[c]) \in Replies
        BY DEF Verdict, Replay
      <4>2. claim' \in [Scopes -> Claim]
        BY <3>2, ClaimUpdates DEF ClaimExisting
      <4> QED
        BY <2>3, <3>2, <4>1, <4>2 DEF ClaimDecide, ClaimExisting
    <3> QED
      BY <2>3, <3>1, <3>2 DEF ClaimDecide
  <2>4. CASE ClaimCommit(c)
    BY <2>4 DEF ClaimCommit, Commit
  <2>5. CASE ClaimError(c)
    BY <2>5 DEF ClaimError, Rollback
  <2> QED
    BY <1>2, <2>1, <2>2, <2>3, <2>4, <2>5 DEF ClaimStep
<1>3. ASSUME NEW c \in Commands, PollStep(c) PROVE TypeOK'
  <2>1. CASE PollReceipt(c)
    BY <2>1 DEF PollReceipt, Replay, db
  <2>2. CASE PollTimeout(c)
    BY <2>2 DEF PollTimeout, db
  <2> QED
    BY <1>3, <2>1, <2>2 DEF PollStep
<1>4. ASSUME NEW c \in Commands, HandlerStep(c) PROVE TypeOK'
  <2>1. CASE StartHandler(c)
    BY <2>1 DEF StartHandler, db
  <2>2. CASE HandlerReturns(c)
    BY <2>2 DEF HandlerReturns, db
  <2> QED
    BY <1>4, <2>1, <2>2 DEF HandlerStep
<1>5. ASSUME NEW c \in Commands, ReceiptStep(c) PROVE TypeOK'
  <2>1. CASE ReceiptInsert(c)
    <3>1. pc[c] = "receipting"
      BY <2>1 DEF ReceiptInsert
    <3> QED
      BY <2>1 DEF ReceiptInsert, BeginLocked
  <2>2. CASE ReceiptRefused(c)
    BY <2>2 DEF ReceiptRefused, db
  <2>3. CASE ReceiptFinalize(c)
    <3>1. claim' \in [Scopes -> Claim]
      <4>1. ASSUME NEW st \in {"completed", "failed"}
            PROVE  [claim EXCEPT ![ScopeOf[c]].receipt = TRUE, ![ScopeOf[c]].state = st]
                       \in [Scopes -> Claim]
        BY ClaimUpdates
      <4> QED
        BY <2>3, <4>1 DEF ReceiptFinalize
    <3> QED
      BY <2>3, <3>1 DEF ReceiptFinalize
  <2>4. CASE ReceiptCommit(c)
    BY <2>4 DEF ReceiptCommit, Commit
  <2>5. CASE ReceiptError(c)
    BY <2>5 DEF ReceiptError, Rollback
  <2>6. CASE DoubtMark(c)
    <3>1. claim' \in [Scopes -> Claim]
      <4>1. [claim EXCEPT ![ScopeOf[c]].state = "uncertain"] \in [Scopes -> Claim]
        BY ClaimUpdates
      <4> QED
        BY <2>6, <4>1 DEF DoubtMark
    <3> QED
      BY <2>6, <3>1 DEF DoubtMark
  <2>7. CASE DoubtFails(c)
    <3>1. claim' \in [Scopes -> Claim]
      <4>1. [claim EXCEPT ![ScopeOf[c]].state = "uncertain"] \in [Scopes -> Claim]
        BY ClaimUpdates
      <4> QED
        BY <2>7, <4>1 DEF DoubtFails
    <3> QED
      BY <2>7, <3>1 DEF DoubtFails
  <2> QED
    BY <1>5, <2>1, <2>2, <2>3, <2>4, <2>5, <2>6, <2>7 DEF ReceiptStep
<1>6. ASSUME NEW c \in Commands, Abandon(c) PROVE TypeOK'
  BY <1>6 DEF Abandon, db
<1>7. CASE Environment
  <2>1. CASE ForeignWrite \/ ForeignCommit
    BY <2>1 DEF ForeignWrite, ForeignCommit, Commit, task
  <2>2. ASSUME NEW s \in Scopes, LeaseExpires(s) PROVE TypeOK'
    BY <2>2 DEF LeaseExpires, db, task
  <2>3. CASE Crash
    <3>1. pc' \in [Commands -> Stages]
      BY <2>3 DEF Crash
    <3>2. crashes' \in Nat /\ writer' = Nobody /\ inTxn' = FALSE
      BY <2>3 DEF Crash, Rollback
    <3>3. /\ claim' = claimD /\ receipt' = receiptD
          /\ UNCHANGED <<claimD, receiptD, lapsed, reply, result, ran>>
      BY <2>3 DEF Crash, Rollback
    <3> QED
      BY <3>1, <3>2, <3>3
  <2> QED
    BY <1>7, <2>1, <2>2, <2>3 DEF Environment
<1>8. CASE UNCHANGED vars
  BY <1>8 DEF vars
<1> QED
  BY <1>1, <1>2, <1>3, <1>4, <1>5, <1>6, <1>7, <1>8 DEF Next, Work

(* The ledger's variables keep their types in every behaviour.              *)
THEOREM TypeCorrect == Spec => []TypeOK
  BY TypeInit, TypeStep, PTL DEF Spec

-----------------------------------------------------------------------------
(***************************************************************************)
(* One execution per scope.  ClaimBeforeHandler is not inductive: that the  *)
(* committed claim survives needs that what a transaction shows extends     *)
(* what is committed (Extends), and that the claim an acquirer inserted is  *)
(* still there when it commits (Reserved) needs that nobody else is inside  *)
(* a ledger transaction (Mutex).                                            *)
(***************************************************************************)
Extends ==
    \A s \in Scopes : claimD[s].owner # Nobody => claim[s].owner = claimD[s].owner

Mutex == \A c \in Commands : pc[c] \in InTransaction => writer = c

Reserved ==
    \A c \in Keyed :
        pc[c] = "claimed" /\ reply[c] = "acquired" => claim[ScopeOf[c]].owner = c

ClaimInv == TypeOK /\ Extends /\ Mutex /\ Reserved /\ ClaimBeforeHandler

(* Initially nobody claims, nothing is stored and the lock is free.         *)
LEMMA ClaimInvInit == Init => ClaimInv
<1> SUFFICES ASSUME Init PROVE ClaimInv
  OBVIOUS
<1>1. TypeOK
  BY TypeInit
<1>2. Extends
  BY DEF Init, Extends, NoClaim
<1> QED
  BY <1>1, <1>2, LedgerAssumption DEF Init, ClaimInv, Mutex, Reserved, ClaimBeforeHandler

(* Whoever holds a ledger transaction holds the lock alone, whatever step is *)
(* taken.                                                                    *)
LEMMA MutexStep == TypeOK /\ Mutex /\ [Next]_vars => Mutex'
<1> SUFFICES ASSUME TypeOK, Mutex, [Next]_vars PROVE Mutex'
  OBVIOUS
<1> USE LedgerAssumption DEF TypeOK, Mutex, Goto, Answer
<1>1. ASSUME NEW c \in Commands, Submit(c) \/ Abandon(c) PROVE Mutex'
  BY <1>1 DEF Submit, Abandon, db
<1>2. ASSUME NEW c \in Commands, ClaimStep(c) PROVE Mutex'
  BY <1>2 DEF ClaimStep, ClaimBegin, ClaimRefused, ClaimDecide, ClaimCommit, ClaimError,
              BeginLocked, BeginRefused
<1>3. ASSUME NEW c \in Commands, PollStep(c) \/ HandlerStep(c) PROVE Mutex'
  BY <1>3 DEF PollStep, PollReceipt, PollTimeout, HandlerStep, StartHandler, HandlerReturns
<1>4. ASSUME NEW c \in Commands, ReceiptStep(c) PROVE Mutex'
  BY <1>4 DEF ReceiptStep, ReceiptInsert, ReceiptRefused, ReceiptFinalize, ReceiptCommit,
              ReceiptError, DoubtMark, DoubtFails, BeginLocked, BeginRefused
<1>5. CASE Environment
  BY <1>5 DEF Environment, ForeignWrite, ForeignCommit, LeaseExpires, Crash, task
<1>6. CASE UNCHANGED vars
  BY <1>6 DEF vars
<1> QED
  BY <1>1, <1>2, <1>3, <1>4, <1>5, <1>6 DEF Next, Work

(* How a step may change the two claims tables, for the owner columns.       *)
SameOwners == \A s \in Scopes : claim'[s].owner = claim[s].owner
SameOwnersD == \A s \in Scopes : claimD'[s].owner = claimD[s].owner
Inserted(c) ==
    /\ pc[c] = "selecting"
    /\ claim[ScopeOf[c]].owner = Nobody
    /\ claim'[ScopeOf[c]].owner = c
    /\ \A s \in Scopes \ {ScopeOf[c]} : claim'[s].owner = claim[s].owner

(* A step gives the claim of one scope an owner, in the transaction of the  *)
(* command that inserts it, or a rollback takes the last inserts back; no   *)
(* other step changes who owns a claim.                                     *)
LEMMA OwnerChanges ==
  ASSUME TypeOK, [Next]_vars
  PROVE  /\ SameOwners \/ claim' = claimD \/ \E c \in Commands : Inserted(c)
         /\ SameOwnersD \/ (SameOwners /\ claimD' = claim')
<1> USE LedgerAssumption DEF TypeOK, SameOwners, SameOwnersD
<1> DEFINE Goal == /\ SameOwners \/ claim' = claimD \/ \E c \in Commands : Inserted(c)
                   /\ SameOwnersD \/ (SameOwners /\ claimD' = claim')
<1>1. ASSUME NEW c \in Commands,
             Submit(c) \/ Abandon(c) \/ PollStep(c) \/ HandlerStep(c)
      PROVE  Goal
  BY <1>1 DEF Submit, Abandon, PollStep, PollReceipt, PollTimeout, HandlerStep,
              StartHandler, HandlerReturns, db
<1>2. ASSUME NEW c \in Commands, ClaimStep(c) PROVE Goal
  <2>1. CASE ClaimDecide(c)
    <3>1. CASE ClaimInsert(c, ScopeOf[c])
      BY <2>1, <3>1 DEF ClaimDecide, ClaimInsert, Inserted
    <3>2. CASE ClaimExisting(c, ScopeOf[c])
      <4>1. SameOwners
        BY <3>2 DEF ClaimExisting, Claim
      <4> QED
        BY <2>1, <4>1 DEF ClaimDecide
    <3> QED
      BY <2>1, <3>1, <3>2 DEF ClaimDecide
  <2>2. CASE ClaimBegin(c) \/ ClaimRefused(c) \/ ClaimCommit(c) \/ ClaimError(c)
    BY <2>2 DEF ClaimBegin, ClaimRefused, ClaimCommit, ClaimError, Commit, Rollback, db
  <2> QED
    BY <1>2, <2>1, <2>2 DEF ClaimStep
<1>3. ASSUME NEW c \in Commands, ReceiptStep(c) PROVE Goal
  <2>1. CASE ReceiptInsert(c) \/ ReceiptRefused(c) \/ ReceiptCommit(c) \/ ReceiptError(c)
    BY <2>1 DEF ReceiptInsert, ReceiptRefused, ReceiptCommit, ReceiptError, Commit,
                Rollback, db
  <2>2. CASE ReceiptFinalize(c)
    <3>1. SameOwners
      BY <2>2 DEF ReceiptFinalize, Claim
    <3> QED
      BY <2>2, <3>1 DEF ReceiptFinalize
  <2>3. CASE DoubtMark(c)
    <3>1. SameOwners
      BY <2>3 DEF DoubtMark, Claim
    <3> QED
      BY <2>3, <3>1 DEF DoubtMark
  <2>4. CASE DoubtFails(c)
    <3>1. SameOwners
      BY <2>4 DEF DoubtFails, Claim
    <3> QED
      BY <2>4, <3>1 DEF DoubtFails
  <2> QED
    BY <1>3, <2>1, <2>2, <2>3, <2>4 DEF ReceiptStep
<1>4. CASE Environment
  BY <1>4 DEF Environment, ForeignWrite, ForeignCommit, LeaseExpires, Crash, Commit,
              Rollback, db
<1>5. CASE UNCHANGED vars
  BY <1>5 DEF vars
<1> QED
  BY <1>1, <1>2, <1>3, <1>4, <1>5 DEF Next, Work

(* What is committed stays in the tables as the shared connection sees them:*)
(* an owner that was committed is never replaced.                           *)
LEMMA ExtendsStep == TypeOK /\ Extends /\ [Next]_vars => Extends'
<1> SUFFICES ASSUME TypeOK, Extends, [Next]_vars PROVE Extends'
  OBVIOUS
<1>1. CASE claimD' = claim'
  BY <1>1 DEF Extends
<1>2. CASE SameOwnersD /\ SameOwners
  BY <1>2 DEF Extends, SameOwnersD, SameOwners
<1>3. CASE SameOwnersD /\ claim' = claimD
  BY <1>3 DEF Extends, SameOwnersD
<1>4. ASSUME SameOwnersD, NEW c \in Commands, Inserted(c) PROVE Extends'
  BY <1>4, LedgerAssumption DEF Extends, SameOwnersD, Inserted
<1> QED
  BY <1>1, <1>2, <1>3, <1>4, OwnerChanges

(* Only its own steps bring a keyed command to "claimed" and "starting", and *)
(* only from the step before.                                                *)
LEMMA StageChanges ==
  ASSUME TypeOK, [Next]_vars, NEW c \in Keyed
  PROVE  /\ pc'[c] = "claimed" /\ reply'[c] = "acquired" =>
                \/ pc[c] = "claimed" /\ reply[c] = "acquired"
                \/ pc[c] = "selecting" /\ claim'[ScopeOf[c]].owner = c
         /\ pc'[c] = "starting" =>
                \/ pc[c] = "starting"
                \/ /\ pc[c] = "claimed" /\ reply[c] = "acquired"
                   /\ claimD' = claim
         /\ c \in ran' => c \in ran \/ pc[c] = "starting"
<1> USE LedgerAssumption DEF TypeOK, Goto, Answer
<1> DEFINE Goal == /\ pc'[c] = "claimed" /\ reply'[c] = "acquired" =>
                         \/ pc[c] = "claimed" /\ reply[c] = "acquired"
                         \/ pc[c] = "selecting" /\ claim'[ScopeOf[c]].owner = c
                   /\ pc'[c] = "starting" =>
                         \/ pc[c] = "starting"
                         \/ /\ pc[c] = "claimed" /\ reply[c] = "acquired"
                            /\ claimD' = claim
                   /\ c \in ran' => c \in ran \/ pc[c] = "starting"
<1>1. ASSUME NEW d \in Commands, Submit(d) \/ Abandon(d) \/ PollStep(d) \/ HandlerStep(d)
      PROVE  Goal
  BY <1>1 DEF Submit, Abandon, PollStep, PollReceipt, PollTimeout, HandlerStep,
              StartHandler, HandlerReturns
<1>2. ASSUME NEW d \in Commands, ClaimStep(d) PROVE Goal
  <2>1. CASE ClaimDecide(d)
    <3>1. CASE ClaimInsert(d, ScopeOf[d])
      BY <2>1, <3>1 DEF ClaimDecide, ClaimInsert
    <3>2. CASE ClaimExisting(d, ScopeOf[d])
      <4>1. Verdict(d, ScopeOf[d]) # "acquired"
        BY DEF Verdict, Replay
      <4> QED
        BY <2>1, <3>2, <4>1 DEF ClaimDecide, ClaimExisting
    <3> QED
      BY <2>1, <3>1, <3>2 DEF ClaimDecide
  <2>2. CASE ClaimCommit(d)
    BY <2>2 DEF ClaimCommit, Commit
  <2>3. CASE ClaimBegin(d) \/ ClaimRefused(d) \/ ClaimError(d)
    BY <2>3 DEF ClaimBegin, ClaimRefused, ClaimError
  <2> QED
    BY <1>2, <2>1, <2>2, <2>3 DEF ClaimStep
<1>3. ASSUME NEW d \in Commands, ReceiptStep(d) PROVE Goal
  BY <1>3 DEF ReceiptStep, ReceiptInsert, ReceiptRefused, ReceiptFinalize, ReceiptCommit,
              ReceiptError, DoubtMark, DoubtFails
<1>4. CASE Environment
  BY <1>4 DEF Environment, ForeignWrite, ForeignCommit, LeaseExpires, Crash, task
<1>5. CASE UNCHANGED vars
  BY <1>5 DEF vars
<1> QED
  BY <1>1, <1>2, <1>3, <1>4, <1>5 DEF Next, Work

(* A rollback happens in its caller's transaction, at a crash, or nowhere:    *)
(* the claim of a command inside its own transaction keeps its owner.        *)
LEMMA ReservedStep == TypeOK /\ Mutex /\ Reserved /\ [Next]_vars => Reserved'
<1> SUFFICES ASSUME TypeOK, Mutex, Reserved, [Next]_vars,
                    NEW c \in Keyed, pc'[c] = "claimed", reply'[c] = "acquired"
             PROVE  claim'[ScopeOf[c]].owner = c
  BY DEF Reserved
<1> USE LedgerAssumption DEF TypeOK, Goto, Answer
<1>1. CASE pc[c] = "selecting" /\ claim'[ScopeOf[c]].owner = c
  BY <1>1
<1>2. CASE pc[c] = "claimed" /\ reply[c] = "acquired"
  <2>1. writer = c /\ claim[ScopeOf[c]].owner = c
    BY <1>2 DEF Mutex, Reserved
  <2>2. CASE SameOwners
    BY <2>1, <2>2 DEF SameOwners
  <2>3. ASSUME NEW d \in Commands, Inserted(d) PROVE claim'[ScopeOf[c]].owner = c
    BY <1>2, <2>1, <2>3 DEF Inserted, Mutex
  <2>4. CASE claim' = claimD /\ ~SameOwners
    <3>1. ASSUME NEW d \in Commands, ClaimError(d) \/ ReceiptError(d) PROVE FALSE
      BY <1>2, <2>1, <3>1 DEF ClaimError, ReceiptError, Mutex
    <3>2. ~Crash
      BY DEF Crash
    <3>3. ASSUME NEW d \in Commands, ClaimDecide(d) PROVE FALSE
      BY <1>2, <2>1, <3>3 DEF ClaimDecide, Mutex
    <3>4. ASSUME NEW d \in Commands, ReceiptFinalize(d) PROVE FALSE
      BY <1>2, <2>1, <3>4 DEF ReceiptFinalize, Mutex
    <3>5. ASSUME NEW d \in Commands, DoubtMark(d) \/ DoubtFails(d) PROVE FALSE
      BY <1>2, <2>4, <2>1, <3>5 DEF DoubtMark, DoubtFails, SameOwners, Claim
    <3> QED
      BY <2>1, <2>4, <3>1, <3>2, <3>3, <3>4, <3>5
         DEF Next, Work, Submit, Abandon, ClaimStep, ClaimBegin, ClaimRefused, ClaimCommit,
             PollStep, PollReceipt, PollTimeout, HandlerStep, StartHandler, HandlerReturns,
             ReceiptStep, ReceiptInsert, ReceiptRefused, ReceiptCommit, Environment,
             ForeignWrite, ForeignCommit, LeaseExpires, Commit, SameOwners, db, vars
  <2> QED
    BY <2>2, <2>3, <2>4, OwnerChanges
<1> QED
  BY <1>1, <1>2, StageChanges

(* A command only reaches its handler from the committed claim it inserted, *)
(* and no later step takes that claim away.                                 *)
LEMMA ClaimBeforeHandlerStep ==
  ClaimInv /\ [Next]_vars => ClaimBeforeHandler'
<1> SUFFICES ASSUME ClaimInv, [Next]_vars,
                    NEW c \in Keyed, pc'[c] = "starting" \/ c \in ran'
             PROVE  claimD'[ScopeOf[c]].owner = c
  BY DEF ClaimBeforeHandler
<1> USE LedgerAssumption DEF ClaimInv
<1>1. ScopeOf[c] \in Scopes /\ c # Nobody
  OBVIOUS
<1>2. CASE pc[c] = "claimed" /\ reply[c] = "acquired" /\ claimD' = claim
  BY <1>2 DEF Reserved
<1>3. CASE pc[c] = "starting" \/ c \in ran
  <2>1. claimD[ScopeOf[c]].owner = c /\ claim[ScopeOf[c]].owner = c
    BY <1>1, <1>3 DEF ClaimBeforeHandler, Extends
  <2> QED
    BY <1>1, <2>1, OwnerChanges DEF SameOwners, SameOwnersD
<1> QED
  BY <1>2, <1>3, StageChanges

(* The four parts together are inductive.                                   *)
LEMMA ClaimInvStep == ClaimInv /\ [Next]_vars => ClaimInv'
  BY TypeStep, MutexStep, ExtendsStep, ReservedStep, ClaimBeforeHandlerStep DEF ClaimInv

(* A handler only runs on a committed claim of its own, in every behaviour.  *)
THEOREM HandlerHoldsClaim == Spec => []ClaimBeforeHandler
<1>1. ClaimInv => ClaimBeforeHandler
  BY DEF ClaimInv
<1> QED
  BY <1>1, ClaimInvInit, ClaimInvStep, PTL DEF Spec

(* At most one command of an idempotency scope is ever executed, for any     *)
(* number of commands, scopes, crashes and foreign commits.                  *)
THEOREM ExecutedAtMostOnce == Spec => []AtMostOnce
<1>1. ClaimInv => AtMostOnce
  BY DEF ClaimInv, ClaimBeforeHandler, AtMostOnce
<1> QED
  BY <1>1, ClaimInvInit, ClaimInvStep, PTL DEF Spec

-----------------------------------------------------------------------------
(***************************************************************************)
(* Receipts are append-only.  A commit publishes whatever receipts the      *)
(* connection shows, so the shown table must extend the committed one, and  *)
(* a command that is about to insert must not have a receipt yet.           *)
(***************************************************************************)
ReceiptExtends == \A c \in Commands : receiptD[c] # "none" => receipt[c] = receiptD[c]

Unreceipted ==
    \A c \in Commands :
        pc[c] \in {"idle", "claiming", "selecting", "claimed", "polling", "starting",
                  "running", "receipting"} => receipt[c] = "none"

ReceiptInv == TypeOK /\ ReceiptExtends /\ Unreceipted

(* Initially there is no receipt, committed or not.                         *)
LEMMA ReceiptInvInit == Init => ReceiptInv
<1> SUFFICES ASSUME Init PROVE ReceiptInv
  OBVIOUS
<1>1. TypeOK
  BY TypeInit
<1> QED
  BY <1>1 DEF Init, ReceiptInv, ReceiptExtends, Unreceipted

(* How a step may change the two receipts tables: one insert, a rollback, or *)
(* a commit.                                                                 *)
LEMMA ReceiptChanges ==
  ASSUME [Next]_vars
  PROVE  \/ UNCHANGED <<receipt, receiptD>>
         \/ receipt' = receiptD /\ receiptD' = receiptD
         \/ receipt' = receipt /\ receiptD' = receipt
         \/ \E c \in Commands : ReceiptInsert(c)
<1>1. ASSUME NEW c \in Commands, ClaimStep(c)
      PROVE  UNCHANGED <<receipt, receiptD>> \/ (receipt' = receiptD /\ receiptD' = receiptD)
                 \/ (receipt' = receipt /\ receiptD' = receipt)
  BY <1>1 DEF ClaimStep, ClaimBegin, ClaimRefused, ClaimDecide, ClaimCommit, ClaimError,
              Commit, Rollback, db
<1>2. ASSUME NEW c \in Commands,
             Submit(c) \/ Abandon(c) \/ PollStep(c) \/ HandlerStep(c)
      PROVE  UNCHANGED <<receipt, receiptD>>
  BY <1>2 DEF Submit, Abandon, PollStep, PollReceipt, PollTimeout, HandlerStep,
              StartHandler, HandlerReturns, db
<1>3. ASSUME NEW c \in Commands, ReceiptStep(c), ~ReceiptInsert(c)
      PROVE  UNCHANGED <<receipt, receiptD>> \/ (receipt' = receiptD /\ receiptD' = receiptD)
                 \/ (receipt' = receipt /\ receiptD' = receipt)
  BY <1>3 DEF ReceiptStep, ReceiptRefused, ReceiptFinalize, ReceiptCommit, ReceiptError,
              DoubtMark, DoubtFails, Commit, Rollback, db
<1>4. ASSUME Environment
      PROVE  UNCHANGED <<receipt, receiptD>> \/ (receipt' = receiptD /\ receiptD' = receiptD)
                 \/ (receipt' = receipt /\ receiptD' = receipt)
  BY <1>4 DEF Environment, ForeignWrite, ForeignCommit, LeaseExpires, Crash, Commit,
              Rollback, db
<1>5. CASE UNCHANGED vars
  BY <1>5 DEF vars
<1> QED
  BY <1>1, <1>2, <1>3, <1>4, <1>5 DEF Next, Work

(* An inserting command has no committed receipt, and afterwards it is past  *)
(* the stages in which it must not have one.                                 *)
LEMMA InsertStep ==
  ASSUME ReceiptInv, NEW c \in Commands, ReceiptInsert(c)
  PROVE  ReceiptExtends' /\ Unreceipted' /\ receiptD' = receiptD
<1>1. receiptD[c] = "none" /\ receiptD' = receiptD
  BY DEF ReceiptInsert, ReceiptInv, ReceiptExtends, Unreceipted, TypeOK
<1>2. \A d \in Commands \ {c} : receipt'[d] = receipt[d] /\ pc'[d] = pc[d]
  BY DEF ReceiptInsert, ReceiptInv, TypeOK, Goto
<1>3. pc'[c] = "finalizing"
  BY DEF ReceiptInsert, ReceiptInv, TypeOK, Goto
<1> QED
  BY <1>1, <1>2, <1>3 DEF ReceiptInv, ReceiptExtends, Unreceipted

(* No step but an insertion brings a command back before its receipt.        *)
LEMMA EarlyStages ==
  ASSUME TypeOK, [Next]_vars, NEW c \in Commands,
         pc'[c] \in {"idle", "claiming", "selecting", "claimed", "polling", "starting",
                    "running", "receipting"}
  PROVE  pc[c] \in {"idle", "claiming", "selecting", "claimed", "polling", "starting",
                   "running", "receipting"}
<1> USE DEF TypeOK, Goto, Answer
<1>1. ASSUME NEW d \in Commands, Submit(d) \/ Abandon(d) \/ PollStep(d) \/ HandlerStep(d),
             pc[c] # pc'[c]
      PROVE  c = d /\ pc[c] \in {"idle", "polling", "starting", "running"}
  BY <1>1 DEF Submit, Abandon, PollStep, PollReceipt, PollTimeout, HandlerStep,
              StartHandler, HandlerReturns
<1>2. ASSUME NEW d \in Commands, ClaimStep(d), pc[c] # pc'[c]
      PROVE  c = d /\ pc[c] \in {"claiming", "selecting", "claimed"}
  BY <1>2 DEF ClaimStep, ClaimBegin, ClaimRefused, ClaimDecide, ClaimCommit, ClaimError
<1>3. ASSUME NEW d \in Commands, ReceiptStep(d), pc[c] # pc'[c] PROVE FALSE
  BY <1>3 DEF ReceiptStep, ReceiptInsert, ReceiptRefused, ReceiptFinalize, ReceiptCommit,
              ReceiptError, DoubtMark, DoubtFails
<1>4. CASE Environment
  BY <1>4 DEF Environment, ForeignWrite, ForeignCommit, LeaseExpires, Crash, task
<1>5. CASE UNCHANGED vars
  BY <1>5 DEF vars
<1> QED
  BY <1>1, <1>2, <1>3, <1>4, <1>5 DEF Next, Work

(* Committed receipts stay as they are, and a command that is before its    *)
(* insert has none.                                                         *)
LEMMA ReceiptInvStep ==
  ASSUME ReceiptInv, [Next]_vars
  PROVE  /\ ReceiptInv'
         /\ \A c \in Commands : receiptD[c] # "none" => receiptD'[c] = receiptD[c]
<1>1. TypeOK'
  BY TypeStep DEF ReceiptInv
<1>2. CASE \E c \in Commands : ReceiptInsert(c)
  BY <1>1, <1>2, InsertStep DEF ReceiptInv
<1>3. CASE UNCHANGED <<receipt, receiptD>>
  BY <1>1, <1>3, EarlyStages DEF ReceiptInv, ReceiptExtends, Unreceipted
<1>4. CASE receipt' = receiptD /\ receiptD' = receiptD
  BY <1>1, <1>4, EarlyStages DEF ReceiptInv, ReceiptExtends, Unreceipted
<1>5. CASE receipt' = receipt /\ receiptD' = receipt
  BY <1>1, <1>5, EarlyStages DEF ReceiptInv, ReceiptExtends, Unreceipted
<1> QED
  BY <1>2, <1>3, <1>4, <1>5, ReceiptChanges

(* No command, rollback, foreign commit or crash changes or removes a        *)
(* committed receipt.                                                        *)
THEOREM ReceiptsNeverChange == Spec => ReceiptsAppendOnly
<1>1. ReceiptInv /\ [Next]_vars =>
        ReceiptInv' /\ \A c \in Commands : receiptD[c] # "none" => receiptD'[c] = receiptD[c]
  BY ReceiptInvStep
<1> QED
  BY <1>1, ReceiptInvInit, PTL DEF Spec, ReceiptsAppendOnly

-----------------------------------------------------------------------------
(***************************************************************************)
(* What a caller is told is what happened.  The stage of a command tells    *)
(* whether its handler was started and has returned (StagesTell), its       *)
(* receipt tells what the handler returned (ReceiptsTell), and its answer   *)
(* tells what is durable (AnswersTell).                                     *)
(***************************************************************************)
BeforeRun == {"idle", "claiming", "selecting", "claimed", "polling", "starting"}
InRun == {"running", "receipting", "finalizing", "committing", "doubting"}

StagesTell ==
    \A c \in Commands :
        /\ pc[c] \in BeforeRun => c \notin ran
        /\ pc[c] \in InRun => c \in ran
        /\ pc[c] \in {"claiming", "selecting", "claimed", "polling"} => c \in Keyed
        /\ result[c] # "none" => c \in ran /\ pc[c] # "running"
        /\ pc[c] \in {"receipting", "finalizing", "committing"} => result[c] # "none"

ReceiptsTell ==
    \A c \in Commands :
        /\ pc[c] \in {"finalizing", "committing"} => receipt[c] = result[c]
        /\ receipt[c] # "none" => receipt[c] = result[c]

AnswersTell ==
    \A c \in Commands :
        /\ reply[c] \in Outcomes => receiptD[c] = reply[c]
        /\ pc[c] = "claimed" => reply[c] \notin Outcomes
        /\ pc[c] = "done" /\ reply[c] \in {"unavailable", "conflict", "in_progress"} =>
              c \notin ran

AnswerInv ==
    ReceiptInv /\ Mutex /\ StagesTell /\ ReceiptsTell /\ AnswersTell

(* Initially nothing has run and nobody was answered.                        *)
LEMMA AnswerInvInit == Init => AnswerInv
<1> SUFFICES ASSUME Init PROVE AnswerInv
  OBVIOUS
<1>1. ReceiptInv /\ Mutex
  BY ReceiptInvInit, ClaimInvInit DEF ClaimInv
<1> QED
  BY <1>1 DEF Init, AnswerInv, StagesTell, ReceiptsTell, AnswersTell, BeforeRun, InRun

(* Whatever happens to the tables, a command's stage tells how far it ran.   *)
LEMMA StagesTellStep == TypeOK /\ StagesTell /\ [Next]_vars => StagesTell'
<1> SUFFICES ASSUME TypeOK, StagesTell, [Next]_vars PROVE StagesTell'
  OBVIOUS
<1> USE DEF TypeOK, StagesTell, BeforeRun, InRun, Goto, Answer
<1>1. ASSUME NEW c \in Commands, Submit(c) \/ Abandon(c) PROVE StagesTell'
  BY <1>1 DEF Submit, Abandon
<1>2. ASSUME NEW c \in Commands, ClaimStep(c) PROVE StagesTell'
  BY <1>2 DEF ClaimStep, ClaimBegin, ClaimRefused, ClaimDecide, ClaimCommit, ClaimError
<1>3. ASSUME NEW c \in Commands, PollStep(c) PROVE StagesTell'
  BY <1>3 DEF PollStep, PollReceipt, PollTimeout
<1>4. ASSUME NEW c \in Commands, HandlerStep(c) PROVE StagesTell'
  BY <1>4 DEF HandlerStep, StartHandler, HandlerReturns
<1>5. ASSUME NEW c \in Commands, ReceiptStep(c) PROVE StagesTell'
  BY <1>5 DEF ReceiptStep, ReceiptInsert, ReceiptRefused, ReceiptFinalize, ReceiptCommit,
              ReceiptError, DoubtMark, DoubtFails
<1>6. CASE Environment
  BY <1>6 DEF Environment, ForeignWrite, ForeignCommit, LeaseExpires, Crash, task
<1>7. CASE UNCHANGED vars
  BY <1>7 DEF vars
<1> QED
  BY <1>1, <1>2, <1>3, <1>4, <1>5, <1>6, <1>7 DEF Next, Work

(* A rollback in another command's transaction, or at a crash, takes no      *)
(* receipt away from a command that is still inside its own.                 *)
LEMMA ReceiptsTellStep ==
  ReceiptInv /\ Mutex /\ StagesTell /\ ReceiptsTell /\ [Next]_vars => ReceiptsTell'
<1> SUFFICES ASSUME ReceiptInv, Mutex, StagesTell, ReceiptsTell, [Next]_vars
             PROVE  ReceiptsTell'
  OBVIOUS
<1> USE DEF ReceiptInv, TypeOK, StagesTell, ReceiptsTell, Goto, Answer
<1>1. ASSUME NEW c \in Commands,
             Submit(c) \/ Abandon(c) \/ PollStep(c) \/ HandlerStep(c)
      PROVE  ReceiptsTell'
  <2>1. CASE HandlerReturns(c)
    <3>1. receipt[c] = "none"
      BY <2>1 DEF HandlerReturns, Unreceipted
    <3> QED
      BY <2>1, <3>1 DEF HandlerReturns, db
  <2>2. CASE ~HandlerReturns(c)
    BY <1>1, <2>2 DEF Submit, Abandon, PollStep, PollReceipt, PollTimeout, HandlerStep,
                      StartHandler, db
  <2> QED
    BY <2>1, <2>2
<1>2. ASSUME NEW c \in Commands, ClaimError(c) \/ ReceiptError(c) PROVE ReceiptsTell'
  BY <1>2 DEF ClaimError, ReceiptError, Rollback, Mutex, ReceiptExtends
<1>3. ASSUME NEW c \in Commands, ClaimStep(c), ~ClaimError(c) PROVE ReceiptsTell'
  BY <1>3 DEF ClaimStep, ClaimBegin, ClaimRefused, ClaimDecide, ClaimCommit, Commit, db
<1>4. ASSUME NEW c \in Commands, ReceiptStep(c), ~ReceiptError(c) PROVE ReceiptsTell'
  BY <1>4 DEF ReceiptStep, ReceiptInsert, ReceiptRefused, ReceiptFinalize, ReceiptCommit,
              DoubtMark, DoubtFails, Commit, db
<1>5. CASE Crash
  BY <1>5 DEF Crash, Rollback, ReceiptExtends
<1>6. CASE Environment /\ ~Crash
  BY <1>6 DEF Environment, ForeignWrite, ForeignCommit, LeaseExpires, Commit, task, db
<1>7. CASE UNCHANGED vars
  BY <1>7 DEF vars
<1> QED
  BY <1>1, <1>2, <1>3, <1>4, <1>5, <1>6, <1>7 DEF Next, Work

(* Only the commit of a receipt answers with its outcome, and only commands  *)
(* that never reached their handler are told so.                             *)
LEMMA AnswersTellStep == AnswerInv /\ [Next]_vars => AnswersTell'
<1> SUFFICES ASSUME AnswerInv, [Next]_vars PROVE AnswersTell'
  OBVIOUS
<1> DEFINE Kept == \A c \in Commands : receiptD[c] # "none" => receiptD'[c] = receiptD[c]
<1>k. Kept
  BY ReceiptInvStep DEF AnswerInv
<1> USE DEF AnswerInv, ReceiptInv, TypeOK, StagesTell, AnswersTell, BeforeRun, InRun, Goto,
            Answer
<1>1. ASSUME NEW c \in Commands, Submit(c) \/ Abandon(c) \/ HandlerStep(c)
      PROVE  AnswersTell'
  BY <1>1, <1>k DEF Submit, Abandon, HandlerStep, StartHandler, HandlerReturns
<1>2. ASSUME NEW c \in Commands, PollStep(c) PROVE AnswersTell'
  BY <1>2, <1>k DEF PollStep, PollReceipt, PollTimeout, Replay
<1>3. ASSUME NEW c \in Commands, ClaimStep(c) PROVE AnswersTell'
  <2>1. CASE ClaimDecide(c)
    <3>1. reply' = [reply EXCEPT ![c] = reply'[c]] /\ reply'[c] \notin Outcomes
      BY <2>1 DEF ClaimDecide, ClaimInsert, ClaimExisting, Verdict, Replay
    <3> QED
      BY <2>1, <3>1, <1>k DEF ClaimDecide
  <2>2. CASE ~ClaimDecide(c)
    BY <1>3, <2>2, <1>k DEF ClaimStep, ClaimBegin, ClaimRefused, ClaimCommit, ClaimError
  <2> QED
    BY <2>1, <2>2
<1>4. ASSUME NEW c \in Commands, ReceiptStep(c) PROVE AnswersTell'
  <2>1. CASE ReceiptCommit(c)
    <3>1. receiptD'[c] = result[c] /\ reply'[c] = result[c] /\ result[c] \in Outcomes
      BY <2>1 DEF ReceiptCommit, Commit, ReceiptsTell
    <3> QED
      BY <2>1, <3>1, <1>k DEF ReceiptCommit
  <2>2. CASE ~ReceiptCommit(c)
    BY <1>4, <2>2, <1>k DEF ReceiptStep, ReceiptInsert, ReceiptRefused, ReceiptFinalize,
                            ReceiptError, DoubtMark, DoubtFails
  <2> QED
    BY <2>1, <2>2
<1>5. CASE Environment
  BY <1>5, <1>k DEF Environment, ForeignWrite, ForeignCommit, LeaseExpires, Crash, task
<1>6. CASE UNCHANGED vars
  BY <1>6 DEF vars
<1> QED
  BY <1>1, <1>2, <1>3, <1>4, <1>5, <1>6 DEF Next, Work

(* Together they are inductive.                                              *)
LEMMA AnswerInvStep == AnswerInv /\ [Next]_vars => AnswerInv'
<1> SUFFICES ASSUME AnswerInv, [Next]_vars PROVE AnswerInv'
  OBVIOUS
<1> USE DEF AnswerInv
<1>1. ReceiptInv' /\ Mutex'
  BY ReceiptInvStep, MutexStep DEF ReceiptInv
<1>2. StagesTell' /\ ReceiptsTell' /\ AnswersTell'
  BY StagesTellStep, ReceiptsTellStep, AnswersTellStep DEF ReceiptInv
<1> QED
  BY <1>1, <1>2

(* In every behaviour an outcome is told only when its receipt is durable,   *)
(* and "not executed", "conflict" and "in progress" only when nothing ran.   *)
THEOREM AnswersMatchTheLedger == Spec => []AnswersAreTrue
<1>1. AnswerInv => AnswersAreTrue
  BY DEF AnswerInv, AnswersTell, AnswersAreTrue
<1> QED
  BY <1>1, AnswerInvInit, AnswerInvStep, PTL DEF Spec

-----------------------------------------------------------------------------
(***************************************************************************)
(* The two tables agree.  A claim belongs to a keyed command of its scope   *)
(* (Owned), and a settled one says what the receipt of its owner says       *)
(* (Settled): in the tables the connection shows, which a commit publishes, *)
(* and in the committed ones, to which a rollback returns.                  *)
(***************************************************************************)
Owned(table) ==
    \A s \in Scopes : table[s].owner # Nobody =>
        table[s].owner \in Keyed /\ ScopeOf[table[s].owner] = s

Settled(table, rows) ==
    \A s \in Scopes : table[s].receipt =>
        /\ table[s].owner # Nobody
        /\ rows[table[s].owner] # "none"
        /\ table[s].state = "completed" => rows[table[s].owner] = "ok"
        /\ table[s].state = "failed" => rows[table[s].owner] = "failed"

TablesAgree ==
    /\ Owned(claim) /\ Settled(claim, receipt)
    /\ Owned(claimD) /\ Settled(claimD, receiptD)

TableInv == AnswerInv /\ TablesAgree

(* Initially both tables are empty.                                          *)
LEMMA TableInvInit == Init => TableInv
<1> SUFFICES ASSUME Init PROVE TableInv
  OBVIOUS
<1>1. AnswerInv
  BY AnswerInvInit
<1> QED
  BY <1>1 DEF Init, TableInv, TablesAgree, Owned, Settled, NoClaim

(* A claim that is marked uncertain keeps its owner and its receipt.         *)
LEMMA DoubtedTable ==
  ASSUME NEW table \in [Scopes -> Claim], NEW rows, NEW s \in Scopes,
         Owned(table), Settled(table, rows)
  PROVE  /\ Owned([table EXCEPT ![s].state = "uncertain"])
         /\ Settled([table EXCEPT ![s].state = "uncertain"], rows)
<1> DEFINE new == [table EXCEPT ![s].state = "uncertain"]
<1>1. \A z \in Scopes : new[z].owner = table[z].owner /\ new[z].receipt = table[z].receipt
  BY DEF Claim
<1>2. \A z \in Scopes : new[z].state \in {table[z].state, "uncertain"}
  BY DEF Claim
<1> HIDE DEF new
<1>3. Owned(new) /\ Settled(new, rows)
  BY <1>1, <1>2 DEF Owned, Settled
<1> QED
  BY <1>3 DEF new

(* Each statement of the ledger keeps the tables it writes in agreement.     *)
LEMMA TablesAgreeStep == TableInv /\ [Next]_vars => TablesAgree'
<1> SUFFICES ASSUME TableInv, [Next]_vars PROVE TablesAgree'
  OBVIOUS
<1> USE LedgerAssumption DEF TableInv, AnswerInv, ReceiptInv, TypeOK, TablesAgree, Goto
<1>1. ASSUME NEW c \in Commands, Submit(c) \/ Abandon(c) \/ PollStep(c) \/ HandlerStep(c)
      PROVE  TablesAgree'
  BY <1>1 DEF Submit, Abandon, PollStep, PollReceipt, PollTimeout, HandlerStep,
              StartHandler, HandlerReturns, db
<1>2. ASSUME NEW c \in Commands, ClaimStep(c) PROVE TablesAgree'
  <2>1. CASE ClaimDecide(c)
    <3>1. c \in Keyed /\ UNCHANGED <<receipt, claimD, receiptD>>
      BY <2>1 DEF ClaimDecide, StagesTell
    <3>2. CASE ClaimInsert(c, ScopeOf[c])
      <4>1. Owned(claim')
        BY <3>1, <3>2 DEF ClaimInsert, Owned
      <4>2. Settled(claim', receipt)
        BY <3>2 DEF ClaimInsert, Settled
      <4> QED
        BY <3>1, <4>1, <4>2
    <3>3. CASE ClaimExisting(c, ScopeOf[c])
      <4>1. Owned(claim') /\ Settled(claim', receipt)
        BY <3>3, DoubtedTable DEF ClaimExisting
      <4> QED
        BY <3>1, <4>1
    <3> QED
      BY <2>1, <3>2, <3>3 DEF ClaimDecide
  <2>2. CASE ~ClaimDecide(c)
    BY <1>2, <2>2 DEF ClaimStep, ClaimBegin, ClaimRefused, ClaimCommit, ClaimError, Commit,
                      Rollback, db
  <2> QED
    BY <2>1, <2>2
<1>3. ASSUME NEW c \in Commands, ReceiptStep(c) PROVE TablesAgree'
  <2>1. CASE ReceiptInsert(c)
    <3>1. receipt[c] = "none" /\ UNCHANGED <<claim, claimD, receiptD>>
      BY <2>1 DEF ReceiptInsert, Unreceipted
    <3>2. \A d \in Commands \ {c} : receipt'[d] = receipt[d]
      BY <2>1 DEF ReceiptInsert
    <3>3. \A s \in Scopes : claim[s].owner \in Commands \cup {Nobody}
      BY DEF Claim
    <3>4. Settled(claim, receipt')
      BY <3>1, <3>2, <3>3 DEF Settled
    <3> QED
      BY <3>1, <3>4
  <2>2. CASE ReceiptFinalize(c)
    <3>1. UNCHANGED <<receipt, claimD, receiptD>>
      BY <2>2 DEF ReceiptFinalize
    <3>2. CASE c \notin Keyed
      BY <2>2, <3>1, <3>2 DEF ReceiptFinalize
    <3>3. CASE c \in Keyed
      <4> DEFINE s == ScopeOf[c]
                 st == IF result[c] = "ok" THEN "completed" ELSE "failed"
      <4>1. claim[s].owner = c /\ s \in Scopes
        BY <2>2, <3>3 DEF ReceiptFinalize
      <4>2. receipt[c] = result[c] /\ result[c] \in Outcomes
        BY <2>2 DEF ReceiptFinalize, ReceiptsTell, StagesTell
      <4>3. claim' = [claim EXCEPT ![s].receipt = TRUE, ![s].state = st]
        BY <2>2, <3>3 DEF ReceiptFinalize
      <4>4. \A z \in Scopes : claim'[z].owner = claim[z].owner
        BY <4>3 DEF Claim
      <4>5. \A z \in Scopes \ {s} : claim'[z] = claim[z]
        BY <4>3
      <4>6. claim'[s].state = st
        BY <4>1, <4>3 DEF Claim
      <4> HIDE DEF s
      <4>7. Owned(claim')
        BY <4>4 DEF Owned
      <4>8. Settled(claim', receipt)
        <5> SUFFICES ASSUME NEW z \in Scopes, claim'[z].receipt
                     PROVE  /\ claim'[z].owner # Nobody
                            /\ receipt[claim'[z].owner] # "none"
                            /\ claim'[z].state = "completed" => receipt[claim'[z].owner] = "ok"
                            /\ claim'[z].state = "failed" => receipt[claim'[z].owner] = "failed"
          BY DEF Settled
        <5>1. CASE z = s
          BY <4>1, <4>2, <4>4, <4>6, <5>1
        <5>2. CASE z # s
          BY <4>5, <5>2 DEF Settled
        <5> QED
          BY <5>1, <5>2
      <4> QED
        BY <3>1, <4>7, <4>8
    <3> QED
      BY <3>2, <3>3
  <2>3. CASE DoubtMark(c) \/ DoubtFails(c)
    <3>1. Owned(claim') /\ Settled(claim', receipt)
      BY <2>3, DoubtedTable DEF DoubtMark, DoubtFails
    <3> QED
      BY <2>3, <3>1 DEF DoubtMark, DoubtFails
  <2>4. CASE ReceiptRefused(c) \/ ReceiptCommit(c) \/ ReceiptError(c)
    BY <2>4 DEF ReceiptRefused, ReceiptCommit, ReceiptError, Commit, Rollback, db
  <2> QED
    BY <1>3, <2>1, <2>2, <2>3, <2>4 DEF ReceiptStep
<1>4. CASE Environment
  BY <1>4 DEF Environment, ForeignWrite, ForeignCommit, LeaseExpires, Crash, Commit,
              Rollback, db
<1>5. CASE UNCHANGED vars
  BY <1>5 DEF vars
<1> QED
  BY <1>1, <1>2, <1>3, <1>4, <1>5 DEF Next, Work

(* The tables and the tasks that write them are inductive together.          *)
LEMMA TableInvStep == TableInv /\ [Next]_vars => TableInv'
  BY AnswerInvStep, TablesAgreeStep DEF TableInv

(* In every behaviour a durably settled claim leads to a durable receipt     *)
(* that says the same.                                                       *)
THEOREM SettledClaimsHaveReceipts == Spec => []FinalClaimHasReceipt
<1>1. TableInv => FinalClaimHasReceipt
  BY DEF TableInv, TablesAgree, Settled, FinalClaimHasReceipt
<1> QED
  BY <1>1, TableInvInit, TableInvStep, PTL DEF Spec

-----------------------------------------------------------------------------
(***************************************************************************)
(* The ledger implements CommandOnce.  What is replayed to a command is the *)
(* result of a handler that ran in its scope for the same request.          *)
(***************************************************************************)
Replayed ==
    \A c \in Commands : reply[c] \in {"replay_ok", "replay_failed"} =>
        \E d \in ran \cap Keyed :
            /\ ScopeOf[d] = ScopeOf[c]
            /\ Fingerprint[d] = Fingerprint[c]
            /\ result[d] \in Outcomes
            /\ reply[c] = Replay(result[d])

OnceInv == ClaimInv /\ TableInv /\ Replayed

(* Initially nothing was replayed.                                           *)
LEMMA OnceInvInit == Init => OnceInv
<1> SUFFICES ASSUME Init PROVE OnceInv
  OBVIOUS
<1>1. ClaimInv /\ TableInv
  BY ClaimInvInit, TableInvInit
<1> QED
  BY <1>1 DEF Init, OnceInv, Replayed

(* A handler that has returned stays so, with its result.                    *)
LEMMA ResultsStay ==
  ASSUME TypeOK, StagesTell, [Next]_vars
  PROVE  /\ ran \subseteq ran'
         /\ \A d \in Commands : result[d] # "none" => result'[d] = result[d]
<1> DEFINE Goal == /\ ran \subseteq ran'
                   /\ \A d \in Commands : result[d] # "none" => result'[d] = result[d]
<1> USE DEF TypeOK, StagesTell
<1>1. ASSUME NEW c \in Commands, HandlerStep(c) PROVE Goal
  BY <1>1 DEF HandlerStep, StartHandler, HandlerReturns
<1>2. ASSUME NEW c \in Commands,
             Submit(c) \/ Abandon(c) \/ ClaimStep(c) \/ PollStep(c) \/ ReceiptStep(c)
      PROVE  Goal
  BY <1>2 DEF Submit, Abandon, ClaimStep, ClaimBegin, ClaimRefused, ClaimDecide,
              ClaimCommit, ClaimError, PollStep, PollReceipt, PollTimeout, ReceiptStep,
              ReceiptInsert, ReceiptRefused, ReceiptFinalize, ReceiptCommit, ReceiptError,
              DoubtMark, DoubtFails
<1>3. CASE Environment
  BY <1>3 DEF Environment, ForeignWrite, ForeignCommit, LeaseExpires, Crash, task
<1>4. CASE UNCHANGED vars
  BY <1>4 DEF vars
<1> QED
  BY <1>1, <1>2, <1>3, <1>4 DEF Next, Work

(* A receipt found through the claim of a scope is the result of a handler   *)
(* that ran in that scope.                                                   *)
LEMMA ReceiptOfOwner ==
  ASSUME TableInv, NEW s \in Scopes, claim[s].owner # Nobody,
         receipt[claim[s].owner] # "none"
  PROVE  /\ claim[s].owner \in ran \cap Keyed
         /\ ScopeOf[claim[s].owner] = s
         /\ result[claim[s].owner] = receipt[claim[s].owner]
         /\ result[claim[s].owner] \in Outcomes
<1>1. claim[s].owner \in Keyed /\ ScopeOf[claim[s].owner] = s
  BY DEF TableInv, TablesAgree, Owned
<1> QED
  BY <1>1, LedgerAssumption
     DEF TableInv, AnswerInv, ReceiptInv, TypeOK, ReceiptsTell, StagesTell

(* A command gets a replayed outcome only when it finds such a receipt.      *)
LEMMA RepliesChange ==
  ASSUME OnceInv, [Next]_vars, NEW c \in Commands,
         reply'[c] \in {"replay_ok", "replay_failed"}, reply'[c] # reply[c]
  PROVE  LET s == ScopeOf[c]
             d == claim[s].owner
         IN  /\ d # Nobody
             /\ Fingerprint[d] = Fingerprint[c]
             /\ receipt[d] # "none"
             /\ reply'[c] = Replay(receipt[d])
<1> DEFINE d == claim[ScopeOf[c]].owner
           Goal == /\ d # Nobody
                   /\ Fingerprint[d] = Fingerprint[c]
                   /\ receipt[d] # "none"
                   /\ reply'[c] = Replay(receipt[d])
<1> USE DEF OnceInv, ClaimInv, TypeOK, Goto, Answer
<1>1. ASSUME NEW e \in Commands, Submit(e) \/ Abandon(e) \/ HandlerStep(e) PROVE Goal
  BY <1>1 DEF Submit, Abandon, HandlerStep, StartHandler, HandlerReturns
<1>2. ASSUME NEW e \in Commands, PollStep(e) PROVE Goal
  <2>1. e = c /\ PollReceipt(c)
    BY <1>2 DEF PollStep, PollReceipt, PollTimeout
  <2> QED
    BY <2>1 DEF PollReceipt
<1>3. ASSUME NEW e \in Commands, ClaimStep(e) PROVE Goal
  <2>1. e = c /\ ClaimDecide(c)
    BY <1>3 DEF ClaimStep, ClaimBegin, ClaimRefused, ClaimDecide, ClaimInsert,
                ClaimExisting, ClaimCommit, ClaimError
  <2>2. ClaimExisting(c, ScopeOf[c])
    BY <2>1 DEF ClaimDecide, ClaimInsert
  <2>3. reply'[c] = Verdict(c, ScopeOf[c]) /\ d # Nobody
    BY <2>2 DEF ClaimExisting
  <2> QED
    BY <2>3 DEF Verdict
<1>4. ASSUME NEW e \in Commands, ReceiptStep(e) PROVE Goal
  BY <1>4 DEF ReceiptStep, ReceiptInsert, ReceiptRefused, ReceiptFinalize, ReceiptCommit,
              ReceiptError, DoubtMark, DoubtFails
<1>5. CASE Environment
  BY <1>5 DEF Environment, ForeignWrite, ForeignCommit, LeaseExpires, Crash, task
<1>6. CASE UNCHANGED vars
  BY <1>6 DEF vars
<1> QED
  BY <1>1, <1>2, <1>3, <1>4, <1>5, <1>6 DEF Next, Work

(* Replayed outcomes stay those of a handler that ran.                       *)
LEMMA OnceInvStep == OnceInv /\ [Next]_vars => OnceInv'
<1> SUFFICES ASSUME OnceInv, [Next]_vars PROVE OnceInv'
  OBVIOUS
<1>1. ClaimInv' /\ TableInv'
  BY ClaimInvStep, TableInvStep DEF OnceInv
<1>2. /\ ran \subseteq ran'
      /\ \A d \in Commands : result[d] # "none" => result'[d] = result[d]
  BY ResultsStay DEF OnceInv, ClaimInv, TableInv, AnswerInv
<1>3. Replayed'
  <2> SUFFICES ASSUME NEW c \in Commands, reply'[c] \in {"replay_ok", "replay_failed"}
               PROVE  \E d \in ran' \cap Keyed :
                          /\ ScopeOf[d] = ScopeOf[c]
                          /\ Fingerprint[d] = Fingerprint[c]
                          /\ result'[d] \in Outcomes
                          /\ reply'[c] = Replay(result'[d])
    BY DEF Replayed, Replay
  <2>1. PICK d \in ran \cap Keyed :
             /\ ScopeOf[d] = ScopeOf[c]
             /\ Fingerprint[d] = Fingerprint[c]
             /\ result[d] \in Outcomes
             /\ reply'[c] = Replay(result[d])
    <3>1. CASE reply'[c] = reply[c]
      BY <3>1 DEF OnceInv, Replayed
    <3>2. CASE reply'[c] # reply[c]
      <4>1. ScopeOf[c] \in Scopes
        BY LedgerAssumption
      <4> QED
        BY <3>2, <4>1, RepliesChange, ReceiptOfOwner DEF OnceInv
    <3> QED
      BY <3>1, <3>2
  <2>2. d \in ran' \cap Keyed /\ result'[d] = result[d]
    BY <1>2, <2>1, LedgerAssumption
  <2> QED
    BY <2>1, <2>2
<1> QED
  BY <1>1, <1>3 DEF OnceInv

(* The command of a scope that ran is its executor: there is one at most.    *)
ExecutorIn(set, s) ==
    IF \E c \in set \cap Keyed : ScopeOf[c] = s
    THEN CHOOSE c \in set \cap Keyed : ScopeOf[c] = s
    ELSE Nobody

LEMMA OneExecutor ==
  ASSUME NEW set, NEW d \in set \cap Keyed,
         \A c, e \in set \cap Keyed : ScopeOf[c] = ScopeOf[e] => c = e
  PROVE  ExecutorIn(set, ScopeOf[d]) = d
BY DEF ExecutorIn

LEMMA ExecutorRan ==
  ASSUME NEW set, NEW s, ExecutorIn(set, s) # Nobody
  PROVE  /\ ExecutorIn(set, s) \in set \cap Keyed
         /\ ScopeOf[ExecutorIn(set, s)] = s
BY DEF ExecutorIn

(* What the abstract specification sees of the ledger.                       *)
executors == [s \in Scopes |-> Executor(s)]
outcomes == [s \in Scopes |-> OutcomeOf(s)]
tolds == [c \in Keyed |-> Told(c)]

(* A step that starts no keyed handler, lets none return and answers nobody  *)
(* is invisible.                                                             *)
LEMMA QuietStep ==
  ASSUME ran' \cap Keyed = ran \cap Keyed,
         \A d \in ran \cap Keyed : result'[d] = result[d],
         \A c \in Keyed : pc'[c] = "done" <=> pc[c] = "done",
         \A c \in Keyed : pc[c] = "done" => reply'[c] = reply[c]
  PROVE  UNCHANGED Once!vars
<1>1. \A s \in Scopes : Executor(s)' = Executor(s)
  BY DEF Executor
<1>2. \A s \in Scopes : OutcomeOf(s)' = OutcomeOf(s)
  BY <1>1, LedgerAssumption DEF OutcomeOf, Executor
<1>3. \A c \in Keyed : Told(c)' = Told(c)
  BY DEF Told
<1> QED
  BY <1>1, <1>2, <1>3 DEF Once!vars

(* The start of a keyed handler is the execution of its scope.               *)
LEMMA ExecuteStep ==
  ASSUME OnceInv, OnceInv', NEW c \in Keyed, StartHandler(c)
  PROVE  Once!Execute(c)
<1> USE LedgerAssumption
<1>0. c \in Commands /\ ScopeOf[c] \in Scopes /\ c # Nobody
  OBVIOUS
<1>1. c \notin ran /\ result[c] = "none" /\ ran' = ran \cup {c}
  BY <1>0 DEF StartHandler, OnceInv, TableInv, AnswerInv, StagesTell, BeforeRun, ReceiptInv, TypeOK
<1>2. \A d, e \in ran' \cap Keyed : ScopeOf[d] = ScopeOf[e] => d = e
  BY DEF OnceInv, ClaimInv, ClaimBeforeHandler
<1>3. \A d \in ran \cap Keyed : ScopeOf[d] # ScopeOf[c]
  BY <1>1, <1>2
<1>4. Executor(ScopeOf[c]) = Nobody
  BY <1>3 DEF Executor
<1>5. Executor(ScopeOf[c])' = c
  BY <1>1, <1>2, OneExecutor DEF Executor, ExecutorIn
<1>6. ASSUME NEW s \in Scopes, s # ScopeOf[c] PROVE Executor(s)' = Executor(s)
  <2>1. \A d : (d \in ran' \cap Keyed /\ ScopeOf[d] = s) <=> (d \in ran \cap Keyed /\ ScopeOf[d] = s)
    BY <1>1, <1>6
  <2> QED
    BY <2>1 DEF Executor
<1>7. \A s \in Scopes : OutcomeOf(s)' = OutcomeOf(s)
  BY <1>0, <1>1, <1>4, <1>5, <1>6 DEF OutcomeOf, StartHandler
<1>8. \A d \in Keyed : Told(d)' = Told(d)
  BY <1>0 DEF StartHandler, Told, Goto, OnceInv, ClaimInv, TypeOK
<1>9. executors' = [executors EXCEPT ![ScopeOf[c]] = c]
  BY <1>5, <1>6 DEF executors
<1> QED
  BY <1>0, <1>4, <1>7, <1>8, <1>9 DEF Once!Execute, executors

(* The return of a keyed handler is the outcome of its scope.                *)
LEMMA ReturnStep ==
  ASSUME OnceInv, NEW c \in Keyed, HandlerReturns(c)
  PROVE  \E r \in Once!Outcomes : Once!Return(ScopeOf[c], r)
<1> USE LedgerAssumption
<1>0. c \in Commands /\ ScopeOf[c] \in Scopes /\ c # Nobody
  OBVIOUS
<1>1. c \in ran /\ result[c] = "none" /\ ran' = ran
  BY <1>0 DEF HandlerReturns, OnceInv, TableInv, AnswerInv, StagesTell, InRun
<1>2. PICK r \in Outcomes : result' = [result EXCEPT ![c] = r]
  BY DEF HandlerReturns
<1>3. \A s \in Scopes : Executor(s)' = Executor(s)
  BY <1>1 DEF Executor
<1>4. \A d, e \in ran \cap Keyed : ScopeOf[d] = ScopeOf[e] => d = e
  BY DEF OnceInv, ClaimInv, ClaimBeforeHandler
<1>5. Executor(ScopeOf[c]) = c
  BY <1>1, <1>4, OneExecutor DEF Executor, ExecutorIn
<1>6. \A s \in Scopes : Executor(s) # Nobody =>
          Executor(s) \in Commands /\ ScopeOf[Executor(s)] = s
  BY ExecutorRan DEF Executor, ExecutorIn
<1>7. \A s \in Scopes \ {ScopeOf[c]} : OutcomeOf(s)' = OutcomeOf(s)
  BY <1>2, <1>3, <1>6 DEF OutcomeOf, OnceInv, ClaimInv, TypeOK
<1>8. OutcomeOf(ScopeOf[c])' = r /\ OutcomeOf(ScopeOf[c]) = "none"
  BY <1>0, <1>1, <1>2, <1>3, <1>5 DEF OutcomeOf, OnceInv, ClaimInv, TypeOK
<1>9. \A d \in Keyed : Told(d)' = Told(d)
  BY <1>0 DEF HandlerReturns, Told, Goto, OnceInv, ClaimInv, TypeOK
<1>10. outcomes' = [outcomes EXCEPT ![ScopeOf[c]] = r]
  BY <1>7, <1>8 DEF outcomes
<1> QED
  BY <1>0, <1>3, <1>5, <1>8, <1>9, <1>10 DEF Once!Return, Once!Outcomes, outcomes

(* An answer tells the outcome of the scope's only execution, or nothing.    *)
LEMMA TellStep ==
  ASSUME OnceInv, OnceInv', NEW c \in Commands,
         pc[c] # "done", pc' = [pc EXCEPT ![c] = "done"],
         \A d \in Commands \ {c} : reply'[d] = reply[d],
         UNCHANGED <<ran, result>>
  PROVE  [Once!Next]_(Once!vars)
<1> USE LedgerAssumption
<1>1. \A d \in Keyed \ {c} : Told(d)' = Told(d)
  BY DEF Told, OnceInv, ClaimInv, TypeOK
<1>2. \A s \in Scopes : Executor(s)' = Executor(s) /\ OutcomeOf(s)' = OutcomeOf(s)
  BY DEF Executor, OutcomeOf
<1>3. CASE c \notin Keyed
  BY <1>1, <1>2, <1>3 DEF Once!vars
<1>4. CASE c \in Keyed /\ Told(c)' = "none"
  BY <1>1, <1>2, <1>4 DEF Once!vars, Told
<1>5. CASE c \in Keyed /\ Told(c)' # "none"
  <2>1. reply'[c] \in {"replay_ok", "replay_failed"} \cup Outcomes
    BY <1>5 DEF Told, OnceInv, ClaimInv, TypeOK
  <2>2. PICK d \in ran \cap Keyed :
             /\ ScopeOf[d] = ScopeOf[c]
             /\ Fingerprint[d] = Fingerprint[c]
             /\ result[d] \in Outcomes
             /\ Told(c)' = result[d]
    <3>1. pc'[c] = "done"
      BY DEF OnceInv, ClaimInv, TypeOK
    <3>2. CASE reply'[c] \in Outcomes
      <4>1. receiptD'[c] = reply'[c]
        BY <3>2 DEF OnceInv, TableInv, AnswerInv, AnswersTell
      <4>2. receipt'[c] = reply'[c]
        BY <3>2, <4>1 DEF OnceInv, TableInv, AnswerInv, ReceiptInv, ReceiptExtends
      <4>3. result'[c] = reply'[c]
        BY <3>2, <4>2 DEF OnceInv, TableInv, AnswerInv, ReceiptsTell
      <4>4. c \in ran'
        BY <3>2, <4>3 DEF OnceInv, TableInv, AnswerInv, StagesTell
      <4> QED
        BY <1>5, <3>1, <3>2, <4>3, <4>4 DEF Told
    <3>3. CASE reply'[c] \in {"replay_ok", "replay_failed"}
      <4>1. \E d \in ran' \cap Keyed :
                /\ ScopeOf[d] = ScopeOf[c]
                /\ Fingerprint[d] = Fingerprint[c]
                /\ result'[d] \in Outcomes
                /\ reply'[c] = Replay(result'[d])
        BY <3>3 DEF OnceInv, Replayed, Replay
      <4> QED
        BY <1>5, <3>1, <4>1 DEF Told, Replay
    <3> QED
      BY <2>1, <3>2, <3>3
  <2>3. ScopeOf[c] \in Scopes /\ d # Nobody
    BY <1>5, <2>2
  <2>4. \A e, f \in ran \cap Keyed : ScopeOf[e] = ScopeOf[f] => e = f
    BY DEF OnceInv, ClaimInv, ClaimBeforeHandler
  <2>5. Executor(ScopeOf[c]) = d
    BY <2>2, <2>4, OneExecutor DEF Executor, ExecutorIn
  <2>6. OutcomeOf(ScopeOf[c]) = result[d]
    BY <2>3, <2>5 DEF OutcomeOf
  <2>7. tolds' = [tolds EXCEPT ![c] = result[d]]
    BY <1>1, <1>5, <2>2 DEF tolds
  <2>8. Told(c) = "none"
    BY DEF Told
  <2>9. Once!Tell(c)
    BY <1>2, <1>5, <2>2, <2>3, <2>5, <2>6, <2>7, <2>8 DEF Once!Tell, tolds
  <2> QED
    BY <1>5, <2>9 DEF Once!Next
<1> QED
  BY <1>3, <1>4, <1>5

(* Every step of the ledger is a step of the abstract promise, or invisible. *)
LEMMA OnceStep == OnceInv /\ OnceInv' /\ [Next]_vars => [Once!Next]_(Once!vars)
<1> SUFFICES ASSUME OnceInv, OnceInv', [Next]_vars PROVE [Once!Next]_(Once!vars)
  OBVIOUS
<1>t. TypeOK
  BY DEF OnceInv, ClaimInv
<1> USE LedgerAssumption DEF TypeOK, Goto, Answer
<1>1. ASSUME NEW c \in Commands, Submit(c) \/ Abandon(c) PROVE [Once!Next]_(Once!vars)
  BY <1>1, <1>t, QuietStep DEF Submit, Abandon
<1>2. ASSUME NEW c \in Commands, ClaimStep(c) PROVE [Once!Next]_(Once!vars)
  <2>1. CASE pc'[c] = "done"
    BY <1>2, <2>1, <1>t, TellStep
       DEF ClaimStep, ClaimBegin, ClaimRefused, ClaimDecide, ClaimCommit, ClaimError
  <2>2. CASE pc'[c] # "done"
    BY <1>2, <2>2, <1>t, QuietStep
       DEF ClaimStep, ClaimBegin, ClaimRefused, ClaimDecide, ClaimInsert, ClaimExisting,
           ClaimCommit, ClaimError
  <2> QED
    BY <2>1, <2>2
<1>3. ASSUME NEW c \in Commands, PollStep(c) PROVE [Once!Next]_(Once!vars)
  BY <1>3, <1>t, TellStep DEF PollStep, PollReceipt, PollTimeout
<1>4. ASSUME NEW c \in Commands, HandlerStep(c) PROVE [Once!Next]_(Once!vars)
  <2>1. CASE c \notin Keyed
    BY <1>4, <2>1, <1>t, QuietStep DEF HandlerStep, StartHandler, HandlerReturns
  <2>2. CASE c \in Keyed /\ StartHandler(c)
    BY <2>2, ExecuteStep DEF Once!Next
  <2>3. CASE c \in Keyed /\ HandlerReturns(c)
    BY <2>3, ReturnStep DEF Once!Next
  <2> QED
    BY <1>4, <2>1, <2>2, <2>3 DEF HandlerStep
<1>5. ASSUME NEW c \in Commands, ReceiptStep(c) PROVE [Once!Next]_(Once!vars)
  <2>1. CASE ReceiptCommit(c) \/ DoubtMark(c) \/ DoubtFails(c)
    BY <2>1, <1>t, TellStep DEF ReceiptCommit, DoubtMark, DoubtFails
  <2>2. CASE ReceiptInsert(c) \/ ReceiptRefused(c) \/ ReceiptFinalize(c) \/ ReceiptError(c)
    BY <2>2, <1>t, QuietStep
       DEF ReceiptInsert, ReceiptRefused, ReceiptFinalize, ReceiptError
  <2> QED
    BY <1>5, <2>1, <2>2 DEF ReceiptStep
<1>6. CASE Environment
  BY <1>6, <1>t, QuietStep
     DEF Environment, ForeignWrite, ForeignCommit, LeaseExpires, Crash, task
<1>7. CASE UNCHANGED vars
  BY <1>7, QuietStep DEF vars
<1> QED
  BY <1>1, <1>2, <1>3, <1>4, <1>5, <1>6, <1>7 DEF Next, Work

(* Every behaviour of the ledger is one of the abstract promise: a scope is  *)
(* executed once, and whoever asks for the same request is told the outcome  *)
(* of that execution, or nothing.                                            *)
THEOREM LedgerImplementsOnce == Spec => ImplementsOnce
<1>1. Init => Once!Init
  BY LedgerAssumption DEF Init, Once!Init, Executor, OutcomeOf, Told
<1>2. OnceInv /\ [Next]_vars => OnceInv'
  BY OnceInvStep
<1> QED
  BY <1>1, <1>2, OnceInvInit, OnceStep, PTL DEF Spec, ImplementsOnce, Once!Spec
=============================================================================
