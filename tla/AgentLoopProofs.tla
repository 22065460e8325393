---------------------------- MODULE AgentLoopProofs ----------------------------
(***************************************************************************)
(* What TLAPS proves of CircuitBreaker for any number of calls, any        *)
(* threshold and any cap of the back-off, and of AgentLoop for any number  *)
(* of turns and of other callers of the circuit, any limit of iterations,  *)
(* any offer of tools and any length of the batches: the circuit is the    *)
(* one of CircuitBreaker, and the answers fit the evidence.                *)
(***************************************************************************)
EXTENDS AgentLoop, TLAPS

-----------------------------------------------------------------------------
(* CircuitBreaker by itself *)

\* The two invariants support each other: the failure count of a closed circuit
\* stays within its type because it is below the threshold.
Inv == TypeOK /\ ClosedIsFresh

\* Every reachable state of the breaker is well typed, and a closed circuit is
\* a fresh one, in whatever order the results of overlapping calls arrive
\* (_on_success, _on_failure, reset).
THEOREM ClosedCircuitIsFresh == Spec => [](TypeOK /\ ClosedIsFresh)
<1>0. FailureThreshold \in Nat /\ FailureThreshold >= 1 /\ MaxBackoff \in Nat /\ MaxBackoff >= 1
  BY BreakerAssumption DEF BreakerAssumption
<1> USE <1>0
<1>1. Init => Inv
  <2>1. ASSUME Init PROVE TypeOK
    <3>1. state \in {"closed", "open", "half_open"} /\ elapsed \in BOOLEAN
      BY <2>1 DEF Init
    <3>2. failures \in 0..FailureThreshold /\ multiplier \in 1..MaxBackoff
      BY <2>1 DEF Init
    <3>3. call \in [Calls -> {"idle", "in_flight"}]
      BY <2>1 DEF Init
    <3> QED
      BY <3>1, <3>2, <3>3 DEF TypeOK
  <2>2. Init => ClosedIsFresh
    BY DEF Init, ClosedIsFresh
  <2> QED
    BY <2>1, <2>2 DEF Inv
<1>2. Inv /\ [Next]_vars => Inv'
  <2> SUFFICES ASSUME Inv, [Next]_vars PROVE Inv'
    OBVIOUS
  <2> USE DEF Inv, TypeOK, ClosedIsFresh
  <2>1. CASE Elapse
    BY <2>1 DEF Elapse
  <2>2. CASE Reset
    BY <2>2 DEF Reset
  <2>3. ASSUME NEW c \in Calls, Begin(c) PROVE Inv'
    BY <2>3 DEF Begin, Observed
  <2>4. ASSUME NEW c \in Calls, Succeed(c) PROVE Inv'
    BY <2>4 DEF Succeed, Settle
  <2>5. ASSUME NEW c \in Calls, Fail(c) PROVE Inv'
    <3>1. Doubled \in 1..MaxBackoff
      BY DEF Doubled
    <3>2. failures' \in 0..FailureThreshold
      BY <2>5 DEF Fail
    <3>3. TypeOK'
      BY <2>5, <3>1, <3>2 DEF Fail, Settle
    <3>4. ClosedIsFresh'
      BY <2>5, <3>2 DEF Fail
    <3> QED
      BY <3>3, <3>4
  <2>6. ASSUME NEW c \in Calls, Abandon(c) PROVE Inv'
    BY <2>6 DEF Abandon, Settle
  <2>7. CASE UNCHANGED vars
    BY <2>7 DEF vars
  <2> QED
    BY <2>1, <2>2, <2>3, <2>4, <2>5, <2>6, <2>7 DEF Next
<1> QED
  BY <1>1, <1>2, PTL DEF Spec, Inv

-----------------------------------------------------------------------------
(* The circuit under the turns *)

\* Every step of a turn, or of another caller, is a step of the circuit or none.
LEMMA AStepIsStep == [ANext]_avars => [Next]_vars
<1> SUFFICES ASSUME [ANext]_avars PROVE [Next]_vars
  OBVIOUS
<1> USE LoopAssumption DEF LoopAssumption, Next, vars, breaker
<1>1. ASSUME NEW c \in Calls \ Turns, Other(c) PROVE [Next]_vars
  BY <1>1 DEF Other
<1>2. ASSUME NEW t \in Turns, Message(t) \/ PlanStep(t) \/ OverBudget(t) \/ RunTool(t) PROVE [Next]_vars
  BY <1>2 DEF Message, PlanStep, OverBudget, RunTool
<1>3. ASSUME NEW t \in Turns, Ask(t) PROVE [Next]_vars
  BY <1>3 DEF Ask
<1>4. ASSUME NEW t \in Turns, Waits(t) PROVE [Next]_vars
  BY <1>4 DEF Waits, ProviderFails, StreamBreaks, AsksForTools, Text, BareCall, ForceSearch,
     ForceStatus, RepromptForTool, NoSearch, RepromptForEvidence, NoEvidence, RepromptToQueue,
     Answer, Responds
<1>5. ASSUME NEW t \in Turns, Cancel(t) PROVE [Next]_vars
  BY <1>5 DEF Cancel
<1>6. CASE UNCHANGED avars
  BY <1>6 DEF avars
<1> QED
  BY <1>1, <1>2, <1>3, <1>4, <1>5, <1>6 DEF ANext, Proceed

\* Turns and other callers share one circuit, and a closed circuit is a fresh one
\* whatever they do (llm_task_runtime.py above circuit_breaker.py): what they do to
\* it implements CircuitBreaker.
THEOREM SharedCircuitIsFresh == ASpec => Spec /\ []ClosedIsFresh
<1>1. AInit => Init
  BY DEF AInit
<1>2. ASpec => Spec
  BY <1>1, AStepIsStep, PTL DEF ASpec, Spec
<1> QED
  BY <1>2, ClosedCircuitIsFresh, PTL

-----------------------------------------------------------------------------
(* One turn *)

Turn == [
    at : {"new", "plan", "asking", "waiting", "tools", "done"},
    task : {"download", "other"}, loop : {"stream", "plain"}, offered : SUBSET Tools,
    literal : BOOLEAN, iter : Nat, calls : Seq(Names), inline : BOOLEAN, final : BOOLEAN,
    ran : SUBSET Names, forced : SUBSET {"search", "status"},
    told : SUBSET {"tool", "evidence", "queue"},
    queue : {"none", "queued", "partial", "failed", "refused"}, covered : BOOLEAN,
    receipt : {"none", "queued", "partial", "failed", "refused"},
    answer : {"none", "prose", "limit", "circuit open", "error", "cancelled", "no search",
              "no evidence", "queue partial", "queue failed", "clarification"}]

\* The provider has not garbled the name of the queue tool.
Clean(r) == "queue<|channel|>" \notin r.ran

\* What may be answered when the loop is where r says.
Fits(what, r) ==
    /\ Clean(r) =>
        /\ what = "prose" => r.receipt \in {"none", "queued"}
        /\ what = "queue partial" => r.receipt = "partial"
        /\ what = "queue failed" => r.receipt \in {"failed", "refused"}
        /\ what \in {"no search", "no evidence"} => r.receipt = "none"
    /\ what = "prose" /\ r.task = "download" /\ r.offered \cap Operational # {} =>
        r.ran \cap Operational # {} \/ (r.loop = "plain" /\ r.ran = {})

\* Until the turn ends, the guards know the latest receipt, which is that of a
\* tool that ran.
Sound(r) ==
    /\ r \in Turn
    /\ r.at # "done" => r.answer = "none" /\ (Clean(r) => r.queue = r.receipt)
    /\ Clean(r) /\ "queue" \notin r.ran => r.receipt = "none"
    /\ Fits(r.answer, r)

Good(r) == Sound(r) /\ (r.at = "tools" => r.calls # <<>>)

Endings == {"limit", "circuit open", "error", "cancelled", "clarification"}
Answers == Endings \cup {"prose", "no search", "no evidence", "queue partial", "queue failed"}

LEMMA NoCalls == <<>> \in Seq(Names)
OBVIOUS

LEMMA EndedIsGood ==
    ASSUME NEW r, Sound(r), NEW what \in Answers, Fits(what, r)
    PROVE  Good(Ended(r, what))
<1> DEFINE e == Ended(r, what)
<1>1. e \in Turn
  <2>1. /\ r.task \in {"download", "other"} /\ r.loop \in {"stream", "plain"}
        /\ r.offered \in SUBSET Tools /\ r.ran \in SUBSET Names
        /\ r.receipt \in {"none", "queued", "partial", "failed", "refused"}
    BY DEF Sound, Turn
  <2> QED
    BY <2>1, NoCalls DEF Ended, NewTurn, Turn, Endings, Answers
<1>2. /\ e.at = "done" /\ e.answer = what /\ e.task = r.task /\ e.loop = r.loop
      /\ e.offered = r.offered /\ e.ran = r.ran /\ e.receipt = r.receipt
  BY DEF Ended, NewTurn
<1>3. Good(e)
  <2> HIDE DEF e
  <2> QED
    BY <1>1, <1>2 DEF Good, Sound, Fits, Clean
<1> QED
  BY <1>3

\* All other ends are no statement about what has been done.
LEMMA EndingsFit ==
    ASSUME NEW r, NEW what \in Endings
    PROVE  Fits(what, r)
BY DEF Fits, Endings

LEMMA AgainIsGood ==
    ASSUME NEW r, Sound(r), r.at # "done"
    PROVE  Good(Again(r))
<1>1. CASE r.iter + 1 < MaxIterations
  <2> DEFINE e == [r EXCEPT !.at = "asking", !.iter = r.iter + 1]
  <2>1. e \in Turn
    <3>0. r \in Turn
      BY DEF Sound
    <3>1. r.iter \in Nat
      BY <3>0 DEF Turn
    <3> HIDE DEF e
    <3>2. r.iter + 1 \in Nat
      BY <3>1
    <3>3. \A n \in Nat : [r EXCEPT !.at = "asking", !.iter = n] \in Turn
      BY <3>0, Zenon DEF Turn
    <3> QED
      BY <3>2, <3>3 DEF e
  <2>2. /\ e.at = "asking" /\ e.answer = r.answer /\ e.task = r.task /\ e.loop = r.loop
        /\ e.offered = r.offered /\ e.ran = r.ran /\ e.receipt = r.receipt /\ e.queue = r.queue
    BY DEF Sound, Turn
  <2>3. Again(r) = e
    BY <1>1 DEF Again
  <2>4. Good(e)
    <3> HIDE DEF e
    <3> QED
      BY <2>1, <2>2 DEF Good, Sound, Fits, Clean
  <2> QED
    BY <2>3, <2>4
<1>2. CASE ~(r.iter + 1 < MaxIterations)
  BY <1>2, EndedIsGood, EndingsFit DEF Again, Endings, Answers
<1> QED
  BY <1>1, <1>2

\* A tool has run, or been refused: its result is recorded by the name that the
\* model asked for, and its receipt is the latest.
LEMMA RecordedIsGood ==
    ASSUME NEW r, Good(r), r.at # "done", NEW n \in Names,
           NEW result \in Results(Tool(n)) \cup {Refusal(Tool(n))}
    PROVE  LET e == Witnessed(Recorded(r, n, result), n, result)
           IN  Good(e) /\ e.at = r.at /\ e.calls = r.calls /\ e.inline = r.inline /\ e.loop = r.loop
<1> DEFINE e == Witnessed(Recorded(r, n, result), n, result)
<1>1. /\ e.at = r.at /\ e.calls = r.calls /\ e.inline = r.inline /\ e.loop = r.loop
      /\ e.answer = r.answer /\ e.task = r.task /\ e.offered = r.offered
      /\ e.ran = r.ran \cup {n}
      /\ e.queue = (IF n = "queue" THEN result ELSE r.queue)
      /\ e.receipt = (IF Tool(n) = "queue" THEN result ELSE r.receipt)
  BY DEF Good, Sound, Turn, Witnessed, Recorded
<1>2. Tool(n) = "queue" => result \in {"queued", "partial", "failed", "refused"}
  BY DEF Results, Refusal
<1>3. e \in Turn
  <2>0. r \in Turn
    BY DEF Good, Sound
  <2>1. Recorded(r, n, result) \in Turn
    <3>1. /\ r.ran \cup {n} \in SUBSET Names
          /\ (IF n = "queue" THEN result ELSE r.queue) \in
                 {"none", "queued", "partial", "failed", "refused"}
          /\ (IF n = "search" THEN result = "complete" ELSE r.covered) \in BOOLEAN
      BY <2>0, <1>2 DEF Turn, Tool
    <3> QED
      BY <2>0, <3>1, Zenon DEF Turn, Recorded
  <2> QED
    BY <1>2, <2>1 DEF Turn, Witnessed
<1>4. Clean(e) => n # "queue<|channel|>" /\ Clean(r)
  BY <1>1 DEF Clean
<1>5. n # "queue<|channel|>" => Tool(n) = n
  BY DEF Tool
<1>6. Good(e)
  <2> HIDE DEF e
  <2>1. Clean(e) => (r.queue = r.receipt /\ e.queue = e.receipt)
    BY <1>1, <1>4, <1>5 DEF Good, Sound
  <2>2. Clean(e) /\ "queue" \notin e.ran => e.receipt = "none"
    BY <1>1, <1>4, <1>5 DEF Good, Sound
  <2>3. e.answer = "none"
    BY <1>1 DEF Good, Sound
  <2> QED
    BY <1>1, <1>3, <2>1, <2>2, <2>3 DEF Good, Sound, Fits
<1> QED
  BY <1>1, <1>6

\* A turn that goes on with the same evidence.
LEMMA MovedIsGood ==
    ASSUME NEW r, Sound(r), r.at # "done", NEW e \in Turn, e.at # "done",
           e.at = "tools" => e.calls # <<>>, e.answer = r.answer, e.task = r.task,
           e.loop = r.loop, e.offered = r.offered, e.ran = r.ran, e.queue = r.queue,
           e.receipt = r.receipt
    PROVE  Good(e)
BY DEF Good, Sound, Fits, Clean

LEMMA CalledIsGood ==
    ASSUME NEW r, Good(r), r.at # "done",
           NEW calls \in Seq(Names), calls # <<>>, NEW inline \in BOOLEAN
    PROVE  Good([r EXCEPT !.at = "tools", !.calls = calls, !.inline = inline])
<1> DEFINE e == [r EXCEPT !.at = "tools", !.calls = calls, !.inline = inline]
<1>0. r \in Turn
  BY DEF Good, Sound
<1>1. e \in Turn
  BY <1>0, Zenon DEF Turn
<1>2. /\ e.at = "tools" /\ e.calls = calls /\ e.answer = r.answer /\ e.task = r.task
      /\ e.loop = r.loop /\ e.offered = r.offered /\ e.ran = r.ran /\ e.queue = r.queue
      /\ e.receipt = r.receipt
  BY <1>0 DEF Turn
<1> HIDE DEF e
<1>3. Good(e)
  BY <1>1, <1>2, MovedIsGood DEF Good
<1> QED
  BY <1>3 DEF e

\* The loop calls a tool itself, which it does once for each.
LEMMA ForcedIsGood ==
    ASSUME NEW r, Good(r), r.at # "done", NEW tool \in {"search", "status"}
    PROVE  Good([r EXCEPT !.at = "tools", !.calls = <<tool>>, !.inline = TRUE,
                          !.forced = @ \cup {tool}])
<1> DEFINE e == [r EXCEPT !.at = "tools", !.calls = <<tool>>, !.inline = TRUE,
                          !.forced = r.forced \cup {tool}]
<1>0. r \in Turn
  BY DEF Good, Sound
<1>1. <<tool>> \in Seq(Names) /\ <<tool>> # <<>>
  BY DEF Names, Tools, Operational
<1>2. r.forced \cup {tool} \in SUBSET {"search", "status"}
  <2>1. r.forced \in SUBSET {"search", "status"}
    BY <1>0 DEF Turn
  <2> QED
    BY <2>1
<1>3. e \in Turn
  BY <1>0, <1>1, <1>2, Zenon DEF Turn
<1>4. /\ e.at = "tools" /\ e.calls = <<tool>> /\ e.answer = r.answer /\ e.task = r.task
      /\ e.loop = r.loop /\ e.offered = r.offered /\ e.ran = r.ran /\ e.queue = r.queue
      /\ e.receipt = r.receipt
  BY <1>0 DEF Turn
<1>5. Good(e)
  <2> HIDE DEF e
  <2> QED
    BY <1>1, <1>3, <1>4, MovedIsGood DEF Good
<1> QED
  BY <1>5

LEMMA RepromptedIsGood ==
    ASSUME NEW r, Good(r), r.at = "waiting", NEW why \in {"tool", "evidence", "queue"}
    PROVE  Good(Again([r EXCEPT !.told = @ \cup {why}]))
<1> DEFINE e == [r EXCEPT !.told = r.told \cup {why}]
<1>0. r \in Turn
  BY DEF Good, Sound
<1>1. r.told \cup {why} \in SUBSET {"tool", "evidence", "queue"}
  <2>1. r.told \in SUBSET {"tool", "evidence", "queue"}
    BY <1>0 DEF Turn
  <2> QED
    BY <2>1
<1>2. e \in Turn
  BY <1>0, <1>1, Zenon DEF Turn
<1>3. /\ e.at = "waiting" /\ e.answer = r.answer /\ e.task = r.task /\ e.loop = r.loop
      /\ e.offered = r.offered /\ e.ran = r.ran /\ e.queue = r.queue /\ e.receipt = r.receipt
  BY <1>0 DEF Turn
<1>4. Good(e)
  <2> HIDE DEF e
  <2> QED
    BY <1>2, <1>3, MovedIsGood DEF Good
<1> QED
  BY <1>3, <1>4, AgainIsGood DEF Good

-----------------------------------------------------------------------------
(* All turns *)

AInv == turn \in [Turns -> Turn] /\ \A t \in Turns : Good(turn[t])

LEMMA SetKeeps ==
    ASSUME AInv, NEW t \in Turns, NEW r, Good(r), Set(t, r)
    PROVE  AInv'
<1>1. r \in Turn
  BY DEF Good, Sound
<1>2. turn' \in [Turns -> Turn] /\ \A u \in Turns : Good(turn'[u])
  BY <1>1 DEF Set, AInv
<1> QED
  BY <1>2 DEF AInv, Good, Sound, Fits, Clean, Turn

LEMMA DoneKeeps ==
    ASSUME AInv, NEW t \in Turns,
           NEW what \in Answers, Fits(what, turn[t]), Done(t, what)
    PROVE  AInv'
BY EndedIsGood, SetKeeps DEF AInv, Done, Good

LEMMA TurnBegins ==
    ASSUME AInv, NEW t \in Turns, Message(t)
    PROVE  AInv'
<1>1. PICK o \in Offers, literal \in BOOLEAN, n \in 0..MaxBatch :
        Set(t, [NewTurn EXCEPT
              !.at = IF n = 0 THEN "asking" ELSE "plan",
              !.task = o.task, !.loop = o.loop, !.offered = o.tools, !.literal = literal,
              !.calls = [i \in 1..n |-> "lookup"]])
  BY DEF Message
<1> DEFINE e == [NewTurn EXCEPT
              !.at = IF n = 0 THEN "asking" ELSE "plan",
              !.task = o.task, !.loop = o.loop, !.offered = o.tools, !.literal = literal,
              !.calls = [i \in 1..n |-> "lookup"]]
<1>2. o.task \in {"download", "other"} /\ o.loop \in {"stream", "plain"} /\ o.tools \in SUBSET Tools
  BY LoopAssumption DEF LoopAssumption
<1>3. [i \in 1..n |-> "lookup"] \in Seq(Names)
  BY LoopAssumption DEF LoopAssumption, Names, Tools
<1>4. e \in Turn
  BY <1>2, <1>3 DEF Turn, NewTurn
<1>5. /\ e.at \in {"asking", "plan"} /\ e.answer = "none" /\ e.queue = "none" /\ e.receipt = "none"
  BY DEF NewTurn
<1>6. Good(e)
  <2> HIDE DEF e
  <2> QED
    BY <1>4, <1>5 DEF Good, Sound, Fits
<1> QED
  BY <1>1, <1>6, SetKeeps

\* The text of the model as an answer: the guards know the latest receipt.
LEMMA AnswerFits ==
    ASSUME AInv, NEW t \in Turns, turn[t].at = "waiting", Presentable(t)
    PROVE  /\ turn[t].queue \notin {"partial", "failed", "refused"} => Fits("prose", turn[t])
           /\ turn[t].queue = "partial" => Fits("queue partial", turn[t])
           /\ turn[t].queue \in {"failed", "refused"} => Fits("queue failed", turn[t])
<1> DEFINE r == turn[t]
<1>1. Good(r) /\ r \in Turn
  BY DEF AInv
<1>2. r.queue \in {"none", "queued", "partial", "failed", "refused"} /\ r.loop \in {"stream", "plain"}
  BY <1>1 DEF Turn
<1>3. Clean(r) => r.queue = r.receipt
  BY <1>1 DEF Good, Sound
<1>4. r.task = "download" /\ r.offered \cap Operational # {} =>
        r.ran \cap Operational # {} \/ (r.loop = "plain" /\ r.ran = {})
  BY <1>2 DEF Presentable, Ungrounded, Starved, NeedsTool
<1> HIDE DEF r
<1>5. /\ r.queue \notin {"partial", "failed", "refused"} => Fits("prose", r)
      /\ r.queue = "partial" => Fits("queue partial", r)
      /\ r.queue \in {"failed", "refused"} => Fits("queue failed", r)
  BY <1>2, <1>3, <1>4 DEF Fits
<1> QED
  BY <1>5 DEF r

LEMMA TextKeeps ==
    ASSUME AInv, NEW t \in Turns, turn[t].at = "waiting", Text(t)
    PROVE  AInv'
<1>0. Good(turn[t]) /\ turn[t].at # "done"
  BY DEF AInv
<1>1. CASE BareCall(t)
  <2>1. <<"lookup">> \in Seq(Names) /\ <<"lookup">> # <<>>
    BY DEF Names, Tools
  <2> QED
    BY <1>0, <1>1, <2>1, CalledIsGood, SetKeeps DEF BareCall, Execute
<1>2. CASE ForceSearch(t) \/ ForceStatus(t)
  BY <1>0, <1>2, ForcedIsGood, SetKeeps DEF ForceSearch, ForceStatus, Forced
<1>3. CASE RepromptForTool(t) \/ RepromptForEvidence(t) \/ RepromptToQueue(t)
  BY <1>0, <1>3, RepromptedIsGood, SetKeeps
     DEF RepromptForTool, RepromptForEvidence, RepromptToQueue, Reprompt
<1>4. CASE NoSearch(t)
  <2>1. turn[t].ran = {}
    BY <1>4 DEF NoSearch, Starved
  <2>2. Fits("no search", turn[t])
    BY <1>0, <2>1 DEF Good, Sound, Fits, Clean
  <2> QED
    BY <1>4, <2>2, DoneKeeps DEF NoSearch, Answers
<1>5. CASE NoEvidence(t)
  <2>1. turn[t].ran \cap Operational = {}
    BY <1>5 DEF NoEvidence, Ungrounded
  <2>2. "queue" \notin turn[t].ran
    BY <2>1 DEF Operational
  <2>3. Fits("no evidence", turn[t])
    BY <1>0, <2>2 DEF Good, Sound, Fits
  <2> QED
    BY <1>5, <2>3, DoneKeeps DEF NoEvidence, Answers
<1>6. CASE Answer(t)
  <2> DEFINE what == CASE turn[t].queue = "partial" -> "queue partial"
                       [] turn[t].queue \in {"failed", "refused"} -> "queue failed"
                       [] OTHER -> "prose"
  <2>1. Presentable(t) /\ Done(t, what)
    BY <1>6 DEF Answer
  <2>2. what \in Answers /\ Fits(what, turn[t])
    BY <2>1, AnswerFits DEF Answers
  <2> QED
    BY <2>1, <2>2, DoneKeeps
<1> QED
  BY <1>1, <1>2, <1>3, <1>4, <1>5, <1>6 DEF Text

LEMMA ToolKeeps ==
    ASSUME AInv, NEW t \in Turns, RunTool(t)
    PROVE  AInv'
<1> DEFINE r == turn[t]
           n == Head(r.calls)
           After(result) == Witnessed(Recorded(r, n, result), n, result)
<1>1. Good(r) /\ r.at = "tools" /\ r.calls \in Seq(Names) /\ r.calls # <<>>
  BY DEF RunTool, AInv, Good, Turn
<1>2. n \in Names
  BY <1>1
<1>3. ASSUME NEW e, Good(e), e.at = "tools", e.calls = r.calls, AfterTools(t, e)
      PROVE  AInv'
  <2>0. e \in Turn
    BY <1>3 DEF Good, Sound
  <2>1. CASE Len(e.calls) > 1
    <3> DEFINE f == [e EXCEPT !.calls = Tail(e.calls)]
    <3>1. Tail(e.calls) \in Seq(Names) /\ Tail(e.calls) # <<>>
      BY <1>1, <1>3, <2>1
    <3>2. f \in Turn
      BY <2>0, <3>1, Zenon DEF Turn
    <3>3. /\ f.at = "tools" /\ f.calls = Tail(e.calls) /\ f.answer = e.answer /\ f.task = e.task
          /\ f.loop = e.loop /\ f.offered = e.offered /\ f.ran = e.ran /\ f.queue = e.queue
          /\ f.receipt = e.receipt
      BY <1>3, <2>0 DEF Turn
    <3>4. Good(f)
      <4> HIDE DEF f
      <4> QED
        BY <1>3, <3>1, <3>2, <3>3, MovedIsGood DEF Good
    <3>5. Set(t, f)
      BY <1>3, <2>1 DEF AfterTools
    <3> QED
      BY <3>4, <3>5, SetKeeps
  <2>2. CASE ~(Len(e.calls) > 1)
    <3>1. PICK enough \in BOOLEAN : Set(t, Again([e EXCEPT !.calls = <<>>, !.final = @ \/ enough]))
      BY <1>3, <2>2 DEF AfterTools
    <3> DEFINE f == [e EXCEPT !.calls = <<>>, !.final = e.final \/ enough]
    <3>2. (e.final \/ enough) \in BOOLEAN
      OBVIOUS
    <3>3. f \in Turn
      BY <2>0, <3>2, NoCalls, Zenon DEF Turn
    <3>4. /\ f.at = "tools" /\ f.answer = e.answer /\ f.task = e.task
          /\ f.loop = e.loop /\ f.offered = e.offered /\ f.ran = e.ran /\ f.queue = e.queue
          /\ f.receipt = e.receipt
      BY <1>3, <2>0 DEF Turn
    <3>5. Good(Again(f))
      <4> HIDE DEF f
      <4>1. Sound(f)
        BY <1>3, <3>3, <3>4 DEF Good, Sound, Fits, Clean
      <4> QED
        BY <3>4, <4>1, AgainIsGood
    <3> QED
      BY <3>1, <3>5, SetKeeps
  <2> QED
    BY <2>1, <2>2
<1>4. ASSUME NEW result \in Results(Tool(n)) \cup {Refusal(Tool(n))}
      PROVE  /\ Good(After(result)) /\ After(result).at = "tools" /\ After(result).calls = r.calls
             /\ Good(Ended(After(result), "clarification"))
  <2>1. Good(After(result)) /\ After(result).at = "tools" /\ After(result).calls = r.calls
    BY <1>1, <1>2, RecordedIsGood
  <2> QED
    BY <2>1, EndedIsGood, EndingsFit DEF Good, Endings, Answers
<1>5. CASE AfterTools(t, After(Refusal(Tool(n))))
  BY <1>3, <1>4, <1>5
<1>6. ASSUME NEW result \in Results(Tool(n)),
             \/ Set(t, Ended(After(result), "clarification"))
             \/ AfterTools(t, After(result))
      PROVE  AInv'
  BY <1>3, <1>4, <1>6, SetKeeps
<1> QED
  BY <1>5, <1>6 DEF RunTool

LEMMA PlanKeeps ==
    ASSUME AInv, NEW t \in Turns, PlanStep(t)
    PROVE  AInv'
<1> DEFINE r == turn[t]
<1>1. Good(r) /\ r \in Turn /\ r.at = "plan"
  BY DEF PlanStep, AInv
<1>2. \A calls \in Seq(Names), at \in {"plan", "asking"} :
        Good([r EXCEPT !.at = at, !.calls = calls])
  <2> SUFFICES ASSUME NEW calls \in Seq(Names), NEW at \in {"plan", "asking"}
               PROVE  Good([r EXCEPT !.at = at, !.calls = calls])
    OBVIOUS
  <2> DEFINE e == [r EXCEPT !.at = at, !.calls = calls]
  <2> HIDE DEF r
  <2>1. at \in {"new", "plan", "asking", "waiting", "tools", "done"}
    OBVIOUS
  <2>2. e \in Turn
    BY <1>1, <2>1, Zenon DEF Turn
  <2>3. /\ e.at = at /\ e.answer = r.answer /\ e.task = r.task /\ e.loop = r.loop
        /\ e.offered = r.offered /\ e.ran = r.ran /\ e.queue = r.queue /\ e.receipt = r.receipt
    BY <1>1 DEF Turn
  <2>4. Good(e)
    <3> HIDE DEF e
    <3> QED
      BY <1>1, <2>2, <2>3, MovedIsGood DEF Good
  <2> QED
    BY <2>4
<1>3. CASE Set(t, [r EXCEPT !.at = "asking", !.calls = <<>>])
  BY <1>2, <1>3, NoCalls, SetKeeps
<1>4. CASE Set(t, [r EXCEPT !.calls = Tail(@)]) /\ Len(r.calls) > 1
  <2>1. r.calls \in Seq(Names)
    BY <1>1 DEF Turn
  <2>2. Tail(r.calls) \in Seq(Names)
    BY <1>4, <2>1
  <2>3. [r EXCEPT !.calls = Tail(r.calls)] = [r EXCEPT !.at = "plan", !.calls = Tail(r.calls)]
    BY <1>1 DEF Turn
  <2> QED
    BY <1>2, <1>4, <2>2, <2>3, SetKeeps
<1> QED
  BY <1>3, <1>4 DEF PlanStep

LEMMA AskKeeps ==
    ASSUME AInv, NEW t \in Turns, Ask(t)
    PROVE  AInv'
<1> DEFINE r == turn[t]
           e == [r EXCEPT !.at = "waiting"]
<1>1. Good(r) /\ r \in Turn /\ r.at = "asking"
  BY DEF Ask, AInv
<1>2. CASE Done(t, "circuit open")
  BY <1>2, EndingsFit, DoneKeeps DEF Endings, Answers
<1>3. CASE Set(t, e)
  <2>1. e \in Turn
    BY <1>1, Zenon DEF Turn
  <2>2. /\ e.at = "waiting" /\ e.answer = r.answer /\ e.task = r.task /\ e.loop = r.loop
        /\ e.offered = r.offered /\ e.ran = r.ran /\ e.queue = r.queue /\ e.receipt = r.receipt
    BY <1>1 DEF Turn
  <2>3. Good(e)
    <3> HIDE DEF e, r
    <3> QED
      BY <1>1, <2>1, <2>2, MovedIsGood DEF Good
  <2> QED
    BY <1>3, <2>3, SetKeeps
<1> QED
  BY <1>2, <1>3 DEF Ask

LEMMA AInvInit == AInit => AInv
<1>1. NewTurn \in Turn
  BY NoCalls DEF NewTurn, Turn
<1>2. NewTurn.at = "new" /\ NewTurn.answer = "none" /\ NewTurn.queue = "none" /\ NewTurn.receipt = "none"
  BY DEF NewTurn
<1>3. Good(NewTurn)
  BY <1>1, <1>2 DEF Good, Sound, Fits
<1> QED
  BY <1>1, <1>3 DEF AInit, AInv

LEMMA AInvStep ==
    ASSUME AInv, [ANext]_avars
    PROVE  AInv'
<1>1. ASSUME UNCHANGED turn PROVE AInv'
  BY <1>1 DEF AInv, Good, Sound, Fits, Clean, Turn
<1>2. ASSUME NEW t \in Turns,
             \/ OverBudget(t) \/ ProviderFails(t) \/ StreamBreaks(t) \/ Cancel(t)
      PROVE  AInv'
  BY <1>2, EndingsFit, DoneKeeps
     DEF OverBudget, ProviderFails, StreamBreaks, Cancel, Endings, Answers
<1>3. ASSUME NEW t \in Turns, AsksForTools(t) PROVE AInv'
  <2>1. PICK n \in 1..MaxBatch : \E calls \in [1..n -> Asked] : Execute(t, calls, FALSE)
    BY <1>3 DEF AsksForTools
  <2>2. PICK calls \in [1..n -> Asked] : Execute(t, calls, FALSE)
    BY <2>1
  <2>3. calls \in Seq(Names) /\ calls # <<>>
    BY LoopAssumption DEF LoopAssumption
  <2>4. Good(turn[t]) /\ turn[t].at # "done"
    BY <1>3 DEF AInv, AsksForTools, Responds
  <2> QED
    BY <2>2, <2>3, <2>4, CalledIsGood, SetKeeps DEF Execute
<1>4. ASSUME NEW t \in Turns, Text(t) PROVE AInv'
  <2>1. turn[t].at = "waiting"
    BY <1>4 DEF Text, BareCall, ForceSearch, ForceStatus, RepromptForTool, NoSearch,
       RepromptForEvidence, NoEvidence, RepromptToQueue, Answer, Responds
  <2> QED
    BY <1>4, <2>1, TextKeeps
<1>5. CASE UNCHANGED avars
  BY <1>1, <1>5 DEF avars
<1> QED
  BY <1>1, <1>2, <1>3, <1>4, <1>5, TurnBegins, PlanKeeps, AskKeeps, ToolKeeps DEF ANext, Proceed, Waits

\* What the user is told of a queue command is what its latest receipt says, for
\* any sequence of tool calls, reprompts and reflections, as long as the provider
\* does not garble the name of the tool (unresolved_queue_failure,
\* partial_queue_failure, record).
THEOREM AnswersFollowReceipts == ASpec => []AnswerMatchesReceipt
<1>1. AInv => AnswerMatchesReceipt
  BY DEF AInv, Good, Sound, Fits, Clean, AnswerMatchesReceipt, Renamed
<1>2. AInv /\ [ANext]_avars => AInv'
  BY AInvStep
<1> QED
  BY <1>1, <1>2, AInvInit, PTL DEF ASpec

\* A download turn that was offered a tool to look with is not answered from
\* memory, except by the plain loop when no tool ran at all
\* (download_turn_requires_tool, has_operational_download_evidence).
THEOREM DownloadsAreLookedAt == ASpec => []NotFromMemory
<1>1. AInv => NotFromMemory
  BY DEF AInv, Good, Sound, Fits, NotFromMemory, NeedsTool
<1>2. AInv /\ [ANext]_avars => AInv'
  BY AInvStep
<1> QED
  BY <1>1, <1>2, AInvInit, PTL DEF ASpec

=============================================================================
