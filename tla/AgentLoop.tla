------------------------------- MODULE AgentLoop -------------------------------
(***************************************************************************)
(* Turns of the assistant: the two loops that call the model and execute   *)
(* the tools it asks for (src/src/ai/streaming_agent_loop.py and           *)
(* src/src/ai/agent_loop.py), the plan that may run before them            *)
(* (plan_executor.py), the execution of one tool call (tool_executor.py)   *)
(* and the guards of the final answer (tool_outcome_guard.py,              *)
(* download_context_policy.py).                                            *)
(*                                                                         *)
(* All turns reach the model through one circuit breaker                   *)
(* (llm_task_runtime.py): a turn is one of the Calls of CircuitBreaker and *)
(* its call is in flight while it waits for the model.  The other Calls do *)
(* what CircuitBreaker lets any caller do, as these turns do in their turn.*)
(***************************************************************************)
EXTENDS CircuitBreaker, Sequences

CONSTANTS
    Turns,          \* the calls whose turns are modelled
    Offers,         \* the ways to start a turn: its task, its loop and its tools
    Asked,          \* the names of tools that the model asks for
    MaxIterations,  \* max_iterations
    MaxBatch        \* bound: tool calls of one response, steps of a plan

VARIABLE turn       \* the local variables of each run of a loop

avars == <<state, failures, multiplier, elapsed, call, turn>>

breaker == <<state, failures, multiplier, elapsed, call>>

\* search_media_torrents, queue_download, the other tools that look at current
\* downloads or candidates, and all the rest
Operational == {"search", "queue", "status"}
Tools == Operational \cup {"lookup"}

\* A provider may append a channel suffix to the name of a tool; the name is
\* repaired for the execution, and only there.
Names == Tools \cup {"queue<|channel|>"}

ASSUME LoopAssumption ==
    /\ Turns \subseteq Calls
    /\ Offers \subseteq
          [task : {"download", "other"}, loop : {"stream", "plain"}, tools : SUBSET Tools]
    /\ Asked \subseteq Names
    /\ MaxIterations \in Nat \ {0}
    /\ MaxBatch \in Nat

Tool(n) == IF n = "queue<|channel|>" THEN "queue" ELSE n

NewTurn == [
    at      |-> "new",      \* new, plan, asking, waiting, tools, done
    task    |-> "other",
    loop    |-> "stream",   \* which of the two loops
    offered |-> {},         \* allowed_tool_names
    literal |-> FALSE,      \* the prompt yields arguments for a forced search
    iter    |-> 0,
    calls   |-> <<>>,       \* tool calls to execute, by the names asked for
    inline  |-> FALSE,      \* the loop made the call itself, the model did not
    final   |-> FALSE,      \* force_final_response
    ran     |-> {},         \* executed_tool_names
    forced  |-> {},         \* forced_download_search_attempted and _status_
    told    |-> {},         \* the reprompts made so far
    queue   |-> "none",     \* ToolOutcomeLedger._latest_queue_result
    covered |-> FALSE,      \* _latest_search_result covers the request completely
    receipt |-> "none",     \* history: the latest result of the queue tool
    answer  |-> "none"]     \* what the user is given in the end

AInit == Init /\ turn = [t \in Turns |-> NewTurn]

Set(t, r) == turn' = [turn EXCEPT ![t] = r]

\* The loop returns: its local variables are gone.
Ended(r, what) ==
    [NewTurn EXCEPT !.at = "done", !.answer = what, !.task = r.task, !.loop = r.loop,
                    !.offered = r.offered, !.ran = r.ran, !.receipt = r.receipt]

Done(t, what) == Set(t, Ended(turn[t], what))

\* Mutant: the loop goes on for ever.
Unbounded(r) == [r EXCEPT !.at = "asking"]

\* The end of an iteration: the next one, or the message of the limit.
Again(r) ==
    IF r.iter + 1 < MaxIterations
    THEN [r EXCEPT !.at = "asking", !.iter = @ + 1]
    ELSE Ended(r, "limit")

-----------------------------------------------------------------------------
(* The circuit breaker, while the turn waits for the model *)

\* A message of the user, after the answer to the one before.  Downloads are
\* never planned (_uses_live_media_acquisition_loop).
Message(t) ==
    /\ turn[t].at \in {"new", "done"}
    /\ \E o \in Offers, literal \in BOOLEAN, n \in 0..MaxBatch :
        /\ IF o.task = "download" THEN n = 0 ELSE literal = FALSE
        /\ Set(t, [NewTurn EXCEPT
              !.at = IF n = 0 THEN "asking" ELSE "plan",
              !.task = o.task, !.loop = o.loop, !.offered = o.tools, !.literal = literal,
              !.calls = [i \in 1..n |-> "lookup"]])
    /\ UNCHANGED breaker

\* PlanExecutor: a step that fails, also for want of what it depends on, ends
\* the plan and not the turn.
PlanStep(t) ==
    LET r == turn[t] IN
    /\ r.at = "plan"
    /\ \E ok \in BOOLEAN :
        Set(t, IF ok /\ Len(r.calls) > 1
               THEN [r EXCEPT !.calls = Tail(@)]
               ELSE [r EXCEPT !.at = "asking", !.calls = <<>>])
    /\ UNCHANGED breaker

\* llm_breaker.call: CircuitOpenError ends the turn.
Ask(t) ==
    /\ turn[t].at = "asking"
    /\ Begin(t)
    /\ IF Observed = "open"
       THEN Done(t, "circuit open")
       ELSE Set(t, [turn[t] EXCEPT !.at = "waiting"])

\* The request does not fit the context window: it never reaches the breaker.
OverBudget(t) ==
    /\ turn[t].at = "asking"
    /\ Done(t, "error")
    /\ UNCHANGED breaker

ProviderFails(t) ==
    /\ turn[t].at = "waiting"
    /\ Fail(t)
    /\ Done(t, "error")

\* A stream breaks after it was opened, which is what the breaker saw.
StreamBreaks(t) ==
    /\ turn[t].at = "waiting"
    /\ turn[t].loop = "stream"
    /\ Succeed(t)
    /\ Done(t, "error")

\* CancelledError passes both loops.
Cancel(t) ==
    /\ turn[t].at \in {"plan", "waiting", "tools"}
    /\ IF turn[t].at = "waiting" THEN Abandon(t) ELSE UNCHANGED breaker
    /\ Done(t, "cancelled")

-----------------------------------------------------------------------------
(* The model answers *)

\* The response has arrived, with or without tool calls.
Responds(t) ==
    /\ turn[t].at = "waiting"
    /\ Succeed(t)

Execute(t, calls, inline) ==
    Set(t, [turn[t] EXCEPT !.at = "tools", !.calls = calls, !.inline = inline])

\* Tool calls; their prose is thrown away.
AsksForTools(t) ==
    /\ Responds(t)
    /\ turn[t].offered # {} /\ ~turn[t].final
    /\ \E n \in 1..MaxBatch : \E calls \in [1..n -> Asked] : Execute(t, calls, FALSE)

\* Text that is the arguments of a tool: BareToolCallDetector.
BareCall(t) ==
    /\ Responds(t)
    /\ "lookup" \in turn[t].offered
    /\ Execute(t, <<"lookup">>, TRUE)

\* download_turn_requires_tool
NeedsTool(t) == turn[t].task = "download" /\ turn[t].offered \cap Operational # {}

\* No tool has been executed, or none that says anything of current downloads.
Starved(t) == NeedsTool(t) /\ turn[t].ran = {}
Ungrounded(t) == NeedsTool(t) /\ turn[t].ran # {} /\ turn[t].ran \cap Operational = {}

CanForceSearch(t) ==
    "search" \notin turn[t].forced /\ "search" \in turn[t].offered /\ turn[t].literal
CanForceStatus(t) == "status" \notin turn[t].forced /\ "status" \in turn[t].offered

Forced(t, tool) ==
    Set(t, [turn[t] EXCEPT !.at = "tools", !.calls = <<tool>>, !.inline = TRUE,
                           !.forced = @ \cup {tool}])

ForceSearch(t) == Responds(t) /\ Starved(t) /\ CanForceSearch(t) /\ Forced(t, "search")
ForceStatus(t) == Responds(t) /\ Ungrounded(t) /\ CanForceStatus(t) /\ Forced(t, "status")

Reprompt(t, why) == Set(t, Again([turn[t] EXCEPT !.told = @ \cup {why}]))

\* Only the stream insists on a tool; the plain loop lets the text through.
RepromptForTool(t) ==
    /\ Responds(t)
    /\ turn[t].loop = "stream" /\ Starved(t) /\ ~CanForceSearch(t)
    /\ "tool" \notin turn[t].told
    /\ Reprompt(t, "tool")

\* Prose after that, or a response without any text.
NoSearch(t) ==
    /\ Responds(t)
    /\ turn[t].loop = "stream" /\ Starved(t) /\ ~CanForceSearch(t)
    /\ Done(t, "no search")

RepromptForEvidence(t) ==
    /\ Responds(t)
    /\ Ungrounded(t) /\ ~CanForceStatus(t)
    /\ "evidence" \notin turn[t].told
    /\ Reprompt(t, "evidence")

NoEvidence(t) ==
    /\ Responds(t)
    /\ Ungrounded(t) /\ ~CanForceStatus(t)
    /\ "evidence" \in turn[t].told
    /\ Done(t, "no evidence")

\* Mutant: only the stream checks for evidence.
LenientPresentable(t) == turn[t].loop = "stream" => ~Starved(t)

\* The text has come as far as the guards of its content.
Presentable(t) == ~Ungrounded(t) /\ (turn[t].loop = "stream" => ~Starved(t))

\* required_queue_followthrough
MustQueue(t) ==
    turn[t].queue = "none" /\ turn[t].covered /\ "queue" \notin turn[t].told

RepromptToQueue(t) == Responds(t) /\ Presentable(t) /\ MustQueue(t) /\ Reprompt(t, "queue")

\* partial_queue_failure and unresolved_queue_failure replace the prose.
Answer(t) ==
    /\ Responds(t)
    /\ Presentable(t) /\ ~MustQueue(t)
    /\ Done(t, CASE turn[t].queue = "partial" -> "queue partial"
                 [] turn[t].queue \in {"failed", "refused"} -> "queue failed"
                 [] OTHER -> "prose")

-----------------------------------------------------------------------------
(* Tools *)

\* What a tool may return: partial and failed receipts are those of a queue
\* command, also of one whose own receipt is not durable; a search may cover the
\* request completely, or find that the user must be asked.
Results(tool) ==
    CASE tool = "queue"  -> {"queued", "partial", "failed"}
      [] tool = "search" -> {"complete", "open", "ambiguous"}
      [] OTHER           -> {"ok"}

\* What a call that is refused is to the ledger.
Refusal(tool) == IF tool = "queue" THEN "refused" ELSE "open"

\* Mutant: the first receipt counts, not the latest.
RecordedFirst(r, n, result) ==
    [r EXCEPT !.ran = @ \cup {n},
              !.queue = IF n = "queue" /\ @ = "none" THEN result ELSE @,
              !.covered = IF n = "search" THEN result = "complete" ELSE @]

\* executed_tool_names.add and ToolOutcomeLedger.record, by the name asked for
Recorded(r, n, result) ==
    [r EXCEPT !.ran = @ \cup {n},
              !.queue = IF n = "queue" THEN result ELSE @,
              !.covered = IF n = "search" THEN result = "complete" ELSE @]

Witnessed(r, n, result) ==
    [r EXCEPT !.receipt = IF Tool(n) = "queue" THEN result ELSE @]

\* After the last call of a response: the plain loop may reflect that the
\* evidence is sufficient and take the tools away.
AfterTools(t, r) ==
    IF Len(r.calls) > 1
    THEN Set(t, [r EXCEPT !.calls = Tail(@)])
    ELSE \E enough \in BOOLEAN :
            /\ enough => r.loop = "plain" /\ ~r.inline
            /\ Set(t, Again([r EXCEPT !.calls = <<>>, !.final = @ \/ enough]))

\* execute_tool_call: a tool that is not offered, arguments that do not fit and
\* an exception are results like any other.  Only the stream ends with a
\* question that a tool asks, and not when it made the call itself.
RunTool(t) ==
    LET r == turn[t]
        n == Head(r.calls)
        After(result) == Witnessed(Recorded(r, n, result), n, result)
    IN
    /\ r.at = "tools"
    /\ \/ AfterTools(t, After(Refusal(Tool(n))))
       \/ /\ Tool(n) \in r.offered
          /\ \E result \in Results(Tool(n)) :
               IF result = "ambiguous" /\ r.loop = "stream" /\ ~r.inline
               THEN Set(t, Ended(After(result), "clarification"))
               ELSE AfterTools(t, After(result))
    /\ UNCHANGED breaker

-----------------------------------------------------------------------------

Text(t) ==
    \/ BareCall(t)
    \/ ForceSearch(t) \/ ForceStatus(t)
    \/ RepromptForTool(t) \/ NoSearch(t)
    \/ RepromptForEvidence(t) \/ NoEvidence(t)
    \/ RepromptToQueue(t) \/ Answer(t)

Waits(t) == ProviderFails(t) \/ StreamBreaks(t) \/ AsksForTools(t) \/ Text(t)

\* What a turn does of itself.
Proceed(t) == PlanStep(t) \/ Ask(t) \/ OverBudget(t) \/ Waits(t) \/ RunTool(t)

Other(c) == Begin(c) \/ Succeed(c) \/ Fail(c) \/ Abandon(c)

ANext ==
    \/ Elapse /\ UNCHANGED turn
    \/ Reset /\ UNCHANGED turn
    \/ \E c \in Calls \ Turns : Other(c) /\ UNCHANGED turn
    \/ \E t \in Turns : Message(t) \/ Proceed(t) \/ Cancel(t)

ASpec == AInit /\ [][ANext]_avars

\* The model and the tools answer or fail: both have timeouts.  Nothing is
\* assumed of users, of other calls or of time.
AFairness == \A t \in Turns : WF_avars(Proceed(t))

AFairSpec == ASpec /\ AFairness

-----------------------------------------------------------------------------
(* Properties *)

ATypeOK ==
    /\ TypeOK
    /\ \A t \in Turns : turn[t].at \in {"new", "plan", "asking", "waiting", "tools", "done"}
    /\ \A t \in Turns : turn[t].iter \in 0..(MaxIterations - 1)

Renamed(t) == "queue<|channel|>" \in turn[t].ran

\* What the user is told of a queue command is what its latest receipt says: the
\* model's prose is not shown over a failed or partial one, nor a failure over a
\* success (tool_outcome_guard.py:3-5), unless the provider garbled the name of the
\* tool.  Several calls, reprompts and reflections may come in between.
AnswerMatchesReceipt ==
    \A t \in Turns : turn[t].at = "done" /\ ~Renamed(t) =>
        /\ turn[t].answer = "prose" => turn[t].receipt \in {"none", "queued"}
        /\ turn[t].answer = "queue partial" => turn[t].receipt = "partial"
        /\ turn[t].answer = "queue failed" => turn[t].receipt \in {"failed", "refused"}
        /\ turn[t].answer \in {"no search", "no evidence"} => turn[t].receipt = "none"

\* A download turn that has been offered a tool to look with is not answered from
\* memory or metadata alone; the one exception is a plain turn in which no tool ran.
NotFromMemory ==
    \A t \in Turns :
        turn[t].answer = "prose" /\ NeedsTool(t) =>
            turn[t].ran \cap Operational # {} \/ (turn[t].loop = "plain" /\ turn[t].ran = {})

\* tool_outcome_guard.py:3: the model "must never contradict a state-changing tool
\* receipt".
NeverContradictsReceipt ==
    \A t \in Turns : turn[t].answer = "prose" => turn[t].receipt \notin {"partial", "failed"}

\* Every turn comes to an answer, whatever the model asks for, and also when the
\* circuit opens under it.
TurnsEnd == \A t \in Turns : turn[t].at = "asking" ~> turn[t].at = "done"

\* No response of the model is waited for by a turn that has ended, and none is on
\* its way that no turn waits for: the circuit counts each once.
CallsAreWaitedFor == \A t \in Turns : call[t] = "in_flight" <=> turn[t].at = "waiting"

=============================================================================
