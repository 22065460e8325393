---------------------------- MODULE PromptScheduler ----------------------------
(***************************************************************************)
(* The user's scheduled prompts (src/src/core/prompt_scheduler.py):        *)
(* reminders, prompts and condition checks stored as rows of               *)
(* scheduled_tasks.  A tick reads the enabled rows, runs the due ones in   *)
(* turn, tells the user of the result through the notification service     *)
(* (Notifications, of which a tick is a caller) and writes the row back.   *)
(*                                                                         *)
(* A tick works on the rows as it read them.  It waits for the database,   *)
(* the assistant and the messaging bridges, while tasks are created and    *)
(* removed by chat turns, the assistant's own runs included.               *)
(***************************************************************************)
EXTENDS Notifications

CONSTANTS
    Tasks,         \* scheduled tasks, by id
    Kind,          \* "reminder", "scheduled_prompt" or "condition_check"
    MaxRuns,       \* max_runs of each: 1 for a one-off; 0 stands for no limit
    Ticks,         \* callers of run_due_tasks()
    MaxNotices,    \* bound: messages of one task
    NoRow          \* the row does not exist

\* The i-th message of a task: send_message() gives none a dedupe key.
NoticeOf(t, i) == <<t, i>>

TaskNotices == Tasks \X (1..MaxNotices)

ASSUME PromptsAssumption ==
    /\ Kind \in [Tasks -> {"reminder", "scheduled_prompt", "condition_check"}]
    /\ MaxRuns \in [Tasks -> Nat]
    /\ MaxNotices \in Nat
    /\ Ticks \subseteq Callers
    /\ TaskNotices \subseteq Notices \ Keyed
    /\ NoRow \notin Tasks \cup [enabled : BOOLEAN, count : Nat]

VARIABLES
    store,         \* scheduled_tasks: enabled and run_count of each row
    ripe,          \* the next run of the latest row written has come
    running,       \* PromptScheduler._running
    tick,          \* where each tick is and the rows it has read
    told,          \* history: messages each task has had sent
    answers        \* history: executions of each task that succeeded

promptVars == <<store, ripe, running, tick, told, answers>>

vars == <<noticeVars, promptVars>>

Idle == [at |-> "idle", rows |-> {}, task |-> NoRow,
         snap |-> [t \in Tasks |-> NoRow]]

Init ==
    /\ NoticesInit
    /\ store = [t \in Tasks |-> NoRow]
    /\ ripe = [t \in Tasks |-> FALSE]
    /\ running = FALSE
    /\ tick = [x \in Ticks |-> Idle]
    /\ told = [t \in Tasks |-> 0]
    /\ answers = [t \in Tasks |-> 0]

Current(x) == tick[x].task

Moves(x, at) == tick' = [tick EXCEPT ![x].at = at]

-----------------------------------------------------------------------------
(* The user's side *)

\* create_task(): ids are fresh, so a row is created once.
CreateTask(t) ==
    /\ store[t] = NoRow /\ answers[t] = 0 /\ ~ripe[t]
    /\ \A x \in Ticks : tick[x].snap[t] = NoRow
    /\ store' = [store EXCEPT ![t] = [enabled |-> TRUE, count |-> 0]]
    /\ UNCHANGED <<noticeVars, ripe, running, tick, told, answers>>

\* remove_task(): while a tick runs the task as well.
RemoveTask(t) ==
    /\ store[t] # NoRow
    /\ store' = [store EXCEPT ![t] = NoRow]
    /\ UNCHANGED <<noticeVars, ripe, running, tick, told, answers>>

\* The clock reaches the row's next run.
Ripen(t) ==
    /\ store[t] # NoRow /\ store[t].enabled
    /\ ~ripe[t]
    /\ ripe' = [ripe EXCEPT ![t] = TRUE]
    /\ UNCHANGED <<noticeVars, store, running, tick, told, answers>>

-----------------------------------------------------------------------------
(* run_due_tasks() *)

\* Mutant: ticks overlap.
TickStartAnyway(x) ==
    /\ tick[x].at = "idle"
    /\ running' = TRUE
    /\ Moves(x, "read")
    /\ UNCHANGED <<noticeVars, store, ripe, told, answers>>

\* The flag is taken before anything is awaited; a tick that finds it set
\* returns at once.
TickStart(x) ==
    /\ tick[x].at = "idle"
    /\ ~running
    /\ running' = TRUE
    /\ Moves(x, "read")
    /\ UNCHANGED <<noticeVars, store, ripe, told, answers>>

\* Read the enabled rows.  The order they are run in, by due time, is left out.
TickRead(x) ==
    /\ tick[x].at = "read"
    /\ tick' = [tick EXCEPT ![x].at = "pick", ![x].snap = store,
                  ![x].rows = {t \in Tasks : store[t] # NoRow /\ store[t].enabled}]
    /\ UNCHANGED <<noticeVars, store, ripe, running, told, answers>>

\* _is_due() is asked of the row as read, with the time as it is now.
TickPick(x, t) ==
    /\ tick[x].at = "pick"
    /\ t \in tick[x].rows
    /\ tick' = [tick EXCEPT ![x].rows = @ \ {t}, ![x].task = t,
                  ![x].at = IF ripe[t] THEN "execute" ELSE "pick"]
    /\ UNCHANGED <<noticeVars, store, ripe, running, told, answers>>

\* _execute_task(): a reminder is its own response; the assistant answers, or a
\* condition check answers that there is nothing to say.
Executed(x) ==
    /\ tick[x].at = "execute"
    /\ told[Current(x)] < MaxNotices
    /\ Moves(x, "notify")
    /\ UNCHANGED <<noticeVars, store, ripe, running, told, answers>>

Suppressed(x) ==
    /\ tick[x].at = "execute"
    /\ Kind[Current(x)] = "condition_check"
    /\ answers' = [answers EXCEPT ![Current(x)] = @ + 1]
    /\ Moves(x, "success")
    /\ UNCHANGED <<noticeVars, store, ripe, running, told>>

\* The assistant raises, or there is none.
ExecutionFails(x) ==
    /\ tick[x].at = "execute"
    /\ Kind[Current(x)] # "reminder"
    /\ Moves(x, "failure")
    /\ UNCHANGED <<noticeVars, store, ripe, running, told, answers>>

\* _send_response(): the tick calls notify() ...
Send(x) ==
    LET t == Current(x) IN
    /\ tick[x].at = "notify"
    /\ Lookup(x, NoticeOf(t, told[t] + 1))
    /\ told' = [told EXCEPT ![t] = @ + 1]
    /\ answers' = [answers EXCEPT ![t] = @ + 1]
    /\ Moves(x, "told")
    /\ UNCHANGED <<store, ripe, running>>

\* ... which never raises: whatever became of the message, the run succeeded.
Sent(x) ==
    /\ tick[x].at = "told"
    /\ courier[x].at = "next" /\ courier[x].todo = {}
    /\ courier' = [courier EXCEPT ![x] = Resting]
    /\ Moves(x, "success")
    /\ UNCHANGED <<row, fresh, bridge, delivery, troubles, sent, excused>>
    /\ UNCHANGED <<store, ripe, running, told, answers>>

\* _should_complete()
Complete(t, count) == MaxRuns[t] > 0 /\ count >= MaxRuns[t]

\* Mutant: a task runs once more than it was asked to.
CountedLate(t, old) == [enabled |-> old.enabled /\ ~Complete(t, old.count),
                        count |-> old.count + 1]

\* The row after a successful run of the one that was read.
Counted(t, old) == [enabled |-> old.enabled /\ ~Complete(t, old.count + 1),
                    count |-> old.count + 1]

\* _mark_success(): the row as read is counted and written over what is there,
\* nothing included: a task removed during its run is back.
MarkSuccess(x) ==
    LET t == Current(x) IN
    /\ tick[x].at = "success"
    /\ store' = [store EXCEPT ![t] = Counted(t, tick[x].snap[t])]
    /\ ripe' = [ripe EXCEPT ![t] = FALSE]
    /\ Moves(x, "pick")
    /\ UNCHANGED <<noticeVars, running, told, answers>>

\* The write raises.  The handler of a failed run takes over, with the task
\* object as it was counted.
MarkSuccessFails(x) ==
    LET t == Current(x) IN
    /\ tick[x].at = "success"
    /\ troubles < MaxTroubles
    /\ troubles' = troubles + 1
    /\ tick' = [tick EXCEPT ![x].at = "failure", ![x].snap[t] = Counted(t, @)]
    /\ UNCHANGED <<row, fresh, bridge, delivery, courier, sent, excused>>
    /\ UNCHANGED <<store, ripe, running, told, answers>>

\* _mark_failure(): the row as read, with a later run.
MarkFailure(x) ==
    LET t == Current(x) IN
    /\ tick[x].at = "failure"
    /\ store' = [store EXCEPT ![t] = tick[x].snap[t]]
    /\ ripe' = [ripe EXCEPT ![t] = FALSE]
    /\ Moves(x, "pick")
    /\ UNCHANGED <<noticeVars, running, told, answers>>

\* That write raises too: the tick ends with the rest of its rows undone.
MarkFailureFails(x) ==
    /\ tick[x].at = "failure"
    /\ troubles < MaxTroubles
    /\ troubles' = troubles + 1
    /\ running' = FALSE
    /\ tick' = [tick EXCEPT ![x] = Idle]
    /\ UNCHANGED <<row, fresh, bridge, delivery, courier, sent, excused>>
    /\ UNCHANGED <<store, ripe, told, answers>>

\* Mutant: the flag stays set.
TickEndHeld(x) ==
    /\ tick[x].at = "pick" /\ tick[x].rows = {}
    /\ tick' = [tick EXCEPT ![x] = Idle]
    /\ UNCHANGED <<noticeVars, store, ripe, running, told, answers>>

\* finally: self._running = False
TickEnd(x) ==
    /\ tick[x].at = "pick" /\ tick[x].rows = {}
    /\ running' = FALSE
    /\ tick' = [tick EXCEPT ![x] = Idle]
    /\ UNCHANGED <<noticeVars, store, ripe, told, answers>>

\* The process ends: the rows remain, and whatever was due is still due.
Crash ==
    /\ ServiceCrash
    /\ running' = FALSE
    /\ tick' = [x \in Ticks |-> Idle]
    /\ UNCHANGED <<store, ripe, told, answers>>

-----------------------------------------------------------------------------
\* Another caller of notify(): a finished download, a release that was found.
Notify(c) ==
    /\ c \notin Ticks
    /\ \E n \in Notices \ TaskNotices : Lookup(c, n)
    /\ UNCHANGED promptVars

Tick(x) ==
    \/ TickStart(x) \/ TickRead(x)
    \/ \E t \in Tasks : TickPick(x, t)
    \/ Executed(x) \/ Suppressed(x) \/ ExecutionFails(x)
    \/ Send(x) \/ Sent(x)
    \/ MarkSuccess(x) \/ MarkSuccessFails(x)
    \/ MarkFailure(x) \/ MarkFailureFails(x)
    \/ TickEnd(x)

Next ==
    \/ \E t \in Tasks : CreateTask(t) \/ RemoveTask(t) \/ Ripen(t)
    \/ \E x \in Ticks : Tick(x)
    \/ \E c \in Callers : Notify(c)
    \/ NoticesNext /\ UNCHANGED promptVars
    \/ Crash

\* What a tick's task does: its own steps and those of its call of notify().
TickTask(x) == Tick(x) \/ ((Persist(x) \/ Deliver(x)) /\ UNCHANGED promptVars)

\* The scheduler calls a tick every minute and its awaits return, the
\* assistant's and the bridges' included.
Fairness == \A x \in Ticks : WF_vars(TickTask(x))

Spec == Init /\ [][Next]_vars /\ Fairness

-----------------------------------------------------------------------------
Counts(t) == IF MaxRuns[t] > 0 THEN 0..MaxRuns[t] ELSE Nat

Rows == {f \in [Tasks -> [enabled : BOOLEAN, count : Nat] \cup {NoRow}] :
           \A t \in Tasks : f[t] # NoRow => f[t].count \in Counts(t)}

TickState == [at : {"idle", "read", "pick", "execute", "notify", "told", "success", "failure"},
              rows : SUBSET Tasks, task : Tasks \cup {NoRow}, snap : Rows]

TypeOK ==
    /\ NoticesTypeOK
    /\ store \in Rows
    /\ ripe \in [Tasks -> BOOLEAN]
    /\ running \in BOOLEAN
    /\ tick \in [Ticks -> TickState]
    /\ told \in [Tasks -> Nat]
    /\ answers \in [Tasks -> Nat]

\* The user hears from a task no more often than it was asked to run: only the
\* end of the process or a failed write between the message and its row, each
\* counted, makes a task speak once more.
ToldNoMoreThanAsked ==
    \A t \in Tasks : MaxRuns[t] > 0 => told[t] <= MaxRuns[t] + troubles

\* The stored count never runs ahead of the runs that succeeded, nor behind by
\* more than the one in progress and those a crash or a failed write lost, for
\* a row that was not removed.
CountMatchesRuns ==
    \A t \in Tasks : store[t] # NoRow =>
        /\ store[t].count <= answers[t]
        /\ answers[t] <= store[t].count + troubles
             + Cardinality({x \in Ticks : Current(x) = t /\ tick[x].at \in {"told", "success", "failure"}})

\* A due task is run, put off after a failure, completed or removed: a failed
\* task, a failed write or the end of the process never leaves the scheduler
\* standing with work that is due.
DueIsRun ==
    \A t \in Tasks :
        (ripe[t] /\ store[t] # NoRow /\ store[t].enabled)
            ~> (~ripe[t] \/ store[t] = NoRow \/ ~store[t].enabled)

=============================================================================
