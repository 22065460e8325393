--------------------------- MODULE MCPromptScheduler ---------------------------
(***************************************************************************)
(* A small instance of PromptScheduler: a one-off reminder and a condition *)
(* check, two callers of the tick, two tasks that report the same finished *)
(* download, and a Telegram adapter that is restarted with the same chat.  *)
(***************************************************************************)
EXTENDS PromptScheduler

CONSTANTS reminder, check, x, y, p, q, b1, b2, done, telegram

MCKind == [t \in Tasks |-> IF t = reminder THEN "reminder" ELSE "condition_check"]
MCMaxRuns == [t \in Tasks |-> IF t = reminder THEN 1 ELSE 2]
MCKeyOf == [b \in Bridges |-> telegram]
MCNotices == TaskNotices \cup {done}

VARIABLE cast      \* who takes part in the behaviour, chosen at the start

\* Bound: both tasks without bridges, the reminder with one bridge, or the
\* reports and the adapters, three at a time, without the scheduler.
Casts == {[tasks |-> {reminder, check}, others |-> {}],
          [tasks |-> {reminder}, others |-> {b1}],
          [tasks |-> {}, others |-> {p, q, b1}],
          [tasks |-> {}, others |-> {p, b1, b2}]}

InCast ==
    /\ \A t \in Tasks \ cast.tasks : store[t] = NoRow
    /\ \A c \in Couriers \ (Ticks \cup cast.others) : courier[c].at = "new"
    /\ cast.tasks = {} => \A z \in Ticks : tick[z].at = "idle"

MCInit == Init /\ cast \in Casts

MCNext == Next /\ UNCHANGED cast /\ InCast'

MCSpec == MCInit /\ [][MCNext]_<<vars, cast>> /\ Fairness

=============================================================================
