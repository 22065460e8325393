------------------------- MODULE TaskSupervisorProofs -------------------------
(***************************************************************************)
(* Proofs about TaskSupervisor, for any names, criticalities, number of    *)
(* restarts and number of spawns: its types, and that no restartable task  *)
(* dies silently.                                                          *)
(***************************************************************************)
EXTENDS TaskSupervisor, FiniteSetTheorems, TLAPS

\* A restart is booked before its helper goes to sleep.
SleepsBooked == \A n \in Names : sleeping[n] <= count[n]

\* The registry holds a task under its own name, and a task that can still act
\* has one.
TasksNamed ==
    /\ \A n \in Names \cup Shots : tracked[n] # NoTask => name[tracked[n]] = n /\ state[tracked[n]] # "none"
    /\ \A t \in Tasks : Alive(t) => name[t] \in Names \cup Shots

\* Until the program shuts down, a name that is wanted has a factory.
WantedHasFactory == ~ShuttingDown => wanted \subseteq spec

IInv == TypeOK /\ SleepsBooked /\ TasksNamed /\ WantedHasFactory /\ NoSilentDeath

\* A task is not the absence of one.
LEMMA NoTaskIsNone == NoTask \notin Tasks
BY DEF NoTask, Tasks

LEMMA InitHolds == Init => IInv
<1> SUFFICES ASSUME Init PROVE IInv
    OBVIOUS
<1> USE SupervisorAssumption
<1>1. TypeOK
      BY DEF Init, TypeOK
<1>2. SleepsBooked /\ TasksNamed
      BY DEF Init, SleepsBooked, TasksNamed, Alive, NoTask
<1>3. WantedHasFactory /\ NoSilentDeath
      BY DEF Init, WantedHasFactory, NoSilentDeath
<1> QED BY <1>1, <1>2, <1>3 DEF IInv

\* The part of the invariant the names and states of tasks decide.
LEMMA CreateNames ==
    ASSUME IInv, NEW t \in Tasks, NEW n \in Names \cup Shots, NEW cancelled, Create(t, n, cancelled)
    PROVE  /\ name' \in [Tasks -> Names \cup Shots \cup {"none"}]
           /\ state' \in [Tasks -> {"none", "ready", "running", "unwinding", "ended", "gone"}]
           /\ name'[t] = n /\ state'[t] = "ready"
           /\ \A u \in Tasks \ {t} : name'[u] = name[u] /\ (u \notin cancelled => state'[u] = state[u])
           /\ \A u \in Tasks \ {t} : Alive(u)' => Alive(u)
           /\ \A u \in Tasks : Alive(u) => u # t
BY DEF IInv, TypeOK, Create, Signalled, Alive

\* What the creation of a task n does to the invariant, once the registry holds
\* the task or, if n is a one-shot task, may hold it.
LEMMA CreateKeeps ==
    ASSUME IInv, NEW t \in Tasks, NEW n \in Names \cup Shots, NEW cancelled, Create(t, n, cancelled),
           cancelled \subseteq {tracked[n]}, cancelled = {} \/ n \in Names,
           tracked' \in {tracked, [tracked EXCEPT ![n] = t]},
           wanted' = wanted \/ (wanted' = wanted \cup {n} /\ n \in Names),
           UNCHANGED <<count, reported, shutdown>>,
           \A k \in Names : k = n \/ sleeping'[k] = sleeping[k]
    PROVE  TasksNamed' /\ NoSilentDeath'
<1>1. TasksNamed'
  <2>1. ASSUME NEW k \in Names \cup Shots, tracked'[k] # NoTask
        PROVE  name'[tracked'[k]] = k /\ state'[tracked'[k]] # "none"
    <3>1. CASE tracked'[k] = t
          BY <3>1, CreateNames, <2>1 DEF IInv, TypeOK, TasksNamed, Create
    <3>2. CASE tracked'[k] # t
      <4>1. tracked'[k] = tracked[k] /\ tracked[k] \in Tasks
            BY <3>2, <2>1 DEF IInv, TypeOK
      <4>2. state'[tracked[k]] # "none"
            BY <4>1, <3>2, <2>1 DEF IInv, TypeOK, TasksNamed, Create, Signalled
      <4> QED BY <4>1, <4>2, <3>2, <2>1, CreateNames DEF IInv, TasksNamed
    <3> QED BY <3>1, <3>2
  <2>2. \A u \in Tasks : Alive(u)' => name'[u] \in Names \cup Shots
        BY CreateNames DEF IInv, TasksNamed
  <2> QED BY <2>1, <2>2 DEF TasksNamed
<1>2. ASSUME NEW k \in wanted', ~ShuttingDown', Criticality[k] # "BEST_EFFORT", k # n
      PROVE  \/ \E u \in Tasks : name'[u] = k /\ state'[u] \in {"ready", "running"}
             \/ sleeping'[k] > 0
             \/ count'[k] = MAX_RESTARTS /\ (Criticality[k] = "CRITICAL" => k \in reported')
  <2>1. k \in wanted /\ k \in Names
        BY <1>2 DEF IInv, TypeOK
  <2>2. CASE \E u \in Tasks : name[u] = k /\ state[u] \in {"ready", "running"}
    <3>1. PICK u \in Tasks : name[u] = k /\ state[u] \in {"ready", "running"}
          BY <2>2
    <3>2. u # t /\ u \notin cancelled
          BY <3>1, <1>2, CreateNames, NoTaskIsNone DEF Alive, IInv, TasksNamed
    <3> QED BY <3>1, <3>2, CreateNames
  <2> QED BY <2>1, <2>2, <1>2 DEF IInv, NoSilentDeath, ShuttingDown
<1>3. name'[t] = n /\ state'[t] = "ready"
      BY CreateNames
<1> QED BY <1>1, <1>2, <1>3 DEF NoSilentDeath

LEMMA SpawnRestartableHolds ==
    ASSUME IInv, NEW n \in Names, SpawnRestartable(n)
    PROVE  IInv'
<1> USE SupervisorAssumption
<1>1. PICK t \in Tasks : Create(t, n, {tracked[n]}) /\ tracked' = [tracked EXCEPT ![n] = t]
      BY DEF SpawnRestartable
<1>2. TypeOK'
      BY <1>1, CreateNames DEF SpawnRestartable, Spawns, IInv, TypeOK, teardown
<1>3. SleepsBooked' /\ WantedHasFactory'
      BY DEF SpawnRestartable, IInv, SleepsBooked, WantedHasFactory, ShuttingDown, teardown
<1>4. TasksNamed' /\ NoSilentDeath'
      BY <1>1, CreateKeeps DEF SpawnRestartable, teardown
<1> QED BY <1>2, <1>3, <1>4 DEF IInv

LEMMA SpawnOneShotHolds ==
    ASSUME IInv, NEW n \in Shots, SpawnOneShot(n)
    PROVE  IInv'
<1> USE SupervisorAssumption
<1>1. PICK t \in Tasks :
         /\ Create(t, n, {})
         /\ tracked' \in {tracked, [tracked EXCEPT ![n] = t]}
         /\ extra' \in {extra, extra \cup {t}}
      BY DEF SpawnOneShot
<1>2. TypeOK'
      BY <1>1, CreateNames DEF SpawnOneShot, Spawns, IInv, TypeOK, teardown
<1>3. SleepsBooked' /\ WantedHasFactory'
      BY DEF SpawnOneShot, IInv, SleepsBooked, WantedHasFactory, ShuttingDown, teardown
<1>4. TasksNamed' /\ NoSilentDeath'
      BY <1>1, CreateKeeps DEF SpawnOneShot, teardown
<1> QED BY <1>2, <1>3, <1>4 DEF IInv

LEMMA CancelHolds ==
    ASSUME IInv, NEW n \in Names \cup Shots, Cancel(n)
    PROVE  IInv'
<1> USE SupervisorAssumption
<1>0. /\ tracked[n] \in Tasks /\ name[tracked[n]] = n
      /\ state' = [state EXCEPT ![tracked[n]] = Signalled(tracked[n])]
      BY DEF Cancel, IInv, TypeOK, TasksNamed
<1>1. /\ state' \in [Tasks -> {"none", "ready", "running", "unwinding", "ended", "gone"}]
      /\ \A u \in Tasks : name[u] # n => state'[u] = state[u]
      /\ \A u \in Tasks : Alive(u)' => Alive(u)
      BY <1>0 DEF IInv, TypeOK, Signalled, Alive
<1>2. TypeOK'
      BY <1>1 DEF Cancel, IInv, TypeOK, teardown
<1>3. SleepsBooked' /\ WantedHasFactory'
      BY DEF Cancel, IInv, SleepsBooked, WantedHasFactory, ShuttingDown, teardown
<1>4. TasksNamed'
      BY <1>1 DEF Cancel, IInv, TypeOK, TasksNamed, Alive
<1>5. NoSilentDeath'
      BY <1>1 DEF Cancel, IInv, TypeOK, NoSilentDeath, ShuttingDown, teardown
<1> QED BY <1>2, <1>3, <1>4, <1>5 DEF IInv

LEMMA RunHolds ==
    ASSUME IInv, NEW t \in Tasks, Run(t)
    PROVE  IInv'
<1> USE SupervisorAssumption DEF registry, teardown
<1>1. /\ state' \in [Tasks -> {"none", "ready", "running", "unwinding", "ended", "gone"}]
      /\ \A u \in Tasks : u # t => state'[u] = state[u]
      /\ state[t] = "ready"
      /\ state'[t] \in {"ended", "running"} /\ (~ShuttingDown => state'[t] = "running")
      BY DEF Run, IInv, TypeOK
<1>2. TypeOK'
      BY <1>1 DEF Run, IInv, TypeOK
<1>3. SleepsBooked' /\ WantedHasFactory'
      BY DEF Run, IInv, SleepsBooked, WantedHasFactory, ShuttingDown
<1>4. TasksNamed'
      BY <1>1 DEF Run, IInv, TypeOK, TasksNamed, Alive
<1>5. NoSilentDeath'
      BY <1>1 DEF Run, IInv, TypeOK, NoSilentDeath, ShuttingDown
<1> QED BY <1>2, <1>3, <1>4, <1>5 DEF IInv

LEMMA EndHolds ==
    ASSUME IInv, NEW t \in Tasks, End(t)
    PROVE  IInv'
<1> USE SupervisorAssumption DEF registry, teardown
<1>1. /\ state' \in [Tasks -> {"none", "ready", "running", "unwinding", "ended", "gone"}]
      /\ \A u \in Tasks : u # t => state'[u] = state[u]
      /\ state[t] \in {"running", "unwinding"} /\ state'[t] = "ended"
      /\ wanted' = IF state[t] = "running" THEN wanted \ {name[t]} ELSE wanted
      BY DEF End, IInv, TypeOK
<1>2. TypeOK'
      BY <1>1 DEF End, IInv, TypeOK
<1>3. SleepsBooked' /\ WantedHasFactory'
      BY DEF End, IInv, SleepsBooked, WantedHasFactory, ShuttingDown
<1>4. TasksNamed'
      BY <1>1 DEF End, IInv, TypeOK, TasksNamed, Alive
<1>5. NoSilentDeath'
      BY <1>1 DEF End, IInv, TypeOK, NoSilentDeath, ShuttingDown
<1> QED BY <1>2, <1>3, <1>4, <1>5 DEF IInv

\* A crash is answered by a booked restart, by a report, or not at all.
LEMMA CrashHolds ==
    ASSUME IInv, NEW t \in Tasks, Crash(t)
    PROVE  IInv'
<1> USE SupervisorAssumption DEF registry, teardown
<1> DEFINE n == name[t]
<1>0. n \in Names \cup Shots
      BY DEF Crash, IInv, TasksNamed, Alive
<1>1. /\ state' \in [Tasks -> {"none", "ready", "running", "unwinding", "ended", "gone"}]
      /\ \A u \in Tasks : u # t => state'[u] = state[u]
      /\ state[t] \in {"running", "unwinding"} /\ state'[t] = "ended"
      BY DEF Crash, IInv, TypeOK
<1>2. UNCHANGED <<name, tracked, extra, spec, shutdown, awaited, wanted, spawns>>
      BY DEF Crash
<1>3. TasksNamed'
      BY <1>1, <1>2 DEF IInv, TypeOK, TasksNamed, Alive
<1>4. WantedHasFactory'
      BY <1>2 DEF IInv, WantedHasFactory, ShuttingDown
<1>5. \A k \in wanted :
         /\ k # n \/ state[t] = "unwinding"
         /\ \E u \in Tasks : name[u] = k /\ state[u] \in {"ready", "running"}
         => \E u \in Tasks : name'[u] = k /\ state'[u] \in {"ready", "running"}
      BY <1>1, <1>2
<1>6. CASE ShuttingDown \/ n \in Shots \/ Criticality[n] = "BEST_EFFORT"
  <2>1. UNCHANGED <<count, sleeping, reported>>
        BY <1>6 DEF Crash
  <2>2. TypeOK' /\ SleepsBooked'
        BY <2>1, <1>1, <1>2 DEF IInv, TypeOK, SleepsBooked
  <2>3. NoSilentDeath'
        BY <2>1, <1>2, <1>5, <1>6 DEF IInv, TypeOK, NoSilentDeath, ShuttingDown
  <2> QED BY <2>2, <2>3, <1>3, <1>4 DEF IInv
<1>7. CASE ~(ShuttingDown \/ n \in Shots \/ Criticality[n] = "BEST_EFFORT") /\ count[n] < MAX_RESTARTS
  <2>0. n \in Names
        BY <1>0, <1>7
  <2>1. /\ count' = [count EXCEPT ![n] = @ + 1]
        /\ sleeping' = [sleeping EXCEPT ![n] = IF n \in spec THEN @ + 1 ELSE @]
        /\ UNCHANGED reported
        BY <1>7 DEF Crash
  <2>2. sleeping[n] <= count[n]
        BY <2>0 DEF IInv, SleepsBooked
  <2>3. TypeOK'
        BY <2>0, <2>1, <2>2, <1>1, <1>2, <1>7 DEF IInv, TypeOK
  <2>4. SleepsBooked'
        BY <2>0, <2>1, <2>2 DEF IInv, TypeOK, SleepsBooked
  <2>5. n \in wanted => sleeping'[n] > 0
        BY <2>0, <2>1, <1>7 DEF IInv, TypeOK, WantedHasFactory
  <2>6. \A k \in Names : k # n => count'[k] = count[k] /\ sleeping'[k] = sleeping[k]
        BY <2>0, <2>1 DEF IInv, TypeOK
  <2>7. NoSilentDeath'
        BY <2>1, <2>5, <2>6, <1>2, <1>5 DEF IInv, TypeOK, NoSilentDeath, ShuttingDown
  <2> QED BY <2>3, <2>4, <2>7, <1>3, <1>4 DEF IInv
<1>8. CASE ~(ShuttingDown \/ n \in Shots \/ Criticality[n] = "BEST_EFFORT") /\ ~(count[n] < MAX_RESTARTS)
  <2>0. n \in Names
        BY <1>0, <1>8
  <2>1. /\ reported' = IF Criticality[n] = "CRITICAL" THEN reported \cup {n} ELSE reported
        /\ UNCHANGED <<count, sleeping>>
        BY <1>8 DEF Crash
  <2>2. TypeOK' /\ SleepsBooked'
        BY <2>0, <2>1, <1>1, <1>2 DEF IInv, TypeOK, SleepsBooked
  <2>3. count[n] = MAX_RESTARTS
        BY <2>0, <1>8 DEF IInv, TypeOK
  <2>4. NoSilentDeath'
        BY <2>1, <2>3, <1>2, <1>5 DEF IInv, TypeOK, NoSilentDeath, ShuttingDown
  <2> QED BY <2>2, <2>4, <1>3, <1>4 DEF IInv
<1> QED BY <1>6, <1>7, <1>8

LEMMA RestartHolds ==
    ASSUME IInv, NEW n \in Names, Restart(n)
    PROVE  IInv'
<1> USE SupervisorAssumption DEF teardown
<1>0. /\ sleeping' = [sleeping EXCEPT ![n] = @ - 1]
      /\ sleeping[n] > 0
      /\ UNCHANGED <<extra, spec, count, shutdown, awaited, wanted, reported, spawns>>
      BY DEF Restart
<1>1. SleepsBooked' /\ sleeping' \in [Names -> 0..MAX_RESTARTS]
      BY <1>0 DEF IInv, TypeOK, SleepsBooked
<1>2. WantedHasFactory'
      BY <1>0 DEF IInv, WantedHasFactory, ShuttingDown
<1>3. CASE ShuttingDown
  <2>1. UNCHANGED <<name, state, tracked>>
        BY <1>3 DEF Restart
  <2>2. TypeOK' /\ TasksNamed'
        BY <2>1, <1>0, <1>1 DEF IInv, TypeOK, TasksNamed, Alive
  <2>3. NoSilentDeath'
        BY <1>0, <1>3 DEF NoSilentDeath, ShuttingDown
  <2> QED BY <2>2, <2>3, <1>1, <1>2 DEF IInv
<1>4. CASE ~ShuttingDown
  <2>1. PICK t \in Tasks : Create(t, n, {}) /\ tracked' = [tracked EXCEPT ![n] = t]
        BY <1>4 DEF Restart
  <2>2. TypeOK'
        BY <2>1, <1>0, <1>1, CreateNames DEF IInv, TypeOK
  <2>3. \A k \in Names : k = n \/ sleeping'[k] = sleeping[k]
        BY <1>0 DEF IInv, TypeOK
  <2>4. TasksNamed' /\ NoSilentDeath'
        BY <2>1, <2>3, <1>0, CreateKeeps
  <2> QED BY <2>2, <2>4, <1>1, <1>2 DEF IInv
<1> QED BY <1>3, <1>4

LEMMA CleanupHolds ==
    ASSUME IInv, NEW t \in Tasks, Cleanup(t)
    PROVE  IInv'
<1> USE SupervisorAssumption DEF teardown
<1>1. /\ state' \in [Tasks -> {"none", "ready", "running", "unwinding", "ended", "gone"}]
      /\ \A u \in Tasks : u # t => state'[u] = state[u]
      /\ state[t] = "ended" /\ state'[t] = "gone" /\ name[t] \in Shots
      /\ tracked' \in {tracked, [tracked EXCEPT ![name[t]] = NoTask]}
      /\ extra' \in {extra, extra \ {t}}
      BY DEF Cleanup, IInv, TypeOK
<1>2. TypeOK'
      BY <1>1 DEF Cleanup, IInv, TypeOK
<1>3. SleepsBooked' /\ WantedHasFactory'
      BY DEF Cleanup, IInv, SleepsBooked, WantedHasFactory, ShuttingDown
<1>4. TasksNamed'
      BY <1>1 DEF Cleanup, IInv, TypeOK, TasksNamed, Alive
<1>5. NoSilentDeath'
      BY <1>1 DEF Cleanup, IInv, TypeOK, NoSilentDeath, ShuttingDown
<1> QED BY <1>2, <1>3, <1>4, <1>5 DEF IInv

\* Once the shutdown has begun nothing is promised of the names any more.
LEMMA ShutdownHolds ==
    ASSUME IInv, ShutdownBegins \/ ShutdownEnds \/ ShutdownGivenUp
    PROVE  IInv'
<1> USE SupervisorAssumption DEF registry
<1>1. /\ ShuttingDown' /\ shutdown' \in {"waiting", "done", "given_up"}
      /\ UNCHANGED <<name, count, sleeping, wanted, reported, spawns>>
      BY DEF ShutdownBegins, ShutdownEnds, ShutdownGivenUp, ShuttingDown
<1>2. /\ state' \in [Tasks -> {"none", "ready", "running", "unwinding", "ended", "gone"}]
      /\ \A u \in Tasks : (Alive(u)' => Alive(u)) /\ (state[u] # "none" => state'[u] # "none")
      BY DEF ShutdownBegins, ShutdownEnds, ShutdownGivenUp, IInv, TypeOK, Signalled, Alive
<1>3. /\ tracked' \in {tracked, [n \in Names \cup Shots |-> NoTask]}
      /\ extra' \subseteq extra /\ spec' \subseteq spec
      /\ awaited' \in {awaited, Registered}
      BY DEF ShutdownBegins, ShutdownEnds, ShutdownGivenUp
<1>4. Registered \subseteq Tasks
      BY DEF IInv, TypeOK, Registered
<1>5. TypeOK'
      BY <1>1, <1>2, <1>3, <1>4 DEF IInv, TypeOK
<1>6. TasksNamed'
      BY <1>1, <1>2, <1>3 DEF IInv, TypeOK, TasksNamed, NoTask
<1>7. SleepsBooked' /\ WantedHasFactory' /\ NoSilentDeath'
      BY <1>1 DEF IInv, SleepsBooked, WantedHasFactory, NoSilentDeath
<1> QED BY <1>5, <1>6, <1>7 DEF IInv

LEMMA StepHolds == IInv /\ [Next]_vars => IInv'
<1> SUFFICES ASSUME IInv, [Next]_vars PROVE IInv'
    OBVIOUS
<1>1. CASE UNCHANGED vars
      BY <1>1 DEF vars, registry, teardown, IInv, TypeOK, SleepsBooked, TasksNamed, WantedHasFactory,
                  NoSilentDeath, ShuttingDown, Alive
<1>2. ASSUME NEW t \in Tasks, TaskStep(t) PROVE IInv'
      BY <1>2, RunHolds, EndHolds, CrashHolds, CleanupHolds DEF TaskStep
<1>3. CASE Next
      BY <1>2, <1>3, SpawnRestartableHolds, SpawnOneShotHolds, CancelHolds, RestartHolds, ShutdownHolds DEF Next
<1> QED BY <1>1, <1>3

\* The supervisor keeps its types (TypeOK).
THEOREM TypeCorrect == Spec => []TypeOK
<1>1. IInv => TypeOK
      BY DEF IInv
<1> QED BY <1>1, InitHolds, StepHolds, PTL DEF Spec

\* No restartable critical or important task dies silently (NoSilentDeath): a
\* crash is answered by a restart or by a report, unless the program shuts down.
THEOREM NeverSilent == Spec => []NoSilentDeath
<1>1. IInv => NoSilentDeath
      BY DEF IInv
<1> QED BY <1>1, InitHolds, StepHolds, PTL DEF Spec

\* Nothing starts in a shutdown (NothingStartsInShutdown): neither a sleeping
\* restart nor a task that was created before gets its coroutine running.
THEOREM QuietShutdown == Spec => NothingStartsInShutdown
<1>1. ASSUME IInv, Next, NEW t \in Tasks, ShuttingDown, state'[t] = "running"
      PROVE  state[t] = "running"
  <2> USE <1>1 DEF IInv, TypeOK
  <2>1. ASSUME NEW u \in Tasks, NEW n, NEW c, Create(u, n, c) PROVE state[t] = "running"
        BY <2>1 DEF Create, Signalled
  <2>2. ASSUME NEW u \in Tasks, TaskStep(u) PROVE state[t] = "running"
        BY <2>2 DEF TaskStep, Run, End, Crash, Cleanup
  <2>3. ASSUME NEW n \in Names \cup Shots, Cancel(n) PROVE state[t] = "running"
        BY <2>3 DEF Cancel, Signalled
  <2>4. CASE ShutdownBegins \/ ShutdownEnds \/ ShutdownGivenUp
        BY <2>4 DEF ShutdownBegins, ShutdownEnds, ShutdownGivenUp, Signalled
  <2>5. ASSUME NEW n \in Names, Restart(n) PROVE state[t] = "running"
        BY <2>5 DEF Restart
  <2> QED BY <2>1, <2>2, <2>3, <2>4, <2>5 DEF Next, SpawnRestartable, SpawnOneShot
<1>2. IInv /\ [Next]_vars => [\A t \in Tasks : ShuttingDown /\ state'[t] = "running" => state[t] = "running"]_vars
      BY <1>1
<1> QED BY <1>2, InitHolds, StepHolds, PTL DEF Spec, NothingStartsInShutdown

-----------------------------------------------------------------------------
(* The tasks out of the reach of their names *)

\* Those that run or will, and those that run.
Orphans(n) == {t \in Tasks : name[t] = n /\ state[t] \in {"ready", "running"} /\ t # tracked[n]}
Running(n) == {t \in Tasks : name[t] = n /\ state[t] = "running"}

\* Each orphan has cost a restart, and so will each sleeping helper; in a
\* shutdown only orphans can still run.
OrphansBooked ==
    \A n \in Names :
        /\ ~ShuttingDown => Cardinality(Orphans(n)) + sleeping[n] <= count[n]
        /\ ShuttingDown => Cardinality(Running(n)) <= count[n]

LEMMA TasksFinite == IsFiniteSet(Tasks)
<1>1. Cardinality(Names) \in Nat
      BY SupervisorAssumption, FS_CardinalityType
<1> QED BY <1>1, SupervisorAssumption, FS_Interval DEF Tasks

\* A set of tasks is not larger than one that contains it.
LEMMA FewerTasks ==
    ASSUME NEW S, NEW U, S \subseteq U, U \subseteq Tasks
    PROVE  Cardinality(S) \in Nat /\ Cardinality(U) \in Nat /\ Cardinality(S) <= Cardinality(U)
<1>1. IsFiniteSet(U)
      BY TasksFinite, FS_Subset
<1>2. IsFiniteSet(S)
      BY <1>1, FS_Subset
<1> QED BY <1>1, <1>2, FS_Subset, FS_CardinalityType

\* Where neither the orphans nor the helpers of a name grow, nothing is owed.
LEMMA NoNewOrphans ==
    ASSUME IInv, OrphansBooked, NEW n \in Names, shutdown' = shutdown, count'[n] >= count[n], count'[n] \in Nat,
           sleeping'[n] - sleeping[n] <= count'[n] - count[n], sleeping'[n] \in Nat,
           ~ShuttingDown => Orphans(n)' \subseteq Orphans(n),
           ShuttingDown => Running(n)' \subseteq Running(n)
    PROVE  /\ ~ShuttingDown' => Cardinality(Orphans(n)') + sleeping'[n] <= count'[n]
           /\ ShuttingDown' => Cardinality(Running(n)') <= count'[n]
<1>1. count[n] \in Nat /\ sleeping[n] \in Nat
      BY SupervisorAssumption DEF IInv, TypeOK
<1>2. CASE ~ShuttingDown
  <2>1. Orphans(n)' \subseteq Orphans(n) /\ Orphans(n) \subseteq Tasks
        BY <1>2 DEF Orphans
  <2>2. /\ Cardinality(Orphans(n)') \in Nat /\ Cardinality(Orphans(n)) \in Nat
        /\ Cardinality(Orphans(n)') <= Cardinality(Orphans(n))
        BY <2>1, FewerTasks
  <2>3. Cardinality(Orphans(n)) + sleeping[n] <= count[n]
        BY <1>2 DEF OrphansBooked
  <2> QED BY <1>1, <1>2, <2>2, <2>3 DEF ShuttingDown
<1>3. CASE ShuttingDown
  <2>1. Running(n)' \subseteq Running(n) /\ Running(n) \subseteq Tasks
        BY <1>3 DEF Running
  <2>2. /\ Cardinality(Running(n)') \in Nat /\ Cardinality(Running(n)) \in Nat
        /\ Cardinality(Running(n)') <= Cardinality(Running(n))
        BY <2>1, FewerTasks
  <2>3. Cardinality(Running(n)) <= count[n]
        BY <1>3 DEF OrphansBooked
  <2> QED BY <1>1, <1>3, <2>2, <2>3 DEF ShuttingDown
<1> QED BY <1>2, <1>3

\* A delayed restart makes an orphan of the task that holds its name.
LEMMA RestartOrphans ==
    ASSUME IInv, OrphansBooked, NEW n \in Names, Restart(n)
    PROVE  OrphansBooked'
<1> USE SupervisorAssumption
<1>1. /\ sleeping' = [sleeping EXCEPT ![n] = @ - 1] /\ sleeping[n] > 0
      /\ count' = count /\ shutdown' = shutdown
      BY DEF Restart, teardown
<1>2. \A k \in Names : /\ count'[k] \in Nat /\ sleeping'[k] \in Nat /\ sleeping[k] \in Nat
                       /\ sleeping'[k] = IF k = n THEN sleeping[k] - 1 ELSE sleeping[k]
      BY <1>1 DEF IInv, TypeOK
<1>3. CASE ShuttingDown
  <2>1. ASSUME NEW k \in Names PROVE Running(k)' = Running(k)
        BY <1>3 DEF Restart, Running
  <2> QED BY <2>1, <1>1, <1>2, <1>3, NoNewOrphans DEF OrphansBooked, ShuttingDown
<1>4. CASE ~ShuttingDown
  <2>1. PICK t \in Tasks : Create(t, n, {}) /\ tracked' = [tracked EXCEPT ![n] = t]
        BY <1>4 DEF Restart
  <2>2. tracked'[n] = t /\ \A k \in Names : k # n => tracked'[k] = tracked[k]
        BY <2>1 DEF IInv, TypeOK
  <2>3. ASSUME NEW k \in Names, k # n
        PROVE  Cardinality(Orphans(k)') + sleeping'[k] <= count'[k]
    <3>1. Orphans(k)' \subseteq Orphans(k)
          BY <2>1, <2>2, <2>3, CreateNames DEF Orphans
    <3> QED BY <3>1, <2>3, <1>1, <1>2, <1>4, NoNewOrphans DEF ShuttingDown
  <2>4. Cardinality(Orphans(n)') + sleeping'[n] <= count'[n]
    <3>1. Orphans(n)' \subseteq Orphans(n) \cup {tracked[n]}
          BY <2>1, <2>2, CreateNames DEF Orphans
    <3>2. IsFiniteSet(Orphans(n)) /\ IsFiniteSet(Orphans(n) \cup {tracked[n]})
          BY TasksFinite, FS_Subset, FS_AddElement DEF Orphans
    <3>3. /\ Cardinality(Orphans(n)) \in Nat
          /\ Cardinality(Orphans(n) \cup {tracked[n]}) \in Nat
          /\ Cardinality(Orphans(n) \cup {tracked[n]}) <= Cardinality(Orphans(n)) + 1
          BY <3>2, FS_AddElement, FS_CardinalityType
    <3>4. /\ Cardinality(Orphans(n)') \in Nat
          /\ Cardinality(Orphans(n)') <= Cardinality(Orphans(n) \cup {tracked[n]})
          BY <3>1, <3>2, FS_Subset, FS_CardinalityType
    <3>5. Cardinality(Orphans(n)) + sleeping[n] <= count[n]
          BY <1>4 DEF OrphansBooked
    <3> QED BY <3>3, <3>4, <3>5, <1>1, <1>2
  <2> QED BY <2>3, <2>4, <1>1, <1>4 DEF OrphansBooked, ShuttingDown
<1> QED BY <1>3, <1>4

\* When a shutdown begins, whatever the registry holds stops.
LEMMA ShutdownOrphans ==
    ASSUME IInv, OrphansBooked, ShutdownBegins \/ ShutdownEnds \/ ShutdownGivenUp
    PROVE  OrphansBooked'
<1> SUFFICES ASSUME NEW n \in Names PROVE Cardinality(Running(n)') <= count'[n]
    BY DEF OrphansBooked, ShutdownBegins, ShutdownEnds, ShutdownGivenUp, ShuttingDown
<1> USE SupervisorAssumption
<1>1. count' = count /\ count[n] \in Nat /\ sleeping[n] \in Nat
      BY DEF ShutdownBegins, ShutdownEnds, ShutdownGivenUp, IInv, TypeOK
<1>2. CASE ShutdownBegins
  <2>1. Running(n)' \subseteq Orphans(n) /\ Orphans(n) \subseteq Tasks
    <3>1. ASSUME NEW t \in Running(n)' PROVE t \in Orphans(n)
      <4>1. t \in Tasks /\ name[t] = n /\ state'[t] = "running"
            BY <3>1, <1>2 DEF Running, ShutdownBegins
      <4>2. t \notin Registered /\ state[t] = "running"
            BY <4>1, <1>2 DEF ShutdownBegins, Signalled
      <4>3. t # tracked[n]
            BY <4>1, <4>2, NoTaskIsNone DEF Registered
      <4> QED BY <4>1, <4>2, <4>3 DEF Orphans
    <3> QED BY <3>1 DEF Orphans
  <2>2. ~ShuttingDown
        BY <1>2 DEF ShutdownBegins, ShuttingDown
  <2> QED BY <2>1, <2>2, <1>1, FewerTasks DEF OrphansBooked
<1>3. CASE ShutdownEnds \/ ShutdownGivenUp
  <2>1. Running(n)' = Running(n) /\ ShuttingDown
        BY <1>3 DEF ShutdownEnds, ShutdownGivenUp, Running, ShuttingDown
  <2> QED BY <2>1, <1>1 DEF OrphansBooked
<1> QED BY <1>2, <1>3

\* Spawning creates a task that is registered, and signals the one it replaces.
LEMMA SpawnOrphans ==
    ASSUME IInv, OrphansBooked, (\E n \in Names : SpawnRestartable(n)) \/ (\E n \in Shots : SpawnOneShot(n))
    PROVE  OrphansBooked'
<1> USE SupervisorAssumption
<1>1. UNCHANGED <<count, sleeping, shutdown>>
      BY DEF SpawnRestartable, SpawnOneShot, teardown
<1>3. \A k \in Names : count[k] \in Nat /\ sleeping[k] \in Nat
      BY DEF IInv, TypeOK
<1>2. ASSUME NEW k \in Names
      PROVE  Orphans(k)' \subseteq Orphans(k) /\ Running(k)' \subseteq Running(k)
  <2>1. CASE \E n \in Names : SpawnRestartable(n)
    <3>1. PICK n \in Names, t \in Tasks : Create(t, n, {tracked[n]}) /\ tracked' = [tracked EXCEPT ![n] = t]
          BY <2>1 DEF SpawnRestartable
    <3>2. tracked'[n] = t /\ \A m \in Names : m # n => tracked'[m] = tracked[m]
          BY <3>1 DEF IInv, TypeOK
    <3>3. \A u \in Tasks : u # t /\ state'[u] \in {"ready", "running"} =>
             u # tracked[n] /\ state'[u] = state[u] /\ name'[u] = name[u]
          BY <3>1, CreateNames DEF Create, Signalled
    <3>4. name'[t] = n /\ state'[t] = "ready"
          BY <3>1, CreateNames
    <3> QED BY <3>2, <3>3, <3>4 DEF Orphans, Running
  <2>2. CASE \E n \in Shots : SpawnOneShot(n)
    <3>1. PICK n \in Shots, t \in Tasks :
             Create(t, n, {}) /\ tracked' \in {tracked, [tracked EXCEPT ![n] = t]}
          BY <2>2 DEF SpawnOneShot
    <3>2. k # n /\ tracked'[k] = tracked[k]
          BY <3>1 DEF IInv, TypeOK
    <3> QED BY <3>1, <3>2, CreateNames DEF Orphans, Running
  <2> QED BY <2>1, <2>2
<1> QED BY <1>1, <1>2, <1>3, NoNewOrphans DEF OrphansBooked

\* The other steps only stop tasks, let them go or book a restart.
LEMMA OtherOrphans ==
    ASSUME IInv, OrphansBooked,
           (\E n \in Names \cup Shots : Cancel(n)) \/ (\E t \in Tasks : TaskStep(t))
    PROVE  OrphansBooked'
<1> USE SupervisorAssumption DEF registry, teardown
<1>1. name' = name /\ shutdown' = shutdown
      BY DEF Cancel, TaskStep, Run, End, Crash, Cleanup
<1>2. ASSUME NEW k \in Names
      PROVE  /\ count[k] \in Nat /\ sleeping[k] \in Nat /\ count'[k] \in Nat /\ sleeping'[k] \in Nat
             /\ count'[k] >= count[k] /\ sleeping'[k] - sleeping[k] <= count'[k] - count[k]
  <2>1. count[k] \in Nat /\ sleeping[k] \in Nat
        BY DEF IInv, TypeOK
  <2>2. CASE UNCHANGED <<count, sleeping>>
        BY <2>1, <2>2
  <2>3. ASSUME NEW t \in Tasks, Crash(t), ~UNCHANGED <<count, sleeping>> PROVE <1>2!2
        BY <2>1, <2>3 DEF Crash, IInv, TypeOK
  <2> QED BY <2>2, <2>3 DEF Cancel, TaskStep, Run, End, Cleanup
<1>3. ASSUME NEW k \in Names
      PROVE  /\ ~ShuttingDown => Orphans(k)' \subseteq Orphans(k)
             /\ ShuttingDown => Running(k)' \subseteq Running(k)
  <2>1. CASE \E n \in Names \cup Shots : Cancel(n)
    <3>1. PICK n \in Names \cup Shots : Cancel(n)
          BY <2>1
    <3>2. \A u \in Tasks : state'[u] \in {"ready", "running"} => u # tracked[n] /\ state'[u] = state[u]
          BY <3>1 DEF Cancel, Signalled, IInv, TypeOK
    <3>3. k # n => tracked'[k] = tracked[k]
          BY <3>1 DEF Cancel, IInv, TypeOK
    <3> QED BY <3>2, <3>3, <1>1 DEF Orphans, Running
  <2>2. ASSUME NEW t \in Tasks, TaskStep(t) PROVE <1>3!2
    <3>1. tracked'[k] = tracked[k]
          BY <2>2 DEF TaskStep, Run, End, Crash, Cleanup, IInv, TypeOK
    <3>2. \A u \in Tasks : /\ state'[u] = "ready" => state[u] = "ready"
                           /\ state'[u] = "running" => state[u] \in {"ready", "running"}
                           /\ state'[u] = "running" /\ ShuttingDown => state[u] = "running"
          BY <2>2 DEF TaskStep, Run, End, Crash, Cleanup, IInv, TypeOK
    <3> QED BY <3>1, <3>2, <1>1 DEF Orphans, Running
  <2> QED BY <2>1, <2>2
<1> QED BY <1>1, <1>2, <1>3, NoNewOrphans DEF OrphansBooked

LEMMA OrphansHold == IInv /\ OrphansBooked /\ [Next]_vars => OrphansBooked'
<1> SUFFICES ASSUME IInv, OrphansBooked, [Next]_vars PROVE OrphansBooked'
    OBVIOUS
<1>1. CASE UNCHANGED vars
      BY <1>1 DEF vars, OrphansBooked, Orphans, Running, ShuttingDown
<1> QED BY <1>1, SpawnOrphans, OtherOrphans, RestartOrphans, ShutdownOrphans DEF Next

\* A task is out of the reach of its name only where a delayed restart took its
\* place (OrphansAreRestarts): a cancel or a respawn of the name finds the others.
THEOREM OrphansOnlyByRestart == Spec => []OrphansAreRestarts
<1>1. Init => OrphansBooked
  <2> SUFFICES ASSUME Init, NEW n \in Names PROVE Cardinality(Orphans(n)) + sleeping[n] <= count[n] /\ ~ShuttingDown
      BY DEF OrphansBooked, Init, ShuttingDown
  <2>1. Orphans(n) = {} /\ sleeping[n] = 0 /\ count[n] = 0 /\ ~ShuttingDown
        BY DEF Init, Orphans, ShuttingDown
  <2> QED BY <2>1, FS_EmptySet
<1>2. IInv /\ OrphansBooked => OrphansAreRestarts
  <2> SUFFICES ASSUME IInv, OrphansBooked, NEW n \in Names
               PROVE  Cardinality({t \in Tasks : name[t] = n /\ state[t] = "running" /\ t # tracked[n]}) <= count[n]
      BY DEF OrphansAreRestarts
  <2> DEFINE Out == {t \in Tasks : name[t] = n /\ state[t] = "running" /\ t # tracked[n]}
  <2>1. count[n] \in Nat /\ sleeping[n] \in Nat
        BY SupervisorAssumption DEF IInv, TypeOK
  <2>2. Out \subseteq Orphans(n) /\ Out \subseteq Running(n) /\ Orphans(n) \subseteq Tasks /\ Running(n) \subseteq Tasks
        BY DEF Orphans, Running
  <2>3. /\ Cardinality(Out) \in Nat /\ Cardinality(Orphans(n)) \in Nat /\ Cardinality(Running(n)) \in Nat
        /\ Cardinality(Out) <= Cardinality(Orphans(n)) /\ Cardinality(Out) <= Cardinality(Running(n))
        BY <2>2, FewerTasks
  <2> QED BY <2>1, <2>3 DEF OrphansBooked
<1> QED BY <1>1, <1>2, InitHolds, StepHolds, OrphansHold, PTL DEF Spec
===============================================================================
