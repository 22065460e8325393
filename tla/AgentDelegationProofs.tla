------------------------- MODULE AgentDelegationProofs -------------------------
(***************************************************************************)
(* What TLAPS proves of ChatTurns for any sessions, turns and stoppers,    *)
(* and of AgentDelegation for any number of messages, conversations and    *)
(* requests and for any limits, as long as nobody who waits for a          *)
(* delegated turn is itself cancelled.                                     *)
(*                                                                         *)
(* The turns are those of ChatTurns, whose invariant is taken over; to it  *)
(* come what the gate counts (Slots), what the messages know of their      *)
(* handles (Rows, Quota), and what the requests know of the turns they     *)
(* stop (Requests, Closes).                                                *)
(***************************************************************************)
EXTENDS AgentDelegation, FiniteSetTheorems, TLAPS

-----------------------------------------------------------------------------
(* ChatTurns by itself *)

\* What a stopper knows of the turn it waits for.
StoppersKnow ==
    \A p \in Stoppers : stop[p].at # "idle" =>
        /\ stop[p].turn \in Turns
        /\ task[stop[p].turn] \notin {"new", "refused"}
        /\ stop[p].at = "settled" /\ SessionOf[stop[p].turn] \notin Interruptible =>
            task[stop[p].turn] \notin Live

Inv == TypeOK /\ LiveTurnOwnsSession /\ StoppersKnow

\* The invariant holds initially: no turn was started, nobody waits.
LEMMA InvInit == Init => Inv
BY TurnsAssumption DEF TurnsAssumption, Init, Inv, TypeOK, LiveTurnOwnsSession, StoppersKnow,
   Resting, Live

\* No step of a turn or a stopper breaks it: a session's entry is only removed
\* by the turn's own end or by somebody who knows that it has ended.
LEMMA InvStep ==
    ASSUME Delegated \cap Interruptible = {}, Inv, [Next]_vars
    PROVE  Inv'
<1> USE TurnsAssumption DEF TurnsAssumption, Inv, TypeOK, LiveTurnOwnsSession, StoppersKnow, Live
<1>1. ASSUME NEW t \in Turns, Start(t) PROVE Inv'
  BY <1>1 DEF Start, HasLiveTurn
<1>2. ASSUME NEW t \in Turns, End(t) PROVE Inv'
  BY <1>2 DEF End, Released
<1>3. ASSUME NEW t \in Turns, OwnerReleases(t) PROVE Inv'
  BY <1>3 DEF OwnerReleases, Released
<1>4. ASSUME NEW t \in Turns, Swallow(t) PROVE Inv'
  BY <1>4 DEF Swallow
<1>5. ASSUME NEW t \in Turns, OwnerLeaves(t) PROVE Inv'
  BY <1>5 DEF OwnerLeaves
<1>6. ASSUME NEW p \in Stoppers, NEW s \in Sessions, NEW t \in Turns \cup {Nobody},
             StopRequest(p, s, t)
      PROVE  Inv'
  <2>1. CASE HasLiveTurn(s)
    <3> DEFINE u == entry[s]
    <3>1. u \in Turns /\ task[u] \in Live /\ SessionOf[u] \in Sessions
      BY <2>1 DEF HasLiveTurn
    <3>2. /\ task' = [task EXCEPT ![u] = "unwinding"]
          /\ stop' = [stop EXCEPT ![p] = [at |-> "waiting", turn |-> u]]
          /\ entry' = entry
      BY <1>6, <2>1 DEF StopRequest
    <3> HIDE DEF u
    <3>3. TypeOK' /\ LiveTurnOwnsSession'
      BY <3>1, <3>2
    <3>4. StoppersKnow'
      BY <3>1, <3>2
    <3> QED
      BY <3>3, <3>4
  <2>2. CASE ~HasLiveTurn(s)
    <3>1. \A u \in Turns : task[u] \in Live => SessionOf[u] # s
      BY <2>2 DEF HasLiveTurn
    <3> QED
      BY <1>6, <2>2, <3>1 DEF StopRequest
  <2> QED
    BY <2>1, <2>2
<1>7. ASSUME NEW p \in Stoppers, StopSettles(p) PROVE Inv'
  BY <1>7 DEF StopSettles, Tell
<1>8. ASSUME NEW p \in Stoppers, StopTimesOut(p) PROVE Inv'
  BY <1>8 DEF StopTimesOut, Tell
<1>9. ASSUME NEW p \in Stoppers, StopInterrupted(p) PROVE Inv'
  BY <1>9 DEF StopInterrupted, Tell
<1>10. ASSUME NEW p \in Stoppers, StopReturns(p) PROVE Inv'
  <2> DEFINE t == stop[p].turn
  <2>1. t \in Turns /\ (stop[p].at = "settled" /\ SessionOf[t] \notin Interruptible =>
                            task[t] \notin Live)
    BY <1>10 DEF StopReturns
  <2>2. entry' = entry \/ (task[t] \notin Live /\ entry' = Released(SessionOf[t], t))
    BY <1>10, <2>1 DEF StopReturns
  <2>3. LiveTurnOwnsSession' /\ entry' \in [Sessions -> Turns \cup {Nobody}]
    BY <1>10, <2>1, <2>2 DEF StopReturns, Released
  <2> QED
    BY <1>10, <2>3 DEF StopReturns, Resting
<1>11. CASE UNCHANGED vars
  BY <1>11 DEF vars
<1> QED
  BY <1>1, <1>2, <1>3, <1>4, <1>5, <1>6, <1>7, <1>8, <1>9, <1>10, <1>11
     DEF Next, TurnStep, Waiting

\* A live turn owns its session, for every number of sessions, turns and
\* concurrent stop requests, provided that only web turns are stopped by tasks
\* that may be cancelled while they wait.
THEOREM LiveTurnIsOwner ==
    ASSUME Delegated \cap Interruptible = {}
    PROVE  Spec => []LiveTurnOwnsSession
<1>1. Inv /\ [Next]_vars => Inv'
  BY InvStep
<1> QED
  BY <1>1, InvInit, PTL DEF Spec, Inv

\* Therefore a session never has two live assistant tasks ("Own at most one
\* live assistant task for each chat session").
THEOREM AtMostOneLiveTurn ==
    ASSUME Delegated \cap Interruptible = {}
    PROVE  Spec => []OneLiveTurn
<1>1. LiveTurnOwnsSession => OneLiveTurn
  BY DEF LiveTurnOwnsSession, OneLiveTurn
<1> QED
  BY <1>1, LiveTurnIsOwner, PTL

\* Whoever is not cancelled while it waits and is told that a turn has settled is
\* told the truth (cancel_and_wait).
THEOREM SettledIsEnded ==
    ASSUME Delegated \cap Interruptible = {}
    PROVE  Spec => []SettledTurnHasEnded
<1>1. Inv /\ [Next]_vars => Inv'
  BY InvStep
<1>2. Inv => SettledTurnHasEnded
  BY DEF Inv, StoppersKnow, SettledTurnHasEnded, TypeOK, Live
<1> QED
  BY <1>1, <1>2, InvInit, PTL DEF Spec

-----------------------------------------------------------------------------
(* Messages and requests *)

\* The types of what is added to the variables of ChatTurns.
Types ==
    /\ active \in Nat
    /\ message \in [Messages -> {"new", "over"} \cup Inside]
    /\ handle \in [Delegated -> {"none", "minting", "active", "revoked", "orphan"}]
    /\ control \in [Stoppers -> [at : {"none", "resolved", "waiting", "settled"},
                                 session : Delegated \cup {Nobody}, closing : BOOLEAN]]
    /\ late \subseteq Messages

InsideNow == {t \in Messages : message[t] \in Inside}

\* The gate counts the messages inside, and a turn that has not been released
\* belongs to one of them.
Slots ==
    /\ IsFiniteSet(InsideNow)
    /\ active = Cardinality(InsideNow)
    /\ active <= MaxActive
    /\ \A t \in Messages : task[t] \in Live \cup {"ended"} => message[t] = "running"

\* A handle that is being minted is so by one message, and one that a message has
\* resolved exists or has existed.
Rows ==
    /\ \A t \in Messages :
        /\ message[t] = "minting" => handle[SessionOf[t]] = "minting"
        /\ message[t] \in {"resolved", "running"} => handle[SessionOf[t]] \in {"active", "revoked"}
    /\ \A t, u \in Messages :
        message[t] = "minting" /\ message[u] = "minting" /\ SessionOf[t] = SessionOf[u] => t = u

MintingNow == {t \in Messages : message[t] = "minting"}

\* The handles that will be there when all that are being minted are.
Quota ==
    /\ IsFiniteSet(ActiveHandles)
    /\ Cardinality(ActiveHandles) + Cardinality(MintingNow) <= MaxHandles + MaxActive - 1

\* The entry of a session is a turn of its own.
Entries == \A s \in Sessions : entry[s] # Nobody => SessionOf[entry[s]] = s

\* A request that waits does so for a turn of its own conversation.
Requests ==
    \A p \in Stoppers :
        /\ control[p].at # "none" => control[p].session \in Delegated
        /\ control[p].at = "settled" => control[p].closing
        /\ control[p].at = "waiting" =>
            stop[p].at # "idle" /\ SessionOf[stop[p].turn] = control[p].session

\* A close that stops a turn knows of every turn that runs there now: it is the
\* one it stops, or has started late; and once it has settled all are late, as
\* they are on a handle that is revoked.
Closes ==
    /\ \A p \in Stoppers, t \in Messages :
        task[t] \in Live /\ control[p].closing /\ control[p].session = SessionOf[t] =>
            /\ control[p].at = "waiting" => t \in late \/ t = stop[p].turn
            /\ control[p].at = "settled" => t \in late
    /\ ClosedAfterSettlement

DInv == Inv /\ Entries /\ Types /\ Slots /\ Rows /\ Quota /\ Requests /\ Closes

\* A delegated turn belongs to a session of its principal.
LEMMA MessagesAreTurns ==
    \A t \in Messages : t \in Turns /\ SessionOf[t] \in Delegated /\ SessionOf[t] \in Sessions
BY TurnsAssumption DEF TurnsAssumption, Messages

-----------------------------------------------------------------------------
(* The turns are those of ChatTurns *)

\* Every step of messages and requests is a step of the registry, or none.
LEMMA DStepIsStep ==
    ASSUME Requests, [DNext]_dvars
    PROVE  [Next]_vars
<1> USE DEF Next, TurnStep, Waiting, vars, turnvars
<1>1. ASSUME NEW t \in Messages, Send(t) PROVE [Next]_vars
  <2>1. t \in Turns
    BY MessagesAreTurns
  <2> QED
    BY <1>1, <2>1 DEF Send, Admit, Resolve, Mint, MintCreates, SendStarts, CallerLeaves,
       CallerCancelled, SendReturns
<1>2. ASSUME NEW p \in Stoppers,
             \/ \E s \in Delegated, closing \in BOOLEAN : ControlResolves(p, s, closing)
             \/ \E t \in Turns : ControlMisses(p, t)
             \/ ControlReturns(p) \/ CloseRevokes(p)
      PROVE  [Next]_vars
  BY <1>2 DEF ControlResolves, ControlMisses, ControlReturns, CloseRevokes
<1>3. ASSUME NEW p \in Stoppers, NEW t \in Turns \cup {Nobody}, ControlStops(p, t)
      PROVE  [Next]_vars
  <2>1. control[p].session \in Sessions /\ StopRequest(p, control[p].session, t)
    BY <1>3, TurnsAssumption DEF TurnsAssumption, ControlStops, Requests
  <2> QED
    BY <2>1
<1>4. ASSUME NEW s \in Delegated, Expires(s) PROVE [Next]_vars
  BY <1>4 DEF Expires
<1>5. CASE Registry
  BY <1>5 DEF Registry
<1>6. CASE UNCHANGED dvars
  BY <1>6 DEF dvars
<1> QED
  BY <1>1, <1>2, <1>3, <1>4, <1>5, <1>6 DEF DNext

-----------------------------------------------------------------------------
(* Types and requests *)

LEMMA TypesStep ==
    ASSUME DInv, [DNext]_dvars
    PROVE  Types'
<1> USE DEF DInv, Types, Slots, Inside
<1>0. active \in Nat /\ (\A t \in Messages : message[t] \in Inside => active - 1 \in Nat)
  <2> SUFFICES ASSUME NEW t \in Messages, message[t] \in Inside PROVE active # 0
    OBVIOUS
  <2>1. t \in InsideNow
    BY DEF InsideNow
  <2> QED
    BY <2>1, FS_EmptySet
<1>1. ASSUME NEW t \in Messages, Send(t) PROVE Types'
  <2>1. SessionOf[t] \in Delegated
    BY MessagesAreTurns
  <2>2. CASE Admit(t)
    BY <2>2 DEF Admit, At
  <2>3. CASE Resolve(t)
    BY <1>0, <2>3 DEF Resolve, At, Leave
  <2>4. CASE Mint(t)
    BY <1>0, <2>1, <2>4 DEF Mint, At, Leave
  <2>5. CASE MintCreates(t)
    BY <1>0, <2>1, <2>5 DEF MintCreates, At, Leave
  <2>6. CASE SendStarts(t)
    BY <1>0, <2>6 DEF SendStarts, At, Leave
  <2>7. CASE CallerLeaves(t)
    BY <1>0, <2>1, <2>7 DEF CallerLeaves, At, Leave
  <2>8. CASE CallerCancelled(t)
    BY <2>8 DEF CallerCancelled
  <2>9. CASE SendReturns(t)
    BY <1>0, <2>9 DEF SendReturns, At, Leave
  <2> QED
    BY <1>1, <2>2, <2>3, <2>4, <2>5, <2>6, <2>7, <2>8, <2>9 DEF Send
<1>2. ASSUME NEW p \in Stoppers, NEW s \in Delegated, NEW closing \in BOOLEAN,
             ControlResolves(p, s, closing)
      PROVE  Types'
  BY <1>2 DEF ControlResolves
<1>3. ASSUME NEW p \in Stoppers, NEW t \in Turns \cup {Nobody}, ControlStops(p, t) PROVE Types'
  BY <1>3 DEF ControlStops, Idle
<1>4. ASSUME NEW p \in Stoppers, NEW t \in Turns, ControlMisses(p, t) PROVE Types'
  BY <1>4 DEF ControlMisses, Idle
<1>5. ASSUME NEW p \in Stoppers, ControlReturns(p) PROVE Types'
  BY <1>5 DEF ControlReturns, Idle
<1>6. ASSUME NEW p \in Stoppers, CloseRevokes(p) PROVE Types'
  BY <1>6 DEF CloseRevokes, Idle
<1>7. ASSUME NEW s \in Delegated, Expires(s) PROVE Types'
  BY <1>7 DEF Expires
<1>8. CASE Registry /\ UNCHANGED <<active, message, handle, control, late>>
  BY <1>8
<1>9. CASE UNCHANGED dvars
  BY <1>9 DEF dvars
<1> QED
  BY <1>1, <1>2, <1>3, <1>4, <1>5, <1>6, <1>7, <1>8, <1>9 DEF DNext

LEMMA EntriesStep ==
    ASSUME DInv, [Next]_vars
    PROVE  Entries'
<1> USE TurnsAssumption DEF TurnsAssumption, DInv, Inv, TypeOK, Entries
<1>1. ASSUME NEW t \in Turns, TurnStep(t) PROVE Entries'
  BY <1>1 DEF TurnStep, Start, End, OwnerReleases, Swallow, OwnerLeaves, Released
<1>2. ASSUME NEW p \in Stoppers, Waiting(p) PROVE Entries'
  BY <1>2 DEF Waiting, StopSettles, StopTimesOut, StopInterrupted, StopReturns, Released
<1>3. ASSUME NEW p \in Stoppers, NEW s \in Sessions, NEW t \in Turns \cup {Nobody},
             StopRequest(p, s, t)
      PROVE  Entries'
  BY <1>3 DEF StopRequest
<1>4. CASE UNCHANGED vars
  BY <1>4 DEF vars
<1> QED
  BY <1>1, <1>2, <1>3, <1>4 DEF Next

\* Only a request that is to stop a turn begins to wait, and it alone ends that.
LEMMA RequestsStep ==
    ASSUME DInv, [DNext]_dvars
    PROVE  Requests'
<1> USE TurnsAssumption DEF TurnsAssumption, DInv, Types, Requests
<1>1. ASSUME NEW t \in Messages, Send(t) PROVE Requests'
  <2>1. UNCHANGED <<control, stop>>
    BY <1>1 DEF Send, Admit, Resolve, Mint, MintCreates, SendStarts, CallerLeaves, CallerCancelled,
       SendReturns, turnvars, Start, OwnerLeaves, OwnerReleases
  <2> QED
    BY <2>1
<1>2. ASSUME NEW p \in Stoppers, NEW s \in Delegated, NEW closing \in BOOLEAN,
             ControlResolves(p, s, closing)
      PROVE  Requests'
  BY <1>2 DEF ControlResolves, turnvars
<1>3. ASSUME NEW p \in Stoppers, NEW t \in Turns \cup {Nobody}, ControlStops(p, t)
      PROVE  Requests'
  <2> DEFINE s == control[p].session
  <2>1. s \in Delegated /\ stop[p].at = "idle"
    BY <1>3 DEF ControlStops, StopRequest
  <2>2. CASE HasLiveTurn(s)
    <3>1. SessionOf[entry[s]] = s
      BY <2>1, <2>2 DEF HasLiveTurn, Entries
    <3>2. /\ control' = [control EXCEPT ![p] = [@ EXCEPT !.at = "waiting"]]
          /\ stop' = [stop EXCEPT ![p] = [at |-> "waiting", turn |-> entry[s]]]
      BY <1>3, <2>2 DEF ControlStops, StopRequest
    <3> QED
      BY <2>1, <3>1, <3>2 DEF Inv, TypeOK
  <2>3. CASE ~HasLiveTurn(s)
    BY <1>3, <2>1, <2>3 DEF ControlStops, StopRequest, Idle
  <2> QED
    BY <2>2, <2>3
<1>4. ASSUME NEW p \in Stoppers, NEW t \in Turns, ControlMisses(p, t) PROVE Requests'
  BY <1>4 DEF ControlMisses, Idle, turnvars
<1>5. ASSUME NEW p \in Stoppers, ControlReturns(p) PROVE Requests'
  BY <1>5 DEF ControlReturns, Idle, StopReturns, Inv, TypeOK
<1>6. ASSUME NEW p \in Stoppers, CloseRevokes(p) PROVE Requests'
  BY <1>6 DEF CloseRevokes, Idle, turnvars
<1>7. ASSUME NEW s \in Delegated, Expires(s) PROVE Requests'
  BY <1>7 DEF Expires, turnvars
<1>8. CASE Registry /\ UNCHANGED <<active, message, handle, control, late>>
  <2>1. CASE UNCHANGED stop
    BY <1>8, <2>1
  <2>2. ASSUME NEW p \in Stoppers, StopSettles(p) \/ StopTimesOut(p) \/ StopInterrupted(p)
        PROVE  Requests'
    <3>0. PICK what \in {"settled", "stopping"} : stop' = [stop EXCEPT ![p].at = what]
      BY <2>2 DEF StopSettles, StopTimesOut, StopInterrupted, Tell
    <3>1. stop \in [Stoppers -> [at : {"idle", "waiting", "settled", "stopping"},
                                turn : Turns \cup {Nobody}]]
      BY DEF Inv, TypeOK
    <3>2. \A q \in Stoppers :
            stop'[q].turn = stop[q].turn /\ (stop[q].at # "idle" => stop'[q].at # "idle")
      BY <3>0, <3>1
    <3> QED
      BY <1>8, <3>2
  <2>3. ASSUME NEW p \in Stoppers, control[p] = Idle, NEW q,
               stop' = [stop EXCEPT ![p] = q]
        PROVE  Requests'
    BY <1>8, <2>3 DEF Idle, Inv, TypeOK
  <2>4. \/ UNCHANGED stop
        \/ \E p \in Stoppers : StopSettles(p) \/ StopTimesOut(p) \/ StopInterrupted(p)
        \/ \E p \in Stoppers : control[p] = Idle /\ (\E q : stop' = [stop EXCEPT ![p] = q])
    BY <1>8 DEF Registry, Start, End, Swallow, OwnerLeaves, StopReturns, StopRequest
  <2> QED
    BY <2>1, <2>2, <2>3, <2>4
<1>9. CASE UNCHANGED dvars
  BY <1>9 DEF dvars
<1> QED
  BY <1>1, <1>2, <1>3, <1>4, <1>5, <1>6, <1>7, <1>8, <1>9 DEF DNext

-----------------------------------------------------------------------------
(* The gate *)

Counted ==
    /\ IsFiniteSet(InsideNow)
    /\ active = Cardinality(InsideNow)
    /\ active <= MaxActive

\* Whoever leaves gives back the slot it holds.
LEMMA LeaveCounts ==
    ASSUME Types, Counted, NEW t \in Messages, message[t] \in Inside, Leave(t)
    PROVE  Counted'
<1>1. t \in InsideNow /\ InsideNow' = InsideNow \ {t}
  BY DEF InsideNow, Leave, At, Types, Inside
<1>2. IsFiniteSet(InsideNow') /\ Cardinality(InsideNow') = Cardinality(InsideNow) - 1
  BY <1>1, FS_RemoveElement DEF Counted
<1> QED
  BY <1>2, DelegationAssumption DEF Counted, Leave, DelegationAssumption, Types

\* Whoever goes on inside keeps it.
LEMMA MoveCounts ==
    ASSUME Types, Counted, NEW t \in Messages, message[t] \in Inside, UNCHANGED active,
           \E where \in Inside : At(t, where)
    PROVE  Counted'
<1>1. InsideNow' = InsideNow
  BY DEF InsideNow, At, Types
<1> QED
  BY <1>1 DEF Counted

LEMMA SlotsStep ==
    ASSUME DInv, [DNext]_dvars
    PROVE  Slots'
<1> USE MessagesAreTurns DEF DInv, Types
<1>1. Counted
  BY DEF Slots, Counted
<1>2. ASSUME NEW t \in Messages, Send(t) PROVE Slots'
  <2> DEFINE Owned == \A u \in Messages : task[u] \in Live \cup {"ended"} => message[u] = "running"
  <2>1. Owned
    BY DEF Slots
  <2>2. CASE Admit(t)
    <3>1. Owned'
      BY <2>1, <2>2 DEF Admit, At, turnvars, Live
    <3>2. CASE active < MaxActive
      <4>1. t \notin InsideNow /\ InsideNow' = InsideNow \cup {t}
        BY <2>2, <3>2 DEF InsideNow, Admit, At, Inside
      <4>2. IsFiniteSet(InsideNow') /\ Cardinality(InsideNow') = Cardinality(InsideNow) + 1
        BY <1>1, <4>1, FS_AddElement DEF Counted
      <4> QED
        BY <1>1, <2>2, <3>1, <3>2, <4>2, DelegationAssumption
           DEF Slots, Counted, Admit, DelegationAssumption
    <3>3. CASE ~(active < MaxActive)
      <4>1. InsideNow' = InsideNow
        BY <2>2, <3>3 DEF InsideNow, Admit, At, Inside
      <4> QED
        BY <1>1, <2>2, <3>1, <3>3, <4>1 DEF Slots, Counted, Admit
    <3> QED
      BY <3>2, <3>3
  <2>3. CASE Resolve(t) \/ Mint(t) \/ MintCreates(t) \/ CallerLeaves(t)
    <3>1. message[t] \in Inside /\ message[t] # "running" /\ UNCHANGED <<entry, task, stop>>
      BY <2>3 DEF Resolve, Mint, MintCreates, CallerLeaves, turnvars, Inside
    <3>2. Leave(t) \/ (UNCHANGED active /\ \E where \in Inside : At(t, where))
      BY <2>3 DEF Resolve, Mint, MintCreates, CallerLeaves, Inside
    <3>3. Counted'
      BY <1>1, <3>1, <3>2, LeaveCounts, MoveCounts
    <3>4. Owned'
      BY <2>1, <3>1, <3>2 DEF Leave, At
    <3> QED
      BY <3>3, <3>4 DEF Slots, Counted
  <2>4. CASE SendStarts(t)
    <3>1. message[t] = "resolved" /\ message[t] \in Inside /\ task[t] = "new"
      BY <2>4 DEF SendStarts, Start, Inside
    <3>2. CASE HasLiveTurn(SessionOf[t])
      <4>1. Counted'
        BY <1>1, <2>4, <3>1, <3>2, LeaveCounts DEF SendStarts
      <4>2. Owned'
        BY <2>1, <2>4, <3>1, <3>2 DEF SendStarts, Start, Leave, At, Live, Inv, TypeOK
      <4> QED
        BY <4>1, <4>2 DEF Slots, Counted
    <3>3. CASE ~HasLiveTurn(SessionOf[t])
      <4>1. Counted'
        BY <1>1, <2>4, <3>1, <3>3, MoveCounts DEF SendStarts, Inside
      <4>2. Owned'
        BY <2>1, <2>4, <3>1, <3>3 DEF SendStarts, Start, At, Inv, TypeOK
      <4> QED
        BY <4>1, <4>2 DEF Slots, Counted
    <3> QED
      BY <3>2, <3>3
  <2>5. CASE CallerCancelled(t)
    <3>1. Owned'
      BY <2>1, <2>5 DEF CallerCancelled, OwnerLeaves, Inv, TypeOK
    <3>2. Counted'
      BY <1>1, <2>5 DEF CallerCancelled, Counted, InsideNow
    <3> QED
      BY <3>1, <3>2 DEF Slots, Counted
  <2>6. CASE SendReturns(t)
    <3>1. Counted'
      BY <1>1, <2>6, LeaveCounts DEF SendReturns, Inside
    <3>2. Owned'
      BY <2>1, <2>6 DEF SendReturns, OwnerReleases, Leave, At, Live, Inv, TypeOK
    <3> QED
      BY <3>1, <3>2 DEF Slots, Counted
  <2> QED
    BY <1>2, <2>2, <2>3, <2>4, <2>5, <2>6 DEF Send
<1>3. ASSUME UNCHANGED <<active, message>>,
             \A u \in Messages : task'[u] \in Live \cup {"ended"} => task[u] \in Live \cup {"ended"}
      PROVE  Slots'
  BY <1>3 DEF Slots, InsideNow
<1>4. ASSUME NEW p \in Stoppers, NEW t \in Turns \cup {Nobody}, ControlStops(p, t) PROVE Slots'
  BY <1>3, <1>4, TurnsAssumption DEF ControlStops, StopRequest, HasLiveTurn, Inv, TypeOK, TurnsAssumption, Requests
<1>5. ASSUME NEW p \in Stoppers,
             \/ \E s \in Delegated, closing \in BOOLEAN : ControlResolves(p, s, closing)
             \/ \E t \in Turns : ControlMisses(p, t)
             \/ ControlReturns(p) \/ CloseRevokes(p)
      PROVE  Slots'
  BY <1>3, <1>5 DEF ControlResolves, ControlMisses, ControlReturns, CloseRevokes, turnvars, StopReturns
<1>6. ASSUME NEW s \in Delegated, Expires(s) PROVE Slots'
  BY <1>3, <1>6 DEF Expires, turnvars
<1>7. CASE Registry /\ UNCHANGED <<active, message, handle, control, late>>
  <2> DEFINE Kept == \A u \in Messages :
                task'[u] \in Live \cup {"ended"} => task[u] \in Live \cup {"ended"}
  <2>1. Kept
    <3>1. ASSUME NEW t \in Turns, End(t) \/ Swallow(t) \/ OwnerLeaves(t) PROVE Kept
      BY <3>1 DEF End, Swallow, OwnerLeaves, Live, Inv, TypeOK
    <3>2. ASSUME NEW t \in Turns \ Messages, Start(t) PROVE Kept
      BY <3>2 DEF Start, Inv, TypeOK
    <3>3. ASSUME NEW p \in Stoppers, NEW s \in Sessions, NEW t \in Turns \cup {Nobody},
                 StopRequest(p, s, t)
          PROVE  Kept
      BY <3>3 DEF StopRequest, HasLiveTurn, Inv, TypeOK
    <3> QED
      BY <1>7, <3>1, <3>2, <3>3 DEF Registry, StopSettles, StopTimesOut, StopInterrupted, StopReturns
  <2> QED
    BY <1>3, <1>7, <2>1
<1>8. CASE UNCHANGED dvars
  BY <1>3, <1>8 DEF dvars
<1> QED
  BY <1>2, <1>4, <1>5, <1>6, <1>7, <1>8 DEF DNext

-----------------------------------------------------------------------------
(* Handles *)

LEMMA RowsStep ==
    ASSUME DInv, [DNext]_dvars
    PROVE  Rows'
<1> USE MessagesAreTurns DEF DInv, Types, Rows
<1>1. ASSUME NEW t \in Messages, Send(t) PROVE Rows'
  <2>1. CASE Admit(t)
    BY <2>1 DEF Admit, At
  <2>2. CASE Resolve(t)
    BY <2>2 DEF Resolve, At, Leave
  <2>3. CASE Mint(t)
    <3>1. message[t] = "admitted" /\ handle[SessionOf[t]] = "none"
      BY <2>3 DEF Mint
    <3>2. CASE Leave(t) /\ UNCHANGED handle
      BY <3>1, <3>2 DEF Leave, At
    <3>3. CASE At(t, "minting") /\ handle' = [handle EXCEPT ![SessionOf[t]] = "minting"]
      BY <3>1, <3>3 DEF At
    <3> QED
      BY <2>3, <3>2, <3>3 DEF Mint
  <2>4. CASE MintCreates(t)
    BY <2>4 DEF MintCreates, At, Leave
  <2>5. CASE SendStarts(t)
    BY <2>5 DEF SendStarts, At, Leave
  <2>6. CASE CallerLeaves(t)
    BY <2>6 DEF CallerLeaves, At, Leave
  <2>7. CASE CallerCancelled(t)
    BY <2>7 DEF CallerCancelled
  <2>8. CASE SendReturns(t)
    BY <2>8 DEF SendReturns, At, Leave
  <2> QED
    BY <1>1, <2>1, <2>2, <2>3, <2>4, <2>5, <2>6, <2>7, <2>8 DEF Send
<1>2. ASSUME UNCHANGED message, UNCHANGED handle PROVE Rows'
  BY <1>2
<1>3. ASSUME NEW p \in Stoppers, CloseRevokes(p) PROVE Rows'
  BY <1>3 DEF CloseRevokes, Requests
<1>4. ASSUME NEW s \in Delegated, Expires(s) PROVE Rows'
  BY <1>4 DEF Expires
<1>5. ASSUME NEW p \in Stoppers,
             \/ \E s \in Delegated, closing \in BOOLEAN : ControlResolves(p, s, closing)
             \/ \E t \in Turns \cup {Nobody} : ControlStops(p, t)
             \/ \E t \in Turns : ControlMisses(p, t)
             \/ ControlReturns(p)
      PROVE  Rows'
  BY <1>2, <1>5 DEF ControlResolves, ControlStops, ControlMisses, ControlReturns
<1>6. CASE UNCHANGED dvars
  BY <1>2, <1>6 DEF dvars
<1> QED
  BY <1>1, <1>2, <1>3, <1>4, <1>5, <1>6 DEF DNext

\* The messages that mint are some of those inside.
LEMMA MintingIsFinite ==
    ASSUME Slots
    PROVE  /\ IsFiniteSet(MintingNow)
           /\ Cardinality(MintingNow) \in Nat
           /\ \A t \in InsideNow \ MintingNow : Cardinality(MintingNow) + 1 <= MaxActive
<1> USE DelegationAssumption DEF DelegationAssumption, Slots
<1>1. MintingNow \subseteq InsideNow
  BY DEF MintingNow, InsideNow, Inside
<1>2. IsFiniteSet(MintingNow) /\ Cardinality(MintingNow) \in Nat
  BY <1>1, FS_Subset, FS_CardinalityType
<1>3. ASSUME NEW t \in InsideNow \ MintingNow
      PROVE  Cardinality(MintingNow) + 1 <= MaxActive
  <2>1. MintingNow \cup {t} \subseteq InsideNow /\ t \notin MintingNow
    BY <1>1
  <2>2. Cardinality(MintingNow \cup {t}) = Cardinality(MintingNow) + 1
    BY <1>2, <2>1, FS_AddElement
  <2>3. Cardinality(MintingNow \cup {t}) <= Cardinality(InsideNow)
    BY <2>1, FS_Subset
  <2>4. Cardinality(InsideNow) \in Nat
    BY FS_CardinalityType
  <2> QED
    BY <1>2, <2>2, <2>3, <2>4
<1> QED
  BY <1>2, <1>3

\* Nothing is minted, and no handle comes to be active.
LEMMA QuotaKept ==
    ASSUME Slots, Quota, MintingNow' \subseteq MintingNow, ActiveHandles' \subseteq ActiveHandles
    PROVE  Quota'
<1>1. /\ IsFiniteSet(ActiveHandles')
      /\ Cardinality(ActiveHandles') <= Cardinality(ActiveHandles)
      /\ Cardinality(MintingNow') <= Cardinality(MintingNow)
  BY MintingIsFinite, FS_Subset DEF Quota
<1>2. /\ Cardinality(ActiveHandles) \in Nat /\ Cardinality(ActiveHandles') \in Nat
      /\ Cardinality(MintingNow) \in Nat /\ Cardinality(MintingNow') \in Nat
  BY <1>1, MintingIsFinite, FS_Subset, FS_CardinalityType DEF Quota
<1> QED
  BY <1>1, <1>2, DelegationAssumption DEF Quota, DelegationAssumption

LEMMA QuotaStep ==
    ASSUME DInv, [DNext]_dvars
    PROVE  Quota'
<1> USE MessagesAreTurns DEF DInv, Types
<1>0. /\ Cardinality(ActiveHandles) \in Nat /\ IsFiniteSet(ActiveHandles)
      /\ MaxHandles \in Nat /\ MaxActive \in Nat
  BY FS_CardinalityType, DelegationAssumption DEF Quota, DelegationAssumption
<1>1. ASSUME NEW t \in Messages, Mint(t) PROVE Quota'
  <2>1. message[t] = "admitted" /\ handle[SessionOf[t]] = "none"
    BY <1>1 DEF Mint
  <2>2. CASE Cardinality(ActiveHandles) >= MaxHandles
    <3>1. MintingNow' \subseteq MintingNow /\ ActiveHandles' \subseteq ActiveHandles
      BY <1>1, <2>2 DEF Mint, Leave, At, MintingNow, ActiveHandles
    <3> QED
      BY <3>1, QuotaKept
  <2>3. CASE ~(Cardinality(ActiveHandles) >= MaxHandles)
    <3>1. ActiveHandles' = ActiveHandles
      BY <1>1, <2>1, <2>3 DEF Mint, ActiveHandles
    <3>2. MintingNow' = MintingNow \cup {t} /\ t \in InsideNow \ MintingNow
      BY <1>1, <2>1, <2>3 DEF Mint, At, MintingNow, InsideNow, Inside
    <3>3. Cardinality(MintingNow') = Cardinality(MintingNow) + 1
      BY <3>2, MintingIsFinite, FS_AddElement
    <3>4. Cardinality(MintingNow) \in Nat /\ Cardinality(MintingNow) + 1 <= MaxActive
      BY <3>2, MintingIsFinite
    <3> QED
      BY <1>0, <2>3, <3>1, <3>3, <3>4 DEF Quota
  <2> QED
    BY <2>2, <2>3
<1>2. ASSUME NEW t \in Messages, MintCreates(t) PROVE Quota'
  <2> DEFINE s == SessionOf[t]
  <2>1. message[t] = "minting" /\ handle[s] = "minting" /\ s \in Delegated
    BY <1>2 DEF MintCreates, Rows
  <2>2. CASE handle' = [handle EXCEPT ![s] = "active"] /\ At(t, "resolved")
    <3>1. ActiveHandles' = ActiveHandles \cup {s} /\ s \notin ActiveHandles
      BY <2>1, <2>2 DEF ActiveHandles
    <3>2. MintingNow' = MintingNow \ {t} /\ t \in MintingNow
      BY <2>1, <2>2 DEF MintingNow, At
    <3>3. /\ IsFiniteSet(ActiveHandles')
          /\ Cardinality(ActiveHandles') = Cardinality(ActiveHandles) + 1
      BY <1>0, <3>1, FS_AddElement
    <3>4. /\ Cardinality(MintingNow') = Cardinality(MintingNow) - 1
          /\ Cardinality(MintingNow) \in Nat
      BY <3>2, MintingIsFinite, FS_RemoveElement
    <3> QED
      BY <1>0, <3>3, <3>4 DEF Quota
  <2>3. CASE handle' = [handle EXCEPT ![s] = "revoked"] /\ Leave(t)
    <3>1. MintingNow' \subseteq MintingNow /\ ActiveHandles' \subseteq ActiveHandles
      BY <2>1, <2>3 DEF MintingNow, ActiveHandles, Leave, At
    <3> QED
      BY <3>1, QuotaKept
  <2> QED
    BY <1>2, <2>2, <2>3 DEF MintCreates
<1>3. ASSUME NEW t \in Messages,
             \/ Admit(t) \/ Resolve(t) \/ SendStarts(t) \/ CallerLeaves(t)
             \/ CallerCancelled(t) \/ SendReturns(t)
      PROVE  Quota'
  <2>1. MintingNow' \subseteq MintingNow
    BY <1>3 DEF MintingNow, Admit, Resolve, SendStarts, CallerLeaves, CallerCancelled, SendReturns, At, Leave
  <2>2. ActiveHandles' \subseteq ActiveHandles
    BY <1>3 DEF ActiveHandles, Admit, Resolve, SendStarts, CallerLeaves, CallerCancelled, SendReturns
  <2> QED
    BY <2>1, <2>2, QuotaKept
<1>4. ASSUME UNCHANGED message,
             \/ UNCHANGED handle
             \/ \E s \in Delegated : handle' = [handle EXCEPT ![s] = "revoked"]
      PROVE  Quota'
  <2>1. MintingNow' \subseteq MintingNow /\ ActiveHandles' \subseteq ActiveHandles
    BY <1>4 DEF MintingNow, ActiveHandles
  <2> QED
    BY <2>1, QuotaKept
<1>5. ASSUME NEW p \in Stoppers,
             \/ \E s \in Delegated, closing \in BOOLEAN : ControlResolves(p, s, closing)
             \/ \E t \in Turns \cup {Nobody} : ControlStops(p, t)
             \/ \E t \in Turns : ControlMisses(p, t)
             \/ ControlReturns(p) \/ CloseRevokes(p)
      PROVE  Quota'
  BY <1>4, <1>5 DEF ControlResolves, ControlStops, ControlMisses, ControlReturns, CloseRevokes, Requests
<1>6. ASSUME NEW s \in Delegated, Expires(s) PROVE Quota'
  BY <1>4, <1>6 DEF Expires
<1>7. CASE UNCHANGED dvars
  BY <1>4, <1>7 DEF dvars
<1> QED
  BY <1>1, <1>2, <1>3, <1>4, <1>5, <1>6, <1>7 DEF DNext, Send

-----------------------------------------------------------------------------
(* Closed conversations *)

\* No turn comes to life, no handle is revoked, and who waits goes on waiting for
\* the same turn.
LEMMA ClosesKept ==
    ASSUME DInv, UNCHANGED <<control, late>>,
           \A t \in Messages : task'[t] \in Live => task[t] \in Live,
           \A s \in Delegated : handle'[s] = "revoked" => handle[s] = "revoked",
           \A p \in Stoppers : control[p] # Idle => stop'[p].turn = stop[p].turn
    PROVE  Closes'
BY MessagesAreTurns DEF DInv, Closes, ClosedAfterSettlement, Idle

\* A handle may be revoked once the turns that run are late.
LEMMA RevokeCloses ==
    ASSUME DInv, NEW s \in Delegated, UNCHANGED <<task, stop, late>>,
           \A t \in Messages : task[t] \in Live /\ SessionOf[t] = s => t \in late,
           handle' = [handle EXCEPT ![s] = "revoked"],
           \A p \in Stoppers : control'[p] = control[p] \/ control'[p] = Idle
    PROVE  Closes'
BY MessagesAreTurns DEF DInv, Types, Closes, ClosedAfterSettlement, Idle

LEMMA ClosesStep ==
    ASSUME Delegated \cap Interruptible = {}, DInv, [DNext]_dvars
    PROVE  Closes'
<1> USE MessagesAreTurns DEF DInv, Types
<1>0. \A t \in Messages : task[t] \in Live =>
        message[t] = "running" /\ entry[SessionOf[t]] = t /\ handle[SessionOf[t]] \in {"active", "revoked"}
  BY DEF Slots, Rows, Inv, LiveTurnOwnsSession
<1>1. ASSUME NEW t \in Messages, Send(t) PROVE Closes'
  <2>1. CASE Admit(t) \/ Resolve(t) \/ Mint(t) \/ CallerLeaves(t)
    <3>1. UNCHANGED <<entry, task, stop, control, late>>
      BY <2>1 DEF Admit, Resolve, Mint, CallerLeaves, turnvars
    <3>2. \A s \in Delegated : handle'[s] = "revoked" => handle[s] = "revoked"
      BY <2>1 DEF Admit, Resolve, Mint, CallerLeaves
    <3> QED
      BY <3>1, <3>2, ClosesKept
  <2>2. CASE MintCreates(t)
    <3>1. handle[SessionOf[t]] = "minting" /\ UNCHANGED <<task, stop, control, late>>
      BY <2>2 DEF MintCreates, Rows, turnvars
    <3>2. \A u \in Messages : task[u] \in Live => SessionOf[u] # SessionOf[t]
      BY <1>0, <3>1
    <3>3. CASE handle' = [handle EXCEPT ![SessionOf[t]] = "active"]
      BY <3>1, <3>3, ClosesKept
    <3>4. CASE handle' = [handle EXCEPT ![SessionOf[t]] = "revoked"]
      BY <3>1, <3>2, <3>4, RevokeCloses
    <3> QED
      BY <2>2, <3>3, <3>4 DEF MintCreates
  <2>3. CASE SendStarts(t)
    <3>1. CASE HasLiveTurn(SessionOf[t])
      <4>1. UNCHANGED <<stop, control, late, handle>> /\ task' = [task EXCEPT ![t] = "refused"]
        BY <2>3, <3>1 DEF SendStarts, Start
      <4>2. \A u \in Messages : task'[u] \in Live => task[u] \in Live
        BY <4>1 DEF Live, Inv, TypeOK
      <4> QED
        BY <4>1, <4>2, ClosesKept
    <3>2. CASE ~HasLiveTurn(SessionOf[t])
      <4>1. /\ UNCHANGED <<stop, control, handle>> /\ task' = [task EXCEPT ![t] = "running"]
            /\ late \subseteq late'
            /\ handle[SessionOf[t]] # "active" \/ Closing(SessionOf[t]) => t \in late'
        BY <2>3, <3>2 DEF SendStarts, Start
      <4>2. \A u \in Messages : u # t => task'[u] = task[u]
        BY <4>1 DEF Inv, TypeOK
      <4>3. ASSUME NEW p \in Stoppers, control[p].closing, control[p].session = SessionOf[t],
                   control[p].at \in {"waiting", "settled"}
            PROVE  t \in late'
        BY <4>1, <4>3 DEF Closing
      <4>4. handle[SessionOf[t]] = "revoked" => t \in late'
        BY <4>1
      <4> QED
        BY <4>1, <4>2, <4>3, <4>4 DEF Closes, ClosedAfterSettlement
    <3> QED
      BY <3>1, <3>2
  <2>4. CASE CallerCancelled(t) \/ SendReturns(t)
    <3>1. UNCHANGED <<stop, control, late, handle>>
      BY <2>4 DEF CallerCancelled, SendReturns, OwnerLeaves, OwnerReleases
    <3>2. \A u \in Messages : task'[u] \in Live => task[u] \in Live
      BY <2>4 DEF CallerCancelled, SendReturns, OwnerLeaves, OwnerReleases, Live, Inv, TypeOK
    <3> QED
      BY <3>1, <3>2, ClosesKept
  <2> QED
    BY <1>1, <2>1, <2>2, <2>3, <2>4 DEF Send
<1>2. ASSUME NEW p \in Stoppers, NEW s \in Delegated, NEW closing \in BOOLEAN,
             ControlResolves(p, s, closing)
      PROVE  Closes'
  BY <1>2 DEF ControlResolves, turnvars, Closes, ClosedAfterSettlement
<1>3. ASSUME NEW p \in Stoppers, NEW t \in Turns \cup {Nobody}, ControlStops(p, t) PROVE Closes'
  <2> DEFINE s == control[p].session
  <2>1. /\ s \in Delegated /\ s \in Sessions /\ UNCHANGED <<message, handle, late>>
        /\ StopRequest(p, s, t)
    BY <1>3, TurnsAssumption DEF ControlStops, Requests, TurnsAssumption
  <2>2. CASE HasLiveTurn(s)
    <3>1. /\ control' = [control EXCEPT ![p] = [@ EXCEPT !.at = "waiting"]]
          /\ stop' = [stop EXCEPT ![p] = [at |-> "waiting", turn |-> entry[s]]]
          /\ task' = [task EXCEPT ![entry[s]] = "unwinding"]
      BY <1>3, <2>1, <2>2 DEF ControlStops, StopRequest
    <3>2. \A u \in Messages : task'[u] \in Live => task[u] \in Live
      BY <2>1, <2>2, <3>1 DEF HasLiveTurn, Inv, TypeOK
    <3>3. /\ stop'[p].turn = entry[s] /\ \A q \in Stoppers : q # p => stop'[q] = stop[q]
          /\ control'[p].session = s /\ control'[p].at = "waiting"
          /\ \A q \in Stoppers : q # p => control'[q] = control[q]
      BY <3>1 DEF Inv, TypeOK
    <3> QED
      BY <1>0, <2>1, <3>2, <3>3 DEF Closes, ClosedAfterSettlement
  <2>3. CASE ~HasLiveTurn(s)
    <3>1. UNCHANGED <<task, stop>> /\ \A q \in Stoppers : q # p => control'[q] = control[q]
      BY <1>3, <2>1, <2>3 DEF ControlStops, StopRequest
    <3>2. control'[p] = Idle \/ (control'[p].session = s /\ control'[p].at = "settled")
      BY <1>3, <2>3 DEF ControlStops
    <3>3. \A u \in Messages : task[u] \in Live => SessionOf[u] # s
      BY <1>0, <2>1, <2>3, TurnsAssumption DEF HasLiveTurn, TurnsAssumption
    <3> QED
      BY <2>1, <3>1, <3>2, <3>3 DEF Closes, ClosedAfterSettlement, Idle
  <2> QED
    BY <2>2, <2>3
<1>4. ASSUME NEW p \in Stoppers, NEW t \in Turns, ControlMisses(p, t) PROVE Closes'
  BY <1>4 DEF ControlMisses, turnvars, Closes, ClosedAfterSettlement, Idle
<1>5. ASSUME NEW p \in Stoppers, ControlReturns(p) PROVE Closes'
  <2>1. /\ UNCHANGED <<task, handle, late>>
        /\ \A q \in Stoppers : q # p => control'[q] = control[q] /\ stop'[q] = stop[q]
    BY <1>5 DEF ControlReturns, StopReturns, Inv, TypeOK
  <2>2. CASE control[p].closing /\ stop[p].at = "settled"
    <3>1. control[p].at = "waiting" /\ control'[p] = [control[p] EXCEPT !.at = "settled"]
      BY <1>5, <2>2 DEF ControlReturns
    <3>2. task[stop[p].turn] \notin Live
      BY <2>2, <3>1 DEF Requests, Inv, StoppersKnow
    <3> QED
      BY <2>1, <2>2, <3>1, <3>2 DEF Closes, ClosedAfterSettlement
  <2>3. CASE ~(control[p].closing /\ stop[p].at = "settled")
    <3>1. control'[p] = Idle
      BY <1>5, <2>3 DEF ControlReturns
    <3> QED
      BY <2>1, <3>1 DEF Closes, ClosedAfterSettlement, Idle
  <2> QED
    BY <2>2, <2>3
<1>6. ASSUME NEW p \in Stoppers, CloseRevokes(p) PROVE Closes'
  <2> DEFINE s == control[p].session
  <2>1. /\ s \in Delegated /\ UNCHANGED <<task, stop, late>>
        /\ control' = [control EXCEPT ![p] = Idle]
    BY <1>6 DEF CloseRevokes, turnvars, Requests
  <2>2. \A t \in Messages : task[t] \in Live /\ SessionOf[t] = s => t \in late
    BY <1>6 DEF CloseRevokes, Requests, Closes
  <2>3. CASE handle[s] = "active"
    BY <1>6, <2>1, <2>2, <2>3, RevokeCloses DEF CloseRevokes
  <2>4. CASE handle[s] # "active"
    BY <1>6, <2>1, <2>4 DEF CloseRevokes, Closes, ClosedAfterSettlement, Idle
  <2> QED
    BY <2>3, <2>4
<1>7. ASSUME NEW s \in Delegated, Expires(s) PROVE Closes'
  <2>1. \A t \in Messages : task[t] \in Live => SessionOf[t] # s
    BY <1>0, <1>7 DEF Expires
  <2> QED
    BY <1>7, <2>1, RevokeCloses DEF Expires, turnvars
<1>8. CASE Registry /\ UNCHANGED <<active, message, handle, control, late>>
  <2>1. \A u \in Messages : task'[u] \in Live => task[u] \in Live
    <3> DEFINE Kept == \A u \in Messages : task'[u] \in Live => task[u] \in Live
    <3>1. ASSUME NEW t \in Turns, End(t) \/ Swallow(t) \/ OwnerLeaves(t) PROVE Kept
      BY <3>1 DEF End, Swallow, OwnerLeaves, Live, Inv, TypeOK
    <3>2. ASSUME NEW t \in Turns \ Messages, Start(t) PROVE Kept
      BY <3>2 DEF Start, Inv, TypeOK
    <3>3. ASSUME NEW p \in Stoppers, NEW s \in Sessions, NEW t \in Turns \cup {Nobody},
                 StopRequest(p, s, t)
          PROVE  Kept
      BY <3>3 DEF StopRequest, HasLiveTurn, Inv, TypeOK
    <3> QED
      BY <1>8, <3>1, <3>2, <3>3 DEF Registry, StopSettles, StopTimesOut, StopInterrupted, StopReturns
  <2>2. \A q \in Stoppers : control[q] # Idle => stop'[q].turn = stop[q].turn
    <3> DEFINE Same == \A q \in Stoppers : control[q] # Idle => stop'[q].turn = stop[q].turn
    <3>0. stop \in [Stoppers -> [at : {"idle", "waiting", "settled", "stopping"},
                                turn : Turns \cup {Nobody}]]
      BY DEF Inv, TypeOK
    <3>1. CASE UNCHANGED stop
      BY <3>1
    <3>2. ASSUME NEW p \in Stoppers, StopSettles(p) \/ StopTimesOut(p) \/ StopInterrupted(p)
          PROVE  Same
      <4>1. PICK what \in {"settled", "stopping"} : stop' = [stop EXCEPT ![p].at = what]
        BY <3>2 DEF StopSettles, StopTimesOut, StopInterrupted, Tell
      <4> QED
        BY <3>0, <4>1
    <3>3. ASSUME NEW p \in Stoppers, control[p] = Idle, NEW q, stop' = [stop EXCEPT ![p] = q]
          PROVE  Same
      BY <3>0, <3>3
    <3>4. \/ UNCHANGED stop
          \/ \E p \in Stoppers : StopSettles(p) \/ StopTimesOut(p) \/ StopInterrupted(p)
          \/ \E p \in Stoppers : control[p] = Idle /\ (\E q : stop' = [stop EXCEPT ![p] = q])
      BY <1>8 DEF Registry, Start, End, Swallow, OwnerLeaves, StopReturns, StopRequest
    <3> QED
      BY <3>1, <3>2, <3>3, <3>4
  <2> QED
    BY <1>8, <2>1, <2>2, ClosesKept
<1>9. CASE UNCHANGED dvars
  BY <1>9, ClosesKept DEF dvars
<1> QED
  BY <1>1, <1>2, <1>3, <1>4, <1>5, <1>6, <1>7, <1>8, <1>9 DEF DNext

-----------------------------------------------------------------------------

LEMMA DInvInit == DInit => DInv
<1> SUFFICES ASSUME DInit PROVE DInv
  OBVIOUS
<1> USE MessagesAreTurns, TurnsAssumption, DelegationAssumption
        DEF DInit, TurnsAssumption, DelegationAssumption
<1>1. Inv
  BY InvInit
<1>2. Entries /\ Requests
  BY DEF Init, Entries, Requests, Idle
<1>3. Types
  BY DEF Types, Idle
<1>4. InsideNow = {} /\ MintingNow = {} /\ ActiveHandles = Existing
  BY DEF InsideNow, MintingNow, ActiveHandles, Inside
<1>5. Slots
  BY <1>4, FS_EmptySet DEF Slots, Init, Live
<1>6. Rows
  BY DEF Rows
<1>7. Quota
  <2>1. Cardinality(Existing) \in Nat
    BY FS_CardinalityType
  <2> QED
    BY <1>4, <2>1, FS_EmptySet DEF Quota
<1>8. Closes
  BY DEF Closes, ClosedAfterSettlement, Init, Live
<1> QED
  BY <1>1, <1>2, <1>3, <1>5, <1>6, <1>7, <1>8 DEF DInv

LEMMA DInvStep ==
    ASSUME Delegated \cap Interruptible = {}, DInv, [DNext]_dvars
    PROVE  DInv'
<1>1. [Next]_vars
  BY DStepIsStep DEF DInv
<1> QED
  BY <1>1, InvStep, EntriesStep, TypesStep, SlotsStep, RowsStep, QuotaStep, RequestsStep, ClosesStep
     DEF DInv

\* Whatever outside agents and web users do to their conversations at once, a live
\* turn owns its session (agent_delegation.py, agent_turn_control.py and app.py
\* above one chat_turn_registry.py): the steps of messages and requests are steps
\* of the registry.
THEOREM DelegatedTurnsOwnTheirSessions ==
    ASSUME Delegated \cap Interruptible = {}
    PROVE  DSpec => Spec /\ []LiveTurnOwnsSession
<1>1. DInv /\ [DNext]_dvars => DInv' /\ [Next]_vars
  BY DInvStep, DStepIsStep DEF DInv
<1>2. DInit => Init
  BY DEF DInit
<1>3. DInv => LiveTurnOwnsSession
  BY DEF DInv, Inv
<1> QED
  BY <1>1, <1>2, <1>3, DInvInit, PTL DEF DSpec, Spec

\* The gate bounds the delegated turns that really run, also those whose callers
\* have gone, and gives back every slot (try_acquire, release, _await_turn).
THEOREM GateBoundsTurns ==
    ASSUME Delegated \cap Interruptible = {}
    PROVE  DSpec => []RunningTurnsAreAdmitted
<1>1. DInv /\ [DNext]_dvars => DInv'
  BY DInvStep
<1>2. DInv => RunningTurnsAreAdmitted
  BY DEF DInv, Slots, InsideNow, RunningTurnsAreAdmitted
<1> QED
  BY <1>1, <1>2, DInvInit, PTL DEF DSpec

\* The quota of handles is exceeded by no more than the messages that the gate lets
\* in with the one that mints last (mint, create, count_active_for_principal).
THEOREM QuotaAlmostHolds ==
    ASSUME Delegated \cap Interruptible = {}
    PROVE  DSpec => []HandlesWithinQuota
<1>1. DInv /\ [DNext]_dvars => DInv'
  BY DInvStep
<1>2. ASSUME DInv PROVE HandlesWithinQuota
  <2>1. Cardinality(ActiveHandles) \in Nat /\ Cardinality(MintingNow) \in Nat
    BY <1>2, MintingIsFinite, FS_CardinalityType DEF DInv, Quota
  <2> QED
    BY <1>2, <2>1, DelegationAssumption DEF DInv, Quota, HandlesWithinQuota, DelegationAssumption
<1> QED
  BY <1>1, <1>2, DInvInit, PTL DEF DSpec

\* A turn that runs on a closed handle started after the turn that was to be
\* stopped had ended ("only after settlement", agent_turn_control.py:57).
THEOREM HandlesCloseAfterSettlement ==
    ASSUME Delegated \cap Interruptible = {}
    PROVE  DSpec => []ClosedAfterSettlement
<1>1. DInv /\ [DNext]_dvars => DInv'
  BY DInvStep
<1>2. DInv => ClosedAfterSettlement
  BY DEF DInv, Closes
<1> QED
  BY <1>1, <1>2, DInvInit, PTL DEF DSpec

=============================================================================
