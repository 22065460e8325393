------------------------------ MODULE MCChatTurns ------------------------------
(***************************************************************************)
(* A small instance of AgentDelegation: two messages to a conversation of  *)
(* an outside agent, two that open conversations, and a web session.       *)
(***************************************************************************)
EXTENDS AgentDelegation, TLC

CONSTANTS t1, t2, t3, t4, t5, old, fresh, other, web, x, y

MCSessionOf == [t \in Turns |->
    CASE t \in {t1, t2} -> old
      [] t = t3 -> fresh
      [] t = t4 -> other
      [] OTHER -> web]

\* Bound: the web session, or both messages that open conversations.
OneOrTheOther == task[t5] = "new" \/ "new" \in {message[t3], message[t4]}

\* The stoppers, the messages to the old conversation, and the two new ones with
\* their messages, may change places.
Same(S) == [v \in S |-> v]
Swap(a, b) == a :> b @@ b :> a
MCSymmetry ==
    {f @@ g @@ h :
        f \in Permutations({x, y}),
        g \in Permutations({t1, t2}),
        h \in {Same({t3, t4, fresh, other}), Swap(t3, t4) @@ Swap(fresh, other)}}

=============================================================================
