---------------------------- MODULE ChatConsent ----------------------------
(***************************************************************************)
(* What the relay promises about chat sessions, with no sockets, handlers  *)
(* or timers: a session between two users is open once both have agreed to *)
(* it in separate steps, it can be asked for only of a user who is online, *)
(* and once open nothing but one of the two leaving ends it.               *)
(* RelaySessions implements this specification.                            *)
(***************************************************************************)
EXTENDS FiniteSets

CONSTANT Users

VARIABLES online,  \* the users the relay has a connection for
          agreed   \* [Pairs -> set of the users of the pair who have agreed]

Pairs == {k \in SUBSET Users : \E a, b \in Users : a # b /\ k = {a, b}}

Open(k) == agreed[k] = k

Init == online = {} /\ agreed = [k \in Pairs |-> {}]

Arrive(u) ==
    /\ u \notin online
    /\ online' = online \cup {u}
    /\ UNCHANGED agreed

\* Whatever u had agreed to, or others with u, is over.
Leave(u) ==
    /\ u \in online
    /\ online' = online \ {u}
    /\ agreed' = [k \in Pairs |-> IF u \in k THEN {} ELSE agreed[k]]

Ask(u, k) ==
    /\ u \in k
    /\ agreed[k] = {}
    /\ k \ {u} \subseteq online
    /\ agreed' = [agreed EXCEPT ![k] = {u}]
    /\ UNCHANGED online

Answer(u, k) ==
    /\ u \in k
    /\ agreed[k] = k \ {u}
    /\ agreed' = [agreed EXCEPT ![k] = k]
    /\ UNCHANGED online

\* A request is declined, or nobody answers it in time.
Lapse(k) ==
    /\ ~Open(k)
    /\ agreed' = [agreed EXCEPT ![k] = {}]
    /\ UNCHANGED online

Next ==
    \/ \E u \in Users : Arrive(u) \/ Leave(u)
    \/ \E k \in Pairs : Lapse(k) \/ \E u \in Users : Ask(u, k) \/ Answer(u, k)

Spec == Init /\ [][Next]_<<online, agreed>>

=============================================================================
