----------------------------- MODULE MCRelayParts -----------------------------
(***************************************************************************)
(* Four parts of the relay that share no state, side by side: the groups   *)
(* with a database that answers, the contact gate, the frame guards and    *)
(* the push pings.  A behaviour moves one of them.                         *)
(***************************************************************************)
EXTENDS RelayGroups, RelayGate, RelayGuards, PushPings

VARIABLE part  \* which of them this behaviour is about

RelayPartsInit ==
    /\ part \in {"groups", "gate", "guards", "pings"}
    /\ Init /\ GateInit /\ GuardsInit /\ PingInit

RelayPartsNext ==
    /\ UNCHANGED part
    /\ \/ part = "groups" /\ Next       /\ UNCHANGED <<gateVars, guardVars, pingVars>>
       \/ part = "gate"   /\ GateNext   /\ UNCHANGED <<vars, guardVars, pingVars>>
       \/ part = "guards" /\ GuardsNext /\ UNCHANGED <<vars, gateVars, pingVars>>
       \/ part = "pings"  /\ PingNext   /\ UNCHANGED <<vars, gateVars, guardVars>>

\* The groups are blind to which user is which.
UsersAlike == Permutations(Users)

RelayPartsSpec ==
    RelayPartsInit /\ [][RelayPartsNext]_<<part, vars, gateVars, guardVars, pingVars>>
=============================================================================
