-------------------------------- MODULE Logins --------------------------------
(***************************************************************************)
(* What the registry of a gate (gate/session/session_mgr.go) promises: a   *)
(* user id leads to at most one connection, which proved that id, and the  *)
(* connection of an id never changes without the id being logged out.      *)
(***************************************************************************)
CONSTANTS Sessions, Uids, None

VARIABLES
    reg,      \* the connection a user id leads to, or None
    claimed   \* the ids each connection proved

Init == reg = [u \in Uids |-> None] /\ claimed = [s \in Sessions |-> {}]

Claim(s, u) ==
    claimed' = [claimed EXCEPT ![s] = @ \cup {u}] /\ UNCHANGED reg

Login(s, u) ==
    /\ reg[u] = None /\ u \in claimed[s]
    /\ reg' = [reg EXCEPT ![u] = s]
    /\ UNCHANGED claimed

Logout(u) == reg' = [reg EXCEPT ![u] = None] /\ UNCHANGED claimed

Next == \E u \in Uids : Logout(u) \/ \E s \in Sessions : Claim(s, u) \/ Login(s, u)

Spec == Init /\ [][Next]_<<reg, claimed>>
=============================================================================
