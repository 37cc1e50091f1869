-------------------------------- MODULE Calls --------------------------------
(***************************************************************************)
(* What rpc/rpc.go promises its callers: a message is handled at most once *)
(* by a goroutine it is meant for; a request returns once, with an answer  *)
(* only if its handler gave one.  A request that returned an error may     *)
(* have been handled, may be in the middle of it or may be handled later.  *)
(***************************************************************************)
CONSTANTS Msgs, Goroutines

VARIABLES
    handled,   \* [Msgs -> [Goroutines -> {"no", "begun", "nothing", "answer"}]]
    result     \* [Msgs -> {"none", "answer", "error"}]

Init ==
    /\ handled = [i \in Msgs |-> [g \in Goroutines |-> "no"]]
    /\ result = [i \in Msgs |-> "none"]

Begin(i, g) ==
    /\ handled[i][g] = "no"
    /\ handled' = [handled EXCEPT ![i][g] = "begun"]
    /\ UNCHANGED result

End(i, g) ==
    /\ handled[i][g] = "begun"
    /\ \E o \in {"nothing", "answer"} : handled' = [handled EXCEPT ![i][g] = o]
    /\ UNCHANGED result

Answer(i) ==
    /\ result[i] = "none" /\ \E g \in Goroutines : handled[i][g] = "answer"
    /\ result' = [result EXCEPT ![i] = "answer"]
    /\ UNCHANGED handled

Fail(i) ==
    /\ result[i] = "none"
    /\ result' = [result EXCEPT ![i] = "error"]
    /\ UNCHANGED handled

Next == \E i \in Msgs : Answer(i) \/ Fail(i) \/ \E g \in Goroutines : Begin(i, g) \/ End(i, g)

Spec == Init /\ [][Next]_<<handled, result>>
=============================================================================
