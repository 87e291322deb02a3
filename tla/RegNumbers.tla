----------------------------- MODULE RegNumbers ------------------------------
(* What registration numbers promise: within a journal and a year every     *)
(* request that takes a number takes the next one, and nobody else gets it. *)
EXTENDS Naturals

CONSTANTS
    Requests,   \* the requests that take a number
    Keys,       \* pairs of a journal and a year
    NoNumber

VARIABLES
    next,       \* key -> the number the next request takes
    given       \* request -> the number it took

Init ==
    /\ next \in [Keys -> {1}]
    /\ given = [t \in Requests |-> NoNumber]

Take(t, k) ==
    /\ given[t] = NoNumber
    /\ given' = [given EXCEPT ![t] = [key |-> k, order |-> next[k]]]
    /\ next' = [next EXCEPT ![k] = @ + 1]

Next == \E t \in Requests, k \in Keys : Take(t, k)

Spec == Init /\ [][Next]_<<next, given>>

(* No two requests take the same number.                                    *)
Distinct ==
    \A t, u \in Requests : given[t] # NoNumber /\ given[t] = given[u] => t = u
=============================================================================
