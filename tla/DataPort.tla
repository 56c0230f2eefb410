------------------------------ MODULE DataPort ------------------------------
(***************************************************************************)
(* What the data cache promises the core: one request at a time; a load is *)
(* answered exactly once, before or as the next request is taken; a store, *)
(* and a load that has been answered, are never answered.                  *)
(***************************************************************************)

VARIABLES
    pending,    \* the request being worked on: "none", "load" or "store"
    fresh,      \* it was taken in the last cycle
    answered    \* a response reached the core's side in the last cycle

Requests == {"load", "store"}

Init ==
    /\ pending = "none"
    /\ fresh = FALSE
    /\ answered = FALSE

Taken == pending' \in Requests /\ fresh'

Over == pending' = "none" /\ ~fresh'

Accept == pending = "none" /\ Taken /\ ~answered'

\* The answer, and perhaps the next request in the same cycle.
Answer == pending = "load" /\ (Taken \/ Over) /\ answered'

\* A store is over when it is in the cache; nobody waits for a write-back.
Finish == pending = "store" /\ Over /\ ~answered'

Wait == pending' = pending /\ ~fresh' /\ ~answered'

Next == Accept \/ Answer \/ Finish \/ Wait

Spec == Init /\ [][Next]_<<pending, fresh, answered>>

=============================================================================
