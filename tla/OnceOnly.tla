------------------------------- MODULE OnceOnly -------------------------------
(***************************************************************************)
(* What the backend client promises to the worker about one call's         *)
(* requests, however often it has to repeat them: a request takes effect   *)
(* once if it carries an idempotency key, and otherwise once per attempt   *)
(* at most; one that is answered "ok" has taken effect; one that is not    *)
(* may have, and may still do so later.                                    *)
(*                                                                         *)
(* BackendClient.tla is the client as it is written; it implements this.   *)
(***************************************************************************)
CONSTANTS
    Requests,  \* the requests of the call
    Reads,     \* those that only ask
    Keyed,     \* those with an idempotency key
    Attempts   \* the attempts a request may take

VARIABLES
    made,       \* the requests that were made
    performed,  \* per request: the attempts at it that took effect
    result      \* per request: what its caller was told, or "none"

vars == <<made, performed, result>>

Init ==
    /\ made = {}
    /\ performed = [r \in Requests |-> {}]
    /\ result = [r \in Requests |-> "none"]

Make(r) == made' = made \cup {r} /\ UNCHANGED <<performed, result>>

Perform(r, n) ==
    /\ r \in made \ Reads /\ n \notin performed[r]
    /\ r \in Keyed => performed[r] = {}
    /\ performed' = [performed EXCEPT ![r] = @ \cup {n}]
    /\ UNCHANGED <<made, result>>

\* Answers end requests together when the client is closed.
Answer ==
    /\ \A r \in Requests : result'[r] # result[r] =>
          /\ r \in made /\ result[r] = "none"
          /\ result'[r] = "ok" => r \in Reads \/ performed[r] # {}
    /\ UNCHANGED <<made, performed>>

Next ==
    \/ \E r \in Requests : Make(r) \/ \E n \in Attempts : Perform(r, n)
    \/ Answer

Spec == Init /\ [][Next]_vars
===============================================================================
