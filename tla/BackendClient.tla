----------------------------- MODULE BackendClient -----------------------------
(***************************************************************************)
(* client.py: the requests the worker makes to the dashboard backend for   *)
(* one call, with the retries of _request.  An attempt that times out may  *)
(* still be on its way and be processed after the next one, or after the   *)
(* request was given up.                                                   *)
(*                                                                         *)
(* What is abstracted.  A request stands for its path, body and key.  The  *)
(* backend is external: it performs a request with a known key once and    *)
(* answers it again with success; a proxy before it may answer 502 or 504  *)
(* whatever it has done.  The exceptions a request ends with are one       *)
(* outcome, "failed", as no caller tells them apart.                       *)
(***************************************************************************)
EXTENDS Naturals

CONSTANTS
    Messages,   \* the messages of the transcript
    Others,     \* the requests for the snapshot and for the transfer, if the call makes them
    MaxRetries  \* http_max_retries

ASSUME RetriesAssumption == MaxRetries \in Nat
ASSUME OthersAssumption == Others \subseteq {"snapshot", "transfer"}
ASSUME MessagesAssumption ==
    Messages \cap {"resolve", "snapshot", "create", "transfer", "complete"} = {}

VARIABLES
    step,       \* per request: new, trying, waiting for the next attempt, or returned
    attempt,    \* per request: the attempts so far
    reply,      \* per request: what arrived for the attempt in progress
    result,     \* per request: what its caller was told
    inFlight,   \* per request: the attempts on their way to the backend
    performed,  \* per request: the attempts that took effect
    known,      \* the idempotency keys the backend has seen
    closed      \* the HTTP client is closed

vars == <<step, attempt, reply, result, inFlight, performed, known, closed>>

Reads == {"resolve"} \cup (Others \ {"transfer"})
Keyed == {"create", "complete"} \cup Messages
Requests == Reads \cup Keyed \cup Others
Attempts == 1 .. MaxRetries + 1

Init ==
    /\ step = [r \in Requests |-> "new"]
    /\ attempt = [r \in Requests |-> 0]
    /\ reply = [r \in Requests |-> "none"]
    /\ result = [r \in Requests |-> "none"]
    /\ inFlight = [r \in Requests |-> {}]
    /\ performed = [r \in Requests |-> {}]
    /\ known = {}
    /\ closed = FALSE

------------------------------------------------------------------------------
(* The worker: which request it makes when (runtime.py, transcript_service.py, *)
(* call_service.py).                                                           *)

Done(r) == result[r] = "ok"

Over(r) == step[r] \in {"new", "returned"}

KnowledgeLoaded == \A r \in Reads : Over(r)

\* Mutant: the call is completed while messages are still being posted.
Ready_noFlush(r) ==
    CASE r = "resolve" -> TRUE
      [] r \in {"snapshot", "create"} -> Done("resolve") /\ result["create"] = "none"
      [] r \in Messages \cup {"transfer"} ->
            Done("create") /\ KnowledgeLoaded /\ step["complete"] = "new"
      [] r = "complete" -> Done("create") /\ KnowledgeLoaded

\* An agent is resolved, its call created while the knowledge loads; messages and the
\* transfer go out as the conversation goes on; it is completed after the flush.
Ready(r) ==
    CASE r = "resolve" -> TRUE
      [] r \in {"snapshot", "create"} -> Done("resolve") /\ result["create"] = "none"
      [] r \in Messages \cup {"transfer"} ->
            Done("create") /\ KnowledgeLoaded /\ step["complete"] = "new"
      [] r = "complete" ->
            Done("create") /\ KnowledgeLoaded /\ \A m \in Messages : Over(m)

------------------------------------------------------------------------------
(* _request *)

\* Mutant: every attempt counts as the first.
Try_uncounted(r) ==
    /\ step' = [step EXCEPT ![r] = "trying"]
    /\ attempt' = [attempt EXCEPT ![r] = 1]
    /\ reply' = [reply EXCEPT ![r] = "none"]
    /\ inFlight' = [inFlight EXCEPT ![r] = @ \cup {1}]
    /\ UNCHANGED <<result, performed, known, closed>>

Try(r) ==
    /\ step' = [step EXCEPT ![r] = "trying"]
    /\ attempt' = [attempt EXCEPT ![r] = @ + 1]
    /\ reply' = [reply EXCEPT ![r] = "none"]
    /\ inFlight' = [inFlight EXCEPT ![r] = @ \cup {attempt[r] + 1}]
    /\ UNCHANGED <<result, performed, known, closed>>

Make(r) == step[r] = "new" /\ ~closed /\ Ready(r) /\ Try(r)

Retry(r) == step[r] = "waiting" /\ Try(r)

Return(r, code) ==
    /\ step' = [step EXCEPT ![r] = "returned"]
    /\ result' = [result EXCEPT ![r] = code]
    /\ reply' = [reply EXCEPT ![r] = "none"]
    /\ UNCHANGED <<attempt, inFlight, performed, known, closed>>

\* Mutant: the status of the response is not looked at.
Answered_unchecked(r) ==
    /\ step[r] = "trying" /\ reply[r] \in {"ok", "rejected"}
    /\ Return(r, "ok")

\* A response that is not one of the temporary ones ends the request: BackendRejected
\* and AgentNotFound are raised from it.
Answered(r) ==
    /\ step[r] = "trying" /\ reply[r] \in {"ok", "rejected"}
    /\ Return(r, IF reply[r] = "ok" THEN "ok" ELSE "failed")

\* 429, 502, 503, 504, a timeout or a network error, whatever the backend has done:
\* the next attempt follows, or BackendUnavailable.
AttemptFails(r) ==
    /\ step[r] = "trying"
    /\ IF attempt[r] <= MaxRetries
       THEN /\ step' = [step EXCEPT ![r] = "waiting"]
            /\ UNCHANGED <<attempt, reply, result, inFlight, performed, known, closed>>
       ELSE Return(r, "failed")

\* Any other exception is not retried: a protocol error, a response that is not what
\* the schema says, the cancellation of the caller.
Breaks(r) == step[r] \in {"trying", "waiting"} /\ Return(r, "failed")

\* __aexit__: the worker is done with the call, or has failed.
Close ==
    /\ ~closed /\ closed' = TRUE
    /\ step' = [r \in Requests |-> IF Over(r) THEN step[r] ELSE "returned"]
    /\ result' = [r \in Requests |-> IF Over(r) THEN result[r] ELSE "failed"]
    /\ reply' = [r \in Requests |-> "none"]
    /\ UNCHANGED <<attempt, inFlight, performed, known>>

------------------------------------------------------------------------------
(* The network and the backend (external).  A copy that is lost never arrives. *)

\* Mutant: a key of its own for every attempt.
Key_perAttempt(r, n) == <<r, n>>

\* call:<sip call id>, message:<call>:<sequence>:<speaker>:<id>, complete:<call>
Key(r, n) == r

Arrives(r, n) == n \in inFlight[r] /\ inFlight' = [inFlight EXCEPT ![r] = @ \ {n}]

\* The answer reaches the client if that still waits for it.
Respond(r, n, answer) ==
    /\ reply' = IF step[r] = "trying" /\ attempt[r] = n
                THEN [reply EXCEPT ![r] = answer] ELSE reply
    /\ UNCHANGED <<step, attempt, result, closed>>

Perform(r, n) ==
    /\ r \notin Reads /\ (r \in Keyed => Key(r, n) \notin known)
    /\ Arrives(r, n)
    /\ performed' = [performed EXCEPT ![r] = @ \cup {n}]
    /\ known' = IF r \in Keyed THEN known \cup {Key(r, n)} ELSE known
    /\ \E answer \in {"ok", "busy"} : Respond(r, n, answer)

Repeat(r, n) ==
    /\ r \in Reads \/ (r \in Keyed /\ Key(r, n) \in known)
    /\ Arrives(r, n)
    /\ \E answer \in {"ok", "busy"} : Respond(r, n, answer)
    /\ UNCHANGED <<performed, known>>

Refuse(r, n) ==
    /\ Arrives(r, n)
    /\ \E answer \in {"rejected", "busy"} : Respond(r, n, answer)
    /\ UNCHANGED <<performed, known>>

------------------------------------------------------------------------------

Request(r) == Make(r) \/ Answered(r) \/ AttemptFails(r) \/ Retry(r) \/ Breaks(r)

Backend(r, n) == Perform(r, n) \/ Repeat(r, n) \/ Refuse(r, n)

Next ==
    \/ \E r \in Requests : Request(r) \/ \E n \in Attempts : Backend(r, n)
    \/ Close

\* Every attempt has a timeout, and the backoff ends.
Fairness == \A r \in Requests : WF_vars(Answered(r) \/ AttemptFails(r) \/ Retry(r))

Spec == Init /\ [][Next]_vars /\ Fairness

------------------------------------------------------------------------------
(* Properties. *)

Promise == INSTANCE OnceOnly WITH made <- {r \in Requests : step[r] # "new"}

\* The retries of the client and the keys of the backend together make every request
\* with a key happen once, and no answer "ok" is given for one that did not happen,
\* in whatever order attempts and their copies on the network arrive.
ImplementsOnceOnly == Promise!Spec

\* Once the backend has completed the call, the only messages that it still adds are
\* ones the worker was told are not stored: the flush left no other on its way.
CompletedLast ==
    [][\A m \in Messages :
          performed["complete"] # {} /\ performed'[m] # performed[m]
             => result[m] = "failed"]_vars

\* A request always ends: the attempts of _request are counted, whatever they meet.
EveryRequestReturns == \A r \in Requests : step[r] = "trying" ~> step[r] = "returned"

Step == {"new", "trying", "waiting", "returned"}
Answers == {"none", "ok", "busy", "rejected"}
Results == {"none", "ok", "failed"}

\* Every variable keeps to the values the code can give it.
TypeOK ==
    /\ step \in [Requests -> Step]
    /\ attempt \in [Requests -> 0 .. MaxRetries + 1]
    /\ reply \in [Requests -> Answers]
    /\ result \in [Requests -> Results]
    /\ inFlight \in [Requests -> SUBSET Attempts]
    /\ performed \in [Requests -> SUBSET Attempts]
    /\ known \subseteq Keyed
    /\ closed \in BOOLEAN

\* What makes the refinement inductive: an attempt is on its way or has happened but
\* not both, only what was attempted is either, a request with a key happens only with
\* its key remembered, and an answer "ok" says that it has happened.
OneCopy ==
    \A r \in Requests :
        /\ inFlight[r] \cup performed[r] \subseteq 1 .. attempt[r]
        /\ inFlight[r] \cap performed[r] = {}
        /\ step[r] = "new" => attempt[r] = 0
        /\ step[r] = "waiting" => attempt[r] <= MaxRetries
        /\ step[r] # "returned" => result[r] = "none"
        /\ r \in Reads => performed[r] = {}
        /\ r \in Keyed /\ r \notin known => performed[r] = {}
        /\ r \in known => performed[r] # {}
        /\ "ok" \in {reply[r], result[r]} => r \in Reads \/ performed[r] # {}

IndInv == TypeOK /\ OneCopy

\* What CompletedLast rests on: no message is posted once the completion is, and a
\* request that has returned has told its caller something.
FlushedFirst ==
    /\ step["complete"] # "new" => \A m \in Messages : Over(m)
    /\ \A r \in Requests : step[r] = "returned" => result[r] # "none"
===============================================================================
