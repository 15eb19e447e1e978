------------------------- MODULE BackendClientProofs -------------------------
(* Proof that the client implements OnceOnly, for any number of messages and   *)
(* retries: requests with a key happen once, and "ok" says that they did; and  *)
(* that the completion of a call is the last of them that matters.             *)
EXTENDS BackendClient, TLAPS

LEMMA IndInvInit == Init => IndInv
<1> SUFFICES ASSUME Init PROVE TypeOK /\ OneCopy
  BY DEF IndInv
<1>1. TypeOK
  <2>1. attempt \in [Requests -> 0 .. MaxRetries + 1]
    BY RetriesAssumption DEF Init
  <2>2. inFlight \in [Requests -> SUBSET Attempts] /\ performed \in [Requests -> SUBSET Attempts]
    BY DEF Init
  <2> QED BY <2>1, <2>2 DEF Init, TypeOK, Step, Answers, Results
<1>2. OneCopy
  BY RetriesAssumption DEF Init, OneCopy
<1> QED BY <1>1, <1>2

\* A new attempt sends one more copy, numbered after the others.
LEMMA TryStep ==
  ASSUME IndInv, NEW r \in Requests, Try(r), step[r] \in {"new", "waiting"}
  PROVE  IndInv'
<1> USE RetriesAssumption DEF IndInv, Try
<1>1. attempt[r] \in Nat /\ attempt[r] + 1 \in Attempts
  BY DEF TypeOK, OneCopy, Attempts
<1>2. TypeOK'
  BY <1>1 DEF TypeOK, Step, Answers, Attempts
<1>3. OneCopy'
  <2> SUFFICES ASSUME NEW q \in Requests PROVE OneCopy!(q)'
    BY DEF OneCopy
  <2>1. CASE q # r
    BY <2>1 DEF OneCopy, TypeOK
  <2>2. CASE q = r
    <3>1. /\ attempt'[r] = attempt[r] + 1
          /\ inFlight'[r] = inFlight[r] \cup {attempt[r] + 1}
          /\ step'[r] = "trying" /\ reply'[r] = "none"
      BY DEF TypeOK
    <3>2. inFlight[r] \cup performed[r] \subseteq 1 .. attempt[r]
      BY DEF OneCopy
    <3>3. inFlight'[r] \cup performed'[r] \subseteq 1 .. attempt'[r]
      BY <1>1, <3>1, <3>2
    <3>4. inFlight'[r] \cap performed'[r] = {}
      BY <1>1, <3>1, <3>2 DEF OneCopy
    <3> QED BY <2>2, <3>1, <3>3, <3>4 DEF OneCopy
  <2> QED BY <2>1, <2>2
<1> QED BY <1>2, <1>3

\* The end of a request says "ok" only after a reply "ok".
LEMMA ReturnStep ==
  ASSUME IndInv, NEW r \in Requests, step[r] \in {"trying", "waiting"},
         NEW code \in {"ok", "failed"}, code = "ok" => reply[r] = "ok", Return(r, code)
  PROVE  IndInv'
<1> USE DEF IndInv, Return
<1>1. TypeOK'
  BY DEF TypeOK, Step, Answers, Results
<1>2. OneCopy'
  BY DEF OneCopy, TypeOK
<1> QED BY <1>1, <1>2

LEMMA RequestStep == ASSUME IndInv, NEW r \in Requests, Request(r) PROVE IndInv'
<1>1. CASE Make(r)
  BY <1>1, TryStep DEF Make
<1>2. CASE Retry(r)
  BY <1>2, TryStep DEF Retry
<1>3. CASE Answered(r)
  BY <1>3, ReturnStep DEF Answered
<1>4. CASE Breaks(r)
  BY <1>4, ReturnStep DEF Breaks
<1>5. CASE AttemptFails(r)
  <2>1. CASE attempt[r] <= MaxRetries
    <3>1. TypeOK'
      BY <1>5, <2>1 DEF AttemptFails, IndInv, TypeOK, Step
    <3>2. OneCopy'
      BY <1>5, <2>1 DEF AttemptFails, IndInv, TypeOK, OneCopy
    <3> QED BY <3>1, <3>2 DEF IndInv
  <2>2. CASE ~(attempt[r] <= MaxRetries)
    BY <1>5, <2>2, ReturnStep DEF AttemptFails
  <2> QED BY <2>1, <2>2
<1> QED BY <1>1, <1>2, <1>3, <1>4, <1>5 DEF Request

LEMMA CloseStep == ASSUME IndInv, Close PROVE IndInv'
<1>1. TypeOK'
  BY DEF Close, IndInv, TypeOK, Step, Answers, Results
<1>2. OneCopy'
  BY DEF Close, IndInv, TypeOK, OneCopy, Over, Step
<1> QED BY <1>1, <1>2 DEF IndInv

\* The answer of the backend changes what is known of one attempt.
LEMMA RespondType ==
  ASSUME TypeOK, NEW r, NEW n, NEW answer \in Answers, Respond(r, n, answer)
  PROVE  /\ reply' \in [Requests -> Answers]
         /\ \A q \in Requests : reply'[q] # reply[q] => q = r /\ reply'[q] = answer
         /\ step' = step /\ attempt' = attempt /\ result' = result /\ closed' = closed
BY DEF Respond, TypeOK

LEMMA BackendStep ==
  ASSUME IndInv, NEW r \in Requests, NEW n \in Attempts, Backend(r, n) PROVE IndInv'
<1> USE DEF IndInv, Arrives
<1>1. CASE Perform(r, n)
  <2>1. PICK answer \in {"ok", "busy"} : Respond(r, n, answer)
    BY <1>1 DEF Perform
  <2>2. /\ reply' \in [Requests -> Answers]
        /\ \A q \in Requests : reply'[q] # reply[q] => q = r
        /\ step' = step /\ attempt' = attempt /\ result' = result /\ closed' = closed
    BY <2>1, RespondType DEF Answers
  <2>3. TypeOK'
    BY <1>1, <2>2 DEF Perform, TypeOK, Key
  <2>4. OneCopy'
    BY <1>1, <2>2 DEF Perform, TypeOK, OneCopy, Key
  <2> QED BY <2>3, <2>4
<1>2. CASE Repeat(r, n)
  <2>1. PICK answer \in {"ok", "busy"} : Respond(r, n, answer)
    BY <1>2 DEF Repeat
  <2>2. /\ reply' \in [Requests -> Answers]
        /\ \A q \in Requests : reply'[q] # reply[q] => q = r
        /\ step' = step /\ attempt' = attempt /\ result' = result /\ closed' = closed
    BY <2>1, RespondType DEF Answers
  <2>3. TypeOK'
    BY <1>2, <2>2 DEF Repeat, TypeOK
  <2>4. OneCopy'
    BY <1>2, <2>2 DEF Repeat, TypeOK, OneCopy, Key
  <2> QED BY <2>3, <2>4
<1>3. CASE Refuse(r, n)
  <2>1. PICK answer \in {"rejected", "busy"} : Respond(r, n, answer)
    BY <1>3 DEF Refuse
  <2>2. /\ reply' \in [Requests -> Answers]
        /\ \A q \in Requests : reply'[q] # reply[q] => reply'[q] # "ok"
        /\ step' = step /\ attempt' = attempt /\ result' = result /\ closed' = closed
    BY <2>1, RespondType DEF Answers
  <2>3. TypeOK'
    BY <1>3, <2>2 DEF Refuse, TypeOK
  <2>4. OneCopy'
    BY <1>3, <2>2 DEF Refuse, TypeOK, OneCopy
  <2> QED BY <2>3, <2>4
<1> QED BY <1>1, <1>2, <1>3 DEF Backend

\* What holds of the copies, the keys and the answers in every reachable state.
THEOREM Invariance == Spec => []IndInv
<1>1. IndInv /\ [Next]_vars => IndInv'
  <2> SUFFICES ASSUME IndInv, [Next]_vars PROVE IndInv'
    OBVIOUS
  <2>1. CASE UNCHANGED vars
    BY <2>1 DEF vars, IndInv, TypeOK, OneCopy
  <2>2. CASE Next
    BY <2>2, RequestStep, BackendStep, CloseStep DEF Next
  <2> QED BY <2>1, <2>2
<1> QED BY IndInvInit, <1>1, PTL DEF Spec

------------------------------------------------------------------------------
(* The refinement: every step is one of OnceOnly, or a stutter. *)

Made == {r \in Requests : step[r] # "new"}

LEMMA InitRefines == Init => Promise!Init
BY DEF Init, Promise!Init

LEMMA AnswerRefines ==
  ASSUME IndInv, Made' = Made, performed' = performed,
         \A r \in Requests : result'[r] # result[r] =>
            /\ step[r] # "new" /\ result[r] = "none"
            /\ result'[r] = "ok" => reply[r] = "ok"
  PROVE  Promise!Next
<1>1. \A r \in Requests : result'[r] # result[r] /\ result'[r] = "ok"
                             => r \in Reads \/ performed[r] # {}
  BY DEF IndInv, OneCopy
<1> QED BY <1>1 DEF Promise!Next, Promise!Answer, Made

LEMMA StepRefines == IndInv /\ [Next]_vars => [Promise!Next]_(Promise!vars)
<1> SUFFICES ASSUME IndInv, [Next]_vars PROVE [Promise!Next]_(Promise!vars)
  OBVIOUS
<1> USE DEF IndInv
<1>1. CASE UNCHANGED vars
  BY <1>1 DEF vars, Promise!vars
<1>2. CASE Close
  <2>1. Made' = Made
    BY <1>2 DEF Close, Made, Over, TypeOK
  <2> QED BY <1>2, <2>1, AnswerRefines DEF Close, Over, OneCopy, TypeOK, Step
<1>3. ASSUME NEW r \in Requests, Request(r) PROVE [Promise!Next]_(Promise!vars)
  <2>1. CASE Make(r)
    <3>1. Made' = Made \cup {r}
      BY <2>1 DEF Make, Try, Made, TypeOK
    <3>2. Promise!Make(r)
      BY <2>1, <3>1 DEF Make, Try, Made, Promise!Make
    <3> QED BY <3>2 DEF Promise!Next
  <2>2. CASE Retry(r)
    <3>1. Made' = Made
      BY <2>2 DEF Retry, Try, Made, TypeOK
    <3> QED BY <2>2, <3>1 DEF Retry, Try, Made, Promise!vars
  <2>3. CASE \E code \in {"ok", "failed"} :
                 /\ step[r] \in {"trying", "waiting"} /\ (code = "ok" => reply[r] = "ok")
                 /\ Return(r, code)
    <3>1. Made' = Made
      BY <2>3 DEF Return, Made, TypeOK
    <3> QED BY <2>3, <3>1, AnswerRefines DEF Return, OneCopy, TypeOK
  <2>4. CASE AttemptFails(r) /\ UNCHANGED result
    <3>1. Made' = Made /\ performed' = performed
      BY <2>4 DEF AttemptFails, Return, Made, TypeOK
    <3> QED BY <2>4, <3>1 DEF Made, Promise!vars
  <2>5. Answered(r) \/ Breaks(r) => \E code \in {"ok", "failed"} :
                 /\ step[r] \in {"trying", "waiting"} /\ (code = "ok" => reply[r] = "ok")
                 /\ Return(r, code)
    BY DEF Answered, Breaks
  <2>6. AttemptFails(r) => \/ UNCHANGED result
                           \/ step[r] = "trying" /\ Return(r, "failed")
    BY DEF AttemptFails
  <2> QED BY <1>3, <2>1, <2>2, <2>3, <2>4, <2>5, <2>6 DEF Request
<1>4. ASSUME NEW r \in Requests, NEW n \in Attempts, Backend(r, n)
      PROVE  [Promise!Next]_(Promise!vars)
  <2>1. Made' = Made /\ result' = result
    BY <1>4 DEF Backend, Perform, Repeat, Refuse, Respond, Made
  <2>2. CASE Perform(r, n)
    <3>1. n \notin performed[r] /\ r \notin Reads
      BY <2>2 DEF Perform, Arrives, OneCopy
    <3>2. r \in Made
      <4>1. attempt[r] # 0
        BY <2>2, RetriesAssumption DEF Perform, Arrives, OneCopy, TypeOK
      <4> QED BY <4>1 DEF OneCopy, Made
    <3>3. r \in Keyed => performed[r] = {}
      BY <2>2 DEF Perform, Key, OneCopy
    <3>4. Promise!Perform(r, n)
      BY <2>1, <2>2, <3>1, <3>2, <3>3 DEF Perform, Promise!Perform, Made
    <3> QED BY <3>4 DEF Promise!Next
  <2>3. CASE Repeat(r, n) \/ Refuse(r, n)
    BY <2>1, <2>3 DEF Repeat, Refuse, Made, Promise!vars
  <2> QED BY <1>4, <2>2, <2>3 DEF Backend
<1> QED BY <1>1, <1>2, <1>3, <1>4 DEF Next

\* The client with its retries implements the promise: each request with a key happens
\* once at most, one without a key once per attempt, and "ok" is true.
THEOREM Refinement == Spec => ImplementsOnceOnly
BY Invariance, InitRefines, StepRefines, PTL DEF Spec, ImplementsOnceOnly, Promise!Spec

------------------------------------------------------------------------------
(* The completion is the last request that matters. *)

LEMMA NamesDiffer == Messages \subseteq Keyed /\ Keyed \subseteq Requests /\ "complete" \notin Messages
BY MessagesAssumption DEF Keyed, Requests

\* Only "new" requests are made and only the others go on, so that no step of a
\* request posts a message after the flush.
LEMMA FlushedFirstStep ==
  ASSUME IndInv, FlushedFirst, [Next]_vars PROVE FlushedFirst'
<1> USE NamesDiffer DEF FlushedFirst, Over
<1>1. step \in [Requests -> Step] /\ result \in [Requests -> Results]
  BY DEF IndInv, TypeOK
<1>2. ASSUME NEW r \in Requests, Make(r) PROVE FlushedFirst'
  <2>1. step' = [step EXCEPT ![r] = "trying"] /\ result' = result /\ step[r] = "new"
    BY <1>2 DEF Make, Try
  <2>2. CASE r = "complete"
    <3>1. \A m \in Messages : Over(m)
      BY <1>2, <2>2, MessagesAssumption DEF Make, Ready
    <3> QED BY <1>1, <2>1, <2>2, <3>1
  <2>3. CASE r \in Messages
    <3>1. step["complete"] = "new"
      BY <1>2, <2>3, MessagesAssumption DEF Make, Ready
    <3> QED BY <1>1, <2>1, <2>3, <3>1
  <2>4. CASE r # "complete" /\ r \notin Messages
    BY <1>1, <2>1, <2>4
  <2> QED BY <2>2, <2>3, <2>4
<1>3. ASSUME NEW r \in Requests, Retry(r) PROVE FlushedFirst'
  <2>1. step' = [step EXCEPT ![r] = "trying"] /\ result' = result /\ step[r] = "waiting"
    BY <1>3 DEF Retry, Try
  <2> QED BY <1>1, <2>1
<1>4. ASSUME NEW r \in Requests, Answered(r) \/ AttemptFails(r) \/ Breaks(r)
      PROVE  FlushedFirst'
  <2>1. step[r] \in {"trying", "waiting"}
    BY <1>4 DEF Answered, AttemptFails, Breaks
  <2>2. CASE step' = [step EXCEPT ![r] = "waiting"] /\ result' = result
    BY <1>1, <2>1, <2>2
  <2>3. ASSUME NEW code \in {"ok", "failed"}, Return(r, code) PROVE FlushedFirst'
    BY <1>1, <2>1, <2>3 DEF Return
  <2> QED BY <1>4, <2>2, <2>3 DEF Answered, AttemptFails, Breaks
<1>5. CASE Close
  BY <1>1, <1>5 DEF Close
<1>6. ASSUME NEW r \in Requests, NEW n \in Attempts, Backend(r, n) PROVE FlushedFirst'
  <2>1. UNCHANGED <<step, result>>
    BY <1>6 DEF Backend, Perform, Repeat, Refuse, Respond
  <2> QED BY <2>1
<1>7. CASE UNCHANGED vars
  BY <1>7 DEF vars
<1> QED BY <1>2, <1>3, <1>4, <1>5, <1>6, <1>7 DEF Next, Request

\* The flush comes before the completion, in every reachable state.
THEOREM FlushComesFirst == Spec => [](IndInv /\ FlushedFirst)
<1>1. Init => FlushedFirst
  BY NamesDiffer DEF Init, FlushedFirst, Over
<1> QED BY <1>1, FlushedFirstStep, Invariance, PTL DEF Spec

\* An attempt that reaches the backend for the first time after the completion is one
\* of a message that was given up: the others are done and their keys are known.
LEMMA LateIsFailed ==
  ASSUME IndInv, FlushedFirst, [Next]_vars, NEW m \in Messages,
         performed["complete"] # {}, performed'[m] # performed[m]
  PROVE  result[m] = "failed"
<1> USE NamesDiffer DEF IndInv
<1>1. PICK r \in Requests, n \in Attempts : Perform(r, n)
  BY DEF Next, Request, Backend, Make, Retry, Try, Answered, AttemptFails, Breaks, Return,
         Close, Repeat, Refuse, vars
<1>2. r = m /\ m \notin known /\ n \in inFlight[m]
  BY <1>1 DEF Perform, Key, Arrives, TypeOK
<1>3. ASSUME NEW q \in Requests, step[q] = "new"
      PROVE  inFlight[q] = {} /\ performed[q] = {}
  BY <1>3 DEF OneCopy
<1>4. step["complete"] # "new" /\ step[m] # "new"
  <2>1. "complete" \in Requests /\ m \in Requests
    BY DEF Keyed
  <2> QED BY <1>2, <1>3, <2>1
<1>5. step[m] = "returned" /\ result[m] \in {"ok", "failed"}
  BY <1>4 DEF FlushedFirst, Over, TypeOK, Results
<1>6. performed[m] = {} /\ m \notin Reads
  <2>1. m \notin Reads
    BY MessagesAssumption, OthersAssumption DEF Reads
  <2>2. m \in Keyed /\ m \in Requests
    OBVIOUS
  <2> QED BY <1>2, <2>1, <2>2 DEF OneCopy
<1> QED BY <1>5, <1>6 DEF OneCopy

\* After the completion the backend adds only messages of which the worker was told that
\* they are not stored, however late an attempt arrives.
THEOREM NothingAfterCompletion == Spec => CompletedLast
<1>1. IndInv /\ FlushedFirst /\ [Next]_vars =>
        [\A m \in Messages :
            performed["complete"] # {} /\ performed'[m] # performed[m]
               => result[m] = "failed"]_vars
  BY LateIsFailed
<1> QED BY <1>1, FlushComesFirst, PTL DEF Spec, CompletedLast

------------------------------------------------------------------------------
(* What the backend ends up with. *)

\* A request with a key happens once at most, and one that its caller believes done did
\* happen, however often it was repeated and whichever of its attempts came late.
KeysWork ==
    \A r \in Requests :
        /\ r \in Keyed => \A m, n \in performed[r] : m = n
        /\ result[r] = "ok" => r \in Reads \/ performed[r] # {}

\* The idempotency keys do what client.py sends them for.
THEOREM EffectOncePerKey == Spec => []KeysWork
<1>1. Init => KeysWork
  BY DEF Init, KeysWork
<1>2. IndInv /\ IndInv' /\ KeysWork /\ [Next]_vars => KeysWork'
  <2> SUFFICES ASSUME IndInv, IndInv', KeysWork, [Next]_vars, NEW r \in Requests
               PROVE  /\ r \in Keyed => \A m, n \in performed'[r] : m = n
                      /\ result'[r] = "ok" => r \in Reads \/ performed'[r] # {}
    BY DEF KeysWork
  <2>1. result'[r] = "ok" => r \in Reads \/ performed'[r] # {}
    BY DEF IndInv, OneCopy
  <2>2. CASE performed' = performed
    BY <2>1, <2>2 DEF KeysWork
  <2>3. CASE performed' # performed
    <3>1. PICK q \in Requests, n \in Attempts : Perform(q, n)
      BY <2>3 DEF Next, Request, Backend, Make, Retry, Try, Answered, AttemptFails, Breaks,
                  Return, Close, Repeat, Refuse, vars
    <3>2. performed' = [performed EXCEPT ![q] = @ \cup {n}]
      BY <3>1 DEF Perform
    <3>3. q \in Keyed => performed[q] = {}
      BY <3>1 DEF Perform, Key, IndInv, OneCopy
    <3> QED BY <2>1, <3>2, <3>3 DEF KeysWork, IndInv, TypeOK
  <2> QED BY <2>2, <2>3
<1> QED BY <1>1, <1>2, Invariance, PTL DEF Spec

\* The worker starts nothing on a call of which it does not know that it exists.
OnCreatedCall == (Messages \cup {"complete", "transfer"}) \cap Requests

CreatedFirst == \A r \in OnCreatedCall : step[r] # "new" => result["create"] = "ok"

LEMMA CreatedFirstStep == ASSUME IndInv, CreatedFirst, [Next]_vars PROVE CreatedFirst'
<1> USE DEF CreatedFirst
<1>1. /\ step \in [Requests -> Step] /\ result \in [Requests -> Results]
      /\ "create" \in Requests /\ OnCreatedCall \subseteq Requests
  BY DEF IndInv, TypeOK, Keyed, Requests, OnCreatedCall
<1>2. result["create"] = "ok" => step["create"] = "returned"
  BY <1>1 DEF IndInv, OneCopy
<1>3. ASSUME NEW q \in Requests, Make(q) PROVE CreatedFirst'
  <2>1. step' = [step EXCEPT ![q] = "trying"] /\ result' = result
    BY <1>3 DEF Make, Try
  <2>2. q \in OnCreatedCall => result["create"] = "ok"
    BY <1>3, MessagesAssumption DEF Make, Ready, Done, OnCreatedCall
  <2> QED BY <1>1, <2>1, <2>2
<1>4. ASSUME NEW q \in Requests, Retry(q) PROVE CreatedFirst'
  <2>1. step' = [step EXCEPT ![q] = "trying"] /\ result' = result /\ step[q] = "waiting"
    BY <1>4 DEF Retry, Try
  <2> QED BY <1>1, <2>1
<1>5. ASSUME NEW q \in Requests, Answered(q) \/ AttemptFails(q) \/ Breaks(q)
      PROVE  CreatedFirst'
  <2>1. step[q] \in {"trying", "waiting"}
    BY <1>5 DEF Answered, AttemptFails, Breaks
  <2>2. CASE step' = [step EXCEPT ![q] = "waiting"] /\ result' = result
    BY <1>1, <2>1, <2>2
  <2>3. ASSUME NEW code \in {"ok", "failed"}, Return(q, code) PROVE CreatedFirst'
    BY <1>1, <1>2, <2>1, <2>3 DEF Return
  <2> QED BY <1>5, <2>2, <2>3 DEF Answered, AttemptFails, Breaks
<1>6. CASE Close
  BY <1>1, <1>2, <1>6 DEF Close, Over
<1>7. ASSUME NEW q \in Requests, NEW n \in Attempts, Backend(q, n) PROVE CreatedFirst'
  <2>1. UNCHANGED <<step, result>>
    BY <1>7 DEF Backend, Perform, Repeat, Refuse, Respond
  <2> QED BY <2>1
<1>8. CASE UNCHANGED vars
  BY <1>8 DEF vars
<1> QED BY <1>3, <1>4, <1>5, <1>6, <1>7, <1>8 DEF Next, Request

\* The backend never takes a message, a transfer or a completion for a call that it has
\* not created, although attempts overtake one another on the network.
THEOREM CreationComesFirst ==
  Spec => [](\A r \in OnCreatedCall : performed[r] # {} => performed["create"] # {})
<1>1. Init => CreatedFirst
  BY DEF Init, CreatedFirst, OnCreatedCall
<1>2. Spec => [](IndInv /\ CreatedFirst)
  BY <1>1, CreatedFirstStep, Invariance, PTL DEF Spec
<1>3. IndInv /\ CreatedFirst =>
        \A r \in OnCreatedCall : performed[r] # {} => performed["create"] # {}
  <2> SUFFICES ASSUME IndInv, CreatedFirst, NEW r \in OnCreatedCall, performed[r] # {}
               PROVE  performed["create"] # {}
    OBVIOUS
  <2>1. r \in Requests /\ "create" \in Requests \ Reads
    BY OthersAssumption DEF OnCreatedCall, Keyed, Requests, Reads
  <2>2. step[r] # "new"
    BY <2>1 DEF IndInv, OneCopy
  <2>3. result["create"] = "ok"
    BY <2>2 DEF CreatedFirst
  <2> QED BY <2>1, <2>3 DEF IndInv, OneCopy
<1> QED BY <1>2, <1>3, PTL
==============================================================================
