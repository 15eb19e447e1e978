-------------------------- MODULE CallSessionProofs --------------------------
(***************************************************************************)
(* Theorems about one call of the voice worker, for every finite set of    *)
(* conversation items and every choice of those that are too long.         *)
(***************************************************************************)
EXTENDS CallSession, FiniteSetTheorems, TLAPS

------------------------------------------------------------------------------
(* The numbers of the items. *)

\* A new item gets a number that a CallMessage of this call may have.
LEMMA NextNumber ==
  ASSUME TypeOK, Numbering, NEW i \in Items, i \notin seen
  PROVE  /\ Cardinality(Items) \in Nat
         /\ sequence + 1 \in 1 .. Cardinality(Items)
         /\ Cardinality(seen \cup {i}) = sequence + 1
         /\ Message(i) \in Backend!Message
<1>1. IsFiniteSet(Items) /\ seen \cup {i} \subseteq Items
  BY ItemsAssumption DEF TypeOK
<1>2. IsFiniteSet(seen)
  BY <1>1, FS_Subset
<1>3. Cardinality(Items) \in Nat /\ Cardinality(seen) \in Nat
  BY <1>1, <1>2, FS_CardinalityType
<1>4. Cardinality(seen \cup {i}) = Cardinality(seen) + 1
  BY <1>2, FS_AddElement
<1>5. Cardinality(seen \cup {i}) <= Cardinality(Items)
  BY <1>1, FS_Subset
<1>6. sequence + 1 \in 1 .. Cardinality(Items)
  BY <1>3, <1>4, <1>5 DEF Numbering
<1> QED
  BY <1>3, <1>4, <1>6 DEF Numbering, Message, Backend!Message

\* An item is appended behind the others, under the next number.
LEMMA Appended ==
  ASSUME TypeOK, Numbering, NEW i \in Items, HandleItem(i)
  PROVE  /\ transcript' \in Seq(Items) /\ Len(transcript') = Len(transcript) + 1
         /\ transcript'[Len(transcript')] = i
         /\ \A k \in DOMAIN transcript : k \in DOMAIN transcript' /\ transcript'[k] = transcript[k]
         /\ \A k \in DOMAIN transcript' : k \in DOMAIN transcript \/ k = Len(transcript')
         /\ pending' \subseteq pending \cup {Message(i)}
         /\ i \in Oversize \/ pending' = pending \cup {Message(i)}
<1>1. transcript \in Seq(Items) /\ transcript' = Append(transcript, i)
  BY DEF TypeOK, HandleItem
<1>2. pending' \subseteq pending \cup {Message(i)} /\ (i \in Oversize \/ pending' = pending \cup {Message(i)})
  BY DEF HandleItem
<1> QED
  BY <1>1, <1>2

------------------------------------------------------------------------------
(* The invariant holds at first. *)

LEMMA InitIndInv == Init => IndInv
<1> SUFFICES ASSUME Init PROVE IndInv
  OBVIOUS
<1>1. Cardinality({}) = 0 /\ Cardinality(Items) \in Nat
  BY ItemsAssumption, FS_EmptySet, FS_CardinalityType
<1>2. TypeOK
  <2>1. leg \in {"inbound", "outbound", "web"} /\ kind \in TakenFor(leg)
    BY DEF Init, TakenFor
  <2>2. sequence \in 0 .. Cardinality(Items) /\ transcript \in Seq(Items)
    BY <1>1 DEF Init
  <2>3. {pending, awaited, dropped, messages} \subseteq SUBSET Backend!Message
    BY DEF Init
  <2> QED
    BY <2>1, <2>2, <2>3 DEF Init, TypeOK, Running, Reasons
<1>3. Numbering /\ Posting
  BY <1>1 DEF Init, Numbering, Posting
<1>4. Conversation /\ OpenCall /\ Truth
  BY DEF Init, Conversation, OpenCall, Truth, Before, Flushed, Running
<1> QED
  BY <1>2, <1>3, <1>4 DEF IndInv

------------------------------------------------------------------------------
(* Every step keeps each part of it. *)

LEMMA ItemStep ==
  ASSUME IndInv, NEW i \in Items, HandleItem(i)
  PROVE  IndInv'
<1> USE DEF IndInv
<1>1. i \notin seen /\ seen' = seen \cup {i} /\ sequence' = sequence + 1 /\ Live
  BY DEF HandleItem
<1>2. UNCHANGED <<route, stage, session, cause, tools, dropped, finish, call>>
  BY DEF HandleItem
<1> USE <1>1, <1>2
<1>3. TypeOK'
  <2>1. pending' \subseteq Backend!Message
    BY NextNumber, Appended DEF TypeOK
  <2>2. sequence' \in 0 .. Cardinality(Items) /\ transcript' \in Seq(Items)
    BY NextNumber, Appended
  <2> QED
    BY <2>1, <2>2 DEF TypeOK, route, tools, finish, call
<1>4. Numbering'
  <2>1. sequence' = Len(transcript') /\ sequence' = Cardinality(seen)'
    BY NextNumber, Appended DEF Numbering
  <2>2. \A k \in DOMAIN transcript' : transcript'[k] \in seen'
    BY Appended DEF Numbering
  <2>3. \A k, l \in DOMAIN transcript' : transcript'[k] = transcript'[l] => k = l
    BY Appended DEF Numbering
  <2>4. \A m \in pending' \cup messages' \cup dropped' :
           m.sequence <= Len(transcript') /\ transcript'[m.sequence] = m.item
    <3> SUFFICES ASSUME NEW m \in pending' \cup messages' \cup dropped'
                 PROVE  m.sequence <= Len(transcript') /\ transcript'[m.sequence] = m.item
      OBVIOUS
    <3>1. CASE m = Message(i)
      BY <3>1, Appended DEF Message, Numbering
    <3>2. CASE m \in pending \cup messages \cup dropped
      <4>1. m.sequence \in 1 .. Cardinality(Items) /\ m.sequence <= Len(transcript)
            /\ transcript[m.sequence] = m.item
        BY <3>2 DEF TypeOK, Backend!Message, Numbering
      <4>2. m.sequence \in DOMAIN transcript
        BY <4>1, NextNumber DEF TypeOK
      <4> QED BY <4>1, <4>2, Appended
    <3> QED BY <3>1, <3>2, Appended DEF call
  <2> QED
    BY <2>1, <2>2, <2>3, <2>4 DEF Numbering
<1>5. Posting'
  <2>1. Message(i) \notin messages
    <3> SUFFICES ASSUME Message(i) \in messages PROVE FALSE
      OBVIOUS
    <3>1. sequence + 1 <= Len(transcript)
      BY DEF Message, Numbering
    <3>2. sequence = Len(transcript) /\ sequence \in Nat
      BY NextNumber DEF Numbering, TypeOK
    <3> QED BY <3>1, <3>2
  <2>2. pending' \cap messages' = {}
    BY <2>1, Appended DEF Posting, call
  <2>3. \A j \in seen' : j \in Oversize \/ \E m \in pending' \cup messages' \cup dropped' : m.item = j
    <3>1. pending \subseteq pending'
      BY DEF HandleItem
    <3>2. CASE i \in Oversize
      BY <3>1, <3>2 DEF Posting, call
    <3>3. CASE i \notin Oversize
      <4>1. Message(i) \in pending' /\ Message(i).item = i
        BY <3>3, Appended DEF Message
      <4> QED BY <3>1, <4>1 DEF Posting, call
    <3> QED BY <3>2, <3>3
  <2> QED BY <2>2, <2>3 DEF Posting
<1>6. Conversation' /\ OpenCall' /\ Truth'
  BY DEF Conversation, OpenCall, Truth, Live, Flushed, Before, route, tools, finish, call
<1> QED
  BY <1>3, <1>4, <1>5, <1>6

\* A message of the transcript is there to be posted only while the call is open.
LEMMA PendingMeansOpen ==
  ASSUME IndInv, pending # {}
  PROVE  stage \in {"greet", "wait", "close", "flush", "failed"}
<1>1. PICK m \in pending : TRUE
  OBVIOUS
<1>2. m.sequence \in 1 .. Cardinality(Items) /\ m.sequence <= Len(transcript)
  BY <1>1 DEF IndInv, TypeOK, Numbering, Backend!Message
<1>3. Cardinality(Items) \in Nat /\ Len(transcript) \in Nat
  BY ItemsAssumption, FS_CardinalityType DEF IndInv, TypeOK
<1>4. m.sequence \in DOMAIN transcript
  BY <1>2, <1>3 DEF IndInv, TypeOK
<1>5. seen # {}
  BY <1>4 DEF IndInv, Numbering
<1> QED
  BY <1>5 DEF IndInv, TypeOK, Conversation, Before, Flushed, Running

LEMMA PersistStep ==
  ASSUME IndInv, NEW m \in pending, Persist(m)
  PROVE  IndInv'
<1> USE DEF IndInv
<1>1. /\ pending' = pending \ {m}
      /\ status' = status /\ record' = record
      /\ messages' \in {messages, messages \cup {m}} /\ dropped' \in {dropped, dropped \cup {m}}
      /\ m \in messages' \cup dropped'
      /\ UNCHANGED <<route, stage, session, cause, tools, seen, sequence, transcript, finish>>
  BY DEF Persist, Stored, call
<1> USE <1>1
<1>2. TypeOK'
  BY DEF TypeOK, route, tools, finish
<1>3. Numbering' /\ Posting'
  BY DEF Numbering, Posting
<1>4. Conversation'
  BY DEF Conversation, finish
<1>5. OpenCall' /\ Truth'
  BY DEF OpenCall, Truth, route, tools, finish
<1> QED
  BY <1>2, <1>3, <1>4, <1>5

\* The transcript and its posts are as they were.
LEMMA NumberingKept ==
  ASSUME IndInv, UNCHANGED context, messages' = messages
  PROVE  Numbering' /\ Posting'
BY DEF IndInv, Numbering, Posting, context

LEMMA BeforeStep ==
  ASSUME IndInv,
         Join \/ ReadHeaders \/ Resolve \/ CreateCall \/ AwaitKnowledge \/ Build \/ Start \/ Greet
  PROVE  IndInv'
<1> USE DEF IndInv, Goto, Join, ReadHeaders, Resolve, CreateCall, AwaitKnowledge, Build, Start, Greet,
            Created
<1>1. UNCHANGED <<context, messages, cause, tools, finish>> /\ record' = record
  BY DEF call
<1>2. TypeOK'
  BY <1>1 DEF TypeOK, Running, TakenFor, route, call, context, tools, finish
<1>3. Conversation'
  BY <1>1 DEF Conversation, Before, Flushed, context, finish
<1>4. OpenCall'
  BY <1>1 DEF TypeOK, OpenCall, Running, TakenFor, route, call, finish
<1>5. Truth'
  BY <1>1 DEF Truth, Flushed, tools, finish
<1> QED
  BY <1>1, <1>2, <1>3, <1>4, <1>5, NumberingKept

LEMMA AfterStep ==
  ASSUME IndInv,
         SessionEnds \/ MaximumDuration \/ CloseReturns \/ FlushReturns \/ Analyze \/ Complete
  PROVE  IndInv'
<1> USE DEF IndInv, Goto, SessionEnds, MaximumDuration, CloseReturns, FlushReturns, Analyze, Complete,
            EnterFlush, FinalReason, Completed
<1>1. UNCHANGED <<context, messages, route, tools>>
  BY DEF call
<1>2. TypeOK'
  <2>1. body' \in Completion \cup {None}
    BY DEF TypeOK, Completion, finish
  <2>2. /\ record' \in Completion \cup {None} /\ status' \in {"none", "open", "completed"}
        /\ reason' \in Reasons
    BY DEF TypeOK, Reasons, call, finish, Conversation, OpenCall, Truth
  <2>3. awaited' \subseteq Backend!Message /\ completed' \in BOOLEAN
    BY DEF TypeOK, finish
  <2>4. /\ stage' \in Running \cup {"ended", "failed"}
        /\ session' \in {"none", "live", "closed"}
        /\ cause' \in {"none", "caller", "agent", "error", "duration"}
    BY DEF TypeOK, Running
  <2> QED
    BY <1>1, <2>1, <2>2, <2>3, <2>4 DEF TypeOK, route, context, tools
<1>3. Conversation'
  BY <1>1 DEF Conversation, Before, Flushed, context, finish
<1>4. OpenCall'
  BY <1>1 DEF TypeOK, OpenCall, Running, route, call, finish
<1>5. Truth'
  <2>1. CASE MaximumDuration \/ FlushReturns \/ Analyze \/ Complete
    BY <1>1, <2>1 DEF TypeOK, Truth, Flushed, Completion, tools, finish
  <2>2. CASE SessionEnds
    <3>1. cause \in {"caller", "agent", "error"}
      BY <2>2 DEF TypeOK, Truth, Flushed
    <3> QED
      BY <1>1, <2>2, <3>1 DEF TypeOK, Truth, Flushed, tools, finish
  <2>3. CASE CloseReturns
    BY <1>1, <2>3 DEF TypeOK, Truth, Flushed, Conversation, tools, finish
  <2> QED BY <2>1, <2>2, <2>3
<1> QED
  BY <1>1, <1>2, <1>3, <1>4, <1>5, NumberingKept

LEMMA ToolStep ==
  ASSUME IndInv, Tools \/ Room
  PROVE  IndInv'
<1> USE DEF IndInv, Tools, EndCallTool, TransferTool, ResolveTarget, Refer, ReferReturns, ReferFails,
            TransferIs, Room, CallerLeaves, AgentHangsUp, SessionFails, Closes, Live
<1>1. UNCHANGED <<context, call, route, stage, finish>>
  OBVIOUS
<1>2. TypeOK'
  BY <1>1 DEF TypeOK, route, call, context, finish, tools
<1>3. Conversation'
  BY <1>1 DEF Conversation, Before, Flushed, context, finish, tools
<1>4. OpenCall'
  BY <1>1 DEF OpenCall, route, call, finish
<1>5. Truth'
  BY <1>1 DEF TypeOK, Conversation, Truth, Flushed, finish, tools
<1> QED
  BY <1>1, <1>2, <1>3, <1>4, <1>5, NumberingKept DEF call

LEMMA NextIndInv == IndInv /\ [Next]_vars => IndInv'
<1> SUFFICES ASSUME IndInv, [Next]_vars PROVE IndInv'
  OBVIOUS
<1>1. CASE Main
  BY <1>1, BeforeStep, AfterStep DEF Main, Timed, Untimed
<1>2. CASE Tools \/ Room
  BY <1>2, ToolStep
<1>3. CASE \E i \in Items : HandleItem(i)
  BY <1>3, ItemStep
<1>4. CASE Posts
  BY <1>4, PersistStep DEF Posts
<1>5. CASE UNCHANGED vars
  <2>1. TypeOK'
    BY <1>5 DEF vars, call, context, tools, finish, route, IndInv, TypeOK
  <2>2. Numbering' /\ Posting'
    BY <1>5, NumberingKept DEF vars, call
  <2>3. Conversation' /\ OpenCall'
    BY <1>5 DEF vars, call, context, tools, finish, route, IndInv, Conversation, OpenCall
  <2>4. Truth'
    BY <1>5 DEF vars, call, context, tools, finish, route, IndInv, Truth
  <2> QED
    BY <2>1, <2>2, <2>3, <2>4 DEF IndInv
<1> QED
  BY <1>1, <1>2, <1>3, <1>4, <1>5 DEF Next

\* IndInv holds in every reachable state of a call: the numbering of its items, the
\* posts that flush has to wait for, and what the worker may say of the call.
THEOREM Invariance == Spec => []IndInv
  BY InitIndInv, NextIndInv, PTL DEF Spec

------------------------------------------------------------------------------
(* What the completed call says. *)

\* The messages that the tasks of handle_item get stored are at the places of the
\* transcript that their sequence numbers say.
THEOREM SpokenOrder == Spec => []MessagesInSpokenOrder
<1>1. IndInv => MessagesInSpokenOrder
  BY DEF IndInv, Numbering, MessagesInSpokenOrder
<1> QED
  BY <1>1, Invariance, PTL

\* Once complete has begun, flush has seen to every item of the transcript: stored,
\* logged as not stored, or too long to be sent.
THEOREM NoSilentLoss == Spec => []NothingLostSilently
<1>1. IndInv => NothingLostSilently
  <2> SUFFICES ASSUME IndInv, completed, NEW k \in DOMAIN transcript, transcript[k] \notin Oversize
               PROVE  \E m \in messages \cup dropped : m.item = transcript[k]
    BY DEF NothingLostSilently
  <2>1. pending = {} /\ transcript[k] \in seen
    BY DEF IndInv, Conversation, Numbering
  <2> QED
    BY <2>1 DEF IndInv, Posting
<1> QED
  BY <1>1, Invariance, PTL

\* The reason that complete stores is the agent's hangup exactly when the end-call tool
\* was used, and the caller's only when the caller left or LiveKit closed the session
\* on an error, however run_inbound_call, the tool and the end of the session interleave.
THEOREM FittingReason == Spec => []ReasonFitsTheEnd
<1>1. IndInv => ReasonFitsTheEnd
  BY DEF IndInv, OpenCall, Truth, Flushed, ReasonFitsTheEnd
<1> QED
  BY <1>1, Invariance, PTL

\* A completion claims a transfer only after a REFER has moved the caller.
THEOREM TrueTransfer == Spec => []NoFalseTransfer
<1>1. IndInv => NoFalseTransfer
  BY DEF IndInv, OpenCall, Truth, NoFalseTransfer
<1> QED
  BY <1>1, Invariance, PTL

------------------------------------------------------------------------------
(* The call as the backend sees it. *)

\* A message that is stored is a new one, of an open call.
LEMMA StoredOnce ==
  ASSUME IndInv, NEW m \in pending, stage # "failed", Stored(m)
  PROVE  Backend!Append(m)
<1>1. status = "open"
  BY PendingMeansOpen DEF IndInv, OpenCall, Running
<1>2. m \in Backend!Message
  BY DEF IndInv, TypeOK
<1>3. ASSUME NEW n \in messages, n.item = m.item \/ n.sequence = m.sequence
      PROVE  FALSE
  <2>1. n \in Backend!Message
    BY DEF IndInv, TypeOK
  <2>2. /\ m.sequence \in DOMAIN transcript /\ n.sequence \in DOMAIN transcript
        /\ transcript[m.sequence] = m.item /\ transcript[n.sequence] = n.item
    <3>1. Cardinality(Items) \in Nat /\ transcript \in Seq(Items)
      BY ItemsAssumption, FS_CardinalityType DEF IndInv, TypeOK
    <3>2. m.sequence \in 1 .. Cardinality(Items) /\ n.sequence \in 1 .. Cardinality(Items)
      BY <1>2, <2>1 DEF Backend!Message
    <3>3. /\ m.sequence <= Len(transcript) /\ transcript[m.sequence] = m.item
          /\ n.sequence <= Len(transcript) /\ transcript[n.sequence] = n.item
      BY DEF IndInv, Numbering
    <3> QED BY <3>1, <3>2, <3>3
  <2>3. m.sequence = n.sequence /\ m.item = n.item
    BY <1>3, <2>2 DEF IndInv, Numbering
  <2>4. m = n
    BY <1>2, <2>1, <2>3 DEF Backend!Message
  <2> QED
    BY <2>4, <1>3 DEF IndInv, Posting
<1> QED
  BY <1>1, <1>3 DEF Stored, Backend!Append

\* The main coroutine creates a call that is not there and completes one that is open.
LEMMA MainSteps ==
  ASSUME IndInv, Main
  PROVE  Backend!Create \/ (\E r \in Completion : Backend!Complete(r)) \/ UNCHANGED call
<1>1. CASE ReadHeaders
  BY <1>1 DEF ReadHeaders, TakenFor, IndInv, TypeOK, OpenCall, Backend!Create, call
<1>2. CASE CreateCall
  BY <1>2 DEF CreateCall, Created, IndInv, OpenCall, Backend!Create, call
<1>3. CASE Complete
  <2>1. status = "open" /\ body \in Completion
    BY <1>3 DEF Complete, IndInv, OpenCall, Truth, Running
  <2>2. Completed(body) \/ UNCHANGED call
    BY <1>3 DEF Complete
  <2> QED BY <2>1, <2>2 DEF Completed, Backend!Complete
<1>4. CASE Join \/ Resolve \/ AwaitKnowledge \/ Build \/ Start \/ Greet
  BY <1>4 DEF Join, Resolve, AwaitKnowledge, Build, Start, Greet
<1>5. CASE SessionEnds \/ MaximumDuration \/ CloseReturns \/ FlushReturns \/ Analyze
  BY <1>5 DEF SessionEnds, MaximumDuration, CloseReturns, FlushReturns, Analyze
<1> QED
  BY <1>1, <1>2, <1>3, <1>4, <1>5 DEF Main, Timed, Untimed

\* The worker with its tasks, tools and timeouts keeps the call as CallRecord says:
\* created once, each item and each number once while it is open, completed last.
THEOREM Refinement == Spec => KeepsCallRecord
<1>1. Init => Backend!Init
  BY DEF Init, Backend!Init
<1>2. IndInv /\ [Next]_vars => [Backend!Next]_(Backend!vars)
  <2> SUFFICES ASSUME IndInv, [Next]_vars PROVE Backend!Next \/ UNCHANGED call
    BY DEF Backend!vars, call
  <2>1. CASE Main
    BY <2>1, MainSteps DEF Backend!Next
  <2>2. CASE Posts
    <3>1. PICK m \in pending : Persist(m)
      BY <2>2 DEF Posts
    <3>2. CASE stage # "failed" /\ Stored(m)
      <4>1. Backend!Append(m) /\ m \in Backend!Message
        BY <3>2, StoredOnce DEF IndInv, TypeOK
      <4> QED BY <4>1 DEF Backend!Next
    <3>3. CASE UNCHANGED call
      BY <3>3
    <3> QED BY <3>1, <3>2, <3>3 DEF Persist
  <2>3. CASE Tools \/ Room \/ \E i \in Items : HandleItem(i)
    BY <2>3 DEF Tools, EndCallTool, TransferTool, ResolveTarget, Refer, ReferReturns, ReferFails,
                TransferIs, Room, CallerLeaves, AgentHangsUp, SessionFails, Closes, HandleItem
  <2>4. CASE UNCHANGED vars
    BY <2>4 DEF vars
  <2> QED
    BY <2>1, <2>2, <2>3, <2>4 DEF Next
<1> QED
  BY <1>1, <1>2, Invariance, PTL DEF Spec, KeepsCallRecord, Backend!Spec
==============================================================================
