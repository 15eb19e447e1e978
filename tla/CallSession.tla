----------------------------- MODULE CallSession -----------------------------
(***************************************************************************)
(* One call of the voice worker: run_inbound_call of                       *)
(* src/app/agent/runtime.py with its TranscriptService, its                *)
(* CallLifecycleService, and the end-call and transfer tools that the      *)
(* model calls while the session is live.                                  *)
(*                                                                         *)
(* The main coroutine, the tasks that post transcript items, the tool      *)
(* calls and the LiveKit session interleave at every await.  A backend     *)
(* request is answered, or fails: refused, or done although the answer was *)
(* lost after the last retry (the idempotency keys make the retries one    *)
(* request).                                                               *)
(*                                                                         *)
(* What is abstracted.  An item is a value with an id, posted again under  *)
(* the same id when LiveKit repeats an event; its text matters only when   *)
(* it is longer than CallMessage allows.  Configuration, knowledge and     *)
(* audio are left out: a failure to build or start the session is a choice *)
(* of the environment.  LiveKit is external: it emits no item after its    *)
(* close event.                                                            *)
(***************************************************************************)
EXTENDS Naturals, Sequences, FiniteSets

CONSTANTS
    Items,      \* conversation items LiveKit may add
    Oversize,   \* those longer than a CallMessage may be
    None        \* no completion

ASSUME OversizeAssumption == Oversize \subseteq Items
ASSUME ItemsAssumption == IsFiniteSet(Items)

VARIABLES
    leg,          \* what the call is: inbound, outbound or a web test call
    kind,         \* what the worker takes it to be
    stage,        \* where run_inbound_call is
    session,      \* the LiveKit session
    cause,        \* why the session closed
    hangup,       \* hangup_requested
    transfer,     \* the transfer tool call in progress
    moved,        \* the caller has been referred to the extension
    transferred,  \* context.was_transferred
    seen,         \* context.persisted_message_ids
    sequence,     \* context.sequence_number
    transcript,   \* context.transcript
    pending,      \* TranscriptService._pending
    awaited,      \* the tasks flush gathers
    dropped,      \* messages logged as transcript_persistence_failed
    reason,       \* the completion reason
    completed,    \* context.completed
    body,         \* the CallComplete being sent
    status, messages, record    \* the backend's view of the call the worker works on

call == <<status, messages, record>>
context == <<seen, sequence, transcript, pending, dropped>>
tools == <<hangup, transfer, moved, transferred>>
finish == <<awaited, reason, completed, body>>
route == <<leg, kind>>
vars == <<route, stage, session, cause, tools, context, finish, call>>

Reasons == {"caller_disconnected", "maximum_duration_reached", "agent_hangup"}

Completion == [reason: Reasons, transferred: BOOLEAN, fallback: BOOLEAN]

Backend == INSTANCE CallRecord WITH MaxItems <- Cardinality(Items)

Running == {"join", "headers", "resolve", "create", "knowledge", "build", "start", "greet", "wait",
            "close", "flush", "analyze", "complete"}

Init ==
    /\ leg \in {"inbound", "outbound", "web"}
    /\ kind = IF leg = "web" THEN "web" ELSE "inbound"
    /\ stage = "join"
    /\ session = "none" /\ cause = "none"
    /\ hangup = FALSE /\ transfer = "none" /\ moved = FALSE /\ transferred = FALSE
    /\ seen = {} /\ sequence = 0 /\ transcript = <<>> /\ pending = {} /\ dropped = {}
    /\ awaited = {} /\ reason = "caller_disconnected" /\ completed = FALSE /\ body = None
    /\ status = IF leg = "web" THEN "open" ELSE "none"
    /\ messages = {} /\ record = None

------------------------------------------------------------------------------
(* What a request does to the backend's record of the call, whatever its state. *)

Created == status' = "open" /\ UNCHANGED <<messages, record>>

Stored(m) == messages' = messages \cup {m} /\ UNCHANGED <<status, record>>

Completed(b) == status' = "completed" /\ record' = b /\ UNCHANGED messages

------------------------------------------------------------------------------
(* The main coroutine, up to the greeting. *)

Goto(label) == stage' = label

\* A participant joins, or none does before the timeout.  Whether it is a web test
\* is in the metadata of the job.
Join ==
    /\ stage = "join"
    /\ Goto(IF kind = "web" THEN "resolve" ELSE "headers") \/ Goto("failed")
    /\ UNCHANGED <<route, session, cause, tools, context, finish, call>>

\* SipCallInfo is not outbound until the X-Outbound-Call header says so: headers that
\* cannot be read, or are read as invalid, leave an outbound leg an inbound call, and the
\* worker creates a second call for it where README.md:114-115 says that it reuses the
\* dispatcher's "instead of creating a duplicate".
TakenFor(l) == {l, "inbound"}

\* The SIP headers are read by RPC; a failure or a timeout is only logged.  The call
\* of an outbound leg exists already.
ReadHeaders ==
    /\ stage = "headers"
    /\ kind' \in TakenFor(leg)
    /\ status' = IF kind' = "outbound" THEN "open" ELSE "none"
    /\ Goto("resolve")
    /\ UNCHANGED <<leg, session, cause, tools, context, finish, messages, record>>

\* The agent is resolved, or the routing data or the backend does not allow it.
Resolve ==
    /\ stage = "resolve"
    /\ Goto(IF kind = "inbound" THEN "create" ELSE "knowledge") \/ Goto("failed")
    /\ UNCHANGED <<route, session, cause, tools, context, finish, call>>

\* Only an inbound call is created here; the others exist already.
CreateCall ==
    /\ stage = "create"
    /\ \/ Goto("knowledge") /\ Created
       \/ Goto("failed") /\ (Created \/ UNCHANGED call)
    /\ UNCHANGED <<route, session, cause, tools, context, finish>>

\* A snapshot that cannot be had is replaced by an empty index.  A download that is
\* cancelled with another call that awaits it ends this one too.
AwaitKnowledge ==
    /\ stage = "knowledge"
    /\ Goto("build") \/ Goto("failed")
    /\ UNCHANGED <<route, session, cause, tools, context, finish, call>>

Build ==
    /\ stage = "build"
    /\ Goto("start") \/ Goto("failed")
    /\ UNCHANGED <<route, session, cause, tools, context, finish, call>>

Start ==
    /\ stage = "start"
    /\ \/ Goto("greet") /\ session' = "live"
       \/ Goto("failed") /\ UNCHANGED session
    /\ UNCHANGED <<route, cause, tools, context, finish, call>>

\* say and generate_reply return when the greeting is over or interrupted, or raise.
Greet ==
    /\ stage = "greet"
    /\ Goto("wait") \/ Goto("failed")
    /\ UNCHANGED <<route, session, cause, tools, context, finish, call>>

------------------------------------------------------------------------------
(* The main coroutine, from the end of the session. *)

\* Mutant: the request of the agent to hang up is not looked at.
FinalReason_ignoresAgent(r) == r

\* "finally": a hangup by the agent overrides the reason.
FinalReason(r) == IF hangup THEN "agent_hangup" ELSE r

\* Mutant: flush returns without waiting for the posts in progress.
EnterFlush_noWait(r) ==
    /\ reason' = FinalReason(r)
    /\ awaited' = {}
    /\ Goto("flush")

\* flush gathers the tasks pending when it is called.
EnterFlush(r) ==
    /\ reason' = FinalReason(r)
    /\ awaited' = pending
    /\ Goto("flush")

SessionEnds ==
    /\ stage = "wait" /\ session = "closed"
    /\ EnterFlush("caller_disconnected")
    /\ UNCHANGED <<route, session, cause, tools, context, completed, body, call>>

\* Mutant: closed.wait() has no timeout.
MaximumDuration_never == FALSE

MaximumDuration ==
    /\ stage = "wait" /\ session = "live"
    /\ Goto("close")
    /\ UNCHANGED <<route, session, cause, tools, context, finish, call>>

\* session.aclose() returns with the session closed, by itself or already.
CloseReturns ==
    /\ stage = "close"
    /\ session' = "closed"
    /\ cause' = IF session = "live" THEN "duration" ELSE cause
    /\ EnterFlush("maximum_duration_reached")
    /\ UNCHANGED <<route, tools, context, completed, body, call>>

FlushReturns ==
    /\ stage = "flush"
    /\ awaited \cap pending = {}
    /\ ~completed
    /\ completed' = TRUE
    /\ Goto("analyze")
    /\ UNCHANGED <<route, session, cause, tools, context, awaited, reason, body, call>>

\* The analysis answers or fails, and the request to the backend is built.
Analyze ==
    /\ stage = "analyze"
    /\ \E failed \in BOOLEAN :
          body' = [reason |-> reason, transferred |-> transferred, fallback |-> failed]
    /\ Goto("complete")
    /\ UNCHANGED <<route, session, cause, tools, context, awaited, reason, completed, call>>

\* A failure of complete_call is only logged.
Complete ==
    /\ stage = "complete"
    /\ Completed(body) \/ UNCHANGED call
    /\ Goto("ended")
    /\ UNCHANGED <<route, session, cause, tools, context, finish>>

------------------------------------------------------------------------------
(* The transcript: conversation_item_added, and the tasks that post. *)

Live == session = "live"

Message(i) == [item |-> i, sequence |-> sequence + 1]

\* Mutant: the sequence number is taken before the check for a repeated item.
HandleItem_numbersFirst(i) ==
    /\ Live
    /\ sequence' = sequence + 1
    /\ IF i \in seen THEN UNCHANGED <<seen, transcript, pending>>
       ELSE /\ seen' = seen \cup {i}
            /\ transcript' = Append(transcript, i)
            /\ pending' = IF i \in Oversize THEN pending ELSE pending \cup {Message(i)}
    /\ UNCHANGED <<route, stage, session, cause, tools, dropped, finish, call>>

\* Mutant: an item LiveKit repeats is posted again.
HandleItem_twice(i) ==
    /\ Live
    /\ sequence < Cardinality(Items)
    /\ seen' = seen \cup {i}
    /\ sequence' = sequence + 1
    /\ transcript' = Append(transcript, i)
    /\ pending' = IF i \in Oversize THEN pending ELSE pending \cup {Message(i)}
    /\ UNCHANGED <<route, stage, session, cause, tools, dropped, finish, call>>

\* A repeated item returns early.  An oversize one raises once it is in the
\* transcript and numbered, and is never posted.
HandleItem(i) ==
    /\ Live
    /\ i \notin seen
    /\ seen' = seen \cup {i}
    /\ sequence' = sequence + 1
    /\ transcript' = Append(transcript, i)
    /\ pending' = IF i \in Oversize THEN pending ELSE pending \cup {Message(i)}
    /\ UNCHANGED <<route, stage, session, cause, tools, dropped, finish, call>>

\* A post ends: stored, refused, or stored without an answer.  Once the coroutine
\* has raised, the HTTP client is closed and nothing more is stored.
Persist(m) ==
    /\ m \in pending
    /\ pending' = pending \ {m}
    /\ \/ stage # "failed" /\ Stored(m) /\ UNCHANGED dropped
       \/ stage # "failed" /\ Stored(m) /\ dropped' = dropped \cup {m}
       \/ UNCHANGED call /\ dropped' = dropped \cup {m}
    /\ UNCHANGED <<route, stage, session, cause, tools, seen, sequence, transcript, finish>>

------------------------------------------------------------------------------
(* The tools, called by the model while the session is live. *)

EndCallTool ==
    /\ Live /\ ~hangup
    /\ hangup' = TRUE
    /\ UNCHANGED <<route, stage, session, cause, transfer, moved, transferred, context,
                   finish, call>>

TransferIs(phase) ==
    /\ transfer' = phase
    /\ UNCHANGED <<route, stage, session, cause, hangup, context, finish, call>>

\* Mutant: the context notes the transfer before LiveKit has agreed.
TransferTool_early ==
    /\ Live /\ kind # "web" /\ transfer = "none"
    /\ transferred' = TRUE
    /\ TransferIs("resolving")
    /\ UNCHANGED moved

\* A browser test call has no transfer tool.
TransferTool ==
    /\ Live /\ kind # "web" /\ transfer = "none"
    /\ TransferIs("resolving")
    /\ UNCHANGED <<moved, transferred>>

\* The backend names the extension, or the tool call fails, as it must once the
\* coroutine is over and has closed the HTTP client.
ResolveTarget ==
    /\ transfer = "resolving"
    /\ \/ stage \in Running /\ TransferIs("referring")
       \/ TransferIs("none")
    /\ UNCHANGED <<moved, transferred>>

\* The REFER reaches Asterisk and the caller is on the way to the extension.
Refer ==
    /\ transfer = "referring" /\ ~moved
    /\ moved' = TRUE
    /\ TransferIs("referred")
    /\ UNCHANGED transferred

\* transfer_sip_participant returns, and the context notes the transfer.
ReferReturns ==
    /\ transfer = "referred"
    /\ transferred' = TRUE
    /\ TransferIs("none")
    /\ UNCHANGED moved

\* It raises: refused, or timed out although the caller is on the way.
ReferFails ==
    /\ transfer \in {"referring", "referred"}
    /\ TransferIs("none")
    /\ UNCHANGED <<moved, transferred>>

------------------------------------------------------------------------------
(* The LiveKit session closes. *)

Closes(why) ==
    /\ Live
    /\ session' = "closed"
    /\ cause' = why
    /\ UNCHANGED <<route, stage, tools, context, finish, call>>

CallerLeaves == Closes("caller")
AgentHangsUp == hangup /\ Closes("agent")
SessionFails == Closes("error")

------------------------------------------------------------------------------

\* The awaits that end by a timeout of their own, and Build, which awaits nothing.
Timed ==
    \/ Join \/ ReadHeaders \/ Resolve \/ CreateCall \/ AwaitKnowledge \/ Build
    \/ SessionEnds \/ MaximumDuration
    \/ FlushReturns \/ Analyze \/ Complete

\* session.start, say and generate_reply, and session.aclose are awaited without one.
Untimed == Start \/ Greet \/ CloseReturns

Main == Timed \/ Untimed

Tools ==
    \/ EndCallTool \/ TransferTool \/ ResolveTarget
    \/ Refer \/ ReferReturns \/ ReferFails

Room == CallerLeaves \/ AgentHangsUp \/ SessionFails

Posts == \E m \in pending : Persist(m)

Next ==
    \/ Main
    \/ Tools
    \/ Room
    \/ \E i \in Items : HandleItem(i)
    \/ Posts

\* Every post ends by the timeout and the retries of the client.
Fairness == WF_vars(Timed) /\ WF_vars(Posts)

Spec == Init /\ [][Next]_vars /\ Fairness

------------------------------------------------------------------------------
(* Properties. *)

\* Every variable keeps to the values the code can give it.
TypeOK ==
    /\ leg \in {"inbound", "outbound", "web"}
    /\ kind \in TakenFor(leg)
    /\ stage \in Running \cup {"ended", "failed"}
    /\ session \in {"none", "live", "closed"}
    /\ cause \in {"none", "caller", "agent", "error", "duration"}
    /\ transfer \in {"none", "resolving", "referring", "referred"}
    /\ {hangup, moved, transferred, completed} \subseteq BOOLEAN
    /\ seen \subseteq Items
    /\ sequence \in 0 .. Cardinality(Items)
    /\ transcript \in Seq(Items)
    /\ {pending, awaited, dropped, messages} \subseteq SUBSET Backend!Message
    /\ reason \in Reasons
    /\ body \in Completion \cup {None}
    /\ status \in {"none", "open", "completed"}
    /\ record \in Completion \cup {None}

\* The backend sees a call created once, appended to only while open, with each item
\* and each sequence number once, and completed once after its last message, in
\* whatever order the posts, the tools, the timeout and the hangup come.
KeepsCallRecord == Backend!Spec

\* The sequence numbers the backend stores order the messages as they were spoken,
\* however the posts overtake one another and whatever items are skipped.
MessagesInSpokenOrder ==
    \A m \in messages : m.sequence <= Len(transcript) /\ transcript[m.sequence] = m.item

\* When the completion goes out, every item of the transcript has been stored, is
\* logged as not stored, or was too long to send.
NothingLostSilently ==
    completed => \A k \in DOMAIN transcript :
                    \/ transcript[k] \in Oversize
                    \/ \E m \in messages \cup dropped : m.item = transcript[k]

\* The reason stored with the call fits how it ended, in whatever order the hangup, the
\* timeout and the end of the session come: it is the agent's hangup exactly when the
\* agent asked for one, and put down to the caller only when neither the agent nor the
\* timeout closed the session.  A session that LiveKit closes on an error is put down
\* to the caller as well: on_error only logs it.
ReasonFitsTheEnd ==
    record # None =>
        /\ record.reason = "agent_hangup" <=> hangup
        /\ record.reason = "caller_disconnected" => cause \in {"caller", "error"}

\* A call is stored as transferred only when its caller was.
NoFalseTransfer == record # None /\ record.transferred => moved

\* What makes these properties and KeepsCallRecord inductive.  An item is in the
\* transcript once, at the place of its number, and every message is of such an item.
Numbering ==
    /\ sequence = Len(transcript) /\ sequence = Cardinality(seen)
    /\ \A k \in DOMAIN transcript : transcript[k] \in seen
    /\ \A k, l \in DOMAIN transcript : transcript[k] = transcript[l] => k = l
    /\ \A m \in pending \cup messages \cup dropped :
          m.sequence <= Len(transcript) /\ transcript[m.sequence] = m.item

\* A message is pending or stored, and no item is forgotten.
Posting ==
    /\ pending \cap messages = {}
    /\ \A i \in seen : i \in Oversize \/ \E m \in pending \cup messages \cup dropped : m.item = i

Before == {"join", "headers", "resolve", "create", "knowledge", "build", "start"}
Flushed == {"analyze", "complete", "ended"}

\* Items come from the start of the session to its end, and flush waits for their posts.
Conversation ==
    /\ stage \in Before => session = "none" /\ seen = {}
    /\ stage \in {"greet", "wait", "close"} => session # "none"
    /\ stage \in {"flush"} \cup Flushed => session = "closed"
    /\ stage = "flush" => pending \subseteq awaited
    /\ stage \in Flushed => pending = {}
    /\ completed => stage \in Flushed

\* The call that the worker works on is open until it is completed.
OpenCall ==
    /\ kind = "web" <=> leg = "web"
    /\ stage \in {"join", "headers"} => kind # "outbound"
    /\ stage = "headers" => kind # "web"
    /\ stage = "create" => kind = "inbound"
    /\ stage \in {"join", "headers", "resolve", "create"} =>
          status = IF kind = "inbound" THEN "none" ELSE "open"
    /\ stage \in Running \ {"join", "headers", "resolve", "create"} => status = "open"
    /\ record # None => stage = "ended" /\ record = body

\* What the completion says was so when the session ended, and cannot change after it.
Truth ==
    /\ cause = "agent" => hangup
    /\ session = "closed" => cause # "none"
    /\ stage \notin {"flush"} \cup Flushed => cause # "duration"
    /\ stage \in {"flush"} \cup Flushed =>
          /\ reason = "agent_hangup" <=> hangup
          /\ reason = "caller_disconnected" => cause \in {"caller", "error"}
    /\ transferred \/ transfer = "referred" => moved
    /\ stage \in {"complete", "ended"} =>
          /\ body \in Completion /\ body.reason = reason
          /\ body.transferred => moved

IndInv == TypeOK /\ Numbering /\ Posting /\ Conversation /\ OpenCall /\ Truth

\* A call whose greeting is over gets to the end of its completion, unless aclose never
\* returns: the caller, the model, the tools, the posts and the analysis cannot hold it.
EveryCallEnds == stage = "wait" ~> (stage = "ended" \/ [](stage = "close"))

\* README: the worker "creates the call, builds ... objects, greets immediately,
\* persists committed conversation items, and completes the call"; an inbound call whose
\* providers, session or greeting fail is therefore not abandoned without a completion.
CreatedCallIsCompleted ==
    [][leg = "inbound" /\ stage' = "failed" =>
          stage \in {"join", "headers", "resolve", "create", "knowledge"}]_vars
==============================================================================
