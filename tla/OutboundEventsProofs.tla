------------------------ MODULE OutboundEventsProofs -------------------------
(***************************************************************************)
(* Theorems about the outbound calls for every set of attempts and every   *)
(* bound on faults.                                                        *)
(***************************************************************************)
EXTENDS OutboundEvents, SequenceTheorems, TLAPS

Kind == {"success", "opt_out", "hangup"} \cup NotAnswered

------------------------------------------------------------------------------
(* The queue of events. *)

\* The monitor takes the first event; the others move up.
LEMMA Taken ==
    ASSUME TypeOK, NEW kinds, Take(kinds)
    PROVE  /\ 1 \in DOMAIN events /\ Head(events) = events[1]
           /\ Head(events) \in Event /\ Head(events) # None
           /\ Sender \in Attempts /\ Head(events).kind \in Kind \cap kinds
           /\ events' \in Seq(Event)
           /\ \A i \in DOMAIN events' :
                 i + 1 \in DOMAIN events /\ events'[i] = events[i + 1] /\ i + 1 # 1
<1>1. events \in Seq(Event) /\ events # <<>> /\ events' = Tail(events)
  BY DEF TypeOK, Take
<1>2. 1 \in DOMAIN events /\ Head(events) = events[1] /\ Head(events) \in Event
  BY <1>1
<1>3. Head(events) # None /\ Sender \in Attempts /\ Head(events).kind \in Kind \cap kinds
  BY <1>2, NoneAssumption DEF Event, Sender, Take, Kind
<1>4. events' \in Seq(Event) /\ Len(events') = Len(events) - 1
  BY <1>1
<1>5. \A i \in DOMAIN events' :
         i + 1 \in DOMAIN events /\ events'[i] = events[i + 1] /\ i + 1 # 1
  BY <1>1, <1>4
<1> QED
  BY <1>2, <1>3, <1>4, <1>5

\* Asterisk adds an event behind the others, or loses it.
LEMMA Emitted ==
    ASSUME TypeOK, NEW kind \in Kind, NEW a \in Attempts, Emit(kind, a)
    PROVE  /\ events' \in Seq(Event)
           /\ \A i \in DOMAIN events' :
                 \/ i \in DOMAIN events /\ events'[i] = events[i]
                 \/ /\ i \notin DOMAIN events /\ i = Len(events) + 1
                    /\ events'[i] = [kind |-> kind, attempt |-> a]
<1>1. events \in Seq(Event) /\ [kind |-> kind, attempt |-> a] \in Event
  BY DEF TypeOK, Event, Kind
<1>2. CASE connected
  BY <1>1, <1>2 DEF Emit
<1>3. CASE ~connected
  BY <1>1, <1>3 DEF Emit
<1> QED
  BY <1>2, <1>3

------------------------------------------------------------------------------
(* Type correctness. *)

\* The initial state has the types of TypeOK.
LEMMA InitTypeOK == Init => TypeOK
BY FaultsAssumption DEF Init, TypeOK, Http, Dial

\* A fault is counted, up to the bound.
LEMMA FaultCounted ==
    ASSUME TypeOK, Fault PROVE faults' \in 0 .. MaxFaults
BY FaultsAssumption DEF TypeOK, Fault

\* A callback appends a status and waits for the event it reports.
LEMMA CallbackType ==
    ASSUME TypeOK, NEW kinds, Take(kinds), NEW status \in Status, Callback(status)
    PROVE  posted' \in [Attempts -> Seq(Status)] /\ handling' \in Event
<1>1. Sender \in Attempts /\ Head(events) \in Event
  BY Taken
<1>2. Append(posted[Sender], status) \in Seq(Status)
  BY <1>1 DEF TypeOK
<1> QED
  BY <1>1, <1>2 DEF TypeOK, Callback

\* A queue that was lost is a queue.
LEMMA EmptyQueue == <<>> \in Seq(Event)
OBVIOUS

\* Every step keeps to the types.
LEMMA NextTypeOK == TypeOK /\ [Next]_vars => TypeOK'
<1> SUFFICES ASSUME TypeOK, [Next]_vars PROVE TypeOK'
  OBVIOUS
<1>1. ASSUME NEW a \in Attempts, Post(a) \/ PostRefused(a) PROVE TypeOK'
  BY <1>1 DEF Post, PostRefused, Register, HttpIs, DialIs, TypeOK, Http, Dial, asterisk, monitor
<1>2. ASSUME NEW a \in Attempts, Accepted(a) \/ Rejected(a) PROVE TypeOK'
  BY <1>2 DEF Accepted, Rejected, Unregister, HttpIs, TypeOK, Http, asterisk, monitor
<1>3. ASSUME NEW a \in Attempts, ReplyLost(a) \/ ReplyCutOff(a) PROVE TypeOK'
  BY <1>3, FaultCounted DEF ReplyLost, ReplyCutOff, Unregister, HttpIs, TypeOK, Http,
                            asterisk, monitor
<1>4. ASSUME NEW a \in Attempts, Originate(a) \/ Answer(a) PROVE TypeOK'
  BY <1>4 DEF Originate, Answer, DialIs, TypeOK, Dial, monitor
<1>5. ASSUME NEW a \in Attempts, DoesNotAnswer(a) \/ Respond(a) PROVE TypeOK'
  <2>1. PICK kind \in Kind : Emit(kind, a)
    BY <1>5 DEF DoesNotAnswer, Respond, Kind
  <2>2. events' \in Seq(Event)
    BY <2>1, Emitted
  <2> QED
    BY <1>5, <2>2 DEF DoesNotAnswer, Respond, DialIs, TypeOK, Dial, monitor
<1>6. ASSUME NEW a \in Attempts, OptOut(a) \/ LegEnds(a) \/ HangUp(a) PROVE TypeOK'
  <2>1. PICK kind \in Kind : Emit(kind, a)
    BY <1>6 DEF OptOut, LegEnds, HangUp, Kind
  <2>2. events' \in Seq(Event)
    BY <2>1, Emitted
  <2>3. faults' \in 0 .. MaxFaults
    BY <1>6, FaultCounted DEF OptOut, LegEnds, HangUp, OvertakesOnlyAsFault, TypeOK
  <2> QED
    BY <1>6, <2>2, <2>3 DEF OptOut, LegEnds, HangUp, DialIs, TypeOK, Dial, monitor
<1>7. ASSUME HandleOptOut \/ HandleSuccess \/ HandleFailure \/ HandleHangup PROVE TypeOK'
  <2>1. PICK kinds : Take(kinds)
    BY <1>7 DEF HandleOptOut, HandleSuccess, HandleFailure, HandleHangup
  <2>2. Sender \in Attempts /\ events' \in Seq(Event)
    BY <2>1, Taken
  <2>3. PICK status \in Status : Callback(status)
    BY <1>7 DEF HandleOptOut, HandleSuccess, HandleFailure, HandleHangup, HangupStatus,
                Status, NotAnswered, Lifecycle!Status, Lifecycle!NotAnswered, Take
  <2>4. posted' \in [Attempts -> Seq(Status)] /\ handling' \in Event
    BY <2>1, <2>3, CallbackType
  <2> QED
    BY <1>7, <2>2, <2>4 DEF HandleOptOut, HandleSuccess, HandleFailure, HandleHangup,
                            TypeOK, asterisk
<1>8. ASSUME Ignore PROVE TypeOK'
  <2>1. events' \in Seq(Event)
    BY <1>8, Taken DEF Ignore
  <2> QED
    BY <1>8, <2>1 DEF Ignore, TypeOK, asterisk, monitor
<1>9. ASSUME CallbackEnds PROVE TypeOK'
  BY <1>9 DEF CallbackEnds, Unregister, TypeOK, asterisk
<1>10. ASSUME Disconnect \/ Reconnect PROVE TypeOK'
  <2>1. events' \in Seq(Event)
    BY <1>10, EmptyQueue DEF Disconnect, Reconnect, TypeOK
  <2>2. faults' \in 0 .. MaxFaults
    BY <1>10, FaultCounted DEF Disconnect, Reconnect, TypeOK
  <2> QED
    BY <1>10, <2>1, <2>2 DEF Disconnect, Reconnect, TypeOK, asterisk, monitor
<1>11. ASSUME Restart PROVE TypeOK'
  <2>1. events' \in Seq(Event) /\ handling' \in Event \cup {None}
    BY <1>11, EmptyQueue DEF Restart
  <2>2. faults' \in 0 .. MaxFaults
    BY <1>11, FaultCounted DEF Restart
  <2> QED
    BY <1>11, <2>1, <2>2 DEF Restart, TypeOK, Http, asterisk
<1>12. ASSUME UNCHANGED vars PROVE TypeOK'
  BY <1>12 DEF vars, asterisk, monitor, TypeOK
<1> QED
  BY <1>1, <1>2, <1>3, <1>4, <1>5, <1>6, <1>7, <1>8, <1>9, <1>10, <1>11, <1>12
     DEF Next, Handler, Channel, Monitor

\* Every variable keeps to the values the code can give it.
THEOREM TypeCorrect == Spec => []TypeOK
BY InitTypeOK, NextTypeOK, PTL DEF Spec

------------------------------------------------------------------------------
(* The inductive invariant, one attempt at a time. *)

\* IndInv without the types, for one attempt.
Good(a) ==
    /\ http[a] = "refused" => pending[a] = "absent"
    /\ a \in correlated => pending[a] = "answered" \/ http[a] = "refused"
    /\ NothingBefore(a) /\ OneResponse(a) /\ EntrySaysWhatWasPosted(a)

\* The invariant is what it says of each attempt.
LEMMA IndInvIsGood == TypeOK => (IndInv <=> \A a \in Attempts : Good(a))
BY DEF IndInv, Good, CorrelatedIsAnswered, RefusedIsForgotten, TypeOK

\* A step brings no event of an attempt.
NoEventFor(a) ==
    /\ (\A i \in DOMAIN events : events[i].attempt # a)
          => (\A i \in DOMAIN events' : events'[i].attempt # a)
    /\ Queued(a) = {} => Queued(a)' = {}
    /\ (\A i, j \in Queued(a) : i = j) => (\A i, j \in Queued(a)' : i = j)

\* A step is not about an attempt.
NotAbout(a) ==
    /\ http'[a] = http[a] /\ dial'[a] = dial[a] /\ pending'[a] = pending[a]
    /\ posted'[a] = posted[a]
    /\ a \in owed' <=> a \in owed
    /\ a \in correlated' <=> a \in correlated
    /\ \/ handling' = handling
       \/ /\ handling = None \/ handling.attempt # a
          /\ handling' = None \/ handling'.attempt # a
    /\ NoEventFor(a)

\* What a step is not about stays good.
LEMMA Frame == ASSUME NEW a \in Attempts, Good(a), NotAbout(a) PROVE Good(a)'
<1>1. NothingBefore(a)'
  BY DEF Good, NotAbout, NoEventFor, NothingBefore
<1>2. OneResponse(a)'
  <2>1. /\ Handles(a, Response)' = Handles(a, Response)
        /\ Handles(a, NotAnswered)' = Handles(a, NotAnswered)
    BY DEF NotAbout, Handles, Response
  <2> QED
    BY <2>1 DEF Good, NotAbout, NoEventFor, OneResponse
<1>3. EntrySaysWhatWasPosted(a)'
  <2> DEFINE Over == {"opt_out", "hangup"}
  <2>1. Handles(a, Over \cup NotAnswered) => Handles(a, Over \cup NotAnswered)'
    BY DEF NotAbout, Handles
  <2>2. Handles(a, Over) => Handles(a, Over)'
    BY DEF NotAbout, Handles
  <2> QED
    BY <2>1, <2>2 DEF Good, NotAbout, EntrySaysWhatWasPosted
<1> QED
  BY <1>1, <1>2, <1>3 DEF Good, NotAbout

\* Taking an event brings none.
LEMMA TakenBringsNone ==
    ASSUME TypeOK, NEW kinds, Take(kinds), NEW a \in Attempts PROVE NoEventFor(a)
<1>1. \A i \in DOMAIN events' : i + 1 \in DOMAIN events /\ events'[i] = events[i + 1]
                                /\ i \in Nat
  BY Taken
<1>2. \A i \in Queued(a)' : i + 1 \in Queued(a) /\ i \in Nat
  BY <1>1 DEF Queued
<1> QED
  BY <1>1, <1>2 DEF NoEventFor

\* An event of one attempt is none of another, and only a response is a response.
LEMMA EmittedForOne ==
    ASSUME TypeOK, NEW kind \in Kind, NEW b \in Attempts, Emit(kind, b)
    PROVE  /\ \A a \in Attempts \ {b} : NoEventFor(a)
           /\ kind \notin Response =>
                 /\ Queued(b) = {} => Queued(b)' = {}
                 /\ (\A i, j \in Queued(b) : i = j) => (\A i, j \in Queued(b)' : i = j)
           /\ Queued(b) = {} => (\A i, j \in Queued(b)' : i = j)
<1>1. \A i \in DOMAIN events' :
         \/ i \in DOMAIN events /\ events'[i] = events[i]
         \/ (i = Len(events) + 1 /\ events'[i] = [kind |-> kind, attempt |-> b])
  BY Emitted
<1>2. \A a \in Attempts : \A i \in Queued(a)' :
         i \in Queued(a) \/ (i = Len(events) + 1 /\ a = b /\ kind \in Response)
  BY <1>1 DEF Queued
<1>3. ASSUME NEW a \in Attempts \ {b} PROVE NoEventFor(a)
  BY <1>1, <1>2 DEF NoEventFor
<1> QED
  BY <1>2, <1>3

------------------------------------------------------------------------------
(* Every step keeps what is good. *)

\* What was never posted is good.
LEMMA InitIndInv == Init => IndInv
<1> SUFFICES ASSUME Init PROVE IndInv
  OBVIOUS
<1>1. DOMAIN events = {} /\ \A a \in Attempts : Queued(a) = {}
  BY DEF Init, Queued
<1>2. \A a \in Attempts : Good(a)
  BY <1>1 DEF Init, Good, NothingBefore, OneResponse, EntrySaysWhatWasPosted, Handles
<1> QED
  BY <1>2, InitTypeOK, IndInvIsGood

\* The handler registers an attempt of which there is no trace, and unregisters one
\* without leaving a correlation that says otherwise.
LEMMA HandlerIsGood ==
    ASSUME TypeOK, NEW b \in Attempts, Post(b) \/ PostRefused(b) \/ Handler(b),
           NEW a \in Attempts, Good(a)
    PROVE  Good(a)'
<1>same. /\ UNCHANGED <<owed, events, correlated, handling, posted>>
         /\ Queued(a)' = Queued(a)
         /\ \A kinds : Handles(a, kinds)' = Handles(a, kinds)
  BY DEF Post, PostRefused, Handler, Accepted, Rejected, ReplyLost, ReplyCutOff,
         asterisk, monitor, Queued, Handles
<1>1. CASE a # b
  <2>1. NoEventFor(a)
    BY <1>same DEF NoEventFor
  <2>2. NotAbout(a)
    BY <1>1, <1>same, <2>1 DEF TypeOK, Post, PostRefused, Handler, Accepted, Rejected,
       ReplyLost, ReplyCutOff, HttpIs, DialIs, Register, Unregister, asterisk, monitor, NotAbout
  <2> QED
    BY <2>2, Frame
<1>2. CASE a = b /\ Post(b)
  <2>1. /\ http[b] = "idle" /\ http'[b] = "waiting" /\ dial'[b] = "sent"
        /\ pending'[b] = "waiting"
    BY <1>2 DEF Post, HttpIs, DialIs, Register, TypeOK
  <2>2. /\ b \notin owed \cup correlated /\ posted[b] = <<>>
        /\ handling # None => handling.attempt # b
        /\ \A i \in DOMAIN events : events[i].attempt # b
    BY <1>2, <2>1 DEF Good, NothingBefore
  <2>3. NothingBefore(b)'
    BY <1>same, <2>1, <2>2 DEF NothingBefore
  <2>4. Queued(b) = {} /\ \A kinds : ~Handles(b, kinds)
    BY <2>2 DEF Queued, Handles
  <2>5. OneResponse(b)'
    BY <1>2, <1>same, <2>1, <2>2, <2>4 DEF OneResponse
  <2>6. EntrySaysWhatWasPosted(b)'
    BY <1>same, <2>1, <2>2 DEF EntrySaysWhatWasPosted
  <2> QED
    BY <1>2, <1>same, <2>1, <2>2, <2>3, <2>5, <2>6 DEF Good
<1>3. CASE a = b /\ (PostRefused(b) \/ Accepted(b) \/ ReplyCutOff(b))
  <2>1. /\ UNCHANGED <<dial, pending>>
        /\ http'[b] # "idle" /\ http[b] # "refused"
        /\ http'[b] = "refused" => http[b] = "idle"
    BY <1>3 DEF PostRefused, Accepted, ReplyCutOff, HttpIs, TypeOK, asterisk, monitor
  <2>2. NothingBefore(b)'
    BY <1>3, <1>same, <2>1 DEF Good, NothingBefore
  <2>3. OneResponse(b)'
    BY <1>3, <1>same, <2>1 DEF Good, OneResponse
  <2>4. EntrySaysWhatWasPosted(b)'
    BY <1>3, <1>same, <2>1 DEF Good, EntrySaysWhatWasPosted
  <2> QED
    BY <1>3, <1>same, <2>1, <2>2, <2>3, <2>4 DEF Good, NothingBefore
<1>4. CASE a = b /\ (Rejected(b) \/ ReplyLost(b))
  <2>1. UNCHANGED dial /\ http'[b] = "refused" /\ pending'[b] = "absent"
    BY <1>4 DEF Rejected, ReplyLost, HttpIs, Unregister, TypeOK, asterisk
  <2>2. NothingBefore(b)'
    BY <1>4, <1>same, <2>1 DEF Good, NothingBefore
  <2>3. OneResponse(b)'
    BY <1>4, <1>same, <2>1 DEF Good, OneResponse
  <2> QED
    BY <1>4, <1>same, <2>1, <2>2, <2>3 DEF Good, EntrySaysWhatWasPosted
<1> QED
  BY <1>1, <1>2, <1>3, <1>4 DEF Handler

\* Asterisk responds to an Originate once, after the last step that finds no trace.
LEMMA AsteriskIsGood ==
    ASSUME TypeOK, NEW b \in Attempts, Channel(b) \/ Respond(b),
           NEW a \in Attempts, Good(a)
    PROVE  Good(a)'
<1>same. /\ UNCHANGED <<http, pending, correlated, handling, posted>>
         /\ \A kinds : Handles(a, kinds)' = Handles(a, kinds)
  BY DEF Channel, Originate, Answer, DoesNotAnswer, OptOut, LegEnds, HangUp, Respond,
         monitor, Handles
<1>dial. \A phase : DialIs(b, phase) =>
            dial'[b] = phase /\ \A c \in Attempts : c # b => dial'[c] = dial[c]
  BY DEF DialIs, TypeOK
<1>1. CASE a # b
  <2>1. NoEventFor(a)
    <3>1. CASE UNCHANGED events
      BY <3>1 DEF NoEventFor, Queued
    <3>2. CASE \E kind \in Kind : Emit(kind, b)
      BY <1>1, <3>2, EmittedForOne
    <3> QED
      BY <3>1, <3>2 DEF Channel, Originate, Answer, DoesNotAnswer, OptOut, LegEnds, HangUp,
                        Respond, Kind
  <2>2. dial'[a] = dial[a] /\ (a \in owed' <=> a \in owed)
    BY <1>1, <1>dial DEF Channel, Originate, Answer, DoesNotAnswer, OptOut, LegEnds, HangUp,
                         Respond
  <2>3. NotAbout(a)
    BY <1>same, <2>1, <2>2 DEF NotAbout
  <2> QED
    BY <2>3, Frame
<1>2. CASE a = b /\ Originate(b)
  <2>1. UNCHANGED <<owed, events>> /\ dial[b] = "sent" /\ dial'[b] \in {"ringing", "rejected"}
    BY <1>2, <1>dial DEF Originate
  <2>2. Queued(b)' = Queued(b)
    BY <2>1 DEF Queued
  <2> QED
    BY <1>2, <1>same, <2>1, <2>2 DEF Good, NothingBefore, OneResponse, EntrySaysWhatWasPosted
<1>3. CASE a = b /\ Answer(b)
  <2>1. UNCHANGED events /\ dial[b] = "ringing" /\ dial'[b] = "up" /\ b \in owed'
    BY <1>3, <1>dial DEF Answer
  <2>2. /\ b \notin correlated /\ pending[b] # "answered" /\ Queued(b) = {}
        /\ http[b] # "idle" /\ \A kinds : ~Handles(b, kinds)
    BY <1>3, <2>1 DEF Good, NothingBefore, Queued, Handles
  <2>3. Queued(b)' = Queued(b)
    BY <2>1 DEF Queued
  <2>4. OneResponse(b)'
    BY <1>3, <1>same, <2>2, <2>3 DEF OneResponse
  <2> QED
    BY <1>3, <1>same, <2>1, <2>2, <2>4 DEF Good, NothingBefore, EntrySaysWhatWasPosted
<1>4. CASE a = b /\ DoesNotAnswer(b)
  <2>1. UNCHANGED owed /\ dial[b] = "ringing" /\ dial'[b] = "over"
    BY <1>4, <1>dial DEF DoesNotAnswer
  <2>2. /\ b \notin owed /\ b \notin correlated /\ pending[b] # "answered" /\ Queued(b) = {}
        /\ http[b] # "idle" /\ \A kinds : ~Handles(b, kinds)
    BY <1>4, <2>1 DEF Good, NothingBefore, Queued, Handles
  <2>3. \A i, j \in Queued(b)' : i = j
    BY <1>4, <2>2, EmittedForOne DEF DoesNotAnswer, Kind
  <2>4. OneResponse(b)'
    BY <1>4, <1>same, <2>1, <2>2, <2>3 DEF OneResponse
  <2> QED
    BY <1>4, <1>same, <2>1, <2>2, <2>4 DEF Good, NothingBefore, EntrySaysWhatWasPosted
<1>5. CASE a = b /\ Respond(b)
  <2>1. UNCHANGED dial /\ b \in owed /\ b \notin owed' /\ Emit("success", b)
    BY <1>5 DEF Respond
  <2>2. /\ dial[b] \notin {"none", "sent", "rejected", "ringing"} /\ http[b] # "idle"
        /\ Queued(b) = {} /\ ~Handles(b, Response) /\ b \notin correlated
        /\ pending[b] # "answered"
    BY <1>5, <2>1 DEF Good, NothingBefore, OneResponse
  <2>3. \A i, j \in Queued(b)' : i = j
    BY <2>1, <2>2, EmittedForOne DEF Kind
  <2>4. OneResponse(b)'
    BY <1>5, <1>same, <2>1, <2>2, <2>3 DEF OneResponse
  <2> QED
    BY <1>5, <1>same, <2>1, <2>2, <2>4 DEF Good, NothingBefore, EntrySaysWhatWasPosted
<1>6. CASE a = b /\ (OptOut(b) \/ LegEnds(b) \/ HangUp(b))
  <2>1. UNCHANGED owed /\ dial[b] \in {"up", "ending"} /\ dial'[b] \in {"ending", "over"}
    BY <1>6, <1>dial DEF OptOut, LegEnds, HangUp
  <2>2. PICK kind \in {"opt_out", "hangup"} : Emit(kind, b)
    BY <1>6 DEF OptOut, LegEnds, HangUp
  <2>3. kind \in Kind /\ kind \notin Response
    BY DEF Kind, Response, NotAnswered, Lifecycle!NotAnswered
  <2>4. /\ Queued(b) = {} => Queued(b)' = {}
        /\ (\A i, j \in Queued(b) : i = j) => (\A i, j \in Queued(b)' : i = j)
    BY <2>2, <2>3, EmittedForOne
  <2>5. OneResponse(b)'
    BY <1>6, <1>same, <2>1, <2>4 DEF Good, OneResponse
  <2> QED
    BY <1>6, <1>same, <2>1, <2>5 DEF Good, NothingBefore, EntrySaysWhatWasPosted
<1> QED
  BY <1>1, <1>2, <1>3, <1>4, <1>5, <1>6 DEF Channel

\* A response that is taken belongs to an attempt that has waited for it.
LEMMA SenderWaits ==
    ASSUME TypeOK, NEW kinds, Take(kinds), NEW b \in Attempts, b = Sender, Good(b),
           Head(events).kind \in Response
    PROVE  /\ b \notin owed /\ b \notin correlated /\ pending[b] # "answered"
           /\ Queued(b)' = {}
<1>1. 1 \in Queued(b)
  BY Taken DEF Queued, Sender
<1>2. \A i \in Queued(b)' : i + 1 \in Queued(b) /\ i + 1 # 1
  BY Taken DEF Queued
<1> QED
  BY <1>1, <1>2 DEF Good, OneResponse

\* An event that is handled is about its attempt only.
LEMMA HandlingIsAboutSender ==
    ASSUME TypeOK, NEW kinds, Take(kinds), NEW status, Callback(status),
           UNCHANGED <<http, dial, owed>>,
           NEW a \in Attempts, a # Sender,
           a \in correlated' <=> a \in correlated, pending'[a] = pending[a],
           Good(a)
    PROVE  Good(a)'
<1>1. Sender \in Attempts /\ handling = None /\ handling' = Head(events)
  BY Taken DEF Take, Callback
<1>2. posted'[a] = posted[a]
  BY <1>1 DEF Callback, TypeOK
<1>3. NoEventFor(a)
  BY TakenBringsNone
<1>4. NotAbout(a)
  BY <1>1, <1>2, <1>3 DEF NotAbout, Sender
<1> QED
  BY <1>4, Frame

\* The sender of the event that is handled: dialed, so not idle, and handled now.
LEMMA SenderIsDialed ==
    ASSUME TypeOK, NEW kinds, Take(kinds), NEW b \in Attempts, b = Sender, Good(b)
    PROVE  http[b] # "idle" /\ dial[b] \notin {"none", "sent", "rejected", "ringing"}
<1>1. 1 \in DOMAIN events /\ events[1].attempt = b
  BY Taken DEF Sender
<1> QED
  BY <1>1 DEF Good, NothingBefore

\* The monitor posts what the entry allows, and changes the entry with it.
LEMMA HandledIsGood ==
    ASSUME TypeOK, HandleOptOut \/ HandleSuccess \/ HandleFailure \/ HandleHangup,
           NEW a \in Attempts, Good(a)
    PROVE  Good(a)'
<1>1. PICK kinds : Take(kinds)
  BY DEF HandleOptOut, HandleSuccess, HandleFailure, HandleHangup
<1>2. PICK status : Callback(status)
  BY DEF HandleOptOut, HandleSuccess, HandleFailure, HandleHangup
<1>3. UNCHANGED <<http, dial, owed>>
  BY DEF HandleOptOut, HandleSuccess, HandleFailure, HandleHangup, asterisk
<1>4. Sender \in Attempts /\ handling = None /\ handling' = Head(events) /\ Head(events) # None
  BY <1>1, <1>2, Taken DEF Take, Callback
<1>5. CASE a # Sender
  <2>1. (a \in correlated' <=> a \in correlated) /\ pending'[a] = pending[a]
    BY <1>4, <1>5 DEF HandleOptOut, HandleSuccess, HandleFailure, HandleHangup, TypeOK
  <2> QED
    BY <1>1, <1>2, <1>3, <1>5, <2>1, HandlingIsAboutSender
<1>6. CASE a = Sender
  <2>1. http[a] # "idle" /\ dial[a] \notin {"none", "sent", "rejected", "ringing"}
    BY <1>1, <1>6, SenderIsDialed
  <2>2. NothingBefore(a)'
    BY <1>3, <2>1 DEF NothingBefore
  <2>3. \A ks : Handles(a, ks)' <=> Head(events).kind \in ks
    BY <1>4, <1>6 DEF Handles, Sender
  <2>4. NoEventFor(a)
    BY <1>1, TakenBringsNone
  <2>5. CASE HandleSuccess
    <3>1. /\ Head(events).kind = "success" /\ pending[a] # "absent"
          /\ pending'[a] = "answered" /\ posted'[a] = Append(posted[a], "answered")
          /\ a \in correlated'
      BY <1>4, <1>6, <2>5 DEF HandleSuccess, Take, Callback, TypeOK
    <3>2. a \notin owed /\ pending[a] # "answered" /\ Queued(a)' = {}
      BY <1>1, <1>6, <3>1, SenderWaits DEF Response
    <3>3. posted[a] = <<>>
      <4>1. pending[a] = "waiting"
        BY <3>1, <3>2 DEF TypeOK
      <4> QED
        BY <1>4, <4>1 DEF Good, EntrySaysWhatWasPosted, Handles
    <3>4. posted'[a] = <<"answered">>
      BY <3>1, <3>3
    <3>5. ~Handles(a, NotAnswered)'
      BY <2>3, <3>1 DEF NotAnswered, Lifecycle!NotAnswered
    <3> QED
      BY <1>3, <2>2, <3>1, <3>2, <3>4, <3>5 DEF Good, OneResponse, EntrySaysWhatWasPosted
  <2>6. CASE HandleFailure
    <3>1. /\ Head(events).kind \in NotAnswered /\ UNCHANGED <<pending, correlated>>
      BY <1>4, <1>6, <2>6 DEF HandleFailure, Take
    <3>2. /\ a \notin owed /\ a \notin correlated /\ pending[a] # "answered"
          /\ Queued(a)' = {}
      BY <1>1, <1>6, <3>1, SenderWaits DEF Response
    <3>3. Handles(a, {"opt_out", "hangup"} \cup NotAnswered)'
      BY <2>3, <3>1
    <3> QED
      BY <1>3, <2>2, <3>1, <3>2, <3>3 DEF Good, OneResponse, EntrySaysWhatWasPosted
  <2>7. CASE HandleOptOut \/ HandleHangup
    <3>1. /\ Head(events).kind \in {"opt_out", "hangup"} /\ UNCHANGED <<pending, correlated>>
      BY <2>7 DEF HandleOptOut, HandleHangup, Take
    <3>2. ~Handles(a, Response)' /\ ~Handles(a, NotAnswered)'
      BY <2>3, <3>1 DEF Response, NotAnswered, Lifecycle!NotAnswered
    <3>3. /\ Handles(a, {"opt_out", "hangup"} \cup NotAnswered)'
          /\ Handles(a, {"opt_out", "hangup"})'
      BY <2>3, <3>1
    <3>4. OneResponse(a)'
      BY <1>3, <2>4, <3>1, <3>2 DEF Good, OneResponse, NoEventFor
    <3> QED
      BY <1>3, <2>2, <3>1, <3>3, <3>4 DEF Good, EntrySaysWhatWasPosted
  <2> QED
    BY <2>5, <2>6, <2>7
<1> QED
  BY <1>5, <1>6

\* The end of a callback forgets the attempt unless it goes on.
LEMMA CallbackEndsIsGood ==
    ASSUME TypeOK, CallbackEnds, NEW a \in Attempts, Good(a)
    PROVE  Good(a)'
<1>1. /\ handling # None /\ handling' = None /\ handling.attempt \in Attempts
      /\ handling.kind \in Kind
      /\ UNCHANGED <<http, dial, owed, events, posted>>
  BY DEF CallbackEnds, asterisk, TypeOK, Event, Kind
<1>2. NoEventFor(a) /\ Queued(a)' = Queued(a)
  BY <1>1 DEF NoEventFor, Queued
<1>3. CASE a # handling.attempt
  <2>1. (a \in correlated' <=> a \in correlated) /\ pending'[a] = pending[a]
    BY <1>1, <1>3 DEF CallbackEnds, Unregister, TypeOK
  <2>2. NotAbout(a)
    BY <1>1, <1>2, <1>3, <2>1 DEF NotAbout
  <2> QED
    BY <2>2, Frame
<1>4. CASE a = handling.attempt
  <2>1. \A kinds : ~Handles(a, kinds)'
    BY <1>1 DEF Handles
  <2>2. \A kinds : Handles(a, kinds) <=> handling.kind \in kinds
    BY <1>1, <1>4 DEF Handles
  <2>3. dial[a] \notin {"none", "sent", "rejected", "ringing"} /\ http[a] # "idle"
    BY <1>1, <1>4 DEF Good, NothingBefore
  <2>4. NothingBefore(a)'
    BY <1>1, <2>3 DEF NothingBefore
  <2>5. CASE handling.kind = "success"
    <3>1. UNCHANGED <<pending, correlated>>
      BY <2>5 DEF CallbackEnds
    <3>2. ~Handles(a, {"opt_out", "hangup"} \cup NotAnswered) /\ ~Handles(a, {"opt_out", "hangup"})
      BY <2>2, <2>5 DEF NotAnswered, Lifecycle!NotAnswered
    <3>3. OneResponse(a)'
      BY <1>1, <1>2, <2>1, <3>1 DEF Good, OneResponse
    <3> QED
      BY <1>1, <2>4, <3>1, <3>2, <3>3 DEF Good, EntrySaysWhatWasPosted
  <2>6. CASE handling.kind # "success"
    <3>1. pending'[a] = "absent"
      BY <1>1, <1>4, <2>6 DEF CallbackEnds, Unregister, TypeOK
    <3>2. a \notin correlated'
      <4>1. CASE handling.kind \in {"opt_out", "hangup"}
        BY <1>4, <4>1 DEF CallbackEnds
      <4>2. CASE handling.kind \in NotAnswered
        <5>1. a \notin correlated
          BY <2>2, <4>2 DEF Good, OneResponse
        <5> QED
          BY <5>1 DEF CallbackEnds
      <4> QED
        BY <1>1, <2>6, <4>1, <4>2 DEF Kind
    <3>3. OneResponse(a)'
      BY <1>1, <1>2, <2>1, <3>1, <3>2 DEF Good, OneResponse
    <3> QED
      BY <2>4, <3>1, <3>2, <3>3 DEF Good, EntrySaysWhatWasPosted
  <2> QED
    BY <2>5, <2>6
<1> QED
  BY <1>3, <1>4

\* The other steps of the monitor are about no attempt, but for a restart, which
\* forgets all.
LEMMA ConnectionIsGood ==
    ASSUME TypeOK, Ignore \/ Disconnect \/ Reconnect \/ Restart \/ UNCHANGED vars,
           NEW a \in Attempts, Good(a)
    PROVE  Good(a)'
<1>1. CASE Ignore
  <2>1. NoEventFor(a)
    BY <1>1, TakenBringsNone DEF Ignore
  <2>2. NotAbout(a)
    BY <1>1, <2>1 DEF Ignore, NotAbout, asterisk, monitor
  <2> QED
    BY <2>2, Frame
<1>2. CASE Disconnect \/ Reconnect \/ UNCHANGED vars
  <2>1. events' = <<>> \/ UNCHANGED events
    BY <1>2 DEF Disconnect, Reconnect, vars
  <2>2. CASE events' = <<>>
    <3>1. DOMAIN events' = {} /\ Queued(a)' = {}
      BY <2>2 DEF Queued
    <3> QED
      BY <1>2, <3>1, Frame DEF NoEventFor, NotAbout, Disconnect, Reconnect, vars, asterisk, monitor
  <2>3. CASE UNCHANGED events
    <3>1. NoEventFor(a)
      BY <2>3 DEF NoEventFor, Queued
    <3> QED
      BY <1>2, <3>1, Frame DEF NotAbout, Disconnect, Reconnect, vars, asterisk, monitor
  <2> QED
    BY <2>1, <2>2, <2>3
<1>3. CASE Restart
  <2>1. /\ UNCHANGED <<dial, owed, posted>> /\ events' = <<>> /\ pending'[a] = "absent"
        /\ correlated' = {} /\ handling' = None
        /\ http'[a] = "idle" <=> http[a] = "idle"
    BY <1>3 DEF Restart, asterisk, TypeOK
  <2>2. DOMAIN events' = {} /\ Queued(a)' = {}
    BY <2>1 DEF Queued
  <2>3. NothingBefore(a)'
    BY <2>1, <2>2 DEF Good, NothingBefore
  <2>4. OneResponse(a)'
    BY <2>1, <2>2 DEF OneResponse, Handles
  <2> QED
    BY <2>1, <2>3, <2>4 DEF Good, EntrySaysWhatWasPosted
<1> QED
  BY <1>1, <1>2, <1>3

\* The invariant is inductive.
LEMMA NextIndInv == IndInv /\ [Next]_vars => IndInv'
<1> SUFFICES ASSUME IndInv, [Next]_vars PROVE IndInv'
  OBVIOUS
<1>1. TypeOK /\ TypeOK'
  BY NextTypeOK DEF IndInv
<1>2. ASSUME NEW a \in Attempts PROVE Good(a)'
  <2>1. Good(a)
    BY <1>1, IndInvIsGood
  <2> QED
    BY <1>1, <2>1, HandlerIsGood, AsteriskIsGood, HandledIsGood, CallbackEndsIsGood,
       ConnectionIsGood DEF Next, Monitor
<1>3. TypeOK' => (IndInv' <=> \A a \in Attempts : Good(a)')
  BY DEF IndInv, Good, CorrelatedIsAnswered, RefusedIsForgotten, TypeOK
<1> QED
  BY <1>1, <1>2, <1>3

\* Every reachable state satisfies the inductive invariant.
THEOREM Invariance == Spec => []IndInv
BY InitIndInv, NextIndInv, PTL DEF Spec

------------------------------------------------------------------------------
(* What follows. *)

\* The entry that a handler removed with its 502 does not come back.
THEOREM NoRefusedEntry == Spec => []RefusedIsForgotten
<1>1. IndInv => RefusedIsForgotten
  BY DEF IndInv
<1> QED
  BY <1>1, Invariance, PTL

\* The table of channel ids holds answered attempts, not a trace of every call made.
THEOREM CorrelationIsCleared == Spec => []CorrelatedIsAnswered
<1>1. IndInv => CorrelatedIsAnswered
  BY DEF IndInv
<1> QED
  BY <1>1, Invariance, PTL

\* Statuses are posted by the monitor only, one at a time.
LEMMA OnlyCallbacksPost ==
    ASSUME TypeOK, Next, posted' # posted
    PROVE  HandleOptOut \/ HandleSuccess \/ HandleFailure \/ HandleHangup
BY DEF Next, Handler, Channel, Monitor, Post, PostRefused, Accepted, Rejected, ReplyLost,
       ReplyCutOff, Originate, Answer, DoesNotAnswer, OptOut, LegEnds, HangUp, Respond,
       Ignore, CallbackEnds, Disconnect, Reconnect, Restart, monitor

\* The attempt a status is posted for is registered, and the status may follow what
\* was posted for it.
LEMMA PostedIsSuccessor ==
    ASSUME IndInv, HandleOptOut \/ HandleSuccess \/ HandleFailure \/ HandleHangup
    PROVE  /\ Sender \in Attempts /\ pending[Sender] # "absent"
           /\ \E status \in Lifecycle!Successors(posted[Sender]) :
                 posted' = [posted EXCEPT ![Sender] = Append(@, status)]
<1>type. TypeOK
  BY DEF IndInv
<1>1. PICK kinds : Take(kinds)
  BY DEF HandleOptOut, HandleSuccess, HandleFailure, HandleHangup
<1>2. /\ Sender \in Attempts /\ handling = None /\ pending[Sender] # "absent"
  BY <1>type, <1>1, Taken DEF Take, HandleOptOut, HandleSuccess, HandleFailure, HandleHangup,
                              MayReportHangup
<1>3. Good(Sender)
  BY <1>2, <1>type, IndInvIsGood
<1>4. \/ pending[Sender] = "waiting" /\ posted[Sender] = <<>>
      \/ pending[Sender] = "answered" /\ posted[Sender] = <<"answered">>
  BY <1>type, <1>2, <1>3 DEF Good, EntrySaysWhatWasPosted, Handles, TypeOK
<1>next. /\ Lifecycle!Successors(<<>>) = {"answered", "do_not_call", "busy", "no_answer", "failed"}
         /\ Lifecycle!Successors(<<"answered">>) = {"completed", "do_not_call"}
  BY DEF Lifecycle!Successors, Lifecycle!Status, Lifecycle!NotAnswered
<1>5. CASE HandleOptOut
  BY <1>2, <1>4, <1>5, <1>next DEF HandleOptOut, Callback
<1>6. CASE HandleSuccess \/ HandleFailure
  <2>1. Head(events).kind \in Response
    BY <1>6 DEF HandleSuccess, HandleFailure, Take, Response
  <2>2. pending[Sender] # "answered"
    BY <1>type, <1>1, <1>2, <1>3, <2>1, SenderWaits
  <2> QED
    BY <1>2, <1>4, <1>6, <1>next, <2>2 DEF HandleSuccess, HandleFailure, Callback, Take,
       NotAnswered, Lifecycle!NotAnswered
<1>7. CASE HandleHangup
  <2>1. pending[Sender] = "answered"
    BY <1>2, <1>3, <1>7 DEF HandleHangup, MayReportHangup, Good
  <2> QED
    BY <1>2, <1>4, <1>7, <1>next, <2>1 DEF HandleHangup, HangupStatus, Callback
<1> QED
  BY <1>2, <1>5, <1>6, <1>7

\* What the backend is told about an attempt is a legal story: the monitor implements
\* the lifecycle of OutboundAttempt.
THEOREM StoriesAreLegal == Spec => ReportsLifecycle
<1>1. Init => Lifecycle!Init
  BY DEF Init, Lifecycle!Init
<1>2. IndInv /\ [Next]_vars => [Lifecycle!Next]_posted
  <2> SUFFICES ASSUME IndInv, Next, posted' # posted PROVE Lifecycle!Next
    BY DEF vars, monitor
  <2>1. TypeOK
    BY DEF IndInv
  <2> QED
    BY <2>1, OnlyCallbacksPost, PostedIsSuccessor DEF Lifecycle!Next, Lifecycle!Report
<1> QED
  BY <1>1, <1>2, Invariance, PTL DEF Spec, ReportsLifecycle, Lifecycle!Spec

\* The backend hears nothing of an attempt after it was answered 502 for it.
THEOREM Silence == Spec => SilentOnceRefused
<1> DEFINE Silent == \A a \in Attempts : http[a] = "refused" => posted'[a] = posted[a]
<1>1. IndInv /\ [Next]_vars => [Silent]_vars
  <2> SUFFICES ASSUME IndInv, Next, NEW a \in Attempts, http[a] = "refused"
               PROVE  posted'[a] = posted[a]
    BY DEF vars
  <2>1. TypeOK /\ pending[a] = "absent"
    BY DEF IndInv, RefusedIsForgotten
  <2>2. CASE posted' # posted
    <3>1. /\ Sender \in Attempts /\ pending[Sender] # "absent"
          /\ \E status : posted' = [posted EXCEPT ![Sender] = Append(@, status)]
      BY <2>1, <2>2, OnlyCallbacksPost, PostedIsSuccessor
    <3> QED
      BY <2>1, <3>1 DEF TypeOK
  <2> QED
    BY <2>2
<1> QED
  BY <1>1, Invariance, PTL DEF Spec, SilentOnceRefused

\* All that the backend can have heard of an attempt.
Stories ==
    {<<>>} \cup {<<s>> : s \in Lifecycle!Status \ {"completed"}}
           \cup {<<"answered", s>> : s \in {"completed", "do_not_call"}}

LEMMA AppendToOne ==
  ASSUME NEW S, NEW x \in S, NEW y \in S
  PROVE  Append(<<x>>, y) = <<x, y>>
<1> DEFINE left == Append(<<x>>, y)
           right == <<x, y>>
<1>1. left \in Seq(S) /\ right \in Seq(S) /\ Len(left) = 2 /\ Len(right) = 2
  OBVIOUS
<1>2. left[1] = right[1] /\ left[2] = right[2]
  OBVIOUS
<1> HIDE DEF left, right
<1>3. \A i \in 1 .. Len(left) : left[i] = right[i]
  BY <1>1, <1>2
<1>4. left = right
  BY <1>1, <1>3, SeqEqual
<1> QED BY <1>4 DEF left, right

\* A status that may come next makes a story of a story.
LEMMA StoryGrows ==
  ASSUME NEW story \in Stories, NEW s \in Lifecycle!Successors(story)
  PROVE  Append(story, s) \in Stories
<1>1. CASE story = <<>>
  <2>1. s \in Lifecycle!Status \ {"completed"}
    BY <1>1 DEF Lifecycle!Successors
  <2>2. Append(story, s) = <<s>>
    BY <1>1
  <2> QED BY <2>1, <2>2 DEF Stories
<1>2. CASE story = <<"answered">>
  <2>1. s \in {"completed", "do_not_call"}
    BY <1>2 DEF Lifecycle!Successors
  <2>2. Append(story, s) = <<"answered", s>>
    <3>1. "answered" \in Lifecycle!Status /\ s \in Lifecycle!Status
      BY <2>1 DEF Lifecycle!Status
    <3>2. Append(<<"answered">>, s) = <<"answered", s>>
      BY <3>1, AppendToOne
    <3> QED BY <1>2, <3>2
  <2> QED BY <2>1, <2>2 DEF Stories
<1>3. CASE story # <<>> /\ story # <<"answered">>
  <2>1. Lifecycle!Successors(story) = {}
    BY <1>3 DEF Lifecycle!Successors
  <2> QED BY <2>1
<1> QED BY <1>1, <1>2, <1>3

LegalStories == posted \in [Attempts -> Stories]

\* Whatever Asterisk sends, in whatever order, the backend hears nothing of an attempt, or
\* one status, or that it was answered and then how it ended.
THEOREM OneStory == Spec => []LegalStories
<1>1. Lifecycle!Init => LegalStories
  BY DEF Lifecycle!Init, LegalStories, Stories
<1>2. LegalStories /\ [Lifecycle!Next]_posted => LegalStories'
  <2> SUFFICES ASSUME LegalStories, NEW a \in Attempts, Lifecycle!Report(a)
               PROVE  LegalStories'
    BY DEF Lifecycle!Next, LegalStories
  <2>1. PICK s \in Lifecycle!Successors(posted[a]) :
             posted' = [posted EXCEPT ![a] = Append(@, s)]
    BY DEF Lifecycle!Report
  <2>2. Append(posted[a], s) \in Stories
    BY <2>1, StoryGrows DEF LegalStories
  <2> QED BY <2>1, <2>2 DEF LegalStories
<1> QED
  BY <1>1, <1>2, StoriesAreLegal, PTL DEF ReportsLifecycle, Lifecycle!Spec

------------------------------------------------------------------------------
(* What the backend is told is so. *)

Ended == {"ending", "over"}

\* An event that ends a story is in the queue only when Asterisk has ended the call, and
\* the backend has heard of no end before.
EventsAreTrue ==
    \A i \in DOMAIN events : events[i].kind # "success" => dial[events[i].attempt] \in Ended

StoriesAreTrue ==
    \A a \in Attempts :
        /\ posted[a] # <<>> => dial[a] \in {"up"} \cup Ended
        /\ posted[a] \notin {<<>>, <<"answered">>} => dial[a] \in Ended

\* A call that Asterisk has ended does not begin again, and no other step than Asterisk's
\* puts an event into the queue.
LEMMA EventsStayTrue ==
  ASSUME IndInv, EventsAreTrue, [Next]_vars
  PROVE  EventsAreTrue' /\ \A a \in Attempts : dial[a] \in Ended => dial'[a] \in Ended
<1> DEFINE Goal == EventsAreTrue' /\ \A a \in Attempts : dial[a] \in Ended => dial'[a] \in Ended
<1>type. TypeOK /\ \A i \in DOMAIN events : events[i].attempt \in Attempts
  <2>1. TypeOK
    BY DEF IndInv
  <2>2. events \in Seq(Event)
    BY <2>1 DEF TypeOK
  <2>3. \A i \in DOMAIN events : events[i] \in Event
    BY <2>2
  <2> QED BY <2>1, <2>3 DEF Event
<1> USE DEF Ended
<1>1. ASSUME NEW b \in Attempts, NEW phase, DialIs(b, phase), dial[b] \notin Ended,
             UNCHANGED events
      PROVE  Goal
  <2>1. \A a \in Attempts : dial'[a] = IF a = b THEN phase ELSE dial[a]
    BY <1>1, <1>type DEF DialIs, TypeOK
  <2> QED BY <1>1, <1>type, <2>1 DEF EventsAreTrue
<1>2. ASSUME NEW b \in Attempts, NEW phase \in Ended, DialIs(b, phase),
             NEW kind \in Kind, Emit(kind, b)
      PROVE  Goal
  <2>1. \A a \in Attempts : dial'[a] = IF a = b THEN phase ELSE dial[a]
    BY <1>2, <1>type DEF DialIs, TypeOK
  <2>2. \A i \in DOMAIN events' :
           \/ i \in DOMAIN events /\ events'[i] = events[i]
           \/ events'[i] = [kind |-> kind, attempt |-> b]
    BY <1>2, <1>type, Emitted
  <2> QED BY <1>type, <2>1, <2>2 DEF EventsAreTrue
<1>3. ASSUME dial' = dial,
             \A i \in DOMAIN events' :
                \/ \E j \in DOMAIN events : events'[i] = events[j]
                \/ events'[i].kind = "success"
      PROVE  Goal
  BY <1>3 DEF EventsAreTrue
<1>4. ASSUME NEW b \in Attempts, Post(b) \/ Originate(b) \/ Answer(b) PROVE Goal
  <2>1. dial[b] \notin Ended
    BY <1>4 DEF Post, Originate, Answer, IndInv, NothingBefore
  <2>2. UNCHANGED events /\ \E phase : DialIs(b, phase)
    BY <1>4 DEF Post, Originate, Answer
  <2> QED BY <1>1, <2>1, <2>2
<1>5. ASSUME NEW b \in Attempts, DoesNotAnswer(b) \/ OptOut(b) \/ LegEnds(b) \/ HangUp(b)
      PROVE  Goal
  <2>1. \E phase \in Ended, kind \in Kind : DialIs(b, phase) /\ Emit(kind, b)
    BY <1>5 DEF DoesNotAnswer, OptOut, LegEnds, HangUp, Kind
  <2> QED BY <1>2, <2>1
<1>6. ASSUME NEW b \in Attempts, Respond(b) PROVE Goal
  <2>1. \A i \in DOMAIN events' :
           \/ i \in DOMAIN events /\ events'[i] = events[i]
           \/ events'[i] = [kind |-> "success", attempt |-> b]
    BY <1>6, <1>type, Emitted DEF Respond, Kind
  <2>2. dial' = dial
    BY <1>6 DEF Respond
  <2> QED BY <1>3, <2>1, <2>2
<1>7. CASE HandleOptOut \/ HandleSuccess \/ HandleFailure \/ HandleHangup \/ Ignore
  <2>1. PICK kinds : Take(kinds)
    BY <1>7 DEF HandleOptOut, HandleSuccess, HandleFailure, HandleHangup, Ignore
  <2>2. \A i \in DOMAIN events' : \E j \in DOMAIN events : events'[i] = events[j]
    BY <1>type, <2>1, Taken
  <2>3. dial' = dial
    BY <1>7 DEF HandleOptOut, HandleSuccess, HandleFailure, HandleHangup, Ignore, asterisk
  <2> QED BY <1>3, <2>2, <2>3
<1>8. CASE \/ \E b \in Attempts : PostRefused(b) \/ Handler(b)
           \/ CallbackEnds \/ Reconnect \/ Disconnect \/ Restart \/ UNCHANGED vars
  <2>1. dial' = dial /\ (events' = events \/ events' = <<>>)
    BY <1>8 DEF PostRefused, Handler, Accepted, Rejected, ReplyLost, ReplyCutOff, CallbackEnds,
                Reconnect, Disconnect, Restart, vars, asterisk
  <2> QED BY <1>3, <2>1
<1> QED
  BY <1>4, <1>5, <1>6, <1>7, <1>8 DEF Next, Channel, Monitor

\* A status is posted when its event is taken from the queue, which knew it to be true.
LEMMA StoriesStayTrue ==
  ASSUME IndInv, IndInv', EventsAreTrue, StoriesAreTrue, [Next]_vars,
         LegalStories, LegalStories'
  PROVE  StoriesAreTrue'
<1>type. TypeOK
  BY DEF IndInv
<1>1. \A a \in Attempts : dial[a] \in Ended => dial'[a] \in Ended
  BY EventsStayTrue
<1>2. ASSUME NEW a \in Attempts, posted'[a] # <<>> PROVE dial'[a] \in {"up"} \cup Ended
  <2>1. dial'[a] \in Dial /\ dial'[a] \notin {"none", "sent", "rejected", "ringing"}
    BY <1>2 DEF IndInv, TypeOK, NothingBefore
  <2> QED BY <2>1 DEF Dial, Ended
<1>3. ASSUME NEW a \in Attempts, posted'[a] \notin {<<>>, <<"answered">>}
      PROVE  dial'[a] \in Ended
  <2>1. CASE posted'[a] = posted[a]
    BY <1>1, <1>3, <2>1 DEF StoriesAreTrue
  <2>2. CASE posted'[a] # posted[a]
    <3>1. Next /\ posted' # posted
      BY <2>2 DEF vars, monitor
    <3>2. HandleOptOut \/ HandleSuccess \/ HandleFailure \/ HandleHangup
      BY <3>1, <1>type, OnlyCallbacksPost
    <3>3. PICK kinds, status : Take(kinds) /\ Callback(status)
      BY <3>2 DEF HandleOptOut, HandleSuccess, HandleFailure, HandleHangup
    <3>4. Sender = a /\ 1 \in DOMAIN events /\ events[1].attempt = a
          /\ events[1] = Head(events)
      BY <1>type, <2>2, <3>3, Taken DEF Callback, Sender, TypeOK
    <3>5. CASE HandleSuccess
      <4>1. Good(a) /\ pending[a] # "absent" /\ handling = None
        BY <3>4, <3>5, <1>type, IndInvIsGood DEF HandleSuccess, Take
      <4>2. pending[a] # "answered"
        BY <1>type, <3>3, <3>4, <3>5, <4>1, SenderWaits DEF HandleSuccess, Take, Response
      <4>3. posted[a] = <<>>
        BY <1>type, <4>1, <4>2 DEF Good, EntrySaysWhatWasPosted, Handles, TypeOK
      <4>4. posted'[a] = Append(<<>>, "answered")
        BY <1>type, <3>4, <3>5, <4>3 DEF HandleSuccess, Callback, TypeOK
      <4> QED BY <1>3, <4>4
    <3>6. CASE ~HandleSuccess
      <4>1. Head(events).kind # "success"
        BY <3>2, <3>6 DEF HandleOptOut, HandleFailure, HandleHangup, Take, NotAnswered,
                          Lifecycle!NotAnswered
      <4>2. dial[a] \in Ended
        BY <3>4, <4>1 DEF EventsAreTrue
      <4> QED BY <1>1, <4>2
    <3> QED BY <3>5, <3>6
  <2> QED BY <2>1, <2>2
<1> QED BY <1>2, <1>3 DEF StoriesAreTrue

\* The backend is told that an attempt was answered only of a call that was, and how it
\* ended only when Asterisk has ended the call or its leg to the agent: however long events
\* wait in the monitor's queue, no status runs ahead of the call.
THEOREM StoriesAreSo == Spec => []StoriesAreTrue
<1>1. Init => EventsAreTrue /\ StoriesAreTrue
  BY DEF Init, EventsAreTrue, StoriesAreTrue
<1>2. /\ IndInv /\ IndInv' /\ LegalStories /\ LegalStories'
      /\ EventsAreTrue /\ StoriesAreTrue /\ [Next]_vars
      => EventsAreTrue' /\ StoriesAreTrue'
  BY EventsStayTrue, StoriesStayTrue
<1> QED BY <1>1, <1>2, Invariance, OneStory, PTL DEF Spec
==============================================================================
