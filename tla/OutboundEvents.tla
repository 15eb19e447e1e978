--------------------------- MODULE OutboundEvents ----------------------------
(***************************************************************************)
(* Outbound calls of the Asterisk provisioner: the handler of              *)
(* POST /v1/outbound-calls (main.py, service.py), the OutboundEventMonitor *)
(* (events.py), and the Asterisk channel between them.                     *)
(*                                                                         *)
(* The handler registers the attempt, sends Originate over an AMI          *)
(* connection of its own, and unregisters the attempt when that fails.     *)
(* Asterisk dials, and its events reach the monitor over the monitor's     *)
(* connection, in order.  The monitor handles one event at a time; while   *)
(* it awaits the callback to the backend the handlers go on.               *)
(*                                                                         *)
(* What is abstracted.  An attempt has one channel, whose unique id stands *)
(* for it; other channels only matter by the Linkedid of their Hangup.     *)
(* An attempt is posted once.  One posted without report_events never      *)
(* reaches the monitor and is left out.  A callback that fails is only     *)
(* logged, so what counts is that it was sent.  The Hangup of a channel    *)
(* that was never answered has an unknown unique id and is left out.       *)
(***************************************************************************)
EXTENDS Naturals, Sequences

CONSTANTS
    Attempts,  \* outbound attempts
    None,      \* no event
    MaxFaults  \* bound on lost AMI replies, disconnects, restarts and overtakings

ASSUME FaultsAssumption == MaxFaults \in Nat

VARIABLES
    http,        \* per attempt: the answer to its POST
    dial,        \* per attempt: the Originate action, then its channel
    owed,        \* the answered attempts whose OriginateResponse is still to come
    events,      \* the events the monitor has yet to read
    connected,   \* the monitor's AMI connection
    pending,     \* per attempt: its entry in pending, and whether answered_at is set
    correlated,  \* the attempts that by_unique_id leads to
    handling,    \* the event whose callback the monitor awaits
    posted,      \* per attempt: the statuses sent to the backend
    faults       \* faults so far

asterisk == <<dial, owed>>
monitor == <<pending, correlated, handling, posted>>
vars == <<http, asterisk, events, connected, monitor, faults>>

Lifecycle == INSTANCE OutboundAttempt

NotAnswered == Lifecycle!NotAnswered
Status == Lifecycle!Status

Event == [kind: {"success", "opt_out", "hangup"} \cup NotAnswered, attempt: Attempts]

ASSUME NoneAssumption == None \notin Event

Http == {"idle", "waiting", "accepted", "refused", "broken"}
Dial == {"none", "sent", "rejected", "ringing", "up", "ending", "over"}

Init ==
    /\ http = [a \in Attempts |-> "idle"]
    /\ dial = [a \in Attempts |-> "none"]
    /\ owed = {}
    /\ events = <<>>
    /\ connected = TRUE
    /\ pending = [a \in Attempts |-> "absent"]
    /\ correlated = {}
    /\ handling = None
    /\ posted = [a \in Attempts |-> <<>>]
    /\ faults = 0

Fault == faults < MaxFaults /\ faults' = faults + 1

Register(a) == pending' = [pending EXCEPT ![a] = "waiting"]

Unregister(a) == pending' = [pending EXCEPT ![a] = "absent"]

------------------------------------------------------------------------------
(* The HTTP handler. *)

HttpIs(a, answer) == http' = [http EXCEPT ![a] = answer]

DialIs(a, phase) == dial' = [dial EXCEPT ![a] = phase]

Post(a) ==
    /\ http[a] = "idle"
    /\ Register(a)
    /\ HttpIs(a, "waiting")
    /\ DialIs(a, "sent")
    /\ UNCHANGED <<owed, events, connected, correlated, handling, posted, faults>>

\* The connection is not provisioned, or has no server: registered and unregistered
\* without an await in between.
PostRefused(a) ==
    /\ http[a] = "idle"
    /\ HttpIs(a, "refused")
    /\ UNCHANGED <<asterisk, events, connected, monitor, faults>>

\* Asterisk replies that the call is queued; its events may be there already.
Accepted(a) ==
    /\ http[a] = "waiting"
    /\ dial[a] \notin {"sent", "rejected"}
    /\ HttpIs(a, "accepted")
    /\ UNCHANGED <<asterisk, events, connected, monitor, faults>>

\* Mutant: the attempt stays registered when Asterisk rejects it.
Rejected_staysRegistered(a) ==
    /\ http[a] = "waiting" /\ dial[a] = "rejected"
    /\ HttpIs(a, "refused")
    /\ UNCHANGED <<asterisk, events, connected, monitor, faults>>

Rejected(a) ==
    /\ http[a] = "waiting" /\ dial[a] = "rejected"
    /\ HttpIs(a, "refused")
    /\ Unregister(a)
    /\ UNCHANGED <<asterisk, events, connected, correlated, handling, posted, faults>>

\* The reply does not come in time, or the connection cannot be made: 502, whatever
\* Asterisk has done with the action or will yet do.
ReplyLost(a) ==
    /\ http[a] = "waiting"
    /\ Fault
    /\ HttpIs(a, "refused")
    /\ Unregister(a)
    /\ UNCHANGED <<asterisk, events, connected, correlated, handling, posted>>

\* Asterisk closes the connection: readuntil raises an EOFError, which the handler
\* does not catch, and the attempt stays registered.
ReplyCutOff(a) ==
    /\ http[a] = "waiting"
    /\ Fault
    /\ HttpIs(a, "broken")
    /\ UNCHANGED <<asterisk, events, connected, monitor>>

------------------------------------------------------------------------------
(* Asterisk (external). *)

\* An event reaches the monitor only over a connection.
Emit(kind, a) ==
    events' = IF connected THEN Append(events, [kind |-> kind, attempt |-> a]) ELSE events

\* What the channel does may overtake the OriginateResponse, sent by another thread.
OvertakesOnlyAsFault(a) == IF a \in owed THEN Fault ELSE UNCHANGED faults

Originate(a) ==
    /\ dial[a] = "sent"
    /\ DialIs(a, "ringing") \/ DialIs(a, "rejected")
    /\ UNCHANGED <<http, owed, events, connected, monitor, faults>>

\* The recipient answers: the dialplan starts, and a success response is due.
Answer(a) ==
    /\ dial[a] = "ringing"
    /\ DialIs(a, "up")
    /\ owed' = owed \cup {a}
    /\ UNCHANGED <<http, events, connected, monitor, faults>>

DoesNotAnswer(a) ==
    /\ dial[a] = "ringing"
    /\ DialIs(a, "over")
    /\ \E kind \in NotAnswered : Emit(kind, a)
    /\ UNCHANGED <<http, owed, connected, monitor, faults>>

Respond(a) ==
    /\ a \in owed
    /\ owed' = owed \ {a}
    /\ Emit("success", a)
    /\ UNCHANGED <<http, dial, connected, monitor, faults>>

\* A key of the recipient sends the dialplan to its opt-out, which then hangs up.
OptOut(a) ==
    /\ dial[a] = "up"
    /\ DialIs(a, "ending")
    /\ Emit("opt_out", a)
    /\ OvertakesOnlyAsFault(a)
    /\ UNCHANGED <<http, owed, connected, monitor>>

\* The channel to LiveKit or to an extension ends, with the Linkedid of the
\* recipient's channel, which goes on.
LegEnds(a) ==
    /\ dial[a] = "up"
    /\ DialIs(a, "ending")
    /\ Emit("hangup", a)
    /\ OvertakesOnlyAsFault(a)
    /\ UNCHANGED <<http, owed, connected, monitor>>

HangUp(a) ==
    /\ dial[a] \in {"up", "ending"}
    /\ DialIs(a, "over")
    /\ Emit("hangup", a)
    /\ OvertakesOnlyAsFault(a)
    /\ UNCHANGED <<http, owed, connected, monitor>>

------------------------------------------------------------------------------
(* The monitor: _listen, _handle and _callback. *)

Take(kinds) ==
    /\ handling = None
    /\ events # <<>> /\ Head(events).kind \in kinds
    /\ events' = Tail(events)

Sender == Head(events).attempt

\* The callback is sent and awaited.
Callback(status) ==
    /\ posted' = [posted EXCEPT ![Sender] = Append(@, status)]
    /\ handling' = Head(events)

HandleOptOut ==
    /\ Take({"opt_out"})
    /\ pending[Sender] # "absent"
    /\ Callback("do_not_call")
    /\ UNCHANGED <<http, asterisk, connected, pending, correlated, faults>>

\* Mutant: the channel's unique id is not kept.
HandleSuccess_uncorrelated ==
    /\ Take({"success"})
    /\ pending[Sender] # "absent"
    /\ pending' = [pending EXCEPT ![Sender] = "answered"]
    /\ Callback("answered")
    /\ UNCHANGED <<http, asterisk, connected, correlated, faults>>

HandleSuccess ==
    /\ Take({"success"})
    /\ pending[Sender] # "absent"
    /\ correlated' = correlated \cup {Sender}
    /\ pending' = [pending EXCEPT ![Sender] = "answered"]
    /\ Callback("answered")
    /\ UNCHANGED <<http, asterisk, connected, faults>>

HandleFailure ==
    /\ Take(NotAnswered)
    /\ pending[Sender] # "absent"
    /\ Callback(Head(events).kind)
    /\ UNCHANGED <<http, asterisk, connected, pending, correlated, faults>>

\* Mutant: the unique id is enough for a Hangup to be reported.
MayReportHangup_unregistered(a) == a \in correlated

MayReportHangup(a) == a \in correlated /\ pending[a] # "absent"

HangupStatus(a) == IF pending[a] = "answered" THEN {"completed"} ELSE NotAnswered

HandleHangup ==
    /\ Take({"hangup"})
    /\ MayReportHangup(Sender)
    /\ \E status \in HangupStatus(Sender) : Callback(status)
    /\ UNCHANGED <<http, asterisk, connected, pending, correlated, faults>>

\* The early returns.
Ignore ==
    /\ Take({"success", "opt_out", "hangup"} \cup NotAnswered)
    /\ IF Head(events).kind = "hangup"
       THEN ~MayReportHangup(Sender)
       ELSE pending[Sender] = "absent"
    /\ UNCHANGED <<http, asterisk, connected, monitor, faults>>

\* Mutant: the opt-out does not clear the event correlation.
CallbackEnds_keepsCorrelation ==
    /\ handling # None
    /\ handling' = None
    /\ IF handling.kind = "success" THEN UNCHANGED pending ELSE Unregister(handling.attempt)
    /\ correlated' = IF handling.kind = "hangup"
                     THEN correlated \ {handling.attempt} ELSE correlated
    /\ UNCHANGED <<http, asterisk, events, connected, posted, faults>>

\* Mutant: an opt-out is reported like a status that is not final.
CallbackEnds_optOutGoesOn ==
    /\ handling # None
    /\ handling' = None
    /\ IF handling.kind \in {"success", "opt_out"}
       THEN UNCHANGED pending ELSE Unregister(handling.attempt)
    /\ correlated' = IF handling.kind = "hangup"
                     THEN correlated \ {handling.attempt} ELSE correlated
    /\ UNCHANGED <<http, asterisk, events, connected, posted, faults>>

\* Delivered or not, the handler goes on: the attempt is forgotten once it is over.
CallbackEnds ==
    /\ handling # None
    /\ handling' = None
    /\ IF handling.kind = "success" THEN UNCHANGED pending ELSE Unregister(handling.attempt)
    /\ correlated' = IF handling.kind \in {"opt_out", "hangup"}
                     THEN correlated \ {handling.attempt} ELSE correlated
    /\ UNCHANGED <<http, asterisk, events, connected, posted, faults>>

\* Events in the buffer are still read after an end of file, not after a reset.
Disconnect ==
    /\ connected
    /\ Fault
    /\ connected' = FALSE
    /\ events' = <<>> \/ UNCHANGED events
    /\ UNCHANGED <<http, asterisk, monitor>>

\* _run listens again, two seconds later; pending and by_unique_id are kept.
Reconnect ==
    /\ ~connected
    /\ events = <<>> /\ handling = None
    /\ connected' = TRUE
    /\ UNCHANGED <<http, asterisk, events, monitor, faults>>

\* The process is restarted and has forgotten every attempt.
Restart ==
    /\ Fault
    /\ http' = [a \in Attempts |-> IF http[a] = "waiting" THEN "broken" ELSE http[a]]
    /\ connected' = FALSE
    /\ events' = <<>>
    /\ pending' = [a \in Attempts |-> "absent"]
    /\ correlated' = {}
    /\ handling' = None
    /\ UNCHANGED <<asterisk, posted>>

------------------------------------------------------------------------------

Handler(a) == Accepted(a) \/ Rejected(a) \/ ReplyLost(a) \/ ReplyCutOff(a)

Channel(a) ==
    \/ Originate(a) \/ Answer(a) \/ DoesNotAnswer(a)
    \/ OptOut(a) \/ LegEnds(a) \/ HangUp(a)

Monitor ==
    \/ HandleOptOut \/ HandleSuccess \/ HandleFailure \/ HandleHangup \/ Ignore
    \/ CallbackEnds \/ Reconnect

Next ==
    \/ \E a \in Attempts :
          Post(a) \/ PostRefused(a) \/ Handler(a) \/ Channel(a) \/ Respond(a)
    \/ Monitor
    \/ Disconnect
    \/ Restart

\* The AMI reply and the callback have timeouts, ringing too; a recipient hangs up
\* at some time; Asterisk sends the response that is due.
Fairness ==
    /\ \A a \in Attempts : WF_vars(Handler(a)) /\ WF_vars(Channel(a)) /\ WF_vars(Respond(a))
    /\ WF_vars(Monitor)

Spec == Init /\ [][Next]_vars /\ Fairness

------------------------------------------------------------------------------
(* Properties. *)

\* Every variable keeps to the values the code can give it.
TypeOK ==
    /\ http \in [Attempts -> Http]
    /\ dial \in [Attempts -> Dial]
    /\ owed \subseteq Attempts
    /\ events \in Seq(Event)
    /\ connected \in BOOLEAN
    /\ pending \in [Attempts -> {"absent", "waiting", "answered"}]
    /\ correlated \subseteq Attempts
    /\ handling \in Event \cup {None}
    /\ posted \in [Attempts -> Seq(Status)]
    /\ faults \in 0 .. MaxFaults

\* by_unique_id leads only to attempts that are answered and still registered, but
\* for those the handler has refused since: it does not grow with the calls made.
CorrelatedIsAnswered ==
    \A a \in correlated : pending[a] = "answered" \/ http[a] = "refused"

\* A refused attempt is not registered: the monitor, answering for the channel that
\* was dialed all the same, does not bring back the entry the handler removed.
RefusedIsForgotten ==
    \A a \in Attempts : http[a] = "refused" => pending[a] = "absent"

\* What makes the two properties above and ReportsLifecycle inductive.  An attempt
\* that is not posted yet, or not answered yet, has left no trace in the monitor.
Handles(a, kinds) == handling # None /\ handling.attempt = a /\ handling.kind \in kinds

Response == {"success"} \cup NotAnswered

Queued(a) == {i \in DOMAIN events : events[i].attempt = a /\ events[i].kind \in Response}

NothingBefore(a) ==
    /\ http[a] = "idle" => dial[a] = "none" /\ pending[a] = "absent"
    /\ dial[a] \in {"none", "sent", "rejected", "ringing"} =>
          /\ a \notin owed \cup correlated
          /\ pending[a] # "answered" /\ posted[a] = <<>>
          /\ handling # None => handling.attempt # a
          /\ \A i \in DOMAIN events : events[i].attempt # a

\* Asterisk responds once to an Originate, and until the monitor has read the
\* response the attempt is not answered.
OneResponse(a) ==
    /\ \A i, j \in Queued(a) : i = j
    /\ a \in owed => Queued(a) = {}
    /\ a \in owed \/ Queued(a) # {} => ~Handles(a, Response)
    /\ a \in owed \/ Queued(a) # {} \/ Handles(a, NotAnswered) =>
          a \notin correlated /\ pending[a] # "answered"

\* The entry of an attempt says what has been posted, but for the event whose
\* callback ends it.
EntrySaysWhatWasPosted(a) ==
    /\ pending[a] = "waiting" =>
          posted[a] = <<>> \/ Handles(a, {"opt_out", "hangup"} \cup NotAnswered)
    /\ pending[a] = "answered" =>
          posted[a] = <<"answered">> \/ Handles(a, {"opt_out", "hangup"})

IndInv ==
    /\ TypeOK /\ CorrelatedIsAnswered /\ RefusedIsForgotten
    /\ \A a \in Attempts : NothingBefore(a) /\ OneResponse(a) /\ EntrySaysWhatWasPosted(a)

\* The backend is told about an attempt in a legal order, with one final status and
\* nothing after it, whatever events are lost or come out of order, and however the
\* handler and the monitor interleave over the same entry.
ReportsLifecycle == Lifecycle!Spec

\* An attempt whose POST was answered with 502 is the backend's to retry: no callback
\* about it begins afterwards, even if Asterisk did place the call.
SilentOnceRefused ==
    [][\A a \in Attempts : http[a] = "refused" => posted'[a] = posted[a]]_vars

\* A call that was accepted is reported to its end, unless a fault intervenes: no
\* order of its events, and no work for other calls, makes the monitor miss it.
AcceptedIsReported ==
    \A a \in Attempts :
        http[a] = "accepted" ~>
            \/ Lifecycle!Successors(posted[a]) = {}
            \/ faults > 0
==============================================================================
