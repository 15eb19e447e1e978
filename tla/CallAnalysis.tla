----------------------------- MODULE CallAnalysis -----------------------------
(***************************************************************************)
(* What is stored with a call when it is completed: the analysis of its    *)
(* transcript by a language model (summary_service.py), the fallback when  *)
(* there is none, and the body of the completion made from either          *)
(* (call_service.py).                                                      *)
(*                                                                         *)
(* What is abstracted.  A transcript is who has spoken in it and how long  *)
(* it is as JSON.  A string of the model is "", blank, a text, or longer   *)
(* than allowed; a value that is stored is known by where it comes from.   *)
(* customer_name is left out: it is treated as customer_phone, but for the *)
(* caller's own.  The model is external and answers what it likes.         *)
(***************************************************************************)
EXTENDS Integers

CONSTANTS
    Limit,    \* summary_max_transcript_chars
    Lengths,  \* lengths of a transcript that is not empty
    None      \* nothing yet

ASSUME LimitAssumption == Limit \in Nat /\ Limit >= 1000
ASSUME LengthsAssumption == Lengths \subseteq Nat \ {0}

VARIABLES
    phase,       \* where CallLifecycleService.complete is
    transcript,  \* context.transcript
    caller,      \* the caller's number is known
    configured,  \* there is an OpenAI key
    input,       \* the length of what is sent to the model
    analysis,    \* the CallAnalysis
    body         \* the CallComplete

facts == <<transcript, caller, configured>>
vars == <<phase, facts, input, analysis, body>>

\* The keys of extracted_data that the code writes, which a fact may have as well.
Keys == {"completion_reason", "customer_phone", "request_type"}

Outcomes ==
    {"booking_created", "information_request", "callback_requested", "no_action", "failed"}

Actionable == {"booking_created", "callback_requested"}

NoData == [k \in Keys |-> "absent"]

Answer ==
    [summary : {"", "blank", "text", "long"}, outcome : Outcomes,
     request_type : {"", "text"}, customer_phone : {"", "blank", "text"},
     facts : [Keys -> {"absent", "blank", "text"}]]

Init ==
    /\ phase = "complete"
    /\ \E speakers \in SUBSET {"caller", "assistant"} :
          \E n \in Lengths :
             transcript = [speakers |-> speakers, length |-> IF speakers = {} THEN 0 ELSE n]
    /\ caller \in BOOLEAN /\ configured \in BOOLEAN
    /\ input = 0
    /\ analysis = None /\ body = None

------------------------------------------------------------------------------
(* OpenAICallAnalyzer *)

Marker == 26   \* "\n[... middle omitted ...]\n"

\* Mutant: nothing is set aside for the marker.
FormattedLength_noMarker(n) ==
    IF n <= Limit THEN n ELSE 2 * (Limit \div 2) + Marker

\* Beyond the limit, a half from each end with the marker between.
FormattedLength(n) ==
    IF n <= Limit THEN n ELSE 2 * ((Limit - 45) \div 2) + Marker

\* Mutant: a fact with a blank value is kept.
Fact_blank(a, k) == IF a.facts[k] # "absent" THEN a.facts[k] ELSE "absent"

Fact(a, k) == IF a.facts[k] = "text" THEN "fact" ELSE "absent"

RequestType(a) ==
    CASE a.outcome = "callback_requested" -> "callback"
      [] a.outcome = "booking_created" ->
            IF a.request_type = "text" THEN "model" ELSE "general_request"
      [] OTHER -> Fact(a, "request_type")

CustomerPhone(a) == IF a.customer_phone = "text" THEN "model" ELSE Fact(a, "customer_phone")

Data(a) ==
    [NoData EXCEPT !["completion_reason"] = Fact(a, "completion_reason"),
                   !["request_type"] = RequestType(a),
                   !["customer_phone"] = CustomerPhone(a)]

\* Mutant: the summary is not validated again after it was stripped.
Usable_unstripped(a) == a.summary \in {"text", "blank"}

\* _StructuredCallAnalysis takes 1 to 1000 characters, CallAnalysis as many stripped ones.
Usable(a) == a.summary = "text"

Analysed(summary, outcome, data) ==
    /\ analysis' = [summary |-> summary, outcome |-> outcome, data |-> data]
    /\ phase' = "analysed"
    /\ UNCHANGED <<facts, body>>

\* The words of the caller, if there are any.
FallbackSummary ==
    IF "caller" \in transcript.speakers THEN "caller's words" ELSE "no caller message"

Fallback == Analysed(FallbackSummary, "no_action", NoData)

NothingSaid ==
    /\ phase = "complete" /\ transcript.speakers = {}
    /\ Analysed("no conversation", "no_action", NoData)
    /\ UNCHANGED input

NotConfigured ==
    /\ phase = "complete" /\ transcript.speakers # {} /\ ~configured
    /\ Fallback
    /\ UNCHANGED input

Ask ==
    /\ phase = "complete" /\ transcript.speakers # {} /\ configured
    /\ input' = FormattedLength(transcript.length)
    /\ phase' = "asked"
    /\ UNCHANGED <<facts, analysis, body>>

\* A timeout, an HTTP error, an answer without text or one that is not the JSON asked for.
AskFails ==
    /\ phase = "asked"
    /\ Fallback
    /\ UNCHANGED input

Answered(a) ==
    /\ phase = "asked"
    /\ IF Usable(a)
       THEN Analysed(IF a.summary = "text" THEN "model" ELSE "", a.outcome, Data(a))
       ELSE Fallback
    /\ UNCHANGED input

------------------------------------------------------------------------------
(* CallLifecycleService *)

\* Mutant: the facts of the model are merged over the worker's reason.
WithReason_factsWin(data) ==
    [data EXCEPT !["completion_reason"] = IF @ = "absent" THEN "worker" ELSE @]

WithReason(data) == [data EXCEPT !["completion_reason"] = "worker"]

\* Who is to be called back is the caller, if the model has found nobody else.
WithPhone(data, outcome) ==
    IF outcome \in Actionable /\ data["customer_phone"] = "absent" /\ caller
    THEN [data EXCEPT !["customer_phone"] = "caller"]
    ELSE data

Complete ==
    /\ phase = "analysed"
    /\ body' = [summary |-> analysis.summary, outcome |-> analysis.outcome,
                data |-> WithPhone(WithReason(analysis.data), analysis.outcome)]
    /\ phase' = "sent"
    /\ UNCHANGED <<facts, input, analysis>>

------------------------------------------------------------------------------

Analyze ==
    \/ NothingSaid \/ NotConfigured \/ Ask
    \/ AskFails \/ \E a \in Answer : Answered(a)

Next == Analyze \/ Complete

Spec == Init /\ [][Next]_vars

------------------------------------------------------------------------------
(* Properties. *)

\* What is sent to the model never exceeds the configured size, marker included.
InputFits == input <= Limit

\* Whatever the model answers, the completion has a summary, and an outcome other than
\* no_action only with the summary that the model gave it with.
SummaryIsUsable ==
    phase = "sent" =>
        /\ body.summary # ""
        /\ body.outcome # "no_action" => body.summary = "model"

\* Whatever facts the model makes up, the reason of the completion is the worker's, and
\* a call that someone has to act on says what is asked for and, if the caller's number
\* is known, whom to call.
DataIsComplete ==
    phase = "sent" =>
        /\ body.data["completion_reason"] = "worker"
        /\ body.outcome \in Actionable =>
              /\ body.data["request_type"] \notin {"absent", "blank"}
              /\ body.data["customer_phone"] # "blank"
              /\ caller => body.data["customer_phone"] # "absent"
===============================================================================
