-------------------------- MODULE CallAnalysisProofs --------------------------
(* Proof that the completion of a call is usable and complete whatever the model *)
(* answers, for every limit and every length of the transcript.                  *)
EXTENDS CallAnalysis, TLAPS

Sources == {"absent", "fact", "model", "caller", "worker", "callback", "general_request"}

\* What an analysis is, whether it comes from the model or is the fallback.
AnalysisOK(a) ==
    /\ a.data \in [Keys -> Sources]
    /\ a.summary # ""
    /\ a.outcome # "no_action" => a.summary = "model"
    /\ a.outcome \in Actionable => a.data["request_type"] # "absent"

IndInv ==
    /\ InputFits
    /\ phase \in {"complete", "asked", "analysed", "sent"}
    /\ phase = "analysed" => AnalysisOK(analysis)
    /\ SummaryIsUsable
    /\ DataIsComplete

\* Two halves and the marker are no longer than the limit.
LEMMA FormattedFits == \A n \in Nat : FormattedLength(n) <= Limit
BY LimitAssumption DEF FormattedLength, Marker

LEMMA DataOK ==
  ASSUME NEW a \in Answer
  PROVE  /\ Data(a) \in [Keys -> Sources]
         /\ a.outcome \in Actionable => Data(a)["request_type"] # "absent"
<1>1. \A k \in Keys : Fact(a, k) \in Sources
  BY DEF Fact, Sources
<1>2. RequestType(a) \in Sources /\ CustomerPhone(a) \in Sources
  BY <1>1 DEF RequestType, CustomerPhone, Sources, Keys
<1>3. a.outcome \in Actionable => RequestType(a) # "absent"
  BY DEF RequestType, Actionable
<1>4. Data(a)["request_type"] = RequestType(a)
  BY DEF Data, NoData, Keys
<1>5. Data(a) \in [Keys -> Sources]
  BY <1>1, <1>2 DEF Data, NoData, Keys, Sources
<1> QED BY <1>3, <1>4, <1>5

LEMMA FallbackOK == ASSUME IndInv, Fallback, UNCHANGED input PROVE IndInv'
<1>1. AnalysisOK(analysis')
  BY DEF Fallback, Analysed, AnalysisOK, FallbackSummary, NoData, Sources, Actionable, Keys
<1> QED BY <1>1 DEF Fallback, Analysed, IndInv, InputFits, SummaryIsUsable, DataIsComplete

LEMMA AnalyzeStep == ASSUME IndInv, transcript.length \in Nat, Analyze PROVE IndInv'
<1>1. CASE NothingSaid
  <2>1. AnalysisOK(analysis')
    BY <1>1 DEF NothingSaid, Analysed, AnalysisOK, NoData, Sources, Actionable, Keys
  <2> QED BY <1>1, <2>1 DEF NothingSaid, Analysed, IndInv, InputFits, SummaryIsUsable,
                            DataIsComplete
<1>2. CASE NotConfigured
  BY <1>2, FallbackOK DEF NotConfigured
<1>3. CASE Ask
  BY <1>3, FormattedFits DEF Ask, IndInv, InputFits, SummaryIsUsable, DataIsComplete
<1>4. CASE AskFails
  BY <1>4, FallbackOK DEF AskFails
<1>5. ASSUME NEW a \in Answer, Answered(a) PROVE IndInv'
  <2>1. CASE Usable(a)
    <3>1. analysis' = [summary |-> "model", outcome |-> a.outcome, data |-> Data(a)]
      BY <1>5, <2>1 DEF Answered, Analysed, Usable
    <3>2. AnalysisOK(analysis')
      BY <3>1, DataOK DEF AnalysisOK
    <3> QED BY <1>5, <2>1, <3>2 DEF Answered, Analysed, IndInv, InputFits, SummaryIsUsable,
                                    DataIsComplete
  <2>2. CASE ~Usable(a)
    BY <1>5, <2>2, FallbackOK DEF Answered
  <2> QED BY <2>1, <2>2
<1> QED BY <1>1, <1>2, <1>3, <1>4, <1>5 DEF Analyze

LEMMA CompleteStep == ASSUME IndInv, Complete PROVE IndInv'
<1>1. AnalysisOK(analysis)
  BY DEF Complete, IndInv
<1> DEFINE reasoned == WithReason(analysis.data)
           data == WithPhone(reasoned, analysis.outcome)
<1>2. /\ reasoned \in [Keys -> Sources] /\ reasoned["completion_reason"] = "worker"
      /\ reasoned["request_type"] = analysis.data["request_type"]
  BY <1>1 DEF AnalysisOK, WithReason, Keys, Sources
<1>3. /\ data \in [Keys -> Sources] /\ data["completion_reason"] = "worker"
      /\ data["request_type"] = analysis.data["request_type"]
      /\ analysis.outcome \in Actionable /\ caller => data["customer_phone"] # "absent"
  BY <1>2 DEF WithPhone, Keys, Sources
<1>4. body' = [summary |-> analysis.summary, outcome |-> analysis.outcome, data |-> data]
  BY DEF Complete
<1>5. data["customer_phone"] # "blank" /\ data["request_type"] # "blank"
  <2>1. data["customer_phone"] \in Sources /\ data["request_type"] \in Sources
    BY <1>3 DEF Keys
  <2> QED BY <2>1 DEF Sources
<1> HIDE DEF data
<1>6. SummaryIsUsable'
  BY <1>1, <1>4 DEF SummaryIsUsable, AnalysisOK
<1>7. DataIsComplete'
  <2>1. caller' = caller
    BY DEF Complete, facts
  <2>2. /\ body'.data = data /\ body'.outcome = analysis.outcome
    BY <1>4
  <2>3. analysis.outcome \in Actionable => data["request_type"] \notin {"absent", "blank"}
    BY <1>1, <1>3, <1>5 DEF AnalysisOK
  <2> QED BY <1>3, <1>5, <2>1, <2>2, <2>3 DEF DataIsComplete
<1> QED BY <1>6, <1>7 DEF Complete, IndInv, InputFits

Lengthy == transcript.length \in Nat

\* What is sent to the model fits, and whatever comes back makes a complete body.
THEOREM Invariance == Spec => [](IndInv /\ Lengthy)
<1>1. Init => IndInv /\ Lengthy
  BY LimitAssumption, LengthsAssumption
     DEF Init, IndInv, Lengthy, InputFits, SummaryIsUsable, DataIsComplete
<1>2. IndInv /\ Lengthy /\ [Next]_vars => (IndInv /\ Lengthy)'
  <2> SUFFICES ASSUME IndInv, Lengthy, [Next]_vars PROVE IndInv' /\ Lengthy'
    OBVIOUS
  <2>1. Lengthy'
    <3>1. UNCHANGED facts
      BY DEF Next, Analyze, Complete, NothingSaid, NotConfigured, Ask, AskFails, Answered,
             Fallback, Analysed, vars
    <3> QED BY <3>1 DEF Lengthy, facts
  <2>2. CASE UNCHANGED vars
    BY <2>1, <2>2 DEF vars, facts, IndInv, AnalysisOK, InputFits, SummaryIsUsable, DataIsComplete
  <2>3. CASE Next
    BY <2>1, <2>3, AnalyzeStep, CompleteStep DEF Next, Lengthy
  <2> QED BY <2>1, <2>2, <2>3
<1> QED BY <1>1, <1>2, PTL DEF Spec

\* The input of the model is within summary_max_transcript_chars for every limit.
THEOREM InputIsBounded == Spec => []InputFits
BY Invariance, PTL DEF IndInv

\* Every completion has a summary, and an actionable outcome only with the model's.
THEOREM SummaryOfEveryCall == Spec => []SummaryIsUsable
BY Invariance, PTL DEF IndInv

\* Every completion says the worker's reason and, where someone has to act, how.
THEOREM DataOfEveryCall == Spec => []DataIsComplete
BY Invariance, PTL DEF IndInv
===============================================================================
