--------------------------- MODULE DialplanProofs ----------------------------
(* For every set of companies, numbers and campaigns: recordings are uploaded      *)
(* once, and calls stay in their company and in the generated dialplan.            *)
EXTENDS Dialplan, TLAPS

\* The lines of the generated dialplan that matter: where each application is found.
Lines ==
    /\ Current.app = "MixMonitor" =>
          place.context \in ToAI /\ place.line = 2 /\ EnableRecording
    /\ Current.app = "StopMixMonitor" => place.context \in ToAI /\ place.line > 2
    /\ Current.app = "Set" =>
          place.context \in ToAI /\ place.line = 1 /\ Current.arg = "TRANSFER_CONTEXT"
    /\ Current.app = "Dial" =>
          \/ /\ place.context \in ToAI /\ Current.arg = LiveKit
             /\ place.line > IF EnableRecording THEN 2 ELSE 1
          \/ place.context \in {"transfer", "tenant"} /\ Current.arg = place.exten
    /\ Current.app = "Gosub" =>
          place.context = "provider" /\ place.line = 1
          /\ Current.arg = At("forward", Named("s"))
    /\ Current.app = "Return" => place.context = "forward"
    /\ Current.app = "GotoIf" =>
          /\ place.context = "keypad"
          /\ Current.arg.to.line = 1
          /\ \/ Current.arg.to.context \in {"keypad", "outbound_ai"}
             \/ Current.arg.to.context = "transfer" /\ Current.arg.actions = Numbers
    /\ Current.app \in {"Playback", "Read", "UserEvent"} =>
          place.context \in {"broadcast", "keypad"}

LEMMA WhereLines == ASSUME PlaceOK, AtLine PROVE Lines
<1> DEFINE p == place
<1>1. CASE p.context = "provider"
  <2>1. Section(place) = <<Line("Gosub", At("forward", Named("s"))), Line("Hangup", None)>>
    BY <1>1 DEF Section
  <2> QED BY <1>1, <2>1 DEF Lines, AtLine, Current, Line, PlaceOK, ToAI, Campaign
<1>2. CASE p.context \in ToAI
  <2> DEFINE last == IF p.context = "forward" THEN "Return" ELSE "Hangup"
  <2>1. Section(place) = ToLiveKit(last)
    BY <1>2 DEF Section, ToAI
  <2>2. CASE EnableRecording
    <3>1. Section(place) = << Line("Set", "TRANSFER_CONTEXT"), Line("MixMonitor", None),
                Line("Dial", LiveKit), Line("StopMixMonitor", None), Line(last, None) >>
      BY <2>1, <2>2 DEF ToLiveKit
    <3> QED BY <1>2, <2>2, <3>1 DEF Lines, AtLine, Current, Line, PlaceOK, ToAI, Campaign
  <2>3. CASE ~EnableRecording
    <3>1. Section(place) =
            << Line("Set", "TRANSFER_CONTEXT"), Line("Dial", LiveKit), Line(last, None) >>
      BY <2>1, <2>3 DEF ToLiveKit
    <3> QED BY <1>2, <2>3, <3>1 DEF Lines, AtLine, Current, Line, PlaceOK, ToAI, Campaign
  <2> QED BY <2>2, <2>3
<1>3. CASE p.context = "broadcast"
  <2>1. Section(place) = <<Line("Playback", None), Line("Hangup", None)>>
    BY <1>3 DEF Section
  <2> QED BY <1>3, <2>1 DEF Lines, AtLine, Current, Line, PlaceOK, ToAI, Campaign
<1>4. CASE p.context = "keypad"
  <2>1. Section(place) = IF p.exten = Named("s") THEN Keypad ELSE <<>>
    BY <1>4 DEF Section
  <2>2. p.exten = Named("s")
    BY <2>1 DEF AtLine, PlaceOK
  <2>3. place.line \in 1 .. 10 /\ Current = Keypad[place.line]
    BY <2>1, <2>2 DEF AtLine, PlaceOK, Keypad, Current
  <2> QED BY <1>4, <2>3 DEF Lines, Keypad, Line, GotoIf, At, ToAI
<1>5. CASE p.context \in {"transfer", "tenant"}
  <2>1. Section(place) = IF p.exten \in enabled
                         THEN <<Line("Dial", p.exten), Line("Hangup", None)>> ELSE <<>>
    BY <1>5 DEF Section, Employee
  <2>2. p.exten \in enabled
    BY <2>1 DEF AtLine, PlaceOK
  <2> QED BY <1>5, <2>1, <2>2 DEF Lines, AtLine, Current, Line, PlaceOK, ToAI, Campaign
<1>6. CASE p.context = "from_internal"
  <2>1. Section(place) = <<>>
    BY <1>6 DEF Section
  <2> QED BY <2>1 DEF AtLine, PlaceOK
<1> QED BY <1>1, <1>2, <1>3, <1>4, <1>5, <1>6 DEF PlaceOK, Campaign, ToAI

LEMMA InitIndInv == Init => IndInv
<1> SUFFICES ASSUME Init PROVE IndInv
  OBVIOUS
<1>1. PlaceOK
  BY DEF Init, PlaceOK, Entry, At, Campaign, ToAI, ForTheAgent, extension_route, Extension
<1> QED BY <1>1, NoneAssumption DEF Init, KeypadAction, IndInv, LegOK, RecordingOK, Entry, At, Campaign, ToAI

\* What the steps that execute a line keep.
LEMMA LineStep ==
    ASSUME IndInv, Performs \/ Set \/ Read \/ Gosub \/ Return \/ Jump PROVE IndInv'
<1> USE DEF IndInv
<1>1. alive /\ leg = None /\ Lines
  BY WhereLines DEF Performs, Set, Read, Gosub, Return, Jump, Executes
<1>2. CASE Performs
  BY <1>1, <1>2 DEF Performs, Executes, Lines, MovesTo, Following, PlaceOK, LegOK, RecordingOK, ForTheAgent, ToAI
<1>3. CASE Set
  BY <1>1, <1>3 DEF Set, Executes, Lines, MovesTo, Following, PlaceOK, LegOK, RecordingOK, ForTheAgent, ToAI
<1>4. CASE Read
  BY <1>1, <1>4 DEF Read, Executes, Lines, MovesTo, Following, PlaceOK, LegOK, RecordingOK, ForTheAgent, ToAI
<1>5. CASE Gosub
  BY <1>1, <1>5 DEF Gosub, Executes, Lines, MovesTo, Following, PlaceOK, LegOK, RecordingOK, ForTheAgent, ToAI, At
<1>6. CASE Return
  BY <1>1, <1>6 DEF Return, Executes, Lines, MovesTo, PlaceOK, LegOK, RecordingOK, ForTheAgent, ToAI
<1>7. CASE Jump
  <2>1. CASE action \notin Current.arg.actions
    BY <1>1, <1>7, <2>1 DEF Jump, Executes, Lines, MovesTo, Following, PlaceOK, LegOK, RecordingOK, ForTheAgent, ToAI
  <2>2. CASE action \in Current.arg.actions /\ Current.arg.to.context = "transfer"
    <3>1. place' = At("transfer", extension_route(origin.company, action)) /\ action \in Numbers
      BY <1>1, <1>7, <2>2 DEF Jump, Executes, Lines, MovesTo, Destination
    <3>2. place'.exten \in Extension /\ place'.exten.company = origin.company
      BY <3>1 DEF At, extension_route, Extension
    <3> QED BY <1>1, <1>7, <3>1, <3>2
         DEF Jump, Executes, Lines, MovesTo, PlaceOK, LegOK, RecordingOK, ForTheAgent, ToAI, At
  <2>3. CASE action \in Current.arg.actions /\ Current.arg.to.context # "transfer"
    BY <1>1, <1>7, <2>3
       DEF Jump, Executes, Lines, MovesTo, Destination, PlaceOK, LegOK, RecordingOK, ForTheAgent, ToAI, At
  <2> QED BY <2>1, <2>2, <2>3
<1> QED BY <1>2, <1>3, <1>4, <1>5, <1>6, <1>7

\* What the recording lines and the end of a channel keep.
LEMMA RecordingStep ==
    ASSUME IndInv, MixMonitor \/ StopMixMonitor \/ Hangup \/ LegHangsUp \/ LeavesCall
    PROVE IndInv'
<1> USE DEF IndInv
<1>1. CASE MixMonitor
  <2>1. leg = None /\ Lines
    BY <1>1, WhereLines DEF MixMonitor, Executes
  <2> QED BY <1>1, <2>1
       DEF MixMonitor, Executes, Lines, Following, PlaceOK, LegOK, RecordingOK, ForTheAgent, ToAI
<1>2. CASE StopMixMonitor
  <2>1. leg = None /\ Lines
    BY <1>2, WhereLines DEF StopMixMonitor, Executes
  <2> QED BY <1>2, <2>1
       DEF StopMixMonitor, StopRecording, Executes, Lines, Following, PlaceOK, LegOK, RecordingOK, ForTheAgent, ToAI
<1>3. CASE Hangup \/ LegHangsUp \/ LeavesCall
  BY <1>3 DEF Hangup, LegHangsUp, LeavesCall, Ends, StopRecording, PlaceOK, LegOK, RecordingOK, ForTheAgent
<1> QED BY <1>1, <1>2, <1>3

\* What Dial and the dialled channel keep.
LEMMA LegStep ==
    ASSUME IndInv, Dial \/ LegAnswers \/ LegFails
                   \/ \E n \in Numbers : AgentRefers(n) \/ EmployeeRefers(n)
    PROVE IndInv'
<1> USE DEF IndInv
<1>1. CASE Dial
  <2>1. alive /\ leg = None /\ Lines
    BY <1>1, WhereLines DEF Dial, Executes
  <2> QED BY <1>1, <2>1, RecordingAssumption
       DEF Dial, Executes, Lines, LegIs, Inherited, PlaceOK, LegOK, RecordingOK, ForTheAgent, ToAI
<1>2. CASE LegAnswers
  BY <1>2 DEF LegAnswers, LegIs, PlaceOK, LegOK, RecordingOK, ForTheAgent
<1>3. CASE LegFails
  <2>1. /\ place'.context = place.context /\ place'.line = place.line + 1
        /\ place'.exten = place.exten
    BY <1>3 DEF LegFails, Following
  <2>2. UNCHANGED <<origin, enabled, alive, return, variables, action, recording, uploads>> /\ leg' = None
    BY <1>3 DEF LegFails, LegIs
  <2>3. PlaceOK'
    BY <2>1, <2>2 DEF PlaceOK
  <2>4. LegOK'
    BY <1>3, <2>1, <2>2 DEF LegFails, LegOK, PlaceOK, ToAI
  <2>5. RecordingOK'
    BY <1>3, <2>1, <2>2 DEF LegFails, LegOK, RecordingOK, PlaceOK, ToAI
  <2> QED BY <2>2, <2>3, <2>4, <2>5
<1>4. ASSUME NEW n \in Numbers, AgentRefers(n) PROVE IndInv'
  <2>1. leg.to = LiveKit /\ leg # None /\ ReferTo(extension_route(origin.company, n))
    BY <1>4 DEF AgentRefers
  <2>2. leg.to \notin Extension
    BY <2>1, NoneAssumption DEF LiveKit, Named, Extension
  <2>3. place' = At("transfer", extension_route(origin.company, n))
    <3>1. "TRANSFER_CONTEXT" \in leg.variables
      BY <2>1, <2>2 DEF LegOK
    <3> QED BY <2>1, <3>1 DEF ReferTo, TransferContext
  <2>4. place'.exten \in Extension /\ place'.exten.company = origin.company
    BY <2>3 DEF At, extension_route, Extension
  <2>5. place.context \in ToAI /\ place.line > 1
    BY <2>1, <2>2 DEF LegOK
  <2>6. UNCHANGED <<origin, enabled, alive, return, variables, action, recording, uploads>>
        /\ leg' = None
    BY <2>1 DEF ReferTo, LegIs
  <2>7. PlaceOK'
    BY <2>3, <2>4, <2>5, <2>6 DEF PlaceOK, LegOK, ForTheAgent, At, ToAI
  <2> QED BY <2>3, <2>6, <2>7 DEF LegOK, RecordingOK, At, ToAI
<1>5. ASSUME NEW n \in Numbers, EmployeeRefers(n) PROVE IndInv'
  <2>1. leg # None /\ leg.to # LiveKit /\ ReferTo(Named(n))
    BY <1>5 DEF EmployeeRefers
  <2>2. "TRANSFER_CONTEXT" \in variables => "TRANSFER_CONTEXT" \in leg.variables
    BY <2>1 DEF LegOK
  <2>3. place.context \in {"transfer", "tenant"}
    BY <2>1 DEF LegOK
  <2>4. Section(At("transfer", Named(n))) = <<>>
    <3>1. Named(n) \notin enabled
      BY NoneAssumption DEF Named, Extension
    <3> QED BY <3>1 DEF Section, At, Employee
  <2>5. place' = At("from_internal", Named(n)) /\ "TRANSFER_CONTEXT" \notin leg.variables
    BY <2>1, <2>4 DEF ReferTo, TransferContext, At
  <2>6. UNCHANGED <<origin, enabled, alive, return, variables, action, recording, uploads>>
        /\ leg' = None
    BY <2>1 DEF ReferTo, LegIs
  <2>7. origin.kind \notin ForTheAgent
    BY <2>2, <2>3, <2>5 DEF PlaceOK, ToAI
  <2>8. PlaceOK'
    BY <2>5, <2>6, <2>7 DEF PlaceOK, At, ToAI
  <2> QED BY <2>3, <2>5, <2>6, <2>8 DEF LegOK, RecordingOK, At, ToAI
<1> QED BY <1>1, <1>2, <1>3, <1>4, <1>5

LEMMA NextIndInv == IndInv /\ [Next]_vars => IndInv'
<1> SUFFICES ASSUME IndInv, [Next]_vars PROVE IndInv'
  OBVIOUS
<1>1. CASE Reload
  BY <1>1 DEF Reload, IndInv, PlaceOK, LegOK, RecordingOK, ForTheAgent
<1>2. CASE UNCHANGED vars
  BY <1>2 DEF vars, IndInv, PlaceOK, LegOK, RecordingOK, ForTheAgent
<1> QED BY <1>1, <1>2, LineStep, RecordingStep, LegStep DEF Next, Executing

\* The parts of the invariant, for every call.
THEOREM Invariance == Spec => []IndInv
<1> QED BY InitIndInv, NextIndInv, PTL DEF Spec

\* A recorded call is uploaded once when it is over and never twice, on every way
\* through the dialplan.
THEOREM OneUpload == Spec => []UploadedOnce
<1>1. IndInv => UploadedOnce
  BY DEF IndInv, RecordingOK, UploadedOnce
<1> QED BY <1>1, Invariance, PTL

\* A call reaches no extension of another company, for any number of companies that
\* share the transfer context.
THEOREM OneCompany == Spec => []StaysInCompany
<1>1. IndInv => StaysInCompany
  BY DEF IndInv, LegOK, StaysInCompany
<1> QED BY <1>1, Invariance, PTL

\* A call for the agent never enters FreePBX's own dialplan, whoever refers it on.
THEOREM AgentCallsStay == Spec => []StaysGenerated
<1>1. IndInv => StaysGenerated
  BY DEF IndInv, PlaceOK, StaysGenerated, ToAI
<1> QED BY <1>1, Invariance, PTL
==============================================================================
