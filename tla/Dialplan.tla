------------------------------ MODULE Dialplan -------------------------------
(***************************************************************************)
(* The generated dialplan (render_dialplan of                              *)
(* src/deployment/asterisk/provisioner/app/renderer.py) as the program     *)
(* that Asterisk runs for one call.                                        *)
(*                                                                         *)
(* A call comes in from a provider, is an outbound campaign call that was  *)
(* answered, or is dialled on an employee's phone; its channel executes    *)
(* the lines of a context and extension one after the other, while the     *)
(* other party may hang up at any time and the provisioner may enable,     *)
(* disable, add or remove extensions and reload.                           *)
(*                                                                         *)
(* What is abstracted.  An extension is its company and number, and so is  *)
(* its route.  A keypad digit is the action the campaign gives it.  Of the *)
(* channel variables only TRANSFER_CONTEXT and the AI_... ids of a         *)
(* campaign call are kept; numbers, prompts and file names are left out.   *)
(* A REFER by the calling side ends this channel, as its hanging up does.  *)
(* Asterisk's own rules are external: what an application does, that a     *)
(* channel ends where it finds no line, that Dial without option g ends    *)
(* the caller when an answered callee hangs up, and that a dialled channel *)
(* inherits only the variables set with a leading underscore.              *)
(***************************************************************************)
EXTENDS Naturals, Sequences

CONSTANTS
    Companies,        \* tenants
    Numbers,          \* extension numbers, the same in every company
    EnableRecording,  \* settings.enable_recording
    None              \* no channel, no place, no key

ASSUME RecordingAssumption == EnableRecording \in BOOLEAN
ASSUME NoneAssumption == None \notin Companies

VARIABLES
    origin,     \* how the call came, and of which company it is
    enabled,    \* the extensions the dialplan has routes for
    alive,      \* the channel exists
    place,      \* the context, extension and line it executes
    return,     \* where Return goes
    variables,  \* the variables the channel has
    action,     \* AI_ACTION
    leg,        \* the channel that Dial has made
    recording,  \* MixMonitor: off, on or stopped
    uploads,    \* how often the uploader was started
    optedOut,   \* UserEvent AIOutboundOptOut was sent
    left        \* the caller or recipient hung up

vars == <<origin, enabled, alive, place, return, variables, action, leg,
          recording, uploads, optedOut, left>>

Extension == [company: Companies, number: Numbers]

\* Mutant: a route is the number alone, and the first company that has it answers.
extension_route_unscoped(c, n) ==
    [company |-> CHOOSE d \in Companies : TRUE, number |-> n]

\* The name of an extension in the transfer context holds its company.
extension_route(c, n) == [company |-> c, number |-> n]

\* A name in a context that is no extension of a company.
Named(name) == [company |-> None, number |-> name]

LiveKit == Named("livekit")

KeypadAction == {"hangup", "repeat", "ai", "opt_out"} \cup Numbers

------------------------------------------------------------------------------
(* The generated contexts. *)

Line(app, arg) == [app |-> app, arg |-> arg]

At(context, exten) == [context |-> context, exten |-> exten, line |-> 1]

ToLiveKit(last) ==
    IF EnableRecording
    THEN << Line("Set", "TRANSFER_CONTEXT"), Line("MixMonitor", None),
            Line("Dial", LiveKit), Line("StopMixMonitor", None), Line(last, None) >>
    ELSE << Line("Set", "TRANSFER_CONTEXT"), Line("Dial", LiveKit), Line(last, None) >>

GotoIf(actions, to) == Line("GotoIf", [actions |-> actions, to |-> to])

\* The labels ai and optout name lines 8 and 9 of extension s; the jumps go to the
\* extensions ai and optout of the context, which are not there.
Keypad ==
    << Line("Playback", None), Line("Read", None),
       GotoIf({"repeat"}, At("keypad", Named("s"))),
       GotoIf({"ai"}, At("keypad", Named("ai"))),
       GotoIf({"opt_out"}, At("keypad", Named("optout"))),
       GotoIf(Numbers, At("transfer", Named("route"))),
       Line("Hangup", None),
       GotoIf(KeypadAction, At("outbound_ai", Named("s"))),
       Line("UserEvent", None), Line("Hangup", None) >>

\* Only an active extension has a route, for transfers and for its colleagues.
Employee(e) == IF e \in enabled THEN <<Line("Dial", e), Line("Hangup", None)>> ELSE <<>>

Section(p) ==
    CASE p.context = "provider"    ->
            <<Line("Gosub", At("forward", Named("s"))), Line("Hangup", None)>>
      [] p.context = "forward"     -> ToLiveKit("Return")
      [] p.context = "outbound_ai" -> ToLiveKit("Hangup")
      [] p.context = "broadcast"   -> <<Line("Playback", None), Line("Hangup", None)>>
      [] p.context = "keypad" /\ p.exten = Named("s") -> Keypad
      [] p.context \in {"transfer", "tenant"} -> Employee(p.exten)
      [] OTHER                     -> <<>>

\* Where a call enters: the context of its PJSIP endpoint or of its Originate.
Entry(o) ==
    CASE o.kind = "inbound"  -> {At("provider", Named("number"))}
      [] o.kind = "employee" -> {At("tenant", extension_route(o.company, n)) : n \in Numbers}
      [] OTHER               -> {At(o.kind, Named("s"))}

Campaign == {"outbound_ai", "broadcast", "keypad"}

Init ==
    /\ origin \in [kind: {"inbound", "employee"} \cup Campaign, company: Companies]
    /\ enabled \in SUBSET Extension
    /\ alive = TRUE
    /\ place \in Entry(origin)
    /\ return = None
    /\ variables = IF origin.kind \in Campaign THEN {"AI_IDS"} ELSE {}
    /\ action = None
    /\ leg = None
    /\ recording = "off"
    /\ uploads = 0
    /\ optedOut = FALSE
    /\ left = FALSE

------------------------------------------------------------------------------
(* The channel executes a line. *)

AtLine == place.line <= Len(Section(place))

Current == Section(place)[place.line]

Executes(apps) == alive /\ leg = None /\ AtLine /\ Current.app \in apps

Following == [place EXCEPT !.line = @ + 1]

\* MixMonitor runs the uploader when it stops, with StopMixMonitor or the channel.
StopRecording ==
    /\ recording' = IF recording = "on" THEN "stopped" ELSE recording
    /\ uploads' = IF recording = "on" THEN uploads + 1 ELSE uploads

\* Mutant: StopMixMonitor runs the uploader and leaves the recording on.
StopMixMonitor_goesOn ==
    /\ Executes({"StopMixMonitor"})
    /\ uploads' = uploads + 1
    /\ place' = Following
    /\ UNCHANGED <<origin, enabled, alive, return, variables, action, leg, recording,
                   optedOut, left>>

StopMixMonitor ==
    /\ Executes({"StopMixMonitor"})
    /\ StopRecording
    /\ place' = Following
    /\ UNCHANGED <<origin, enabled, alive, return, variables, action, leg, optedOut, left>>

MixMonitor ==
    /\ Executes({"MixMonitor"})
    /\ recording' = "on"
    /\ place' = Following
    /\ UNCHANGED <<origin, enabled, alive, return, variables, action, leg, uploads,
                   optedOut, left>>

Ends ==
    /\ alive' = FALSE
    /\ leg' = None
    /\ StopRecording
    /\ UNCHANGED <<origin, enabled, place, return, variables, action, optedOut>>

\* Hangup, or no line to execute: the extension does not exist, does not exist any
\* more, or has ended.
Hangup ==
    /\ alive /\ leg = None
    /\ AtLine => Current.app = "Hangup"
    /\ Ends
    /\ UNCHANGED left

MovesTo(p) ==
    /\ place' = p
    /\ UNCHANGED <<origin, enabled, alive, leg, recording, uploads, left>>

\* Playback, and the UserEvent of an opt-out.
Performs ==
    /\ Executes({"Playback", "UserEvent"})
    /\ optedOut' = (optedOut \/ Current.app = "UserEvent")
    /\ MovesTo(Following)
    /\ UNCHANGED <<return, variables, action>>

\* A variable set with a double underscore.
Set ==
    /\ Executes({"Set"})
    /\ variables' = variables \cup {Current.arg}
    /\ MovesTo(Following)
    /\ UNCHANGED <<return, action, optedOut>>

\* A key with an action of the campaign, another key, or none in ten seconds.
Read ==
    /\ Executes({"Read"})
    /\ action' \in KeypadAction \cup {None}
    /\ MovesTo(Following)
    /\ UNCHANGED <<return, variables, optedOut>>

Gosub ==
    /\ Executes({"Gosub"})
    /\ return' = Following
    /\ MovesTo(Current.arg)
    /\ UNCHANGED <<variables, action, optedOut>>

Return ==
    /\ Executes({"Return"})
    /\ MovesTo(return)
    /\ UNCHANGED <<return, variables, action, optedOut>>

\* The action of a digit that stands for an extension is its route in the company.
Destination ==
    IF Current.arg.to.context = "transfer"
    THEN At("transfer", extension_route(origin.company, action))
    ELSE Current.arg.to

Jump ==
    /\ Executes({"GotoIf"})
    /\ MovesTo(IF action \in Current.arg.actions THEN Destination ELSE Following)
    /\ UNCHANGED <<return, variables, action, optedOut>>

------------------------------------------------------------------------------
(* Dial, and the channel it makes. *)

\* Mutant: TRANSFER_CONTEXT is set without the underscores.
Inherited_none(vs) == {}

\* TRANSFER_CONTEXT is set with underscores; the variables of Originate are not.
Inherited(vs) == vs \cap {"TRANSFER_CONTEXT"}

\* The headers of the channel to LiveKit are added on that channel: those of an
\* inbound call come as arguments of Gosub, those of a campaign from its variables,
\* and an id that is not there leaves its header empty.
Headers(vs) ==
    IF place.context = "forward" THEN {"X-Asterisk-LinkedID", "X-Phone-Connection-ID"}
    ELSE {"X-Outbound-Call"} \cup
         (IF "AI_IDS" \in vs THEN {"X-Asterisk-LinkedID", "X-Company-ID", "X-Call-ID"} ELSE {})

LegIs(l) ==
    /\ leg' = l
    /\ UNCHANGED <<origin, enabled, alive, return, variables, action, recording,
                   uploads, optedOut, left>>

Dial ==
    /\ Executes({"Dial"})
    /\ LegIs([to |-> Current.arg, bridged |-> FALSE, variables |-> Inherited(variables),
              headers |-> Headers(Inherited(variables))])
    /\ UNCHANGED place

LegAnswers ==
    /\ leg # None /\ ~leg.bridged
    /\ LegIs([leg EXCEPT !.bridged = TRUE])
    /\ UNCHANGED place

\* Mutant: Dial has no timeout.
LegFails_never == FALSE

\* Busy, not registered, or no answer in time: the next line is executed.
LegFails ==
    /\ leg # None /\ ~leg.bridged
    /\ LegIs(None)
    /\ place' = Following

LegHangsUp ==
    /\ leg # None /\ leg.bridged
    /\ Ends
    /\ UNCHANGED left

\* The context of a REFER: TRANSFER_CONTEXT of the channel that sends it, or the one
\* FreePBX sets for all.
TransferContext ==
    IF "TRANSFER_CONTEXT" \in leg.variables THEN "transfer" ELSE "from_internal"

\* A REFER by the dialled channel moves the caller; it is refused where the transfer
\* context has no such extension.
ReferTo(exten) ==
    /\ leg.bridged
    /\ LET p == At(TransferContext, exten)
       IN  /\ p.context = "transfer" => Section(p) # <<>>
           /\ place' = p
    /\ LegIs(None)

\* The agent refers to the route of an extension of the company, which the backend named.
AgentRefers(n) ==
    /\ leg # None /\ leg.to = LiveKit
    /\ ReferTo(extension_route(origin.company, n))

\* An employee's phone, which may refer as well, does so to a number as it is dialled.
EmployeeRefers(n) ==
    /\ leg # None /\ leg.to # LiveKit
    /\ ReferTo(Named(n))

------------------------------------------------------------------------------
(* The other party, and the provisioner. *)

LeavesCall ==
    /\ alive
    /\ left' = TRUE
    /\ Ends

Reload ==
    /\ alive
    /\ \E e \in Extension :
          enabled' = IF e \in enabled THEN enabled \ {e} ELSE enabled \cup {e}
    /\ UNCHANGED <<origin, alive, place, return, variables, action, leg, recording,
                   uploads, optedOut, left>>

Executing ==
    \/ Performs \/ Set \/ Read \/ Gosub \/ Return \/ Jump \/ Hangup
    \/ MixMonitor \/ StopMixMonitor \/ Dial \/ LegFails \/ LegHangsUp

Next ==
    \/ Executing
    \/ LegAnswers
    \/ \E n \in Numbers : AgentRefers(n) \/ EmployeeRefers(n)
    \/ LeavesCall
    \/ Reload

\* Lines are executed; Dial has a timeout, and a conversation ends at some time.
Spec == Init /\ [][Next]_vars /\ WF_vars(Executing)

------------------------------------------------------------------------------
(* Properties. *)

\* A call that was recorded is uploaded once when it is over, and never twice, whoever
\* hangs up, whether or not LiveKit answered, and however often it was transferred.
UploadedOnce ==
    /\ uploads <= 1
    /\ ~alive => uploads = IF recording = "off" THEN 0 ELSE 1

\* A call reaches only extensions of its own company: by REFER, by a key, or from a
\* colleague's phone, although all companies share one transfer context.
StaysInCompany == leg # None /\ leg.to # LiveKit => leg.to.company = origin.company

ForTheAgent == {"inbound", "outbound_ai"}

\* A call that came in for the agent or was placed for it never enters the dialplan of
\* FreePBX: neither a REFER of the agent leads there, nor one of an employee it has
\* been transferred to.  Calls between employees, and those a key has transferred, may.
StaysGenerated == origin.kind \in ForTheAgent => place.context # "from_internal"

(* Why the three hold: what is known of a channel at each place.  The parts are    *)
(* inductive together.                                                             *)

ToAI == {"forward", "outbound_ai"}

\* The place is in a generated context, in an extension of the right company, or is
\* one that a REFER without TRANSFER_CONTEXT has led to.
PlaceOK ==
    /\ place.context \in {"provider", "tenant", "transfer", "from_internal"} \cup ToAI \cup Campaign
    /\ place.line \in Nat \ {0}
    /\ place.context \in {"transfer", "tenant"} =>
          /\ place.exten \in Extension
          /\ place.exten.company = origin.company
    /\ place.context = "forward" =>
          /\ return.context = "provider" /\ return.exten = Named("number")
          /\ return.line = 2
    /\ place.context = "provider" => place.exten = Named("number")
    /\ origin.kind \in ForTheAgent =>
          /\ place.context \in {"provider", "transfer"} \cup ToAI
          /\ place.context = "transfer" => "TRANSFER_CONTEXT" \in variables

\* Whoever may dial LiveKit has set TRANSFER_CONTEXT, and the leg inherited it.
LegOK ==
    /\ place.context \in ToAI /\ place.line > 1 => "TRANSFER_CONTEXT" \in variables
    /\ leg # None =>
          /\ alive
          /\ \/ /\ leg.to = LiveKit
                /\ place.context \in ToAI /\ place.line > 1
                /\ EnableRecording => place.line > 2
                /\ "TRANSFER_CONTEXT" \in leg.variables
             \/ /\ leg.to \in Extension /\ leg.to.company = origin.company
                /\ place.context \in {"transfer", "tenant"}
                /\ "TRANSFER_CONTEXT" \in variables => "TRANSFER_CONTEXT" \in leg.variables

\* A channel that was recorded has passed the line that starts a recording, for good.
RecordingOK ==
    /\ recording \in {"off", "on", "stopped"}
    /\ uploads = IF recording = "stopped" THEN 1 ELSE 0
    /\ ~alive => recording # "on"
    /\ recording # "off" =>
          \/ ~alive
          \/ place.context \in ToAI /\ place.line > 2
          \/ place.context = "provider" /\ place.line > 1
          \/ place.context \in {"transfer", "from_internal"}

IndInv ==
    /\ origin \in [kind: {"inbound", "employee"} \cup Campaign, company: Companies]
    /\ action \in KeypadAction \cup {None}
    /\ enabled \subseteq Extension
    /\ PlaceOK
    /\ LegOK
    /\ RecordingOK

\* A channel ends, unless the recipient asks for ever to hear the message again.
EveryChannelEnds == <>(~alive) \/ []<>(action = "repeat")

\* README of deployment/asterisk: "Keypad campaigns can repeat, bridge to AI, transfer
\* to a generated tenant extension route, hang up, or emit an opt-out event": a
\* recipient who presses the key for it and stays on the line is opted out.
OptOutIsSent == action = "opt_out" /\ ~alive /\ ~left => optedOut

\* README of deployment/asterisk: the context of an AI campaign "adds tenant/campaign
\* headers": the channel to LiveKit carries them.
CampaignHeadersAreSent ==
    leg # None /\ leg.to = LiveKit /\ origin.kind \in Campaign =>
        "X-Company-ID" \in leg.headers
==============================================================================
