------------------------- MODULE AbstractProvisioner -------------------------
(***************************************************************************)
(* What the Asterisk provisioner promises to the backend that calls it: it *)
(* behaves as one atomic map from connection and extension ids to their    *)
(* specification.  A request takes effect at one instant between its       *)
(* arrival and its answer, and not at all when it is answered with an      *)
(* error, with one exception: a PUT or GET of a connection ends with its   *)
(* status, which reads the map again and may ask Asterisk, and which can   *)
(* fail after the effect.  A request that never gets an answer (the service crashed)  *)
(* took effect once or not at all.                                         *)
(*                                                                         *)
(* Provisioner.tla is the service as it is written; it implements this.    *)
(***************************************************************************)
CONSTANTS
    Clients,            \* concurrent HTTP requests of the backend
    ConnIds,            \* phone connection ids
    ExtIds,             \* extension ids
    Specs,              \* specifications a PUT may carry
    Absent,             \* "no entry under this id"
    RegistrationSpecs,  \* the connection specs whose status asks Asterisk
    DisabledSpecs       \* the extension specs with enabled = false

Keys == ConnIds \cup ExtIds

Config == [Keys -> Specs \cup {Absent}]

Request == [op: {"put"}, key: Keys, spec: Specs]
             \cup [op: {"delete", "get"}, key: Keys, spec: {Absent}]

Code == {"none", "ok", "not_found", "error", "lost"}

Response == [code: Code, spec: Specs \cup {Absent}]

Answer(code, s) == [code |-> code, spec |-> s]

NoAnswer == Answer("none", Absent)

\* A PUT or GET of a connection is answered with its status.
ReadsBack(r) == r.op # "delete" /\ r.key \in ConnIds

\* The status reply of a connection in registration mode needs an AMI command.
Queries(r, s) == ReadsBack(r) /\ s \in RegistrationSpecs

VARIABLES
    store,   \* the map
    phase,   \* per client: no request, waiting, or done but not yet answered
    req,     \* per client: its last request
    resp     \* per client: the answer to it, once phase is "idle" again

vars == <<store, phase, req, resp>>

Phase == {"idle", "waiting", "answering"}

Init ==
    /\ store = [k \in Keys |-> Absent]
    /\ phase = [c \in Clients |-> "idle"]
    /\ req \in [Clients -> Request]
    /\ resp = [c \in Clients |-> NoAnswer]

Invoke(c) ==
    /\ phase[c] = "idle"
    /\ \E r \in Request : req' = [req EXCEPT ![c] = r]
    /\ phase' = [phase EXCEPT ![c] = "waiting"]
    /\ resp' = [resp EXCEPT ![c] = NoAnswer]
    /\ UNCHANGED store

Complete(c, s, next) ==
    /\ resp' = [resp EXCEPT ![c] = Answer("ok", s)]
    /\ phase' = [phase EXCEPT ![c] = next]
    /\ UNCHANGED req

Write(c) ==
    /\ phase[c] = "waiting"
    /\ \/ req[c].op = "put"
       \/ req[c].op = "delete" /\ store[req[c].key] # Absent
    /\ store' = [store EXCEPT ![req[c].key] = req[c].spec]
    /\ Complete(c, req[c].spec, "answering")

Read(c) ==
    /\ phase[c] = "waiting"
    /\ req[c].op = "get"
    /\ store[req[c].key] # Absent
    /\ Complete(c, store[req[c].key],
                IF Queries(req[c], store[req[c].key]) THEN "answering" ELSE "idle")
    /\ UNCHANGED store

NotFound(c) ==
    /\ phase[c] = "waiting"
    /\ req[c].op \in {"get", "delete"}
    /\ store[req[c].key] = Absent
    /\ resp' = [resp EXCEPT ![c] = Answer("not_found", Absent)]
    /\ phase' = [phase EXCEPT ![c] = "idle"]
    /\ UNCHANGED <<store, req>>

\* An error answer to a request that was still waiting: no effect, now or later.
Fail(c) ==
    /\ phase[c] = "waiting"
    /\ resp' = [resp EXCEPT ![c] = Answer("error", Absent)]
    /\ phase' = [phase EXCEPT ![c] = "idle"]
    /\ UNCHANGED <<store, req>>

\* The answer of a request that has taken effect.
Reply(c) ==
    /\ phase[c] = "answering"
    /\ phase' = [phase EXCEPT ![c] = "idle"]
    /\ \/ UNCHANGED resp
       \/ ReadsBack(req[c]) /\ resp' = [resp EXCEPT ![c] = Answer("error", Absent)]
    /\ UNCHANGED <<store, req>>

\* The service dies: every open request loses its answer.
Crash ==
    /\ phase' = [c \in Clients |-> "idle"]
    /\ resp' = [c \in Clients |->
                  IF phase[c] = "idle" THEN resp[c] ELSE Answer("lost", Absent)]
    /\ UNCHANGED <<store, req>>

Next ==
    \/ Crash
    \/ \E c \in Clients :
          Invoke(c) \/ Write(c) \/ Read(c) \/ NotFound(c) \/ Fail(c) \/ Reply(c)

Spec == Init /\ [][Next]_vars
==============================================================================
