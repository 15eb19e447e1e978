----------------------------- MODULE Provisioner -----------------------------
(***************************************************************************)
(* The Asterisk provisioner: ProvisioningService of                        *)
(* src/deployment/asterisk/provisioner/app/service.py behind its HTTP      *)
(* handlers (main.py) and in front of Asterisk (ami.py).                   *)
(*                                                                         *)
(* A write handler takes the service's asyncio lock, loads the state file, *)
(* renders the new configuration into the PJSIP file and then the dialplan *)
(* file, asks Asterisk over AMI to reload, and saves the state file.  When *)
(* a step fails it renders the previous configuration and reloads again.   *)
(* A status handler takes no lock.                                         *)
(*                                                                         *)
(* What is abstracted.  A specification is a value; of its contents only   *)
(* what the control flow asks is kept: whether a connection is in          *)
(* registration mode, whether an extension is disabled.  A generated file  *)
(* is the entries it has a section for.  Between two awaits a handler runs *)
(* alone; its file writes are still separate actions, for Asterisk and     *)
(* crashes interleave with them.  An AMI reload that times out was         *)
(* refused, was done, or is still queued in Asterisk.                      *)
(***************************************************************************)
EXTENDS Naturals, Sequences

CONSTANTS
    Clients,            \* concurrent HTTP requests of the backend
    ConnIds,            \* phone connection ids
    ExtIds,             \* extension ids
    Specs,              \* specifications a PUT may carry
    Absent,             \* "no entry under this id"
    RegistrationSpecs,  \* the connection specs with mode "registration"
    DisabledSpecs,      \* the extension specs with enabled = false
    MaxFaults           \* bound on crashes and failed file or AMI operations

ASSUME IdsAssumption == ConnIds \cap ExtIds = {}
ASSUME SpecsAssumption == /\ Absent \notin Specs
                          /\ RegistrationSpecs \subseteq Specs
                          /\ DisabledSpecs \subseteq Specs
ASSUME FaultsAssumption == MaxFaults \in Nat

VARIABLES
    stateFile,     \* the persisted configuration (state_file)
    pjsipFile,     \* the generated PJSIP file
    dialplanFile,  \* the generated dialplan file
    loaded,        \* what Asterisk runs: the two files as it last read them
    late,          \* reloads the service gave up on that Asterisk has yet to do
    server,        \* the process: down, a step of reconcile, or up
    queue,         \* asyncio.Lock: its holder, then its waiters in FIFO order
    pc,            \* per client: where its handler is
    req,           \* per client: its request
    previous,      \* per client: the handler's copy of the loaded configuration
    resp,          \* per client: the answer, final once pc is "idle"
    alarm,         \* "Could not restore ..." was logged and no reload followed
    faults         \* faults so far

files == <<pjsipFile, dialplanFile>>
vars == <<stateFile, pjsipFile, dialplanFile, loaded, late, server, queue,
          pc, req, previous, resp, alarm, faults>>

\* A request waits until its effect, or its failure, and then for its answer.
AbsPhase == [c \in Clients |-> CASE pc[c] = "idle"  -> "idle"
                                 [] pc[c] \in {"answer", "query"} -> "answering"
                                 [] OTHER           -> "waiting"]

Abs == INSTANCE AbstractProvisioner WITH store <- stateFile, phase <- AbsPhase

Keys == Abs!Keys
Config == Abs!Config
Request == Abs!Request
Response == Abs!Response
Answer(code, s) == Abs!Answer(code, s)

Empty == [k \in Keys |-> Absent]

\* What a file rendered from a configuration holds: a disabled extension has no
\* section in the PJSIP file and no route in the dialplan.
Rendered(config) ==
    [k \in Keys |-> IF k \in ExtIds /\ config[k] \in DisabledSpecs
                    THEN Absent ELSE config[k]]

\* The handler's new configuration: the entry replaced, or deleted.
Target(c) == [previous[c] EXCEPT ![req[c].key] = req[c].spec]

Restoring == {"restore_pjsip", "restore_dialplan", "restore_reload"}
Critical == {"pjsip", "dialplan", "reload", "save"} \cup Restoring
ServerState == {"down", "reconcile_dialplan", "reconcile_reload", "up"}

Init ==
    /\ stateFile = Empty
    /\ pjsipFile = Empty /\ dialplanFile = Empty
    /\ loaded = [pjsip |-> Empty, dialplan |-> Empty]
    /\ late = 0
    /\ server = "down"
    /\ queue = <<>>
    /\ pc = [c \in Clients |-> "idle"]
    /\ req \in [Clients -> {[op |-> "get", key |-> k, spec |-> Absent] : k \in Keys}]
    /\ previous = [c \in Clients |-> Empty]
    /\ resp = [c \in Clients |-> Abs!NoAnswer]
    /\ alarm = FALSE
    /\ faults = 0

------------------------------------------------------------------------------
(* Helpers. *)

Goto(c, label) == pc' = [pc EXCEPT ![c] = label]

Reply(c, answer) == resp' = [resp EXCEPT ![c] = answer]

\* Leaving "async with self.lock": the next waiter is woken, the locals are gone.
Release(c) ==
    /\ queue' = Tail(queue)
    /\ previous' = [previous EXCEPT ![c] = Empty]

Fault == faults < MaxFaults /\ faults' = faults + 1

\* Asterisk reads both generated files.
ReadFiles == loaded' = [pjsip |-> pjsipFile, dialplan |-> dialplanFile]

\* An AMI reload that raises: refused, done though the answer was lost, or left
\* behind in Asterisk for later.
ReloadFailed ==
    \/ UNCHANGED <<loaded, late>>
    \/ ReadFiles /\ UNCHANGED late
    \/ late' = late + 1 /\ UNCHANGED loaded

\* The status reply of a registration-mode connection asks Asterisk first.
QueryOrFinish(c, s) ==
    Goto(c, IF Abs!Queries(req[c], s) THEN "query" ELSE "idle")

Idle(c) == pc[c] = "idle" /\ server = "up"

------------------------------------------------------------------------------
(* Requests arrive. *)

InvokeWrite(c) ==
    /\ Idle(c)
    /\ \E r \in Request :
          /\ r.op # "get"
          /\ req' = [req EXCEPT ![c] = r]
    /\ Goto(c, "lock")
    /\ queue' = Append(queue, c)
    /\ Reply(c, Abs!NoAnswer)
    /\ UNCHANGED <<stateFile, files, loaded, late, server, previous, alarm, faults>>

InvokeRead(c) ==
    /\ Idle(c)
    /\ \E r \in Request :
          /\ r.op = "get"
          /\ req' = [req EXCEPT ![c] = r]
    /\ Goto(c, "status")
    /\ Reply(c, Abs!NoAnswer)
    /\ UNCHANGED <<stateFile, files, loaded, late, server, queue, previous, alarm, faults>>

------------------------------------------------------------------------------
(* A write under the lock. *)

HoldsLock(c) == queue # <<>> /\ Head(queue) = c

\* Mutant: a waiter goes ahead while another handler still holds the lock.
MayBegin_unlocked(c) == pc[c] = "lock" /\ queue # <<>>

MayBegin(c) == pc[c] = "lock" /\ HoldsLock(c)

Begin(c) ==
    /\ MayBegin(c)
    /\ req[c].op = "put" \/ stateFile[req[c].key] # Absent
    /\ previous' = [previous EXCEPT ![c] = stateFile]
    /\ Goto(c, "pjsip")
    /\ UNCHANGED <<stateFile, files, loaded, late, server, queue, req, resp, alarm, faults>>

\* Mutant: the early return of DELETE keeps the lock.
DeleteAbsent_keepsLock(c) ==
    /\ MayBegin(c)
    /\ req[c].op = "delete" /\ stateFile[req[c].key] = Absent
    /\ Goto(c, "idle")
    /\ Reply(c, Answer("not_found", Absent))
    /\ UNCHANGED <<stateFile, files, loaded, late, server, queue, req, previous, alarm, faults>>

\* DELETE of an id that is not there: 404, nothing is rendered.
DeleteAbsent(c) ==
    /\ MayBegin(c)
    /\ req[c].op = "delete" /\ stateFile[req[c].key] = Absent
    /\ Goto(c, "idle")
    /\ Reply(c, Answer("not_found", Absent))
    /\ Release(c)
    /\ UNCHANGED <<stateFile, files, loaded, late, server, req, alarm, faults>>

RenderPjsip(c) ==
    /\ pc[c] = "pjsip"
    /\ pjsipFile' = Rendered(Target(c))
    /\ Goto(c, "dialplan")
    /\ UNCHANGED <<stateFile, dialplanFile, loaded, late, server, queue, req,
                   previous, resp, alarm, faults>>

RenderDialplan(c) ==
    /\ pc[c] = "dialplan"
    /\ dialplanFile' = Rendered(Target(c))
    /\ Goto(c, "reload")
    /\ UNCHANGED <<stateFile, pjsipFile, loaded, late, server, queue, req,
                   previous, resp, alarm, faults>>

\* Mutant: the handler saves without having Asterisk reload.
Reload_skipped(c) ==
    /\ pc[c] = "reload"
    /\ Goto(c, "save")
    /\ UNCHANGED <<stateFile, files, loaded, late, server, queue, req, previous, resp,
                   alarm, faults>>

Reload(c) ==
    /\ pc[c] = "reload"
    /\ ReadFiles
    /\ alarm' = FALSE
    /\ Goto(c, "save")
    /\ UNCHANGED <<stateFile, files, late, server, queue, req, previous, resp, faults>>

Save(c) ==
    /\ pc[c] = "save"
    /\ stateFile' = Target(c)
    /\ Release(c)
    /\ Reply(c, Answer("ok", req[c].spec))
    /\ Goto(c, "answer")
    /\ UNCHANGED <<files, loaded, late, server, req, alarm, faults>>

\* What is left of a handler that has saved is its answer; for a connection that is
\* status(), which loads the state file before any other handler runs.
AnswerWrite(c) ==
    /\ pc[c] = "answer"
    /\ QueryOrFinish(c, req[c].spec)
    /\ UNCHANGED <<stateFile, files, loaded, late, server, queue, req, previous, resp,
                   alarm, faults>>

\* Mutant: a save that raises has already replaced the state file.
RenderOrSaveFails_afterReplace(c) ==
    /\ pc[c] \in {"pjsip", "dialplan", "save"}
    /\ Fault
    /\ Goto(c, "restore_pjsip")
    /\ stateFile' = IF pc[c] = "save" THEN Target(c) ELSE stateFile
    /\ UNCHANGED <<files, loaded, late, server, queue, req, previous, resp, alarm>>

\* "except Exception": a write, the reload or the save raised.
RenderOrSaveFails(c) ==
    /\ pc[c] \in {"pjsip", "dialplan", "save"}
    /\ Fault
    /\ Goto(c, "restore_pjsip")
    /\ UNCHANGED <<stateFile, files, loaded, late, server, queue, req, previous,
                   resp, alarm>>

ReloadFails(c) ==
    /\ pc[c] = "reload"
    /\ Fault
    /\ ReloadFailed
    /\ Goto(c, "restore_pjsip")
    /\ UNCHANGED <<stateFile, files, server, queue, req, previous, resp, alarm>>

RestorePjsip(c) ==
    /\ pc[c] = "restore_pjsip"
    /\ pjsipFile' = Rendered(previous[c])
    /\ Goto(c, "restore_dialplan")
    /\ UNCHANGED <<stateFile, dialplanFile, loaded, late, server, queue, req,
                   previous, resp, alarm, faults>>

RestoreDialplan(c) ==
    /\ pc[c] = "restore_dialplan"
    /\ dialplanFile' = Rendered(previous[c])
    /\ Goto(c, "restore_reload")
    /\ UNCHANGED <<stateFile, pjsipFile, loaded, late, server, queue, req,
                   previous, resp, alarm, faults>>

\* Mutant: the exception is swallowed and the handler answers as if it had saved.
GiveUp_swallowed(c) ==
    /\ Goto(c, "idle")
    /\ Reply(c, Answer("ok", req[c].spec))
    /\ Release(c)

\* The original exception is raised again: 502 for a PUT, 500 for a DELETE.
GiveUp(c) ==
    /\ Goto(c, "idle")
    /\ Reply(c, Answer("error", Absent))
    /\ Release(c)

\* The load of the state file raises; nothing has been rendered yet.
LoadFails(c) ==
    /\ MayBegin(c)
    /\ Fault
    /\ GiveUp(c)
    /\ UNCHANGED <<stateFile, files, loaded, late, server, req, alarm>>

\* Mutant: the restore writes the files but does not reload.
RestoreReload_skipped(c) ==
    /\ pc[c] = "restore_reload"
    /\ GiveUp(c)
    /\ UNCHANGED <<stateFile, files, loaded, late, server, req, alarm, faults>>

RestoreReload(c) ==
    /\ pc[c] = "restore_reload"
    /\ ReadFiles
    /\ alarm' = FALSE
    /\ GiveUp(c)
    /\ UNCHANGED <<stateFile, files, late, server, req, faults>>

\* A failed restore is only logged.
RestoreFails(c) ==
    /\ pc[c] \in Restoring
    /\ Fault
    /\ IF pc[c] = "restore_reload" THEN ReloadFailed ELSE UNCHANGED <<loaded, late>>
    /\ alarm' = TRUE
    /\ GiveUp(c)
    /\ UNCHANGED <<stateFile, files, server, req>>

------------------------------------------------------------------------------
(* The status handlers: no lock. *)

StatusFound(c) ==
    /\ pc[c] = "status"
    /\ LET s == stateFile[req[c].key]
       IN  /\ s # Absent
           /\ Reply(c, Answer("ok", s))
           /\ QueryOrFinish(c, s)
    /\ UNCHANGED <<stateFile, files, loaded, late, server, queue, req, previous,
                   alarm, faults>>

StatusAbsent(c) ==
    /\ pc[c] = "status"
    /\ stateFile[req[c].key] = Absent
    /\ Reply(c, Answer("not_found", Absent))
    /\ Goto(c, "idle")
    /\ UNCHANGED <<stateFile, files, loaded, late, server, queue, req, previous,
                   alarm, faults>>

\* The load of a status handler raises, or that of the status a PUT ends with.
StatusFails(c) ==
    /\ \/ pc[c] = "status"
       \/ pc[c] = "answer" /\ Abs!ReadsBack(req[c])
    /\ Fault
    /\ Goto(c, "idle")
    /\ Reply(c, Answer("error", Absent))
    /\ UNCHANGED <<stateFile, files, loaded, late, server, queue, req, previous, alarm>>

\* "pjsip show registration ..." answers, or raises (after a PUT too).
QueryAnswers(c) ==
    /\ pc[c] = "query"
    /\ Goto(c, "idle")
    /\ UNCHANGED <<stateFile, files, loaded, late, server, queue, req, previous,
                   resp, alarm, faults>>

QueryFails(c) ==
    /\ pc[c] = "query"
    /\ Fault
    /\ Goto(c, "idle")
    /\ Reply(c, Answer("error", Absent))
    /\ UNCHANGED <<stateFile, files, loaded, late, server, queue, req, previous, alarm>>

------------------------------------------------------------------------------
(* Startup: reconcile() renders the persisted state before any request is
   served; when it raises, the process exits and the container restarts it. *)

ReconcilePjsip ==
    /\ server = "down"
    /\ pjsipFile' = Rendered(stateFile)
    /\ server' = "reconcile_dialplan"
    /\ UNCHANGED <<stateFile, dialplanFile, loaded, late, queue, pc, req, previous,
                   resp, alarm, faults>>

ReconcileDialplan ==
    /\ server = "reconcile_dialplan"
    /\ dialplanFile' = Rendered(stateFile)
    /\ server' = "reconcile_reload"
    /\ UNCHANGED <<stateFile, pjsipFile, loaded, late, queue, pc, req, previous,
                   resp, alarm, faults>>

\* Mutant: reconcile waits for the lock it holds itself.
ReconcileReload_locked ==
    /\ server = "reconcile_reload"
    /\ queue # <<>>
    /\ ReadFiles
    /\ alarm' = FALSE
    /\ server' = "up"
    /\ UNCHANGED <<stateFile, files, late, queue, pc, req, previous, resp, faults>>

ReconcileReload ==
    /\ server = "reconcile_reload"
    /\ ReadFiles
    /\ alarm' = FALSE
    /\ server' = "up"
    /\ UNCHANGED <<stateFile, files, late, queue, pc, req, previous, resp, faults>>

ReconcileFails ==
    /\ server \in {"reconcile_dialplan", "reconcile_reload"}
    /\ Fault
    /\ IF server = "reconcile_reload" THEN ReloadFailed ELSE UNCHANGED <<loaded, late>>
    /\ server' = "down"
    /\ UNCHANGED <<stateFile, files, queue, pc, req, previous, resp, alarm>>

------------------------------------------------------------------------------
(* The environment. *)

\* The provisioner process dies: the lock, the handlers and their answers go,
\* the files and what Asterisk runs stay.
Crash ==
    /\ server # "down"
    /\ Fault
    /\ server' = "down"
    /\ queue' = <<>>
    /\ pc' = [c \in Clients |-> "idle"]
    /\ previous' = [c \in Clients |-> Empty]
    /\ resp' = [c \in Clients |->
                  IF pc[c] = "idle" THEN resp[c] ELSE Answer("lost", Absent)]
    /\ UNCHANGED <<stateFile, files, loaded, late, req, alarm>>

\* Asterisk gets to a reload whose requester has already given up.
LateReload ==
    /\ late > 0
    /\ late' = late - 1
    /\ ReadFiles
    /\ UNCHANGED <<stateFile, files, server, queue, pc, req, previous, resp, alarm, faults>>

\* Asterisk itself restarts (systemctl restart asterisk) and reads its files.
AsteriskRestart ==
    /\ late' = 0
    /\ ReadFiles
    /\ UNCHANGED <<stateFile, files, server, queue, pc, req, previous, resp, alarm, faults>>

------------------------------------------------------------------------------

Invoke(c) == InvokeWrite(c) \/ InvokeRead(c)

\* The steps of a handler that is running: each ends, for every AMI call has a
\* timeout and file I/O returns or raises.
Handle(c) ==
    \/ Begin(c) \/ DeleteAbsent(c) \/ LoadFails(c)
    \/ RenderPjsip(c) \/ RenderDialplan(c) \/ Reload(c) \/ Save(c) \/ AnswerWrite(c)
    \/ RenderOrSaveFails(c) \/ ReloadFails(c)
    \/ RestorePjsip(c) \/ RestoreDialplan(c) \/ RestoreReload(c) \/ RestoreFails(c)
    \/ StatusFound(c) \/ StatusAbsent(c) \/ StatusFails(c) \/ QueryAnswers(c) \/ QueryFails(c)

Reconcile ==
    ReconcilePjsip \/ ReconcileDialplan \/ ReconcileReload \/ ReconcileFails

Environment == Crash \/ LateReload \/ AsteriskRestart

Next ==
    \/ \E c \in Clients : Invoke(c) \/ Handle(c)
    \/ Reconcile
    \/ Environment

Fairness ==
    /\ \A c \in Clients : WF_vars(Handle(c))
    /\ WF_vars(Reconcile)

Spec == Init /\ [][Next]_vars /\ Fairness

------------------------------------------------------------------------------
(* Properties. *)

\* Every variable keeps to the values the code can give it.
TypeOK ==
    /\ stateFile \in Config
    /\ pjsipFile \in Config
    /\ dialplanFile \in Config
    /\ loaded \in [pjsip: Config, dialplan: Config]
    /\ late \in Nat
    /\ server \in ServerState
    /\ queue \in Seq(Clients)
    /\ pc \in [Clients -> {"idle", "lock", "status", "answer", "query"} \cup Critical]
    /\ req \in [Clients -> Request]
    /\ previous \in [Clients -> Config]
    /\ resp \in [Clients -> Response]
    /\ alarm \in BOOLEAN
    /\ faults \in 0 .. MaxFaults

\* service.lock is exclusive: at most one handler is between its load of the
\* state file and the end of its save or restore.
OneWriter ==
    \A c, d \in Clients : pc[c] \in Critical /\ pc[d] \in Critical => c = d

InSync ==
    /\ pjsipFile = Rendered(stateFile)
    /\ dialplanFile = Rendered(stateFile)
    /\ loaded = [pjsip |-> pjsipFile, dialplan |-> dialplanFile]

\* Once no write is in progress, both generated files and the configuration
\* Asterisk runs are the rendering of the persisted state, whatever sequence of
\* failed, rolled back, crashed and timed-out operations came before: unless a
\* restore failed, which the log shows, and nothing has been loaded since.
Converged ==
    server = "up" /\ (\A c \in Clients : pc[c] \notin Critical) /\ ~alarm => InSync

\* The state file is replaced only by a configuration that Asterisk runs at
\* that moment: a crash right after the save never loses what was confirmed.
SavedIsRunning ==
    [][stateFile' # stateFile =>
         loaded = [pjsip |-> Rendered(stateFile'), dialplan |-> Rendered(stateFile')]]_vars

\* A handler never saves over another's write: what it loaded under the lock is
\* still the state file when it renders, restores or saves.
NoLostUpdate ==
    \A c \in Clients : pc[c] \in Critical => previous[c] = stateFile

\* What a handler in its critical section has done so far, and what the running
\* reconcile has: the bookkeeping that makes Converged inductive.
StepsDone ==
    \A c \in Clients :
        /\ pc[c] \in {"dialplan", "reload", "save"} => pjsipFile = Rendered(Target(c))
        /\ pc[c] \in {"reload", "save"} => dialplanFile = Rendered(Target(c))
        /\ pc[c] = "save" => loaded = [pjsip |-> pjsipFile, dialplan |-> dialplanFile]
        /\ pc[c] \in {"restore_dialplan", "restore_reload"}
              => pjsipFile = Rendered(previous[c])
        /\ pc[c] = "restore_reload" => dialplanFile = Rendered(previous[c])

ReconcileDone ==
    /\ server # "up" => \A c \in Clients : pc[c] = "idle"
    /\ server \in {"reconcile_dialplan", "reconcile_reload"}
          => pjsipFile = Rendered(stateFile)
    /\ server = "reconcile_reload" => dialplanFile = Rendered(stateFile)

HolderIsHead == \A c \in Clients : pc[c] \in Critical => HoldsLock(c)

\* A handler serves the kind of request it was started for; a DELETE that got past
\* its check still has something to delete, and only the status of a connection asks
\* Asterisk.
ServesItsRequest ==
    \A c \in Clients :
        /\ pc[c] = "status" => req[c].op = "get"
        /\ pc[c] = "lock" => req[c].op # "get"
        /\ pc[c] = "query" => Abs!ReadsBack(req[c])
        /\ pc[c] \in Critical =>
              \/ req[c].op = "put"
              \/ req[c].op = "delete" /\ stateFile[req[c].key] # Absent

\* The inductive invariant: a handler in its critical section is the head of the
\* lock's queue, knows the state file, and the files hold what it wrote so far.
IndInv ==
    /\ TypeOK /\ HolderIsHead /\ NoLostUpdate /\ StepsDone
    /\ ServesItsRequest /\ ReconcileDone /\ Converged

\* The service is an atomic map: one effect per request, none for an error.
ImplementsMap == Abs!Spec

\* Every request is answered or, when the process dies, cut off.
EveryRequestEnds ==
    \A c \in Clients : pc[c] # "idle" ~> pc[c] = "idle"

\* The service comes back after a crash, or a failed reconcile, and serves.
ComesBack == server # "up" ~> server = "up"
==============================================================================
