-------------------------- MODULE ProvisionerProofs --------------------------
(***************************************************************************)
(* Theorems about the provisioner for every set of clients, ids and        *)
(* specifications and every bound on faults: its invariants, and that it   *)
(* implements the atomic map of AbstractProvisioner.                       *)
(***************************************************************************)
EXTENDS Provisioner, TLAPS

------------------------------------------------------------------------------
(* The operators: where their values lie. *)

\* An entry of a configuration is a specification or Absent.
LEMMA EntryType ==
    ASSUME NEW config \in Config, NEW k \in Keys PROVE config[k] \in Specs \cup {Absent}
BY DEF Config, Keys, Abs!Config

\* What a file holds after rendering a configuration is a configuration.
LEMMA RenderedType == ASSUME NEW config \in Config PROVE Rendered(config) \in Config
BY DEF Rendered, Config, Keys, Abs!Config

\* The configuration of a fresh installation is one.
LEMMA EmptyType == Empty \in Config
BY DEF Empty, Config, Keys, Abs!Config

\* A request names an id, and carries a specification or none.
LEMMA RequestType ==
    ASSUME NEW r \in Request
    PROVE  /\ r.key \in Keys
           /\ r.spec \in Specs \cup {Absent}
           /\ r.op \in {"put", "delete", "get"}
BY DEF Request, Keys, Abs!Request

\* The configuration a handler is about to install is one.
LEMMA TargetType == ASSUME TypeOK, NEW c \in Clients PROVE Target(c) \in Config
<1>1. req[c].spec \in Specs \cup {Absent}
  BY RequestType DEF TypeOK
<1> QED
  BY <1>1 DEF TypeOK, Target, Config, Abs!Config

\* The answers the handlers give are responses.
LEMMA AnswerType ==
    /\ Abs!NoAnswer \in Response
    /\ \A code \in {"ok", "not_found", "error", "lost"}, s \in Specs \cup {Absent} :
          Answer(code, s) \in Response
BY DEF Response, Answer, Abs!Response, Abs!NoAnswer, Abs!Answer, Abs!Code

------------------------------------------------------------------------------
(* Type correctness. *)

\* The initial state has the types of TypeOK.
LEMMA InitTypeOK == Init => TypeOK
<1> SUFFICES ASSUME Init PROVE TypeOK
  OBVIOUS
<1>1. req \in [Clients -> Request]
  <2>1. \A k \in Keys : [op |-> "get", key |-> k, spec |-> Absent] \in Request
    BY DEF Request, Keys, Abs!Request
  <2> QED
    BY <2>1 DEF Init
<1>2. resp \in [Clients -> Response]
  BY AnswerType DEF Init
<1>3. /\ late \in Nat
      /\ queue \in Seq(Clients)
      /\ faults \in 0 .. MaxFaults
  BY FaultsAssumption DEF Init
<1>4. /\ stateFile \in Config
      /\ pjsipFile \in Config
      /\ dialplanFile \in Config
      /\ loaded \in [pjsip: Config, dialplan: Config]
      /\ previous \in [Clients -> Config]
  BY EmptyType DEF Init
<1>5. /\ server \in ServerState
      /\ pc \in [Clients -> {"idle", "lock", "status", "answer", "query"} \cup Critical]
      /\ alarm \in BOOLEAN
  BY DEF Init, ServerState
<1> QED
  BY <1>1, <1>2, <1>3, <1>4, <1>5 DEF TypeOK

\* Releasing the lock, by a handler that holds it, leaves a queue of handlers.
LEMMA ReleaseType ==
    ASSUME TypeOK, NEW c \in Clients, HoldsLock(c) PROVE Tail(queue) \in Seq(Clients)
BY DEF TypeOK, HoldsLock

\* Every step keeps the types of TypeOK; that a handler only releases a lock it
\* holds is what keeps the queue a queue.
LEMMA NextTypeOK == TypeOK /\ HolderIsHead /\ [Next]_vars => TypeOK'
<1> SUFFICES ASSUME TypeOK, HolderIsHead, [Next]_vars PROVE TypeOK'
  OBVIOUS
<1> USE DEF TypeOK, files, Goto, Reply
<1>1. ASSUME NEW c \in Clients, InvokeWrite(c) PROVE TypeOK'
  BY <1>1, AnswerType DEF InvokeWrite
<1>2. ASSUME NEW c \in Clients, InvokeRead(c) PROVE TypeOK'
  BY <1>2, AnswerType DEF InvokeRead
<1>3. ASSUME NEW c \in Clients, Begin(c) PROVE TypeOK'
  BY <1>3 DEF Begin, Critical
<1>4. ASSUME NEW c \in Clients, DeleteAbsent(c) PROVE TypeOK'
  BY <1>4, EmptyType, AnswerType DEF DeleteAbsent, MayBegin, HoldsLock, Release
<1>5. ASSUME NEW c \in Clients, RenderPjsip(c) PROVE TypeOK'
  BY <1>5, TargetType, RenderedType DEF RenderPjsip, Critical
<1>6. ASSUME NEW c \in Clients, RenderDialplan(c) PROVE TypeOK'
  BY <1>6, TargetType, RenderedType DEF RenderDialplan, Critical
<1>7. ASSUME NEW c \in Clients, Reload(c) PROVE TypeOK'
  BY <1>7 DEF Reload, ReadFiles, Critical
<1>8. ASSUME NEW c \in Clients, Save(c) PROVE TypeOK'
  BY <1>8, TargetType, EmptyType, RequestType, AnswerType, ReleaseType DEF HolderIsHead, Save, Release, Critical
<1>9. ASSUME NEW c \in Clients, RenderOrSaveFails(c) PROVE TypeOK'
  BY <1>9, FaultsAssumption DEF RenderOrSaveFails, Fault, Critical, Restoring
<1>10. ASSUME NEW c \in Clients, ReloadFails(c) PROVE TypeOK'
  BY <1>10, FaultsAssumption DEF ReloadFails, ReloadFailed, ReadFiles, Fault, Critical, Restoring
<1>11. ASSUME NEW c \in Clients, RestorePjsip(c) PROVE TypeOK'
  BY <1>11, RenderedType DEF RestorePjsip, Critical, Restoring
<1>12. ASSUME NEW c \in Clients, RestoreDialplan(c) PROVE TypeOK'
  BY <1>12, RenderedType DEF RestoreDialplan, Critical, Restoring
<1>13. ASSUME NEW c \in Clients, RestoreReload(c) PROVE TypeOK'
  BY <1>13, EmptyType, AnswerType, ReleaseType DEF HolderIsHead, Critical, Restoring, RestoreReload, GiveUp, Release, ReadFiles
<1>14. ASSUME NEW c \in Clients, RestoreFails(c) PROVE TypeOK'
  BY <1>14, EmptyType, AnswerType, FaultsAssumption, ReleaseType DEF HolderIsHead, Critical, Restoring, RestoreFails, ReloadFailed, ReadFiles, GiveUp, Release, Fault
<1>15. ASSUME NEW c \in Clients, StatusFound(c) PROVE TypeOK'
  BY <1>15, EntryType, RequestType, AnswerType DEF StatusFound, QueryOrFinish
<1>16. ASSUME NEW c \in Clients, StatusAbsent(c) PROVE TypeOK'
  BY <1>16, AnswerType DEF StatusAbsent
<1>17. ASSUME NEW c \in Clients, QueryAnswers(c) PROVE TypeOK'
  BY <1>17 DEF QueryAnswers
<1>18. ASSUME NEW c \in Clients, QueryFails(c) PROVE TypeOK'
  BY <1>18, AnswerType, FaultsAssumption DEF QueryFails, Fault
<1>19. ASSUME Reconcile PROVE TypeOK'
  <2>1. CASE ReconcilePjsip
    BY <2>1, RenderedType DEF ReconcilePjsip, ServerState
  <2>2. CASE ReconcileDialplan
    BY <2>2, RenderedType DEF ReconcileDialplan, ServerState
  <2>3. CASE ReconcileReload
    BY <2>3 DEF ReconcileReload, ReadFiles, ServerState
  <2>4. CASE ReconcileFails
    BY <2>4, FaultsAssumption
       DEF ReconcileFails, ReloadFailed, ReadFiles, Fault, ServerState
  <2> QED
    BY <1>19, <2>1, <2>2, <2>3, <2>4 DEF Reconcile
<1>20. ASSUME Crash PROVE TypeOK'
  <2>1. resp' \in [Clients -> Response]
    BY <1>20, AnswerType DEF Crash
  <2> QED
    BY <1>20, <2>1, EmptyType, FaultsAssumption DEF Crash, Fault, ServerState
<1>21. ASSUME LateReload PROVE TypeOK'
  BY <1>21 DEF LateReload, ReadFiles
<1>22. ASSUME AsteriskRestart PROVE TypeOK'
  BY <1>22 DEF AsteriskRestart, ReadFiles
<1>23. ASSUME UNCHANGED vars PROVE TypeOK'
  BY <1>23 DEF vars
<1>24. ASSUME NEW c \in Clients, AnswerWrite(c) PROVE TypeOK'
  BY <1>24 DEF AnswerWrite, QueryOrFinish
<1>25. ASSUME NEW c \in Clients, LoadFails(c) PROVE TypeOK'
  BY <1>25, EmptyType, AnswerType, FaultsAssumption, ReleaseType
  DEF LoadFails, MayBegin, GiveUp, Release, Fault
<1>26. ASSUME NEW c \in Clients, StatusFails(c) PROVE TypeOK'
  BY <1>26, AnswerType, FaultsAssumption DEF StatusFails, Fault
<1> QED
  BY <1>1, <1>2, <1>3, <1>4, <1>5, <1>6, <1>7, <1>8, <1>9, <1>10, <1>11, <1>12,
     <1>13, <1>14, <1>15, <1>16, <1>17, <1>18, <1>19, <1>20, <1>21, <1>22, <1>23,
     <1>24, <1>25, <1>26
     DEF Next, Invoke, Handle, Environment

------------------------------------------------------------------------------
(* The inductive invariant. *)

\* A newcomer to the lock's queue does not displace its head.
LEMMA AppendKeepsHead ==
    ASSUME NEW q \in Seq(Clients), q # <<>>, NEW c \in Clients
    PROVE  Append(q, c) # <<>> /\ Head(Append(q, c)) = Head(q)
OBVIOUS

\* Only one handler can be at the head of the queue.
LEMMA HolderIsUnique == ASSUME HolderIsHead PROVE OneWriter
BY DEF HolderIsHead, OneWriter, HoldsLock

\* A handler that gets no further than the queue, or takes no lock at all, disturbs
\* nothing that the invariant says of the files and of the other handlers.
LEMMA OutsideTheLock ==
    ASSUME NEW c \in Clients,
           pc[c] \notin Critical, pc'[c] \notin Critical, server = "up",
           UNCHANGED <<stateFile, files, loaded, server, previous, alarm>>,
           \A d \in Clients \ {c} : pc'[d] = pc[d] /\ req'[d] = req[d],
           NoLostUpdate, StepsDone, ReconcileDone, Converged
    PROVE  (NoLostUpdate /\ StepsDone /\ ReconcileDone /\ Converged)'
<1> USE DEF files
<1>1. NoLostUpdate'
  BY DEF NoLostUpdate
<1>2. StepsDone'
  <2> SUFFICES ASSUME NEW d \in Clients, pc'[d] \in Critical
               PROVE  /\ pc[d] = pc'[d]
                      /\ Target(d)' = Target(d)
    BY DEF StepsDone, Critical, Restoring
  <2> QED
    BY DEF Target
<1>3. ReconcileDone'
  BY DEF ReconcileDone
<1>4. Converged'
  BY DEF Converged, InSync
<1> QED
  BY <1>1, <1>2, <1>3, <1>4

\* The initial state satisfies the inductive invariant.
LEMMA InitIndInv == Init => IndInv
<1> SUFFICES ASSUME Init PROVE IndInv
  OBVIOUS
<1>1. TypeOK
  BY InitTypeOK
<1>2. /\ HolderIsHead /\ NoLostUpdate /\ StepsDone
      /\ ServesItsRequest /\ ReconcileDone /\ Converged
  BY DEF Init, HolderIsHead, NoLostUpdate, StepsDone, ServesItsRequest, ReconcileDone,
         Converged, Critical, Restoring
<1> QED
  BY <1>1, <1>2 DEF IndInv

\* Every step keeps the inductive invariant.  A step of a handler in its critical
\* section concerns no other handler, since there is none in its own; the others
\* change neither the files nor the state file, save Asterisk's, which reads them.
LEMMA NextIndInv == IndInv /\ [Next]_vars => IndInv'
<1> SUFFICES ASSUME IndInv, [Next]_vars PROVE IndInv'
  OBVIOUS
<1>type. TypeOK /\ TypeOK'
  BY NextTypeOK DEF IndInv
<1>one. OneWriter
  BY HolderIsUnique DEF IndInv
<1> DEFINE Rest == /\ HolderIsHead /\ NoLostUpdate /\ StepsDone
                   /\ ServesItsRequest /\ ReconcileDone /\ Converged
<1>rest. Rest
  BY DEF IndInv
<1> USE DEF HolderIsHead, HoldsLock, OneWriter, NoLostUpdate, StepsDone, ServesItsRequest,
            ReconcileDone, Converged, InSync, Target, Critical, Restoring, files, Goto, Reply
<1>1. ASSUME NEW c \in Clients, InvokeWrite(c) PROVE Rest'
  <2>1. queue # <<>> => queue' # <<>> /\ Head(queue') = Head(queue)
    BY <1>1, <1>type, AppendKeepsHead DEF InvokeWrite, TypeOK
  <2>2. \A d \in Clients : pc'[d] \in Critical => pc[d] \in Critical
    BY <1>1, <1>type DEF InvokeWrite, TypeOK
  <2>3. HolderIsHead'
    BY <2>1, <2>2, <1>rest
  <2>4. ServesItsRequest'
    <3>1. \A d \in Clients \ {c} : pc'[d] = pc[d] /\ req'[d] = req[d]
      BY <1>1, <1>type DEF InvokeWrite, TypeOK
    <3>2. pc'[c] = "lock" /\ req'[c].op # "get"
      BY <1>1, <1>type DEF InvokeWrite, TypeOK
    <3>3. stateFile' = stateFile
      BY <1>1 DEF InvokeWrite
    <3> QED
      BY <3>1, <3>2, <3>3, <1>rest
  <2>5. (NoLostUpdate /\ StepsDone /\ ReconcileDone /\ Converged)'
    <3>1. \A d \in Clients \ {c} : pc'[d] = pc[d] /\ req'[d] = req[d]
      BY <1>1, <1>type DEF InvokeWrite, TypeOK
    <3>2. pc[c] \notin Critical /\ pc'[c] \notin Critical
      BY <1>1, <1>type DEF InvokeWrite, Idle, TypeOK
    <3>3. /\ server = "up"
          /\ UNCHANGED <<stateFile, files, loaded, server, previous, alarm>>
      BY <1>1 DEF InvokeWrite, Idle
    <3> HIDE DEF NoLostUpdate, StepsDone, ReconcileDone, Converged, Critical, Restoring, files
    <3> QED
      BY <3>1, <3>2, <3>3, <1>rest, OutsideTheLock
  <2> QED
    BY <2>3, <2>4, <2>5
<1>2. ASSUME NEW c \in Clients, InvokeRead(c) PROVE Rest'
  <2>1. ServesItsRequest'
    <3>1. \A d \in Clients \ {c} : pc'[d] = pc[d] /\ req'[d] = req[d]
      BY <1>2, <1>type DEF InvokeRead, TypeOK
    <3>2. pc'[c] = "status" /\ req'[c].op = "get"
      BY <1>2, <1>type DEF InvokeRead, TypeOK
    <3>3. stateFile' = stateFile
      BY <1>2 DEF InvokeRead
    <3> QED
      BY <3>1, <3>2, <3>3, <1>rest
  <2>2. HolderIsHead'
    BY <1>2, <1>type, <1>rest DEF InvokeRead, Idle, TypeOK
  <2>3. (NoLostUpdate /\ StepsDone /\ ReconcileDone /\ Converged)'
    <3>1. \A d \in Clients \ {c} : pc'[d] = pc[d] /\ req'[d] = req[d]
      BY <1>2, <1>type DEF InvokeRead, TypeOK
    <3>2. pc[c] \notin Critical /\ pc'[c] \notin Critical
      BY <1>2, <1>type DEF InvokeRead, Idle, TypeOK
    <3>3. /\ server = "up"
          /\ UNCHANGED <<stateFile, files, loaded, server, previous, alarm>>
      BY <1>2 DEF InvokeRead, Idle
    <3> HIDE DEF NoLostUpdate, StepsDone, ReconcileDone, Converged, Critical, Restoring, files
    <3> QED
      BY <3>1, <3>2, <3>3, <1>rest, OutsideTheLock
  <2> QED
    BY <2>1, <2>2, <2>3
<1>3. ASSUME NEW c \in Clients, Begin(c) PROVE Rest'
  BY <1>3, <1>type, <1>one, <1>rest, RequestType DEF Begin, MayBegin, TypeOK
<1>4. ASSUME NEW c \in Clients, DeleteAbsent(c) PROVE Rest'
  BY <1>4, <1>type, <1>one, <1>rest DEF DeleteAbsent, MayBegin, Release, TypeOK
<1>5. ASSUME NEW c \in Clients, RenderPjsip(c) PROVE Rest'
  BY <1>5, <1>type, <1>one, <1>rest DEF RenderPjsip, TypeOK
<1>6. ASSUME NEW c \in Clients, RenderDialplan(c) PROVE Rest'
  BY <1>6, <1>type, <1>one, <1>rest DEF RenderDialplan, TypeOK
<1>7. ASSUME NEW c \in Clients, Reload(c) PROVE Rest'
  BY <1>7, <1>type, <1>one, <1>rest DEF Reload, ReadFiles, TypeOK
<1>8. ASSUME NEW c \in Clients, Save(c) PROVE Rest'
  BY <1>8, <1>type, <1>one, <1>rest DEF Save, Release, TypeOK
<1>9. ASSUME NEW c \in Clients, RenderOrSaveFails(c) PROVE Rest'
  BY <1>9, <1>type, <1>one, <1>rest DEF RenderOrSaveFails, TypeOK
<1>10. ASSUME NEW c \in Clients, ReloadFails(c) PROVE Rest'
  BY <1>10, <1>type, <1>one, <1>rest DEF ReloadFails, ReloadFailed, ReadFiles, TypeOK
<1>11. ASSUME NEW c \in Clients, RestorePjsip(c) PROVE Rest'
  BY <1>11, <1>type, <1>one, <1>rest DEF RestorePjsip, TypeOK
<1>12. ASSUME NEW c \in Clients, RestoreDialplan(c) PROVE Rest'
  BY <1>12, <1>type, <1>one, <1>rest DEF RestoreDialplan, TypeOK
<1>13. ASSUME NEW c \in Clients, RestoreReload(c) PROVE Rest'
  <2>1. \A d \in Clients : pc'[d] \notin Critical
    BY <1>13, <1>type, <1>one, <1>rest DEF RestoreReload, GiveUp, TypeOK
  <2>2. ServesItsRequest'
    BY <1>13, <1>type, <1>rest, <2>1 DEF RestoreReload, GiveUp, TypeOK
  <2>3. Converged'
    BY <1>13, <1>type, <1>one, <1>rest DEF RestoreReload, ReadFiles, TypeOK
  <2>4. (HolderIsHead /\ NoLostUpdate /\ StepsDone)'
    BY <2>1
  <2>5. ReconcileDone'
    BY <1>13, <1>type, <1>rest DEF RestoreReload, GiveUp, TypeOK
  <2> QED
    BY <2>2, <2>3, <2>4, <2>5
<1>14. ASSUME NEW c \in Clients, RestoreFails(c) PROVE Rest'
  BY <1>14, <1>type, <1>one, <1>rest DEF RestoreFails, GiveUp, Release, ReloadFailed, ReadFiles, TypeOK
<1>15. ASSUME NEW c \in Clients, StatusFound(c) PROVE Rest'
  BY <1>15, <1>type, <1>one, <1>rest DEF StatusFound, QueryOrFinish, TypeOK, Abs!Queries
<1>16. ASSUME NEW c \in Clients, StatusAbsent(c) PROVE Rest'
  BY <1>16, <1>type, <1>one, <1>rest DEF StatusAbsent, TypeOK
<1>17. ASSUME NEW c \in Clients, QueryAnswers(c) PROVE Rest'
  BY <1>17, <1>type, <1>one, <1>rest DEF QueryAnswers, TypeOK
<1>18. ASSUME NEW c \in Clients, QueryFails(c) PROVE Rest'
  BY <1>18, <1>type, <1>one, <1>rest DEF QueryFails, TypeOK
<1>19. ASSUME ReconcilePjsip PROVE Rest'
  BY <1>19, <1>type, <1>rest DEF ReconcilePjsip, TypeOK
<1>20. ASSUME ReconcileDialplan PROVE Rest'
  BY <1>20, <1>type, <1>rest DEF ReconcileDialplan, TypeOK
<1>21. ASSUME ReconcileReload PROVE Rest'
  BY <1>21, <1>type, <1>rest DEF ReconcileReload, ReadFiles, TypeOK
<1>22. ASSUME ReconcileFails PROVE Rest'
  BY <1>22, <1>type, <1>rest DEF ReconcileFails, ReloadFailed, ReadFiles, TypeOK
<1>23. ASSUME Crash PROVE Rest'
  BY <1>23, <1>type, <1>rest DEF Crash, TypeOK
<1>24. ASSUME LateReload PROVE Rest'
  BY <1>24, <1>type, <1>rest DEF LateReload, ReadFiles, TypeOK
<1>25. ASSUME AsteriskRestart PROVE Rest'
  BY <1>25, <1>type, <1>rest DEF AsteriskRestart, ReadFiles, TypeOK
<1>26. ASSUME UNCHANGED vars PROVE Rest'
  BY <1>26, <1>type, <1>rest DEF vars, TypeOK
<1>27. ASSUME NEW c \in Clients, AnswerWrite(c) PROVE Rest'
  BY <1>27, <1>type, <1>one, <1>rest DEF AnswerWrite, QueryOrFinish, TypeOK, Abs!Queries
<1>28. ASSUME NEW c \in Clients, LoadFails(c) PROVE Rest'
  BY <1>28, <1>type, <1>one, <1>rest DEF LoadFails, MayBegin, GiveUp, Release, TypeOK
<1>29. ASSUME NEW c \in Clients, StatusFails(c) PROVE Rest'
  BY <1>29, <1>type, <1>one, <1>rest DEF StatusFails, TypeOK
<1> HIDE DEF Rest
<1>all. Rest'
  BY <1>1, <1>2, <1>3, <1>4, <1>5, <1>6, <1>7, <1>8, <1>9, <1>10, <1>11, <1>12, <1>13,
     <1>14, <1>15, <1>16, <1>17, <1>18, <1>19, <1>20, <1>21, <1>22, <1>23, <1>24, <1>25, <1>26,
     <1>27, <1>28, <1>29
     DEF Next, Invoke, Handle, Reconcile, Environment
<1> QED
  BY <1>type, <1>all DEF Rest, IndInv

\* The inductive invariant holds in every reachable state.
THEOREM Invariance == Spec => []IndInv
BY InitIndInv, NextIndInv, PTL DEF Spec

------------------------------------------------------------------------------
(* The safety properties. *)

\* Type correctness of the provisioner.
THEOREM TypeCorrect == Spec => []TypeOK
<1>1. IndInv => TypeOK
  BY DEF IndInv
<1> QED
  BY <1>1, Invariance, PTL

\* The asyncio lock admits one writer at a time, in whatever order handlers queue,
\* fail and crash.
THEOREM Exclusion == Spec => []OneWriter
<1>1. IndInv => OneWriter
  BY HolderIsUnique DEF IndInv
<1> QED
  BY <1>1, Invariance, PTL

\* No handler works from a copy of the state file that another has replaced.
THEOREM NoUpdateIsLost == Spec => []NoLostUpdate
<1>1. IndInv => NoLostUpdate
  BY DEF IndInv
<1> QED
  BY <1>1, Invariance, PTL

\* After any history of failures the files and Asterisk agree with the state file
\* whenever no write is in progress and no failed restore is outstanding.
THEOREM Convergence == Spec => []Converged
<1>1. IndInv => Converged
  BY DEF IndInv
<1> QED
  BY <1>1, Invariance, PTL

\* Nothing is persisted that Asterisk is not running.
THEOREM OnlyRunningIsSaved == Spec => SavedIsRunning
<1> DEFINE Running == stateFile' # stateFile =>
             loaded = [pjsip |-> Rendered(stateFile'), dialplan |-> Rendered(stateFile')]
<1>1. IndInv /\ [Next]_vars => [Running]_vars
  <2> SUFFICES ASSUME IndInv, Next, stateFile' # stateFile
               PROVE  loaded = [pjsip |-> Rendered(stateFile'),
                                dialplan |-> Rendered(stateFile')]
    BY DEF vars
  <2>1. PICK c \in Clients : Save(c)
    BY DEF Next, Invoke, InvokeWrite, InvokeRead, Handle, Begin, DeleteAbsent,
           RenderPjsip, RenderDialplan, Reload, RenderOrSaveFails, ReloadFails,
           RestorePjsip, RestoreDialplan, RestoreReload, RestoreFails,
           AnswerWrite, LoadFails, StatusFound, StatusAbsent, StatusFails, QueryAnswers,
           QueryFails,
           Reconcile, ReconcilePjsip, ReconcileDialplan, ReconcileReload,
           ReconcileFails, Environment, Crash, LateReload, AsteriskRestart
  <2> QED
    BY <2>1 DEF Save, IndInv, StepsDone
<1> QED
  BY <1>1, Invariance, PTL DEF Spec, SavedIsRunning

------------------------------------------------------------------------------
(* The refinement.  A write takes effect when it saves the state file, a status  *)
(* request when it loads it, and every other step is a stutter of the map.       *)

\* The map's view of a handler changes with that handler's label only.
LEMMA PhaseOfGoto ==
    ASSUME TypeOK, NEW c \in Clients, NEW label, Goto(c, label)
    PROVE  /\ label = "idle" => AbsPhase' = [AbsPhase EXCEPT ![c] = "idle"]
           /\ label \in {"answer", "query"} => AbsPhase' = [AbsPhase EXCEPT ![c] = "answering"]
           /\ label \notin {"idle", "answer", "query"}
                => AbsPhase' = [AbsPhase EXCEPT ![c] = "waiting"]
<1>1. \A d \in Clients : pc'[d] = IF d = c THEN label ELSE pc[d]
  BY DEF TypeOK, Goto
<1> QED
  BY <1>1 DEF AbsPhase

\* Where a waiting handler is, the map sees a waiting request.
LEMMA PhaseWaiting ==
    ASSUME NEW c \in Clients, pc[c] \notin {"idle", "answer", "query"}
    PROVE  AbsPhase[c] = "waiting"
BY DEF AbsPhase

\* A handler that goes from one waiting label to another stutters.
LEMMA Stutter ==
    ASSUME TypeOK, NEW c \in Clients, NEW label, Goto(c, label),
           pc[c] \notin {"idle", "answer", "query"}, label \notin {"idle", "answer", "query"},
           UNCHANGED <<stateFile, req, resp>>
    PROVE  UNCHANGED Abs!vars
<1>1. AbsPhase' = [AbsPhase EXCEPT ![c] = "waiting"]
  BY PhaseOfGoto
<1>2. AbsPhase' = AbsPhase
  BY <1>1, PhaseWaiting DEF AbsPhase
<1> QED
  BY <1>2 DEF Abs!vars

\* The initial states are initial states of the map.
LEMMA InitImplements == Init => Abs!Init
<1> SUFFICES ASSUME Init PROVE Abs!Init
  OBVIOUS
<1>1. req \in [Clients -> Abs!Request]
  BY InitTypeOK DEF TypeOK, Request
<1>2. AbsPhase = [c \in Clients |-> "idle"]
  BY DEF Init, AbsPhase
<1> QED
  BY <1>1, <1>2 DEF Init, Abs!Init, Empty, Keys

\* Every step is a step of the map or leaves it alone.
LEMMA NextImplements == IndInv /\ [Next]_vars => [Abs!Next]_(Abs!vars)
<1> SUFFICES ASSUME IndInv, [Next]_vars PROVE [Abs!Next]_(Abs!vars)
  OBVIOUS
<1>type. TypeOK
  BY DEF IndInv
<1>1. ASSUME NEW c \in Clients, Invoke(c) PROVE Abs!Invoke(c)
  <2>1. PICK label \in {"lock", "status"} : Goto(c, label)
    BY <1>1 DEF Invoke, InvokeWrite, InvokeRead
  <2>2. AbsPhase' = [AbsPhase EXCEPT ![c] = "waiting"]
    BY <2>1, <1>type, PhaseOfGoto
  <2>3. /\ \E r \in Abs!Request : req' = [req EXCEPT ![c] = r]
        /\ resp' = [resp EXCEPT ![c] = Abs!NoAnswer]
        /\ stateFile' = stateFile
        /\ pc[c] = "idle"
    BY <1>1 DEF Invoke, InvokeWrite, InvokeRead, Idle, Reply, Request
  <2>4. AbsPhase[c] = "idle"
    BY <2>3 DEF AbsPhase
  <2> QED
    BY <2>2, <2>3, <2>4 DEF Abs!Invoke
<1>2. ASSUME NEW c \in Clients, Save(c) PROVE Abs!Write(c)
  <2>1. stateFile' = [stateFile EXCEPT ![req[c].key] = req[c].spec]
    BY <1>2 DEF Save, Target, IndInv, NoLostUpdate, Critical
  <2>2. /\ req[c].op = "put" \/ (req[c].op = "delete" /\ stateFile[req[c].key] # Absent)
        /\ AbsPhase[c] = "waiting"
    BY <1>2, PhaseWaiting DEF Save, IndInv, ServesItsRequest, Critical
  <2>3. AbsPhase' = [AbsPhase EXCEPT ![c] = "answering"]
    BY <1>2, <1>type, PhaseOfGoto DEF Save
  <2>4. /\ resp' = [resp EXCEPT ![c] = Abs!Answer("ok", req[c].spec)]
        /\ UNCHANGED req
    BY <1>2 DEF Save, Reply, Answer
  <2> QED
    BY <2>1, <2>2, <2>3, <2>4 DEF Abs!Write, Abs!Complete
<1>3. ASSUME NEW c \in Clients, StatusFound(c) PROVE Abs!Read(c)
  <2>1. /\ AbsPhase[c] = "waiting"
        /\ req[c].op = "get"
        /\ stateFile[req[c].key] # Absent
        /\ UNCHANGED <<stateFile, req>>
    BY <1>3, PhaseWaiting DEF StatusFound, IndInv, ServesItsRequest
  <2>2. AbsPhase' = [AbsPhase EXCEPT ![c] =
                       IF Abs!Queries(req[c], stateFile[req[c].key])
                       THEN "answering" ELSE "idle"]
    BY <1>3, <1>type, PhaseOfGoto DEF StatusFound, QueryOrFinish
  <2>3. resp' = [resp EXCEPT ![c] = Abs!Answer("ok", stateFile[req[c].key])]
    BY <1>3 DEF StatusFound, Reply, Answer
  <2> QED
    BY <2>1, <2>2, <2>3 DEF Abs!Read, Abs!Complete
<1>4. ASSUME NEW c \in Clients, StatusAbsent(c) \/ DeleteAbsent(c) PROVE Abs!NotFound(c)
  <2>1. /\ AbsPhase[c] = "waiting"
        /\ req[c].op \in {"get", "delete"}
        /\ stateFile[req[c].key] = Absent
        /\ UNCHANGED <<stateFile, req>>
    BY <1>4, PhaseWaiting DEF StatusAbsent, DeleteAbsent, MayBegin, IndInv, ServesItsRequest
  <2>2. AbsPhase' = [AbsPhase EXCEPT ![c] = "idle"]
    BY <1>4, <1>type, PhaseOfGoto DEF StatusAbsent, DeleteAbsent
  <2>3. resp' = [resp EXCEPT ![c] = Abs!Answer("not_found", Absent)]
    BY <1>4 DEF StatusAbsent, DeleteAbsent, Reply, Answer
  <2> QED
    BY <2>1, <2>2, <2>3 DEF Abs!NotFound
<1>5. ASSUME NEW c \in Clients,
             \/ RestoreReload(c) \/ RestoreFails(c) \/ LoadFails(c)
             \/ StatusFails(c) /\ pc[c] = "status"
      PROVE  Abs!Fail(c)
  <2>1. /\ AbsPhase[c] = "waiting"
        /\ UNCHANGED <<stateFile, req>>
    BY <1>5, PhaseWaiting
       DEF RestoreReload, RestoreFails, LoadFails, MayBegin, StatusFails, Restoring
  <2>2. AbsPhase' = [AbsPhase EXCEPT ![c] = "idle"]
    BY <1>5, <1>type, PhaseOfGoto DEF RestoreReload, RestoreFails, LoadFails, StatusFails, GiveUp
  <2>3. resp' = [resp EXCEPT ![c] = Abs!Answer("error", Absent)]
    BY <1>5 DEF RestoreReload, RestoreFails, LoadFails, StatusFails, GiveUp, Reply, Answer
  <2> QED
    BY <2>1, <2>2, <2>3 DEF Abs!Fail
<1>6. ASSUME NEW c \in Clients,
             \/ QueryAnswers(c) \/ QueryFails(c)
             \/ StatusFails(c) /\ pc[c] = "answer"
             \/ AnswerWrite(c) /\ ~Abs!Queries(req[c], req[c].spec)
      PROVE  Abs!Reply(c)
  <2>1. AbsPhase[c] = "answering" /\ UNCHANGED <<stateFile, req>>
    BY <1>6 DEF QueryAnswers, QueryFails, StatusFails, AnswerWrite, AbsPhase
  <2>2. AbsPhase' = [AbsPhase EXCEPT ![c] = "idle"]
    BY <1>6, <1>type, PhaseOfGoto
       DEF QueryAnswers, QueryFails, StatusFails, AnswerWrite, QueryOrFinish
  <2>3. \/ resp' = resp
        \/ Abs!ReadsBack(req[c]) /\ resp' = [resp EXCEPT ![c] = Abs!Answer("error", Absent)]
    BY <1>6 DEF QueryAnswers, QueryFails, StatusFails, AnswerWrite, Reply, Answer,
                IndInv, ServesItsRequest
  <2> QED
    BY <2>1, <2>2, <2>3 DEF Abs!Reply
<1>10. ASSUME NEW c \in Clients, AnswerWrite(c), Abs!Queries(req[c], req[c].spec)
       PROVE  UNCHANGED Abs!vars
  <2>1. AbsPhase' = [AbsPhase EXCEPT ![c] = "answering"]
    BY <1>10, <1>type, PhaseOfGoto DEF AnswerWrite, QueryOrFinish
  <2>2. AbsPhase[c] = "answering"
    BY <1>10 DEF AnswerWrite, AbsPhase
  <2>3. AbsPhase' = AbsPhase
    BY <2>1, <2>2 DEF AbsPhase
  <2> QED
    BY <1>10, <2>3 DEF AnswerWrite, Abs!vars
<1>7. ASSUME Crash PROVE Abs!Crash
  <2>1. AbsPhase' = [c \in Clients |-> "idle"]
    BY <1>7 DEF Crash, AbsPhase
  <2>2. \A c \in Clients : AbsPhase[c] = "idle" <=> pc[c] = "idle"
    BY DEF AbsPhase
  <2>3. resp' = [c \in Clients |->
                   IF AbsPhase[c] = "idle" THEN resp[c] ELSE Abs!Answer("lost", Absent)]
    BY <1>7, <2>2 DEF Crash, Answer
  <2> QED
    BY <1>7, <2>1, <2>3 DEF Crash, Abs!Crash
<1>8. ASSUME NEW c \in Clients,
             \/ Begin(c) \/ RenderPjsip(c) \/ RenderDialplan(c) \/ Reload(c)
             \/ RenderOrSaveFails(c) \/ ReloadFails(c)
             \/ RestorePjsip(c) \/ RestoreDialplan(c)
      PROVE  UNCHANGED Abs!vars
  <2>1. /\ pc[c] \notin {"idle", "answer", "query"}
        /\ UNCHANGED <<stateFile, req, resp>>
    BY <1>8 DEF Begin, MayBegin, RenderPjsip, RenderDialplan, Reload, RenderOrSaveFails,
                ReloadFails, RestorePjsip, RestoreDialplan
  <2>2. PICK label \in Critical : Goto(c, label)
    BY <1>8 DEF Begin, RenderPjsip, RenderDialplan, Reload, RenderOrSaveFails, ReloadFails,
                RestorePjsip, RestoreDialplan, Critical, Restoring
  <2>3. label \notin {"idle", "answer", "query"}
    BY DEF Critical, Restoring
  <2> QED
    BY <2>1, <2>2, <2>3, <1>type, Stutter
<1>9. ASSUME Reconcile \/ LateReload \/ AsteriskRestart \/ UNCHANGED vars
      PROVE  UNCHANGED Abs!vars
  BY <1>9 DEF Reconcile, ReconcilePjsip, ReconcileDialplan, ReconcileReload, ReconcileFails,
              LateReload, AsteriskRestart, vars, Abs!vars, AbsPhase
<1> QED
  BY <1>1, <1>2, <1>3, <1>4, <1>5, <1>6, <1>7, <1>8, <1>9, <1>10
     DEF Next, Handle, Environment, StatusFails, Abs!Next

\* Every behaviour of the provisioner is one of the atomic map, for any number of
\* concurrent requests, ids, specifications and faults.
THEOREM Implementation == Spec => ImplementsMap
BY InitImplements, NextImplements, Invariance, PTL DEF Spec, ImplementsMap, Abs!Spec

------------------------------------------------------------------------------
(* What the refinement means for the backend. *)

\* The request of c is answered "ok", and the state file now has what it asked for.
TakesEffect(c) ==
    /\ AbsPhase[c] = "waiting" /\ req[c].op # "get"
    /\ stateFile' = [stateFile EXCEPT ![req[c].key] = req[c].spec]
    /\ resp' = [resp EXCEPT ![c] = Answer("ok", req[c].spec)]
    /\ AbsPhase' = [AbsPhase EXCEPT ![c] = "answering"]

\* The persisted configuration changes only by a write whose answer is "ok" from that very
\* step on (only the status that a PUT of a connection ends with may still replace it), and
\* at the key of that request.  A request that fails, is rolled back or is cut off while it
\* waits has changed nothing.
THEOREM EffectIsAnswered ==
  Spec => [][stateFile' # stateFile => \E c \in Clients : TakesEffect(c)]_vars
<1> DEFINE Effect == stateFile' # stateFile => \E c \in Clients : TakesEffect(c)
<1>1. IndInv /\ [Next]_vars => [Effect]_vars
  <2> SUFFICES ASSUME IndInv, [Next]_vars, stateFile' # stateFile
               PROVE  \E c \in Clients : TakesEffect(c)
    OBVIOUS
  <2>1. Abs!Next
    BY NextImplements DEF Abs!vars
  <2>2. PICK c \in Clients : Abs!Write(c)
    BY <2>1 DEF Abs!Next, Abs!Crash, Abs!Invoke, Abs!Read, Abs!NotFound, Abs!Fail, Abs!Reply
  <2> QED
    BY <2>2 DEF Abs!Write, Abs!Complete, TakesEffect, Answer
<1> QED BY <1>1, Invariance, PTL DEF Spec

\* An answer given in this step says what the state file has under the id of the request:
\* "ok" carries the entry, "not_found" means there is none.
AnswersAreTrue(c) ==
    resp'[c] # resp[c] =>
        /\ resp'[c].code = "ok" => stateFile'[req[c].key] = resp'[c].spec
        /\ resp'[c].code = "not_found" => stateFile'[req[c].key] = Absent

\* Every answer is true of the persisted configuration at the step that gives it, although
\* the status handlers take no lock and run while a writer holds it.
THEOREM AnswersAreSo == Spec => [][\A c \in Clients : AnswersAreTrue(c)]_vars
<1> DEFINE True == \A c \in Clients : AnswersAreTrue(c)
<1>1. IndInv /\ [Next]_vars => [True]_vars
  <2> SUFFICES ASSUME IndInv, [Next]_vars, NEW c \in Clients, resp'[c] # resp[c]
               PROVE  /\ resp'[c].code = "ok" => stateFile'[req[c].key] = resp'[c].spec
                      /\ resp'[c].code = "not_found" => stateFile'[req[c].key] = Absent
    BY DEF AnswersAreTrue
  <2>type. /\ resp \in [Clients -> Response] /\ stateFile \in Config
           /\ req[c].key \in Keys
    BY DEF IndInv, TypeOK, Request, Keys, Abs!Request
  <2> USE DEF Abs!Answer, Abs!NoAnswer
  <2>1. Abs!Next
    BY NextImplements DEF Abs!vars
  <2>2. CASE Abs!Crash
    BY <2>2, <2>type DEF Abs!Crash
  <2>3. ASSUME NEW d \in Clients, Abs!Invoke(d) \/ Abs!Fail(d) \/ Abs!Reply(d)
        PROVE  resp'[c].code \notin {"ok", "not_found"}
    BY <2>3, <2>type DEF Abs!Invoke, Abs!Fail, Abs!Reply
  <2>4. ASSUME NEW d \in Clients, Abs!NotFound(d)
        PROVE  resp'[c].code = "not_found" /\ stateFile'[req[c].key] = Absent
    BY <2>4, <2>type DEF Abs!NotFound
  <2>5. ASSUME NEW d \in Clients, Abs!Read(d)
        PROVE  resp'[c].code = "ok" /\ stateFile'[req[c].key] = resp'[c].spec
    BY <2>5, <2>type DEF Abs!Read, Abs!Complete
  <2>6. ASSUME NEW d \in Clients, Abs!Write(d)
        PROVE  resp'[c].code = "ok" /\ stateFile'[req[c].key] = resp'[c].spec
    BY <2>6, <2>type DEF Abs!Write, Abs!Complete, Config, Abs!Config, Keys
  <2> QED
    BY <2>1, <2>2, <2>3, <2>4, <2>5, <2>6 DEF Abs!Next
<1> QED BY <1>1, Invariance, PTL DEF Spec
==============================================================================
