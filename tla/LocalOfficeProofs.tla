--------------------------- MODULE LocalOfficeProofs ---------------------------
(***************************************************************************)
(* Theorems about the shell scripts of the local office.  The upload       *)
(* scripts lose no recording, for any number of recordings and cron runs.  *)
(* Runs of the installer, cut short and repeated in any order, keep the    *)
(* secrets of the data, one administrator and the phone numbers, for any   *)
(* number of runs, secrets and phone numbers.                              *)
(***************************************************************************)
EXTENDS RecordingUpload, Installer, TLAPS

------------------------------------------------------------------------------
(* The upload of recordings. *)

\* What a script does with its own state keeps it a state of a script.
ScriptsOK ==
    /\ upload \in [Scripts -> [step : Step, of : Recordings \cup {None}, sent : 0 .. MaxLength,
                              deletes : BOOLEAN]]
    /\ \A s \in Scripts : ~At(s, "idle") => upload[s].of \in Recordings

LEMMA IdleType ==
  Idle \in [step : Step, of : Recordings \cup {None}, sent : 0 .. MaxLength, deletes : BOOLEAN]
BY BoundsAssumption DEF Idle, Step

LEMMA ExitsType == ASSUME ScriptsOK, NEW s \in Scripts, Exits(s) PROVE ScriptsOK'
BY IdleType DEF ScriptsOK, Exits, At, Idle

LEMMA RunsType ==
  ASSUME ScriptsOK, delete \in BOOLEAN, NEW s \in Scripts, NEW r \in Recordings, NEW size, Runs(s, r, size)
  PROVE  ScriptsOK'
<1>1. [step |-> "started", of |-> r, sent |-> 0, deletes |-> delete]
         \in [step : Step, of : Recordings \cup {None}, sent : 0 .. MaxLength, deletes : BOOLEAN]
  BY BoundsAssumption DEF Step
<1> QED BY <1>1, IdleType DEF ScriptsOK, Runs, At, Idle

LEMMA IndInvInit == Init => IndInv
<1> SUFFICES ASSUME Init PROVE TypeOK /\ NothingLost /\ OnlyFinished
  BY DEF IndInv
<1>1. TypeOK
  <2>1. \A s \in Scripts : At(s, "idle")
    BY DEF Init, Idle, At
  <2>2. stored \in [Recordings -> SUBSET (0 .. MaxLength)]
    BY DEF Init
  <2>3. length \in [Recordings -> 0 .. MaxLength] /\ faults \in 0 .. MaxFaults
    BY BoundsAssumption DEF Init
  <2> QED BY IdleType, <2>1, <2>2, <2>3 DEF Init, TypeOK
<1>2. NothingLost
  BY DEF Init, NothingLost
<1>3. OnlyFinished
  BY DEF Init, OnlyFinished, Idle, At, Scripts
<1> QED BY <1>1, <1>2, <1>3

\* Every step keeps the types, on a machine with silent calls too.
LEMMA TypeStep == TypeOK /\ [Next]_vars => TypeOK'
<1> SUFFICES ASSUME TypeOK, [Next]_vars PROVE TypeOK'
  OBVIOUS
<1> USE DEF TypeOK
<1>scripts. ScriptsOK
  BY DEF ScriptsOK
<1>1. ASSUME NEW r \in Recordings, StartRecording(r) \/ Write(r) \/ Age(r) PROVE TypeOK'
  BY <1>1, BoundsAssumption DEF StartRecording, Write, Age, Grow, At
<1>2. ASSUME NEW r \in Recordings, StopRecording(r) PROVE TypeOK'
  <2>1. r \in Scripts
    BY DEF Scripts
  <2>2. ScriptsOK'
    BY <1>2, <1>scripts, <2>1, RunsType DEF StopRecording
  <2> QED BY <1>2, <2>2, BoundsAssumption DEF StopRecording, Grow, ScriptsOK
<1>3. CASE EditConfig
  BY <1>3 DEF EditConfig, disk, At
<1>4. CASE Reboot
  <2>1. ScriptsOK'
    BY <1>4, IdleType DEF Reboot, ScriptsOK, At, Idle
  <2> QED BY <1>4, <2>1, BoundsAssumption DEF Reboot, disk, Fault, ScriptsOK
<1>5. ASSUME NEW s \in Scripts, Send(s) PROVE TypeOK'
  <2>1. ScriptsOK'
    <3>1. CASE upload[s].of \in exists
      <4>1. /\ upload[s] \in [step : Step, of : Recordings \cup {None}, sent : 0 .. MaxLength,
                              deletes : BOOLEAN]
            /\ length[upload[s].of] \in 0 .. MaxLength /\ "sending" \in Step
        BY <1>5, <3>1 DEF Step
      <4>2. upload' = [upload EXCEPT ![s] = [@ EXCEPT !.step = "sending",
                                                 !.sent = length[upload[s].of]]]
        BY <1>5, <3>1 DEF Send
      <4> QED BY <1>5, <1>scripts, <4>1, <4>2 DEF ScriptsOK, Send, At
    <3>2. CASE upload[s].of \notin exists
      BY <1>5, <1>scripts, <3>2, ExitsType DEF Send
    <3> QED BY <3>1, <3>2
  <2> QED BY <1>5, <2>1 DEF Send, disk, ScriptsOK
<1>6. ASSUME NEW s \in Scripts, SendSucceeds(s) \/ DeleteRecording(s) PROVE TypeOK'
  <2>1. stored' \in [Recordings -> SUBSET (0 .. MaxLength)]
    BY <1>6 DEF SendSucceeds, DeleteRecording, Stores, At
  <2> QED BY <1>6, <2>1 DEF SendSucceeds, DeleteRecording, Goes, disk, At, Step
<1>7. ASSUME NEW s \in Scripts, SendFails(s) \/ Mark(s) \/ DeleteMarker(s) PROVE TypeOK'
  <2>1. stored' \in [Recordings -> SUBSET (0 .. MaxLength)] /\ faults' \in 0 .. MaxFaults
    BY <1>7, BoundsAssumption DEF SendFails, Mark, DeleteMarker, Stores, Fault, At
  <2>2. marked' \subseteq Recordings
    BY <1>7 DEF SendFails, Mark, DeleteMarker, disk, At
  <2>3. ScriptsOK'
    BY <1>7, <1>scripts, ExitsType DEF SendFails, Mark, DeleteMarker
  <2> QED BY <1>7, <2>1, <2>2, <2>3 DEF SendFails, Mark, DeleteMarker, disk, ScriptsOK
<1>8. ASSUME NEW c \in CronRuns, StartCron(c) PROVE TypeOK'
  BY <1>8 DEF StartCron, Listed, disk, At
<1>9. ASSUME NEW c \in CronRuns, NEW r \in Recordings, SkipMarked(c, r) PROVE TypeOK'
  BY <1>9 DEF SkipMarked, Visit, disk, At
<1>10. ASSUME NEW c \in CronRuns, NEW r \in Recordings, Retry(c, r) PROVE TypeOK'
  <2>1. c \in Scripts
    BY DEF Scripts
  <2>2. ScriptsOK'
    BY <1>10, <1>scripts, <2>1, RunsType DEF Retry
  <2> QED BY <1>10, <2>2 DEF Retry, Visit, disk, ScriptsOK
<1>11. CASE UNCHANGED vars
  BY <1>11 DEF vars, disk, At
<1> QED
  BY <1>1, <1>2, <1>3, <1>4, <1>5, <1>6, <1>7, <1>8, <1>9, <1>10, <1>11 DEF Next, Upload, Loop

\* A step of MixMonitor, the clock, the operator or the machine moves no script that is
\* not idle, and ages only finished files.
LEMMA MachineStep ==
  ASSUME IndInv, ~SilentCalls,
         \/ \E r \in Recordings : StartRecording(r) \/ Write(r) \/ Age(r) \/ StopRecording(r)
         \/ EditConfig \/ Reboot
  PROVE  NothingLost' /\ OnlyFinished'
<1> USE DEF IndInv, TypeOK, NothingLost, OnlyFinished, Whole, At, Scripts, Idle
<1>1. ASSUME NEW r \in Recordings, StartRecording(r) PROVE NothingLost' /\ OnlyFinished'
  BY <1>1 DEF StartRecording
<1>2. ASSUME NEW r \in Recordings, Write(r) PROVE NothingLost' /\ OnlyFinished'
  BY <1>2 DEF Write, Grow
<1>3. ASSUME NEW r \in Recordings, Age(r) PROVE NothingLost' /\ OnlyFinished'
  BY <1>3 DEF Age
<1>4. ASSUME NEW r \in Recordings, StopRecording(r) PROVE NothingLost' /\ OnlyFinished'
  BY <1>4 DEF StopRecording, Grow, Runs
<1>5. CASE EditConfig \/ Reboot
  BY <1>5 DEF EditConfig, Reboot, disk
<1> QED BY <1>1, <1>2, <1>3, <1>4, <1>5

\* A step of an upload script: the backend has the recording before the script
\* marks it or deletes it.
LEMMA UploadStep ==
  ASSUME IndInv, NEW s \in Scripts, Upload(s) PROVE NothingLost' /\ OnlyFinished'
<1> USE DEF IndInv, TypeOK, NothingLost, OnlyFinished, Whole, At, Scripts, Idle, disk, Exits, Goes
<1>1. NothingLost'
  BY DEF Upload, Send, SendSucceeds, SendFails, Stores, Mark, DeleteRecording, DeleteMarker
<1>2. CASE Send(s)
  <2>1. CASE upload[s].of \in exists
    <3>1. upload' = [upload EXCEPT ![s] = [@ EXCEPT !.step = "sending",
                                               !.sent = length[upload[s].of]]]
      BY <1>2, <2>1 DEF Send
    <3>2. /\ UNCHANGED <<call, length, aged, stored, todo>>
          /\ upload[s].step = "started" /\ upload[s].of \in Recordings
      BY <1>2 DEF Send
    <3> QED BY <1>1, <3>1, <3>2
  <2>2. CASE upload[s].of \notin exists
    BY <1>1, <1>2, <2>2 DEF Send
  <2> QED BY <2>1, <2>2
<1>3. CASE SendFails(s)
  <2>1. /\ UNCHANGED <<call, length, aged, todo>>
        /\ \A r \in Recordings : stored[r] \subseteq stored'[r]
    BY <1>3 DEF SendFails, Stores
  <2>2. upload' = [upload EXCEPT ![s] = Idle]
    BY <1>3 DEF SendFails
  <2> QED BY <1>1, <2>1, <2>2
<1>4. CASE Mark(s) \/ DeleteMarker(s)
  BY <1>1, <1>4 DEF Mark, DeleteMarker
<1>5. CASE DeleteRecording(s)
  BY <1>1, <1>5 DEF DeleteRecording
<1>6. CASE SendSucceeds(s)
  BY <1>1, <1>6 DEF SendSucceeds, Stores
<1> QED BY <1>2, <1>3, <1>4, <1>5, <1>6 DEF Upload

\* A step of a cron run: what it lists and visits is the file of a finished call.
LEMMA CronStep ==
  ASSUME IndInv, NEW c \in CronRuns, StartCron(c) \/ Loop(c) PROVE NothingLost' /\ OnlyFinished'
<1> USE DEF IndInv, TypeOK, NothingLost, OnlyFinished, Whole, At, Scripts, disk
<1>1. CASE StartCron(c)
  BY <1>1 DEF StartCron, Listed
<1>2. ASSUME NEW r \in Recordings, SkipMarked(c, r) PROVE NothingLost' /\ OnlyFinished'
  BY <1>2 DEF SkipMarked, Visit
<1>3. ASSUME NEW r \in Recordings, Retry(c, r) PROVE NothingLost' /\ OnlyFinished'
  BY <1>3 DEF Retry, Visit, Runs, Idle
<1> QED BY <1>1, <1>2, <1>3 DEF Loop

\* The invariant of the model: scripts work only on the files of finished calls, and
\* a marker or a deletion means that the backend has the whole recording.
THEOREM Invariance == ASSUME ~SilentCalls PROVE Spec => []IndInv
<1>1. IndInv /\ [Next]_vars => IndInv'
  <2> SUFFICES ASSUME IndInv, [Next]_vars PROVE NothingLost' /\ OnlyFinished'
    BY TypeStep DEF IndInv
  <2>1. CASE UNCHANGED vars
    BY <2>1 DEF vars, disk, IndInv, NothingLost, OnlyFinished, Whole, At
  <2>2. CASE Next
    BY <2>2, MachineStep, UploadStep, CronStep DEF Next
  <2> QED BY <2>1, <2>2
<1> QED BY IndInvInit, <1>1, PTL DEF Spec

\* No recording is lost: one that is marked or deleted is stored as a whole, whichever
\* upload got there first, whichever failed, and wherever a reboot came.
THEOREM NoRecordingLost == ASSUME ~SilentCalls PROVE Spec => []NothingLost
  BY Invariance, PTL DEF IndInv

------------------------------------------------------------------------------
(* Recordings of calls in which nothing may be written for a minute. *)

\* A recording is not given up before some of it has reached the backend.
NeverDiscarded ==
    \A r \in Recordings :
        r \in marked \/ (call[r] # "before" /\ r \notin exists) => stored[r] # {}

\* A script gets past the upload only when the backend has stored what it sent.
PastUpload ==
    \A s \in Scripts :
        upload[s].step \in {"marking", "deleting", "unmarking"} => stored[upload[s].of] # {}

LEMMA DiscardStep ==
  TypeOK /\ NeverDiscarded /\ PastUpload /\ [Next]_vars => NeverDiscarded' /\ PastUpload'
<1> SUFFICES ASSUME TypeOK, NeverDiscarded, PastUpload, [Next]_vars
             PROVE  NeverDiscarded' /\ PastUpload'
  OBVIOUS
<1> USE DEF TypeOK, NeverDiscarded, PastUpload, At, Scripts, Idle, disk
<1>1. ASSUME NEW r \in Recordings, StartRecording(r) \/ Write(r) \/ Age(r) \/ StopRecording(r)
      PROVE  NeverDiscarded' /\ PastUpload'
  BY <1>1 DEF StartRecording, Write, Age, StopRecording, Runs
<1>2. CASE EditConfig \/ Reboot
  BY <1>2 DEF EditConfig, Reboot
<1>3. ASSUME NEW s \in Scripts, Send(s) \/ SendFails(s) PROVE NeverDiscarded' /\ PastUpload'
  BY <1>3 DEF Send, SendFails, Stores, Exits
<1>4. ASSUME NEW s \in Scripts, SendSucceeds(s) PROVE NeverDiscarded' /\ PastUpload'
  BY <1>4 DEF SendSucceeds, Stores, Goes
<1>5. ASSUME NEW s \in Scripts, Mark(s) \/ DeleteRecording(s) \/ DeleteMarker(s)
      PROVE  NeverDiscarded' /\ PastUpload'
  BY <1>5 DEF Mark, DeleteRecording, DeleteMarker, Exits, Goes
<1>6. ASSUME NEW c \in CronRuns, StartCron(c) \/ Loop(c) PROVE NeverDiscarded' /\ PastUpload'
  BY <1>6 DEF StartCron, Loop, SkipMarked, Retry, Visit, Runs
<1>7. CASE UNCHANGED vars
  BY <1>7 DEF vars
<1> QED BY <1>1, <1>2, <1>3, <1>4, <1>5, <1>6, <1>7 DEF Next, Upload

\* Where cron takes the recording of a silent call for a finished one, and the backend is
\* left with a part of it, a marker or a deletion still means that it has stored something:
\* no failure, overlap of scripts or reboot discards a recording nobody has received.
THEOREM NothingDiscarded == Spec => []NeverDiscarded
<1>1. Init => TypeOK /\ NeverDiscarded /\ PastUpload
  BY IndInvInit DEF IndInv, Init, Idle, NeverDiscarded, PastUpload
<1>2. TypeOK /\ NeverDiscarded /\ PastUpload /\ [Next]_vars
      => TypeOK' /\ NeverDiscarded' /\ PastUpload'
  BY TypeStep, DiscardStep
<1> QED BY <1>1, <1>2, PTL DEF Spec

------------------------------------------------------------------------------
(* The installer. *)

\* Secrets are a number for each part, or missing; none are missing from those of a run,
\* and of the data.
Complete(s) == \A p \in Part : s[p] # NoSecrets

Typed ==
    /\ {secrets, stateFile, env, volume} \subseteq [Part -> Nat \cup {NoSecrets}]
    /\ generated \in Nat
    /\ step \notin {"idle", "updated"} => Complete(secrets)
    /\ volume = Blank \/ Complete(volume)

\* A run that has started the provisioner again has rendered the files with it.
Rendered ==
    /\ step \in {"save", "write", "write_keys", "asterisk", "manager", "restart", "configure",
                 "database", "migrate", "admin", "services"} => ~recreated
    /\ recreated /\ step \in {"trunk", "rule", "finish"} => files = saved

\* What exists once at most, and what the rule and a password presuppose.
Counted ==
    /\ accounts \in {0, 1} /\ trunks \in {0, 1} /\ rules \in {0, 1}
    /\ rules = 1 \/ step = "rule" => trunks = 1
    /\ password # "none" => accounts = 1

\* How far a run has got with the secrets: it has written them into install.env, into
\* Asterisk's configuration, into the running Asterisk, into the runtime configuration,
\* and into the provisioner; and past the migration the database takes its password.
Told ==
    /\ step \in {"asterisk", "manager", "restart", "configure", "database", "migrate", "admin",
                 "services", "trunk", "rule", "finish", "done"} => stateFile = secrets
    /\ step \in {"restart", "configure", "database", "migrate", "admin", "services", "trunk",
                 "rule", "finish", "done"} => manager = secrets["keys"]
    /\ step \in {"configure", "database", "migrate", "admin", "services", "trunk", "rule",
                 "finish", "done"} => accepted = secrets["keys"]
    /\ step \in {"database", "migrate", "admin", "services", "trunk", "rule", "finish", "done"}
         => env = secrets
    /\ step \in {"admin", "services", "trunk", "rule", "finish", "done"}
         => secrets["database"] = volume["database"]
    /\ step \in {"trunk", "rule", "finish", "done"} => provisioner = secrets["keys"]

\* Each of the invariants that the runs check, with what makes it inductive.
SecretsInv == SecretsMatchData /\ Told /\ Typed
RoutesInv == RoutesAreServed /\ Rendered
OfficeInv == SecretsInv /\ RoutesInv /\ Counted

LEMMA ToldStep ==
  ASSUME Told, [OfficeNext]_officeVars PROVE Told'
<1> USE DEF Told, Reached, Goto
<1>1. CASE LoadConfiguration
  BY <1>1 DEF LoadConfiguration
<1>2. CASE TruncateStateFile \/ WritePassword
  BY <1>2 DEF TruncateStateFile, WritePassword, Saves
<1>3. CASE WriteKeys
  BY <1>3 DEF WriteKeys, Saves, runtime
<1>4. CASE EmptyGeneratedFiles
  BY <1>4 DEF EmptyGeneratedFiles, machine, runtime, keys
<1>5. CASE ConfigureManager
  BY <1>5 DEF ConfigureManager, machine, runtime
<1>6. CASE RestartAsterisk
  BY <1>6 DEF RestartAsterisk, AsteriskStarts, machine, runtime
<1>7. CASE WriteRuntimeConfiguration
  BY <1>7 DEF WriteRuntimeConfiguration, keys
<1>8. CASE StartDatabase
  BY <1>8 DEF StartDatabase, keys
<1>9. CASE Migrate
  BY <1>9 DEF Migrate, Connects, machine, runtime, keys
<1>10. CASE BootstrapAdmin
  BY <1>10 DEF BootstrapAdmin, machine, runtime, keys
<1>11. CASE StartServices
  BY <1>11 DEF StartServices, ComposeUp, machine, runtime, keys
<1>12. CASE ProvisionTrunk \/ ProvisionRule \/ Finish
  BY <1>12 DEF ProvisionTrunk, ProvisionRule, Finish, machine, runtime, keys
<1>13. CASE RestartAsteriskAgain
  BY <1>13 DEF RestartAsteriskAgain, AsteriskStarts, machine, runtime
<1>14. CASE CutShort \/ PowerFails
  BY <1>14 DEF CutShort, PowerFails
<1>15. CASE ChangePassword \/ AdminCommand
  BY <1>15 DEF ChangePassword, AdminCommand, machine, runtime, keys
<1>16. CASE Provision \/ ProvisionFails
  BY <1>16 DEF Provision, ProvisionFails, machine, runtime, keys
<1>17. CASE UpdateContainers \/ UpdateAsterisk
  BY <1>17 DEF UpdateContainers, UpdateAsterisk
<1>18. CASE UNCHANGED officeVars
  BY <1>18 DEF officeVars, machine, runtime, keys
<1> QED
  BY <1>1, <1>2, <1>3, <1>4, <1>5, <1>6, <1>7, <1>8, <1>9, <1>10, <1>11, <1>12, <1>13, <1>14,
     <1>15, <1>16, <1>17, <1>18 DEF OfficeNext, Run, Office

LEMMA TypedStep ==
  ASSUME Typed, Told, [OfficeNext]_officeVars PROVE Typed'
<1> USE OfficeBounds, NoSecretsAssumption DEF Typed, Complete, Blank, Reached, Goto
<1>1. CASE LoadConfiguration
  BY <1>1 DEF LoadConfiguration
<1>2. CASE TruncateStateFile \/ WritePassword \/ WriteKeys
  BY <1>2 DEF TruncateStateFile, WritePassword, WriteKeys, Saves, runtime
<1>3. CASE EmptyGeneratedFiles \/ ConfigureManager \/ RestartAsterisk \/ RestartAsteriskAgain
  BY <1>3 DEF EmptyGeneratedFiles, ConfigureManager, RestartAsterisk, RestartAsteriskAgain,
              machine, runtime
<1>4. CASE WriteRuntimeConfiguration
  BY <1>4 DEF WriteRuntimeConfiguration
<1>5. CASE StartDatabase
  BY <1>5 DEF StartDatabase, Told
<1>6. CASE \/ Migrate \/ BootstrapAdmin \/ StartServices \/ ProvisionTrunk \/ ProvisionRule
           \/ Finish
  BY <1>6 DEF Migrate, BootstrapAdmin, StartServices, ProvisionTrunk, ProvisionRule, Finish,
              machine, runtime
<1>7. CASE CutShort \/ PowerFails
  BY <1>7 DEF CutShort, PowerFails, runtime
<1>8. CASE Office
  BY <1>8 DEF Office, ChangePassword, Provision, ProvisionFails, AdminCommand,
              UpdateContainers, UpdateAsterisk, machine, runtime
<1>9. CASE UNCHANGED officeVars
  BY <1>9 DEF officeVars, machine, runtime
<1> QED
  BY <1>1, <1>2, <1>3, <1>4, <1>5, <1>6, <1>7, <1>8, <1>9 DEF OfficeNext, Run

\* The part of a run up to the database, where secrets are written down.
LEMMA SecretsStep ==
  ASSUME SecretsInv, [OfficeNext]_officeVars PROVE SecretsMatchData'
<1> USE DEF SecretsInv, SecretsMatchData, Reached, Goto
<1>1. CASE LoadConfiguration
  BY <1>1 DEF LoadConfiguration, Typed, Complete
<1>2. CASE TruncateStateFile \/ WritePassword \/ WriteKeys
  BY <1>2 DEF TruncateStateFile, WritePassword, WriteKeys, Saves, runtime
<1>3. CASE WriteRuntimeConfiguration
  BY <1>3 DEF WriteRuntimeConfiguration
<1>4. CASE StartDatabase
  BY <1>4 DEF StartDatabase, Told
<1>5. CASE EmptyGeneratedFiles \/ ConfigureManager \/ RestartAsterisk \/ RestartAsteriskAgain
  BY <1>5 DEF EmptyGeneratedFiles, ConfigureManager, RestartAsterisk, RestartAsteriskAgain,
              machine, runtime
<1>6. CASE \/ Migrate \/ BootstrapAdmin \/ StartServices \/ ProvisionTrunk \/ ProvisionRule
           \/ Finish
  BY <1>6 DEF Migrate, BootstrapAdmin, StartServices, ProvisionTrunk, ProvisionRule, Finish,
              machine, runtime
<1>7. CASE CutShort \/ PowerFails
  BY <1>7 DEF CutShort, PowerFails, Tears, runtime
<1>8. CASE Office
  BY <1>8 DEF Office, ChangePassword, Provision, ProvisionFails, AdminCommand,
              UpdateContainers, UpdateAsterisk, machine, runtime
<1>9. CASE UNCHANGED officeVars
  BY <1>9 DEF officeVars, machine, runtime
<1> QED
  BY <1>1, <1>2, <1>3, <1>4, <1>5, <1>6, <1>7, <1>8, <1>9 DEF OfficeNext, Run

\* The phone numbers in the files that Asterisk reads, from their removal to the restart.
\* The provisioner that a run starts has the password of the Asterisk it has restarted.
LEMMA RoutesStep ==
  ASSUME RoutesInv, Told, [OfficeNext]_officeVars PROVE RoutesInv'
<1> USE DEF RoutesInv, Rendered, RoutesAreServed, Reached, Goto
<1>1. CASE LoadConfiguration
  BY <1>1 DEF LoadConfiguration
<1>2. CASE TruncateStateFile \/ WritePassword \/ WriteKeys
  BY <1>2 DEF TruncateStateFile, WritePassword, WriteKeys, Saves, routes
<1>3. CASE EmptyGeneratedFiles \/ ConfigureManager \/ RestartAsterisk
  BY <1>3 DEF EmptyGeneratedFiles, ConfigureManager, RestartAsterisk, AsteriskStarts, routes
<1>4. CASE WriteRuntimeConfiguration \/ StartDatabase
  BY <1>4 DEF WriteRuntimeConfiguration, StartDatabase, routes
<1>5. CASE StartServices
  BY <1>5 DEF StartServices, ComposeUp, Told
<1>6. CASE RestartAsteriskAgain
  BY <1>6 DEF RestartAsteriskAgain, AsteriskStarts
<1>7. CASE Migrate \/ BootstrapAdmin \/ ProvisionTrunk \/ ProvisionRule \/ Finish
  BY <1>7 DEF Migrate, BootstrapAdmin, ProvisionTrunk, ProvisionRule, Finish, routes
<1>8. CASE CutShort \/ PowerFails
  BY <1>8 DEF CutShort, PowerFails, routes
<1>9. CASE Provision
  BY <1>9 DEF Provision
<1>10. CASE ProvisionFails
  BY <1>10 DEF ProvisionFails
<1>11. CASE ChangePassword \/ AdminCommand
  BY <1>11 DEF ChangePassword, AdminCommand, routes
<1>12. CASE UpdateContainers \/ UpdateAsterisk
  BY <1>12 DEF UpdateContainers, UpdateAsterisk
<1>13. CASE UNCHANGED officeVars
  BY <1>13 DEF officeVars, routes
<1> QED
  BY <1>1, <1>2, <1>3, <1>4, <1>5, <1>6, <1>7, <1>8, <1>9, <1>10, <1>11, <1>12, <1>13
  DEF OfficeNext, Run, Office

\* What a run creates is looked for first, and nothing else creates it.  A changed
\* password belongs to an administrator, who is not created again.
LEMMA CountedStep ==
  ASSUME Counted, [OfficeNext]_officeVars
  PROVE  Counted' /\ (password = "changed" => password' = "changed")
<1> USE DEF Counted, Reached, Goto
<1>1. CASE BootstrapAdmin
  BY <1>1 DEF BootstrapAdmin, Bootstrap, livekit
<1>2. CASE AdminCommand \/ UpdateAsterisk
  BY <1>2 DEF AdminCommand, UpdateAsterisk, Bootstrap, livekit
<1>3. CASE ProvisionTrunk
  BY <1>3 DEF ProvisionTrunk, dashboard
<1>4. CASE ProvisionRule
  BY <1>4 DEF ProvisionRule, dashboard
<1>5. CASE ChangePassword
  BY <1>5 DEF ChangePassword, livekit
<1>6. CASE \/ LoadConfiguration \/ TruncateStateFile \/ WritePassword \/ WriteKeys
           \/ EmptyGeneratedFiles \/ ConfigureManager \/ RestartAsterisk
  BY <1>6 DEF LoadConfiguration, TruncateStateFile, WritePassword, WriteKeys, Saves,
              EmptyGeneratedFiles, ConfigureManager, RestartAsterisk, dashboard, livekit
<1>7. CASE \/ WriteRuntimeConfiguration \/ StartDatabase \/ Migrate \/ StartServices
           \/ RestartAsteriskAgain \/ Finish
  BY <1>7 DEF WriteRuntimeConfiguration, StartDatabase, Migrate, StartServices,
              RestartAsteriskAgain, Finish, dashboard, livekit
<1>8. CASE CutShort \/ PowerFails \/ Provision \/ ProvisionFails \/ UpdateContainers
  BY <1>8 DEF CutShort, PowerFails, Provision, ProvisionFails, UpdateContainers, dashboard,
              livekit
<1>9. CASE UNCHANGED officeVars
  BY <1>9 DEF officeVars, dashboard, livekit
<1> QED
  BY <1>1, <1>2, <1>3, <1>4, <1>5, <1>6, <1>7, <1>8, <1>9 DEF OfficeNext, Run, Office

\* The invariant of the installer.
THEOREM OfficeInvariance == OfficeSpec => []OfficeInv
<1>1. OfficeInit => OfficeInv
  <2> SUFFICES ASSUME OfficeInit PROVE OfficeInv
    OBVIOUS
  <2>1. Typed
    BY DEF OfficeInit, Typed, Blank
  <2> QED
    BY <2>1 DEF OfficeInit, OfficeInv, SecretsInv, RoutesInv, Counted, Told, Rendered,
                SecretsMatchData, RoutesAreServed, Reached
<1>2. OfficeInv /\ [OfficeNext]_officeVars => OfficeInv'
  BY ToldStep, TypedStep, SecretsStep, RoutesStep, CountedStep
  DEF OfficeInv, SecretsInv
<1> QED BY <1>1, <1>2, PTL DEF OfficeSpec

\* The secrets of every run, of install.env and of the runtime configuration are those of
\* the data, unless a run was cut short while it wrote install.env.
THEOREM SecretsAreKept == OfficeSpec => []SecretsMatchData
BY OfficeInvariance, PTL DEF OfficeInv, SecretsInv

\* In histories with a torn install.env too, a run that finishes has told its secrets to
\* the next run, to the containers, to Asterisk and to the provisioner, and the database
\* takes its password.
THEOREM FinishedRunsAgree == OfficeSpec => []FinishedRunAgrees
<1>1. Told => FinishedRunAgrees
  BY DEF Told, FinishedRunAgrees, Reached
<1> QED BY <1>1, OfficeInvariance, PTL DEF OfficeInv, SecretsInv

\* A run that starts the provisioner again leaves Asterisk with the phone numbers it had.
THEOREM RoutesComeBack == OfficeSpec => []RoutesAreServed
BY OfficeInvariance, PTL DEF OfficeInv, RoutesInv

\* Repeated runs and commands leave one administrator, one trunk and one rule, and a
\* changed password stays changed.
THEOREM NothingTwice == OfficeSpec => OneOfEach
<1>1. OfficeInv /\ [OfficeNext]_officeVars
      => [/\ accounts' <= 1 /\ trunks' <= 1 /\ rules' <= trunks'
          /\ password = "changed" => password' = "changed"]_officeVars
  <2> SUFFICES ASSUME OfficeInv, [OfficeNext]_officeVars
               PROVE  /\ accounts' <= 1 /\ trunks' <= 1 /\ rules' <= trunks'
                      /\ password = "changed" => password' = "changed"
    OBVIOUS
  <2>1. Counted' /\ (password = "changed" => password' = "changed")
    BY CountedStep DEF OfficeInv
  <2> QED BY <2>1 DEF Counted
<1> QED BY OfficeInvariance, <1>1, PTL DEF OfficeSpec, OneOfEach
==============================================================================
