------------------------------- MODULE Installer -------------------------------
(***************************************************************************)
(* install.sh of the local office, run again and again on one machine,     *)
(* with bootstrap_admin.py and provision_livekit.py that it runs in the    *)
(* containers, and the commands "bootstrap-admin" and "update" of          *)
(* mozaic-office.  A run is cut short anywhere, by a failing command       *)
(* (set -e), its operator, or the power.                                   *)
(*                                                                         *)
(* What is abstracted.  The secrets that a run generates together have    *)
(* one number; the database password is told apart from the keys, which    *)
(* come after it in install.env, and of which one missing counts as all.   *)
(* What Asterisk and the provisioner know of the phone numbers is a        *)
(* version, 0 if nothing.  Packages, sources, the firewall and the steps   *)
(* that write the same files every time are left out, and so is a user of  *)
(* the administrator's address in no company.  Docker, Postgres, LiveKit   *)
(* and the provisioner (see Provisioner.tla) are external.                 *)
(*                                                                         *)
(* The names are apart from those of RecordingUpload, the other scripts of *)
(* the local office, as LocalOfficeProofs extends both.                    *)
(***************************************************************************)
EXTENDS Naturals

CONSTANTS
    MaxSecrets,  \* bound on the secrets generated
    MaxRoutes,   \* bound on the changes of the phone numbers
    NoSecrets    \* before any are generated

ASSUME OfficeBounds == {MaxSecrets, MaxRoutes} \subseteq Nat
ASSUME NoSecretsAssumption == NoSecrets \notin Nat

VARIABLES
    step,       \* where the run is, or "idle"
    secrets,    \* the secrets the run works with
    generated,  \* how often secrets were generated so far
    stateFile,  \* the secrets in install.env
    env,        \* those in the runtime configuration
    volume,     \* those the data was initialised with
    torn,       \* a run was cut short while it wrote install.env
    accounts,   \* administrators with a company and a subscription
    password,   \* of the administrator: none, the initial one, or changed
    trunks, rules,  \* how many LiveKit has under the installer's names
    provisioner,    \* the keys that the provisioner runs with
    recreated,      \* this run has started the provisioner
    manager,    \* the keys in Asterisk's own configuration
    accepted,   \* those that Asterisk runs with
    saved,      \* the phone numbers in the provisioner's state
    files,      \* those in the generated files of Asterisk
    running     \* those that Asterisk runs

runtime == <<secrets, generated, env, volume>>
machine == <<runtime, stateFile, torn>>
dashboard == <<accounts, password>>
livekit == <<trunks, rules>>
keys == <<manager, accepted>>
routes == <<saved, files, running>>
officeVars ==
    <<step, machine, dashboard, livekit, provisioner, recreated, keys, routes>>

Part == {"database", "keys"}
Blank == [p \in Part |-> NoSecrets]

OfficeInit ==
    /\ step = "idle"
    /\ secrets = Blank /\ generated = 0
    /\ stateFile = Blank /\ env = Blank /\ volume = Blank
    /\ torn = FALSE
    /\ accounts = 0 /\ password = "none"
    /\ trunks = 0 /\ rules = 0
    /\ provisioner = NoSecrets /\ recreated = FALSE
    /\ manager = NoSecrets /\ accepted = NoSecrets
    /\ saved = 0 /\ files = 0 /\ running = 0

Reached(label) == step = label
Goto(label) == step' = label

------------------------------------------------------------------------------
(* install.sh *)

\* Mutant: the secrets are generated although install.env has them.
LoadConfiguration_anew ==
    /\ Reached("idle")
    /\ generated < MaxSecrets
    /\ generated' = generated + 1
    /\ secrets' = [p \in Part |-> generated + 1]
    /\ recreated' = FALSE
    /\ Goto("save")
    /\ UNCHANGED <<stateFile, env, volume, torn, dashboard, livekit, provisioner, keys, routes>>

\* What install.env does not have is generated.
LoadConfiguration ==
    /\ Reached("idle")
    /\ IF \E p \in Part : stateFile[p] = NoSecrets
       THEN generated < MaxSecrets /\ generated' = generated + 1
       ELSE UNCHANGED generated
    /\ secrets' = [p \in Part |->
                      IF stateFile[p] = NoSecrets THEN generated + 1 ELSE stateFile[p]]
    /\ recreated' = FALSE
    /\ Goto("save")
    /\ UNCHANGED <<stateFile, env, volume, torn, dashboard, livekit, provisioner, keys, routes>>

Saves(from, content, next) ==
    /\ Reached(from)
    /\ stateFile' = content
    /\ Goto(next)
    /\ UNCHANGED <<runtime, torn, dashboard, livekit, provisioner, recreated, keys, routes>>

\* "} > $STATE_FILE" empties the file, and a printf writes each line: the database
\* password before the keys.
TruncateStateFile == Saves("save", Blank, "write")
WritePassword == Saves("write", [Blank EXCEPT !["database"] = secrets["database"]], "write_keys")
WriteKeys == Saves("write_keys", secrets, "asterisk")

\* install /dev/null over the generated files.
EmptyGeneratedFiles ==
    /\ Reached("asterisk")
    /\ files' = 0
    /\ Goto("manager")
    /\ UNCHANGED <<machine, dashboard, livekit, provisioner, recreated, keys, saved, running>>

\* The AMI password and the key of the uploads go into Asterisk's own configuration.
ConfigureManager ==
    /\ Reached("manager")
    /\ manager' = secrets["keys"]
    /\ Goto("restart")
    /\ UNCHANGED <<machine, dashboard, livekit, provisioner, recreated, accepted, routes>>

AsteriskStarts == running' = files /\ accepted' = manager /\ UNCHANGED <<manager, saved, files>>

RestartAsterisk ==
    /\ Reached("restart")
    /\ AsteriskStarts
    /\ Goto("configure")
    /\ UNCHANGED <<machine, dashboard, livekit, provisioner, recreated>>

WriteRuntimeConfiguration ==
    /\ Reached("configure")
    /\ env' = secrets
    /\ Goto("database")
    /\ UNCHANGED <<secrets, generated, stateFile, volume, torn, dashboard, livekit, provisioner,
                   recreated, keys, routes>>

\* compose up: an empty volume is initialised, and another keeps the password it has.
StartDatabase ==
    /\ Reached("database")
    /\ volume' = IF volume = Blank THEN env ELSE volume
    /\ Goto("migrate")
    /\ UNCHANGED <<secrets, generated, stateFile, env, torn, dashboard, livekit, provisioner,
                   recreated, keys, routes>>

Connects == env["database"] = volume["database"]

\* Mutant: without set -e the run goes on when alembic has failed.
Migrate_goesOn ==
    /\ Reached("migrate")
    /\ Goto("admin")
    /\ UNCHANGED <<machine, dashboard, livekit, provisioner, recreated, keys, routes>>

\* The backend and alembic connect with the password of the runtime configuration; if
\* that is refused, the run ends.  Nothing looks at the keys.
Migrate ==
    /\ Reached("migrate")
    /\ Goto(IF Connects THEN "admin" ELSE "idle")
    /\ UNCHANGED <<machine, dashboard, livekit, provisioner, recreated, keys, routes>>

\* Mutant: the administrator is created without a look for an existing one.
Bootstrap_always ==
    /\ accounts' = accounts + 1
    /\ password' = "initial"

\* bootstrap_admin.py: one transaction, or nothing if the administrator exists.
Bootstrap ==
    /\ accounts' = IF accounts = 0 THEN 1 ELSE accounts
    /\ password' = IF accounts = 0 THEN "initial" ELSE password

BootstrapAdmin ==
    /\ Reached("admin")
    /\ Bootstrap
    /\ Goto("services")
    /\ UNCHANGED <<machine, livekit, provisioner, recreated, keys, routes>>

\* Mutant: a provisioner that starts does not reconcile.
ComposeUp_noReconcile ==
    /\ \/ provisioner' = env["keys"] /\ recreated' = TRUE
       \/ provisioner = env["keys"] /\ UNCHANGED <<provisioner, recreated>>
    /\ UNCHANGED routes

\* compose up creates the provisioner again if its image or its environment has changed;
\* otherwise it is left as it is.  One that starts renders the files from its state, and
\* has Asterisk read them if Asterisk accepts its password.
ComposeUp ==
    /\ \/ /\ provisioner' = env["keys"] /\ recreated' = TRUE
          /\ files' = saved
          /\ running' = IF env["keys"] = accepted THEN saved ELSE running
       \/ /\ provisioner = env["keys"]
          /\ UNCHANGED <<provisioner, recreated, files, running>>
    /\ UNCHANGED saved

StartServices ==
    /\ Reached("services")
    /\ ComposeUp
    /\ Goto("trunk")
    /\ UNCHANGED <<machine, dashboard, livekit, keys>>

\* provision_livekit.py looks for both by their names, and creates what is not there.
ProvisionTrunk ==
    /\ Reached("trunk")
    /\ trunks' = IF trunks = 0 THEN 1 ELSE trunks
    /\ Goto("rule")
    /\ UNCHANGED <<machine, dashboard, rules, provisioner, recreated, keys, routes>>

ProvisionRule ==
    /\ Reached("rule")
    /\ rules' = IF rules = 0 THEN 1 ELSE rules
    /\ Goto("finish")
    /\ UNCHANGED <<machine, dashboard, trunks, provisioner, recreated, keys, routes>>

RestartAsteriskAgain ==
    /\ Reached("finish")
    /\ AsteriskStarts
    /\ Goto("done")
    /\ UNCHANGED <<machine, dashboard, livekit, provisioner, recreated>>

Finish ==
    /\ Reached("done")
    /\ Goto("idle")
    /\ UNCHANGED <<machine, dashboard, livekit, provisioner, recreated, keys, routes>>

\* What is lost when a run ends here: a part of install.env.
Tears == torn' = (torn \/ step \in {"write", "write_keys"})

\* The run, or the command "update", ends where it is; every command before has done its
\* work.
CutShort ==
    /\ step \notin {"idle", "done"}
    /\ Tears
    /\ Goto("idle")
    /\ UNCHANGED <<runtime, stateFile, dashboard, livekit, provisioner, recreated, keys, routes>>

------------------------------------------------------------------------------
(* The installed system. *)

\* The power fails: Asterisk and the containers start again, and the provisioner renders
\* the files, before or after Asterisk reads them.
PowerFails ==
    /\ provisioner # NoSecrets
    /\ Tears
    /\ accepted' = manager
    /\ files' = saved
    /\ running' \in IF provisioner = manager THEN {saved} ELSE {files, saved}
    /\ Goto("idle")
    /\ UNCHANGED <<runtime, stateFile, dashboard, livekit, provisioner, recreated, manager,
                   saved>>

\* The administrator changes the initial password after the first login.
ChangePassword ==
    /\ password = "initial"
    /\ password' = "changed"
    /\ UNCHANGED <<step, machine, accounts, livekit, provisioner, recreated, keys, routes>>

\* A phone number is provisioned: all of the files are rendered from the new state.
Provision ==
    /\ provisioner # NoSecrets /\ provisioner = accepted
    /\ saved < MaxRoutes
    /\ saved' = saved + 1 /\ files' = saved + 1 /\ running' = saved + 1
    /\ UNCHANGED <<step, machine, dashboard, livekit, provisioner, recreated, keys>>

\* Asterisk refuses the provisioner's password: the files are put back, to its state.
ProvisionFails ==
    /\ provisioner # NoSecrets /\ provisioner # accepted
    /\ files' = saved
    /\ UNCHANGED <<step, machine, dashboard, livekit, provisioner, recreated, keys, saved,
                   running>>

\* mozaic-office bootstrap-admin
AdminCommand ==
    /\ Reached("idle") /\ provisioner # NoSecrets
    /\ Bootstrap
    /\ UNCHANGED <<step, machine, livekit, provisioner, recreated, keys, routes>>

\* mozaic-office update: the migration, and compose up;
UpdateContainers ==
    /\ Reached("idle") /\ provisioner # NoSecrets
    /\ Connects
    /\ ComposeUp
    /\ Goto("updated")
    /\ UNCHANGED <<machine, dashboard, livekit, keys>>

\* then the administrator, and Asterisk is restarted.
UpdateAsterisk ==
    /\ Reached("updated")
    /\ Bootstrap
    /\ AsteriskStarts
    /\ Goto("idle")
    /\ UNCHANGED <<machine, livekit, provisioner, recreated>>

------------------------------------------------------------------------------

Run ==
    \/ TruncateStateFile \/ WritePassword \/ WriteKeys
    \/ EmptyGeneratedFiles \/ ConfigureManager \/ RestartAsterisk
    \/ WriteRuntimeConfiguration \/ StartDatabase \/ Migrate
    \/ BootstrapAdmin \/ StartServices
    \/ ProvisionTrunk \/ ProvisionRule
    \/ RestartAsteriskAgain \/ Finish

Office ==
    \/ ChangePassword \/ Provision \/ ProvisionFails
    \/ AdminCommand \/ UpdateContainers \/ UpdateAsterisk

OfficeNext == LoadConfiguration \/ Run \/ CutShort \/ PowerFails \/ Office

OfficeSpec == OfficeInit /\ [][OfficeNext]_officeVars

------------------------------------------------------------------------------
(* Properties. *)

\* Whenever a run has got as far as the database, its secrets are the ones of the data,
\* and install.env has them for the next run.  "Secrets are generated once", says
\* local-office/README.md:38; that is not so after a run cut short just while it wrote
\* that file, as the next one generates what it does not find there.
SecretsMatchData ==
    volume # Blank /\ ~torn =>
        /\ secrets = volume /\ env = volume
        /\ step \notin {"write", "write_keys"} => stateFile = volume

\* Where a run finishes, everybody has the secrets of that run: the next run, the
\* containers, Asterisk's configuration, and both ends of the AMI, the running Asterisk
\* and the provisioner, whichever runs were cut short before it and with whichever keys.
\* Its database password is that of the data: with another the run ends at the migration.
FinishedRunAgrees ==
    Reached("done") =>
        /\ stateFile = secrets /\ env = secrets
        /\ secrets["database"] = volume["database"]
        /\ {manager, accepted, provisioner} = {secrets["keys"]}

\* Wherever runs were cut short and repeated, and whatever commands came between, there is
\* one administrator, one trunk and one rule for it, and a changed password stays changed.
OneOfEach ==
    [][ /\ accounts' <= 1 /\ trunks' <= 1 /\ rules' <= trunks'
        /\ password = "changed" => password' = "changed" ]_officeVars

\* A run that starts the provisioner leaves Asterisk with the phone numbers it had, although
\* it has emptied the generated files and restarted Asterisk twice, and although Asterisk
\* and the provisioner may have got new keys on the way.  A run in which compose up leaves
\* the provisioner as it is ends without them, against local-office/README.md:42-43: "It
\* does not delete existing Docker volumes or Asterisk data."
RoutesAreServed == Reached("done") /\ recreated => running = saved
===============================================================================
