--------------------------- MODULE RecordingUpload ---------------------------
(***************************************************************************)
(* What happens to the recordings of calls:                                *)
(* upload-asterisk-recording.sh, which MixMonitor runs when a recording    *)
(* ends and which retry-pending-asterisk-recordings.sh, a cron job, runs   *)
(* for the recordings without a marker.  The jobs overlap one another and  *)
(* the uploads at hangup, and all of them work on the same files.          *)
(*                                                                         *)
(* What is abstracted.  A recording stands for its file name, and that for *)
(* the linked id: both scripts take it from there.  What is in a file is   *)
(* its length, and an upload sends the file as it is when curl opens it.   *)
(* curl's own retries are part of one upload, whose end is a choice:       *)
(* stored, stored without an answer, or not stored.  MixMonitor and the    *)
(* backend are external; the backend refuses the recordings it has no call *)
(* for.                                                                    *)
(***************************************************************************)
EXTENDS Naturals

CONSTANTS
    Recordings,   \* calls that are recorded
    CronRuns,     \* runs of the cron job at one time
    Refused,      \* the recordings the backend has no call for
    SilentCalls,  \* nothing may be written to the file of a call for a minute
    MaxLength,    \* bound on the length of a recording
    MaxFaults,    \* bound on failed uploads and reboots
    None          \* no recording

ASSUME RefusedAssumption == Refused \subseteq Recordings
ASSUME SilenceAssumption == SilentCalls \in BOOLEAN
ASSUME BoundsAssumption == MaxLength \in Nat /\ MaxFaults \in Nat
ASSUME NamesAssumption == Recordings \cap CronRuns = {} /\ None \notin Recordings

VARIABLES
    call,     \* per recording: its call is still to come, goes on, or is over
    exists,   \* the recordings that have a file
    length,   \* per recording: the length of its file
    aged,     \* the recordings whose file was not written to for a minute
    marked,   \* the recordings with a file .uploaded
    stored,   \* per recording: the lengths the backend has stored
    upload,   \* per upload script: what it is doing, for which recording and with what
    todo,     \* per cron run: the files that find listed and the loop has not read yet
    delete,   \* DELETE_AFTER_UPLOAD of ai-agent-recording.conf
    faults    \* faults so far

disk == <<exists, length, aged, marked>>
vars == <<call, disk, stored, upload, todo, delete, faults>>

\* The upload of a recording at its end is named by the recording, and the one that
\* the loop of a cron run is waiting for by the cron run.
Scripts == Recordings \cup CronRuns

Idle == [step |-> "idle", of |-> None, sent |-> 0, deletes |-> FALSE]

Fault == faults < MaxFaults /\ faults' = faults + 1

Init ==
    /\ call = [r \in Recordings |-> "before"]
    /\ exists = {}
    /\ length = [r \in Recordings |-> 0]
    /\ aged = {}
    /\ marked = {}
    /\ stored = [r \in Recordings |-> {}]
    /\ upload = [s \in Scripts |-> Idle]
    /\ todo = [c \in CronRuns |-> {}]
    /\ delete = FALSE
    /\ faults = 0

------------------------------------------------------------------------------
(* MixMonitor, the clock, and the machine (external). *)

\* The script is run with a recording of that length, reads its configuration, and ends
\* if there is no file or an empty one.
Runs(s, r, size) ==
    upload' = [upload EXCEPT ![s] =
                  IF r \in exists /\ size > 0
                  THEN [step |-> "started", of |-> r, sent |-> 0, deletes |-> delete]
                  ELSE Idle]

StartRecording(r) ==
    /\ call[r] = "before"
    /\ call' = [call EXCEPT ![r] = "on"]
    /\ exists' = exists \cup {r}
    /\ UNCHANGED <<length, aged, marked, stored, upload, todo, delete, faults>>

Grow(r) == length[r] < MaxLength /\ length' = [length EXCEPT ![r] = @ + 1]

\* What is written to a file that was deleted is gone.
Write(r) ==
    /\ call[r] = "on" /\ r \in exists
    /\ Grow(r)
    /\ aged' = aged \ {r}
    /\ UNCHANGED <<call, exists, marked, stored, upload, todo, delete, faults>>

\* A minute goes by.
Age(r) ==
    /\ r \in exists \ aged
    /\ call[r] = "over" \/ SilentCalls
    /\ aged' = aged \cup {r}
    /\ UNCHANGED <<call, exists, length, marked, stored, upload, todo, delete, faults>>

\* StopMixMonitor, or the end of the channel: the file is closed, with what was still
\* to be written, and the script is run.
StopRecording(r) ==
    /\ call[r] = "on"
    /\ Grow(r) \/ UNCHANGED length
    /\ call' = [call EXCEPT ![r] = "over"]
    /\ aged' = aged \ {r}
    /\ Runs(r, r, length'[r])
    /\ UNCHANGED <<exists, marked, stored, todo, delete, faults>>

\* README: "Keep DELETE_AFTER_UPLOAD=false until uploads and playback have been
\* verified."
EditConfig ==
    /\ delete' = ~delete
    /\ UNCHANGED <<call, disk, stored, upload, todo, faults>>

\* Calls and scripts end wherever they are; files stay.
Reboot ==
    /\ Fault
    /\ call' = [r \in Recordings |-> IF call[r] = "on" THEN "over" ELSE call[r]]
    /\ upload' = [s \in Scripts |-> Idle]
    /\ todo' = [c \in CronRuns |-> {}]
    /\ UNCHANGED <<disk, stored, delete>>

------------------------------------------------------------------------------
(* upload-asterisk-recording.sh *)

At(s, step) == upload[s].step = step

\* set -e: the script ends, with its work done or where a command failed.
Exits(s) == upload' = [upload EXCEPT ![s] = Idle]

Goes(s, step) == upload' = [upload EXCEPT ![s].step = step]

\* The file must still be there when curl opens it.
Send(s) ==
    LET r == upload[s].of
    IN  /\ At(s, "started")
        /\ IF r \in exists
           THEN upload' = [upload EXCEPT ![s].step = "sending", ![s].sent = length[r]]
           ELSE Exits(s)
        /\ UNCHANGED <<call, disk, stored, todo, delete, faults>>

Stores(s) == stored' = [stored EXCEPT ![upload[s].of] = @ \cup {upload[s].sent}]

SendSucceeds(s) ==
    /\ At(s, "sending") /\ upload[s].of \notin Refused
    /\ Stores(s)
    /\ Goes(s, IF upload[s].deletes THEN "deleting" ELSE "marking")
    /\ UNCHANGED <<call, disk, todo, delete, faults>>

\* Mutant: without set -e the script goes on when curl has failed.
SendFails_goesOn(s) ==
    /\ At(s, "sending")
    /\ IF upload[s].of \in Refused
       THEN UNCHANGED <<stored, faults>>
       ELSE Fault /\ (Stores(s) \/ UNCHANGED stored)
    /\ Goes(s, "marking")
    /\ UNCHANGED <<call, disk, todo, delete>>

\* Mutant: without "|| true" the loop of the cron run ends with the upload.
SendFails_endsLoop(s) ==
    /\ At(s, "sending")
    /\ IF upload[s].of \in Refused
       THEN UNCHANGED <<stored, faults>>
       ELSE Fault /\ (Stores(s) \/ UNCHANGED stored)
    /\ Exits(s)
    /\ todo' = [c \in CronRuns |-> IF c = s THEN {} ELSE todo[c]]
    /\ UNCHANGED <<call, disk, delete>>

\* Refused, or no answer after the last retry, whatever the backend has done.
SendFails(s) ==
    /\ At(s, "sending")
    /\ IF upload[s].of \in Refused
       THEN UNCHANGED <<stored, faults>>
       ELSE Fault /\ (Stores(s) \/ UNCHANGED stored)
    /\ Exits(s)
    /\ UNCHANGED <<call, disk, todo, delete>>

Mark(s) ==
    /\ At(s, "marking")
    /\ marked' = marked \cup {upload[s].of}
    /\ Exits(s)
    /\ UNCHANGED <<call, exists, length, aged, stored, todo, delete, faults>>

DeleteRecording(s) ==
    /\ At(s, "deleting")
    /\ exists' = exists \ {upload[s].of}
    /\ aged' = aged \ {upload[s].of}
    /\ Goes(s, "unmarking")
    /\ UNCHANGED <<call, length, marked, stored, todo, delete, faults>>

DeleteMarker(s) ==
    /\ At(s, "unmarking")
    /\ marked' = marked \ {upload[s].of}
    /\ Exits(s)
    /\ UNCHANGED <<call, exists, length, aged, stored, todo, delete, faults>>

------------------------------------------------------------------------------
(* retry-pending-asterisk-recordings.sh *)

\* Mutant: find without -mmin lists the files of calls that go on.
Listed_anyAge == exists

\* find lists the files that have not been written to for a minute.
Listed == aged

\* Cron starts the script every five minutes, whether or not the last run has ended.
StartCron(c) ==
    /\ At(c, "idle") /\ todo[c] = {}
    /\ todo' = [todo EXCEPT ![c] = Listed]
    /\ UNCHANGED <<call, disk, stored, upload, delete, faults>>

Visit(c, r) ==
    /\ At(c, "idle") /\ r \in todo[c]
    /\ todo' = [todo EXCEPT ![c] = @ \ {r}]

SkipMarked(c, r) ==
    /\ Visit(c, r)
    /\ r \in marked
    /\ UNCHANGED <<call, disk, stored, upload, delete, faults>>

\* The loop waits for the uploader and goes on whatever its exit status is.
Retry(c, r) ==
    /\ Visit(c, r)
    /\ r \notin marked
    /\ Runs(c, r, length[r])
    /\ UNCHANGED <<call, disk, stored, delete, faults>>

------------------------------------------------------------------------------

Upload(s) ==
    \/ Send(s) \/ SendSucceeds(s) \/ SendFails(s)
    \/ Mark(s) \/ DeleteRecording(s) \/ DeleteMarker(s)

Loop(c) == \E r \in Recordings : SkipMarked(c, r) \/ Retry(c, r)

Next ==
    \/ \E r \in Recordings : StartRecording(r) \/ Write(r) \/ Age(r) \/ StopRecording(r)
    \/ \E s \in Scripts : Upload(s)
    \/ \E c \in CronRuns : StartCron(c) \/ Loop(c)
    \/ EditConfig
    \/ Reboot

\* curl has a timeout and a bounded number of retries; time goes by; cron runs.
Fairness ==
    /\ \A s \in Scripts : WF_vars(Upload(s))
    /\ \A c \in CronRuns : WF_vars(StartCron(c)) /\ WF_vars(Loop(c))
    /\ \A r \in Recordings : WF_vars(Age(r))

Spec == Init /\ [][Next]_vars /\ Fairness

------------------------------------------------------------------------------
(* Properties. *)

Step == {"idle", "started", "sending", "marking", "deleting", "unmarking"}

\* Every variable keeps to the values the scripts can give it.
TypeOK ==
    /\ call \in [Recordings -> {"before", "on", "over"}]
    /\ exists \subseteq Recordings
    /\ length \in [Recordings -> 0 .. MaxLength]
    /\ aged \subseteq exists
    /\ marked \subseteq Recordings
    /\ stored \in [Recordings -> SUBSET (0 .. MaxLength)]
    /\ upload \in [Scripts -> [step : Step, of : Recordings \cup {None}, sent : 0 .. MaxLength,
                              deletes : BOOLEAN]]
    /\ \A s \in Scripts : ~At(s, "idle") => upload[s].of \in Recordings
    /\ todo \in [CronRuns -> SUBSET Recordings]
    /\ delete \in BOOLEAN
    /\ faults \in 0 .. MaxFaults

Whole(r) == call[r] = "over" /\ length[r] \in stored[r]

\* A recording is given up, by its marker or by the deletion of its file, only when
\* the backend has all of it: whether the call's own upload or a cron run got there
\* first, whichever of them failed, and wherever a reboot stopped them.
NothingLost ==
    \A r \in Recordings :
        r \in marked \/ (call[r] # "before" /\ r \notin exists) => Whole(r)

\* What makes NothingLost inductive: no script ever works on the file of a call that
\* still goes on, so that what curl opened is what the file ends with.
OnlyFinished ==
    /\ \A r \in aged : call[r] = "over"
    /\ \A c \in CronRuns : \A r \in todo[c] : call[r] = "over"
    /\ \A s \in Scripts : ~At(s, "idle") =>
          /\ call[upload[s].of] = "over"
          /\ At(s, "sending") => upload[s].sent = length[upload[s].of]
          /\ upload[s].step \in {"marking", "deleting", "unmarking"} => Whole(upload[s].of)

IndInv == TypeOK /\ NothingLost /\ OnlyFinished

\* Every recording with anything in it reaches the backend in the end, if that has a
\* call for it: an upload that fails is made up for by cron, and a recording the
\* backend refuses for ever does not keep the loop from the others.
EveryRecordingArrives ==
    \A r \in Recordings \ Refused :
        call[r] = "over" /\ length[r] > 0 ~> length[r] \in stored[r]
==============================================================================
