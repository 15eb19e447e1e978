# Formal models of the AI voice agent and its Asterisk provisioner

TLA+ specifications of the parts of this repository in which several actors share
state, with the TLC runs that check them on small instances and TLAPS proofs for
every instance. Every definition is translated from the source; `PROJECT.json`
maps each one to its lines.

## 1. The system

| Component | Code | State it keeps | Operations |
|---|---|---|---|
| Provisioning service | `deployment/asterisk/provisioner/app/service.py`, `main.py`, `ami.py` | state file, generated PJSIP and dialplan files, an asyncio lock; Asterisk keeps what it loaded | PUT/GET/DELETE of connections and extensions, reconcile at startup, originate |
| Outbound event monitor | `.../app/events.py`, `main.py:182-195` | pending attempts, Asterisk unique ids, answer times | register/unregister, AMI events, callbacks |
| Call session | `src/app/agent/runtime.py`, `services/transcript_service.py`, `services/call_service.py`, `agent/context.py` | transcript, pending posts, completion flag, hangup/transfer flags | resolve, create, greet, talk, transfer, hang up, time out, complete |
| Knowledge cache | `src/app/services/knowledge_service.py:112-154` | LRU of indexes, in-flight loads | get |
| Backend client | `src/app/backend/client.py` | none (HTTP) | request with retries, idempotency keys |
| Dialplan and PJSIP renderer | `.../app/renderer.py` | none (pure) | render_pjsip, render_dialplan |
| Call routing | `src/app/agent/runtime.py:41-172`, `attributes.py` | none | read SIP headers and attributes |
| Recording upload | `upload-asterisk-recording.sh`, `retry-pending-asterisk-recordings.sh` | recording files and `.uploaded` markers | upload at hangup, cron retry |
| Local-office installer | `deployment/local-office/*.sh`, `bootstrap_admin.py`, `provision_livekit.py` | machine configuration, database rows, LiveKit trunks | install, update, restart |
| Call analysis | `src/app/services/summary_service.py`, `call_service.py:60-75` | none | analyze, complete |
| Providers, instructions, tools, settings, logging | `src/app/providers`, `agent/instructions.py`, `agent/knowledge_agent.py`, `config.py` | none | construction of third-party objects and prompts |

How they interact.

- The backend (a service outside this repository) writes connections and extensions to the
  provisioner over HTTP, and posts outbound calls and their media to it. The provisioner writes two
  configuration files that Asterisk reads when it is told to reload over AMI, and keeps
  its own state file. Statuses of outbound calls go back to the backend as callbacks.
- Asterisk runs the generated dialplan for every call. Calls for the agent are dialled to
  LiveKit, whose room the worker joins as a job. Transfers come back to Asterisk as REFER.
- The worker reads its routing data from SIP headers, resolves the agent and writes the
  call, its messages and its completion to the backend; it downloads knowledge once per
  version into a cache shared by the calls of the process.

What is hard, and what makes each part correct.

| Part | Hard behaviour | Correct when |
|---|---|---|
| Provisioner | two files, Asterisk and a state file changed one after the other, each step may fail, the rollback too; crashes between; reloads done after the service gave up | nothing is lost or half done once the service is quiet; a request has one effect or none |
| Outbound events | HTTP handler and monitor share entries across awaits; events late, lost or out of order | the backend hears one legal story about an attempt, and nothing after a 502 |
| Call session | posts, tools, timeout, hangup and completion interleave at every await; requests done although they failed | the stored call is in spoken order, complete, with a reason that fits how it ended |
| Knowledge cache | shared downloads of versions that overtake one another, failures, cancellation | no call works with old knowledge, the bound holds, nobody waits for ever |
| Dialplan | the other party hangs up on any line, transfers leave a context, extensions disappear | recordings uploaded once, calls stay in their company, channels end |
| Recording upload | hangup upload, overlapping cron runs, reboots, all on the same files | each recording uploaded, and given up only when the backend has all of it |
| Backend client | retries of requests already done, attempts that arrive late | one effect per idempotency key, nothing new after the completion |
| Call analysis | a language model answers what it likes | every completion has a summary, the worker's reason and someone to call back |
| Installer | a run cut short anywhere, between two lines of a file too, and run again | all holders of the secrets agree, one administrator, the phone numbers served |

The full list, with lines, is under `hazards` in `PROJECT.json`.

## 2. Modules

| Module | Models | Proved in |
|---|---|---|
| `AbstractProvisioner` | what the provisioner promises: an atomic map from ids to specifications | |
| `Provisioner` | `ProvisioningService` behind its handlers and in front of Asterisk | `ProvisionerProofs` |
| `OutboundAttempt` | what the backend may be told about one outbound attempt | |
| `OutboundEvents` | originate handler, event monitor, the Asterisk channel between them | `OutboundEventsProofs` |
| `CallRecord` | what the backend may see of one call | |
| `CallSession` | `run_inbound_call` with transcript, completion and tools | `CallSessionProofs` |
| `OnceOnly` | what the client promises about repeated requests | |
| `BackendClient` | `_request` of `client.py`, the network and the backend's keys | `BackendClientProofs` |
| `KnowledgeCache` | `KnowledgeCache.get` with shared downloads | `KnowledgeCacheProofs` |
| `CallAnalysis` | what is stored with a completed call | `CallAnalysisProofs` |
| `Dialplan` | the generated dialplan as the program of one channel | `DialplanProofs` |
| `RecordingUpload` | the two upload scripts on the recordings of several calls | `LocalOfficeProofs` |
| `Installer` | `install.sh` run again and again, with the commands of the office | `LocalOfficeProofs` |
| `MC_*` | the TLC instance of each | |

The operators named `X_word` next to a definition `X` are mutants: the definition as a
plausible bug would have it. `PROJECT.json` names the property that finds each one.

### Provisioner

`stateFile`, `pjsipFile`, `dialplanFile` are the three files; `loaded` is what Asterisk last
read; `queue` is the asyncio lock with its FIFO waiters. A handler's place (`pc`) is one of
the steps of `upsert`/`delete` and their extension twins (`service.py:101-213`):

| Action | Code |
|---|---|
| `InvokeWrite`, `InvokeRead` | the request arrives and waits for the lock, or reads (`main.py`) |
| `Begin`, `DeleteAbsent`, `LoadFails` | lock taken, state loaded; a DELETE of nothing leaves again, and so does a handler whose load raises |
| `RenderPjsip`, `RenderDialplan` | the two atomic file replacements of `_render` |
| `Reload` / `ReloadFails` | AMI reload; failing it was refused, done, or is still queued (`late`) |
| `Save`, `AnswerWrite` | `_save` and release of the lock; then the load of `status()` and, if nothing needs to be queried, the answer |
| `RestorePjsip`, `RestoreDialplan`, `RestoreReload`, `RestoreFails` | `_restore` (lines 63-77) |
| `StatusFound`, `StatusAbsent`, `StatusFails`, `QueryAnswers`, `QueryFails` | `status()`, whose load may raise, with its AMI query for a registration |
| `ReconcilePjsip` ... `ReconcileFails` | `reconcile` at startup |
| `Crash`, `LateReload`, `AsteriskRestart` | the environment |

A specification is a value: only "registration mode" and "disabled" are told apart. A file is
the set of entries it has a section for.

### OutboundEvents

`http[a]` is the POST of attempt `a`, `dial[a]` its channel in Asterisk (external), `events` the
monitor's AMI stream, `pending` and `correlated` the monitor's two dictionaries, `handling` the
event whose callback is awaited, `posted[a]` what the backend was told. The handler registers
*before* Originate and unregisters on failure; `HandleOptOut`, `HandleSuccess`, `HandleFailure`,
`HandleHangup` are the branches of `_handle` up to their callback and `CallbackEnds` the rest, so
a handler may unregister in between. `Ignore` is every early return. `ReplyCutOff` is the
`IncompleteReadError` that nothing catches. The opt-out event is taken as an input, although
the generated dialplan misses it at present (finding `OptOutIsSent`).

### CallSession

`stage` is the await `run_inbound_call` is at; the tasks of `TranscriptService` (`pending`), a
transfer tool call (`transfer`) and the LiveKit session (`session`) interleave with it. `leg` is
what the call really is and `kind` what the worker takes it to be after `ReadHeaders`; for an
outbound leg that is taken for an inbound one, `status`, `messages` and `record` are those of
the call the worker creates. A backend request may be done although it failed. The
transcript task is numbered in the event callback and posts later, so `HandleItem` and `Persist`
are two actions.

| Action | Code |
|---|---|
| `Join`, `ReadHeaders`, `Resolve`, `CreateCall`, `AwaitKnowledge`, `Build`, `Start`, `Greet` | the awaits of `run_inbound_call` one after the other (`runtime.py:41-386`) |
| `SessionEnds`, `MaximumDuration`, `CloseReturns` | `wait_for` on the closing of the session, and `aclose` after a timeout (387-401) |
| `FlushReturns`, `Analyze`, `Complete` | `CallLifecycleService.complete`: `flush`, the analysis, the request |
| `HandleItem`, `Persist` | `TranscriptService` |
| `EndCallTool`, `TransferTool`, `ResolveTarget`, `Refer`, `ReferReturns`, `ReferFails` | the two tools of the agent (266-318) |
| `CallerLeaves`, `AgentHangsUp`, `SessionFails` | LiveKit (external) |

### BackendClient

`step[r]` is where `_request` is for request `r`, `inFlight[r]` the attempts that have not reached
the backend yet and `performed[r]` those that took effect. Nothing removes an attempt from the
network when the client has given up on it, so that one may be performed after the next attempt,
after the request was answered with an exception, and after the call was completed.

| Action | Code |
|---|---|
| `Make` | a request of the worker, when `Ready` says that the code has come to it |
| `Answered` | a response that is not temporary (`client.py:76-89`) |
| `AttemptFails`, `Retry` | 429, 502, 503, 504, a timeout or network error; backoff and next attempt (64-83) |
| `Breaks` | any exception that is not retried |
| `Close` | `__aexit__`, which ends what is still under way |
| `Perform`, `Repeat`, `Refuse` | the backend (external), and the answer if the client still waits for it |

### KnowledgeCache

The ordered dictionary is `items` (per key the version of its index, 0 if there is none) and `after`
(per key the keys used since); `inflight` are the downloads, `snapshot` what each has read so far.
Between its awaits `get` is one step (`Hit`, `Miss`, `Arrive`, `Fail`), as its lock is never held across
an await. `Read` fixes what version a download gets, which may be newer than its key.

### CallAnalysis

One completion: `NothingSaid`, `NotConfigured`, `Ask`, `AskFails` and `Answered` are the ways through
`OpenAICallAnalyzer.analyze` with its fallback (`summary_service.py`), `Complete` the dictionary that
`CallLifecycleService` makes of the result. The model's answer is any that its JSON schema
allows, the blank and the overlong strings included.

### Dialplan

`Section(place)` is the generated text for a context and extension as a sequence of lines,
and each action executes one application (`Set`, `MixMonitor`, `Dial`, `Jump` for `GotoIf`, ...), or is
the dialled channel (`LegAnswers`, `LegFails`, `LegHangsUp`), the other party (`LeavesCall`) or a
`Reload`. A dialled channel may send a REFER: LiveKit to the route of an extension (`AgentRefers`), an
employee's telephone to a number as it is dialled (`EmployeeRefers`); `ReferTo` takes the caller to the
context that `TRANSFER_CONTEXT` names on that channel, or to FreePBX's own. The mapping from rendered text
to lines is `renderer.py:272-424`; the rest of the file (the PJSIP sections) matters only by the context
a call enters (`Entry`).

### RecordingUpload

Both scripts, as processes on shared files. `Scripts` are the uploads at hangup, named by their
recording, and those a cron run waits for, named by the run.

| Action | Code |
|---|---|
| `Runs` | the script starts, reads its configuration and checks the file with `-s` (4-30); a part of `StopRecording` and `Retry`, which start it |
| `Send` | curl opens the file, which may be gone by then (`upload-asterisk-recording.sh:32-38`) |
| `SendSucceeds`, `SendFails` | curl with its retries; under `set -e` a failure ends the script |
| `Mark`, `DeleteRecording`, `DeleteMarker` | the branches of `DELETE_AFTER_UPLOAD` (40-45) |
| `StartCron` | `find` lists what has aged (`retry-pending-asterisk-recordings.sh:4-8`) |
| `SkipMarked`, `Retry` | one turn of the loop, which goes on whatever the uploader returns |
| `StartRecording`, `Write`, `Age`, `StopRecording`, `EditConfig`, `Reboot` | MixMonitor, the clock, the operator, the machine (external) |

`Dialplan.UploadedOnce` says when MixMonitor starts the uploader at all; `StopRecording` is that
moment here.

### Installer

`step` is the part of `install.sh` that comes next; `LoadConfiguration` to `Finish` follow its
`main`, `Bootstrap` is `bootstrap_admin.py`, `ProvisionTrunk` and `ProvisionRule` are
`provision_livekit.py`, `AdminCommand`, `UpdateContainers` and `UpdateAsterisk` commands of
`office-control.sh`. `CutShort` and `PowerFails` end a run anywhere. The secrets are in two parts, the database
password and the keys (of the AMI, the provisioner, the backend), since `install.env` is written line by line: the
shell empties it (`TruncateStateFile`), the password comes first (`WritePassword`) and the keys after it (`WriteKeys`), so
that a run cut short in between leaves a file with the one and without the others. `ConfigureManager` writes the AMI
password into Asterisk's configuration, before the migration has shown that the secrets are the right ones;
`accepted` is what the running Asterisk takes, and `ProvisionFails` a phone number that cannot be provisioned
because the provisioner has another. `ComposeUp` recreates the provisioner or leaves it as it is.
The names differ from those of `RecordingUpload`, since `LocalOfficeProofs` extends both.

### How the modules fit together

Each abstract module is where two others meet. `CallSession` implements `CallRecord` on the
assumption that a request has one effect; `BackendClient` implements `OnceOnly`, which
says when that is so and names the exception (a request given up may still take effect).
`CallSession`'s `Analyze` is `CallAnalysis` in one step, and its `AwaitKnowledge` is one `get` of
`KnowledgeCache`. `Provisioner` writes the sections that `Dialplan` reads (`Reload`) and that
`Installer` sees as versions; `OutboundEvents` follows the channel whose lines are `Dialplan`'s.

## 3. Runs

| Run | Instance | Checks |
|---|---|---|
| `provisioner` | 2 clients, 1 registering connection, 1 disabled extension, 2 faults | `IndInv`, `Converged`, `NoLostUpdate`, `SavedIsRunning`, `ImplementsMap`, `EveryRequestEnds`, `ComesBack` |
| `outbound` | 2 attempts, 2 faults | `CorrelatedIsAnswered`, `RefusedIsForgotten`, `SilentOnceRefused`, `ReportsLifecycle`, `AcceptedIsReported` |
| `session` | 3 items, one oversize | `KeepsCallRecord`, `MessagesInSpokenOrder`, `NothingLostSilently`, `ReasonFitsTheEnd`, `NoFalseTransfer`, `EveryCallEnds` |
| `client` | 1 message, a transfer, 1 retry | `ImplementsOnceOnly`, `CompletedLast`, `EveryRequestReturns` |
| `cache` | 2 calls, 3 agents, 2 versions, room for 2 | `TypeOK`, `NeverOlder`, `OneVersionPerAgent`, `NewestIsKept`, `InflightIsAwaited`, `WaitingEnds` |
| `analysis` | limit 1000, transcripts of 40, 1000 and 1001 characters | `InputFits`, `SummaryIsUsable`, `DataIsComplete` |
| `dialplan` | 2 companies with the same 2 numbers, recording enabled | `UploadedOnce`, `StaysInCompany`, `StaysGenerated`, `EveryChannelEnds` |
| `recording` | 1 recording taken and 1 refused by the backend, 2 cron runs, 2 faults | `NothingLost`, `EveryRecordingArrives` |
| `installer` | 3 sets of secrets, 2 changes of the phone numbers | `SecretsMatchData`, `FinishedRunAgrees`, `OneOfEach`, `RoutesAreServed` |
| `session_created`, `dialplan_optout`, `dialplan_headers` | small ones | one disagreement each, section 6 |

What they show, beyond the names: the comment above each property says which behaviour of the
code it is about. In short: the provisioner ends in one of the states a sequence of atomic
writes can end in; the backend hears one legal story of an attempt and of a call; nothing that
is repeated happens twice; nothing of a recording is given up before it is stored; the waits of the
code end, but for the one for `session.aclose()`, which has no timeout.

Why these bounds are enough.

- Two clients give every race of two handlers; more only queue behind the lock, and the proofs
  cover any number. Two faults are needed for a step *and* its rollback to fail, or a
  crash to follow a failed restore. One specification suffices because every
  property compares entries for equality; the registering connection and the disabled
  extension are the two cases in which a specification's content changes the control flow.
- Two attempts share one monitor; a third brings no new order between any two events
  of one attempt and another's callback. Two faults allow a lost reply and a disconnect in one
  history. The proofs cover any number of both.
- Three items of which one is too long give a post that overtakes another, a gap in the numbers,
  and a repeated item. The rest of the session is one call.
- Calls of the cache start again after they leave, so two at a time are any number one after
  the other; three agents against room for two make the LRU evict.
- One retry lets an attempt overtake another; a second adds no order between two
  attempts that the first does not have, and `BackendClientProofs` covers any number.
- A limit of 1000 is the smallest the settings allow; the lengths are below, at and just over it.
- Two companies with the same two numbers give every confusion of routes; `DialplanProofs` covers
  any set of either.
- Two cron runs and the upload at hangup are three scripts on one file, beside a recording
  that fails for ever; one faulty upload and one reboot fit in `MaxFaults`. `LocalOfficeProofs`
  covers any number of each and any length.
- Three sets of secrets are the first, those after a torn file, and one more after that, each as a
  whole or only its keys; `LocalOfficeProofs` covers any number.
- `MaxFaults`, `MaxVersion`, `MaxLength`, `MaxSecrets` and `MaxRoutes` bound counters in the guards
  of `Fault`, `Change`, `Grow`, `LoadConfiguration` and `Provision`; they restrict how often, never
  when. `late` is bounded by the faults.

Deadlock is checked for the provisioner and the cache, which never stop. A call session with its
requests and its analysis, a channel and a set of attempts do stop, and so does a machine whose
bound on secrets is reached.

## 4. Fairness

- Provisioner: each handler and reconcile (`WF`): every AMI call has a timeout, file I/O returns or
  raises, and systemd restarts the process. Nothing is assumed of Asterisk or the backend.
- OutboundEvents: the AMI reply and the callback have timeouts, ringing has one too; a recipient
  hangs up some time and Asterisk sends the response that is due. `AcceptedIsReported` says nothing
  of histories with a fault: the code has no way to learn of a lost event.
- CallSession: the posts, and those awaits of the main coroutine that have a timeout of their own
  (`Timed`): the participant, the headers, the requests with their bounded retries, the download, the
  maximum duration, and `flush`, which waits for requests only. Nothing is assumed of `session.start`,
  `say`, `generate_reply` (`runtime.py:351-385`) and `session.aclose` (397), which are awaited without one
  (`Untimed`); so `EveryCallEnds` is about calls whose greeting is over, and allows a call to wait for ever
  in `aclose`. Neither the caller, the model nor the tools are assumed to do anything.
- BackendClient: an answer that has come is taken, an attempt without one times out, and the
  backoff ends. The backend is not assumed to answer.
- RecordingUpload: an upload ends (curl has `--max-time` and a bounded number of retries), cron
  starts its script again, the loop goes on, and a minute passes. Uploads fail for ever only
  where the backend has no call for them; other failures are bounded by `MaxFaults`.
- KnowledgeCache: a download ends, by its request timeouts and bounded retries.
- Dialplan: a line is executed, Dial ends at its timeout, and a conversation ends some time. A
  recipient may answer every prompt with "repeat" for ever; the property allows that.

## 5. Proofs

For every set of clients, ids, specifications and every bound on faults, from the three
assumptions of `Provisioner` (`ConnIds` and `ExtIds` are disjoint, `Absent` is no specification,
`MaxFaults` is a number):

- `ProvisionerProofs`: `Spec => []IndInv`, and from it `TypeCorrect`, `Exclusion`, `NoUpdateIsLost`,
  `Convergence`, `OnlyRunningIsSaved`. `Converged` alone is not inductive: it says nothing while a
  handler is in the middle. `IndInv` adds who holds the lock (`HolderIsHead`), that the handler's
  copy is still the state file (`NoLostUpdate`), what each step has left in the files (`StepsDone`,
  `ReconcileDone`) and which request it serves (`ServesItsRequest`). One lemma per group of
  actions shows that the group keeps it.
- In the same module the refinement, `Spec => ImplementsMap` under `store <- stateFile`, `phase <- AbsPhase`: a write
  takes effect at its save, a status request at its load. Two consequences are spelled out:
  `EffectIsAnswered` (the state file changes only by a write whose answer is "ok" from that step on, at
  its key, and only the status that a PUT of a connection ends with may replace that answer; so a write
  that failed before its save has changed nothing) and `AnswersAreSo` (every answer is true of the state
  file at the step that gives it, although a status takes no lock).

For every set of attempts and bound on faults, assuming that `None` is no event:

- `OutboundEventsProofs`: `Spec => []IndInv`; from it `TypeCorrect`, `NoRefusedEntry`,
  `CorrelationIsCleared`, `Silence` and the refinement `StoriesAreLegal`. `IndInv` adds that an attempt
  not yet answered has left no trace (`NothingBefore`), that Asterisk responds once and the monitor
  has not read the response before (`OneResponse`), and that the entry tells what was posted
  (`EntrySaysWhatWasPosted`): without it a second "answered" could not be excluded. Steps of other
  attempts are disposed of once, by lemma `Frame`.
- `OneStory` takes the refinement further: what is posted of an attempt is nothing, one status, or
  "answered" and then an end. `StoriesAreSo` relates it to the calls themselves: no status runs ahead of the
  call, however long events wait in the queue. Its invariant is `EventsAreTrue` (a queued event that
  ends a story is one of a call that Asterisk has ended, and an ended call does not begin again)
  with `StoriesAreTrue`.

For every finite set of conversation items, any of which may be too long to store
(`CallSessionProofs`):

- `SpokenOrder`, `NoSilentLoss`, `FittingReason`, `TrueTransfer`, and the refinement of `CallRecord`. None of
  them is inductive. `IndInv` adds `Numbering` (the transcript holds each item once, at the place of its
  number, and every message agrees with it), `Posting` (no item is forgotten and no message is posted
  twice), `Conversation` (`flush` waits for everything that is still pending, and no item comes after
  it), `OpenCall` (the call being worked on is open until it is completed) and `Truth` (what the
  completion is made of was so when the session ended). The refinement needs
  `StoredOnce`: two messages never share an item or a number.

For every set of messages and number of retries, assuming only that no message has the name of
another request (`BackendClientProofs`):

- the refinement of `OnceOnly`. `OneCopy` is what makes it inductive: an attempt is on its way or
  has happened, not both; a keyed request has happened only if its key is known; and "ok" is never
  said of one that did not happen. `NothingAfterCompletion` proves `CompletedLast` from it and
  `FlushedFirst`: no message is posted once the completion is.
- `EffectOncePerKey`: a keyed request happens once at most, and "ok" is true of it.
- `CreationComesFirst`: the backend takes no message, transfer or completion before it has created the
  call, although attempts overtake one another. The worker starts none before the creation has
  returned (`CreatedFirst`), and what has returned "ok" has happened (`OneCopy`).

For every set of calls and agents and any bounds of at least one (`KnowledgeCacheProofs`): the four invariants of the
run, and `NewestIsKept`. `IndInv` adds `Fresh` (nothing is known before the backend has it, and nothing
older than its key) and `Ordered`: every set of cached keys has one that was used before all others of
it. Lemma `WithinBound` needs that one to show that an insertion into a full cache drops something.

For any limit of at least 1000 and any lengths (`CallAnalysisProofs`): `InputFits`, `SummaryIsUsable`, `DataIsComplete`.

For every set of companies and numbers, with recording enabled or not, assuming that `None` is no
company (`DialplanProofs`): `UploadedOnce`, `StaysInCompany`, `StaysGenerated`. Lemma `WhereLines` reads the generated text once: in which context and
at which line each application stands. `IndInv` then says what is known at each place: `PlaceOK` (the
context is a generated one or, for the calls that no agent has seen, FreePBX's; an extension in it is the
company's; and a call for the agent has `TRANSFER_CONTEXT` set before it is transferred), `LegOK` (a leg
inherits `TRANSFER_CONTEXT` from whoever dials, and who dials LiveKit has set it), `RecordingOK` (a channel that was recorded never comes
back to the line that starts a recording, whatever transfers follow).

For any number of calls, cron runs, lengths and faults (`LocalOfficeProofs`):

- `NothingLost`, if `SilentCalls` is FALSE, that is, if MixMonitor writes to the file of a call that goes on
  at least once a minute. `OnlyFinished` is the reason and makes it inductive: no script ever works on
  such a file, so what curl opened is what the file ends with.
- `NothingDiscarded`, with silent calls too: what is marked or deleted has reached the backend at least in part.
  `TypeStep`, the typing of every step, serves both.

For any number of runs of the installer, secrets and phone numbers (same module): the four properties of its
run. None is inductive. The invariant is `OfficeInv`, with `Typed` and three parts that no step mixes:

- `Told` says how far the run has told its secrets: from each step on, to `install.env`, Asterisk's
  configuration, the running Asterisk, the runtime configuration, and the provisioner; and past the migration
  that the database takes its password. At the last step it is `FinishedRunAgrees`, whatever torn file
  the run began with. `SecretsMatchData` is kept with it and `Typed`: as long as no file was torn, the data is
  initialised with secrets that the next run finds again.
- `Rendered`: a run that has started the provisioner has rendered the files it emptied. That Asterisk has read
  them (`RoutesAreServed`) follows, as its restart at the end reads what is there.
- `Counted`: the rule presupposes the trunk, and a password an administrator; without that a second
  administrator could undo a changed password (`OneOfEach`).

Only model-checked: all liveness, since fairness and ENABLED are beyond the prover.

## 6. Where code and documents disagree

Shown by a run:

| Run | Disagreement |
|---|---|
| `dialplan_optout` | The keypad context jumps to *extensions* `ai` and `optout`, which are only *labels* on extension `s` (`renderer.py:391-396`): the channel ends and no opt-out event is sent. |
| `dialplan_headers` | The headers of a campaign call are built on the channel to LiveKit from variables that it does not inherit, as they lack the leading underscore (`service.py:233-244`, `renderer.py:366-376`). |
| `session_created` | An exception between `create_call` and the `try` leaves the call open (`runtime.py:215-393`). |

Behaviours that the models contain and that contradict a sentence of the documentation, without a run of
their own:

- An outbound leg whose headers cannot be read, or are read as invalid, is handled as an inbound call, with a
  second call in the backend (`src/app/agent/runtime.py:146-158, 208-215`; `ReadHeaders`, `CreateCall`), where
  `src/README.md:114-115` says that the worker "reuses the Call created by the campaign dispatcher instead of
  creating a duplicate". `KeepsCallRecord` takes the second call as a legal record.
- A run cut short while it writes `install.env` (`install.sh:142-164`) leaves it without secrets that
  the database was initialised with or that Asterisk and the provisioner know, and the next run generates
  others; `local-office/README.md:38` says "Secrets are generated once". `SecretsMatchData` is about every other
  history. After this one, a lost database password ends the next runs at the migration, by when
  they have already given Asterisk a new AMI password (283-285); lost keys are replaced everywhere.
  `FinishedRunAgrees` holds in both cases.
- A run of the installer empties the generated files and restarts Asterisk (`install.sh:255-256, 323`); if
  Compose then finds the provisioner up to date and leaves it running, nothing renders them again until
  the next write or restart: an ordinary second run ends without the provisioned phone numbers, where
  `local-office/README.md:42-43` says "It does not delete existing Docker volumes or Asterisk data".
  `RoutesAreServed` is about the other runs.

Behaviours that the models contain, that no document rules out, and that a reader should know:

- A PUT that took effect is answered 502 when the load or the AMI query of the status after it fails
  (`service.py:135`).
- A session that LiveKit closes on an error is stored as `caller_disconnected`: `on_error` only logs it
  (`runtime.py:343-349, 387`). `ReasonFitsTheEnd` says so.
- `session.aclose()` after the maximum duration is awaited without a timeout (`runtime.py:397`): a call for
  which it does not return is never completed. `EveryCallEnds` names it.
- A REFER whose answer is lost has moved the caller, and the call is stored as not transferred
  (`runtime.py:302-310`).
- Employees' endpoints are rendered without `allow_transfer=no` (`renderer.py:251-266`), and a call between
  employees, or one that a campaign key has transferred, has no `TRANSFER_CONTEXT`: a REFER of the employee's
  telephone goes to FreePBX's `from-internal-xfer` (302-304). `StaysGenerated` is about the calls for the
  agent, which have it set, also once they are transferred to an employee.
- `by_unique_id` keeps an entry for every attempt that was refused after its channel was answered
  (`events.py:112`). `CorrelatedIsAnswered` exempts them.
- A reply of AMI that is cut off raises `IncompleteReadError`, which the originate handler does not catch: the
  attempt stays registered (`main.py:191`).
- A message that the worker was told is not stored can still be appended after the completion, by an
  attempt that was late (`client.py:64-71`); `CompletedLast` shows that no other can.
- A late download of an old version drops the entry of another version of its agent from the
  cache (`knowledge_service.py:149-154`); the next call downloads it again. `NewestIsKept` says what is
  never dropped without a reason.

## 7. What the models assume, and what is left out

- LiveKit (external): no conversation item after the close event; `aclose` does not raise. Job
  cancellation and the death of the worker process are not modelled: nothing in the code
  completes a call after either. Each process has a cache of its own.
- asyncio: calls that await one download resume one after another with nothing in between
  (`KnowledgeCache.Arrive`, `Fail`). The code justifies it: each `get` runs in a task of its own
  (`runtime.py:197`), a task that ends schedules the wakeups of all its waiters one after the other, before
  any callback that comes later, and the lock of the cache is never held across an await, so that taking it
  after the wakeup (`knowledge_service.py:136-154`) does not yield. A third `get` therefore cannot put a newer
  download in flight between the turns of two waiters.
- Asterisk (external): an application does what its manual says; a channel that finds no line ends;
  `Dial` without option `g` ends the caller with the callee; `Originate` answers queued before or after
  its events. The Hangup of a channel that was never answered has an unknown unique id.
- The backend (external): it performs a request with a known key once and answers it again with
  success; an outbound attempt id is posted once. `CallSession` takes a failed request as done or not
  done when it fails; that it may be done later still is in `BackendClient` only.
- Callbacks of the event monitor that fail are not repeated by the code, nor in the model.

Not modelled:

- the upload of outbound media (`provisioner/app/main.py:137-179`): checks of a WAV file and one atomic
  replacement of a file that no other operation of the service touches;
- `KnowledgeIndex` (`knowledge_service.py:1-109`): a pure ranking of passages by their words;
- providers, instructions, tool wording, prompts, settings and logging: construction of third-party
  objects without state of their own. That it may raise is in `CallSession` (`Build`);
- the option lines of the PJSIP sections, and the names and normalisation of SIP attributes;
- the installer's packages, sources, base configuration, firewall, sounds and guide, which write
  the same result in every run, and `uninstall.sh`;
- `health()` of the backend client, which no call makes.

## 8. Plan

Done: the provisioner, outbound events, call session, knowledge cache, dialplan, backend client,
recording upload, call analysis and installer are modelled and checked, and every safety property
that a run checks is proved.

Left, in this order:

1. `CallSession` on `OnceOnly` instead of its own failing requests, so that a late append is seen
   by the session as well.
2. A second POST of one attempt id in `OutboundEvents`, and an attempt's channels as several.
3. Cancellation of a job in `CallSession`: which of its awaits leave a call open.
4. The upload of media, with two uploads of one file at a time and a crash between the
   temporary file and its replacement.
