# TLA+ models of agent_voice

agent_voice is a SIP voice agent in Rust. It answers telephone calls, talks to
the caller through speech services or a realtime voice provider, and lets the
caller request appointments with its owner through a personal-assistant (PA)
service that keeps its state in SQLite and works on the owner's calendars. This
directory holds TLA+ modules of the parts whose correctness depends on ordering:
transactions, awaited calls, callbacks, locks, failures, retries and clocks. TLC
checks them on small instances; TLAPS proves the main invariants for every value
of the constants.

`PROJECT.json` lists components, runs, mutants, hazards, findings and theorems,
and maps every definition to the source lines it models.

## Inventory

### Personal assistant (`src/pa`)

| Component | State | Operations | What makes it hard, what makes it correct |
|---|---|---|---|
| Notification outbox (`store.rs`) | table `notification_outbox` | enqueue, claim with a lease, mark sent, reschedule, delete | workers crash, leases expire while a worker still sends, the clock of a claim is read before the write lock. No attempt has two owners; a row stays decodable; what is marked sent was delivered; every notification is sent in the end |
| Quotes, drafts, proposals, event mappings (`store.rs`) | four tables, one row of each per request | save quote, prepare draft, submit, transition, attach mapping, delete | idempotent inserts compared column by column. A quote is consumed once and while it is valid |
| Submission saga (`service.rs`, `submit_request`) | none of its own | up to 14 store and calendar calls in a row | any call may fail or be the last one, two executions overlap, calendars change between the check and the booking. A success leaves the whole record; an event that was visible is never overlapped; retries repair |
| Owner tasks (`service.rs`, `prepare_owner_task`, `submit_owner_task`) | drafts, placements, the verification of the owner | issue, prepare, submit | second saga, with one lookup after an ambiguous create. No event is invented or lost, and no known event is overlapped |
| Messages, tasks, provider cursors (`store.rs`) | three tables | record, transition, advance cursor | compare-and-set transitions; nothing calls them yet |
| Audit log (`store.rs`) | append-only table | append, list | exact repetition accepted, anything else refused |
| HMAC admission (`auth.rs`, `http/middleware_hmac.rs`) | table `replay_nonces`, or a bounded map | admit | the clock is read before the lock. No request is admitted twice; only an admitted request uses up its nonce |
| OAuth (`oauth*.rs`, `store.rs`) | reserved states, encrypted tokens | begin, callback, refresh | single use of a state, omitted refresh tokens |
| Availability (`availability.rs`) | none | slot search | local time, day windows, buffers |
| Backup (`backup/`) | a destination and temporary files | write a snapshot, copy the database | several executions, crashes and power losses. Nothing is replaced, what was acknowledged stays whole, whoever returns leaves nothing behind |
| Admin configuration (`admin_config.rs`, `admin_store.rs`) | revisioned record | load, compare-and-set | stale revision |
| Calendar providers (`providers.rs`, `fakes/`) | the owner's calendars | busy list, find, create, promote, change feed | ambiguous create failures; the fake providers are the contract the service is tested with |

### Voice (`src/`)

| Component | State | Operations | What makes it hard, what makes it correct |
|---|---|---|---|
| Call lifecycle (`service.rs`) | atomic flags, session and speaker slots, transcript | bootstrap, on_media, on_ended, hangup, farewell | callbacks, tasks and threads share flags. One bridge, one BYE, no session left open, no call left without a bridge |
| Realtime session (`realtime_voice.rs`) | pending responses, output queue | map provider events, barge-in, close | audio that arrives after a barge-in; commands and events race |
| Turn pipeline (`service.rs`, `stt.rs`, `llm.rs`, `tts.rs`) | turn detector, suppression window, idle generation, farewell timer | push frame, process utterance, speak, idle prompt, end | a thread that takes no frames while it speaks, tasks that speak next to it, playback that is only estimated. No echo is answered, no prompt begins after a text was noted, farewells are heard |
| Speech worker (`sherpa_onnx.rs`) | a Python process, its pipes, a mutex | request | one process for all calls, lines without identity, timeouts. Everybody gets the answer to his own request, or an error |
| Phone book (`phonebook.rs`) | a map under an `RwLock`, a JSON file | touch, merge, persist, load | overlapping writes of one temporary file. The file is whole and becomes the map |
| Accounting, configuration, control API, audio | files | | see "Not modelled" |

Interactions: the control API and the SIP callbacks call the call lifecycle,
which starts a realtime session or the turn pipeline; the turn pipelines of all
calls share one speech worker; a call updates the phone book. The PA service
calls the store and the calendars; the store's outbox is drained by delivery
workers; the HMAC admission stands in front of the PA routes; the store's
database is copied by the backup.

## Modules

| Module | Models | Proofs | For TLC |
|---|---|---|---|
| `NotificationOutbox` | outbox | `NotificationOutboxProofs` | `MCNotificationOutbox` |
| `RecordedEffect` | what both sagas promise | in the next two | |
| `AppointmentSubmission` | quotes and the submission saga | `AppointmentProofs` | `MCAppointmentSubmission` |
| `OwnerTaskSubmission` | owner tasks | `OwnerTaskProofs` | `MCOwnerTaskSubmission` |
| `ReplayGuard` | HMAC admission | `ReplayGuardProofs` | `MCReplayGuard` |
| `CallLifecycle` | one tracked call | `CallLifecycleProofs` | |
| `RealtimeSession` | `run_session` | `RealtimeSessionProofs` | |
| `SherpaWorker` | speech worker | in the next one | |
| `TurnPipeline` | one call on the speech worker | `TurnPipelineProofs` | `MCTurnPipeline` |
| `FilePublication` | phone book and backups | `FilePublicationProofs` | `MCFilePublication` |

### NotificationOutbox

One action per store call, each of them one SQLite transaction:
`EnqueueNotification`, `ClaimNotifications`, `MarkNotificationSent`,
`RescheduleNotification`, `DeleteNotification`, and `CompletionRefused` for the
calls whose cursor `(id, attempt)` no longer matches. A row is a record of the
columns that matter; recipient, kind, references and template are one model
value. The delivery worker is not in the repository: `Deliver`, `WorkerCrash` and
the order of the calls are modelled from the documentation of the API and marked
external. `MaxStaleness` is the age that the `now` passed to a claim may have
when the transaction gets its lock. `NextId` is SQLite's rule for an
`INTEGER PRIMARY KEY` without `AUTOINCREMENT`: the largest id plus one.

### RecordedEffect

The abstract specification of a request that changes somebody's calendar:
`Admit` it into the store, `Perform` its effect, `Record` the identity of the
effect, `Announce` it. Each happens once per request, in this order, and none is
taken back. Both sagas implement it; each has an `Effect == INSTANCE
RecordedEffect WITH ...` that reads the four sets off its tables and calendars,
and `ImplementsEffect == Effect!Spec`.

### AppointmentSubmission

`SearchSlots`, `PrepareRequest` and an execution of `submit_request` for every
element of `Calls`, with one action per store transaction or awaited calendar
call (`Submit`, `LoadProposal`, `LoadMapping`, `ListBusyOutlook`,
`ListBusyGoogle`, `FindProposalWhenBusy`, `FindProposal`,
`SubmitAppointmentQuote`, `CreateProposal`, `AttachEventMapping`, `NotifyOwner`,
`NotifyRequester`, `AppendAudits`). `Fail` ends an execution at any of them and
`CreateProposalUnanswered` loses the answer of a create that took effect. The
owner (`OwnerAnswers`, `OwnerBooks`), the proposal's outcome
(`TransitionProposal`) and the delivery worker (`DeliveryMoved`) act at any time.
Time is counted in instants of which `Second` make a whole second, because
`canonicalize_submission_timestamp` truncates.

### OwnerTaskSubmission

`Issue` gives the owner his capability, which expires. `PrepareOwnerTask` is one
transaction. An execution of `submit_owner_task` is `Call`, `Load`,
`FindOwnerEvent`, `ListBusyOutlook`, `ListBusyGoogle`, `CreateOwnerEvent`,
`SubmitPlacement`, `EnsureAudit`; `CreateOwnerEventFails` is an error of the
create, before or after the event was stored, and leads to `FindAgain`, the one
read-only lookup. `Break` and `BreakInCreate` end an execution anywhere. Others
`Book` events and the owner edits the one of the task (`OwnerChanges`). An
operation key names the event at the provider, so that the key, and not the
time, tells a retry that a busy interval is its own event.

### ReplayGuard

`ReadClock`, then `RejectUnauthentic`, `CheckAndRecord` (one immediate
transaction) or `PersistenceFailed`. The store's guard and the bounded in-memory
guard are the same protocol: `Capacity` is the bound of the latter. Requests are
records of timestamp, nonce and whether the signature is right.

### CallLifecycle

One tracked call. The two activations of the bridge (`bootstrap_call` and the
`on_media` callback) and everybody who ends the call (API clients, farewell
timer, failed bridge, watcher of the realtime session) take one step per access
to a shared flag or slot. The SIP stack and the provider are external.

### RealtimeSession

The task `run_session`: one action per branch of its `select!`, and for provider
events one per event kind (`OnCreated`, `OnItemAdded`, `OnAudioDelta`,
`OnSpeechStarted`, `OnAudioDone`, `OnDone`, `OnError`); a branch runs to its end
before the next is chosen, so that it is one step. `Push`, `DiscardOverflow`,
`NextFrame`, `Unplayed` and `AudioEnd` are the methods of `QueuedAudio`. Audio is
counted in units, `FrameUnits` to a frame, and every unit carries the response it
belongs to, which the code does not know: that is how the model compares
`audio_end_ms` with what the caller was really given. The provider runs one
response at a time and is external; its events and the session's requests are
under way in two ordered channels. `inProgress`, `cancelled`, `mixed` and `played`
are history. The conversion of bytes to milliseconds rounds down and is left out.

### SherpaWorker and TurnPipeline

`SherpaWorker` is `PersistentWorker::request` and the process behind it: a fair
mutex as a queue, and two pipes of lines that carry no identity. `Ask`,
`WriteRequest` and `ReadAnswer` are the request; `WriteTimesOut`, `ReadTimesOut`
and `LeaveQueue` (timeouts and dropped futures, in the middle of a line too)
leave behind what was written; `AnswerLine` and `Exit` are the worker.
`SherpaWorker` has no specification of its own: its actions are conjoined with
the callers' in `TurnPipeline`, which extends it.

`TurnPipeline` is one call. The audio thread takes a frame or the end of input
(`TakeFrame`, `FinishInput`), and stays with a complete utterance until it is
answered: `GiveUpTurn`, `HearWords`, `NoteWords` or `NoteHangUp`, `Reply`, then the
segments of `queue_tts_text` (`AskSegment`, `SegmentQueued`, `SpeechFails`) and its
end (`NoteSpeech`). Who adds a text to the transcript (`HearWords`, the last
`SegmentQueued`) notes it as activity in a step of its own, before which any other
task may act; only time waits for it (`Noting` in `Tick`), because nothing is
awaited between the two. `Pushed`,
`Remembered`, `Emitted`, `Finished` and `Reset` are the methods of `TurnDetector`.
Idle prompts (`PromptOutdated`, `SpeakPrompt`), texts of the greeting and the
control API (`SpeakText`, `SpeakDropped`) and the farewell's timer (`SendBye`)
are tasks next to the thread. In a `Tick` the paced speaker plays one unit and one
frame arrives, which is quiet, the caller's, or the echo of what plays.
Recognition and the language model are calls that return or fail. `spoilt` says
that a request of the worker ended without its answer; `exposed` that speech was
queued which the suppression window does not cover (`Exposing`): the properties
about suppression are stated up to there.

### FilePublication

One way to publish a file per behaviour, `kind`, and several executions of it. A
step is a system call, or what a lock makes one step. Phone book: `UpdateBook`
(the write lock), `Persist` (the read lock, which others may hold too),
`OpenTruncated`, `WriteBook`, `RenameOver`, `LoadBook`. Snapshot and copy of the
database: `Begin`, `CreateTemporary`, `WriteWhole`, `SyncFile`, `CheckAgain`,
`Publish`, `SyncParent`, `DropAttempt`. Any of them may fail (`CallFails`), a
temporary file may disappear (`TemporaryRemoved`), the process may end (`Crash`),
and a snapshot may meet a `PowerLoss`, after which files that were not
synchronized and a name whose directory was not are as they were or as they
should be, and temporary names may be gone or there again. With the process no
`Drop` runs: an execution that had a temporary file is then `Cut`, its file stays
and its name is taken, while others start in the next process. Contents are version numbers, 0 for a file that is not whole.

## Runs

| Run | Result | What it shows |
|---|---|---|
| `outbox` | pass | `RowsDecodable`, `AttemptExclusive`, `FirstUseSentWasDelivered`, `LeaseRespected`, `EventuallySent` with stale clocks, lost answers, a crash or reschedule, and deletes |
| `outbox_id_reuse` | violation | after a delete an old claim completes a new notification that got the same id (`SentWasDelivered`) |
| `submission` | pass | `SubmittedIsRecorded`, `ConsumedWhileValid`, `NoBookingOverKnownEvent`, `ImplementsEffect`, `RecordedUnlessDisturbed` for two executions, the owner, quotes consumed in the second of their issue and a fault |
| `submission_repair` | violation | a moved delivery blocks the retries that should complete the record (`EventIsRecorded`) |
| `owner_task` | pass | `NoTaskOverKnownEvent`, `SubmittedIsComplete`, `ImplementsEffect`, `CreatedIsRecorded` for two tasks, two executions, an edited event and a fault |
| `replay` | pass | `NoReplay`, `NoncesAreEarned` with stale clocks, a forgery and a full table |
| `call` | pass | `OneBridge`, `OneBye`, `SessionReleased`, `LossEndsCall`, `EndIsHonoured` |
| `call_lost_session` | violation | a session lost after a failed hangup does not end the call (`LostSessionEndsCall`) |
| `call_media` | violation | the media callback can miss the bridge (`MediaIsBridged`) |
| `realtime` | pass | `TruncateWithinPlayed`, `HeardIsExact`, `SpeechWouldCancel`, `TailIsPlayed` with barge-ins, a speak command, late deltas and overflow |
| `turn` | pass | `UtteranceIsContiguous`, `EchoUnheard`, `SaysItsOwn`, `FarewellIsPlayed`, `PromptsBreakSilence`, `ThreadEnds` with a worker that is slow, wrong, hung or gone |
| `files` | pass | `PublishedIsWhole`, `NothingOlder`, `AcknowledgedSurvives`, `QuietBookIsStored`, `NothingLeftBehind` for three executions and two faults |

`submission`, `owner_task`, `turn` and `files` also check the type invariant of
their module; the types of the others are proved. Every property of a passing run
has a mutant: a definition changed as a plausible bug would change it, which must
violate the property in that run. The mutated forms stand before the definitions
they replace.

### Bounds

* Outbox: two workers, two keys, two inserted rows and two ids, which suffices for
  a row to get the id of a deleted one; a lease of one instant of three, so that a
  lease expires and its row is claimed again; clock readings one instant old; one
  fault. `MaxAttempts` is large enough never to block a claim. `WorkerCrash` needs
  time for the lease to run out before the clock stops. The violation run has a
  third row and only two attempts, which a short counterexample needs.
* Submission: two executions of one draft are enough for every pair of steps to
  interleave, and one slot, which the owner may take. A quote lives for two
  instants, a second has two, so that truncation falls before the issue of the
  quote or inside it; the clock stops before it expires, so that of
  `ConsumedWhileValid` the run checks the issue, and `ConsumedValid` proves the expiry
  too. The owner and the delivery worker act on a submission at
  most twice (`FewDisturbances`), so that every pair of their actions occurs. Two drafts for overlapping slots are too many states;
  `NoKnownDoubleBooking` proves that race for any set of drafts, slots, buffers and
  the owner's bookings.
* Owner tasks: two keys, two operation keys, two executions, one start instant, so
  that any two tasks overlap; a verification lives for one of two instants. In
  `OneNaming` the first key never gets the last operation key: every excluded
  behaviour is an included one with the names of the operations exchanged.
* Replay: `Skew` 1, `MaxWait` 1 and `Retention` 4 are the smallest values that
  satisfy the assumption; the clock runs past one retention so that a nonce
  expires and comes back; the table holds two of three nonces.
* Call: both modes, both codecs, two API clients, two failing BYEs.
* Realtime: two responses, so that audio of one queues behind the other's; three
  units each and a queue of one frame of two units, so that responses end in the
  middle of a frame and the queue overflows; two barge-ins; at most two provider
  events under way.
* Turn: five frame times, which hold pre-roll, an utterance, its end, the answer and
  its echo; replies of up to two segments, so that a text is suppressed after its
  first unit began to play; one text of the control API. Time stops at the end of
  the call, and one idle prompt is spoken at a time.
* Files: three executions, so that two share a temporary file while a third starts;
  five files and five versions of the phone book; two faults, so that one may
  strike what the other left. Executions are interchangeable (symmetry; the run has
  no liveness property).

Deadlock is not checked: clocks, retries and histories are bounded, and a call
that is over, a drained outbox or a published backup has nothing left to do.

### Fairness

* Outbox: time passes, and each worker keeps claiming, sending and completing.
  Crashes, reschedules, deletes and enqueues are never forced.
* Submission: an execution that was started runs on or fails, weakly fair; the
  client of a prepared draft repeats `submit_request` (strong fairness, because
  whether it can be called depends on a free execution). The doc comment of
  `submit_request` makes the client's retry the repair mechanism. Owner tasks: the
  same, and the owner renews his verification to repeat the call.
* Call: spawned tasks, threads, timers and callbacks run; a session that was
  asked to close does. Nobody has to hang up, talk or lose a session.
* Realtime: only the ticker; `select!` picks among ready branches at random and
  the ticker stays ready. The provider owes nothing.
* Turn: the thread and each user of the speech worker go on, because every awaited
  call has a timeout. The worker is not fair: it may answer nothing for ever.
* Files: none.

## Proofs

The inductive invariants of the call, the realtime session and the turn pipeline
were checked by TLC on the bounds of their runs before they were proved.

* `NotificationOutboxProofs`: `AttemptExclusive` is not inductive: nothing in it
  says that a new attempt number is new. `ExclusionInv` adds that present rows have
  different generations (`RowsNumbered`) and that the counter of a row dominates
  every claim on it (`ClaimsCounted`). `FirstUsesDelivered` needs that the i-th
  inserted row never has an id above i (`IdsClimb`): a claim that matches a row
  on its first use of an id is a claim of that row. `LeasesHold` follows from the
  guard of the claim and from a clock reading that is never ahead, and so does
  `RowsComeBack`: with `LeasesEnd` (a lease ends at most one lease from now) every
  unsent row can soon be claimed. `DecodableRows` and `SentFinal` complete it.
* `AppointmentProofs`: `Inv` is `Types`, what every prefix of the saga leaves in the
  store (`StoreInOrder`: a consumed quote has a proposal and a whole second inside
  its validity, an event or a mapping needs a consumed quote, notifications and
  audit rows need the mapping), and what every execution knows at each of its
  points (`CallsInOrder`). Other executions preserve what one knows, because the
  store only grows (`StoreGrows`, `Grows`). `SubmittedRecorded`, `ConsumedValid`,
  `DurableKept` and the refinement `SubmissionsAreRecordedEffects` follow.
  `NoKnownDoubleBooking` adds that the two busy lists were read after the call
  that is remembered in the event (`EventsApart`, `CallsApart`).
* `OwnerTaskProofs`: `TaskInv` has the same form. `TasksAreRecordedEffects` is the
  refinement, `SubmittedComplete`, `TasksAvoidKnownEvents` and `AuditedIsPerformed`
  follow from the invariant.
* `ReplayGuardProofs`: `ReplayInv` adds to `NoReplay` that no clock reading in use is
  older than `MaxWait` (`ReadingsRecent`) and that an admitted request still has its
  row or the clock has passed the row's retention (`AcceptedIsGuarded`). The
  assumption `RetentionCoversSkew` (`Retention > 2 * Skew + MaxWait`) is used exactly
  there: 60 s and 300 s leave 180 s for the wait.
* `CallLifecycleProofs`: `OneBridge` is inductive with the types. `ByeInv` adds that
  `end_sent` is set while anybody is inside `call.end()` and after a BYE, and
  `StartedOnce` that the bridge, the watcher and the farewell enter `end_call`
  only from their idle position. `ByeForgotten`: a failed BYE leaves no `end_sent`.
  `EndIsNeverForgotten`, `LossIsNeverForgotten` and `SessionIsNeverForgotten` are
  the safety halves of the three liveness properties of the run: whoever gives way
  to another party, that party is still at it. `PendingInv` adds to them where a
  session is (`SessionInv`): nowhere yet, being handed over, watched, or lost with
  the call being ended. `MediaIsRarelyMissed` bounds the finding of `call_media`.
  `ResetInv` says when an activation can find no media; with it, open media has a
  bridge or somebody about to look for it, except after that one interleaving.
* `RealtimeSessionProofs`: `QueueWithinLimit` follows from the types and from one
  fact about `discard_overflow`: rounding the excess up to whole frames covers it
  (`CeilCovers`, `OverflowDrops`). `SpeechWouldCancel` is inductive as it stands.
  `TruncateIsWithinPlayed` and `HeardExactly` need to know that an item new to the
  queue was never played. `OrderInv` says so of every event under way: what will be
  in progress when it is received (`InResponse`) and that an item just announced
  has no audio in the queue, in the channel or played (`Unheard`); `ProviderInOrder`
  says it of what the provider may send next and `ItemFollows` of the item id the
  session remembers. `Counted` and `CountedExactly` then relate `generated`, `flushed`
  and what was played to the units of the item in the queue, which `UnitsSplit` and
  `UnitsAppended` count as cardinalities, so that no induction over a sequence is
  needed. `TailIsNeverStuck` uses the same order: no delta follows its response's end.
* `TurnPipelineProofs`: `WorkerInv` adds to `InStep` that nobody is twice in the
  mutex's queue and that a worker that exited has nothing to read; until a request
  is spoilt, the pipes hold at most the holder's line (`WorkerInStep`), so that a
  unit in the speaker is its client's own (`SpeechIsOwn`). `PromptInv` says that the
  transcript is ahead of the idle generation by the texts that are in it and not
  noted yet, one of each speaker at most (`Noting`), and that a sleeping prompt
  remembers no later generation than transcript: an unchanged generation then
  bounds what the transcript got (`PromptsFollowSilence`). It needs `ThreadInv` and
  `MutexIsWanted`, so that nobody gives up a text that he has pushed but not noted. `DetectorInv` says that the frames not taken yet end
  now and that the detector's pre-roll and buffer end where these begin
  (`RunTo`), which makes a complete utterance one piece (`UtteranceIsOnePiece`). For
  `EchoIsUnheard` and `FarewellIsHeard`, `QueueInv` says that nothing is queued behind
  an unexposed answer and when a farewell's last unit plays, and `EchoInv` that the
  suppression covers what is queued, and all of an answer that only has to be noted, that frames with echo are only there while it
  lasts or the thread is still speaking, and that the detector holds none.
  `EchoIsUnheard` assumes `Post > 0`: the default of `post_tts_input_suppression_ms` is
  250 (`config.rs:2998`), and with 0 the echo of the last unit comes in the very
  frame with which the suppression ends. `MutexIsWanted` is the safety half of
  `ThreadEnds` for the others: nobody holds the worker without a text to say.
* `FilePublicationProofs`: `PublicationInv` is `Types`, `BookInv` (files that are not
  created are empty, published and pending versions are in order, one file has the
  temporary name, an empty published file is open for writing, the last version is
  kept by somebody), and for the backups what each point of an execution implies
  about its file (`BackupInOrder`, `SnapshotInOrder`). All six theorems follow.

Each of these modules also proves `TypeCorrect`. The assumptions are those
named in the modules: bounds are natural numbers and model values differ. TLC
evaluates them in every run.

Model-checked only: the liveness properties (`EventuallySent`,
`RecordedUnlessDisturbed`, `CreatedIsRecorded`, `SessionReleased`, `LossEndsCall`,
`EndIsHonoured`, `TailIsPlayed`, `ThreadEnds`), because liveness under fairness
and induction over data are out of the reach of the installed provers. Of most of
them the safety half is proved: the state in which nobody could do the next step
is not reached.

## Findings

1. `outbox_id_reuse`: a completion cursor is `(id, attempts)`, and ids of deleted
   rows are used again. Code bug. `FirstUseSentWasDelivered` shows that this is the
   only way to a sent row that was not delivered.
2. `submission_repair`: an exact retry of `enqueue_notification` is refused once a
   failed delivery moved `available_at`; the rest of a submission's local record is
   then never written, although the doc comment calls every local tail write
   repairable. Divergence. `RecordedUnlessDisturbed` shows that only this, the
   owner's answer and a decided proposal block the retries.
3. `call_lost_session`: `end_requested` outlives a failed BYE, and the watcher of
   the realtime session gives way to it. Divergence from `docs/configuration.md`.
4. `call_media`: `bridge_started` is set before media is looked for and cleared
   afterwards; an `on_media` in between is lost. Code bug. `MediaIsRarelyMissed`
   shows that open media is missed in no other way.

Behaviour that the models show and that no document excludes, so that the
properties are stated around it:

* Phone book: `persist` holds the read lock only. Two persists of overlapping
  updates open the same temporary file; the second rename then finds none, and the
  error reaches the caller of `merge_update` (`service.rs:2417`). A process that ends
  while the file published by the first is truncated by the second leaves a phone
  book that `load` refuses (`PublishedIsWhole` says exactly when).
* Speech worker: after a request that ended without its answer, every later request
  reads the answer of the one before it, until the process is replaced
  (`SaysItsOwn` holds up to there).
* Suppression: it is computed from the moment a text was queued and its length. Text
  that waits behind other speech, is spoken while the audio thread is busy, or
  lost a later segment plays outside it (`Exposing`).
* Idle prompt: it tests only whether a text was noted. It may begin while the
  caller speaks or is being transcribed, whose words are not in the transcript yet,
  and between the two accesses with which another speaker adds his text and notes
  it (`PromptsBreakSilence` says how much that can be).
* A farewell whose synthesis fails schedules no BYE; the caller has to hang up.
* A crash leaves a backup's temporary file; neither the phone book nor the copy
  of the database promises to survive a power loss.

## Not modelled

* Messages, tasks and provider cursors: compare-and-set transactions without a
  caller in the repository, hence no protocol to check. HTTP idempotency records:
  a table and types, no handler that uses them.
* OAuth: one consent at a time, started and finished by a person; the rest is the
  identity provider's protocol, which the source does not define.
* Schema migrations: one transaction per version before anything else runs; what
  it does is SQL text. Admin configuration: one compare-and-set in one
  transaction, the rest validates text.
* Availability: the arithmetic of local-time windows and zones is pure and
  chrono's; the submission models only which slots are offered.
* Address rules and the email confirmation dialogue: pure, and conversational.
* Accounting (sums in CSV files), configuration precedence, provider HTTP clients
  (`openai.rs`), encodings, signatures and key handling (`realtime/`, `crypto.rs`,
  `sigv4.rs`), signal processing (`audio.rs`), deployment files and the website: no
  protocol, or pure I/O.
* Inside the modelled parts: header syntax and the body limit in front of the
  admission; status and error texts and the access decision of a call; transcripts,
  usage, function calls and the RTP marker of a realtime session; the voice-model
  path, the transcript file and the token accounting of the turn pipeline;
  directory permissions, and failures of the clean-up, of the backups.

## Plan

Done: the modules of the table above, the abstract specification of
both sagas with its two refinements, and the theorems above.

Left, in this order:

1. CallTranscript: the transcript half of `EventMapper`, the consumer of its
   events, texts spoken through the API, and the file written at the end of a call;
   with it the transcript file of the turn pipeline.
2. A delivery ledger (enqueued, handed over once per attempt) that
   NotificationOutbox implements.
3. Promotion of proposals and change feeds of the calendars; messages, tasks and
   cursors, as soon as something calls them.
4. Availability operators against a reference definition.
5. Theorems: the safety halves of `RecordedUnlessDisturbed` and
   `CreatedIsRecorded`; the refinement of the delivery ledger.
