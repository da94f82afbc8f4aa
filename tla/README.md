# Verification of remoteagents

remoteagents is a console server: it finds coding agents (Claude, Codex) that
run in tmux panes, shows them in a browser, queues and submits prompts to them,
and offers the same operations to remote models through integration tools. It
is one Node process; everything runs on one event loop, so what can go wrong
happens between two `await`s, between two file writes, between the server and a
terminal it only sees through captures, and across restarts.

This directory holds TLA+ models of the parts where that matters most, TLC
configurations for small instances, and TLAPS proofs. Source paths below are
relative to `apps/server/src/` unless they start at the root.

## 1. The system

| Component | State | Operations | What is hard | What makes it correct |
|---|---|---|---|---|
| Prompt queue store (`prompts/queue.ts`) | one JSON file of queues by Agent scope, an in-memory snapshot, a promise chain | enqueue, update, move, remove, consumeOnSuccess, moveScope | failed writes, a callback awaited inside a mutation, caps, restart | accepted prompts survive, removed ones stay out, no duplicates, the file always reloads |
| Prompt delivery (`prompts/service.ts`, `reset-boundaries.ts`) | phases, conversation resets, tracked requests, dispatch and restart locks; durable queue, boundaries, notes, history | submit, dispatch/send, observe, drain, retire, cancel, remove, save, idle restart | all of it interleaves at awaits; terminals swallow keys; restarts | every accepted prompt is accounted for, taken once, by its own Agent, and its queue moves on |
| Browser control and voice gate (`auth/control.ts`, `integrations/control`) | console owner with a lease, voice session, stop tombstones | connect, take, release, start/stop voice, authorize | requests out of order, takeover, expiry | only the controlling browser's own voice session opens the gate |
| Integration gateway (`integrations/mcp/gateway.ts`, `integrations/policy`) | durable idempotency claims | tool calls, retries, recovery | retries, failing audit and store writes, pruning, restart | a mutation happens at most once and is answered truthfully |
| Host files (`host-files/`) | operation journal, tokens, favorites | upload, copy, move, special rename, recover | other programs, a stop between publish and cleanup, rollback | nothing that is not its own is destroyed, failures are undone or on record |
| Settings and their applier (`settings/`, `scripts/settings/`) | settings files, request queue, commit journal, proved baseline | commit, restart with proof, recover, roll back | the helper stops anywhere, a server that does not come up | saved settings are kept, the baseline is proved, every request ends |
| Button actions (`button-actions/`) | starts, operations, one shared launch | start, status, close | repeated clicks, clicks that decide on old lookups | one operation per request and per button, one Agent per Workspace |
| Pane viewport (`logs/viewport-scheduler.ts`) | entries with an owner and a queue of resizes | acquire, resize, ensure, release | takeover in the middle of a restore | the latest browser is served, the old size comes back |
| Schedules (`schedule/`, runs in `app.ts`) | schedule and last run on the note, instant tried last | tick, reconcile, run by hand, edit, remove | a lost record, restarts, edits of a schedule in flight | once per due instant, one run at a time |
| Reviews (`review-tour/`, `code-review/`, `asks/`, `review-runs/`) | job maps, generations, stored tours and reviews | start, cancel, save, dismiss, reconcile with the branch, recover | late results, two files per mutation | only the wanted tour and its review are kept |
| Orchestration, OAuth, federation, realtime, audit | grants, keys, log | one call per tool, token exchange, forwarding | expiry, rotation | codes are used once |
| Agent adapters, discovery, launch, tmux | captures, launches in progress | observe, find, open windows | stale captures | inputs of delivery and buttons |
| Notes, notifications, worktree commands, git, pull requests, proxy, accounts, cleanup, migrations | caches and small stores | mostly calls of external programs | stale caches, resumable migration | - |
| Web console (`apps/web`) | view state | display | - | - |

How they interact: routes in `app.ts` call the services; a dashboard loop
observes every Agent each second and calls `PromptService.observe`, which also
dispatches, and reconciles the stored reviews with the branches it saw; button
actions observe on their own and submit tracked prompts. Remote tools go gateway
-> orchestration -> the same services. The idle-restart route takes a lock of
`PromptService`, closes the pane, launches a new one and hands the queue over.
Prompt delivery calls the queue store, the Note sink, the boundary store and the
terminal; each of these calls is an await at which anything else may happen. The
settings side of the console only publishes requests in a directory and polls
their status; a helper that systemd starts does the work and restarts the server.

`PROJECT.json` lists every component with its files and whether it is modelled,
and every hazard we know of at its line.

## 2. Modules

| Module | Models | Composed in |
|---|---|---|
| `QueueOps` | what one queue mutation computes: stored form, caps, append, rewrite, swap, remove, merge | `PromptQueue`, `DurableQueue` |
| `DurableQueue` | the abstract queue: each operation is one step or nothing | refined by `PromptQueue` |
| `PromptQueue` | the promise chain, clone -> write -> rename -> publish, the awaited callback, failed writes, restart | `MCPromptQueue` |
| `PromptCustody` | abstract promise of delivery: an accepted prompt is always somewhere | refined by `PromptDelivery` |
| `PromptDelivery` | `PromptService` with terminals, observers, operators, restarts | `MCPromptDelivery`, `Services` |
| `BrowserControl` | `ControlService` and `IntegrationControlService` | `IntegrationGateway` |
| `IntegrationGateway` | `IntegrationGateway.call` and `IntegrationPolicyService` | `MCIntegrationGateway` |
| `HostFilesEngine` | one operation of the file engine, its rollback and its recovery | `Host` |
| `SettingsApplier` | the host helper of the settings, its queue and the server it restarts | `Host` |
| `ButtonActions` | `ButtonActionService` for one Workspace | `Services` |
| `PaneViewport` | `PaneViewportCoordinator` for one pane | `Services` |
| `Schedules` | `Scheduler` and the managed runs of one note | `Services` |
| `Reviews` | tours and Code reviews of one Worktree and their store | `Services` |
| `Host`, `Services` | parts that share no state, side by side | `MCHost`, `MCServices` |
| `PromptQueueProofs`, `IntegrationGatewayProofs`, `SettingsApplierProofs`, `PromptDeliveryProofs`, `HostFilesProofs` | the inductive invariants of the modules they are named for, and the theorems about them | |
| `PromptOnceProofs` | theorems about `PromptDelivery` that rest on those of `PromptDeliveryProofs` | |
| `ServicesProofs` | theorems about `ButtonActions`, `PaneViewport`, `Schedules`, `Reviews`, and about `Services` | |
| `HostProofs` | theorems about `Host` | |

`Services` and `Host` put services side by side that share no state: the
variable `part` says which of them a behaviour moves, and the others stay as they
began. That is the sum of the state spaces and not their product, and one run asks
the questions of all of them. The MC modules give the constants their values.

**PromptQueue.** `file` is the file on disk, `stored` the published snapshot,
`mutation` the chain with the running call at its head, `stage` how far that
call has come, `draft` the clone it changed. `Request` is a method call;
`ChangeEnqueue` .. `ConsumeLooksUp` are the closures passed to `mutate`;
`Rename`, `Publish`, `WriteFails` are `write` and what follows it; `Restart` is
a new process. `issued`, `accepted`, `withdrawn`, `noted` record what callers
were told. What a file costs (`TotalText`) is the number of its `Units`, one for each
unit of length of each stored text: the sum that `totals` adds up, in a form that can
be compared by a one-to-one function. `QueuedPromptService` implements `DurableQueue` with
`contents <- file`: each step of the file is one abstract operation.

**PromptDelivery.** A handler is cut at its awaits. Per Agent, `job` is the one
job that holds `dispatching`: `JobNext` looks for the head prompt, `JobPaste` to
`JobRemove` are `send` and the removal that follows it, `DrainNote` ..
`DrainEnds` save a queue as Notes. `submits` are `submitRequest` calls,
`observer` are `observe` / `observeTurnless` calls with the phase they have read
(and may write back late), `cancelling`, `Remove`, `Save` are the operator,
`restart` the idle restart. `pane` is the terminal: life, attention, the
composer's draft, the prompts of the running turn, and submit keys it has received
and not yet handled (`pressed`, `Presses`, `TerminalTakes`). `wiped` is history: the
prompts whose draft an observation cleared while a job was submitting them. Queue mutations are single
steps here, which is what `PromptQueue` implementing `DurableQueue` allows.
`adapter` is Codex ("native"), whose drafts and turns are observed, or Claude
("reported"), whose reported state is; `happens` names the events that may occur in
a behaviour; `Scenarios` are the pairs of the two. `PromptCustody` is its abstract specification, with the mapping
`Places`.

**BrowserControl, IntegrationGateway.** `owner`, `live` are the reservation and
whether its lease has expired; every method compares timestamps with the clock,
so an expired lease is a step (`LeaseLapses`) and renewals change nothing.
`stopped` are the tombstones of stopped voice sessions. A call goes through
`Call` (authorize), `Claim` or `Replay`, `AuditIntent`, `Execute`, `Finish` or
`Catch`, `AuditOutcome`; `records` are the durable claims, `ran` the calls whose
effect happened. A store write may fail before its rename or after it (the
`chmod`), and an operation may throw although its effect happened.

**HostFilesEngine.** `at` maps the paths of an operation (source, destination,
stage, backup and its box) to inodes, `stamp` gives each inode its change time;
the engine touches a path only while `Is` finds the identity it prepared or
recorded, as `engine.ts` does with `dev`, `ino`, `ctime`. `rec` is the record in
memory, `jrn` the one in the journal, written by `Checkpoint` before every phase
of `After`. `op.pc` is the phase, `op.mode` whether the engine works, rolls back
(`UndoStage` .. `Conclude`) or recovers after a stop (`Recover` ..). `Fault` is a
call that throws or a cancellation where the code looks for one, `Crash` a stop,
`Edit` another program.

**SettingsApplier.** `place` is the directory a request is in, `status` its
status file, `journal` the journal of its commit, `helper` the memory of the
running helper, `rac` what the server read when it was started, `baseline` the
sealed graph recovery falls back to. `Claim`, `Process`, `Report`, `RemoveClaim`
are `queue.mjs`; every write of a status may fail, before or after it took place
(`Unrecorded`): `SuccessUnwritten` is the catch that turns a success into a failure,
`FailureUnwritten` the `finally` that drops the claim all the same. `Resume` ..
`Undone` are the commit in `operations.mjs`; `CrossBoundary`, `Restart`, `Prove`,
`Capture`, `RecordReceipt` the restart with proof; `Swap` .. `Unswap` the recovery
with the baseline. `Replace` is the exchange of one
file with the checks before and after it. `HelperStops` loses `helper` and
nothing else; `ServerStarts` is systemd, on failure or at a boot: the server reads the
files as they are. `saved`, `proved`, `lost`, `starter` (who last changed which
server runs) and `silent` (requests whose outcome could not be written) are history.

**ButtonActions.** `click` are the calls of `start` at their awaits, `starts` the
retry records, `operation` and `active` the maps of the service, `launch` the
shared launch of the Workspace, `request` the tracked prompt as the prompt
service reports it. `Validate`, `Refreshed` are the two lookups of `prepare` with
the second look between them; `LaunchLooks` .. `AfterLaunch` are `launchAtPlace`.

**PaneViewport.** `entries` are all entries the coordinator ever had, each with
its queue and an owner; a release marks the owner (`<<lease, n>>`), so that a later
acquire or release overtakes it. `ReadPane` and `ApplySize` are the two awaits of
a task.

**Schedules.** `schedule` is the durable part on the note, `dispatched` the
instant this process tried last, `tick` the tick or run by hand in progress,
`runPane` what became of the pane of an instant. A tick reads and considers its
note in one step. `deletion` is the schedule of a deleted note while that can be
taken back (`DeleteNote`, `UndoDeletion`, `DeletionIsFinal`).

**Reviews.** `tour` and `review` are the jobs of `ReviewTourJobs` and
`CodeReviewJobs`; `kept` the two files of the store, `version` its generations;
`chain` the store's promise chain and `writing` what its running mutation has yet
to write. `Change` gives what a mutation computes (`Cleared`, `TourSaved`,
`Dropped`, `Reconciled`, `ReviewSaved`), `Compute`, `WriteFile`, `MutationEnds`
how `mutate` carries it out, `Settles` what its caller does next. `wanted` is
history: the tour and the review begun last and not ended since.

## 3. What is checked

Twelve runs; one checks every property of the components it composes.

| Run | Question | Result |
|---|---|---|
| `queue` | every interleaving of three mutations over two scopes and three prompts with failed writes, failed callbacks and restarts | 5 invariants, the refinement of `DurableQueue` and liveness hold |
| `delivery_faults` | both kinds of Agent, two prompts (one a reset), under each fault in turn | `TakenOnce`, `NotesAreUndelivered`, `ConfirmedWasTaken`, `RecordedResetIsDone` and the refinement of `PromptCustody` hold |
| `delivery_progress` | does a queued prompt always leave its queue? | `QueueMoves` holds under fairness |
| `gateway_idempotency` | retries, failing writes, pruning, restarts, changes of control | 6 properties hold |
| `host` | file operations under cancellations, faults, stops and other programs; settings requests under edits, failed writes, stops of the helper and starts of the server by the system | 9 properties hold, `EveryRequestEnds` under fairness |
| `services` | idle restart with hand-over, buttons, viewport, schedules, reviews | 11 properties hold |
| `removed_taken` | can a removed prompt still be submitted? | yes (finding 1) |
| `restart_overlap` | can an idle restart close a pane that works on a prompt? | yes (finding 2) |
| `cancel_release` | can a cancel release the queue it means to hold? | yes (finding 3) |
| `upload_forgets` | is a failed upload undone or on record? | no (finding 4) |
| `recovery_interrupted` | does a recovery keep the saved settings when the helper dies in it? | no (finding 5) |
| `schedule_edited` | is one managed run of a note alive at a time? | no (finding 6) |

### Findings

1. `dispatch` reads the head prompt, awaits `send`, and removes the prompt only
   afterwards; `removeQueued` does not look at `dispatching`. A prompt removed in
   between is reported removed and still submitted. Saving it as a Note has the
   same race.
2. `acquireRestartLock` looks at phases, pending resets and active mutations, not
   at `dispatching`. A dispatch that an observation started and that has not
   pasted yet holds no phase, so the pane may be closed on the turn it starts.
3. `cancel` sends its keys, awaits the write of the reported state, and sets the
   halted phase only then. An observation in between sees the Agent finished and
   dispatches the next prompt.
4. An upload without a file to replace in which a call fails (an identity check, a
   journal write, the unlink of the stage) between the link of the new file
   (`host-files/engine.ts:664`) and the assignment of `published` (1089) leaves the
   file at its destination, answers that it failed, and removes its journal record
   (1107). `copy` cleans its destination up. A cancellation does not lead there: no
   call between those lines looks at the signal.
5. While a recovery runs, the saved settings are only in the helper's memory
   (`scripts/settings/operations.mjs:1377`). If the helper dies then, the one
   that repeats the request takes the baseline in the files for the saved bytes and
   ends as complete. `docs/setup.md:88` promises that they are retained.
6. Every edit, pause and resume of a schedule replaces it by one without
   `lastRun` (`app.ts:1010`). A run in flight is then neither watched nor closed, and
   the next instant starts another beside it, against `scheduler.ts:64`.

Seen while modelling, without a run:

- `TakenOnce` is checked where terminals, storage and the server do not fail: with
  such failures a prompt can be submitted twice, which the repository's
  `README.md:209` accepts. `RecordedResetIsDone` likewise fails when the removal of
  the reset from the queue cannot be written, for reported-state Agents when
  keys are swallowed and the draft stays, and when an idle restart overlaps the
  dispatch (finding 2) and hands the queue over between the write of the boundary
  and the removal of the reset: the new Agent takes it again. `Steady` says so.
- Two observations at once, which the code does not exclude (the dashboard and a button
  action each observe), can make a prompt count as submitted that no terminal took.
  TLC finds a trace of 36 states where terminals fail and observations overlap, if
  `ConfirmedWasTaken` is stated without its exception: one is about to clear the failed draft of a prompt, a stale
  answer seen by the other ends the halt, the same prompt is pasted and verified
  again, the first empties the composer before the keys, and the empty composer
  counts as accepted (`prompts/service.ts:863`). The exception, `wiped`, names
  exactly this: a draft cleared by an observation while a job holds it.
- A scheduled run can be launched twice for one instant, although `scheduler.ts:72`
  says that a due instant is attempted once per process even if recording its
  outcome fails: the record fails, the note is deleted, a tick forgets the instant
  (`scheduler.ts:61`), and the deletion is undone within its minute, with the old
  `updatedAt`. `EachInstantOnce` excepts behaviours with both a lost record and a
  deletion undone, and nothing else.
- A tracked request may stay "running" for good: a stale expiry of a reset, or
  an observation that adopts a phase it read earlier, overwrites the phase of a
  later prompt. The queue itself keeps moving (`QueueMoves`).
- An operation that ran and whose claim could not be settled is answered with
  "was not run" (`integrations/mcp/gateway.ts:100`), and a completed one whose
  result exceeds 64 KiB is replayed as "The earlier operation failed."
  `SuccessIsTrue` therefore speaks of success only. A call whose claim was
  pruned (24 hours, 2000 records) may run again; `AtMostOnce` and
  `EffectsAreOnRecord` say so with `forgotten`.
- `SavedSettingsKept` excepts what finding 5 loses, an edit between a check and
  the rename it allows, and a commit whose rollback met foreign bytes (its journal
  says so); the variable `lost` and `Partial` name exactly these.
- A server that systemd starts, after a failure or at a boot, reads files that a
  commit has changed and no boot has proved (`remote-agent-console.service.in:14`),
  and no request is there to say so. `UnprovedIsReported` therefore speaks of the
  time while the helper was the last to change which server runs (`starter`).
- A request whose success cannot be written is reported as failed, although its
  commit or restart stands; if the failure cannot be written either the claim is
  removed all the same and the request keeps "running" or nothing at all
  (`scripts/settings/queue.mjs:244-256`). `EveryRequestEnds` excepts exactly those,
  `silent`.
- A button poll that resumes after `close()` writes over the outcome that the close
  recorded (`button-actions/service.ts:108-126`), so `OneBusyPerButton` speaks of
  an open service.
- A Code review that is cancelled while its save waits in the chain stays stored
  (`code-review/jobs.ts:153` invalidates nothing, unlike the tour's `markGone`);
  `ReviewIsKept` does not promise otherwise. An added review whose preset is
  resolved after a new tour began (`code-review/jobs.ts:34`) begins after it and
  supersedes the tour's own, although the route refused others than the current
  Comparison. A dashboard refresh that read its branch before a switch may drop a
  tour begun after it: `Reconciled` does what the code does, and `TourIsKept` counts
  such a tour as ended by a branch change.

### Bounds, and why they are enough

- `queue`: two scopes, three prompt ids, two texts of length 1 and 2, two prompts
  per scope and four characters in all. Three mutations (`MaxCalls`): a running call,
  one behind it, and what a caller does after both. That reaches the cap on text, but
  three calls are too few for the cap on a scope to refuse one, or for `moveScope` to
  meet a target it would overfill; for these the theorem `FileAlwaysReloads`
  stands, which has no bound, and the hand-overs of `services`.
- `delivery_*`: two prompts (one is a reset where resets matter) are the prompt
  being sent and the one behind it; one observation at a time besides the job, the
  submissions and the operator, or two where the scenario has "overlap" (beside
  cancels, and beside failing terminals); two panes for a restart. Each behaviour
  has one of the `Scenarios`: all events together are out of reach, and the
  combinations a hazard needs are there (cancel with outside use, terminal with
  crash, removal with save, storage and death for Codex; storage with death,
  terminal with cancel and with questions for Claude). A terminal failure is a key that is
  swallowed or handled late, a wrong answer of the transport, or an observation that
  fails. `MaxFailures` and `MaxCrashes`
  are 1. Agents of the Claude kind have no scenario with a crash.
- `gateway_idempotency`: three calls over two request ids and two argument digests,
  so first attempts, retries, conflicts and evictions (one record is kept) all
  occur; two browsers and one voice session id. `MaxFaults` is 1: one failing write
  or operation, pruned record or restart, anywhere. With 2 the run takes a few
  minutes more and finds nothing either. Symmetric in calls, requests, digests and
  browsers.
- `host`: one file operation of each kind, with and without a file to replace and a
  favorite, `MaxFaults = 2` (a fault and one in the rollback), `MaxCrashes = 1`,
  `MaxEdits = 2`. Two settings sources and two requests of every kind (a commit and
  a restart after it, or two of one kind), one edit by hand, and two mishaps
  (`MaxMishaps`) out of stops of the helper, starts of the server, failed writes of a
  status and the edit: a status that fails twice, a stop in the recovery from a
  failure, a boot (both at once). Writes of settings files, commands and proofs fail
  without a bound. A commit touches the first file or both (`MCTouchable`), in the
  order of the request (`MCOrder`).
  One target, `rac`. A system call and the `lstat` beside it are one step, so a failure
  of the `lstat` alone (`engine.ts:413-415`, `844-848`) does not occur.
- `services`: the idle restart with one prompt per scope and two prompts; three
  clicks of two browsers on a shell and two prompt buttons with one request id;
  three leases with two resizes and sizes 1..3; three instants of which two fire,
  two edits, one run by hand, reboot, lost record and undone deletion; two tours and two Code
  reviews of two owners, three of the four in a behaviour with a server stop or
  a failed write, two with branch changes, and stale refreshes, dismissals or stops
  (`MCCourses`; together with dismissals refreshes add 150,000 states and nothing
  else, and the proofs need no such bound).
- Symmetry (prompts, and browsers in `services`) is used only where no member is
  special and no liveness is checked.
- Deadlock is checked in `queue`, `gateway_idempotency`, `removed_taken`,
  `restart_overlap` and `cancel_release`. Elsewhere the system may stop: the last
  pane is dead and every prompt is submitted, the one file operation is over, no
  request is left.

### Fairness

`ChainDrains`: promises settle, so the head call of the chain takes its steps or
fails (weak fairness), nothing more. `QueueMoves`: jobs, submissions and
observations that have begun are continued by the event loop (weak fairness of
their steps); the dashboard loop observes every Agent again and again, a
terminal handles the keys it has received, and the clock passes every grace period, so observations and the settlements they make
when a grace period is over are strongly fair; a turn ends. No failure, cancel
or death is fair. `EveryRequestEnds`: the helper takes its steps (`HelperWorks`,
weak fairness), also after it died, because the path unit
`systemd/remote-agent-settings-apply.path.in:7-8` starts it while a request lies in
the queue or claimed directory and `remote-agent-settings-apply.service.in:14` restarts it on failure.
What the code does not guarantee is not assumed: an operator need not act.

## 4. What is proved

`PromptQueueProofs` proves for all sets of scopes, ids and texts, all lengths
and all values of the caps, and any number of calls:

- `TypeCorrect`, `AcceptedPromptsSurvive`, `WithdrawnPromptsStayOut`,
  `OneCopyOfEachPrompt`, `EmptyScopesAreDropped`, `AnswersAreDurable`,
  `ConsumedPromptWaits`, from `InductiveAlways`;
- `QueueIsAtomic`: the chain of clone, write, rename and publication implements
  `DurableQueue`;
- `FileAlwaysReloads` (`FileReloads`): no sequence of calls, failed writes and
  restarts leaves a file that `read` would reject.

The invariants are not inductive on their own: between the change of the clone and
its publication three copies of the queue differ. `Inductive` adds
what the running call's clone may differ in from the file at each stage: while a
call is idle or using, snapshot and file agree once loaded; while it is writing,
the clone holds every accepted prompt but the one the call takes out, nothing
withdrawn, and no prompt twice; while it is publishing, the file is the clone.
With that, a rename replaces the file by something that has every property, and
publication makes the snapshot agree again. The proof has one lemma per action
(`EnqueueStep` .. `RestartStep`), which rest on lemmas about the operators of
`QueueOps` (`EnqueuedLemma`, `RewrittenLemma`, `SwappedLemma`, `RemovedLemma`,
`MovedLemma`). The last two go through `EmbeddedLemma`: a queue that embeds
injectively into old ones keeps ids unique. The refinement adds `Planned`: a clone
that is being written is one operation away from the file (`PlanHolds`); the rename
is then the abstract step (`FileMoves`, `OneAbstractStep`), everything else a
stutter. That also gives `FileAlwaysReloads`, since an operation of `DurableQueue`
keeps a file within the limits (`OperationReloads`). An enqueue and an edit check the
total themselves. A move, a removal and a hand-over check less, or nothing: their
entries all come from the old file, each from a place of its own (`EntriesOf`), and
such a file has no more units than the old one (`CostLemma`, an injection between
finite sets); a hand-over adds a scope but gives one up.

`IntegrationGatewayProofs` proves all six properties of `gateway_idempotency`
for all sets of calls, requests, digests, browsers and voice sessions, all
capacities and any number of faults: `GatewayTypeCorrect`, `RetriesRunOnce`,
`EffectsAreAlwaysOnRecord`, `SuccessIsAlwaysTrue`, `OutcomesAreFinal` and
`OnlyTheOwnersVoiceAlways`. `Inductive` adds to them what
makes a second run impossible: the store has at most one claim per request, a
claim names the call that made it, and a call that may still run, or has run,
holds its claim unless its request was forgotten; a completed claim and a
reported success are those of a call that ran. The proof goes through `Moves`, a
relation on two states that says how calls move, where claims come from and
which stay. `MovesLemma` shows that it keeps `Inductive`, and one lemma per action
(`CallStep`, `ClaimStep` .. `RestartStep`) that the action is such a move; the
sequence facts (append and drop, remove at an index, settle) are lemmas of their
own (`KeptLemma`, `RemoveAtLemma`, `FinishedLemma`). The two action properties
need little more: ids of claims are unique because requests are, and
`VoiceNotStopped` says that the active voice session has no tombstone of its own
browser.

`SettingsApplierProofs` proves for any sources, requests, edits and helper stops
`BaselineIsAlwaysProved`, `UnprovedIsAlwaysReported` and `SettingsTypeCorrect`,
from `SettingsInvariant`. `SettingsInv` joins the types, `OneClaim` (one request is
claimed at a time and the helper serves that, with a status that fits its stage),
`KindOfWork` (a stage occurs only for the kinds of request that lead to it),
`KnownGood` (from a proof to the receipt, and at the end of a recovery that worked,
the server runs what a boot has proved, or the system has started it since) and `DoubtIsOnRecord` (while the helper is the last that changed which server runs,
and that server runs something unproved, the status of the request at work or of one
that is over says that a restart was begun). Without `OneClaim` a restarted helper could
report for a request that is no longer the claimed one, and without `KindOfWork` a
commit could end a doubt that a restart began. Most actions change only files,
journal and the helper's memory (`QuietStep`); those of a restart note its progress
(`RestartingStep`); the rest start or end a request (`FreshStep`).

The second half of the module proves `SavedSettingsAreKept` (`SavedSettingsKept`):
wherever the helper stops and whatever fails, the bytes an owner last saved are in
the settings file, in the manifest of the commit that wrote over them, or in the
memory of the helper that recovers. `SavedInv` says which of the three
(`SavedStands`, per file: the commit whose bytes the file holds has the saved ones
in its manifest; a file that holds the baseline has them in `held`), and what a
step needs to get there: a journal names only files of its own commit and is closed
before a success (`JournalsTell`), what the commit at work has written is in its
journal until it is undone (`CommitIsOpen`), a checked write is of bytes that are
due (`WriteIsDue`), a recovery that has put a file back no longer holds it
(`HeldIsNew`), and an edit brings bytes that were never there (`EditsAreNew`).

Of the schedules, `ServicesProofs` proves `SchedulesTypeCorrect` and
`NoInstantTwice` (`EachInstantOnce`) for any schedule, length of time, edits, reboots,
runs by hand, and lost records or undone deletions. `OnceInv` says why, twice, since two
things keep an instant from being launched again. As long as no deletion was undone,
an instant that was launched lies behind the last change of the schedule, the start of
the server or the instant tried last (`Behind`). As long as no record was lost, it is
on record (`OnRecord`): behind the last change or the last run of the schedule, be
that on the note or waiting to be restored (`Stored`, which deleting and restoring
leave as it is), or in the record about to be written. The anchor from which the next
due instant is counted, with the instant tried last, is the latest of either;
an instant that is being tried was not launched before. `DueLemma` turns that into "what a
tick dispatches lies ahead of all that was launched", with `LatestExists` for the choice of
the due instant.

`PromptDeliveryProofs` proves for any Agents, prompts, observers, scenarios and
numbers of faults, with crashes, failed writes, idle restarts and all
interleavings: `TypeCorrect`, `PromptsAccounted` (`Accounted`), `CustodyKept`
(`KeepsCustody`, the refinement of `PromptCustody`) and `OwnAgents`
(`OwnAgentOnly`), from `InvariantHolds`. `Inductive` joins the
types; `Named` (whatever has begun names its Agent and its prompt) and `Departed` (a
restart hands over from a pane that is dead, to another); `QueuedOnce`; `Kept` (a
prompt is nowhere before it is enqueued and somewhere from then on, also while a
job or a submission still works on one that was removed); `ConfirmedFirst` (a job
that is past its confirmation, and a boundary, are of a confirmed prompt), without
which a removal could lose a prompt; and `Owned` (queues, living jobs and
composers hold prompts of their own Agent), without which a hand-over that meets a
late submission could mix them. For custody every action is either `Quiet` (no
queue, no Note, no answer changes, and no prompt gains or loses its last place) or
a step of `PromptCustody`, and one lemma per action says which.

`PromptOnceProofs` adds what holds only under a premise. `SentOnce` (`TakenOnce`)
and `OnlyUndeliveredNotes` (`NotesAreUndelivered`) need `DeliveryCalm`: no draft is
left behind (`Undrafted`), a composer holds exactly the prompt that is being sent
(`OneDraft`), what is queued was not taken except by the job that is about to
remove it (`Untaken`), and what became a Note is nowhere else (`Noted`).
`RecordedResets` (`RecordedResetIsDone`) needs `ResetsRecorded`: a recorded reset is
in no composer and in no job but the one that removes it, and while it is still
queued after a server start nothing can dispatch for its Agent before the
boundary is read again (`Unread`). Both are invariants under a premise that is fixed
by the scenario, so that a step only has to keep them where no fault may occur.
`ConfirmedTaken` (`ConfirmedWasTaken`) holds through every fault and for any number of
observations. `Acknowledged` says why: a prompt whose draft was verified stays in the
composer until the terminal takes it, however late it handles the keys, or an
observation clears it as the draft of an earlier failure, which makes it `wiped`
(`Submitting`); so a composer without the draft does acknowledge the one or the other.

`ServicesProofs` proves, for any numbers of clicks, browsers, leases, sizes, tours,
Code reviews, owners and branches:

- of the buttons `ButtonsTypeCorrect`, `ButtonsRunOnce` (`OneBusyPerButton`),
  `RetriesRunOneOperation` (`RetryRunsOnce`) and `ButtonsLaunchOneAgent`
  (`OneAgentPerPlace`). `Answered` says how the stages of an operation fit its call
  and its polls, `Held` that only an answered call holds its button, `Launches` that
  a launch only starts while no Agent is there.
  `RetryRunsOnce` rests on `Recorded` and `Sole`: a call has a claim on its request
  from its start until its operation is pruned, and the retry record names the one
  call with a claim. A poll that was begun before the pruning may write over its
  operation later and bring it back, so such a poll counts as a claim (`Claims`).
- of the viewport `ViewportTypeCorrect`, `PaneComesBack` (`SizeComesBack`) and
  `LatestIsServed` (`LatestBrowserIsServed`). `Queues` says that only the
  pane's entry has a task under way and only a release makes the entry go;
  `Restorable` that the size to restore is known before the owner's first task
  changes the pane, because a clamp only follows a resize of the same browser;
  `OwnerServed` that the browser that came last owns the entry and, once its tasks
  are done, has its size; `Order` that leases come in order.
- of the reviews `ReviewsTypeCorrect`, `KeptTourIsLast` (`TourIsKept`) and
  `KeptReviewIsLast` (`ReviewIsKept`). The two properties speak of rest; `Unbroken`
  says what leads to it, in terms of `Target`, the files as they will be when the
  running mutation has written them. A tour that may still be saved in the running
  generation is the wanted one (`ToursBegun`); a save that waits in the running
  generation is of the wanted tour or a drop waits behind it (`Waits`,
  `DropAfter`), and so is the target (`TourFile`): a cancel cannot take back a save
  that is already in the chain, but its drop comes after it. `HeadRuns` is
  what the running mutation has changed in memory before its files are written.
  `ReviewsBegun` and `ReviewFile` do the same for Code reviews, with orphans of an
  earlier server wanted until the first review of this one begins. A mutation that
  is cut off breaks all of it (`broken`), and the two properties say so.

`HostFilesProofs` proves for any jobs and numbers of stops, faults and edits:
`TypeCorrect`, `EvidenceIsKept` (`EvidenceKept`), `FailuresAreClean`
(`FailureIsClean`), `FavoritesAreLive` (`FavoriteIsLive`) and `NothingIsLost`
(`NothingLost`). `FilesInv` joins: `Control`, the places each mode can be in;
`Naming`, which file a path may name; `Recorded`, for the record in memory and the
one in the journal: an identity on record is of the engine's own object and never
newer than the object is, and where the identity of a publication is still exact,
the object is at the destination (this is what makes the second name certain when
the first is removed); `Renaming`, what a special rename has on record from its link
on; `Evidence` and `Journaled`, what exists on disk and in the journal at each
place; `Favorite`, which of the two names the favorite has before it follows
(`Untold`) and after (`Told`); `Undoable` and `FailedClean`, what a rollback still
has to undo and that it does. `LostStep` then says of each step which name a file
keeps.

The runs `host` and `services` check the parts side by side. `HostRunsAlone` and
`ServicesRunAlone` prove that such a behaviour is one of each part alone, so the
theorems about a part are theorems about what these runs check. `HostTypeCorrect`
(`HostTypeOK`) and `ServicesTypeCorrect` (`ServicesTypeOK`) follow from it and the
type theorems of the parts.

The assumptions are those the modules name: an upload has no favorite (it has no
source), non-empty caps, natural-number
lengths and bounds, a finite set of scopes, cron instants within the clock, at least one branch, an editor of
the settings that brings bytes nobody else writes (an edit that restores earlier
bytes cannot be told from no edit), and values
such as `None`, `NoClick` and `Nil` that are none of those they stand beside.

Only model-checked: everything under fairness (`ChainDrains`, `QueueMoves`,
`EveryRequestEnds`: liveness and `ENABLED` are out of the provers' reach).

## 5. Not modelled

- In delivery: the update advisor's submissions, `submitReset`, question
  answering, attachments, the text of prompts and history, the order in which
  submissions that await the same promise continue.
- In the gateway: read tools, scope and argument checks, forwarding to another
  instance (they change no state), and the contents of results.
- In the host files: directory trees (their walk repeats the steps for a file),
  creation of folders, plain deletes, downloads, session tokens, path locks, the
  broker process. In the settings: migrations, wrappers, the Cloudflare target, the
  handover of the helper to another checkout, encryption, the validation in the
  console.
- In the services: the button catalog, retention limits, an attached terminal beside
  a viewport, cron syntax, Ask threads, the review runs and their child processes,
  checkouts without a branch.
- Three hazards have no property. A tracked request that never ends (above): nothing
  in the repository promises that it does. A migration cut off between two stores
  (`migrations/runner.ts:291`): whether its repetition accepts a half-converted
  store depends on the conversion of documents. The third, an answer of "was not run"
  for what ran, is described above.
- Terminals, agents, git, GitHub and tmux are external: modelled by what they
  may do, as the code in the services expects.
- The components of section 1 without a module. More than half of the
  implementation is the web console, routes and wiring, parsers of terminal and
  git output, schemas and validation: it has no protocol that interleavings could
  break, or its state is one small file behind the same promise chain that
  `PromptQueue` models. A map of the modelled code therefore stays a small share
  of all lines.
