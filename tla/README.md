# Claude Workspaces: a TLA+ model

The extension runs several Claude Code sessions in one VS Code window, resumes
conversations by UUID, keeps a prompt editor with durable drafts beside them,
and tells the user which session waits. This directory models the parts of it in which several things happen at
once, checks them with TLC and proves the most important facts with TLAPS.

## The system

JavaScript runs one callback at a time. Nothing here is a data race; what is hard
is that almost every operation *awaits* something (a spawn, a kill, a write of
workspace state, a probe of the CLI, a click on a notification) and reads shared
state before and after. An action of a module is therefore one run of the event
loop between two awaits, and everything else may happen between two actions of
the same operation.

| Part | State it keeps | Operations | Talks to |
|---|---|---|---|
| Session registry (`sessionManager.ts`) with the PTY adapter (`nodePtyAdapter.ts`) | records, selection, per-session launch and close promises, startup input buffer, native process | launch, close, terminateAll, dispose, write, resize, activate, exit handler | PTY callbacks; notices to the launch controller |
| Launch controller (`launchController.ts`) | `pendingResumes`, `pendingForgets`, open notifications | launch, resume, restore, rename, forget | registry, resumable store, composer runtime |
| Resumable session store (`resumableSessionStore.ts`) | saved metadata, chain of writes | upsert, updateExisting, rename, forget | workspace state |
| Composer runtime (`composerRuntime.ts`) | `restoring`, `forgetting`, generations | restore, forget, routing of messages | registry events, controller, launch controller |
| Composer controller (`composerController.ts`) | working drafts, save timers, submissions | select, type, submit, close, forget, restore | composer store, delivery adapter, webview |
| Composer store (`composerStore.ts`) | published drafts, failed drafts, tombstones, chain of operations | save, record, clear, forget, transfer, load | workspace state |
| Prompt delivery (`composerBroker.ts`, `claudeComposerAdapter.ts`, `hooks/composer.js`) | bindings, one exchange per session, files | submit, read and clear the native draft, list commands | hook process through files |
| Channel directories (`attentionChannel.ts`, `claudeComposerAdapter.ts`) | directories under the global storage, one set for each window | open, publish, prune, prepare a launch, dispose, close | other windows, through the storage |
| Completion reporter (`hooks/register.js`, `completionRetry.js`) | generations and records of background agents | start, complete, publish, retry | signal files |
| Attention signals (`attentionSignalWatcher.ts`) | open question, agents, own turn, per session | ingest a batch, apply a signal, prompt, end | signal files, registry |
| Attention notifications (`attentionNotificationCoordinator.ts`, SnoreToast) | registrations, helper processes and their timers | install, raise, renew, retry, retire, accept | Windows, helper processes |
| Configuration and setup (`configurationStore.ts`, `setupController.ts`) | workspace configuration, setup-pending flag, queue of setups | load, reconcile, ask, save, reset | workspace state, pickers |
| Launch planning (`launchPlanner.ts`) | probes and their deadline | plan | configuration, folders |
| Panel provider (`sessionPanelProvider.ts`) and document (`webview/renderer.ts`) | view generation, eligibility scan, pages; tabs, rows, terminals | resolve, ready, refresh, recover, flush, select, close, rename | registry, stores, messages both ways |
| Prompt editor in the document (`webview/composer/view.ts`) | text shown, revision, label, edits on their way | hydrate, type, send, clear, recall, import | controller, by messages both ways |

The hard behaviours, and the property each part stands or falls by:

* a spawn that resolves after its session was closed or the window shut down:
  **no process is left behind**;
* two resumes, a resume and a restore, a forget and a resume of the same
  conversation, each reading "not live" before the other acts: **a conversation
  never runs twice, and metadata that was forgotten does not return**;
* a document write that fails, or during which the reason for it goes away:
  **no saved draft is lost or doubled, and "Saved" is true**;
* a delivery whose time-out races its answer, a new conversation, or the user at
  the same input box: **a prompt is never taken twice, its answer is never that of
  another one, and the user's own text is neither sent nor erased**;
* signals seen late, twice, out of order, a completion whose publication fails:
  **what the panel shows of a session is what its parts say, and a late
  completion ends no newer run**;
* a document replaced, hidden or loaded twice while lists and scans change: **the
  panel ends up showing what there is**;
* host and editor that number their changes alike while messages cross: **no text
  is lost, and the label under the editor is true**;
* an update of the workspace state that is the last before a reload, a popup that
  outlives its question: **no session gets a folder the user did not agree to**;
* helpers that fail or end at any time: **whoever can still answer a toast has
  helpers, and nobody else has**;
* windows that crash, prune and start beside each other: **a living window's
  channels stand, a dead one's go**.

`PROJECT.json` lists every part with its sources, what is and is not modelled,
every hazard at its line, and for each definition the lines it stands for.

## Modules

| Module | Models |
|---|---|
| `SessionLifecycle` | abstract specification: what the registry promises about a session, its process and its failure |
| `SessionManager` | the registry and the PTY adapter; implements `SessionLifecycle` (`SL == INSTANCE ... WITH`) |
| `SessionManagerProofs` | theorems about `SessionManager` |
| `ResumeControl` | launch controller, resumable store and the composer runtime's reservations, over an abstract registry |
| `ComposerStore` | the composer store's chain and writes under the controller that types, submits, clears, forgets, moves |
| `ComposerStoreProofs` | theorems about `ComposerStore`: nothing is stored twice, and no draft is lost |
| `ComposerView` | the prompt editor in the document and the controller it talks to, by two queues of messages |
| `ComposerViewProofs` | theorems about `ComposerView` |
| `PromptDelivery` | broker, file transport and hook of one session, with the user at the input box |
| `PromptDeliveryProofs` | theorems about `PromptDelivery` |
| `CompletionReporter` | the hook that reports the runs of background agents, and Claude around it |
| `AttentionSignals` | the signal watcher and processor; extends `CompletionReporter`, whose files it reads |
| `AttentionSignalsProofs` | theorems about both |
| `WorkspaceSetup` | configuration store and setup controller |
| `LaunchPlanner` | the planning of a launch; extends `WorkspaceSetup`, whose configuration it waits for |
| `LaunchProofs` | theorems about the launch of sessions: `ResumeControl`, `WorkspaceSetup` and `LaunchPlanner` |
| `SessionPanel` | panel provider, eligibility scan and document |
| `SessionPanelProofs` | theorems about `SessionPanel` |
| `AttentionNotifications` | installation, registrations, helper processes and toasts |
| `HostChannels` | the channel directories of several extension hosts, and the launches that use them |
| `ActivationProofs` | theorems about `HostChannels` and `AttentionNotifications`, what a window's host sets up |
| `MC*` | symmetry sets and small values for the runs |

### SessionManager

`launch()` is a coroutine: `Launch` is its synchronous head, `Prepared` and
`LaunchFailed` the continuation of `prepareLaunch`, `Spawned` the native spawn,
and the `Adopt*` actions the continuation of `spawn`, one for each way it can go
(abandoned because the session has gone, exited meanwhile, resize refused,
closing, running, flushing the buffer failed or closed the session). A close is a
promise chain: `Close`, `Flushed`, `Killed`, `CloseSettled`. `ProcessExit` is the
process ending by itself or killed; when the record owns the PTY it runs
`HandleExit` in the same step, as the callback does. `records` is the map in
insertion order, since the hand-over of the selection depends on it. A write to a
running session that the PTY refuses throws to its caller and changes nothing, so it
is no step; a refusal during the flush is one (`AdoptFlushFailed`).

`SessionLifecycle` has five variables (`shut`, `phase`, `process`, `doomed`, `told`)
and says: phases only go forward, a process is ordered only for a session that is
still starting, only a doomed process may outlive its session, and a failure is
reported once, as a session leaves that nobody closed.

### ResumeControl

An operation (`Op`) is a call of `resumeSession`, of `launchDraftRestore` inside a
restore, or of one of the three ways to forget: the panel's (`Forget`), the
composer's (`Discard`, for a draft that has no metadata) and the button of a
failed resume (`TakeOffer`). `op[o].step` says which await it stands at. The
store's chain is explicit: `StoreStep(ok)` runs its first mutation, decides what
the code decides only then (`Moot`), and writes or fails. `Reload` is a window
reload at any moment. Planning and probing are one step that may fail.

### ComposerStore

The store's `chain` is `queue`; its head either returns without writing (`Skip`)
or begins a write with the document as it is then (`Write`), tombstones included.
The write ends in `WriteLands`, `WriteFails`, or, when `stillValid` has become
false meanwhile, in `WriteUndone`, which writes the previous document again; that
write can fail too. `shown` is what the store publishes, `disk` what a reload
finds. `Return` is the continuation in the controller. A draft is a revision and a
text; texts are the numbers of the edits that produced them, so that a text names
one edit of one conversation. `Submit`, `NotAccepted` and `Accepted` stand for the
delivery, whatever it does. A restore is two steps (`RestoreBegins`,
`RestoreMoves`) because a session is launched between them; the conversation it
moves the draft to was not open before (`restoring.fresh`). A close is two steps as
well: `Close` lets the session go and queues its last save, `Closed` drops the
working copy once nothing of the conversation is queued, unless a new session has
taken it over. Revisions are unbounded; the texts bound them. Of two restores at once,
and of one that begins by saving the draft whose write had failed, the model has none:
one restore runs at a time, of a draft that is already durable.

### PromptDelivery

Three programs that share two files and a terminal. The broker and the transport
run in the extension host; `poll[e]` is the hook's polling loop, one for each start
`e` of the hook, since a poll that awaits something survives `reset` and finds out
afterwards (`StillCurrent`). The transport's `chain` is explicit, its head goes
through `PerformStart`, `PerformClear` and `PerformPublish`, and stays in the slot
until it is answered or sees that it was given up, which is later than the
broker's own `Timeout`. `response` is one cell: a late answer overwrites whatever is
there, and a write that fails is lost. `event` is the one `prompt.submit` in
progress: `PromptSubmit` is the part before the first await, `PromptChecked` the part
after it, and `PromptAccepted` the continuation of `next(e)`.

Every submission carries the same draft, as those of a user who sends again do; so
the hook may take the text of one for another's, which distinct drafts would
exclude. `taken`, `vouched`, `byKeys`, `overtaken`, `foreign` and `crossed` are
history variables: they record what really happened to a text, for the properties
only. `crossed` names the submissions that something came before, so that
their keys find something else in the box or no owner in the hook. There are three
such things: the user's own Enter, which sends the prepared draft; the keys of an
earlier submission that were themselves crossed; and the end of the poll of an
earlier start, which puts its own submission in the one slot `retired` has
(`Displaced`).

A deadline starts when the hook reads the request, so deadlines pass in the order of
reading: `earlier[q]` are the submissions read before `q`, and `Expire(q)` waits for
theirs.

### ComposerView

Text is the set of pieces typed into it, so that what became of each piece can be
asked; an edit that keeps every piece stands for a move of the cursor. `up` and
`down` are the messages between document and host, first in first out; a new
document loses `down`, and loses or keeps `up`. A recall takes the latest prompt the
host keeps; the document's own copy of the list, and the place in it, are left out.
The acceptance of a prompt and the
clearing of its draft are one step, as are the write of storage and its answer.
`fate` says of each piece what the user did with it, or what the code does to it:
`crossed` (an import clears Claude's box although the editor did not yet show the
imported text, or an edit on its way replaces it) and `unseen` (in the view at a
reload, before the host had it). `left` marks a session whose edit was on its way
when the view went to another. Sessions live and can be submitted to; the end of
sessions, the catalogue, file references, preview and layout are left out.

### CompletionReporter and AttentionSignals

`runs` are the runs of agents in the order Claude starts them; each has an opening
(readiness, generation, publication) and a closing (record, publication, retries).
Where a hook awaits the session id before it reports, the await is part of the step it
leads to, since what is reported was read before it; a retry awaits it in a step of its
own (`RetryIdentified`), and may find that it cannot be read (`RetryUnidentified`), which
counts as an attempt and, in the bound, as a lost publication.
The files of both end in `files`, which the watcher reads in batches of any size
and order, a batch sorted by time; a file that cannot be removed is read once and
remembered. The processor then keeps, for the session, an open question (`stage`),
Claude's own activity (`own`) and the run of each agent. When due times come is
free. A start of an agent with the limit reached or without timers has no
generation. Claude answers a question, starts another conversation and ends.

### WorkspaceSetup and LaunchPlanner

The two keys of the workspace state are updated one after the other, each in a step
of its own, and any of them may be the last before `ReloadWindow`; an update that fails may
leave its value readable in this window only (`mem` and `disk`). Setups queue up,
each with the folders of the moment it was asked for; the popups of one are one
step (`Answer`, `DismissSetup`). `agreed` records what the user last answered. A
launch takes the configuration its own setup hands it, looks at folders with
bounded workers, and plans; `ProbeRetired` is a probe that outlives its time. `Place`
is the rank of a folder in the order of looking: the one asked for, with automatic
imports the default one, then the others as they are listed. A plan may say that the
configured default did not answer; `PlansJustified` asks that it was looked at, of a
launch that names its folder only from two workers on (the code has four).

### SessionPanel

`host` is the provider's memory, `page` the document; its handlers are functions from
host to host, so that a handler that calls another is one step. `ScanChecks` is
the eligibility scan after one of its awaits: it looks at the generation and
starts over, goes on or publishes. `DocumentLoads`, `ReloadDocument`, `ShowView`,
`DisposeView` and `ResolveView` are what VS Code does to a webview; messages to a document
that is loading may be lost. Output is counted, not spelled. Transcripts are sets
of line kinds. Left out: paste, links, focus, badge, the cut of long replays.

### AttentionNotifications

The activator is a record with its slots, helpers, retirements, retries and renewal;
its functions (`StartedWorker`, `EndedCurrent`, `Stopped`, ...) map records to records,
and whether the operating system starts a helper is an argument (`launched`). Timers
may fire at any time while they are set. Helpers, installer and Windows do what they
like. A helper's id is used again once it has ended. The registry is a set: toasts are
numbered as they come, so the first key of the map is the least of them (`Oldest`), and
at its limit the registry holds one too many at most, so one makes room. The
oldest registration is the first to be a week old (`Expires`); its toast
stays on the screen (`Visible`) and can be clicked, but leads nowhere any more, so
`ToastsSelectable` is about the others.

### HostChannels

`step` is how far a host has come in opening its attention channel and, with its first
launch, its composer directory; `closing` how far `deactivate` has come. `Start` and
`Admit` take the listing (`found`), `Prune` and `Sweep` judge one entry each: an
entry may be judged by a name it no longer has, and a removal may come too late or
fail. `Stage` and `Publish` are the two names of an attention channel, `MakeDirectory`
and `OwnDirectory` the directory before and after it has an owner file. A host has one
composer directory in the model: what a failed attempt left is forgotten when the next
makes another (most often a directory without an owner file, of which `LeftoversSwept`
says nothing). `Prepare` to
`Erase` follow a launch through `prepareLaunch` and the end of its session. `Die` is a
crash, or the end, of a host at any moment; its process id is free from then on.
`owed`, `refused` and `misread` are history: what a host listed of the dead, what could
not be removed, and whose owner file could not be read.

## Runs

| Run | Question | Bounds | States |
|---|---|---|---|
| `session_registry` | safety of the registry, input order, and that it implements its life cycle | 2 sessions, 2 chunks of input | 2.7 M |
| `session_close_lost` | *violated*: a close requests termination | 1 session | - |
| `resume_control` | exclusion, forgetting, names, release of reservations | 2 conversations, 2 operations, 2 launches, 1 rename | 1.1 M |
| `composer_store` | drafts survive, once, and "Saved" is true | 2 conversations, 2 edits, 2 sessions each | 1.8 M |
| `composer_view` | text survives, the label is true, view and host agree | 2 conversations, 2 pieces, 3 events | 7.0 M |
| `prompt_delivery` | nothing is sent twice, answered falsely, or sent or erased of the user's | 2 submissions, 2 starts of the hook, 1 edit | 7.5 M |
| `prompt_live` | every submission gets an outcome | 2 submissions, 1 other operation, 1 start | 2.1 M |
| `attention_signals` | the panel shows what the session's parts say; only its own completion ends a run | 2 agents, 1 record kept, 4 events, 1 lost publication, 1 file that stays | 2.1 M |
| `workspace_launch` | access is agreed, folders are put to the user, the folder asked for is looked at | 2 folders, 1 launch, 3 events | 1.9 M |
| `panel` | what is offered is known, and a quiet panel shows what there is | 2 sessions, 2 conversations, 2 documents, 2 events | 2.1 M |
| `notifications` | helpers follow what is pending; a toast leads to its session | 2 sessions, 3 toasts, 2 registrations, 3 helpers | 1.2 M |
| `host_channels` | living windows' channels stand, the dead's go, a session's channel goes with it | 2 windows beside what a third left, 2 process ids, 1 launch | 2.1 M |

Why these bounds are enough. Two sessions are needed for the selection to move to
a neighbour and for one to be closed while another launches; no handler looks at
more than two records at once. Two conversations and two operations give every
pair of overlapping operations on the same and on different conversations; the
code's reservations are sets tested for one UUID, so a third adds no new case. A
second launch of one conversation needs two `Run`s. Two edits give an older and a
newer draft of one conversation, or a draft in each of two; two sessions of a
conversation give the resume of an ended one. Ids, conversations and operations are
interchangeable, so the runs without liveness use symmetry. A late answer, a late
key and a slot still in use each concern two consecutive submissions; two starts of
the hook give a poll of the old one beside one of the new. The other operations of
the broker never fill the input box, so they are left to `prompt_live`.

Three events beside two edits let one change of session, failure or reload fall
between an edit and each of the messages that answer it. Two agents are one that is
shown and one that ends, one record reaches the limit of records (256 in the code),
and four events are two runs, or a run and two changes of conversation. Two
folders are the requested one and one that hangs; the code's limits of four
workers, eight probes and five or ten seconds become one worker and one probe, which
a single hanging folder uses up. Two documents give a predecessor whose messages
arrive late. Three toasts push one of two registrations out; three helpers fill
both slots while one retires. Two windows and the leavings of a third give two
that prune the same directories while one of them creates its own; two process ids
let a dead owner's be used again. A second launch in a window only shares its
directory; a larger instance with two was checked without liveness.

`CHECK_DEADLOCK FALSE` is set because the system really may stop: a user need
never launch anything again, and the bounds run out.

**Assumption of `composer_store`.** `LateSaves = FALSE`: a conversation is not
resumed before the save of its ended session is over. The code does not enforce
this; see below.

**Assumption of `prompt_delivery`.** `LateKeys = FALSE`: keys that were written reach
Claude before the hook's five seconds are over. The broker's own five seconds start
earlier, so `Expire`, the hook's deadline, also waits for the exchange to be over.
The hook forgets a retired submission then, and keys later than that would find no
owner.

**Assumption of `panel`.** A draft is published (`Flush`) only while its session
lives, a retry is set, or no view is open: what the provider's one-second retry is
there for. And of `attention_signals`: at most one publication, or the reading of one
session id, fails.

**Fairness.** `PromptDelivery!FairSpec` assumes that deadlines pass and that a
promise's continuation runs; nothing of the files, the hook, Claude or the user.
`HostChannels!FairSpec` assumes that what a living host has begun goes on: the
runtime runs continuations and a file operation ends, either way. It does not assume
that a session that is being closed ever leaves the registry, nor anything of the
user, and a host may end at any moment. The other runs check safety; what must
eventually happen there is stated as what must hold at rest (`PanelAgrees`,
`ActivityAgrees`, the last part of `SavedSurvives`) or as the continuation that must be
pending (`NoOrphanProcess` for a waiting close, `ReservationHeld`).

### What the violated run shows

`session_close_lost`: a close issued while the spawn is in flight finds no PTY; if the
PTY is adopted before that close has let go of its guard, the second close that
`launch` issues shares the exhausted first one. The session stays "closing" with a
live process until it is closed again.

### What else the code does

Where the code and the intention part and a property would be false as one would
first state it, the property names the exception.

* **A clear that takes another text.** `clearAcceptedDraft` (`composerStore.ts:161`)
  knows the draft it clears by its revision only. Two sessions of one conversation can
  number two texts alike if the second is resumed before the first one's save is
  over; an accepted prompt then clears a text that was never sent
  (`docs/user-guide.md:285` says the draft sent is cleared). `LateSaves = TRUE` shows it.
* **A prompt called failed that was sent.** `reset` in `hooks/composer.js` spares a
  submission only while a slash command executes. A prompt that `prompt.submit` has let
  through is answered "rejected" by a new start of the hook, and Claude takes it all
  the same. `OutcomesTrue` says that this and keys that something came before
  (`crossed`) are the only ways to such an answer.
* **One slot for two submissions.** `retired` (`hooks/composer.js:184`) is a single
  variable. A poll of an earlier start that ends late puts its own submission there and
  displaces the one whose keys are still on their way. These find no owner: they may
  send what is in the box, be it the user's text. The exact invariant of who owns the
  keys came out of the proof of `DraftsOnce`, which fails at this step without `crossed`.
* **A rename undone.** `resumeSession` takes the stored record (`launchController.ts:180`)
  while a rename may still be in the store's chain; the update at line 244 writes the
  old name back, in the tab and in storage. `NamesAgree` holds; that the newer name wins
  does not (`docs/user-guide.md:190`).
* **An old Forget button.** `handleResumeAction` (`launchController.ts:390`) looks neither
  at `pendingResumes` nor at `isLive`. The button of a failed resume's notification
  removes the metadata of a conversation that was resumed since, although
  `forgetConversation` (line 149) is to remove "only known inactive metadata".
* **A session the view has left.** Host and view change sessions by messages that
  cross; an edit on its way for a session that the host has left, or has left and come
  back to, is lost from the view or dropped as stale, and the label may go on saying
  "Saving" or say "Saved" (`docs/user-guide.md:272`). `TextSurvives` and `ViewAgrees` except
  exactly the sessions in `left`.
* **An import that crosses an edit.** Claude's box is cleared once the host has taken its
  text over; an edit that is on its way replaces it (`docs/user-guide.md:252`).
* **A new conversation in the middle of an agent's start.** A run that starts between the
  change of the conversation and the hook's notice of it gets its generation under the
  old identity; its completion goes out without one and is ignored. The agent stays in
  the panel. `ActivityAgrees` speaks of runs of the present conversation.
* **A setup that comes back.** When the mark of a pending setup could not be cleared
  after the answer was saved, the popup opens again after a reload, and dismissing it
  takes back the answer given before.
* **A click on a tab whose session is ending** leaves the document without a selection
  although the host has one (`renderer.ts:621`). A document that is replaced within
  moments may print the last output twice, once for its predecessor's ready message.
* **An owner file that cannot be read.** `readOwnerProcessId` takes any failure to read as
  "no owner", and the channel of a living window is removed although only "channels
  whose host no longer exists" are to go (`attentionChannel.ts:40`); its hooks then
  write into nothing. The composer's pruning leaves such a
  directory alone. `ChannelsStand` excepts `misread`.
* **A directory nobody removes.** A host that dies between making its composer directory
  and writing the owner file leaves a directory that no later host takes for its own
  kind. `LeftoversSwept` speaks of directories with an owner. A leftover whose owner's
  process id is in use again stays until that process ends.

## Proofs

Every theorem here is for all values of the constants: any number of sessions,
conversations, operations, submissions, hosts, folders. What TLC checks on two of
each, these show for every number, from the named assumptions on the constants
alone. Each module proves one inductive invariant (`Invariance`), with a lemma for
what each step does to each of its parts, and reads the properties off it by `PTL`;
why the property is not inductive by itself is said below.

| Module | Theorem | States |
|---|---|---|
| `SessionManagerProofs` | `TypeCorrect` | `Spec => []TypeOK` |
| | `NoProcessOrphaned` | `Spec => []NoOrphanProcess` |
| | `SelectionStaysLive` | `Spec => []SelectionLive` |
| | `InputArrivesInOrder` | `Spec => []InputInOrder` |
| | `LifecycleImplemented` | `Spec => Lifecycle`, the refinement of `SessionLifecycle` |
| `LaunchProofs` | `TypeCorrect` | `Spec => []TypeOK` |
| | `NeverTwiceLive` | `Spec => []OneLivePerConversation` |
| | `ReservationsExclude` | `Spec => []ExclusiveUse` |
| | `ForgettingIsFinal` | `Spec => []ForgottenStaysForgotten` |
| | `NoReservationLeaked` | `Spec => []ReservationHeld` |
| | `TabAndStoreAgree` | `Spec => []NamesAgree` |
| | `LaunchTypeCorrect` | `LaunchSpec => []LaunchTypeOK`, of `WorkspaceSetup` and `LaunchPlanner` |
| | `ListPutToUser` | `LaunchSpec => []FoldersAnswered` |
| | `AccessAgreed` | `LaunchSpec => []PlansJustified` |
| `ComposerStoreProofs` | `TypeCorrect` | `Spec => []TypeOK` |
| | `NothingTwice` | `Spec => []NoSecondCopy` |
| | `DraftsInvariance` | `Spec => [](IInv /\ IDrafts)`, if `LateSaves = FALSE` |
| | `DraftsSurvive` | `Spec => []SavedSurvives`, if `LateSaves = FALSE` |
| | `DraftsNotLost` | `Spec => DraftsKept`, an action property, if `LateSaves = FALSE` |
| `ComposerViewProofs` | `TypeCorrect` | `Spec => []TypeOK` |
| | `TextNeverLost` | `Spec => []TextSurvives` |
| | `ViewAgreesAlways` | `Spec => []ViewAgrees` |
| `PromptDeliveryProofs` | `TypeCorrect` | `Spec => []TypeOK` |
| | `TakenOnce` | no submission is taken twice, accepted means taken, whatever `LateKeys` |
| | `TextKept` | `Spec => NativeTextKept`, an action property |
| | `KeysInTime` | `Spec => []InTime`, if `LateKeys = FALSE` |
| | `DraftsOnce` | `Spec => []OnlyDraftsOnce`, if `LateKeys = FALSE` |
| | `OutcomesAreTrue` | `Spec => []OutcomesTrue`, if `LateKeys = FALSE` |
| `AttentionSignalsProofs` | `TypeCorrect` | `Spec => []TypeOK` |
| | `ActivityAgreesAlways` | `Spec => []ActivityAgrees` |
| | `OnlyOwnRunEndsAlways` | `Spec => OnlyOwnRunEnds`, an action property |
| `SessionPanelProofs` | `TypeCorrect` | `Spec => []TypeOK` |
| | `OfferedOnlyKnownAlways` | `Spec => []OfferedOnlyKnown` |
| | `PanelAgreesAlways` | `Spec => []PanelAgrees` |
| `ActivationProofs` | `TypeCorrect` | `Spec => []TypeOK` of `AttentionNotifications`, with the limit on registrations |
| | `NothingLeft` | `Spec => []NothingLeftBehind` |
| | `ToastsLead` | `Spec => []ToastsSelectable` |
| | `ChannelsTyped` | `ChannelsSpec => []ChannelsTypeOK` |
| | `ChannelsSafe` | `ChannelsSpec => []ChannelsStand` |
| | `BridgesEndWithSessions` | `ChannelsSpec => []BridgesFollow` |
| | `LeftoversGo` | `ChannelsSpec => []LeftoversSwept` |

**Assumptions.** The bounds are numbers; `None` is no session, conversation, record,
configuration, frame, text, agent or activity (`NoneAssumption`, `NoneIsNoRecord`, parts of
`SetupAssumption`, `PlannerAssumption`, `ChannelAssumption`, `ReporterAssumption` and
`WatcherAssumption`): `undefined` is none of the program's values, nor is `Nil`, which
stands for it in `HostChannels`, or `Undefined`, which does in `WorkspaceSetup`; nor is a helper's record (`WorkerAssumption`). The conversations of the panel are numbers, for pages list them in
order (`UuidAssumption`). A list of folders names no folder twice; no folder is called
"default" and no submission "other". There is a process id (`Pid # {}`): a host runs
under one. A limit on probes is at least one, and that on probes outstanding not
below that on workers, as the code's constants are. Two hypotheses of theorems are what
the runs assume too (see "Runs"): `LateKeys = FALSE`, without which `TakenOnce` and
`TextKept` hold, and `LateSaves = FALSE`, without which `TypeCorrect` and
`NothingTwice` do.

### SessionManager

`NoOrphanProcess` is not inductive: whether an adoption leaves an orphan depends on
where the launch coroutine stands. `IInv` adds the types and that whatever process the
registry owns was adopted by a launch that has settled, so that a settled launch
adopts nothing a second time.

`Structure` says what record, launch, process and close agree on: a session has one
record, no process before its spawn, no kill before its adoption, and only a closing
one is closed or outlives the shutdown. With it each action maps to an action of
`SessionLifecycle`, or changes nothing that the life cycle sees (`Unseen`): one
lemma per group of actions, gathered in `LifecycleImplemented`.

`InputInOrder` speaks of what was delivered; the invariant (`InputsAgree`) of what
waits in the startup buffer too: until a session is closed the two together are the
chunks typed so far, whatever part of the buffer has been written when a write fails.

### ResumeControl

The safety invariants are proved together: a conversation runs once because a resume
reserves it, and `ExclusiveUse` keeps others from coming to life meanwhile.
`Structure` says what the code keeps without saying so:

* `MintedFirst`: whatever is stored, queued, running or operated on was minted, so
  a new launch, which mints its UUID, meets nothing of it;
* `HoldersReserve`: an operation between its reservation and the release is in
  `resuming` or `forgetting`, and two of them never share a conversation;
* `WaitedFor`: a queued mutation that an operation waits for finds it waiting, so
  what runs after the write belongs to that operation and step;
* `RecordedOnce`: the record of a new session is the first of its conversation, so
  the one write that does not look whether the conversation is still known cannot
  undo a forget.

`ReservationHeld` is inductive beside these. `NamesAgree` is about an empty chain; its
invariant (`NamesFollow`) says what the chain will leave: the last queued mutation
that names a conversation, or the stored record if there is none, has the name on
the tab, and so has a resume that is still to launch.

### ComposerStore

`NoSecondCopy` compares documents; a text can come into one from a draft being typed,
a failed draft, a queued operation, a submission or a restore. `OneHolder` says that all
of these belong to one conversation, in the window as well as in storage; the two may
differ while a restore that was stored has yet to be undone. `WriteSound` ties the document
under way to the operation it is written for, `SubmissionsTracked` the queue to the
submissions, and `ErasedGone` says that what was erased is in no document, the one
under way included. Nothing here depends on `LateSaves`.

`SavedSurvives` and `DraftsKept` need `IDrafts`: the store compares drafts by their
revision, so both rest on revisions and texts having one order.

* `Ordered`: the drafts in play of a conversation (published, failed, queued) are
  revisions of one draft, the working copy of its session the last of them, and a
  draft whose write failed is ahead of the published one (`Below`). This is what a
  conversation resumed too early breaks;
* `Sent`: a submission is of the working copy or of one before it, and a clear is
  queued only where the prompt is among the recent ones;
* `Moves`: a restored draft was published in its source, and is older than anything
  its destination has (`Movable`); no two restores have one destination;
* `UnderWay`: the reason for a write lasts until the write is over, or the write is
  undone, and then it was never published;
* `DiskKeeps`: therefore a reload finds the text of every published draft, whether
  the document on disk was published, undone or neither;
* `Secured`: the working copy is about to be saved (`dirty`) or in play, so that with
  nothing queued it is the one that can be recovered; `SavedTrue` follows from the
  order, since two drafts of one revision are one draft.

### ComposerView

Both properties are about a state in which nothing is on its way; the invariant says what
they become when the two queues are full of messages that cross.

* `QueuesSound`: edits of a session are in the order of their revisions, so are the
  hydrations of it, and whatever the view will be told is a draft the host has or has had
  (`Past`);
* `Following`: of the session it shows, the view is related to the host by `Follows`,
  a relation between two drafts and what is on its way in either direction. The view
  has a revision that the host lacks only with its edit on the way; it will be told every later
  revision of the host's, one by one; and a text that goes from one to the next draft it
  is told loses nothing but what is gone. One lemma each says that this survives a step of
  the host (`HostAdvances`, `HostRepeats`, `HostTakes`, `HostDrops`) or of the view
  (`ViewChanges`, `ViewTakes`, `ViewIgnores`, `ViewTurns`), and `ViewHas` that with nothing on its way both
  drafts are the same. The case in which both sides gave one revision to two texts is
  why the drafts told must be consecutive: the view can tell that it happened only by
  meeting that revision;
* `Holding`: the pieces typed for a session that are neither gone nor in Claude's box are in
  the view's draft, if it shows the session, otherwise in the host's or in the last edit on its way
  (`HeldByHost`);
* `WorkSound`: what is being sent, imported and stored is of the past, in the order in which
  it was begun; an imported text that is being saved is later than what is being sent, so an
  accepted prompt never clears it;
* `ActiveComes`, `VisibleComes`, `LabelsSound`: whatever a message on its way to the view
  makes wrong, a later one makes right again (`Mended`): a hydration of another session, an
  older visibility, a label that is no longer true;
* `PendingAnswered`: what the view waits for is asked, worked on or answered somewhere, or the
  view will turn to another session.

`Invariance` has one lemma for each step and each of `Keeping` (text) and `Agreeing` (the view).

### PromptDelivery

The invariant follows a request through three programs:

* `Slot`, `Results`, `Replies`: whoever has the transport's slot, the files and the
  broker's answers agree, so that an answer belongs to who reads it;
* `Drafts`: a draft is in one place, the poll that fills the box, the box, the event, or
  taken; this gives `TakenOnce`;
* `Polls`, `Read`, `Order`, `Queue`: a request is read once, requests have one order,
  their deadlines and their keys follow it;
* `Turns`, `Said`: what is in the box and the event, and what was said of it, fit the
  keys on their way, for a submission that nothing came before.

`InTime` adds what needs keys that are in time: no keys on their way belong to a
submission past its deadline, so they find it in `pending` or in `retired`, or one read
after it (`Owned`). `OnlyDraftsOnce` and `OutcomesTrue` are read off the two.

### CompletionReporter and AttentionSignals

`ActivityAgrees` is about a state in which nothing is under way. The invariant says what
is still to come in every other one, for the runs of the present conversation
(`Carried`):

* `RunsSound`, `RecordsSound`, `RetrySound`: a run that begins takes the number of its
  generation, and only the last run of an agent goes on; the reporter's record is of that
  one, and says it is over (`kept`) only when it is. One retry is under way at most, of a run that
  is over;
* `SignalsSound`: what a signal says of its run is true of it, whichever hook wrote it,
  and one writer at a time is at the end of a run;
* `StartsFirst`: the start of a run is stamped after whatever concerns a run before it,
  and before its own end and the start of a newer run, and is not taken after these. An end
  that is read thus never meets a start that would bring the agent back;
* `Recovery`: a run that is over and still shown, or about to be, has something on its way
  that takes it off the panel. As long as nothing was lost there are two of these, its end and,
  if there is a newer run, that one's start; one loss costs one of them. If it was the only
  one, the reporter holds the end for a retry (`IsKept`), while there is a timer (`clock`). A
  second loss may cost the other: `ActivityAgrees` is about at most one;
* `ActivityShown`: the activity of a session follows from its agents and its own state.

With nothing under way nothing is left that `Recovers` could name, so an agent that is
shown runs. For `OnlyOwnRunEnds`, `AgentsSound` and `SignalsSound` give what an
end's generation is compared with (`ProcessEndsOwn`).

### WorkspaceSetup and LaunchPlanner

`SetupInv`: in this window and in storage alike, a configuration without the mark of a
pending setup is the one the user agreed to (`Agreement`), at each place between the two
updates (`UpdatesSound`); a launch is handed that one; and the last setup in the queue
is about the folders there are (`KeepsUp`). `PlannerInv` adds what a launch works with
(`Consulted`, `Bounded`) and that each waiting launch has one setup in the queue
(`Awaited`). That the folder asked for is looked at first is a fact about ranks of an
injective list, proved for lists and limits of any length.

### AttentionNotifications

`NothingLeftBehind` does not say what a helper falls back on. `Sound` does: the one a
helper replaced still runs, is about to be retired and had the same slot (`Priors`), and
no two helpers fall back on the same one, so taking it back when its successor fails
leaves no third one that counts on it. Each function of the activator maps a sound
record to a sound one, whatever launches succeed; an action is then one function and
one pruning (`BecomesStep`). `ToastsSelectable` needs that toasts are raised in order
(`Raised`): whatever the registry still holds when its oldest makes room is newer.
`Installed` says that an installer that runs and is not settled is being waited for, so
its end cannot start the watcher a second time.

### HostChannels

`OpenedUp` and `LaunchesPlaced` say where a host must stand for its channels and
launches to be there; `Listed` that what a host owes is of hosts gone for good, and in
its listing as long as it is on disk, so that judging the whole listing clears it.

### SessionPanel

`OfferedOnlyKnown` is about what is published; what a scan under way will publish makes it
inductive (`ScanSound`): as long as nothing superseded it, it found and looks for
candidates only, what it has found so far is what can be offered of those it has looked at,
and a superseded one has a refresh waiting. A change of the registry or of the metadata
changes the candidates and marks the scan stale in the same step.

`PanelAgrees` is about a moment when nothing is under way, and an induction needs to say
what the messages under way will make of the document. `PanelSound` does, with one part
for each thing that the document is told in its own way:

* `DocSound`: documents report in order and once each, a host knows a document that was
  replaced from the present one, and one that has loaded was heard of or its report is
  under way. All the parts below are about documents that were heard of (`Seen`); for
  the others the hydration that answers the report is still to come.
* `ContentSound`: following the messages in the queue one by one (`Leads`) turns the tabs
  and the output of the document into the sessions there are and all they have printed,
  or more when the document was hydrated twice.
* `RemovedSound`: no removal under way names a session that is there, or could be
  launched again under that id.
* `ResumeSound`, `SelectedSound`: the last message of its kind in the queue has the
  present value, or there is none and the document has it (`Carried`). For the
  selection a click of the user counts too (`Settles`): a document may differ where the
  host will hear of the click, or where the document will hear that the session has gone.
* `RecoverySound`: the last invalidation under way has the present revision (`Renews`),
  pages of that revision answer their request truly (`Answers`), a document that knows
  the revision has all rows up to the page it waits for (`Gathers`), and that page or the
  request for it is under way. Nothing under way speaks of a later revision.

A handler is shown once to post messages that carry each kind of news
(`TellsList`, `Renews`, ...); each step is then one handler, one message received or a
change of document, and each part follows from one lemma for each of these. With both queues
empty every part says that the document has the present value (`QuietAgrees`). The diff of
the sessions is built with `Chosen`, a recursive function on the list, about which the
lemmas are proved from least counterexamples.

### Only model-checked

Every liveness property (`SubmissionSettles`, `ChannelsGo`): liveness under fairness,
and the `ENABLED` it needs, are out of TLAPS's reach. All invariants and action
properties of the runs are theorems: `SavedSurvives` and `DraftsKept` under
`LateSaves = FALSE`, `OnlyDraftsOnce` and `OutcomesTrue` under `LateKeys = FALSE`, as
in the runs.

## Not modelled

See the components with status `not_modelled` in `PROJECT.json`. Presentation,
logging, the reading of files for the catalogue, the probing of Claude's version and
the quoting of command lines are input/output or text; the release scripts are not part
of the program. Inside the modelled parts: session names, ordinals and unread marks of
the registry; validation of stored documents; layout and favourites (their writes
carry the same sessions); the import of a native draft through `prompt.edit` on the
hook's side, and the `command.run` path; size limits; the popups of one setup one by
one; the selection that follows a click on a toast; platform checks.

## Plan

1. `NativeDraftImport`: the other half of the hook, `clearDraft` with `prompt.edit`
   and the `command.run` path with its executing flag.
2. Liveness of the registry's endings, of the scan and of the helpers, on small
   instances.
