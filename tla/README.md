# SevenMirror extension: specifications and proofs

The extension mirrors notifications of paired Android devices into Chrome. A
Manifest V3 service worker keeps one authenticated WebSocket to a relay, which
stores end-to-end encrypted deliveries per recipient; actions and replies travel
back. Nearly all the difficulty is in the worker: it may be stopped between any
two `await`s, it keeps its state in some ten IndexedDB databases and
`chrome.storage` keys that are never written in one transaction, and its
handlers (socket frames, alarms, notification callbacks, page messages) interleave
at every `await`.

Paths below are relative to the repository's `src/`, unless they start with
`protocol/` or `docs/`.

## Inventory

| Part | State it keeps | Operations | Correct when |
|---|---|---|---|
| Transport connection (`transport/transport-runtime.ts`, wiring in `background/service-worker.ts`) | generation, socket, reconnect timer, attempt, `connectionState` in storage, the alarm `transport-reconnect-v1` | connect, retryScheduledConnection, ensureAuthenticated, failClosed, disconnect, socket events | one live socket; every lost connection is retried; a security failure is not; the stored state tells the truth at rest |
| Durable delivery (`transport-runtime.ts` receiveRelayMessage, `indexeddb-relay-delivery-cursor-store.ts`, `notification-receiver.ts`, `action-result-receiver.ts`, `indexeddb-replay-ledger.ts`) | committed id, required high-water, recovery session, replay tuples | deliver, commit, acknowledge, caught-up, reset | nothing passed over in silence, nothing acknowledged early, redelivery harmless |
| Snapshot recovery (`transport/snapshot-recovery.ts`) | the recovery session in the cursor store, an alarm | begin, retry, observeManifest, accept | a reset is accepted only with the answers of every captured source to this reset |
| Actions out (`crypto/action-invoke-outbox.ts`, `indexeddb-pending-action-store.ts`, `indexeddb-outbound-sequence-store.ts`) | pending operation, attempts, next attempt, sequence | queueAndSend, sendOnce, resendExact, drainDue | at most one logical operation per key; a reply is sent once; retries are the exact payload |
| Results back (`action-result-dispatcher.ts`, `action-result-ack-outbox.ts`, `background/synthetic-ack-hold.ts`) | completed status, acknowledgement intent | reconcile, drainDue, hold and release | an acknowledgement only of a durable result; no intent waits without a wake-up |
| Notification state (`indexeddb-notification-state-store.ts`) | item per source and notification, source high-water | reconcileUpsert, reconcileRemoved, reconcileSnapshot, hide, view, clear | revisions never go back; a snapshot removes only what it supersedes |
| Presentation and close (`background/notification-presenter.ts`, `lifecycle-spike.ts`, `shared/close-policy.ts`, `notification-button-binding-store.ts`) | programmatic-close markers, button bindings, native notifications | present, mark, onClosed, onButtonClicked | only a close by the user dismisses on the phone; a button invokes the action it showed |
| Credentials (`indexeddb-transport-credential-store.ts`, `transport-credential-rotation-client.ts`) | current and pending credential, attempt mark | prepareRotation, markRotationAttempted, promotePending, fallback | the device can always authenticate with one of the two |
| Membership (`workspace-membership-client.ts`, `indexeddb-pending-membership-store.ts`, `membership-transport-promotion.ts`, `indexeddb-workspace-membership-store.ts`) | pending bundle and phase, roster, epoch | prove, poll, promote, refresh | the epoch never goes back; promotion survives a stop |
| Certified reset (`background/certified-re-enrollment-reset.ts`, service worker 724-802) | durable intent | stop, clear each store, finish | the intent outlives every store it clears |
| Shortcut synchronisation (`background/shortcut-sync-coordinator.ts`, `shortcut-sync.ts`, `workspace-preferences-client.ts`) | enabled flag, revision, rules | enable, disable, publish, pull | disabled stays disabled; local edits are not lost |
| Authorization (`workspace-business-peer-resolver.ts`) | none (reads the roster) | resolve, list | uses the roster of the moment |
| Crypto, codecs, pages, preferences, sound, i18n, generated code | little or none | | outside these models |

How they interact: the relay's frames reach `TransportRuntime`, whose queue calls
the dispatcher (`onEnvelope`), which writes the notification state or the pending
actions, then the replay ledger, and after it the cursor; the presenter shows the
result and `onClosed`/`onButtonClicked` callbacks lead back to the invoke outbox,
which sends through the runtime. `onAuthenticated` drains both outboxes and retries
the recovery; `onHistoryGap` begins one; alarms wake each of them after the worker
was stopped. `PROJECT.json` lists the hazards of this code with their lines.

## Modules

| Module | What it is |
|---|---|
| `DeliveryContract` | what durable delivery promises: ids allocated in order, fates that stay settled, a committed prefix of settled ids, forgetting only what is committed |
| `RelayDelivery` | the inbound pipeline, the cursor store and the recovery coordinator, with the relay and the sources around them |
| `MCRelayDelivery` | its instances for TLC |
| `RelayDeliveryProofs` | the inductive invariant and the theorems |
| `ActionContract` | what an action goes through: registered, executed, its result known, forgotten by the phone, in that order |
| `ActionDelivery` | both outboxes, the pending action store, their alarms and callers, with the connection and the phone around them |
| `MCActionDelivery` | its instances for TLC |
| `ActionDeliveryProofs` | the inductive invariant, the theorem on replies and the refinement |
| `ActionAttemptsProofs` | attempts and frames within their bounds, and the alarm of a single retried operation |
| `TransportConnection` | `TransportRuntime` with the callbacks of the worker, the alarm its retries share, the credential record and its rotation, and the relay's end of both |
| `MCTransportConnection`, `TransportConnectionProofs` | its instance and its theorems |
| `WorkspaceRosters` | rosters, certificates, and the rules by which a device accepts the next one |
| `MembershipContract` | what a device promises about the rosters it believes: one authority and one first roster on trust, then only the next link of that chain |
| `WorkspaceMembership` | registration, recovery, refresh, promotion and the certified reset, with the relay and the authority around them |
| `MCWorkspaceMembership`, `WorkspaceMembershipProofs` | its instances, and its theorems on beliefs, rosters and the journal |
| `WorkspaceResetProofs` | its theorems on what promotion, connection and reset leave in the stores |
| `MirrorContract` | what the mirror of one source promises: each notification is in a state the phone once had and only moves to later ones |
| `NotificationMirror` | the notification records, the presenter, and the callbacks of `chrome.notifications` |
| `MCNotificationMirror`, `NotificationMirrorProofs` | its instance and its theorems |
| `ShortcutSync` | the shortcut rules of the browsers of a workspace, the coordinator, the alarm, the options page, and the server's copy |
| `MCShortcutSync`, `ShortcutSyncProofs` | its instances and its theorems |

The modules do not share variables, and each takes what another shows as its
environment. `TransportConnection` stops at the handshake, where `RelayDelivery`
begins, and sees the membership as an answer (active, inactive, failed) that
`WorkspaceMembership` gives; `WorkspaceMembership` sees the connection as linked or not;
`NotificationMirror` assumes of the delivery only that it may bring any message of
the source at any time and any number of times. `ActionDelivery` and `RelayDelivery`
meet at the results. `RelayDelivery` sees a result as one durable
effect of a delivery; `ActionDelivery` sees the relay as what keeps a result until its
delivery is committed. What they rely on of each other is what both check: a delivery
is committed only after its effect (`NoSilentLoss`), and an effect may come again.

### RelayDelivery

*State.* `committed`, `required`, `recovery` are the cursor store's record;
`applied`, `replay`, `covered` are the durable effects (business effect of a
delivery, its replay tuple, and how much of a source's history its reconciled
snapshot reflects); `gen`, `sock`, `halted` are the runtime; `tasks` holds what is
between two `await`s; `log`, `evicted`, `relayAck`, `link` are the relay; `down`, `up`,
`requests` are what is in flight. `waived` is a history variable: the ids a reset
passed over that no captured source can restore (results, and sources that were not
expected). The protocol says these are lost; the variable makes the loss explicit
so that everything else is covered by `NoSilentLoss`.

*Tasks.* A handler is a sequence of atomic steps separated by the `await`s between two
durable effects. A task records its place (`pc`), the connection that started it and
its arguments, so work started on a replaced connection goes on until the code next
looks at the generation, as in the code. `owner` tells how its failure ends: an
inbound frame closes its own socket, `begin` and the alarm call `failClosed`, the
retry at authentication ends silently.

*Steps merged.* Where two awaits have no effect of another actor between them that
the outcome could depend on, they are one step: the check of `isAuthenticated` before
the accepting transaction goes with the step before it; the load and the record of
observeManifest; the load of the cursor and the sending of SNC1 at authentication; the
replay tuple of a manifest and its reconciliation. A source is a device together with
its identity key. Envelopes expire in the code; a delivery is not rejected for its age
here, other than by the eviction on the relay.

*Reset reports.* A source answers a request with its current state, so the manifest
reflects the log at the time of the answer (`down` carries `Len(log)`).

*Failure.* `Drop` loses the connection and what is in flight, `Crash` also the tasks,
`LocalFailure` makes any step throw. A frame that does not decrypt or decode is such a
failure. `failClosed` sets `halted`, except that the watchdog alarm of a connection
that had not authenticated yet survives it (`Throw`).

*Fairness* (`FairSpec`). The relay serves its connections; the alarms, which Chrome
keeps over worker stops, fire; the worker's promise continuations run; sources answer.
Losses, submissions, evictions, revocations, user clicks and crashes are never obliged.

### ActionDelivery

*State.* `rec` is the pending action store: the state of the record of a key, the
attempts of its invocation and of its acknowledgement, and how many seconds until each
is due (`Never` stands for the expiry, where the code puts the next attempt once all are
used). `invokeJob` and `ackJob` are the operation each outbox is in (`runExclusive`
admits one); `invokeWanted` and `ackWanted` the callers waiting behind it;
`invokeAlarm` and `ackAlarm` the two alarms. `inbox` is the delivery the socket's queue
is at, which is committed only after the drain of the acknowledgements it waits for.
`toPhone`, `results`, `executed` and `outbox` are the frames, what the relay holds for
Chrome, and the phone. `sent`, `asked` and `extra` count for the properties.

*Jobs.* A user's request is register, send, record, set the alarm; a drain reads the
entries due (`InvokeDrainStart`), then sends and records each, then sets the alarm. A
crash may come between any two. A drain uses the attempt number it read at its start for
the delay and for its next wake-up, while the store uses its own for the limit, as in
the code.

*Callers.* The invoke outbox drains on authentication and on its alarm; that of the
acknowledgements also behind every delivery. The first two are one caller (`wake`),
because a second drain queued behind a queued one finds what the first left.

*Steps merged.* Resolving the recipient, encrypting and sending an entry are one step:
nothing another actor does in between changes the frame, and a revocation in between
is one after it. The end of a drain and its alarm are one step. The order of a drain
(by due time, then key), its limit of 16 entries, the expiry after 30 days and the purge,
conflicting results, sequence numbers and the hold of the synthetic operation are left
out. A reply always has a key of its own: the service worker's callers of `sendOnce`
pass none and `queueActionInvoke` draws one.

*Time* passes in seconds, all timers at once, and stops at zero; an alarm at zero may
fire at any later moment, so a late alarm is included. `MinAlarm` is Chrome's floor.

*Fairness* (`FairSpec`). The continuations of the invoke outbox run, its alarm fires,
time passes and a lost connection is sought again. The phone, the relay and the user
are obliged to nothing, so `NeverStranded` says what Chrome does alone: an operation
leaves the pending state or uses up its attempts. It is checked with lost connections
and not with a crash or a failure between the registration and the alarm: there the
operation waits for the next connection, which may be arbitrarily late.

### TransportConnection

*State.* `attempts` are the runs of `startConnection` with what their sockets call back:
where each is, who asked for it, its candidate token and its socket. `runtime` holds the
fields of `TransportRuntime` (the generation's attempt, the live socket, `timer`, the
preference among the candidates), `alarms` the two alarms, `state` what is written for
the pages, `worker` whether the service worker sleeps, boots or runs, `refresh` the
membership refresh while online. `record` is the credential record and `rotation` the
run of `rotateChromeTransportCredential`; `valid`, `minted` and `requests` are the relay.
`gaveUp`, `swept`, `clobbered`, `crossed` are history and name the exceptions below.

*Steps.* Every await of an attempt is a step, and the step after it compares the
generation as the code does there (`Superseded`); callbacks that do not compare it are
steps without that check. The acknowledgement and the heartbeat of the handshake, which
close the socket on the same path, are one loss.

*Failure.* An admission, a request or a socket fails; the relay refuses; frames are
rejected; the worker crashes or is put to sleep at any step; a rotation request is late
or lost. *Fairness* (`FairSpec`): some step of an attempt, an alarm, or the sleep of an
idle worker is taken as long as one can be, and the membership refresh goes on. It does
not oblige failures, pages or the relay's rotations.

What the code does that a reader would not expect, each a named exception of a property:

- `onAuthenticated` runs after awaiting the write of "online" and does not compare the
  generation again: the alarm of a loss that just happened is cleared (`swept`).
- Of two connections opened with one pending token and a rotation between them, the
  second promotes the token that is pending now and was never accepted (`crossed`,
  `indexeddb-transport-credential-store.ts:160`): the device is then locked out.
- The preference among the candidates lives in the runtime alone: with the rotation
  request lost and the worker suspended between the retries, the refused token is tried
  each time (`Undecided`; `protocol/transport-credential-rotation-v1.md:68` has the
  client fall back).
- The handler of a failed worker start writes "offline" over a newer live connection
  (`clobbered`).
- `failClosed` clears an alarm only if the runtime remembers its timer, so "Stops without
  network retry" (`transport-runtime.ts:222`) does not outlive a watchdog set before.
- A device that is not configured arms its watchdog again every minute, and a worker
  stopped before the watchdog is set leaves no alarm at all (`Dormant`).

### WorkspaceMembership

*State.* `journal` (the registration that is not yet promoted), `credential`, `identity`,
`memberships` (per registration: the pinned authority, the roster, the certificate) and
`intent` are stores; `alarms` and `linked` the connection as the membership sees it;
`jobs` the runs of `startConnection` up to the socket and of
`refreshMembershipWhileOnline`, `resets` the two callers of the certified reset, `page`
the registration in the options page. `chain`, `signed`, `enrolments`, `registered` are
the relay and the authority. `WorkspaceRosters` has the rules of acceptance as operators:
`Bootstraps`, `Follows`, `HandsOver`, `VerifyCertificateTransitions`, `Verifies`.

*Steps.* Each await of a job is a step; reads that the code makes one after another with
nothing between them to depend on are one (the three reads of the journal; the current
and the observed roster). Two jobs may hold different readings of the membership and
write in either order. The reset clears its stores in any order, may run twice at once
and may stop between any two.

*Abstractions.* The stored connection state is left out, so the refresh alarm may fire
whatever it says; so are the expiry of certificates, the limit of 4096 pages and the
refusal of an empty page. The relay does not refuse a device that was removed, which
makes the properties stronger. The authority is honest: rosters are genuine, while the
relay may serve any earlier one (`Restore`).

Limits of the code met here, each visible as an exception (`raced`, `halted`,
`Hopeless`):

- `pinAuthority` stores authority epoch 1 with an empty digest always, so a device that
  registers after a handover can never follow the next one; an authority handover between
  approval and promotion makes `promoteApprovedMembership` fail for good; and a
  registration that is removed, or never approved, cannot be abandoned.
- The reset is not coalesced: the run at the start of the worker and that of the button
  overlap, and a registration begun meanwhile can lose its stores. Nor does it wait for
  what already runs: a promotion that was superseded while it saves stores its credential
  after the reset has cleared everything else, and a connection that opens meanwhile keeps
  the refresh alarm. This takes two registrations and two jobs; `raced` records it.
- Any failure of a recovery but one of the network leaves no alarm, and any failure of a
  refresh while online stops the runtime; two refreshes at once can make each other stop.

### NotificationMirror

*State.* `rev`, `phase`, `digest`, `viewed`, `hidden` are the records of one source,
`high` and `manifest` its last snapshot; `native` and `bound` are what Chrome shows and
the stored button bindings; `mem` and `kept` the two lives of the marker of a
programmatic close; `events` the callbacks not yet handled, `closing` the closes that
become dismissals, `task` the tasks of the worker. `phoneRev` and `active` are the source.

*Steps.* A message is received, its record written, then the notification presented or
cleared, each a step, so that two receivers, a refresh after a settings change and a
click interleave between them; a snapshot reads and hashes first and writes in a second
transaction, which fails as a whole if the state changed.

*Environment.* Any message or manifest of the source arrives at any time, again and in
any order. Chrome reports its events in order, reports a close before the marker of it
expires, and answers the calls of one task in order.

*Exceptions.* A close cut by a crash is not repeated by a later, newer manifest, and the
native notification stays (`cut`); a refresh presents the list it read (`stale`), and
shows again what was hidden locally; a marker that is taken back because a clear could
not be sent may be missing for the close that came with the click (`lost`). Sound, badge
and wording are left out.

### ShortcutSync

*State.* `rules`, `sync` and `alarm` are what each browser stores: its rules, its
synchronisation state and the alarm of the pull. `server` is the sealed value per
workspace. `jobs` are the three parts of a worker that overlap: the synchronisation
button, the form and the pull on the alarm; `page` is what the form shows. Rules are
numbered in the order they are saved, and `knows` records what they were made from, so
that an update lost is one replaced by rules that do not know it.

*Steps.* Only a request to the server, the derivation of a key and the rendering of
notifications let others in: both the rules and the state are in `chrome.storage.local`,
whose calls Chrome answers in their order, so adjacent ones are one step. A pull compares
the answer with the revision it read before the request and stores over whatever is
there, as in the code.

*Failure.* A request fails, with a write taken or not; the worker stops, the browser is
started again with or without its alarms; the certified reset takes the credential and a
registration follows, in this or another workspace; the server loses its value.
*Fairness* (`FairSpec`): requests are answered, a running worker goes on, the alarm fires.
The user is obliged to nothing, so `Converges` says what the worker does alone.

What the code does that the properties have to except, or that they show:

- A pull or push under way when the synchronisation is turned off stores its state
  afterwards, the alarm cleared (`unwatched`), and a pull then overwrites the local rules
  (`shortcut-sync-coordinator.ts:99`: "The local rules and the server copy both remain").
- A save between the answer of a pull and its storing is overwritten, and the push that
  follows publishes the pulled rules while the page says "synced"
  (`options/shortcut-settings.ts:91`).
- A form opened before a pull on the alarm saves its rules over the new ones, and
  publishes them without a conflict.
- After a write whose answer was lost, pushes conflict, and the next pull applies the
  older rules over later edits.
- The state is neither bound to the workspace nor cleared by the certified reset
  (`replaced`); a pull without credential gives up the alarm, and registering again does
  not bring it back before the next start of the browser.
- Two overlapping pulls and a push, or turning off and on around one, store an older
  value under a newer revision (`late`).

## Runs

| Run | Bounds | Shows |
|---|---|---|
| `RelayRecovery` | 2 sources (symmetric), notifications and results, 1 delivery, 2 connections, 1 fault, 2 sessions, 1 eviction, 1 revocation, no alarm | `NoSilentLoss`: the recovery with several sources, where a session may be incomplete, superseded or accepted twice |
| `RelayResets` | 1 source, notifications, 2 deliveries, 2 connections, 1 fault, 2 sessions, 2 evictions, 1 alarm | `TypeOK`, `AckWithinCommitted`, `CursorAdvances`, `KeepsContract` (refinement of `DeliveryContract`) |
| `RelayRedelivery` | 1 source, 2 deliveries, 3 connections, 2 faults, history retained | `FramesFit` and, under `FairSpec`, `EventuallyAcknowledged` |
| `RelayResetRace` | 1 source, 1 delivery, 3 connections, 1 fault, 1 eviction | violates `FramesFit`: see Findings |
| `ActionDelivery` | a retried operation or a reply, 1 request, 2 attempts, any 2 of: notification, explicit resend, repeated result, failure, crash, revocation | `TypeOK`, `OneShotSentOnce`, `BoundedSends`, `KeepsContract` (refinement of `ActionContract`) |
| `ActionRetries` | 1 retried operation, 2 requests, 2 attempts, 1 lost connection | `InvokeRetryScheduled`, `BoundedSends` and, under `FairSpec`, `NeverStranded` |
| `ActionInvokeWake` | 2 retried operations, 2 requests, 3 attempts, nothing goes wrong | violates `InvokeRetryScheduled`: see Findings |
| `ActionAckWake` | 1 retried operation, 3 attempts, 1 notification | violates `AckRetryScheduled`: see Findings |
| `TransportConnection` | 3 attempts at once, tokens 1 to 3, 1 rotation request on its way, 1 failure, stop or page request | `TypeOK`, `OneSocket`, `CredentialKept`, `OnlineIsBacked`, `OnlineIsTold`, `NeverStranded` and, under `FairSpec`, `Recovers` |
| `WorkspaceMembership` | 2 registrations, 4 rosters in pages of 2, 2 jobs, 1 fault; four scenarios raise what matters together | `TypeOK`, `NeverCorrupt`, `WholeOrResetting`, `JournalInStep`, `RemovedIsLeaving`, `FollowsOneChain` (refinement of `MembershipContract`), `NeverGivesUp` |
| `NotificationMirror` | 1 notification, 2 tasks (symmetric), 2 revisions, 2 events waiting, 1 gesture, 1 crash | `TypeOK`, `NoConflict`, `NativeUpToDate`, `OnlyUserDismisses`, `KeepsContract` (refinement of `MirrorContract`), `ViewedAsOpened` |
| `ShortcutSync` | 2 browsers, 2 workspaces, 2 passphrases, 2 edits, 2 faults; eight scenarios | `TypeOK`, `UpToDateFollows`, `PullsGoOn`, `NoLostUpdate` and, under `FairSpec`, `Converges` |

Each bound is a constant of the module. Two deliveries are enough for a gap between
them and for an eviction behind a cursor, two sources for a session that is complete
for one and not for the other, two sessions for a reset that supersedes another, one
fault at any point for every crash window, and two or three connections for work of an
old one meeting frames of the next. Two attempts are a first and a last one; three, in
the violated runs, are needed for one that is neither. One request in `ActionDelivery`
leaves the budget to the disturbances: a second one of the same key is in
`ActionRetries`, two operations at once in `ActionInvokeWake` and in the theorems, which
bound neither. Three attempts are a live
one, one that was superseded and one that begins; three tokens are two rotations, the
least for a promotion to take a wrong one. Four rosters are a first, a page of two and one
after it, and two jobs a write of one between the reading and the write of the other. One
notification with two revisions and two tasks is enough for every pair of an old and a
new reading; that notifications do not disturb each other is in the theorems. The
scenarios of `MCWorkspaceMembership` and `MCShortcutSync` are instances that one run
explores together: each raises some bounds (overlap, edits, failures) and lowers the
others, and what holds for all of them at once is what the theorems show. Deadlock is
checked in `WorkspaceMembership` alone: elsewhere a system whose bounds are spent stops.

## Findings

**A recovery is armed again after it was accepted** (`RelayResetRace`,
`transport/indexeddb-relay-delivery-cursor-store.ts:77`). The worker stops after the
last source was recorded and before the acceptance. On the next connection SNC1 carries
the old cursor, and `onAuthenticated` retries the recovery, which is complete: it is
accepted and a second SNC1 carries the high-water. The relay's SNR1 to the first SNC1
arrives afterwards, with a high-water equal to the committed cursor; `requireSnapshot`
refuses only a smaller one and requires a snapshot again. The marker or delivery that
answers the second SNC1 is then refused and the socket closed. For the relay the reset
is over, so on every later connection its marker comes at once, before any manifest
can, and closes the connection again. `protocol/relay-delivery-v1.md:72` has the relay
resume strictly after the accepted high-water. No delivery is lost meanwhile
(`NoSilentLoss` holds); what is lost is the connection.

**An acknowledgement loses its alarm** (`ActionAckWake`,
`background/service-worker.ts:662`). `docs/spikes/SPIKE-004.md:39` says the
acknowledgement outbox "retries with a bounded schedule across Worker wake". Every
delivery drains it, and a drain that finds nothing due clears the alarm, although an
acknowledgement sent a moment ago has attempts left and is due in a second. It is
retried when something else drains the outbox, or when the phone repeats the result.

**A retry loses its alarm to a later one** (`ActionInvokeWake`,
`crypto/action-invoke-outbox.ts:162`). `docs/spikes/SPIKE-004.md:37` says that
"1/2/4/8-second action-delivery retries can wake an MV3 Worker after suspension". The
next wake-up counts only the entries this drain sent and replaces the alarm there was; a
drain with nothing due sets none. A second operation whose request comes while the first
waits for a longer delay takes the alarm over, and once the second one is answered the
first has none. It waits for the next authentication. With Chrome's minimum alarm
period, which is longer than these delays, all waiting operations are due when the alarm
fires, and the effect does not show.

## Proofs

`RelayDeliveryProofs` proves, for every set of sources and every bound, from the
assumptions of `RelayDelivery` alone (`Kind`, `None`, naturals as bounds):

| Theorem | States |
|---|---|
| `TypeCorrect` | `[]TypeOK` |
| `NothingLost` | `[]NoSilentLoss` |
| `AcknowledgementsCommitted` | `[]AckWithinCommitted` |
| `CursorMonotone` | `CursorAdvances` |
| `ContractKept` | `Spec => Contract!Spec` |
| `NeverRefused` | `[]FramesFit`, where the relay evicts nothing (`MaxEvict = 0`) |

The inductive invariant `IInv` is needed because `NoSilentLoss` says nothing of the
step that commits. It adds that a task about to commit has made its effect durable
(`TaskOK`), that an answer to the current session, on the wire or in a task, was made
after the reset was reported (`Answers`), so that every source a session counts as
completed covers the high-water (`SessionOK`), that every frame to the relay carries a
committed id (`UpOK`), and that ids on the wire are ids of the log. `Assemble` reduces
the preservation of `IInv` to what is new in a step (`FreshDown`, `FreshTasks`, ...),
because old facts survive any step that only grows the durable state (`Grow`); each
action then has one lemma `...Keeps`.

`NeverRefused` has an invariant of its own, `FramesInv`. On a connection that was resumed,
the frames on the wire are numbered without a gap from the one after the cursor (`Chain`,
`Place`), and the cursor is where the connection expects it or one further: a task of an
earlier connection may commit the delivery that comes again (`Taking`). With evictions
the property fails by design: a frame behind a gap is refused, and the reset follows,
which `RelayResets` explores.

`ActionDeliveryProofs` proves, for every set of keys and replies, every bound and every
set of disturbances, from the assumptions of `ActionDelivery` alone:

| Theorem | States |
|---|---|
| `RepliesSentOnce` | `[]OneShotSentOnce` |
| `ImplementsContract` | `Spec => Contract!Spec` |

Its `IInv` has four parts. `Shape` is a type invariant without the bounds. `JobKeys`
says what a job may hold: a key to send is registered, an entry of a drain is no reply,
a key to acknowledge is completed. `OnceOK` strengthens `OneShotSentOnce` by when a reply
has not been sent at all: before its record exists, and while its only send is ahead.
`Flow` is the order of the contract stretched over the wire: an invocation in flight is of
a registered key, a result of an executed one, an acknowledgement in flight of a completed
one. The steps of the bookkeeping all go through `QuietPreserves`, since they leave the
states of the records alone; each of the others has a lemma `...Preserves`, and
`StepKeepsContract` maps `Queue`, `PhoneInvoke`, `Receive` and `PhoneAck` to the four
actions of the contract and everything else to a stutter.

`ActionAttemptsProofs` goes on from `IInv`:

| Theorem | States |
|---|---|
| `ActionTypes` | `[]TypeOK` |
| `SendsBounded` | `[]BoundedSends` |
| `RetriesScheduled` | `[]InvokeRetryScheduled`, from `OneRetried` |

The types are not inductive alone: that attempts stay within their maximum depends on what
a drain holds while others write. `AttemptsInv` says that a drain has one entry of a key
and none of the key in hand, that what is in hand is due (`InvokeHandOK`, `AckHandOK`), and
that a record with another attempt due is below the maximum but for the explicit resends
(`Scheduled`). `BudgetOK` counts: the frames sent of a key and those its record still
promises are within the attempts of all its registrations and the resends; a crash between
a frame and its record, and a result that comes between the two, are where it is delicate.
`RetriesScheduled` holds of one retried operation beside any number of replies, where no
explicit resend and no stop of the worker interferes (`OneRetried`). It has to be so
narrow: two operations violate it (`ActionInvokeWake`), and a worker that stops drops the
drains that wait, after which the next authentication begins one.
`RetryInv` says what will start the next drain: the alarm, a drain that waits, the wake-up
the running drain has computed, or an entry it has still to send (`Awake`, `Drained`).

`TransportConnectionProofs` proves, for any number of attempts, tokens, requests and
failures: `ConnectionTypes` (`TypeOK`), `OneSocketOpen`, `CredentialAlwaysKept`,
`OnlineAlwaysBacked`, `OnlineAlwaysTold` and `NeverLeftStranded`, each `Spec => []` the
property of the run. Two invariants carry them. `Link` ties the attempts to the runtime:
a socket belongs to the attempt of the current generation (`OwnSocket`, `AuthOK`), a timer
the runtime remembers has its alarm (`TimerOK`), a loss and a stop have what follows them
(`LostOK`, `HaltOK`); `Told` ties both to the written state. `Kept` is about the
credential alone: which of the two tokens may be valid in each phase of the record, in
each request on its way and at each await of a rotation.

`WorkspaceMembershipProofs` proves, for any number of registrations, jobs, rosters and
faults: `MembershipTypes` (`TypeOK`), `BeliefsVerify` (`NeverCorrupt`) and
`MembershipImplementsContract` (`FollowsOneChain`). Its invariant says of every reading a
job holds and every record stored that it verifies under its own authority (`Sound`),
which needs that the rosters of the relay are genuine: that is how the authority's
actions make them, and the proof shows it (`AllGenuine`). `JournalKeepsStep`
(`JournalInStep`) needs `StepInv`: whoever is about to send a proof has it stored, whoever
waits for an approval has seen the relay take the proof, and only the page has a
registration that is not stored. Most steps keep it by one lemma, `CalmKeeps`: no job
comes to know more than it did, and the journal only goes forward or away.

`WorkspaceResetProofs` proves `AlwaysWhole` (`WholeOrResetting`) and `RemovedAlwaysLeaves`
(`RemovedIsLeaving`). Both hold until something goes on beside a reset (`raced`); until
then, `Apart` holds. It ties the four stores and the phases together: while no reset was
asked for, what is stored and what a promotion is about to save are of one registration
and whole (`StoredWhole`, `SavedWhole`); a page that registers has empty stores to itself
(`PageAlone`); what a reset has cleared stays clear (`StaysClear`), and the second of two
resets that overlap finds nothing left to lose (`NothingLeft`); a connection has its alarm
and a roster to check (`Watched`). `StaysApart` is the lemma of the steps that only go on;
the proof is in the promotion, the end of the reset, the opening of a connection and the
stop of the worker.

`NotificationMirrorProofs` proves, for any notifications, tasks and bounds: `MirrorTypes`
(`TypeOK`), `NeverConflicts`, `ProgramNeverDismisses`, `OnlyOpenedIsViewed`,
`MirrorImplementsContract` (`KeepsContract`) and `ShownIsStored` (`NativeUpToDate`). The
last rests on `PresentInv`: of each notification Chrome shows, a task has it in hand
(`Busy`), a crash or an old reading is on record for it, or it is shown as stored, with
its own buttons (`ShownOK`).

`ShortcutSyncProofs` proves, for any browsers, workspaces, edits and failures:
`ShortcutTypes` (`TypeOK`), `PullsAlwaysGoOn`, `SharedRulesFollow` (`UpToDateFollows`) and
`UpdatesNeverLost` (`NoLostUpdate`). `Ordered` says that, as long as nothing was
`replaced`, every revision a browser or a job has came from the server. `Agreement` is the
invariant `UpToDateFollows` needs: not only what is stored but every pull and push under
way that is at the server's revision has its key, and rules made from its rules. A new
value makes all of it older (`PutAgrees`); applying one is where `late` is needed
(`AppliedAgrees`).

Only model-checked: the action property `NeverGivesUp`, and `EventuallyAcknowledged`,
`NeverStranded` of `ActionDelivery`, `Recovers` and `Converges`, whose fairness and ENABLED
the prover cannot handle. `NeverGivesUp` needs that no roster of an honest relay is ever
refused, that is, an invariant which places every belief, answer and reading on the chain
and relates two of them when two jobs read at different times; it has not been written.
Every other property of a passing run is a theorem.

## Plan

The plan of the project was, by how much of the extension depends on each part: the
delivery, the actions, the connection with its credential, the notification state with
its closes, the membership with the reset, the shortcut rules. All are modelled. What
would come next:

1. `NeverGivesUp`, with the invariant described above.
2. An abstract specification of what the shortcut synchronisation promises to a workspace,
   which `ShortcutSync` would be shown to implement as the others implement theirs.
3. The composition of `TransportConnection` with `RelayDelivery`: frames after the
   handshake on a connection whose generation is contested.

## Not modelled

The identity keys, HPKE and the replay window are primitives: a frame that does not
authenticate is a failed step of `RelayDelivery`. The codecs are layouts without state,
which the repository checks against test vectors; build scripts and generated code are
tooling. Of the pages only what changes state is modelled (registering, the shortcut form
and its buttons, viewing a notification, asking for a connection); popup, sound, icons and
localisation present what the worker does. Left out of the modelled parts, and named in
`PROJECT.json`: expiry and purge after 30 days, sequence numbers, the hold of the synthetic
test operation, the native notifications, host permissions and further stores a reset
clears, and what a shortcut rule does to the buttons of a notification. The relay, the phone, Chrome's alarms and IndexedDB are environment: each is
modelled as what the code relies on.
