# A formal model of NeoCom

NeoCom is a browser app for EVE Online. It keeps a player's Characters and the
data edited for them (skill plans, build plans, pins, tax ledgers, settings) in
IndexedDB, reads EVE's ESI API for them, and keeps several devices in step
through one Firestore document tree per Character. Nothing but the rules guards
that tree: every merge, ordering and retry decision is made by the clients, in
several tabs of several devices at once, over awaits. A server function polls
EVE on the devices' behalf and pushes alerts to them.

Modelled here is the part whose correctness is a matter of interleaving: the
record merge, the sync pass, the change marker that lets an idle pass be
skipped, the queue that decides when passes run, the synced settings, the
election of the tab that does a job, the gate ESI requests pass, the refresh of
EVE tokens, the data shared by all Characters of an account, and the Alerts
poller.

## The system

| Part | Source | State | Operations | What makes it hard |
|---|---|---|---|---|
| Record merge | `sync/merge.ts` | none | `mergeRecords`, `mergeFeed`, `mergeSettings` | absence means different things in a full and in a windowed read; tombstones expire |
| Collection sync | `sync/collectionSync.ts`, `sync/localBookkeeping.ts` | rows, tombstone list, pull cursor (per device); docs (remote) | `syncEditableCollection`, `recordDeletion`, `appendTombstones` | every read is an await before the write that uses it; pushes fail in part; docs land in another order than their stamps |
| Change marker | `sync/syncMarker.ts` | counter on the remote parent doc; per device the "seen" claim | `readRemoteMarker`, `bumpRemoteMarker`, `canSkipPass`, `advanceSeenSyncMarker`, `clearSeenSyncMarker` | other devices, other tabs, lost bumps and crashes between write and bump |
| Sync pass | `sync/planSync.ts` | one pass per tab | `syncCharacter`, `settleAllThenThrow`, `bumpMarkerQuietly` | several collections at once, some of which fail |
| Scheduler | `sync/syncScheduler.ts` | timers, jobs, queue, busy, halt, last full pull | `scheduleSync`, `triggerSync`, `requestSync`, `pump`, `runPass`, `haltSync` | requests in the middle of a pass, failures, halts; one session for all Characters |
| Background sweep | `app/backgroundSync.ts` | sweep stamps, leader seat | `useBackgroundSync` | the retry everything else relies on |
| Settings sync | `sync/settingsSync.ts` | one set of settings, many remote copies | `syncSettings` | values relayed between Characters' cursors |
| Feed sync | `sync/feedSync.ts` | notification rows | `syncFeed` | a window that deletes without tombstones |
| Account-wide backfill | `sync/accountWideBackfill.ts` | copies of rows under several Characters | `backfillAccountWideData` | a copy must not outlive the deletion of its original |
| Owner change, removal | `sync/ownerHash.ts`, `sync/remotePurge.ts`, `features/character/removeCharacter.ts` | owner hash, bookkeeping | wipe, flush, purge | a pass still in flight |
| Sessions and tokens | `sync/syncAuth.ts`, `auth/session.ts` | Firebase sessions; a Character row and a token row each | `ensureSignedIn`, `getValidAccessToken`, `persistTokens`, `completeLogin` | refresh in several tabs; tokens that rotate |
| Tab leader | `lib/tabLeader.ts` | a Web Lock and a seat per tab | show, hide, steal, relinquish | late grants and rejections |
| ESI client | `esi/client.ts`, `esi/budget.ts`, `esi/cache.ts`, `lib/concurrency.ts` | permits, lanes, error budget, cached answers | `acquire`, `promote`, `esiFetch` | starvation, leaked permits |
| Alerts poller (server) | `functions/src/pollEveNotifications.ts`, `pollerEfficiency.ts`, `alertGrant*.ts` | a grant with its marks and log, device registrations | list, plan, refresh, read, push, patch; save and delete a grant | runs cut off, sends that fail in part, grants replaced meanwhile |
| Alerts in the app | `features/notifications` | registrations | poll, register | the same alert from two places |
| Corp tax book, SRP, communities (server) | `functions/src/corpTaxBook*`, `srp*`, `communities*` | documents of their own | scheduled syncs, claims, requests | retries and concurrent callers; nothing shared with the synced collections |
| Published snapshots (server) | `functions/src/r2Publisher.ts` and its sources | files | fetch, publish | I/O |
| Engine, data, backup, UI | `engine`, `sde`, `market`, `backup`, `components`, `routes`, `features` | | | arithmetic, tables and rendering |

The user's edit writes a row with `updatedAt = Date.now()` and calls
`scheduleSync`. After two quiet seconds the scheduler queues a job; when the
page's one session is free it runs `syncCharacter`, which signs in (and for
that may refresh the EVE token), reads the marker (a full pass) and maybe stops
there, and otherwise syncs its collections and the settings a few at a time.
Each collection reads the remote docs above its cursor, its rows and its
tombstones, merges, pushes, applies what it pulled, and stores its cursor last.
The pass then bumps the marker if it pushed, and stores what it claims to have
seen. The sweep asks for a background pass of every Character every few
minutes, in the one tab that won its election. Everything read from EVE passes
the ESI gate: a policy wait, then a permit from a lane. The Alerts poller runs
on the server every 15 minutes with a refresh token of its own, and shares only
the device registrations and the grant with the clients.

`PROJECT.json` lists every part with its status, and the hazards of this code
with the properties that watch them.

## The modules

| Module | Models | Composes |
|---|---|---|
| `RecordMerge` | `mergeRecords` as set algebra: each list of the plan is the set of ids in it | |
| `RecordSync` | one collection of one Character on several devices and tabs, the pass cut at its awaits | `RecordMerge` |
| `RecordSettle` | the same pass taken whole, to ask where a state leads once the users stop | `RecordSync` |
| `RecordSyncProofs` | the proofs about `RecordSync` and `RecordSettle` | |
| `SyncMarker` | the marker, the claims and `syncCharacter` | |
| `SyncMarkerProofs` | the proofs about `SyncMarker` | |
| `SyncScheduler` | the queue of one page over two Characters | |
| `SyncSchedulerProofs` | the proofs about `SyncScheduler` | |
| `SettingsSync` | one device's settings against every Character's remote copy | `RecordMerge` |
| `SettingsSyncProofs` | the proofs about `SettingsSync` | |
| `AccountWide` | rows kept once per Character for the whole account: fan-outs, backfill, passes | `RecordMerge` |
| `AccountWideProofs` | the proofs about `AccountWide` | |
| `TabLeader` | the election of the tab that does a job | |
| `TabLeaderProofs` | the proofs about `TabLeader` | |
| `PermitPool` | what the semaphore promises: one queue by arrival | |
| `Semaphore` | the three lanes of `createSemaphore`, shown to implement `PermitPool` | `PermitPool` |
| `EsiGate` | the error budget, the circuit, and a call through both | `Semaphore` |
| `TokenRefresh` | refresh, login and removal over one Character's rows | |
| `EsiClientProofs` | the proofs about `Semaphore`, `EsiGate` and `TokenRefresh` | |
| `AlertsPoller` | a run of the Alerts poller over one grant | |
| `AlertsPollerProofs` | the proofs about `AlertsPoller` | |
| `MC...` | the instances TLC checks | |

### RecordMerge and RecordSync

Rows, tombstones and docs are partial functions on record ids, as in the code's
Maps. A row's value is its `updatedAt`: two versions with one stamp are one
version, which is what the merge itself assumes ("equal: in sync"). User
actions are at least a millisecond apart, so stamps that must differ do.

One pass is `BeginPass` (the pass's `now` and the cursor), `Fetch`
(`pullOwnedDocs`, with the missing-index fallback as a choice), `ReadRows`,
`Merge` (the tombstones, the last thing read, and everything up to the push),
`Push` one write at a time, then `PutPulls`, `DropRows`, `WriteTombstones`, and
`WriteCursor`, which closes the pass. A push that fails ends the pass but not
the writes its pool has handed out (`stray`): `mapWithConcurrencyLimit` rejects
on the first failure and its other workers go on. The code reads the clock a
little before the cursor; only the age of the last full read depends on it.

Deletions come in the code's two forms: `recordDeletion`, whose row delete,
list read and list write are three steps, and the transactional one of some
features. Three ghosts (`removed`, `observed`, `backdated`) record what the
user did and what a device had read when a doc landed.

Not in it: the retry of a refused write (`setOwnedDoc`), the account-wide
hooks (`Stale` in the merge: `AccountWide` hands it deletions), and what a row
holds.

`RecordSettle` asks of each quiet state where undisturbed passes lead. `Settle`
is a whole pass of a device over the store, with a full read; its writes have
all landed (`LandedAll`), in whatever order, as no record is in two of them.
`Settled` gives every device two turns, the devices in any order: the second
turn is there to learn what later devices pushed in the first.

### SyncMarker

What a collection holds is reduced to two sets per device: what is edited here
and not remote (`dirty`), and what changed remotely and is not pulled here
(`behind`, a ghost). A pass is a record of what `syncCharacter` keeps in its
locals; `pushed` is whether it found edits. One action per await: read the
marker, look at the claim, skip or go on, create the field, clear the claim,
the collections' tasks in any order, then the `catch` and `finally` branches in
the code's order. Tabs of one device share the claim. A moment is the start of
a full pass: the code compares these only for equality and with the safety
interval, so moments are a finite set, reused once nothing refers to them, and
`lapsed` says which are too old. A pass that fails before it reads the marker
changes nothing here; `SyncScheduler` has it.

### SyncScheduler

A transcription of the closure's state into functions of the Character.
`requestSync` and `pump` run to the next await in one step, as they do in the
code. `'all'` is the set of all collections; a request cannot name them all, so
the two do not get confused. The injected pass is reduced to what the queue
relies on: it may find its Character's marker unchanged (`Skips`), it reads
each collection of its scope once, and it fails in one of three places: at the
sign-in (`SignInFails`, before it touches the claim), in a collection (`Fails`,
which voids the claim), or at the heartbeat, after everything was pushed
(`HeartbeatFails`). It may also widen its scope, as a pass of a new owner does.

### SettingsSync

A device has one set of settings and every Character a remote copy of it, so a
pass over one Character relays what a pass over another pulled. What a pass
merges it reads an await at a time, and no transaction holds the reads
together: `ReadStamps`, `ReadTombstones`, `ReadRows` and `ReadBooks`
(`appliedSeq`, then the Character's `seenSeq` and cursor, which only its own
pass writes, and so the kind of read), then `Fetch` (the query and
`mergeSettings`). `Push` lands one write at a time, `Apply` is the one
transaction the code has, and `Settle`, `MoveCursor` and `MoveSeen` write the
tombstone list, the cursor and `seenSeq`.

The user's write is cut in the same way: the row (`Choose`), the row again
(`Rewrite`), the stamps read (`TakeStamps`) and written back (`Stamp`), as
`useSyncedSetting` and `setSyncedSetting` have it; a deletion is the row
(`Delete`), the stamps (`TakeOldStamps`, `Unstamp`) and the list (`TakeList`,
`Bury`), its tombstone stamped once the list is read. `Interrupt` ends passes,
the write, or both where they stand: a refused request, sync code that does not
load, a closed tab. A write cut between its row and its stamp stays so.

Another device is a step on a collection: it sets a key of one Character, or
deletes one under any Characters, over whatever doc is there, whether or not a
pass here is about to push it. Its stamps are of the moment, as its clock agrees and
it is online; the late push of an old stamp is in `RecordSync`. What it and the
user do, and what fails, is bounded together (`Tick`).

Three ghosts hold what the code loses, so that the properties can except it and
nothing else. `torn`: a key whose row, stamp and tombstone were parted, by a
write that was cut, a pass that applied to the key between a write's awaits, or
one list or stamp record written back over another change of it. `mixed`: a key
whose row a pass read under a stamp that was not the row's. `overtaken`: a key
written after a pass read it, below docs which that pass's cursor then moved
past. Not in it: the 30-day full read, the user's writes in other tabs, and
pushes that land after their pass failed (`RecordSync` has those).

### AccountWide

Planet rankings and account-scoped station pins are one row per Character, all
meaning the same. The user's fan-outs are cut at their awaits (`ReadRoster`,
`PutRows`; `FindRows`, then `DropRow` and `RecordDeletion` for each Character,
in any order), and so is the backfill of a Character just added (`LoadShared`,
`SiftCopies`, `WriteCopies`). So is a pass over one Character: `BeginPass`,
`Fetch`, `ReadRows`, `ReadTombstones`, `Merge` (the siblings' deletions, read
last, and the plan), `Push` one write at a time, `PutPulls`, `DropRows`,
`WriteTombstones`, `WriteCursor`. Between any two of them the user acts, the
backfill copies, other tabs' passes go on and docs land from elsewhere; rows are
dropped by id and docs set as they are, whatever has become of them. `Interrupted`
ends any of it where it stands.

One device is modelled in detail. The others are what reaches the remote
collections from them: their user acts (`ActElsewhere`) and, whenever they come
online, a doc of what some user did lands for one Character, over whatever doc
is there, or a tombstone that has expired is purged (`PassElsewhere`). That is
also what a write amounts to that outlives its failed pass on this device. A
full read that the cursor does not ask for (30 days, no index) is a choice of
`BeginPass`. These three kinds of upset are bounded together. The ghosts
`pinned` and `cleared` hold when the user set and cleared each key.

Not in it: station pins of scope `character`, which take no part; removing a
Character.

### TabLeader

The election is a record: the browser's side (holder, queue, the phase of each
request) and each tab's own (`current`, `leads`). The functions of the code
(`stand`, `relinquish`, `onShown`, `onHidden`, `request`) are operators from
elections to elections, and an action is the turn of the event loop that calls
them: a callback, a rejection, a `finally`, an answer to `query()`, or a change
by the user. `keepWhileHidden` is chosen at the start, so both jobs are
covered. `Evict` states what browsers do with a cached page that holds a lock.
Not in it: browsers without Web Locks, where every tab leads, or without
`query()`.

### Semaphore, PermitPool and EsiGate

`Semaphore` is the closure of `createSemaphore` with its drain loop as a
recursive function; the arrival numbers are renumbered to stay finite. The
`filter` and the `sort` of a lane are written by position and by rank (`Kept`,
`Merged`) and not with `SelectSeq` and `SortSeq`, of which the provers know
nothing. `PermitPool` is the promise, with sets and no lanes: who waits where,
who came before whom, who holds what; after each call whoever may hold a permit
holds one, nobody else. `KeepsItsPromise` maps the lanes to that queue. Its
specification is named `SemSpec` and that of `EsiGate`, which extends it,
`GateSpec`.

`EsiGate` extends `Semaphore` with `BudgetState`, the clock and the calls: `Plan` (`planRequest`, with the slot it reserves), `Wake`, `Send`,
`Answer` (`observeBudget`, then the permit, then maybe one retry),
`NetworkError` and `Abort` in each phase. Why a call is refused, and
`circuitStatus`, are left out, and so are clock jumps.

### TokenRefresh

One Character's two rows, the refresh of each tab, a login callback, and EVE's
side: the grants it issued and the newest rotation of each. `persistTokens` is
cut at its awaits (`ReadCharacter`, `ReadToken`, `PutCharacter`, `PutToken`).
EVE may rotate or not; whether an older token of a rotated grant dies is
`KillsOld`. The ghost `strayed` marks a grant one of whose rotations was lost
on its way to the row. A login may be overwritten by an older refresh of
another tab, as it takes no lock; the refresh token that leaves is still a live
one of its own grant, which is all the property asks.

### AlertsPoller

One grant through the steps of a run: `listDue`, `devicesForMany` with
`planGrant`, the refresh and `WriteRotated`, the feed, its pushes, `Patched`,
the mailbox, its pushes, `MailPatched`. Every write of a run is guarded by the
token it started from. Around it the user saves a grant (`SaveRead`, `SaveSet`:
the code's read and write are not one transaction) or deletes it, devices
register, age and lose their FCM token, and EVE ends the grant. Notifications
are numbered by their ids, which stand for their timestamps too.

The ghost `owed` holds who is to be told of what: it is filled when a
notification arrives for a device whose registration wants it and that no run
under way has already read without it, and emptied by delivery and by what the
code does not promise to survive (quiet hours, a first sighting, the end of the
grant, a device that comes back to the app or falls dormant). Left out: the
nearby phase, the run's other Characters, its stop at the error budget
(`CutOff` covers a stop anywhere). Known of the code and stated by the
exceptions: a device registered between the listing and the read is overlooked
for what that run marks; a grant saved from scratch forgets which types it has
seen; `deleteDevice` deletes what the device registered meanwhile; and a
`SaveSet` whose read is stale can undo an idle mark (`alertGrant.ts:188`).

## What is checked

Every run takes at most a few minutes with two workers.

| Run | Instance | Shows |
|---|---|---|
| `record_sync` | 2 devices of 1 tab, 2 records, 3 times, TTL 1, 1 fault | `TypeOK`, `OnlyBackdatedHidden`, `UnsyncedAboveCursor`, `DevicesAgree`, `SettlesToLastWrite` |
| `sync_marker` | 2 devices of 1 tab, 2 moments, 1 write, 1 fault, the interval lapses | `TypeOK`, `ClaimHonest`, `CatchesUp`, `FailureForcesRead` |
| `sync_scheduler` | 2 Characters, 3 collections of which 2 are named, 2 requests, 1 failure | `TypeOK`, `OneSession`, `NoEditForgotten`, `IdleMeansRecovered`, `FlushedMeansPushed`, `HaltIsFinal` |
| `sync_scheduler_live` | 2 Characters, 2 collections, 1 request, 1 failure | `EventuallyPushed` |
| `settings_sync` | 2 Characters, 2 keys (one written here), 1 tab, 2 steps of users here or elsewhere or of failure | `TypeOK`, `PullsOnlyNewer`, `SettingsAgree` |
| `account_wide` | 2 Characters, of which 1 or 2 at the start, 1 key, 1 tab, 2 acts of the user, 1 upset, TTL 1 | `StampsAreTheUsers`, `LastReadActWins` |
| `tab_leader` | 2 tabs of up to 2 seats, 3 requests outstanding each, 5 changes | `LeadersHoldTheLock`, `NoLockLeaked`, `HiddenTabsStandAside`, `SomeoneLeads` |
| `semaphore` | 4 waiters, 2 tickets, 2 permits, 1 kept from low | `PermitsAccounted`, `KeepsItsPromise`, `NoLaneStarvedAlone` |
| `esi_gate` | 2 calls of one ticket, 2 permits, 4 kinds of answer, 3 moments | `PermitsHeldByCalls`, `BrakeSpreads`, `OnlyFreshAnswersReopen`, `EveryCallEnds` |
| `token_refresh` | 2 tabs and a login, 2 grants, 3 versions each, 3 outside steps | `TypeOK`, `OnlyDeadGrantsRefused`, `OnlyCrossingJobsOrphan`, `EveryRefreshEnds` |
| `alerts_poller` | 2 devices (1 with quiet hours), 2 notifications, 1 mail, 2 tokens, 1 fault, 2 outside steps | `NotesNotLost`, `NoMailTwice`, `NoReplay`, `OwedEnds` |

What the properties say:

- `OnlyBackdatedHidden`, `UnsyncedAboveCursor`: the two promises of the cursor.
  Whatever fails between, a doc the device does not reflect is in its next
  window, and an edit the remote side does not hold is above the cursor, where
  a windowed pass pushes it. Both except a doc that landed with a stamp its
  reader had already passed: the code knows it (`localBookkeeping.ts:64`) and
  the full read repairs it.
- `DevicesAgree`, `SettlesToLastWrite`: from every quiet state, every order of
  full passes ends with equal rows. An edit newer than all that is known of its
  record is what everybody has then, without exception. A deletion newer than
  all has taken the record away, but in three cases, which the property states
  and which are what the code does: a full read that shows no doc forgets the
  deletion, an expired tombstone may be purged before everyone saw it, and a
  tombstone found beside an older remote one is dropped for that one (see
  `LastDeletionWins` below).
- `ClaimHonest`: a claim equal to the marker means the device has pulled every
  announced write. Exempt are what a lost bump, a closed tab, a server write or
  a late write of a failed task leaves unannounced, and what a pass is about to
  announce. This is what makes skipping a pass safe. `CatchesUp`: those
  exceptions do not last either.
- `FailureForcesRead`: once a failed pass has run its `catch`, no pass is
  skipped over an edit that one of its failed tasks had to push, whether the
  task failed at its pull or at its push. It holds with one tab per device. A
  tab that closes between the failure and the `catch` leaves the claim, and a
  background pass may skip over the edit; the code relies on the next boot's
  foreground pass, which no marker gates (`planSync.ts:497-499`).
- `NoEditForgotten`: an edit not yet pushed is always somebody's business: a
  timer, a queued job, a rerun, the pass in flight or a recorded failure.
  `EventuallyPushed`: and it is pushed in the end.
- `IdleMeansRecovered`: while a collection's failure is not retried the status
  is not idle. `FlushedMeansPushed`: a flush resolves only when the edits made
  before it are pushed, through reruns. `HaltIsFinal`: nothing after the halt.
- `PullsOnlyNewer`: what a settings pass writes over a row was stamped after
  it, even when the user wrote it while the pass was out, and a row it deletes
  has had no new stamp since the pass read the stamps; but for what is `torn`. `SettingsAgree`: once
  nobody acts, every Character's collection holds what the device holds, though
  a relayed value's stamp may lie below the other cursors: that is what
  `appliedSeq` is for. It excepts what is `torn`, `mixed` or `overtaken`, and a
  key that is `Divided`: deleted later under one Character than it was set
  under another, as a device leaves it that deletes while it holds only some of
  them. Such a key the device pulls and deletes in turn for ever (`FullReadsEnd`
  below).
- `StampsAreTheUsers`: copying a row to a new Character, merging it and learning
  its deletion make no time of their own: every stamp anywhere is one of the
  user's setting or clearing that key. `LastReadActWins`: a row that a pass
  takes off the device, still as the pass read it, the user had cleared since it
  was set, under whichever Character the deletion was recorded; and a deleted
  doc that it makes live, still as the pass read it or below the window it read,
  the user has set since. What changed between the read and the write is not
  covered, and cannot be: the pass deletes and sets by id (`LastActWins` below).
- `LeadersHoldTheLock`: a tab that says it leads holds the lock, but for a
  theft it has not heard of yet. `NoLockLeaked`: a lock whose callback kept it
  belongs to a tab that knows it leads. `HiddenTabsStandAside`: the queue holds
  visible tabs alone, which is what a hidden leader's query relies on.
  `SomeoneLeads`: while a visible tab wants the job, somebody gets to lead.
- `PermitsAccounted`, `KeepsItsPromise`, `NoLaneStarvedAlone`: no permit is lost
  or made; nobody waits who may be admitted and nobody is admitted before one
  that comes first; who waits for good has somebody above it again and again.
- `PermitsHeldByCalls`: no permit outlives its call, whichever way it ends.
  `BrakeSpreads`: the slots planned for two calls under the brake lie at least
  the spacing apart. It is about slots: a call then waits for its permit, and
  two that got theirs at once are sent at once. `OnlyFreshAnswersReopen`: a success that was on the wire
  when the circuit shut does not reopen it. `EveryCallEnds`: the gate clears.
- `OnlyDeadGrantsRefused`: EVE says `invalid_grant` only of a grant the user
  withdrew or one whose rotation was lost; never because of what another tab, a
  login or a removal did. `OnlyCrossingJobsOrphan`: a token row without its
  Character comes only from a job the removal crossed. `EveryRefreshEnds`: every
  caller that asks for a token hears in the end.
- `NotesNotLost`: the mark passes a notification only once everyone who is owed
  it has it. `NoMailTwice`: what went out and was logged is not pushed again.
  `NoReplay`: what passed while nobody wanted it is never pushed later.
  `OwedEnds`: nobody is owed for ever.

### Bounds

Two devices are enough to disagree. No run has two tabs of a device sync
records, markers or settings: the properties that fail there are named under
the proofs, and `DevicesAgree`, `SettlesToLastWrite` and `ClaimHonest` are
proved for any number of tabs. In `record_sync` three times
with a TTL of one give fresh, expiring and expired stamps and both kinds of
read; two records separate a cursor that moved for one from a doc skipped for
the other. In `sync_marker` one write is what a claim can be wrong about, two
moments are a claim and a pass; the proofs cover any number of each, and of
faults, of which the run has one and its safety was checked with two. Two named
collections and one that is not are what scopes can be narrowed to. In
`settings_sync` one key is written here and one comes only from elsewhere, so
that a doc can take a cursor past the other's stamp; `appliedSeq` wraps at four,
so that keys pulled and deleted in turn leave the states finite, and fewer than
four applies fit between two passes of a Character. In `tab_leader` a tab has up to three
requests outstanding (one dropped but not yet settled for each change in a
row), and the types say that no tab runs out (`HiddenTabsStandAside` includes
them, as `NotesNotLost` does those of `AlertsPoller`). In `account_wide` three
times with a TTL of one are an initial row, two acts of the user, and a
tombstone that expires; keys do not affect each other but through the cursor,
and one upset, which a cut, a doc from elsewhere (also of a Character not yet
on the device) and a full read share, meets every step of a pass (the proofs
cover any number of keys, tabs, acts and upsets). Four waiters at two permits leave
two in line, which is what order and promotion are about. In `esi_gate` the
waits are a tick or two, the low readings are 0 and 1 so that the brake's
division is exact, and time goes on while anyone sleeps. In `token_refresh` a
grant rotates twice and is followed by a second. In `alerts_poller` the summary
threshold and the mail limit are one, so that two notifications collapse into a
summary, and every second run is one that sleeping devices take part in.

Deadlock is checked in `semaphore` and `account_wide`: in the others users stop, bounds are
reached, and a halted page does nothing.

### Fairness

- `SyncMarker`: a pass that started goes on (`WF` of its steps; an await that
  never answers is a failure), the sweep comes round to every tab's device
  (`WF` of a background pass), and the three-hour interval goes by (`SF` of
  `Age`, which the code's clock guarantees however often passes run).
- `SyncScheduler`: timers fire, passes go on, the sweep comes round, and the
  interval goes by.
- `SettingsSync`: a pass and a write that began go on unless their tab is
  closed (`Interrupt` may end either at any step), and the sweep comes
  round to every Character (`SF` of `ReadStamps`: another Character's pass may
  have the queue at any one moment, not for ever).
- `TabLeader`: the browser moves its lock queue and a page runs the tasks
  queued for it. Nobody is obliged to show, hide, join or close anything.
- `Semaphore`: each permit is given back: "no permit holder waits on another
  permit". `EsiGate`: timers fire and a fetch settles.
- `TokenRefresh`: a request ends within its 15 seconds, IndexedDB answers, and
  a lock is granted in the order of asking (`SF` of `Granted`).
- `AlertsPoller`: the schedule goes on, and every run ends (`[]<>` that no run
  is under way), as its calls and the function itself have timeouts.

Nothing is assumed of users or of faults.

### Where the code does not do what it says

One run ends in a violation; `PROJECT.json` quotes the sentence it refutes.

| Run | Property | What happens |
|---|---|---|
| `stale_pull` | `RowsNeverGoBack` | a pass overwrites an edit made while it was in flight with the older doc it had read |

Further sentences of the code that the modules state and the code does not
keep. Each is a definition of its module; adding it to the configuration, with
the change named, reproduces the counterexample.

| Property | Configuration | Source | What happens |
|---|---|---|---|
| `LastDeletionWins` | `MCRecordSync_stale_pull.cfg`, `TombstoneTTL`, `EditHorizon` and `MaxTime` 4, as INVARIANT | `merge.ts:213`, `merge.ts:3` | a deletion is dropped for an older remote tombstone ("remote already records it"), and an edit made between the two deletions brings the record back everywhere |
| `TombstonesHandedOver` | `MCRecordSync_stale_pull.cfg`, as PROPERTY | `collectionSync.ts:247-249` | a deletion made while a pass is in flight loses its tombstone to it |
| `BumpedAfterWrites` | `MCSyncMarker.cfg`, as INVARIANT | `syncMarker.ts:7` | a failed pass bumps while its remaining writes are in flight |
| `FailureForcesRead` | `MCSyncMarker.cfg`, `Tab = {t1, t2}` | `planSync.ts:572-574` | another tab's pass stores its claim after the failing pass cleared it |
| `FlushSeesMidPassEdits` | `MCSyncScheduler.cfg`, as PROPERTY | `syncScheduler.ts:52-54` | a flush resolves while an edit made during its pass is in the debounce timer |
| `AnyFailureRetried` | `MCSyncScheduler.cfg`, as INVARIANT | `syncScheduler.ts:197-199` | a pass that fails to sign in leaves the claim; the next background pass skips and clears the error |
| `WritesSurviveThePull` | `MCSettingsSync.cfg`, as PROPERTY | `settingsSync.ts:151-153` | a pull lands between a write's row and its stamp: the row is the pulled one, under the write's stamp |
| `NextPassMergesIt` | `MCSettingsSync.cfg`, `Character = {c1}`, as PROPERTY | `settingsSync.ts:154-155` | a key written between the reads and the query is in no plan, and a newer doc takes the cursor past it |
| `FullReadsEnd` | `MCSettingsSync.cfg`, as PROPERTY | `settingsSync.ts:82-83` | a key deleted under one Character and live under another is pulled and deleted in turn, for ever |
| `VisibleTabWins` | `MCTabLeader.cfg`, as PROPERTY | `tabLeader.ts:20-21` | a leader goes hidden, its query finds nobody, then a visible tab queues behind it |
| `NeverALogin` | `MCTokenRefresh.cfg`, as INVARIANT | `removeCharacter.ts:41-42` | a refresh at EVE when its Character is removed writes the token row back |
| `LastActWins` | `MCAccountWide.cfg`, as PROPERTY | `accountWideBackfill.ts:58-59` | a key set while a pass is out, after the deletion the pass read, is dropped by id (`collectionSync.ts:292`); and a doc is set over a tombstone that landed since the read |
| `NewerDocsSurvive` | `MCAccountWide.cfg`, as PROPERTY | `merge.ts:3` | a sibling's deletion is tested against the local row alone (`merge.ts:233-247`): a remote doc set after it is overwritten with the older tombstone, below other devices' cursors |
| `HealedOnceLearned` | `MCAccountWide.cfg`, as PROPERTY | `accountWideBackfill.ts:36-41` | a learned tombstone leaves the list with its Character's next pass: a sibling that syncs after that keeps the stale row |
| `NothingSentIntoAClosedDoor` | `MCEsiGate.cfg`, as PROPERTY | `budget.ts:35-37` | a call that passed the policy and waited for its permit goes out after the circuit shut |

## What is proved

Each proofs module rests on the named assumptions its component makes of its
constants and on nothing else, except where a theorem below states a hypothesis
of its own. Each inductive invariant was checked by TLC, on the instance of the
component's run, before it was proved.

### RecordSyncProofs

For every set of devices, tabs and records and every number of failures:

- `TypeCorrect`: `Spec => []TypeOK`
- `CursorHidesNothing`: `ClocksAgree /\ OneTabEach` give
  `Spec => []OnlyBackdatedHidden`
- `EditsNotStranded`: the same two give `Spec => []UnsyncedAboveCursor`
- `PlanConsistent`: about `mergeRecords` alone, for any rows, tombstones, remote
  docs, window and account-wide deletions: no list of its plan undoes another
- `PlanSettles`: a full pass whose writes all landed leaves nothing to do; a
  second merge at the same time writes nothing on either side
- `DevicesSettle`: `ClocksAgree` gives `Spec => []DevicesAgree`
- `LastWriteSettles`: `Spec => []SettlesToLastWrite`

The hypotheses `ClocksAgree` and `OneTabEach` are what the code itself takes for
granted. It compares the
`updatedAt` stamps of different devices (`merge.ts`), so their clocks agree
(`ClocksAgree`). And a pass reads, plans and writes as if its store had no
other pass (`OneTabEach`); each page has a queue of its own, so two open pages
of a device may well break that. Neither can be dropped. With two tabs on a
device, or with clocks three apart, TLC finds `OnlyBackdatedHidden` violated;
the second trace takes 14 states.

`CursorInv` is about a pass cut at any of its awaits. A doc of the remote side
is either `Ahead` of the cursor the pass will store, so that the next window has
it; or backdated and `Lost` to the windows; or shown by the rows the device will
have once the pass has applied its plan (`Outcome`), whatever the user did to
the row since it was read. `ReadGood`, `LocalGood` and `ApplyGood` say that for
the three stretches between two awaits, the last of them while the pass's own
writes are still under way. `EverythingPast` says that the user's next stamp is
above all others, which is where agreeing clocks come in; `CursorsSeen` and
`WindowsCurrent` tie a cursor to what was read under it. A user's act leaves
every pass as good as it was (`UserKeepsPass`); a write that lands is a step of
the remote side, and of the device's own pass one of those it planned.

`PlanConsistent` and `PlanSettles` are about one plan and use no invariant.
`runBounded` leaves the order of a pass's remote writes open, and the first says
that it may: a record is never both pulled and pushed, pushed and deleted,
buried and purged. The second assumes that nothing came between the read and
the writes (what happens otherwise is what the rest of the module is about) and
that no account-wide deletion was at work; its `AllLanded` is the state after
the writes in any order. It allows any tombstone list at the second merge,
because the one a pass writes back does not matter there: every row left is live
remotely with its own stamp, and every doc left is such a row's or a tombstone
that is not due.

`DevicesSettle` and `LastWriteSettles` are about rounds of passes, from any
state with the right types: what the interleavings before did to it does not
matter, so `TypeOK` is all they need of the specification. `SettleRemote` says
what one pass makes of each doc: it pushes a row that is `Newer`, or a deletion
that `Takes` the doc, or purges a tombstone that `Ages`, and else leaves it.
`SettleRows` says that the device then holds the live docs, and `SettleTombs`
that what is left on its tombstone list is dead remotely with that very stamp.
A round is a recursive function; `RoundLoop` carries a fact from turn to turn,
by the least turn that would break it (`Least`), with `Passed` the devices that
have had theirs. Three facts are carried.

- `Calm`: the remote side knows at least as much as every device that had its
  turn and holds no tombstone that is due. After one round that is every device,
  so nobody pushes or purges in the second (`CalmRests`), and each device takes
  over the same docs (`CalmRoundAgrees`). The stamps of the remote docs only grow
  as long as nothing is purged (`RemoteGrows`), which takes clocks that agree.
  With one clock ahead TLC finds three devices that disagree: the fast one
  purges the last one's tombstone before the second has seen it, and the second
  pushes its row again.
- `EditWins`: nothing anywhere is newer than the edit, and the remote side has
  it or a device still to come does.
- `DeletionsWin`: every live version is at most as new as every deletion, no
  deletion is old enough to purge, and the record is dead remotely or a device
  still to come has the deletion. That every live version is older than *every*
  deletion, not only than the last, is where the third exception comes in: a
  first version of the property left it out, held on the instance of the run,
  and fell when the proof asked for it.

`DevicesAgree` and `SettlesToLastWrite` were checked by TLC over every store of
three devices and one record, reachable or not, before they were proved.
`RecordSyncAssumptions` says that there are finitely many devices, for a round
to end, and that `None` is neither a doc nor a tombstone list, as the code's
`undefined` is neither.

### SettingsSyncProofs

For every set of Characters and keys, and every number of writes and failures:

- `TypeCorrect`: `Spec => []TypeOK`
- `PullsCorrect`: `Tabs <= 1` gives `Spec => PullsOnlyNewer`

`PullsOnlyNewer` needs one tab at a time (`OneTab`); with two, TLC finds it
violated, as one tab's pass writes back the tombstone list it read over what
the other has settled. What the theorem does not cover is what the property
excepts: a key that is `torn`, be it by a pass that meets a write between two
of its awaits or by a write that was cut there.

The invariant is stated key by key (`KeysSound`). A row that is gone has no
stamp, or an older one than its tombstone, or a deletion is between its awaits
(`RowOf`, `WriteOf`); and a write under way is or will be dated after every
stamp there is (`LaterThan`). What a pass has read of the key so far is still
so, or the user changed it since, and then the stamp it has now tells so:
`StampRead`, `TombRead` and `RowRead` say that after each of its reads, `PushOf`
and `SettleOf` of what the merge made of it. Every write of the user's is one
`UserMove` of its key, so that each step of each pass is proved against five
small moves rather than against every action. The invariant speaks of keys that
are not `torn`, as the property does.

### AccountWideProofs

For every account, horizon, set of keys, number of tabs and of upsets:

- `StampsCorrect`: `Spec => []StampsAreTheUsers`
- `LastReadActCorrect`: `Spec => LastReadActWins`

`IInv` says of every map there is, of rows, tombstones, remote docs, the
copies a backfill holds and all that a pass has in hand (`PassIn`), that its
times are ones the user gave that key: `pinned` for what is set, `cleared` for
what is deleted. It is inductive because a merge only ever picks among the
times it is given, and because these sets only grow (`Later`), so that what a
pass read long ago is still the user's.

`LastReadActWins` is about a write, and what justified it is several awaits
old. `PassIn` carries it there: a doc a pass will push live is newer than the
doc it read of that key, or lies in the window it read when there was none
(`WriteIn`); a row it will drop, as it read it, has a later clear
(`DropsIn`). `PassTimes` shows both of any merge. When the write lands and its
target is still as read, or still below the window, it follows; when it is
not, nothing does, which is `LastActWins` above.

### TabLeaderProofs

For every set of tabs, every number of seats, requests and changes:

- `LeadersCorrect`: `Spec => []LeadersHoldTheLock`
- `LocksCorrect`: `Spec => []NoLockLeaked`
- `QueueCorrect`: `Spec => []HiddenTabsStandAside`

A handler changes the election in several calls, so `Sound` takes the election,
the seats and who is visible as arguments, and each helper (`request`,
`relinquish`, `onShown` and so on) has a lemma saying that it keeps `Sound`, for
the tab's old state or for its new one. `LockOf`: whoever's callback runs, or may still run,
is the one holder; `LiveOf`: a tab's live request is its own, not yet over and
wanted; `LeadOf`: a tab leads exactly with the lock its callback took, or a
stolen one; `QueueOf`: what waits in line waits once, as the live request of a
tab that may have the lock. `Spare` is why no tab runs out of requests: for
each answer still to come there is a free slot.

### SyncMarkerProofs

`SyncMarkerProofs` proves, for every set of devices, tabs, collections and
moments and every bound, from `SyncMarkerAssumptions` alone:

- `TypeCorrect`: `Spec => []TypeOK`
- `ClaimCorrect`: `Spec => []ClaimHonest`
- `FailuresCorrect`: `Spec => FailureForcesRead`, where each device has one tab
  (`OneTabEach`)

`ClaimHonest` is not inductive: it says nothing of a claim that a pass is about
to store. The invariant `IInv` adds what each pass owes at each of its steps
(`PassInv`): the shape of its record; that while it reads, if the marker still
equals what it read first, whatever the device still misses is among what it
has not read yet, or has read and not finished; that once everything is
finished only its own bump can stand between the marker it read and now; and
that the claim it is about to store is then honest. A narrowed pass counts its
bump into the claim it read before (`advanceSeenSyncMarker`), which is where
two tabs could count one bump twice: `MomentsUnique` (a full pass's moment is
not that of another claim or pass of the device) and `SeenEarlier` make "the
stored claim is the one it read" mean that nothing else replaced it.

Most steps neither make nor use a claim. `Mono` says of every step that the
marker only grows and that, while it stands still, a device misses nothing
more; `Kept` says how the step of one tab looks to the passes of every other;
and a `Calm` step, whose pass keeps or drops its moment and the claim it read,
keeps what the claims say (`CalmClaims`). The
steps that make or use a claim (`BeginFull`, `ReadClaim`, `Bump`, `StoreClaim`,
`Advance`) are proved one by one. `InvInit`, `InvStep` and the last `PTL` step
give the first two theorems.

`FailureForcesRead` needs `Forced` beside it: a device with edits that a failed
pass had to push has no claim, and those edits are still dirty. So a full pass,
the only one that makes a claim out of none, finds each of them when it reads,
and settles without a failure only once it has pushed them all. A step of
another device's tab leaves that alone (`ForcedElsewhere`, from `StepKept`); the
steps of the device's own tab are taken in groups. TLC checked `IInv` before it
was proved, and `Forced` with two faults on the run's instance and with three on
one device with two collections.

### SyncSchedulerProofs

Every safety property of `SyncScheduler`, for every set of Characters and
collections and every number of requests and failures, from
`SyncSchedulerAssumptions`:

- `TypeCorrect`: `Spec => []TypeOK`
- `SessionCorrect`: `Spec => []OneSession`
- `HaltCorrect`: `Spec => []HaltIsFinal`
- `EditsCorrect`: `Spec => []NoEditForgotten`
- `RetriesCorrect`: `Spec => []IdleMeansRecovered`
- `FlushCorrect`: `Spec => FlushedMeansPushed`

`requestSync` and the end of a pass call `pump` in the middle of a step, over
jobs they have just changed. `PumpDoes`, `requestSyncDoes` and `EndPassDoes`
say once what that leaves of a Character, in the terms of `Pumped`; `Others`
says what a step of one Character leaves of every other: nothing, but that the
pump may start its job. Each invariant below is stated per Character, so its
step proof is one case per action for the Character that acts and one lemma
(`Aside...`) for the rest.

- `Typed` adds `Session` to `TypeOK`: whoever is in the queue waits there once,
  a pass is that of a started job, and one pass holds the session. `OneSession`
  alone is not inductive, because `pump` relies on the queue.
- `HaltInv`: a halting page has no timer and an empty queue, and only the job
  of the pass in flight is left.
- `EditInv`: `NoEditForgotten` does not say where an edit is once its pass has
  read the collection. `Late` does: one made after the read waits in the timer
  or in the rerun, so the end of the pass does not lose it.
- `RetryInv`: while edits that a pass failed to push are on record, there is no
  recent full pull and no claim a background pass could trust (`Unvouched`), so
  the pass that turns the status idle is a full one.
- `FlushInv`: whatever a caller waits for is in the job it waits on (`Owed`),
  or in what the job's pass carries, failed passes and their reruns included
  (`Recarried`).

All of them were checked by TLC on the instance of the run before they were
proved. That `None` is no request, job or pass is assumed for the tests the
code writes as `undefined` and `null`. `NextInLine` is a predicate, not a
choice of the least position: `pump` takes the first foreground job or, if
there is none, the first, and the proofs need not know that there is a least.

### EsiClientProofs

One module holds the proofs about the three layers an ESI request passes
through: the semaphore, the gate on top of it, and the sign-in. Each part uses
the assumptions of its own component.

Of the semaphore, for every set of waiters and tickets, every limit and every
reserve:

- `PermitsCorrect`: `SemSpec => []PermitsAccounted`
- `PromiseKept`: `SemSpec => KeepsItsPromise`, the refinement of `PermitPool`

A pool is `Good` when each lane is in the order of arrival and no arrival number
is used twice, nobody waits at two places or waits while he holds a permit, and
the two counters count the permits that are out and are within their limits. It
is `Stuck` when nobody who waits may be admitted. Between two calls it is both
(`SemInv`); inside a call it is only good, which is why the two are apart.

Each call is the change it makes to the lanes (`Queued`, `Aborted`, `Returned`,
`Promoted`) followed by `drain`. The change is shown to leave a good pool whose
waiters stand to each other as `PermitPool` says (`KeptIs` and `MergedIs` about
a lane that is filtered or merged, then `QueuedIs`, `AbortedIs`, `ReturnedIs`,
`PromotedIs`). The drain is a loop, and what a
loop returns takes an induction on its turns that no installed prover does as
such; `DrainLoop` does it through the least turn that breaks a fact, which
exists because the naturals are well founded. The fact is that whatever the turns so far
admitted came before all who still wait, in a higher lane or earlier in the
same one; and that each turn admits somebody or has stopped for good, so that
`Limit` turns are enough for `Stuck`. `Admits` of `PermitPool` then follows
with the set of those admitted as its witness, and each action of the semaphore
is one of `Ask`, `GiveUp`, `GiveBack` and `Raise`, or a stutter (a second
release, a promotion that moves nobody, a new ticket).

Of the gate, for every number of calls, every answer ESI may give and every
bound on times, from `EsiGateAssumptions`:

- `PermitsAreHeldByCalls`: `GateSpec => []PermitsHeldByCalls`
- `BrakeKeepsSpreading`: `GateSpec => []BrakeSpreads`
- `StragglersDoNotReopen`: `GateSpec => OnlyFreshAnswersReopen`

`GateInv` adds to `SemInv` who may be where: a permit, or a place in a lane,
belongs to a call that is queued or out, and a call that is out holds its permit
(`Held`, part of the property). `BrakeSpreads` alone is not inductive, as it
says nothing of the next slot: `Slots` adds that `nextAdmissionAt` is behind
every slot that is taken, by that slot's spacing. `CallMoves` says once what a
step that moves one call must establish, and the semaphore's own lemmas are used as they
stand: the gate needs to know of `drain` only that it leaves everybody where he
was or lets him in.

Of the sign-in, for every set of tabs and every number of logins, rotations and
interruptions, from `TokenRefreshAssumptions`:

- `TypeCorrect`: `Spec => []TypeOK`
- `OrphansCorrect`: `Spec => OnlyCrossingJobsOrphan`
- `RefusalsCorrect`: `WebLocks => (Spec => []OnlyDeadGrantsRefused)`

`Typed` adds to `TypeOK` what each phase of a job has in hand (`ShapeOf`).
`UncrossedInv` is what `OrphansCorrect` needs besides: a job that no removal
crossed still finds the Character it read.

`OnlyDeadGrantsRefused` speaks of the token a tab has sent; that this one is
still alive rests on the row it came from. `LatestInv` adds to `Typed` that the
row holds the newest rotation of its grant, unless a rotation of that grant was
lost, or the tab that holds the lock has a later one in hand (`RowLatest`);
that what a tab sends and stores is the newest it could have (`TabOf`); and
that one tab at a time is past the lock (`OneHolder`), which is where Web Locks
come in. The login callback takes no lock: it is harmless because its grant is
new, so that nobody else can have a token of it before its first row is
written (`LoginOf`, `Public`). `Unissued` keeps grants yet to come at their
first version. Most steps change one job or none and are covered by `Quiet`;
`Granted`, `RefreshAnswered`, `completeLogin`, `PutToken` and `Interrupted` are
proved one by one. `LatestInv` was checked by TLC with three grants before it
was proved.

The assumption that `Null` is no number is used for the version of an answer
that brings no refresh token.

### AlertsPollerProofs

`NotesNotLost` (with the types), `NoMailTwice` and `NoReplay`, from
`AlertsPollerAssumptions` and `NoneIsNothing` (no grant, and no registration, is
a value apart): for any number of devices, types, notifications, mails and
tokens, for any thresholds, and whatever of a run fails or is cut off.

One invariant carries the three, `IInv`, for they need each other's parts:

- `Typed`: the types, and that a run has in hand what its phase needs.
- `Tokens`: the token a save brings is none that the grant or the run holds, and
  EVE still takes it. This is what the guard on every write of a run rests on:
  after a re-grant the stored token differs from the one the run listed, so the
  run's patch, its idle mark, its revocation and its mail log are all dropped.
- `Past`: every mark and every stamp is one the feed has reached.
- `OwedInv`: what is owed lies above the mark of the grant, of the run's copy of
  it, and of the copy a save is about to write back; who is owed something still
  wants it and registered before it came; and a run that has read the feed has
  everything owed that it found among its pushes, unless a push failed. The last
  part is why `Patched` may advance the mark, and the second why a device that
  the run overlooks is owed nothing.
- `ReplayInv`: the last notification that passed while nobody wanted any
  (`ghost.passed`) is `Covered`: the mark or the day of the grant is beyond it,
  or the grant is idle and every device that wants notifications now registered
  since. `wakeCutoff` turns the third case into the first when the run wakes the
  grant. `WishesKnown` is what an idle mark needs: who wishes now was seen by
  the run or registered after it listed.
- `MailInv`: a mail that went out is at most the mail mark or is in the log, but
  for what the run has sent and not logged yet; the run's copies of both are the
  grant's as long as its token is.

Thirty-odd kinds of step come down to four lemmas: `RunEnded` (a step that only
ends the run), `RunMoved` (one that moves it on and leaves the grant alone),
`PushDone` (a push leaves the list, delivered or not) and `RegChanged` (a device
registers anew, ages or loses its FCM token). `wakeCutoff` is the oldest stamp
among those who wish, and that it is one of them and the least comes from the
well-foundedness of the naturals (`MinExists`), as in `SyncMarkerProofs`.

### Only model-checked

- Liveness, which is out of the prover's reach: `CatchesUp`, `EventuallyPushed`,
  `SettingsAgree`, `SomeoneLeads`, `NoLaneStarvedAlone`, `EveryCallEnds`,
  `EveryRefreshEnds`, `OwedEnds`. Every other property of a passing run is proved.
- `DevicesAgree` with clocks that differ, where two devices still agree in what
  TLC has seen and three need not.
- `OnlyBackdatedHidden` and `UnsyncedAboveCursor` with several tabs on a device
  or clocks that differ, and `PullsOnlyNewer` and `FailureForcesRead` with
  several tabs: they are false there, see above.

## Not modelled

Row contents, formatting and the shapes of the collections; Firestore itself
beyond single-document writes and queries that return what was written; the
security rules; several pages' schedulers together (each page has its own
queue, and what two of them do to each other is in `RecordSync` and
`SyncMarker`, whose tabs are independent); real time beyond "the interval has
passed". The other parts of the table above are listed in `PROJECT.json` with
the reason.

Most of the repository has no state machine in it: of some 630,000 lines the
largest parts are screens and their stories and tests, tables of game data, and
arithmetic over them. The lines modelled are a small share of the whole and a
large one of the files that decide what is stored, sent and retried.

## Plan

In order:

1. Removal and owner change: the wipe and the bookkeeping against a pass still
   in flight, refused docs (`setOwnedDoc`), the ESI cache's purge.
2. The feed with `mergeFeed`; `AccountWide` with two devices in detail.
3. The server's corp tax book and SRP claims: their transactions and retries.
4. A register per record that devices write and read, implemented by
   `RecordSync` up to the exceptions above.
