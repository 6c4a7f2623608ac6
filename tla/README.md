# Verification of was-react

was-react is a library for React apps whose data lives in a wallet-governed
storage space: an encrypted local replica (RxDB) that works without a wallet, a
wallet login that delegates capabilities, and background replication of the
replica under them. This directory holds TLA+ modules translated from `src/src`,
TLC configurations that check them on small instances, and theorems proved with
TLAPS.

## The system

| Component | State it keeps | Operations | Hard behaviours |
| --- | --- | --- | --- |
| Auth store, `session/authStore.ts` | `AuthState` (status, phase, controllerDid, expires, reconnecting), the sync controller and its pending bootstrap, the expiry watch, the lifecycle chain | boot, destroy, login, connectWithGrants, reconnect, logout, clearLocalData, notifyAccessExpired | popups answered at any time, tasks queued behind each other, activation that fails halfway |
| Persisted session, `identity/appSession.ts`, `seedStore.ts` | a seed and a record in IndexedDB, the anonymous seed | persist, load, peek, clear | two writes per persist, reload between them |
| Storage context, `storage/storageContext.ts` | attached replica, generation, open swap, re-hydrate timers, store registry | attach, detach, beginSwap, endSwap, awaitStore, whileAttached, patchFromChange | work that outlives its replica |
| Storage manager, `storage/storageManager.ts` | the process-wide active context | activate, deactivate, module-level verbs | two providers over one pointer |
| Entity stores, `storage/entityStore.ts` | a Map of documents, a persist queue per id, a buffered pull burst | insert, update, upsert, remove, hydrate, patch, drop, replaceAll, query | optimism and rollback, order of persists, pulls against writes |
| Local replica, `storage/localStore.ts` | rows, the uuid -> envelope index, ciphers and their epochs | CRUD, listing, singleton reconciliation, cipher rebuild and refresh | read-modify-write across awaits, key rotation under reads |
| Sync controller and bootstrap, `storage/syncController.ts`, `pwsSync*.ts`, `pwsRemoteStore.ts`, `spaceTrust.ts` | the replication core, the Space's owner resolved once, the heads pinned so far | start, stop; one pass that reads, declares and installs per collection | a stop during the import, collections that fail apart, heads rolled back, objects other apps rewrite |
| Audience reader, `audienceReader.ts` | checkpoint, paused, feed unsupported, a zcap and its generation, a chain of pulls | open, pull, get, replaceCapability | a zcap revoked and replaced under a walk, retired layouts, cuts |
| Shared reader, `sharedCollectionReader.ts` | a refreshing cipher | open, list, get | heads that advance, resources it cannot open |
| Document app, `react/documentApp.ts` | one document in an entity store | update, import, export, hydrate | two devices that create it apart, updates over a hydrate |
| Descriptors, `descriptorManager.ts`, `governedDescriptors.ts` | the stamped descriptor cache | load or mint, complete, cache | floating writes of the cache |
| Local wipe, `session/localWipe.ts` | none | snapshot, execute | one deletion of many fails |
| Adoption, `storage/adopt.ts` | none | merge of the anonymous data | halfway failures |
| Wallet flow, `auth/*` | none | request, verify | external: cryptography and CHAPI |
| React bindings, `react/*`, `mui/*` | none of their own | mount calls boot, unmount calls destroy | double effects |
| Configuration, grants, dev tools | none | parsing | none |

The auth store drives everything else. The provider's effect enqueues boot and
destroy on its lifecycle chain; dialogs call login, reconnect, logout and
clearLocalData. A task of the chain attaches and detaches the replica in the
storage context, writes the persisted session and starts or stops the sync
controller. Entity stores resolve the replica through the storage manager on
every call. Replication and the expiry watch call back with notifyAccessExpired,
and the replica's change feed patches the entity stores.

What makes each component correct:

- session: status, attached replica, controller, watch and persisted session name
  one account between two tasks; no late answer revives or mixes sessions; a logout
  stays a logout; no acknowledged write is lost and no erased one is kept; the chain
  never blocks.
- entity stores: when an id's queue has drained the Map shows what the replica
  holds; no document of one session shows in, or is written to, another.
- local replica: one row per logical id; ciphers never go back to an older epoch;
  a bounded number of refreshes; one surviving singleton.
- singletons: whatever devices write, reconcile, adopt and replicate, the newest document
  persisted is not lost and one row is left.
- bootstrap: a collection degrades for its own failures only; no cipher of an open
  replica loses epochs, no reader goes back to an earlier head; a cached descriptor opens for
  the account of its stamp; a declaration carries the members beside its own forward; one controller runs one core.
- readers: what the consumer was told is current up to the checkpoint it holds; only a
  denial of the zcap it holds pauses a reader.

## Session: the module and the code

`Session` models `session/authStore.ts` with the replica half of the storage
context and the persisted session. Every handler is divided at its awaits; each
action is the code from one await to the next.

| TLA+ | code |
| --- | --- |
| `status phase did expires reconnecting` | `AuthState` (did is `controllerDid`) |
| `attached`, `handles`, `swap` | the attached `LocalStore`, the databases open, the swap of `beginSwap` |
| `sync`, `watch` | `controller` with `pendingSync`; the two expiry timers |
| `anonSeed`, `sessSeed`, `record`, `docs` | the two seed stores, the session record, the replica databases |
| `chain`, `task`, `step`, `frame` | `lifecycle`: tasks waiting, the one running, the await it stands at, its locals |
| `login`, `recon`, `writes` | calls of login() and reconnect(), entity store writes, each with the locals it captured |

`boot` is BootMiss / BootRestore, Prepared, OpenConnected, MergeAndHydrate,
SaveSeed, SaveRecord, LandBoot, or LoadOrCreateAnonSeed, OpenAnon, LandLocal.
The connect epilogue (`completeConnect`) is StartConnect, Prepared, Drain,
Collect, Read, OpenConnected, MergeAndHydrate, SaveSeed, SaveRecord, LandConnect,
DiscardAnonReplica, DropAnonSeed; `logout` and `clearLocalData` are StartTeardown,
Drain, ClearAnonSeed, ForgetSession, Wipe and openLocal; `reconnect`'s epilogue is
StartRenew, StopForRenew, SaveSeed, SaveRecord, LandRenew. Every call that may
reject has its failing action (`...Fails`, BootRetriesLocal, BootGivesUp,
OpenLocalRejects) with the code's catch and finally. Off the chain run OpenLogin to
CancelLogin, OpenReconnect to CancelReconnect, AuthError, WatchExpiry, SyncStarts,
SyncFails, IssueWrite, LandWrite, Advance and Crash.

Abstractions. A seed, the identity it derives and the replica it encrypts are one
value: the code derives the second and the third from the first. A set of
grants is its account, its storage location (None when the wallet granted none) and
its earliest expiry. A write is one insert of its own document. A merge is a union,
and a failed one lands any part of the source. Descriptors, error texts and the
writer id are left out. Page crashes fall between two steps, where the code stands
at an await.

## EntityStore: the module and the code

`EntityStore` models one entity store over its collection of the replica, with the
change feed and the sessions that pass under it. A verb is divided at its awaits.

| TLA+ | code |
| --- | --- |
| `byId`, `inFlight`, `pending` | the Map shown, the persist queue entry per uuid (`tail` is the order of `queue`), the pull burst waiting for its microtask |
| `ops` | the verb calls with the locals each holds across an await |
| `rows`, `index` | the RxDB rows by envelope and the uuid -> envelope index, of each replica; `at` tells Map objects of the index apart |
| `attached`, `swap`, `closing`, `listing`, `timer` | the attached replica, an open swap, a replica detached and not yet closed, a hydrate under way, the re-hydrate timer |
| `events` | change events whose decrypt has not finished |

Issue is the caller's turn (stampLww, enqueue, commitDoc), Start the queue's turn with
awaitStore; ListForIndex and SetIndex are `#ensureIndex` on a replica not listed
yet; Look, Put, MapEnvelope, Patch and Bury are the awaits of insertEntity,
updateEntity, upsertEntity and deleteEntity; Finish and Rejects the two ends of a
persist. Pull is replication (external), Deliver and Undecodable are patchFromChange
on either end of its decrypt, Flush the microtask, Rehydrate and Hydrated the timer
and the store's hydrate, Detach, CloseAndClear, Attach and EndSwap what a session does
to the store. An envelope is named for the call that minted it, a payload is its id,
its stamp and its writer. A session whose replica fails to open is in Session.

The code leaves six crossings unguarded (the comment at `Crossings` names them). A
behaviour records the ones it meets, and the safety properties say that without one
the store shows what the replica holds, one row per document, the newest
acknowledged write, and nothing of another session. Each crossing stands for a
behaviour TLC found to violate one of them; the first is finding 5, two contradict comments
(findings 6 and 7).

## CipherRefresh: the module and the code

`CipherRefresh` models the cipher of one private collection: `#decryptWithRefresh` and
`#spendRefresh`, the refresh policy of the constructor, `#serializeRebuild` with the three
operations that ride it, and what the sync bootstrap (`pwsSync.ts`) does to that cipher.

| TLA+ | code |
| --- | --- |
| `log`, `custom` | the Space: the heads of the governing log, which other devices append to, and the epoch the stored index schema is sealed under |
| `held`, `schema`, `meta` | `#descriptors[key]` with `#ciphers[key]` built from it; the schema on that cipher; `#metas[key]` |
| `chain`, `build` | `#rebuilds`: the operations queued, and what the first one awaits |
| `source`, `spent`, `memo`, `refusal` | `#descriptorSource`, the guard of `DescriptorRefreshPolicy`, `#refreshing`, `#refusals` |
| `refresh`, `reads`, `boot` | the refreshes, decrypts and bootstrap under way, with their locals |
| `asked`, `allowed` | history of the allowance; no code reads them |

Decrypt, Join, Spend and Retry are `#decryptWithRefresh`; Serve is the source's read of
the log, and Answer, Refuse and Fail the three ends of `acquireGovernedDescriptor`.
SkipRebuild, StartRebuild, Rebuilt, RebuildFails, StartInstall and Install run the chain;
BootRead, BootApply, BootSchema and SetSource are the bootstrap. Rotate, Rewrap and
WriteSchema are the other devices.

Abstractions. Epochs are numbers: a head lists the epochs 1 to n, since a rotation
appends one and none is removed. A head wraps its last epoch to this app or not (`mine`):
a rebuild unwraps the write epoch only. A read epoch that fails to unwrap later is a
per-envelope failure that changes no state. A schema is the epoch it is sealed under, and
decodes under a cipher that lists that epoch. Public collections have no such cipher, and
an answer without a roster changes nothing. A failure of the rebuild that is neither a
refusal nor a roster failure ends like Fail and is left out. `rebuildCipher` itself has no caller
in `src/src` outside tests.

## Singleton: the module and the code

`Singleton` models one logical document on `N` devices: the document app over the singleton
operations of the replica, the change events, adoption, and replication (external).

| TLA+ | code |
| --- | --- |
| `rows`, `index` | the rows of the replica, which row the hydration index maps the document to |
| `shown`, `queue` | the document in the entity store, the updates stamped and not persisted |
| `hyd` | a hydrate under way: what it read, its winner, the losers left |
| `master`, `base` | the Space's rows; the master states a device last saw |
| `open`, `last` | a session over the replica; the last instant stamped |
| `newest` | history; no code reads it |

Update and Persist are `update` with `upsertEntity`; Hydrate, Weigh, RemoveLoser and Hydrated
are the registry's hydrate over `hydrateSingleton`, divided at its awaits, with
`#tombstoneUnlessChanged` one removal; Push and Pull are replication with the conflict
handler (`Resolve`) and `patchFromChange` (`Patch`); Login, LoginAdopting and Logout are the
sessions, the second with `mergeAdopted`.

Abstractions. A persist is one step: EntityStore has its interleavings. A row is named for the
document that minted it. The clocks of the devices are good enough that a stamp comes after
every live document its device holds (`Stamps`): with clocks that run apart
last-write-wins loses edits by definition. A row that is live beats a tombstone in the conflict
handler, which a tombstone's missing stamp gives. `PullsOverUpdates` lets a pull land while an
update waits for its persist; the run keeps it FALSE, since finding 12 violates NewestStands
with it.

## AudienceReader and Follower: the module and the code

`AudienceReader` models the class of that name whole. A step is one request answered or one
synchronous call; a request travels with the zcap and the generation its pull or its get
captured.

| TLA+ | code |
| --- | --- |
| `reader` | `#checkpoint`, `#paused`, `#feedUnsupported`, `#generation` (with `#zcap`) |
| `waiting`, `walk` | `#chain`: the pulls called; the read of the running one with its locals |
| `getter` | a `get` under way |
| `view`, `asOf` | the consumer: the posts it shows and the position its answers told it |
| `clock post feedOn layout revoked` | the author's Collection and server |

StartPull, FeedPage, FeedEnd, FeedCut, FeedUnavailable and CheckpointRefused are `#pull` and
`#pullFeed`; List, ReadBody and AssertVisible `#pullSnapshot`; Get, GetAnswer and GetVisible
`get`; Replace is `replaceCapability`, Reopen an app that restarts from the checkpoint it kept.

`Follower` is what a reader promises: the author writes, and in one step the consumer
is brought forward to a position, never backward, with everything up to it current and no post
rolled back. The property `Implements` (`F!Spec`, by the names of the variables) says every
interleaving of pulls, cuts, replays, fallbacks and restarts is a behaviour of it.

Abstractions. The server masks the denial of a single read as a missing resource, keeps
tombstones in its feed, and decides how many entries a page holds. A post is the position of its
last write and whether it is a JSON resource. `RenewOverListing` lets a zcap be replaced during
a listing: FALSE in the run `audience`, since finding 10 violates `Implements` with it, and
TRUE in `audience_snapshot`, which shows that.

## Bootstrap: the module and the code

`Bootstrap` models how a connected session brings up encryption and replication:
`prepareActivation` and `beginSync` of the auth store over eight modules of `storage` and
`identity`.

| TLA+ | code |
| --- | --- |
| `log`, `meta` | the Space: how many epochs each head of a governing log lists and whom the last is wrapped to; each Metadata object: whose index list it has, and how often other apps changed the rest of `plaintext` and the members beside it |
| `store` | the session store's account and its descriptor cache with its stamp |
| `act` | the activation or reconnect: which await it stands at, its kind, its grants, what it took from the cache |
| `trust` | `SpaceTrust`: the owner promise and the chain-head pins |
| `col`, `got` | each collection's callback of the pass, with the object it read (`cur`) and the one its write is pinned to (`base`); the fetched descriptors |
| `cipher`, `schema`, `reader` | the head each cipher of the open replica is built from, which carry the index schema, the shared readers |
| `puts` | writes of the descriptor cache under way |
| `ctl` | the `SyncController`: stopped, the imports awaited, the core held, the cores starting and running |
| `unopened` | history: heads cached that no cipher was built from |

Login and Restore are `prepareActivation` with `loadCachedDescriptors`; Served, ReadFails,
OwnerKnown, OwnerFails and MetaRead the reads of a pass, answered in any order; Completed
`completeDescriptors`; PutReads, PutSaves and PutFails the read-modify-write of the cache; Open
and OpenFails `LocalStore.init` and the activation's fallback; Apply, DeclareBlinded, Install and
DeclareIndexes the hook of `startPwsSync`; AfterPass its end; StartCall, ImportLands,
CoreStarted, CoreFails and Stop the controller; List a listing of a shared reader; Reconnect,
Logout and Crash the ways out. Rotate, Rewrap and Edit are the Space's other clients.

Abstractions. A descriptor is the head it was read from. Every head carries a blinding key, every
public collection declares indexes. Rotate appends a head with one epoch more, Rewrap (a share) one with
the same epochs for other accounts; HoldsOrPostdates places them as `#holdsOrPostdates` does, and
as in CipherRefresh: an earlier head that only wraps otherwise is rebuilt in. Only the wrap of the last
epoch, which a cipher opens when it is built, is kept. An earlier head may be
served where no pin forbids it. A public declaration writes `plaintext` as the pass read it, with its
`indexes` replaced whole, over the other members of the object it is pinned to; the client library
reads the object again and rebases on a lost race, and gives up in the end (external, over a
backend that serves ETags: without them nothing pins the write). So another app's list is replaced and
a change it makes inside `plaintext` during the race is overwritten: CarriesForward claims the
rest. The blinded declaration reads and writes by itself, atomically here, and nobody else writes
the schema of a private collection (finding 20). The app holds the controller (`startPwsSync` and
`SyncController` are exported), so it may start or stop it at any time. Session checks which
replica is attached; here there is one.

## Runs

| Run | Checks | States |
| --- | --- | --- |
| session_popups | SyncsOwnReplica, ConnectedIsOpen, NothingOutlivesSession, ReloadRestoresSession, ConnectedIsWatched, LogoutIsFinal: a login and a reconnect popup over two accounts, and any two of boot, destroy, logout, erasing logout and clear, with an opening of the anonymous replica that fails twice | 1.3 million |
| session_adoption | LocalIsOpen, OneReplicaOpen, AckedWriteReachable, ErasedIsGone: merge logins and any two calls of connectWithGrants, boot, destroy, logout, erasing logout and clear, two writes, any single step failing, one crash | 6.1 million |
| session_liveness | TypeOK, NoAnonymousSync and, under FairSpec, AnswerSettles, SwapSettles: grant-less answers, one reconnect popup, one failing step | 346 thousand |
| session_wrong_replica | SyncsOwnReplica is violated by two logins and a reconnect | stops at the trace |
| entity_store | TypeOK, MapShowsReplicaUncrossed, NewestWriteStands, ShowsNoForeignPull: two calls of any verb, two pulls, one failing persist, one re-hydrate, two sessions | 585 thousand |
| entity_calls | OneRowPerDocument and, under FairSpec, CallsSettle: two upserts or removes of two documents over one index, one failing persist, one re-hydrate, two sessions | 284 thousand |
| singleton | TypeOK, NewestStands and, under FairSpec, Converges: two devices, two instants, one session ended | 365 thousand |
| singleton_update | UpdatesCompose is violated by an update under a hydrate | stops at the trace |
| cipher_refresh | TypeOK, NeverGoesBack, RefreshServes, RefreshRationed, RefusalStands, SchemaInstalled and, under FairSpec, DecryptsSettle: three decrypts, two heads, two bootstraps, one failing read | 821 thousand |
| audience | TypeOK, PausedForCause, Implements and, under FairSpec, Converges: two posts, two writes, one replacement, one retired layout, one change of feed, one fault, one restart, two pulls waiting | 1.3 million |
| audience_snapshot | Current is violated by a zcap replaced during a listing | stops at the trace |
| bootstrap | TypeOK, CacheOpens, DegradesForCause, OneCore, EpochsAdvance, CarriesForward: a private, a public and a shared collection, two accounts, two heads, three events, two passes | 5.2 million |

Bounds. `MaxCalls` and the sizes of Logins, Reconnects and Writes bound the
callers, `MaxChain` the tasks waiting, `MaxFaults` the failing steps, `MaxCrashes`
the reloads, `MaxNow` the clock. Two accounts and two anonymous identities (before
and after a clear) are what a mixed session needs. A hazard of the chain is a task
that starts over what another left, so one popup of each kind and two tasks put every
pair of operations back to back with a third answering in between; a third task
adds states and no new pair. Ttl = 2, Warn = 1 and MaxNow = 1 cover a grant that is
fresh, near its expiry and, for a persisted one, expired from the start.
CHECK_DEADLOCK is off everywhere: when its bounded callers have all returned the
page is idle, which is where an app rests. `Faults` names the steps that may fail:
MostFaults leaves out the steps of clearLocalData and a logout's clearing of the
session, whose failures strand the status (findings 2 and 3), and the peek of a boot,
whose failure together with a second one leaves a connected replica open beside
the anonymous one; TwiceFaults names the openings that fail twice in a row (a boot's
two attempts, a merge's collect and the re-open after it). In session_liveness nobody but one reconnect popup and one call
interferes: the chain's own steps are what it is about.

For EntityStore one document has most interleavings: two calls make a queue, two pulls a
burst that can be out of order, and two replicas the session before and after
(`MaxStores`). entity_calls has a second document: they share the index, which a
listing replaces whole. StoreInv and the four properties were checked once with three calls, with three pulls
of one call, and with two documents, two calls and two pulls. The constraint Uncrossed
stops a behaviour of entity_store at its first crossing, after which the properties
claim nothing; calls, pulls and documents are interchangeable, so they are symmetric. The app
inserts what it does not see and updates what it sees. CHECK_DEADLOCK is off: a
store whose calls have returned is idle.

For CipherRefresh two heads are the least for an old and a new roster, and three decrypts
one that spends a refresh, one that joins it and one that spends the next after a
re-arm; two bootstraps (`MaxBoots`) install a source under a refresh of the one before.
`MaxHeads` bounds the log, `MaxFaults` the failing reads. Since the proofs cover every
bound, the run serves to find out what to prove and to check liveness. CHECK_DEADLOCK is off:
the decrypts are finite, and a store nobody reads rests.

For Singleton two devices make duplicates, and two instants (`MaxAt`) an older and a newer
document on each; `MaxLogouts` bounds the sessions ended, `MaxIdle` the hydrates of a replica
that holds no duplicate (those of one that does are not bounded). Three instants without
fairness were checked once with the same result.

For AudienceReader two posts are a page that stops between them; two writes, one replacement,
one layout, one flip of the feed, one fault and one restart put each kind of interruption into
each step of a pull, and two waiting pulls one behind another. For Bootstrap the two heads are an
old and a new one, and `MaxEvents` = 3 bounds failures, stale answers, rotations, re-wraps, edits and calls of
the controller together: the traces of findings 13 and 14 take two.
The constraint OneIntruder follows a behaviour as long as only one of the logs, the objects and the
controller is changed from outside, since the bring-up carries nothing from one to another;
without it the six properties and BringUpInv were checked once, over 10.4 million states, with the same
result, and the proofs know no such constraint. Two private collections with
two events were checked once with the same result. `MaxPasses` = 2 is a login and what follows
it: a reload, a second account or a reconnect. `Late` is a collection a newer app version
registered. The accounts are symmetric.

Fairness. In Session, `FairSpec` adds weak fairness of the chain's own steps, which the event
loop gives to a promise whose awaited storage or network call settles, and of the
bootstrap settling, which its fetches do in success or failure. Nothing obliges a
wallet to answer, a user to click or an app to write. In EntityStore it is weak
fairness of the storage calls of each verb, the flush, a hydrate's decrypts, and the
steps that end an open swap, which one chain task runs; no session has to start.
In CipherRefresh it is weak fairness of the chain, of the source's read and its answer, and of
the retry; no bootstrap and no rotation has to happen. In Singleton it is weak fairness of
storage and replication, of a login, and of the hydrate of a replica that holds duplicates: the
code reconciles at a hydrate only, so it converges only for devices that are opened again. In
AudienceReader requests are answered, the app polls, and its agent replaces a zcap once the
reader is paused.

## Proofs

Two modules prove every safety property of Session, for every value of the constants that
satisfies `ConstantsOK`: every number of accounts, popups, tasks, writes, faults and crashes.
`SessionProofs`:

- `TypeCorrect`: TypeOK and ShapeInv hold in every reachable state.
- `LogoutFinal`: LogoutIsFinal, whatever fails.
- `ConnectedHasReplica` and `NoAnonymousReplication`: ConnectedIsOpen and
  NoAnonymousSync, under NoStrandingFaults (no step of clearLocalData fails and
  neither does a logout's clearAppSession). Finding 2 shows that NoAnonymousSync needs the
  assumption.

`SessionReplicaProofs`:

- `OneReplica` and `AckedStaysReachable`: OneReplicaOpen and AckedWriteReachable, under
  NoHalfOpenFaults (no step fails once it has attached the anonymous replica). Finding 16
  shows that OneReplicaOpen needs it.
- `LocalHasReplica`: LocalIsOpen, under NoStrandingFaults and NoStrandedCollect (a failed
  collect is not followed by a failed re-open, whose rejection the login passes on).
- `ErasedStaysGone`: ErasedIsGone, without an assumption.
- `SyncIsOwn` and `SyncEndsWithSession`: SyncsOwnReplica and NothingOutlivesSession, under
  NoStrandingFaults, in every behaviour in which a reconnect popup is opened over the
  account the disk holds (`[]PeekedOwn`). SyncsOwnReplica does not hold otherwise
  (session_wrong_replica): the theorem says that finding 1 is the only way to break it.
- `ReloadRestores`: ReloadRestoresSession, under the same and AllGranted (no answer without a
  storage grant, which finding 4 is about); `ConnectedWatches`: ConnectedIsWatched, under
  NoStrandingFaults and AllGranted.

None of these is inductive alone. ShapeInv says which tasks may stand at which
step, and with which locals: the guards of most actions name a step and not
the task, so without it a destroy at `anonSeed` would count as reachable. LogoutInv adds
to LogoutIsFinal that a session logged out is neither live nor about to become so,
and that a logout past clearAppSession has left no seed; OpenInv adds which
replica is attached while a connect, a boot or a renewal is under way, and AttachInv the
same whatever fails. HandleInv accounts for every open handle (the attached replica, the one a
teardown still has to close, the one a merge collects from), which is what OneReplicaOpen
needs at the next opening. AckedInv follows a write through an adoption: what was collected is all the
anonymous replica holds until it is deleted, because nothing writes to a replica that is
neither attached nor closing, and from the merge on the connected replica holds it. ErasedInv
says, while nothing failed, that a write is in one replica (in two from the merge to the discard)
and that what a clear erased stays in replicas its snapshot names until they are wiped;
that its snapshot names the attached replica is part of it. LocalInv says that a connect re-opens the
anonymous replica only after a failed collect or activation. OwnInv (a queued renewal is of the
account its popup was opened for), SyncInv (at which steps a controller or a watch may be alive),
GrantedInv, RecordInv (which of the two writes of persistAppSession a step may rely
on) and WatchInv do the same for the grants. One lemma for each invariant shows, action
by action, that it is kept; the last step of each theorem is temporal. For Session, TLC alone
checks AnswerSettles and SwapSettles: ENABLED is out of the prover's reach.

`CipherRefreshProofs` proves, for every number of decrypts, heads, bootstraps and failures
(`ConstantsOK`), every safety property of the run cipher_refresh, and the inductive invariant
behind them: `CipherTypeCorrect`,
`CipherNeverGoesBack`, `RefreshServesAlways`, `RefreshIsRationed`, `RefusalIsOfItsSource`,
`RememberedIsInstalled` and `CipherInvariant`. The inductive invariant is TypeOK with
CipherInv. NeverGoesBack alone is not inductive: a rebuild runs with the roster its
caller read long before, so BuildInv carries the comparison made when it
started, QueueInv that each queued operation has one caller still waiting for it (a
refresh answered twice would end in two states), DoneInv that nothing a refresh
installed was undone since, SharedInv that a memo names a refresh that was
spent and that a decrypt ends only after it settled, and RationInv that whenever no refresh is shared
one is left to ask. `RosterOrder` is the lemma on `HoldsOrPostdates`: a roster it skips has
no more epochs than the held one, and one it lets through has no fewer. What remains to TLC
is DecryptsSettle.

`AudienceReaderProofs` proves, for every number of posts, writes, faults and restarts:

- `ReaderTypeCorrect` and `PausedOnlyForCause`: TypeOK and PausedForCause.
- `ReaderImplements`: Implements, that is the initial states of AudienceReader are initial
  states of Follower and each of its steps is one step of Follower or a stutter;
  `ToldIsCurrent`: the consumer's view is current up to the position it was told. Both
  under `~RenewOverListing`, without which finding 10 violates them.

A denial pauses the reader only where its request's generation is the current one, and
denials come of a revoked generation; with RangeInv (no checkpoint ahead of what was told,
no walk ahead of the author, no refused body in a walk of the feed) that is inductive. Current is
not: the consumer sees a walk at its end only. FeedInv says that a walk of the feed has read, or
left as shown, every post up to the position it reached, ListInv that each answer of a listing is
the post's body, or null for a post that shows none or a zcap that verifies no more, and
VersionInv that a post is read in no older version than the one shown.

`BootstrapProofs` proves every safety property of the run bootstrap, for every number of
collections, accounts, heads, events and passes: `BringUpTypeCorrect`, `OneCoreRuns`,
`CachedDescriptorsOpen`, `DegradedForCause`, `EpochsNeverLost` and `OthersCarried`. The inductive
invariant is Types with BringUpInv, whose conjuncts say what each part of the code may rely on
after an await: CtlInv, that the start under way is the one the controller waits for, which gives
OneCore; PutInv, that a login waits for the one put it made; CacheInv, that what the cache, its
puts and their reads hold opens for its account or is the excepted case of findings 13 and 14, and
CipherInv the same of a replica's ciphers; LogInv, that every head held is one of the log;
PrepareInv, that a completion reads live only what the cache misses; BringInv, which
steps of a pass a collection may stand at, so that a head resolved is
installed or about to be; MetaInv, that the object a declaration is based on is no newer than the
stored one and pinned to one, so that a write whose pin still stands carries the rest
forward; ReaderInv, that a reader is no later than its pins, which gives EpochsAdvance for readers
(for ciphers it is LogInv and the rule of Replaces); and AcctInv. No assumption is needed beyond ConstantsOK.

`SingletonProofs` proves `SingletonTypeCorrect` and `NewestAlwaysStands` (TypeOK and
NewestStands) for every number of devices, rows, instants and sessions, the second under
`~PullsOverUpdates`, without which finding 12 violates it. NewestStands says that the newest
document stands in the Space or is on its way there. It is not inductive: the replica that holds
it may remove its row as a loser, resolve a conflict against it, or persist an update over it.
SingletonInv adds that every document held anywhere was stamped, is held of one row only and
does not win over the newest, and that no tombstone is the newest's (HeldInv); that an update
waiting for its persist wins over every document of its replica and is later than those
before it (QueueInv); that a row that differs from the live master state it was made from is
later than it, or its tombstone (LaterInv); and that a loser read is older than the winner
read (LoserInv). That a hydrate finds a winner is lemma `WinnerExists`: Wins is a strict total
order on the stamped documents, and lemma `Greatest` gives a finite set of them its greatest
member.

`EntityStoreProofs` proves `StoreBase`, for every number of documents, calls, pulls, sessions and
failures: `StoreTypeCorrect` (TypeOK) and `StoreSession` (SessionInv), with ShapeInv (a call
holds what its step needs, runs at the head of its document's queue, and no two calls of a
document run at once), StampInv and IdInv. TypeOK needs ShapeInv, and Flush folds a burst of pulls over a
sequence: lemma `FoldIsLoop` shows that the recursion FoldLeft is defined by has a solution
and that its value is what a loop over the burst computes, by the least counterexample to a
claim on the naturals (`UpTo`).

`EntityStoreSyncProofs` proves the other safety properties of EntityStore, for the same values of the
constants: `StoreMapShowsReplica`, `StoreOneRow`, `StoreNewestStands` and `StoreShowsOwnPulls`
(MapShowsReplicaUncrossed, OneRowPerDocument, NewestWriteStands, ShowsNoForeignPull). Each claims
something of the behaviours that met none of the Crossings, as the runs do, and follows from
`StoreInStep`: BaseInv and StoreInv. None of the four is inductive: what is shown of a quiet document was
decided by calls, events and listings that have ended. StoreInv has nine parts, each a statement about
one document or call (the operators named `...Holds`) wherever that is possible:

- CallInv: a running persist is over the replica in use, and its envelope is still the document's
  live row, or will be; QueueInv: the calls of a queue write in the order of their stamps.
- RowInv: no document has two live rows, in a replica or in what a listing read; IndexInv: the index
  finds the live row of a document unless the call that minted it is about to map it or the pull that
  did is announced or listed.
- EventInv: the events outstanding on a document are one tombstone, or changes of its live row that
  have lost to nothing in flight; EntryInv: `latest` of a queue is its last write, and nothing in the
  replica wins over it.
- ViewInv: what is shown, or what a listing under way will show, is what the replica holds once those
  events are delivered; OriginInv: what is shown of another device's is in the replica in use.
- StandInv: an acknowledged write stands.

The proof has one lemma per part (`CallStep` to `ViewStep`) from all nine and BaseInv, since a write
that is put relies on the index, the index on the rows, a flush on the events and a listing
on all of them. Two kinds of lemmas keep it in size: what each step does to its own document (`PutEffect`,
`PullDoes`, `DeliverDoes`, `HydrateDoes`, ...), and the frame lemmas (`EventFrame`, `ViewFrame`, ...): a
step that leaves a document's rows, entry and events alone keeps what is claimed of it. Their
hypothesis Calm (both invariants and no crossing so far) is what the temporal theorem proves of each such
state. `BurstShows` and `BurstBuries` say what a flush makes of a document, by `FoldIsLoop`.

Left to TLC: the four liveness properties, whose fairness and ENABLED are out of the prover's
reach.

## Findings

A finding with a run is violated there; for the others the module and the constants under which
TLC finds the trace are named.

1. A reconnect clicked while another account's login has persisted its seed but not
   landed its status carries that account under the first one's controllerDid;
   answered later it replicates the first account's replica under the second one's
   capabilities (session_wrong_replica, authStore.ts:1481 and 1515).
2. A clearLocalData whose openLocal fails after attaching leaves `reconnect` over an
   anonymous replica; a popup still open then replicates that replica (NoAnonymousSync of
   MCSession with ClearCalls and StrandingFault, authStore.ts:1515).
3. A replica minted while a failed merge login is undone runs the fixtures hook inside
   the open swap, and the chain waits for ever (AnswerSettles of MCSession with ClearCalls,
   MintFaults, SeedLocal and MaxFaults = 2, authStore.ts:741).
4. A grant-less login over a persisted session leaves the old record to be restored
   (authStore.ts:562), and a grant-less renewal leaves the old watch armed (authStore.ts:466).
5. A remove that settles drops the write issued behind it from view, for good: nothing
   shows it again when it is acknowledged (ShowsLastWrite of MCEntityStore with two calls of
   WriteKinds and nothing else, entityStore.ts:361).
6. A rejected persist rolls back over a pulled document shown meanwhile
   (entityStore.ts:306).
7. A write that settles between a hydrate's read and its end vanishes from the Map and the
   index until the next one (entityStore.ts:326).
8. A schema install that fails forgets the schema installed before it, so the next
   rebuild drops it (SchemaSurvives of MCCipherRefresh with one decrypt, two heads and two
   bootstraps, localStore.ts:916).
9. A refresh under way when a descriptor re-arms the collection still records its refusal,
   which a later decrypt throws although its epoch can be opened (RefusedForCause of
   MCCipherRefresh with two decrypts and three heads, localStore.ts:427).
10. A listing whose zcap is replaced while its bodies are refused answers a whole snapshot
    without the refused posts (audience_snapshot, audienceReader.ts:469).
11. The document app's hydrate puts an older document over an update made meanwhile, and the
    next update is composed over it (singleton_update, documentApp.ts:205); the comments at
    localStore.ts:1283 and storageContext.ts:405 promise what two orders of events do not keep.
12. An update that waits for its persist is written over a newer document pulled into its row,
    and replicates as its successor (NewestStands of MCSingleton with PullsOverUpdates = TRUE,
    localStore.ts:1054).
13. A login caches the rosters it read before a replica was opened with them: one that leaves
    the app out fails every later login of the account (CacheOpensAll of MCBootstrap,
    descriptorManager.ts:274).
14. After a reload, an earlier head with fewer epochs than the cipher's own passes the fresh
    trust, is ignored by the cipher and written over the newer one in the cache (CacheOpensAll, pwsSync.ts:153).
15. Puts of the descriptor cache are serialized per cache object, and each is given one of its
    own (seedStore.ts:226); a reconnect starts with fresh pins though the comment says only a
    reload does (pwsRemoteStore.ts:386).
16. A boot whose peek and whose openLocal, past its attach, both fail stays in `boot` with the
    anonymous replica attached; a later boot that restores a session attaches over it and leaves its
    database open (OneReplicaOpen of MCSession with BootCalls, HalfOpenFaults and MaxFaults = 2,
    authStore.ts:684 and storageContext.ts:136).
17. On a replica not hydrated yet, the verb of one document lists the collection and replaces the
    whole index (`#ensureIndex`, localStore.ts:988): what a write or a delivery of another
    document put there since the listing read is forgotten, and the next update of that document
    mints a second row (OneRowPerDocument of MCEntityStore with two documents, were SetIndex no
    crossing, localStore.ts:1188). A tombstone that a re-hydrate finds
    stale the same way is not shown (storageContext.ts:408).
18. A head that wraps the same epochs to others is not recognised as earlier, so after a reload
    or a reconnect, or between a refresh and a bootstrap, an older roster is swapped back in,
    which the comments at localStore.ts:805 and 933 deny (localStore.ts:816). EpochsAdvance and
    NeverGoesBack claim that no epoch is lost.
19. The `plaintext` member of an index declaration is the one the pass read: after a lost race it
    overwrites what another app changed inside it, and another app's list is replaced in any
    case (pwsRemoteStore.ts:579); the comment there says all but `indexes` is sent back as stored.
20. Another device that makes the same blinded declaration between this pass's read of the object and
    its own declaration makes the latter report no write, so the object without the schema is
    installed until the next session (pwsSync.ts:415).

## Plan

| Order | Module | Content | Checks and theorems |
| --- | --- | --- | --- |
| 1 | Session, MCSession, SessionProofs, SessionReplicaProofs | done | as above |
| 2 | CipherRefresh, MCCipherRefresh, CipherRefreshProofs | done | as above |
| 3 | Singleton, MCSingleton, SingletonProofs | done | as above |
| 4 | Bootstrap, MCBootstrap, BootstrapProofs | done | as above |
| 5 | AudienceReader, Follower, AudienceReaderProofs | done | as above |
| 6 | EntityStore, MCEntityStore, EntityStoreProofs, EntityStoreSyncProofs | done | as above |

## Not modelled

The cryptography of presentations, capabilities and envelopes, RxDB and its replication
protocol, and CHAPI are external. The storage manager is a pointer to the active context, which only
a process with two providers could tell from the context, and activateStorageContext refuses the
second while the first holds a replica. The deletion of single databases with its reports
(localWipe) is one step of Session: nothing in the library acts on a report. The descriptors the
anonymous replica mints for itself, status reporting (syncStatusStore), equality queries and public
URLs, single reads of a shared collection, and the parsing of configuration, targets and
expiries change no state another component reads. The MUI components and hooks keep no state of
their own; the development grants are a tool.
