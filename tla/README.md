# Verification of mapeo-core-next

TLA+ models of mapeo-core-next where its correctness depends on what happens in
which order: invites, projects, roles and leaving, writing and indexing
documents, cores and their owners, sync and what it knows of the peers,
connections, live downloads of files, and the import of a configuration.  TLC
checks the models on small instances; TLAPS proves all of their safety properties for
every value of the constants.  All models are translated from the code in `src/src/`; `PROJECT.json` (`map`) names for each definition the lines it stands for.

Contents: 1 The system, 2 The modules, 3 The runs, 4 The proofs, 5 What the code
does that one might not expect, 6 What is not modelled, 7 The plan, 8 How to run.

## 1. The system

A device runs one `MapeoManager`.  For each project that it is a member of there is
a `MapeoProject` with append-only logs (hypercores), one per device and namespace
(auth, config, data, blobIndex, blob); devices exchange them when they meet.
There is no server: every device acts on what it has received so far.

| Component | State | Operations | Talks to |
| --- | --- | --- | --- |
| `InviteApi` (invite-api.js), on the invited device | pending invites, and for each whether it is being accepted | receive invite, receive cancellation, `accept`, `reject`, receive project details | messages of `LocalPeers`; calls `addProject`; asks `MapeoManager` if it is in a project |
| `MemberApi` (member-api.js), on the inviting device | the outbound invite per device | `invite`, `requestCancelInvite`, `assignRole` | messages of `LocalPeers`; `Roles` |
| `MapeoManager` (mapeo-manager.js) | projectKeys table, active projects, device info | `createProject`, `addProject`, `getProject`, `leaveProject`, `setDeviceInfo`, background and foreground | `MapeoProject`, `SyncApi`, `InviteApi` |
| `Roles` (roles.js), `MapeoProject` (mapeo-project.js) | role documents in the auth cores | `getRole`, `getAll`, `assignRole`; leaving, clean-up when opening | `DataType`, `CoreOwnership`, `SyncApi` |
| `DataType`, `DataStore`, `IndexWriter` | own core, index tables, `pendingIndex`, `pendingAppends`, `pendingEmits` | `create`, `update`, `delete`, `write`, the batches of the indexer, idle events | `multi-core-indexer` and `hypercore` (libraries) |
| `CoreManager`, `CoreIndex`, `CoreOwnership` | the cores, the table of keys, the record of ownership | add a core, exchange keys, send and receive 'have' messages, delete others' data | `SyncApi`, `SyncState` |
| `SyncApi` (sync/sync-api.js) | `wantsToSyncData`, `hasRequestedFullStop`, the autostop timeout, a controller per peer | `start`, `stop`, full stop and rescinding it, autostop, peers added and removed, adding cores | `PeerSyncController`, `SyncState`, `CoreManager` |
| `PeerSyncController` | enabled namespaces, role last read, sync status, replicating cores | 'state' events, `setSyncEnabledState`, cores added | `Roles`; replication of cores |
| `SyncState`, `NamespaceSyncState`, `CoreSyncState`, `RemoteBitfield` | haves per core and peer, cached state per namespace | block and peer events, throttled 'state' events | hypercore, `CoreManager` |
| `LocalPeers` (local-peers.js) | connections and `Peer`s per device | connect, disconnect, RPC messages | everything that sends messages |
| `LocalDiscovery` (discovery/local-discovery.js) | a server, noise connections per device | dial, accept, swap, start, stop | TCP; hands connections to `LocalPeers` |
| `BlobStore`, `LiveDownload`, `BlobApi`, fastify-plugins/blobs.js | drives, downloads per drive, their combined state | create a blob, download live, serve | hyperdrive |
| `importConfig` (mapeo-project.js), `ConfigImport`, `TranslationApi`, `IconApi` | documents of the configuration, the index of translations | import, translate, choose an icon | `DataType` |
| HTTP server, database schemas, codecs | - | routing, tables, encoding | - |

What is hard about it:

* **Concurrency in one program.** JavaScript is not pre-empted, but between two
  awaits other handlers run.  What was checked before an await may no longer
  hold after it.
* **Two devices.** Messages cross, connections drop between two messages, both
  dial at once, and a device may restart while the other waits.
* **Replicas.** Roles are read from the versions a device happens to have
  indexed; two devices may write on top of the same version.
* **Caches and throttles.** Sync acts on a cached state, which events reach late.
* **Failures halfway.** Joining, leaving and importing consist of several steps on disk.
* **Arithmetic.** Bitfields are coded by runs, and kept in pages and segments with an
  index of their own.

What makes each component correct:

* *Invites*: nobody becomes a member whom no member let in and who did not agree;
  both sides report the same outcome; no call waits for ever; an invite that
  loses a race leaves nothing behind.
* *Projects*: what was joined stays joined, and is usable when the call returns.
* *Roles*: every grant goes back to somebody entitled to it; nobody's data is
  cleared unless they left; a leave that was interrupted is completed.
* *DataStore*: a write returns when it can be read; listeners hear of every
  document; versions stay in their document; no write waits for ever.
* *Cores*: an auth core begins with its ownership; no core is forgotten; the cores of
  every member are found; those of enabled namespaces, and no others, are replicated.
* *Sync*: nothing syncs that the role forbids; a stop stops and stays; what may
  sync gets to; what is reported as synced is.
* *Connections*: one per device, the same on both sides; messages end.
* *Blobs*: each file is counted once, and downloaded in the end.
* *Import*: the presets in use are whole, whatever fails; one configuration is left.

`PROJECT.json` lists the hazards behind these at their lines, with the properties
that catch them; a hazard with none says why.

## 2. The modules

An action is one stretch of code between two awaits, or one message or event
handler with all that it calls synchronously.  Data is reduced to what the
properties distinguish.  `MC*` modules hold the instances for TLC, `*Proofs` the
proofs.  The names of LocalDiscovery, Blobs and
SyncState begin with `Discovery`, `Blobs` and `State` where LocalPeers, Cores and
SyncControl have the same (`Init`, `Next`, `Spec`, `TypeOK`): the proofs of each pair share a
module.  Each specification also has *mutants*: operators that no specification
uses, each a copy of a definition with a plausible mistake (a guard dropped, an
update forgotten).  Substituting one must make TLC find a violation, which shows
that the property depends on the code being as it is.

**Membership** is abstract: consent, grant, join, give up.  It has no messages
and no calls.

**Invites** is one invited device and any number of inviting devices and projects.

| State | Code |
| --- | --- |
| `pending`, `events` | `#pendingInvites` and what was emitted to the application |
| `answer` | how far `accept()`, `reject()` or the automatic answer ALREADY is |
| `row`, `active` | the projectKeys table and `#activeProjects` |
| `call`, `outbound`, `granted` | the `invite()` calls, `#outboundInvitesByDevice`, the assigned roles |
| `conn`, `toInvited`, `responses` | connections and messages under way |

Messages of one connection keep their order; a response is looked up by its invite,
so responses are queues per invite.  A drop of the connection loses what is
under way.  `Env` selects what else may happen: cancellation, disconnection,
failures of `assignRole` and `addProject`, restarts of either side.
`RefinesMembership` maps the users' answers to consent, the roles to grants
and the projectKeys table to membership.

**Projects** is one device and its projects.  `row` and `saved` are on disk; `made` and
`active` are the instances and `#activeProjects`.  `calls` has a thread per call and
project (`setDeviceInfo()` is about all projects at once), with the stage it awaits:
opening, the settings, reading and writing the device info, the three steps of
`#waitForInitialSync()`, and leaving.  `doc`, `settings` and `role` are what is indexed,
`blocks` what there is of the auth and config cores of others, and `event` a 'state'
event that is due.  A peer brings haves and blocks; the index follows on its own.

**Roles** is one project and all of its devices.  `log` is every version of a role
document, `known` what each device has indexed, in any order.  Forks and their
resolution by time and version follow `IndexWriter` and `DataType`.  Besides
`assignRole` it has `leaveProject` with each of its steps on disk, crashes
between them, and the clean-up that runs when a project is opened.

**Schemas** says which documents there are, in the cores of which namespace, and
which index writer and table they reach.  It is constant, and used by DataStore.

**DataStore** is one namespace of one device: concurrent calls, own and downloaded
blocks, the indexer's batches, and listeners that come and go.  An append may
fail.  The indexer and hypercore are libraries and modelled by their contracts:
batches are any set of blocks not yet taken, and idle is reported when none are left.

**Cores** is one device and one project.  `known`, `ready` and `rows` are `CoreIndex`, the
cores that are ready and the table; `log` is the own auth core, and `ownership` how far its
record is.  `indexed` and `checks` are the records of others and the look-ups that
SyncApi awaits for them; `keys` is the message with the keys of auth cores that is sent
once per connection.  `enabled`, `replicating`, `disabling` and `paired` are what a
`PeerSyncController` was told, its `#replicatingCores`, the cores whose `ready()` it
awaits before it stops them, and the channels there are.  A crash empties all of it but
the disk; `deleteOthersData()` purges cores first and their rows later.

**SyncControl** is one device in one project and its peers.  `cap` is the role
that a `PeerSyncController` last read, `role` the one that is indexed: the gap
between the two is what the module is about.  `dirty` and `hidden` are the cache
of `NamespaceSyncState`; `due` is the throttled event.  Of the cores of a namespace
it keeps whether there are blocks to get (`wanted`) or to give (`want`), and the
status of one link, which goes through `opening`, `open` and `closed`, with the
status a late `core.update()` can leave behind (`ghost`).  A reading of the role may
fail, which `cap` keeps apart from one that was not made yet, though the capability is
`unknown` in both cases.  The other devices are the environment.

**Bitfields** has no state: the run-length coding of `bitfield-rle.js` (`Encode`,
`Decode`, `EncodingLength`) over sequences of bytes, and `RemoteBitfield` as a record of
pages and of the index that summarises them, with `set`, `get`, `insert` and the search
for set bits that stops where the index says there is nothing.  All sizes are constants.

**SyncState** is one namespace of one device, and EXTENDS Bitfields.

| State | Code |
| --- | --- |
| `store` | what each device has of each core (hypercore's bitfield, or the peer's disk) |
| `toSend`, `channel` | the cores a peer is about to send 'have' messages of, which it debounces, and the messages under way |
| `attached`, `opened`, `order` | the hypercores given to `CoreSyncState`s, those that are ready, and `#coreStates` in their order |
| `preHavesLength`, `peerStates`, `corePeers` | `#preHavesLength` and `#remoteStates` with their pre-haves and bitfields, and the peers a core is replicated with |
| `cached`, `ticking` | `#cachedState`, with what it was derived from, and the tick after which `#handleUpdate` drops it |

`Derived` is `getState()` of both classes: words of bits and their sums become
sets and cardinalities, cut to the same lengths.  `PagesOf` are the pages of a bitfield, and
`Message` the 'have' message of one.

**LocalDiscovery** is two devices.  A *link* is a TCP connection, of which each end
keeps its own stage.  `side` is `#noiseConnections` with the swaps that await a close
and the connections that were emitted; `server` and `force` are the
`StartStopStateMachine` and the timeouts of a forced stop.

**LocalPeers** is one device and its connections with others, any number with each.
`stage` is how far a connection is, `peers` the `Peer`s kept of a device, in the order
`rank` of the set; `since` is the time they are compared by, which may be the same for
several.  `opening`, `lastEmitted` and `send` are `#opening`, `#lastEmittedPeers` and
the calls of `sendInvite()` and the like, which wait first for the connections that
are opening and then for one to be chosen; `sendDeviceInfo()` does not look whether the
chosen one is connected.  When streams and channels open and close is
up to hyperswarm and protomux, and free.

**Blobs** is the blob store of one device and one live download with both of its classes.
A file is its number in the index of its drive.  `pc`, `folder`, `rest`, `file` and
`seq` are the loop of `DriveLiveDownload.#start()`, `downloads` and `cancelled` its
downloads, `told` the status in the last 'state' event of the combined one.  `blobs` are
the drives that have emitted 'blobs', which they do once: whoever has not begun to wait for it
by then, as `#getBlobsCore()` may not have, waits for ever.  Files are
added to own and other drives, and drives come up, at any time.  `WantedFiles` are those of a
drive in the folders of the filter.

**ConfigImport** is `importConfig()`: `stage` is the await it is at, `pending` the
writes of one `Promise.all` which end in any order, `late` those that go on after another
failed.  `Contents` says what a configuration stands for: which icons, fields and presets
survive the checks of config-import.js, what refers to what, and which translations
there are.  `Translate` and `BestVariants` are `TranslationApi.get()` and `getBestVariant()`.  The
comparison that the latter sorts by (`Compare`, with `determineSortValue()` as it stands)
contradicts itself on two variants of one size that is not the wanted one, and JavaScript
leaves the order to the engine then: `BestVariants` is the set of what may come first, in
any order in which two neighbours stand as the comparison of them, one way or the other, says.

The modules do not share state.  What one takes as given is what another shows:
Invites takes `assignRole` as a step that succeeds or fails, and `addProject` as a call
(Roles, Projects); SyncControl takes role changes as given, and Cores the namespaces
that SyncControl enables; ConfigImport takes the writes of documents from DataStore;
LocalPeers takes the connections that LocalDiscovery hands out.

## 3. The runs

| Run | Instance | Distinct states | Shows |
| --- | --- | --- | --- |
| `invites_safety` | 3 invites of 1 project from 2 members, every event of `Env` | 950 524 | at most one accept per project; a joined project is settled; both sides agree on the outcome; Membership is refined |
| `invites_live` | 3 invites to 2 projects, `addProject` may fail | 13 700 | accepts and invites end; a role brings membership |
| `roles` | 2 devices, 3 versions, 2 clock values, 1 crash | 451 950 | grants are backed; only leavers lose data; interrupted leaves are completed |
| `datastore` | 2 calls, 2 documents, 1 download, 1 failed append | 243 208 | returned writes are indexed; updates are told; links stay in the document; calls return |
| `sync` | 1 peer of any of 3 roles, a presync and a data namespace, 2 connections or closes, 1 block, readings that fail | 156 686 | only the allowed is enabled; a full stop comes and lasts; data sync gets going |
| `localpeers` | 3 connections with one device, 1 message of either kind, 2 clock values | 304 573 | what is shown was announced; a message ends, unsent only for want of a connection |
| `projects` | 1 project to create, 1 to join, 2 calls at a time, 1 device info, 1 crash | 330 893 | what was joined stays, with its role and settings |
| `discovery` | 2 devices, each dials once; 1 server stops once, 1 link is cut | 15 235 | one connection at a time; both sides keep the same; swaps and forced stops end |
| `haves` | 2 peers, 2 cores of up to 17 blocks, 2 connections, 1 change | 498 556 | 'have' messages arrive; "no data to sync" is true; the cache is fresh; coding and decoding agree |
| `cores` | this device as creator, 1 other, 2 namespaces, 2 records, 2 disables, 2 crashes, 1 deletion | 689 312 | ownership comes first; cores are added and kept; the enabled are replicated |
| `blobs` | 2 drives, a filter of one folder, 3 files, 1 error | 674 199 | each file is counted once; all is downloaded in the end, or at rest after an abort |
| `import` | 5 archives, 3 imports, 1 fault | 561 276 | the presets in use are whole; one configuration is left; the closest icon is shown |

**Bounds.**  Each is the smallest at which the interesting cases occur, and the
mutants show that they do.  Three invites to one project from two members give a
second invite of the same member and one of another, hence two accepts that race and
an invite that comes after joining.  Three role versions give a fork and its
resolution, or a grant that rests on a grant.  Two calls and a download give a batch
that overtakes an append and a fork.  In `sync`, two connections give a reconnection
after a role change; one more block is enough for the state to change while a role is read.
Three connections with one device are one that is connected, one disconnected and one
that is being made.  Two calls on one project are an `addProject()` and a second one, or
a media request that opens the project, a leave or a device info, at every stage of the
first; a restart between them gives the row that a project left behind.  In
`discovery`, two links are dialled in opposite directions, so that each device is to
destroy one.  In `haves` the sizes are scaled down (2 bits to a byte, 8 to a page, 2
pages to a segment), so that a core of 16 blocks fills a segment to its last bit and one
that is appended begins the next; its writer has the first block and the last and has
cleared the rest, and a change is an append, a clearing or a role.  The coding is tried with every bitfield of
up to two pages, of bytes that are zero, full or neither.  In `cores` two records are the ownership
and a role, in either order if the code let them, and two crashes one before and one after
the first write.  In `blobs`, two drives are the own one and another that comes up late; three files are one
listed, one that is added meanwhile and one of another folder or drive.  In `import`,
three imports are one in use, one that fails and the one that clears up after both.  Its
archives are one that goes through, though its presets end at the first without an icon;
one with a field that is invalid; one without presets; one with a language that
is no object; and one of an unsupported version.

Larger instances were explored where time allowed: two peers for the safety of
SyncControl, and all its properties for a device whose first auth core is not the creator
core, which alone is replicated whatever is enabled (`OwnProject = FALSE`); and
`discovery` with a device that dials twice and no cut (126 159 states).
Counters that would grow without bound are capped in guards by the constants `Max...`.

**Deadlock.**  `CHECK_DEADLOCK FALSE` is set where a system at rest is normal: with
every invite answered, or the versions, calls, files or imports used up, nothing happens
any more.  `invites_safety` can always go on, and is checked.

**Symmetry** is used in `projects` for the two slots, which are interchangeable in the
specification; that run has no liveness property.

**Fairness.**  Only the program's own steps are fair: a promise that can resolve does,
an event that was queued is delivered, a message on a connection that stays up
arrives.  Nothing a user does, no new connection and no crash is fair.

* Invites (`invites_live`): connections stay up in this run and messages arrive.
  Waiting for a user is excluded from `InviteEnds` by its statement.
* Roles: a call goes on, and a program that stopped is started again and opens its
  projects, which is when `LeftIsCleared` says the leave is completed.
* DataStore: calls go on and the indexer works while there are blocks.
* SyncControl: 'state' events are emitted, `getRole()` and `core.update()` resolve, and
  a peer that stays connected opens the links that are on and carries what is wanted.
  Without that last part a full stop need not come: it waits for sync to finish, and a peer
  that stays connected and never answers holds it up.  That `getRole()` succeeds is not
  assumed.
* LocalPeers: a stream or channel that is being made opens or closes, and `sendInvite()` goes
  on.  No timeout is fair: `SendsEnd` says that none is needed.
* LocalDiscovery: a stream that can connect or close does, the timer of a forced stop
  fires, and a server without connections reports that it is closed.  Nobody has to dial,
  start or stop, and the last timeout of 500 ms is not fair: `StopEnds` says that it is not needed.
* Blobs: the loops and promises of the download go on, the blobs of a drive are opened at some
  time, and a file that was asked for arrives, which some peer has to see to.  That a
  drive emits 'blobs' when it is waited for is not assumed: `EndsDownloaded` is about the
  drives that did not miss it.

`FullStopComes` exempts states in which the cached sync state shows a peer that has
been blocked since.  That exemption is needed: a role that is read after the
data namespace was cached leaves the blocked peer in the state until something else
changes in that namespace, and until then `isSynced()` waits for a peer that will
never sync.  Without it, TLC shows a full stop that never comes.  It also exempts a
connected peer whose last reading of the role failed while blocks are missing on one side
(`LeftUnknown`), and `DataIsEnabled` such a peer altogether: section 5 says why.

## 4. The proofs

All theorems hold for every value of the constants that meet the named assumptions
(`InvitesAssumption`, ...): these only say what sort of thing a constant is
(`ArchivesAreFinite` that what is read of a configuration are finite lists).

| Module | Model | Theorems | Argument |
| --- | --- | --- | --- |
| `InvitesProofs` | Invites | `TypeCorrect`, `BookkeepingCorrect`, `OneAcceptCorrect`, `OutcomeCorrect`, `JoinedCorrect`, `MembershipRefined` | inductive invariant `BookkeepingAgrees` |
| `ProjectsProofs` | Projects | `InvariantHolds`, `TypeCorrect`, `JoinedKept`, `JoinedSynced` | inductive invariant `IInv`, thread by thread |
| `RolesProofs` | Roles | `InvariantHolds`, `TypeCorrect`, `GrantsBacked`, `LossIsOwnDecision` | `RolesInv` with the types |
| `DataStoreProofs` | DataStore | `InvariantHolds`, `TypeCorrect`, `WritesAreIndexed`, `NoUpdateIsLost`, `DocumentsReachTheirTable`, `DocumentsStayApart` | `DataStoreInv` with the types |
| `StorageProofs` | Cores | `InvariantHolds`, `TypeCorrect`, `OwnershipFirst`, `KnownKept`, `CoresAdded`, `EnabledReplicated` | inductive invariant `IInv`, a part for each property |
| | Blobs | `BlobsTypeCorrect`, `EachFileIsCounted` | inductive invariant `BlobsInv`: a set of counted files per drive |
| `SyncProofs` | SyncControl | `InvariantHolds`, `TypeCorrect`, `OnlyAllowedIsEnabled`, `TimerRunsWhenDue`, `FullStopIsLasting` | the properties, the types and `GoneIsUnknown` |
| | SyncState | `CacheStaysFresh` | inductive invariant `CacheInv` |
| | | `StateTypeCorrect`, `HavesHaveArrived`, `NothingIsMissed` | inductive invariant `PagesInv` |
| | SyncState, Bitfields | `CodingIsExact`, `RoundTripHolds` | invariants `Coded` and `RunOK` of the encoder, byte by byte |
| `ConnectionProofs` | LocalPeers | `InvariantHolds`, `TypeCorrect`, `ShownAreAnnounced`, `OneIsKept`, `FailureIsJustified` | inductive invariant `PeersInv` |
| | LocalDiscovery | `DiscoveryTypeCorrect`, `OneIsHandedOut`, `SwapsAreAwaited`, `OneLinkSurvives` | inductive invariant `DiscoveryInv` |
| `ConfigImportProofs` | ConfigImport | `InvariantHolds`, `TypeCorrect`, `OneConfigLeft` | inductive invariant `IInv`, stage by stage |
| | | `StoredHolds`, `SettingsAreServed` | `StoredInv`, by means of `IInv` |
| | | `AnyClosestIsShown`, `ThreeClosestAreShown` | about `BestVariants`, for any variants: what comes first has the least rank |

*Invites.*  That one accept per project is under way does not follow from the guard
in `accept()` alone, since that guard ends when the details arrive and the row in
the table takes over: `RowInv` joins the two.  That the outcome is the answer needs
to know what messages can be under way: `MessageInv` says that an invite is sent
once and that its receiver has not taken it up, `ResponseInv` that an answer
under way was given, `CallInv` that a call which has sent nothing got no answer.
For the refinement, each action is mapped to one of Membership or to a stutter, and
`RowInv` supplies that keys are held only where a role was given.

*Projects.*  A failing `addProject()` deletes the row, so the row of a joined project is
safe only while no call adds it: `OneAdds` and `JoinedInv` say that at most one call adds
a project, and none that is joined, since the row is looked up and written in one tick.  That the role and settings which
`#waitForInitialSync()` read still hold when it returns, after a later await, is part of
what `ThreadIn` says of each thread.  A step changes one thread, so one lemma
(`ThreadStep`) carries the invariant over to all.

*Roles.*  A grant is checked against a replica and written after an await.  What is
stable about the check is not that the caller *has* the role but that it *knows of
a version that gave it* (`MayAssign`), since versions are never forgotten: `CallInv`
carries that from the check to the write.  For loss of data it carries, through
every step of leaving, that the device wrote its own LEFT version.  The types need
the invariant (a link must be a known version), so both are inductive together only.

*DataStore.*  `IndexInv` says that every readable block taken is in the tables,
`EmitInv` that what a listener is owed is noted in `pendingEmits` or in the batch;
`CallInv` says that the links of a call were validated for its document, and that
its block is readable.  A returning call has seen its block's batch, hence the block
is indexed.

*Cores.*  `LogInv` says that the auth core is known to be empty while its record is
written.  `RowsInv`: what is known has a row, follows from the keys of the project, or had
its data deleted.  `AddedInv`: of a device with both records indexed, the cores are
known, or a look-up is awaited that will see both, or the one at the start is due; the
second record to be indexed always causes one.  `ChannelsInv`: what is enabled is in
`#replicatingCores` and has a channel, and a channel that is not wanted any more has
somebody waiting to close it, who looks again whether it is wanted.  The parts rest on the
types but not on each other.

*SyncControl.*  Whatever path led there, the enabled namespaces were last set by
`updateEnabledNamespaces()`, which allows no more than the role and the state of
SyncApi of that moment (`NewEnabledAllowed`), and both are re-applied when
either changes.  A new peer starts with no capability because a controller is made
anew (`GoneIsUnknown`): a reading of the role that belongs to an earlier connection
does not reach it.  A full stop lasts since the row of the table that applies
depends on the state before, and `#updateState()` is the only writer of it.

*LocalPeers.*  `#emitPeers()` announces what was not emitted last, so that a shown
connection was announced needs to hold of what was emitted last, too (`LastInv`): it had been
connected, and a connection does not reopen.  The steps that emit nothing can hide a
peer and show none (`QuietShows`).  That one disconnected `Peer` is kept is about the
size of a set, and uses the theorems on finite sets.

*LocalDiscovery.*  The close of a connection brings up those that waited for it, one after
the other, and each may be destroyed or wait again.  Every one of these steps keeps
an invariant of the side it is on: the one connection that was handed out and is
not closed yet is the one in the map (`HandedOK`, which gives `OneAtATime`), and what is
kept waits for one that is to close, or its turn is still to come (`WaitsBut`).
That both sides keep the same link rests on `WinnersKept`: undisturbed, an end goes only if
it loses the comparison of the keys and a link that wins it is up.

*Blobs.*  What was counted is a set of files of which each was counted once (`SumIs`), and
which come before what is yet to be listed or read (`ComeBefore`), so nothing is counted
twice, for any number of folders.  With one folder the set has, further, everything up to
where the download has come (`AreAll`): the listing is of one version of the index, and the
history begins after the last file of it.  With several folders that does not hold, as the
code has it (section 5), and `EveryFileOnce` claims it for one only.  The run has one
folder; that nothing is counted twice with several is what the theorem adds to it.

*SyncState.*  The cached state is fresh whatever the coding does: each event that
changes what it is derived from either is for a core that is not attached, or sets
`ticking`, or leaves what is derived as it was (`CacheOK`).  The last needs that a state
depends on the peers only through those that are not blocked, and that sums over equal
sets are equal.  For what arrives, the invariant is about pages: of each page of a core whose
messages were sent, the last message on the way, or if there is none the page as it is kept, is as
the writer has it (`PagesArrive`).  An append or a clearing makes a new message of each page
that it changes; a message replaces the one page it is of and no other.  With nothing on the way all pages
are right, hence all bits (`HavesArrive`).  For `NoDataToSyncIsTrue`, the
length that haves are cut to must not cut any off: the search for the last set bit
finds it, since the index has a mark wherever a page has a bit (`Indexed`), and a
sum that is zero has no positive part.

*Bitfields.*  That the bits of a page are read as they were written (`PagesAreCoded`) is
proved from the coding itself.  The encoder reads a bitfield byte by byte; before each,
what it has written stands for the bytes before `inputOffset` and the offset that it counts is
the length of it (`Coded`), and the run that it is in consists of equal bytes and lies after
that (`RunOK`).  Reading a byte and ending a run keep both, and what is left at the end is written as it
is.  So what is decoded is what was encoded, for bytes of any number of words
(`CodingIsExact`), and the length that is computed without writing is right.  For the bits of a
byte, what is added up for the lower bits is less than the power of the next, and every higher power is a
multiple of twice a lower one.

The provers have no induction that takes a predicate.  These proofs use the
well-founded order of the natural numbers with sets in place of predicates
(`SetInduction`), and from it that what is defined by iteration exists and stays in
its set (`IteratesExist`, `IteratesStay`).  For this the loops of the code are written
as recursive functions (`ReadByte`, `Rle`, `ExpandAll`, `ByteOf`, `Power`), not as folds.

*ConfigImport.*  What is deleted is looked up at the start, what is created appears
later, stage by stage, and the deletes of a failed import may still be under way.  `OwnInv`
says at each stage which items of this import are there or awaited, `OldInv` that every
older document of a kind that was looked up is to be deleted or was late, `PendingInv`
which writes are awaited.  In the end nothing is awaited, so the new documents are
there and the old ones gone.

`StoredInv` carries the default presets: they are of an import that was written as a
whole and found all that its presets refer to, and whatever was deleted, or is to be, is of
an older one.  That translations are found among them follows from the index, which
has every translation that is there.  The closest variant is a statement about a sort that may be
given a contradiction.  Two neighbours in its order were compared, one way or the other, and
a size that is not preferred never comes directly before one that is (`NeighboursByRank`), since
the contradictions are only among equals; by induction along the order the first is
of the most preferred size, and if that is the wanted one, where the comparison is consistent, of the
most preferred density (`FirstIsLeast`, `ClosestByRank`).  It is proved for lists of any
length; the run tries those of three.

**Only model-checked** are the liveness properties (`AcceptEnds`, `InviteEnds`,
`RoleBringsMembership`, `LeftIsCleared`, `CallsReturn`, `FullStopComes`,
`DataIsEnabled`, `SendsEnd`, `SwapEnds`, `StopEnds`, `EndsDownloaded`), which rest on
fairness and are beyond the prover.

## 5. What the code does that one might not expect

Met while modelling; the models have each of these as the code does it.  No property is stated that
they break.

*Invites and projects*
* An ACCEPT that crosses a cancellation leaves `accept()` waiting for project details
  that nobody sends (invite-api.js:369).  `AcceptEnds` is about the runs without cancellation.
* When `invite()` ends it deletes the entry of its device, which may be that of a later
  call; that call cannot be cancelled (member-api.js:183).
* A failed `addProject()` leaves its instance in `#activeProjects`: a retry is refused
  until the program restarts (mapeo-manager.js:651).
* The initial sync looks again on 'state' events only; a role or settings that are
  indexed without another one are noticed when the next comes, or time out (mapeo-manager.js:715).
* If the connection drops, or the program of the invitor ends, between the role and the project details
  (member-api.js:170-176), the device is a member and does not know it: nothing sends the details
  again.  Membership has this, as a grant without a join; `RoleBringsMembership` is about
  connections that hold.
* `onBackgrounded()` and `onForegrounded()` reach the active projects only, so that a
  project opened in between is in the other state (mapeo-manager.js:834).
* Settings that change are not reported to listeners.

*Roles*
* The guard for the creator's role tests a promise, so it never holds a coordinator
  back (roles.js:367).
* Two devices that assign a first role to a third write two originals, and `update()`
  refuses links with different originals (datatype/index.js:323): such a fork stays,
  while a test (`merge forked records`, test-e2e/members.js:499) merges a fork of one original.
* Two leaves, one after the other or at once, can leave a project without anybody to
  administer it: the check counts the coordinators known (mapeo-project.js:655).

* A role that goes stale between the check of the assigner's own and the write of the record is
  not noticed (roles.js:378).  `GrantsAreBacked` says that the assigner knew itself to be a
  coordinator at some time, not that it still is one.

*Documents*
* An append that rejects leaves its deferred in `#pendingAppends`, and every later batch
  waits for it (datastore/index.js:156).  `CallsReturn` is about the runs without.
* `#pendingIndex` never shrinks; steady downloads put off every read (datatype/index.js:171).

*Cores and sync*
* A device that blocks a connected peer goes on syncing with it: the role is read
  again only when auth blocks arrive (peer-sync-controller.js:153).
* A reading of the role that fails makes the capability of the peer `unknown` in all namespaces
  (peer-sync-controller.js:157): all but auth goes off, the role is not read again until
  auth is synced the next time, and meanwhile `isSynced()` waits for the peer in all
  namespaces, so that a full stop need not come.
* A full stop waits as long for a peer that stays connected and never answers.
* `mutatingAddPeerState()` compares (`===`) where it means to assign (namespace-sync-state.js:186).
* Attaching a core, and its becoming ready, do not drop the cached state; neither does
  a change of role.  `CacheIsFresh` names these.
* A late `core.update()` sets the status 'started' of a peer that was removed (core-sync-state.js:266).
* A `PeerSyncController` stays subscribed after its peer has gone, once.
* The autostop timeout can pass within the 200 ms in which news of arriving data is held
  back (sync-api.js:251).
* The keys of auth cores are sent when a peer connects, and not again when more are learnt of.
* If the write of the ownership record fails, a role may become the first record.

*Connections*
* A peer is hidden from the list while another connection to its device is connecting,
  and 'peer-add' is emitted again after (local-peers.js:495).
* `sendDeviceInfo()` does not check that the chosen peer is connected (local-peers.js:205).
* `connectPeer()` looks for an existing connection under another kind of key, so it always
  dials (local-discovery.js:94); when a device dials twice, its two links can come up in different
  orders at the two ends, and each end destroys the one that the other keeps.  `OneSurvives` is about
  devices that dial once.  A forced stop destroys only the connections it
  knows at that time; others come up and close later, or by the last timeout.

*Files*
* `#getBlobsCore()` reads `drive.blobs`, awaits `ready()` and `update()`, and listens for 'blobs'
  after that (live-download.js:229-241).  If the drive opens its blobs meanwhile, `#start()` waits
  for ever: with peers the state stays "checking", which the comment there says is caught, and
  without it says "downloaded" of files that are never asked for.  An abort still ends it, as
  `EndsDownloaded` shows.
* With two or more folders a live download can miss a file: the history starts after
  the newest of any folder (live-download.js:191).  The run has a filter of one.
* An abort during `core.has()` leaves one download; the loop of the history hears nothing when another
  download ends meanwhile.
* `create()` writes variants that its type does not support, which the server refuses with 400.

*Configuration*
* Icons whose variants are interleaved by the sort are written twice, and the presets get
  the last part; a preset without an icon ends the presets; `propertyRef` of options
  accumulates; old icons are never deleted; the order of the default presets is that of completion.
* `getBestVariant()` looks at the density only if the size is the one wanted; its third rule has no
  such condition (icon-api.js:146).  Of a small@1x and a small@3x variant either may be
  shown for medium@1x: `determineSortValue()` puts each before the other (icon-api.js:247).
* Translations under way when an import fails can survive the next one (`LateDocs`); two
  coordinators who import at once can leave settings that name deleted presets.
* `TranslationApi.get()` also returns translations that were deleted, and without a region
  those of all regions.

## 6. What is not modelled

* Contents of documents, cores and messages, encodings other than that of bitfields,
  and all cryptography.
* Read-only calls (listings, `getMany`), logging, the texts of errors.
* The summary of the sync state that is reported to the application, and discovery keys,
  whose handling changes nothing once the cores of enabled namespaces are replicated
  (`EnabledIsReplicated`).
* Closing of projects and data stores; opening of databases; `writeRaw`, `deleteSchema`.
* The HTTP server, which is routing and I/O: its start and stop are a library's; the
  choice of an icon and the reply for a blob are in ConfigImport and Blobs.
* The file pool, generated code, database schemas, and pure utilities.

What is left is I/O, declarations, or stateless; the parts that decide on something
are in the models.

## 7. The plan

All of it is done: Membership and Invites with their refinement, Roles, DataStore,
SyncControl, LocalPeers, Projects, LocalDiscovery, Bitfields and SyncState, Cores, Blobs
and ConfigImport, in this order of importance.  There is one run per module, but two for
Invites.  The safety properties of all modules are proved.
Worth doing with more time are larger instances of `discovery` (three devices) and `sync`
(two peers with liveness), and theorems about the steps that the liveness properties rest on.

## 8. How to run

    tlc -config MCInvites_safety.cfg MCInvites.tla     # likewise the others
    tlapm InvitesProofs.tla                            # likewise the others

`PROJECT.json` pairs the configurations with modules (`runs`).  Each ends without an error.
