--------------------------------- MODULE Cores ---------------------------------
(***************************************************************************)
(* The cores of a project on one device: which it knows                    *)
(* (core-manager/index.js, core-index.js), which it keeps across restarts, *)
(* how it learns of those of other devices, from messages and from the     *)
(* records of who owns them (core-ownership.js, sync-api.js), and which of *)
(* them it replicates with a peer (peer-sync-controller.js).               *)
(*                                                                         *)
(* Each device writes one core per namespace.  The project's key is that   *)
(* of its creator's auth core, so every device knows that one.  Of a record*)
(* in an auth core only what it is and whom it is about is kept.           *)
(*                                                                         *)
(* External are hypercore, with the channels of a protomux, the index (see *)
(* DataStore), the other devices, and what decides which namespaces are    *)
(* enabled for a peer (see SyncControl).  A definition commented as a      *)
(* mutant is used nowhere (see Invites.tla).                               *)
(***************************************************************************)
EXTENDS Naturals, Sequences, FiniteSets

CONSTANTS Me, Others, \* this device and the others
          Creator,    \* the one that created the project
          Namespaces, \* "auth" and others
          AuthKeys,   \* the devices whose auth core a peer tells of
          MaxRecords, \* bound: records this device writes to its auth core
          MaxDisables,\* bound: times a namespace is disabled
          MaxCrashes, \* bound: ends of the program
          MaxDeletions\* bound: calls of deleteOthersData()

Devices == Others \cup {Me}

ASSUME CoresAssumption ==
  /\ Me \notin Others /\ Creator \in Devices
  /\ "auth" \in Namespaces
  /\ AuthKeys \in [Others -> SUBSET Devices]

Core == [owner : Devices, namespace : Namespaces]
AuthCore(d) == [owner |-> d, namespace |-> "auth"]
OwnCores == {c \in Core : c.owner = Me}
CreatorCore == AuthCore(Creator)

\* getByNamespace(), of the cores cs.
CoresOf(cs, ns) == {c \in cs : c.namespace = ns}

VARIABLES
  known,      \* the cores in the index of open cores
  rows,       \* those in the table of cores
  ready,      \* those that are ready
  purged,     \* those that were purged, and are closed
  deleting,   \* the namespaces of which the rows are yet to be deleted
  log,        \* the records in the auth core of this device
  ownership,  \* whether the ownership record is there: "unknown", "writing", "done"
  indexed,    \* the records that are indexed: [kind, of]
  checks,     \* the devices whose cores may be added, and what is awaited for it
  starting,   \* the look at all ownership records at the start is due
  connected,  \* the peers
  keys,       \* the peers whose message with keys is on the way
  enabled,    \* the namespaces enabled for a peer
  replicating,\* #replicatingCores of a peer
  disabling,  \* for a peer, how often a core is waited for, to be unreplicated
  paired,     \* the cores there is a channel for
  count       \* counts what is bounded

coreVars == <<known, rows, ready, purged, deleting>>
ownershipVars == <<log, ownership, indexed, checks, starting>>
connVars == <<connected, keys>>
peerVars == <<enabled, replicating, disabling, paired>>
vars == <<coreVars, ownershipVars, connVars, peerVars, count>>

Records == [kind : {"ownership", "role"}, of : Devices]
Ownership(d) == [kind |-> "ownership", of |-> d]
RoleOf(d) == [kind |-> "role", of |-> d]

Nothing(value) == [p \in Others |-> value]
Bounded(what, bound) == count[what] < bound /\ count' = [count EXCEPT ![what] = @ + 1]

-----------------------------------------------------------------------------
(***************************************************************************)
(* Cores and their replication.                                            *)
(***************************************************************************)
\* Of the cores cs, which become known, those of an enabled namespace are
\* replicated with each peer ('add-core', #handleAddCore).
HandleAddCore(cs) ==
  LET new(p) == {c \in cs : c.namespace \in enabled[p]}
  IN /\ replicating' = [p \in Others |-> replicating[p] \cup IF p \in connected THEN new(p) ELSE {}]
     /\ paired' = [p \in Others |-> paired[p] \cup IF p \in connected THEN new(p) ELSE {}]

\* addCore(): one that is known is let be, others are kept in the table.
AddCores(cs) ==
  /\ known' = known \cup cs
  /\ rows' = rows \cup (cs \ known)
  /\ HandleAddCore(cs \ known)
  /\ UNCHANGED <<ready, purged, deleting, enabled, disabling>>

ReplicateCoreRecord(p, cs) ==
  LET new == (cs \ purged) \ replicating[p]
  IN /\ replicating' = [replicating EXCEPT ![p] = @ \cup new]
     /\ paired' = [paired EXCEPT ![p] = @ \cup new]

\* The peer runs the same code: when it is connected it sends the keys of the
\* auth cores it knows, AuthKeys[p], and only then.
SendAuthCoreKeys(p) == keys' = keys \cup {p}

\* #handlePeerAdd and the constructor of PeerSyncController.
HandlePeerAdd(p) ==
  /\ p \notin connected /\ CreatorCore \in ready
  /\ connected' = connected \cup {p}
  /\ SendAuthCoreKeys(p)
  /\ ReplicateCoreRecord(p, {CreatorCore})
  /\ UNCHANGED <<coreVars, ownershipVars, enabled, disabling, count>>

HandlePeerDisconnect(p) ==
  /\ p \in connected
  /\ connected' = connected \ {p}
  /\ keys' = keys \ {p}
  /\ enabled' = [enabled EXCEPT ![p] = {}]
  /\ replicating' = [replicating EXCEPT ![p] = {}]
  /\ disabling' = [disabling EXCEPT ![p] = [c \in Core |-> 0]]
  /\ paired' = [paired EXCEPT ![p] = {}]
  /\ UNCHANGED <<coreVars, ownershipVars, count>>

EnableNamespace(p, ns) ==
  /\ p \in connected /\ ns \notin enabled[p]
  /\ ReplicateCoreRecord(p, CoresOf(known, ns))
  /\ enabled' = [enabled EXCEPT ![p] = @ \cup {ns}]
  /\ UNCHANGED <<coreVars, ownershipVars, connVars, disabling, count>>

\* #unreplicateCoreRecord of each core but the creator's: those that are not
\* ready are waited for.
DisableNamespace(p, ns) ==
  /\ ns \in enabled[p]
  /\ Bounded("disables", MaxDisables)
  /\ enabled' = [enabled EXCEPT ![p] = @ \ {ns}]
  /\ LET cs == CoresOf(known, ns) \ {CreatorCore}
     IN /\ replicating' = [replicating EXCEPT ![p] = @ \ cs]
        /\ paired' = [paired EXCEPT ![p] = @ \ (cs \cap ready)]
        /\ disabling' = [disabling EXCEPT ![p] =
             [c \in Core |-> IF c \in cs \ ready THEN @[c] + 1 ELSE @[c]]]
  /\ UNCHANGED <<coreVars, ownershipVars, connVars>>

\* Mutant: not looked at again after the wait.
UnreplicateAnyway(p, c) ==
  /\ c \in ready /\ disabling[p][c] > 0
  /\ disabling' = [disabling EXCEPT ![p][c] = @ - 1]
  /\ paired' = [paired EXCEPT ![p] = @ \ {c}]
  /\ UNCHANGED <<coreVars, ownershipVars, connVars, enabled, replicating, count>>

\* The wait is over; the namespace may have been enabled again meanwhile.
Unreplicate(p, c) ==
  /\ c \in ready /\ disabling[p][c] > 0
  /\ disabling' = [disabling EXCEPT ![p][c] = @ - 1]
  /\ paired' = [paired EXCEPT ![p] = IF c \in replicating[p] THEN @ ELSE @ \ {c}]
  /\ UNCHANGED <<coreVars, ownershipVars, connVars, enabled, replicating, count>>

\* Mutant: the keys are added as the constructor adds those it derives.
HandleProjectMessageUnkept(p) ==
  /\ p \in keys
  /\ keys' = keys \ {p}
  /\ LET cs == {AuthCore(d) : d \in AuthKeys[p]}
     IN known' = known \cup cs /\ HandleAddCore(cs \ known)
  /\ UNCHANGED <<rows, ready, purged, deleting, ownershipVars, connected, enabled, disabling, count>>

HandleProjectMessage(p) ==
  /\ p \in keys
  /\ keys' = keys \ {p}
  /\ AddCores({AuthCore(d) : d \in AuthKeys[p]})
  /\ UNCHANGED <<ownershipVars, connected, count>>

\* deleteOthersData(): the others' cores of a namespace are purged ...
DeleteOthersData(ns) ==
  /\ ns # "auth" /\ ns \notin deleting
  /\ Bounded("deletions", MaxDeletions)
  /\ LET cs == CoresOf(known, ns) \ OwnCores
     IN /\ purged' = purged \cup cs
        /\ paired' = [p \in Others |-> paired[p] \ cs]
  /\ deleting' = deleting \cup {ns}
  /\ UNCHANGED <<known, rows, ready, ownershipVars, connVars, enabled, replicating, disabling>>

\* ... and, when that is done, their rows deleted.
RemoveCores(ns) ==
  /\ ns \in deleting
  /\ deleting' = deleting \ {ns}
  /\ rows' = rows \ CoresOf(rows, ns)
  /\ UNCHANGED <<known, ready, purged, ownershipVars, connVars, peerVars, count>>

-----------------------------------------------------------------------------
(***************************************************************************)
(* The owners of cores.                                                    *)
(***************************************************************************)
\* 'ready' of a core.  That of the own auth core starts the write of the
\* ownership record, if the core is empty.
Ready(c) ==
  /\ c \in known \ (ready \cup purged)
  /\ ready' = ready \cup {c}
  /\ ownership' = IF c # AuthCore(Me) THEN ownership
                  ELSE IF log # <<>> THEN "done" ELSE "writing"
  /\ UNCHANGED <<known, rows, purged, deleting, log, indexed, checks, starting, connVars, peerVars, count>>

\* A record is indexed.  If it is about another device, its cores may be added
\* (#handleRoleUpdate, #handleCoreOwnershipUpdate).
Indexed(r) ==
  /\ indexed' = indexed \cup {r}
  /\ checks' = checks \cup IF r.of = Me THEN {} ELSE {[of |-> r.of, awaits |-> "ownership"]}

WriteOwnership ==
  /\ ownership = "writing"
  /\ log' = Append(log, Ownership(Me))
  /\ ownership' = "done"
  /\ Indexed(Ownership(Me))
  /\ UNCHANGED <<coreVars, starting, connVars, peerVars, count>>

\* Mutant: the owner of the core is not asked for.
AssignRoleAtOnce(d) ==
  /\ AuthCore(Me) \in ready
  /\ Len(log) < MaxRecords
  /\ log' = Append(log, RoleOf(d))
  /\ Indexed(RoleOf(d))
  /\ UNCHANGED <<coreVars, ownership, starting, connVars, peerVars, count>>

\* assignRole() asks for the device's core first, which waits for the record.
AssignRole(d) ==
  /\ ownership = "done"
  /\ Len(log) < MaxRecords
  /\ log' = Append(log, RoleOf(d))
  /\ Indexed(RoleOf(d))
  /\ UNCHANGED <<coreVars, ownership, starting, connVars, peerVars, count>>

\* A record that another device wrote is downloaded, and indexed.
Download(r, writer) ==
  /\ r \notin indexed
  /\ r.kind = "ownership" => writer = r.of
  /\ \E p \in connected : AuthCore(writer) \in paired[p] \cap ready
  /\ Indexed(r)
  /\ UNCHANGED <<coreVars, log, ownership, starting, connVars, peerVars, count>>

\* The records CoreOwnership finds, once the own one is there (get, getAll).
OwnershipsOf(ds) == {d \in ds : Ownership(d) \in indexed}

\* Mutant: at the start no records are looked at.
GetAllNothing ==
  /\ starting /\ ownership = "done"
  /\ starting' = FALSE
  /\ UNCHANGED <<coreVars, log, ownership, indexed, connVars, peerVars, count, checks>>

\* At the start, all ownership records that are there are looked at.
GetAll ==
  /\ starting /\ ownership = "done"
  /\ starting' = FALSE
  /\ checks' = checks \cup {[of |-> d, awaits |-> "role"] : d \in OwnershipsOf(Others)}
  /\ UNCHANGED <<coreVars, log, ownership, indexed, connVars, peerVars, count>>

\* If there is no record the device is passed over.
GetOwnership(d) ==
  LET check == [of |-> d, awaits |-> "ownership"]
  IN /\ check \in checks /\ ownership = "done"
     /\ checks' = (checks \ {check}) \cup {[of |-> e, awaits |-> "role"] : e \in OwnershipsOf({d})}
     /\ UNCHANGED <<coreVars, log, ownership, indexed, starting, connVars, peerVars, count>>

\* getRole(): the creator has one without a record.
HasRole(d) == d = Creator \/ RoleOf(d) \in indexed

\* #validateRoleAndAddCoresForPeer().
ValidateRoleAndAddCores(d) ==
  LET check == [of |-> d, awaits |-> "role"]
  IN /\ check \in checks
     /\ checks' = checks \ {check}
     /\ AddCores({c \in Core : HasRole(d) /\ c.owner = d /\ c.namespace # "auth"})
     /\ UNCHANGED <<log, ownership, indexed, starting, connVars, count>>

-----------------------------------------------------------------------------
\* The constructor of CoreManager, over the table it finds.
Start(table) ==
  /\ known' = OwnCores \cup {CreatorCore} \cup table
  /\ ready' = {} /\ purged' = {} /\ deleting' = {} /\ checks' = {}
  /\ ownership' = "unknown" /\ starting' = TRUE
  /\ connected' = {} /\ keys' = {}
  /\ enabled' = Nothing({}) /\ replicating' = Nothing({}) /\ paired' = Nothing({})
  /\ disabling' = Nothing([c \in Core |-> 0])

Crash ==
  /\ Bounded("crashes", MaxCrashes)
  /\ Start(rows)
  /\ UNCHANGED <<rows, log, indexed>>

Init ==
  /\ known = OwnCores \cup {CreatorCore} /\ rows = {} /\ ready = {} /\ purged = {} /\ deleting = {}
  /\ log = <<>> /\ ownership = "unknown" /\ indexed = {} /\ checks = {} /\ starting = TRUE
  /\ connected = {} /\ keys = {}
  /\ enabled = Nothing({}) /\ replicating = Nothing({}) /\ paired = Nothing({})
  /\ disabling = Nothing([c \in Core |-> 0])
  /\ count = [disables |-> 0, crashes |-> 0, deletions |-> 0]

Next ==
  \/ WriteOwnership \/ GetAll \/ Crash
  \/ \E c \in Core : Ready(c)
  \/ \E d \in Others : AssignRole(d) \/ GetOwnership(d) \/ ValidateRoleAndAddCores(d)
  \/ \E r \in Records, w \in Others : Download(r, w)
  \/ \E ns \in Namespaces : DeleteOthersData(ns) \/ RemoveCores(ns)
  \/ \E p \in Others : HandlePeerAdd(p) \/ HandlePeerDisconnect(p) \/ HandleProjectMessage(p)
  \/ \E p \in Others, ns \in Namespaces : EnableNamespace(p, ns) \/ DisableNamespace(p, ns)
  \/ \E p \in Others, c \in Core : Unreplicate(p, c)

Spec == Init /\ [][Next]_vars

-----------------------------------------------------------------------------
(***************************************************************************)
(* Properties.                                                             *)
(***************************************************************************)
\* Every variable has its type.
TypeOK ==
  /\ known \subseteq Core /\ rows \subseteq known /\ ready \subseteq known /\ purged \subseteq known
  /\ deleting \subseteq Namespaces \ {"auth"}
  /\ log \in Seq(Records) /\ ownership \in {"unknown", "writing", "done"}
  /\ indexed \subseteq Records /\ checks \subseteq [of : Others, awaits : {"ownership", "role"}]
  /\ starting \in BOOLEAN
  /\ connected \subseteq Others /\ keys \subseteq connected
  /\ enabled \in [Others -> SUBSET Namespaces]
  /\ replicating \in [Others -> SUBSET Core] /\ paired \in [Others -> SUBSET Core]
  /\ disabling \in [Others -> [Core -> Nat]]
  /\ count \in [{"disables", "crashes", "deletions"} -> Nat]

\* The first record of a device's auth core is that of its ownership, and
\* there is no other of it, however the write, a crash and the roles that are
\* assigned meanwhile follow each other: after a restart it is written only if
\* the core is empty (#ownershipWriteDone, writeOwnership).
OwnershipIsFirst ==
  /\ log # <<>> => log[1] = Ownership(Me)
  /\ \A i \in 2 .. Len(log) : log[i] # Ownership(Me)

\* A core that this device knows is still known after a restart, one of the auth
\* namespace always and any other as long as no others' data was deleted, of
\* whichever namespace (addCore, coresTable).
KnownIsKept == [][Crash => \A c \in known \ known' : c.namespace # "auth" /\ count.deletions > 0]_vars

\* When nothing is awaited any more, the cores of every device are known whose
\* ownership and role are both indexed, in whichever order they were, and
\* whether or not the program ended before the cores were added
\* (#handleRoleUpdate, #handleCoreOwnershipUpdate, the constructor of SyncApi).
CoresAreAdded ==
  checks # {} \/ starting
    \/ \A d \in Others : {Ownership(d), RoleOf(d)} \subseteq indexed
                       => {c \in Core : c.owner = d /\ c.namespace # "auth"} \subseteq known

\* There is a channel to a peer for every core of the namespaces that are
\* enabled for it, and when no core is waited for, for no other but the
\* creator's: however often a namespace is switched while a core gets ready
\* or is learnt of (#replicatingCores, #unreplicateCoreRecord).
EnabledIsReplicated ==
  \A p \in connected :
    LET wanted == {c \in known : c.namespace \in enabled[p]} \ purged
    IN /\ wanted \subseteq paired[p]
       /\ (\A c \in Core : disabling[p][c] = 0) => paired[p] \subseteq wanted \cup {CreatorCore}
=============================================================================
