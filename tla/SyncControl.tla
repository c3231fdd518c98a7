------------------------------- MODULE SyncControl -------------------------------
(***************************************************************************)
(* What one device syncs with whom in one project: the SyncApi that the    *)
(* application starts and stops (src/src/sync/sync-api.js), a              *)
(* PeerSyncController per connected peer that turns namespaces on and off  *)
(* (src/src/sync/peer-sync-controller.js), and the sync state both act on, *)
(* which is cached per namespace and emitted with a throttle               *)
(* (sync-state.js, namespace-sync-state.js, core-sync-state.js).           *)
(*                                                                         *)
(* Of the cores of a namespace only this is kept: whether there are blocks *)
(* one side has and the other lacks, and how far the link is whose status  *)
(* the namespace shows, which is the link of its first core.  The remote   *)
(* side is the environment.  A definition commented as a mutant is part of *)
(* no specification (see Invites.tla).                                     *)
(***************************************************************************)
EXTENDS Integers, FiniteSets

CONSTANTS Peers,
          Ns,             \* the namespaces looked at
          Roles,          \* roles that peers get
          Autostops,      \* the timeouts set: TRUE a number, FALSE null
          OwnProject,     \* the first auth core is the project's creator core
          MaxBlocks,      \* bound on the blocks that are written
          MaxChurn        \* bound on connections made and links peers close

AllNs == {"auth", "config", "blobIndex", "data", "blob"}
Presync == Ns \cap {"auth", "config", "blobIndex"}
DataNs == Ns \ Presync

ASSUME SyncControlAssumption ==
  /\ "auth" \in Ns /\ Ns \subseteq AllNs
  /\ Roles \subseteq {"none", "member", "blocked", "left"}
  /\ Autostops \subseteq BOOLEAN /\ OwnProject \in BOOLEAN
  /\ MaxBlocks \in Nat /\ MaxChurn \in Nat

VARIABLES
  \* SyncApi
  wants,        \* wantsToSyncData
  fullStop,     \* hasRequestedFullStop
  autostop,     \* autostopDataSyncAfter is a number
  timer,        \* autostopDataSyncTimeout is set
  newData,      \* the data held differs from previousDataHave
  syncEnabled,  \* previousSyncEnabledState
  \* PeerSyncController
  cap,          \* the role whose sync capability is in use: unknown before one
                \* is read, failed if the last reading failed
  enabled,      \* enabledNamespaces
  synced,       \* the namespaces whose syncStatus is synced
  authRead,     \* prevLocalState.auth.have, -1 if null
  reads,        \* calls of getRole() under way
  \* the sync state
  connected, link, want, wanted,
  dirty,        \* namespaces whose state is not cached
  hidden,       \* peers left out of the cached state of a namespace
  due,          \* a 'state' event is to be emitted
  \* the project
  role,         \* the role this device has indexed for a peer
  authHave,     \* blocks held of auth
  blocks, churn

control == <<wants, fullStop, autostop, timer, newData, syncEnabled>>
peer == <<cap, enabled, synced, authRead, reads>>
view == <<dirty, hidden, due>>
world == <<connected, link, want, wanted, role, authHave, blocks, churn>>
vars == <<control, peer, view, world>>

\* The status 'starting' lasts until core.update() resolves, which it may do
\* after the link was closed.
Links == {"closed", "opening", "open", "closing", "ghost"}
Starting(l) == l = "opening"
Started(l) == l \in {"open", "ghost"}

\* The capability is 'unknown' in all namespaces.
Unknown == {"unknown", "failed"}

TypeOK ==
  /\ wants \in BOOLEAN /\ fullStop \in BOOLEAN /\ autostop \in BOOLEAN
  /\ timer \in BOOLEAN /\ newData \in BOOLEAN
  /\ syncEnabled \in {"none", "presync", "all"}
  /\ cap \in [Peers -> Roles \cup Unknown]
  /\ enabled \in [Peers -> SUBSET Ns] /\ synced \in [Peers -> SUBSET Ns]
  /\ authRead \in [Peers -> Int] /\ reads \in [Peers -> Nat]
  /\ connected \in SUBSET Peers
  /\ link \in [Peers -> [Ns -> Links]]
  /\ want \in [Peers -> SUBSET Ns] /\ wanted \in [Peers -> SUBSET Ns]
  /\ dirty \in SUBSET Ns /\ hidden \in [Ns -> SUBSET Peers] /\ due \in BOOLEAN
  /\ role \in [Peers -> Roles]
  /\ authHave \in Nat
  /\ blocks \in 0 .. MaxBlocks /\ churn \in 0 .. MaxChurn

Init ==
  /\ wants = FALSE /\ fullStop = FALSE /\ autostop = FALSE
  /\ timer = FALSE /\ newData = TRUE
  /\ syncEnabled = "none"
  /\ cap = [p \in Peers |-> "unknown"]
  /\ enabled = [p \in Peers |-> {}] /\ synced = [p \in Peers |-> {}]
  /\ authRead = [p \in Peers |-> -1] /\ reads = [p \in Peers |-> 0]
  /\ connected = {}
  /\ link = [p \in Peers |-> [ns \in Ns |-> "closed"]]
  /\ want = [p \in Peers |-> {}] /\ wanted = [p \in Peers |-> {}]
  /\ dirty = Ns /\ hidden = [ns \in Ns |-> {}] /\ due = FALSE
  /\ role \in [Peers -> Roles]
  /\ authHave = 1
  /\ blocks = 0 /\ churn = 0

-----------------------------------------------------------------------------
(***************************************************************************)
(* The sync state.                                                         *)
(***************************************************************************)
\* The namespaces that a role's sync capability blocks.
BlockedNs(r) ==
  {ns \in Ns : \/ r = "blocked"
               \/ r = "left" /\ ns # "auth"
               \/ r = "none" /\ ns \notin {"auth", "config"}}

BlockedPeers(ns) == {p \in connected : ns \in BlockedNs(cap[p])}

\* The peers in the state of a namespace: those that are not blocked, or were
\* not when the state was derived.
Shown(ns) == connected \ IF ns \in dirty THEN BlockedPeers(ns) ELSE hidden[ns]

\* getState() caches what it derives.
CacheState == /\ hidden' = [ns \in Ns |-> IF ns \in dirty THEN BlockedPeers(ns)
                                                          ELSE hidden[ns]]
              /\ dirty' = {}

\* The state of these namespaces changed: it is dropped, and an emission due.
Changed(S) == /\ dirty' = dirty \cup S
              /\ hidden' = [ns \in Ns |-> IF ns \in S THEN {} ELSE hidden[ns]]
              /\ due' = TRUE

\* Mutant: blocked peers are waited for.
IsSyncedWithAll(type, gone) ==
  \A ns \in IF type = "initial" THEN Presync ELSE Ns :
    /\ \A p \in Shown(ns) \ IF ns \in dirty THEN gone ELSE {} :
         ns \notin want[p] \cup wanted[p]
    /\ \A p \in connected \ gone :
         p \in Shown(ns) /\ ~Starting(link[p][ns])

\* isSynced() for a call that finds the peers in gone disconnected; a cached
\* state still has them.
IsSynced(type, gone) ==
  \A ns \in IF type = "initial" THEN Presync ELSE Ns :
    /\ \A p \in Shown(ns) \ IF ns \in dirty THEN gone ELSE {} :
         ns \notin want[p] \cup wanted[p]
    /\ \A p \in connected \ gone :
         \/ ns \in BlockedNs(cap[p])
         \/ p \in Shown(ns) /\ ~Starting(link[p][ns])

\* getRemoteDevicesSyncState() for a peer: of its namespaces that are not
\* blocked, presync and data, whether all are on and either side wants blocks.
RemoteDeviceSyncState(p) ==
  LET shown == {ns \in Ns \ BlockedNs(cap[p]) : p \in Shown(ns)}
      group(S) == [isSyncEnabled |-> S \cap shown # {} /\ \A ns \in S \cap shown : Started(link[p][ns]),
                   want          |-> S \cap shown \cap want[p] # {},
                   wanted        |-> S \cap shown \cap wanted[p] # {}]
  IN [initial |-> group(Presync), data |-> group(DataNs)]

\* #getState(), which the application is told of.
GetState ==
  [initial |-> syncEnabled # "none", data |-> syncEnabled = "all",
   remoteDeviceSyncState |-> [p \in connected |-> RemoteDeviceSyncState(p)]]

\* updateEnabledNamespaces(): data that is enabled stays so while presync
\* namespaces are syncing again.
NewEnabled(en, c, sy, state) ==
  {ns \in Ns :
     /\ state # "none"
     /\ ns \notin BlockedNs(c)
     /\ c \in Unknown => ns = "auth"
     /\ \/ ns \in Presync
        \/ state = "all" /\ (Presync \subseteq sy \/ ns \in en)}

\* Mutant: sync that has stopped is started again.
EnabledStateAgain(w, stop, isSynced) ==
  IF stop /\ isSynced THEN "none" ELSE IF w THEN "all" ELSE "presync"

\* The table of #updateState(): what is enabled given whether to sync data
\* and to stop, and if all is synced.
EnabledState(w, stop, isSynced) ==
  IF stop /\ (syncEnabled = "none" \/ isSynced) THEN "none"
  ELSE IF w THEN "all" ELSE "presync"

Type(w) == IF w THEN "full" ELSE "initial"

\* #updateState(), with the timeout that is running, if one is.
UpdateState(w, stop, auto, running, isSynced) ==
  /\ syncEnabled' = EnabledState(w, stop, isSynced)
  /\ timer' = (w /\ ~stop /\ isSynced /\ (auto \/ (running /\ ~newData)))
  /\ newData' = FALSE

\* setSyncEnabledState(), which returns early if nothing changed.
Reenabled(p) == IF syncEnabled' # syncEnabled
                  THEN NewEnabled(enabled[p], cap[p], synced[p], syncEnabled')
                  ELSE enabled[p]

-----------------------------------------------------------------------------
(***************************************************************************)
(* What the application calls.                                             *)
(***************************************************************************)
Call(w, stop, auto, running) ==
  /\ wants' = w /\ fullStop' = stop /\ autostop' = auto
  /\ UpdateState(w, stop, auto, running, IsSynced(Type(w), {}))
  /\ enabled' = [p \in Peers |-> IF p \in connected THEN Reenabled(p) ELSE {}]
  /\ CacheState
  /\ UNCHANGED <<cap, synced, authRead, reads, due, world>>

Start == Call(TRUE, fullStop, autostop, timer)
\* start({ autostopDataSyncAfter }), with a number or null
StartWith(auto) == Call(TRUE, fullStop, auto, FALSE)
SetAutostopDataSyncTimeout(auto) == Call(wants, fullStop, auto, FALSE)
Stop == Call(FALSE, fullStop, autostop, timer)
RequestFullStop == Call(wants, TRUE, autostop, timer)
RescindFullStopRequest == Call(wants, FALSE, autostop, timer)

\* The timeout passes; it counts as stop().
AutostopDataSync == timer /\ Call(FALSE, fullStop, autostop, timer)

-----------------------------------------------------------------------------
(***************************************************************************)
(* Peers come and go.  A new peer is known to have nothing, so it wants    *)
(* all there is, of auth at least: no state is synced then.                *)
(***************************************************************************)
HandlePeerAdd(p) ==
  /\ p \notin connected
  /\ churn < MaxChurn
  /\ churn' = churn + 1
  /\ connected' = connected \cup {p}
  /\ \E S \in SUBSET (Ns \ {"auth"}) : want' = [want EXCEPT ![p] = S \cup {"auth"}]
  /\ link' = [link EXCEPT ![p]["auth"] = IF OwnProject THEN "opening" ELSE "closed"]
  /\ UpdateState(wants, fullStop, autostop, timer, FALSE)
  /\ enabled' = [q \in Peers |->
                   IF q = p THEN NewEnabled({}, "unknown", {}, syncEnabled')
                   ELSE IF q \in connected THEN Reenabled(q) ELSE {}]
  /\ Changed(Ns)
  /\ UNCHANGED <<wants, fullStop, autostop, cap, synced, authRead, reads,
                 wanted, role, authHave, blocks>>

HandlePeerDisconnect(p) ==
  /\ p \in connected
  /\ connected' = connected \ {p}
  /\ UpdateState(wants, fullStop, autostop, timer, IsSynced(Type(wants), {p}))
  /\ enabled' = [q \in Peers |->
                   IF q \in connected \ {p} THEN Reenabled(q) ELSE {}]
  /\ cap' = [cap EXCEPT ![p] = "unknown"]
  /\ synced' = [synced EXCEPT ![p] = {}]
  /\ authRead' = [authRead EXCEPT ![p] = -1]
  /\ reads' = [reads EXCEPT ![p] = 0]
  /\ link' = [link EXCEPT ![p] = [ns \in Ns |-> "closed"]]
  /\ want' = [want EXCEPT ![p] = {}]
  /\ wanted' = [wanted EXCEPT ![p] = {}]
  /\ Changed(Ns)
  /\ UNCHANGED <<wants, fullStop, autostop, role, authHave, blocks, churn>>

-----------------------------------------------------------------------------
(***************************************************************************)
(* A 'state' event: SyncApi acts on it first, with what the peers' sync    *)
(* status was before, then each PeerSyncController.                        *)
(***************************************************************************)
\* getSyncStatus(): nothing is wanted of any peer, and this one has started.
NewSynced(p) ==
  {ns \in Ns : /\ p \in Shown(ns) /\ Started(link[p][ns])
               /\ \A q \in Shown(ns) : ns \notin wanted[q]}

\* Mutant: the first time counts as no update.
DidUpdateAuthAgain(p) == /\ "auth" \in NewSynced(p) \ synced[p]
                         /\ authRead[p] \notin {-1, authHave}

\* didUpdate.auth: auth is synced again, and has more blocks than when it
\* last was.
DidUpdateAuth(p) == /\ "auth" \in NewSynced(p) \ synced[p]
                    /\ authRead[p] # authHave

HandleStateChange ==
  /\ due /\ due' = FALSE
  /\ UpdateState(wants, fullStop, autostop, timer, IsSynced(Type(wants), {}))
  /\ LET readers == {p \in connected : DidUpdateAuth(p)}
     IN  /\ synced' = [p \in Peers |-> IF p \in connected THEN NewSynced(p) ELSE {}]
         /\ authRead' = [p \in Peers |-> IF p \in readers THEN authHave ELSE authRead[p]]
         /\ reads' = [p \in Peers |-> IF p \in readers THEN reads[p] + 1 ELSE reads[p]]
         /\ enabled' = [p \in Peers |->
                          IF p \notin connected THEN {}
                          ELSE IF p \in readers THEN Reenabled(p)
                          ELSE NewEnabled(Reenabled(p), cap[p], NewSynced(p),
                                          syncEnabled')]
  /\ CacheState
  /\ UNCHANGED <<wants, fullStop, autostop, cap, world>>

\* Mutant: the namespaces stay as they are.
ReadRoleOnly(p) ==
  /\ reads[p] > 0
  /\ reads' = [reads EXCEPT ![p] = @ - 1]
  /\ \E c \in {role[p], "failed"} : cap' = [cap EXCEPT ![p] = c]
  /\ UNCHANGED <<control, enabled, synced, authRead, view, world>>

\* getRole() resolves, waiting for the index, so it knows of all the blocks
\* that are held by then; or it rejects: neither a role nor the ownership of
\* p's cores is indexed, or a read fails.
ReadRole(p) ==
  /\ reads[p] > 0
  /\ reads' = [reads EXCEPT ![p] = @ - 1]
  /\ \E c \in {role[p], "failed"} :
       /\ cap' = [cap EXCEPT ![p] = c]
       /\ enabled' = [enabled EXCEPT
                        ![p] = NewEnabled(@, c, synced[p], syncEnabled)]
  /\ UNCHANGED <<control, synced, authRead, view, world>>

-----------------------------------------------------------------------------
(***************************************************************************)
(* Replication.  The creator core is replicated whatever is enabled.       *)
(***************************************************************************)
SetLink(p, ns, l) == /\ link' = [link EXCEPT ![p][ns] = l]
                     /\ Changed({ns})

OpenLink(p, ns) ==
  /\ ns \in enabled[p]
  /\ link[p][ns] \in {"closed", "closing", "ghost"}
  /\ SetLink(p, ns, "opening")
  /\ UNCHANGED <<control, peer, connected, want, wanted, role, authHave, blocks,
                 churn>>

Close(p, ns) ==
  /\ \/ link[p][ns] = "opening" /\ SetLink(p, ns, "closing")
     \/ link[p][ns] = "open" /\ SetLink(p, ns, "closed")
  /\ UNCHANGED <<control, peer, connected, want, wanted, role, authHave, blocks>>

CloseLink(p, ns) == /\ ns \notin enabled[p]
                    /\ ~ (OwnProject /\ ns = "auth")
                    /\ Close(p, ns)
                    /\ UNCHANGED churn

RemoteCloses(p, ns) == /\ ~ (OwnProject /\ ns = "auth")
                       /\ churn < MaxChurn
                       /\ churn' = churn + 1
                       /\ Close(p, ns)

\* core.update() resolves.
Updated(p, ns) ==
  /\ \/ link[p][ns] = "opening" /\ SetLink(p, ns, "open")
     \/ link[p][ns] = "closing" /\ SetLink(p, ns, "ghost")
  /\ UNCHANGED <<control, peer, connected, want, wanted, role, authHave, blocks,
                 churn>>

\* The device has another block of a namespace.
Has(ns) == /\ newData' = (newData \/ ns \in DataNs)
           /\ authHave' = IF ns = "auth" THEN authHave + 1 ELSE authHave
           /\ \/ UNCHANGED role
              \/ /\ ns = "auth"
                 /\ \E q \in Peers, r \in Roles : role' = [role EXCEPT ![q] = r]
           /\ Changed({ns})
           /\ UNCHANGED <<wants, fullStop, autostop, timer, syncEnabled, peer,
                          connected, churn>>

\* It writes the block itself.
Write(ns) ==
  /\ blocks < MaxBlocks
  /\ blocks' = blocks + 1
  /\ want' = [p \in Peers |-> IF p \in connected THEN want[p] \cup {ns} ELSE want[p]]
  /\ Has(ns)
  /\ UNCHANGED <<link, wanted>>

\* A peer tells of blocks it has, of a core that is new to the device even.
RemoteHas(p, ns) ==
  /\ p \in connected
  /\ ns \notin wanted[p]
  /\ blocks < MaxBlocks
  /\ blocks' = blocks + 1
  /\ wanted' = [wanted EXCEPT ![p] = @ \cup {ns}]
  /\ \/ UNCHANGED link
     \/ link[p][ns] = "open" /\ link' = [link EXCEPT ![p][ns] = "opening"]
  /\ Changed({ns})
  /\ UNCHANGED <<control, peer, connected, want, role, authHave, churn>>

\* The device gets the blocks it wants of p, which are all it wanted of the
\* peers in S; the other peers lack them.
Download(p, ns, S) ==
  /\ p \in S /\ \A q \in S : ns \in wanted[q]
  /\ link[p][ns] \in {"opening", "open"} \/ ns = "auth"
  /\ wanted' = [q \in Peers |-> IF q \in S THEN wanted[q] \ {ns} ELSE wanted[q]]
  /\ want' = [q \in Peers |-> IF q \in connected \ S THEN want[q] \cup {ns}
                                                     ELSE want[q]]
  /\ Has(ns)
  /\ UNCHANGED <<link, blocks>>

\* The peer has all that this device has, from here or elsewhere.
Upload(p, ns) ==
  /\ ns \in want[p]
  /\ want' = [want EXCEPT ![p] = @ \ {ns}]
  /\ Changed({ns})
  /\ UNCHANGED <<control, peer, connected, link, wanted, role, authHave, blocks,
                 churn>>

-----------------------------------------------------------------------------
Application == \/ Start \/ Stop \/ RequestFullStop \/ RescindFullStopRequest
               \/ \E auto \in Autostops : StartWith(auto) \/ SetAutostopDataSyncTimeout(auto)

Link(p, ns) == \/ OpenLink(p, ns) \/ CloseLink(p, ns) \/ Updated(p, ns)
               \/ RemoteCloses(p, ns)
               \/ RemoteHas(p, ns)
               \/ \E S \in SUBSET Peers : Download(p, ns, S)
               \/ Upload(p, ns)

Transfer(p, ns) == /\ link[p][ns] = "open"
                   /\ \/ \E S \in SUBSET Peers : Download(p, ns, S)
                      \/ Upload(p, ns)

Next == \/ Application
        \/ AutostopDataSync
        \/ HandleStateChange
        \/ \E ns \in Ns : Write(ns)
        \/ \E p \in Peers : \/ HandlePeerAdd(p)
                            \/ HandlePeerDisconnect(p)
                            \/ ReadRole(p)
                            \/ \E ns \in Ns : Link(p, ns)

Spec == Init /\ [][Next]_vars

\* Events are emitted, getRole() and core.update() resolve, what is turned
\* off is closed; and a peer that goes on taking part is one whose links open
\* and carry what is wanted as long as they are on.
Fairness ==
  /\ WF_vars(HandleStateChange)
  /\ \A p \in Peers :
       /\ WF_vars(ReadRole(p))
       /\ \A ns \in Ns :
            /\ WF_vars(OpenLink(p, ns) \/ CloseLink(p, ns) \/ Updated(p, ns))
            /\ WF_vars(Transfer(p, ns))

FairSpec == Spec /\ Fairness

-----------------------------------------------------------------------------
(***************************************************************************)
(* Properties.                                                             *)
(***************************************************************************)
\* A namespace is on for a peer only as far as the role last read of it and
\* the state of SyncApi allow, whatever events, calls and readings of roles
\* overlap and fail: with sync stopped nothing is on, nothing but auth before a
\* role was read and after a reading failed, without data sync no data.
EnabledIsAllowed ==
  \A p \in Peers :
    /\ enabled[p] \cap BlockedNs(cap[p]) = {}
    /\ cap[p] \in Unknown => enabled[p] \subseteq {"auth"}
    /\ syncEnabled = "none" \/ p \notin connected => enabled[p] = {}
    /\ syncEnabled # "all" => enabled[p] \subseteq Presync

\* The column "Timeout" of the table in sync-api.js: a timeout runs only while
\* data is to be synced, no full stop is asked for and autostop is set.
TimerIsDue == timer => wants /\ ~fullStop /\ autostop /\ syncEnabled = "all"

\* "If the app is backgrounded and sync has already completed, this will do
\* nothing until the app is foregrounded": whatever the application calls and
\* whoever connects, a full stop ends by being rescinded only.
FullStopLasts ==
  [][fullStop /\ fullStop' /\ syncEnabled = "none" => syncEnabled' = "none"]_vars

\* A capability read after a state was cached: the peer is in the state though
\* it is blocked, or the other way round.
StaleState == \E ns \in Ns \ dirty : hidden[ns] # BlockedPeers(ns)

\* The last reading of a connected peer's role failed while one side lacks
\* blocks: nothing but auth is on, but all namespaces are waited for.
LeftUnknown ==
  \E p \in connected : /\ cap[p] = "failed"
                       /\ (want[p] \cup wanted[p]) \ {"auth"} # {}

\* A full stop that is asked for comes, once what there is to sync has been:
\* unless the cached state shows a peer that is blocked by now, or a failed
\* reading keeps from a peer what the stop waits for.
FullStopComes ==
  fullStop ~> ~fullStop \/ syncEnabled = "none" \/ StaleState \/ LeftUnknown

\* With data sync on, a peer whose capability allows it gets to sync data,
\* unless the last reading of its role failed: its role is read, presync is seen
\* to be done, its links open, and the state the application reads says so.
DataIsEnabled ==
  \A p \in Peers :
    p \in connected /\ syncEnabled = "all"
      ~> \/ p \notin connected \/ ~ GetState.data
         \/ GetState.remoteDeviceSyncState[p].data.isSyncEnabled
         \/ cap[p] = "failed" \/ DataNs \cap BlockedNs(cap[p]) # {}

=============================================================================
