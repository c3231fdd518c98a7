------------------------------- MODULE SyncState -------------------------------
(***************************************************************************)
(* What one device knows of the blocks its peers have, in one namespace of *)
(* a project (core-sync-state.js and namespace-sync-state.js), and the     *)
(* 'have' messages it learns that from (core-manager/index.js).            *)
(*                                                                         *)
(* A peer tells of the blocks it has of every core when it connects, before*)
(* any core is replicated ("pre-haves"), and again what it adds to its own *)
(* core or clears in it.  From that, from the bitfields of the peers a core*)
(* is replicated with, and from its own blocks, the device derives how many*)
(* blocks are still to be synced, and keeps the result until it hears of a *)
(* change.                                                                 *)
(*                                                                         *)
(* Words of bits and the sums over them are sets and their cardinality.    *)
(* External are the cores, hypercore's replication of them and its         *)
(* bitfields, and the transport, which keeps messages in order and loses   *)
(* them only with the connection.                                          *)
(***************************************************************************)
EXTENDS Bitfields

CONSTANTS Others,     \* the other devices
          Cores,      \* the cores of the namespace
          Local,      \* this device
          Writer,     \* the device that writes a core
          FirstStore, \* what they have of the cores at first
          MaxLength,  \* bound: the length of a core
          MaxConnections, \* bound: connections, and replications of a core with a peer
          MaxChanges, \* bound: changes to what devices have and may sync
          None

\* What a device has of a core.
Stores == {s \in [blocks : SUBSET Nat, length : 0 .. MaxLength] : s.blocks \subseteq 0 .. s.length - 1}

ASSUME SyncStateAssumption ==
  /\ Local \notin Others
  /\ Writer \in [Cores -> Others \cup {Local}]
  /\ IsFiniteSet(Cores) /\ MaxLength \in Nat
  /\ FirstStore \in [Others \cup {Local} -> [Cores -> Stores]]

VARIABLES
  store,          \* the blocks a device has of a core, and the length it knows
  online,         \* the peers there is a connection to
  toSend,         \* the cores of which a peer is about to send what it has
  channel,        \* its messages that are on the way
  attached,       \* the cores there is an instance of
  opened,         \* those among them that are ready
  order,          \* the cores there is a state of, as they were added
  preHavesLength, \* the length of a core according to the messages
  peerStates,     \* of each core, the state of the peers there is one of
  corePeers,      \* of each core, the peers it is replicated with
  blocked,        \* the peers that may not sync the namespace
  ticking,        \* a change is about to be announced, and the cache dropped
  cached,         \* the cached state or None, and what it was derived from
  changes         \* counts what is bounded

cores == <<attached, opened, order, preHavesLength, peerStates, corePeers>>
transport == <<online, toSend, channel>>
stateVars == <<store, transport, cores, blocked, ticking, cached, changes>>

Statuses == {"stopped", "starting", "started"}
BytesPerPage == BitsPerPage \div BitsPerByte
IsPeerState(s) ==
  /\ s = [preHaves |-> s.preHaves, haves |-> s.haves, status |-> s.status, updating |-> s.updating]
  /\ IsBitfield(s.preHaves) /\ s.haves \subseteq Nat
  /\ s.status \in Statuses /\ s.updating \in Nat

NewPeerState == [preHaves |-> NewBitfield, haves |-> {}, status |-> "stopped", updating |-> 0]

\* The states of a core's peers with p's state set to s.
With(c, p, s) == [q \in DOMAIN peerStates[c] \cup {p} |-> IF q = p THEN s ELSE peerStates[c][q]]
Without(c, p) == [q \in DOMAIN peerStates[c] \ {p} |-> peerStates[c][q]]
PeerStateOf(c, p) == IF p \in DOMAIN peerStates[c] THEN peerStates[c][p] ELSE NewPeerState

Known == Range(order)

StateInit ==
  /\ store = FirstStore
  /\ online = {} /\ blocked = {}
  /\ changes = [connections |-> 0, changes |-> 0]
  /\ toSend = [p \in Others |-> <<>>]
  /\ channel = [p \in Others |-> <<>>]
  /\ attached = {c \in Cores : Writer[c] = Local}
  /\ opened = {}
  /\ order = SetToSeq(attached)
  /\ preHavesLength = [c \in Cores |-> 0]
  /\ peerStates = [c \in Cores |-> <<>>]
  /\ corePeers = [c \in Cores |-> {}]
  /\ ticking = FALSE
  /\ cached = None

Bounded(what, bound) == /\ changes[what] < bound
                        /\ changes' = [changes EXCEPT ![what] = @ + 1]

-----------------------------------------------------------------------------
(***************************************************************************)
(* The state that is derived.                                              *)
(***************************************************************************)
LocalLength(c) == IF c \in opened THEN store[Local][c].length ELSE 0
CoreLength(c) == Max({LocalLength(c), preHavesLength[c]})

LocalHaves(c) == IF c \in opened THEN store[Local][c].blocks \cap 0 .. CoreLength(c) - 1 ELSE {}
PeerHaves(c, p) == (BitsOf(peerStates[c][p].preHaves) \cup peerStates[c][p].haves)
                     \cap 0 .. CoreLength(c) - 1

Visible(c, hidden) == DOMAIN peerStates[c] \ hidden

DeriveState(c, hidden) ==
  LET wants(p) == LocalHaves(c) \ PeerHaves(c, p)
      wanted(p) == PeerHaves(c, p) \ LocalHaves(c)
  IN [localState |-> [have |-> Cardinality(LocalHaves(c)),
                      want |-> Cardinality(UNION {wanted(p) : p \in Visible(c, hidden)}),
                      wanted |-> Cardinality(UNION {wants(p) : p \in Visible(c, hidden)})],
      remoteStates |-> [p \in Visible(c, hidden) |->
        [have |-> Cardinality(PeerHaves(c, p)), want |-> Cardinality(wants(p)),
         wanted |-> Cardinality(wanted(p)), status |-> peerStates[c][p].status]]]

AddCounts(a, b) == [a EXCEPT !.have = @ + b.have, !.want = @ + b.want, !.wanted = @ + b.wanted]

\* The comparison in place of an assignment: 'stopped' changes nothing.
MutatingAddPeerState(a, b) ==
  [AddCounts(a, b) EXCEPT !.status = IF b.status = "starting" /\ @ = "started" THEN "starting" ELSE @]

AddCoreState(state, new) ==
  LET before == DOMAIN state.remoteStates
  IN [localState |-> AddCounts(state.localState, new.localState),
      remoteStates |-> [p \in before \cup DOMAIN new.remoteStates |->
        IF p \notin before THEN new.remoteStates[p]
        ELSE IF p \notin DOMAIN new.remoteStates THEN state.remoteStates[p]
        ELSE MutatingAddPeerState(state.remoteStates[p], new.remoteStates[p])]]

NoState == [localState |-> [have |-> 0, want |-> 0, wanted |-> 0], remoteStates |-> <<>>]

Summed(states) ==
  LET upTo[i \in 0 .. Len(states)] ==
        IF i = 0 THEN NoState ELSE AddCoreState(upTo[i - 1], states[i])
  IN upTo[Len(states)]

\* The state of the namespace if the peers in hidden may not sync it.
DerivedWithout(hidden) ==
  LET sum == Summed([i \in 1 .. Len(order) |-> DeriveState(order[i], hidden)])
  IN [localState |-> sum.localState,
      remoteStates |-> sum.remoteStates,
      coreCount |-> Cardinality(attached),
      dataToSync |-> sum.localState.want > 0 \/ sum.localState.wanted > 0]

Derived == DerivedWithout(blocked)

GetNamespaceState ==
  /\ cached = None
  /\ cached' = [state |-> Derived, attached |-> attached, opened |-> opened, blocked |-> blocked]
  /\ UNCHANGED <<store, transport, cores, blocked, ticking, changes>>

\* #update() and the handler it puts off to the next tick.
Update == ticking' = TRUE

HandleUpdate ==
  /\ ticking
  /\ ticking' = FALSE
  /\ cached' = None
  /\ UNCHANGED <<store, transport, cores, blocked, changes>>

-----------------------------------------------------------------------------
(***************************************************************************)
(* Others and their messages.                                               *)
(***************************************************************************)
AddPeer(p) ==
  LET new == {c \in Known : p \notin DOMAIN peerStates[c]}
  IN /\ peerStates' = [c \in Cores |-> IF c \in new THEN With(c, p, NewPeerState) ELSE peerStates[c]]
     /\ ticking' = (ticking \/ new # {})

\* The peer is about to send what it has of every core.
Connect(p) ==
  /\ p \notin online
  /\ Bounded("connections", MaxConnections)
  /\ online' = online \cup {p}
  /\ toSend' = [toSend EXCEPT ![p] = SetToSeq(Cores)]
  /\ AddPeer(p)
  /\ UNCHANGED <<store, channel, attached, opened, order, preHavesLength, corePeers, blocked, cached>>

\* The bits of page i of a set of blocks, and the bytes of a page.
PageBits(blocks, i) == {k \in 0 .. BitsPerPage - 1 : i * BitsPerPage + k \in blocks}

ByteOf(bits, k) ==
  LET sum[j \in 0 .. BitsPerByte] ==
        IF j = 0 THEN 0
        ELSE sum[j - 1] + (IF k * BitsPerByte + j - 1 \in bits THEN Power[j - 1] ELSE 0)
  IN sum[BitsPerByte]

BytesOf(bits) == [k \in 1 .. BytesPerPage |-> ByteOf(bits, k - 1)]

HaveMessage == [core : Cores, start : Nat,
                tokens : {Encode(BytesOf(bits)) : bits \in SUBSET (0 .. BitsPerPage - 1)}]

Message(c, blocks, i) ==
  [core |-> c, start |-> i * BitsPerPage, tokens |-> Encode(BytesOf(PageBits(blocks, i)))]

PagesOf(s) == (s.length + BitsPerPage - 1) \div BitsPerPage

\* #sendHaves() of the peer, for one core.
SendHaves(p) ==
  /\ toSend[p] # <<>>
  /\ toSend' = [toSend EXCEPT ![p] = Tail(@)]
  /\ LET c == Head(toSend[p])
         s == store[p][c]
     IN channel' = [channel EXCEPT ![p] =
                      @ \o [k \in 1 .. PagesOf(s) |-> Message(c, s.blocks, k - 1)]]
  /\ UNCHANGED <<store, online, cores, blocked, ticking, cached, changes>>

InsertPreHaves(c, p, start, bytes) ==
  LET s == PeerStateOf(c, p)
      bits == Insert(s.preHaves, start, bytes)
      last == LastSet(bits, start + Len(bytes) * BitsPerByte)
  IN /\ peerStates' = [peerStates EXCEPT ![c] = With(c, p, [s EXCEPT !.preHaves = bits])]
     /\ preHavesLength' = [preHavesLength EXCEPT ![c] = Max({@, last + 1})]

AddState(c) == order' = IF c \in Known THEN order ELSE Append(order, c)

HandleHaveMessage(p) ==
  /\ channel[p] # <<>>
  /\ channel' = [channel EXCEPT ![p] = Tail(@)]
  /\ LET m == Head(channel[p])
     IN AddState(m.core) /\ InsertPreHaves(m.core, p, m.start, Decode(m.tokens))
  /\ Update
  /\ UNCHANGED <<store, online, toSend, attached, opened, corePeers, blocked, cached, changes>>

\* The connection closes: the cores lose the peer, then its states go.
DisconnectPeer(p) ==
  /\ p \in online
  /\ online' = online \ {p}
  /\ toSend' = [toSend EXCEPT ![p] = <<>>]
  /\ channel' = [channel EXCEPT ![p] = <<>>]
  /\ corePeers' = [c \in Cores |-> corePeers[c] \ {p}]
  /\ peerStates' = [c \in Cores |-> Without(c, p)]
  /\ ticking' = (ticking \/ \E c \in Cores : p \in DOMAIN peerStates[c])
  /\ UNCHANGED <<store, attached, opened, order, preHavesLength, blocked, cached, changes>>

\* A role changes what a peer may sync; nothing here hears of it.
SetCapability(p) ==
  /\ Bounded("changes", MaxChanges)
  /\ blocked' = IF p \in blocked THEN blocked \ {p} ELSE blocked \cup {p}
  /\ UNCHANGED <<store, transport, cores, ticking, cached>>

-----------------------------------------------------------------------------
(***************************************************************************)
(* A core and the peers it is replicated with.                             *)
(***************************************************************************)
\* The key of a core is learnt; it has no peers yet.  Nothing is announced.
AttachCore(c) ==
  /\ c \notin attached
  /\ attached' = attached \cup {c}
  /\ AddState(c)
  /\ UNCHANGED <<store, transport, opened, preHavesLength, peerStates, corePeers, blocked, ticking,
                 cached, changes>>

\* Nor when its own bitfield is there.
Ready(c) ==
  /\ c \in attached \ opened
  /\ opened' = opened \cup {c}
  /\ UNCHANGED <<store, transport, attached, order, preHavesLength, peerStates, corePeers, blocked,
                 ticking, cached, changes>>

OnPeerAdd(c, p) ==
  /\ c \in opened /\ p \in online \ corePeers[c]
  /\ Bounded("connections", MaxConnections)
  /\ corePeers' = [corePeers EXCEPT ![c] = @ \cup {p}]
  /\ LET s == PeerStateOf(c, p)
     IN peerStates' = [peerStates EXCEPT ![c] =
          With(c, p, [s EXCEPT !.status = "starting", !.updating = @ + 1, !.haves = {}])]
  /\ Update
  /\ UNCHANGED <<store, transport, attached, opened, order, preHavesLength, blocked, cached>>

\* core.update() is over, even of a peer that was removed meanwhile.
CoreUpdated(c, p) ==
  /\ p \in DOMAIN peerStates[c]
  /\ peerStates[c][p].updating > 0
  /\ peerStates' = [peerStates EXCEPT ![c][p].updating = @ - 1, ![c][p].status = "started"]
  /\ Update
  /\ UNCHANGED <<store, transport, attached, opened, order, preHavesLength, corePeers, blocked, cached,
                 changes>>

\* A bitfield or a range of a peer arrives.
OnBitfield(c, p) ==
  /\ p \in corePeers[c]
  /\ peerStates[c][p].haves # store[p][c].blocks
  /\ peerStates' = [peerStates EXCEPT ![c][p].haves = store[p][c].blocks]
  /\ Update
  /\ UNCHANGED <<store, transport, attached, opened, order, preHavesLength, corePeers, blocked, cached,
                 changes>>

OnPeerRemove(c, p) ==
  /\ p \in corePeers[c]
  /\ corePeers' = [corePeers EXCEPT ![c] = @ \ {p}]
  /\ peerStates' = [peerStates EXCEPT ![c][p].status = "stopped"]
  /\ Update
  /\ UNCHANGED <<store, transport, attached, opened, order, preHavesLength, blocked, cached, changes>>

\* 'append': the length of a core grows to what a peer has ...
Upgrade(c, p) ==
  /\ p \in corePeers[c]
  /\ store[p][c].length > store[Local][c].length
  /\ store' = [store EXCEPT ![Local][c].length = store[p][c].length]
  /\ Update
  /\ UNCHANGED <<transport, cores, blocked, cached, changes>>

\* Mutant: 'download' is not listened to.
OnDownloadUnheard(c, p, b) ==
  /\ p \in corePeers[c]
  /\ b \in (peerStates[c][p].haves \cap 0 .. store[Local][c].length - 1) \ store[Local][c].blocks
  /\ store' = [store EXCEPT ![Local][c].blocks = @ \cup {b}]
  /\ UNCHANGED <<transport, cores, blocked, cached, changes, ticking>>

\* ... and 'download': a block arrives.
OnDownload(c, p, b) ==
  /\ p \in corePeers[c]
  /\ b \in (peerStates[c][p].haves \cap 0 .. store[Local][c].length - 1) \ store[Local][c].blocks
  /\ store' = [store EXCEPT ![Local][c].blocks = @ \cup {b}]
  /\ Update
  /\ UNCHANGED <<transport, cores, blocked, cached, changes>>

-----------------------------------------------------------------------------
(***************************************************************************)
(* What the devices do to their cores.                                     *)
(***************************************************************************)
Appended(s) == [blocks |-> s.blocks \cup {s.length}, length |-> s.length + 1]

OnAppend(c) ==
  /\ Writer[c] = Local /\ c \in opened
  /\ store[Local][c].length < MaxLength
  /\ Bounded("changes", MaxChanges)
  /\ store' = [store EXCEPT ![Local][c] = Appended(@)]
  /\ Update
  /\ UNCHANGED <<transport, cores, blocked, cached>>

\* Mutant: what a peer adds to its core it does not tell.
ResendNothing(p, c) == UNCHANGED toSend

\* The writer of a core tells the peers it is connected to, a little later.
Resend(p, c) == toSend' = IF p \in online /\ c \notin Range(toSend[p])
                           THEN [toSend EXCEPT ![p] = Append(@, c)] ELSE toSend

PeerAppends(p, c) ==
  /\ Writer[c] = p
  /\ store[p][c].length < MaxLength
  /\ Bounded("changes", MaxChanges)
  /\ store' = [store EXCEPT ![p][c] = Appended(@)]
  /\ Resend(p, c)
  /\ UNCHANGED <<online, channel, cores, blocked, ticking, cached>>

PeerClears(p, c, b) ==
  /\ Writer[c] = p
  /\ b \in store[p][c].blocks
  /\ Bounded("changes", MaxChanges)
  /\ store' = [store EXCEPT ![p][c].blocks = @ \ {b}]
  /\ Resend(p, c)
  /\ UNCHANGED <<online, channel, cores, blocked, ticking, cached>>

\* A peer gets a block of another device; it tells only those it syncs with.
PeerGets(p, c, b) ==
  /\ Writer[c] # p
  /\ b \in store[Writer[c]][c].blocks \ store[p][c].blocks
  /\ Bounded("changes", MaxChanges)
  /\ store' = [store EXCEPT ![p][c] = [blocks |-> @.blocks \cup {b}, length |-> Max({@.length, b + 1})]]
  /\ UNCHANGED <<transport, cores, blocked, ticking, cached>>

StateNext ==
  \/ GetNamespaceState \/ HandleUpdate
  \/ \E p \in Others : \/ Connect(p) \/ SendHaves(p) \/ HandleHaveMessage(p) \/ DisconnectPeer(p)
                       \/ SetCapability(p)
  \/ \E c \in Cores : AttachCore(c) \/ Ready(c) \/ OnAppend(c)
  \/ \E c \in Cores, p \in Others :
       \/ OnPeerAdd(c, p) \/ CoreUpdated(c, p) \/ OnBitfield(c, p)
       \/ OnPeerRemove(c, p) \/ Upgrade(c, p) \/ PeerAppends(p, c)
  \/ \E c \in Cores, p \in Others, b \in 0 .. MaxLength - 1 :
       OnDownload(c, p, b) \/ PeerClears(p, c, b) \/ PeerGets(p, c, b)

StateSpec == StateInit /\ [][StateNext]_stateVars

-----------------------------------------------------------------------------
(***************************************************************************)
(* Properties.                                                             *)
(***************************************************************************)
\* Every variable has its type; a core has states only of connected peers, is
\* replicated only with such peers, and there is a state of every core that is
\* attached, or that a peer told of.
StateTypeOK ==
  /\ store \in [Others \cup {Local} -> [Cores -> Stores]]
  /\ online \subseteq Others /\ blocked \subseteq Others
  /\ toSend \in [Others -> Seq(Cores)] /\ channel \in [Others -> Seq(HaveMessage)]
  /\ \A p \in Others \ online : toSend[p] = <<>> /\ channel[p] = <<>>
  /\ order \in Seq(Cores) /\ \A i, j \in DOMAIN order : order[i] = order[j] => i = j
  /\ opened \subseteq attached /\ attached \subseteq Known
  /\ preHavesLength \in [Cores -> Nat]
  /\ peerStates = [c \in Cores |-> [p \in DOMAIN peerStates[c] |-> peerStates[c][p]]]
  /\ \A c \in Cores : /\ DOMAIN peerStates[c] \subseteq online
                      /\ DOMAIN peerStates[c] # {} => c \in Known
                      /\ \A p \in DOMAIN peerStates[c] : IsPeerState(peerStates[c][p])
  /\ corePeers \in [Cores -> SUBSET Others]
  /\ \A c \in Cores : corePeers[c] \subseteq DOMAIN peerStates[c]
  /\ ticking \in BOOLEAN

\* When all that a peer sends has been handled, its own core is known here as
\* the peer has it, after what it appended to it and cleared in it, and across
\* the ends of pages and segments, whether or not there is an instance of the
\* core; and of a peer that is gone nothing is known (#sendHaves,
\* #handleHaveMessage, insertPreHaves, disconnectPeer).
HavesArrive ==
  /\ \A c \in Cores : DOMAIN peerStates[c] \subseteq online
  /\ \A p \in online, c \in Cores :
       Writer[c] = p /\ store[p][c].length > 0 /\ c \notin Range(toSend[p]) /\ channel[p] = <<>>
         => /\ p \in DOMAIN peerStates[c]
            /\ BitsOf(peerStates[c][p].preHaves) = store[p][c].blocks

\* A state that says there is no data to sync is right: of every core whose
\* messages have arrived, this device has all its writer has (getState(),
\* deriveState() and the lengths it truncates to, mutatingAddPeerState()).
NoDataToSyncIsTrue ==
  Derived.dataToSync
    \/ \A p \in online \ blocked, c \in Cores :
         Writer[c] = p /\ c \notin Range(toSend[p]) /\ channel[p] = <<>>
           => store[p][c].blocks \subseteq LocalHaves(c)

\* The cached state is what getState() would derive, unless its drop is due,
\* or since it was derived a core was attached or became ready, or a role
\* changed, which are not announced (#cachedState, #update, #handleUpdate).
CacheIsFresh ==
  \/ cached = None \/ ticking
  \/ <<cached.attached, cached.opened, cached.blocked>> # <<attached, opened, blocked>>
  \/ cached.state = Derived

\* The length of the buffer that the tokens are written to.
WrittenLength(tokens) ==
  LET sum[i \in 0 .. Len(tokens)] ==
        IF i = 0 THEN 0 ELSE sum[i - 1] + VarintLength(tokens[i].varint) + Len(tokens[i].bytes)
  IN sum[Len(tokens)]

\* What is read of a page is what was written.
PagesAreCoded ==
  \A bits \in SUBSET (0 .. BitsPerPage - 1) :
    /\ Decode(Encode(BytesOf(bits))) = BytesOf(bits)
    /\ BitsOfBytes(BytesOf(bits)) = bits

\* Whatever bits a page has, and whatever bytes a bitfield, up to two pages of
\* them: what is decoded is what was encoded, and the buffer has the length that
\* was computed for it before (encode, encodingLength, decode of
\* bitfield-rle.js).  The state is no part of it: to look in the initial one is
\* enough.
RoundTrip ==
  StateInit =>
    /\ PagesAreCoded
    /\ \A n \in 0 .. 2 * (BytesPerPage \div BytesPerWord) :
         \A input \in [1 .. n * BytesPerWord -> {0, 1, AllOnes}] :
           /\ Decode(Encode(input)) = input
           /\ EncodingLength(input) = WrittenLength(Encode(input))
=============================================================================
