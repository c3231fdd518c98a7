------------------------------- MODULE LocalPeers -------------------------------
(***************************************************************************)
(* The connections of a device with others, as LocalPeers keeps them       *)
(* (src/src/local-peers.js): any number with one device, which open and    *)
(* close in any order, one of them shown, and the messages that are sent   *)
(* to a device.                                                            *)
(*                                                                         *)
(* Each connection is made once.  A definition commented as a mutant is    *)
(* part of no specification (see Invites.tla).                             *)
(***************************************************************************)
EXTENDS Integers, FiniteSets

CONSTANTS Devices,
          Conns,      \* connections
          DeviceOf,   \* [Conns -> Devices]: with whom
          Sends,      \* the messages sent
          To,         \* [Sends -> Devices]
          MaxTime     \* bound on the clock

ASSUME LocalPeersAssumption ==
  /\ DeviceOf \in [Conns -> Devices] /\ To \in [Sends -> Devices]
  /\ MaxTime \in Nat /\ IsFiniteSet(Conns)

VARIABLES stage,       \* of each connection
          opening,     \* the connections whose deferredOpen is not resolved
          peers,       \* the Peers kept of each device, by their connection
          rank,        \* their order in the set
          since,       \* connectedAt, or disconnectedAt
          clock,
          lastEmitted, \* lastEmittedPeers
          announced,   \* connections there was a 'peer-add' event of
          send         \* the messages on their way

lists == <<stage, opening, peers, rank, since, clock>>
told == <<lastEmitted, announced>>
vars == <<lists, told, send>>

\* connecting: a channel was made, which is not open yet
Stages == {"none", "opening", "connecting", "connected", "closed"}
SendStages == {"new", "pending", "deduplicating", "sent", "failed", "timed out"}
Kinds == {"device info", "other"}
Send == [stage : SendStages, kind : Kinds, awaits : SUBSET Conns]

TypeOK ==
  /\ stage \in [Conns -> Stages]
  /\ opening \in SUBSET {c \in Conns : stage[c] \in {"opening", "connecting"}}
  /\ peers \in [Devices -> SUBSET {c \in Conns : rank[c] > 0}]
  /\ \A d \in Devices : \A c \in peers[d] : DeviceOf[c] = d
  /\ rank \in [Conns -> Nat] /\ since \in [Conns -> 0 .. MaxTime]
  /\ clock \in 0 .. MaxTime
  /\ lastEmitted \in SUBSET Conns /\ announced \in SUBSET Conns
  /\ send \in [Sends -> Send]

Init ==
  /\ stage = [c \in Conns |-> "none"]
  /\ opening = {}
  /\ peers = [d \in Devices |-> {}]
  /\ rank = [c \in Conns |-> 0] /\ since = [c \in Conns |-> 0]
  /\ clock = 0
  /\ lastEmitted = {} /\ announced = {}
  /\ send = [s \in Sends |-> [stage |-> "new", kind |-> "other", awaits |-> {}]]

-----------------------------------------------------------------------------
(***************************************************************************)
(* The connection that is shown of a device.                               *)
(***************************************************************************)
Kept(d, s) == {c \in peers[d] : stage[c] = s}

\* Of two at the same time, the first in the set is picked.
Before(a, b) == since[a] < since[b] \/ (since[a] = since[b] /\ rank[a] <= rank[b])
After(a, b) == since[a] > since[b] \/ (since[a] = since[b] /\ rank[a] <= rank[b])

\* Mutant: connections that are being made are passed over.
ChooseOldest(d) ==
  IF Kept(d, "connected") # {}
    THEN {c \in Kept(d, "connected") : \A b \in Kept(d, "connected") : Before(c, b)}
    ELSE {c \in Kept(d, "closed") : \A b \in Kept(d, "closed") : After(c, b)}

\* chooseDevicePeer(), as the set of it: the longest connected, else the last
\* disconnected; none while a connection is being made.
ChooseDevicePeer(d) ==
  IF Kept(d, "connecting") # {} THEN {}
  ELSE IF Kept(d, "connected") # {}
    THEN {c \in Kept(d, "connected") : \A b \in Kept(d, "connected") : Before(c, b)}
    ELSE {c \in Kept(d, "closed") : \A b \in Kept(d, "closed") : After(c, b)}

GetPeers == UNION {ChooseDevicePeer(d) : d \in Devices}

\* What comes of a message when connections are chosen, or none is: a device
\* info is sent without a look if one is connected.
Result(chosen, stages, kind) ==
  IF \E c \in chosen : stages[c] = "connected" \/ kind = "device info"
    THEN "sent" ELSE "failed"

\* Mutant: only devices that were not shown are announced.
EmitPeersOfDevices ==
  LET added == {c \in GetPeers' : /\ stage'[c] = "connected"
                                  /\ \A b \in lastEmitted : DeviceOf[b] # DeviceOf[c]}
  IN  /\ announced' = announced \cup added
      /\ lastEmitted' = GetPeers'
      /\ send' = [s \in Sends |->
                    IF /\ send[s].stage = "deduplicating"
                       /\ ChooseDevicePeer(To[s])' # {}
                      THEN [send[s] EXCEPT !.stage = Result(ChooseDevicePeer(To[s])', stage', send[s].kind)]
                      ELSE send[s]]

\* #emitPeers(): 'peer-add' for what is newly shown, and 'peers', which the
\* messages that await the choice of a connection listen to.
EmitPeers ==
  LET added == {c \in GetPeers' \ lastEmitted : stage'[c] = "connected"}
  IN  /\ announced' = announced \cup added
      /\ lastEmitted' = GetPeers'
      /\ send' = [s \in Sends |->
                    IF /\ send[s].stage = "deduplicating"
                       /\ ChooseDevicePeer(To[s])' # {}
                      THEN [send[s] EXCEPT !.stage = Result(ChooseDevicePeer(To[s])', stage', send[s].kind)]
                      ELSE send[s]]

-----------------------------------------------------------------------------
(***************************************************************************)
(* Connections come and go.  Stream and channel open, or close, by         *)
(* themselves; Date.now() may be the same for several of them.             *)
(***************************************************************************)
Becomes(c, s) == /\ stage' = [stage EXCEPT ![c] = s]
                 /\ clock' \in {clock, clock + 1} \cap (0 .. MaxTime)
                 /\ since' = [since EXCEPT ![c] = clock']

Done(c) == opening' = opening \ {c}

Connect(c) ==
  /\ stage[c] = "none"
  /\ stage' = [stage EXCEPT ![c] = "opening"]
  /\ opening' = opening \cup {c}
  /\ UNCHANGED <<peers, rank, since, clock, told, send>>

\* #makePeer(), on the stream's opening or on the other device's channel.
\* "Do not emit peers now"
MakePeer(c) ==
  /\ stage[c] = "opening"
  /\ stage' = [stage EXCEPT ![c] = "connecting"]
  /\ peers' = [peers EXCEPT ![DeviceOf[c]] = @ \cup {c}]
  /\ rank' = [rank EXCEPT ![c] = Cardinality({b \in Conns : rank[b] > 0}) + 1]
  /\ UNCHANGED <<opening, since, clock, told, send>>

\* The other one of the two: it counts as opened.
MakePeerAgain(c) ==
  /\ stage[c] = "connecting"
  /\ c \in opening
  /\ Done(c)
  /\ UNCHANGED <<stage, peers, rank, since, clock, told, send>>

Open(c) ==
  /\ stage[c] = "connecting"
  /\ Becomes(c, "connected")
  /\ Done(c)
  /\ UNCHANGED <<peers, rank>>
  /\ EmitPeers

\* The stream closes before a channel was made.
CloseEarly(c) ==
  /\ stage[c] = "opening"
  /\ stage' = [stage EXCEPT ![c] = "closed"]
  /\ Done(c)
  /\ UNCHANGED <<peers, rank, since, clock, told, send>>

\* Mutant: it is not told that the connection is gone.
CloseSilently(c) ==
  /\ stage[c] \in {"connecting", "connected"}
  /\ Becomes(c, "closed")
  /\ Done(c)
  /\ peers' = IF Cardinality(peers[DeviceOf[c]]) > 1
                THEN [peers EXCEPT ![DeviceOf[c]] = @ \ {c}]
                ELSE peers
  /\ UNCHANGED <<rank, told, send>>

Close(c) ==
  /\ stage[c] \in {"connecting", "connected"}
  /\ Becomes(c, "closed")
  /\ Done(c)
  /\ peers' = IF Cardinality(peers[DeviceOf[c]]) > 1
                THEN [peers EXCEPT ![DeviceOf[c]] = @ \ {c}]
                ELSE peers
  /\ UNCHANGED rank
  /\ EmitPeers

\* The other device's name arrives.
ReceiveDeviceInfo(c) ==
  /\ stage[c] = "connected"
  /\ UNCHANGED lists
  /\ EmitPeers

-----------------------------------------------------------------------------
(***************************************************************************)
(* Messages: sendInvite() and the like wait for the connections that are   *)
(* opening, then for one to send on, each with a timeout.                  *)
(***************************************************************************)
SendMessage(s) ==
  /\ send[s].stage = "new"
  /\ \E kind \in Kinds :
       send' = [send EXCEPT ![s] = [stage |-> "pending", kind |-> kind, awaits |-> opening]]
  /\ UNCHANGED <<lists, told>>

\* #getPeerByDeviceId()
GetPeerByDeviceId(s) ==
  /\ send[s].stage = "pending"
  /\ send[s].awaits \cap opening = {}
  /\ send' = [send EXCEPT ![s].stage =
                IF peers[To[s]] # {} /\ ChooseDevicePeer(To[s]) = {}
                  THEN "deduplicating" ELSE Result(ChooseDevicePeer(To[s]), stage, send[s].kind)]
  /\ UNCHANGED <<lists, told>>

SendTimeout(s) ==
  /\ send[s].stage \in {"pending", "deduplicating"}
  /\ send' = [send EXCEPT ![s].stage = "timed out"]
  /\ UNCHANGED <<lists, told>>

-----------------------------------------------------------------------------
Next == \/ \E c \in Conns : \/ Connect(c) \/ MakePeer(c) \/ MakePeerAgain(c)
                            \/ Open(c) \/ CloseEarly(c) \/ Close(c)
                            \/ ReceiveDeviceInfo(c)
        \/ \E s \in Sends : SendMessage(s) \/ GetPeerByDeviceId(s) \/ SendTimeout(s)

Spec == Init /\ [][Next]_vars

\* A stream or a channel that is being made opens or closes; a call goes on.
Settles(c) == \/ MakePeer(c) \/ CloseEarly(c)
              \/ Open(c)
              \/ stage[c] = "connecting" /\ Close(c)

FairSpec == /\ Spec
            /\ \A c \in Conns : WF_vars(Settles(c))
            /\ \A s \in Sends : WF_vars(GetPeerByDeviceId(s))

-----------------------------------------------------------------------------
(***************************************************************************)
(* Properties.                                                             *)
(***************************************************************************)
\* A connection that is shown was announced, whatever connections with the
\* same device come and go around it: a project that listens knows it.
ShownIsAnnounced ==
  \A c \in GetPeers : stage[c] = "connected" => c \in announced \cap lastEmitted

\* "We keep disconnected peers around, but not duplicates": one at the most,
\* and a device once met is never forgotten.
KeepsOneDisconnected ==
  \A d \in Devices :
    /\ \A a, b \in Kept(d, "closed") : a = b
    /\ \A c \in Conns : DeviceOf[c] = d /\ rank[c] > 0 => peers[d] # {}

\* The inductive invariant of the proofs (LocalPeersProofs), by parts: a Peer
\* has a channel; and what was emitted last had been connected and announced.
RankInv == \A c \in Conns : stage[c] \in {"none", "opening"} => rank[c] = 0

LastInv == \A c \in lastEmitted : /\ stage[c] \in {"connected", "closed"}
                                  /\ stage[c] = "connected" => c \in announced

PeersInv == /\ TypeOK /\ RankInv /\ LastInv
            /\ ShownIsAnnounced /\ KeepsOneDisconnected

\* A message is given up without a timeout only if the device has no connection
\* in #peers to send it on, neither one that is connected nor one that is
\* connecting, whatever was there when the sending began.  A stream that opens
\* after #waitForPendingConnections() has taken those to wait for is in #peers
\* only once it is added there, and is not waited for before.
FailsWhenGone ==
  [][\A s \in Sends : send[s].stage # "failed" /\ send'[s].stage = "failed" =>
       Kept(To[s], "connected")' = {} /\ Kept(To[s], "connecting")' = {}]_vars

\* The timeouts are not needed: a message ends as soon as the connections
\* that are being made are settled.
SendsEnd ==
  \A s \in Sends : send[s].stage \in {"pending", "deduplicating"}
                     ~> send[s].stage \in {"sent", "failed", "timed out"}
=============================================================================
