----------------------------- MODULE LocalDiscovery -----------------------------
(***************************************************************************)
(* The connections between two devices on one network, as the              *)
(* LocalDiscovery of each makes, compares and closes them                  *)
(* (src/src/discovery/local-discovery.js).                                 *)
(*                                                                         *)
(* A link is one TCP connection with the noise stream on it.  Its two ends *)
(* learn of its opening and closing independently of each other, in any    *)
(* order, and an end that was destroyed is closed by a later event.        *)
(***************************************************************************)
EXTENDS Integers, Sequences, FiniteSets

CONSTANTS Hosts,      \* two
          Key,        \* [Hosts -> Int]: how the public keys compare
          MaxLinks,   \* bound on the links that are dialled
          None,       \* no device, no link
          MaxDials,   \* [Hosts -> Nat]: bound on the calls of connectPeer()
          MaxStops,   \* [Hosts -> Nat]: bound on the stops of each server
          MaxCuts     \* bound on the links the network breaks

Links == 1 .. MaxLinks

ASSUME LocalDiscoveryAssumption ==
  /\ IsFiniteSet(Hosts) /\ Cardinality(Hosts) = 2 /\ None \notin Hosts \cup Links
  /\ Key \in [Hosts -> Int] /\ \A d, e \in Hosts : d # e => Key[d] # Key[e]
  /\ MaxLinks \in Nat /\ MaxCuts \in Nat
  /\ MaxDials \in [Hosts -> Nat] /\ MaxStops \in [Hosts -> Nat]

VARIABLES by,      \* [Links -> device that dialled it]
          cut,     \* links the network broke
          side,    \* [Hosts -> what the LocalDiscovery there knows]
          server,  \* [Hosts -> state of its server]
          force,   \* [Hosts -> how far a forced stop is]
          stops    \* [Hosts -> how often its server was stopped]

discoveryVars == <<by, cut, side, server, force, stops>>

ConnStages == {"none", "dialling", "handshake",
               "keeping",    \* open, and waits for the one it takes the place of
               "handed",     \* open, and emitted as 'connection'
               "destroyed",  \* closes by itself
               "closed"}

\* noiseConnections is the connection in the map of that name, which has one
\* entry as there is one other device; handed are those that were emitted; and
\* waits, for each connection, those that its 'close' brings up.
Side == [conn : [Links -> ConnStages], noiseConnections : Links \cup {None},
         waits : [Links -> Seq(Links)], handed : SUBSET Links]

Other(d) == CHOOSE e \in Hosts : e # d
At(d, l, stages) == side[d].conn[l] \in stages
IsInitiator(d, l) == by[l] = d

\* Type correctness.
DiscoveryTypeOK ==
  /\ by \in [Links -> Hosts \cup {None}] /\ cut \in SUBSET Links
  /\ side \in [Hosts -> Side]
  /\ server \in [Hosts -> {"stopped", "listening", "closing", "failed"}]
  /\ force \in [Hosts -> {"no", "timer", "last"}]
  /\ \A d \in Hosts : stops[d] \in 0 .. MaxStops[d]

\* Both servers were started, so that each has a port to dial.
DiscoveryInit ==
  /\ by = [l \in Links |-> None] /\ cut = {}
  /\ side = [d \in Hosts |->
       [conn |-> [l \in Links |-> "none"], noiseConnections |-> None,
        waits |-> [l \in Links |-> <<>>], handed |-> {}]]
  /\ server = [d \in Hosts |-> "listening"]
  /\ force = [d \in Hosts |-> "no"] /\ stops = [d \in Hosts |-> 0]

-----------------------------------------------------------------------------
(***************************************************************************)
(* What becomes of the side s of device d.                                 *)
(***************************************************************************)

\* Mutant: both ends of a link compare the keys in the same direction.
KeepExistingOneWay(d, existing, l) ==
  IsInitiator(d, l) = IsInitiator(d, existing) \/ Key[d] > Key[Other(d)]

\* Whether the connection there is stays, and the new one l goes: so it is if
\* one device dialled both, else the keys decide, the same way on both devices.
KeepExisting(d, existing, l) ==
  \/ IsInitiator(d, l) = IsInitiator(d, existing)
  \/ IF IsInitiator(d, l) THEN Key[d] > Key[Other(d)] ELSE Key[d] <= Key[Other(d)]

\* Mutant: whether the server still listens is not looked at.
HandOutAlways(d, s, l) ==
  [s EXCEPT !.conn[l] = "handed", !.noiseConnections = l, !.handed = @ \cup {l}]

HandOut(d, s, l) ==
  IF server[d] = "listening"
    THEN [s EXCEPT !.conn[l] = "handed", !.noiseConnections = l,
                   !.handed = @ \cup {l}]
    ELSE [s EXCEPT !.conn[l] = "destroyed"]

\* Mutant: the connection that is kept does not wait for the other to close.
SwapAtOnce(d, s, existing, l) ==
  HandOut(d, [s EXCEPT !.conn[existing] = "destroyed"], l)

\* Mutant: the connection that is kept is waited for, not the other one.
SwapWrongWay(d, s, existing, l) ==
  [s EXCEPT !.conn[existing] = "destroyed", !.conn[l] = "keeping",
            !.waits[l] = Append(@, existing)]

\* The existing connection is destroyed, and l is handled anew when it closes.
HandleConnectionSwap(d, s, existing, l) ==
  [s EXCEPT !.conn[existing] = "destroyed", !.conn[l] = "keeping",
            !.waits[existing] = Append(@, l)]

HandleNoiseStreamConnection(d, s, l) ==
  LET existing == s.noiseConnections
  IN IF existing = None THEN HandOut(d, s, l)
     ELSE IF KeepExisting(d, existing, l) THEN [s EXCEPT !.conn[l] = "destroyed"]
     ELSE HandleConnectionSwap(d, s, existing, l)

\* What waited is handled in turn, unless it closed meanwhile.
Promote(d, s, l) ==
  IF s.conn[l] = "keeping" THEN HandleNoiseStreamConnection(d, s, l) ELSE s

PromoteAll(d, s, waiting) ==
  LET promoted[i \in 0 .. Len(waiting)] ==
        IF i = 0 THEN s ELSE Promote(d, promoted[i - 1], waiting[i])
  IN promoted[Len(waiting)]

\* The listeners for the closing of l: the entry in the map goes, then the
\* connections that waited for it come up.
HandleClose(d, s, l) ==
  PromoteAll(d, [s EXCEPT !.conn[l] = "closed", !.waits[l] = <<>>,
                          !.noiseConnections = IF l \in s.handed THEN None ELSE @], s.waits[l])

-----------------------------------------------------------------------------
SetStage(l, stage) == side' = [d \in Hosts |-> [side[d] EXCEPT !.conn[l] = stage]]

\* Whether there is a connection with the peer already is asked of a map by
\* public id with the name of a server, so that the answer is always no.
ConnectPeer(d, l) ==
  /\ by[l] = None /\ \A k \in 1 .. l - 1 : by[k] # None
  /\ Cardinality({k \in Links : by[k] = d}) < MaxDials[d]
  /\ by' = [by EXCEPT ![l] = d]
  /\ side' = [side EXCEPT ![d].conn[l] = "dialling"]
  /\ UNCHANGED <<cut, server, force, stops>>

HandleTcpConnection(l) ==
  /\ \E d \in Hosts : At(d, l, {"dialling"}) /\ server[Other(d)] = "listening"
  /\ SetStage(l, "handshake")
  /\ UNCHANGED <<by, cut, server, force, stops>>

Refused(l) ==
  /\ \E d \in Hosts : At(d, l, {"dialling"}) /\ server[Other(d)] # "listening"
  /\ SetStage(l, "closed")
  /\ UNCHANGED <<by, cut, server, force, stops>>

\* 'connect' of the noise stream, at one of its ends.
NoiseConnect(d, l) ==
  /\ At(d, l, {"handshake"}) /\ l \notin cut
  /\ side' = [side EXCEPT ![d] = HandleNoiseStreamConnection(d, @, l)]
  /\ UNCHANGED <<by, cut, server, force, stops>>

\* 'close' of the noise stream, which this end or the other destroyed.
NoiseClose(d, l) ==
  /\ \/ At(d, l, {"destroyed"})
     \/ /\ At(d, l, {"handshake", "keeping", "handed"})
        /\ l \in cut \/ At(Other(d), l, {"destroyed", "closed"})
  /\ side' = [side EXCEPT ![d] = HandleClose(d, @, l)]
  /\ UNCHANGED <<by, cut, server, force, stops>>

Cut(l) ==
  /\ l \notin cut /\ Cardinality(cut) < MaxCuts
  /\ \E d \in Hosts : At(d, l, {"handshake", "keeping", "handed"})
  /\ cut' = cut \cup {l}
  /\ UNCHANGED <<by, side, server, force, stops>>

-----------------------------------------------------------------------------
Start(d) ==
  /\ server[d] = "stopped"
  /\ server' = [server EXCEPT ![d] = "listening"]
  /\ force' = [force EXCEPT ![d] = "no"]
  /\ UNCHANGED <<by, cut, side, stops>>

Stop(d) ==
  /\ server[d] = "listening" /\ stops[d] < MaxStops[d]
  /\ stops' = [stops EXCEPT ![d] = @ + 1]
  /\ server' = [server EXCEPT ![d] = "closing"]
  /\ \E f \in {"no", "timer"} : force' = [force EXCEPT ![d] = f]
  /\ UNCHANGED <<by, cut, side>>

\* The timeout of a stop with force.
ForceClose(d) ==
  /\ server[d] = "closing" /\ force[d] = "timer"
  /\ force' = [force EXCEPT ![d] = "last"]
  /\ side' = IF side[d].noiseConnections = None THEN side
             ELSE [side EXCEPT ![d].conn[side[d].noiseConnections] = "destroyed"]
  /\ UNCHANGED <<by, cut, server, stops>>

\* The server is closed once every connection it accepted is.
Stopped(d) ==
  /\ server[d] = "closing"
  /\ \A l \in Links : by[l] = Other(d) => At(d, l, {"none", "dialling", "closed"})
  /\ server' = [server EXCEPT ![d] = "stopped"]
  /\ UNCHANGED <<by, cut, side, force, stops>>

\* 500 ms later stop() rejects, and the StartStopStateMachine stays in error.
StopFails(d) ==
  /\ server[d] = "closing" /\ force[d] = "last"
  /\ server' = [server EXCEPT ![d] = "failed"]
  /\ UNCHANGED <<by, cut, side, force, stops>>

Events(d) == \/ ForceClose(d) \/ Stopped(d)
             \/ \E l \in Links : NoiseConnect(d, l) \/ NoiseClose(d, l)

DiscoveryNext ==
  \/ \E d \in Hosts : \/ Start(d) \/ Stop(d) \/ StopFails(d)
                        \/ Events(d)
                        \/ \E l \in Links : ConnectPeer(d, l)
  \/ \E l \in Links : HandleTcpConnection(l) \/ Refused(l) \/ Cut(l)

DiscoverySpec == DiscoveryInit /\ [][DiscoveryNext]_discoveryVars

\* Streams that can open do, what is destroyed is closed on both ends, and
\* timers fire; nobody has to dial, start or stop, and no timeout of 500 ms is
\* needed.
DiscoveryFairSpec ==
  /\ DiscoverySpec
  /\ \A d \in Hosts : /\ WF_discoveryVars(ForceClose(d)) /\ WF_discoveryVars(Stopped(d))
                        /\ \A l \in Links : WF_discoveryVars(NoiseConnect(d, l) \/ NoiseClose(d, l))

-----------------------------------------------------------------------------
(***************************************************************************)
(* Properties.                                                             *)
(***************************************************************************)

\* Of the connections handed to the application one at the most is not closed
\* yet, and it is the one in noiseConnections, against which the next one is
\* compared, whatever is destroyed, swapped and closed meanwhile.
OneAtATime ==
  \A d \in Hosts :
    {l \in side[d].handed : ~At(d, l, {"closed"})} =
      {side[d].noiseConnections} \ {None}

AllSettled == \A l \in Links :
             /\ \A d \in Hosts : At(d, l, {"none", "handed", "closed"})
             /\ \A d, e \in Hosts : side[d].conn[l] = side[e].conn[l]

\* The network broke nothing, no server was stopped, and no device dialled
\* twice: of two links that it dialled, each end may keep the other one.
Undisturbed == /\ cut = {}
               /\ \A d \in Hosts : stops[d] = 0
               /\ \A k, l \in Links : by[k] = by[l] /\ by[k] # None => k = l

\* Two devices that dialled each other once keep the same connection: where all
\* has settled and one was ever handed out, there is one that both hold.
OneSurvives ==
  (AllSettled /\ Undisturbed /\ \E d \in Hosts : side[d].handed # {}) =>
    \E l \in Links : \A d \in Hosts : At(d, l, {"handed"})

\* A connection that is kept comes up or closes; it does not wait for good.
SwapEnds == \A d \in Hosts, l \in Links :
              At(d, l, {"keeping"}) ~> ~At(d, l, {"keeping"})

\* A stop with force ends without its last timeout, though connections come up
\* after it has closed those it knew of.
StopEnds == \A d \in Hosts :
              (server[d] = "closing" /\ force[d] # "no") ~> server[d] # "closing"

=============================================================================
