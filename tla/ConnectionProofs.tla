---------------------------- MODULE ConnectionProofs ----------------------------
(***************************************************************************)
(* Proofs about the connections between devices: about LocalDiscovery, for *)
(* any number of links, of dials, of stops and of cuts, and about          *)
(* LocalPeers, for any number of devices, of connections with each and of  *)
(* messages.                                                               *)
(*                                                                         *)
(* LocalDiscovery rests on DiscoveryInv.  That what was handed out is the  *)
(* one in the map, that what is kept is awaited, and that winners stay up, *)
(* are shown of every step of a promotion first (HandleKeepsHanded,        *)
(* HandleKeepsWaits, HandleKeepsWinners), and then of a close, which is    *)
(* any number of them (PromoteAllIs).                                      *)
(*                                                                         *)
(* LocalPeers rests on PeersInv: that what is shown was announced needs    *)
(* that what was emitted last was (LastInv), and that a connection has a   *)
(* Peer only once it has a channel (RankInv).                              *)
(***************************************************************************)
EXTENDS LocalPeers, LocalDiscovery, FiniteSetTheorems, WellFoundedInduction, TLAPS


-----------------------------------------------------------------------------
\* A set that has 0, and with each number the next one, has them all.
LEMMA SetInduction ==
  ASSUME NEW S, 0 \in S, \A n \in Nat : n \in S => n + 1 \in S
  PROVE  \A n \in Nat : n \in S
<1> DEFINE T == Nat \ S
<1> SUFFICES ASSUME T # {} PROVE FALSE
  OBVIOUS
<1>1. PICK t \in T : \A u \in T : ~ (<<u, t>> \in OpToRel(<, Nat))
  <2>1. T \subseteq Nat
    OBVIOUS
  <2> HIDE DEF T
  <2>2. QED
    BY <2>1, WFMin, NatLessThanWellFounded
<1>2. t \in Nat /\ t # 0
  OBVIOUS
<1>3. t - 1 \in Nat /\ t = (t - 1) + 1
  BY <1>2
<1>4. t - 1 \notin S
  BY <1>2, <1>3
<1>5. <<t - 1, t>> \in OpToRel(<, Nat)
  BY <1>2, <1>3 DEF OpToRel
<1>6. QED
  BY <1>1, <1>3, <1>4, <1>5

\* There are two devices.
LEMMA TwoHosts ==
  ASSUME NEW d \in Hosts
  PROVE  /\ Other(d) \in Hosts /\ Other(d) # d /\ Other(Other(d)) = d
         /\ \A e \in Hosts : e = d \/ e = Other(d)
<1>1. /\ IsFiniteSet(Hosts \ {d})
      /\ Cardinality(Hosts \ {d}) = 1
  BY FS_RemoveElement, LocalDiscoveryAssumption
<1>2. PICK e : Hosts \ {d} = {e}
  BY <1>1, FS_Singleton
<1>3. e \in Hosts /\ e # d /\ \A f \in Hosts : f = d \/ f = e
  BY <1>2
<1>4. Other(d) = e /\ Other(e) = d
  BY <1>3 DEF Other
<1>5. QED
  BY <1>3, <1>4

-----------------------------------------------------------------------------
(***************************************************************************)
(* What waited comes up one after the other.                               *)
(***************************************************************************)
Promotions(d, s, waiting, n, f) ==
  f = [i \in 0 .. n |-> IF i = 0 THEN s ELSE Promote(d, f[i - 1], waiting[i])]

LEMMA PromotionsExist ==
  ASSUME NEW d, NEW s, NEW waiting
  PROVE  \A n \in Nat : \E f : Promotions(d, s, waiting, n, f)
<1> DEFINE T == {n \in Nat : \E f : Promotions(d, s, waiting, n, f)}
<1>1. 0 \in T
  <2> DEFINE f == [i \in 0 .. 0 |-> s]
  <2>1. f = [i \in 0 .. 0 |-> IF i = 0 THEN s ELSE Promote(d, f[i - 1], waiting[i])]
    OBVIOUS
  <2>2. QED
    BY <2>1 DEF Promotions
<1>2. ASSUME NEW n \in Nat, n \in T PROVE n + 1 \in T
  <2>1. PICK f : f = [i \in 0 .. n |-> IF i = 0 THEN s ELSE Promote(d, f[i - 1], waiting[i])]
    BY <1>2 DEF Promotions
  <2> DEFINE g == [i \in 0 .. n + 1 |-> IF i = n + 1 THEN Promote(d, f[n], waiting[n + 1]) ELSE f[i]]
  <2>2. ASSUME NEW i \in 0 .. n + 1
        PROVE  g[i] = IF i = 0 THEN s ELSE Promote(d, g[i - 1], waiting[i])
    <3>1. CASE i = 0
      <4>1. g[0] = f[0] /\ f[0] = s
        BY <2>1
      <4>2. QED
        BY <3>1, <4>1
    <3>2. CASE i \in 1 .. n
      <4>1. g[i] = f[i] /\ g[i - 1] = f[i - 1]
        BY <3>2
      <4>2. f[i] = Promote(d, f[i - 1], waiting[i])
        BY <2>1, <3>2
      <4>3. QED
        BY <3>2, <4>1, <4>2
    <3>3. CASE i = n + 1
      <4>1. g[i] = Promote(d, f[n], waiting[n + 1]) /\ g[n] = f[n]
        BY <3>3
      <4>2. QED
        BY <3>3, <4>1
    <3>4. QED
      BY <3>1, <3>2, <3>3
  <2>3. g = [i \in 0 .. n + 1 |-> g[i]]
    OBVIOUS
  <2> HIDE DEF g
  <2>4. g = [i \in 0 .. n + 1 |-> IF i = 0 THEN s ELSE Promote(d, g[i - 1], waiting[i])]
    BY <2>2, <2>3
  <2>5. QED
    BY <2>4 DEF Promotions
<1>3. QED
  <2> HIDE DEF T
  <2>1. \A n \in Nat : n \in T
    BY <1>1, <1>2, SetInduction
  <2>2. QED
    BY <2>1 DEF T

\* What holds at first, and of each by the one before, holds in the end.
LEMMA PromoteAllIs ==
  ASSUME NEW d, NEW s, NEW waiting, Len(waiting) \in Nat, NEW Q, s \in Q[0],
         \A i \in 1 .. Len(waiting) : \A t \in Q[i - 1] : Promote(d, t, waiting[i]) \in Q[i]
  PROVE  PromoteAll(d, s, waiting) \in Q[Len(waiting)]
<1> DEFINE n == Len(waiting)
           f == CHOOSE f : f = [i \in 0 .. n |-> IF i = 0 THEN s ELSE Promote(d, f[i - 1], waiting[i])]
<1>1. \E g : g = [i \in 0 .. n |-> IF i = 0 THEN s ELSE Promote(d, g[i - 1], waiting[i])]
  <2>1. PICK g : Promotions(d, s, waiting, n, g)
    <3>1. n \in Nat
      OBVIOUS
    <3> HIDE DEF n
    <3>2. QED
      BY <3>1, PromotionsExist
  <2>2. QED
    BY <2>1 DEF Promotions
<1>2. f = [i \in 0 .. n |-> IF i = 0 THEN s ELSE Promote(d, f[i - 1], waiting[i])]
  BY <1>1
<1>3. PromoteAll(d, s, waiting) = f[n]
  BY DEF PromoteAll
<1> HIDE DEF f
<1> DEFINE T == {i \in Nat : i <= n => f[i] \in Q[i]}
<1>4. 0 \in T
  BY <1>2
<1>5. ASSUME NEW i \in Nat, i \in T PROVE i + 1 \in T
  <2> SUFFICES ASSUME i + 1 <= n PROVE f[i + 1] \in Q[i + 1]
    OBVIOUS
  <2>1. f[i] \in Q[i]
    BY <1>5
  <2>2. i + 1 \in 1 .. n /\ (i + 1) - 1 = i
    OBVIOUS
  <2>3. Promote(d, f[i], waiting[i + 1]) \in Q[i + 1]
    BY <2>1, <2>2
  <2>4. f[i + 1] = Promote(d, f[i], waiting[i + 1])
    BY <1>2, <2>2
  <2>5. QED
    BY <2>3, <2>4
<1>6. n \in T
  <2> HIDE DEF T
  <2>1. QED
    BY <1>4, <1>5, SetInduction
<1>7. QED
  BY <1>3, <1>6

-----------------------------------------------------------------------------
(***************************************************************************)
(* A connection that comes up is handed out, or goes, or takes the place   *)
(* of the one there is.                                                    *)
(***************************************************************************)
HandsOut(d, s, l, t) ==
  /\ s.noiseConnections = None /\ server[d] = "listening"
  /\ t.conn = [s.conn EXCEPT ![l] = "handed"] /\ t.noiseConnections = l
  /\ t.waits = s.waits /\ t.handed = s.handed \cup {l}

Drops(d, s, l, t) ==
  /\ IF s.noiseConnections = None THEN server[d] # "listening" ELSE KeepExisting(d, s.noiseConnections, l)
  /\ t.conn = [s.conn EXCEPT ![l] = "destroyed"] /\ t.noiseConnections = s.noiseConnections
  /\ t.waits = s.waits /\ t.handed = s.handed

Swaps(d, s, l, t) ==
  LET existing == s.noiseConnections
  IN /\ existing # None /\ ~ KeepExisting(d, existing, l)
     /\ t.conn = [s.conn EXCEPT ![existing] = "destroyed", ![l] = "keeping"]
     /\ t.noiseConnections = existing
     /\ t.waits = [s.waits EXCEPT ![existing] = Append(@, l)] /\ t.handed = s.handed

LEMMA SideIs ==
  /\ \A s \in Side : /\ s.conn \in [Links -> ConnStages] /\ s.noiseConnections \in Links \cup {None}
                     /\ s.waits \in [Links -> Seq(Links)] /\ s.handed \subseteq Links
                     /\ s = [conn |-> s.conn, noiseConnections |-> s.noiseConnections,
                             waits |-> s.waits, handed |-> s.handed]
BY DEF Side

LEMMA HandleIs ==
  ASSUME NEW d \in Hosts, NEW s \in Side, NEW l \in Links
  PROVE  LET t == HandleNoiseStreamConnection(d, s, l)
         IN t \in Side /\ (HandsOut(d, s, l, t) \/ Drops(d, s, l, t) \/ Swaps(d, s, l, t))
<1> DEFINE t == HandleNoiseStreamConnection(d, s, l)
           existing == s.noiseConnections
<1>0. /\ s.conn \in [Links -> ConnStages] /\ existing \in Links \cup {None}
      /\ s.waits \in [Links -> Seq(Links)] /\ s.handed \subseteq Links
  BY SideIs
<1>1. ASSUME existing = None, server[d] = "listening" PROVE t \in Side /\ HandsOut(d, s, l, t)
  <2> DEFINE conn == [s.conn EXCEPT ![l] = "handed"]
             handed == s.handed \cup {l}
  <2>1. t = [s EXCEPT !.conn = conn, !.noiseConnections = l, !.handed = handed]
    BY <1>1 DEF HandleNoiseStreamConnection, HandOut
  <2>2. t = [conn |-> conn, noiseConnections |-> l, waits |-> s.waits, handed |-> handed]
    BY <2>1, SideIs
  <2>3. conn \in [Links -> ConnStages] /\ handed \in SUBSET Links
    BY <1>0 DEF ConnStages
  <2> HIDE DEF t, conn, handed
  <2>4. t \in Side
    BY <1>0, <2>2, <2>3 DEF Side
  <2>5. QED
    BY <1>1, <2>2, <2>4 DEF HandsOut, conn, handed
<1>2. ASSUME (existing = None /\ server[d] # "listening") \/ (existing # None /\ KeepExisting(d, existing, l))
      PROVE  t \in Side /\ Drops(d, s, l, t)
  <2> DEFINE conn == [s.conn EXCEPT ![l] = "destroyed"]
  <2>1. t = [s EXCEPT !.conn = conn]
    BY <1>2 DEF HandleNoiseStreamConnection, HandOut
  <2>2. t = [conn |-> conn, noiseConnections |-> existing, waits |-> s.waits, handed |-> s.handed]
    BY <2>1, SideIs
  <2>3. conn \in [Links -> ConnStages]
    BY <1>0 DEF ConnStages
  <2> HIDE DEF t, conn
  <2>4. t \in Side
    BY <1>0, <2>2, <2>3 DEF Side
  <2>5. QED
    BY <1>2, <2>2, <2>4 DEF Drops, conn
<1>3. ASSUME existing # None, ~ KeepExisting(d, existing, l) PROVE t \in Side /\ Swaps(d, s, l, t)
  <2> DEFINE conn == [s.conn EXCEPT ![existing] = "destroyed", ![l] = "keeping"]
             waits == [s.waits EXCEPT ![existing] = Append(@, l)]
  <2>1. t = [s EXCEPT !.conn = conn, !.waits = waits]
    BY <1>3 DEF HandleNoiseStreamConnection, HandleConnectionSwap
  <2>2. existing \in Links /\ s.waits[existing] \in Seq(Links)
    BY <1>0, <1>3
  <2>3. Append(s.waits[existing], l) \in Seq(Links)
    BY <2>2
  <2>4. t = [conn |-> conn, noiseConnections |-> existing, waits |-> waits, handed |-> s.handed]
    <3> HIDE DEF t, conn, waits
    <3>1. PICK c, n, w, h : s = [conn |-> c, noiseConnections |-> n, waits |-> w, handed |-> h]
      BY SideIs
    <3>2. t = [conn |-> conn, noiseConnections |-> n, waits |-> waits, handed |-> h]
      BY <2>1, <3>1
    <3>3. QED
      BY <3>1, <3>2
  <2>5. conn \in [Links -> ConnStages] /\ waits \in [Links -> Seq(Links)]
    BY <1>0, <2>2, <2>3 DEF ConnStages
  <2> HIDE DEF t, conn, waits
  <2>6. t \in Side
    BY <1>0, <2>2, <2>4, <2>5 DEF Side
  <2>7. QED
    BY <1>3, <2>4, <2>6 DEF Swaps, conn, waits
<1>4. QED
  BY <1>1, <1>2, <1>3

\* Of one device: what was handed out and is not closed is the one in the map.
HandedOK(s) ==
  /\ s \in Side
  /\ \A l \in s.handed : s.conn[l] \in {"handed", "destroyed", "closed"}
  /\ \A l \in Links : (l \in s.handed /\ s.conn[l] # "closed") <=> l = s.noiseConnections

LEMMA HandleKeepsHanded ==
  ASSUME NEW d \in Hosts, NEW s, HandedOK(s), NEW l \in Links, s.conn[l] \in {"handshake", "keeping"}
  PROVE  HandedOK(HandleNoiseStreamConnection(d, s, l))
<1> DEFINE t == HandleNoiseStreamConnection(d, s, l)
<1>1. s \in Side /\ l \notin s.handed /\ None \notin Links
  BY LocalDiscoveryAssumption DEF HandedOK
<1>2. t \in Side /\ (HandsOut(d, s, l, t) \/ Drops(d, s, l, t) \/ Swaps(d, s, l, t))
  BY <1>1, HandleIs
<1>a. /\ s.conn \in [Links -> ConnStages] /\ s.noiseConnections \in Links \cup {None} /\ s.handed \subseteq Links
      /\ t.conn \in [Links -> ConnStages] /\ t.noiseConnections \in Links \cup {None} /\ t.handed \subseteq Links
  BY <1>1, <1>2, SideIs
<1> HIDE DEF t
<1>3. ASSUME HandsOut(d, s, l, t) PROVE HandedOK(t)
  BY <1>1, <1>2, <1>3, <1>a DEF HandedOK, HandsOut
<1>4. ASSUME Drops(d, s, l, t) PROVE HandedOK(t)
  BY <1>1, <1>2, <1>4, <1>a DEF HandedOK, Drops
<1>5. ASSUME Swaps(d, s, l, t) PROVE HandedOK(t)
  BY <1>1, <1>2, <1>5, <1>a DEF HandedOK, Swaps
<1>6. HandedOK(t)
  BY <1>2, <1>3, <1>4, <1>5
<1>7. QED
  BY <1>6 DEF t

\* The side of a device where l has closed, before what waited for it comes up.
Closed(s, l) ==
  [s EXCEPT !.conn[l] = "closed", !.waits[l] = <<>>,
            !.noiseConnections = IF l \in s.handed THEN None ELSE @]

LEMMA ClosedIs ==
  ASSUME NEW s, HandedOK(s), NEW l \in Links, s.conn[l] # "closed"
  PROVE  LET t == Closed(s, l)
         IN /\ HandedOK(t) /\ t.conn = [s.conn EXCEPT ![l] = "closed"]
            /\ t.waits = [s.waits EXCEPT ![l] = <<>>] /\ t.handed = s.handed
            /\ s.waits[l] \in Seq(Links) /\ Len(s.waits[l]) \in Nat
<1> DEFINE t == Closed(s, l)
<1>1. s \in Side
  BY DEF HandedOK
<1>2. /\ t \in Side /\ t.conn = [s.conn EXCEPT ![l] = "closed"] /\ t.handed = s.handed
      /\ t.waits = [s.waits EXCEPT ![l] = <<>>]
      /\ t.noiseConnections = IF l \in s.handed THEN None ELSE s.noiseConnections
  <2> DEFINE conn == [s.conn EXCEPT ![l] = "closed"]
             waits == [s.waits EXCEPT ![l] = <<>>]
             noise == IF l \in s.handed THEN None ELSE s.noiseConnections
  <2>1. t = [s EXCEPT !.conn = conn, !.waits = waits, !.noiseConnections = noise]
    BY DEF Closed
  <2>2. t = [conn |-> conn, noiseConnections |-> noise, waits |-> waits, handed |-> s.handed]
    BY <1>1, <2>1, SideIs
  <2>3. conn \in [Links -> ConnStages] /\ waits \in [Links -> Seq(Links)] /\ noise \in Links \cup {None}
    BY <1>1, SideIs DEF ConnStages
  <2>4. s.handed \subseteq Links
    BY <1>1, SideIs
  <2> HIDE DEF t, conn, waits, noise
  <2>5. t \in Side
    BY <2>2, <2>3, <2>4 DEF Side
  <2>6. QED
    BY <2>2, <2>5 DEF conn, waits, noise
<1>a. s.conn \in [Links -> ConnStages] /\ t.conn \in [Links -> ConnStages] /\ s.handed \subseteq Links
  BY <1>1, <1>2, SideIs
<1> HIDE DEF t
<1>3. HandedOK(t)
  BY <1>1, <1>2, <1>a, LocalDiscoveryAssumption DEF HandedOK
<1>4. s.waits[l] \in Seq(Links) /\ Len(s.waits[l]) \in Nat
  BY <1>1 DEF Side
<1>5. QED
  BY <1>2, <1>3, <1>4 DEF t

\* Of any set of sides that a promotion does not leave.
LEMMA HandleCloseStays ==
  ASSUME NEW d \in Hosts, NEW s, HandedOK(s), NEW l \in Links, s.conn[l] # "closed",
         NEW S, Closed(s, l) \in S,
         \A t \in S, k \in Links : t.conn[k] = "keeping" => HandleNoiseStreamConnection(d, t, k) \in S
  PROVE  HandleClose(d, s, l) \in S
<1> DEFINE waiting == s.waits[l]
           Q == [i \in 0 .. Len(waiting) |-> S]
<1>1. waiting \in Seq(Links) /\ Len(waiting) \in Nat
  BY ClosedIs
<1>2. HandleClose(d, s, l) = PromoteAll(d, Closed(s, l), waiting)
  BY DEF HandleClose, Closed
<1> HIDE DEF waiting
<1>3. \A i \in 0 .. Len(waiting) : Q[i] = S
  OBVIOUS
<1> HIDE DEF Q
<1>4. ASSUME NEW i \in 1 .. Len(waiting), NEW t \in Q[i - 1]
      PROVE  Promote(d, t, waiting[i]) \in Q[i]
  <2>1. i - 1 \in 0 .. Len(waiting) /\ i \in 0 .. Len(waiting)
    BY <1>1
  <2>2. t \in S /\ Q[i] = S
    BY <1>3, <2>1
  <2>3. waiting[i] \in Links
    BY <1>1
  <2>4. QED
    BY <2>2, <2>3 DEF Promote
<1>5. Closed(s, l) \in Q[0] /\ Q[Len(waiting)] = S
  BY <1>1, <1>3
<1>6. QED
  BY <1>1, <1>2, <1>4, <1>5, PromoteAllIs

LEMMA CloseKeepsHanded ==
  ASSUME NEW d \in Hosts, NEW s, HandedOK(s), NEW l \in Links, s.conn[l] # "closed"
  PROVE  HandedOK(HandleClose(d, s, l))
<1> DEFINE S == {t \in Side : HandedOK(t)}
<1>1. Closed(s, l) \in S
  <2>1. HandedOK(Closed(s, l))
    BY ClosedIs
  <2>2. Closed(s, l) \in Side
    BY <2>1 DEF HandedOK
  <2>3. QED
    BY <2>1, <2>2
<1>2. \A t \in S, k \in Links : t.conn[k] = "keeping" => HandleNoiseStreamConnection(d, t, k) \in S
  BY HandleKeepsHanded DEF HandedOK
<1>3. HandleClose(d, s, l) \in S
  <2> HIDE DEF S
  <2>1. QED
    BY <1>1, <1>2, HandleCloseStays
<1>4. QED
  BY <1>3

-----------------------------------------------------------------------------
\* A connection that is kept waits for one that was destroyed, but for those in R.
Awaited(s, k) == \E j \in Links : s.conn[j] = "destroyed" /\ \E x \in DOMAIN s.waits[j] : s.waits[j][x] = k
WaitsBut(s, R) == \A k \in Links : s.conn[k] = "keeping" => Awaited(s, k) \/ k \in R

LEMMA HandleKeepsWaits ==
  ASSUME NEW d \in Hosts, NEW s, HandedOK(s), NEW l \in Links, s.conn[l] \in {"handshake", "keeping"},
         NEW R, WaitsBut(s, R)
  PROVE  WaitsBut(HandleNoiseStreamConnection(d, s, l), R \ {l})
<1> DEFINE t == HandleNoiseStreamConnection(d, s, l)
<1>1. s \in Side /\ l \notin s.handed /\ None \notin Links
  BY LocalDiscoveryAssumption DEF HandedOK
<1>2. t \in Side /\ (HandsOut(d, s, l, t) \/ Drops(d, s, l, t) \/ Swaps(d, s, l, t))
  BY <1>1, HandleIs
<1>3. /\ s.conn \in [Links -> ConnStages] /\ s.noiseConnections \in Links \cup {None}
      /\ s.waits \in [Links -> Seq(Links)]
  BY <1>1, SideIs
<1> HIDE DEF t
<1>4. ASSUME HandsOut(d, s, l, t) \/ Drops(d, s, l, t) PROVE WaitsBut(t, R \ {l})
  <2>1. PICK reached \in {"handed", "destroyed"} : t.conn = [s.conn EXCEPT ![l] = reached] /\ t.waits = s.waits
    BY <1>4 DEF HandsOut, Drops
  <2>2. ASSUME NEW k \in Links, t.conn[k] = "keeping" PROVE Awaited(t, k) \/ k \in R \ {l}
    <3>1. s.conn[k] = "keeping" /\ k # l
      BY <1>3, <2>1, <2>2
    <3>2. ASSUME Awaited(s, k) PROVE Awaited(t, k)
      <4>1. PICK j \in Links : s.conn[j] = "destroyed" /\ \E x \in DOMAIN s.waits[j] : s.waits[j][x] = k
        BY <3>2 DEF Awaited
      <4>2. t.conn[j] = "destroyed"
        BY <1>3, <2>1, <4>1
      <4>3. QED
        BY <2>1, <4>1, <4>2 DEF Awaited
    <3>3. QED
      BY <3>1, <3>2 DEF WaitsBut
  <2>3. QED
    BY <2>2 DEF WaitsBut
<1>5. ASSUME Swaps(d, s, l, t) PROVE WaitsBut(t, R \ {l})
  <2> DEFINE existing == s.noiseConnections
  <2>1. /\ existing \in Links /\ s.conn[existing] # "keeping" /\ existing # l
        /\ t.conn = [s.conn EXCEPT ![existing] = "destroyed", ![l] = "keeping"]
        /\ t.waits = [s.waits EXCEPT ![existing] = Append(s.waits[existing], l)]
    BY <1>1, <1>3, <1>5 DEF Swaps, HandedOK
  <2> HIDE DEF existing
  <2>2. \A j \in Links, k \in Links :
          (\E x \in DOMAIN s.waits[j] : s.waits[j][x] = k) => \E x \in DOMAIN t.waits[j] : t.waits[j][x] = k
    <3> SUFFICES ASSUME NEW j \in Links, NEW k, NEW x \in DOMAIN s.waits[j], s.waits[j][x] = k
                 PROVE  x \in DOMAIN t.waits[j] /\ t.waits[j][x] = k
      OBVIOUS
    <3>1. s.waits[j] \in Seq(Links)
      BY <1>3
    <3>2. t.waits[j] = s.waits[j] \/ t.waits[j] = Append(s.waits[j], l)
      BY <1>3, <2>1
    <3>3. QED
      BY <3>1, <3>2
  <2>3. \E x \in DOMAIN t.waits[existing] : t.waits[existing][x] = l
    <3>1. s.waits[existing] \in Seq(Links) /\ t.waits[existing] = Append(s.waits[existing], l)
      BY <1>3, <2>1
    <3>2. Len(s.waits[existing]) + 1 \in DOMAIN t.waits[existing] /\ t.waits[existing][Len(s.waits[existing]) + 1] = l
      BY <3>1
    <3>3. QED
      BY <3>2
  <2>4. ASSUME NEW k \in Links, t.conn[k] = "keeping" PROVE Awaited(t, k) \/ k \in R \ {l}
    <3>1. CASE k = l
      BY <1>3, <2>1, <2>3, <3>1 DEF Awaited
    <3>2. CASE k # l
      <4>1. s.conn[k] = "keeping"
        BY <1>3, <2>1, <2>4, <3>2
      <4>2. CASE k \in R
        BY <3>2, <4>2
      <4>3. CASE Awaited(s, k)
        <5>1. PICK j \in Links : s.conn[j] = "destroyed" /\ \E x \in DOMAIN s.waits[j] : s.waits[j][x] = k
          BY <4>3 DEF Awaited
        <5>2. t.conn[j] = "destroyed"
          BY <1>3, <2>1, <5>1
        <5>3. QED
          BY <2>2, <5>1, <5>2 DEF Awaited
      <4>4. QED
        BY <4>1, <4>2, <4>3 DEF WaitsBut
    <3>3. QED
      BY <3>1, <3>2
  <2>5. QED
    BY <2>4 DEF WaitsBut
<1>6. WaitsBut(t, R \ {l})
  BY <1>2, <1>4, <1>5
<1>7. QED
  BY <1>6 DEF t

LEMMA CloseKeepsWaits ==
  ASSUME NEW d \in Hosts, NEW s, HandedOK(s), NEW l \in Links, s.conn[l] # "closed", WaitsBut(s, {})
  PROVE  WaitsBut(HandleClose(d, s, l), {})
<1> DEFINE waiting == s.waits[l]
           n == Len(waiting)
           Rest(i) == {waiting[x] : x \in i + 1 .. n}
           Q == [i \in 0 .. n |-> {t \in Side : HandedOK(t) /\ WaitsBut(t, Rest(i))}]
<1>1. waiting \in Seq(Links) /\ n \in Nat
  BY ClosedIs
<1>2. HandleClose(d, s, l) = PromoteAll(d, Closed(s, l), waiting)
  BY DEF HandleClose, Closed
<1>3. Closed(s, l) \in Q[0]
  <2> DEFINE t == Closed(s, l)
  <2>1. /\ HandedOK(t) /\ t \in Side /\ t.conn = [s.conn EXCEPT ![l] = "closed"]
        /\ t.waits = [s.waits EXCEPT ![l] = <<>>]
    <3>1. /\ HandedOK(t) /\ t.conn = [s.conn EXCEPT ![l] = "closed"]
          /\ t.waits = [s.waits EXCEPT ![l] = <<>>]
      BY ClosedIs
    <3>2. QED
      BY <3>1 DEF HandedOK
  <2>2. s.conn \in [Links -> ConnStages] /\ s.waits \in [Links -> Seq(Links)]
    BY SideIs DEF HandedOK
  <2> HIDE DEF t
  <2>3. ASSUME NEW k \in Links, t.conn[k] = "keeping" PROVE Awaited(t, k) \/ k \in Rest(0)
    <3>1. s.conn[k] = "keeping" /\ k # l
      BY <2>1, <2>2, <2>3
    <3>2. PICK j \in Links : s.conn[j] = "destroyed" /\ \E x \in DOMAIN s.waits[j] : s.waits[j][x] = k
      BY <3>1 DEF WaitsBut, Awaited
    <3>3. CASE j = l
      <4>1. PICK x \in DOMAIN waiting : waiting[x] = k
        BY <3>2, <3>3
      <4>2. x \in 0 + 1 .. n
        BY <1>1
      <4>3. QED
        BY <4>1, <4>2
    <3>4. CASE j # l
      <4>1. t.conn[j] = "destroyed" /\ t.waits[j] = s.waits[j]
        BY <2>1, <2>2, <3>2, <3>4
      <4>2. QED
        BY <3>2, <4>1 DEF Awaited
    <3>5. QED
      BY <3>3, <3>4
  <2>4. WaitsBut(t, Rest(0))
    BY <2>3 DEF WaitsBut
  <2> HIDE DEF Rest
  <2>5. QED
    BY <1>1, <2>1, <2>4 DEF t
<1>4. ASSUME NEW i \in 1 .. n, NEW t \in Q[i - 1]
      PROVE  Promote(d, t, waiting[i]) \in Q[i]
  <2> DEFINE k == waiting[i]
             u == Promote(d, t, k)
  <2>1. t \in Side /\ HandedOK(t) /\ WaitsBut(t, Rest(i - 1))
    <3> HIDE DEF Rest, n
    <3>1. QED
      BY <1>1, <1>4
  <2>2. k \in Links
    BY <1>1
  <2>3. \A x \in Rest(i - 1) : x \in Rest(i) \/ x = k
    <3>1. \A x \in (i - 1) + 1 .. n : x \in i + 1 .. n \/ x = i
      BY <1>1
    <3>2. QED
      BY <3>1
  <2> HIDE DEF Rest
  <2>4. HandedOK(u) /\ WaitsBut(u, Rest(i))
    <3>1. CASE t.conn[k] = "keeping"
      <4>1. u = HandleNoiseStreamConnection(d, t, k)
        BY <3>1 DEF Promote
      <4>2. HandedOK(u)
        BY <2>1, <2>2, <3>1, <4>1, HandleKeepsHanded
      <4>3. WaitsBut(u, Rest(i - 1) \ {k})
        BY <2>1, <2>2, <3>1, <4>1, HandleKeepsWaits
      <4>4. QED
        BY <2>3, <4>2, <4>3 DEF WaitsBut
    <3>2. CASE t.conn[k] # "keeping"
      <4>1. u = t
        BY <3>2 DEF Promote
      <4>2. QED
        BY <2>1, <2>3, <3>2, <4>1 DEF WaitsBut
    <3>3. QED
      BY <3>1, <3>2
  <2>5. u \in Side
    BY <2>4 DEF HandedOK
  <2> HIDE DEF u, n
  <2>6. QED
    BY <1>1, <2>4, <2>5 DEF u
<1>5. PromoteAll(d, Closed(s, l), waiting) \in Q[n]
  <2> HIDE DEF Q, waiting
  <2>1. QED
    BY <1>1, <1>3, <1>4, PromoteAllIs
<1>6. WaitsBut(PromoteAll(d, Closed(s, l), waiting), Rest(n)) /\ Rest(n) = {}
  <2>1. Rest(n) = {}
    BY <1>1
  <2>2. n \in 0 .. n
    BY <1>1
  <2> HIDE DEF Rest, n
  <2>3. WaitsBut(PromoteAll(d, Closed(s, l), waiting), Rest(n))
    BY <1>5, <2>2
  <2>4. QED
    BY <2>1, <2>3
<1>7. QED
  BY <1>2, <1>6

-----------------------------------------------------------------------------
(***************************************************************************)
(* Of one device: what a stream that comes up or closes leaves as it is.   *)
(***************************************************************************)
\* Links that are not connected stay so, and no other becomes one of them.
Quiet(s, t) ==
  \A k \in Links : /\ s.conn[k] \in {"none", "dialling"} => t.conn[k] = s.conn[k]
                   /\ t.conn[k] \in {"none", "dialling"} => s.conn[k] = t.conn[k]

LEMMA QuietFollows ==
  ASSUME NEW s, NEW t, NEW u, Quiet(s, t), Quiet(t, u)
  PROVE  Quiet(s, u)
BY DEF Quiet

LEMMA HandleIsQuiet ==
  ASSUME NEW d \in Hosts, NEW s, HandedOK(s), NEW l \in Links, s.conn[l] \in {"handshake", "keeping"}
  PROVE  Quiet(s, HandleNoiseStreamConnection(d, s, l))
<1> DEFINE t == HandleNoiseStreamConnection(d, s, l)
<1>1. s \in Side /\ None \notin Links
  BY LocalDiscoveryAssumption DEF HandedOK
<1>2. t \in Side /\ (HandsOut(d, s, l, t) \/ Drops(d, s, l, t) \/ Swaps(d, s, l, t))
  BY <1>1, HandleIs
<1>3. s.conn \in [Links -> ConnStages] /\ s.noiseConnections \in Links \cup {None}
  BY <1>1, SideIs
<1>4. s.noiseConnections # None => s.conn[s.noiseConnections] \in {"handed", "destroyed"}
  BY <1>3 DEF HandedOK
<1> HIDE DEF t
<1>5. Quiet(s, t)
  BY <1>2, <1>3, <1>4 DEF Quiet, HandsOut, Drops, Swaps
<1>6. QED
  BY <1>5 DEF t

LEMMA CloseIsQuiet ==
  ASSUME NEW d \in Hosts, NEW s, HandedOK(s), NEW l \in Links, s.conn[l] \notin {"none", "dialling", "closed"}
  PROVE  Quiet(s, HandleClose(d, s, l))
<1> DEFINE S == {t \in Side : HandedOK(t) /\ Quiet(s, t)}
<1>1. Closed(s, l) \in S
  <2>1. HandedOK(Closed(s, l)) /\ Closed(s, l).conn = [s.conn EXCEPT ![l] = "closed"]
    BY ClosedIs
  <2>2. s.conn \in [Links -> ConnStages] /\ Closed(s, l) \in Side
    BY <2>1, SideIs DEF HandedOK
  <2>3. Quiet(s, Closed(s, l))
    BY <2>1, <2>2 DEF Quiet
  <2>4. QED
    BY <2>1, <2>2, <2>3
<1>2. ASSUME NEW t \in S, NEW k \in Links, t.conn[k] = "keeping"
      PROVE  HandleNoiseStreamConnection(d, t, k) \in S
  <2>1. HandedOK(HandleNoiseStreamConnection(d, t, k))
    BY <1>2, HandleKeepsHanded
  <2>2. Quiet(s, HandleNoiseStreamConnection(d, t, k))
    BY <1>2, HandleIsQuiet, QuietFollows
  <2>3. QED
    BY <2>1, <2>2 DEF HandedOK
<1>3. HandleClose(d, s, l) \in S
  <2> HIDE DEF S
  <2>1. QED
    BY <1>1, <1>2, HandleCloseStays
<1>4. QED
  BY <1>3

-----------------------------------------------------------------------------
(***************************************************************************)
(* Two devices that dialled each other: the link of the device with the    *)
(* smaller key is kept on both.                                            *)
(***************************************************************************)
Wins(l) == by[l] \in Hosts /\ Key[by[l]] < Key[Other(by[l])]
Up == {"keeping", "handed"}
Gone == {"destroyed", "closed"}

\* Each device dialled once, and both listen.
Calm == /\ \A d \in Hosts : server[d] = "listening"
        /\ \A k, l \in Links : by[k] = by[l] /\ by[k] # None => k = l

Dialled(s) == \A k \in Links : s.conn[k] \notin {"none", "dialling"} => by[k] \in Hosts

\* On the way from s to t winners stay up and are not lost.
WinnersStay(s, t) ==
  \A k \in Links : Wins(k) => t.conn[k] \notin Gone /\ (s.conn[k] \in Up => t.conn[k] \in Up)

\* Of two links, one of each device, the one that is kept wins.
LEMMA KeepsWinner ==
  ASSUME Calm, NEW d \in Hosts, NEW k \in Links, NEW l \in Links, k # l, by[k] \in Hosts, by[l] \in Hosts
  PROVE  /\ KeepExisting(d, k, l) <=> ~ Wins(l)
         /\ Wins(k) <=> ~ Wins(l)
<1>1. by[k] # by[l]
  BY LocalDiscoveryAssumption DEF Calm
<1>2. /\ Other(d) \in Hosts /\ Other(d) # d /\ Other(Other(d)) = d
      /\ \A e \in Hosts : e = d \/ e = Other(d)
  BY TwoHosts
<1>3. Key[d] \in Int /\ Key[Other(d)] \in Int /\ Key[d] # Key[Other(d)]
  BY <1>2, LocalDiscoveryAssumption
<1>4. (by[l] = d /\ by[k] = Other(d)) \/ (by[l] = Other(d) /\ by[k] = d)
  <2>1. by[l] \in Hosts /\ by[k] \in Hosts
    OBVIOUS
  <2>2. (by[l] = d \/ by[l] = Other(d)) /\ (by[k] = d \/ by[k] = Other(d))
    BY <1>2, <2>1
  <2>3. QED
    BY <1>1, <2>2
<1>5. CASE by[l] = d /\ by[k] = Other(d)
  BY <1>2, <1>3, <1>5 DEF KeepExisting, IsInitiator, Wins
<1>6. CASE by[l] = Other(d) /\ by[k] = d
  BY <1>2, <1>3, <1>6 DEF KeepExisting, IsInitiator, Wins
<1>7. QED
  BY <1>4, <1>5, <1>6

LEMMA HandleKeepsWinners ==
  ASSUME Calm, NEW d \in Hosts, NEW s, HandedOK(s), Dialled(s), WinnersStay(s, s),
         NEW l \in Links, s.conn[l] \in {"handshake", "keeping"}
  PROVE  LET t == HandleNoiseStreamConnection(d, s, l)
         IN /\ WinnersStay(s, t) /\ WinnersStay(t, t) /\ Dialled(t)
            /\ \/ \E k \in Links : Wins(k) /\ t.conn[k] \in Up
               \/ \A k \in Links : t.conn[k] \in Gone => s.conn[k] \in Gone
<1> DEFINE t == HandleNoiseStreamConnection(d, s, l)
           existing == s.noiseConnections
<1>1. s \in Side /\ l \notin s.handed /\ None \notin Links
  BY LocalDiscoveryAssumption DEF HandedOK
<1>2. t \in Side /\ (HandsOut(d, s, l, t) \/ Drops(d, s, l, t) \/ Swaps(d, s, l, t))
  BY <1>1, HandleIs
<1>3. s.conn \in [Links -> ConnStages] /\ s.noiseConnections \in Links \cup {None}
  BY <1>1, SideIs
<1>4. existing # None => /\ existing \in Links /\ existing # l /\ s.conn[existing] \in {"handed", "destroyed"}
                         /\ by[existing] \in Hosts
  BY <1>1, <1>3 DEF HandedOK, Dialled
<1>5. by[l] \in Hosts
  BY DEF Dialled
<1>6. Dialled(t)
  <2>1. Quiet(s, t)
    BY HandleIsQuiet
  <2> HIDE DEF t
  <2>2. QED
    BY <2>1 DEF Quiet, Dialled
<1>7. existing # None => /\ KeepExisting(d, existing, l) <=> ~ Wins(l)
                         /\ Wins(existing) <=> ~ Wins(l)
  BY <1>4, <1>5, KeepsWinner
<1> HIDE DEF t, existing
<1>8. server[d] = "listening"
  BY DEF Calm
<1> DEFINE Holds == /\ WinnersStay(s, t) /\ WinnersStay(t, t)
                    /\ \/ \E k \in Links : Wins(k) /\ t.conn[k] \in Up
                       \/ \A k \in Links : t.conn[k] \in Gone => s.conn[k] \in Gone
<1>9. ASSUME HandsOut(d, s, l, t) PROVE Holds
  BY <1>3, <1>9 DEF HandsOut, WinnersStay, Up, Gone
<1>10. ASSUME Drops(d, s, l, t) PROVE Holds
  <2>1. existing # None /\ ~ Wins(l) /\ Wins(existing) /\ existing \in Links /\ existing # l
    BY <1>4, <1>7, <1>8, <1>10 DEF Drops, existing
  <2>2. t.conn = [s.conn EXCEPT ![l] = "destroyed"]
    BY <1>10 DEF Drops
  <2>3. s.conn[existing] = "handed"
    BY <1>4, <2>1 DEF WinnersStay, Gone
  <2>4. t.conn[existing] \in Up
    BY <1>3, <2>1, <2>2, <2>3 DEF Up
  <2>5. WinnersStay(s, t) /\ WinnersStay(t, t)
    BY <1>3, <2>1, <2>2 DEF WinnersStay, Gone
  <2>6. QED
    BY <2>1, <2>4, <2>5
<1>11. ASSUME Swaps(d, s, l, t) PROVE Holds
  <2>1. existing # None /\ Wins(l) /\ ~ Wins(existing) /\ existing \in Links /\ existing # l
    BY <1>4, <1>7, <1>11 DEF Swaps, existing
  <2>2. t.conn = [s.conn EXCEPT ![existing] = "destroyed", ![l] = "keeping"]
    BY <1>11 DEF Swaps, existing
  <2>3. t.conn[l] = "keeping" /\ \A k \in Links : k # l /\ k # existing => t.conn[k] = s.conn[k]
    BY <1>3, <2>1, <2>2
  <2>4. WinnersStay(s, t) /\ WinnersStay(t, t)
    BY <2>1, <2>3 DEF WinnersStay, Up, Gone
  <2>5. QED
    BY <2>1, <2>3, <2>4 DEF Up
<1>12. QED
  BY <1>2, <1>6, <1>9, <1>10, <1>11 DEF t

LEMMA CloseKeepsWinners ==
  ASSUME Calm, NEW d \in Hosts, NEW s, HandedOK(s), Dialled(s), WinnersStay(s, s),
         NEW l \in Links, s.conn[l] \notin {"none", "dialling", "closed"}, ~ Wins(l)
  PROVE  LET t == HandleClose(d, s, l)
         IN WinnersStay(s, t) /\ WinnersStay(t, t)
<1> DEFINE S == {t \in Side : HandedOK(t) /\ Dialled(t) /\ WinnersStay(s, t) /\ WinnersStay(t, t)}
<1>1. Closed(s, l) \in S
  <2>1. HandedOK(Closed(s, l)) /\ Closed(s, l).conn = [s.conn EXCEPT ![l] = "closed"]
    BY ClosedIs
  <2>2. s.conn \in [Links -> ConnStages] /\ Closed(s, l) \in Side
    BY <2>1, SideIs DEF HandedOK
  <2>3. Dialled(Closed(s, l))
    BY <2>1, <2>2 DEF Dialled
  <2>4. WinnersStay(s, Closed(s, l)) /\ WinnersStay(Closed(s, l), Closed(s, l))
    BY <2>1, <2>2 DEF WinnersStay
  <2>5. QED
    BY <2>1, <2>2, <2>3, <2>4
<1>2. ASSUME NEW t \in S, NEW k \in Links, t.conn[k] = "keeping"
      PROVE  HandleNoiseStreamConnection(d, t, k) \in S
  <2> DEFINE u == HandleNoiseStreamConnection(d, t, k)
  <2>1. HandedOK(u)
    BY <1>2, HandleKeepsHanded
  <2>2. WinnersStay(t, u) /\ WinnersStay(u, u) /\ Dialled(u)
    BY <1>2, HandleKeepsWinners
  <2> HIDE DEF u
  <2>3. WinnersStay(s, u)
    BY <2>2 DEF WinnersStay
  <2>4. u \in S
    BY <2>1, <2>2, <2>3 DEF HandedOK
  <2>5. QED
    BY <2>4 DEF u
<1>3. HandleClose(d, s, l) \in S
  <2> HIDE DEF S
  <2>1. QED
    BY <1>1, <1>2, HandleCloseStays
<1>4. QED
  BY <1>3


-----------------------------------------------------------------------------
(***************************************************************************)
(* The invariant.                                                          *)
(***************************************************************************)
DiscoveryTypes ==
  /\ by \in [Links -> Hosts \cup {None}] /\ cut \in SUBSET Links
  /\ side \in [Hosts -> Side]
  /\ server \in [Hosts -> {"stopped", "listening", "closing", "failed"}]
  /\ force \in [Hosts -> {"no", "timer", "last"}]
  /\ \A d \in Hosts : stops[d] \in 0 .. MaxStops[d]
  /\ DOMAIN stops = Hosts

SidesOK == \A d \in Hosts : HandedOK(side[d]) /\ WaitsBut(side[d], {})

\* A link is not dialled, or is at its dialler only, or has been at both ends.
DialsOK ==
  \A l \in Links :
    \/ by[l] = None /\ \A d \in Hosts : At(d, l, {"none"})
    \/ by[l] \in Hosts /\ At(by[l], l, {"dialling"}) /\ At(Other(by[l]), l, {"none"})
    \/ by[l] \in Hosts /\ \A d \in Hosts : ~ At(d, l, {"none", "dialling"})

\* Undisturbed, an end goes only if it is no winner and a winner is up.
WinnersKept ==
  Undisturbed =>
    /\ \A d \in Hosts : server[d] = "listening"
    /\ \A d \in Hosts, l \in Links :
         At(d, l, Gone) => ~ Wins(l) /\ \E e \in Hosts, k \in Links : Wins(k) /\ At(e, k, Up)

DiscoveryInv == DiscoveryTypes /\ SidesOK /\ DialsOK /\ WinnersKept

LEMMA DiscoveryInitInv == DiscoveryInit => DiscoveryInv
<1> SUFFICES ASSUME DiscoveryInit PROVE DiscoveryInv
  OBVIOUS
<1> DEFINE s == [conn |-> [l \in Links |-> "none"], noiseConnections |-> None,
                 waits |-> [l \in Links |-> <<>>], handed |-> {}]
<1>1. /\ s \in Side /\ s.conn = [l \in Links |-> "none"] /\ s.handed = {} /\ s.noiseConnections = None
  BY DEF Side, ConnStages
<1>2. side = [d \in Hosts |-> s]
  BY DEF DiscoveryInit
<1> HIDE DEF s
<1>3. /\ side \in [Hosts -> Side] /\ \A d \in Hosts : side[d] = s
      /\ \A d \in Hosts, l \in Links : side[d].conn[l] = "none"
  BY <1>1, <1>2
<1>4. DiscoveryTypes
  <2>1. \A d \in Hosts : MaxStops[d] \in Nat
    BY LocalDiscoveryAssumption
  <2>2. stops = [d \in Hosts |-> 0] /\ \A d \in Hosts : stops[d] \in 0 .. MaxStops[d]
    BY <2>1 DEF DiscoveryInit
  <2>3. QED
    BY <1>3, <2>2 DEF DiscoveryInit, DiscoveryTypes
<1>5. SidesOK
  <2>1. None \notin Links /\ \A l \in Links : s.conn[l] = "none"
    BY <1>1, LocalDiscoveryAssumption
  <2>2. HandedOK(s) /\ WaitsBut(s, {})
    BY <1>1, <2>1 DEF HandedOK, WaitsBut
  <2>3. ASSUME NEW d \in Hosts PROVE HandedOK(side[d]) /\ WaitsBut(side[d], {})
    <3>1. side[d] = s
      BY <1>3
    <3>2. QED
      BY <2>2, <3>1
  <2>4. QED
    BY <2>3 DEF SidesOK
<1>6. DialsOK
  BY <1>3 DEF DialsOK, At, DiscoveryInit
<1>7. WinnersKept
  BY <1>3 DEF WinnersKept, At, Gone, DiscoveryInit
<1>8. QED
  BY <1>4, <1>5, <1>6, <1>7 DEF DiscoveryInv

\* A step that leaves the sides and the diallers as they are.
LEMMA SidesStay ==
  ASSUME DiscoveryInv, DiscoveryTypes', UNCHANGED <<by, side>>,
         Undisturbed' => Undisturbed /\ \A d \in Hosts : server'[d] = "listening"
  PROVE  DiscoveryInv'
<1>1. SidesOK' /\ DialsOK'
  BY DEF DiscoveryInv, SidesOK, DialsOK, At
<1>2. WinnersKept'
  BY DEF DiscoveryInv, WinnersKept, Wins, At
<1>3. QED
  BY <1>1, <1>2 DEF DiscoveryInv

LEMMA UndisturbedBefore ==
  ASSUME DiscoveryTypes, UNCHANGED <<by, stops>>, cut \subseteq cut', Undisturbed'
  PROVE  Undisturbed
BY DEF Undisturbed

LEMMA CutKeeps == ASSUME DiscoveryInv, NEW l \in Links, Cut(l) PROVE DiscoveryInv'
<1>1. DiscoveryTypes'
  BY DEF DiscoveryInv, DiscoveryTypes, Cut
<1>2. ~ Undisturbed'
  BY DEF Undisturbed, Cut
<1>3. QED
  BY <1>1, <1>2, SidesStay DEF Cut

LEMMA StartKeeps == ASSUME DiscoveryInv, NEW d \in Hosts, Start(d) PROVE DiscoveryInv'
<1>1. DiscoveryTypes'
  BY DEF DiscoveryInv, DiscoveryTypes, Start
<1>2. ASSUME Undisturbed' PROVE Undisturbed /\ \A e \in Hosts : server'[e] = "listening"
  <2>1. Undisturbed
    BY <1>2 DEF Undisturbed, Start
  <2>2. QED
    BY <2>1 DEF DiscoveryInv, WinnersKept, Start
<1>3. QED
  BY <1>1, <1>2, SidesStay DEF Start

LEMMA StopKeeps == ASSUME DiscoveryInv, NEW d \in Hosts, Stop(d) PROVE DiscoveryInv'
<1>0. PICK f \in {"no", "timer"} : force' = [force EXCEPT ![d] = f]
  BY DEF Stop
<1>a. stops' = [stops EXCEPT ![d] = stops[d] + 1] /\ stops[d] < MaxStops[d]
  BY DEF Stop
<1>b. \A e \in Hosts : MaxStops[e] \in Nat /\ stops[e] \in 0 .. MaxStops[e]
  BY LocalDiscoveryAssumption DEF DiscoveryInv, DiscoveryTypes
<1>c. DOMAIN stops = Hosts
  BY DEF DiscoveryInv, DiscoveryTypes
<1>d. DOMAIN stops' = Hosts /\ stops'[d] = stops[d] + 1 /\ \A e \in Hosts : e # d => stops'[e] = stops[e]
  BY <1>a, <1>c
<1>e. \A e \in Hosts : stops'[e] \in 0 .. MaxStops[e]
  BY <1>a, <1>b, <1>d
<1>1. DiscoveryTypes'
  BY <1>0, <1>d, <1>e DEF DiscoveryInv, DiscoveryTypes, Stop
<1>2. ~ Undisturbed'
  BY <1>b, <1>d DEF Undisturbed
<1>3. QED
  BY <1>1, <1>2, SidesStay DEF Stop

LEMMA StoppedKeeps ==
  ASSUME DiscoveryInv, NEW d \in Hosts, Stopped(d) \/ StopFails(d)
  PROVE  DiscoveryInv'
<1>1. DiscoveryTypes'
  BY DEF DiscoveryInv, DiscoveryTypes, Stopped, StopFails
<1>2. ~ Undisturbed'
  <2>1. server[d] = "closing" /\ UNCHANGED <<by, cut, stops>>
    BY DEF Stopped, StopFails
  <2>2. QED
    BY <2>1 DEF DiscoveryInv, WinnersKept, Undisturbed
<1>3. QED
  BY <1>1, <1>2, SidesStay DEF Stopped, StopFails

\* What a step at one end of connected links has to keep.
LEMMA OneSideKeeps ==
  ASSUME DiscoveryInv, NEW d \in Hosts, NEW t, side' = [side EXCEPT ![d] = t],
         HandedOK(t), WaitsBut(t, {}), Quiet(side[d], t),
         DiscoveryTypes', UNCHANGED by, WinnersKept'
  PROVE  DiscoveryInv'
<1>1. side \in [Hosts -> Side]
  BY DEF DiscoveryInv, DiscoveryTypes
<1>2. side'[d] = t /\ \A e \in Hosts : e # d => side'[e] = side[e]
  BY <1>1
<1>3. \A e \in Hosts : side'[e] = t \/ side'[e] = side[e]
  BY <1>2
<1>4. SidesOK'
  <2> SUFFICES ASSUME NEW e \in Hosts PROVE HandedOK(side'[e]) /\ WaitsBut(side'[e], {})
    BY DEF SidesOK, HandedOK, WaitsBut, Awaited, Side
  <2>1. QED
    BY <1>3 DEF DiscoveryInv, SidesOK
<1>5. DialsOK'
  <2>1. \A e \in Hosts : Quiet(side[e], side'[e])
    BY <1>2 DEF Quiet
  <2>2. \A e \in Hosts, l \in Links :
          /\ side[e].conn[l] \in {"none", "dialling"} => side'[e].conn[l] = side[e].conn[l]
          /\ side'[e].conn[l] \in {"none", "dialling"} => side[e].conn[l] = side'[e].conn[l]
    BY <2>1 DEF Quiet
  <2>3. \A e \in Hosts : Other(e) \in Hosts
    BY TwoHosts
  <2>4. QED
    BY <2>2, <2>3 DEF DiscoveryInv, DialsOK, At
<1>6. QED
  BY <1>4, <1>5 DEF DiscoveryInv

\* Undisturbed, both ends are as the lemmas on winners want them.
LEMMA UndisturbedIs ==
  ASSUME DiscoveryInv, Undisturbed, NEW d \in Hosts
  PROVE  Calm /\ Dialled(side[d]) /\ WinnersStay(side[d], side[d])
<1>1. Calm
  BY DEF DiscoveryInv, WinnersKept, Undisturbed, Calm
<1>2. Dialled(side[d])
  <2>1. \A e \in Hosts : e = d \/ e = Other(d)
    BY TwoHosts
  <2>2. QED
    BY <2>1 DEF DiscoveryInv, DialsOK, At, Dialled
<1>3. WinnersStay(side[d], side[d])
  BY DEF DiscoveryInv, WinnersKept, At, WinnersStay, Gone
<1>4. QED
  BY <1>1, <1>2, <1>3

\* A step of one side that keeps the winners, and loses another link only if it
\* was lost or a winner is up there.
LEMMA WinnersKeptBy ==
  ASSUME DiscoveryInv, NEW d \in Hosts, NEW t, side' = [side EXCEPT ![d] = t],
         UNCHANGED <<by, cut, server, stops>>,
         Undisturbed => /\ WinnersStay(side[d], t)
                        /\ \/ \E k \in Links : Wins(k) /\ t.conn[k] \in Up
                           \/ \E e \in Hosts, k \in Links : At(e, k, Gone)
                           \/ \A k \in Links : t.conn[k] \in Gone => side[d].conn[k] \in Gone
  PROVE  WinnersKept'
<1> SUFFICES ASSUME Undisturbed' PROVE WinnersKept'
  BY DEF WinnersKept
<1>1. Undisturbed
  BY UndisturbedBefore DEF DiscoveryInv
<1>2. side'[d] = t /\ \A e \in Hosts : e # d => side'[e] = side[e]
  BY DEF DiscoveryInv, DiscoveryTypes
<1>3. \A k \in Links : Wins(k)' = Wins(k)
  BY DEF Wins
<1>4. \A k \in Links : Wins(k) => t.conn[k] \notin Gone
  BY <1>1 DEF WinnersStay
<1>5. \A e \in Hosts, k \in Links : Wins(k) /\ side[e].conn[k] \in Up => side'[e].conn[k] \in Up
  BY <1>1, <1>2 DEF WinnersStay
<1>6. ASSUME NEW e \in Hosts, NEW k \in Links, side'[e].conn[k] \in Gone
      PROVE  ~ Wins(k) /\ \E f \in Hosts, j \in Links : Wins(j) /\ side'[f].conn[j] \in Up
  <2>1. ~ Wins(k)
    BY <1>1, <1>2, <1>4, <1>6 DEF DiscoveryInv, WinnersKept, At
  <2>2. CASE \E j \in Links : Wins(j) /\ t.conn[j] \in Up
    BY <1>2, <2>1, <2>2
  <2>3. CASE \E f \in Hosts, j \in Links : At(f, j, Gone)
    <3>1. PICK f \in Hosts, j \in Links : Wins(j) /\ side[f].conn[j] \in Up
      BY <1>1, <2>3 DEF DiscoveryInv, WinnersKept, At
    <3>2. QED
      BY <1>5, <2>1, <3>1
  <2>4. CASE \A j \in Links : t.conn[j] \in Gone => side[d].conn[j] \in Gone
    <3>1. side[e].conn[k] \in Gone
      BY <1>2, <1>6, <2>4
    <3>2. QED
      BY <2>1, <2>3, <3>1 DEF At
  <2>5. QED
    BY <1>1, <2>2, <2>3, <2>4
<1>7. \A e \in Hosts : server'[e] = "listening"
  BY <1>1 DEF DiscoveryInv, WinnersKept
<1>8. QED
  BY <1>3, <1>6, <1>7 DEF WinnersKept, At, Wins, Gone, Up

LEMMA NoiseConnectKeeps ==
  ASSUME DiscoveryInv, NEW d \in Hosts, NEW l \in Links, NoiseConnect(d, l)
  PROVE  DiscoveryInv'
<1> DEFINE s == side[d]
           t == HandleNoiseStreamConnection(d, s, l)
<1>1. HandedOK(s) /\ WaitsBut(s, {}) /\ s.conn[l] = "handshake"
  BY DEF DiscoveryInv, SidesOK, NoiseConnect, At
<1>2. side' = [side EXCEPT ![d] = t]
  BY DEF NoiseConnect
<1>3. HandedOK(t) /\ Quiet(s, t)
  BY <1>1, HandleKeepsHanded, HandleIsQuiet
<1>4. WaitsBut(t, {})
  <2>1. WaitsBut(t, {} \ {l})
    BY <1>1, HandleKeepsWaits
  <2> HIDE DEF t
  <2>2. QED
    BY <2>1 DEF WaitsBut
<1>5. Undisturbed => /\ WinnersStay(s, t)
                     /\ \/ \E k \in Links : Wins(k) /\ t.conn[k] \in Up
                        \/ \A k \in Links : t.conn[k] \in Gone => s.conn[k] \in Gone
  BY <1>1, UndisturbedIs, HandleKeepsWinners
<1> HIDE DEF t
<1>6. DiscoveryTypes'
  BY <1>2, <1>3 DEF DiscoveryInv, DiscoveryTypes, NoiseConnect, HandedOK
<1>7. WinnersKept'
  BY <1>2, <1>5, WinnersKeptBy DEF NoiseConnect
<1>8. QED
  BY <1>2, <1>3, <1>4, <1>6, <1>7, OneSideKeeps DEF NoiseConnect

LEMMA NoiseCloseKeeps ==
  ASSUME DiscoveryInv, NEW d \in Hosts, NEW l \in Links, NoiseClose(d, l)
  PROVE  DiscoveryInv'
<1> DEFINE s == side[d]
           t == HandleClose(d, s, l)
<1>1. HandedOK(s) /\ WaitsBut(s, {}) /\ s.conn[l] \notin {"none", "dialling", "closed"}
  BY DEF DiscoveryInv, SidesOK, NoiseClose, At
<1>2. side' = [side EXCEPT ![d] = t]
  BY DEF NoiseClose
<1>3. HandedOK(t) /\ Quiet(s, t) /\ WaitsBut(t, {})
  BY <1>1, CloseKeepsHanded, CloseIsQuiet, CloseKeepsWaits
<1>5. ASSUME Undisturbed
      PROVE  WinnersStay(s, t) /\ \E e \in Hosts, k \in Links : At(e, k, Gone)
  <2>1. PICK e \in Hosts : At(e, l, Gone)
    BY <1>5, TwoHosts DEF NoiseClose, Undisturbed, At, Gone
  <2>2. ~ Wins(l)
    BY <1>5, <2>1 DEF DiscoveryInv, WinnersKept
  <2>3. WinnersStay(s, t)
    BY <1>1, <1>5, <2>2, UndisturbedIs, CloseKeepsWinners
  <2>4. QED
    BY <2>1, <2>3
<1> HIDE DEF t
<1>6. DiscoveryTypes'
  BY <1>2, <1>3 DEF DiscoveryInv, DiscoveryTypes, NoiseClose, HandedOK
<1>7. WinnersKept'
  BY <1>2, <1>5, WinnersKeptBy DEF NoiseClose
<1>8. QED
  BY <1>2, <1>3, <1>6, <1>7, OneSideKeeps DEF NoiseClose

\* A connection that is open or closed may be destroyed once more.
LEMMA ForceCloseKeeps ==
  ASSUME DiscoveryInv, NEW d \in Hosts, ForceClose(d)
  PROVE  DiscoveryInv'
<1>1. server[d] = "closing" /\ UNCHANGED <<by, cut, server, stops>>
  BY DEF ForceClose
<1>2. ~ Undisturbed'
  BY <1>1 DEF DiscoveryInv, WinnersKept, Undisturbed
<1>3. CASE side[d].noiseConnections = None
  <2>1. side' = side
    BY <1>3 DEF ForceClose
  <2>2. DiscoveryTypes'
    BY <2>1 DEF DiscoveryInv, DiscoveryTypes, ForceClose
  <2>3. QED
    BY <1>1, <1>2, <2>1, <2>2, SidesStay
<1>4. CASE side[d].noiseConnections # None
  <2> DEFINE s == side[d]
             l == s.noiseConnections
             conn == [s.conn EXCEPT ![l] = "destroyed"]
             t == [s EXCEPT !.conn = conn]
  <2>1. HandedOK(s) /\ WaitsBut(s, {}) /\ s \in Side
    BY DEF DiscoveryInv, SidesOK, HandedOK
  <2>2. /\ s.conn \in [Links -> ConnStages] /\ s.noiseConnections \in Links \cup {None}
        /\ s.waits \in [Links -> Seq(Links)] /\ s.handed \subseteq Links
        /\ s = [conn |-> s.conn, noiseConnections |-> s.noiseConnections,
                waits |-> s.waits, handed |-> s.handed]
    BY <2>1, SideIs
  <2>3. l \in Links /\ l \in s.handed /\ s.conn[l] \in {"handed", "destroyed"}
    BY <1>4, <2>1, <2>2 DEF HandedOK
  <2>4. side' = [side EXCEPT ![d] = t]
    BY <1>4 DEF ForceClose
  <2>5. t = [conn |-> conn, noiseConnections |-> s.noiseConnections, waits |-> s.waits, handed |-> s.handed]
    <3> HIDE DEF conn, l
    <3>1. QED
      BY <2>1 DEF Side
  <2>6. conn \in [Links -> ConnStages]
    BY <2>2 DEF ConnStages
  <2>7. /\ conn[l] = "destroyed" /\ \A k \in Links : k # l => conn[k] = s.conn[k]
        /\ \A k \in Links : s.conn[k] = "destroyed" => conn[k] = "destroyed"
    BY <2>2, <2>3
  <2>8. s.noiseConnections = l
    OBVIOUS
  <2> HIDE DEF t, conn, l
  <2>9. t \in Side
    BY <2>2, <2>5, <2>6 DEF Side
  <2>10. HandedOK(t)
    <3>1. t.conn = conn /\ t.noiseConnections = l /\ t.handed = s.handed
      BY <2>5, <2>8
    <3>2. /\ \A k \in s.handed : k \in Links /\ s.conn[k] \in {"handed", "destroyed", "closed"}
          /\ \A k \in Links : (k \in s.handed /\ s.conn[k] # "closed") <=> k = l
      BY <2>1, <2>2, <2>8 DEF HandedOK
    <3>3. \A k \in t.handed : t.conn[k] \in {"handed", "destroyed", "closed"}
      BY <2>7, <3>1, <3>2
    <3>4. \A k \in Links : (k \in t.handed /\ t.conn[k] # "closed") <=> k = t.noiseConnections
      BY <2>3, <2>7, <3>1, <3>2
    <3>5. QED
      BY <2>9, <3>3, <3>4 DEF HandedOK
  <2>11. WaitsBut(t, {})
    <3>1. t.conn = conn /\ t.waits = s.waits
      BY <2>5
    <3>2. ASSUME NEW k \in Links, conn[k] = "keeping" PROVE Awaited(s, k)
      BY <2>1, <2>7, <3>2 DEF WaitsBut
    <3>3. ASSUME NEW k, Awaited(s, k) PROVE Awaited(t, k)
      BY <2>7, <3>1, <3>3 DEF Awaited
    <3>4. QED
      BY <3>1, <3>2, <3>3 DEF WaitsBut
  <2>12. Quiet(s, t)
    BY <2>3, <2>5, <2>7 DEF Quiet
  <2>13. DiscoveryTypes'
    BY <2>4, <2>9 DEF DiscoveryInv, DiscoveryTypes, ForceClose
  <2>14. QED
    BY <1>1, <1>2, <2>4, <2>10, <2>11, <2>12, <2>13, OneSideKeeps DEF WinnersKept
<1>5. QED
  BY <1>3, <1>4

\* A link before its streams are connected: neither awaited nor handed out.
LEMMA StageKeeps ==
  ASSUME NEW s, HandedOK(s), WaitsBut(s, {}), NEW l \in Links, s.conn[l] \in {"none", "dialling"},
         NEW reached \in {"dialling", "handshake", "closed"}
  PROVE  LET t == [s EXCEPT !.conn[l] = reached]
         IN HandedOK(t) /\ WaitsBut(t, {}) /\ t.conn = [s.conn EXCEPT ![l] = reached]
<1> DEFINE conn == [s.conn EXCEPT ![l] = reached]
           t == [s EXCEPT !.conn = conn]
<1>1. /\ s.conn \in [Links -> ConnStages] /\ s.noiseConnections \in Links \cup {None}
      /\ s.waits \in [Links -> Seq(Links)] /\ s.handed \subseteq Links
      /\ s = [conn |-> s.conn, noiseConnections |-> s.noiseConnections,
              waits |-> s.waits, handed |-> s.handed]
  BY SideIs DEF HandedOK
<1>2. t = [conn |-> conn, noiseConnections |-> s.noiseConnections, waits |-> s.waits, handed |-> s.handed]
  <2>1. s \in Side
    BY DEF HandedOK
  <2> HIDE DEF conn
  <2>2. QED
    BY <2>1, SideIs
<1>3. conn \in [Links -> ConnStages]
  BY <1>1 DEF ConnStages
<1>4. conn[l] = reached /\ \A k \in Links : k # l => conn[k] = s.conn[k]
  BY <1>1
<1>5. [s EXCEPT !.conn[l] = reached] = t
  OBVIOUS
<1>6. conn = [s.conn EXCEPT ![l] = reached]
  OBVIOUS
<1> HIDE DEF t, conn
<1>7. t \in Side
  BY <1>1, <1>2, <1>3 DEF Side
<1>8. l \notin s.handed /\ l # s.noiseConnections
  BY DEF HandedOK
<1>9. HandedOK(t)
  <2>1. t.conn = conn /\ t.noiseConnections = s.noiseConnections /\ t.handed = s.handed
    BY <1>2
  <2>2. /\ \A k \in s.handed : k \in Links /\ s.conn[k] \in {"handed", "destroyed", "closed"}
        /\ \A k \in Links : (k \in s.handed /\ s.conn[k] # "closed") <=> k = s.noiseConnections
    BY <1>1 DEF HandedOK
  <2>3. \A k \in t.handed : t.conn[k] \in {"handed", "destroyed", "closed"}
    BY <1>4, <1>8, <2>1, <2>2
  <2>4. \A k \in Links : (k \in t.handed /\ t.conn[k] # "closed") <=> k = t.noiseConnections
    BY <1>4, <1>8, <2>1, <2>2
  <2>5. QED
    BY <1>7, <2>3, <2>4 DEF HandedOK
<1>10. WaitsBut(t, {})
  <2>1. t.conn = conn /\ t.waits = s.waits
    BY <1>2
  <2>2. ASSUME NEW k \in Links, conn[k] = "keeping" PROVE Awaited(s, k)
    BY <1>4, <2>2 DEF WaitsBut
  <2>3. ASSUME NEW k, Awaited(s, k) PROVE Awaited(t, k)
    <3>1. \A j \in Links : s.conn[j] = "destroyed" => conn[j] = "destroyed"
      BY <1>4
    <3>2. QED
      BY <2>1, <2>3, <3>1 DEF Awaited
  <2>4. QED
    BY <2>1, <2>2, <2>3 DEF WaitsBut
<1>11. QED
  BY <1>2, <1>5, <1>6, <1>9, <1>10

LEMMA ConnectPeerKeeps ==
  ASSUME DiscoveryInv, NEW d \in Hosts, NEW l \in Links, ConnectPeer(d, l)
  PROVE  DiscoveryInv'
<1> DEFINE t == [side[d] EXCEPT !.conn[l] = "dialling"]
<1>1. side' = [side EXCEPT ![d] = t] /\ by' = [by EXCEPT ![l] = d] /\ by[l] = None
  BY DEF ConnectPeer
<1>2. by \in [Links -> Hosts \cup {None}] /\ side \in [Hosts -> Side] /\ None \notin Hosts
  BY LocalDiscoveryAssumption DEF DiscoveryInv, DiscoveryTypes
<1>3. \A e \in Hosts : side[e].conn[l] = "none"
  BY <1>1, <1>2 DEF DiscoveryInv, DialsOK, At
<1>4. HandedOK(side[d]) /\ WaitsBut(side[d], {})
  BY DEF DiscoveryInv, SidesOK
<1>5. HandedOK(t) /\ WaitsBut(t, {}) /\ t.conn = [side[d].conn EXCEPT ![l] = "dialling"]
  BY <1>3, <1>4, StageKeeps
<1> HIDE DEF t
<1>6. side'[d] = t /\ \A e \in Hosts : e # d => side'[e] = side[e]
  BY <1>1, <1>2
<1>7. side[d].conn \in [Links -> ConnStages]
  BY <1>2, SideIs
<1>8. DiscoveryTypes'
  BY <1>1, <1>2, <1>5 DEF DiscoveryInv, DiscoveryTypes, ConnectPeer, HandedOK
<1>9. SidesOK'
  <2>1. ASSUME NEW e \in Hosts PROVE HandedOK(side'[e]) /\ WaitsBut(side'[e], {})
    BY <1>5, <1>6 DEF DiscoveryInv, SidesOK
  <2>2. QED
    BY <2>1 DEF SidesOK, HandedOK, WaitsBut, Awaited, Side
<1>10. \A k \in Links, e \in Hosts : k # l => side'[e].conn[k] = side[e].conn[k] /\ by'[k] = by[k]
  BY <1>1, <1>2, <1>5, <1>6, <1>7
<1>11. by'[l] = d /\ side'[d].conn[l] = "dialling" /\ \A e \in Hosts : e # d => side'[e].conn[l] = "none"
  BY <1>1, <1>2, <1>3, <1>5, <1>6, <1>7
<1>12. DialsOK'
  <2> SUFFICES ASSUME NEW k \in Links
               PROVE  \/ by'[k] = None /\ \A e \in Hosts : side'[e].conn[k] = "none"
                      \/ /\ by'[k] \in Hosts /\ side'[by'[k]].conn[k] = "dialling"
                         /\ side'[Other(by'[k])].conn[k] = "none"
                      \/ by'[k] \in Hosts /\ \A e \in Hosts : side'[e].conn[k] \notin {"none", "dialling"}
    BY DEF DialsOK, At
  <2>1. CASE k = l
    BY <1>11, <2>1, TwoHosts
  <2>2. CASE k # l
    <3>1. by[k] \in Hosts => Other(by[k]) \in Hosts
      BY TwoHosts
    <3>2. QED
      BY <1>10, <2>2, <3>1 DEF DiscoveryInv, DialsOK, At
  <2>3. QED
    BY <2>1, <2>2
<1>13. WinnersKept'
  <2> SUFFICES ASSUME Undisturbed' PROVE WinnersKept'
    BY DEF WinnersKept
  <2>1. Undisturbed
    BY <1>1, <1>2 DEF Undisturbed, ConnectPeer
  <2>2. \A k \in Links : k # l => Wins(k)' = Wins(k)
    BY <1>10 DEF Wins
  <2>3. \A e \in Hosts, k \in Links : side'[e].conn[k] \in Gone => k # l /\ side[e].conn[k] \in Gone
    BY <1>10, <1>11 DEF Gone
  <2>4. \A e \in Hosts, k \in Links : side[e].conn[k] \in Up => k # l /\ side'[e].conn[k] \in Up
    BY <1>3, <1>10 DEF Up
  <2>5. ASSUME NEW e \in Hosts, NEW k \in Links, side'[e].conn[k] \in Gone
        PROVE  ~ Wins(k)' /\ \E f \in Hosts, j \in Links : Wins(j)' /\ side'[f].conn[j] \in Up
    <3>1. k # l /\ side[e].conn[k] \in Gone
      BY <2>3, <2>5
    <3>2. ~ Wins(k) /\ \E f \in Hosts, j \in Links : Wins(j) /\ side[f].conn[j] \in Up
      BY <2>1, <3>1 DEF DiscoveryInv, WinnersKept, At
    <3>3. QED
      BY <2>2, <2>4, <3>1, <3>2
  <2>6. \A e \in Hosts : server'[e] = "listening"
    BY <2>1 DEF DiscoveryInv, WinnersKept, ConnectPeer
  <2>7. QED
    BY <2>5, <2>6 DEF WinnersKept, At, Up, Gone
<1>14. QED
  BY <1>8, <1>9, <1>12, <1>13 DEF DiscoveryInv

\* The server answers the dial, or it is refused: both ends learn of it at once.
LEMMA DialEndsKeeps ==
  ASSUME DiscoveryInv, NEW l \in Links, HandleTcpConnection(l) \/ Refused(l)
  PROVE  DiscoveryInv'
<1>1. PICK reached \in {"handshake", "closed"} :
        /\ side' = [d \in Hosts |-> [side[d] EXCEPT !.conn[l] = reached]]
        /\ \E d \in Hosts : At(d, l, {"dialling"}) /\ (server[Other(d)] = "listening" <=> reached = "handshake")
        /\ UNCHANGED <<by, cut, server, force, stops>>
  BY DEF HandleTcpConnection, Refused, SetStage
<1>2. side \in [Hosts -> Side] /\ \A d \in Hosts : HandedOK(side[d]) /\ WaitsBut(side[d], {})
  BY DEF DiscoveryInv, DiscoveryTypes, SidesOK
<1>3. by[l] \in Hosts /\ \A d \in Hosts : side[d].conn[l] \in {"none", "dialling"}
  <2>1. PICK d \in Hosts : side[d].conn[l] = "dialling"
    BY <1>1 DEF At
  <2>2. by[l] \in Hosts => \A e \in Hosts : e = by[l] \/ e = Other(by[l])
    BY TwoHosts
  <2>3. QED
    BY <2>1, <2>2 DEF DiscoveryInv, DialsOK, At
<1>4. ASSUME NEW d \in Hosts
      PROVE  /\ HandedOK(side'[d]) /\ WaitsBut(side'[d], {})
             /\ side'[d].conn = [side[d].conn EXCEPT ![l] = reached]
  <2> DEFINE s == side[d]
             t == [s EXCEPT !.conn[l] = reached]
  <2>1. HandedOK(s) /\ WaitsBut(s, {}) /\ s.conn[l] \in {"none", "dialling"}
    BY <1>2, <1>3
  <2>2. HandedOK(t) /\ WaitsBut(t, {}) /\ t.conn = [s.conn EXCEPT ![l] = reached]
    BY <2>1, StageKeeps
  <2>3. side'[d] = t
    BY <1>1
  <2> HIDE DEF t
  <2>4. QED
    BY <2>2, <2>3
<1>5. \A d \in Hosts, k \in Links :
        side'[d].conn[k] = IF k = l THEN reached ELSE side[d].conn[k]
  <2>1. \A d \in Hosts : side[d].conn \in [Links -> ConnStages]
    BY <1>2, SideIs
  <2>2. QED
    BY <1>4, <2>1
<1>6. SidesOK'
  BY <1>4 DEF SidesOK, HandedOK, WaitsBut, Awaited, Side
<1>7. DiscoveryTypes'
  <2>1. \A d \in Hosts : side'[d] \in Side
    BY <1>4 DEF HandedOK
  <2>2. side' = [d \in Hosts |-> side'[d]]
    BY <1>1
  <2>3. side' \in [Hosts -> Side]
    BY <2>1, <2>2
  <2>4. QED
    BY <1>1, <2>3 DEF DiscoveryInv, DiscoveryTypes
<1>8. DialsOK'
  <2> SUFFICES ASSUME NEW k \in Links
               PROVE  \/ by'[k] = None /\ \A e \in Hosts : side'[e].conn[k] = "none"
                      \/ /\ by'[k] \in Hosts /\ side'[by'[k]].conn[k] = "dialling"
                         /\ side'[Other(by'[k])].conn[k] = "none"
                      \/ by'[k] \in Hosts /\ \A e \in Hosts : side'[e].conn[k] \notin {"none", "dialling"}
    BY DEF DialsOK, At
  <2>1. by' = by
    BY <1>1
  <2>2. CASE k = l
    <3>1. \A e \in Hosts : side'[e].conn[k] = reached
      BY <1>5, <2>2
    <3>2. reached \notin {"none", "dialling"}
      OBVIOUS
    <3>3. QED
      BY <1>3, <2>1, <2>2, <3>1, <3>2
  <2>3. CASE k # l
    <3>1. \A e \in Hosts : side'[e].conn[k] = side[e].conn[k]
      BY <1>5, <2>3
    <3>2. by[k] \in Hosts => Other(by[k]) \in Hosts
      BY TwoHosts
    <3>3. QED
      BY <2>1, <3>1, <3>2 DEF DiscoveryInv, DialsOK, At
  <2>4. QED
    BY <2>2, <2>3
<1>9. WinnersKept'
  <2> SUFFICES ASSUME Undisturbed' PROVE WinnersKept'
    BY DEF WinnersKept
  <2>1. Undisturbed /\ \A d \in Hosts : server[d] = "listening"
    BY <1>1 DEF DiscoveryInv, WinnersKept, Undisturbed
  <2>2. reached = "handshake"
    BY <1>1, <2>1, TwoHosts
  <2>3. \A k \in Links : Wins(k)' = Wins(k)
    BY <1>1 DEF Wins
  <2>4. \A d \in Hosts, k \in Links :
          /\ side'[d].conn[k] \in Gone => side[d].conn[k] \in Gone
          /\ side[d].conn[k] \in Up => side'[d].conn[k] \in Up
    BY <1>3, <1>5, <2>2 DEF Gone, Up
  <2>5. ASSUME NEW e \in Hosts, NEW k \in Links, side'[e].conn[k] \in Gone
        PROVE  ~ Wins(k) /\ \E f \in Hosts, j \in Links : Wins(j) /\ side'[f].conn[j] \in Up
    <3>1. side[e].conn[k] \in Gone
      BY <2>4, <2>5
    <3>2. ~ Wins(k) /\ \E f \in Hosts, j \in Links : Wins(j) /\ side[f].conn[j] \in Up
      BY <2>1, <3>1 DEF DiscoveryInv, WinnersKept, At
    <3>3. QED
      BY <2>4, <3>2
  <2>6. QED
    BY <1>1, <2>1, <2>3, <2>5 DEF WinnersKept, At, Wins, Gone, Up
<1>10. QED
  BY <1>6, <1>7, <1>8, <1>9 DEF DiscoveryInv

LEMMA DiscoveryNextKeeps ==
  DiscoveryInv /\ [DiscoveryNext]_discoveryVars => DiscoveryInv'
<1> SUFFICES ASSUME DiscoveryInv, [DiscoveryNext]_discoveryVars PROVE DiscoveryInv'
  OBVIOUS
<1>1. CASE UNCHANGED discoveryVars
  BY <1>1 DEF discoveryVars, DiscoveryInv, DiscoveryTypes, SidesOK, DialsOK, WinnersKept, Undisturbed, Wins, At
<1>2. ASSUME NEW d \in Hosts, Start(d) \/ Stop(d) \/ StopFails(d) \/ Stopped(d) \/ ForceClose(d)
      PROVE  DiscoveryInv'
  BY <1>2, StartKeeps, StopKeeps, StoppedKeeps, ForceCloseKeeps
<1>3. ASSUME NEW d \in Hosts, NEW l \in Links, NoiseConnect(d, l) \/ NoiseClose(d, l) \/ ConnectPeer(d, l)
      PROVE  DiscoveryInv'
  BY <1>3, NoiseConnectKeeps, NoiseCloseKeeps, ConnectPeerKeeps
<1>4. ASSUME NEW l \in Links, HandleTcpConnection(l) \/ Refused(l) \/ Cut(l)
      PROVE  DiscoveryInv'
  BY <1>4, DialEndsKeeps, CutKeeps
<1>5. QED
  BY <1>1, <1>2, <1>3, <1>4 DEF DiscoveryNext, Events

LEMMA DiscoveryInvariant == DiscoverySpec => []DiscoveryInv
<1>1. QED
  BY DiscoveryInitInv, DiscoveryNextKeeps, PTL DEF DiscoverySpec

\* The variables of LocalDiscovery keep their types.
THEOREM DiscoveryTypeCorrect == DiscoverySpec => []DiscoveryTypeOK
<1>1. DiscoveryInv => DiscoveryTypeOK
  BY DEF DiscoveryInv, DiscoveryTypes, DiscoveryTypeOK
<1>2. QED
  BY <1>1, DiscoveryInvariant, PTL

\* A connection that is kept waits for one that was destroyed and is to close: no
\* swap is forgotten, however swaps follow one another.
KeptAreAwaited ==
  \A d \in Hosts, l \in Links :
    At(d, l, {"keeping"}) =>
      \E k \in Links : /\ At(d, k, {"destroyed"})
                       /\ \E i \in DOMAIN side[d].waits[k] : side[d].waits[k][i] = l

\* What is kept waits for a connection that is to close, so that no swap is
\* forgotten (#handleConnectionSwap()).
THEOREM SwapsAreAwaited == DiscoverySpec => []KeptAreAwaited
<1>1. DiscoveryInv => KeptAreAwaited
  BY DEF DiscoveryInv, SidesOK, WaitsBut, Awaited, KeptAreAwaited, At
<1>2. QED
  BY <1>1, DiscoveryInvariant, PTL

\* Of the connections handed out one at the most is not closed, and it is the
\* one against which the next is compared (#handleNoiseStreamConnection()).
THEOREM OneIsHandedOut == DiscoverySpec => []OneAtATime
<1>1. DiscoveryInv => OneAtATime
  <2> SUFFICES ASSUME DiscoveryInv, NEW d \in Hosts
               PROVE  {l \in side[d].handed : ~At(d, l, {"closed"})} = {side[d].noiseConnections} \ {None}
    BY DEF OneAtATime
  <2>1. HandedOK(side[d]) /\ side[d] \in Side /\ None \notin Links
    BY LocalDiscoveryAssumption DEF DiscoveryInv, SidesOK, HandedOK
  <2>2. side[d].handed \subseteq Links /\ side[d].noiseConnections \in Links \cup {None}
    BY <2>1, SideIs
  <2>3. QED
    BY <2>1, <2>2 DEF HandedOK, At
<1>2. QED
  BY <1>1, DiscoveryInvariant, PTL

\* Two devices that dialled each other once, where nothing broke, end with one
\* connection that both hold: they drop neither both links nor each the other.
THEOREM OneLinkSurvives == DiscoverySpec => []OneSurvives
<1>1. DiscoveryInv => OneSurvives
  <2> SUFFICES ASSUME DiscoveryInv, AllSettled, Undisturbed, NEW d \in Hosts, NEW k, k \in side[d].handed
               PROVE  \E l \in Links : \A e \in Hosts : At(e, l, {"handed"})
    BY DEF OneSurvives
  <2>1. k \in Links /\ side[d].conn[k] \in {"handed", "destroyed", "closed"}
    BY SideIs DEF DiscoveryInv, SidesOK, HandedOK
  <2>2. ASSUME NEW e \in Hosts, NEW l \in Links, side[e].conn[l] \in Up
        PROVE  \A f \in Hosts : At(f, l, {"handed"})
    BY <2>2 DEF AllSettled, At, Up
  <2>3. CASE side[d].conn[k] = "handed"
    BY <2>1, <2>2, <2>3 DEF Up
  <2>4. CASE side[d].conn[k] \in Gone
    <3>1. PICK e \in Hosts, l \in Links : side[e].conn[l] \in Up
      BY <2>1, <2>4 DEF DiscoveryInv, WinnersKept, At
    <3>2. QED
      BY <2>2, <3>1
  <2>5. QED
    BY <2>1, <2>3, <2>4 DEF Gone
<1>2. QED
  BY <1>1, DiscoveryInvariant, PTL

-----------------------------------------------------------------------------
(***************************************************************************)
(* The peers of a device.                                                  *)
(***************************************************************************)
USE LocalPeersAssumption

-----------------------------------------------------------------------------
(***************************************************************************)
(* The test in onclose for more than one Peer of a device.                 *)
(***************************************************************************)
\* A set that is no larger than one has one element at the most.
LEMMA SmallSet ==
  ASSUME NEW S, IsFiniteSet(S), ~(Cardinality(S) > 1), NEW a \in S, NEW b \in S
  PROVE  a = b
<1>1. Cardinality(S) \in Nat /\ Cardinality(S) # 0
  BY FS_CardinalityType, FS_EmptySet
<1>2. Cardinality(S) = 1
  BY <1>1
<1>3. PICK x : S = {x}
  BY <1>2, FS_Singleton
<1> QED
  BY <1>3

\* Without one of its elements, a larger set is not empty.
LEMMA LargeSet ==
  ASSUME NEW S, IsFiniteSet(S), Cardinality(S) > 1, NEW a
  PROVE  S \ {a} # {}
<1>1. /\ IsFiniteSet(S \ {a})
      /\ \/ Cardinality(S \ {a}) = Cardinality(S) - 1
         \/ Cardinality(S \ {a}) = Cardinality(S)
  BY FS_RemoveElement
<1>2. Cardinality(S) \in Nat
  BY FS_CardinalityType
<1>3. Cardinality(S \ {a}) # 0
  BY <1>1, <1>2
<1> QED
  BY <1>1, <1>3, FS_EmptySet

\* The Peers of a device are finitely many, and the next rank is a number.
LEMMA PeersFinite ==
  ASSUME TypeOK, NEW d \in Devices
  PROVE  /\ IsFiniteSet(peers[d])
         /\ Cardinality({b \in Conns : rank[b] > 0}) + 1 \in Nat \ {0}
<1>1. peers[d] \subseteq Conns
  BY DEF TypeOK
<1>2. IsFiniteSet(peers[d])
  BY <1>1, FS_Subset
<1>3. IsFiniteSet({b \in Conns : rank[b] > 0})
  BY FS_Subset
<1>4. Cardinality({b \in Conns : rank[b] > 0}) \in Nat
  BY <1>3, FS_CardinalityType
<1> QED
  BY <1>2, <1>4

-----------------------------------------------------------------------------
(***************************************************************************)
(* What is shown.                                                          *)
(***************************************************************************)
\* Only Peers that are connected or disconnected are shown.
LEMMA ShownSettled ==
  \A c \in GetPeers : /\ stage[c] \in {"connected", "closed"}
                      /\ \E d \in Devices : c \in peers[d]
BY DEF GetPeers, ChooseDevicePeer, Kept

\* The same after a step.
LEMMA ShownSettledNext ==
  \A c \in GetPeers' : /\ stage'[c] \in {"connected", "closed"}
                       /\ \E d \in Devices : c \in peers'[d]
BY DEF GetPeers, ChooseDevicePeer, Kept

\* #emitPeers() makes shown and announced agree, if no connection reopens.
LEMMA EmitAnnounces ==
  ASSUME LastInv, EmitPeers,
         \A c \in lastEmitted : stage'[c] = "connected" => stage[c] = "connected"
  PROVE  LastInv' /\ ShownIsAnnounced'
<1>1. \A c \in GetPeers' : stage'[c] = "connected" => c \in announced'
  BY DEF LastInv, EmitPeers, Result
<1>2. lastEmitted' = GetPeers'
  BY Zenon DEF EmitPeers
<1>3. LastInv'
  BY <1>1, <1>2, ShownSettledNext DEF LastInv
<1>4. ShownIsAnnounced'
  BY <1>1, <1>2 DEF ShownIsAnnounced
<1> QED
  BY <1>3, <1>4

\* What messages and events are after #emitPeers() has their types.
LEMMA EmitTypes ==
  ASSUME TypeOK, peers' \in [Devices -> SUBSET Conns], EmitPeers
  PROVE  /\ lastEmitted' \in SUBSET Conns /\ announced' \in SUBSET Conns
         /\ send' \in [Sends -> Send]
<1>1. GetPeers' \subseteq Conns
  BY DEF GetPeers, ChooseDevicePeer, Kept
<1>2. lastEmitted' \in SUBSET Conns /\ announced' \in SUBSET Conns
  BY <1>1 DEF TypeOK, EmitPeers, Result
<1>3. \A s \in Sends : send[s] \in Send
  BY DEF TypeOK
<1>4. \A s \in Sends, r \in {"sent", "failed"} : [send[s] EXCEPT !.stage = r] \in Send
  BY <1>3 DEF Send, SendStages
<1>5. send' \in [Sends -> Send]
  BY <1>3, <1>4 DEF EmitPeers, Result
<1> QED
  BY <1>2, <1>5

\* A connection changes its stage and nothing else does.
LEMMA BecomesTypes ==
  ASSUME TypeOK, NEW c \in Conns, NEW s \in Stages, Becomes(c, s)
  PROVE  /\ stage' \in [Conns -> Stages] /\ clock' \in 0 .. MaxTime
         /\ since' \in [Conns -> 0 .. MaxTime]
BY DEF TypeOK, Becomes

-----------------------------------------------------------------------------
(***************************************************************************)
(* The types, and when a connection has a Peer.                            *)
(***************************************************************************)
LEMMA InitHolds == Init => PeersInv
BY DEF Init, PeersInv, TypeOK, RankInv, LastInv, ShownIsAnnounced, KeepsOneDisconnected,
       Stages, SendStages, Send, Kinds, GetPeers, ChooseDevicePeer, Kept

LEMMA StutterHolds ==
  ASSUME PeersInv, UNCHANGED vars
  PROVE  PeersInv'
BY DEF PeersInv, TypeOK, RankInv, LastInv, ShownIsAnnounced, KeepsOneDisconnected, vars, lists,
       told, GetPeers, ChooseDevicePeer, Kept, Before, After

\* Opening, closing and a device info, by the connection they are about.
Step(c) == \/ Connect(c) \/ MakePeer(c) \/ MakePeerAgain(c) \/ Open(c)
           \/ CloseEarly(c) \/ Close(c) \/ ReceiveDeviceInfo(c)

\* What Open and Close share: the connection settles, and only it changes.
Settled(c, s) == /\ stage[c] \in {"connecting", "connected"}
                 /\ Becomes(c, s) /\ Done(c) /\ EmitPeers
                 /\ UNCHANGED rank
                 /\ peers' \in {peers, [peers EXCEPT ![DeviceOf[c]] = @ \ {c}]}

LEMMA OpenSettles ==
  ASSUME TypeOK, NEW c \in Conns, Open(c)
  PROVE  Settled(c, "connected")
BY DEF Open, Settled

LEMMA CloseSettles ==
  ASSUME TypeOK, NEW c \in Conns, Close(c)
  PROVE  Settled(c, "closed")
BY DEF Close, Settled

LEMMA SettledTypes ==
  ASSUME PeersInv, NEW c \in Conns, NEW s \in {"connected", "closed"}, Settled(c, s)
  PROVE  TypeOK' /\ RankInv'
<1>1. TypeOK /\ RankInv
  BY DEF PeersInv
<1>2. /\ stage' \in [Conns -> Stages] /\ clock' \in 0 .. MaxTime
      /\ since' \in [Conns -> 0 .. MaxTime]
  BY <1>1, BecomesTypes DEF Settled, Stages
<1>3. /\ peers' \in [Devices -> SUBSET {b \in Conns : rank'[b] > 0}]
      /\ \A d \in Devices : \A b \in peers'[d] : DeviceOf[b] = d
      /\ rank' \in [Conns -> Nat]
  BY <1>1 DEF TypeOK, Settled
<1>4. opening' \in SUBSET {b \in Conns : stage'[b] \in {"opening", "connecting"}}
  BY <1>1 DEF TypeOK, Settled, Becomes, Done
<1>5. /\ lastEmitted' \in SUBSET Conns /\ announced' \in SUBSET Conns
      /\ send' \in [Sends -> Send]
  <2>1. peers' \in [Devices -> SUBSET Conns]
    BY <1>3
  <2> QED
    BY <1>1, <2>1, EmitTypes DEF Settled
<1>6. TypeOK'
  BY <1>2, <1>3, <1>4, <1>5 DEF TypeOK
<1>7. RankInv'
  BY <1>1 DEF RankInv, TypeOK, Settled, Becomes
<1> QED
  BY <1>6, <1>7

LEMMA StepTypes ==
  ASSUME PeersInv, NEW c \in Conns, Step(c)
  PROVE  TypeOK' /\ RankInv'
<1>1. TypeOK /\ RankInv
  BY DEF PeersInv
<1>2. CASE Connect(c)
  BY <1>1, <1>2 DEF Connect, TypeOK, RankInv, Stages, told
<1>3. CASE MakePeer(c)
  <2>1. Cardinality({b \in Conns : rank[b] > 0}) + 1 \in Nat \ {0}
    BY <1>1, PeersFinite DEF TypeOK
  <2>2. /\ rank' \in [Conns -> Nat] /\ stage' \in [Conns -> Stages]
        /\ opening' \in SUBSET {b \in Conns : stage'[b] \in {"opening", "connecting"}}
    BY <1>1, <1>3, <2>1 DEF MakePeer, TypeOK, Stages
  <2>3. /\ peers' \in [Devices -> SUBSET {b \in Conns : rank'[b] > 0}]
        /\ \A d \in Devices : \A b \in peers'[d] : DeviceOf[b] = d
    <3>1. \A b \in Conns : rank[b] > 0 => rank'[b] > 0
      BY <1>1, <1>3, <2>1 DEF MakePeer, TypeOK
    <3>2. rank'[c] > 0
      BY <1>1, <1>3, <2>1 DEF MakePeer, TypeOK
    <3>3. /\ peers' = [peers EXCEPT ![DeviceOf[c]] = @ \cup {c}]
          /\ peers \in [Devices -> SUBSET {b \in Conns : rank[b] > 0}]
          /\ \A d \in Devices : \A b \in peers[d] : DeviceOf[b] = d
      BY <1>1, <1>3 DEF MakePeer, TypeOK
    <3> QED
      BY <3>1, <3>2, <3>3
  <2>4. TypeOK'
    BY <1>1, <1>3, <2>2, <2>3 DEF MakePeer, TypeOK, told
  <2>5. RankInv'
    BY <1>1, <1>3 DEF MakePeer, TypeOK, RankInv
  <2> QED
    BY <2>4, <2>5
<1>4. CASE MakePeerAgain(c)
  BY <1>1, <1>4 DEF MakePeerAgain, Done, TypeOK, RankInv, told
<1>5. CASE Open(c)
  BY <1>1, <1>5, OpenSettles, SettledTypes
<1>6. CASE CloseEarly(c)
  BY <1>1, <1>6 DEF CloseEarly, Done, TypeOK, RankInv, Stages, told
<1>7. CASE Close(c)
  BY <1>1, <1>7, CloseSettles, SettledTypes
<1>8. CASE ReceiveDeviceInfo(c)
  <2>1. peers' \in [Devices -> SUBSET Conns]
    BY <1>1, <1>8 DEF ReceiveDeviceInfo, lists, TypeOK
  <2>2. /\ lastEmitted' \in SUBSET Conns /\ announced' \in SUBSET Conns
        /\ send' \in [Sends -> Send]
    BY <1>1, <1>8, <2>1, EmitTypes DEF ReceiveDeviceInfo
  <2> QED
    BY <1>1, <1>8, <2>2 DEF ReceiveDeviceInfo, lists, TypeOK, RankInv
<1> QED
  BY <1>2, <1>3, <1>4, <1>5, <1>6, <1>7, <1>8 DEF Step

\* The messages change nothing but themselves.
LEMMA MessageHolds ==
  ASSUME PeersInv, NEW s \in Sends, SendMessage(s) \/ GetPeerByDeviceId(s) \/ SendTimeout(s)
  PROVE  PeersInv'
<1>1. UNCHANGED <<lists, told>>
  BY DEF SendMessage, GetPeerByDeviceId, SendTimeout
<1>2. send[s] \in Send
  BY DEF PeersInv, TypeOK
<1>3. opening \subseteq Conns
  BY DEF PeersInv, TypeOK
<1>4. send' \in [Sends -> Send]
  <2>1. CASE SendMessage(s)
    <3>1. PICK kind \in Kinds :
            send' = [send EXCEPT ![s] = [stage |-> "pending", kind |-> kind, awaits |-> opening]]
      BY <2>1 DEF SendMessage
    <3>2. [stage |-> "pending", kind |-> kind, awaits |-> opening] \in Send
      BY <1>3 DEF Send, SendStages
    <3> QED
      BY <3>1, <3>2 DEF PeersInv, TypeOK
  <2>2. CASE GetPeerByDeviceId(s)
    BY <2>2, <1>2 DEF GetPeerByDeviceId, Result, Send, SendStages, PeersInv, TypeOK
  <2>3. CASE SendTimeout(s)
    BY <2>3, <1>2 DEF SendTimeout, Send, SendStages, PeersInv, TypeOK
  <2> QED
    BY <2>1, <2>2, <2>3
<1>5. TypeOK'
  BY <1>1, <1>4 DEF PeersInv, TypeOK, lists, told
<1>6. RankInv' /\ LastInv'
  BY <1>1 DEF PeersInv, RankInv, LastInv, lists, told
<1>7. ShownIsAnnounced' /\ KeepsOneDisconnected'
  BY <1>1 DEF PeersInv, ShownIsAnnounced, KeepsOneDisconnected, lists, told,
              GetPeers, ChooseDevicePeer, Kept, Before, After
<1> QED
  BY <1>5, <1>6, <1>7 DEF PeersInv

-----------------------------------------------------------------------------
(***************************************************************************)
(* What is shown was announced.                                            *)
(***************************************************************************)
\* A step that emits nothing hides peers and shows no other.
LEMMA QuietShows ==
  ASSUME PeersInv, NEW c \in Conns, Connect(c) \/ MakePeer(c) \/ MakePeerAgain(c) \/ CloseEarly(c)
  PROVE  /\ GetPeers' \subseteq GetPeers
         /\ \A b \in Conns : stage'[b] = "connected" <=> stage[b] = "connected"
<1>1. TypeOK /\ RankInv
  BY DEF PeersInv
<1>2. CASE MakePeerAgain(c)
  BY <1>2 DEF MakePeerAgain, GetPeers, ChooseDevicePeer, Kept, Before, After
<1>3. CASE Connect(c) \/ CloseEarly(c)
  <2>1. \A d \in Devices : c \notin peers[d]
    BY <1>1, <1>3 DEF Connect, CloseEarly, TypeOK, RankInv
  <2>2. /\ peers' = peers /\ rank' = rank /\ since' = since
        /\ \A b \in Conns : b # c => stage'[b] = stage[b]
        /\ stage[c] # "connected" /\ stage'[c] # "connected"
    BY <1>1, <1>3 DEF Connect, CloseEarly, TypeOK
  <2>3. \A d \in Devices : Kept(d, "connecting")' = Kept(d, "connecting")
    BY <1>1, <2>1, <2>2 DEF Kept, TypeOK
  <2>4. \A d \in Devices : Kept(d, "connected")' = Kept(d, "connected")
    BY <1>1, <2>1, <2>2 DEF Kept, TypeOK
  <2>5. \A d \in Devices : Kept(d, "closed")' = Kept(d, "closed")
    BY <1>1, <2>1, <2>2 DEF Kept, TypeOK
  <2>6. \A d \in Devices : ChooseDevicePeer(d)' = ChooseDevicePeer(d)
    <3>1. \A a, b : Before(a, b)' = Before(a, b) /\ After(a, b)' = After(a, b)
      BY <2>2 DEF Before, After
    <3>2. QED
      BY <2>3, <2>4, <2>5, <3>1 DEF ChooseDevicePeer
  <2> QED
    BY <2>2, <2>6 DEF GetPeers
<1>4. CASE MakePeer(c)
  <2>1. DeviceOf[c] \in Devices
    OBVIOUS
  <2>2. c \in Kept(DeviceOf[c], "connecting")'
    BY <1>1, <1>4, <2>1 DEF MakePeer, Kept, TypeOK
  <2>3. ChooseDevicePeer(DeviceOf[c])' = {}
    BY <2>2 DEF ChooseDevicePeer
  <2>4. \A d \in Devices : d # DeviceOf[c] =>
          /\ peers'[d] = peers[d]
          /\ \A b \in peers[d] : /\ stage'[b] = stage[b] /\ since'[b] = since[b]
                                /\ rank'[b] = rank[b]
    BY <1>1, <1>4 DEF MakePeer, TypeOK
  <2>5. ASSUME NEW d \in Devices, d # DeviceOf[c]
        PROVE  ChooseDevicePeer(d)' = ChooseDevicePeer(d)
    <3>1. /\ Kept(d, "connecting")' = Kept(d, "connecting")
          /\ Kept(d, "connected")' = Kept(d, "connected")
          /\ Kept(d, "closed")' = Kept(d, "closed")
      BY <2>4, <2>5 DEF Kept
    <3>2. \A s : Kept(d, s) \subseteq peers[d]
      BY DEF Kept
    <3>3. \A a, b \in peers[d] : /\ Before(a, b)' <=> Before(a, b)
                                 /\ After(a, b)' <=> After(a, b)
      BY <2>4, <2>5 DEF Before, After
    <3>4. {e \in Kept(d, "connected")' : \A b \in Kept(d, "connected")' : Before(e, b)'}
            = {e \in Kept(d, "connected") : \A b \in Kept(d, "connected") : Before(e, b)}
      BY <3>1, <3>2, <3>3
    <3>5. {e \in Kept(d, "closed")' : \A b \in Kept(d, "closed")' : After(e, b)'}
            = {e \in Kept(d, "closed") : \A b \in Kept(d, "closed") : After(e, b)}
      BY <3>1, <3>2, <3>3
    <3> QED
      BY <3>1, <3>4, <3>5 DEF ChooseDevicePeer
  <2>6. \A b \in Conns : stage'[b] = "connected" <=> stage[b] = "connected"
    BY <1>1, <1>4 DEF MakePeer, TypeOK
  <2> QED
    BY <2>3, <2>5, <2>6 DEF GetPeers
<1> QED
  BY <1>2, <1>3, <1>4

LEMMA StepShows ==
  ASSUME PeersInv, NEW c \in Conns, Step(c)
  PROVE  LastInv' /\ ShownIsAnnounced'
<1>1. TypeOK /\ LastInv /\ ShownIsAnnounced
  BY DEF PeersInv
<1>2. CASE Connect(c) \/ MakePeer(c) \/ MakePeerAgain(c) \/ CloseEarly(c)
  <2>1. UNCHANGED told
    BY <1>2 DEF Connect, MakePeer, MakePeerAgain, CloseEarly
  <2>2. \A b \in Conns : stage[b] = "closed" => stage'[b] = "closed"
    BY <1>1, <1>2 DEF Connect, MakePeer, MakePeerAgain, CloseEarly, TypeOK
  <2>3. LastInv'
    BY <1>1, <1>2, <2>1, <2>2, QuietShows DEF LastInv, told, TypeOK
  <2>4. GetPeers' \subseteq Conns
    BY <1>1, <1>2, QuietShows, ShownSettled DEF TypeOK
  <2>5. ShownIsAnnounced'
    BY <1>1, <1>2, <2>1, <2>4, QuietShows DEF ShownIsAnnounced, told
  <2> QED
    BY <2>3, <2>5
<1>3. CASE Open(c)
  <2>1. c \notin lastEmitted /\ EmitPeers
    BY <1>1, <1>3 DEF Open, LastInv
  <2>2. \A b \in lastEmitted : stage'[b] = "connected" => stage[b] = "connected"
    BY <1>1, <1>3, <2>1 DEF Open, Becomes, TypeOK
  <2> QED
    BY <1>1, <2>1, <2>2, EmitAnnounces
<1>4. CASE Close(c)
  <2>1. EmitPeers
    BY <1>4 DEF Close
  <2>2. \A b \in lastEmitted : stage'[b] = "connected" => stage[b] = "connected"
    BY <1>1, <1>4 DEF Close, Becomes, TypeOK
  <2> QED
    BY <1>1, <2>1, <2>2, EmitAnnounces
<1>5. CASE ReceiveDeviceInfo(c)
  <2>1. EmitPeers /\ stage' = stage
    BY <1>5 DEF ReceiveDeviceInfo, lists
  <2> QED
    BY <1>1, <2>1, EmitAnnounces
<1> QED
  BY <1>2, <1>3, <1>4, <1>5 DEF Step

-----------------------------------------------------------------------------
(***************************************************************************)
(* One disconnected Peer of each device.                                   *)
(***************************************************************************)
LEMMA StepKeeps ==
  ASSUME PeersInv, NEW c \in Conns, Step(c)
  PROVE  KeepsOneDisconnected'
<1>1. TypeOK /\ RankInv /\ KeepsOneDisconnected
  BY DEF PeersInv
<1>2. CASE Connect(c) \/ CloseEarly(c)
  BY <1>1, <1>2 DEF Connect, CloseEarly, KeepsOneDisconnected, Kept, TypeOK, RankInv
<1>3. CASE MakePeer(c)
  BY <1>1, <1>3 DEF MakePeer, KeepsOneDisconnected, Kept, TypeOK
<1>4. CASE MakePeerAgain(c) \/ ReceiveDeviceInfo(c)
  BY <1>1, <1>4 DEF MakePeerAgain, ReceiveDeviceInfo, lists, KeepsOneDisconnected, Kept, TypeOK
<1>5. CASE Open(c)
  BY <1>1, <1>5 DEF Open, Becomes, KeepsOneDisconnected, Kept, TypeOK
<1>6. CASE Close(c)
  <2> DEFINE d == DeviceOf[c]
  <2>1. d \in Devices /\ IsFiniteSet(peers[d])
    BY <1>1, PeersFinite
  <2>2. /\ \A b \in Conns : b # c => stage'[b] = stage[b]
        /\ rank' = rank
        /\ \A e \in Devices : e # d => peers'[e] = peers[e] /\ c \notin peers[e]
    BY <1>1, <1>6 DEF Close, Becomes, TypeOK
  <2>3. \A e \in Devices : e # d =>
          /\ \A a, b \in Kept(e, "closed")' : a = b
          /\ \A b \in Conns : DeviceOf[b] = e /\ rank'[b] > 0 => peers'[e] # {}
    BY <1>1, <2>2 DEF KeepsOneDisconnected, Kept, TypeOK
  <2>4. CASE Cardinality(peers[d]) > 1
    <3>1. peers'[d] = peers[d] \ {c}
      BY <1>1, <1>6, <2>1, <2>4 DEF Close, TypeOK
    <3>2. peers'[d] # {}
      BY <2>1, <2>4, <3>1, LargeSet
    <3>3. Kept(d, "closed")' \subseteq Kept(d, "closed")
      BY <1>1, <2>1, <2>2, <3>1 DEF Kept, TypeOK
    <3>4. \A a, b \in Kept(d, "closed")' : a = b
      BY <1>1, <2>1, <3>3 DEF KeepsOneDisconnected
    <3> QED
      BY <2>3, <3>2, <3>4 DEF KeepsOneDisconnected
  <2>5. CASE ~(Cardinality(peers[d]) > 1)
    <3>1. peers' = peers
      BY <1>6, <2>5 DEF Close
    <3>2. \A a, b \in peers[d] : a = b
      BY <2>1, <2>5, SmallSet
    <3>3. \A a, b \in Kept(d, "closed")' : a = b
      BY <3>1, <3>2 DEF Kept
    <3>4. \A b \in Conns : DeviceOf[b] = d /\ rank'[b] > 0 => peers'[d] # {}
      BY <1>1, <2>1, <2>2, <3>1 DEF KeepsOneDisconnected
    <3> QED
      BY <2>3, <3>3, <3>4 DEF KeepsOneDisconnected
  <2> QED
    BY <2>4, <2>5
<1> QED
  BY <1>2, <1>3, <1>4, <1>5, <1>6 DEF Step

-----------------------------------------------------------------------------
(***************************************************************************)
(* The theorems.                                                           *)
(***************************************************************************)
\* The inductive invariant holds throughout.
THEOREM InvariantHolds == Spec => []PeersInv
<1>1. Init => PeersInv
  BY InitHolds
<1>2. PeersInv /\ [Next]_vars => PeersInv'
  <2> SUFFICES ASSUME PeersInv, [Next]_vars PROVE PeersInv'
    OBVIOUS
  <2>1. CASE UNCHANGED vars
    BY <2>1, StutterHolds
  <2>2. ASSUME NEW c \in Conns, Step(c) PROVE PeersInv'
    BY <2>2, StepTypes, StepShows, StepKeeps DEF PeersInv
  <2>3. ASSUME NEW s \in Sends, SendMessage(s) \/ GetPeerByDeviceId(s) \/ SendTimeout(s)
        PROVE  PeersInv'
    BY <2>3, MessageHolds
  <2> QED
    BY <2>1, <2>2, <2>3 DEF Next, Step
<1> QED
  BY <1>1, <1>2, PTL DEF Spec

\* Every variable has its type; no settled connection is waited for.
THEOREM TypeCorrect == Spec => []TypeOK
<1>1. PeersInv => TypeOK
  BY DEF PeersInv
<1> QED
  BY <1>1, InvariantHolds, PTL

\* A connection that is shown was announced (#emitPeers).
THEOREM ShownAreAnnounced == Spec => []ShownIsAnnounced
<1>1. PeersInv => ShownIsAnnounced
  BY DEF PeersInv
<1> QED
  BY <1>1, InvariantHolds, PTL

\* One disconnected Peer of each device is kept (onclose), and none forgotten.
THEOREM OneIsKept == Spec => []KeepsOneDisconnected
<1>1. PeersInv => KeepsOneDisconnected
  BY DEF PeersInv
<1> QED
  BY <1>1, InvariantHolds, PTL

\* A message fails for want of a connection only: where one is chosen, it is
\* a connected one if there is any.
THEOREM FailureIsJustified == Spec => FailsWhenGone
<1>1. ASSUME NEW s \in Sends, PeersInv, [Next]_vars,
             send[s].stage # "failed", send'[s].stage = "failed"
      PROVE  Kept(To[s], "connected")' = {} /\ Kept(To[s], "connecting")' = {}
  <2>1. CASE EmitPeers
    <3>1. ChooseDevicePeer(To[s])' # {} /\ Result(ChooseDevicePeer(To[s])', stage', send[s].kind) = "failed"
      BY <1>1, <2>1 DEF EmitPeers, PeersInv, TypeOK, Send
    <3> QED
      BY <3>1 DEF ChooseDevicePeer, Result, Kept
  <2>2. ASSUME NEW m \in Sends, GetPeerByDeviceId(m)
        PROVE  Kept(To[s], "connected")' = {} /\ Kept(To[s], "connecting")' = {}
    <3>1. m = s /\ Result(ChooseDevicePeer(To[s]), stage, send[s].kind) = "failed"
      BY <1>1, <2>2 DEF GetPeerByDeviceId, PeersInv, TypeOK, Send
    <3>2. peers[To[s]] = {} \/ ChooseDevicePeer(To[s]) # {}
      BY <1>1, <2>2, <3>1 DEF GetPeerByDeviceId, PeersInv, TypeOK, Send
    <3>3. Kept(To[s], "connected") = {} /\ Kept(To[s], "connecting") = {}
      BY <3>1, <3>2 DEF ChooseDevicePeer, Result, Kept
    <3> QED
      BY <2>2, <3>3 DEF GetPeerByDeviceId, lists, Kept
  <2>3. CASE \E m \in Sends : SendMessage(m) \/ SendTimeout(m)
    <3>1. PICK m \in Sends : SendMessage(m) \/ SendTimeout(m)
      BY <2>3
    <3>2. send \in [Sends -> Send]
      BY <1>1 DEF PeersInv, TypeOK
    <3>3. CASE SendMessage(m)
      <4>1. PICK kind \in Kinds :
              send' = [send EXCEPT ![m] = [stage |-> "pending", kind |-> kind, awaits |-> opening]]
        BY <3>3 DEF SendMessage
      <4> QED
        BY <1>1, <3>2, <4>1 DEF Send
    <3>4. CASE SendTimeout(m)
      BY <1>1, <3>2, <3>4 DEF SendTimeout, Send
    <3> QED
      BY <3>1, <3>3, <3>4
  <2>4. CASE UNCHANGED send
    BY <1>1, <2>4
  <2>5. EmitPeers \/ UNCHANGED send \/ \E m \in Sends : \/ SendMessage(m) \/ SendTimeout(m)
                                                         \/ GetPeerByDeviceId(m)
    BY <1>1 DEF Next, vars, Connect, MakePeer, MakePeerAgain, Open, CloseEarly, Close,
                ReceiveDeviceInfo
  <2> QED
    BY <2>1, <2>2, <2>3, <2>4, <2>5
<1>2. PeersInv /\ [Next]_vars =>
        [\A s \in Sends : send[s].stage # "failed" /\ send'[s].stage = "failed" =>
           Kept(To[s], "connected")' = {} /\ Kept(To[s], "connecting")' = {}]_vars
  BY <1>1
<1> QED
  BY <1>2, InvariantHolds, PTL DEF Spec, FailsWhenGone
=============================================================================
