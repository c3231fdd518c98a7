----------------------------- MODULE RolesProofs -----------------------------
(***************************************************************************)
(* Proofs about Roles, for any number of devices, any times and any        *)
(* bounds.  Everything rests on one inductive invariant, RolesInv with     *)
(* TypeOK: the two are inductive only together, since the type of a        *)
(* version a device writes depends on the versions its call links to.      *)
(***************************************************************************)
EXTENDS Roles, TLAPS

USE RolesAssumption

IInv == TypeOK /\ RolesInv

-----------------------------------------------------------------------------
(***************************************************************************)
(* What reading roles says of the log.                                     *)
(***************************************************************************)
\* The parts of a version that the proofs look at.
LEMMA VersionType ==
  ASSUME IInv, NEW n \in Versions
  PROVE  log[n].by \in Devices /\ log[n].role \in RoleIds
<1>1. log[n] \in Version
  BY DEF IInv, TypeOK, Versions
<1> QED
  BY <1>1 DEF Version

\* A role comes from a known version about the device, or there is none.
LEMMA RoleIsRecorded ==
  ASSUME NEW K, NEW x, NEW r, HasRole(K, x, r)
  PROVE  \/ \E n \in K : log[n].about = x /\ log[n].role = r
         \/ r = IF x = Creator THEN "creator" ELSE "none"
BY DEF HasRole, Heads

\* A device whose own role is "left" wrote so itself.
LEMMA LeftByItself ==
  ASSUME IInv, NEW d \in Devices, OwnRole(d, "left")
  PROVE  HasLeft(d)
<1>1. PICK n \in known[d] : log[n].about = d /\ log[n].role = "left"
  BY RoleIsRecorded DEF OwnRole
<1>2. n \in Versions
  BY DEF IInv, TypeOK
<1> QED
  BY <1>1, <1>2 DEF HasLeft, IInv, RolesInv, LogInv

\* Whoever passes the guard of assignRole() is the creator or knows of
\* itself being made a coordinator.
LEMMA AssignersMay ==
  ASSUME IInv, NEW d \in Devices, NEW own, OwnRole(d, own),
         NEW r, r \in RoleAssignment(own)
  PROVE  MayAssign(d)
<1>1. own \in {"creator", "coordinator"}
  BY DEF RoleAssignment
<1>2. CASE \E n \in known[d] : log[n].about = d /\ log[n].role = own
  <2>1. PICK n \in known[d] : log[n].about = d /\ log[n].role = own
    BY <1>2
  <2>2. n \in Versions /\ log[n] \in Version
    BY DEF IInv, TypeOK, Versions
  <2>3. log[n].role \in RoleIds
    BY <2>2 DEF Version
  <2> QED
    BY <1>1, <2>1, <2>3 DEF MayAssign, RoleIds, AssignableToOthers
<1>3. CASE own = IF d = Creator THEN "creator" ELSE "none"
  BY <1>1, <1>3 DEF MayAssign
<1> QED
  BY <1>2, <1>3, RoleIsRecorded DEF OwnRole

-----------------------------------------------------------------------------
(***************************************************************************)
(* Steps that leave the log and the replicas alone.                        *)
(***************************************************************************)
\* A call that is replaced by one that keeps the invariant.
LEMMA CallReplaced ==
  ASSUME IInv, UNCHANGED <<log, known>>,
         NEW d \in Devices, NEW call \in Call, SetOp(d, call),
         call.stage \in {"reading", "writing"} /\ call.role # "left" => MayAssign(d),
         call.role = "left" /\ call.stage \in {"reading", "writing", "leaving"} =>
           call.about = d,
         call.leave => call.role = "left",
         call.stage = "leaving" => call.leave,
         call.links \subseteq known[d],
         call.leave /\ call.stage \in {"checking", "clearing", "ending"} => HasLeft(d),
         call.stage = "clearing" => HasLeft(d)
  PROVE  /\ op' \in [Devices -> Call]
         /\ LogInv' /\ CallInv' /\ GrantsAreBacked'
<1>1. op' \in [Devices -> Call]
  BY DEF IInv, TypeOK, SetOp
<1>2. LogInv'
  BY DEF IInv, RolesInv, LogInv, Versions
<1>3. GrantsAreBacked'
  BY DEF IInv, RolesInv, GrantsAreBacked, Versions
<1>4. \A e \in Devices : op'[e] = IF e = d THEN call ELSE op[e]
  BY DEF IInv, TypeOK, SetOp
<1>5. \A e \in Devices : (MayAssign(e) => MayAssign(e)') /\ (HasLeft(e) => HasLeft(e)')
  BY DEF MayAssign, HasLeft
<1>6. CallInv'
  <2> SUFFICES ASSUME NEW e \in Devices PROVE CallInvOf(e)'
    BY DEF CallInv
  <2>1. CallInvOf(e)
    BY DEF IInv, RolesInv, CallInv
  <2> QED
    BY <1>4, <1>5, <2>1 DEF CallInvOf, Stage
<1> QED
  BY <1>1, <1>2, <1>3, <1>6


\* What is lost stays explained while the log and the replicas are the same.
LEMMA LossKeeps ==
  ASSUME IInv, UNCHANGED <<log, known>>, NEW d \in Devices, HasLeft(d),
         \A e \in Devices \ {d} : data'[e] = data[e] /\ keys'[e] = keys[e]
  PROVE  OnlyLeaversLoseData'
<1>1. \A e \in Devices : HasLeft(e) => HasLeft(e)'
  BY DEF HasLeft
<1> SUFFICES ASSUME NEW e \in Devices, data'[e] # "kept" \/ keys'[e] = "auth"
             PROVE  HasLeft(e)'
  BY DEF OnlyLeaversLoseData, HasLeft
<1>2. HasLeft(e)
  BY DEF IInv, RolesInv, OnlyLeaversLoseData, HasLeft
<1> QED
  BY <1>1, <1>2

\* What was lost before a step that loses nothing is explained after it.
LEMMA SameDataKeeps ==
  ASSUME IInv, UNCHANGED <<log, known, data, keys>>
  PROVE  OnlyLeaversLoseData'
BY DEF IInv, RolesInv, OnlyLeaversLoseData

\* A call that replaced another and lost nothing keeps the invariant.
LEMMA CallKeeps ==
  ASSUME IInv, UNCHANGED <<log, known, data, keys>>,
         introduced' \in SUBSET Devices, open' \in SUBSET Devices,
         crashes' \in 0 .. MaxCrashes,
         op' \in [Devices -> Call], LogInv', CallInv', GrantsAreBacked'
  PROVE  IInv'
<1>1. OnlyLeaversLoseData'
  BY SameDataKeeps
<1>2. TypeOK'
  BY DEF IInv, TypeOK, Versions
<1> QED
  BY <1>1, <1>2 DEF IInv, RolesInv

\* The call ends, and nothing is lost.
LEMMA EndKeeps ==
  ASSUME IInv, UNCHANGED <<log, known, data, keys, introduced>>,
         NEW d \in Devices, EndOp(d),
         open' \in SUBSET Devices, crashes' \in 0 .. MaxCrashes
  PROVE  IInv'
<1>1. /\ Idle \in Call /\ Idle.stage = "idle" /\ Idle.leave = FALSE
      /\ Idle.links = {}
  BY DEF Idle, Call, Stages, RoleIds
<1>2. op' \in [Devices -> Call] /\ LogInv' /\ CallInv' /\ GrantsAreBacked'
  BY <1>1, CallReplaced DEF EndOp
<1>3. introduced' \in SUBSET Devices
  BY DEF IInv, TypeOK
<1> QED
  BY <1>2, <1>3, CallKeeps

-----------------------------------------------------------------------------
(***************************************************************************)
(* Steps that write or index a version.                                    *)
(***************************************************************************)
\* What a device may do, and that it left, stay so as it learns versions
\* and as the log grows.
LEMMA KnowledgeGrows ==
  ASSUME IInv, NEW v, log' = log \/ log' = Append(log, v),
         NEW e \in Devices, known[e] \subseteq known'[e]
  PROVE  /\ MayAssign(e) => MayAssign(e)'
         /\ HasLeft(e) => HasLeft(e)'
         /\ \A n \in Versions : n \in Versions' /\ log'[n] = log[n]
<1>1. \A n \in Versions : n \in Versions' /\ log'[n] = log[n]
  BY DEF IInv, TypeOK, Versions
<1>2. known[e] \subseteq Versions
  BY DEF IInv, TypeOK
<1> QED
  BY <1>1, <1>2 DEF MayAssign, HasLeft

\* A write keeps the invariant: what the version says was checked when the
\* call began, and its writer knows it at once.
LEMMA WriteKeeps ==
  ASSUME IInv, NEW d \in Devices, Stage(d, "writing"),
         NEW origin \in Nat \ {0}, Write(d, origin),
         UNCHANGED <<introduced, open, data, keys, crashes>>
  PROVE  IInv'
<1>1. PICK t \in Times :
        log' = Append(log, [by |-> d, about |-> op[d].about,
                            role |-> op[d].role, time |-> t,
                            links |-> op[d].links, origin |-> origin])
  BY DEF Write
<1> DEFINE v == [by |-> d, about |-> op[d].about, role |-> op[d].role,
                 time |-> t, links |-> op[d].links, origin |-> origin]
<1>2. op[d] \in Call
  BY DEF IInv, TypeOK
<1>3. v \in Version
  BY <1>2 DEF Call, Version
<1>4. /\ log' = Append(log, v) /\ log' \in Seq(Version)
      /\ Len(log') = Len(log) + 1 /\ Len(log) \in Nat
      /\ log'[Len(log) + 1] = v
  BY <1>1, <1>3 DEF IInv, TypeOK
<1>5. /\ Versions' = Versions \cup {Len(log) + 1}
      /\ Len(log) + 1 \notin Versions
  BY <1>4 DEF Versions
<1>6. /\ known' = [known EXCEPT ![d] = @ \cup {Len(log) + 1}]
      /\ Written(d)
  BY DEF Write
<1>7. \A e \in Devices :
        known'[e] = IF e = d THEN known[e] \cup {Len(log) + 1} ELSE known[e]
  BY <1>6 DEF IInv, TypeOK
<1> HIDE DEF v
<1>8. \A e \in Devices : /\ MayAssign(e) => MayAssign(e)'
                         /\ HasLeft(e) => HasLeft(e)'
  BY <1>4, <1>7, KnowledgeGrows
<1>9. \A n \in Versions : n \in Versions' /\ log'[n] = log[n]
  BY <1>4, <1>7, KnowledgeGrows
<1>10. /\ v.by = d /\ v.about = op[d].about /\ v.role = op[d].role
  BY DEF v
<1>11. op[d].leave => HasLeft(d)'
  <2> SUFFICES ASSUME op[d].leave PROVE HasLeft(d)'
    OBVIOUS
  <2>1. op[d].role = "left" /\ op[d].about = d
    BY DEF IInv, RolesInv, CallInv, CallInvOf, Stage
  <2>2. Len(log) + 1 \in known'[d]
    BY <1>7
  <2>3. /\ log'[Len(log) + 1].by = d /\ log'[Len(log) + 1].about = d
        /\ log'[Len(log) + 1].role = "left"
    BY <1>4, <1>10, <2>1
  <2> QED
    BY <2>2, <2>3 DEF HasLeft
<1>12. PICK call \in Call :
         /\ SetOp(d, call)
         /\ \/ call = Idle
            \/ /\ call.stage = "checking" /\ call.role = op[d].role
               /\ call.leave /\ op[d].leave /\ call.links = op[d].links
  <2>1. Idle \in Call
    BY DEF Idle, Call, Stages, RoleIds
  <2>2. [op[d] EXCEPT !.stage = "checking"] \in Call
    BY <1>2 DEF Call, Stages
  <2> QED
    BY <1>2, <1>6, <2>1, <2>2 DEF Written, EndOp, Call
<1>13. \A e \in Devices : op'[e] = IF e = d THEN call ELSE op[e]
  BY <1>12 DEF SetOp, IInv, TypeOK
<1>14. TypeOK'
  <2>1. op' \in [Devices -> Call]
    BY <1>12 DEF SetOp, IInv, TypeOK
  <2>2. known' \in [Devices -> SUBSET Versions']
    BY <1>5, <1>6 DEF IInv, TypeOK
  <2> QED
    BY <1>4, <2>1, <2>2 DEF IInv, TypeOK
<1>15. LogInv'
  <2> SUFFICES ASSUME NEW n \in Versions'
               PROVE  /\ n \in known'[log'[n].by]
                      /\ log'[n].role = "left" => log'[n].by = log'[n].about
    BY DEF LogInv
  <2>1. CASE n \in Versions
    <3>1. log[n].by \in Devices
      BY <2>1, VersionType
    <3> QED
      BY <1>7, <1>9, <2>1, <3>1 DEF IInv, RolesInv, LogInv
  <2>2. CASE n = Len(log) + 1
    <3>1. op[d].role = "left" => op[d].about = d
      BY DEF IInv, RolesInv, CallInv, CallInvOf, Stage
    <3>2. log'[n].by = d /\ log'[n].about = op[d].about /\ log'[n].role = op[d].role
      BY <1>4, <1>10, <2>2
    <3>3. n \in known'[d]
      BY <1>7, <2>2
    <3> QED
      BY <3>1, <3>2, <3>3
  <2> QED
    BY <1>5, <2>1, <2>2
<1>16. GrantsAreBacked'
  <2> SUFFICES ASSUME NEW n \in Versions', log'[n].role # "left",
                      log'[n].by # Creator
               PROVE  \E m \in 1 .. n - 1 : /\ m \in known'[log'[n].by]
                                            /\ log'[m].about = log'[n].by
                                            /\ log'[m].role = "coordinator"
    BY DEF GrantsAreBacked
  <2>1. CASE n \in Versions
    <3>1. PICK m \in 1 .. n - 1 : /\ m \in known[log[n].by]
                                  /\ log[m].about = log[n].by
                                  /\ log[m].role = "coordinator"
      BY <1>9, <2>1 DEF IInv, RolesInv, GrantsAreBacked
    <3>2. log[n].by \in Devices /\ m \in Versions
      BY <2>1, <3>1, VersionType DEF Versions
    <3> QED
      BY <1>7, <1>9, <2>1, <3>1, <3>2
  <2>2. CASE n = Len(log) + 1
    <3>1. MayAssign(d)
      BY <1>4, <1>10, <2>2 DEF IInv, RolesInv, CallInv, CallInvOf, Stage
    <3>2. PICK m \in known[d] : log[m].about = d /\ log[m].role = "coordinator"
      BY <3>1, <1>4, <1>10, <2>2 DEF MayAssign
    <3>3. m \in Versions
      BY DEF IInv, TypeOK
    <3>4. m \in 1 .. n - 1
      BY <2>2, <3>3, <1>4 DEF Versions
    <3> QED
      BY <1>4, <1>7, <1>9, <1>10, <2>2, <3>2, <3>3, <3>4
  <2> QED
    BY <1>5, <2>1, <2>2
<1>17. OnlyLeaversLoseData'
  <2> SUFFICES ASSUME NEW e \in Devices, data'[e] # "kept" \/ keys'[e] = "auth"
               PROVE  HasLeft(e)'
    BY DEF OnlyLeaversLoseData, HasLeft
  <2>1. HasLeft(e)
    BY DEF IInv, RolesInv, OnlyLeaversLoseData, HasLeft
  <2> QED
    BY <1>8, <2>1
<1>18. CallInv'
  <2>1. Idle.stage = "idle" /\ Idle.leave = FALSE /\ Idle.links = {}
    BY DEF Idle
  <2>2. \A e \in Devices : known[e] \subseteq known'[e]
    BY <1>7
  <2> QED
    <3> SUFFICES ASSUME NEW e \in Devices PROVE CallInvOf(e)'
      BY DEF CallInv
    <3>1. CallInvOf(e)
      BY DEF IInv, RolesInv, CallInv
    <3>2. CASE e = d /\ call = Idle
      BY <1>13, <2>1, <3>2 DEF CallInvOf, Stage
    <3>3. CASE e = d /\ call # Idle
      BY <1>11, <1>12, <1>13, <2>2, <3>1, <3>3 DEF CallInvOf, Stage
    <3>4. CASE e # d
      BY <1>8, <1>13, <2>2, <3>1, <3>4 DEF CallInvOf, Stage
    <3> QED
      BY <3>2, <3>3, <3>4
<1> QED
  BY <1>14, <1>15, <1>16, <1>17, <1>18 DEF IInv, RolesInv

\* A version that reaches a device adds to what it knows.
LEMMA IndexKeeps ==
  ASSUME IInv, NEW d \in Devices, NEW n \in Versions, Index(d, n)
  PROVE  IInv'
<1>1. /\ known' = [known EXCEPT ![d] = @ \cup {n}]
      /\ UNCHANGED <<log, introduced, op, open, data, keys, crashes>>
  BY DEF Index
<1>2. \A e \in Devices : known[e] \subseteq known'[e]
  BY <1>1 DEF IInv, TypeOK
<1>3. \A e \in Devices : /\ MayAssign(e) => MayAssign(e)'
                         /\ HasLeft(e) => HasLeft(e)'
  BY <1>1, <1>2, KnowledgeGrows
<1>4. TypeOK'
  BY <1>1 DEF IInv, TypeOK, Versions
<1>5. \A m \in Versions : log[m].by \in Devices
  BY VersionType
<1>6. LogInv'
  BY <1>1, <1>2, <1>5 DEF IInv, RolesInv, LogInv, Versions
<1>7. GrantsAreBacked'
  BY <1>1, <1>2, <1>5 DEF IInv, RolesInv, GrantsAreBacked, Versions
<1>8. OnlyLeaversLoseData'
  BY <1>1, <1>3 DEF IInv, RolesInv, OnlyLeaversLoseData, HasLeft
<1>9. CallInv'
  <2> SUFFICES ASSUME NEW e \in Devices PROVE CallInvOf(e)'
    BY DEF CallInv
  <2>1. CallInvOf(e)
    BY DEF IInv, RolesInv, CallInv
  <2> QED
    BY <1>1, <1>2, <1>3, <2>1 DEF CallInvOf, Stage
<1> QED
  BY <1>4, <1>6, <1>7, <1>8, <1>9 DEF IInv, RolesInv

-----------------------------------------------------------------------------
(***************************************************************************)
(* The invariant.                                                          *)
(***************************************************************************)
\* The invariant holds at first.
LEMMA InitHolds == Init => IInv
<1> SUFFICES ASSUME Init PROVE IInv
  OBVIOUS
<1>1. Idle \in Call /\ Idle.stage = "idle" /\ Idle.leave = FALSE /\ Idle.links = {}
  BY DEF Idle, Call, Stages, RoleIds
<1>2. Versions = {}
  BY DEF Init, Versions
<1>3. TypeOK
  BY <1>1 DEF Init, TypeOK, Versions
<1>4. LogInv /\ GrantsAreBacked
  BY <1>2 DEF LogInv, GrantsAreBacked
<1>5. CallInv
  BY <1>1 DEF Init, CallInv, CallInvOf, Stage
<1>6. OnlyLeaversLoseData
  BY DEF Init, OnlyLeaversLoseData
<1> QED
  BY <1>3, <1>4, <1>5, <1>6 DEF IInv, RolesInv

\* The steps of assignRole() up to its write, of leaveProject() up to its
\* write, and of getProject(), which replace the call and nothing else.
LEMMA CallSteps ==
  ASSUME IInv, NEW d \in Devices,
         \/ \E x \in Devices, r \in NewRoles : AssignRole(d, x, r)
         \/ ReadExisting(d)
         \/ LeaveProject(d)
         \/ ThrowIfCannotLeaveProject(d)
         \/ GetProject(d)
  PROVE  IInv'
<1>1. /\ op[d] \in Call /\ Idle \in Call
      /\ Idle.leave = FALSE /\ Idle.links = {} /\ Idle.stage = "idle"
  BY DEF IInv, TypeOK, Idle, Call, Stages, RoleIds
<1>2. CallInvOf(d)
  BY DEF IInv, RolesInv, CallInv
<1>3. introduced \in SUBSET Devices /\ open \in SUBSET Devices
      /\ crashes \in 0 .. MaxCrashes
  BY DEF IInv, TypeOK
<1>4. CASE \E x \in Devices, r \in NewRoles : AssignRole(d, x, r)
  <2>1. PICK x \in Devices, r \in NewRoles : AssignRole(d, x, r)
    BY <1>4
  <2> DEFINE call == [Idle EXCEPT !.stage = "reading", !.about = x, !.role = r]
  <2>2. r \in AssignableToOthers /\ r # "left"
    BY DEF AssignableToOthers
  <2>3. /\ call \in Call /\ call.stage = "reading" /\ call.role = r
        /\ call.leave = FALSE /\ call.links = {}
    BY <2>2 DEF Idle, Call, Stages, RoleIds
  <2>4. MayAssign(d)
    <3>1. PICK own : OwnRole(d, own) /\ r \in RoleAssignment(own)
      BY <2>1 DEF AssignRole
    <3> QED
      BY <3>1, AssignersMay
  <2>5. SetOp(d, call) /\ UNCHANGED <<log, known, introduced, open, data, keys, crashes>>
    BY <2>1 DEF AssignRole
  <2> HIDE DEF call
  <2>6. op' \in [Devices -> Call] /\ LogInv' /\ CallInv' /\ GrantsAreBacked'
    BY <2>2, <2>3, <2>4, <2>5, CallReplaced
  <2> QED
    BY <1>3, <2>5, <2>6, CallKeeps
<1>5. CASE ReadExisting(d)
  <2> DEFINE call == [op[d] EXCEPT !.stage = "writing",
                                   !.links = Heads(known[d], op[d].about)]
  <2>1. SetOp(d, call) /\ UNCHANGED <<log, known, introduced, open, data, keys, crashes>>
    BY <1>5 DEF ReadExisting
  <2>2. Heads(known[d], op[d].about) \subseteq known[d]
    BY DEF Heads
  <2>3. known[d] \subseteq Nat \ {0}
    BY DEF IInv, TypeOK, Versions
  <2>4. Heads(known[d], op[d].about) \in SUBSET (Nat \ {0})
    BY <2>2, <2>3
  <2>5. /\ call \in Call /\ call.stage = "writing" /\ call.role = op[d].role
        /\ call.leave = op[d].leave /\ call.about = op[d].about
        /\ call.links = Heads(known[d], op[d].about)
    BY <1>1, <2>4 DEF Call, Stages
  <2>6. op[d].stage = "reading"
    BY <1>5 DEF ReadExisting, Stage
  <2> HIDE DEF call
  <2>7. op' \in [Devices -> Call] /\ LogInv' /\ CallInv' /\ GrantsAreBacked'
    BY <1>2, <2>1, <2>2, <2>5, <2>6, CallReplaced DEF CallInvOf, Stage
  <2> QED
    BY <1>3, <2>1, <2>7, CallKeeps
<1>6. CASE LeaveProject(d)
  <2> DEFINE L == {x \in Devices : HasRole(known[d], x, "coordinator")}
             call == [Idle EXCEPT !.stage = "leaving", !.about = d,
                                  !.leave = TRUE, !.leaders = L]
  <2>1. SetOp(d, call) /\ UNCHANGED <<log, known, introduced, open, data, keys, crashes>>
    BY <1>6 DEF LeaveProject
  <2>2. L \in SUBSET Devices
    OBVIOUS
  <2> HIDE DEF L
  <2>3. /\ call \in Call /\ call.stage = "leaving" /\ call.role = "left"
        /\ call.leave = TRUE /\ call.about = d /\ call.links = {}
    BY <2>2 DEF Idle, Call, Stages, RoleIds
  <2> HIDE DEF call
  <2>4. op' \in [Devices -> Call] /\ LogInv' /\ CallInv' /\ GrantsAreBacked'
    BY <2>1, <2>3, CallReplaced
  <2> QED
    BY <1>3, <2>1, <2>4, CallKeeps
<1>7. CASE ThrowIfCannotLeaveProject(d)
  <2> DEFINE call == [op[d] EXCEPT !.stage = "reading"]
  <2>1. /\ SetOp(d, call) \/ EndOp(d)
        /\ UNCHANGED <<log, known, introduced, open, data, keys, crashes>>
    BY <1>7 DEF ThrowIfCannotLeaveProject
  <2>2. CASE EndOp(d)
    BY <1>3, <2>1, <2>2, EndKeeps
  <2>3. CASE SetOp(d, call)
    <3>1. /\ call \in Call /\ call.stage = "reading" /\ call.role = op[d].role
          /\ call.leave = op[d].leave /\ call.about = op[d].about
          /\ call.links = op[d].links
      BY <1>1 DEF Call, Stages
    <3>2. op[d].stage = "leaving" /\ op[d].role = "left"
      BY <1>2, <1>7 DEF ThrowIfCannotLeaveProject, Stage, CallInvOf
    <3> HIDE DEF call
    <3>3. op' \in [Devices -> Call] /\ LogInv' /\ CallInv' /\ GrantsAreBacked'
      BY <1>2, <2>1, <2>3, <3>1, <3>2, CallReplaced DEF CallInvOf, Stage
    <3> QED
      BY <1>3, <2>1, <3>3, CallKeeps
  <2> QED
    BY <2>1, <2>2, <2>3
<1>8. CASE GetProject(d)
  <2> DEFINE call == [Idle EXCEPT !.stage = "checking"]
  <2>1. SetOp(d, call) /\ UNCHANGED <<log, known, introduced, open, data, keys, crashes>>
    BY <1>8 DEF GetProject
  <2>2. /\ call \in Call /\ call.stage = "checking"
        /\ call.leave = FALSE /\ call.links = {}
    BY DEF Idle, Call, Stages, RoleIds
  <2> HIDE DEF call
  <2>3. op' \in [Devices -> Call] /\ LogInv' /\ CallInv' /\ GrantsAreBacked'
    BY <2>1, <2>2, CallReplaced
  <2> QED
    BY <1>3, <2>1, <2>3, CallKeeps
<1> QED
  BY <1>4, <1>5, <1>6, <1>7, <1>8

\* The steps by which a device clears its data, deletes its keys, or finds
\* that it need not.
LEMMA ClearSteps ==
  ASSUME IInv, NEW d \in Devices,
         ClearDataIfLeft(d) \/ Cleared(d) \/ SaveToProjectKeysTable(d)
  PROVE  IInv'
<1>1. op[d] \in Call /\ CallInvOf(d)
  BY DEF IInv, TypeOK, RolesInv, CallInv
<1>2. PICK call \in Call :
        /\ SetOp(d, call)
        /\ \/ call = Idle
           \/ /\ call.stage \in {"clearing", "ending"}
              /\ call.role = op[d].role /\ call.leave = op[d].leave
              /\ call.about = op[d].about /\ call.links = op[d].links
        /\ call.stage = "clearing" => HasLeft(d)
  <2>1. Idle \in Call /\ Idle.stage = "idle"
    BY DEF Idle, Call, Stages, RoleIds
  <2>2. \A s \in {"clearing", "ending"} :
          /\ [op[d] EXCEPT !.stage = s] \in Call
          /\ [op[d] EXCEPT !.stage = s].stage = s
          /\ [op[d] EXCEPT !.stage = s].role = op[d].role
          /\ [op[d] EXCEPT !.stage = s].leave = op[d].leave
          /\ [op[d] EXCEPT !.stage = s].about = op[d].about
          /\ [op[d] EXCEPT !.stage = s].links = op[d].links
    BY <1>1 DEF Call, Stages
  <2>3. CASE ClearDataIfLeft(d)
    BY <2>2, <2>3, LeftByItself DEF ClearDataIfLeft
  <2>4. CASE Cleared(d)
    BY <2>2, <2>4 DEF Cleared
  <2>5. CASE SaveToProjectKeysTable(d)
    BY <2>1, <2>5 DEF SaveToProjectKeysTable, EndOp
  <2> QED
    BY <2>3, <2>4, <2>5
<1>3. /\ UNCHANGED <<log, known, introduced, crashes>>
      /\ open' \in SUBSET Devices
      /\ data' \in [Devices -> {"kept", "clearing", "cleared"}]
      /\ keys' \in [Devices -> {"all", "auth"}]
  BY DEF ClearDataIfLeft, Cleared, SaveToProjectKeysTable, IInv, TypeOK
<1>4. op' \in [Devices -> Call] /\ LogInv' /\ CallInv' /\ GrantsAreBacked'
  <2>1. Idle.stage = "idle" /\ Idle.leave = FALSE /\ Idle.links = {}
    BY DEF Idle
  <2>2. op[d].stage \in {"checking", "clearing", "ending"}
    BY DEF ClearDataIfLeft, Cleared, SaveToProjectKeysTable, Stage
  <2>3. CASE call = Idle
    BY <1>2, <1>3, <2>1, <2>3, CallReplaced
  <2>4. CASE call # Idle
    BY <1>1, <1>2, <1>3, <2>2, <2>4, CallReplaced DEF CallInvOf, Stage
  <2> QED
    BY <2>3, <2>4
<1>5. OnlyLeaversLoseData'
  <2>1. CASE HasLeft(d)
    <3>1. \A e \in Devices \ {d} : data'[e] = data[e] /\ keys'[e] = keys[e]
      BY DEF ClearDataIfLeft, Cleared, SaveToProjectKeysTable, IInv, TypeOK
    <3> QED
      BY <1>3, <2>1, <3>1, LossKeeps
  <2>2. CASE ~HasLeft(d)
    <3>1. ~OwnRole(d, "left")
      BY <2>2, LeftByItself
    <3>2. ~Stage(d, "clearing") /\ ~(Stage(d, "ending") /\ op[d].leave)
      BY <1>1, <2>2 DEF CallInvOf, Stage
    <3>3. UNCHANGED <<data, keys>>
      BY <3>1, <3>2 DEF ClearDataIfLeft, Cleared, SaveToProjectKeysTable
    <3> QED
      BY <1>3, <3>3, SameDataKeeps
  <2> QED
    BY <2>1, <2>2
<1>6. TypeOK'
  BY <1>3, <1>4 DEF IInv, TypeOK, Versions
<1> QED
  BY <1>4, <1>5, <1>6 DEF IInv, RolesInv

\* The write, or the refusal to write.
LEMMA WriteSteps ==
  ASSUME IInv, NEW d \in Devices, CreateRole(d) \/ UpdateRole(d)
  PROVE  IInv'
<1>1. /\ Stage(d, "writing")
      /\ UNCHANGED <<introduced, open, data, keys, crashes>>
      /\ \/ CreateRole(d) /\ Write(d, Len(log) + 1)
         \/ UpdateRole(d) /\ \E n \in op[d].links : Write(d, log[n].origin)
         \/ EndOp(d) /\ UNCHANGED <<log, known>>
  BY DEF CreateRole, UpdateRole
<1>2. CASE Write(d, Len(log) + 1)
  <2>1. Len(log) + 1 \in Nat \ {0}
    BY DEF IInv, TypeOK
  <2> QED
    BY <1>1, <1>2, <2>1, WriteKeeps
<1>3. CASE \E n \in op[d].links : Write(d, log[n].origin)
  <2>1. PICK n \in op[d].links : Write(d, log[n].origin)
    BY <1>3
  <2>2. CallInvOf(d)
    BY DEF IInv, RolesInv, CallInv
  <2>3. n \in Versions
    BY <2>2 DEF CallInvOf, IInv, TypeOK
  <2>4. log[n] \in Version
    BY <2>3 DEF IInv, TypeOK, Versions
  <2>5. log[n].origin \in Nat \ {0}
    BY <2>4 DEF Version
  <2> QED
    BY <1>1, <2>1, <2>5, WriteKeeps
<1>4. CASE EndOp(d) /\ UNCHANGED <<log, known>>
  <2>1. open' \in SUBSET Devices /\ crashes' \in 0 .. MaxCrashes
    BY <1>1 DEF IInv, TypeOK
  <2> QED
    BY <1>1, <1>4, <2>1, EndKeeps
<1> QED
  BY <1>1, <1>2, <1>3, <1>4

\* Every step keeps the invariant.
LEMMA StepHolds == IInv /\ [Next]_vars => IInv'
<1> SUFFICES ASSUME IInv, [Next]_vars PROVE IInv'
  OBVIOUS
<1>1. CASE UNCHANGED vars
  BY <1>1 DEF vars, IInv, TypeOK, RolesInv, LogInv, CallInv, CallInvOf, MayAssign,
              HasLeft, Stage, GrantsAreBacked, OnlyLeaversLoseData, Versions
<1>2. ASSUME NEW d \in Devices, \E x \in Devices, r \in NewRoles : AssignRole(d, x, r)
      PROVE  IInv'
  BY <1>2, CallSteps
<1>3. ASSUME NEW d \in Devices, LeaveProject(d) \/ GetProject(d)
      PROVE  IInv'
  BY <1>3, CallSteps
<1>4. ASSUME NEW d \in Devices, Proceed(d)
      PROVE  IInv'
  <2>1. CASE ReadExisting(d) \/ ThrowIfCannotLeaveProject(d)
    BY <2>1, CallSteps
  <2>2. CASE CreateRole(d) \/ UpdateRole(d)
    BY <2>2, WriteSteps
  <2>3. CASE ClearDataIfLeft(d) \/ Cleared(d) \/ SaveToProjectKeysTable(d)
    BY <2>3, ClearSteps
  <2>4. CASE Opened(d)
    <3>1. /\ EndOp(d) /\ UNCHANGED <<log, known, introduced, data, keys>>
          /\ open' \in SUBSET Devices /\ crashes' \in 0 .. MaxCrashes
      BY <2>4 DEF Opened, IInv, TypeOK
    <3> QED
      BY <3>1, EndKeeps
  <2> QED
    BY <1>4, <2>1, <2>2, <2>3, <2>4 DEF Proceed
<1>5. ASSUME NEW d \in Devices, \E n \in Versions : Index(d, n)
      PROVE  IInv'
  BY <1>5, IndexKeeps
<1>6. ASSUME NEW d \in Devices, IndexOwnership(d)
      PROVE  IInv'
  BY <1>6 DEF IndexOwnership, IInv, TypeOK, RolesInv, LogInv, CallInv, CallInvOf,
              MayAssign, HasLeft, Stage, GrantsAreBacked, OnlyLeaversLoseData, Versions
<1>7. ASSUME NEW d \in Devices, Crash(d)
      PROVE  IInv'
  <2>1. /\ EndOp(d) /\ UNCHANGED <<log, known, introduced, data, keys>>
        /\ open' \in SUBSET Devices /\ crashes' \in 0 .. MaxCrashes
    BY <1>7 DEF Crash, IInv, TypeOK
  <2> QED
    BY <2>1, EndKeeps
<1> QED
  BY <1>1, <1>2, <1>3, <1>4, <1>5, <1>6, <1>7 DEF Next

-----------------------------------------------------------------------------
\* The inductive invariant holds throughout.
THEOREM InvariantHolds == Spec => []IInv
<1>1. Init => IInv
  BY InitHolds
<1>2. IInv /\ [Next]_vars => IInv'
  BY StepHolds
<1> QED
  BY <1>1, <1>2, PTL DEF Spec

\* Every variable has its type: in particular the origin of a version is a
\* version, though it is copied from whatever the caller read earlier.
THEOREM TypeCorrect == Spec => []TypeOK
<1>1. IInv => TypeOK
  BY DEF IInv
<1> QED
  BY <1>1, InvariantHolds, PTL

\* roles.js: whoever assigned a role to another device, or to itself, had
\* been given the power to, before, by a record it knew.
THEOREM GrantsBacked == Spec => []GrantsAreBacked
<1>1. IInv => GrantsAreBacked
  BY DEF IInv, RolesInv
<1> QED
  BY <1>1, InvariantHolds, PTL

\* mapeo-project.js: no device loses data or keys but by its own LEFT record.
THEOREM LossIsOwnDecision == Spec => []OnlyLeaversLoseData
<1>1. IInv => OnlyLeaversLoseData
  BY DEF IInv, RolesInv
<1> QED
  BY <1>1, InvariantHolds, PTL
=============================================================================
