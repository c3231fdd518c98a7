-------------------------------- MODULE Roles --------------------------------
(***************************************************************************)
(* The roles of the devices of one project (src/src/roles.js), kept as     *)
(* documents in the auth cores that every device replicates, and leaving   *)
(* the project (src/src/mapeo-project.js, src/src/mapeo-manager.js).       *)
(*                                                                         *)
(* A role document is a version graph: a version links to the ones it      *)
(* replaces, and versions that no known version links to are its heads.    *)
(* Devices write while disconnected and learn the versions of the others   *)
(* in any order, so heads multiply (a fork).  The auth cores hold little   *)
(* else, so a device's replica is the set of the versions it has indexed.  *)
(*                                                                         *)
(* A device is in one call of this API at a time.  A definition commented  *)
(* as a mutant is part of no specification (see Invites.tla).              *)
(***************************************************************************)
EXTENDS Integers, Sequences, FiniteSets

CONSTANTS Devices,
          Creator,      \* the device whose auth core is the project's
          NewRoles,     \* the roles that assignRole() is called with
          Leavers,      \* devices that may leave, and whose programs may stop
                        \* (elsewhere a stop does no more than end a call)
          Times,        \* updatedAt of a version, by the writer's own clock
          MaxVersions,  \* bound on the versions written
          MaxCrashes    \* bound on the times the programs stop

AssignableToOthers == {"coordinator", "member", "blocked"}

ASSUME RolesAssumption ==
  /\ Creator \in Devices
  /\ NewRoles \subseteq AssignableToOthers
  /\ Leavers \subseteq Devices
  /\ Times \subseteq Nat
  /\ MaxVersions \in Nat /\ MaxCrashes \in Nat

VARIABLES log,          \* every version written, anywhere, in writing order
          known,        \* the versions each device has indexed
          introduced,   \* devices that know which device is the creator
          op,           \* the call each device is in
          open,         \* devices with the project among their activeProjects
          data,         \* what a device holds besides the auth cores
          keys,         \* the encryption keys a device holds
          crashes

vars == <<log, known, introduced, op, open, data, keys, crashes>>

Versions == 1 .. Len(log)
RoleIds == AssignableToOthers \cup {"left"}
Version == [by : Devices, about : Devices, role : RoleIds, time : Times,
            links : SUBSET (Nat \ {0}), origin : Nat \ {0}]

Stages == {"idle", "reading", "writing", "leaving", "checking", "clearing",
           "ending"}
Call == [stage : Stages, about : Devices, role : RoleIds, leave : BOOLEAN,
         links : SUBSET (Nat \ {0}), leaders : SUBSET Devices]

Idle == [stage |-> "idle", about |-> Creator, role |-> "left",
         leave |-> FALSE, links |-> {}, leaders |-> {}]

TypeOK ==
  /\ log \in Seq(Version)
  /\ known \in [Devices -> SUBSET Versions]
  /\ introduced \in SUBSET Devices
  /\ op \in [Devices -> Call]
  /\ open \in SUBSET Devices
  /\ data \in [Devices -> {"kept", "clearing", "cleared"}]
  /\ keys \in [Devices -> {"all", "auth"}]
  /\ crashes \in 0 .. MaxCrashes

Init ==
  /\ log = <<>>
  /\ known = [d \in Devices |-> {}]
  /\ introduced = {Creator}
  /\ op = [d \in Devices |-> Idle]
  /\ open = Devices
  /\ data = [d \in Devices |-> "kept"]
  /\ keys = [d \in Devices |-> "all"]
  /\ crashes = 0

-----------------------------------------------------------------------------
(***************************************************************************)
(* Reading roles.                                                          *)
(***************************************************************************)
\* The versions about x in K that no version in K replaces: the indexed
\* document and its forks.
Heads(K, x) == {n \in K : /\ log[n].about = x
                          /\ \A m \in K : n \notin log[m].links}

\* Of two forks the later one by its clock wins, else a fixed one of them.
Beats(n, m) == \/ log[n].time > log[m].time
               \/ log[n].time = log[m].time /\ n >= m

\* getRole(x) is r for a device that has indexed the versions K: what the
\* winning version says, else CREATOR for the creator, else NO_ROLE.
HasRole(K, x, r) ==
  \/ \E n \in Heads(K, x) : /\ \A m \in Heads(K, x) : Beats(n, m)
                            /\ r = log[n].role
  \/ /\ Heads(K, x) = {}
     /\ r = IF x = Creator THEN "creator" ELSE "none"

OwnRole(d, r) == HasRole(known[d], d, r)

RoleAssignment(r) ==
  IF r \in {"creator", "coordinator"} THEN AssignableToOthers ELSE {}

\* getAll(), as far as which devices it names
Members(d) == {x \in Devices : \/ Heads(known[d], x) # {}
                               \/ x = d
                               \/ x = Creator /\ d \in introduced}

-----------------------------------------------------------------------------
SetOp(d, call) == op' = [op EXCEPT ![d] = call]
EndOp(d) == SetOp(d, Idle)
Stage(d, stage) == op[d].stage = stage

(***************************************************************************)
(* assignRole().  Of its two checks the one that only the creator may      *)
(* assign the creator's role passes always: it negates a promise.          *)
(***************************************************************************)
\* Mutant: the role of the wrong device is looked up.
AssignRoleByTheirRole(d, x, r) ==
  /\ d \in open /\ Stage(d, "idle")
  /\ Len(log) < MaxVersions
  /\ r \in NewRoles
  /\ \E own \in RoleIds \cup {"creator", "none"} :
       HasRole(known[d], x, own) /\ r \in RoleAssignment(own)
  /\ SetOp(d, [Idle EXCEPT !.stage = "reading", !.about = x, !.role = r])
  /\ UNCHANGED <<log, known, introduced, open, data, keys, crashes>>

AssignRole(d, x, r) ==
  /\ d \in open /\ Stage(d, "idle")
  /\ Len(log) < MaxVersions
  /\ r \in NewRoles
  /\ \E own \in RoleIds \cup {"creator", "none"} :
       OwnRole(d, own) /\ r \in RoleAssignment(own)
  /\ SetOp(d, [Idle EXCEPT !.stage = "reading", !.about = x, !.role = r])
  /\ UNCHANGED <<log, known, introduced, open, data, keys, crashes>>

\* The existing document and its forks, if there is one.
ReadExisting(d) ==
  /\ Stage(d, "reading")
  /\ SetOp(d, [op[d] EXCEPT !.stage = "writing",
                            !.links = Heads(known[d], op[d].about)])
  /\ UNCHANGED <<log, known, introduced, open, data, keys, crashes>>

\* The call is over, or goes on to clear the data of a device that left.
Written(d) == IF op[d].leave THEN SetOp(d, [op[d] EXCEPT !.stage = "checking"])
                             ELSE EndOp(d)

Write(d, origin) ==
  /\ Len(log) < MaxVersions
  /\ \E t \in Times :
       log' = Append(log, [by |-> d, about |-> op[d].about,
                           role |-> op[d].role, time |-> t,
                           links |-> op[d].links, origin |-> origin])
  /\ known' = [known EXCEPT ![d] = @ \cup {Len(log) + 1}]
  /\ Written(d)

\* kCreateWithDocId: refused if a version was indexed since.
CreateRole(d) ==
  /\ Stage(d, "writing")
  /\ op[d].links = {}
  /\ IF Heads(known[d], op[d].about) = {}
       THEN Write(d, Len(log) + 1)
       ELSE EndOp(d) /\ UNCHANGED <<log, known>>
  /\ UNCHANGED <<introduced, open, data, keys, crashes>>

\* update: refused unless the linked versions descend from one original.
UpdateRole(d) ==
  /\ Stage(d, "writing")
  /\ op[d].links # {}
  /\ \/ \E n \in op[d].links :
          /\ \A m \in op[d].links : log[m].origin = log[n].origin
          /\ Write(d, log[n].origin)
     \/ /\ \E m, n \in op[d].links : log[m].origin # log[n].origin
        /\ EndOp(d)
        /\ UNCHANGED <<log, known>>
  /\ UNCHANGED <<introduced, open, data, keys, crashes>>

-----------------------------------------------------------------------------
(***************************************************************************)
(* leaveProject().                                                         *)
(***************************************************************************)
\* The role documents are read once, and getAll() reads them again.
LeaveProject(d) ==
  /\ d \in Leavers
  /\ d \in open /\ Stage(d, "idle")
  /\ Len(log) < MaxVersions
  /\ ~ (Heads(known[d], d) # {} /\ OwnRole(d, "blocked"))
  /\ SetOp(d, [Idle EXCEPT
        !.stage = "leaving", !.about = d, !.leave = TRUE,
        !.leaders = {x \in Devices : HasRole(known[d], x, "coordinator")}])
  /\ UNCHANGED <<log, known, introduced, open, data, keys, crashes>>

\* The creator counts whatever its role is now.
ThrowIfCannotLeaveProject(d) ==
  /\ Stage(d, "leaving")
  /\ IF \/ Members(d) = {d}
        \/ /\ d \in introduced
           /\ \E x \in Members(d) \ {d} : x \in op[d].leaders \cup {Creator}
       THEN SetOp(d, [op[d] EXCEPT !.stage = "reading"])
       ELSE EndOp(d)
  /\ UNCHANGED <<log, known, introduced, open, data, keys, crashes>>

\* Mutant: a device that does not find its role is cleared as well.
ClearDataIfNoRole(d) ==
  /\ Stage(d, "checking")
  /\ IF OwnRole(d, "left") \/ OwnRole(d, "none")
       THEN /\ SetOp(d, [op[d] EXCEPT !.stage = "clearing"])
            /\ data' = [data EXCEPT ![d] = IF @ = "kept" THEN "clearing" ELSE @]
       ELSE /\ SetOp(d, [op[d] EXCEPT !.stage = "ending"])
            /\ UNCHANGED data
  /\ UNCHANGED <<log, known, introduced, open, keys, crashes>>

\* kClearDataIfLeft: a no-op for a device whose role is another one.  What
\* follows is saving the keys, or having the project open.
ClearDataIfLeft(d) ==
  /\ Stage(d, "checking")
  /\ IF OwnRole(d, "left")
       THEN /\ SetOp(d, [op[d] EXCEPT !.stage = "clearing"])
            /\ data' = [data EXCEPT ![d] = IF @ = "kept" THEN "clearing" ELSE @]
       ELSE /\ SetOp(d, [op[d] EXCEPT !.stage = "ending"])
            /\ UNCHANGED data
  /\ UNCHANGED <<log, known, introduced, open, keys, crashes>>

Cleared(d) ==
  /\ Stage(d, "clearing")
  /\ data' = [data EXCEPT ![d] = "cleared"]
  /\ SetOp(d, [op[d] EXCEPT !.stage = "ending"])
  /\ UNCHANGED <<log, known, introduced, open, keys, crashes>>

\* All keys but the one for auth are deleted.
SaveToProjectKeysTable(d) ==
  /\ Stage(d, "ending")
  /\ op[d].leave
  /\ keys' = [keys EXCEPT ![d] = "auth"]
  /\ open' = open \ {d}
  /\ EndOp(d)
  /\ UNCHANGED <<log, known, introduced, data, crashes>>

\* Mutant: the project is opened as it is.
GetProjectUnchecked(d) ==
  /\ d \notin open /\ Stage(d, "idle")
  /\ SetOp(d, [Idle EXCEPT !.stage = "ending"])
  /\ UNCHANGED <<log, known, introduced, open, data, keys, crashes>>

\* getProject() of a project that is not open begins with kClearDataIfLeft.
GetProject(d) ==
  /\ d \notin open /\ Stage(d, "idle")
  /\ SetOp(d, [Idle EXCEPT !.stage = "checking"])
  /\ UNCHANGED <<log, known, introduced, open, data, keys, crashes>>

Opened(d) ==
  /\ Stage(d, "ending")
  /\ ~op[d].leave
  /\ open' = open \cup {d}
  /\ EndOp(d)
  /\ UNCHANGED <<log, known, introduced, data, keys, crashes>>

-----------------------------------------------------------------------------
\* A version, or the creator's ownership record, reaches a device.
Index(d, n) == /\ n \in Versions \ known[d]
               /\ known' = [known EXCEPT ![d] = @ \cup {n}]
               /\ UNCHANGED <<log, introduced, op, open, data, keys, crashes>>

IndexOwnership(d) ==
  /\ d \notin introduced
  /\ introduced' = introduced \cup {d}
  /\ UNCHANGED <<log, known, op, open, data, keys, crashes>>

Crash(d) == /\ d \in Leavers
            /\ crashes < MaxCrashes
            /\ crashes' = crashes + 1
            /\ open' = open \ {d}
            /\ EndOp(d)
            /\ UNCHANGED <<log, known, introduced, data, keys>>

\* A call goes on by itself.
Proceed(d) == \/ ReadExisting(d)
              \/ CreateRole(d)
              \/ UpdateRole(d)
              \/ ThrowIfCannotLeaveProject(d)
              \/ ClearDataIfLeft(d)
              \/ Cleared(d)
              \/ SaveToProjectKeysTable(d)
              \/ Opened(d)

Next == \E d \in Devices : \/ \E x \in Devices, r \in NewRoles :
                                AssignRole(d, x, r)
                           \/ LeaveProject(d)
                           \/ GetProject(d)
                           \/ Proceed(d)
                           \/ \E n \in Versions : Index(d, n)
                           \/ IndexOwnership(d)
                           \/ Crash(d)

Spec == Init /\ [][Next]_vars

\* Calls go on; a program that stopped is started, and opens its projects.
FairSpec == Spec /\ \A d \in Devices : WF_vars(Proceed(d) \/ GetProject(d))

-----------------------------------------------------------------------------
(***************************************************************************)
(* Properties.                                                             *)
(***************************************************************************)
\* Power comes from the creator: a device that assigned a role to anybody is
\* the creator or knew of itself being made a coordinator, even if its
\* replica forks, lags or is told so while assignRole() waits.
GrantsAreBacked ==
  \A n \in Versions : log[n].role # "left" =>
    \/ log[n].by = Creator
    \/ \E m \in 1 .. n - 1 : /\ m \in known[log[n].by]
                             /\ log[m].about = log[n].by
                             /\ log[m].role = "coordinator"

\* No record another device writes, and no crash, makes a device clear its
\* data or delete its keys: only its own decision to leave does.
OnlyLeaversLoseData ==
  \A d \in Devices : data[d] # "kept" \/ keys[d] = "auth" =>
    \E n \in known[d] : /\ log[n].by = d
                        /\ log[n].about = d
                        /\ log[n].role = "left"

\* The inductive invariant of the proofs (RolesProofs), by parts.
MayAssign(d) == \/ d = Creator
                \/ \E m \in known[d] : /\ log[m].about = d
                                      /\ log[m].role = "coordinator"

HasLeft(d) == \E n \in known[d] : /\ log[n].by = d
                                  /\ log[n].about = d
                                  /\ log[n].role = "left"

\* A device knows what it wrote; LEFT is written by the device itself.
LogInv == \A n \in Versions : /\ n \in known[log[n].by]
                              /\ log[n].role = "left" => log[n].by = log[n].about

\* What a call has checked remains so while it waits: the record that gave
\* the caller its role may be replaced, but it does not disappear.
CallInvOf(d) ==
  /\ op[d].stage \in {"reading", "writing"} /\ op[d].role # "left" => MayAssign(d)
  /\ op[d].role = "left" /\ op[d].stage \in {"reading", "writing", "leaving"} =>
       op[d].about = d
  /\ op[d].leave => op[d].role = "left"
  /\ Stage(d, "leaving") => op[d].leave
  /\ op[d].links \subseteq known[d]
  /\ op[d].leave /\ op[d].stage \in {"checking", "clearing", "ending"} => HasLeft(d)
  /\ Stage(d, "clearing") => HasLeft(d)

CallInv == \A d \in Devices : CallInvOf(d)

RolesInv == LogInv /\ CallInv /\ GrantsAreBacked /\ OnlyLeaversLoseData

\* A device that stopped after it left and before its data was cleared does
\* that before it opens the project again ("partly-left projects are cleaned
\* up on startup").
LeftIsCleared ==
  \A d \in Devices : d \notin open /\ Stage(d, "idle") /\ OwnRole(d, "left")
                       ~> data[d] = "cleared" \/ ~OwnRole(d, "left")

=============================================================================
