-------------------------------- MODULE Projects --------------------------------
(***************************************************************************)
(* The projects of one device, as MapeoManager and MapeoProject keep them  *)
(* (src/src/mapeo-manager.js, src/src/mapeo-project.js): creating, adding, *)
(* opening and leaving projects, the initial sync of a project             *)
(* that was added, and the device info that is written into each project.  *)
(*                                                                         *)
(* A call runs as one thread for each project it is about, up to an await  *)
(* at a time; Slots calls may overlap, on one project as well, since media *)
(* requests and invites open and add projects on their own.  A definition  *)
(* commented as a mutant is part of no specification (see Invites.tla).    *)
(***************************************************************************)
EXTENDS Integers, Sequences, FiniteSets

CONSTANTS Own,           \* projects this device may create
          Joinable,      \* projects it may be invited to
          Slots,         \* bound on the calls that overlap
          MaxInfo,       \* bound on the device infos saved
          MaxInstances,  \* [Projects -> Nat]: bound on the instances of each that
                         \* the program makes until it stops
          MaxCrashes

Projects == Own \cup Joinable

ASSUME ProjectsAssumption ==
  /\ Own \cap Joinable = {}
  /\ MaxInfo \in Nat /\ MaxInstances \in [Projects -> Nat] /\ MaxCrashes \in Nat

VARIABLES row,        \* the encryption keys in projectKeysTable
          saved,      \* the device info in localDeviceInfoTable; 0: none
          made,       \* how many instances there are of each project
          active,     \* activeProjects
          calls,      \* [Slots -> [Projects -> thread]]
          doc,        \* the own device info in each project; 0: none
          settings,   \* projects whose settings are indexed
          role,       \* the own role, as far as it is indexed
          blocks,     \* what there is of the blocks of each namespace
          event,      \* projects with a throttled 'state' event on its way
          joined,     \* projects that were created or added to the end
          crashes

disk == <<row, saved>>
memory == <<made, active>>
replica == <<doc, settings, role, blocks, event>>
vars == <<disk, memory, calls, replica, joined, crashes>>

Ops == {"none", "create", "get", "add", "leave", "inform"}
Stages == {"none", "opening", "settings", "reading info", "writing info",
           "reading own", "checking", "waiting", "leaving", "left"}
Thread == [op : Ops, stage : Stages, info : 0 .. MaxInfo, found : BOOLEAN]
Done == [op |-> "none", stage |-> "none", info |-> 0, found |-> FALSE]
Begin(op, stage) == [Done EXCEPT !.op = op, !.stage = stage]

\* Type correctness; a thread that writes a device info has one.
TypeOK ==
  /\ row \in [Projects -> {"none", "all", "auth"}] /\ saved \in 0 .. MaxInfo
  /\ \A p \in Projects : made[p] \in 0 .. MaxInstances[p]
  /\ DOMAIN made = Projects /\ active \in SUBSET Projects
  /\ calls \in [Slots -> [Projects -> Thread]]
  /\ \A s \in Slots, p \in Projects :
       calls[s][p].stage \in {"reading info", "writing info"} => calls[s][p].info # 0
  /\ doc \in [Projects -> 0 .. MaxInfo]
  /\ settings \in SUBSET Projects
  /\ role \in [Projects -> {"none", "member", "left"}]
  /\ blocks \in [Projects -> [{"auth", "config"} -> {"unknown", "wanted", "had"}]]
  /\ event \in SUBSET Joinable
  /\ joined \in SUBSET Projects
  /\ crashes \in 0 .. MaxCrashes

\* Nothing is open after a start, whatever is on disk.
Init ==
  /\ row = [p \in Projects |-> "none"] /\ saved = 0
  /\ made = [p \in Projects |-> 0] /\ active = {}
  /\ calls = [s \in Slots |-> [p \in Projects |-> Done]]
  /\ doc = [p \in Projects |-> 0]
  /\ settings = {} /\ role = [p \in Projects |-> "none"]
  /\ blocks = [p \in Projects |-> [n \in {"auth", "config"} |->
                 IF p \in Joinable THEN "unknown" ELSE "had"]]
  /\ event = {}
  /\ joined = {} /\ crashes = 0

-----------------------------------------------------------------------------
Free(s) == \A p \in Projects : calls[s][p] = Done
Set(s, p, t) == calls' = [calls EXCEPT ![s][p] = t]
GoTo(s, p, stage) == Set(s, p, [calls[s][p] EXCEPT !.stage = stage])
End(s, p) == Set(s, p, Done)
At(s, p, stage) == calls[s][p].stage = stage

HasSavedDeviceInfo == saved # 0

\* The keys are replaced if the project has a row.
SaveToProjectKeysTable(p, keys) == row' = [row EXCEPT ![p] = keys]

\* The constructor of MapeoProject and the read of the own role, which is
\* awaited while the instance is known to this call alone.
CreateProjectInstance(s, p, op) ==
  /\ made[p] < MaxInstances[p]
  /\ made' = [made EXCEPT ![p] = @ + 1]
  /\ Set(s, p, Begin(op, "opening"))

\* createProject() makes a new key, so no project has it yet.
CreateProject(s, p) ==
  /\ Free(s) /\ p \in Own /\ row[p] = "none"
  /\ SaveToProjectKeysTable(p, "all")
  /\ role' = [role EXCEPT ![p] = "member"]
  /\ CreateProjectInstance(s, p, "create")
  /\ UNCHANGED <<saved, active, doc, settings, blocks, event, joined, crashes>>

\* getProject() where the project is not active; it throws if there is no row,
\* and one that is active is returned at once.
GetProject(s, p) ==
  /\ Free(s) /\ p \notin active /\ row[p] # "none"
  /\ CreateProjectInstance(s, p, "get")
  /\ UNCHANGED <<disk, active, replica, joined, crashes>>

\* Mutant: whether there is a row is not looked up.
AddProjectUnchecked(s, p) ==
  /\ Free(s) /\ p \in Joinable /\ p \notin active
  /\ SaveToProjectKeysTable(p, "all")
  /\ CreateProjectInstance(s, p, "add")
  /\ UNCHANGED <<saved, active, replica, joined, crashes>>

\* addProject() up to its first await; else it throws.
AddProject(s, p) ==
  /\ Free(s) /\ p \in Joinable /\ p \notin active /\ row[p] = "none"
  /\ SaveToProjectKeysTable(p, "all")
  /\ CreateProjectInstance(s, p, "add")
  /\ UNCHANGED <<saved, active, replica, joined, crashes>>

LeaveProject(s, p) ==
  /\ Free(s) /\ row[p] # "none"
  /\ \/ /\ p \notin active
        /\ CreateProjectInstance(s, p, "leave")
     \/ /\ p \in active
        /\ Set(s, p, Begin("leave", "leaving"))
        /\ UNCHANGED made
  /\ UNCHANGED <<disk, active, replica, joined, crashes>>

\* "We use the project keys table as the source of truth for projects that
\* exist": those that were left and those that are still being added as well.
ListProjects == {p \in Projects : row[p] # "none"}

\* The projects listed that are not active are opened, all at once.
SetDeviceInfo(s) ==
  LET ToOpen == ListProjects \ active
  IN /\ Free(s) /\ saved < MaxInfo
     /\ saved' = saved + 1
     /\ \A p \in ToOpen : made[p] < MaxInstances[p]
     /\ made' = [p \in Projects |-> IF p \in ToOpen THEN made[p] + 1 ELSE made[p]]
     /\ calls' = [calls EXCEPT ![s] = [p \in Projects |->
          IF p \notin ListProjects THEN Done
          ELSE [Begin("inform", IF p \in ToOpen THEN "opening" ELSE "reading info")
                  EXCEPT !.info = saved + 1]]]
     /\ UNCHANGED <<row, active, replica, joined, crashes>>

-----------------------------------------------------------------------------
(***************************************************************************)
(* A call goes on after an await.                                          *)
(***************************************************************************)
Activate(p) == active' = active \cup {p}

\* The device info is read where the call gets to writing it.
InfoNext(s, p, otherwise) ==
  Set(s, p, IF HasSavedDeviceInfo
              THEN [calls[s][p] EXCEPT !.stage = "reading info", !.info = saved]
              ELSE [calls[s][p] EXCEPT !.stage = otherwise])

\* kClearDataIfLeft is over: a project that was left holds no data, and every
\* call but createProject() makes the instance the active one.
Opened(s, p) ==
  LET op == calls[s][p].op IN
  /\ At(s, p, "opening")
  /\ doc' = IF role[p] = "left" THEN [doc EXCEPT ![p] = 0] ELSE doc
  /\ IF op = "create" THEN UNCHANGED active ELSE Activate(p)
  /\ \/ op = "create" /\ GoTo(s, p, "settings")
     \/ op = "get" /\ End(s, p)
     \/ op = "add" /\ InfoNext(s, p, "reading own")
     \/ op = "leave" /\ GoTo(s, p, "leaving")
     \/ op = "inform" /\ GoTo(s, p, "reading info")
  /\ UNCHANGED <<disk, made, settings, role, blocks, event, joined, crashes>>

\* A call throws, and addProject() deletes the row.
Throw(s, p) ==
  /\ End(s, p)
  /\ row' = IF calls[s][p].op = "add" THEN [row EXCEPT ![p] = "none"] ELSE row
  /\ UNCHANGED saved

\* Another instance has the files of the project open.
OpenFails(s, p) ==
  /\ At(s, p, "opening") /\ made[p] > 1
  /\ Throw(s, p)
  /\ UNCHANGED <<memory, replica, joined, crashes>>

Return(s, p) ==
  /\ End(s, p)
  /\ IF calls[s][p].op \in {"create", "add"}
       THEN Activate(p) /\ joined' = joined \cup {p}
       ELSE UNCHANGED <<active, joined>>

SetProjectSettings(s, p) ==
  /\ At(s, p, "settings")
  /\ settings' = settings \cup {p}
  /\ IF HasSavedDeviceInfo
       THEN InfoNext(s, p, "none") /\ UNCHANGED <<active, joined>>
       ELSE Return(s, p)
  /\ UNCHANGED <<disk, made, doc, role, blocks, event, crashes>>

\* kSetOwnDeviceInfo: whether there is a document to update.
ReadInfo(s, p) ==
  /\ At(s, p, "reading info")
  /\ Set(s, p, [calls[s][p] EXCEPT !.stage = "writing info", !.found = doc[p] # 0])
  /\ UNCHANGED <<disk, memory, replica, joined, crashes>>

\* The stores are closed once the project was left; and a document that was
\* not there is not created if it is there by now.
CanWriteInfo(s, p) == role[p] # "left" /\ (doc[p] # 0 => calls[s][p].found)

AfterInfo(s, p) == IF calls[s][p].op = "add"
                     THEN GoTo(s, p, "reading own") /\ UNCHANGED <<active, joined>>
                     ELSE Return(s, p)

WriteInfo(s, p) ==
  /\ At(s, p, "writing info") /\ CanWriteInfo(s, p)
  /\ doc' = [doc EXCEPT ![p] = calls[s][p].info]
  /\ event' = event \cup (Joinable \cap {p})
  /\ AfterInfo(s, p)
  /\ UNCHANGED <<disk, made, settings, role, blocks, crashes>>

\* addProject() ignores it.
WriteInfoFails(s, p) ==
  /\ At(s, p, "writing info") /\ ~CanWriteInfo(s, p)
  /\ IF calls[s][p].op = "add" THEN AfterInfo(s, p) /\ UNCHANGED disk
                               ELSE Throw(s, p) /\ UNCHANGED <<active, joined>>
  /\ UNCHANGED <<made, replica, crashes>>

-----------------------------------------------------------------------------
(***************************************************************************)
(* #waitForInitialSync().                                                  *)
(***************************************************************************)
Want(p, n) == blocks[p][n] = "wanted"
DataToSync(p) == Want(p, "auth") \/ Want(p, "config")

\* Every device has an ownership record of its own in auth.
IsAuthSynced(p) == ~Want(p, "auth")
IsConfigSynced(p) == ~Want(p, "config") /\ (blocks[p]["config"] = "had" \/ doc[p] # 0)

\* $getOwnRole() and $getProjectSettings()
ReadOwn(s, p) ==
  /\ At(s, p, "reading own")
  /\ Set(s, p, [calls[s][p] EXCEPT !.stage = "checking",
                                   !.found = role[p] # "none" /\ p \in settings])
  /\ UNCHANGED <<disk, memory, replica, joined, crashes>>

\* Mutant: only the state of the blocks counts.
CheckBlocksOnly(s, p) ==
  /\ At(s, p, "checking")
  /\ IF IsAuthSynced(p) /\ IsConfigSynced(p)
       THEN Return(s, p)
       ELSE GoTo(s, p, "waiting") /\ UNCHANGED <<active, joined>>
  /\ UNCHANGED <<disk, made, replica, crashes>>

\* "waiting" is with the timer running.
Check(s, p) ==
  /\ At(s, p, "checking")
  /\ IF calls[s][p].found /\ IsAuthSynced(p) /\ IsConfigSynced(p)
       THEN Return(s, p)
       ELSE GoTo(s, p, "waiting") /\ UNCHANGED <<active, joined>>
  /\ UNCHANGED <<disk, made, replica, crashes>>

\* onSyncState(): the timer starts anew as long as there is data to sync.
HandleState(p) ==
  /\ p \in event
  /\ event' = event \ {p}
  /\ calls' = [s \in Slots |->
       IF At(s, p, "waiting") /\ ~DataToSync(p)
         THEN [calls[s] EXCEPT ![p].stage = "reading own"] ELSE calls[s]]
  /\ UNCHANGED <<disk, memory, doc, settings, role, blocks, joined, crashes>>

\* Nothing arrived for as long as the timer runs.
Timeout(s, p) ==
  /\ At(s, p, "waiting")
  /\ Throw(s, p)
  /\ UNCHANGED <<memory, replica, joined, crashes>>

-----------------------------------------------------------------------------
(***************************************************************************)
(* leaveProject(), whose part in the project is that of Roles.             *)
(***************************************************************************)
ProjectLeave(s, p) ==
  /\ At(s, p, "leaving")
  /\ role' = [role EXCEPT ![p] = "left"]
  /\ doc' = [doc EXCEPT ![p] = 0]
  /\ GoTo(s, p, "left")
  /\ UNCHANGED <<disk, memory, settings, blocks, event, joined, crashes>>

\* The device may not leave, or the project was closed.
LeaveFails(s, p) ==
  /\ At(s, p, "leaving")
  /\ Throw(s, p)
  /\ UNCHANGED <<memory, replica, joined, crashes>>

\* The row is read anew.
Left(s, p) ==
  /\ At(s, p, "left")
  /\ IF row[p] = "none"
       THEN UNCHANGED <<row, settings, active>>
       ELSE /\ SaveToProjectKeysTable(p, "auth")
            /\ settings' = settings \ {p}
            /\ active' = active \ {p}
  /\ End(s, p)
  /\ UNCHANGED <<saved, made, doc, role, blocks, event, joined, crashes>>

-----------------------------------------------------------------------------
(***************************************************************************)
(* The application, a peer, and the end of the program.                    *)
(***************************************************************************)
Syncs(p) == p \in Joinable /\ made[p] > 0

\* The haves of a member arrive, those of both namespaces at once.
ReceiveHaves(p) ==
  /\ Syncs(p) /\ blocks[p]["auth"] = "unknown"
  /\ blocks' = [blocks EXCEPT ![p] = [n \in {"auth", "config"} |-> "wanted"]]
  /\ event' = event \cup {p}
  /\ UNCHANGED <<disk, memory, calls, doc, settings, role, joined, crashes>>

Download(p, n) ==
  /\ Syncs(p) /\ Want(p, n)
  /\ blocks' = [blocks EXCEPT ![p][n] = "had"]
  /\ event' = event \cup {p}
  /\ UNCHANGED <<disk, memory, calls, doc, settings, role, joined, crashes>>

\* What was downloaded is indexed later, without a 'state' event.
Index(p) ==
  /\ Syncs(p)
  /\ \/ /\ role[p] = "none" /\ blocks[p]["auth"] = "had"
        /\ role' = [role EXCEPT ![p] = "member"]
        /\ UNCHANGED settings
     \/ /\ p \notin settings /\ blocks[p]["config"] = "had"
        /\ role[p] # "left"
        /\ settings' = settings \cup {p}
        /\ UNCHANGED role
  /\ UNCHANGED <<disk, memory, calls, doc, blocks, event, joined, crashes>>

Crash == /\ crashes < MaxCrashes /\ crashes' = crashes + 1
         /\ made' = [p \in Projects |-> 0] /\ active' = {} /\ event' = {}
         /\ calls' = [s \in Slots |-> [p \in Projects |-> Done]]
         /\ UNCHANGED <<disk, doc, settings, role, blocks, joined>>

Proceed(s, p) == \/ Opened(s, p) \/ OpenFails(s, p)
                 \/ SetProjectSettings(s, p)
                 \/ ReadInfo(s, p) \/ WriteInfo(s, p) \/ WriteInfoFails(s, p)
                 \/ ReadOwn(s, p) \/ Check(s, p) \/ Timeout(s, p)
                 \/ ProjectLeave(s, p) \/ LeaveFails(s, p) \/ Left(s, p)

Next ==
  \/ \E s \in Slots, p \in Projects :
       \/ CreateProject(s, p) \/ GetProject(s, p) \/ AddProject(s, p)
       \/ LeaveProject(s, p)
       \/ Proceed(s, p)
  \/ \E s \in Slots : SetDeviceInfo(s)
  \/ \E p \in Projects :
       \/ HandleState(p) \/ ReceiveHaves(p) \/ Index(p)
       \/ \E n \in {"auth", "config"} : Download(p, n)
  \/ Crash

Spec == Init /\ [][Next]_vars

-----------------------------------------------------------------------------
(***************************************************************************)
(* Properties.                                                             *)
(***************************************************************************)
Adds(p) == {s \in Slots : calls[s][p].op = "add"}

\* A project that was created or added to the end stays in the table for
\* good: a call that fails takes back the row it wrote itself and no other,
\* however calls on the project overlap ("No awaits here - need to update
\* table in same tick as the projectExists check").
JoinedIsKept == \A p \in joined : row[p] # "none" /\ Adds(p) = {}

\* addProject() returns with the role and the settings of the project in the
\* index, not only with blocks on disk; they stay there until it is left.
JoinedIsSynced == \A p \in joined : row[p] = "all" =>
                    role[p] # "none" /\ p \in settings

=============================================================================
