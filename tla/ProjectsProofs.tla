---------------------------- MODULE ProjectsProofs ----------------------------
(***************************************************************************)
(* Proofs about Projects, for any projects, any number of calls that       *)
(* overlap and any bounds.  A step changes one thread; the lemma ThreadStep*)
(* says what is to be shown of it for the invariant to hold of all of them.*)
(***************************************************************************)
EXTENDS Projects, TLAPS

USE ProjectsAssumption

\* In a state with rows r, roles o and settings S ...
SyncedIn(p, r, o, S) == r[p] = "all" => o[p] # "none" /\ p \in S

\* A thread that writes a device info has one.
Typed(t) == /\ t \in Thread
            /\ t.op = "inform" \/ t.stage \in {"reading info", "writing info"} => t.info # 0

\* ... of the project a thread creates or adds there is a row.
ThreadIn(t, p, r, o, S) ==
  /\ t.op = "add" => p \in Joinable /\ r[p] # "none"
  /\ t.op = "create" => p \in Own /\ r[p] # "none" /\ o[p] # "none"
  /\ t.op = "create" /\ t.stage \in {"reading info", "writing info"} => SyncedIn(p, r, o, S)
  /\ t.stage = "settings" => t.op = "create"
  /\ t.stage \in {"reading own", "checking", "waiting"} => t.op = "add"
  /\ t.stage = "checking" /\ t.found => SyncedIn(p, r, o, S)

Synced(p) == SyncedIn(p, row, role, settings)
ThreadsInv == \A s \in Slots, p \in Projects : ThreadIn(calls[s][p], p, row, role, settings)

OneAdds == \A s, u \in Slots, p \in Projects :
             calls[s][p].op = "add" /\ calls[u][p].op = "add" => s = u

JoinedInv == \A p \in joined : /\ row[p] # "none" /\ Synced(p)
                               /\ \A s \in Slots : calls[s][p].op # "add"

\* The types of all but the threads.
StateType ==
  /\ row \in [Projects -> {"none", "all", "auth"}] /\ saved \in 0 .. MaxInfo
  /\ \A p \in Projects : made[p] \in 0 .. MaxInstances[p]
  /\ DOMAIN made = Projects /\ active \in SUBSET Projects
  /\ doc \in [Projects -> 0 .. MaxInfo]
  /\ settings \in SUBSET Projects
  /\ role \in [Projects -> {"none", "member", "left"}]
  /\ blocks \in [Projects -> [{"auth", "config"} -> {"unknown", "wanted", "had"}]]
  /\ event \in SUBSET Joinable
  /\ joined \in SUBSET Projects
  /\ crashes \in 0 .. MaxCrashes

CallsType == /\ calls \in [Slots -> [Projects -> Thread]]
             /\ \A s \in Slots, p \in Projects : Typed(calls[s][p])

IInv == StateType /\ CallsType /\ ThreadsInv /\ OneAdds /\ JoinedInv

-----------------------------------------------------------------------------
(***************************************************************************)
(* Threads.                                                                *)
(***************************************************************************)
LEMMA DoneType == Done \in Thread /\ Typed(Done)
BY DEF Done, Typed, Thread, Ops, Stages

LEMMA StageType ==
  ASSUME NEW t \in Thread, NEW stage \in Stages
  PROVE  /\ [t EXCEPT !.stage = stage] \in Thread
         /\ [t EXCEPT !.stage = stage].stage = stage
         /\ [t EXCEPT !.stage = stage].op = t.op
         /\ [t EXCEPT !.stage = stage].info = t.info
         /\ [t EXCEPT !.stage = stage].found = t.found
BY DEF Thread

LEMMA InfoType ==
  ASSUME NEW t \in Thread, NEW info \in 0 .. MaxInfo
  PROVE  /\ [t EXCEPT !.info = info] \in Thread
         /\ [t EXCEPT !.info = info].info = info
         /\ [t EXCEPT !.info = info].stage = t.stage
         /\ [t EXCEPT !.info = info].op = t.op
BY DEF Thread

LEMMA SetIs ==
  ASSUME CallsType, NEW s \in Slots, NEW p \in Projects, NEW t \in Thread, Set(s, p, t)
  PROVE  /\ calls' \in [Slots -> [Projects -> Thread]]
         /\ calls'[s][p] = t
         /\ \A u \in Slots, q \in Projects : u # s \/ q # p => calls'[u][q] = calls[u][q]
BY DEF CallsType, Set

\* What a step may do to a project that other threads are about.
Mild(p) == /\ row[p] # "none" => row'[p] # "none"
           /\ role[p] # "none" => role'[p] # "none"
           /\ SyncedIn(p, row, role, settings) => SyncedIn(p, row', role', settings')

LEMMA ThreadKeeps ==
  ASSUME NEW p, NEW t, ThreadIn(t, p, row, role, settings), Mild(p)
  PROVE  ThreadIn(t, p, row', role', settings')
BY DEF ThreadIn, Mild

\* A thread of a project without a row, or of one that another thread adds.
LEMMA OtherThreadKeeps ==
  ASSUME NEW p, NEW t, ThreadIn(t, p, row, role, settings), t.op # "add",
         row[p] = "none" \/ p \in Joinable
  PROVE  ThreadIn(t, p, row', role', settings')
BY DEF ThreadIn

LEMMA ThreadStep ==
  ASSUME IInv, NEW s \in Slots, NEW p \in Projects, NEW t, Typed(t), Set(s, p, t),
         \A q \in Projects \ {p} : Mild(q),
         Mild(p) \/ row[p] = "none" \/ calls[s][p].op = "add",
         ThreadIn(t, p, row', role', settings'),
         t.op = "add" => calls[s][p].op = "add" \/ row[p] = "none",
         joined' \subseteq joined \cup {p},
         p \in joined' => /\ row'[p] # "none" /\ SyncedIn(p, row', role', settings')
                          /\ t.op # "add"
                          /\ \A u \in Slots \ {s} : calls[u][p].op # "add"
  PROVE  CallsType' /\ ThreadsInv' /\ OneAdds' /\ JoinedInv'
<1> USE DEF IInv
<1>1. t \in Thread
  BY DEF Typed
<1>2. calls' \in [Slots -> [Projects -> Thread]] /\ calls'[s][p] = t
  BY <1>1, SetIs
<1>3. \A u \in Slots, q \in Projects : u # s \/ q # p => calls'[u][q] = calls[u][q]
  BY <1>1, SetIs
<1>4. CallsType'
  <2>1. \A u \in Slots, q \in Projects : Typed(calls'[u][q])
    BY <1>2, <1>3 DEF CallsType
  <2> QED
    BY <1>2, <2>1 DEF CallsType, Typed
<1>5. \A u \in Slots : calls[u][p].op = "add" => row[p] # "none"
  BY DEF ThreadsInv, ThreadIn
<1>6. ThreadsInv'
  <2> SUFFICES ASSUME NEW u \in Slots, NEW q \in Projects
               PROVE  ThreadIn(calls'[u][q], q, row', role', settings')
    BY DEF ThreadsInv, ThreadIn, SyncedIn
  <2>1. CASE u = s /\ q = p
    BY <1>2, <2>1
  <2>2. CASE (u # s \/ q # p) /\ Mild(q)
    <3>1. ThreadIn(calls[u][q], q, row, role, settings)
      BY DEF ThreadsInv
    <3>2. calls'[u][q] = calls[u][q]
      BY <1>3, <2>2
    <3> QED
      BY <2>2, <3>1, <3>2, ThreadKeeps
  <2>3. CASE (u # s \/ q # p) /\ ~Mild(q)
    <3>1. q = p /\ u # s
      BY <2>3
    <3>2. ThreadIn(calls[u][q], q, row, role, settings)
      BY DEF ThreadsInv
    <3>3. ThreadIn(calls[s][p], p, row, role, settings)
      BY DEF ThreadsInv
    <3>4. calls[u][q].op # "add" /\ (row[q] = "none" \/ q \in Joinable)
      BY <1>5, <2>3, <3>1, <3>3 DEF OneAdds, ThreadIn
    <3>5. calls'[u][q] = calls[u][q]
      BY <1>3, <2>3
    <3> QED
      BY <3>2, <3>4, <3>5, OtherThreadKeeps
  <2> QED
    BY <2>1, <2>2, <2>3
<1>7. OneAdds'
  <2> SUFFICES ASSUME NEW u \in Slots, NEW v \in Slots, NEW q \in Projects,
                      calls'[u][q].op = "add", calls'[v][q].op = "add"
               PROVE  u = v
    BY DEF OneAdds
  <2>1. CASE q # p
    BY <1>3, <2>1 DEF OneAdds
  <2>2. CASE q = p
    BY <1>2, <1>3, <1>5, <2>2 DEF OneAdds
  <2> QED
    BY <2>1, <2>2
<1>8. JoinedInv'
  <2> SUFFICES ASSUME NEW q \in joined'
               PROVE  /\ row'[q] # "none" /\ SyncedIn(q, row', role', settings')
                      /\ \A u \in Slots : calls'[u][q].op # "add"
    BY DEF JoinedInv, Synced, SyncedIn
  <2>1. CASE q = p
    BY <1>2, <1>3, <2>1
  <2>2. CASE q # p
    <3>1. q \in joined /\ q \in Projects
      BY <2>2 DEF StateType
    <3> QED
      BY <1>3, <2>2, <3>1 DEF JoinedInv, Mild, Synced
  <2> QED
    BY <2>1, <2>2
<1> QED
  BY <1>4, <1>6, <1>7, <1>8

\* A step that leaves what threads are judged by alone.
LEMMA QuietStep ==
  ASSUME IInv, NEW s \in Slots, NEW p \in Projects, NEW t, Typed(t), Set(s, p, t),
         UNCHANGED <<row, role, settings, joined>>,
         ThreadIn(t, p, row, role, settings),
         t.op = "add" => calls[s][p].op = "add"
  PROVE  CallsType' /\ ThreadsInv' /\ OneAdds' /\ JoinedInv'
<1>1. \A q \in Projects : Mild(q)
  BY DEF Mild
<1>2. p \in joined' => /\ row'[p] # "none" /\ SyncedIn(p, row', role', settings')
                       /\ t.op # "add"
                       /\ \A u \in Slots \ {s} : calls[u][p].op # "add"
  BY DEF IInv, JoinedInv, Synced
<1>3. ThreadIn(t, p, row', role', settings')
  OBVIOUS
<1> QED
  BY <1>1, <1>2, <1>3, ThreadStep

LEMMA DoneIn == ASSUME NEW p, NEW r, NEW o, NEW S PROVE ThreadIn(Done, p, r, o, S) /\ Done.op = "none"
BY DEF ThreadIn, Done

LEMMA ThreadOf ==
  ASSUME IInv, NEW s \in Slots, NEW p \in Projects
  PROVE  /\ calls[s][p] \in Thread /\ Typed(calls[s][p])
         /\ ThreadIn(calls[s][p], p, row, role, settings)
BY DEF IInv, CallsType, ThreadsInv

LEMMA QuietEnd ==
  ASSUME IInv, NEW s \in Slots, NEW p \in Projects, End(s, p),
         UNCHANGED <<row, role, settings, joined>>
  PROVE  CallsType' /\ ThreadsInv' /\ OneAdds' /\ JoinedInv'
<1>1. Set(s, p, Done)
  BY DEF End
<1> QED
  BY <1>1, DoneType, DoneIn, QuietStep

\* Stages any call may be in.
LEMMA QuietGoTo ==
  ASSUME IInv, NEW s \in Slots, NEW p \in Projects, NEW stage \in Stages,
         GoTo(s, p, stage), UNCHANGED <<row, role, settings, joined>>,
         stage \in {"reading info", "writing info"} => calls[s][p].info # 0 /\ calls[s][p].op # "create",
         stage = "settings" => calls[s][p].op = "create",
         stage \in {"reading own", "waiting"} => calls[s][p].op = "add",
         stage # "checking"
  PROVE  CallsType' /\ ThreadsInv' /\ OneAdds' /\ JoinedInv'
<1> DEFINE t == [calls[s][p] EXCEPT !.stage = stage]
<1>1. Set(s, p, t)
  BY DEF GoTo
<1>2. /\ t \in Thread /\ t.stage = stage /\ t.op = calls[s][p].op
      /\ t.info = calls[s][p].info /\ t.found = calls[s][p].found
  BY ThreadOf, StageType
<1> HIDE DEF t
<1>3. Typed(t)
  BY <1>2, ThreadOf DEF Typed
<1>4. ThreadIn(calls[s][p], p, row, role, settings)
  BY ThreadOf
<1>5. ThreadIn(t, p, row, role, settings)
  BY <1>2, <1>4 DEF ThreadIn
<1> QED
  BY <1>1, <1>2, <1>3, <1>5, QuietStep

\* The end of a call that may join the project.
LEMMA ReturnStep ==
  ASSUME IInv, NEW s \in Slots, NEW p \in Projects, Return(s, p), UNCHANGED <<row, role>>,
         settings' = settings \/ settings' = settings \cup {p},
         calls[s][p].op \in {"create", "add"} => SyncedIn(p, row', role', settings')
  PROVE  CallsType' /\ ThreadsInv' /\ OneAdds' /\ JoinedInv'
<1>1. Set(s, p, Done)
  BY DEF Return, End
<1>2. \A q \in Projects : Mild(q)
  BY DEF Mild, SyncedIn
<1>3. joined' = IF calls[s][p].op \in {"create", "add"} THEN joined \cup {p} ELSE joined
  BY DEF Return
<1>4. ASSUME calls[s][p].op \in {"create", "add"}
      PROVE  row[p] # "none" /\ \A u \in Slots \ {s} : calls[u][p].op # "add"
  <2>1. row[p] # "none"
    BY <1>4, ThreadOf DEF ThreadIn
  <2>2. ASSUME NEW u \in Slots \ {s} PROVE calls[u][p].op # "add"
    <3>1. CASE calls[s][p].op = "add"
      BY <3>1 DEF IInv, OneAdds
    <3>2. CASE calls[s][p].op = "create"
      BY <3>2, ThreadOf DEF ThreadIn
    <3> QED
      BY <1>4, <3>1, <3>2
  <2> QED
    BY <2>1, <2>2
<1>5. p \in joined' => /\ row'[p] # "none" /\ SyncedIn(p, row', role', settings')
                       /\ \A u \in Slots \ {s} : calls[u][p].op # "add"
  <2>1. CASE calls[s][p].op \in {"create", "add"}
    BY <1>4, <2>1
  <2>2. CASE calls[s][p].op \notin {"create", "add"}
    BY <1>2, <1>3, <2>2 DEF IInv, JoinedInv, Synced, Mild
  <2> QED
    BY <2>1, <2>2
<1>6. joined' \subseteq joined \cup {p}
  BY <1>3
<1> QED
  BY <1>1, <1>2, <1>5, <1>6, DoneType, DoneIn, ThreadStep

\* A call that throws takes back the row it wrote itself and no other.
LEMMA ThrowStep ==
  ASSUME IInv, NEW s \in Slots, NEW p \in Projects, Throw(s, p), UNCHANGED <<role, settings, joined>>
  PROVE  CallsType' /\ ThreadsInv' /\ OneAdds' /\ JoinedInv'
<1>1. Set(s, p, Done)
  BY DEF Throw, End
<1>2. CASE calls[s][p].op = "add"
  <2>1. \A q \in Projects \ {p} : row'[q] = row[q]
    BY <1>2 DEF Throw, IInv, StateType
  <2>2. \A q \in Projects \ {p} : Mild(q)
    BY <2>1 DEF Mild, SyncedIn
  <2>3. p \notin joined'
    BY <1>2 DEF IInv, JoinedInv
  <2> QED
    BY <1>1, <1>2, <2>2, <2>3, DoneType, DoneIn, ThreadStep
<1>3. CASE calls[s][p].op # "add"
  <2>1. row' = row
    BY <1>3 DEF Throw
  <2> QED
    BY <1>1, <2>1, DoneType, DoneIn, QuietStep
<1> QED
  BY <1>2, <1>3

\* A step of threads that adds no project.
LEMMA ManyThreads ==
  ASSUME IInv, \A q \in Projects : Mild(q), joined' = joined,
         calls' \in [Slots -> [Projects -> Thread]],
         \A u \in Slots, q \in Projects :
           /\ Typed(calls'[u][q]) /\ ThreadIn(calls'[u][q], q, row', role', settings')
           /\ calls'[u][q].op = "add" => calls[u][q].op = "add"
  PROVE  CallsType' /\ ThreadsInv' /\ OneAdds' /\ JoinedInv'
<1>1. CallsType'
  BY DEF CallsType, Typed
<1>2. ThreadsInv'
  BY DEF ThreadsInv, ThreadIn, SyncedIn
<1>3. OneAdds'
  BY DEF IInv, OneAdds
<1>4. JoinedInv'
  <2> SUFFICES ASSUME NEW q \in joined
               PROVE  /\ row'[q] # "none" /\ SyncedIn(q, row', role', settings')
                      /\ \A u \in Slots : calls'[u][q].op # "add"
    BY DEF JoinedInv, Synced, SyncedIn
  <2>1. q \in Projects
    BY DEF IInv, StateType
  <2> QED
    BY <2>1 DEF IInv, JoinedInv, Mild, Synced
<1> QED
  BY <1>1, <1>2, <1>3, <1>4

-----------------------------------------------------------------------------
(***************************************************************************)
(* The actions, and the types of what they change.                         *)
(***************************************************************************)
Inv == CallsType /\ ThreadsInv /\ OneAdds /\ JoinedInv

LEMMA CallsBegin ==
  ASSUME IInv, NEW s \in Slots, NEW p \in Projects
  PROVE  /\ CreateProject(s, p) => Inv'
         /\ GetProject(s, p) => Inv'
         /\ AddProject(s, p) => Inv'
         /\ LeaveProject(s, p) => Inv'
<1>1. ASSUME CreateProject(s, p) PROVE Inv'
  <2> DEFINE t == Begin("create", "opening")
  <2>1. Set(s, p, t) /\ p \in Own /\ row[p] = "none" /\ UNCHANGED <<settings, joined>>
    BY <1>1 DEF CreateProject, CreateProjectInstance
  <2>2. t \in Thread /\ t.op = "create" /\ t.stage = "opening"
    BY DoneType DEF Begin, Thread, Stages, Ops
  <2>3. row'[p] = "all" /\ role'[p] = "member"
    BY <1>1 DEF CreateProject, SaveToProjectKeysTable, IInv, StateType
  <2>4. \A q \in Projects \ {p} : row'[q] = row[q] /\ role'[q] = role[q]
    BY <1>1 DEF CreateProject, SaveToProjectKeysTable, IInv, StateType
  <2>5. \A q \in Projects \ {p} : Mild(q)
    BY <2>1, <2>4 DEF Mild, SyncedIn
  <2> HIDE DEF t
  <2>6. Typed(t) /\ ThreadIn(t, p, row', role', settings')
    BY <2>1, <2>2, <2>3 DEF Typed, ThreadIn
  <2>7. p \notin joined'
    BY <2>1 DEF IInv, JoinedInv
  <2> QED
    BY <2>1, <2>2, <2>5, <2>6, <2>7, ThreadStep DEF Inv
<1>2. ASSUME GetProject(s, p) PROVE Inv'
  <2> DEFINE t == Begin("get", "opening")
  <2>1. Set(s, p, t) /\ UNCHANGED <<row, role, settings, joined>>
    BY <1>2 DEF GetProject, CreateProjectInstance, disk, replica
  <2>2. t \in Thread /\ t.op = "get" /\ t.stage = "opening"
    BY DoneType DEF Begin, Thread, Stages, Ops
  <2> HIDE DEF t
  <2> QED
    BY <2>1, <2>2, QuietStep DEF Inv, Typed, ThreadIn
<1>3. ASSUME AddProject(s, p) PROVE Inv'
  <2> DEFINE t == Begin("add", "opening")
  <2>1. Set(s, p, t) /\ p \in Joinable /\ row[p] = "none" /\ UNCHANGED <<role, settings, joined>>
    BY <1>3 DEF AddProject, CreateProjectInstance, replica
  <2>2. t \in Thread /\ t.op = "add" /\ t.stage = "opening"
    BY DoneType DEF Begin, Thread, Stages, Ops
  <2>3. row'[p] = "all" /\ \A q \in Projects \ {p} : row'[q] = row[q]
    BY <1>3 DEF AddProject, SaveToProjectKeysTable, IInv, StateType
  <2>4. \A q \in Projects \ {p} : Mild(q)
    BY <2>1, <2>3 DEF Mild, SyncedIn
  <2> HIDE DEF t
  <2>5. Typed(t) /\ ThreadIn(t, p, row', role', settings')
    BY <2>1, <2>2, <2>3 DEF Typed, ThreadIn
  <2>6. p \notin joined'
    BY <2>1 DEF IInv, JoinedInv
  <2> QED
    BY <2>1, <2>4, <2>5, <2>6, ThreadStep DEF Inv
<1>4. ASSUME LeaveProject(s, p) PROVE Inv'
  <2>1. PICK stage \in {"opening", "leaving"} : Set(s, p, Begin("leave", stage))
    BY <1>4 DEF LeaveProject, CreateProjectInstance
  <2> DEFINE t == Begin("leave", stage)
  <2>2. t \in Thread /\ t.op = "leave" /\ t.stage = stage
    BY DoneType DEF Begin, Thread, Stages, Ops
  <2>3. Set(s, p, t) /\ UNCHANGED <<row, role, settings, joined>>
    BY <1>4, <2>1 DEF LeaveProject, disk, replica
  <2> HIDE DEF t
  <2>4. Typed(t) /\ ThreadIn(t, p, row, role, settings) /\ t.op # "add"
    BY <2>2 DEF Typed, ThreadIn
  <2> QED
    BY <2>3, <2>4, QuietStep DEF Inv
<1> QED
  BY <1>1, <1>2, <1>3, <1>4

LEMMA CreateInstanceType ==
  ASSUME StateType, NEW s, NEW p \in Projects, NEW op, CreateProjectInstance(s, p, op)
  PROVE  (\A q \in Projects : made'[q] \in 0 .. MaxInstances[q]) /\ DOMAIN made' = Projects
<1>1. made' = [made EXCEPT ![p] = @ + 1] /\ made[p] < MaxInstances[p]
  BY DEF CreateProjectInstance
<1> QED
  BY <1>1 DEF StateType

LEMMA CallsBeginTypes ==
  ASSUME StateType, NEW s \in Slots, NEW p \in Projects
  PROVE  /\ CreateProject(s, p) => StateType'
         /\ GetProject(s, p) => StateType'
         /\ AddProject(s, p) => StateType'
         /\ LeaveProject(s, p) => StateType'
<1>1. CreateProject(s, p) => StateType'
  BY CreateInstanceType DEF CreateProject, SaveToProjectKeysTable, StateType
<1>2. GetProject(s, p) => StateType'
  BY CreateInstanceType DEF GetProject, StateType, disk, replica
<1>3. AddProject(s, p) => StateType'
  BY CreateInstanceType DEF AddProject, SaveToProjectKeysTable, StateType, replica
<1>4. LeaveProject(s, p) => StateType'
  BY CreateInstanceType DEF LeaveProject, StateType, disk, replica
<1> QED
  BY <1>1, <1>2, <1>3, <1>4

\* setDeviceInfo() is about all projects that are listed.
LEMMA SetDeviceInfoKeeps ==
  ASSUME IInv, NEW s \in Slots, SetDeviceInfo(s) PROVE StateType' /\ Inv'
<1> DEFINE ToOpen == ListProjects \ active
           Informs(p) == [Begin("inform", IF p \in ToOpen THEN "opening" ELSE "reading info")
                            EXCEPT !.info = saved + 1]
           Thr(p) == IF p \notin ListProjects THEN Done ELSE Informs(p)
<1>1. saved < MaxInfo /\ saved' = saved + 1 /\ saved \in 0 .. MaxInfo
  BY DEF SetDeviceInfo, IInv, StateType
<1>2. saved + 1 \in 0 .. MaxInfo /\ saved + 1 # 0 /\ saved' \in 0 .. MaxInfo
  BY <1>1
<1>3. ASSUME NEW p \in Projects
      PROVE  /\ Typed(Thr(p)) /\ Thr(p) \in Thread /\ Thr(p).op # "add"
             /\ ThreadIn(Thr(p), p, row, role, settings)
  <2>1. CASE p \notin ListProjects
    BY <2>1, DoneType, DoneIn
  <2>2. CASE p \in ListProjects
    <3>1. PICK stage \in {"opening", "reading info"} :
             Thr(p) = [Begin("inform", stage) EXCEPT !.info = saved + 1]
      BY <2>2
    <3> DEFINE b == Begin("inform", stage)
    <3>2. b \in Thread /\ b.op = "inform" /\ b.stage = stage
      BY DoneType DEF Begin, Thread, Stages, Ops
    <3> HIDE DEF b
    <3> DEFINE t == [b EXCEPT !.info = saved + 1]
    <3>3. t \in Thread /\ t.op = "inform" /\ t.stage = stage /\ t.info = saved + 1
      BY <1>2, <3>2, InfoType
    <3>4. Thr(p) = t
      BY <3>1 DEF b
    <3> HIDE DEF t, Thr
    <3>5. ThreadIn(t, p, row, role, settings) /\ t.op # "add"
      BY <3>3 DEF ThreadIn
    <3>6. Typed(t)
      BY <1>2, <3>3 DEF Typed
    <3> QED
      BY <3>3, <3>4, <3>5, <3>6
  <2> QED
    BY <2>1, <2>2
<1>4. calls' = [calls EXCEPT ![s] = [p \in Projects |-> Thr(p)]]
  BY DEF SetDeviceInfo
<1>5. UNCHANGED <<row, role, settings, joined>>
  BY DEF SetDeviceInfo, replica
<1> HIDE DEF Thr
<1>6. calls' \in [Slots -> [Projects -> Thread]]
  BY <1>3, <1>4 DEF IInv, CallsType
<1>7. \A p \in Projects : calls'[s][p] = Thr(p)
  BY <1>4 DEF IInv, CallsType
<1>8. \A u \in Slots \ {s} : calls'[u] = calls[u]
  BY <1>4 DEF IInv, CallsType
<1>9. ASSUME NEW u \in Slots, NEW q \in Projects
      PROVE  /\ Typed(calls'[u][q]) /\ ThreadIn(calls'[u][q], q, row', role', settings')
             /\ calls'[u][q].op = "add" => calls[u][q].op = "add"
  <2>1. CASE u = s
    BY <1>3, <1>5, <1>7, <2>1
  <2>2. CASE u # s
    BY <1>5, <1>8, <2>2, ThreadOf
  <2> QED
    BY <2>1, <2>2
<1>10. \A q \in Projects : Mild(q)
  BY <1>5 DEF Mild
<1>11. Inv'
  BY <1>5, <1>6, <1>9, <1>10, ManyThreads DEF Inv
<1>12. StateType'
  <2>1. (\A q \in Projects : made'[q] \in 0 .. MaxInstances[q]) /\ DOMAIN made' = Projects
    <3>1. made' = [p \in Projects |-> IF p \in ToOpen THEN made[p] + 1 ELSE made[p]]
          /\ \A p \in ToOpen : made[p] < MaxInstances[p]
      BY DEF SetDeviceInfo
    <3> QED
      BY <3>1 DEF IInv, StateType
  <2> QED
    BY <1>2, <2>1 DEF SetDeviceInfo, IInv, StateType, replica
<1> QED
  BY <1>11, <1>12

LEMMA StageNames == /\ "settings" \in Stages /\ "reading info" \in Stages /\ "reading own" \in Stages
                    /\ "waiting" \in Stages /\ "leaving" \in Stages /\ "left" \in Stages
BY DEF Stages

\* The device info a thread is to write is the saved one.
LEMMA InfoNextStep ==
  ASSUME IInv, NEW s \in Slots, NEW p \in Projects, NEW otherwise \in Stages,
         InfoNext(s, p, otherwise), UNCHANGED <<row, role, joined>>,
         settings' = settings \/ settings' = settings \cup {p},
         calls[s][p].op = "create" => HasSavedDeviceInfo /\ p \in settings',
         ~HasSavedDeviceInfo => otherwise = "reading own" /\ calls[s][p].op = "add"
  PROVE  CallsType' /\ ThreadsInv' /\ OneAdds' /\ JoinedInv'
<1> DEFINE stage == IF HasSavedDeviceInfo THEN "reading info" ELSE otherwise
           info == IF HasSavedDeviceInfo THEN saved ELSE calls[s][p].info
           c == calls[s][p]
           t == IF HasSavedDeviceInfo THEN [c EXCEPT !.stage = "reading info", !.info = saved]
                                      ELSE [c EXCEPT !.stage = otherwise]
<1>1. Set(s, p, t)
  BY DEF InfoNext
<1>2. c \in Thread /\ Typed(c) /\ ThreadIn(c, p, row, role, settings) /\ saved \in 0 .. MaxInfo
  BY ThreadOf DEF IInv, StateType
<1>3. "reading info" \in Stages
  BY StageNames
<1> HIDE DEF c
<1>4. t \in Thread /\ t.op = c.op /\ t.stage = stage /\ t.info = info
  <2>1. CASE HasSavedDeviceInfo
    <3> DEFINE d == [c EXCEPT !.stage = "reading info"]
    <3>1. d \in Thread /\ d.op = c.op /\ d.stage = "reading info"
      BY <1>2, <1>3, StageType
    <3>2. t = [d EXCEPT !.info = saved]
      BY <2>1, <1>2 DEF Thread
    <3> HIDE DEF d, t
    <3>3. t \in Thread /\ t.op = d.op /\ t.stage = d.stage /\ t.info = saved
      BY <1>2, <3>1, <3>2, InfoType
    <3> QED
      BY <2>1, <3>1, <3>3
  <2>2. CASE ~HasSavedDeviceInfo
    <3>1. t = [c EXCEPT !.stage = otherwise]
      BY <2>2
    <3> HIDE DEF t
    <3>2. t \in Thread /\ t.op = c.op /\ t.stage = otherwise /\ t.info = c.info
      BY <1>2, <3>1, StageType
    <3> QED
      BY <2>2, <3>2 DEF c
  <2> QED
    BY <2>1, <2>2
<1> HIDE DEF t
<1>5. HasSavedDeviceInfo => saved # 0
  BY DEF HasSavedDeviceInfo
<1>6. Typed(t)
  BY <1>2, <1>4, <1>5 DEF Typed, c
<1>7. \A q \in Projects : Mild(q)
  BY DEF Mild, SyncedIn
<1>8. ThreadIn(t, p, row', role', settings')
  <2>1. c.op = "create" => HasSavedDeviceInfo /\ p \in settings'
    BY DEF c
  <2>2. ~HasSavedDeviceInfo => otherwise = "reading own" /\ c.op = "add"
    BY DEF c
  <2>3. /\ c.op = "add" => p \in Joinable /\ row'[p] # "none"
        /\ c.op = "create" => p \in Own /\ row'[p] # "none" /\ role'[p] # "none"
    BY <1>2 DEF ThreadIn
  <2>4. stage = "reading info" \/ (stage = "reading own" /\ c.op = "add")
    BY <2>2
  <2> HIDE DEF stage
  <2>5. /\ t.op = "add" => p \in Joinable /\ row'[p] # "none"
        /\ t.op = "create" => p \in Own /\ row'[p] # "none" /\ role'[p] # "none"
    BY <1>4, <2>3
  <2>6. t.op = "create" => SyncedIn(p, row', role', settings')
    BY <2>1, <2>5, <1>4 DEF SyncedIn
  <2>7. t.stage = "reading info" \/ (t.stage = "reading own" /\ t.op = "add")
    BY <1>4, <2>4
  <2> QED
    BY <2>5, <2>6, <2>7 DEF ThreadIn
<1>9. t.op = "add" => calls[s][p].op = "add"
  BY <1>4 DEF c
<1>10. p \in joined' => /\ row'[p] # "none" /\ SyncedIn(p, row', role', settings')
                        /\ t.op # "add"
                        /\ \A u \in Slots \ {s} : calls[u][p].op # "add"
  BY <1>7, <1>9 DEF IInv, JoinedInv, Synced, Mild
<1> QED
  BY <1>1, <1>6, <1>7, <1>8, <1>9, <1>10, ThreadStep

LEMMA OpenedKeeps ==
  ASSUME IInv, NEW s \in Slots, NEW p \in Projects, Opened(s, p) PROVE StateType' /\ Inv'
<1> DEFINE op == calls[s][p].op
<1>1. UNCHANGED <<row, role, settings, joined>>
  BY DEF Opened, disk
<1>2. StateType'
  <2>1. doc' \in [Projects -> 0 .. MaxInfo]
    <3>1. doc' = (IF role[p] = "left" THEN [doc EXCEPT ![p] = 0] ELSE doc)
      BY DEF Opened
    <3>2. doc \in [Projects -> 0 .. MaxInfo] /\ 0 \in 0 .. MaxInfo
      BY DEF IInv, StateType
    <3> QED
      BY <3>1, <3>2
  <2>2. active' \in SUBSET Projects
    BY DEF Opened, Activate, IInv, StateType
  <2>3. UNCHANGED <<disk, made, settings, role, blocks, event, joined, crashes>>
    BY DEF Opened
  <2> QED
    BY <2>1, <2>2, <2>3 DEF IInv, StateType, disk
<1>3. ASSUME op = "create" /\ GoTo(s, p, "settings") PROVE Inv'
  BY <1>1, <1>3, StageNames, QuietGoTo DEF Inv
<1>4. ASSUME op = "get" /\ End(s, p) PROVE Inv'
  BY <1>1, <1>4, QuietEnd DEF Inv
<1>5. ASSUME op = "add" /\ InfoNext(s, p, "reading own") PROVE Inv'
  BY <1>1, <1>5, StageNames, InfoNextStep DEF Inv
<1>6. ASSUME op = "leave" /\ GoTo(s, p, "leaving") PROVE Inv'
  BY <1>1, <1>6, StageNames, QuietGoTo DEF Inv
<1>7. ASSUME op = "inform" /\ GoTo(s, p, "reading info") PROVE Inv'
  <2>1. calls[s][p].info # 0
    BY <1>7, ThreadOf DEF Typed
  <2> QED
    BY <1>1, <1>7, <2>1, StageNames, QuietGoTo DEF Inv
<1> QED
  BY <1>2, <1>3, <1>4, <1>5, <1>6, <1>7 DEF Opened

LEMMA ThrowTypes ==
  ASSUME StateType, NEW s, NEW p, Throw(s, p)
  PROVE  row' \in [Projects -> {"none", "all", "auth"}] /\ saved' = saved
BY DEF Throw, StateType

LEMMA ThrowsKeep ==
  ASSUME IInv, NEW s \in Slots, NEW p \in Projects
  PROVE  /\ OpenFails(s, p) => StateType' /\ Inv'
         /\ Timeout(s, p) => StateType' /\ Inv'
         /\ LeaveFails(s, p) => StateType' /\ Inv'
<1> SUFFICES ASSUME Throw(s, p), UNCHANGED <<memory, replica, joined, crashes>> PROVE StateType' /\ Inv'
  BY DEF OpenFails, Timeout, LeaveFails
<1>1. UNCHANGED <<role, settings, joined>>
  BY DEF replica
<1>2. StateType'
  BY ThrowTypes DEF IInv, StateType, memory, replica
<1> QED
  BY <1>1, <1>2, ThrowStep DEF Inv

LEMMA ReturnTypes ==
  ASSUME StateType, NEW s, NEW p \in Projects, Return(s, p)
  PROVE  active' \in SUBSET Projects /\ joined' \in SUBSET Projects
BY DEF Return, Activate, StateType

LEMMA SettingsKeep ==
  ASSUME IInv, NEW s \in Slots, NEW p \in Projects, SetProjectSettings(s, p)
  PROVE  StateType' /\ Inv'
<1>1. calls[s][p].op = "create" /\ settings' = settings \cup {p} /\ UNCHANGED <<row, role>>
  BY ThreadOf DEF SetProjectSettings, At, ThreadIn, disk
<1>2. role[p] # "none"
  BY <1>1, ThreadOf DEF ThreadIn
<1>3. CASE HasSavedDeviceInfo
  <2>1. InfoNext(s, p, "none") /\ UNCHANGED <<active, joined>>
    BY <1>3 DEF SetProjectSettings
  <2>2. "none" \in Stages
    BY DEF Stages
  <2>3. Inv'
    BY <1>1, <1>3, <2>1, <2>2, InfoNextStep DEF Inv
  <2> QED
    BY <1>1, <2>1, <2>3 DEF SetProjectSettings, IInv, StateType, disk
<1>4. CASE ~HasSavedDeviceInfo
  <2>1. Return(s, p)
    BY <1>4 DEF SetProjectSettings
  <2>2. SyncedIn(p, row', role', settings')
    BY <1>1, <1>2 DEF SyncedIn
  <2>3. Inv'
    BY <1>1, <2>1, <2>2, ReturnStep DEF Inv
  <2> QED
    BY <1>1, <2>1, <2>3, ReturnTypes DEF SetProjectSettings, IInv, StateType, disk
<1> QED
  BY <1>3, <1>4

LEMMA ReadInfoKeeps ==
  ASSUME IInv, NEW s \in Slots, NEW p \in Projects, ReadInfo(s, p) PROVE StateType' /\ Inv'
<1> DEFINE c == calls[s][p]
           t == [c EXCEPT !.stage = "writing info", !.found = doc[p] # 0]
<1>1. Set(s, p, t) /\ c.stage = "reading info" /\ UNCHANGED <<row, role, settings, joined>>
  BY DEF ReadInfo, At, disk, replica
<1>2. c \in Thread /\ Typed(c) /\ ThreadIn(c, p, row, role, settings)
  BY ThreadOf
<1> HIDE DEF c
<1>3. /\ t \in Thread /\ t.stage = "writing info" /\ t.op = c.op /\ t.info = c.info
  BY <1>2 DEF Thread, Stages
<1> HIDE DEF t
<1>4. Typed(t)
  BY <1>1, <1>2, <1>3 DEF Typed
<1>5. ThreadIn(t, p, row, role, settings) /\ (t.op = "add" => calls[s][p].op = "add")
  BY <1>1, <1>2, <1>3 DEF ThreadIn, c
<1>6. StateType'
  BY DEF ReadInfo, IInv, StateType, disk, memory, replica
<1> QED
  BY <1>1, <1>4, <1>5, <1>6, QuietStep DEF Inv

LEMMA AfterInfoStep ==
  ASSUME IInv, NEW s \in Slots, NEW p \in Projects, At(s, p, "writing info"), AfterInfo(s, p),
         UNCHANGED <<row, role, settings>>
  PROVE  Inv' /\ active' \in SUBSET Projects /\ joined' \in SUBSET Projects
<1>1. CASE calls[s][p].op = "add"
  <2>1. GoTo(s, p, "reading own") /\ UNCHANGED <<active, joined>>
    BY <1>1 DEF AfterInfo
  <2> QED
    BY <1>1, <2>1, StageNames, QuietGoTo DEF Inv, IInv, StateType
<1>2. CASE calls[s][p].op # "add"
  <2>1. Return(s, p)
    BY <1>2 DEF AfterInfo
  <2>2. calls[s][p].op \in {"create", "add"} => SyncedIn(p, row', role', settings')
    BY <1>2, ThreadOf DEF At, ThreadIn
  <2>3. Inv'
    BY <2>1, <2>2, ReturnStep DEF Inv
  <2> QED
    BY <2>1, <2>3, ReturnTypes DEF IInv
<1> QED
  BY <1>1, <1>2

LEMMA WritesKeep ==
  ASSUME IInv, NEW s \in Slots, NEW p \in Projects
  PROVE  /\ WriteInfo(s, p) => StateType' /\ Inv'
         /\ WriteInfoFails(s, p) => StateType' /\ Inv'
<1>1. ASSUME WriteInfo(s, p) PROVE StateType' /\ Inv'
  <2>1. At(s, p, "writing info") /\ AfterInfo(s, p) /\ UNCHANGED <<row, role, settings>>
    BY <1>1 DEF WriteInfo, disk
  <2>2. calls[s][p].info \in 0 .. MaxInfo
    BY ThreadOf DEF Thread
  <2>3. doc' \in [Projects -> 0 .. MaxInfo] /\ event' \in SUBSET Joinable
    BY <1>1, <2>2 DEF WriteInfo, IInv, StateType
  <2> QED
    BY <1>1, <2>1, <2>3, AfterInfoStep DEF WriteInfo, IInv, StateType, disk
<1>2. ASSUME WriteInfoFails(s, p) PROVE StateType' /\ Inv'
  <2>1. At(s, p, "writing info") /\ UNCHANGED <<made, replica, crashes>>
    BY <1>2 DEF WriteInfoFails
  <2>2. CASE calls[s][p].op = "add"
    <3>1. AfterInfo(s, p) /\ UNCHANGED disk
      BY <1>2, <2>2 DEF WriteInfoFails
    <3> QED
      BY <2>1, <3>1, AfterInfoStep DEF IInv, StateType, disk, replica
  <2>3. CASE calls[s][p].op # "add"
    <3>1. Throw(s, p) /\ UNCHANGED <<active, joined>>
      BY <1>2, <2>3 DEF WriteInfoFails
    <3>2. Inv'
      BY <2>1, <3>1, ThrowStep DEF Inv, replica
    <3> QED
      BY <2>1, <3>1, <3>2, ThrowTypes DEF IInv, StateType, replica
  <2> QED
    BY <2>2, <2>3
<1> QED
  BY <1>1, <1>2

\* What is found is what there is, and stays.
LEMMA ReadOwnKeeps ==
  ASSUME IInv, NEW s \in Slots, NEW p \in Projects, ReadOwn(s, p) PROVE StateType' /\ Inv'
<1> DEFINE c == calls[s][p]
           own == role[p] # "none" /\ p \in settings
           t == [c EXCEPT !.stage = "checking", !.found = own]
<1>1. Set(s, p, t) /\ c.stage = "reading own" /\ UNCHANGED <<row, role, settings, joined>>
  BY DEF ReadOwn, At, disk, replica
<1>2. c \in Thread /\ Typed(c) /\ ThreadIn(c, p, row, role, settings)
  BY ThreadOf
<1>3. own \in BOOLEAN /\ (own => SyncedIn(p, row, role, settings))
  BY DEF SyncedIn
<1> HIDE DEF c, own
<1>4. /\ t \in Thread /\ t.stage = "checking" /\ t.op = c.op /\ t.info = c.info
      /\ t.found = own
  BY <1>2, <1>3 DEF Thread, Stages
<1> HIDE DEF t
<1>5. Typed(t)
  BY <1>1, <1>2, <1>4 DEF Typed
<1>6. ThreadIn(t, p, row, role, settings) /\ (t.op = "add" => calls[s][p].op = "add")
  BY <1>1, <1>2, <1>3, <1>4 DEF ThreadIn, c
<1>7. StateType'
  BY DEF ReadOwn, IInv, StateType, disk, memory, replica
<1> QED
  BY <1>1, <1>5, <1>6, <1>7, QuietStep DEF Inv

LEMMA CheckKeeps ==
  ASSUME IInv, NEW s \in Slots, NEW p \in Projects, Check(s, p) PROVE StateType' /\ Inv'
<1>1. UNCHANGED <<disk, made, replica, crashes>> /\ UNCHANGED <<row, role, settings>>
  BY DEF Check, disk, replica
<1>2. CASE calls[s][p].found /\ IsAuthSynced(p) /\ IsConfigSynced(p)
  <2>1. Return(s, p)
    BY <1>2 DEF Check
  <2>2. SyncedIn(p, row', role', settings')
    BY <1>1, <1>2, ThreadOf DEF Check, At, ThreadIn
  <2>3. Inv'
    BY <1>1, <2>1, <2>2, ReturnStep DEF Inv
  <2> QED
    BY <1>1, <2>1, <2>3, ReturnTypes DEF IInv, StateType, disk, replica
<1>3. CASE ~(calls[s][p].found /\ IsAuthSynced(p) /\ IsConfigSynced(p))
  <2>1. GoTo(s, p, "waiting") /\ UNCHANGED <<active, joined>>
    BY <1>3 DEF Check
  <2>2. calls[s][p].op = "add"
    BY ThreadOf DEF Check, At, ThreadIn
  <2>3. Inv'
    BY <1>1, <2>1, <2>2, StageNames, QuietGoTo DEF Inv
  <2> QED
    BY <1>1, <2>1, <2>3 DEF IInv, StateType, disk, replica
<1> QED
  BY <1>2, <1>3

\* Whoever leaves has a role, and a project that was left needs no settings.
LEMMA LeavingKeeps ==
  ASSUME IInv, NEW s \in Slots, NEW p \in Projects
  PROVE  /\ ProjectLeave(s, p) => StateType' /\ Inv'
         /\ Left(s, p) => StateType' /\ Inv'
<1>1. ASSUME ProjectLeave(s, p) PROVE StateType' /\ Inv'
  <2> DEFINE t == [calls[s][p] EXCEPT !.stage = "left"]
  <2>1. Set(s, p, t) /\ UNCHANGED <<row, settings, joined>>
    BY <1>1 DEF ProjectLeave, GoTo, disk
  <2>2. role'[p] = "left" /\ \A q \in Projects \ {p} : role'[q] = role[q]
    BY <1>1 DEF ProjectLeave, IInv, StateType
  <2>3. \A q \in Projects : Mild(q)
    BY <2>1, <2>2 DEF Mild, SyncedIn
  <2>4. t \in Thread /\ t.stage = "left" /\ t.op = calls[s][p].op /\ t.info = calls[s][p].info
    BY StageNames, ThreadOf, StageType
  <2> HIDE DEF t
  <2>5. Typed(t)
    BY <2>4, ThreadOf DEF Typed
  <2>6. ThreadIn(calls[s][p], p, row, role, settings)
    BY ThreadOf
  <2>7. ThreadIn(t, p, row', role', settings')
    BY <2>1, <2>2, <2>4, <2>6 DEF ThreadIn
  <2>8. p \in joined' => /\ row'[p] # "none" /\ SyncedIn(p, row', role', settings')
                         /\ t.op # "add"
                         /\ \A u \in Slots \ {s} : calls[u][p].op # "add"
    BY <2>1, <2>3, <2>4 DEF IInv, JoinedInv, Synced, Mild
  <2>9. Inv'
    BY <2>1, <2>3, <2>4, <2>5, <2>7, <2>8, ThreadStep DEF Inv
  <2>10. doc' \in [Projects -> 0 .. MaxInfo]
    <3>1. doc' = [doc EXCEPT ![p] = 0] /\ doc \in [Projects -> 0 .. MaxInfo] /\ 0 \in 0 .. MaxInfo
      BY <1>1 DEF ProjectLeave, IInv, StateType
    <3> QED
      BY <3>1
  <2>11. StateType'
    BY <1>1, <2>10 DEF ProjectLeave, IInv, StateType, disk, memory
  <2> QED
    BY <2>9, <2>11
<1>2. ASSUME Left(s, p) PROVE StateType' /\ Inv'
  <2>1. Set(s, p, Done) /\ UNCHANGED <<role, joined>>
    BY <1>2 DEF Left, End
  <2>2. CASE row[p] = "none"
    <3>1. UNCHANGED <<row, settings, active>>
      BY <1>2, <2>2 DEF Left
    <3> QED
      BY <1>2, <2>1, <3>1, DoneType, DoneIn, QuietStep DEF Left, Inv, IInv, StateType
  <2>3. CASE row[p] # "none"
    <3>1. row' = [row EXCEPT ![p] = "auth"] /\ settings' = settings \ {p} /\ active' = active \ {p}
      BY <1>2, <2>3 DEF Left, SaveToProjectKeysTable
    <3>2. row'[p] = "auth" /\ \A q \in Projects \ {p} : row'[q] = row[q]
      BY <3>1 DEF IInv, StateType
    <3>3. \A q \in Projects : Mild(q)
      BY <2>1, <3>1, <3>2 DEF Mild, SyncedIn
    <3>4. p \in joined' => /\ row'[p] # "none" /\ SyncedIn(p, row', role', settings')
                           /\ \A u \in Slots \ {s} : calls[u][p].op # "add"
      BY <2>1, <3>2, <3>3 DEF IInv, JoinedInv, Synced, Mild
    <3>5. Inv'
      BY <2>1, <3>3, <3>4, DoneType, DoneIn, ThreadStep DEF Inv
    <3> QED
      BY <1>2, <3>1, <3>5 DEF Left, IInv, StateType
  <2> QED
    BY <2>2, <2>3
<1> QED
  BY <1>1, <1>2

\* What arrives from a peer is only ever more.
LEMMA PeerKeeps ==
  ASSUME IInv, NEW p \in Projects
  PROVE  /\ HandleState(p) => StateType' /\ Inv'
         /\ ReceiveHaves(p) => StateType' /\ Inv'
         /\ \A n \in {"auth", "config"} : Download(p, n) => StateType' /\ Inv'
         /\ Index(p) => StateType' /\ Inv'
<1>1. ASSUME calls' = calls, joined' = joined, \A q \in Projects : Mild(q) PROVE Inv'
  <2>1. \A u \in Slots, q \in Projects : ThreadIn(calls[u][q], q, row', role', settings')
    BY <1>1, ThreadOf, ThreadKeeps
  <2>2. \A u \in Slots, q \in Projects :
           /\ Typed(calls'[u][q]) /\ ThreadIn(calls'[u][q], q, row', role', settings')
           /\ calls'[u][q].op = "add" => calls[u][q].op = "add"
    BY <1>1, <2>1, ThreadOf
  <2>3. calls' \in [Slots -> [Projects -> Thread]]
    BY <1>1 DEF IInv, CallsType
  <2> QED
    BY <1>1, <2>2, <2>3, ManyThreads DEF Inv
<1>2. UNCHANGED <<row, role, settings>> => \A q \in Projects : Mild(q)
  BY DEF Mild
<1>3. ASSUME HandleState(p) PROVE StateType' /\ Inv'
  <2> DEFINE resumed(s) == [calls[s] EXCEPT ![p].stage = "reading own"]
             again(s) == At(s, p, "waiting") /\ ~DataToSync(p)
  <2>1. UNCHANGED <<row, role, settings, joined>>
    BY <1>3 DEF HandleState, disk
  <2>2. calls' = [s \in Slots |-> IF again(s) THEN resumed(s) ELSE calls[s]]
    BY <1>3 DEF HandleState
  <2>3. ASSUME NEW u \in Slots, again(u)
        PROVE  /\ resumed(u) \in [Projects -> Thread]
               /\ resumed(u)[p] = [calls[u][p] EXCEPT !.stage = "reading own"]
               /\ \A q \in Projects \ {p} : resumed(u)[q] = calls[u][q]
    <3>1. calls[u] \in [Projects -> Thread]
      BY DEF IInv, CallsType
    <3>2. [calls[u][p] EXCEPT !.stage = "reading own"] \in Thread
      BY StageNames, ThreadOf, StageType
    <3> QED
      BY <3>1, <3>2
  <2> HIDE DEF resumed
  <2>4. calls' \in [Slots -> [Projects -> Thread]]
    BY <2>2, <2>3 DEF IInv, CallsType
  <2>5. ASSUME NEW u \in Slots, NEW q \in Projects
        PROVE  /\ Typed(calls'[u][q]) /\ ThreadIn(calls'[u][q], q, row', role', settings')
               /\ calls'[u][q].op = "add" => calls[u][q].op = "add"
    <3>1. CASE again(u) /\ q = p
      <4> DEFINE t == [calls[u][p] EXCEPT !.stage = "reading own"]
      <4>1. calls'[u][q] = t
        BY <2>2, <2>3, <3>1
      <4>2. /\ t \in Thread /\ t.stage = "reading own" /\ t.op = calls[u][p].op
            /\ t.info = calls[u][p].info
        BY StageNames, ThreadOf, StageType
      <4> HIDE DEF t
      <4>3. Typed(t)
        BY <4>2, ThreadOf DEF Typed
      <4>4. ThreadIn(calls[u][p], p, row, role, settings) /\ calls[u][p].stage = "waiting"
        BY <3>1, ThreadOf DEF At
      <4>5. ThreadIn(t, p, row', role', settings')
        BY <2>1, <4>2, <4>4 DEF ThreadIn
      <4> QED
        BY <3>1, <4>1, <4>2, <4>3, <4>5
    <3>2. CASE ~(again(u) /\ q = p)
      <4>1. calls'[u][q] = calls[u][q]
        BY <2>2, <2>3, <3>2
      <4> QED
        BY <2>1, <4>1, ThreadOf
    <3> QED
      BY <3>1, <3>2
  <2>6. Inv'
    BY <1>2, <2>1, <2>4, <2>5, ManyThreads DEF Inv
  <2> QED
    BY <1>3, <2>6 DEF HandleState, IInv, StateType, disk, memory
<1>4. ASSUME ReceiveHaves(p) PROVE StateType' /\ Inv'
  <2>1. Inv'
    BY <1>1, <1>2, <1>4 DEF ReceiveHaves, disk
  <2>2. blocks' \in [Projects -> [{"auth", "config"} -> {"unknown", "wanted", "had"}]]
    BY <1>4 DEF ReceiveHaves, IInv, StateType
  <2> QED
    BY <1>4, <2>1, <2>2 DEF ReceiveHaves, Syncs, IInv, StateType, disk, memory
<1>5. ASSUME NEW n \in {"auth", "config"}, Download(p, n) PROVE StateType' /\ Inv'
  <2>1. Inv'
    BY <1>1, <1>2, <1>5 DEF Download, disk
  <2>2. blocks' \in [Projects -> [{"auth", "config"} -> {"unknown", "wanted", "had"}]]
    BY <1>5 DEF Download, IInv, StateType
  <2> QED
    BY <1>5, <2>1, <2>2 DEF Download, Syncs, IInv, StateType, disk, memory
<1>6. ASSUME Index(p) PROVE StateType' /\ Inv'
  <2>1. UNCHANGED <<disk, memory, calls, doc, blocks, event, joined, crashes>>
    BY <1>6 DEF Index
  <2>2. /\ role' \in [Projects -> {"none", "member", "left"}] /\ settings' \in SUBSET Projects
        /\ \A q \in Projects : role[q] # "none" => role'[q] # "none"
        /\ settings \subseteq settings'
    BY <1>6 DEF Index, IInv, StateType
  <2>3. \A q \in Projects : Mild(q)
    BY <2>1, <2>2 DEF Mild, SyncedIn, disk
  <2>4. Inv'
    BY <1>1, <2>1, <2>3
  <2> QED
    BY <2>1, <2>2, <2>4 DEF IInv, StateType, disk, memory
<1> QED
  BY <1>3, <1>4, <1>5, <1>6

LEMMA CrashKeeps == ASSUME IInv, Crash PROVE StateType' /\ Inv'
<1>1. UNCHANGED <<row, role, settings, joined>>
  BY DEF Crash, disk
<1>2. \A q \in Projects : Mild(q)
  BY <1>1 DEF Mild
<1>3. calls' = [s \in Slots |-> [p \in Projects |-> Done]]
  BY DEF Crash
<1>4. calls' \in [Slots -> [Projects -> Thread]] /\ \A u \in Slots, q \in Projects : calls'[u][q] = Done
  BY <1>3, DoneType
<1>5. Inv'
  BY <1>1, <1>2, <1>4, DoneType, DoneIn, ManyThreads DEF Inv
<1>6. made' = [p \in Projects |-> 0] /\ \A p \in Projects : 0 \in 0 .. MaxInstances[p]
  BY DEF Crash
<1>7. crashes' \in 0 .. MaxCrashes
  BY DEF Crash, IInv, StateType
<1> QED
  BY <1>5, <1>6, <1>7 DEF Crash, IInv, StateType, disk

LEMMA InitHolds == Init => IInv
<1> SUFFICES ASSUME Init PROVE IInv
  OBVIOUS
<1>1. StateType
  BY DEF Init, StateType
<1>2. calls \in [Slots -> [Projects -> Thread]] /\ \A s \in Slots, p \in Projects : calls[s][p] = Done
  BY DoneType DEF Init
<1>3. CallsType /\ ThreadsInv /\ OneAdds
  BY <1>2, DoneType, DoneIn DEF CallsType, ThreadsInv, OneAdds
<1>4. JoinedInv
  BY DEF Init, JoinedInv
<1> QED
  BY <1>1, <1>3, <1>4 DEF IInv

LEMMA StepHolds == IInv /\ [Next]_vars => IInv'
<1> SUFFICES ASSUME IInv, [Next]_vars PROVE StateType' /\ Inv'
  BY DEF IInv, Inv
<1>1. ASSUME UNCHANGED vars PROVE StateType' /\ Inv'
  <2>1. StateType'
    BY <1>1 DEF vars, disk, memory, replica, IInv, StateType
  <2>2. CallsType' /\ OneAdds'
    BY <1>1 DEF vars, IInv, CallsType, OneAdds
  <2>3. UNCHANGED <<row, role, settings, joined, calls>>
    BY <1>1 DEF vars, disk, replica
  <2>4. ThreadsInv'
    BY <2>3 DEF IInv, ThreadsInv
  <2>5. JoinedInv'
    BY <2>3 DEF IInv, JoinedInv, Synced
  <2> QED
    BY <2>1, <2>2, <2>4, <2>5 DEF Inv
<1>2. ASSUME NEW s \in Slots, NEW p \in Projects, Proceed(s, p) PROVE StateType' /\ Inv'
  BY <1>2, OpenedKeeps, ThrowsKeep, SettingsKeep, ReadInfoKeeps, WritesKeep, ReadOwnKeeps, CheckKeeps,
     LeavingKeeps DEF Proceed
<1>3. ASSUME NEW s \in Slots, NEW p \in Projects,
             CreateProject(s, p) \/ GetProject(s, p) \/ AddProject(s, p) \/ LeaveProject(s, p)
      PROVE  StateType' /\ Inv'
  BY <1>3, CallsBegin, CallsBeginTypes DEF IInv
<1>4. ASSUME NEW p \in Projects,
             HandleState(p) \/ ReceiveHaves(p) \/ Index(p) \/ \E n \in {"auth", "config"} : Download(p, n)
      PROVE  StateType' /\ Inv'
  BY <1>4, PeerKeeps
<1> QED
  BY <1>1, <1>2, <1>3, <1>4, SetDeviceInfoKeeps, CrashKeeps DEF Next

-----------------------------------------------------------------------------
\* The inductive invariant holds throughout.
THEOREM InvariantHolds == Spec => []IInv
BY InitHolds, StepHolds, PTL DEF Spec

\* Every variable has its type, and a thread that writes a device info has
\* one.
THEOREM TypeCorrect == Spec => []TypeOK
<1>1. IInv => TypeOK
  BY DEF IInv, StateType, CallsType, Typed, TypeOK
<1> QED
  BY <1>1, InvariantHolds, PTL

\* mapeo-manager.js: however many calls overlap, none that fails takes a
\* project away that was created or added.
THEOREM JoinedKept == Spec => []JoinedIsKept
<1>1. IInv => JoinedIsKept
  BY DEF IInv, JoinedInv, JoinedIsKept, Adds
<1> QED
  BY <1>1, InvariantHolds, PTL

\* mapeo-manager.js: a project is added only with its role and its settings.
THEOREM JoinedSynced == Spec => []JoinedIsSynced
<1>1. IInv => JoinedIsSynced
  BY DEF IInv, JoinedInv, JoinedIsSynced, Synced, SyncedIn
<1> QED
  BY <1>1, InvariantHolds, PTL
=============================================================================
