---------------------------- MODULE ServiceProofs ---------------------------
(***************************************************************************)
(* The theorems about what the kernel does for applications: it loads them *)
(* and frees them (AppLifecycle), and keeps their files (MountedFs).       *)
(***************************************************************************)
EXTENDS AppLifecycle, MountedFs, FiniteSetTheorems, SequenceTheorems,
        NaturalsInduction, WellFoundedInduction, TLAPS

-----------------------------------------------------------------------------
(* AppLifecycle, for any number of applications and any choice of          *)
(* incidents: who uses a VM finds it allocated, and memory is lost only    *)
(* after an incident.                                                      *)

\* What a load in progress knows: its VM is its own, the task of the VM starts
\* at task_create and has no priv_data before the load is over, and the loader
\* itself still executes.
LoadsApart ==
    /\ \A p \in Loader : lpc[p] = "none" <=> loading[p] = NULL
    /\ \A p, q \in Loader : loading[p] = loading[q] /\ loading[p] # NULL => p = q
    /\ \A p \in Loader : lpc[p] = "vm" => ~task[loading[p]]
    /\ \A p \in Loader : loading[p] # NULL => ~priv_data[loading[p]]
    /\ \A p \in Loader : lpc[p] # "none" => Runs(p)
    /\ \A a \in App : priv_data[a] => state[a] # "free"

\* A task that has left the ring runs alone: its VM is in a final state, and no
\* load is making a task for it.
ExitsApart ==
    \A a \in App : exiting[a] = "unlinked" =>
        /\ ~task[a] /\ state[a] \in {"HALTED", "ERROR"}
        /\ \A p \in Loader : lpc[p] = "vm" => loading[p] # a

\* Between task_create and the store to priv_data nothing happens to the task.
LoadedTaskThere ==
    happened = {} => \A p \in Loader : lpc[p] = "task" => task[loading[p]]

AppInductive ==
    /\ AppTypeOK
    /\ VmOutlivesUsers
    /\ LoadsApart
    /\ ExitsApart
    /\ LoadedTaskThere
    /\ LeaksOnlyAfterIncident

-----------------------------------------------------------------------------

\* The initial state of the system, before any application is loaded.
LEMMA AppInitInductive == AppInit => AppInductive
  BY AppAssumption DEF AppInit, AppInductive, AppTypeOK, VmOutlivesUsers,
        LoadsApart, ExitsApart, LoadedTaskThere, LeaksOnlyAfterIncident, NothingLeaks, Runs,
        Loader

\* Every step of kernel_load_app and of a task keeps the types.
LEMMA AppTypeStep ==
    ASSUME AppInductive, [AppNext]_avars
    PROVE  AppTypeOK'
<1> USE AppAssumption DEF AppInductive, AppTypeOK, Step, Notes, Loader
<1>0. \A p \in Loader : lpc[p] # "none" => loading[p] \in App
  BY DEF LoadsApart
<1>1. ASSUME NEW p \in Loader, NEW a \in App, LoadVm(p, a) PROVE AppTypeOK'
  BY <1>1 DEF LoadVm
<1>2. ASSUME NEW p \in Loader, LoadTaskFails(p) PROVE AppTypeOK'
  BY <1>0, <1>2 DEF LoadTaskFails
<1>3. ASSUME NEW p \in Loader, LoadTask(p) PROVE AppTypeOK'
  BY <1>0, <1>3 DEF LoadTask
<1>4. ASSUME NEW p \in Loader, LoadPriv(p) PROVE AppTypeOK'
  BY <1>0, <1>4 DEF LoadPriv
<1>5. ASSUME NEW a \in App, Start(a) PROVE AppTypeOK'
  BY <1>5 DEF Start
<1>6. ASSUME NEW a \in App, Finish(a) PROVE AppTypeOK'
  BY <1>6 DEF Finish
<1>7. ASSUME NEW a \in App, Exit(a) PROVE AppTypeOK'
  <2>1. CASE ExitUnlink(a)
    BY <2>1 DEF ExitUnlink, Unlink
  <2>2. CASE ExitRelease(a)
    BY <2>2 DEF ExitRelease, Release, RefDec
  <2>3. CASE ExitFree(a)
    BY <2>3 DEF ExitFree
  <2> QED
    BY <1>7, <2>1, <2>2, <2>3 DEF Exit
<1>8. ASSUME NEW p \in App, NEW a \in App, Stop(p, a) PROVE AppTypeOK'
  BY <1>8 DEF Stop, Unlink, Release, RefDec
<1>9. CASE UNCHANGED avars
  BY <1>9 DEF avars
<1> QED
  BY <1>1, <1>2, <1>3, <1>4, <1>5, <1>6, <1>7, <1>8, <1>9 DEF AppNext

\* A task that drops its reference has no load to give it its VM if it had the
\* VM in priv_data; so nobody is left with the VM it frees, once the task is out
\* of the ring.
LEMMA ReleaseApart ==
    ASSUME AppTypeOK, VmOutlivesUsers, LoadsApart, NEW a \in App, Release(a), ~task'[a],
           \/ UNCHANGED <<task, lpc, loading>>
           \/ Unlink(a),
           \A b \in App : exiting'[b] = "unlinked" => exiting[b] = "unlinked" /\ b # a
    PROVE  VmOutlivesUsers' /\ LoadsApart'
<1> USE AppAssumption DEF AppTypeOK, Loader
<1>1. priv_data' = [priv_data EXCEPT ![a] = FALSE]
  BY DEF Release
<1>2. /\ state' \in [App -> {"free", "READY", "RUNNING", "HALTED", "ERROR"}]
      /\ \A b \in App : b # a => state'[b] = state[b]
      /\ ~priv_data[a] => state' = state
      /\ state'[a] = state[a] \/ state[a] \in {"HALTED", "ERROR"}
  BY DEF Release, RefDec
<1>3. /\ \A b \in App : b # a => task'[b] = task[b]
      /\ \A p \in Loader : \/ lpc'[p] = lpc[p] /\ loading'[p] = loading[p]
                           \/ p = a /\ lpc'[p] = "none" /\ loading'[p] = NULL
      /\ task' \in [App -> BOOLEAN]
  <2>1. CASE UNCHANGED <<task, lpc, loading>>
    BY <2>1
  <2>2. CASE Unlink(a)
    BY <2>2 DEF Unlink
  <2> QED
    BY <2>1, <2>2
<1>4. VmOutlivesUsers'
  <2>1. \A b \in App : task'[b] => state'[b] # "free"
    BY <1>2, <1>3 DEF VmOutlivesUsers
  <2>2. \A b \in App : exiting'[b] = "unlinked" => state'[b] # "free"
    BY <1>2 DEF VmOutlivesUsers
  <2>3. ASSUME NEW p \in Loader, loading'[p] # NULL PROVE state'[loading'[p]] # "free"
    <3>1. loading'[p] = loading[p] /\ loading[p] \in App
      BY <1>3, <2>3
    <3>2. loading[p] = a => state' = state
      BY <1>2, <2>3, <3>1 DEF LoadsApart
    <3> QED
      BY <1>2, <2>3, <3>1, <3>2 DEF VmOutlivesUsers
  <2> QED
    BY <2>1, <2>2, <2>3 DEF VmOutlivesUsers
<1>5. LoadsApart'
  <2>1. \A p \in Loader : lpc'[p] = "none" <=> loading'[p] = NULL
    BY <1>3 DEF LoadsApart
  <2>2. \A p, q \in Loader : loading'[p] = loading'[q] /\ loading'[p] # NULL => p = q
    BY <1>3 DEF LoadsApart
  <2>3. ASSUME NEW p \in Loader, lpc'[p] = "vm" PROVE ~task'[loading'[p]]
    BY <1>3, <2>3 DEF LoadsApart
  <2>4. ASSUME NEW p \in Loader, loading'[p] # NULL PROVE ~priv_data'[loading'[p]]
    BY <1>1, <1>3, <2>4 DEF LoadsApart
  <2>5. ASSUME NEW p \in Loader, lpc'[p] # "none" PROVE Runs(p)'
    <3>1. p # a \/ UNCHANGED <<task, lpc, loading>>
      BY <2>5 DEF Unlink
    <3>2. lpc[p] # "none" /\ Runs(p)
      BY <1>3, <2>5 DEF LoadsApart
    <3>3. CASE p = BOOT
      BY <3>3 DEF Runs
    <3>4. CASE p # BOOT
      <4>1. p \in App /\ task[p] /\ state[p] = "RUNNING"
        BY <3>2, <3>4 DEF Runs
      <4>2. task'[p] /\ state'[p] = "RUNNING"
        BY <1>2, <1>3, <3>1, <4>1
      <4> QED
        BY <4>2 DEF Runs
    <3> QED
      BY <3>3, <3>4
  <2>6. \A b \in App : priv_data'[b] => state'[b] # "free"
    BY <1>1, <1>2 DEF LoadsApart
  <2> QED
    BY <2>1, <2>2, <2>3, <2>4, <2>5, <2>6 DEF LoadsApart
<1> QED
  BY <1>4, <1>5

\* While a task exits nobody else takes a step and the exit goes on.
LEMMA ExitsApartStep ==
    ASSUME AppInductive, [AppNext]_avars
    PROVE  ExitsApart'
<1> USE AppAssumption DEF AppInductive, AppTypeOK, Loader
<1>1. CASE exiting' = [a \in App |-> "no"]
  BY <1>1 DEF ExitsApart
<1>2. ASSUME NEW a \in App, ExitUnlink(a) PROVE ExitsApart'
  <2>1. \A b \in App : exiting'[b] = "unlinked" => b = a
    BY <1>2 DEF ExitUnlink
  <2>2. ~task'[a] /\ state'[a] \in {"HALTED", "ERROR"}
    BY <1>2 DEF ExitUnlink, Unlink
  <2>3. \A p \in Loader : lpc[p] = "vm" => loading[p] # a
    BY <1>2 DEF ExitUnlink, LoadsApart
  <2>4. \A p \in Loader : lpc'[p] = "vm" => loading'[p] # a
    BY <1>2, <2>3 DEF ExitUnlink, Unlink
  <2> QED
    BY <2>1, <2>2, <2>4 DEF ExitsApart
<1>3. ASSUME NEW a \in App, ExitRelease(a) \/ ExitFree(a) PROVE ExitsApart'
  <2>1. \A b \in App : exiting'[b] = "unlinked" => exiting[b] = "unlinked" /\ b # a
    BY <1>3 DEF ExitRelease, ExitFree
  <2>2. \A b \in App : b # a => state'[b] = state[b]
    BY <1>3 DEF ExitRelease, ExitFree, Release, RefDec
  <2>3. task' = task /\ lpc' = lpc /\ loading' = loading
    BY <1>3 DEF ExitRelease, ExitFree
  <2> QED
    BY <2>1, <2>2, <2>3 DEF ExitsApart
<1>4. CASE UNCHANGED avars
  BY <1>4 DEF avars, ExitsApart
<1> QED
  BY <1>1, <1>2, <1>3, <1>4 DEF AppNext, LoadVm, LoadTaskFails, LoadTask, LoadPriv, Start,
        Finish, Stop, Exit, Step

\* Loads and tasks keep out of each other's way.
LEMMA ApartStep ==
    ASSUME AppInductive, [AppNext]_avars
    PROVE  VmOutlivesUsers' /\ LoadsApart'
<1> USE AppAssumption DEF AppInductive, AppTypeOK, Loader
<1>0. \A p \in Loader : lpc[p] # "none" => loading[p] \in App
  BY DEF LoadsApart
<1>1. ASSUME NEW p \in Loader, NEW a \in App, LoadVm(p, a)
      PROVE  VmOutlivesUsers' /\ LoadsApart'
  <2>1. VmOutlivesUsers'
    BY <1>1 DEF LoadVm, Step, VmOutlivesUsers
  <2>2. LoadsApart'
    BY <1>1 DEF LoadVm, LoadsApart, VmOutlivesUsers, Runs
  <2> QED
    BY <2>1, <2>2
<1>2. ASSUME NEW p \in Loader, LoadTaskFails(p)
      PROVE  VmOutlivesUsers' /\ LoadsApart'
  <2>1. VmOutlivesUsers'
    BY <1>0, <1>2 DEF LoadTaskFails, Step, VmOutlivesUsers, LoadsApart
  <2>2. LoadsApart'
    BY <1>0, <1>2 DEF LoadTaskFails, LoadsApart, Runs
  <2> QED
    BY <2>1, <2>2
<1>3. ASSUME NEW p \in Loader, LoadTask(p)
      PROVE  VmOutlivesUsers' /\ LoadsApart'
  <2>1. VmOutlivesUsers'
    BY <1>0, <1>3 DEF LoadTask, Step, VmOutlivesUsers
  <2>2. LoadsApart'
    BY <1>0, <1>3 DEF LoadTask, LoadsApart, Runs
  <2> QED
    BY <2>1, <2>2
<1>4. ASSUME NEW p \in Loader, LoadPriv(p)
      PROVE  VmOutlivesUsers' /\ LoadsApart'
  <2>1. VmOutlivesUsers'
    BY <1>0, <1>4 DEF LoadPriv, VmOutlivesUsers
  <2>2. LoadsApart'
    BY <1>0, <1>4 DEF LoadPriv, LoadsApart, VmOutlivesUsers, Runs
  <2> QED
    BY <2>1, <2>2
<1>5. ASSUME NEW a \in App, Start(a) \/ Finish(a)
      PROVE  VmOutlivesUsers' /\ LoadsApart'
  BY <1>5 DEF Start, Finish, Step, VmOutlivesUsers, LoadsApart, Runs
<1>6. ASSUME NEW a \in App, Exit(a)
      PROVE  VmOutlivesUsers' /\ LoadsApart'
  <2>1. CASE ExitUnlink(a)
    <3>1. VmOutlivesUsers'
      BY <2>1 DEF ExitUnlink, Unlink, VmOutlivesUsers
    <3>2. LoadsApart'
      BY <2>1 DEF ExitUnlink, Unlink, LoadsApart, Runs
    <3> QED
      BY <3>1, <3>2
  <2>2. CASE ExitRelease(a)
    <3>1. Release(a) /\ UNCHANGED <<task, lpc, loading>> /\ exiting[a] = "unlinked"
          /\ \A b \in App : exiting'[b] = "unlinked" => exiting[b] = "unlinked" /\ b # a
      BY <2>2 DEF ExitRelease
    <3>2. ~task'[a]
      BY <3>1 DEF ExitsApart
    <3> QED
      BY <3>1, <3>2, ReleaseApart
  <2>3. CASE ExitFree(a)
    BY <2>3 DEF ExitFree, VmOutlivesUsers, LoadsApart, Runs
  <2> QED
    BY <1>6, <2>1, <2>2, <2>3 DEF Exit
<1>7. ASSUME NEW p \in App, NEW a \in App, Stop(p, a)
      PROVE  VmOutlivesUsers' /\ LoadsApart'
  <2>1. Release(a) /\ Unlink(a) /\ \A b \in App : exiting'[b] # "unlinked"
    BY <1>7 DEF Stop, Step
  <2>2. ~task'[a]
    BY <2>1 DEF Unlink
  <2> QED
    BY <2>1, <2>2, ReleaseApart
<1>8. CASE UNCHANGED avars
  BY <1>8 DEF avars, VmOutlivesUsers, LoadsApart, Runs
<1> QED
  BY <1>1, <1>2, <1>3, <1>4, <1>5, <1>6, <1>7, <1>8 DEF AppNext

\* Without an incident the steps of others wait until the load is over.
LEMMA LoadedTaskStep ==
    ASSUME AppInductive, [AppNext]_avars
    PROVE  LoadedTaskThere'
<1> USE AppAssumption DEF AppInductive, AppTypeOK, Loader
<1> SUFFICES ASSUME happened' = {} PROVE LoadedTaskThere'
  BY DEF LoadedTaskThere
<1>1. CASE \E p \in Loader : LoadTask(p)
  BY <1>1 DEF LoadTask, Step, Notes, LoadedTaskThere, LoadsApart
<1>2. CASE \E p \in Loader : LoadPriv(p)
  BY <1>2 DEF LoadPriv, LoadedTaskThere
<1>3. CASE UNCHANGED avars
  BY <1>3 DEF avars, LoadedTaskThere
<1>4. ASSUME NEW p \in Loader, NEW a \in App,
             LoadVm(p, a) \/ Start(a) \/ Finish(a) \/ Exit(a) \/ Stop(p, a)
      PROVE  LoadedTaskThere'
  <2>1. \A q \in Loader : lpc[q] # "task"
    BY <1>4 DEF LoadVm, Start, Finish, Exit, ExitUnlink, ExitRelease, ExitFree, Stop, Step, Notes
  <2>2. \A q \in Loader : lpc'[q] # "task"
    BY <1>4, <2>1 DEF LoadVm, Start, Finish, Exit, ExitUnlink, ExitRelease, ExitFree, Stop, Unlink
  <2> QED
    BY <2>2 DEF LoadedTaskThere
<1>5. \A p \in Loader : ~LoadTaskFails(p)
  BY DEF LoadTaskFails, Step, Notes
<1> QED
  BY <1>1, <1>2, <1>3, <1>4, <1>5 DEF AppNext

\* A step of the others that brings no incident finds nobody exiting.
LEMMA Quiet ==
    ASSUME AppTypeOK, Step({}), happened' = {}
    PROVE  happened = {} /\ \A a \in App : exiting[a] = "no"
  BY DEF Step, Notes, Tick

\* Without an incident a VM that loses its task is freed with it.
LEMMA LeaksStep ==
    ASSUME AppInductive, [AppNext]_avars
    PROVE  LeaksOnlyAfterIncident'
<1> USE AppAssumption DEF AppInductive, AppTypeOK, Loader
<1>0. \A p \in Loader : lpc[p] # "none" => loading[p] \in App
  BY DEF LoadsApart
<1> SUFFICES ASSUME happened' = {} PROVE NothingLeaks'
  BY DEF LeaksOnlyAfterIncident
<1>1. ASSUME NEW p \in Loader, NEW a \in App, LoadVm(p, a) PROVE NothingLeaks'
  <2>1. happened = {} /\ \A b \in App : exiting[b] = "no"
    BY <1>1, Quiet DEF LoadVm
  <2> QED
    BY <1>1, <2>1 DEF LoadVm, LeaksOnlyAfterIncident, NothingLeaks, LoadsApart, Runs
<1>2. ASSUME NEW p \in Loader, LoadTaskFails(p) PROVE NothingLeaks'
  BY <1>2 DEF LoadTaskFails, Step, Notes
<1>3. ASSUME NEW p \in Loader, LoadTask(p) PROVE NothingLeaks'
  <2>1. happened = {} /\ \A b \in App : exiting[b] = "no"
    BY <1>3, Quiet DEF LoadTask
  <2> QED
    BY <1>0, <1>3, <2>1 DEF LoadTask, LeaksOnlyAfterIncident, NothingLeaks, LoadsApart, Runs
<1>4. ASSUME NEW p \in Loader, LoadPriv(p) PROVE NothingLeaks'
  <2>1. happened = {} /\ \A b \in App : exiting[b] = "no"
    BY <1>4 DEF LoadPriv, Tick
  <2> QED
    BY <1>0, <1>4, <2>1 DEF LoadPriv, LeaksOnlyAfterIncident, NothingLeaks, LoadedTaskThere,
          LoadsApart, Runs
<1>5. ASSUME NEW a \in App, Start(a) \/ Finish(a) PROVE NothingLeaks'
  <2>1. happened = {} /\ \A b \in App : exiting[b] = "no"
    BY <1>5, Quiet DEF Start, Finish
  <2> QED
    BY <1>5, <2>1 DEF Start, Finish, LeaksOnlyAfterIncident, NothingLeaks, LoadsApart, Runs
<1>6. ASSUME NEW a \in App, Exit(a) PROVE NothingLeaks'
  <2>1. CASE ExitUnlink(a)
    \* No load is between task_create and its end, so the VM is in priv_data.
    <3>1. happened = {} /\ (\A p \in Loader : lpc[p] # "task") /\ \A b \in App : exiting[b] = "no"
      BY <2>1 DEF ExitUnlink, Notes, Tick
    <3>2. priv_data[a]
      BY <2>1, <3>1 DEF ExitUnlink, LeaksOnlyAfterIncident, NothingLeaks, LoadsApart
    <3> QED
      BY <2>1, <3>1, <3>2 DEF ExitUnlink, Unlink, LeaksOnlyAfterIncident, NothingLeaks,
            LoadsApart, Runs
  <2>2. CASE ExitRelease(a)
    <3>1. /\ happened = {} /\ \A p \in Loader : lpc[p] # "task"
          /\ exiting[a] = "unlinked" /\ Release(a) /\ UNCHANGED <<task, loading, lpc>>
          /\ \A b \in App : b # a => exiting'[b] = exiting[b]
      BY <2>2 DEF ExitRelease, Notes
    <3>2. state[a] \in {"HALTED", "ERROR"} /\ \A p \in Loader : loading[p] # a
      BY <3>1 DEF ExitsApart, LoadsApart
    <3>3. priv_data[a]
      BY <3>1, <3>2 DEF LeaksOnlyAfterIncident, NothingLeaks
    <3>4. state' = [state EXCEPT ![a] = "free"]
      BY <3>1, <3>2, <3>3 DEF Release, RefDec
    <3>5. priv_data' = [priv_data EXCEPT ![a] = FALSE]
      BY <3>1 DEF Release
    <3>6. \A p \in Loader : Runs(p) => Runs(p)'
      BY <3>1, <3>2, <3>4 DEF Runs
    <3> QED
      BY <3>1, <3>4, <3>5, <3>6 DEF LeaksOnlyAfterIncident, NothingLeaks
  <2>3. CASE ExitFree(a)
    BY <2>3 DEF ExitFree, Notes, LeaksOnlyAfterIncident, NothingLeaks, Runs
  <2> QED
    BY <1>6, <2>1, <2>2, <2>3 DEF Exit
<1>7. ASSUME NEW p \in App, NEW a \in App, Stop(p, a) PROVE NothingLeaks'
  BY <1>7 DEF Stop, Step, Notes
<1>8. CASE UNCHANGED avars
  BY <1>8 DEF avars, LeaksOnlyAfterIncident, NothingLeaks, Runs
<1> QED
  BY <1>1, <1>2, <1>3, <1>4, <1>5, <1>6, <1>7, <1>8 DEF AppNext

\* All of it, in every reachable state.
LEMMA AppAlways == AppSpec => []AppInductive
<1>1. AppInductive /\ [AppNext]_avars => AppInductive'
  BY AppTypeStep, ApartStep, ExitsApartStep, LoadedTaskStep, LeaksStep DEF AppInductive
<1> QED
  BY <1>1, AppInitInductive, PTL DEF AppSpec

\* No task runs on a freed VM or exits with a reference on one, and no load in
\* progress holds one, whatever is killed, fails or is interrupted, however many
\* applications there are.
THEOREM VmsOutliveTheirUsers == AppSpec => []AppInvariant
<1>1. AppInductive => AppInvariant
  BY DEF AppInductive, AppInvariant
<1> QED
  BY <1>1, AppAlways, PTL

\* Loads and ends in any order leave no VM behind; only a kill, a failing
\* task_create, a tick before the store to priv_data or one inside
\* task_destroy_current can.
THEOREM LeaksNeedAnIncident == AppSpec => []LeaksOnlyAfterIncident
<1>1. AppInductive => LeaksOnlyAfterIncident
  BY DEF AppInductive
<1> QED
  BY <1>1, AppAlways, PTL

-----------------------------------------------------------------------------
(* MountedFs: what every call, and every step of an interrupted one, keeps  *)
(* of the two file systems.                                                *)

\* The calls under way are records, whatever they have met.
Writer == [pc : {"test", "set", "fill"}, n : Name, content : Contents, i : Nat, blk : Block]
Editor == [pc : {"new"}, n : Name]
          \cup [pc : {"link"}, n : Name, beside : SUBSET Name]
          \cup [pc : {"unmark"}, n : Name, i : Nat, beside : SUBSET Name]
OpenAreRecords ==
    /\ writer = NoCall \/ writer \in Writer
    /\ editor = NoCall \/ editor \in Editor

\* Only the mounted file system has files.
OneMounted ==
    /\ mounted \in {"none", "ramfs", "ramfs2"}
    /\ mounted # "ramfs" => nodes = <<>>
    /\ mounted # "ramfs2" =>
         blocks = [n \in {} |-> <<>>] /\ list = <<>> /\ writer = NoCall /\ editor = NoCall

\* RowsDisjoint in numbers: a row ends before another begins.
RowsApart ==
    "grows" \notin incidents =>
        \A i, j \in DOMAIN nodes :
            /\ nodes[i].start_block + nodes[i].size <= next_free_block
            /\ i # j => \/ nodes[i].start_block + nodes[i].size <= nodes[j].start_block
                        \/ nodes[j].start_block + nodes[j].size <= nodes[i].start_block

\* BlocksExclusive entry by entry: a block stands in one place of one array.
EntriesExclusive ==
    incidents \cap {"junk_freed", "same_block", "same_node"} = {} =>
        \A n \in DOMAIN blocks : \A i \in Kept(n) :
            /\ blocks[n][i] \in block_map
            /\ \A m \in DOMAIN blocks : \A j \in Kept(m) :
                 blocks[m][j] = blocks[n][i] => m = n /\ j = i

\* NoBlockLost block by block.
MarkedIsHeld ==
    incidents \cap {"forgotten", "same_node", "lost_node", "same_name"} = {} =>
        \A b \in block_map :
            \/ \E n \in DOMAIN blocks : \E i \in Kept(n) : blocks[n][i] = b
            \/ writer.pc = "fill" /\ writer.blk = b

\* An interrupted write finds the array it has put into the node, filled up to
\* its index.
ArrayIsWriters ==
    Writing =>
        /\ writer.n \in DOMAIN blocks
        /\ Len(blocks[writer.n]) = Len(writer.content)
        /\ \A j \in DOMAIN blocks[writer.n] : j >= writer.i => blocks[writer.n][j] = JUNK
        /\ writer.pc # "test" => writer.i <= Len(writer.content)
        /\ ~(Removing /\ editor.n = writer.n)

\* The block it is about to enter is marked and nobody's.
BlockIsWriters ==
    incidents \cap {"junk_freed", "same_block", "same_node"} = {} /\ writer.pc = "fill" =>
        /\ writer.blk \in block_map
        /\ \A m \in DOMAIN blocks : \A j \in Kept(m) : blocks[m][j] # writer.blk

\* An interrupted remove finds its file, and what it has unmarked stays so
\* until somebody takes it.
RemovedIsThere ==
    Removing =>
        /\ editor.n \in DOMAIN blocks
        /\ editor.i \in 1 .. Len(blocks[editor.n]) + 1

GivenBackIsFree ==
    incidents \cap {"junk_freed", "same_block", "same_node", "reused_early"} = {} =>
        GivenBack \cap block_map = {}

FilesInductive ==
    /\ EntriesExclusive /\ MarkedIsHeld /\ BlockIsWriters /\ GivenBackIsFree

FsInductive ==
    /\ DiskTypeOK /\ RamfsTypeOK /\ Ramfs2TypeOK /\ WriterTypeOK
    /\ OpenAreRecords /\ OneMounted
    /\ RowsApart
    /\ ArrayIsWriters /\ RemovedIsThere /\ FilesInductive

-----------------------------------------------------------------------------
(* Numbers and sequences. *)

\* Every set of numbers has a least one, and a bounded one a largest.
LEMMA LeastOf ==
    ASSUME NEW S, S \subseteq Nat, S # {}
    PROVE  \E m \in S : \A k \in S : m <= k
<1> DEFINE R == OpToRel(<, Nat)
<1>1. IsWellFoundedOn(R, Nat)
  BY NatLessThanWellFounded, Zenon
<1>2. \A m, k \in Nat : k < m => <<k, m>> \in R
  BY DEF OpToRel
<1> HIDE DEF R
<1>3. PICK m \in S : \A k \in S : ~(<<k, m>> \in R)
  BY <1>1, WFMin
<1>4. \A k \in S : ~(k < m) /\ k \in Nat /\ m \in Nat
  BY <1>2, <1>3
<1> QED
  BY <1>4

LEMMA LargestOf ==
    ASSUME NEW N \in Nat, NEW S, S \subseteq 1 .. N, S # {}
    PROVE  \E m \in S : \A k \in S : k <= m
<1> DEFINE Below == {N - k : k \in S}
<1>1. Below \subseteq Nat /\ Below # {}
  <2>1. \A k \in S : N - k \in Nat
    OBVIOUS
  <2>2. PICK k \in S : TRUE
    OBVIOUS
  <2>3. N - k \in Below
    OBVIOUS
  <2> QED
    BY <2>1, <2>3
<1>2. PICK d \in Below : \A e \in Below : d <= e
  BY <1>1, LeastOf
<1>3. PICK m \in S : d = N - m
  BY <1>2
<1>4. ASSUME NEW k \in S PROVE k <= m
  <2>1. N - k \in Below /\ k \in 1 .. N /\ m \in 1 .. N
    OBVIOUS
  <2> QED
    BY <1>2, <1>3, <2>1
<1> QED
  BY <1>4

\* What is written to a file is a sequence.
LEMMA ContentsAreSequences ==
    ASSUME NEW content \in Contents
    PROVE  /\ content \in Seq(Data) /\ Len(content) \in 0 .. MaxLen /\ Len(content) \in Nat
           /\ DOMAIN content = 1 .. Len(content)
           /\ \A i \in 1 .. Len(content) : content[i] \in Data
<1>1. PICK k \in 0 .. MaxLen : content \in [1 .. k -> Data]
  BY DEF Contents
<1>2. k \in Nat /\ MaxLen \in Nat
  BY <1>1, DiskAssumption
<1>3. content \in Seq(Data)
  BY <1>1, <1>2, IsASeq
<1>4. Len(content) = k
  BY <1>1, <1>2, <1>3, LenProperties
<1> QED
  BY <1>1, <1>2, <1>3, <1>4

-----------------------------------------------------------------------------
(* The disk. *)

LEMMA BlocksFinite ==
    /\ Block \subseteq Nat /\ IsFiniteSet(Block)
    /\ \A used : IsFiniteSet(Block \ used) /\ Cardinality(Block \ used) \in Nat
<1>1. Block \subseteq Nat
  BY DiskAssumption DEF Block
<1>2. IsFiniteSet(Block)
  <2>1. 0 \in Int /\ BlockCount - 1 \in Int
    BY DiskAssumption
  <2> QED
    BY <2>1, FS_Interval DEF Block
<1> QED
  BY <1>1, <1>2, FS_Subset, FS_CardinalityType

\* What the disk holds after a write: the old contents where no number of a
\* block points, and values of the kind written elsewhere.
LEMMA WrittenFits ==
    ASSUME DiskTypeOK, NEW at, NEW content, NEW k \in Nat, content \in [1 .. k -> Data]
    PROVE  /\ Written(at, content) \in [Block -> Data \cup {BLANK}]
           /\ \A b \in Block : (\A i \in 1 .. k : at[i] # b) => Written(at, content)[b] = disk[b]
<1>1. ASSUME NEW b \in Block
      PROVE  /\ Written(at, content)[b] \in Data \cup {BLANK}
             /\ (\A i \in 1 .. k : at[i] # b) => Written(at, content)[b] = disk[b]
  <2> DEFINE hits == {i \in DOMAIN content : at[i] = b}
             last == CHOOSE i \in hits : \A j \in hits : j <= i
  <2>1. DOMAIN content = 1 .. k
    OBVIOUS
  <2>2. Written(at, content)[b] = IF attached /\ hits # {} THEN content[last] ELSE disk[b]
    BY DEF Written
  <2>3. disk[b] \in Data \cup {BLANK}
    BY DEF DiskTypeOK
  <2>4. hits # {} => content[last] \in Data
    <3>1. SUFFICES ASSUME hits # {} PROVE last \in hits
      BY <2>1
    <3>2. hits \subseteq 1 .. k
      BY <2>1
    <3>3. \E m \in hits : \A j \in hits : j <= m
      BY <3>1, <3>2, LargestOf
    <3> QED
      BY <3>3
  <2>5. (\A i \in 1 .. k : at[i] # b) => hits = {}
    BY <2>1
  <2> QED
    BY <2>2, <2>3, <2>4, <2>5
<1>2. Written(at, content) = [b \in Block |-> Written(at, content)[b]]
  BY DEF Written
<1> QED
  BY <1>1, <1>2

\* Written to different blocks, every value is where it was written to.
LEMMA WrittenReadBack ==
    ASSUME attached, NEW at, NEW content, NEW k \in Nat, content \in [1 .. k -> Data],
           NEW i \in 1 .. k, at[i] \in Block, \A j \in 1 .. k : at[j] = at[i] => j = i
    PROVE  Written(at, content)[at[i]] = content[i]
<1> DEFINE hits == {j \in DOMAIN content : at[j] = at[i]}
<1>1. hits = {i}
  OBVIOUS
<1>2. Written(at, content)[at[i]] =
        IF attached /\ hits # {} THEN content[CHOOSE x \in hits : \A y \in hits : y <= x]
                                 ELSE disk[at[i]]
  BY DEF Written
<1>3. (CHOOSE x \in hits : \A y \in hits : y <= x) = i
  <2>1. i <= i
    OBVIOUS
  <2> QED
    BY <1>1, <2>1
<1> QED
  BY <1>1, <1>2, <1>3

-----------------------------------------------------------------------------
(* The search for a free block. *)

LEMMA AllocBlock ==
    ASSUME NEW used, Block \ used # {}
    PROVE  alloc_block(used) \in Block \ used
<1>1. Block \ used \subseteq Nat
  BY BlocksFinite
<1>2. \E b \in Block \ used : \A free \in Block \ used : b <= free
  BY <1>1, LeastOf
<1> QED
  BY <1>2 DEF alloc_block

\* The recursive function is defined.
LEMMA AllocatedStep ==
    ASSUME NEW k \in Nat
    PROVE  Allocated(k) =
             [i \in 1 .. k |->
                alloc_block(block_map \cup {Allocated(k)[j] : j \in 1 .. i - 1})]
<1> DEFINE Fits(g, m) ==
             g = [i \in 1 .. m |-> alloc_block(block_map \cup {g[j] : j \in 1 .. i - 1})]
<1>1. ASSUME NEW m \in Nat, NEW g, Fits(g, m) PROVE \E h : Fits(h, m + 1)
  <2> DEFINE new == alloc_block(block_map \cup {g[j] : j \in 1 .. m})
             h == [i \in 1 .. m + 1 |-> IF i = m + 1 THEN new ELSE g[i]]
  <2>1. /\ h = [i \in 1 .. m + 1 |-> h[i]]
        /\ h[m + 1] = new
        /\ \A i \in 1 .. m : h[i] = g[i] /\ i \in 1 .. m + 1
    OBVIOUS
  <2> HIDE DEF h
  <2>2. ASSUME NEW i \in 1 .. m + 1
        PROVE  h[i] = alloc_block(block_map \cup {h[j] : j \in 1 .. i - 1})
    <3>1. \A j \in 1 .. i - 1 : j \in 1 .. m
      OBVIOUS
    <3>2. {h[j] : j \in 1 .. i - 1} = {g[j] : j \in 1 .. i - 1}
      <4>1. \A j \in 1 .. i - 1 : h[j] = g[j]
        BY <2>1, <3>1
      <4> QED
        BY <4>1
    <3>3. CASE i = m + 1
      <4>1. i - 1 = m
        BY <3>3
      <4> QED
        BY <2>1, <3>2, <3>3, <4>1
    <3>4. CASE i # m + 1
      <4>1. i \in 1 .. m
        BY <3>4
      <4>2. g[i] = alloc_block(block_map \cup {g[j] : j \in 1 .. i - 1})
        BY <1>1, <4>1
      <4> QED
        BY <2>1, <3>2, <4>1, <4>2
    <3> QED
      BY <3>3, <3>4
  <2>3. Fits(h, m + 1)
    BY <2>1, <2>2
  <2> QED
    BY <2>3
<1>2. \E h : Fits(h, 0)
  <2>1. Fits([i \in 1 .. 0 |-> 0], 0)
    OBVIOUS
  <2> HIDE DEF Fits
  <2> QED
    BY <2>1
<1>3. Allocated(k) = CHOOSE got : Fits(got, k)
  BY DEF Allocated
<1>4. \A g : Fits(g, k) =>
        g = [i \in 1 .. k |-> alloc_block(block_map \cup {g[j] : j \in 1 .. i - 1})]
  OBVIOUS
<1> HIDE DEF Fits
<1>5. \E g : Fits(g, k)
  <2> DEFINE Undefined == {m \in Nat : ~(\E g : Fits(g, m))}
  <2>1. SUFFICES ASSUME Undefined # {} PROVE FALSE
    OBVIOUS
  <2>2. PICK m \in Undefined : \A l \in Undefined : m <= l
    BY <2>1, LeastOf
  <2>3. m \in Nat /\ m # 0 /\ ~(\E g : Fits(g, m))
    BY <1>2
  <2>4. m - 1 \in Nat /\ ~(m <= m - 1) /\ (m - 1) + 1 = m
    BY <2>3
  <2>5. \E g : Fits(g, m - 1)
    BY <2>2, <2>4
  <2> QED
    BY <1>1, <2>3, <2>4, <2>5
<1>6. Fits(Allocated(k), k)
  BY <1>3, <1>5
<1> QED
  BY <1>4, <1>6

\* As many calls as there are free blocks return different free blocks.
LEMMA AllocatedBlocks ==
    ASSUME NEW k \in Nat, k <= Cardinality(Block \ block_map)
    PROVE  /\ Allocated(k) \in [1 .. k -> Block \ block_map]
           /\ \A i, j \in 1 .. k : Allocated(k)[i] = Allocated(k)[j] => i = j
<1> DEFINE at == Allocated(k)
           taken(i) == {at[j] : j \in 1 .. i - 1}
<1>1. DOMAIN at = 1 .. k /\ at = [i \in 1 .. k |-> at[i]]
      /\ \A i \in 1 .. k : at[i] = alloc_block(block_map \cup taken(i))
  BY AllocatedStep
<1> HIDE DEF at
<1>2. ASSUME NEW i \in 1 .. k
      PROVE  at[i] \in Block \ (block_map \cup taken(i))
  <2>1. IsFiniteSet(taken(i)) /\ Cardinality(taken(i)) <= i - 1 /\ Cardinality(taken(i)) \in Nat
    <3>1. 1 \in Int /\ i - 1 \in Int /\ i - 1 \in Nat
      OBVIOUS
    <3>2. IsFiniteSet(1 .. i - 1) /\ Cardinality(1 .. i - 1) = i - 1
      <4>1. Cardinality(1 .. i - 1) = IF 1 > i - 1 THEN 0 ELSE (i - 1) - 1 + 1
        BY <3>1, FS_Interval
      <4>2. (IF 1 > i - 1 THEN 0 ELSE (i - 1) - 1 + 1) = i - 1
        BY <3>1
      <4> QED
        BY <3>1, <4>1, <4>2, FS_Interval
    <3> DEFINE F == [j \in 1 .. i - 1 |-> at[j]]
    <3>3. F \in Surjection(1 .. i - 1, taken(i))
      BY DEF Surjection
    <3>4. IsFiniteSet(taken(i)) /\ Cardinality(taken(i)) <= Cardinality(1 .. i - 1)
      BY <3>2, <3>3, FS_Surjection
    <3> QED
      BY <3>2, <3>4, FS_CardinalityType
  <2>2. Block \ (block_map \cup taken(i)) # {}
    <3>1. SUFFICES ASSUME Block \ block_map \subseteq taken(i) PROVE FALSE
      OBVIOUS
    <3>2. Cardinality(Block \ block_map) <= Cardinality(taken(i))
      BY <2>1, <3>1, FS_Subset
    <3>3. Cardinality(Block \ block_map) \in Nat
      BY BlocksFinite
    <3> QED
      BY <2>1, <3>2, <3>3
  <2>3. alloc_block(block_map \cup taken(i)) \in Block \ (block_map \cup taken(i))
    BY <2>2, AllocBlock
  <2>4. at[i] = alloc_block(block_map \cup taken(i))
    BY <1>1
  <2> QED
    BY <2>3, <2>4
<1>3. ASSUME NEW i \in 1 .. k, NEW j \in 1 .. k, j < i PROVE at[i] # at[j]
  <2>1. j \in 1 .. i - 1
    BY <1>3
  <2> QED
    BY <1>2, <2>1
<1>4. \A i, j \in 1 .. k : at[i] = at[j] => i = j
  <2>1. ASSUME NEW i \in 1 .. k, NEW j \in 1 .. k, i # j PROVE at[i] # at[j]
    <3>1. i < j \/ j < i
      BY <2>1
    <3> QED
      BY <1>3, <3>1
  <2> QED
    BY <2>1
<1>5. at \in [1 .. k -> Block \ block_map]
  BY <1>1, <1>2
<1> QED
  BY <1>4, <1>5 DEF at

-----------------------------------------------------------------------------
(* What the parts say. *)

\* Sequences by their entries.
LEMMA SequenceOf ==
    ASSUME NEW S, NEW k \in Nat, NEW s, s \in [1 .. k -> S]
    PROVE  s \in Seq(S) /\ Len(s) = k /\ DOMAIN s = 1 .. k
<1>1. s \in Seq(S)
  BY IsASeq
<1> QED
  BY <1>1, LenProperties

LEMMA Arrays ==
    ASSUME Ramfs2TypeOK, NEW n \in DOMAIN blocks
    PROVE  /\ n \in Name /\ Len(blocks[n]) \in 0 .. MaxLen /\ Len(blocks[n]) \in Nat
           /\ DOMAIN blocks[n] = 1 .. Len(blocks[n])
           /\ \A i \in DOMAIN blocks[n] : blocks[n][i] \in Block \cup {JUNK}
<1>1. blocks[n] \in Seq(Block \cup {JUNK}) /\ Len(blocks[n]) <= MaxLen /\ n \in Name
  BY DEF Ramfs2TypeOK
<1>2. Len(blocks[n]) \in Nat /\ DOMAIN blocks[n] = 1 .. Len(blocks[n])
  BY <1>1, LenProperties
<1>3. \A i \in 1 .. Len(blocks[n]) : blocks[n][i] \in Block \cup {JUNK}
  BY <1>1, ElementOfSeq
<1> QED
  BY <1>1, <1>2, <1>3, DiskAssumption

LEMMA WriterFacts ==
    ASSUME FsInductive, Writing
    PROVE  /\ writer \in Writer /\ writer.pc \in {"test", "set", "fill"}
           /\ writer.n \in Name /\ writer.content \in Contents
           /\ writer.i \in 1 .. Len(writer.content) + 1 /\ writer.i \in Nat
           /\ Len(writer.content) \in 0 .. MaxLen /\ Len(writer.content) \in Nat
           /\ writer.blk \in Block
           /\ writer.n \in DOMAIN blocks /\ ~(Removing /\ editor.n = writer.n)
           /\ mounted = "ramfs2"
<1>1. writer \in Writer
  BY DEF FsInductive, OpenAreRecords, NoCall, Writing
<1>2. writer.content \in Contents /\ writer.i \in 1 .. Len(writer.content) + 1
  BY DEF FsInductive, WriterTypeOK
<1>3. mounted = "ramfs2"
  BY DEF FsInductive, OneMounted, NoCall, Writing
<1>4. writer.n \in DOMAIN blocks /\ ~(Removing /\ editor.n = writer.n)
  BY DEF FsInductive, ArrayIsWriters
<1> QED
  BY <1>1, <1>2, <1>3, <1>4, ContentsAreSequences DEF Writer

LEMMA EditorFacts ==
    ASSUME FsInductive, editor.pc # "none"
    PROVE  /\ editor \in Editor /\ editor.n \in Name /\ editor.pc \in {"new", "link", "unmark"}
           /\ editor.pc # "new" => editor.beside \subseteq Name
           /\ Removing => /\ editor \in [pc : {"unmark"}, n : Name, i : Nat, beside : SUBSET Name]
                          /\ editor.n \in DOMAIN blocks /\ editor.i \in Nat
                          /\ editor.i \in 1 .. Len(blocks[editor.n]) + 1
<1>1. editor \in Editor
  BY DEF FsInductive, OpenAreRecords, NoCall
<1>2. Removing => editor.n \in DOMAIN blocks /\ editor.i \in 1 .. Len(blocks[editor.n]) + 1
  BY DEF FsInductive, RemovedIsThere
<1> QED
  BY <1>1, <1>2 DEF Editor, Removing

\* Without ramfs2 mounted, it has no files.
LEMMA NoFiles ==
    ASSUME FsInductive, mounted # "ramfs2"
    PROVE  DOMAIN blocks = {} /\ ~Writing /\ ~Removing
BY DEF FsInductive, OneMounted, NoCall, Writing, Removing

LEMMA KeptFacts ==
    ASSUME Ramfs2TypeOK, NEW n \in DOMAIN blocks, NEW i \in Kept(n)
    PROVE  i \in DOMAIN blocks[n] /\ blocks[n][i] # JUNK /\ blocks[n][i] \in Block
BY Arrays DEF Kept

\* The invariant says what the runs check.
LEMMA InductiveImplies ==
    ASSUME FsInductive
    PROVE  FsInvariant /\ NoBlockLost
<1> USE DEF FsInductive, FilesInductive
<1>1. BlocksExclusive
  <2> SUFFICES ASSUME incidents \cap {"junk_freed", "same_block", "same_node"} = {},
                      NEW n \in DOMAIN blocks
               PROVE  /\ Held(n) \subseteq block_map
                      /\ \A m \in DOMAIN blocks \ {n} : Held(n) \cap Held(m) = {}
                      /\ \A i, j \in Kept(n) : i # j => blocks[n][i] # blocks[n][j]
    BY DEF BlocksExclusive
  <2>1. \A i \in Kept(n) :
           /\ blocks[n][i] \in block_map
           /\ \A m \in DOMAIN blocks : \A j \in Kept(m) :
                blocks[m][j] = blocks[n][i] => m = n /\ j = i
    BY DEF EntriesExclusive
  <2>2. \A m \in DOMAIN blocks : \A b \in Held(m) : \E i \in Kept(m) : blocks[m][i] = b
    BY DEF Held
  <2> QED
    BY <2>1, <2>2
<1>2. RowsDisjoint
  <2> SUFFICES ASSUME "grows" \notin incidents, NEW i \in DOMAIN nodes, NEW j \in DOMAIN nodes
               PROVE  /\ nodes[i].start_block + nodes[i].size <= next_free_block
                      /\ i # j => Range(Row(nodes[i])) \cap Range(Row(nodes[j])) = {}
    BY DEF RowsDisjoint
  <2>1. nodes[i] \in Node /\ nodes[j] \in Node
    BY ElementOfSeq, LenProperties DEF RamfsTypeOK
  <2>3. \A f \in Node : f.start_block \in Nat /\ f.size \in Nat
    BY DEF Node
  <2>2. ASSUME NEW f \in Node, NEW b \in Range(Row(f))
        PROVE  b \in Nat /\ f.start_block <= b /\ b < f.start_block + f.size
    <3>1. PICK k \in DOMAIN Row(f) : b = Row(f)[k]
      BY DEF Range
    <3>2. k \in 1 .. f.size /\ b = f.start_block + k - 1
      BY <3>1 DEF Row
    <3> QED
      BY <2>3, <3>2
  <2>4. ASSUME i # j, NEW b \in Range(Row(nodes[i])), b \in Range(Row(nodes[j])) PROVE FALSE
    <3>1. /\ b \in Nat
          /\ nodes[i].start_block <= b /\ b < nodes[i].start_block + nodes[i].size
          /\ nodes[j].start_block <= b /\ b < nodes[j].start_block + nodes[j].size
      BY <2>1, <2>2, <2>4
    <3> QED
      BY <2>1, <2>3, <2>4, <3>1 DEF RowsApart
  <2> QED
    BY <2>4 DEF RowsApart
<1>3. NoBlockLost
  <2> SUFFICES ASSUME incidents \cap {"forgotten", "same_node", "lost_node", "same_name"} = {},
                      NEW b \in block_map
               PROVE  b \in (UNION {Held(n) : n \in DOMAIN blocks})
                            \cup (IF writer.pc = "fill" THEN {writer.blk} ELSE {})
    BY DEF NoBlockLost
  <2>1. CASE writer.pc = "fill" /\ writer.blk = b
    <3>1. b \in (IF writer.pc = "fill" THEN {writer.blk} ELSE {})
      BY <2>1
    <3> QED
      BY <3>1
  <2>2. CASE \E n \in DOMAIN blocks : \E i \in Kept(n) : blocks[n][i] = b
    <3>1. PICK n \in DOMAIN blocks : b \in Held(n)
      BY <2>2 DEF Held
    <3> QED
      BY <3>1
  <2> QED
    BY <2>1, <2>2 DEF MarkedIsHeld
<1>4. EditorTypeOK
  <2> SUFFICES ASSUME editor.pc # "none"
               PROVE  Removing => editor.i \in 1 .. MaxLen + 1
    BY EditorFacts DEF EditorTypeOK
  <2> SUFFICES ASSUME Removing PROVE editor.i \in 1 .. MaxLen + 1
    OBVIOUS
  <2>1. editor.n \in DOMAIN blocks /\ editor.i \in 1 .. Len(blocks[editor.n]) + 1
    BY EditorFacts
  <2>2. Len(blocks[editor.n]) \in Nat /\ Len(blocks[editor.n]) <= MaxLen /\ MaxLen \in Nat
    BY <2>1, Arrays, DiskAssumption DEF Ramfs2TypeOK
  <2> QED
    BY <2>1, <2>2
<1> QED
  BY <1>1, <1>2, <1>3, <1>4 DEF FsInvariant, TypeOK

LEMMA FsStarts == Init => FsInductive
<1> SUFFICES ASSUME Init PROVE FsInductive
  OBVIOUS
<1> USE DEF Init, DiskInit, RamfsEmpty, Ramfs2Empty, NoCall
<1>1. DiskTypeOK
  BY DEF DiskTypeOK
<1>2. RamfsTypeOK
  <2>1. <<>> \in Seq(Node) /\ Len(<<>>) = 0
    BY EmptySeq
  <2> QED
    BY <2>1, RamfsAssumption DEF RamfsTypeOK
<1>3. Ramfs2TypeOK
  <2>1. <<>> \in Seq(Name) /\ DOMAIN <<>> = {}
    BY EmptySeq
  <2>2. Range(<<>>) = {} /\ IsInjective(<<>>)
    BY <2>1 DEF Range, IsInjective
  <2> QED
    BY <2>1, <2>2 DEF Ramfs2TypeOK
<1>4. WriterTypeOK /\ OpenAreRecords /\ OneMounted /\ ArrayIsWriters /\ RemovedIsThere
  BY DEF WriterTypeOK, OpenAreRecords, OneMounted, ArrayIsWriters, RemovedIsThere, Writing, Removing
<1>5. RowsApart
  <2>1. DOMAIN nodes = {}
    BY EmptySeq
  <2> QED
    BY <2>1 DEF RowsApart
<1>6. FilesInductive
  BY DEF FilesInductive, EntriesExclusive, MarkedIsHeld, BlockIsWriters, GivenBackIsFree
<1> QED
  BY <1>1, <1>2, <1>3, <1>4, <1>5, <1>6 DEF FsInductive

-----------------------------------------------------------------------------
(* Steps of one file system leave the other alone. *)

Ops == {"none", "create", "write", "remove", "rename", "format"}

\* What the invariant says of ramfs2 depends on its state and the incidents.
LEMMA Ramfs2Unchanged ==
    ASSUME FsInductive, UNCHANGED <<r2vars, r2open, incidents>>
    PROVE  /\ Ramfs2TypeOK' /\ WriterTypeOK' /\ OpenAreRecords'
           /\ ArrayIsWriters' /\ RemovedIsThere' /\ FilesInductive'
<1> USE DEF FsInductive, r2vars, r2open
<1>1. Ramfs2TypeOK' /\ WriterTypeOK' /\ OpenAreRecords'
  BY DEF Ramfs2TypeOK, WriterTypeOK, OpenAreRecords, Writer, Editor, NoCall, Writing
<1>2. ArrayIsWriters' /\ RemovedIsThere'
  BY DEF ArrayIsWriters, RemovedIsThere, Writing, Removing
<1>3. \A n : Kept(n)' = Kept(n)
  BY DEF Kept, Removing
<1>4. GivenBack' = GivenBack
  BY DEF GivenBack, Removing
<1>5. EntriesExclusive' /\ MarkedIsHeld' /\ BlockIsWriters' /\ GivenBackIsFree'
  BY <1>3, <1>4 DEF FilesInductive, EntriesExclusive, MarkedIsHeld, BlockIsWriters, GivenBackIsFree
<1> QED
  BY <1>1, <1>2, <1>5 DEF FilesInductive

LEMMA RamfsSide ==
    ASSUME FsInductive, mounted = "ramfs", UNCHANGED <<attached, r2vars, r2open, mounted>>,
           disk' \in [Block -> Data \cup {BLANK}], call'.op \in Ops,
           incidents \subseteq incidents', RamfsTypeOK', RowsApart'
    PROVE  FsInductive'
<1> USE DEF FsInductive, r2vars, r2open
<1>1. DOMAIN blocks' = {} /\ ~Writing /\ ~Removing /\ ~Writing' /\ ~Removing'
  BY NoFiles DEF Writing, Removing
<1>2. DiskTypeOK' /\ OneMounted'
  BY DEF DiskTypeOK, OneMounted, Ops, NoCall
<1>3. Ramfs2TypeOK' /\ WriterTypeOK' /\ OpenAreRecords'
  BY <1>1 DEF Ramfs2TypeOK, WriterTypeOK, OpenAreRecords, NoCall, Writer, Editor
<1>4. EntriesExclusive' /\ ArrayIsWriters' /\ BlockIsWriters' /\ RemovedIsThere' /\ GivenBackIsFree'
  BY <1>1 DEF EntriesExclusive, ArrayIsWriters, BlockIsWriters, RemovedIsThere, GivenBackIsFree,
              GivenBack, Writing
<1>5. MarkedIsHeld'
  <2>1. MarkedIsHeld /\ DOMAIN blocks = {} /\ writer.pc # "fill"
    BY NoFiles DEF FilesInductive, Writing
  <2> QED
    BY <2>1 DEF MarkedIsHeld
<1> QED
  BY <1>2, <1>3, <1>4, <1>5 DEF FilesInductive

LEMMA Ramfs2Side ==
    ASSUME FsInductive, mounted = "ramfs2", UNCHANGED <<attached, rvars, mounted>>,
           disk' \in [Block -> Data \cup {BLANK}], call'.op \in Ops,
           incidents \subseteq incidents',
           Ramfs2TypeOK', WriterTypeOK', OpenAreRecords',
           ArrayIsWriters', RemovedIsThere', FilesInductive'
    PROVE  FsInductive'
<1> USE DEF FsInductive, rvars
<1>1. DiskTypeOK' /\ RamfsTypeOK' /\ OneMounted'
  BY DEF DiskTypeOK, RamfsTypeOK, OneMounted, Ops
<1>2. RowsApart'
  BY DEF RowsApart
<1> QED
  BY <1>1, <1>2

\* Steps that change no file at all.
LEMMA NoFileChanges ==
    ASSUME FsInductive, UNCHANGED <<disk, incidents, rvars, r2vars, r2open>>,
           attached' \in BOOLEAN, call'.op \in Ops, OneMounted'
    PROVE  FsInductive'
<1>1. /\ Ramfs2TypeOK' /\ WriterTypeOK' /\ OpenAreRecords'
      /\ ArrayIsWriters' /\ RemovedIsThere' /\ FilesInductive'
  BY Ramfs2Unchanged
<1>2. DiskTypeOK' /\ RamfsTypeOK' /\ RowsApart'
  BY DEF FsInductive, rvars, DiskTypeOK, RamfsTypeOK, RowsApart, Ops
<1> QED
  BY <1>1, <1>2 DEF FsInductive

LEMMA MountAndRefusals ==
    ASSUME FsInductive, StorageInit \/ StorageService \/ UNCHANGED vars
    PROVE  FsInductive'
<1>1. CASE StorageInit
  <2>1. OneMounted'
    BY <1>1 DEF StorageInit, OneMounted, FsInductive, rvars, r2vars, r2open, NoCall
  <2>2. call' = call /\ attached' \in BOOLEAN /\ call.op \in Ops
    BY <1>1 DEF StorageInit, FsInductive, DiskTypeOK, Ops
  <2> QED
    BY <1>1, <2>1, <2>2, NoFileChanges DEF StorageInit
<1>2. CASE StorageService
  <2>1. PICK n \in Name, op \in {"create", "write", "remove"} : ServiceRefuses(op, n)
    BY <1>2 DEF StorageService
  <2>2. OneMounted' /\ attached' \in BOOLEAN
    BY <2>1 DEF ServiceRefuses, OneMounted, FsInductive, rvars, r2vars, r2open, NoCall, DiskTypeOK
  <2>3. call'.op \in Ops
    BY <2>1 DEF ServiceRefuses, Returns, Ops
  <2> QED
    BY <2>1, <2>2, <2>3, NoFileChanges DEF ServiceRefuses
<1>3. CASE UNCHANGED vars
  <2>1. OneMounted' /\ attached' \in BOOLEAN /\ call'.op \in Ops
    BY <1>3 DEF vars, OneMounted, FsInductive, rvars, r2vars, r2open, NoCall, DiskTypeOK, Ops
  <2> QED
    BY <1>3, <2>1, NoFileChanges DEF vars
<1> QED
  BY <1>1, <1>2, <1>3


-----------------------------------------------------------------------------
(* ramfs. *)

\* The first node with the name.
LEMMA FindFile ==
    ASSUME RamfsTypeOK, NEW n
    PROVE  /\ find_file(n) \in 0 .. Len(nodes)
           /\ find_file(n) = 0 <=> \A i \in 1 .. Len(nodes) : nodes[i].name # n
           /\ find_file(n) # 0 =>
                /\ find_file(n) \in 1 .. Len(nodes)
                /\ nodes[find_file(n)].name = n
                /\ \A i \in 1 .. Len(nodes) : nodes[i].name = n => find_file(n) <= i
<1> DEFINE I == {i \in 1 .. Len(nodes) : nodes[i].name = n}
<1>1. find_file(n) = IF I # {} THEN Min(I) ELSE 0
  BY DEF find_file, SelectInSeq
<1>2. Len(nodes) \in Nat
  BY LenProperties DEF RamfsTypeOK
<1>3. I \subseteq Nat
  BY <1>2
<1>4. I # {} => Min(I) \in I /\ \A i \in I : Min(I) <= i
  <2>1. I # {} => \E m \in I : \A k \in I : m <= k
    BY <1>3, LeastOf
  <2> QED
    BY <2>1 DEF Min
<1> QED
  BY <1>1, <1>2, <1>4

LEMMA Nodes ==
    ASSUME RamfsTypeOK
    PROVE  /\ Len(nodes) \in Nat /\ DOMAIN nodes = 1 .. Len(nodes)
           /\ \A i \in 1 .. Len(nodes) :
                /\ nodes[i] \in Node /\ nodes[i].name \in Name
                /\ nodes[i].size \in 0 .. MaxLen /\ nodes[i].size \in Nat
                /\ nodes[i].start_block \in 0 .. MaxFree /\ nodes[i].start_block \in Nat
           /\ next_free_block \in 0 .. MaxFree /\ next_free_block \in Nat
           /\ MaxFree \in Nat /\ MaxLen \in Nat
<1>1. nodes \in Seq(Node) /\ next_free_block \in 0 .. MaxFree
  BY DEF RamfsTypeOK
<1>2. Len(nodes) \in Nat /\ DOMAIN nodes = 1 .. Len(nodes)
  BY <1>1, LenProperties
<1>3. \A i \in 1 .. Len(nodes) : nodes[i] \in Node
  BY <1>1, ElementOfSeq
<1> QED
  BY <1>1, <1>2, <1>3, RamfsAssumption, DiskAssumption DEF Node

\* A new file comes first and has no block yet.
LEMMA CreatedNode ==
    ASSUME RamfsTypeOK, NEW n \in Name, Len(nodes) < MaxNodes,
           nodes' = << [name |-> n, size |-> 0, start_block |-> next_free_block] >> \o nodes,
           next_free_block' = next_free_block
    PROVE  /\ RamfsTypeOK' /\ Len(nodes') = Len(nodes) + 1
           /\ nodes'[1] = [name |-> n, size |-> 0, start_block |-> next_free_block]
           /\ \A i \in 2 .. Len(nodes) + 1 : nodes'[i] = nodes[i - 1]
<1> DEFINE node == [name |-> n, size |-> 0, start_block |-> next_free_block]
<1>1. node \in Node
  BY Nodes DEF Node
<1>2. <<node>> \in Seq(Node) /\ Len(<<node>>) = 1 /\ <<node>>[1] = node
  BY <1>1
<1> HIDE DEF node
<1>3. nodes \in Seq(Node) /\ Len(nodes) \in Nat
  BY Nodes DEF RamfsTypeOK
<1>4. /\ <<node>> \o nodes \in Seq(Node) /\ Len(<<node>> \o nodes) = 1 + Len(nodes)
      /\ \A i \in 1 .. 1 + Len(nodes) :
           (<<node>> \o nodes)[i] = IF i <= 1 THEN <<node>>[i] ELSE nodes[i - 1]
  BY <1>2, <1>3, ConcatProperties
<1>5. nodes' = <<node>> \o nodes
  BY DEF node
<1>6. nodes' \in Seq(Node) /\ Len(nodes') = Len(nodes) + 1 /\ nodes'[1] = node
  BY <1>2, <1>3, <1>4, <1>5
<1>7. \A i \in 2 .. Len(nodes) + 1 : nodes'[i] = nodes[i - 1]
  BY <1>3, <1>4, <1>5
<1>8. RamfsTypeOK'
  BY <1>3, <1>6, RamfsAssumption DEF RamfsTypeOK
<1> QED
  BY <1>6, <1>7, <1>8 DEF node

\* What is left of a sequence without its entry p.
LEMMA RemoveAtEntries ==
    ASSUME NEW S, NEW s \in Seq(S), NEW p \in 1 .. Len(s)
    PROVE  /\ RemoveAt(s, p) \in Seq(S)
           /\ Len(RemoveAt(s, p)) = Len(s) - 1
           /\ \A k \in 1 .. Len(s) - 1 :
                RemoveAt(s, p)[k] = IF k < p THEN s[k] ELSE s[k + 1]
<1> DEFINE a == SubSeq(s, 1, p - 1)
           b == SubSeq(s, p + 1, Len(s))
<1>1. Len(s) \in Nat /\ p \in Nat /\ 1 <= p /\ p <= Len(s)
  BY LenProperties
<1>2. \A k \in 1 .. Len(s) : s[k] \in S
  BY ElementOfSeq
<1>3. a \in Seq(S) /\ Len(a) = p - 1 /\ \A k \in 1 .. p - 1 : a[k] = s[k]
  <2>1. 1 \in Int /\ p - 1 \in Int /\ \A k \in 1 .. p - 1 : s[k] \in S
    BY <1>1, <1>2
  <2>2. /\ a \in Seq(S)
        /\ Len(a) = IF 1 <= p - 1 THEN (p - 1) - 1 + 1 ELSE 0
        /\ \A k \in 1 .. (p - 1) - 1 + 1 : a[k] = s[1 + k - 1]
    BY <2>1, SubSeqProperties
  <2> QED
    BY <1>1, <2>2
<1>4. b \in Seq(S) /\ Len(b) = Len(s) - p /\ \A k \in 1 .. Len(s) - p : b[k] = s[p + k]
  <2>1. p + 1 \in Int /\ Len(s) \in Int /\ \A k \in p + 1 .. Len(s) : s[k] \in S
    BY <1>1, <1>2
  <2>2. /\ b \in Seq(S)
        /\ Len(b) = IF p + 1 <= Len(s) THEN Len(s) - (p + 1) + 1 ELSE 0
        /\ \A k \in 1 .. Len(s) - (p + 1) + 1 : b[k] = s[(p + 1) + k - 1]
    BY <2>1, SubSeqProperties
  <2> HIDE DEF b
  <2>3. Len(b) = Len(s) - p
    <3>1. CASE p + 1 <= Len(s)
      <4>1. Len(b) = Len(s) - (p + 1) + 1
        BY <2>2, <3>1
      <4>2. Len(s) - (p + 1) + 1 = Len(s) - p
        BY <1>1
      <4> QED
        BY <4>1, <4>2
    <3>2. CASE ~(p + 1 <= Len(s))
      <4>1. Len(b) = 0
        BY <2>2, <3>2
      <4>2. Len(s) - p = 0
        BY <1>1, <3>2
      <4> QED
        BY <4>1, <4>2
    <3> QED
      BY <3>1, <3>2
  <2>4. ASSUME NEW k \in 1 .. Len(s) - p PROVE b[k] = s[p + k]
    <3>1. k \in 1 .. Len(s) - (p + 1) + 1 /\ (p + 1) + k - 1 = p + k
      BY <1>1
    <3> QED
      BY <2>2, <3>1
  <2> QED
    BY <2>2, <2>3, <2>4
<1> HIDE DEF a, b
<1>5. /\ a \o b \in Seq(S) /\ Len(a \o b) = Len(a) + Len(b)
      /\ \A k \in 1 .. Len(a) + Len(b) :
            (a \o b)[k] = IF k <= Len(a) THEN a[k] ELSE b[k - Len(a)]
  BY <1>3, <1>4, ConcatProperties
<1>6. RemoveAt(s, p) = a \o b
  BY DEF RemoveAt, a, b
<1>7. ASSUME NEW k \in 1 .. Len(s) - 1
      PROVE  (a \o b)[k] = IF k < p THEN s[k] ELSE s[k + 1]
  <2>0. k \in 1 .. Len(a) + Len(b)
    BY <1>1, <1>3, <1>4
  <2>1. CASE k < p
    <3>1. k \in 1 .. p - 1 /\ k <= Len(a)
      BY <1>1, <1>3, <2>1
    <3> QED
      BY <1>3, <1>5, <2>0, <2>1, <3>1
  <2>2. CASE k >= p
    <3>1. ~(k <= Len(a)) /\ ~(k < p) /\ k - Len(a) \in 1 .. Len(s) - p /\ p + (k - Len(a)) = k + 1
      BY <1>1, <1>3, <2>2
    <3> QED
      BY <1>4, <1>5, <2>0, <3>1
  <2>3. k < p \/ k >= p
    BY <1>1
  <2> QED
    BY <2>1, <2>2, <2>3
<1>8. Len(a) + Len(b) = Len(s) - 1
  BY <1>1, <1>3, <1>4
<1> QED
  BY <1>5, <1>6, <1>7, <1>8

\* A file is shortened, extended or renamed where it stands.
LEMMA ChangedNode ==
    ASSUME RamfsTypeOK, NEW f \in 1 .. Len(nodes), NEW new \in Node,
           nodes' = [nodes EXCEPT ![f] = new], next_free_block' \in 0 .. MaxFree
    PROVE  /\ RamfsTypeOK' /\ Len(nodes') = Len(nodes) /\ nodes'[f] = new
           /\ \A i \in 1 .. Len(nodes) : i # f => nodes'[i] = nodes[i]
<1>1. nodes \in Seq(Node) /\ Len(nodes) <= MaxNodes /\ DOMAIN nodes = 1 .. Len(nodes)
  BY Nodes DEF RamfsTypeOK
<1>2. nodes' \in Seq(Node) /\ Len(nodes') = Len(nodes)
  BY <1>1, ExceptSeq
<1>3. nodes'[f] = new /\ \A i \in 1 .. Len(nodes) : i # f => nodes'[i] = nodes[i]
  BY <1>1
<1> QED
  BY <1>1, <1>2, <1>3 DEF RamfsTypeOK

LEMMA FormatKeeps ==
    ASSUME FsInductive, ramfs_format
    PROVE  RamfsTypeOK' /\ RowsApart'
<1>1. nodes' = <<>> /\ next_free_block' = 0
  BY DEF ramfs_format
<1>2. <<>> \in Seq(Node) /\ Len(<<>>) = 0 /\ DOMAIN <<>> = {}
  BY EmptySeq
<1> QED
  BY <1>1, <1>2, RamfsAssumption DEF RamfsTypeOK, RowsApart

LEMMA CreateKeeps ==
    ASSUME FsInductive, NEW n \in Name, Len(nodes) < MaxNodes,
           nodes' = << [name |-> n, size |-> 0, start_block |-> next_free_block] >> \o nodes,
           next_free_block' = next_free_block, incidents' = incidents
    PROVE  RamfsTypeOK' /\ RowsApart'
<1> USE DEF FsInductive
<1>1. /\ RamfsTypeOK' /\ Len(nodes') = Len(nodes) + 1
      /\ nodes'[1] = [name |-> n, size |-> 0, start_block |-> next_free_block]
      /\ \A i \in 2 .. Len(nodes) + 1 : nodes'[i] = nodes[i - 1]
  BY CreatedNode
<1>2. DOMAIN nodes' = 1 .. Len(nodes) + 1
  BY <1>1, LenProperties DEF RamfsTypeOK
<1>3. RowsApart'
  <2> SUFFICES ASSUME "grows" \notin incidents,
                      NEW i \in 1 .. Len(nodes) + 1, NEW j \in 1 .. Len(nodes) + 1
               PROVE  /\ nodes'[i].start_block + nodes'[i].size <= next_free_block
                      /\ i # j => \/ nodes'[i].start_block + nodes'[i].size <= nodes'[j].start_block
                                  \/ nodes'[j].start_block + nodes'[j].size <= nodes'[i].start_block
    BY <1>2 DEF RowsApart
  <2>1. /\ \A k \in 1 .. Len(nodes) : \A l \in 1 .. Len(nodes) :
             /\ nodes[k].start_block + nodes[k].size <= next_free_block
             /\ k # l => \/ nodes[k].start_block + nodes[k].size <= nodes[l].start_block
                         \/ nodes[l].start_block + nodes[l].size <= nodes[k].start_block
    BY Nodes DEF RowsApart
  <2>2. nodes'[1].start_block = next_free_block /\ nodes'[1].size = 0
    BY <1>1
  <2>3. \A k \in 1 .. Len(nodes) + 1 : k # 1 => k - 1 \in 1 .. Len(nodes) /\ nodes'[k] = nodes[k - 1]
    BY <1>1, Nodes
  <2>4. CASE i = 1 /\ j = 1
    BY <2>2, <2>4, Nodes
  <2>5. CASE i = 1 /\ j # 1
    <3>1. j - 1 \in 1 .. Len(nodes) /\ nodes'[j] = nodes[j - 1]
      BY <2>3, <2>5
    <3>2. nodes[j - 1].start_block \in Nat /\ nodes[j - 1].size \in Nat /\ next_free_block \in Nat
      BY <3>1, Nodes
    <3>3. nodes[j - 1].start_block + nodes[j - 1].size <= next_free_block
      BY <2>1, <3>1
    <3> QED
      BY <2>2, <2>5, <3>1, <3>2, <3>3
  <2>6. CASE i # 1 /\ j = 1
    <3>1. i - 1 \in 1 .. Len(nodes) /\ nodes'[i] = nodes[i - 1]
      BY <2>3, <2>6
    <3>2. nodes[i - 1].start_block \in Nat /\ nodes[i - 1].size \in Nat /\ next_free_block \in Nat
      BY <3>1, Nodes
    <3>3. nodes[i - 1].start_block + nodes[i - 1].size <= next_free_block
      BY <2>1, <3>1
    <3> QED
      BY <2>2, <2>6, <3>1, <3>2, <3>3
  <2>7. CASE i # 1 /\ j # 1
    <3>1. (i # j => i - 1 # j - 1) /\ nodes'[i] = nodes[i - 1] /\ nodes'[j] = nodes[j - 1]
          /\ i - 1 \in 1 .. Len(nodes) /\ j - 1 \in 1 .. Len(nodes)
      BY <2>3, <2>7, Nodes
    <3> QED
      BY <2>1, <3>1
  <2> QED
    BY <2>4, <2>5, <2>6, <2>7
<1> QED
  BY <1>1, <1>3

\* A row that is written to within its size, or begins at the first free block,
\* does not reach another row.
LEMMA RowGrows ==
    ASSUME NEW a \in Nat, NEW s \in Nat, NEW b \in Nat, NEW t \in Nat,
           NEW free \in Nat, NEW k \in Nat,
           a + s <= free, b + t <= free, a + s <= b \/ b + t <= a, k <= t \/ b = free
    PROVE  /\ a + s <= b \/ b + k <= a
           /\ a + s <= free + k /\ b + k <= free + k
  OBVIOUS

\* A row that grows begins where the next file would, or "grows" is on record.
LEMMA RewriteKeeps ==
    ASSUME FsInductive, NEW f \in 1 .. Len(nodes), NEW k \in 0 .. MaxLen,
           next_free_block + k <= MaxFree,
           nodes' = [nodes EXCEPT ![f].size = k], next_free_block' = next_free_block + k,
           incidents' = incidents \cup WriteIncidents(nodes[f], k)
    PROVE  RamfsTypeOK' /\ RowsApart'
<1> USE DEF FsInductive
<1> DEFINE new == [nodes[f] EXCEPT !.size = k]
<1>1. new \in Node /\ new.start_block = nodes[f].start_block /\ new.size = k
  BY Nodes DEF Node
<1>2. nodes' = [nodes EXCEPT ![f] = new]
  OBVIOUS
<1>3. k \in Nat /\ next_free_block' \in 0 .. MaxFree
  BY Nodes
<1> HIDE DEF new
<1>4. /\ RamfsTypeOK' /\ Len(nodes') = Len(nodes) /\ nodes'[f] = new
      /\ \A i \in 1 .. Len(nodes) : i # f => nodes'[i] = nodes[i]
  BY <1>1, <1>2, <1>3, ChangedNode
<1>5. RowsApart'
  <2> SUFFICES ASSUME "grows" \notin incidents',
                      NEW i \in 1 .. Len(nodes), NEW j \in 1 .. Len(nodes)
               PROVE  /\ nodes'[i].start_block + nodes'[i].size <= next_free_block'
                      /\ i # j => \/ nodes'[i].start_block + nodes'[i].size <= nodes'[j].start_block
                                  \/ nodes'[j].start_block + nodes'[j].size <= nodes'[i].start_block
    <3>1. DOMAIN nodes' = 1 .. Len(nodes)
      BY <1>4, LenProperties DEF RamfsTypeOK
    <3> QED
      BY <3>1 DEF RowsApart
  <2>1. k <= nodes[f].size \/ nodes[f].start_block = next_free_block
    BY <1>3, Nodes DEF WriteIncidents
  <2>2. /\ \A a \in 1 .. Len(nodes) : \A b \in 1 .. Len(nodes) :
             /\ nodes[a].start_block + nodes[a].size <= next_free_block
             /\ a # b => \/ nodes[a].start_block + nodes[a].size <= nodes[b].start_block
                         \/ nodes[b].start_block + nodes[b].size <= nodes[a].start_block
    BY Nodes DEF RowsApart
  <2>3. nodes'[f].start_block = nodes[f].start_block /\ nodes'[f].size = k
    BY <1>1, <1>4
  <2>4. /\ \A a \in 1 .. Len(nodes) : nodes[a].start_block \in Nat /\ nodes[a].size \in Nat
        /\ next_free_block \in Nat /\ next_free_block' = next_free_block + k
    BY Nodes
  <2> HIDE DEF FsInductive
  <2>5. nodes'[f].start_block + nodes'[f].size <= next_free_block'
    <3>1. nodes[f].start_block + k <= next_free_block + k
      <4> DEFINE b == nodes[f].start_block
                 t == nodes[f].size
      <4>1. b \in Nat /\ t \in Nat /\ b + t <= next_free_block
        BY <2>2, <2>4
      <4> HIDE DEF b, t
      <4>2. b <= next_free_block
        BY <2>4, <4>1
      <4> QED
        BY <1>3, <2>4, <4>1, <4>2 DEF b
    <3> QED
      BY <2>3, <2>4, <3>1
  <2>6. ASSUME NEW a \in 1 .. Len(nodes), a # f
        PROVE  /\ \/ nodes[a].start_block + nodes[a].size <= nodes[f].start_block
                  \/ nodes[f].start_block + k <= nodes[a].start_block
               /\ nodes[a].start_block + nodes[a].size <= next_free_block + k
    <3>1. /\ nodes[a].start_block + nodes[a].size <= next_free_block
          /\ nodes[f].start_block + nodes[f].size <= next_free_block
          /\ \/ nodes[a].start_block + nodes[a].size <= nodes[f].start_block
             \/ nodes[f].start_block + nodes[f].size <= nodes[a].start_block
      BY <2>2, <2>6
    <3> DEFINE sa == nodes[a].start_block
               za == nodes[a].size
               sf == nodes[f].start_block
               zf == nodes[f].size
    <3>2. /\ sa \in Nat /\ za \in Nat /\ sf \in Nat /\ zf \in Nat
          /\ next_free_block \in Nat /\ k \in Nat
          /\ sa + za <= next_free_block /\ sf + zf <= next_free_block
          /\ sa + za <= sf \/ sf + zf <= sa
          /\ k <= zf \/ sf = next_free_block
      BY <1>3, <2>1, <2>4, <3>1
    <3> HIDE DEF sa, za, sf, zf
    <3>3. (sa + za <= sf \/ sf + k <= sa) /\ sa + za <= next_free_block + k
      BY <3>2, RowGrows
    <3> QED
      BY <3>3 DEF sa, za, sf
  <2>7. CASE i = f /\ j = f
    BY <2>5, <2>7
  <2>8. CASE i = f /\ j # f
    <3>1. nodes'[j] = nodes[j]
      BY <1>4, <2>8
    <3> QED
      BY <2>3, <2>5, <2>6, <2>8, <3>1
  <2>9. CASE i # f /\ j = f
    <3>1. nodes'[i] = nodes[i]
      BY <1>4, <2>9
    <3> QED
      BY <2>3, <2>4, <2>6, <2>9, <3>1
  <2>10. CASE i # f /\ j # f
    <3>1. nodes'[i] = nodes[i] /\ nodes'[j] = nodes[j]
      BY <1>4, <2>10
    <3> QED
      BY <2>2, <2>4, <2>6, <2>10, <3>1
  <2> QED
    BY <2>7, <2>8, <2>9, <2>10
<1> QED
  BY <1>4, <1>5

LEMMA RemoveKeeps ==
    ASSUME FsInductive, NEW f \in 1 .. Len(nodes), nodes' = RemoveAt(nodes, f),
           next_free_block' = next_free_block, incidents' = incidents
    PROVE  RamfsTypeOK' /\ RowsApart'
<1> USE DEF FsInductive
<1>1. /\ nodes' \in Seq(Node) /\ Len(nodes') = Len(nodes) - 1
      /\ \A i \in 1 .. Len(nodes) - 1 : nodes'[i] = IF i < f THEN nodes[i] ELSE nodes[i + 1]
  BY RemoveAtEntries DEF RamfsTypeOK
<1>2. RamfsTypeOK'
  BY <1>1, Nodes, RamfsAssumption DEF RamfsTypeOK
<1>3. DOMAIN nodes' = 1 .. Len(nodes) - 1
  BY <1>1, LenProperties
<1>4. RowsApart'
  <2> SUFFICES ASSUME "grows" \notin incidents,
                      NEW i \in 1 .. Len(nodes) - 1, NEW j \in 1 .. Len(nodes) - 1
               PROVE  /\ nodes'[i].start_block + nodes'[i].size <= next_free_block
                      /\ i # j => \/ nodes'[i].start_block + nodes'[i].size <= nodes'[j].start_block
                                  \/ nodes'[j].start_block + nodes'[j].size <= nodes'[i].start_block
    BY <1>3 DEF RowsApart
  <2> DEFINE old(x) == IF x < f THEN x ELSE x + 1
  <2>1. \A x \in 1 .. Len(nodes) - 1 : old(x) \in 1 .. Len(nodes) /\ nodes'[x] = nodes[old(x)]
    BY <1>1, Nodes
  <2>2. i # j => old(i) # old(j)
    BY Nodes
  <2> HIDE DEF old
  <2> QED
    BY <2>1, <2>2, Nodes DEF RowsApart
<1> QED
  BY <1>2, <1>4

LEMMA RenameKeeps ==
    ASSUME FsInductive, NEW f \in 1 .. Len(nodes), NEW new \in Name,
           nodes' = [nodes EXCEPT ![f].name = new], next_free_block' = next_free_block,
           incidents \subseteq incidents'
    PROVE  RamfsTypeOK' /\ RowsApart'
<1> USE DEF FsInductive
<1> DEFINE node == [nodes[f] EXCEPT !.name = new]
<1>1. node \in Node /\ node.start_block = nodes[f].start_block /\ node.size = nodes[f].size
  BY Nodes DEF Node
<1>2. nodes' = [nodes EXCEPT ![f] = node]
  OBVIOUS
<1> HIDE DEF node
<1>3. /\ RamfsTypeOK' /\ Len(nodes') = Len(nodes) /\ nodes'[f] = node
      /\ \A i \in 1 .. Len(nodes) : i # f => nodes'[i] = nodes[i]
  BY <1>1, <1>2, ChangedNode, Nodes
<1>4. DOMAIN nodes' = 1 .. Len(nodes) /\ DOMAIN nodes = 1 .. Len(nodes)
  BY <1>3, Nodes, LenProperties DEF RamfsTypeOK
<1>5. \A i \in 1 .. Len(nodes) :
        nodes'[i].start_block = nodes[i].start_block /\ nodes'[i].size = nodes[i].size
  BY <1>1, <1>3
<1>6. RowsApart'
  BY <1>4, <1>5 DEF RowsApart
<1> QED
  BY <1>3, <1>6

LEMMA RamfsKeeps ==
    ASSUME FsInductive, mounted = "ramfs", RamfsCall,
           UNCHANGED <<attached, r2vars, r2open, mounted>>
    PROVE  FsInductive'
<1> USE DEF FsInductive
<1>1. disk \in [Block -> Data \cup {BLANK}]
  BY DEF DiskTypeOK
<1>2. ASSUME NEW n, NEW op \in Ops, NEW arg, RamfsRefuses(op, n, arg) PROVE FsInductive'
  <2>1. OneMounted' /\ attached' \in BOOLEAN /\ call'.op \in Ops
    BY <1>2 DEF RamfsRefuses, Returns, OneMounted, rvars, r2vars, r2open, NoCall, DiskTypeOK
  <2> QED
    BY <1>2, <2>1, NoFileChanges DEF RamfsRefuses
<1>3. CASE ramfs_format
  <2>1. call'.op \in Ops /\ incidents \subseteq incidents' /\ disk' = disk
    BY <1>3 DEF ramfs_format, Returns, Ops
  <2> QED
    BY <1>1, <1>3, <2>1, FormatKeeps, RamfsSide
<1>4. ASSUME NEW n \in Name, ramfs_create(n) PROVE FsInductive'
  <2>1. CASE RamfsRefuses("create", n, <<>>)
    BY <1>2, <2>1 DEF Ops
  <2>2. CASE ~RamfsRefuses("create", n, <<>>)
    <3>1. /\ Len(nodes) < MaxNodes
          /\ nodes' = << [name |-> n, size |-> 0, start_block |-> next_free_block] >> \o nodes
          /\ next_free_block' = next_free_block /\ incidents' = incidents /\ disk' = disk
          /\ call'.op \in Ops
      BY <1>4, <2>2 DEF ramfs_create, Returns, Ops
    <3>2. RamfsTypeOK' /\ RowsApart'
      BY <3>1, CreateKeeps
    <3> QED
      BY <1>1, <3>1, <3>2, RamfsSide
  <2> QED
    BY <2>1, <2>2
<1>5. ASSUME NEW n \in Name, NEW content \in Contents, ramfs_write(n, content) PROVE FsInductive'
  <2> DEFINE f == find_file(n)
             k == Len(content)
             at == [i \in 1 .. k |-> nodes[f].start_block + i - 1]
  <2>1. CASE RamfsRefuses("write", n, content)
    BY <1>2, <2>1 DEF Ops
  <2>2. CASE ~RamfsRefuses("write", n, content)
    <3>1. /\ f # 0 /\ next_free_block + k <= MaxFree
          /\ nodes' = [nodes EXCEPT ![f].size = k]
          /\ next_free_block' = next_free_block + k
          /\ disk' = Written(at, content)
          /\ incidents' = incidents \cup WriteIncidents(nodes[f], k)
          /\ call'.op \in Ops
      BY <1>5, <2>2 DEF ramfs_write, Returns, Incident, Ops
    <3>2. f \in 1 .. Len(nodes)
      BY <3>1, FindFile
    <3>3. k \in 0 .. MaxLen /\ k \in Nat /\ content \in [1 .. k -> Data]
      BY ContentsAreSequences
    <3> HIDE DEF f, k, at
    <3>4. disk' \in [Block -> Data \cup {BLANK}]
      BY <3>1, <3>3, WrittenFits
    <3>5. RamfsTypeOK' /\ RowsApart'
      BY <3>1, <3>2, <3>3, RewriteKeeps
    <3> QED
      BY <3>1, <3>4, <3>5, RamfsSide
  <2> QED
    BY <2>1, <2>2
<1>6. ASSUME NEW n \in Name, ramfs_remove(n) PROVE FsInductive'
  <2>1. CASE RamfsRefuses("remove", n, <<>>)
    BY <1>2, <2>1 DEF Ops
  <2>2. CASE ~RamfsRefuses("remove", n, <<>>)
    <3>1. /\ find_file(n) # 0 /\ nodes' = RemoveAt(nodes, find_file(n))
          /\ next_free_block' = next_free_block /\ incidents' = incidents /\ disk' = disk
          /\ call'.op \in Ops
      BY <1>6, <2>2 DEF ramfs_remove, Returns, Ops
    <3>2. RamfsTypeOK' /\ RowsApart'
      BY <3>1, FindFile, RemoveKeeps
    <3> QED
      BY <1>1, <3>1, <3>2, RamfsSide
  <2> QED
    BY <2>1, <2>2
<1>7. ASSUME NEW n \in Name, NEW new \in Name, ramfs_rename(n, new) PROVE FsInductive'
  <2>1. CASE RamfsRefuses("rename", n, new)
    BY <1>2, <2>1 DEF Ops
  <2>2. CASE ~RamfsRefuses("rename", n, new)
    <3>1. /\ find_file(n) # 0 /\ nodes' = [nodes EXCEPT ![find_file(n)].name = new]
          /\ next_free_block' = next_free_block /\ incidents \subseteq incidents' /\ disk' = disk
          /\ call'.op \in Ops
      BY <1>7, <2>2 DEF ramfs_rename, Returns, Incident, Ops
    <3>2. RamfsTypeOK' /\ RowsApart'
      BY <3>1, FindFile, RenameKeeps
    <3> QED
      BY <1>1, <3>1, <3>2, RamfsSide
  <2> QED
    BY <2>1, <2>2
<1> QED
  BY <1>3, <1>4, <1>5, <1>6, <1>7 DEF RamfsCall

-----------------------------------------------------------------------------
(* The list of files. *)

LEMMA RemovedFirst ==
    ASSUME NEW S, NEW s \in Seq(S), NEW e
    PROVE  /\ RemoveFirst(s, e) \in Seq(S)
           /\ IsInjective(s) => /\ IsInjective(RemoveFirst(s, e))
                                /\ Range(RemoveFirst(s, e)) = Range(s) \ {e}
<1>1. Len(s) \in Nat /\ DOMAIN s = 1 .. Len(s)
  BY LenProperties
<1>2. CASE \A i \in 1 .. Len(s) : s[i] # e
  <2>1. RemoveFirst(s, e) = s
    BY <1>2 DEF RemoveFirst
  <2>2. e \notin Range(s)
    BY <1>1, <1>2 DEF Range
  <2> QED
    BY <2>1, <2>2
<1>3. CASE ~(\A i \in 1 .. Len(s) : s[i] # e)
  <2> DEFINE I == {i \in 1 .. Len(s) : s[i] = e}
             p == Min(I)
             w == RemoveAt(s, p)
             before(k) == IF k < p THEN k ELSE k + 1
  <2>1. I \subseteq Nat /\ I # {}
    BY <1>1, <1>3
  <2>2. RemoveFirst(s, e) = w
    BY <1>3, <2>1 DEF RemoveFirst, SelectInSeq
  <2>3. p \in I
    <3>1. \E m \in I : \A k \in I : m <= k
      BY <2>1, LeastOf
    <3> QED
      BY <3>1 DEF Min
  <2>4. p \in 1 .. Len(s) /\ s[p] = e
    BY <2>3
  <2> HIDE DEF p, I
  <2>5. /\ w \in Seq(S) /\ Len(w) = Len(s) - 1
        /\ \A k \in 1 .. Len(s) - 1 : w[k] = IF k < p THEN s[k] ELSE s[k + 1]
    BY <2>4, RemoveAtEntries
  <2> HIDE DEF w
  <2>6. DOMAIN w = 1 .. Len(s) - 1
    BY <2>5, LenProperties
  <2>7. \A k \in 1 .. Len(s) - 1 : before(k) \in 1 .. Len(s) /\ before(k) # p /\ w[k] = s[before(k)]
    BY <1>1, <2>4, <2>5
  <2>8. \A k \in 1 .. Len(s) : k # p => \E j \in 1 .. Len(s) - 1 : before(j) = k
    <3> SUFFICES ASSUME NEW k \in 1 .. Len(s), k # p
                 PROVE  \E j \in 1 .. Len(s) - 1 : before(j) = k
      OBVIOUS
    <3>1. CASE k < p
      <4>1. k \in 1 .. Len(s) - 1 /\ before(k) = k
        BY <1>1, <2>4, <3>1
      <4> QED
        BY <4>1
    <3>2. CASE k > p
      <4>1. k - 1 \in 1 .. Len(s) - 1 /\ before(k - 1) = k
        BY <1>1, <2>4, <3>2
      <4> QED
        BY <4>1
    <3> QED
      BY <1>1, <2>4, <3>1, <3>2
  <2>9. \A j, k \in 1 .. Len(s) - 1 : before(j) = before(k) => j = k
    BY <1>1, <2>4
  <2> HIDE DEF before
  <2>10. ASSUME IsInjective(s) PROVE IsInjective(w) /\ Range(w) = Range(s) \ {e}
    <3>1. \A i, j \in 1 .. Len(s) : s[i] = s[j] => i = j
      BY <1>1, <2>10 DEF IsInjective
    <3>2. IsInjective(w)
      <4> SUFFICES ASSUME NEW j \in 1 .. Len(s) - 1, NEW k \in 1 .. Len(s) - 1, w[j] = w[k]
                   PROVE  j = k
        BY <2>6 DEF IsInjective
      <4>1. before(j) = before(k)
        BY <2>7, <3>1
      <4> QED
        BY <2>9, <4>1
    <3>3. ASSUME NEW x \in Range(w) PROVE x \in Range(s) /\ x # e
      <4>1. PICK k \in 1 .. Len(s) - 1 : w[k] = x
        BY <2>6 DEF Range
      <4>2. before(k) \in 1 .. Len(s) /\ s[before(k)] = x /\ before(k) # p
        BY <2>7, <4>1
      <4> QED
        BY <1>1, <2>4, <3>1, <4>2 DEF Range
    <3>4. ASSUME NEW x \in Range(s), x # e PROVE x \in Range(w)
      <4>1. PICK k \in 1 .. Len(s) : s[k] = x
        BY <1>1 DEF Range
      <4>2. PICK j \in 1 .. Len(s) - 1 : before(j) = k
        BY <2>4, <2>8, <3>4, <4>1
      <4> QED
        BY <2>6, <2>7, <4>1, <4>2 DEF Range
    <3> QED
      BY <3>2, <3>3, <3>4
  <2> QED
    BY <2>2, <2>5, <2>10
<1> QED
  BY <1>2, <1>3

\* From a node of the list onward.
LEMMA TailOf ==
    ASSUME NEW S, NEW s \in Seq(S), NEW a \in 1 .. Len(s) + 1
    PROVE  /\ SubSeq(s, a, Len(s)) \in Seq(S)
           /\ Range(SubSeq(s, a, Len(s))) = {s[k] : k \in a .. Len(s)}
           /\ IsInjective(s) => IsInjective(SubSeq(s, a, Len(s)))
<1> DEFINE t == SubSeq(s, a, Len(s))
<1>1. Len(s) \in Nat /\ DOMAIN s = 1 .. Len(s) /\ a \in Nat /\ 1 <= a /\ a <= Len(s) + 1
  BY LenProperties
<1>2. \A k \in a .. Len(s) : k \in 1 .. Len(s) /\ s[k] \in S
  BY <1>1, ElementOfSeq
<1>3. /\ t \in Seq(S)
      /\ Len(t) = IF a <= Len(s) THEN Len(s) - a + 1 ELSE 0
      /\ \A k \in 1 .. Len(s) - a + 1 : t[k] = s[a + k - 1]
  BY <1>1, <1>2, SubSeqProperties
<1> HIDE DEF t
<1>4. Len(t) = Len(s) - a + 1
  <2>1. CASE a <= Len(s)
    BY <1>3, <2>1
  <2>2. CASE ~(a <= Len(s))
    <3>1. Len(s) - a + 1 = 0 /\ Len(t) = 0
      BY <1>1, <1>3, <2>2
    <3> QED
      BY <3>1
  <2> QED
    BY <2>1, <2>2
<1>5. DOMAIN t = 1 .. Len(s) - a + 1
  BY <1>3, <1>4, LenProperties
<1>6. \A k \in 1 .. Len(s) - a + 1 : a + k - 1 \in a .. Len(s)
  BY <1>1
<1>7. \A k \in a .. Len(s) : k - a + 1 \in 1 .. Len(s) - a + 1 /\ a + (k - a + 1) - 1 = k
  BY <1>1
<1>8. Range(t) = {s[k] : k \in a .. Len(s)}
  <2>1. \A k \in 1 .. Len(s) - a + 1 : \E l \in a .. Len(s) : t[k] = s[l]
    BY <1>3, <1>6
  <2>2. \A l \in a .. Len(s) : \E k \in 1 .. Len(s) - a + 1 : t[k] = s[l]
    BY <1>3, <1>7
  <2>3. Range(t) = {t[k] : k \in 1 .. Len(s) - a + 1}
    BY <1>5 DEF Range
  <2>4. Range(t) \subseteq {s[k] : k \in a .. Len(s)}
    BY <2>1, <2>3
  <2>5. {s[k] : k \in a .. Len(s)} \subseteq Range(t)
    BY <2>2, <2>3
  <2> QED
    BY <2>4, <2>5
<1>9. ASSUME IsInjective(s) PROVE IsInjective(t)
  <2> SUFFICES ASSUME NEW j \in 1 .. Len(s) - a + 1, NEW k \in 1 .. Len(s) - a + 1, t[j] = t[k]
               PROVE  j = k
    BY <1>5 DEF IsInjective
  <2>1. a + j - 1 \in 1 .. Len(s) /\ a + k - 1 \in 1 .. Len(s)
    BY <1>2, <1>6
  <2>2. s[a + j - 1] = s[a + k - 1]
    BY <1>3
  <2>3. a + j - 1 = a + k - 1
    BY <1>1, <1>9, <2>1, <2>2 DEF IsInjective
  <2> QED
    BY <1>1, <2>3
<1> QED
  BY <1>3, <1>8, <1>9 DEF t

\* A new node comes first.
LEMMA HeadOf ==
    ASSUME NEW S, NEW s \in Seq(S), NEW e \in S, e \notin Range(s), IsInjective(s)
    PROVE  /\ <<e>> \o s \in Seq(S)
           /\ Range(<<e>> \o s) = {e} \cup Range(s)
           /\ IsInjective(<<e>> \o s)
<1> DEFINE h == <<e>>
           w == h \o s
<1>1. h \in Seq(S) /\ Len(h) = 1 /\ h[1] = e /\ Len(s) \in Nat /\ DOMAIN s = 1 .. Len(s)
  BY LenProperties
<1> HIDE DEF h
<1>2. /\ w \in Seq(S) /\ Len(w) = Len(h) + Len(s)
      /\ \A k \in 1 .. Len(h) + Len(s) : w[k] = IF k <= Len(h) THEN h[k] ELSE s[k - Len(h)]
  BY <1>1, ConcatProperties
<1> HIDE DEF w
<1>3. DOMAIN w = 1 .. Len(s) + 1
  <2>1. Len(w) = Len(s) + 1
    BY <1>1, <1>2
  <2> QED
    BY <1>2, <2>1, LenProperties
<1>4. w[1] = e /\ \A k \in 1 .. Len(s) + 1 : k # 1 => k - 1 \in 1 .. Len(s) /\ w[k] = s[k - 1]
  <2>1. 1 \in 1 .. Len(h) + Len(s) /\ 1 <= Len(h)
    BY <1>1
  <2>2. w[1] = e
    BY <1>1, <1>2, <2>1
  <2>3. ASSUME NEW k \in 1 .. Len(s) + 1, k # 1 PROVE k - 1 \in 1 .. Len(s) /\ w[k] = s[k - 1]
    <3>1. k \in 1 .. Len(h) + Len(s) /\ ~(k <= Len(h)) /\ k - Len(h) = k - 1 /\ k - 1 \in 1 .. Len(s)
      BY <1>1, <2>3
    <3> QED
      BY <1>2, <3>1
  <2> QED
    BY <2>2, <2>3
<1>5. \A k \in 1 .. Len(s) : k + 1 \in 1 .. Len(s) + 1 /\ w[k + 1] = s[k]
  <2> SUFFICES ASSUME NEW k \in 1 .. Len(s)
               PROVE  k + 1 \in 1 .. Len(s) + 1 /\ w[k + 1] = s[k]
    OBVIOUS
  <2>1. k + 1 \in 1 .. Len(s) + 1 /\ k + 1 # 1 /\ (k + 1) - 1 = k
    BY <1>1
  <2> QED
    BY <1>4, <2>1
<1>6. Range(w) = {e} \cup Range(s)
  <2>1. \A k \in 1 .. Len(s) + 1 : w[k] \in {e} \cup Range(s)
    BY <1>1, <1>4 DEF Range
  <2>2. 1 \in 1 .. Len(s) + 1
    BY <1>1
  <2>3. Range(w) = {w[k] : k \in 1 .. Len(s) + 1} /\ Range(s) = {s[k] : k \in 1 .. Len(s)}
    BY <1>1, <1>3 DEF Range
  <2>4. e \in Range(w)
    BY <1>4, <2>2, <2>3
  <2>5. \A k \in 1 .. Len(s) : s[k] \in Range(w)
    BY <1>5, <2>3
  <2> QED
    BY <2>1, <2>3, <2>4, <2>5
<1>7. IsInjective(w)
  <2> SUFFICES ASSUME NEW j \in 1 .. Len(s) + 1, NEW k \in 1 .. Len(s) + 1, w[j] = w[k]
               PROVE  j = k
    BY <1>3 DEF IsInjective
  <2>1. \A i \in 1 .. Len(s) : s[i] # e
    BY <1>1 DEF Range
  <2>2. CASE j = 1 \/ k = 1
    BY <1>4, <2>1, <2>2
  <2>3. CASE j # 1 /\ k # 1
    <3>1. j - 1 \in 1 .. Len(s) /\ k - 1 \in 1 .. Len(s) /\ s[j - 1] = s[k - 1]
      BY <1>4, <2>3
    <3>2. j - 1 = k - 1
      BY <1>1, <3>1 DEF IsInjective
    <3> QED
      BY <1>1, <3>2
  <2> QED
    BY <2>2, <2>3
<1> QED
  BY <1>2, <1>6, <1>7 DEF w, h

LEMMA ListFacts ==
    ASSUME Ramfs2TypeOK
    PROVE  /\ list \in Seq(Name) /\ IsInjective(list) /\ Range(list) = DOMAIN blocks
           /\ Len(list) \in Nat /\ DOMAIN list = 1 .. Len(list)
BY LenProperties DEF Ramfs2TypeOK

LEMMA PlaceInList ==
    ASSUME Ramfs2TypeOK, NEW n \in DOMAIN blocks
    PROVE  PlaceOf(n) \in 1 .. Len(list) /\ list[PlaceOf(n)] = n
<1> DEFINE I == {i \in 1 .. Len(list) : list[i] = n}
<1>1. PlaceOf(n) = IF I # {} THEN Min(I) ELSE 0
  BY DEF PlaceOf, SelectInSeq
<1>2. I \subseteq Nat /\ I # {}
  BY ListFacts DEF Range
<1>3. Min(I) \in I
  <2>1. \E m \in I : \A k \in I : m <= k
    BY <1>2, LeastOf
  <2> QED
    BY <2>1 DEF Min
<1> QED
  BY <1>1, <1>2, <1>3

\* What a create finds behind node->next.
LEMMA OnwardFacts ==
    ASSUME Ramfs2TypeOK
    PROVE  Onward \in Seq(Name) /\ IsInjective(Onward) /\ Range(Onward) \subseteq DOMAIN blocks
<1> DEFINE I == {i \in 1 .. Len(list) : list[i] \in editor.beside}
           at == IF I # {} THEN Min(I) ELSE 0
<1>1. Onward = IF at = 0 THEN <<>> ELSE SubSeq(list, at, Len(list))
  BY DEF Onward, SelectInSeq
<1>2. CASE at = 0
  <2>1. <<>> \in Seq(Name) /\ DOMAIN <<>> = {}
    BY EmptySeq
  <2> QED
    BY <1>1, <1>2, <2>1 DEF Range, IsInjective
<1>3. CASE at # 0
  <2>1. I # {} /\ I \subseteq Nat
    BY <1>3, ListFacts
  <2>2. \E m \in I : \A k \in I : m <= k
    BY <2>1, LeastOf
  <2>3. at \in I
    BY <2>1, <2>2 DEF Min
  <2> HIDE DEF at
  <2>4. at \in 1 .. Len(list) + 1
    BY <2>3, ListFacts
  <2>5. \A k \in at .. Len(list) : k \in DOMAIN list
    BY <2>4, ListFacts
  <2> QED
    BY <1>1, <1>3, <2>4, <2>5, ListFacts, TailOf DEF Range
<1> QED
  BY <1>2, <1>3

\* What a remove leaves of the list.
LEMMA UnlinkedFacts ==
    ASSUME Ramfs2TypeOK, editor.n \in DOMAIN blocks
    PROVE  /\ Unlinked \in Seq(Name) /\ IsInjective(Unlinked)
           /\ Range(Unlinked) \subseteq DOMAIN blocks \ {editor.n}
           /\ ~(editor.beside = {} /\ PlaceOf(editor.n) # 1) =>
                Range(Unlinked) = DOMAIN blocks \ {editor.n}
<1>1. CASE editor.beside # {}
  BY <1>1, ListFacts, RemovedFirst DEF Unlinked
<1>2. CASE editor.beside = {}
  <2> DEFINE p == PlaceOf(editor.n)
             t == SubSeq(list, p + 1, Len(list))
  <2>1. p \in 1 .. Len(list) /\ list[p] = editor.n
    BY PlaceInList
  <2>2. Unlinked = t
    BY <1>2 DEF Unlinked
  <2> HIDE DEF p, t
  <2>3. p + 1 \in 1 .. Len(list) + 1
    BY <2>1, ListFacts
  <2>4. t \in Seq(Name) /\ IsInjective(t) /\ Range(t) = {list[k] : k \in p + 1 .. Len(list)}
    BY <2>3, ListFacts, TailOf DEF t
  <2>5. \A k \in p + 1 .. Len(list) : k \in 1 .. Len(list) /\ k # p
    BY <2>1, ListFacts
  <2>6. \A k \in p + 1 .. Len(list) : list[k] \in DOMAIN blocks /\ list[k] # editor.n
    BY <2>1, <2>5, ListFacts DEF IsInjective, Range
  <2>7. ASSUME p = 1 PROVE DOMAIN blocks \ {editor.n} \subseteq Range(t)
    <3> SUFFICES ASSUME NEW m \in DOMAIN blocks, m # editor.n PROVE m \in Range(t)
      OBVIOUS
    <3>1. PICK k \in 1 .. Len(list) : list[k] = m
      BY ListFacts DEF Range
    <3>2. k # p
      BY <2>1, <3>1
    <3>3. k \in p + 1 .. Len(list)
      BY <2>7, <3>2
    <3> QED
      BY <2>4, <3>1, <3>3
  <2> QED
    BY <1>2, <2>2, <2>4, <2>6, <2>7 DEF p
<1> QED
  BY <1>1, <1>2

\* A file is added to the list or taken from it.
LEMMA AddedToList ==
    ASSUME Ramfs2TypeOK, NEW n \in Name, n \notin DOMAIN blocks
    PROVE  /\ <<n>> \o list \in Seq(Name) /\ IsInjective(<<n>> \o list)
           /\ Range(<<n>> \o list) = {n} \cup DOMAIN blocks
BY ListFacts, HeadOf

LEMMA TakenFromList ==
    ASSUME Ramfs2TypeOK, NEW n
    PROVE  /\ RemoveFirst(list, n) \in Seq(Name) /\ IsInjective(RemoveFirst(list, n))
           /\ Range(RemoveFirst(list, n)) = DOMAIN blocks \ {n}
BY ListFacts, RemovedFirst


-----------------------------------------------------------------------------
(* ramfs2: the calls that run to their end. *)

\* Once a call has met the node of another, the rest is promised no more.
LEMMA MetNode ==
    ASSUME "same_node" \in incidents'
    PROVE  FilesInductive'
BY DEF FilesInductive, EntriesExclusive, MarkedIsHeld, BlockIsWriters, GivenBackIsFree

\* The entries that count, while no entry is given back.
LEMMA KeptStays ==
    ASSUME editor' = editor, NEW m, blocks'[m] = blocks[m]
    PROVE  Kept(m)' = Kept(m)
BY DEF Kept, Removing

LEMMA KeptWhole ==
    ASSUME NEW n, ~(Removing /\ editor.n = n)
    PROVE  /\ Kept(n) = {i \in DOMAIN blocks[n] : blocks[n][i] # JUNK}
           /\ editor' = editor => Kept(n)' = {i \in DOMAIN blocks'[n] : blocks'[n][i] # JUNK}
BY DEF Kept, Removing

LEMMA GivenBackStays ==
    ASSUME editor' = editor, Removing => blocks'[editor.n] = blocks[editor.n]
    PROVE  GivenBack' = GivenBack
BY DEF GivenBack, Removing

\* A call under way is dropped, or finds its node as it was.
LEMMA OpenStay ==
    ASSUME FsInductive,
           \/ writer' = NoCall
           \/ writer' = writer /\ (Writing => writer.n \in DOMAIN blocks'
                                              /\ blocks'[writer.n] = blocks[writer.n]),
           \/ editor' = NoCall
           \/ editor' = editor /\ (Removing => editor.n \in DOMAIN blocks'
                                               /\ blocks'[editor.n] = blocks[editor.n])
    PROVE  WriterTypeOK' /\ OpenAreRecords' /\ ArrayIsWriters' /\ RemovedIsThere'
<1> USE DEF FsInductive
<1>1. NoCall.pc = "none"
  BY DEF NoCall
<1>2. (writer' = NoCall \/ writer' = writer) /\ (editor' = NoCall \/ editor' = editor)
  OBVIOUS
<1>3. WriterTypeOK'
  BY <1>1, <1>2 DEF WriterTypeOK, Writing
<1>4. OpenAreRecords'
  BY <1>2 DEF OpenAreRecords, Writer, Editor
<1>5. ArrayIsWriters'
  <2>1. CASE writer' = NoCall
    BY <1>1, <2>1 DEF ArrayIsWriters, Writing
  <2>2. CASE writer' # NoCall
    <3>1. /\ writer' = writer
          /\ Writing => writer.n \in DOMAIN blocks' /\ blocks'[writer.n] = blocks[writer.n]
      BY <2>2
    <3>2. editor'.pc = "unmark" => editor' = editor
      BY <1>1, <1>2
    <3> QED
      BY <3>1, <3>2 DEF ArrayIsWriters, Writing, Removing
  <2> QED
    BY <2>1, <2>2
<1>6. RemovedIsThere'
  BY <1>1 DEF RemovedIsThere, Removing
<1> QED
  BY <1>3, <1>4, <1>5, <1>6

\* A whole call drops what it meets, and changes at most the file it names.
LEMMA CallKeeps ==
    ASSUME FsInductive, mounted = "ramfs2", UNCHANGED <<attached, rvars, mounted>>,
           disk' \in [Block -> Data \cup {BLANK}], call'.op \in Ops,
           incidents \subseteq incidents',
           NEW op, NEW n, Passes(op, n), Meets(op, n) \subseteq incidents',
           Ramfs2TypeOK',
           ~MeetsWriter(op, n) /\ ~MeetsEditor(op, n) => FilesInductive',
           \A m \in DOMAIN blocks :
              \/ op \in {"write", "remove"} /\ n = m
              \/ m \in DOMAIN blocks' /\ blocks'[m] = blocks[m]
    PROVE  FsInductive'
<1>1. /\ writer' = IF MeetsWriter(op, n) THEN NoCall ELSE writer
      /\ editor' = IF MeetsEditor(op, n) THEN NoCall ELSE editor
  BY DEF Passes
<1>2. FilesInductive'
  <2>1. CASE MeetsWriter(op, n) \/ MeetsEditor(op, n)
    <3>1. "same_node" \in incidents'
      BY <2>1 DEF Meets
    <3> QED
      BY <3>1, MetNode
  <2> QED
    BY <2>1
<1>3. \/ writer' = NoCall
      \/ writer' = writer /\ (Writing => writer.n \in DOMAIN blocks'
                                         /\ blocks'[writer.n] = blocks[writer.n])
  <2>1. Writing => writer.n \in DOMAIN blocks
    BY WriterFacts
  <2> QED
    BY <1>1, <2>1 DEF MeetsWriter
<1>4. \/ editor' = NoCall
      \/ editor' = editor /\ (Removing => editor.n \in DOMAIN blocks'
                                          /\ blocks'[editor.n] = blocks[editor.n])
  <2>1. Removing => editor.n \in DOMAIN blocks
    BY DEF FsInductive, RemovedIsThere
  <2> QED
    BY <1>1, <2>1 DEF MeetsEditor
<1>5. WriterTypeOK' /\ OpenAreRecords' /\ ArrayIsWriters' /\ RemovedIsThere'
  BY <1>3, <1>4, OpenStay
<1> QED
  BY <1>2, <1>5, Ramfs2Side

\* A file gets a new array.
LEMMA ArrayFits ==
    ASSUME Ramfs2TypeOK, NEW n \in DOMAIN blocks, NEW k \in 0 .. MaxLen,
           NEW arr \in [1 .. k -> Block \cup {JUNK}], blocks' = [blocks EXCEPT ![n] = arr],
           list' = list, block_map' \subseteq Block
    PROVE  /\ Ramfs2TypeOK' /\ DOMAIN blocks' = DOMAIN blocks
           /\ blocks'[n] = arr /\ DOMAIN arr = 1 .. k
           /\ \A m \in DOMAIN blocks : m # n => blocks'[m] = blocks[m]
<1>1. k \in Nat /\ MaxLen \in Nat /\ k <= MaxLen
  BY DiskAssumption
<1>2. arr \in Seq(Block \cup {JUNK}) /\ Len(arr) = k /\ DOMAIN arr = 1 .. k
  BY <1>1, SequenceOf
<1>3. /\ DOMAIN blocks' = DOMAIN blocks /\ blocks'[n] = arr
      /\ \A m \in DOMAIN blocks : m # n => blocks'[m] = blocks[m]
  OBVIOUS
<1>4. Ramfs2TypeOK'
  BY <1>1, <1>2, <1>3 DEF Ramfs2TypeOK
<1> QED
  BY <1>2, <1>3, <1>4

\* The blocks in it were free, and the file was not being removed.
LEMMA NewArray ==
    ASSUME FsInductive, NEW n \in DOMAIN blocks, NEW k \in 0 .. MaxLen,
           NEW arr \in [1 .. k -> Block \cup {JUNK}],
           \A i, j \in 1 .. k : arr[i] = arr[j] /\ arr[i] # JUNK => i = j,
           \A i \in 1 .. k : arr[i] \notin block_map,
           blocks' = [blocks EXCEPT ![n] = arr], list' = list,
           NEW new, new = {b \in Block : \E i \in 1 .. k : arr[i] = b},
           block_map' = block_map \cup new,
           incidents \subseteq incidents', blocks[n] # <<>> => "forgotten" \in incidents',
           new \cap GivenBack # {} => "reused_early" \in incidents',
           editor' = editor, ~(Removing /\ editor.n = n),
           writer.pc = "fill" \/ writer'.pc = "fill" => writer' = writer
    PROVE  Ramfs2TypeOK' /\ FilesInductive'
<1> USE DEF FsInductive
<1>1. new \subseteq Block /\ \A i \in 1 .. k : arr[i] # JUNK => arr[i] \in new
  OBVIOUS
<1>2. block_map \subseteq Block /\ block_map' \subseteq Block
  BY <1>1 DEF Ramfs2TypeOK
<1>3. /\ Ramfs2TypeOK' /\ DOMAIN blocks' = DOMAIN blocks
      /\ blocks'[n] = arr /\ DOMAIN arr = 1 .. k
      /\ \A m \in DOMAIN blocks : m # n => blocks'[m] = blocks[m]
  BY <1>2, ArrayFits
<1>4. Kept(n)' = {i \in 1 .. k : arr[i] # JUNK}
      /\ Kept(n) = {i \in DOMAIN blocks[n] : blocks[n][i] # JUNK}
  BY <1>3, KeptWhole
<1>5. \A m \in DOMAIN blocks : m # n => Kept(m)' = Kept(m)
  BY <1>3, KeptStays
<1>6. GivenBack' = GivenBack
  BY <1>3, GivenBackStays DEF RemovedIsThere
<1>7. JUNK \notin Block
  BY JunkAssumption
<1>8. EntriesExclusive'
  <2> SUFFICES ASSUME incidents \cap {"junk_freed", "same_block", "same_node"} = {},
                      NEW l \in DOMAIN blocks, NEW i \in Kept(l)'
               PROVE  /\ blocks'[l][i] \in block_map'
                      /\ \A m \in DOMAIN blocks : \A j \in Kept(m)' :
                           blocks'[m][j] = blocks'[l][i] => m = l /\ j = i
    BY <1>3 DEF EntriesExclusive
  <2>1. \A m \in DOMAIN blocks : \A j \in Kept(m) :
          /\ blocks[m][j] \in block_map
          /\ \A p \in DOMAIN blocks : \A q \in Kept(p) :
               blocks[p][q] = blocks[m][j] => p = m /\ q = j
    BY DEF FilesInductive, EntriesExclusive
  <2>2. CASE l = n
    <3>1. i \in 1 .. k /\ blocks'[l][i] = arr[i] /\ arr[i] \in new /\ arr[i] \notin block_map
          /\ arr[i] # JUNK
      BY <1>1, <1>3, <1>4, <2>2
    <3>2. \A m \in DOMAIN blocks : m # n =>
            \A j \in Kept(m)' : blocks'[m][j] # arr[i]
      BY <1>3, <1>5, <2>1, <3>1
    <3>3. \A j \in 1 .. k : arr[j] = arr[i] => j = i
      BY <3>1
    <3>4. \A j \in Kept(n)' : j \in 1 .. k /\ blocks'[n][j] = arr[j]
      BY <1>3, <1>4
    <3> QED
      BY <2>2, <3>1, <3>2, <3>3, <3>4
  <2>3. CASE l # n
    <3>1. i \in Kept(l) /\ blocks'[l] = blocks[l] /\ blocks[l][i] \in block_map
      BY <1>3, <1>5, <2>1, <2>3
    <3>2. \A j \in Kept(n)' : blocks'[n][j] # blocks[l][i]
      BY <1>3, <1>4, <3>1
    <3> QED
      BY <1>3, <1>5, <2>1, <2>3, <3>1, <3>2
  <2> QED
    BY <2>2, <2>3
<1>9. MarkedIsHeld'
  <2> SUFFICES ASSUME incidents' \cap {"forgotten", "same_node", "lost_node", "same_name"} = {},
                      NEW b \in block_map'
               PROVE  \/ \E m \in DOMAIN blocks' : \E i \in Kept(m)' : blocks'[m][i] = b
                      \/ writer'.pc = "fill" /\ writer'.blk = b
    BY DEF MarkedIsHeld
  <2>1. CASE b \in block_map
    <3>1. \/ \E m \in DOMAIN blocks : \E i \in Kept(m) : blocks[m][i] = b
          \/ writer.pc = "fill" /\ writer.blk = b
      BY <2>1 DEF FilesInductive, MarkedIsHeld
    <3>2. Kept(n) = {}
      <4>1. blocks[n] = <<>> /\ DOMAIN <<>> = {}
        OBVIOUS
      <4> QED
        BY <1>4, <4>1
    <3> QED
      BY <1>3, <1>5, <3>1, <3>2
  <2>2. CASE b \notin block_map
    <3>1. PICK i \in 1 .. k : arr[i] = b /\ b \in Block
      BY <2>2
    <3> QED
      BY <1>3, <1>4, <1>7, <3>1
  <2> QED
    BY <2>1, <2>2
<1>10. BlockIsWriters'
  <2> SUFFICES ASSUME incidents \cap {"junk_freed", "same_block", "same_node"} = {},
                      writer'.pc = "fill"
               PROVE  /\ writer'.blk \in block_map'
                      /\ \A m \in DOMAIN blocks : \A j \in Kept(m)' : blocks'[m][j] # writer'.blk
    BY <1>3 DEF BlockIsWriters
  <2>1. /\ writer' = writer /\ writer.blk \in block_map
        /\ \A m \in DOMAIN blocks : \A j \in Kept(m) : blocks[m][j] # writer.blk
    BY DEF FilesInductive, BlockIsWriters
  <2>2. \A j \in Kept(n)' : blocks'[n][j] # writer.blk
    BY <1>3, <1>4, <2>1
  <2> QED
    BY <1>3, <1>5, <2>1, <2>2
<1>11. GivenBackIsFree'
  <2> SUFFICES ASSUME incidents' \cap {"junk_freed", "same_block", "same_node", "reused_early"} = {}
               PROVE  GivenBack \cap block_map' = {}
    BY <1>6 DEF GivenBackIsFree
  <2>1. GivenBack \cap block_map = {}
    BY DEF FilesInductive, GivenBackIsFree
  <2> QED
    BY <2>1
<1> QED
  BY <1>3, <1>8, <1>9, <1>10, <1>11 DEF FilesInductive

\* A file is created.
LEMMA NewFile ==
    ASSUME FsInductive, NEW n \in Name, n \notin DOMAIN blocks,
           blocks' = [m \in DOMAIN blocks \cup {n} |-> IF m = n THEN <<>> ELSE blocks[m]],
           list' = <<n>> \o list, UNCHANGED <<block_map, incidents, r2open>>
    PROVE  Ramfs2TypeOK' /\ FilesInductive'
<1> USE DEF FsInductive, r2open
<1>1. /\ DOMAIN blocks' = DOMAIN blocks \cup {n} /\ blocks'[n] = <<>>
      /\ \A m \in DOMAIN blocks : blocks'[m] = blocks[m]
  OBVIOUS
<1>2. <<>> \in Seq(Block \cup {JUNK}) /\ Len(<<>>) = 0 /\ DOMAIN <<>> = {}
  BY EmptySeq
<1>3. Ramfs2TypeOK'
  <2>1. list' \in Seq(Name) /\ IsInjective(list') /\ Range(list') = DOMAIN blocks'
    BY <1>1, AddedToList
  <2> QED
    BY <1>1, <1>2, <2>1, DiskAssumption DEF Ramfs2TypeOK
<1>4. Kept(n)' = {} /\ \A m \in DOMAIN blocks : Kept(m)' = Kept(m)
  <2>1. Kept(n)' = {}
    BY <1>1, <1>2 DEF Kept
  <2> QED
    BY <1>1, <2>1, KeptStays
<1>5. GivenBack' = GivenBack
  BY <1>1, GivenBackStays DEF RemovedIsThere
<1>6. EntriesExclusive'
  BY <1>1, <1>4 DEF FilesInductive, EntriesExclusive
<1>7. MarkedIsHeld'
  BY <1>1, <1>4 DEF FilesInductive, MarkedIsHeld
<1>8. BlockIsWriters'
  BY <1>1, <1>4 DEF FilesInductive, BlockIsWriters
<1>9. GivenBackIsFree'
  BY <1>5 DEF FilesInductive, GivenBackIsFree
<1> QED
  BY <1>3, <1>6, <1>7, <1>8, <1>9 DEF FilesInductive

\* A file is removed with its blocks.
LEMMA RemovedFile ==
    ASSUME FsInductive, NEW n \in DOMAIN blocks, NEW hit \in SUBSET Block,
           Cardinality(hit) <= Cardinality(Unfilled(n)),
           block_map' = block_map \ (Range(blocks[n]) \cup hit),
           blocks' = [m \in DOMAIN blocks \ {n} |-> blocks[m]],
           list' = RemoveFirst(list, n), incidents \subseteq incidents',
           JUNK \in Range(blocks[n]) => "junk_freed" \in incidents'
    PROVE  /\ Ramfs2TypeOK'
           /\ r2open' = r2open /\ ~(Removing /\ editor.n = n) => FilesInductive'
<1> USE DEF FsInductive
<1>1. /\ DOMAIN blocks' = DOMAIN blocks \ {n}
      /\ \A m \in DOMAIN blocks \ {n} : blocks'[m] = blocks[m]
  OBVIOUS
<1>2. Ramfs2TypeOK'
  <2>1. list' \in Seq(Name) /\ IsInjective(list') /\ Range(list') = DOMAIN blocks'
    BY <1>1, TakenFromList
  <2> QED
    BY <1>1, <2>1 DEF Ramfs2TypeOK
<1>3. \A b : b \in Range(blocks[n]) <=> \E i \in DOMAIN blocks[n] : blocks[n][i] = b
  BY DEF Range
<1>4. "junk_freed" \notin incidents' => hit = {}
  <2> SUFFICES ASSUME JUNK \notin Range(blocks[n]) PROVE hit = {}
    OBVIOUS
  <2>1. Unfilled(n) = {}
    BY <1>3 DEF Unfilled
  <2>2. IsFiniteSet(hit)
    BY BlocksFinite, FS_Subset
  <2>3. Cardinality(hit) \in Nat /\ Cardinality(hit) <= 0
    BY <2>1, <2>2, FS_CardinalityType, FS_EmptySet
  <2>4. Cardinality(hit) = 0
    BY <2>3
  <2> QED
    BY <2>2, <2>4, FS_EmptySet
<1>5. ASSUME r2open' = r2open, ~(Removing /\ editor.n = n) PROVE FilesInductive'
  <2>1. editor' = editor /\ writer' = writer
    BY <1>5 DEF r2open
  <2>2. Kept(n) = {i \in DOMAIN blocks[n] : blocks[n][i] # JUNK}
    BY <1>5, KeptWhole
  <2>3. \A m \in DOMAIN blocks \ {n} : Kept(m)' = Kept(m)
    BY <1>1, <2>1, KeptStays
  <2>4. GivenBack' = GivenBack
    BY <1>1, <1>5, <2>1, GivenBackStays DEF RemovedIsThere
  <2>5. EntriesExclusive'
    <3> SUFFICES ASSUME incidents' \cap {"junk_freed", "same_block", "same_node"} = {},
                        NEW l \in DOMAIN blocks \ {n}, NEW i \in Kept(l)
                 PROVE  /\ blocks[l][i] \in block_map'
                        /\ \A m \in DOMAIN blocks \ {n} : \A j \in Kept(m) :
                             blocks[m][j] = blocks[l][i] => m = l /\ j = i
      BY <1>1, <2>3 DEF EntriesExclusive
    <3>1. /\ blocks[l][i] \in block_map
          /\ \A m \in DOMAIN blocks : \A j \in Kept(m) :
               blocks[m][j] = blocks[l][i] => m = l /\ j = i
      BY DEF FilesInductive, EntriesExclusive
    <3>2. blocks[l][i] # JUNK
      BY KeptFacts
    <3>3. blocks[l][i] \notin Range(blocks[n])
      BY <1>3, <2>2, <3>1, <3>2
    <3> QED
      BY <1>4, <3>1, <3>3
  <2>6. MarkedIsHeld'
    <3> SUFFICES ASSUME incidents' \cap {"forgotten", "same_node", "lost_node", "same_name"} = {},
                        NEW b \in block_map'
                 PROVE  \/ \E m \in DOMAIN blocks' : \E i \in Kept(m)' : blocks'[m][i] = b
                        \/ writer.pc = "fill" /\ writer.blk = b
      BY <2>1 DEF MarkedIsHeld
    <3>1. b \in block_map /\ b \notin Range(blocks[n])
      OBVIOUS
    <3>2. \/ \E m \in DOMAIN blocks : \E i \in Kept(m) : blocks[m][i] = b
          \/ writer.pc = "fill" /\ writer.blk = b
      BY <3>1 DEF FilesInductive, MarkedIsHeld
    <3>3. ~(\E i \in Kept(n) : blocks[n][i] = b)
      BY <1>3, <2>2, <3>1
    <3> QED
      BY <1>1, <2>3, <3>2, <3>3
  <2>7. BlockIsWriters'
    <3> SUFFICES ASSUME incidents' \cap {"junk_freed", "same_block", "same_node"} = {},
                        writer.pc = "fill"
                 PROVE  /\ writer.blk \in block_map'
                        /\ \A m \in DOMAIN blocks \ {n} : \A j \in Kept(m) : blocks[m][j] # writer.blk
      BY <1>1, <2>1, <2>3 DEF BlockIsWriters
    <3>1. /\ writer.blk \in block_map
          /\ \A m \in DOMAIN blocks : \A j \in Kept(m) : blocks[m][j] # writer.blk
      BY DEF FilesInductive, BlockIsWriters
    <3>2. writer.blk # JUNK
      BY WriterFacts, JunkAssumption DEF Writing
    <3> QED
      BY <1>3, <1>4, <2>2, <3>1, <3>2
  <2>8. GivenBackIsFree'
    BY <2>4 DEF FilesInductive, GivenBackIsFree
  <2> QED
    BY <2>5, <2>6, <2>7, <2>8 DEF FilesInductive
<1> QED
  BY <1>2, <1>5

\* What WriteToBlocks puts into the node, in terms of the free blocks it has got.
LEMMA WriteToBlocksEffect ==
    ASSUME FsInductive, NEW n \in Name, NEW content \in Contents, WriteToBlocks(n, content)
    PROVE  \E got \in 0 .. Len(content) :
             LET k == Len(content)  at == Allocated(got)
                 arr == [i \in 1 .. k |-> IF i <= got THEN at[i] ELSE JUNK]
             IN /\ n \in DOMAIN blocks /\ blocks' = [blocks EXCEPT ![n] = arr]
                /\ list' = list /\ Passes("write", n)
                /\ arr \in [1 .. k -> Block \cup {JUNK}]
                /\ \A i, j \in 1 .. k : arr[i] = arr[j] /\ arr[i] # JUNK => i = j
                /\ \A i \in 1 .. k : arr[i] \notin block_map
                /\ block_map' = block_map \cup {b \in Block : \E i \in 1 .. k : arr[i] = b}
                /\ incidents' = incidents \cup (ArrayIncidents(n, got) \cup Meets("write", n)
                                                 \cup TakesBack({b \in Block : \E i \in 1 .. k : arr[i] = b}))
                /\ at \in [1 .. got -> Block \ block_map]
                /\ \A i, j \in 1 .. got : at[i] = at[j] => i = j
                /\ SubSeq(content, 1, got) \in [1 .. got -> Data]
                /\ \A i \in 1 .. got : SubSeq(content, 1, got)[i] = content[i]
                /\ disk' = Written(at, SubSeq(content, 1, got))
                /\ call' = [op |-> "write", name |-> n, arg |-> content, ok |-> got = k]
<1> DEFINE k == Len(content)
           got == IF k <= Cardinality(Block \ block_map) THEN k ELSE Cardinality(Block \ block_map)
           at == Allocated(got)
           arr == [i \in 1 .. k |-> IF i <= got THEN at[i] ELSE JUNK]
<1>1. /\ n \in DOMAIN blocks /\ blocks' = [blocks EXCEPT ![n] = arr]
      /\ list' = list /\ Passes("write", n)
      /\ incidents' = incidents \cup (ArrayIncidents(n, got) \cup Meets("write", n)
                                       \cup TakesBack(Range(at)))
      /\ block_map' = block_map \cup Range(at)
      /\ disk' = Written(at, SubSeq(content, 1, got))
      /\ call' = [op |-> "write", name |-> n, arg |-> content, ok |-> got = k]
  BY DEF WriteToBlocks, Incident, Returns
<1>2. k \in Nat /\ content \in Seq(Data) /\ \A i \in 1 .. k : content[i] \in Data
  BY ContentsAreSequences
<1>3. got \in Nat /\ got <= k /\ got <= Cardinality(Block \ block_map) /\ got \in 0 .. k
  <2> DEFINE c == Cardinality(Block \ block_map)
  <2>1. c \in Nat
    BY BlocksFinite
  <2>2. got = IF k <= c THEN k ELSE c
    OBVIOUS
  <2> HIDE DEF k, got, c
  <2>3. got \in Nat /\ got <= k /\ got <= c /\ got \in 0 .. k
    BY <1>2, <2>1, <2>2
  <2> QED
    BY <2>3 DEF c
<1> HIDE DEF k, got
<1>4. /\ at \in [1 .. got -> Block \ block_map]
      /\ \A i, j \in 1 .. got : at[i] = at[j] => i = j
  BY <1>3, AllocatedBlocks
<1> HIDE DEF at
<1>5. JUNK \notin Block /\ JUNK \notin block_map
  BY JunkAssumption DEF FsInductive, Ramfs2TypeOK
<1>6. /\ arr \in [1 .. k -> Block \cup {JUNK}]
      /\ \A i \in 1 .. k : arr[i] = IF i <= got THEN at[i] ELSE JUNK
      /\ \A i \in 1 .. k : i <= got => i \in 1 .. got
  BY <1>2, <1>3, <1>4
<1> HIDE DEF arr
<1>7. \A i, j \in 1 .. k : arr[i] = arr[j] /\ arr[i] # JUNK => i = j
  BY <1>4, <1>6
<1>8. \A i \in 1 .. k : arr[i] \notin block_map
  BY <1>4, <1>5, <1>6
<1>9. Range(at) = {b \in Block : \E i \in 1 .. k : arr[i] = b}
  <2>1. \A i \in 1 .. got : i \in 1 .. k /\ i <= got /\ at[i] \in Block
    BY <1>2, <1>3, <1>4
  <2>2. Range(at) = {at[i] : i \in 1 .. got}
    BY <1>4 DEF Range
  <2>3. \A i \in 1 .. got : arr[i] = at[i]
    BY <1>6, <2>1
  <2>4. \A b \in Block, i \in 1 .. k : arr[i] = b => i \in 1 .. got
    BY <1>5, <1>6
  <2> QED
    BY <2>1, <2>2, <2>3, <2>4
<1>10. /\ SubSeq(content, 1, got) \in [1 .. got -> Data]
       /\ \A i \in 1 .. got : SubSeq(content, 1, got)[i] = content[i]
  <2>1. 1 \in Int /\ got \in Int /\ \A i \in 1 .. got : content[i] \in Data
    BY <1>2, <1>3
  <2>2. /\ SubSeq(content, 1, got) \in Seq(Data)
        /\ Len(SubSeq(content, 1, got)) = IF 1 <= got THEN got - 1 + 1 ELSE 0
        /\ \A i \in 1 .. got - 1 + 1 : SubSeq(content, 1, got)[i] = content[1 + i - 1]
    BY <1>2, <2>1, SubSeqProperties
  <2>3. got - 1 + 1 = got /\ (IF 1 <= got THEN got - 1 + 1 ELSE 0) = got
        /\ \A i \in 1 .. got : 1 + i - 1 = i
    BY <1>3
  <2>4. \A i \in 1 .. got : SubSeq(content, 1, got)[i] = content[i]
    BY <2>2, <2>3
  <2>5. DOMAIN SubSeq(content, 1, got) = 1 .. got
        /\ SubSeq(content, 1, got) = [i \in 1 .. got |-> SubSeq(content, 1, got)[i]]
    BY <2>2, <2>3, LenProperties
  <2> QED
    BY <2>1, <2>4, <2>5
<1>11. block_map' = block_map \cup {b \in Block : \E i \in 1 .. k : arr[i] = b}
  BY <1>1, <1>9
<1>12. incidents' = incidents \cup (ArrayIncidents(n, got) \cup Meets("write", n)
                                     \cup TakesBack({b \in Block : \E i \in 1 .. k : arr[i] = b}))
  BY <1>1, <1>9
<1>13. /\ n \in DOMAIN blocks /\ blocks' = [blocks EXCEPT ![n] = arr]
       /\ list' = list /\ Passes("write", n)
       /\ disk' = Written(at, SubSeq(content, 1, got))
       /\ call' = [op |-> "write", name |-> n, arg |-> content, ok |-> got = k]
  BY <1>1
<1> QED
  BY <1>3, <1>4, <1>6, <1>7, <1>8, <1>10, <1>11, <1>12, <1>13 DEF k, at, arr


LEMMA RefusalKeeps ==
    ASSUME FsInductive, mounted = "ramfs2", UNCHANGED <<attached, rvars, mounted>>,
           NEW op \in Ops, NEW n, NEW arg, Ramfs2Refuses(op, n, arg)
    PROVE  FsInductive'
<1>1. OneMounted' /\ attached' \in BOOLEAN /\ call'.op \in Ops
  BY DEF Ramfs2Refuses, Returns, FsInductive, OneMounted, rvars, r2vars, r2open, NoCall, DiskTypeOK
<1> QED
  BY <1>1, NoFileChanges DEF Ramfs2Refuses

LEMMA WriteCallKeeps ==
    ASSUME FsInductive, mounted = "ramfs2", UNCHANGED <<attached, rvars, mounted>>,
           NEW n \in Name, NEW content \in Contents, ramfs2_write(n, content)
    PROVE  FsInductive'
<1> USE DEF FsInductive
<1>1. disk \in [Block -> Data \cup {BLANK}]
  BY DEF DiskTypeOK
<1>2. CASE Ramfs2Refuses("write", n, content)
  BY <1>2, RefusalKeeps DEF Ops
<1>5. ~MeetsWriter("write", n) /\ ~MeetsEditor("write", n) =>
        ~(Removing /\ editor.n = n)
  BY DEF MeetsEditor
<1>6. ASSUME Passes("write", n), ~MeetsWriter("write", n) /\ ~MeetsEditor("write", n)
      PROVE  writer' = writer /\ editor' = editor
  BY <1>6 DEF Passes
<1>3. CASE WriteLosesArray(n, content)
  <2> DEFINE k == Len(blocks[n])
             arr == [i \in 1 .. k |-> JUNK]
  <2>1. /\ n \in DOMAIN blocks /\ block_map' = block_map /\ disk' = disk /\ list' = list
        /\ incidents' = incidents \cup (ArrayIncidents(n, 0) \cup Meets("write", n))
        /\ blocks' = [blocks EXCEPT ![n] = [i \in DOMAIN blocks[n] |-> JUNK]]
        /\ Passes("write", n)
        /\ call' = [op |-> "write", name |-> n, arg |-> content, ok |-> FALSE]
    BY <1>3 DEF WriteLosesArray, Incident, Returns
  <2>2. k \in 0 .. MaxLen /\ blocks' = [blocks EXCEPT ![n] = arr]
    BY <2>1, Arrays
  <2>3. /\ arr \in [1 .. k -> Block \cup {JUNK}] /\ \A i \in 1 .. k : arr[i] = JUNK
        /\ JUNK \notin Block /\ block_map \subseteq Block
    BY JunkAssumption DEF Ramfs2TypeOK
  <2>4. /\ blocks[n] # <<>> => "forgotten" \in incidents'
        /\ incidents \subseteq incidents' /\ Meets("write", n) \subseteq incidents'
    BY <2>1 DEF ArrayIncidents
  <2> HIDE DEF k, arr
  <2>5. {b \in Block : \E i \in 1 .. k : arr[i] = b} = {}
    BY <2>3
  <2>6. PICK new : new = {b \in Block : \E i \in 1 .. k : arr[i] = b}
    OBVIOUS
  <2>7. block_map' = block_map \cup new /\ (new \cap GivenBack # {} => "reused_early" \in incidents')
    BY <2>1, <2>5, <2>6
  <2>9. /\ \A i, j \in 1 .. k : arr[i] = arr[j] /\ arr[i] # JUNK => i = j
        /\ \A i \in 1 .. k : arr[i] \notin block_map
    BY <2>3
  <2> HIDE DEF FsInductive
  <2>10. Ramfs2TypeOK'
    BY <2>1, <2>2, <2>3, ArrayFits DEF FsInductive
  <2>11. ASSUME ~MeetsWriter("write", n) /\ ~MeetsEditor("write", n) PROVE FilesInductive'
    <3>1. writer' = writer /\ editor' = editor /\ ~(Removing /\ editor.n = n)
      BY <1>5, <1>6, <2>1, <2>11
    <3>2. n \in DOMAIN blocks /\ list' = list
      BY <2>1
    <3>3. arr \in [1 .. k -> Block \cup {JUNK}]
      BY <2>3
    <3>4. incidents \subseteq incidents' /\ (blocks[n] # <<>> => "forgotten" \in incidents')
      BY <2>4
    <3> QED
      BY <2>2, <2>6, <2>7, <2>9, <3>1, <3>2, <3>3, <3>4, NewArray
  <2>12. \A m \in DOMAIN blocks : m # n => m \in DOMAIN blocks' /\ blocks'[m] = blocks[m]
    BY <2>2
  <2>13. disk' \in [Block -> Data \cup {BLANK}] /\ call'.op \in Ops
    BY <1>1, <2>1 DEF Ops
  <2> QED
    BY <2>1, <2>4, <2>10, <2>11, <2>12, <2>13, CallKeeps
<1>4. CASE WriteToBlocks(n, content)
  <2>1. PICK got \in 0 .. Len(content) :
             LET k == Len(content)  at == Allocated(got)
                 arr == [i \in 1 .. k |-> IF i <= got THEN at[i] ELSE JUNK]
             IN /\ n \in DOMAIN blocks /\ blocks' = [blocks EXCEPT ![n] = arr]
                /\ list' = list /\ Passes("write", n)
                /\ arr \in [1 .. k -> Block \cup {JUNK}]
                /\ \A i, j \in 1 .. k : arr[i] = arr[j] /\ arr[i] # JUNK => i = j
                /\ \A i \in 1 .. k : arr[i] \notin block_map
                /\ block_map' = block_map \cup {b \in Block : \E i \in 1 .. k : arr[i] = b}
                /\ incidents' = incidents \cup (ArrayIncidents(n, got) \cup Meets("write", n)
                                                 \cup TakesBack({b \in Block : \E i \in 1 .. k : arr[i] = b}))
                /\ at \in [1 .. got -> Block \ block_map]
                /\ \A i, j \in 1 .. got : at[i] = at[j] => i = j
                /\ SubSeq(content, 1, got) \in [1 .. got -> Data]
                /\ \A i \in 1 .. got : SubSeq(content, 1, got)[i] = content[i]
                /\ disk' = Written(at, SubSeq(content, 1, got))
                /\ call' = [op |-> "write", name |-> n, arg |-> content, ok |-> got = k]
    BY <1>4, WriteToBlocksEffect
  <2> DEFINE k == Len(content)
             arr == [i \in 1 .. k |-> IF i <= got THEN Allocated(got)[i] ELSE JUNK]
             blk == {b \in Block : \E i \in 1 .. k : arr[i] = b}
  <2>2. /\ n \in DOMAIN blocks /\ blocks' = [blocks EXCEPT ![n] = arr]
        /\ list' = list /\ Passes("write", n)
        /\ arr \in [1 .. k -> Block \cup {JUNK}]
        /\ \A i, j \in 1 .. k : arr[i] = arr[j] /\ arr[i] # JUNK => i = j
        /\ \A i \in 1 .. k : arr[i] \notin block_map
        /\ block_map' = block_map \cup blk
    BY <2>1, Zenon
  <2>3. /\ incidents' = incidents \cup (ArrayIncidents(n, got) \cup Meets("write", n) \cup TakesBack(blk))
        /\ SubSeq(content, 1, got) \in [1 .. got -> Data]
        /\ disk' = Written(Allocated(got), SubSeq(content, 1, got))
        /\ call' = [op |-> "write", name |-> n, arg |-> content, ok |-> got = k]
    BY <2>1, Zenon
  <2>4. k \in 0 .. MaxLen /\ got \in Nat
    BY ContentsAreSequences
  <2> HIDE DEF k, arr
  <2>5. disk' \in [Block -> Data \cup {BLANK}] /\ call'.op \in Ops
    BY <2>3, <2>4, WrittenFits DEF Ops
  <2>6. blocks[n] # <<>> => "forgotten" \in incidents'
    BY <2>3 DEF ArrayIncidents
  <2>7. /\ incidents \subseteq incidents' /\ Meets("write", n) \subseteq incidents'
        /\ blk \cap GivenBack # {} => "reused_early" \in incidents'
    BY <2>3 DEF TakesBack
  <2>8. PICK new : new = {b \in Block : \E i \in 1 .. k : arr[i] = b}
    OBVIOUS
  <2>9. block_map' = block_map \cup new /\ (new \cap GivenBack # {} => "reused_early" \in incidents')
    BY <2>2, <2>7, <2>8
  <2>14. block_map' \subseteq Block
    BY <2>2 DEF Ramfs2TypeOK
  <2> HIDE DEF FsInductive, blk
  <2>10. Ramfs2TypeOK'
    BY <2>2, <2>4, <2>14, ArrayFits DEF FsInductive
  <2>11. ASSUME ~MeetsWriter("write", n) /\ ~MeetsEditor("write", n) PROVE FilesInductive'
    <3>1. writer' = writer /\ editor' = editor /\ ~(Removing /\ editor.n = n)
      BY <1>5, <1>6, <2>2, <2>11
    <3>2. n \in DOMAIN blocks /\ list' = list /\ blocks' = [blocks EXCEPT ![n] = arr]
      BY <2>2
    <3>3. /\ arr \in [1 .. k -> Block \cup {JUNK}]
          /\ \A i, j \in 1 .. k : arr[i] = arr[j] /\ arr[i] # JUNK => i = j
          /\ \A i \in 1 .. k : arr[i] \notin block_map
      BY <2>2
    <3>4. incidents \subseteq incidents' /\ k \in 0 .. MaxLen
      BY <2>4, <2>7
    <3> QED
      BY <2>6, <2>8, <2>9, <3>1, <3>2, <3>3, <3>4, NewArray
  <2>12. \A m \in DOMAIN blocks : m # n => m \in DOMAIN blocks' /\ blocks'[m] = blocks[m]
    BY <2>2
  <2> QED
    BY <2>2, <2>5, <2>7, <2>10, <2>11, <2>12, CallKeeps
<1> QED
  BY <1>2, <1>3, <1>4 DEF ramfs2_write

LEMMA Ramfs2CallKeeps ==
    ASSUME FsInductive, mounted = "ramfs2", UNCHANGED <<attached, rvars, mounted>>, Ramfs2Call
    PROVE  FsInductive'
<1>2. disk \in [Block -> Data \cup {BLANK}]
  BY DEF DiskTypeOK, FsInductive
<1>4. ASSUME NEW n \in Name, ramfs2_create(n) PROVE FsInductive'
  <2>1. CASE Ramfs2Refuses("create", n, <<>>)
    BY <2>1, RefusalKeeps DEF Ops
  <2>2. CASE ~Ramfs2Refuses("create", n, <<>>)
    <3>1. /\ n \notin DOMAIN blocks /\ list' = <<n>> \o list
          /\ blocks' = [m \in DOMAIN blocks \cup {n} |-> IF m = n THEN <<>> ELSE blocks[m]]
          /\ UNCHANGED <<block_map, r2open, incidents>> /\ disk' = disk /\ call'.op \in Ops
      BY <1>4, <2>2 DEF ramfs2_create, Returns, Ops
    <3>2. Ramfs2TypeOK' /\ FilesInductive'
      BY <3>1, NewFile
    <3>3. \A m \in DOMAIN blocks : m \in DOMAIN blocks' /\ blocks'[m] = blocks[m]
      BY <3>1
    <3>4. writer' = writer /\ editor' = editor
      BY <3>1 DEF r2open
    <3>5. WriterTypeOK' /\ OpenAreRecords' /\ ArrayIsWriters' /\ RemovedIsThere'
      <4>1. (Writing => writer.n \in DOMAIN blocks) /\ (Removing => editor.n \in DOMAIN blocks)
        BY DEF FsInductive, ArrayIsWriters, RemovedIsThere
      <4> QED
        BY <3>3, <3>4, <4>1, OpenStay
    <3> QED
      BY <1>2, <3>1, <3>2, <3>5, Ramfs2Side
  <2> QED
    BY <2>1, <2>2
<1>5. ASSUME NEW n \in Name, ramfs2_remove(n) PROVE FsInductive'
  <2>1. CASE Ramfs2Refuses("remove", n, <<>>)
    BY <2>1, RefusalKeeps DEF Ops
  <2>2. CASE ~Ramfs2Refuses("remove", n, <<>>)
    <3>1. PICK hit \in SUBSET Block :
            /\ Cardinality(hit) <= Cardinality(Unfilled(n))
            /\ block_map' = block_map \ (Range(blocks[n]) \cup hit)
      BY <1>5, <2>2 DEF ramfs2_remove
    <3>2. /\ n \in DOMAIN blocks /\ blocks' = [m \in DOMAIN blocks \ {n} |-> blocks[m]]
          /\ list' = RemoveFirst(list, n)
          /\ incidents' = incidents \cup ({x \in {"junk_freed"} : JUNK \in Range(blocks[n])}
                                          \cup Meets("remove", n))
          /\ Passes("remove", n)
          /\ disk' = disk /\ call'.op \in Ops
      BY <1>5, <2>2 DEF ramfs2_remove, Returns, Incident, Ops
    <3>3. /\ incidents \subseteq incidents' /\ Meets("remove", n) \subseteq incidents'
          /\ JUNK \in Range(blocks[n]) => "junk_freed" \in incidents'
      BY <3>2
    <3>4. /\ Ramfs2TypeOK'
          /\ r2open' = r2open /\ ~(Removing /\ editor.n = n) => FilesInductive'
      BY <3>1, <3>2, <3>3, RemovedFile
    <3>5. ~MeetsWriter("remove", n) /\ ~MeetsEditor("remove", n) => FilesInductive'
      BY <3>2, <3>4 DEF Passes, MeetsEditor, r2open
    <3>6. \A m \in DOMAIN blocks : m # n => m \in DOMAIN blocks' /\ blocks'[m] = blocks[m]
      BY <3>2
    <3> QED
      BY <1>2, <3>2, <3>3, <3>4, <3>5, <3>6, CallKeeps
  <2> QED
    BY <2>1, <2>2
<1>6. ASSUME NEW n \in Name, NEW content \in Contents, ramfs2_write(n, content) PROVE FsInductive'
  BY <1>6, WriteCallKeeps
<1>7. CASE ramfs2_missing
  BY <1>7, RefusalKeeps DEF ramfs2_missing, Ops
<1> QED
  BY <1>4, <1>5, <1>6, <1>7 DEF Ramfs2Call

-----------------------------------------------------------------------------
(* The steps of an interrupted write. *)

LEMMA WriteBeginKeeps ==
    ASSUME FsInductive, mounted = "ramfs2", UNCHANGED <<attached, rvars, mounted>>,
           NEW n \in Name, NEW content \in Contents, WriteBegin(n, content)
    PROVE  FsInductive'
<1> USE DEF FsInductive
<1> DEFINE k == Len(content)
           arr == [i \in 1 .. k |-> JUNK]
<1>1. /\ writer.pc = "none" /\ n \in DOMAIN blocks /\ list' = list
      /\ blocks' = [blocks EXCEPT ![n] = [i \in DOMAIN content |-> JUNK]]
      /\ incidents' = incidents \cup (ArrayIncidents(n, k) \cup Meets("write", n))
      /\ writer' = [pc |-> "test", n |-> n, content |-> content, i |-> 1, blk |-> 0]
      /\ editor' = IF MeetsEditor("write", n) THEN NoCall ELSE editor
      /\ block_map' = block_map /\ disk' = disk /\ call'.op \in Ops
  BY DEF WriteBegin, Incident, Returns, Ops, Writing
<1>2. k \in Nat /\ k \in 0 .. MaxLen /\ DOMAIN content = 1 .. k
  BY ContentsAreSequences
<1>3. blocks' = [blocks EXCEPT ![n] = arr]
  BY <1>1, <1>2
<1> HIDE DEF k
<1>4. /\ arr \in [1 .. k -> Block \cup {JUNK}] /\ \A i \in 1 .. k : arr[i] = JUNK
      /\ JUNK \notin Block /\ block_map \subseteq Block
  BY JunkAssumption DEF Ramfs2TypeOK
<1>5. blocks[n] # <<>> => "forgotten" \in incidents'
  BY <1>1 DEF ArrayIncidents
<1>6. arr \in Seq(Block \cup {JUNK}) /\ Len(arr) = k /\ DOMAIN arr = 1 .. k
  BY <1>2, <1>4, SequenceOf
<1> HIDE DEF arr
<1>7. PICK new : new = {b \in Block : \E i \in 1 .. k : arr[i] = b}
  OBVIOUS
<1>8. new = {}
  BY <1>4, <1>7
<1>9. /\ \A i, j \in 1 .. k : arr[i] = arr[j] /\ arr[i] # JUNK => i = j
      /\ \A i \in 1 .. k : arr[i] \notin block_map
      /\ block_map' = block_map \cup new /\ new \cap GivenBack = {}
      /\ incidents \subseteq incidents' /\ Meets("write", n) \subseteq incidents'
  BY <1>1, <1>4, <1>8
<1> HIDE DEF FsInductive
<1>10. n \in DOMAIN blocks /\ block_map' \subseteq Block /\ list' = list /\ Ramfs2TypeOK
  BY <1>1, <1>4 DEF FsInductive
<1>11. /\ Ramfs2TypeOK' /\ DOMAIN blocks' = DOMAIN blocks /\ blocks'[n] = arr
       /\ \A m \in DOMAIN blocks : m # n => blocks'[m] = blocks[m]
  BY <1>2, <1>3, <1>4, <1>10, ArrayFits
<1>12. writer'.pc = "test" /\ writer'.n = n /\ writer'.content = content /\ writer'.i = 1
       /\ writer'.blk = 0 /\ writer' \in Writer
  <2>1. 0 \in Block
    BY DiskAssumption DEF Block
  <2> QED
    BY <1>1, <2>1 DEF Writer
<1>13. FilesInductive'
  <2>1. CASE MeetsEditor("write", n)
    <3>1. "same_node" \in incidents'
      BY <1>9, <2>1 DEF Meets
    <3> QED
      BY <3>1, MetNode
  <2>2. CASE ~MeetsEditor("write", n)
    <3>1. editor' = editor /\ ~(Removing /\ editor.n = n)
      BY <1>1, <2>2 DEF MeetsEditor
    <3>2. ~(writer.pc = "fill" \/ writer'.pc = "fill")
      BY <1>1, <1>12
    <3> QED
      BY <1>2, <1>3, <1>4, <1>5, <1>7, <1>9, <1>10, <3>1, <3>2, NewArray
  <2> QED
    BY <2>1, <2>2
<1>14. WriterTypeOK'
  <2>1. 1 \in 1 .. Len(content) + 1
    BY <1>2 DEF k
  <2> QED
    BY <1>12, <2>1 DEF WriterTypeOK, Writing, Writer
<1>15. OpenAreRecords'
  BY <1>1, <1>12 DEF FsInductive, OpenAreRecords, Editor
<1>16. ArrayIsWriters'
  <2>1. ~(Removing /\ editor.n = n)'
    BY <1>1 DEF Removing, MeetsEditor, NoCall
  <2>2. \A j \in DOMAIN blocks'[n] : blocks'[n][j] = JUNK
    BY <1>4, <1>6, <1>11
  <2> QED
    BY <1>6, <1>10, <1>11, <1>12, <2>1, <2>2 DEF ArrayIsWriters, k
<1>17. RemovedIsThere'
  <2>1. RemovedIsThere
    BY DEF FsInductive
  <2> QED
    BY <1>1, <1>11, <2>1 DEF RemovedIsThere, Removing, MeetsEditor, NoCall
<1>18. disk' \in [Block -> Data \cup {BLANK}] /\ call'.op \in Ops
  BY <1>1 DEF FsInductive, DiskTypeOK
<1> QED
  BY <1>9, <1>11, <1>13, <1>14, <1>15, <1>16, <1>17, <1>18, Ramfs2Side

\* The steps that change no array while no remove goes on.
LEMMA SameFiles ==
    ASSUME blocks' = blocks, editor' = editor
    PROVE  GivenBack' = GivenBack /\ \A m : Kept(m)' = Kept(m)
BY DEF GivenBack, Kept, Removing

\* A write that is given up, or has ended.
LEMMA WriterLeaves ==
    ASSUME FsInductive, mounted = "ramfs2", UNCHANGED <<attached, rvars, mounted>>,
           UNCHANGED <<r2vars, editor, disk, incidents>>, writer' = NoCall,
           call'.op \in Ops, writer.pc # "fill"
    PROVE  FsInductive'
<1> USE DEF FsInductive, r2vars
<1>1. disk' \in [Block -> Data \cup {BLANK}] /\ Ramfs2TypeOK'
  BY DEF DiskTypeOK, Ramfs2TypeOK
<1>2. GivenBack' = GivenBack /\ \A m : Kept(m)' = Kept(m)
  BY SameFiles
<1>3. writer'.pc = "none"
  BY DEF NoCall
<1>4. EntriesExclusive' /\ GivenBackIsFree'
  BY <1>2 DEF FilesInductive, EntriesExclusive, GivenBackIsFree
<1>5. MarkedIsHeld' /\ BlockIsWriters'
  BY <1>2, <1>3 DEF FilesInductive, MarkedIsHeld, BlockIsWriters
<1>6. WriterTypeOK' /\ OpenAreRecords' /\ ArrayIsWriters' /\ RemovedIsThere'
  BY OpenStay DEF RemovedIsThere
<1> QED
  BY <1>1, <1>4, <1>5, <1>6, Ramfs2Side DEF FilesInductive

LEMMA AllocTestKeeps ==
    ASSUME FsInductive, mounted = "ramfs2", UNCHANGED <<attached, rvars, mounted>>, AllocTest
    PROVE  FsInductive'
<1> USE DEF FsInductive
<1>1. /\ writer.pc = "test" /\ writer.i <= Len(writer.content)
      /\ UNCHANGED <<r2vars, editor, disk, incidents>> /\ call'.op \in Ops
      /\ writer' = IF block_map = Block THEN NoCall
                   ELSE [writer EXCEPT !.pc = "set", !.blk = alloc_block(block_map)]
  BY DEF AllocTest, InProgress, Returns, Ops
<1>2. CASE block_map = Block
  BY <1>1, <1>2, WriterLeaves
<1>3. CASE block_map # Block
  <2>1. Writing /\ writer \in Writer /\ writer.n \in Name /\ writer.content \in Contents
        /\ writer.i \in 1 .. Len(writer.content) + 1 /\ UNCHANGED r2vars
    BY <1>1, WriterFacts DEF Writing
  <2>2. alloc_block(block_map) \in Block
    BY <1>3, AllocBlock DEF Ramfs2TypeOK
  <2>3. /\ writer' \in Writer /\ writer'.pc = "set" /\ writer'.n = writer.n
        /\ writer'.content = writer.content /\ writer'.i = writer.i
    BY <1>1, <1>3, <2>1, <2>2 DEF Writer
  <2>4. WriterTypeOK' /\ OpenAreRecords'
    BY <1>1, <2>1, <2>3 DEF WriterTypeOK, OpenAreRecords, Writer, Editor
  <2>8. blocks' = blocks /\ list' = list /\ block_map' = block_map /\ editor' = editor
        /\ incidents' = incidents
    BY <1>1 DEF r2vars
  <2>5. ArrayIsWriters' /\ RemovedIsThere'
    BY <1>1, <2>1, <2>3, <2>8 DEF ArrayIsWriters, RemovedIsThere, Writing, Removing
  <2>9. GivenBack' = GivenBack /\ \A m : Kept(m)' = Kept(m)
    BY <2>8, SameFiles
  <2>6. FilesInductive'
    BY <1>1, <2>3, <2>8, <2>9 DEF FilesInductive, EntriesExclusive, MarkedIsHeld, BlockIsWriters,
                                  GivenBackIsFree
  <2>7. disk' \in [Block -> Data \cup {BLANK}] /\ incidents \subseteq incidents' /\ Ramfs2TypeOK'
    BY <1>1, <2>8 DEF DiskTypeOK, Ramfs2TypeOK
  <2> QED
    BY <1>1, <2>4, <2>5, <2>6, <2>7, Ramfs2Side
<1> QED
  BY <1>2, <1>3

LEMMA AllocSetKeeps ==
    ASSUME FsInductive, mounted = "ramfs2", UNCHANGED <<attached, rvars, mounted>>, AllocSet
    PROVE  FsInductive'
<1> USE DEF FsInductive
<1>1. /\ writer.pc = "set"
      /\ block_map' = block_map \cup {writer.blk} /\ UNCHANGED <<blocks, list, editor, disk>>
      /\ incidents' = incidents \cup ({x \in {"same_block"} : writer.blk \in block_map}
                                      \cup TakesBack({writer.blk}))
      /\ writer' = [writer EXCEPT !.pc = "fill"] /\ call'.op \in Ops
  BY DEF AllocSet, Incident, InProgress, Returns, Ops
<1>2. Writing /\ writer \in Writer /\ writer.n \in Name /\ writer.content \in Contents
      /\ writer.i \in 1 .. Len(writer.content) + 1 /\ writer.blk \in Block
  BY <1>1, WriterFacts DEF Writing
<1>3. /\ writer' \in Writer /\ writer'.pc = "fill" /\ writer'.n = writer.n
      /\ writer'.content = writer.content /\ writer'.i = writer.i
      /\ writer'.blk = writer.blk
  BY <1>1, <1>2 DEF Writer
<1>4. WriterTypeOK' /\ OpenAreRecords'
  BY <1>1, <1>2, <1>3 DEF WriterTypeOK, OpenAreRecords, Writer, Editor
<1>5. ArrayIsWriters' /\ RemovedIsThere'
  BY <1>1, <1>2, <1>3 DEF ArrayIsWriters, RemovedIsThere, Writing, Removing
<1>6. Ramfs2TypeOK' /\ disk' \in [Block -> Data \cup {BLANK}] /\ incidents \subseteq incidents'
  BY <1>1, <1>2 DEF Ramfs2TypeOK, DiskTypeOK
<1>10. GivenBack' = GivenBack /\ \A m : Kept(m)' = Kept(m)
  BY <1>1, SameFiles
<1>7. EntriesExclusive'
  BY <1>1, <1>10 DEF FilesInductive, EntriesExclusive
<1>8. MarkedIsHeld'
  BY <1>1, <1>3, <1>10 DEF FilesInductive, MarkedIsHeld
<1>9. BlockIsWriters'
  <2> SUFFICES ASSUME incidents' \cap {"junk_freed", "same_block", "same_node"} = {}
               PROVE  \A m \in DOMAIN blocks : \A j \in Kept(m) : blocks[m][j] # writer.blk
    BY <1>1, <1>3, <1>10 DEF BlockIsWriters
  <2>1. writer.blk \notin block_map
    BY <1>1
  <2>2. \A m \in DOMAIN blocks : \A j \in Kept(m) : blocks[m][j] \in block_map
    BY <1>1 DEF FilesInductive, EntriesExclusive
  <2> QED
    BY <2>1, <2>2
<1>11. GivenBackIsFree'
  <2> SUFFICES ASSUME incidents' \cap {"junk_freed", "same_block", "same_node", "reused_early"} = {}
               PROVE  GivenBack \cap block_map' = {}
    BY <1>10 DEF GivenBackIsFree
  <2>1. GivenBack \cap block_map = {}
    BY <1>1 DEF FilesInductive, GivenBackIsFree
  <2>2. writer.blk \notin GivenBack
    BY <1>1 DEF TakesBack
  <2> QED
    BY <1>1, <2>1, <2>2
<1> QED
  BY <1>1, <1>4, <1>5, <1>6, <1>7, <1>8, <1>9, <1>11, Ramfs2Side DEF FilesInductive

LEMMA WriteFillEffect ==
    ASSUME FsInductive, WriteFill
    PROVE  LET n == writer.n  i == writer.i  b == writer.blk IN
           /\ Writing /\ writer \in Writer /\ writer.pc = "fill"
           /\ n \in DOMAIN blocks /\ i \in DOMAIN blocks[n] /\ blocks[n][i] = JUNK /\ b \in Block
           /\ i \in 1 .. Len(writer.content) /\ i \in Nat
           /\ DOMAIN blocks' = DOMAIN blocks /\ DOMAIN blocks'[n] = DOMAIN blocks[n]
           /\ \A m \in DOMAIN blocks : m # n => blocks'[m] = blocks[m]
           /\ blocks'[n][i] = b /\ \A j \in DOMAIN blocks[n] : j # i => blocks'[n][j] = blocks[n][j]
           /\ blocks'[n] \in Seq(Block \cup {JUNK}) /\ Len(blocks'[n]) = Len(blocks[n])
           /\ disk' = Written(<<b>>, <<writer.content[i]>>)
           /\ writer' \in Writer /\ writer'.pc = "test" /\ writer'.n = n
           /\ writer'.content = writer.content /\ writer'.i = i + 1
           /\ UNCHANGED <<list, editor, block_map, incidents>> /\ ~(Removing /\ editor.n = n)
           /\ call' = [op |-> "write", name |-> n, arg |-> writer.content, ok |-> FALSE]
<1> USE DEF FsInductive
<1> DEFINE n == writer.n
           i == writer.i
           b == writer.blk
<1>1. /\ writer.pc = "fill"
      /\ blocks' = [blocks EXCEPT ![n][i] = b]
      /\ disk' = Written(<<b>>, <<writer.content[i]>>)
      /\ writer' = [writer EXCEPT !.pc = "test", !.i = @ + 1]
      /\ UNCHANGED <<list, editor, block_map, incidents>>
      /\ call' = [op |-> "write", name |-> n, arg |-> writer.content, ok |-> FALSE]
  BY DEF WriteFill, InProgress, Returns
<1>2. Writing /\ writer \in Writer /\ b \in Block /\ i \in 1 .. Len(writer.content) + 1 /\ i \in Nat
      /\ Len(writer.content) \in Nat /\ ~(Removing /\ editor.n = n)
  BY <1>1, WriterFacts DEF Writing
<1>3. /\ n \in DOMAIN blocks /\ Len(blocks[n]) = Len(writer.content) /\ i <= Len(writer.content)
      /\ \A j \in DOMAIN blocks[n] : j >= i => blocks[n][j] = JUNK
  BY <1>1, <1>2 DEF ArrayIsWriters
<1>4. i \in 1 .. Len(writer.content) /\ i \in 1 .. Len(blocks[n]) /\ DOMAIN blocks[n] = 1 .. Len(blocks[n])
      /\ blocks[n] \in Seq(Block \cup {JUNK})
  BY <1>2, <1>3, Arrays DEF Ramfs2TypeOK
<1>5. blocks[n][i] = JUNK
  BY <1>2, <1>3, <1>4
<1>6. /\ writer' \in Writer /\ writer'.pc = "test" /\ writer'.n = n
      /\ writer'.content = writer.content /\ writer'.i = i + 1
  <2>1. writer.i \in Nat /\ writer.i + 1 \in Nat
    BY <1>2
  <2> DEFINE after == writer.i + 1
  <2>2. writer' = [writer EXCEPT !.pc = "test", !.i = after]
    BY <1>1
  <2>3. after \in Nat
    BY <2>1
  <2> HIDE DEF after, FsInductive
  <2>4. /\ writer' \in Writer /\ writer'.pc = "test" /\ writer'.n = writer.n /\ writer'.i = after
        /\ writer'.content = writer.content
    BY <1>2, <2>2, <2>3 DEF Writer
  <2> QED
    BY <2>4 DEF after
<1>7. blocks' = [blocks EXCEPT ![n] = [blocks[n] EXCEPT ![i] = b]]
  BY <1>1
<1> HIDE DEF n, i, b
<1>8. /\ DOMAIN blocks' = DOMAIN blocks
      /\ \A m \in DOMAIN blocks : m # n => blocks'[m] = blocks[m]
      /\ blocks'[n] = [blocks[n] EXCEPT ![i] = b]
  BY <1>3, <1>7
<1>9. [blocks[n] EXCEPT ![i] = b] \in Seq(Block \cup {JUNK})
      /\ Len([blocks[n] EXCEPT ![i] = b]) = Len(blocks[n])
  BY <1>2, <1>4, ExceptSeq
<1>10. DOMAIN blocks'[n] = DOMAIN blocks[n] /\ blocks'[n][i] = b
       /\ \A j \in DOMAIN blocks[n] : j # i => blocks'[n][j] = blocks[n][j]
  BY <1>4, <1>8
<1> QED
  BY <1>1, <1>2, <1>3, <1>4, <1>5, <1>6, <1>8, <1>9, <1>10 DEF n, i, b

LEMMA WriteFillKeeps ==
    ASSUME FsInductive, mounted = "ramfs2", UNCHANGED <<attached, rvars, mounted>>, WriteFill
    PROVE  FsInductive'
<1> USE DEF FsInductive
<1>0. PICK n, i, b : n = writer.n /\ i = writer.i /\ b = writer.blk
  OBVIOUS
<1>1. /\ Writing /\ writer \in Writer /\ writer.pc = "fill"
      /\ n \in DOMAIN blocks /\ i \in DOMAIN blocks[n] /\ blocks[n][i] = JUNK /\ b \in Block
      /\ i \in 1 .. Len(writer.content) /\ i \in Nat
      /\ DOMAIN blocks' = DOMAIN blocks /\ DOMAIN blocks'[n] = DOMAIN blocks[n]
      /\ \A m \in DOMAIN blocks : m # n => blocks'[m] = blocks[m]
      /\ blocks'[n][i] = b /\ \A j \in DOMAIN blocks[n] : j # i => blocks'[n][j] = blocks[n][j]
      /\ blocks'[n] \in Seq(Block \cup {JUNK}) /\ Len(blocks'[n]) = Len(blocks[n])
      /\ disk' = Written(<<b>>, <<writer.content[i]>>)
      /\ writer' \in Writer /\ writer'.pc = "test" /\ writer'.n = n
      /\ writer'.content = writer.content /\ writer'.i = i + 1
      /\ UNCHANGED <<list, editor, block_map, incidents>> /\ ~(Removing /\ editor.n = n)
      /\ call' = [op |-> "write", name |-> n, arg |-> writer.content, ok |-> FALSE]
  BY <1>0, WriteFillEffect, Zenon
<1>2. writer.content \in Contents /\ writer.content[i] \in Data /\ Len(writer.content) \in Nat
      /\ JUNK \notin Block
  BY <1>1, WriterFacts, ContentsAreSequences, JunkAssumption
<1> HIDE DEF FsInductive
<1>3. disk' \in [Block -> Data \cup {BLANK}]
  <2>1. <<writer.content[i]>> \in [1 .. 1 -> Data]
    BY <1>2
  <2> QED
    BY <1>1, <2>1, WrittenFits DEF FsInductive
<1>4. Ramfs2TypeOK'
  BY <1>1 DEF FsInductive, Ramfs2TypeOK
<1>5. WriterTypeOK' /\ OpenAreRecords'
  <2>1. writer'.i \in 1 .. Len(writer'.content) + 1
    BY <1>1, <1>2
  <2> QED
    BY <1>1, <2>1 DEF FsInductive, WriterTypeOK, OpenAreRecords, Writer, Editor
<1>6. ArrayIsWriters'
  <2>1. writer'.n \in DOMAIN blocks' /\ Len(blocks'[writer'.n]) = Len(writer'.content)
    BY <1>0, <1>1 DEF FsInductive, ArrayIsWriters
  <2>2. ASSUME NEW j \in DOMAIN blocks[n], j >= i + 1 PROVE blocks'[n][j] = JUNK
    <3>1. DOMAIN blocks[n] = 1 .. Len(blocks[n])
      BY <1>1, Arrays DEF FsInductive
    <3>2. j \in Nat /\ j >= i /\ j # i
      BY <1>1, <2>2, <3>1
    <3>3. blocks[n][j] = JUNK
      BY <1>0, <1>1, <3>2 DEF FsInductive, ArrayIsWriters
    <3> QED
      BY <1>1, <3>2, <3>3
  <2> QED
    BY <1>1, <2>1, <2>2 DEF ArrayIsWriters, Removing
<1>12. RemovedIsThere'
  BY <1>1 DEF FsInductive, RemovedIsThere, Removing
<1>13. /\ \A m \in DOMAIN blocks : m # n => Kept(m)' = Kept(m)
       /\ Kept(n)' = Kept(n) \cup {i} /\ i \notin Kept(n)
  <2>1. \A m \in DOMAIN blocks : m # n => Kept(m)' = Kept(m)
    BY <1>1, KeptStays
  <2>2. /\ Kept(n) = {j \in DOMAIN blocks[n] : blocks[n][j] # JUNK}
        /\ Kept(n)' = {j \in DOMAIN blocks[n] : blocks'[n][j] # JUNK}
    BY <1>1, KeptWhole
  <2> QED
    BY <1>1, <1>2, <2>1, <2>2
<1>14. GivenBack' = GivenBack
  BY <1>1, GivenBackStays DEF FsInductive, RemovedIsThere
<1>15. \A m \in DOMAIN blocks : \A j \in Kept(m) : blocks'[m][j] = blocks[m][j]
  <2>1. \A j \in Kept(n) : j \in DOMAIN blocks[n] /\ j # i
    BY <1>1, <1>13, KeptFacts DEF FsInductive
  <2> QED
    BY <1>1, <2>1
<1>7. ASSUME incidents \cap {"junk_freed", "same_block", "same_node"} = {}
      PROVE  /\ b \in block_map
             /\ \A m \in DOMAIN blocks : \A j \in Kept(m) : blocks[m][j] # b
  BY <1>0, <1>1, <1>7 DEF FsInductive, FilesInductive, BlockIsWriters
<1>8. EntriesExclusive'
  <2> SUFFICES ASSUME incidents \cap {"junk_freed", "same_block", "same_node"} = {},
                      NEW l \in DOMAIN blocks, NEW x \in Kept(l)'
               PROVE  /\ blocks'[l][x] \in block_map
                      /\ \A m \in DOMAIN blocks : \A j \in Kept(m)' :
                           blocks'[m][j] = blocks'[l][x] => m = l /\ j = x
    BY <1>1 DEF EntriesExclusive
  <2>1. \A m \in DOMAIN blocks : \A j \in Kept(m) :
          /\ blocks[m][j] \in block_map
          /\ \A p \in DOMAIN blocks : \A q \in Kept(p) :
               blocks[p][q] = blocks[m][j] => p = m /\ q = j
    BY DEF FsInductive, FilesInductive, EntriesExclusive
  <2>2. \A m \in DOMAIN blocks : \A j \in Kept(m)' :
          (m = n /\ j = i) \/ (j \in Kept(m) /\ blocks'[m][j] = blocks[m][j])
    BY <1>13, <1>15
  <2>3. CASE l = n /\ x = i
    BY <1>1, <1>7, <2>2, <2>3
  <2>4. CASE ~(l = n /\ x = i)
    <3>1. x \in Kept(l) /\ blocks'[l][x] = blocks[l][x] /\ blocks[l][x] # b
      BY <1>7, <2>2, <2>4
    <3>2. /\ blocks[l][x] \in block_map
          /\ \A p \in DOMAIN blocks : \A q \in Kept(p) :
               blocks[p][q] = blocks[l][x] => p = l /\ q = x
      BY <2>1, <3>1
    <3> QED
      BY <1>1, <2>2, <3>1, <3>2
  <2> QED
    BY <2>3, <2>4
<1>9. MarkedIsHeld'
  <2> SUFFICES ASSUME incidents \cap {"forgotten", "same_node", "lost_node", "same_name"} = {},
                      NEW c \in block_map
               PROVE  \E m \in DOMAIN blocks : \E j \in Kept(m)' : blocks'[m][j] = c
    BY <1>1 DEF MarkedIsHeld
  <2>1. \/ \E m \in DOMAIN blocks : \E j \in Kept(m) : blocks[m][j] = c
        \/ c = b
    BY <1>0 DEF FsInductive, FilesInductive, MarkedIsHeld
  <2>3. CASE c = b
    BY <1>1, <1>13, <2>3
  <2>4. CASE c # b
    <3>1. PICK m \in DOMAIN blocks : \E j \in Kept(m) : blocks[m][j] = c
      BY <2>1, <2>4
    <3>2. \E j \in Kept(m)' : blocks'[m][j] = c
      BY <1>13, <1>15, <3>1
    <3> QED
      BY <3>2
  <2> QED
    BY <2>3, <2>4
<1>10. BlockIsWriters' /\ GivenBackIsFree'
  BY <1>1, <1>14 DEF FsInductive, FilesInductive, BlockIsWriters, GivenBackIsFree
<1>11. call'.op \in Ops /\ incidents \subseteq incidents'
  BY <1>1 DEF Ops
<1> QED
  BY <1>3, <1>4, <1>5, <1>6, <1>8, <1>9, <1>10, <1>11, <1>12, Ramfs2Side DEF FilesInductive

LEMMA WriteOnKeeps ==
    ASSUME FsInductive, mounted = "ramfs2", UNCHANGED <<attached, rvars, mounted>>, WriteOn
    PROVE  FsInductive'
<1>1. CASE WriteEnd
  BY <1>1, WriterLeaves DEF WriteEnd, Returns, Ops
<1> QED
  BY <1>1, AllocTestKeeps, AllocSetKeeps, WriteFillKeeps DEF WriteOn

-----------------------------------------------------------------------------
(* The steps of an interrupted create or remove. *)

LEMMA CreateOnKeeps ==
    ASSUME FsInductive, mounted = "ramfs2", UNCHANGED <<attached, rvars, mounted>>,
           ~Removing, editor' \in Editor, editor'.pc # "unmark",
           UNCHANGED <<r2vars, writer, disk, incidents, call>>
    PROVE  FsInductive'
<1> USE DEF FsInductive, r2vars
<1>1. ~Removing'
  BY DEF Removing
<1>2. GivenBack' = GivenBack /\ \A m : Kept(m)' = Kept(m)
  BY <1>1 DEF GivenBack, Kept
<1>3. FilesInductive'
  BY <1>2 DEF FilesInductive, EntriesExclusive, MarkedIsHeld, BlockIsWriters, GivenBackIsFree
<1>4. Ramfs2TypeOK' /\ disk' \in [Block -> Data \cup {BLANK}] /\ call'.op \in Ops
  BY DEF Ramfs2TypeOK, DiskTypeOK, Ops
<1>5. WriterTypeOK' /\ OpenAreRecords'
  BY DEF WriterTypeOK, OpenAreRecords, Writing, Writer
<1>6. ArrayIsWriters' /\ RemovedIsThere'
  BY <1>1 DEF ArrayIsWriters, RemovedIsThere, Writing
<1> QED
  BY <1>3, <1>4, <1>5, <1>6, Ramfs2Side

LEMMA CreateBeginKeeps ==
    ASSUME FsInductive, mounted = "ramfs2", UNCHANGED <<attached, rvars, mounted>>,
           NEW n \in Name, CreateBegin(n)
    PROVE  FsInductive'
<1>1. editor.pc = "none" /\ editor' = [pc |-> "new", n |-> n]
      /\ UNCHANGED <<r2vars, writer, disk, incidents, call>>
  BY DEF CreateBegin
<1>2. ~Removing /\ editor' \in Editor /\ editor'.pc # "unmark"
  BY <1>1 DEF Removing, Editor
<1> QED
  BY <1>1, <1>2, CreateOnKeeps

LEMMA CreateNextKeeps ==
    ASSUME FsInductive, mounted = "ramfs2", UNCHANGED <<attached, rvars, mounted>>, CreateNext
    PROVE  FsInductive'
<1> DEFINE first == {list[i] : i \in DOMAIN list \cap {1}}
<1>1. editor.pc = "new" /\ editor' = [pc |-> "link", n |-> editor.n, beside |-> first]
      /\ UNCHANGED <<r2vars, writer, disk, incidents, call>>
  BY DEF CreateNext
<1>2. first \subseteq Name
  <2>1. \A i \in DOMAIN list : list[i] \in Name
    BY ElementOfSeq, LenProperties DEF FsInductive, Ramfs2TypeOK
  <2> QED
    BY <2>1
<1>3. editor.n \in Name
  BY <1>1, EditorFacts
<1> HIDE DEF first
<1>4. ~Removing /\ editor' \in Editor /\ editor'.pc # "unmark"
  BY <1>1, <1>2, <1>3 DEF Removing, Editor
<1> QED
  BY <1>1, <1>4, CreateOnKeeps

LEMMA RemoveBeginKeeps ==
    ASSUME FsInductive, mounted = "ramfs2", UNCHANGED <<attached, rvars, mounted>>,
           NEW n \in Name, RemoveBegin(n)
    PROVE  FsInductive'
<1> DEFINE before == {list[j] : j \in {PlaceOf(n) - 1} \ {0}}
<1>1. /\ editor.pc = "none" /\ n \in DOMAIN blocks
      /\ editor' = [pc |-> "unmark", n |-> n, i |-> 1, beside |-> before]
      /\ incidents' = incidents \cup {x \in {"same_node"} : MeetsWriter("remove", n)}
      /\ writer' = IF MeetsWriter("remove", n) THEN NoCall ELSE writer
      /\ UNCHANGED <<r2vars, disk, call>>
  BY DEF RemoveBegin, Incident
<1>2. before \subseteq Name
  <2>1. \A i \in 1 .. Len(list) : list[i] \in Name
    BY ElementOfSeq DEF FsInductive, Ramfs2TypeOK
  <2>2. PlaceOf(n) \in 1 .. Len(list) /\ Len(list) \in Nat
    BY <1>1, PlaceInList, ListFacts DEF FsInductive
  <2>3. \A j \in {PlaceOf(n) - 1} \ {0} : j \in 1 .. Len(list)
    BY <2>2
  <2> QED
    BY <2>1, <2>3
<1> HIDE DEF before
<1>3. /\ editor' \in Editor /\ editor'.pc = "unmark" /\ editor'.n = n /\ editor'.i = 1
      /\ blocks' = blocks /\ list' = list /\ block_map' = block_map
  BY <1>1, <1>2 DEF Editor, r2vars
<1>4. Len(blocks[n]) \in Nat /\ \A m \in DOMAIN blocks : DOMAIN blocks[m] = 1 .. Len(blocks[m])
  BY <1>1, Arrays DEF FsInductive
<1>5. GivenBack' = {} /\ \A m \in DOMAIN blocks : Kept(m)' = Kept(m)
  <2>1. \A m \in DOMAIN blocks : \A i \in DOMAIN blocks[m] : ~(i < 1)
    BY <1>4
  <2>2. ~Removing
    BY <1>1 DEF Removing
  <2>3. 1 .. 1 - 1 = {}
    OBVIOUS
  <2> QED
    BY <1>3, <2>1, <2>2, <2>3 DEF GivenBack, Kept, Removing
<1>6. FilesInductive'
  <2>1. CASE MeetsWriter("remove", n)
    BY <1>1, <2>1, MetNode
  <2>2. CASE ~MeetsWriter("remove", n)
    <3>1. writer' = writer /\ incidents' = incidents
      BY <1>1, <2>2
    <3>2. EntriesExclusive' /\ MarkedIsHeld' /\ BlockIsWriters'
      BY <1>3, <1>5, <3>1 DEF FsInductive, FilesInductive, EntriesExclusive, MarkedIsHeld,
                              BlockIsWriters
    <3>3. GivenBackIsFree'
      BY <1>5 DEF GivenBackIsFree
    <3> QED
      BY <3>2, <3>3 DEF FilesInductive
  <2> QED
    BY <2>1, <2>2
<1>7. WriterTypeOK' /\ OpenAreRecords' /\ ArrayIsWriters' /\ RemovedIsThere'
  <2>1. RemovedIsThere'
    BY <1>1, <1>3, <1>4 DEF RemovedIsThere
  <2>2. WriterTypeOK' /\ OpenAreRecords'
    BY <1>1, <1>3 DEF FsInductive, WriterTypeOK, OpenAreRecords, Writing, Writer, NoCall
  <2>3. ArrayIsWriters'
    BY <1>1, <1>3 DEF FsInductive, ArrayIsWriters, Writing, NoCall, MeetsWriter
  <2> QED
    BY <2>1, <2>2, <2>3
<1>8. /\ disk' \in [Block -> Data \cup {BLANK}] /\ call'.op \in Ops /\ Ramfs2TypeOK'
      /\ incidents \subseteq incidents'
  BY <1>1, <1>3 DEF FsInductive, DiskTypeOK, Ramfs2TypeOK, Ops
<1> QED
  BY <1>6, <1>7, <1>8, Ramfs2Side

\* One entry less of the file counts.
LEMMA RemoveUnmarkEffect ==
    ASSUME FsInductive, RemoveUnmark
    PROVE  \E n, i, b :
             /\ n = editor.n /\ i = editor.i /\ n \in DOMAIN blocks
             /\ i \in DOMAIN blocks[n] /\ i \in Nat /\ i \in 1 .. Len(blocks[n])
             /\ ~(Writing /\ writer.n = n)
             /\ blocks[n][i] \in {b, JUNK} /\ block_map' = block_map \ {b}
             /\ incidents' = incidents \cup {x \in {"junk_freed"} : blocks[n][i] = JUNK}
             /\ editor' \in Editor /\ editor'.pc = "unmark" /\ editor'.n = n /\ editor'.i = i + 1
             /\ Kept(n)' = Kept(n) \ {i} /\ (blocks[n][i] # JUNK => i \in Kept(n))
             /\ \A m \in DOMAIN blocks : m # n => Kept(m)' = Kept(m)
             /\ GivenBack' = GivenBack \cup {blocks[n][i]}
             /\ UNCHANGED <<blocks, list, writer, disk, call>>
<1>1. PICK n, i : n = editor.n /\ i = editor.i
  OBVIOUS
<1>2. /\ Removing /\ i \in DOMAIN blocks[n]
      /\ \E b \in Block \cup {JUNK} :
           /\ blocks[n][i] \in {b, JUNK}
           /\ block_map' = block_map \ {b}
      /\ incidents' = incidents \cup {x \in {"junk_freed"} : blocks[n][i] = JUNK}
      /\ editor' = [editor EXCEPT !.i = @ + 1]
      /\ UNCHANGED <<blocks, list, writer, disk, call>>
  BY <1>1 DEF RemoveUnmark, Incident
<1>3. PICK b \in Block \cup {JUNK} : blocks[n][i] \in {b, JUNK} /\ block_map' = block_map \ {b}
  BY <1>2
<1>4. /\ editor \in [pc : {"unmark"}, n : Name, i : Nat, beside : SUBSET Name]
      /\ n \in DOMAIN blocks /\ i \in Nat
  BY <1>1, <1>2, EditorFacts DEF Removing
<1>5. i + 1 \in Nat
  BY <1>4
<1>6. /\ editor' \in [pc : {"unmark"}, n : Name, i : Nat, beside : SUBSET Name]
      /\ editor'.n = n /\ editor'.i = i + 1
  BY <1>1, <1>2, <1>4, <1>5
<1>7. editor' \in Editor /\ editor'.pc = "unmark"
  BY <1>6 DEF Editor
<1>8. DOMAIN blocks[n] = 1 .. Len(blocks[n]) /\ Len(blocks[n]) \in Nat
  BY <1>4, Arrays DEF FsInductive
<1>9. ~(Writing /\ writer.n = n)
  BY <1>1, <1>2, WriterFacts
<1>10. Removing' /\ blocks' = blocks
  BY <1>2, <1>7 DEF Removing
<1>11. /\ Kept(n) = {j \in DOMAIN blocks[n] : blocks[n][j] # JUNK /\ ~(j < i)}
       /\ Kept(n)' = {j \in DOMAIN blocks[n] : blocks[n][j] # JUNK /\ ~(j < i + 1)}
  BY <1>1, <1>2, <1>6, <1>10 DEF Kept
<1>12. \A j \in DOMAIN blocks[n] : ~(j < i + 1) <=> ~(j < i) /\ j # i
  BY <1>4, <1>8
<1>13. Kept(n)' = Kept(n) \ {i} /\ (blocks[n][i] # JUNK => i \in Kept(n))
  BY <1>2, <1>4, <1>11, <1>12
<1>14. \A m \in DOMAIN blocks : m # n => Kept(m)' = Kept(m)
  BY <1>1, <1>6, <1>10 DEF Kept
<1>15. GivenBack' = GivenBack \cup {blocks[n][i]}
  <2>1. GivenBack = {blocks[n][j] : j \in 1 .. i - 1}
    BY <1>1, <1>2 DEF GivenBack
  <2>2. GivenBack' = {blocks[n][j] : j \in 1 .. (i + 1) - 1}
    BY <1>6, <1>10 DEF GivenBack
  <2>3. 1 .. (i + 1) - 1 = (1 .. i - 1) \cup {i}
    BY <1>4, <1>8, <1>2
  <2> QED
    BY <2>1, <2>2, <2>3
<1>16. i \in 1 .. Len(blocks[n])
  BY <1>2, <1>8
<1> QED
  BY <1>1, <1>2, <1>3, <1>4, <1>6, <1>7, <1>9, <1>13, <1>14, <1>15, <1>16

LEMMA RemoveUnmarkKeeps ==
    ASSUME FsInductive, mounted = "ramfs2", UNCHANGED <<attached, rvars, mounted>>, RemoveUnmark
    PROVE  FsInductive'
<1>1. PICK n, i, b :
         /\ n = editor.n /\ i = editor.i /\ n \in DOMAIN blocks
         /\ i \in DOMAIN blocks[n] /\ i \in Nat /\ i \in 1 .. Len(blocks[n])
         /\ ~(Writing /\ writer.n = n)
         /\ blocks[n][i] \in {b, JUNK} /\ block_map' = block_map \ {b}
         /\ incidents' = incidents \cup {x \in {"junk_freed"} : blocks[n][i] = JUNK}
         /\ editor' \in Editor /\ editor'.pc = "unmark" /\ editor'.n = n /\ editor'.i = i + 1
         /\ Kept(n)' = Kept(n) \ {i} /\ (blocks[n][i] # JUNK => i \in Kept(n))
         /\ \A m \in DOMAIN blocks : m # n => Kept(m)' = Kept(m)
         /\ GivenBack' = GivenBack \cup {blocks[n][i]}
         /\ UNCHANGED <<blocks, list, writer, disk, call>>
  BY RemoveUnmarkEffect
<1>2. \A m \in DOMAIN blocks : Kept(m)' \subseteq Kept(m)
  BY <1>1
<1>3. "junk_freed" \notin incidents' => blocks[n][i] = b /\ i \in Kept(n)
  BY <1>1
<1>4. EntriesExclusive'
  <2> SUFFICES ASSUME incidents' \cap {"junk_freed", "same_block", "same_node"} = {},
                      NEW l \in DOMAIN blocks, NEW x \in Kept(l)'
               PROVE  /\ blocks[l][x] \in block_map'
                      /\ \A m \in DOMAIN blocks : \A j \in Kept(m)' :
                           blocks[m][j] = blocks[l][x] => m = l /\ j = x
    BY <1>1 DEF EntriesExclusive
  <2>1. \A m \in DOMAIN blocks : \A j \in Kept(m) :
          /\ blocks[m][j] \in block_map
          /\ \A p \in DOMAIN blocks : \A q \in Kept(p) :
               blocks[p][q] = blocks[m][j] => p = m /\ q = j
    BY <1>1 DEF FsInductive, FilesInductive, EntriesExclusive
  <2>2. x \in Kept(l) /\ ~(l = n /\ x = i)
    BY <1>1, <1>2
  <2>4. blocks[n][i] = b /\ i \in Kept(n) /\ n \in DOMAIN blocks
    BY <1>1, <1>3
  <2>3. blocks[l][x] # b
    BY <2>1, <2>2, <2>4
  <2> QED
    BY <1>1, <1>2, <2>1, <2>2, <2>3
<1>5. MarkedIsHeld'
  <2> SUFFICES ASSUME incidents' \cap {"forgotten", "same_node", "lost_node", "same_name"} = {},
                      NEW c \in block_map, c # b
               PROVE  \/ \E m \in DOMAIN blocks : \E j \in Kept(m)' : blocks[m][j] = c
                      \/ writer.pc = "fill" /\ writer.blk = c
    BY <1>1 DEF MarkedIsHeld
  <2>1. \/ \E m \in DOMAIN blocks : \E j \in Kept(m) : blocks[m][j] = c
        \/ writer.pc = "fill" /\ writer.blk = c
    BY <1>1 DEF FsInductive, FilesInductive, MarkedIsHeld
  <2>2. c # JUNK
    BY JunkAssumption DEF FsInductive, Ramfs2TypeOK
  <2>3. ASSUME NEW m \in DOMAIN blocks, NEW j \in Kept(m), blocks[m][j] = c PROVE j \in Kept(m)'
    BY <1>1, <2>2, <2>3
  <2> QED
    BY <2>1, <2>3
<1>6. BlockIsWriters'
  <2> SUFFICES ASSUME incidents' \cap {"junk_freed", "same_block", "same_node"} = {},
                      writer.pc = "fill"
               PROVE  /\ writer.blk \in block_map'
                      /\ \A m \in DOMAIN blocks : \A j \in Kept(m)' : blocks[m][j] # writer.blk
    BY <1>1 DEF BlockIsWriters
  <2>1. /\ writer.blk \in block_map
        /\ \A m \in DOMAIN blocks : \A j \in Kept(m) : blocks[m][j] # writer.blk
    BY <1>1 DEF FsInductive, FilesInductive, BlockIsWriters
  <2> QED
    BY <1>1, <1>2, <1>3, <2>1
<1>7. GivenBackIsFree'
  <2> SUFFICES ASSUME incidents' \cap {"junk_freed", "same_block", "same_node", "reused_early"} = {}
               PROVE  GivenBack' \cap block_map' = {}
    BY DEF GivenBackIsFree
  <2>1. GivenBack \cap block_map = {}
    BY <1>1 DEF FsInductive, FilesInductive, GivenBackIsFree
  <2> QED
    BY <1>1, <1>3, <2>1
<1>8. WriterTypeOK' /\ OpenAreRecords'
  BY <1>1 DEF FsInductive, WriterTypeOK, OpenAreRecords, Writing, Writer
<1>9. ArrayIsWriters'
  BY <1>1 DEF FsInductive, ArrayIsWriters, Writing
<1>10. RemovedIsThere'
  <2>1. Len(blocks[n]) \in Nat
    BY <1>1, Arrays DEF FsInductive
  <2>2. i + 1 \in 1 .. Len(blocks[n]) + 1
    BY <1>1, <2>1
  <2> QED
    BY <1>1, <2>2 DEF RemovedIsThere
<1>11. /\ disk' \in [Block -> Data \cup {BLANK}] /\ call'.op \in Ops /\ Ramfs2TypeOK'
       /\ incidents \subseteq incidents'
  BY <1>1 DEF FsInductive, DiskTypeOK, Ramfs2TypeOK, Ops
<1> QED
  BY <1>4, <1>5, <1>6, <1>7, <1>8, <1>9, <1>10, <1>11, Ramfs2Side DEF FilesInductive

\* The list is made anew: some files are dropped, at most one comes in.
LEMMA Relinked ==
    ASSUME FsInductive, mounted = "ramfs2", UNCHANGED <<attached, rvars, mounted>>,
           Ramfs2TypeOK', NEW files, files \subseteq DOMAIN blocks, files \subseteq DOMAIN blocks',
           \A m \in files : blocks'[m] = blocks[m],
           \A m \in DOMAIN blocks' : m \in files \/ blocks'[m] = <<>>,
           NEW gone, Removing => editor.n = gone /\ Kept(gone) = {} /\ gone \notin files,
           incidents' \cap {"lost_node", "same_node", "same_name"} = {} =>
             files = DOMAIN blocks \/ (Removing /\ files = DOMAIN blocks \ {gone}),
           editor' = NoCall, OnlyThese(files),
           Writing /\ writer.n \notin files => "same_node" \in incidents',
           incidents \subseteq incidents', UNCHANGED <<block_map, disk>>, call'.op \in Ops
    PROVE  FsInductive'
<1>1. editor'.pc = "none" /\ ~Removing'
  BY DEF NoCall, Removing
<1>2. writer' = NoCall \/ (writer' = writer /\ (Writing => writer.n \in files))
  BY DEF OnlyThese
<1>3. \A m \in files : Kept(m)' = Kept(m)
  BY <1>1 DEF Kept
<1>4. \A m \in DOMAIN blocks' : m \notin files => Kept(m)' = {}
  <2>1. DOMAIN <<>> = {}
    OBVIOUS
  <2> QED
    BY <2>1 DEF Kept
<1>5. GivenBack' = {}
  BY <1>1 DEF GivenBack
<1>6. FilesInductive'
  <2>1. CASE Writing /\ writer.n \notin files
    BY <2>1, MetNode
  <2>2. CASE ~(Writing /\ writer.n \notin files)
    <3>1. writer' = writer
      BY <2>2 DEF OnlyThese
    <3>2. EntriesExclusive'
      <4>1. \A m \in DOMAIN blocks' : \A j \in Kept(m)' :
              m \in DOMAIN blocks /\ j \in Kept(m) /\ blocks'[m][j] = blocks[m][j]
        BY <1>3, <1>4
      <4> SUFFICES ASSUME incidents' \cap {"junk_freed", "same_block", "same_node"} = {},
                          NEW l \in DOMAIN blocks', NEW x \in Kept(l)'
                   PROVE  /\ blocks'[l][x] \in block_map
                          /\ \A m \in DOMAIN blocks' : \A j \in Kept(m)' :
                               blocks'[m][j] = blocks'[l][x] => m = l /\ j = x
        BY DEF EntriesExclusive
      <4>2. \A m \in DOMAIN blocks : \A j \in Kept(m) :
              /\ blocks[m][j] \in block_map
              /\ \A p \in DOMAIN blocks : \A q \in Kept(p) :
                   blocks[p][q] = blocks[m][j] => p = m /\ q = j
        BY DEF FsInductive, FilesInductive, EntriesExclusive
      <4> QED
        BY <4>1, <4>2
    <3>3. MarkedIsHeld'
      <4> SUFFICES ASSUME incidents' \cap {"forgotten", "same_node", "lost_node", "same_name"} = {},
                          NEW c \in block_map
                   PROVE  \/ \E m \in DOMAIN blocks' : \E j \in Kept(m)' : blocks'[m][j] = c
                          \/ writer.pc = "fill" /\ writer.blk = c
        BY <3>1 DEF MarkedIsHeld
      <4>1. \/ \E m \in DOMAIN blocks : \E j \in Kept(m) : blocks[m][j] = c
            \/ writer.pc = "fill" /\ writer.blk = c
        BY DEF FsInductive, FilesInductive, MarkedIsHeld
      <4>2. ASSUME NEW m \in DOMAIN blocks, NEW j \in Kept(m), blocks[m][j] = c
            PROVE  m \in DOMAIN blocks' /\ j \in Kept(m)' /\ blocks'[m][j] = c
        <5>1. m \in files
          BY <4>2
        <5> QED
          BY <1>3, <4>2, <5>1
      <4> QED
        BY <4>1, <4>2
    <3>4. BlockIsWriters'
      <4>1. \A m \in DOMAIN blocks' : \A j \in Kept(m)' :
              m \in DOMAIN blocks /\ j \in Kept(m) /\ blocks'[m][j] = blocks[m][j]
        BY <1>3, <1>4
      <4> QED
        BY <3>1, <4>1 DEF FsInductive, FilesInductive, BlockIsWriters
    <3>5. GivenBackIsFree'
      BY <1>5 DEF GivenBackIsFree
    <3> QED
      BY <3>2, <3>3, <3>4, <3>5 DEF FilesInductive
  <2> QED
    BY <2>1, <2>2
<1>7. WriterTypeOK' /\ OpenAreRecords' /\ ArrayIsWriters' /\ RemovedIsThere'
  BY <1>2, OpenStay
<1>8. disk' \in [Block -> Data \cup {BLANK}]
  BY DEF FsInductive, DiskTypeOK
<1> QED
  BY <1>6, <1>7, <1>8, Ramfs2Side

LEMMA CreateLinkKeeps ==
    ASSUME FsInductive, mounted = "ramfs2", UNCHANGED <<attached, rvars, mounted>>, CreateLink
    PROVE  FsInductive'
<1>1. PICK n, on, files : n = editor.n /\ on = Onward /\ files = Range(on) \ {n}
  OBVIOUS
<1>2. /\ editor.pc = "link" /\ n \in Name /\ Ramfs2TypeOK
      /\ list' = <<n>> \o RemoveFirst(on, n)
      /\ blocks' = [m \in {n} \cup Range(on) |-> IF m = n THEN <<>> ELSE blocks[m]]
      /\ incidents' = incidents \cup (ListIncidents(on # list, files)
                                      \cup {x \in {"same_name"} : n \in Range(on)})
      /\ OnlyThese(files) /\ editor' = NoCall /\ UNCHANGED <<block_map, disk>>
      /\ call'.op \in Ops
  <2>1. editor.pc = "link"
    BY DEF CreateLink
  <2>2. n \in Name
    BY <1>1, <2>1, EditorFacts
  <2> QED
    BY <1>1, <2>1, <2>2 DEF CreateLink, Incident, Returns, Ops, FsInductive
<1>3. on \in Seq(Name) /\ IsInjective(on) /\ Range(on) \subseteq DOMAIN blocks
  BY <1>1, <1>2, OnwardFacts
<1>4. /\ RemoveFirst(on, n) \in Seq(Name) /\ IsInjective(RemoveFirst(on, n))
      /\ Range(RemoveFirst(on, n)) = files
  BY <1>1, <1>3, RemovedFirst
<1>5. list' \in Seq(Name) /\ IsInjective(list') /\ Range(list') = {n} \cup files
  <2>1. n \notin files
    BY <1>1
  <2> QED
    BY <1>2, <1>4, <2>1, HeadOf
<1>6. /\ DOMAIN blocks' = {n} \cup files /\ blocks'[n] = <<>>
      /\ \A m \in files : blocks'[m] = blocks[m]
  BY <1>1, <1>2
<1>7. Ramfs2TypeOK'
  <2>1. <<>> \in Seq(Block \cup {JUNK}) /\ Len(<<>>) = 0
    BY EmptySeq
  <2> QED
    BY <1>1, <1>2, <1>3, <1>5, <1>6, <2>1, DiskAssumption DEF Ramfs2TypeOK
<1>8. Writing /\ writer.n \notin files => "same_node" \in incidents'
  BY <1>2 DEF ListIncidents
<1>9. incidents' \cap {"lost_node", "same_node", "same_name"} = {} => files = DOMAIN blocks
  <2> SUFFICES ASSUME "lost_node" \notin incidents', "same_name" \notin incidents'
               PROVE  files = DOMAIN blocks
    OBVIOUS
  <2>1. on = list /\ n \notin Range(on)
    BY <1>2 DEF ListIncidents
  <2> QED
    BY <1>1, <1>2, <2>1, ListFacts
<1>10. ~Removing /\ files \subseteq DOMAIN blocks /\ files \subseteq DOMAIN blocks'
       /\ incidents \subseteq incidents'
       /\ \A m \in DOMAIN blocks' : m \in files \/ blocks'[m] = <<>>
  BY <1>1, <1>2, <1>3, <1>6 DEF Removing
<1>11. /\ Removing => editor.n = n /\ Kept(n) = {} /\ n \notin files
       /\ incidents' \cap {"lost_node", "same_node", "same_name"} = {} =>
            files = DOMAIN blocks \/ (Removing /\ files = DOMAIN blocks \ {n})
  BY <1>9, <1>10
<1> QED
  BY <1>2, <1>6, <1>7, <1>8, <1>10, <1>11, Relinked

LEMMA RemoveUnlinkKeeps ==
    ASSUME FsInductive, mounted = "ramfs2", UNCHANGED <<attached, rvars, mounted>>, RemoveUnlink
    PROVE  FsInductive'
<1>1. PICK n, files : n = editor.n /\ files = Range(Unlinked)
  OBVIOUS
<1>2. /\ Removing /\ n \in DOMAIN blocks /\ editor.i > Len(blocks[n]) /\ Ramfs2TypeOK
      /\ list' = Unlinked /\ blocks' = [m \in files |-> blocks[m]]
      /\ incidents' = incidents \cup ListIncidents(editor.beside = {} /\ PlaceOf(n) # 1, files)
      /\ OnlyThese(files) /\ editor' = NoCall /\ UNCHANGED <<block_map, disk>>
      /\ call'.op \in Ops
  <2>1. Removing
    BY DEF RemoveUnlink
  <2>2. n \in DOMAIN blocks
    BY <1>1, <2>1, EditorFacts DEF Removing
  <2> QED
    BY <1>1, <2>1, <2>2 DEF RemoveUnlink, Incident, Returns, Ops, FsInductive
<1>3. /\ Unlinked \in Seq(Name) /\ IsInjective(Unlinked) /\ files \subseteq DOMAIN blocks \ {n}
      /\ ~(editor.beside = {} /\ PlaceOf(n) # 1) => files = DOMAIN blocks \ {n}
  BY <1>1, <1>2, UnlinkedFacts
<1>4. DOMAIN blocks' = files /\ \A m \in files : blocks'[m] = blocks[m]
  BY <1>2
<1>5. Ramfs2TypeOK'
  BY <1>1, <1>2, <1>3, <1>4 DEF Ramfs2TypeOK
<1>6. Kept(n) = {}
  <2>1. DOMAIN blocks[n] = 1 .. Len(blocks[n]) /\ Len(blocks[n]) \in Nat /\ editor.i \in Nat
    BY <1>2, Arrays, EditorFacts DEF Removing
  <2>2. \A j \in DOMAIN blocks[n] : j < editor.i
    BY <1>2, <2>1
  <2> QED
    BY <1>1, <1>2, <2>2 DEF Kept
<1>7. Writing /\ writer.n \notin files => "same_node" \in incidents'
  BY <1>2 DEF ListIncidents
<1>8. "lost_node" \notin incidents' => files = DOMAIN blocks \ {n}
  BY <1>2, <1>3 DEF ListIncidents
<1>9. /\ Removing => editor.n = n /\ Kept(n) = {} /\ n \notin files
      /\ incidents' \cap {"lost_node", "same_node", "same_name"} = {} =>
           files = DOMAIN blocks \/ (Removing /\ files = DOMAIN blocks \ {n})
      /\ files \subseteq DOMAIN blocks /\ files \subseteq DOMAIN blocks'
      /\ \A m \in DOMAIN blocks' : m \in files \/ blocks'[m] = <<>>
      /\ incidents \subseteq incidents'
  BY <1>1, <1>2, <1>3, <1>4, <1>6, <1>8
<1> QED
  BY <1>2, <1>4, <1>5, <1>7, <1>9, Relinked

LEMMA OpenNodeKeeps ==
    ASSUME FsInductive, mounted = "ramfs2", UNCHANGED <<attached, rvars, mounted>>,
           OpenNode \/ NodeOn
    PROVE  FsInductive'
<1>1. CASE OpenNode
  BY <1>1, CreateBeginKeeps, RemoveBeginKeeps DEF OpenNode
<1>2. CASE NodeOn
  BY <1>2, CreateNextKeeps, CreateLinkKeeps, RemoveUnmarkKeeps, RemoveUnlinkKeeps DEF NodeOn
<1> QED
  BY <1>1, <1>2

LEMMA FsStep == FsInductive /\ [Next]_vars => FsInductive'
<1> SUFFICES ASSUME FsInductive, [Next]_vars PROVE FsInductive'
  OBVIOUS
<1>1. CASE StorageInit \/ StorageService \/ UNCHANGED vars
  BY <1>1, MountAndRefusals
<1>2. CASE mounted = "ramfs" /\ RamfsCall /\ UNCHANGED <<attached, r2vars, r2open, mounted>>
  BY <1>2, RamfsKeeps
<1>3. CASE /\ mounted = "ramfs2" /\ UNCHANGED <<attached, rvars, mounted>>
           /\ Ramfs2Call \/ OpenWrite \/ OpenNode \/ WriteOn \/ NodeOn
  BY <1>3, Ramfs2CallKeeps, WriteBeginKeeps, WriteOnKeeps, OpenNodeKeeps DEF OpenWrite
<1> QED
  BY <1>1, <1>2, <1>3 DEF Next

LEMMA FsAlways == Spec => []FsInductive
<1>1. Init => FsInductive
  BY FsStarts
<1>2. FsInductive /\ [Next]_vars => FsInductive'
  BY FsStep
<1> QED
  BY <1>1, <1>2, PTL DEF Spec

\* Both file systems stay within the list, the map and the disk; no two files
\* share a block, but in ramfs after a file has grown over another, in ramfs2
\* after an entry that was never filled in was unmarked, two writes took the
\* same block or a call met the node of another: also while a write, a create
\* and a remove stand half way (ramfs2.c:153-164, :126-141, :184-200).
THEOREM FilesStayApart == Spec => []FsInvariant
<1>1. FsInductive => FsInvariant
  BY InductiveImplies
<1> QED
  BY <1>1, FsAlways, PTL

\* Every block marked as used is a file's, or about to be, until a file is
\* written a second time, a call meets the node of another, or an interrupted
\* create or remove drops or hides a file (ramfs2.c:136-137, :193-197).
THEOREM NoBlockIsLost == Spec => []NoBlockLost
<1>1. FsInductive => NoBlockLost
  BY InductiveImplies
<1> QED
  BY <1>1, FsAlways, PTL

-----------------------------------------------------------------------------
(* What readers find. *)

\* No two files of ramfs have the same name, unless one got another's.
NamesUnique ==
    "renamed_over" \notin incidents =>
        \A i, j \in DOMAIN nodes : nodes[i].name = nodes[j].name => i = j

\* An interrupted write finds on the disk what it has written so far.
WrittenSoFar ==
    incidents \subseteq {"forgotten"} /\ Writing =>
        /\ attached
        /\ \A j \in DOMAIN blocks[writer.n] : j < writer.i =>
             /\ blocks[writer.n][j] \in Block
             /\ disk[blocks[writer.n][j]] = writer.content[j]

FsFaithful == FsInductive /\ NamesUnique /\ WrittenSoFar

\* The node that find_file finds.
FirstNode(s, f, n) ==
    /\ f \in 1 .. Len(s) /\ s[f].name = n
    /\ \A j \in 1 .. Len(s) : s[j].name = n => f <= j

\* What is read of a node's row, and of an array, on a disk d.
RowRead(g, d, there) ==
    [i \in 1 .. g.size |->
        IF there /\ g.start_block + i - 1 \in Block THEN d[g.start_block + i - 1] ELSE UNREAD]
ArrayRead(arr, d, there) ==
    [i \in DOMAIN arr |-> IF there /\ arr[i] \in Block THEN d[arr[i]] ELSE UNREAD]

\* The files but those named are what they were.
KeepsAllBut(names) ==
    /\ DOMAIN Readable' \ names = DOMAIN Readable \ names
    /\ \A n \in DOMAIN Readable \ names : Readable'[n] = Readable[n]

LEMMA NodeRead ==
    RamfsTypeOK => \A n, f : FirstNode(nodes, f, n) =>
        /\ find_file(n) = f
        /\ ramfs_read(n) = RowRead(nodes[f], disk, attached)
<1> SUFFICES ASSUME RamfsTypeOK, NEW n, NEW f, FirstNode(nodes, f, n)
             PROVE  find_file(n) = f /\ ramfs_read(n) = RowRead(nodes[f], disk, attached)
  OBVIOUS
<1>1. find_file(n) = f
  <2>1. f \in 1 .. Len(nodes) /\ nodes[f].name = n
    BY DEF FirstNode
  <2>2. find_file(n) \in 1 .. Len(nodes) /\ nodes[find_file(n)].name = n /\ find_file(n) <= f
    BY <2>1, FindFile
  <2>3. f <= find_file(n)
    BY <2>2 DEF FirstNode
  <2> QED
    BY <2>1, <2>2, <2>3, Nodes
<1>2. ramfs_read(n) = ReadBlocks(Row(nodes[f]))
  BY <1>1 DEF ramfs_read
<1> QED
  BY <1>1, <1>2 DEF ReadBlocks, Row, RowRead

LEMMA NodeReadThen ==
    RamfsTypeOK' => \A n, f : FirstNode(nodes', f, n) =>
        ramfs_read(n)' = RowRead(nodes'[f], disk', attached')
<1>1. (RamfsTypeOK => \A n, f : FirstNode(nodes, f, n) =>
        /\ find_file(n) = f
        /\ ramfs_read(n) = RowRead(nodes[f], disk, attached))'
  BY NodeRead, PTL
<1> QED
  BY <1>1 DEF FirstNode, RowRead

LEMMA FirstOf ==
    RamfsTypeOK => \A n : (\E i \in 1 .. Len(nodes) : nodes[i].name = n) <=>
                          (\E f : FirstNode(nodes, f, n))
<1> SUFFICES ASSUME RamfsTypeOK, NEW n
             PROVE  (\E i \in 1 .. Len(nodes) : nodes[i].name = n) <=>
                    (\E f : FirstNode(nodes, f, n))
  OBVIOUS
<1>1. ASSUME NEW i \in 1 .. Len(nodes), nodes[i].name = n PROVE FirstNode(nodes, find_file(n), n)
  BY <1>1, FindFile DEF FirstNode
<1>2. ASSUME NEW f, FirstNode(nodes, f, n) PROVE \E i \in 1 .. Len(nodes) : nodes[i].name = n
  BY <1>2 DEF FirstNode
<1> QED
  BY <1>1, <1>2

LEMMA RamfsReadable ==
    RamfsTypeOK /\ mounted = "ramfs" =>
        /\ \A n : n \in DOMAIN Readable <=> \E f : FirstNode(nodes, f, n)
        /\ \A n, f : FirstNode(nodes, f, n) => Readable[n] = RowRead(nodes[f], disk, attached)
<1> SUFFICES ASSUME RamfsTypeOK, mounted = "ramfs"
             PROVE  /\ \A n : n \in DOMAIN Readable <=> \E f : FirstNode(nodes, f, n)
                    /\ \A n, f : FirstNode(nodes, f, n) =>
                         Readable[n] = RowRead(nodes[f], disk, attached)
  OBVIOUS
<1>1. Readable = [n \in {nodes[i].name : i \in 1 .. Len(nodes)} |-> ramfs_read(n)]
  BY Nodes DEF Readable
<1>2. \A n : n \in DOMAIN Readable <=> \E f : FirstNode(nodes, f, n)
  <2>1. \A n : n \in DOMAIN Readable <=> \E i \in 1 .. Len(nodes) : nodes[i].name = n
    BY <1>1
  <2> QED
    BY <2>1, FirstOf
<1>3. \A n, f : FirstNode(nodes, f, n) => Readable[n] = ramfs_read(n)
  <2>1. \A n : n \in {nodes[i].name : i \in 1 .. Len(nodes)} => Readable[n] = ramfs_read(n)
    BY <1>1
  <2> QED
    BY <2>1 DEF FirstNode
<1> QED
  BY <1>2, <1>3, NodeRead

LEMMA RamfsReadableThen ==
    ASSUME RamfsTypeOK', mounted' = "ramfs"
    PROVE  /\ \A n : n \in DOMAIN Readable' <=> \E f : FirstNode(nodes', f, n)
           /\ \A n, f : FirstNode(nodes', f, n) => Readable'[n] = RowRead(nodes'[f], disk', attached')
<1>1. (RamfsTypeOK /\ mounted = "ramfs" =>
        /\ \A n : n \in DOMAIN Readable <=> \E f : FirstNode(nodes, f, n)
        /\ \A n, f : FirstNode(nodes, f, n) => Readable[n] = RowRead(nodes[f], disk, attached))'
  BY RamfsReadable, PTL
<1> QED
  BY <1>1 DEF FirstNode, RowRead

\* A reader of a file of ramfs finds the same if its first node has the same
\* row and the disk the same data there.
LEMMA RamfsKept ==
    ASSUME RamfsTypeOK, RamfsTypeOK', mounted = "ramfs", mounted' = "ramfs", attached' = attached,
           NEW names,
           \A m, f : m \notin names /\ FirstNode(nodes, f, m) =>
              \E g : /\ FirstNode(nodes', g, m)
                     /\ nodes'[g].start_block = nodes[f].start_block
                     /\ nodes'[g].size = nodes[f].size
                     /\ \A i \in 1 .. nodes[f].size :
                          nodes[f].start_block + i - 1 \in Block =>
                            disk'[nodes[f].start_block + i - 1] = disk[nodes[f].start_block + i - 1],
           \A m, g : m \notin names /\ FirstNode(nodes', g, m) => \E f : FirstNode(nodes, f, m)
    PROVE  KeepsAllBut(names)
<1>1. /\ \A n : n \in DOMAIN Readable <=> \E f : FirstNode(nodes, f, n)
      /\ \A n, f : FirstNode(nodes, f, n) => Readable[n] = RowRead(nodes[f], disk, attached)
  BY RamfsReadable
<1>2. /\ \A n : n \in DOMAIN Readable' <=> \E f : FirstNode(nodes', f, n)
      /\ \A n, f : FirstNode(nodes', f, n) => Readable'[n] = RowRead(nodes'[f], disk', attached')
  BY RamfsReadableThen
<1>3. ASSUME NEW m \in DOMAIN Readable \ names
      PROVE  m \in DOMAIN Readable' /\ Readable'[m] = Readable[m]
  <2>1. PICK f : FirstNode(nodes, f, m)
    BY <1>1
  <2>2. PICK g : /\ FirstNode(nodes', g, m)
                 /\ nodes'[g].start_block = nodes[f].start_block
                 /\ nodes'[g].size = nodes[f].size
                 /\ \A i \in 1 .. nodes[f].size :
                      nodes[f].start_block + i - 1 \in Block =>
                        disk'[nodes[f].start_block + i - 1] = disk[nodes[f].start_block + i - 1]
    BY <2>1
  <2>3. RowRead(nodes'[g], disk', attached') = RowRead(nodes[f], disk, attached)
    BY <2>2 DEF RowRead
  <2>4. Readable'[m] = RowRead(nodes'[g], disk', attached') /\ m \in DOMAIN Readable'
    BY <1>2, <2>2
  <2>5. Readable[m] = RowRead(nodes[f], disk, attached)
    BY <1>1, <2>1
  <2> QED
    BY <2>3, <2>4, <2>5
<1>4. \A m : m \in DOMAIN Readable' /\ m \notin names => m \in DOMAIN Readable
  BY <1>1, <1>2
<1> QED
  BY <1>3, <1>4 DEF KeepsAllBut

\* The same for the files of ramfs2.
LEMMA ArrayReadable ==
    mounted = "ramfs2" =>
        /\ DOMAIN Readable = DOMAIN blocks
        /\ \A n \in DOMAIN blocks : Readable[n] = ArrayRead(blocks[n], disk, attached)
  BY DEF Readable, ramfs2_read, ReadBlocks, ArrayRead

LEMMA ArrayReadableThen ==
    ASSUME mounted' = "ramfs2"
    PROVE  /\ DOMAIN Readable' = DOMAIN blocks'
           /\ \A n \in DOMAIN blocks' : Readable'[n] = ArrayRead(blocks'[n], disk', attached')
<1>1. (mounted = "ramfs2" =>
        /\ DOMAIN Readable = DOMAIN blocks
        /\ \A n \in DOMAIN blocks : Readable[n] = ArrayRead(blocks[n], disk, attached))'
  BY ArrayReadable, PTL
<1> QED
  BY <1>1 DEF ArrayRead

\* A file of ramfs2 that a step leaves alone.
SameFile(n) ==
    /\ n \in DOMAIN blocks' /\ blocks'[n] = blocks[n]
    /\ \A i \in DOMAIN blocks[n] :
         blocks[n][i] \in Block => disk'[blocks[n][i]] = disk[blocks[n][i]]

LEMMA Ramfs2Kept ==
    ASSUME mounted = "ramfs2", mounted' = "ramfs2", attached' = attached, NEW names,
           \A m \in DOMAIN blocks : m \notin names => SameFile(m),
           \A m \in DOMAIN blocks' : m \notin names => m \in DOMAIN blocks
    PROVE  KeepsAllBut(names)
<1>1. /\ DOMAIN Readable = DOMAIN blocks
      /\ \A n \in DOMAIN blocks : Readable[n] = ArrayRead(blocks[n], disk, attached)
  BY ArrayReadable
<1>2. /\ DOMAIN Readable' = DOMAIN blocks'
      /\ \A n \in DOMAIN blocks' : Readable'[n] = ArrayRead(blocks'[n], disk', attached')
  BY ArrayReadableThen
<1>3. ASSUME NEW m \in DOMAIN blocks, m \notin names
      PROVE  m \in DOMAIN blocks' /\ Readable'[m] = Readable[m]
  <2>1. SameFile(m)
    BY <1>3
  <2>2. ArrayRead(blocks'[m], disk', attached') = ArrayRead(blocks[m], disk, attached)
    BY <2>1 DEF ArrayRead, SameFile
  <2> QED
    BY <1>1, <1>2, <2>1, <2>2 DEF SameFile
<1> QED
  BY <1>1, <1>2, <1>3 DEF KeepsAllBut

\* Nobody touches a file.
LEMMA NothingRead ==
    ASSUME UNCHANGED <<disk, attached, nodes, blocks, mounted>>
    PROVE  Readable' = Readable
  BY DEF Readable, ramfs_read, ramfs2_read, find_file, SelectInSeq, ReadBlocks, Row

LEMMA MountReads ==
    ASSUME FsInductive, StorageInit
    PROVE  Readable' = Readable /\ call' = call
<1>1. /\ mounted = "none" /\ mounted' \in {"ramfs", "ramfs2"}
      /\ call' = call /\ nodes' = nodes /\ blocks' = blocks
  BY DEF StorageInit, rvars, r2vars
<1>2. nodes = <<>> /\ blocks = [n \in {} |-> <<>>]
  BY <1>1 DEF FsInductive, OneMounted
<1>3. Readable = [n \in {} |-> <<>>]
  <2>1. DOMAIN blocks = {}
    BY <1>2
  <2>2. Readable = [n \in DOMAIN blocks |-> ramfs2_read(n)]
    BY <1>1 DEF Readable
  <2> QED
    BY <2>1, <2>2
<1>4. Readable' = [n \in {} |-> <<>>]
  <2>1. CASE mounted' = "ramfs"
    <3>1. Readable' = [n \in {nodes'[i].name : i \in DOMAIN nodes'} |-> ramfs_read(n)']
      BY <2>1 DEF Readable
    <3>2. DOMAIN nodes' = {}
      BY <1>1, <1>2
    <3>3. {nodes'[i].name : i \in DOMAIN nodes'} = {}
      BY <3>2
    <3> QED
      BY <3>1, <3>3
  <2>2. CASE mounted' = "ramfs2"
    <3>1. Readable' = [n \in DOMAIN blocks' |-> ramfs2_read(n)']
      BY <2>2 DEF Readable
    <3>2. DOMAIN blocks' = {}
      BY <1>1, <1>2
    <3> QED
      BY <3>1, <3>2
  <2> QED
    BY <1>1, <2>1, <2>2
<1> QED
  BY <1>1, <1>3, <1>4

-----------------------------------------------------------------------------
(* What the calls of ramfs do to what readers find. *)

LEMMA CreateReads ==
    ASSUME FsInductive, mounted = "ramfs", mounted' = "ramfs", attached' = attached,
           disk' = disk, NEW n \in Name, find_file(n) = 0, Len(nodes) < MaxNodes,
           nodes' = << [name |-> n, size |-> 0, start_block |-> next_free_block] >> \o nodes,
           next_free_block' = next_free_block, incidents' = incidents
    PROVE  /\ KeepsAllBut({n}) /\ n \notin DOMAIN Readable
           /\ n \in DOMAIN Readable' /\ Readable'[n] = <<>>
           /\ NamesUnique => NamesUnique'
<1> USE DEF FsInductive
<1>1. /\ RamfsTypeOK' /\ Len(nodes') = Len(nodes) + 1
      /\ nodes'[1] = [name |-> n, size |-> 0, start_block |-> next_free_block]
      /\ \A i \in 2 .. Len(nodes) + 1 : nodes'[i] = nodes[i - 1]
  BY CreatedNode
<1>2. \A i \in 1 .. Len(nodes) : nodes[i].name # n
  BY FindFile
<1>3. \A i \in 1 .. Len(nodes) : i + 1 \in 2 .. Len(nodes) + 1 /\ nodes'[i + 1] = nodes[i]
  BY <1>1, Nodes
<1>4. \A j \in 1 .. Len(nodes') : j # 1 => j - 1 \in 1 .. Len(nodes) /\ nodes'[j] = nodes[j - 1]
  BY <1>1, Nodes
<1>5. ASSUME NEW m, NEW f, m # n, FirstNode(nodes, f, m)
      PROVE  FirstNode(nodes', f + 1, m) /\ nodes'[f + 1] = nodes[f]
  <2>1. f \in 1 .. Len(nodes) /\ nodes[f].name = m /\ f + 1 \in 1 .. Len(nodes')
        /\ nodes'[f + 1] = nodes[f]
    BY <1>1, <1>3, <1>5, Nodes DEF FirstNode
  <2>2. ASSUME NEW j \in 1 .. Len(nodes'), nodes'[j].name = m PROVE f + 1 <= j
    <3>1. j # 1
      BY <1>1, <1>5, <2>2
    <3>2. j - 1 \in 1 .. Len(nodes) /\ nodes[j - 1].name = m
      BY <1>4, <2>2, <3>1
    <3>3. f <= j - 1
      BY <1>5, <3>2 DEF FirstNode
    <3> QED
      BY <2>1, <3>2, <3>3, Nodes
  <2> QED
    BY <2>1, <2>2 DEF FirstNode
<1>6. ASSUME NEW m, NEW g, m # n, FirstNode(nodes', g, m) PROVE \E f : FirstNode(nodes, f, m)
  <2>1. g \in 1 .. Len(nodes') /\ nodes'[g].name = m /\ g # 1
    BY <1>1, <1>6 DEF FirstNode
  <2>2. g - 1 \in 1 .. Len(nodes) /\ nodes[g - 1].name = m
    BY <1>4, <2>1
  <2> QED
    BY <2>2, FirstOf
<1>7. KeepsAllBut({n})
  <2>1. \A m, f : m \notin {n} /\ FirstNode(nodes, f, m) =>
              \E g : /\ FirstNode(nodes', g, m)
                     /\ nodes'[g].start_block = nodes[f].start_block
                     /\ nodes'[g].size = nodes[f].size
                     /\ \A i \in 1 .. nodes[f].size :
                          nodes[f].start_block + i - 1 \in Block =>
                            disk'[nodes[f].start_block + i - 1] = disk[nodes[f].start_block + i - 1]
    BY <1>5
  <2>2. \A m, g : m \notin {n} /\ FirstNode(nodes', g, m) => \E f : FirstNode(nodes, f, m)
    BY <1>6
  <2> QED
    BY <1>1, <2>1, <2>2, RamfsKept
<1>8. FirstNode(nodes', 1, n)
  BY <1>1, Nodes DEF FirstNode
<1>9. n \in DOMAIN Readable' /\ Readable'[n] = RowRead(nodes'[1], disk', attached')
  BY <1>1, <1>8, RamfsReadableThen
<1>10. RowRead(nodes'[1], disk', attached') = <<>>
  BY <1>1 DEF RowRead
<1>11. n \notin DOMAIN Readable
  BY <1>2, RamfsReadable DEF FirstNode
<1>12. NamesUnique => NamesUnique'
  <2> SUFFICES ASSUME NamesUnique, "renamed_over" \notin incidents,
                      NEW x \in 1 .. Len(nodes'), NEW y \in 1 .. Len(nodes'),
                      nodes'[x].name = nodes'[y].name
               PROVE  x = y
    BY <1>1, LenProperties DEF NamesUnique, RamfsTypeOK
  <2>1. \A i \in 1 .. Len(nodes) : \A j \in 1 .. Len(nodes) :
          nodes[i].name = nodes[j].name => i = j
    BY Nodes DEF NamesUnique
  <2>2. x = 1 <=> nodes'[x].name = n
    BY <1>1, <1>2, <1>4
  <2>3. y = 1 <=> nodes'[y].name = n
    BY <1>1, <1>2, <1>4
  <2>4. CASE x = 1 \/ y = 1
    BY <2>2, <2>3, <2>4
  <2>5. CASE x # 1 /\ y # 1
    <3>1. x - 1 \in 1 .. Len(nodes) /\ y - 1 \in 1 .. Len(nodes)
          /\ nodes[x - 1].name = nodes[y - 1].name
      BY <1>4, <2>5
    <3>2. x - 1 = y - 1
      BY <2>1, <3>1
    <3> QED
      BY <1>1, <3>2, Nodes
  <2> QED
    BY <2>4, <2>5
<1> QED
  BY <1>7, <1>9, <1>10, <1>11, <1>12

LEMMA WriteReads ==
    ASSUME FsInductive, mounted = "ramfs", mounted' = "ramfs", attached' = attached,
           NEW n \in Name, NEW content \in Contents, NEW f \in 1 .. Len(nodes), FirstNode(nodes, f, n),
           NEW k, k = Len(content), next_free_block + k <= MaxFree,
           nodes' = [nodes EXCEPT ![f].size = k], next_free_block' = next_free_block + k,
           disk' = Written([i \in 1 .. k |-> nodes[f].start_block + i - 1], content),
           incidents' = incidents \cup WriteIncidents(nodes[f], k)
    PROVE  /\ n \in DOMAIN Readable /\ DOMAIN Readable' = DOMAIN Readable
           /\ "grows" \notin incidents' => KeepsAllBut({n})
           /\ incidents' \subseteq {"forgotten"} => Readable'[n] = content
           /\ NamesUnique => NamesUnique'
<1> USE DEF FsInductive
<1> DEFINE at == [i \in 1 .. k |-> nodes[f].start_block + i - 1]
<1>1. /\ k \in 0 .. MaxLen /\ k \in Nat /\ content \in [1 .. k -> Data]
      /\ content = [i \in 1 .. k |-> content[i]]
  BY ContentsAreSequences
<1>2. RamfsTypeOK' /\ RowsApart'
  BY <1>1, RewriteKeeps
<1>3. /\ Len(nodes') = Len(nodes) /\ DOMAIN nodes' = 1 .. Len(nodes)
      /\ \A i \in 1 .. Len(nodes) : i # f => nodes'[i] = nodes[i]
      /\ nodes'[f].name = nodes[f].name /\ nodes'[f].start_block = nodes[f].start_block
      /\ nodes'[f].size = k
  <2> DEFINE new == [nodes[f] EXCEPT !.size = k]
  <2>1. new \in Node /\ new.name = nodes[f].name /\ new.start_block = nodes[f].start_block
        /\ new.size = k
    BY <1>1, Nodes DEF Node
  <2>2. nodes' = [nodes EXCEPT ![f] = new] /\ next_free_block' \in 0 .. MaxFree
    BY <1>1, Nodes
  <2> HIDE DEF new
  <2>3. /\ Len(nodes') = Len(nodes) /\ nodes'[f] = new
        /\ \A i \in 1 .. Len(nodes) : i # f => nodes'[i] = nodes[i]
    BY <2>1, <2>2, ChangedNode
  <2> QED
    BY <1>2, <2>1, <2>3, LenProperties DEF RamfsTypeOK
<1>4. /\ \A i \in 1 .. Len(nodes) : nodes'[i].name = nodes[i].name
      /\ \A m, g : FirstNode(nodes', g, m) <=> FirstNode(nodes, g, m)
  <2>1. \A i \in 1 .. Len(nodes) : nodes'[i].name = nodes[i].name
    BY <1>3
  <2> QED
    BY <1>3, <2>1 DEF FirstNode
<1>5. n \in DOMAIN Readable /\ DOMAIN Readable' = DOMAIN Readable
  <2>1. \A m : m \in DOMAIN Readable <=> \E g : FirstNode(nodes, g, m)
    BY RamfsReadable
  <2>2. \A m : m \in DOMAIN Readable' <=> \E g : FirstNode(nodes', g, m)
    BY <1>2, RamfsReadableThen
  <2>3. DOMAIN Readable' = DOMAIN Readable
    BY <1>4, <2>1, <2>2
  <2> QED
    BY <2>1, <2>3
<1>6. ASSUME "grows" \notin incidents', NEW g \in 1 .. Len(nodes), g # f,
             NEW i \in 1 .. nodes[g].size, nodes[g].start_block + i - 1 \in Block
      PROVE  disk'[nodes[g].start_block + i - 1] = disk[nodes[g].start_block + i - 1]
  <2> DEFINE sg == nodes[g].start_block
             zg == nodes[g].size
             sf == nodes[f].start_block
  <2>1. sg \in Nat /\ zg \in Nat /\ sf \in Nat /\ k \in Nat /\ i \in 1 .. zg
    BY <1>1, Nodes
  <2>2. sg + zg <= sf \/ sf + k <= sg
    BY <1>2, <1>3, <1>6 DEF RowsApart
  <2>3. \A j \in 1 .. k : at[j] = sf + j - 1
    OBVIOUS
  <2>4. disk' = Written(at, content) /\ sg + i - 1 \in Block
    BY <1>6
  <2> HIDE DEF at, sg, zg, sf, FsInductive
  <2>5. \A j \in 1 .. k : at[j] # sg + i - 1
    BY <2>1, <2>2, <2>3
  <2>6. Written(at, content)[sg + i - 1] = disk[sg + i - 1]
    <3>1. content \in [1 .. k -> Data] /\ k \in Nat /\ DiskTypeOK
      BY <1>1 DEF FsInductive
    <3> QED
      BY <2>4, <2>5, <3>1, WrittenFits
  <2> QED
    BY <2>4, <2>6 DEF sg
<1>7. ASSUME "grows" \notin incidents' PROVE KeepsAllBut({n})
  <2>1. \A m, g : m \notin {n} /\ FirstNode(nodes, g, m) => g \in 1 .. Len(nodes) /\ g # f
    BY DEF FirstNode
  <2>2. \A m, g : m \notin {n} /\ FirstNode(nodes, g, m) =>
              \E h : /\ FirstNode(nodes', h, m)
                     /\ nodes'[h].start_block = nodes[g].start_block
                     /\ nodes'[h].size = nodes[g].size
                     /\ \A i \in 1 .. nodes[g].size :
                          nodes[g].start_block + i - 1 \in Block =>
                            disk'[nodes[g].start_block + i - 1] = disk[nodes[g].start_block + i - 1]
    BY <1>3, <1>4, <1>6, <1>7, <2>1
  <2>3. \A m, g : m \notin {n} /\ FirstNode(nodes', g, m) => \E h : FirstNode(nodes, h, m)
    BY <1>4
  <2> QED
    BY <1>2, <2>2, <2>3, RamfsKept
<1>8. ASSUME incidents' \subseteq {"forgotten"} PROVE Readable'[n] = content
  <2>1. Readable'[n] = RowRead(nodes'[f], disk', attached')
    BY <1>2, <1>4, RamfsReadableThen
  <2>2. k > 0 => attached /\ ~(nodes[f].start_block + k > BlockCount)
    <3>1. "full" \notin WriteIncidents(nodes[f], k) /\ "no_disk" \notin WriteIncidents(nodes[f], k)
      BY <1>8
    <3>2. /\ "full" \in WriteIncidents(nodes[f], k) <=> k > 0 /\ nodes[f].start_block + k > BlockCount
          /\ "no_disk" \in WriteIncidents(nodes[f], k) <=> k > 0 /\ ~attached
      BY DEF WriteIncidents
    <3> QED
      BY <3>1, <3>2
  <2>3. ASSUME NEW i \in 1 .. k
        PROVE  attached /\ at[i] \in Block /\ disk'[at[i]] = content[i]
    <3> DEFINE sf == nodes[f].start_block
    <3>1. sf \in Nat /\ k \in Nat /\ k > 0 /\ BlockCount \in Nat
      BY <1>1, Nodes, DiskAssumption
    <3>2. attached /\ sf + k <= BlockCount
      BY <2>2, <3>1
    <3>3. \A j \in 1 .. k : at[j] = sf + j - 1
      OBVIOUS
    <3>4. disk' = Written(at, content)
      OBVIOUS
    <3> HIDE DEF sf, at, FsInductive
    <3>5. at[i] \in Block /\ \A j \in 1 .. k : at[j] = at[i] => j = i
      BY <3>1, <3>2, <3>3 DEF Block
    <3>6. content \in [1 .. k -> Data]
      BY <1>1
    <3>7. Written(at, content)[at[i]] = content[i]
      BY <3>1, <3>2, <3>5, <3>6, WrittenReadBack
    <3> QED
      BY <3>2, <3>4, <3>5, <3>7
  <2>4. RowRead(nodes'[f], disk', attached') = [i \in 1 .. k |-> content[i]]
    BY <1>3, <2>3 DEF RowRead
  <2> QED
    BY <1>1, <2>1, <2>4
<1>9. NamesUnique => NamesUnique'
  BY <1>3, <1>4, Nodes DEF NamesUnique
<1> QED
  BY <1>5, <1>7, <1>8, <1>9

LEMMA RemoveReads ==
    ASSUME FsFaithful, mounted = "ramfs", mounted' = "ramfs", attached' = attached,
           NEW n \in Name, NEW f \in 1 .. Len(nodes), FirstNode(nodes, f, n),
           nodes' = RemoveAt(nodes, f), next_free_block' = next_free_block, disk' = disk,
           incidents' = incidents
    PROVE  /\ KeepsAllBut({n}) /\ n \in DOMAIN Readable
           /\ "renamed_over" \notin incidents => n \notin DOMAIN Readable'
           /\ NamesUnique'
<1> USE DEF FsFaithful, FsInductive
<1>1. /\ nodes' \in Seq(Node) /\ Len(nodes') = Len(nodes) - 1
      /\ \A i \in 1 .. Len(nodes) - 1 : nodes'[i] = IF i < f THEN nodes[i] ELSE nodes[i + 1]
  BY RemoveAtEntries DEF RamfsTypeOK
<1>2. RamfsTypeOK'
  BY RemoveKeeps
<1> DEFINE old(x) == IF x < f THEN x ELSE x + 1
           now(x) == IF x < f THEN x ELSE x - 1
<1>3. Len(nodes) \in Nat /\ f \in 1 .. Len(nodes) /\ nodes[f].name = n
  BY Nodes DEF FirstNode
<1>4. \A x \in 1 .. Len(nodes') :
        old(x) \in 1 .. Len(nodes) /\ old(x) # f /\ nodes'[x] = nodes[old(x)]
  BY <1>1, <1>3
<1>5. \A x \in 1 .. Len(nodes) : x # f =>
        now(x) \in 1 .. Len(nodes') /\ nodes'[now(x)] = nodes[x]
  <2> SUFFICES ASSUME NEW x \in 1 .. Len(nodes), x # f
               PROVE  now(x) \in 1 .. Len(nodes') /\ nodes'[now(x)] = nodes[x]
    OBVIOUS
  <2>1. now(x) \in 1 .. Len(nodes) - 1
    BY <1>3
  <2>2. (IF now(x) < f THEN nodes[now(x)] ELSE nodes[now(x) + 1]) = nodes[x]
    <3>1. CASE x < f
      BY <3>1
    <3>2. CASE ~(x < f)
      <4>1. now(x) = x - 1 /\ ~(x - 1 < f) /\ (x - 1) + 1 = x
        BY <1>3, <3>2
      <4> QED
        BY <4>1
    <3> QED
      BY <3>1, <3>2
  <2> QED
    BY <1>1, <2>1, <2>2
<1>6. \A x \in 1 .. Len(nodes) : \A y \in 1 .. Len(nodes') : x # f /\ x <= old(y) => now(x) <= y
  BY <1>1, <1>3
<1>7. NamesUnique'
  <2> SUFFICES ASSUME "renamed_over" \notin incidents,
                      NEW x \in 1 .. Len(nodes'), NEW y \in 1 .. Len(nodes'),
                      nodes'[x].name = nodes'[y].name
               PROVE  x = y
    BY <1>2, LenProperties DEF NamesUnique, RamfsTypeOK
  <2>1. nodes[old(x)].name = nodes[old(y)].name /\ old(x) \in 1 .. Len(nodes)
        /\ old(y) \in 1 .. Len(nodes)
    BY <1>4
  <2>2. old(x) = old(y)
    BY <2>1, Nodes DEF NamesUnique
  <2> QED
    BY <1>1, <1>3, <2>2
<1> HIDE DEF old, now
<1>8. ASSUME NEW m, NEW g, m # n, FirstNode(nodes, g, m)
      PROVE  FirstNode(nodes', now(g), m) /\ nodes'[now(g)] = nodes[g]
  <2>1. g \in 1 .. Len(nodes) /\ nodes[g].name = m /\ g # f
    BY <1>3, <1>8 DEF FirstNode
  <2>2. now(g) \in 1 .. Len(nodes') /\ nodes'[now(g)] = nodes[g]
    BY <1>5, <2>1
  <2>3. ASSUME NEW j \in 1 .. Len(nodes'), nodes'[j].name = m PROVE now(g) <= j
    <3>1. old(j) \in 1 .. Len(nodes) /\ nodes[old(j)].name = m
      BY <1>4, <2>3
    <3>2. g <= old(j)
      BY <1>8, <3>1 DEF FirstNode
    <3> QED
      BY <1>6, <2>1, <3>2
  <2> QED
    BY <2>1, <2>2, <2>3 DEF FirstNode
<1>9. ASSUME NEW m, NEW g, FirstNode(nodes', g, m)
      PROVE  \E h \in 1 .. Len(nodes) : h # f /\ nodes[h].name = m
  <2>1. g \in 1 .. Len(nodes') /\ nodes'[g].name = m
    BY <1>9 DEF FirstNode
  <2> QED
    BY <1>4, <2>1
<1>10. KeepsAllBut({n})
  <2>1. \A m, g : m \notin {n} /\ FirstNode(nodes, g, m) =>
              \E h : /\ FirstNode(nodes', h, m)
                     /\ nodes'[h].start_block = nodes[g].start_block
                     /\ nodes'[h].size = nodes[g].size
                     /\ \A i \in 1 .. nodes[g].size :
                          nodes[g].start_block + i - 1 \in Block =>
                            disk'[nodes[g].start_block + i - 1] = disk[nodes[g].start_block + i - 1]
    BY <1>8
  <2>2. \A m, g : m \notin {n} /\ FirstNode(nodes', g, m) => \E h : FirstNode(nodes, h, m)
    BY <1>9, FirstOf
  <2> QED
    BY <1>2, <2>1, <2>2, RamfsKept
<1>11. n \in DOMAIN Readable
  BY RamfsReadable
<1>12. ASSUME "renamed_over" \notin incidents PROVE n \notin DOMAIN Readable'
  <2>1. \A h \in 1 .. Len(nodes) : nodes[h].name = n => h = f
    BY <1>3, <1>12, Nodes DEF NamesUnique
  <2>2. ~\E g : FirstNode(nodes', g, n)
    BY <1>9, <2>1
  <2> QED
    BY <1>2, <2>2, RamfsReadableThen
<1> QED
  BY <1>10, <1>11, <1>12, <1>7

LEMMA RenameReads ==
    ASSUME FsFaithful, mounted = "ramfs", mounted' = "ramfs", attached' = attached,
           NEW n \in Name, NEW new \in Name, NEW f \in 1 .. Len(nodes), FirstNode(nodes, f, n),
           nodes' = [nodes EXCEPT ![f].name = new], next_free_block' = next_free_block,
           disk' = disk,
           incidents' = incidents \cup (IF new # n /\ find_file(new) # 0 THEN {"renamed_over"} ELSE {})
    PROVE  /\ KeepsAllBut({n, new}) /\ n \in DOMAIN Readable
           /\ "renamed_over" \notin incidents' =>
                /\ Readable'[new] = Readable[n]
                /\ n # new => n \notin DOMAIN Readable' /\ new \notin DOMAIN Readable
           /\ NamesUnique'
<1> USE DEF FsFaithful, FsInductive
<1>1. RamfsTypeOK'
  BY RenameKeeps
<1>2. /\ Len(nodes') = Len(nodes) /\ nodes'[f].name = new
      /\ nodes'[f].start_block = nodes[f].start_block /\ nodes'[f].size = nodes[f].size
      /\ \A i \in 1 .. Len(nodes) : i # f => nodes'[i] = nodes[i]
  <2> DEFINE node == [nodes[f] EXCEPT !.name = new]
  <2>1. node \in Node /\ node.name = new /\ node.start_block = nodes[f].start_block
        /\ node.size = nodes[f].size
    BY Nodes DEF Node
  <2>2. nodes' = [nodes EXCEPT ![f] = node]
    OBVIOUS
  <2> HIDE DEF node
  <2>3. /\ Len(nodes') = Len(nodes) /\ nodes'[f] = node
        /\ \A i \in 1 .. Len(nodes) : i # f => nodes'[i] = nodes[i]
    BY <2>1, <2>2, ChangedNode, Nodes
  <2> QED
    BY <2>1, <2>3
<1>3. nodes[f].name = n /\ Len(nodes) \in Nat
  BY Nodes DEF FirstNode
<1>4. \A m, g : m \notin {n, new} =>
        /\ FirstNode(nodes', g, m) <=> FirstNode(nodes, g, m)
        /\ FirstNode(nodes, g, m) => nodes'[g] = nodes[g]
  <2> SUFFICES ASSUME NEW m, NEW g, m \notin {n, new}
               PROVE  /\ FirstNode(nodes', g, m) <=> FirstNode(nodes, g, m)
                      /\ FirstNode(nodes, g, m) => nodes'[g] = nodes[g]
    OBVIOUS
  <2>1. \A i \in 1 .. Len(nodes) : nodes'[i].name = m <=> nodes[i].name = m
    BY <1>2, <1>3
  <2>2. FirstNode(nodes, g, m) => g # f /\ g \in 1 .. Len(nodes)
    BY <1>3 DEF FirstNode
  <2> QED
    BY <1>2, <2>1, <2>2 DEF FirstNode
<1>5. KeepsAllBut({n, new})
  <2>1. \A m, g : m \notin {n, new} /\ FirstNode(nodes, g, m) =>
              \E h : /\ FirstNode(nodes', h, m)
                     /\ nodes'[h].start_block = nodes[g].start_block
                     /\ nodes'[h].size = nodes[g].size
                     /\ \A i \in 1 .. nodes[g].size :
                          nodes[g].start_block + i - 1 \in Block =>
                            disk'[nodes[g].start_block + i - 1] = disk[nodes[g].start_block + i - 1]
    BY <1>4
  <2>2. \A m, g : m \notin {n, new} /\ FirstNode(nodes', g, m) => \E h : FirstNode(nodes, h, m)
    BY <1>4
  <2> QED
    BY <1>1, <2>1, <2>2, RamfsKept
<1>6. n \in DOMAIN Readable /\ Readable[n] = RowRead(nodes[f], disk, attached)
  BY RamfsReadable
<1>7. ASSUME "renamed_over" \notin incidents'
      PROVE  /\ Readable'[new] = Readable[n]
             /\ n # new => n \notin DOMAIN Readable' /\ new \notin DOMAIN Readable
  <2>1. "renamed_over" \notin incidents /\ (new = n \/ find_file(new) = 0)
    BY <1>7
  <2>2. \A h \in 1 .. Len(nodes) : nodes[h].name = n => h = f
    BY <1>3, <2>1, Nodes DEF NamesUnique
  <2>3. \A h \in 1 .. Len(nodes) : h # f => nodes[h].name # new
    BY <2>1, <2>2, FindFile
  <2>4. FirstNode(nodes', f, new)
    <3>1. \A j \in 1 .. Len(nodes') : nodes'[j].name = new => j = f
      BY <1>2, <2>3
    <3>2. f <= f
      BY <1>3
    <3> QED
      BY <1>2, <3>1, <3>2 DEF FirstNode
  <2>5. Readable'[new] = RowRead(nodes'[f], disk', attached')
    BY <1>1, <2>4, RamfsReadableThen
  <2>6. RowRead(nodes'[f], disk', attached') = RowRead(nodes[f], disk, attached)
    BY <1>2 DEF RowRead
  <2>7. ASSUME n # new PROVE n \notin DOMAIN Readable' /\ new \notin DOMAIN Readable
    <3>1. ~\E g : FirstNode(nodes', g, n)
      BY <1>2, <2>2, <2>7 DEF FirstNode
    <3>2. ~\E g : FirstNode(nodes, g, new)
      BY <2>1, <2>7, FindFile DEF FirstNode
    <3> QED
      BY <1>1, <3>1, <3>2, RamfsReadable, RamfsReadableThen
  <2> QED
    BY <1>6, <2>5, <2>6, <2>7
<1>8. NamesUnique'
  <2> SUFFICES ASSUME "renamed_over" \notin incidents',
                      NEW x \in 1 .. Len(nodes), NEW y \in 1 .. Len(nodes),
                      nodes'[x].name = nodes'[y].name, x # y
               PROVE  FALSE
    BY <1>1, <1>2, LenProperties DEF NamesUnique, RamfsTypeOK
  <2>1. "renamed_over" \notin incidents /\ (new = n \/ find_file(new) = 0)
    BY <1>3
  <2>2. \A h \in 1 .. Len(nodes) : \A g \in 1 .. Len(nodes) :
          nodes[h].name = nodes[g].name => h = g
    BY <2>1, Nodes DEF NamesUnique
  <2>3. \A h \in 1 .. Len(nodes) : h # f => nodes[h].name # new
    BY <1>3, <2>1, <2>2, FindFile
  <2> QED
    BY <1>2, <2>2, <2>3
<1> QED
  BY <1>5, <1>6, <1>7, <1>8

LEMMA FormatReads ==
    ASSUME FsInductive, mounted' = "ramfs", ramfs_format
    PROVE  DOMAIN Readable' = {}
<1>1. RamfsTypeOK'
  BY FormatKeeps
<1>2. Len(nodes') = 0
  BY EmptySeq DEF ramfs_format
<1>3. ~\E n, f : FirstNode(nodes', f, n)
  BY <1>2 DEF FirstNode
<1> QED
  BY <1>1, <1>3, RamfsReadableThen

-----------------------------------------------------------------------------
(* What the steps are for the map of names to contents. *)

\* The file whose blocks a remove under way is unmarking.
BeingRemoved == IF Removing THEN {editor.n} ELSE {}

MapStep == incidents' \subseteq {"forgotten"} => FM!FileNext \/ UNCHANGED <<Readable, call>>

OthersStep ==
    incidents' \cap {"grows", "junk_freed", "same_block", "same_node", "lost_node"} = {} =>
        \/ Readable' = Readable
        \/ call'.op = "format"
        \/ KeepsAllBut({call'.name} \cup BeingRemoved)
        \/ call'.op = "rename" /\ KeepsAllBut({call'.name, call'.arg})

LEMMA KeepsFewer ==
    ASSUME NEW names, NEW more, names \subseteq more, KeepsAllBut(names)
    PROVE  KeepsAllBut(more)
BY DEF KeepsAllBut

LEMMA RefusedCall ==
    ASSUME NEW n, NEW op, NEW arg, Returns(op, n, arg, FALSE), Readable' = Readable,
           (n \in Name /\ op \in {"create", "write", "remove", "rename"}) \/ op = "format"
    PROVE  MapStep /\ OthersStep
<1>1. call'.op = op /\ call'.name = n /\ call'.ok = FALSE
  BY DEF Returns
<1>2. CASE op = "format"
  BY <1>1, <1>2 DEF MapStep, OthersStep, FM!FileNext, FM!Format
<1>3. CASE n \in Name /\ op = "create"
  BY <1>1, <1>3 DEF MapStep, OthersStep, FM!FileNext, FM!Create, FM!Asked, FM!Untouched
<1>4. CASE n \in Name /\ op = "write"
  BY <1>1, <1>4 DEF MapStep, OthersStep, FM!FileNext, FM!Write, FM!Asked, FM!Untouched
<1>5. CASE n \in Name /\ op = "remove"
  BY <1>1, <1>5 DEF MapStep, OthersStep, FM!FileNext, FM!Remove, FM!Asked, FM!Untouched
<1>6. CASE n \in Name /\ op = "rename"
  BY <1>1, <1>6 DEF MapStep, OthersStep, FM!FileNext, FM!Rename, FM!Asked, FM!Untouched
<1> QED
  BY <1>2, <1>3, <1>4, <1>5, <1>6

LEMMA CreatedMap ==
    ASSUME NEW n \in Name, Returns("create", n, <<>>, TRUE),
           "lost_node" \notin incidents' => KeepsAllBut({n}),
           incidents' \subseteq {"forgotten"} => n \notin DOMAIN Readable,
           n \in DOMAIN Readable', Readable'[n] = <<>>
    PROVE  MapStep /\ OthersStep
<1>1. call'.op = "create" /\ call'.name = n /\ call'.ok = TRUE
  BY DEF Returns
<1>2. OthersStep
  BY <1>1, KeepsFewer DEF OthersStep
<1>3. ASSUME incidents' \subseteq {"forgotten"} PROVE FM!Create(n)
  <2>1. KeepsAllBut({n}) /\ n \notin DOMAIN Readable
    BY <1>3
  <2> QED
    BY <1>1, <2>1 DEF KeepsAllBut, FM!Create, FM!Asked, FM!Untouched
<1> QED
  BY <1>2, <1>3 DEF MapStep, FM!FileNext

LEMMA WrittenMap ==
    ASSUME NEW n \in Name, NEW content, NEW ok \in BOOLEAN, Returns("write", n, content, ok),
           n \in DOMAIN Readable, DOMAIN Readable' = DOMAIN Readable,
           incidents' \cap {"grows", "junk_freed", "same_block", "same_node"} = {} =>
              KeepsAllBut({n} \cup BeingRemoved),
           incidents' \subseteq {"forgotten"} => KeepsAllBut({n}),
           incidents' \subseteq {"forgotten"} /\ ok => Readable'[n] = content
    PROVE  MapStep /\ OthersStep
<1>1. call'.op = "write" /\ call'.name = n /\ call'.ok = ok /\ call'.arg = content
  BY DEF Returns
<1>2. OthersStep
  BY <1>1 DEF OthersStep
<1>3. ASSUME incidents' \subseteq {"forgotten"} PROVE FM!Write(n)
  <2>1. KeepsAllBut({n})
    BY <1>3
  <2>2. ok => Readable'[n] = content
    BY <1>3
  <2> QED
    BY <1>1, <2>1, <2>2 DEF KeepsAllBut, FM!Write, FM!Asked, FM!Untouched
<1> QED
  BY <1>2, <1>3 DEF MapStep, FM!FileNext

LEMMA RemovedMap ==
    ASSUME NEW n \in Name, Returns("remove", n, <<>>, TRUE),
           "lost_node" \notin incidents' => KeepsAllBut({n}), n \in DOMAIN Readable,
           incidents' \subseteq {"forgotten"} => n \notin DOMAIN Readable'
    PROVE  MapStep /\ OthersStep
<1>1. call'.op = "remove" /\ call'.name = n /\ call'.ok = TRUE
  BY DEF Returns
<1>2. OthersStep
  BY <1>1, KeepsFewer DEF OthersStep
<1>3. ASSUME incidents' \subseteq {"forgotten"} PROVE FM!Remove(n)
  <2>1. KeepsAllBut({n}) /\ n \notin DOMAIN Readable'
    BY <1>3
  <2> QED
    BY <1>1, <2>1 DEF KeepsAllBut, FM!Remove, FM!Asked, FM!Untouched
<1> QED
  BY <1>2, <1>3 DEF MapStep, FM!FileNext

LEMMA RenamedMap ==
    ASSUME NEW n \in Name, NEW new \in Name, Returns("rename", n, new, TRUE),
           KeepsAllBut({n, new}), n \in DOMAIN Readable,
           incidents' \subseteq {"forgotten"} =>
              /\ Readable'[new] = Readable[n]
              /\ n # new => n \notin DOMAIN Readable' /\ new \notin DOMAIN Readable
    PROVE  MapStep /\ OthersStep
<1>1. call'.op = "rename" /\ call'.name = n /\ call'.arg = new /\ call'.ok = TRUE
  BY DEF Returns
<1>2. OthersStep
  BY <1>1 DEF OthersStep
<1>3. ASSUME incidents' \subseteq {"forgotten"} PROVE FM!Rename(n)
  BY <1>1, <1>3 DEF KeepsAllBut, FM!Rename, FM!Asked, FM!Untouched
<1> QED
  BY <1>2, <1>3 DEF MapStep, FM!FileNext

LEMMA RamfsFaithful ==
    ASSUME FsFaithful, mounted = "ramfs", RamfsCall,
           UNCHANGED <<attached, r2vars, r2open, mounted>>
    PROVE  NamesUnique' /\ MapStep /\ OthersStep
<1>1. FsInductive /\ NamesUnique /\ RamfsTypeOK
  BY DEF FsFaithful, FsInductive
<1>2. mounted' = "ramfs" /\ attached' = attached /\ blocks' = blocks /\ mounted' = mounted
  BY DEF r2vars
<1>3. ASSUME NEW n \in Name, NEW op \in {"create", "write", "remove", "rename"}, NEW arg,
             RamfsRefuses(op, n, arg)
      PROVE  NamesUnique' /\ MapStep /\ OthersStep
  <2>1. UNCHANGED <<disk, attached, nodes, blocks, mounted>> /\ incidents' = incidents
        /\ Returns(op, n, arg, FALSE)
    BY <1>2, <1>3 DEF RamfsRefuses, rvars
  <2>2. Readable' = Readable
    BY <2>1, NothingRead
  <2>3. MapStep /\ OthersStep
    BY <2>1, <2>2, RefusedCall
  <2>4. NamesUnique'
    BY <1>1, <2>1 DEF NamesUnique
  <2> QED
    BY <2>3, <2>4
<1>4. ASSUME NEW n, find_file(n) # 0
      PROVE  find_file(n) \in 1 .. Len(nodes) /\ FirstNode(nodes, find_file(n), n)
  BY <1>1, <1>4, FindFile DEF FirstNode
<1>5. CASE ramfs_format
  <2>1. DOMAIN Readable' = {}
    BY <1>1, <1>2, <1>5, FormatReads
  <2>2. call'.op = "format" /\ call'.ok = TRUE
    BY <1>5 DEF ramfs_format, Returns
  <2>3. FM!Format
    BY <2>1, <2>2 DEF FM!Format
  <2>4. NamesUnique'
    <3>1. DOMAIN <<>> = {}
      BY EmptySeq
    <3>2. DOMAIN nodes' = {}
      BY <1>5, <3>1 DEF ramfs_format
    <3> QED
      BY <3>2 DEF NamesUnique
  <2> QED
    BY <2>2, <2>3, <2>4 DEF MapStep, OthersStep, FM!FileNext
<1>6. ASSUME NEW n \in Name, ramfs_create(n) PROVE NamesUnique' /\ MapStep /\ OthersStep
  <2>1. CASE RamfsRefuses("create", n, <<>>)
    BY <1>3, <2>1
  <2>2. CASE ~RamfsRefuses("create", n, <<>>)
    <3>1. /\ find_file(n) = 0 /\ Len(nodes) < MaxNodes
          /\ nodes' = << [name |-> n, size |-> 0, start_block |-> next_free_block] >> \o nodes
          /\ next_free_block' = next_free_block /\ incidents' = incidents /\ disk' = disk
          /\ Returns("create", n, <<>>, TRUE)
      BY <1>6, <2>2 DEF ramfs_create
    <3>2. /\ KeepsAllBut({n}) /\ n \notin DOMAIN Readable
          /\ n \in DOMAIN Readable' /\ Readable'[n] = <<>>
          /\ NamesUnique => NamesUnique'
      BY <1>1, <1>2, <3>1, CreateReads
    <3> QED
      BY <1>1, <3>1, <3>2, CreatedMap
  <2> QED
    BY <2>1, <2>2
<1>7. ASSUME NEW n \in Name, NEW content \in Contents, ramfs_write(n, content)
      PROVE  NamesUnique' /\ MapStep /\ OthersStep
  <2>1. CASE RamfsRefuses("write", n, content)
    BY <1>3, <2>1
  <2>2. CASE ~RamfsRefuses("write", n, content)
    <3> DEFINE f == find_file(n)
               k == Len(content)
    <3>1. /\ f # 0 /\ next_free_block + k <= MaxFree
          /\ nodes' = [nodes EXCEPT ![f].size = k]
          /\ next_free_block' = next_free_block + k
          /\ disk' = Written([i \in 1 .. k |-> nodes[f].start_block + i - 1], content)
          /\ incidents' = incidents \cup WriteIncidents(nodes[f], k)
          /\ Returns("write", n, content, TRUE)
      BY <1>7, <2>2 DEF ramfs_write, Incident
    <3>2. f \in 1 .. Len(nodes) /\ FirstNode(nodes, f, n) /\ k = Len(content)
      BY <1>4, <3>1
    <3> HIDE DEF f, k
    <3>3. /\ n \in DOMAIN Readable /\ DOMAIN Readable' = DOMAIN Readable
          /\ "grows" \notin incidents' => KeepsAllBut({n})
          /\ incidents' \subseteq {"forgotten"} => Readable'[n] = content
          /\ NamesUnique => NamesUnique'
      BY <1>1, <1>2, <3>1, <3>2, WriteReads
    <3>4. "grows" \notin incidents' => KeepsAllBut({n} \cup BeingRemoved)
      BY <3>3, KeepsFewer
    <3> QED
      BY <1>1, <3>1, <3>3, <3>4, WrittenMap
  <2> QED
    BY <2>1, <2>2
<1>8. ASSUME NEW n \in Name, ramfs_remove(n) PROVE NamesUnique' /\ MapStep /\ OthersStep
  <2>1. CASE RamfsRefuses("remove", n, <<>>)
    BY <1>3, <2>1
  <2>2. CASE ~RamfsRefuses("remove", n, <<>>)
    <3>1. /\ find_file(n) # 0 /\ nodes' = RemoveAt(nodes, find_file(n))
          /\ next_free_block' = next_free_block /\ incidents' = incidents /\ disk' = disk
          /\ Returns("remove", n, <<>>, TRUE)
      BY <1>8, <2>2 DEF ramfs_remove
    <3>2. /\ KeepsAllBut({n}) /\ n \in DOMAIN Readable
          /\ "renamed_over" \notin incidents => n \notin DOMAIN Readable'
          /\ NamesUnique'
      BY <1>2, <1>4, <3>1, RemoveReads
    <3> QED
      BY <3>1, <3>2, RemovedMap
  <2> QED
    BY <2>1, <2>2
<1>9. ASSUME NEW n \in Name, NEW new \in Name, ramfs_rename(n, new)
      PROVE  NamesUnique' /\ MapStep /\ OthersStep
  <2>1. CASE RamfsRefuses("rename", n, new)
    BY <1>3, <2>1
  <2>2. CASE ~RamfsRefuses("rename", n, new)
    <3>1. /\ find_file(n) # 0 /\ nodes' = [nodes EXCEPT ![find_file(n)].name = new]
          /\ next_free_block' = next_free_block /\ disk' = disk
          /\ incidents' = incidents \cup
                            (IF new # n /\ find_file(new) # 0 THEN {"renamed_over"} ELSE {})
          /\ Returns("rename", n, new, TRUE)
      BY <1>9, <2>2 DEF ramfs_rename, Incident
    <3>2. /\ KeepsAllBut({n, new}) /\ n \in DOMAIN Readable
          /\ "renamed_over" \notin incidents' =>
               /\ Readable'[new] = Readable[n]
               /\ n # new => n \notin DOMAIN Readable' /\ new \notin DOMAIN Readable
          /\ NamesUnique'
      BY <1>2, <1>4, <3>1, RenameReads
    <3> QED
      BY <3>1, <3>2, RenamedMap
  <2> QED
    BY <2>1, <2>2
<1> QED
  BY <1>5, <1>6, <1>7, <1>8, <1>9 DEF RamfsCall

-----------------------------------------------------------------------------
(* The same for ramfs2 and its interrupted calls. *)

\* A call that names n leaves the other files alone, but for a file being
\* removed when what it has given back is taken.
OtherFiles(n) ==
    incidents' \cap {"junk_freed", "same_block", "same_node"} = {} =>
        \A m \in DOMAIN blocks :
            m # n /\ (m \notin BeingRemoved \/ "reused_early" \notin incidents') => SameFile(m)

LEMMA OtherFilesKept ==
    ASSUME mounted = "ramfs2", UNCHANGED <<attached, mounted>>, NEW n, OtherFiles(n),
           DOMAIN blocks' \ {n} \subseteq DOMAIN blocks,
           incidents' \cap {"junk_freed", "same_block", "same_node"} = {}
    PROVE  /\ KeepsAllBut({n} \cup BeingRemoved)
           /\ "reused_early" \notin incidents' => KeepsAllBut({n})
<1>1. \A m \in DOMAIN blocks' : m # n => m \in DOMAIN blocks
  OBVIOUS
<1>2. KeepsAllBut({n} \cup BeingRemoved)
  <2> DEFINE names == {n} \cup BeingRemoved
  <2>1. \A m \in DOMAIN blocks : m \notin names => SameFile(m)
    BY DEF OtherFiles
  <2>2. \A m \in DOMAIN blocks' : m \notin names => m \in DOMAIN blocks
    BY <1>1
  <2> HIDE DEF names
  <2>3. KeepsAllBut(names)
    BY <2>1, <2>2, Ramfs2Kept
  <2> QED
    BY <2>3 DEF names
<1>3. ASSUME "reused_early" \notin incidents' PROVE KeepsAllBut({n})
  <2>1. \A m \in DOMAIN blocks : m \notin {n} => SameFile(m)
    BY <1>3 DEF OtherFiles
  <2>2. \A m \in DOMAIN blocks' : m \notin {n} => m \in DOMAIN blocks
    BY <1>1
  <2> QED
    BY <2>1, <2>2, Ramfs2Kept
<1> QED
  BY <1>2, <1>3

LEMMA SameDisk ==
    ASSUME disk' = disk, NEW n,
           \A m \in DOMAIN blocks : m # n => m \in DOMAIN blocks' /\ blocks'[m] = blocks[m]
    PROVE  OtherFiles(n)
  BY DEF OtherFiles, SameFile

\* Every block in an array is marked, or was given back by the remove under way.
LEMMA MarkedOrGivenBack ==
    ASSUME FsInductive, incidents \cap {"junk_freed", "same_block", "same_node"} = {},
           NEW m \in DOMAIN blocks, NEW j \in DOMAIN blocks[m], blocks[m][j] \in Block
    PROVE  \/ j \in Kept(m) /\ blocks[m][j] \in block_map
           \/ m \in BeingRemoved /\ blocks[m][j] \in GivenBack
<1>1. blocks[m][j] # JUNK
  BY JunkAssumption
<1>2. CASE j \in Kept(m)
  BY <1>2 DEF FsInductive, FilesInductive, EntriesExclusive
<1>3. CASE j \notin Kept(m)
  <2>1. Removing /\ editor.n = m /\ j < editor.i
    BY <1>1, <1>3 DEF Kept
  <2>2. editor.i \in Nat
    BY <2>1, EditorFacts DEF Removing
  <2>3. j \in Nat /\ 1 <= j
    BY Arrays DEF FsInductive
  <2>4. j \in 1 .. editor.i - 1
    BY <2>1, <2>2, <2>3
  <2> QED
    BY <2>1, <2>4 DEF BeingRemoved, GivenBack
<1> QED
  BY <1>2, <1>3

\* Writing to blocks that are free, or nobody's, disturbs no other file.
LEMMA WriteElsewhere ==
    ASSUME FsInductive, NEW n, NEW at, NEW content, NEW k \in Nat, content \in [1 .. k -> Data],
           disk' = Written(at, content),
           \A m \in DOMAIN blocks : m # n => m \in DOMAIN blocks' /\ blocks'[m] = blocks[m],
           incidents' \cap {"junk_freed", "same_block", "same_node"} = {} =>
              \A m \in DOMAIN blocks : \A j \in DOMAIN blocks[m] :
                 m # n /\ (m \notin BeingRemoved \/ "reused_early" \notin incidents')
                 /\ blocks[m][j] \in Block => \A i \in 1 .. k : at[i] # blocks[m][j]
    PROVE  OtherFiles(n)
<1>1. DiskTypeOK
  BY DEF FsInductive
<1>2. ASSUME incidents' \cap {"junk_freed", "same_block", "same_node"} = {},
             NEW m \in DOMAIN blocks, m # n,
             m \notin BeingRemoved \/ "reused_early" \notin incidents'
      PROVE  SameFile(m)
  <2>1. ASSUME NEW j \in DOMAIN blocks[m], blocks[m][j] \in Block
        PROVE  disk'[blocks[m][j]] = disk[blocks[m][j]]
    <3>1. \A i \in 1 .. k : at[i] # blocks[m][j]
      BY <1>2, <2>1
    <3> QED
      BY <1>1, <2>1, <3>1, WrittenFits
  <2> QED
    BY <1>2, <2>1 DEF SameFile
<1> QED
  BY <1>2 DEF OtherFiles

\* What a step of a call that names n does.
Ramfs2Step(n) == MapStep /\ OthersStep /\ incidents \subseteq incidents' /\ OtherFiles(n)

LEMMA Ramfs2Refused ==
    ASSUME mounted = "ramfs2", UNCHANGED <<attached, rvars, mounted>>, NEW n, NEW op, NEW arg,
           Ramfs2Refuses(op, n, arg),
           (n \in Name /\ op \in {"create", "write", "remove", "rename"}) \/ op = "format"
    PROVE  Ramfs2Step(n) /\ writer' = writer /\ blocks' = blocks /\ disk' = disk
<1>1. UNCHANGED <<disk, attached, nodes, blocks, mounted>> /\ incidents' = incidents
      /\ Returns(op, n, arg, FALSE) /\ writer' = writer
  BY DEF Ramfs2Refuses, r2vars, r2open, rvars
<1>2. Readable' = Readable
  BY <1>1, NothingRead
<1>3. MapStep /\ OthersStep
  BY <1>1, <1>2, RefusedCall
<1>4. OtherFiles(n)
  BY <1>1, SameDisk
<1> QED
  BY <1>1, <1>3, <1>4 DEF Ramfs2Step

\* A file without blocks has no contents.
LEMMA EmptyRead ==
    ASSUME mounted = "ramfs2", UNCHANGED mounted, NEW n \in DOMAIN blocks', blocks'[n] = <<>>
    PROVE  n \in DOMAIN Readable' /\ Readable'[n] = <<>>
<1>1. ArrayRead(<<>>, disk', attached') = <<>>
  BY EmptySeq DEF ArrayRead
<1>2. n \in DOMAIN Readable' /\ Readable'[n] = ArrayRead(blocks'[n], disk', attached')
  BY ArrayReadableThen
<1> QED
  BY <1>1, <1>2

LEMMA Ramfs2Created ==
    ASSUME mounted = "ramfs2", UNCHANGED <<attached, rvars, mounted>>,
           NEW n \in Name, ramfs2_create(n)
    PROVE  /\ Ramfs2Step(n) /\ writer' = writer
           /\ \A m \in DOMAIN blocks : m \in DOMAIN blocks' /\ blocks'[m] = blocks[m]
           /\ disk' = disk
<1>1. CASE Ramfs2Refuses("create", n, <<>>)
  BY <1>1, Ramfs2Refused
<1>2. CASE ~Ramfs2Refuses("create", n, <<>>)
  <2>1. /\ n \notin DOMAIN blocks
        /\ blocks' = [m \in DOMAIN blocks \cup {n} |-> IF m = n THEN <<>> ELSE blocks[m]]
        /\ Returns("create", n, <<>>, TRUE) /\ disk' = disk /\ incidents' = incidents
        /\ writer' = writer
    BY <1>2 DEF ramfs2_create, r2open
  <2>2. /\ \A m \in DOMAIN blocks : m \in DOMAIN blocks' /\ blocks'[m] = blocks[m]
        /\ n \in DOMAIN blocks' /\ blocks'[n] = <<>> /\ DOMAIN blocks' \ {n} \subseteq DOMAIN blocks
    BY <2>1
  <2>3. OtherFiles(n)
    BY <2>1, <2>2, SameDisk
  <2>4. KeepsAllBut({n})
    <3>1. \A m \in DOMAIN blocks : m \notin {n} => SameFile(m)
      BY <2>1, <2>2 DEF SameFile
    <3>2. \A m \in DOMAIN blocks' : m \notin {n} => m \in DOMAIN blocks
      BY <2>2
    <3> QED
      BY <3>1, <3>2, Ramfs2Kept
  <2>5. n \notin DOMAIN Readable
    BY <2>1, ArrayReadable
  <2>6. n \in DOMAIN Readable' /\ Readable'[n] = <<>>
    BY <2>2, EmptyRead
  <2>7. MapStep /\ OthersStep
    BY <2>1, <2>4, <2>5, <2>6, CreatedMap
  <2> QED
    BY <2>1, <2>2, <2>3, <2>7 DEF Ramfs2Step
<1> QED
  BY <1>1, <1>2

LEMMA Ramfs2Removed ==
    ASSUME mounted = "ramfs2", UNCHANGED <<attached, rvars, mounted>>,
           NEW n \in Name, ramfs2_remove(n)
    PROVE  /\ Ramfs2Step(n)
           /\ \/ Passes("remove", n)
              \/ writer' = writer /\ blocks' = blocks /\ disk' = disk
<1>1. CASE Ramfs2Refuses("remove", n, <<>>)
  BY <1>1, Ramfs2Refused
<1>2. CASE ~Ramfs2Refuses("remove", n, <<>>)
  <2>1. /\ n \in DOMAIN blocks /\ blocks' = [m \in DOMAIN blocks \ {n} |-> blocks[m]]
        /\ Returns("remove", n, <<>>, TRUE) /\ disk' = disk /\ incidents \subseteq incidents'
        /\ Passes("remove", n)
    BY <1>2 DEF ramfs2_remove, Incident
  <2>2. /\ \A m \in DOMAIN blocks : m # n => m \in DOMAIN blocks' /\ blocks'[m] = blocks[m]
        /\ n \notin DOMAIN blocks' /\ DOMAIN blocks' \ {n} \subseteq DOMAIN blocks
    BY <2>1
  <2>3. OtherFiles(n)
    BY <2>1, <2>2, SameDisk
  <2>4. KeepsAllBut({n})
    <3>1. \A m \in DOMAIN blocks : m \notin {n} => SameFile(m)
      BY <2>1, <2>2 DEF SameFile
    <3>2. \A m \in DOMAIN blocks' : m \notin {n} => m \in DOMAIN blocks
      BY <2>2
    <3> QED
      BY <3>1, <3>2, Ramfs2Kept
  <2>5. n \in DOMAIN Readable /\ n \notin DOMAIN Readable'
    BY <2>1, <2>2, ArrayReadable, ArrayReadableThen
  <2>6. MapStep /\ OthersStep
    BY <2>1, <2>4, <2>5, RemovedMap
  <2> QED
    BY <2>1, <2>3, <2>6 DEF Ramfs2Step
<1> QED
  BY <1>1, <1>2

\* A write that changes its file, and only that.
LEMMA WriteStep ==
    ASSUME mounted = "ramfs2", UNCHANGED <<attached, mounted>>, NEW n \in Name, NEW content,
           NEW ok \in BOOLEAN, Returns("write", n, content, ok), OtherFiles(n),
           n \in DOMAIN blocks, DOMAIN blocks' = DOMAIN blocks, incidents \subseteq incidents',
           incidents' \subseteq {"forgotten"} /\ ok =>
              ArrayRead(blocks'[n], disk', attached') = content
    PROVE  Ramfs2Step(n)
<1>1. n \in DOMAIN Readable /\ DOMAIN Readable' = DOMAIN Readable
      /\ Readable'[n] = ArrayRead(blocks'[n], disk', attached')
  BY ArrayReadable, ArrayReadableThen
<1>2. incidents' \cap {"grows", "junk_freed", "same_block", "same_node"} = {} =>
        KeepsAllBut({n} \cup BeingRemoved)
  BY OtherFilesKept
<1>3. incidents' \subseteq {"forgotten"} => KeepsAllBut({n})
  <2>1. incidents' \subseteq {"forgotten"} =>
          /\ incidents' \cap {"junk_freed", "same_block", "same_node"} = {}
          /\ "reused_early" \notin incidents'
    OBVIOUS
  <2> QED
    BY <2>1, OtherFilesKept
<1>4. incidents' \subseteq {"forgotten"} /\ ok => Readable'[n] = content
  BY <1>1
<1>5. MapStep /\ OthersStep
  BY <1>1, <1>2, <1>3, <1>4, WrittenMap
<1> QED
  BY <1>5 DEF Ramfs2Step

LEMMA Ramfs2Wrote ==
    ASSUME FsInductive, mounted = "ramfs2", UNCHANGED <<attached, rvars, mounted>>,
           NEW n \in Name, NEW content \in Contents, ramfs2_write(n, content)
    PROVE  /\ Ramfs2Step(n)
           /\ \/ Passes("write", n)
              \/ writer' = writer /\ blocks' = blocks /\ disk' = disk
<1>1. CASE n \notin DOMAIN blocks /\ Ramfs2Refuses("write", n, content)
  BY <1>1, Ramfs2Refused
<1>2. CASE WriteLosesArray(n, content)
  <2>1. /\ n \in DOMAIN blocks
        /\ blocks' = [blocks EXCEPT ![n] = [i \in DOMAIN @ |-> JUNK]]
        /\ Returns("write", n, content, FALSE) /\ disk' = disk /\ incidents \subseteq incidents'
        /\ Passes("write", n)
    BY <1>2 DEF WriteLosesArray, Incident
  <2>2. /\ \A m \in DOMAIN blocks : m # n => m \in DOMAIN blocks' /\ blocks'[m] = blocks[m]
        /\ DOMAIN blocks' = DOMAIN blocks
    BY <2>1
  <2>3. OtherFiles(n)
    BY <2>1, <2>2, SameDisk
  <2>4. Ramfs2Step(n)
    BY <2>1, <2>2, <2>3, WriteStep
  <2> QED
    BY <2>1, <2>4
<1>3. CASE WriteToBlocks(n, content)
  <2> DEFINE k == Len(content)
  <2>1. PICK got \in 0 .. k :
             LET at == Allocated(got)
                 arr == [i \in 1 .. k |-> IF i <= got THEN at[i] ELSE JUNK]
             IN /\ n \in DOMAIN blocks /\ blocks' = [blocks EXCEPT ![n] = arr]
                /\ list' = list /\ Passes("write", n)
                /\ arr \in [1 .. k -> Block \cup {JUNK}]
                /\ \A i, j \in 1 .. k : arr[i] = arr[j] /\ arr[i] # JUNK => i = j
                /\ \A i \in 1 .. k : arr[i] \notin block_map
                /\ block_map' = block_map \cup {b \in Block : \E i \in 1 .. k : arr[i] = b}
                /\ incidents' = incidents \cup (ArrayIncidents(n, got) \cup Meets("write", n)
                                                 \cup TakesBack({b \in Block : \E i \in 1 .. k : arr[i] = b}))
                /\ at \in [1 .. got -> Block \ block_map]
                /\ \A i, j \in 1 .. got : at[i] = at[j] => i = j
                /\ SubSeq(content, 1, got) \in [1 .. got -> Data]
                /\ \A i \in 1 .. got : SubSeq(content, 1, got)[i] = content[i]
                /\ disk' = Written(at, SubSeq(content, 1, got))
                /\ call' = [op |-> "write", name |-> n, arg |-> content, ok |-> got = k]
    BY <1>3, WriteToBlocksEffect, Zenon
  <2> DEFINE at == Allocated(got)
             arr == [i \in 1 .. k |-> IF i <= got THEN at[i] ELSE JUNK]
             data == SubSeq(content, 1, got)
             taken == {b \in Block : \E i \in 1 .. k : arr[i] = b}
  <2>2. /\ n \in DOMAIN blocks /\ blocks' = [blocks EXCEPT ![n] = arr]
        /\ incidents' = incidents \cup (ArrayIncidents(n, got) \cup Meets("write", n)
                                        \cup TakesBack(taken))
        /\ at \in [1 .. got -> Block \ block_map]
        /\ \A i, j \in 1 .. got : at[i] = at[j] => i = j
        /\ data \in [1 .. got -> Data] /\ \A i \in 1 .. got : data[i] = content[i]
        /\ disk' = Written(at, data) /\ Passes("write", n)
        /\ Returns("write", n, content, got = k)
    BY <2>1, Zenon DEF Returns
  <2>3. k \in Nat /\ got \in Nat /\ got <= k /\ content = [i \in 1 .. k |-> content[i]]
    BY ContentsAreSequences
  <2>4. arr = [i \in 1 .. k |-> IF i <= got THEN at[i] ELSE JUNK]
    OBVIOUS
  <2>5. \A i \in 1 .. got : at[i] \in taken
    <3> HIDE DEF k, at
    <3> SUFFICES ASSUME NEW i \in 1 .. got PROVE at[i] \in taken
      OBVIOUS
    <3>1. i \in 1 .. k /\ i <= got
      BY <2>3
    <3>2. arr[i] = at[i] /\ at[i] \in Block
      BY <2>2, <3>1
    <3> QED
      BY <3>1, <3>2
  <2> HIDE DEF k, at, arr, data, taken
  <2>6. /\ \A m \in DOMAIN blocks : m # n => m \in DOMAIN blocks' /\ blocks'[m] = blocks[m]
        /\ DOMAIN blocks' = DOMAIN blocks /\ blocks'[n] = arr /\ incidents \subseteq incidents'
    BY <2>2
  <2>7. "reused_early" \notin incidents' => \A i \in 1 .. got : at[i] \notin GivenBack
    BY <2>2, <2>5 DEF TakesBack
  <2>8. OtherFiles(n)
    <3>1. ASSUME incidents' \cap {"junk_freed", "same_block", "same_node"} = {},
                 NEW m \in DOMAIN blocks, NEW j \in DOMAIN blocks[m], blocks[m][j] \in Block,
                 m \notin BeingRemoved \/ "reused_early" \notin incidents',
                 NEW i \in 1 .. got
          PROVE  at[i] # blocks[m][j]
      <4>1. incidents \cap {"junk_freed", "same_block", "same_node"} = {}
        BY <2>6, <3>1
      <4>2. \/ blocks[m][j] \in block_map
            \/ m \in BeingRemoved /\ blocks[m][j] \in GivenBack
        BY <3>1, <4>1, MarkedOrGivenBack
      <4>3. at[i] \notin block_map
        BY <2>2
      <4> QED
        BY <2>7, <3>1, <4>2, <4>3
    <3> QED
      BY <2>2, <2>3, <2>6, <3>1, WriteElsewhere
  <2>9. ASSUME incidents' \subseteq {"forgotten"}, got = k
        PROVE  ArrayRead(blocks'[n], disk', attached') = content
    <3>1. k > 0 => attached
      <4>1. "no_disk" \in ArrayIncidents(n, got) <=> got > 0 /\ ~attached
        BY DEF ArrayIncidents
      <4>2. "no_disk" \notin ArrayIncidents(n, got)
        BY <2>2, <2>9
      <4> QED
        BY <2>9, <4>1, <4>2
    <3>2. ASSUME NEW i \in 1 .. k
          PROVE  attached /\ arr[i] \in Block /\ disk'[arr[i]] = content[i]
      <4>1. attached /\ i \in 1 .. got /\ i <= got
        BY <2>3, <2>9, <3>1
      <4>2. arr[i] = at[i] /\ at[i] \in Block /\ \A j \in 1 .. got : at[j] = at[i] => j = i
        BY <2>2, <2>4, <4>1
      <4>3. data \in [1 .. got -> Data] /\ got \in Nat
        BY <2>2, <2>3
      <4>4. Written(at, data)[at[i]] = data[i]
        BY <4>1, <4>2, <4>3, WrittenReadBack
      <4> QED
        BY <2>2, <4>1, <4>2, <4>4
    <3>3. DOMAIN arr = 1 .. k
      BY <2>4
    <3>4. ArrayRead(arr, disk', attached') = [i \in 1 .. k |-> content[i]]
      BY <3>2, <3>3 DEF ArrayRead
    <3> QED
      BY <2>3, <2>6, <3>4
  <2>10. Ramfs2Step(n)
    BY <2>2, <2>6, <2>8, <2>9, WriteStep
  <2> QED
    BY <2>2, <2>10
<1> QED
  BY <1>1, <1>2, <1>3 DEF ramfs2_write

\* A write under way finds what it has written, unless it has been dropped.
LEMMA SoFarStays ==
    ASSUME FsFaithful, attached' = attached, incidents \subseteq incidents',
           writer' = NoCall \/ writer' = writer,
           incidents' \subseteq {"forgotten"} /\ Writing /\ writer' = writer =>
              SameFile(writer.n)
    PROVE  WrittenSoFar'
<1>1. CASE writer' = NoCall
  BY <1>1 DEF WrittenSoFar, Writing, NoCall
<1>2. CASE writer' = writer
  <2> SUFFICES ASSUME incidents' \subseteq {"forgotten"}, Writing
               PROVE  /\ attached
                      /\ \A j \in DOMAIN blocks'[writer.n] : j < writer.i =>
                           /\ blocks'[writer.n][j] \in Block
                           /\ disk'[blocks'[writer.n][j]] = writer.content[j]
    BY <1>2 DEF WrittenSoFar, Writing
  <2>1. SameFile(writer.n)
    BY <1>2
  <2>2. /\ attached
        /\ \A j \in DOMAIN blocks[writer.n] : j < writer.i =>
             /\ blocks[writer.n][j] \in Block
             /\ disk[blocks[writer.n][j]] = writer.content[j]
    BY DEF FsFaithful, WrittenSoFar
  <2> QED
    BY <2>1, <2>2 DEF SameFile
<1> QED
  BY <1>1, <1>2

\* A call between the steps of a write leaves alone what the write has written,
\* unless it is a write or a removal of the same file.
LEMMA MeanwhileFaithful ==
    ASSUME FsFaithful, mounted = "ramfs2", UNCHANGED <<attached, rvars, mounted>>,
           Ramfs2Call
    PROVE  WrittenSoFar' /\ MapStep /\ OthersStep
<1>1. FsInductive
  BY DEF FsFaithful
<1>2. Writing => writer.n \in DOMAIN blocks /\ writer.n \notin BeingRemoved
  BY <1>1, WriterFacts DEF BeingRemoved
<1>3. ASSUME NEW n, NEW op \in {"write", "remove"}, Ramfs2Step(n),
             Passes(op, n) \/ (writer' = writer /\ blocks' = blocks /\ disk' = disk)
      PROVE  WrittenSoFar' /\ MapStep /\ OthersStep
  <2>1. MapStep /\ OthersStep /\ incidents \subseteq incidents' /\ OtherFiles(n)
    BY <1>3 DEF Ramfs2Step
  <2>2. CASE Passes(op, n)
    <3>1. writer' = NoCall \/ (writer' = writer /\ (Writing => writer.n # n))
      BY <1>3, <2>2 DEF Passes, MeetsWriter
    <3>2. CASE writer' = NoCall
      BY <2>1, <3>2 DEF WrittenSoFar, Writing, NoCall
    <3>3. CASE writer' = writer /\ (Writing => writer.n # n)
      <4>1. incidents' \subseteq {"forgotten"} /\ Writing => SameFile(writer.n)
        BY <1>2, <2>1, <3>3 DEF OtherFiles
      <4> QED
        BY <2>1, <3>3, <4>1, SoFarStays
    <3> QED
      BY <3>1, <3>2, <3>3
  <2>3. CASE writer' = writer /\ blocks' = blocks /\ disk' = disk
    <3>1. Writing => SameFile(writer.n)
      BY <1>2, <2>3 DEF SameFile
    <3> QED
      BY <2>1, <2>3, <3>1, SoFarStays
  <2> QED
    BY <1>3, <2>2, <2>3
<1>4. ASSUME NEW n, Ramfs2Step(n), writer' = writer, disk' = disk,
             \A m \in DOMAIN blocks : m \in DOMAIN blocks' /\ blocks'[m] = blocks[m]
      PROVE  WrittenSoFar' /\ MapStep /\ OthersStep
  <2>1. Writing => SameFile(writer.n)
    BY <1>2, <1>4 DEF SameFile
  <2>2. incidents \subseteq incidents' /\ MapStep /\ OthersStep
    BY <1>4 DEF Ramfs2Step
  <2> QED
    BY <1>4, <2>1, <2>2, SoFarStays
<1>5. ASSUME NEW n \in Name, ramfs2_create(n) PROVE WrittenSoFar' /\ MapStep /\ OthersStep
  BY <1>4, <1>5, Ramfs2Created
<1>6. ASSUME NEW n \in Name, ramfs2_remove(n) PROVE WrittenSoFar' /\ MapStep /\ OthersStep
  BY <1>3, <1>6, Ramfs2Removed
<1>7. ASSUME NEW n \in Name, NEW content \in Contents, ramfs2_write(n, content)
      PROVE  WrittenSoFar' /\ MapStep /\ OthersStep
  BY <1>1, <1>3, <1>7, Ramfs2Wrote
<1>8. CASE ramfs2_missing
  <2>1. CASE Ramfs2Refuses("format", "", <<>>)
    <3>1. \A n, op, arg : op = "format" /\ Ramfs2Refuses(op, n, arg) =>
            Ramfs2Step(n) /\ writer' = writer /\ blocks' = blocks /\ disk' = disk
      BY Ramfs2Refused
    <3>2. Ramfs2Step("") /\ writer' = writer /\ blocks' = blocks /\ disk' = disk
      BY <2>1, <3>1
    <3> QED
      BY <1>4, <3>2
  <2>2. ASSUME NEW n \in Name, NEW new \in Name, Ramfs2Refuses("rename", n, new)
        PROVE  WrittenSoFar' /\ MapStep /\ OthersStep
    <3>1. "rename" \in {"create", "write", "remove", "rename"}
      OBVIOUS
    <3>2. Ramfs2Step(n) /\ writer' = writer /\ blocks' = blocks /\ disk' = disk
      BY <2>2, <3>1, Ramfs2Refused
    <3> QED
      BY <1>4, <3>2
  <2> QED
    BY <1>8, <2>1, <2>2 DEF ramfs2_missing
<1> QED
  BY <1>5, <1>6, <1>7, <1>8 DEF Ramfs2Call

LEMMA BeginFaithful ==
    ASSUME FsFaithful, mounted = "ramfs2", UNCHANGED <<attached, rvars, mounted>>,
           NEW n \in Name, NEW content \in Contents, WriteBegin(n, content)
    PROVE  WrittenSoFar' /\ MapStep /\ OthersStep
<1> DEFINE k == Len(content)
<1>1. /\ n \in DOMAIN blocks /\ disk' = disk /\ attached' = attached /\ content # <<>>
      /\ blocks' = [blocks EXCEPT ![n] = [i \in DOMAIN content |-> JUNK]]
      /\ incidents' = incidents \cup (ArrayIncidents(n, k) \cup Meets("write", n))
      /\ writer' = [pc |-> "test", n |-> n, content |-> content, i |-> 1, blk |-> 0]
      /\ Returns("write", n, content, FALSE)
  BY DEF WriteBegin, Incident
<1>2. k \in Nat /\ k # 0 /\ DOMAIN content = 1 .. k
  <2>1. content \in Seq(Data) /\ k \in Nat /\ DOMAIN content = 1 .. k
    BY ContentsAreSequences
  <2> QED
    BY <1>1, <2>1, EmptySeq
<1>3. /\ \A m \in DOMAIN blocks : m # n => m \in DOMAIN blocks' /\ blocks'[m] = blocks[m]
      /\ DOMAIN blocks' = DOMAIN blocks /\ DOMAIN blocks'[n] = 1 .. k
      /\ incidents \subseteq incidents'
  BY <1>1, <1>2
<1>4. OtherFiles(n)
  BY <1>1, <1>3, SameDisk
<1>5. Ramfs2Step(n)
  BY <1>1, <1>3, <1>4, WriteStep
<1> HIDE DEF k
<1>6. incidents' \subseteq {"forgotten"} => attached
  <2>1. "no_disk" \in ArrayIncidents(n, k) <=> k > 0 /\ ~attached
    BY DEF ArrayIncidents
  <2> QED
    BY <1>1, <1>2, <2>1
<1>7. writer'.n = n /\ writer'.i = 1
  BY <1>1
<1>8. \A j \in 1 .. k : ~(j < 1)
  BY <1>2
<1>9. WrittenSoFar'
  BY <1>1, <1>3, <1>6, <1>7, <1>8 DEF WrittenSoFar
<1> QED
  BY <1>5, <1>9 DEF Ramfs2Step

\* The steps of a write that change nothing a reader finds.
LEMMA QuietStep ==
    ASSUME FsFaithful, mounted = "ramfs2", UNCHANGED <<attached, rvars, mounted>>,
           Writing, UNCHANGED <<blocks, disk>>, incidents \subseteq incidents',
           InProgress
    PROVE  MapStep /\ OthersStep
<1>1. writer.n \in Name /\ writer.n \in DOMAIN blocks
  BY WriterFacts DEF FsFaithful
<1>2. OtherFiles(writer.n)
  BY SameDisk
<1>3. Returns("write", writer.n, writer.content, FALSE)
  BY DEF InProgress
<1> DEFINE m == writer.n
           content == writer.content
<1>4. m \in Name /\ m \in DOMAIN blocks /\ OtherFiles(m) /\ Returns("write", m, content, FALSE)
  BY <1>1, <1>2, <1>3
<1> HIDE DEF m, content
<1>5. Ramfs2Step(m)
  BY <1>4, WriteStep
<1> QED
  BY <1>5 DEF Ramfs2Step

LEMMA AllocTestFaithful ==
    ASSUME FsFaithful, mounted = "ramfs2", UNCHANGED <<attached, rvars, mounted>>, AllocTest
    PROVE  WrittenSoFar' /\ MapStep /\ OthersStep
<1>1. /\ writer.pc = "test" /\ UNCHANGED <<blocks, disk, incidents>> /\ InProgress
      /\ Writing
      /\ writer' = IF block_map = Block THEN NoCall
                   ELSE [writer EXCEPT !.pc = "set", !.blk = alloc_block(block_map)]
  BY DEF AllocTest, Writing, r2vars
<1>2. MapStep /\ OthersStep
  BY <1>1, QuietStep
<1>3. CASE block_map = Block
  <2>1. ~Writing'
    BY <1>1, <1>3 DEF Writing, NoCall
  <2> QED
    BY <1>2, <2>1 DEF WrittenSoFar
<1>4. CASE block_map # Block
  <2>1. writer \in Writer
    BY <1>1, WriterFacts DEF FsFaithful
  <2>2. writer'.n = writer.n /\ writer'.i = writer.i /\ writer'.content = writer.content
    BY <1>1, <1>4, <2>1 DEF Writer
  <2>3. WrittenSoFar
    BY DEF FsFaithful
  <2>4. WrittenSoFar'
    BY <1>1, <2>2, <2>3 DEF WrittenSoFar
  <2> QED
    BY <1>2, <2>4
<1> QED
  BY <1>3, <1>4

LEMMA AllocSetFaithful ==
    ASSUME FsFaithful, mounted = "ramfs2", UNCHANGED <<attached, rvars, mounted>>, AllocSet
    PROVE  WrittenSoFar' /\ MapStep /\ OthersStep
<1>1. /\ writer.pc = "set" /\ UNCHANGED <<blocks, disk>> /\ InProgress
      /\ Writing /\ incidents \subseteq incidents' /\ writer' = [writer EXCEPT !.pc = "fill"]
  BY DEF AllocSet, Writing, Incident
<1>2. MapStep /\ OthersStep
  BY <1>1, QuietStep
<1>3. writer \in Writer
  BY <1>1, WriterFacts DEF FsFaithful
<1>4. writer'.n = writer.n /\ writer'.i = writer.i /\ writer'.content = writer.content
  BY <1>1, <1>3 DEF Writer
<1>5. WrittenSoFar'
  BY <1>1, <1>4 DEF WrittenSoFar, FsFaithful
<1> QED
  BY <1>2, <1>5

\* One block written: the others keep their data.
LEMMA OneWritten ==
    ASSUME NEW b \in Block, NEW at, NEW data, DOMAIN data = {1}, at[1] = b
    PROVE  /\ attached => Written(at, data)[b] = data[1]
           /\ \A c \in Block : c # b => Written(at, data)[c] = disk[c]
<1>1. {x \in DOMAIN data : at[x] = b} = {1}
  OBVIOUS
<1>2. (CHOOSE x \in {1} : \A y \in {1} : y <= x) = 1
  <2>1. 1 <= 1
    OBVIOUS
  <2> QED
    BY <2>1
<1>3. \A c \in Block : c # b => {x \in DOMAIN data : at[x] = c} = {}
  OBVIOUS
<1> QED
  BY <1>1, <1>2, <1>3 DEF Written

LEMMA WriteFillFaithful ==
    ASSUME FsFaithful, mounted = "ramfs2", UNCHANGED <<attached, rvars, mounted>>, WriteFill
    PROVE  WrittenSoFar' /\ MapStep /\ OthersStep
<1> DEFINE n == writer.n
           i == writer.i
           b == writer.blk
           content == writer.content
           data == <<content[i]>>
           at == <<b>>
<1>1. FsInductive /\ WrittenSoFar
  BY DEF FsFaithful
<1>2. /\ Writing /\ writer \in Writer /\ writer.pc = "fill"
      /\ n \in DOMAIN blocks /\ i \in DOMAIN blocks[n] /\ blocks[n][i] = JUNK /\ b \in Block
      /\ i \in 1 .. Len(content) /\ i \in Nat
      /\ DOMAIN blocks' = DOMAIN blocks /\ DOMAIN blocks'[n] = DOMAIN blocks[n]
      /\ \A m \in DOMAIN blocks : m # n => blocks'[m] = blocks[m]
      /\ blocks'[n][i] = b /\ \A j \in DOMAIN blocks[n] : j # i => blocks'[n][j] = blocks[n][j]
      /\ blocks'[n] \in Seq(Block \cup {JUNK}) /\ Len(blocks'[n]) = Len(blocks[n])
      /\ disk' = Written(<<b>>, <<content[i]>>)
      /\ writer' \in Writer /\ writer'.pc = "test" /\ writer'.n = n
      /\ writer'.content = content /\ writer'.i = i + 1
      /\ UNCHANGED <<list, editor, block_map, incidents>> /\ ~(Removing /\ editor.n = n)
      /\ call' = [op |-> "write", name |-> n, arg |-> content, ok |-> FALSE]
  BY <1>1, WriteFillEffect, Zenon
<1>3. n \in Name /\ content \in Contents /\ content[i] \in Data
  BY <1>1, <1>2, WriterFacts, ContentsAreSequences
<1>4. data \in [1 .. 1 -> Data] /\ data[1] = content[i] /\ \A x \in 1 .. 1 : at[x] = b /\ x = 1
  BY <1>3
<1>5. DOMAIN data = {1} /\ at[1] = b
  OBVIOUS
<1>6. ASSUME incidents \cap {"junk_freed", "same_block", "same_node"} = {},
             NEW m \in DOMAIN blocks, NEW j \in DOMAIN blocks[m],
             m \notin BeingRemoved \/ "reused_early" \notin incidents
      PROVE  blocks[m][j] # b
  <2>1. b \in block_map /\ \A y \in Kept(m) : blocks[m][y] # b
    BY <1>1, <1>2, <1>6 DEF FsInductive, FilesInductive, BlockIsWriters
  <2>2. "reused_early" \notin incidents => b \notin GivenBack
    BY <1>1, <1>6, <2>1 DEF FsInductive, FilesInductive, GivenBackIsFree
  <2>3. blocks[m][j] \in Block =>
          j \in Kept(m) \/ (m \in BeingRemoved /\ blocks[m][j] \in GivenBack)
    BY <1>1, <1>6, MarkedOrGivenBack
  <2> QED
    BY <1>2, <1>6, <2>1, <2>2, <2>3
<1>7. disk' = Written(at, data)
  BY <1>2
<1>8. attached' = attached /\ DiskTypeOK
  BY <1>1 DEF FsInductive
<1>9. incidents \subseteq {"forgotten"} =>
        /\ attached
        /\ \A j \in DOMAIN blocks[n] : j < i =>
             blocks[n][j] \in Block /\ disk[blocks[n][j]] = content[j]
  BY <1>1, <1>2 DEF WrittenSoFar
<1>10. DOMAIN blocks[n] \subseteq Nat
  <2>1. DOMAIN blocks[n] = 1 .. Len(blocks[n])
    BY <1>1, <1>2, Arrays DEF FsInductive
  <2> QED
    BY <2>1
<1> HIDE DEF n, i, b, content, data, at
<1>11. OtherFiles(n)
  <2>1. \A m \in DOMAIN blocks : m # n => m \in DOMAIN blocks' /\ blocks'[m] = blocks[m]
    BY <1>2
  <2>2. incidents' \cap {"junk_freed", "same_block", "same_node"} = {} =>
           \A m \in DOMAIN blocks : \A j \in DOMAIN blocks[m] :
              m # n /\ (m \notin BeingRemoved \/ "reused_early" \notin incidents')
              /\ blocks[m][j] \in Block => \A x \in 1 .. 1 : at[x] # blocks[m][j]
    BY <1>2, <1>4, <1>6
  <2>3. 1 \in Nat
    OBVIOUS
  <2> QED
    BY <1>1, <1>4, <1>7, <2>1, <2>2, <2>3, WriteElsewhere
<1>12. Ramfs2Step(n)
  <2>1. Returns("write", n, content, FALSE) /\ incidents \subseteq incidents'
    BY <1>2 DEF Returns
  <2> QED
    BY <1>2, <1>3, <1>11, <2>1, WriteStep
<1>13. ASSUME incidents \subseteq {"forgotten"}
       PROVE  /\ attached
              /\ \A j \in DOMAIN blocks'[n] : j < i + 1 =>
                   blocks'[n][j] \in Block /\ disk'[blocks'[n][j]] = content[j]
  <2>1. attached
    BY <1>9, <1>13
  <2>2. \A m \in DOMAIN blocks : \A j \in DOMAIN blocks[m] : blocks[m][j] # b
    BY <1>6, <1>13
  <2>3. ASSUME NEW j \in DOMAIN blocks[n], j < i + 1
        PROVE  blocks'[n][j] \in Block /\ disk'[blocks'[n][j]] = content[j]
    <3>1. CASE j = i
      <4>1. at[1] = b
        BY <1>4
      <4>2. Written(at, data)[b] = data[1]
        BY <1>2, <1>5, <2>1, <4>1, OneWritten
      <4> QED
        BY <1>2, <1>4, <1>7, <3>1, <4>1, <4>2
    <3>2. CASE j # i
      <4>1. j < i
        BY <1>2, <1>10, <2>3, <3>2
      <4>2. blocks'[n][j] = blocks[n][j] /\ blocks[n][j] \in Block
            /\ disk[blocks[n][j]] = content[j] /\ blocks[n][j] # b
        BY <1>2, <1>9, <1>13, <2>2, <3>2, <4>1
      <4>3. Written(at, data)[blocks[n][j]] = disk[blocks[n][j]]
        BY <1>2, <1>4, <1>5, <4>2, OneWritten
      <4> QED
        BY <1>7, <4>2, <4>3
    <3> QED
      BY <3>1, <3>2
  <2> QED
    BY <1>2, <2>1, <2>3
<1>14. WrittenSoFar'
  BY <1>2, <1>8, <1>13 DEF WrittenSoFar
<1> QED
  BY <1>12, <1>14 DEF Ramfs2Step

\* A write that ends has written all of its content.
LEMMA WriteEndFaithful ==
    ASSUME FsFaithful, mounted = "ramfs2", UNCHANGED <<attached, rvars, mounted>>, WriteEnd
    PROVE  WrittenSoFar' /\ MapStep /\ OthersStep
<1> DEFINE n == writer.n
           content == writer.content
<1>1. /\ writer.pc = "test" /\ writer.i > Len(content) /\ writer' = NoCall
      /\ Returns("write", n, content, TRUE) /\ UNCHANGED <<blocks, disk, incidents>> /\ Writing
      /\ attached' = attached
  BY DEF WriteEnd, Writing, r2vars
<1>2. FsInductive /\ WrittenSoFar
  BY DEF FsFaithful
<1>3. /\ n \in Name /\ content \in Contents /\ Len(content) \in Nat /\ writer.i \in Nat
      /\ content = [j \in 1 .. Len(content) |-> content[j]]
  BY <1>1, <1>2, WriterFacts, ContentsAreSequences
<1>4. n \in DOMAIN blocks /\ DOMAIN blocks[n] = 1 .. Len(content)
  BY <1>1, <1>2, Arrays DEF FsInductive, ArrayIsWriters
<1>5. incidents \subseteq {"forgotten"} =>
        /\ attached
        /\ \A j \in DOMAIN blocks[n] : j < writer.i =>
             blocks[n][j] \in Block /\ disk[blocks[n][j]] = content[j]
  BY <1>1, <1>2 DEF WrittenSoFar
<1> HIDE DEF n, content
<1>6. ASSUME incidents' \subseteq {"forgotten"}
      PROVE  ArrayRead(blocks'[n], disk', attached') = content
  <2>1. \A j \in 1 .. Len(content) : j < writer.i
    BY <1>1, <1>3
  <2>2. \A j \in 1 .. Len(content) :
          attached /\ blocks[n][j] \in Block /\ disk[blocks[n][j]] = content[j]
    BY <1>1, <1>4, <1>5, <1>6, <2>1
  <2>3. ArrayRead(blocks[n], disk, attached) = [j \in 1 .. Len(content) |-> content[j]]
    BY <1>4, <2>2 DEF ArrayRead
  <2> QED
    BY <1>1, <1>3, <2>3
<1>7. OtherFiles(n)
  BY <1>1, SameDisk
<1>8. Ramfs2Step(n)
  BY <1>1, <1>3, <1>4, <1>6, <1>7, WriteStep
<1>9. WrittenSoFar'
  BY <1>1 DEF WrittenSoFar, Writing, NoCall
<1> QED
  BY <1>8, <1>9 DEF Ramfs2Step

LEMMA WriteOnFaithful ==
    ASSUME FsFaithful, mounted = "ramfs2", UNCHANGED <<attached, rvars, mounted>>, WriteOn
    PROVE  WrittenSoFar' /\ MapStep /\ OthersStep
BY AllocTestFaithful, AllocSetFaithful, WriteFillFaithful, WriteEndFaithful DEF WriteOn

\* The steps of a create or remove that no reader sees.
LEMMA UnseenStep ==
    ASSUME FsFaithful, UNCHANGED <<attached, rvars, mounted>>,
           UNCHANGED <<blocks, disk, call>>, incidents \subseteq incidents',
           writer' = NoCall \/ writer' = writer
    PROVE  WrittenSoFar' /\ MapStep /\ OthersStep
<1>1. Readable' = Readable
  BY NothingRead DEF rvars
<1>2. Writing => SameFile(writer.n)
  <2>1. Writing => writer.n \in DOMAIN blocks
    BY WriterFacts DEF FsFaithful
  <2> QED
    BY <2>1 DEF SameFile
<1>3. WrittenSoFar'
  BY <1>2, SoFarStays
<1> QED
  BY <1>1, <1>3 DEF MapStep, OthersStep

LEMMA CreateLinkFaithful ==
    ASSUME FsFaithful, mounted = "ramfs2", UNCHANGED <<attached, rvars, mounted>>, CreateLink
    PROVE  WrittenSoFar' /\ MapStep /\ OthersStep
<1> DEFINE n == editor.n
           on == Range(Onward)
<1>1. /\ editor.pc = "link" /\ disk' = disk /\ attached' = attached /\ mounted' = "ramfs2"
      /\ blocks' = [m \in {n} \cup on |-> IF m = n THEN <<>> ELSE blocks[m]]
      /\ incidents' = incidents \cup (ListIncidents(Onward # list, on \ {n})
                                      \cup {x \in {"same_name"} : n \in on})
      /\ writer' = IF Writing /\ writer.n \notin on \ {n} THEN NoCall ELSE writer
      /\ Returns("create", n, <<>>, TRUE)
  BY DEF CreateLink, OnlyThese, Incident
<1>2. FsInductive /\ Ramfs2TypeOK
  BY DEF FsFaithful, FsInductive
<1>3. n \in Name
  BY <1>1, <1>2, EditorFacts
<1>4. on \subseteq DOMAIN blocks
  BY <1>2, OnwardFacts
<1>5. "lost_node" \notin incidents' => on = DOMAIN blocks
  <2>1. "lost_node" \in ListIncidents(Onward # list, on \ {n}) <=> Onward # list
    BY DEF ListIncidents
  <2>2. Range(list) = DOMAIN blocks
    BY <1>2, ListFacts
  <2> QED
    BY <1>1, <2>1, <2>2
<1> HIDE DEF n, on
<1>6. /\ DOMAIN blocks' = {n} \cup on /\ blocks'[n] = <<>>
      /\ \A m \in on : m # n => m \in DOMAIN blocks' /\ blocks'[m] = blocks[m]
      /\ incidents \subseteq incidents'
  BY <1>1
<1>7. \A m \in on : m # n => SameFile(m)
  BY <1>1, <1>6 DEF SameFile
<1>8. ASSUME "lost_node" \notin incidents' PROVE KeepsAllBut({n})
  <2>1. \A m \in DOMAIN blocks : m \notin {n} => SameFile(m)
    BY <1>5, <1>7, <1>8
  <2>2. \A m \in DOMAIN blocks' : m \notin {n} => m \in DOMAIN blocks
    BY <1>4, <1>6
  <2> QED
    BY <1>1, <2>1, <2>2, Ramfs2Kept
<1>9. incidents' \subseteq {"forgotten"} => n \notin DOMAIN Readable
  <2>1. incidents' \subseteq {"forgotten"} =>
          "lost_node" \notin incidents' /\ "same_name" \notin incidents'
    OBVIOUS
  <2>2. "same_name" \notin incidents' => n \notin on
    BY <1>1
  <2>3. DOMAIN Readable = DOMAIN blocks
    BY ArrayReadable
  <2> QED
    BY <1>5, <2>1, <2>2, <2>3
<1>10. n \in DOMAIN Readable' /\ Readable'[n] = <<>>
  BY <1>1, <1>6, EmptyRead
<1>11. MapStep /\ OthersStep
  BY <1>1, <1>3, <1>8, <1>9, <1>10, CreatedMap
<1>12. WrittenSoFar'
  <2>1. writer' = NoCall \/ (writer' = writer /\ (Writing => writer.n \in on /\ writer.n # n))
    <3>1. CASE Writing /\ writer.n \notin on \ {n}
      BY <1>1, <3>1, Zenon
    <3>2. CASE ~(Writing /\ writer.n \notin on \ {n})
      <4>1. writer' = writer
        BY <1>1, <3>2, Zenon
      <4> QED
        BY <3>2, <4>1
    <3> QED
      BY <3>1, <3>2
  <2>2. CASE writer' = NoCall
    BY <2>2 DEF WrittenSoFar, Writing, NoCall
  <2>3. CASE writer' = writer /\ (Writing => writer.n \in on /\ writer.n # n)
    BY <1>6, <1>7, <2>3, SoFarStays
  <2> QED
    BY <2>1, <2>2, <2>3
<1> QED
  BY <1>11, <1>12

LEMMA RemoveUnlinkFaithful ==
    ASSUME FsFaithful, mounted = "ramfs2", UNCHANGED <<attached, rvars, mounted>>, RemoveUnlink
    PROVE  WrittenSoFar' /\ MapStep /\ OthersStep
<1> DEFINE n == editor.n
           left == Range(Unlinked)
           rest == editor.beside = {} /\ PlaceOf(n) # 1
<1>1. /\ Removing /\ disk' = disk /\ attached' = attached /\ mounted' = "ramfs2"
      /\ blocks' = [m \in left |-> blocks[m]]
      /\ incidents' = incidents \cup ListIncidents(rest, left)
      /\ writer' = IF Writing /\ writer.n \notin left THEN NoCall ELSE writer
      /\ Returns("remove", n, <<>>, TRUE)
  BY DEF RemoveUnlink, OnlyThese, Incident
<1>2. FsInductive /\ Ramfs2TypeOK /\ editor.pc # "none"
  BY <1>1 DEF FsFaithful, FsInductive, Removing
<1>3. n \in Name /\ n \in DOMAIN blocks
  BY <1>1, <1>2, EditorFacts
<1>4. /\ left \subseteq DOMAIN blocks \ {n}
      /\ "lost_node" \notin incidents' => left = DOMAIN blocks \ {n}
  <2>1. "lost_node" \in ListIncidents(rest, left) <=> rest
    BY DEF ListIncidents
  <2>2. "lost_node" \notin incidents' => ~rest
    BY <1>1, <2>1
  <2> QED
    BY <1>2, <1>3, <2>2, UnlinkedFacts
<1> HIDE DEF n, left, rest
<1>5. /\ DOMAIN blocks' = left /\ n \notin DOMAIN blocks'
      /\ \A m \in left : blocks'[m] = blocks[m]
      /\ incidents \subseteq incidents'
  BY <1>1, <1>4
<1>6. \A m \in left : SameFile(m)
  BY <1>1, <1>5 DEF SameFile
<1>7. ASSUME "lost_node" \notin incidents' PROVE KeepsAllBut({n})
  <2>1. \A m \in DOMAIN blocks : m \notin {n} => SameFile(m)
    BY <1>4, <1>6, <1>7
  <2>2. \A m \in DOMAIN blocks' : m \notin {n} => m \in DOMAIN blocks
    BY <1>4, <1>5
  <2> QED
    BY <1>1, <2>1, <2>2, Ramfs2Kept
<1>8. n \in DOMAIN Readable /\ n \notin DOMAIN Readable'
  BY <1>1, <1>3, <1>5, ArrayReadable, ArrayReadableThen
<1>9. MapStep /\ OthersStep
  BY <1>1, <1>3, <1>7, <1>8, RemovedMap
<1>10. WrittenSoFar'
  <2>1. writer' = NoCall \/ (writer' = writer /\ (Writing => writer.n \in left))
    <3>1. CASE Writing /\ writer.n \notin left
      BY <1>1, <3>1, Zenon
    <3>2. CASE ~(Writing /\ writer.n \notin left)
      <4>1. writer' = writer
        BY <1>1, <3>2, Zenon
      <4> QED
        BY <3>2, <4>1
    <3> QED
      BY <3>1, <3>2
  <2>2. CASE writer' = NoCall
    BY <2>2 DEF WrittenSoFar, Writing, NoCall
  <2>3. CASE writer' = writer /\ (Writing => writer.n \in left)
    BY <1>5, <1>6, <2>3, SoFarStays
  <2> QED
    BY <2>1, <2>2, <2>3
<1> QED
  BY <1>9, <1>10

LEMMA OpenNodeFaithful ==
    ASSUME FsFaithful, mounted = "ramfs2", UNCHANGED <<attached, rvars, mounted>>,
           OpenNode \/ NodeOn
    PROVE  WrittenSoFar' /\ MapStep /\ OthersStep
<1>1. ASSUME NEW n \in Name, CreateBegin(n) PROVE WrittenSoFar' /\ MapStep /\ OthersStep
  <2>1. UNCHANGED <<blocks, disk, call>> /\ incidents \subseteq incidents' /\ writer' = writer
    BY <1>1 DEF CreateBegin, r2vars
  <2> QED
    BY <2>1, UnseenStep
<1>2. ASSUME NEW n \in Name, RemoveBegin(n) PROVE WrittenSoFar' /\ MapStep /\ OthersStep
  <2>1. /\ UNCHANGED <<blocks, disk, call>> /\ incidents \subseteq incidents'
        /\ writer' = NoCall \/ writer' = writer
    BY <1>2 DEF RemoveBegin, r2vars, Incident
  <2> QED
    BY <2>1, UnseenStep
<1>3. CASE CreateNext
  <2>1. UNCHANGED <<blocks, disk, call>> /\ incidents \subseteq incidents' /\ writer' = writer
    BY <1>3 DEF CreateNext, r2vars
  <2> QED
    BY <2>1, UnseenStep
<1>4. CASE RemoveUnmark
  <2>1. UNCHANGED <<blocks, disk, call>> /\ incidents \subseteq incidents' /\ writer' = writer
    BY <1>4 DEF RemoveUnmark, Incident
  <2> QED
    BY <2>1, UnseenStep
<1> QED
  BY <1>1, <1>2, <1>3, <1>4, CreateLinkFaithful, RemoveUnlinkFaithful DEF OpenNode, NodeOn

LEMMA FaithfulStep ==
    FsFaithful /\ [Next]_vars => FsFaithful' /\ MapStep /\ OthersStep
<1> SUFFICES ASSUME FsFaithful, [Next]_vars PROVE FsFaithful' /\ MapStep /\ OthersStep
  OBVIOUS
<1>1. FsInductive /\ NamesUnique /\ WrittenSoFar /\ FsInductive'
  BY FsStep DEF FsFaithful
<1> SUFFICES NamesUnique' /\ WrittenSoFar' /\ MapStep /\ OthersStep
  BY <1>1 DEF FsFaithful
<1>2. CASE StorageInit
  <2>1. Readable' = Readable /\ call' = call
    BY <1>1, <1>2, MountReads
  <2>2. ~Writing'
    BY <1>1, <1>2, NoFiles DEF StorageInit, Writing, r2open
  <2> QED
    BY <1>1, <1>2, <2>1, <2>2 DEF StorageInit, rvars, NamesUnique, WrittenSoFar, MapStep, OthersStep
<1>3. CASE StorageService
  <2>1. PICK n \in Name, op \in {"create", "write", "remove"} : ServiceRefuses(op, n)
    BY <1>3 DEF StorageService
  <2>2. /\ Returns(op, n, <<>>, FALSE)
        /\ UNCHANGED <<disk, attached, incidents, nodes, blocks, writer, mounted>>
    BY <2>1 DEF ServiceRefuses, rvars, r2vars, r2open
  <2>3. Readable' = Readable
    BY <2>2, NothingRead
  <2>4. MapStep /\ OthersStep
    BY <2>2, <2>3, RefusedCall
  <2> QED
    BY <1>1, <2>2, <2>4 DEF NamesUnique, WrittenSoFar, Writing
<1>4. CASE UNCHANGED vars
  <2>1. UNCHANGED <<disk, attached, call, incidents, nodes, blocks, writer, mounted>>
    BY <1>4 DEF vars, rvars, r2vars, r2open
  <2>2. Readable' = Readable
    BY <2>1, NothingRead
  <2> QED
    BY <1>1, <2>1, <2>2 DEF NamesUnique, WrittenSoFar, Writing, MapStep, OthersStep
<1>5. CASE mounted = "ramfs" /\ RamfsCall /\ UNCHANGED <<attached, r2vars, r2open, mounted>>
  <2>1. NamesUnique' /\ MapStep /\ OthersStep
    BY <1>5, RamfsFaithful
  <2>2. ~Writing'
    BY <1>1, <1>5, NoFiles DEF Writing, r2open
  <2> QED
    BY <2>1, <2>2 DEF WrittenSoFar
<1>6. CASE /\ mounted = "ramfs2" /\ UNCHANGED <<attached, rvars, mounted>>
           /\ Ramfs2Call \/ OpenWrite \/ OpenNode \/ WriteOn \/ NodeOn
  <2>1. WrittenSoFar' /\ MapStep /\ OthersStep
    BY <1>6, MeanwhileFaithful, BeginFaithful, WriteOnFaithful, OpenNodeFaithful DEF OpenWrite
  <2>2. nodes = <<>> /\ nodes' = nodes
    BY <1>1, <1>6 DEF FsInductive, OneMounted, rvars
  <2>3. DOMAIN nodes' = {}
    BY <2>2, EmptySeq
  <2> QED
    BY <2>1, <2>3 DEF NamesUnique
<1> QED
  BY <1>2, <1>3, <1>4, <1>5, <1>6 DEF Next

LEMMA FsFaithfulAlways == Spec => []FsFaithful
<1>1. Init => FsFaithful
  <2> SUFFICES ASSUME Init PROVE FsFaithful
    OBVIOUS
  <2>1. FsInductive
    BY FsStarts
  <2>2. nodes = <<>> /\ writer = NoCall
    BY DEF Init, RamfsEmpty
  <2>3. DOMAIN nodes = {} /\ ~Writing
    BY <2>2, EmptySeq DEF Writing, NoCall
  <2> QED
    BY <2>1, <2>3 DEF FsFaithful, NamesUnique, WrittenSoFar
<1>2. FsFaithful /\ [Next]_vars => FsFaithful'
  BY FaithfulStep
<1> QED
  BY <1>1, <1>2, PTL DEF Spec

\* A file that a call does not name keeps its contents, also while a write, a
\* create and a remove of ramfs2 stand half way: until a file of ramfs grows
\* over its neighbour (ramfs.c:144-150), a block of ramfs2 is unmarked by
\* mistake or taken twice, a call meets the node of another, or an interrupted
\* create or remove drops the files that came into the list meanwhile
\* (ramfs2.c:136-137, :193-197).  Not promised for a file being removed, whose
\* blocks others may take (ramfs2.c:190-192).
THEOREM OtherFilesSurvive == Spec => OthersKeepTheirContents
<1>1. FsFaithful /\ [Next]_vars =>
        [incidents' \cap {"grows", "junk_freed", "same_block", "same_node", "lost_node"} = {} =>
           \A n \in DOMAIN Readable :
              \/ call'.op = "format"
              \/ n \in {call'.name, call'.arg}
              \/ Removing /\ editor.n = n
              \/ n \in DOMAIN Readable' /\ Readable'[n] = Readable[n]]_<<Readable, call>>
  <2> SUFFICES ASSUME FsFaithful, [Next]_vars,
                      incidents' \cap {"grows", "junk_freed", "same_block", "same_node", "lost_node"} = {},
                      NEW n \in DOMAIN Readable, call'.op # "format",
                      n \notin {call'.name, call'.arg}, ~(Removing /\ editor.n = n)
               PROVE  n \in DOMAIN Readable' /\ Readable'[n] = Readable[n]
    OBVIOUS
  <2>1. OthersStep
    BY FaithfulStep
  <2>2. n \notin BeingRemoved
    BY DEF BeingRemoved
  <2> QED
    BY <2>1, <2>2 DEF OthersStep, KeepsAllBut
<1> QED
  BY <1>1, FsFaithfulAlways, PTL DEF Spec, OthersKeepTheirContents

\* Both file systems, behind mount table and storage service, are a map from
\* names to contents for that service, which takes the result 0 for success
\* (kernel_services.c:99), until one of the incidents happens that spoil them;
\* also while writes, creates and removes of ramfs2 are interrupted anywhere.
THEOREM FilesAreAMap == Spec => FileMapImplemented
<1>1. Init => FM!FileInit
  <2> SUFFICES ASSUME Init PROVE FM!FileInit
    OBVIOUS
  <2>1. mounted = "none" /\ blocks = [n \in {} |-> <<>>] /\ call = [op |-> "none"]
    BY DEF Init, DiskInit, Ramfs2Empty
  <2>2. Readable = [n \in DOMAIN blocks |-> ramfs2_read(n)] /\ DOMAIN blocks = {}
    BY <2>1 DEF Readable
  <2> QED
    BY <2>1, <2>2 DEF FM!FileInit
<1>2. FsFaithful /\ [Next]_vars =>
        [incidents' \subseteq {"forgotten"} => FM!FileNext]_<<Readable, call>>
  <2> SUFFICES ASSUME FsFaithful, [Next]_vars, incidents' \subseteq {"forgotten"}
               PROVE  FM!FileNext \/ UNCHANGED <<Readable, call>>
    OBVIOUS
  <2> QED
    BY FaithfulStep DEF MapStep
<1> QED
  BY <1>1, <1>2, FsFaithfulAlways, PTL DEF Spec, FileMapImplemented
=============================================================================
