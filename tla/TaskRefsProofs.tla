-------------------------- MODULE TaskRefsProofs --------------------------
(***************************************************************************)
(* Proofs about what tasks refer to: the clock pages of address spaces,    *)
(* for any number of tasks, address spaces and time namespaces; and kernel *)
(* stacks with their per-CPU cache, for any number of tasks, CPUs, stacks  *)
(* and slots.                                                              *)
(***************************************************************************)
EXTENDS StackCache, VvarClock, TLAPS

\* The SMT solver gets a minute for a leaf; a leaf that is better left to Zenon
\* says so.
USE SMTT(60)

\* The tasks on one address space are in one time namespace: clone refuses to
\* share it with a child of another one, and setns wants the task to be alone.
SameNamespace ==
    \A t, u \in CkTasks : Running(t) /\ runsOn[u] = runsOn[t] => timens[u] = timens[t]

\* The second clock page is the real one or is not there.
BaseIsReal == \A m \in CkMms : clock[m]["timens"] \in {"none", "real"}

\* The pages that are there suit every task on the address space.
CkInv == CkTypeOK /\ SameNamespace /\ BaseIsReal /\ ClockOfNamespace /\ OffsetsHaveBase

\* The first task starts in the initial namespace with no clock page.
LEMMA CkInitially == CkInit => CkInv
<1> SUFFICES ASSUME NEW t \in CkTasks, NEW m \in CkMms, CkStart({t}, m) PROVE CkInv
  BY DEF CkInit
<1> USE DEF CkStart, Running, Cleared, ClockPages
<1>1. CkTypeOK BY DEF CkTypeOK
<1>2. SameNamespace BY DEF SameNamespace
<1>3. BaseIsReal BY DEF BaseIsReal
<1>4. ClockOfNamespace BY ClockAssumption DEF ClockOfNamespace
<1>5. OffsetsHaveBase BY ClockAssumption DEF OffsetsHaveBase
<1> QED BY <1>1, <1>2, <1>3, <1>4, <1>5 DEF CkInv

\* vvar_fault brings in pages of the namespace of the task that faults, which
\* is that of every task on the address space.
LEMMA CkFaults ==
    ASSUME CkInv, NEW t \in CkTasks, FaultVvar(t) \/ FaultPvclock(t) \/ FaultTimens(t)
    PROVE  CkInv'
<1> DEFINE m == runsOn[t]
<1>1. m \in CkMms /\ t \in Users(m)
  BY DEF CkInv, CkTypeOK, FaultVvar, FaultPvclock, FaultTimens, Running, Users
<1>2. UNCHANGED <<runsOn, timens, kidsNs>>
  BY DEF FaultVvar, FaultPvclock, FaultTimens
<1>3. \A x \in CkMms \ {m} : clock'[x] = clock[x]
  BY ZenonT(60) DEF CkInv, CkTypeOK, FaultVvar, FaultPvclock, FaultTimens
<1>4. /\ clock' \in [CkMms -> [ClockPages -> {"none", "real", "hypervisor"} \cup TimeNs]]
      /\ clock'[m]["timens"] \in {"none", "real"}
      /\ clock'[m]["vvar"] \in {"none", IF timens[t] = RootNs THEN "real" ELSE timens[t]}
      /\ IF timens[t] = RootNs THEN clock'[m]["timens"] = "none"
         ELSE clock'[m]["vvar"] # "none" => clock'[m]["timens"] = "real"
  <2> USE <1>1 DEF CkInv, CkTypeOK, BaseIsReal, ClockOfNamespace, OffsetsHaveBase,
                   Insert, ClockPages
  <2>1. CASE FaultVvar(t)
    <3>1. CASE timens[t] = RootNs BY <2>1, <3>1 DEF FaultVvar
    <3>2. CASE timens[t] # RootNs BY <2>1, <3>2 DEF FaultVvar
    <3> QED BY <3>1, <3>2, ZenonT(60)
  <2>2. CASE FaultPvclock(t) BY <2>2 DEF FaultPvclock
  <2>3. CASE FaultTimens(t) BY <2>3 DEF FaultTimens
  <2> QED BY <2>1, <2>2, <2>3, ZenonT(60)
<1>5. CkTypeOK' BY <1>1, <1>2, <1>3, <1>4 DEF CkInv, CkTypeOK, Users
<1>6. SameNamespace' BY <1>2 DEF CkInv, SameNamespace, Running
<1>7. BaseIsReal' BY <1>3, <1>4 DEF CkInv, BaseIsReal
<1>8. \A u \in CkTasks : runsOn[u] = m => timens[u] = timens[t]
  BY <1>1, ClockAssumption DEF CkInv, SameNamespace, Running
<1>9. ClockOfNamespace'
  BY <1>1, <1>2, <1>3, <1>4, <1>8 DEF CkInv, CkTypeOK, ClockOfNamespace, Running
<1>10. OffsetsHaveBase'
  BY <1>1, <1>2, <1>3, <1>4, <1>8 DEF CkInv, CkTypeOK, OffsetsHaveBase, Running
<1> QED BY <1>5, <1>6, <1>7, <1>9, <1>10 DEF CkInv

\* A child has the pages of its parent when it stays in the namespace and none
\* when it goes to another one; it shares them only in the former case.
LEMMA CkClones ==
    ASSUME CkInv, NEW t \in CkTasks, NEW u \in CkTasks, NEW m \in CkMms,
           CkCloneVm(t, u) \/ CkFork(t, u, m)
    PROVE  CkInv'
<1> USE ClockAssumption
<1>1. CASE CkCloneVm(t, u)
  <2> USE <1>1 DEF CkCloneVm, MayShareVm, CkInv, CkTypeOK, Running
  <2>1. CkTypeOK' BY DEF Users
  <2>2. SameNamespace' BY DEF SameNamespace
  <2>3. BaseIsReal' BY ZenonT(60) DEF BaseIsReal
  <2>4. ClockOfNamespace' BY ZenonT(60) DEF ClockOfNamespace
  <2>5. OffsetsHaveBase' BY ZenonT(60) DEF OffsetsHaveBase
  <2> QED BY <2>1, <2>2, <2>3, <2>4, <2>5 DEF CkInv
<1>2. CASE CkFork(t, u, m)
  <2> USE <1>2 DEF CkFork, CkInv, CkTypeOK, Running
  <2>1. \A x \in CkTasks : runsOn[x] # m BY DEF Users
  <2>2. clock'[m] \in {clock[runsOn[t]], Cleared} BY DEF Zapped
  <2>3. Cleared \in [ClockPages -> {"none"}] BY DEF Cleared
  <2>4. \A x \in CkMms \ {m} : clock'[x] = clock[x] BY ZenonT(60)
  <2>5. CkTypeOK'
    <3>1. clock' \in [CkMms -> [ClockPages -> {"none", "real", "hypervisor"} \cup TimeNs]]
      BY <2>2, <2>3
    <3>2. \A x \in CkMms : Users(x)' = {} => clock'[x] = Cleared
      BY <2>1, <2>4 DEF Users
    <3> QED BY <3>1, <3>2
  <2>6. SameNamespace' BY <2>1, ZenonT(60) DEF SameNamespace
  <2>7. BaseIsReal' BY <2>2, <2>3, <2>4 DEF BaseIsReal, ClockPages
  <2>8. kidsNs[t] # timens[t] => clock'[m] = Cleared BY ZenonT(60) DEF Zapped
  <2>9. ClockOfNamespace'
    BY <2>1, <2>2, <2>3, <2>4, <2>8 DEF ClockOfNamespace, ClockPages
  <2>10. OffsetsHaveBase'
    BY <2>1, <2>2, <2>3, <2>4, <2>8 DEF OffsetsHaveBase, ClockPages
  <2> QED BY <2>5, <2>6, <2>7, <2>9, <2>10 DEF CkInv
<1> QED BY <1>1, <1>2

\* exit and exec take the pages of an address space away with its last user.
LEMMA CkLeaves ==
    ASSUME CkInv, NEW t \in CkTasks, NEW m \in CkMms, CkExit(t) \/ CkExec(t, m)
    PROVE  CkInv'
<1> USE ClockAssumption DEF CkInv, CkTypeOK, Running
<1>1. Cleared \in [ClockPages -> {"none"}] BY DEF Cleared
<1>2. clock' = [x \in CkMms |-> IF Users(x) = {t} THEN Cleared ELSE clock[x]]
  BY ZenonT(60) DEF CkExit, CkExec, Left
<1>3. clock' \in [CkMms -> [ClockPages -> {"none", "real", "hypervisor"} \cup TimeNs]]
  BY <1>1, <1>2
<1>4. \A x \in CkMms : clock'[x] \in {clock[x], Cleared} BY <1>2
<1>5. BaseIsReal' BY <1>1, <1>4, ZenonT(60) DEF BaseIsReal, ClockPages
<1>6. CASE CkExit(t)
  <2> USE <1>6 DEF CkExit
  <2>1. CkTypeOK' BY <1>2, <1>3 DEF Users
  <2>2. SameNamespace' BY ZenonT(60) DEF SameNamespace
  <2>3. ClockOfNamespace' BY <1>1, <1>4 DEF ClockOfNamespace, ClockPages
  <2>4. OffsetsHaveBase' BY <1>1, <1>4, ZenonT(60) DEF OffsetsHaveBase, ClockPages
  <2> QED BY <1>5, <2>1, <2>2, <2>3, <2>4, ZenonT(60) DEF CkInv
<1>7. CASE CkExec(t, m)
  <2> USE <1>7 DEF CkExec
  <2>1. \A x \in CkTasks : runsOn[x] # m BY DEF Users
  <2>2. clock'[m] = Cleared BY <1>4, ZenonT(60)
  <2>3. CkTypeOK' BY <1>2, <1>3, <2>2 DEF Users
  <2>4. SameNamespace' BY <2>1, ZenonT(60) DEF SameNamespace
  <2>5. ClockOfNamespace' BY <1>1, <1>4, <2>2 DEF ClockOfNamespace, ClockPages
  <2>6. OffsetsHaveBase' BY <1>1, <1>4, <2>2 DEF OffsetsHaveBase, ClockPages
  <2> QED BY <1>5, <2>3, <2>4, <2>5, <2>6, ZenonT(60) DEF CkInv
<1> QED BY <1>6, <1>7

\* unshare changes the namespace of the children only; setns that of a task
\* alone on its address space, whose pages vdso_join_timens clears.
LEMMA CkJoins ==
    ASSUME CkInv, NEW t \in CkTasks, NEW ns \in TimeNs \cup {RootNs},
           (ns \in TimeNs /\ UnshareTime(t, ns)) \/ SetnsTime(t, ns)
    PROVE  CkInv'
<1> USE ClockAssumption DEF CkInv, CkTypeOK, Running
<1>1. CASE ns \in TimeNs /\ UnshareTime(t, ns)
  BY <1>1, ZenonT(60) DEF UnshareTime, Users, SameNamespace, BaseIsReal, ClockOfNamespace, OffsetsHaveBase
<1>2. CASE SetnsTime(t, ns)
  <2> USE <1>2 DEF SetnsTime, Zapped
  <2>1. Cleared \in [ClockPages -> {"none"}] BY DEF Cleared
  <2>2. \A u \in CkTasks \ {t} : runsOn[u] # runsOn[t] BY ZenonT(60) DEF Users
  <2>3. CkTypeOK' BY <2>1 DEF Users
  <2>4. SameNamespace' BY <2>2, ZenonT(60) DEF SameNamespace
  <2>5. BaseIsReal' BY <2>1, ZenonT(60) DEF BaseIsReal, ClockPages
  <2>6. ClockOfNamespace' BY <2>1, <2>2 DEF ClockOfNamespace, ClockPages
  <2>7. OffsetsHaveBase' BY <2>1, <2>2 DEF OffsetsHaveBase, ClockPages
  <2> QED BY <2>3, <2>4, <2>5, <2>6, <2>7, ZenonT(60) DEF CkInv
<1> QED BY <1>1, <1>2

\* The inductive invariant holds of every behaviour.
LEMMA CkAlways == CkSpec => []CkInv
<1>1. CkInv /\ [CkNext]_ckVars => CkInv'
  <2> SUFFICES ASSUME CkInv, [CkNext]_ckVars PROVE CkInv' BY ZenonT(60)
  <2>1. CASE UNCHANGED ckVars
    BY <2>1 DEF ckVars, CkInv, CkTypeOK, Users, Running, SameNamespace, BaseIsReal,
                ClockOfNamespace, OffsetsHaveBase
  <2>2. CASE CkNext
    <3> PICK t \in CkTasks :
          \/ FaultVvar(t) \/ FaultPvclock(t) \/ FaultTimens(t)
          \/ \E u \in CkTasks : CkCloneVm(t, u) \/ \E m \in CkMms : CkFork(t, u, m)
          \/ CkExit(t)
          \/ \E m \in CkMms : CkExec(t, m)
          \/ \E ns \in TimeNs : UnshareTime(t, ns)
          \/ \E ns \in TimeNs \cup {RootNs} : SetnsTime(t, ns)
      BY <2>2 DEF CkNext
    <3>1. CASE FaultVvar(t) \/ FaultPvclock(t) \/ FaultTimens(t) BY <3>1, CkFaults
    <3>2. ASSUME NEW u \in CkTasks, CkCloneVm(t, u) PROVE CkInv'
      <4>1. runsOn[t] \in CkMms BY <3>2 DEF CkCloneVm, Running, CkInv, CkTypeOK
      <4> QED BY <3>2, <4>1, CkClones, ZenonT(60)
    <3>3. ASSUME NEW u \in CkTasks, NEW m \in CkMms, CkFork(t, u, m) PROVE CkInv'
      BY <3>3, CkClones
    <3>4. CASE CkExit(t)
      <4>1. runsOn[t] \in CkMms BY <3>4 DEF CkExit, Running, CkInv, CkTypeOK
      <4> QED BY <3>4, <4>1, CkLeaves, ZenonT(60)
    <3>5. CASE \E m \in CkMms : CkExec(t, m) BY <3>5, CkLeaves
    <3>6. CASE \E ns \in TimeNs : UnshareTime(t, ns) BY <3>6, CkJoins
    <3>7. CASE \E ns \in TimeNs \cup {RootNs} : SetnsTime(t, ns) BY <3>7, CkJoins
    <3> QED BY <3>1, <3>2, <3>3, <3>4, <3>5, <3>6, <3>7
  <2> QED BY <2>1, <2>2
<1> QED BY <1>1, CkInitially, PTL DEF CkSpec

\* No task ever has the clock page of a time namespace it is not in, whatever
\* faults, clone, exec, unshare and setns came before, and the page of a
\* namespace never stands without the real one, for every number of tasks,
\* address spaces and namespaces.
THEOREM ClockSafe == CkSpec => []ClocksRight
<1>1. CkInv => ClocksRight BY DEF CkInv, ClocksRight
<1> QED BY <1>1, CkAlways, PTL

-----------------------------------------------------------------------------
StkTypes ==
    /\ cache \in [StkCpus -> [Slots -> Stacks \cup {NoStack}]]
    /\ areas \in SUBSET Stacks /\ lookers \in SUBSET StkTasks
    /\ stk \in [StkTasks -> [stack : Stacks \cup {NoStack}, refs : Int, stage : Stages, i : Int]]
    /\ \A t \in StkTasks :
          stk[t].stack = NoStack <=> stk[t].stage \in {"none", "alloc", "released"}

\* No two places hold the same stack.
Apart ==
    /\ \A t, u \in StkTasks : stk[t].stack = stk[u].stack /\ t # u => stk[t].stack = NoStack
    /\ \A c, d \in StkCpus, i, j \in Slots :
          cache[c][i] = cache[d][j] /\ (c # d \/ i # j) => cache[c][i] = NoStack
    /\ \A t \in StkTasks, c \in StkCpus, i \in Slots :
          stk[t].stack = cache[c][i] => cache[c][i] = NoStack

InSomePlace(s) ==
    \/ \E t \in StkTasks : stk[t].stack = s
    \/ \E c \in StkCpus, i \in Slots : cache[c][i] = s

\* A stack is in some place exactly while it is a vmalloc area.
Placed == \A s \in Stacks : s \in areas <=> InSomePlace(s)

\* The reference of the task itself and that of another that looks.
Referenced ==
    \A t \in StkTasks :
        IF stk[t].stage = "running" THEN stk[t].refs = IF t \in lookers THEN 2 ELSE 1
        ELSE IF stk[t].stage = "dead"
        THEN IF t \in lookers THEN stk[t].refs \in {1, 2} ELSE stk[t].refs = 1
        ELSE t \notin lookers /\ stk[t].refs = 0

StkInv == StkTypes /\ Apart /\ Placed /\ Referenced

\* There is no task, no stack and nothing cached.
LEMMA StkInitially == StkInit => StkInv
<1> SUFFICES ASSUME StkInit PROVE StkInv OBVIOUS
<1>1. /\ \A t \in StkTasks : stk[t] = NoTask
      /\ \A c \in StkCpus, i \in Slots : cache[c][i] = NoStack
      /\ areas = {} /\ lookers = {}
  BY DEF StkInit
<1>2. StkTypes BY DEF StkTypes, StkInit, NoTask, Stages
<1>3. Apart BY <1>1 DEF Apart, NoTask
<1>4. Placed BY <1>1, StkAssumption DEF Placed, InSomePlace, NoTask
<1>5. Referenced BY <1>1 DEF Referenced, NoTask
<1> QED BY <1>2, <1>3, <1>4, <1>5 DEF StkInv

\* The types that the provers need for an updated stk.
TaskStructs == [stack : Stacks \cup {NoStack}, refs : Int, stage : Stages, i : Int]

\* A step that changes neither what the tasks nor what the slots hold.
LEMMA StkStays ==
    ASSUME Apart, Placed, UNCHANGED <<cache, areas>>,
           \A t \in StkTasks : stk'[t].stack = stk[t].stack
    PROVE  Apart' /\ Placed'
<1>1. Apart' BY DEF Apart
<1>2. Placed' BY ZenonT(60) DEF Placed, InSomePlace
<1> QED BY <1>1, <1>2, ZenonT(60)

\* A step of one task that keeps its stack, or that had none and has none.
LEMMA StkKeeps ==
    ASSUME StkInv, NEW t \in StkTasks, UNCHANGED <<cache, areas>>,
           lookers' \in SUBSET StkTasks, \A u \in StkTasks \ {t} : u \in lookers' <=> u \in lookers,
           stk' \in [StkTasks -> TaskStructs],
           \A u \in StkTasks \ {t} : stk'[u] = stk[u],
           stk'[t].stack = stk[t].stack,
           stk'[t].stack = NoStack <=> stk'[t].stage \in {"none", "alloc", "released"},
           stk'[t].stage = "running" => stk'[t].refs = IF t \in lookers' THEN 2 ELSE 1,
           stk'[t].stage = "dead" => IF t \in lookers' THEN stk'[t].refs \in {1, 2} ELSE stk'[t].refs = 1,
           stk'[t].stage \notin {"running", "dead"} => t \notin lookers' /\ stk'[t].refs = 0
    PROVE  StkInv'
<1> USE DEF StkInv
<1>1. StkTypes' BY ZenonT(60) DEF StkTypes, TaskStructs
<1>2. \A u \in StkTasks : stk'[u].stack = stk[u].stack BY ZenonT(60)
<1>3. Apart' /\ Placed' BY <1>2, StkStays, ZenonT(60)
<1>4. Referenced' BY DEF Referenced
<1> QED BY <1>1, <1>3, <1>4, ZenonT(60)

\* dup_task_struct and its failures, and exit.
LEMMA StkDups ==
    ASSUME StkInv, NEW t \in StkTasks,
           \/ AllocTaskStruct(t) \/ DupFails(t) \/ FailedDup(t) \/ FirstTaskStruct(t)
           \/ StkExit(t) \/ FreeTask(t)
           \/ \E n \in 0 .. StkPages : ChargeStack(t, n)
           \/ \E orig \in StkTasks \ {t} : DupTaskStruct(t, orig)
    PROVE  StkInv'
<1>0. /\ stk \in [StkTasks -> TaskStructs] /\ stk[t] \in TaskStructs /\ lookers \in SUBSET StkTasks
      /\ stk[t].stack = NoStack <=> stk[t].stage \in {"none", "alloc", "released"}
      /\ stk[t].stage \notin {"running", "dead"} => t \notin lookers /\ stk[t].refs = 0
      /\ stk[t].stage = "running" => stk[t].refs = IF t \in lookers THEN 2 ELSE 1
  BY DEF StkInv, StkTypes, TaskStructs, Referenced
<1>s. /\ "none" \in Stages /\ "alloc" \in Stages /\ "dup" \in Stages /\ "failed" \in Stages
      /\ "free_stack" \in Stages /\ "running" \in Stages /\ "dead" \in Stages
      /\ "releasing" \in Stages
  BY DEF Stages
<1> USE <1>s DEF TaskStructs
<1>1. CASE AllocTaskStruct(t)
  <2>1. /\ stk[t].stage = "none" /\ UNCHANGED <<cache, areas, lookers>>
        /\ stk' = [stk EXCEPT ![t] = [NoTask EXCEPT !.i = 1, !.stage = "alloc"]]
    BY <1>1 DEF AllocTaskStruct
  <2>2. PICK new : new = [NoTask EXCEPT !.i = 1, !.stage = "alloc"] OBVIOUS
  <2>3. new \in TaskStructs
    <3>2. new = [stack |-> NoStack, refs |-> 0, stage |-> "alloc", i |-> 1] BY <2>2, ZenonT(60) DEF NoTask
    <3> QED BY <3>2
  <2>4. new.stack = NoStack /\ new.refs = 0 /\ new.stage = "alloc" BY <2>2 DEF NoTask
  <2>5. /\ stk' \in [StkTasks -> TaskStructs] /\ \A u \in StkTasks \ {t} : stk'[u] = stk[u]
        /\ stk'[t] = new
    BY <1>0, <2>1, <2>2, <2>3
  <2> QED BY <1>0, <2>1, <2>4, <2>5, StkKeeps, ZenonT(60)
<1>2. CASE FreeTask(t)
  <2>1. /\ stk[t].stage = "released" /\ UNCHANGED <<cache, areas, lookers>>
        /\ stk' = [stk EXCEPT ![t] = [stack |-> NoStack, refs |-> 0, stage |-> "none", i |-> 0]]
    BY <1>2 DEF FreeTask, NoTask
  <2> QED BY <1>0, <2>1, StkKeeps
<1>3. CASE FailedDup(t)
  <2>1. /\ stk[t].stage = "failed" /\ UNCHANGED <<cache, areas, lookers>>
        /\ stk' = [stk EXCEPT ![t].refs = 0, ![t].stage = "free_stack", ![t].i = 1]
    BY <1>3 DEF FailedDup, StartFree
  <2>2. stk' \in [StkTasks -> TaskStructs] BY <1>0, <2>1
  <2>3. \A u \in StkTasks \ {t} : stk'[u] = stk[u] BY <1>0, <2>1
  <2>4. stk'[t].stack = stk[t].stack /\ stk'[t].stage = "free_stack" /\ stk'[t].refs = 0
    BY <1>0, <2>1, ZenonT(60)
  <2> QED BY <1>0, <2>1, <2>2, <2>3, <2>4, StkKeeps
<1>4. CASE FirstTaskStruct(t)
  <2>1. /\ stk[t].stage = "dup" /\ UNCHANGED <<cache, areas, lookers>>
        /\ stk' = [stk EXCEPT ![t].refs = 1, ![t].stage = "running", ![t].i = 0]
    BY <1>4 DEF FirstTaskStruct
  <2>2. /\ stk' \in [StkTasks -> TaskStructs] /\ \A u \in StkTasks \ {t} : stk'[u] = stk[u]
        /\ stk'[t].stack = stk[t].stack /\ stk'[t].stage = "running" /\ stk'[t].refs = 1
    BY <1>0, <2>1
  <2> QED BY <1>0, <2>1, <2>2, StkKeeps
<1>5. CASE DupFails(t) \/ StkExit(t) \/ \E n \in 0 .. StkPages : ChargeStack(t, n)
  <2>1. PICK g \in {"dup", "failed", "dead"} :
          /\ UNCHANGED <<cache, areas, lookers>> /\ stk' = [stk EXCEPT ![t].stage = g]
          /\ IF g = "dead" THEN stk[t].stage = "running" ELSE stk[t].stage \in {"charge", "dup"}
    BY <1>5 DEF DupFails, StkExit, ChargeStack
  <2>2. /\ stk' \in [StkTasks -> TaskStructs] /\ \A u \in StkTasks \ {t} : stk'[u] = stk[u]
        /\ stk'[t].stack = stk[t].stack /\ stk'[t].stage = g /\ stk'[t].refs = stk[t].refs
    BY <1>0, <2>1, ZenonT(60)
  <2> QED BY <1>0, <2>1, <2>2, StkKeeps, ZenonT(60)
<1>6. CASE \E orig \in StkTasks \ {t} : DupTaskStruct(t, orig)
  <2> PICK orig \in StkTasks \ {t} : DupTaskStruct(t, orig) BY <1>6
  <2>1. /\ stk[t].stage = "dup" /\ UNCHANGED <<cache, areas, lookers>>
        /\ stk' = [stk EXCEPT ![t] = [stk[orig] EXCEPT !.stack = stk[t].stack, !.refs = 1]]
        /\ stk[orig].stage = "running"
    BY ZenonT(60) DEF DupTaskStruct
  <2>2. stk[orig] \in TaskStructs /\ stk[t].stack \in Stacks \cup {NoStack} BY <1>0
  <2>3. PICK new : new = [stk[orig] EXCEPT !.stack = stk[t].stack, !.refs = 1] BY ZenonT(60)
  <2>4. new \in TaskStructs
    <3>1. new = [stack |-> stk[t].stack, refs |-> 1, stage |-> stk[orig].stage, i |-> stk[orig].i]
      BY <2>2, <2>3, ZenonT(60)
    <3> QED BY <2>2, <3>1
  <2>5. new.stack = stk[t].stack /\ new.stage = "running" /\ new.refs = 1 BY <2>1, <2>2, <2>3
  <2>6. /\ stk' \in [StkTasks -> TaskStructs] /\ \A u \in StkTasks \ {t} : stk'[u] = stk[u]
        /\ stk'[t] = new
    BY <1>0, <2>1, <2>3, <2>4
  <2> QED BY <1>0, <2>1, <2>5, <2>6, StkKeeps
<1> QED BY <1>1, <1>2, <1>3, <1>4, <1>5, <1>6, ZenonT(60)

\* try_get_task_stack and put_task_stack.
LEMMA StkRefs ==
    ASSUME StkInv, NEW t \in StkTasks, TryGetTaskStack(t) \/ PutOwn(t) \/ PutLooker(t)
    PROVE  StkInv'
<1>0. /\ stk \in [StkTasks -> TaskStructs] /\ stk[t] \in TaskStructs /\ lookers \in SUBSET StkTasks
      /\ stk[t].stack = NoStack <=> stk[t].stage \in {"none", "alloc", "released"}
      /\ stk[t].stage \notin {"running", "dead"} => t \notin lookers /\ stk[t].refs = 0
      /\ stk[t].stage = "running" => stk[t].refs = IF t \in lookers THEN 2 ELSE 1
      /\ stk[t].stage = "dead" => IF t \in lookers THEN stk[t].refs \in {1, 2} ELSE stk[t].refs = 1
  BY DEF StkInv, StkTypes, TaskStructs, Referenced
<1>s. /\ "none" \in Stages /\ "alloc" \in Stages /\ "dup" \in Stages /\ "failed" \in Stages
      /\ "free_stack" \in Stages /\ "running" \in Stages /\ "dead" \in Stages
      /\ "releasing" \in Stages
  BY ZenonT(60) DEF Stages
<1> USE <1>s DEF TaskStructs
<1>1. CASE TryGetTaskStack(t)
  <2>1. /\ stk[t].stage \in {"running", "dead"} /\ t \notin lookers
        /\ UNCHANGED <<cache, areas>> /\ lookers' = lookers \cup {t}
        /\ stk' = [stk EXCEPT ![t].refs = @ + 1]
    BY <1>1 DEF TryGetTaskStack
  <2>2. /\ stk' \in [StkTasks -> TaskStructs] /\ \A u \in StkTasks \ {t} : stk'[u] = stk[u]
        /\ stk'[t].stack = stk[t].stack /\ stk'[t].stage = stk[t].stage
        /\ stk'[t].refs = stk[t].refs + 1
    BY <1>0, <2>1
  <2>3. stk'[t].refs = 2 BY <1>0, <2>1, <2>2
  <2> QED BY <1>0, <2>1, <2>2, <2>3, StkKeeps
<1>2. CASE PutOwn(t) \/ PutLooker(t)
  <2>1. /\ UNCHANGED <<cache, areas>> /\ lookers' \in SUBSET StkTasks /\ PutTaskStack(t)
        /\ \A u \in StkTasks \ {t} : u \in lookers' <=> u \in lookers
    BY <1>0, <1>2, ZenonT(60) DEF PutOwn, PutLooker
  <2>2. stk[t].stage \in {"running", "dead"} BY <1>0, <1>2, ZenonT(60) DEF PutOwn, PutLooker
  <2>3. CASE stk[t].refs = 1 /\ stk[t].stage = "dead"
    <3>1. t \notin lookers' BY <1>2, <2>3 DEF PutOwn, PutLooker
    <3>2. stk' = [stk EXCEPT ![t].refs = 0, ![t].stage = "releasing", ![t].i = 1]
      BY <2>1, <2>3, ZenonT(60) DEF PutTaskStack, StartFree
    <3>3. stk' \in [StkTasks -> TaskStructs]
      <4>1. stk' = [u \in StkTasks |-> stk'[u]] BY <1>0, <3>2, ZenonT(60)
      <4>2. \A u \in StkTasks \ {t} : stk'[u] = stk[u] BY <1>0, <3>2
      <4>3. stk'[t] = [stk[t] EXCEPT !.refs = 0, !.stage = "releasing", !.i = 1] BY <1>0, <3>2
      <4>4. stk'[t] = [stack |-> stk[t].stack, refs |-> 0, stage |-> "releasing", i |-> 1]
        BY <1>0, <4>3, ZenonT(60)
      <4>5. stk'[t] \in TaskStructs BY <1>0, <4>4
      <4> QED BY <1>0, <4>1, <4>2, <4>5
    <3>4. \A u \in StkTasks \ {t} : stk'[u] = stk[u] BY <1>0, <3>2
    <3>5. stk'[t].stack = stk[t].stack /\ stk'[t].stage = "releasing" /\ stk'[t].refs = 0
      BY <1>0, <3>2, ZenonT(60)
    <3> QED BY <1>0, <2>1, <2>3, <3>1, <3>3, <3>4, <3>5, StkKeeps, ZenonT(60)
  <2>4. CASE ~(stk[t].refs = 1 /\ stk[t].stage = "dead")
    <3>1. stk' = [stk EXCEPT ![t].refs = @ - 1] BY <2>1, <2>4 DEF PutTaskStack
    <3>2. /\ stk' \in [StkTasks -> TaskStructs] /\ \A u \in StkTasks \ {t} : stk'[u] = stk[u]
          /\ stk'[t].stack = stk[t].stack /\ stk'[t].stage = stk[t].stage
          /\ stk'[t].refs = stk[t].refs - 1
      BY <1>0, <3>1
    <3>3. t \in lookers /\ stk[t].refs = 2 BY <1>0, <1>2, <2>2, <2>4, ZenonT(60) DEF PutOwn, PutLooker
    <3>4. stk[t].stage = "running" => t \notin lookers' BY <1>2, ZenonT(60) DEF PutOwn, PutLooker
    <3>5. stk'[t].refs = 1 BY <3>2, <3>3
    <3> QED BY <1>0, <2>1, <2>2, <3>2, <3>4, <3>5, StkKeeps, ZenonT(60)
  <2> QED BY <2>3, <2>4, ZenonT(60)
<1> QED BY <1>1, <1>2, ZenonT(60)

\* A slot gives its stack to a task, or takes one from it, or is passed.
LEMMA StkSlots ==
    ASSUME StkInv, NEW t \in StkTasks, NEW c \in StkCpus, TakeSlot(t, c) \/ GiveSlot(t, c)
    PROVE  StkInv'
<1> USE DEF StkInv
<1> DEFINE i == stk[t].i
<1>0. /\ i \in Slots /\ UNCHANGED <<areas, lookers>> /\ i \in Int
      /\ cache[c][i] \in Stacks \cup {NoStack}
  BY DEF TakeSlot, GiveSlot, StkTypes
<1>1. CASE TakeSlot(t, c) /\ cache[c][i] = NoStack
  <2>1. stk' = [stk EXCEPT ![t].i = i + 1] /\ cache' = cache BY <1>0, <1>1 DEF TakeSlot, StkTypes
  <2>2. StkTypes' BY <1>0, <2>1 DEF StkTypes
  <2>3. Referenced' /\ \A u \in StkTasks : stk'[u].stack = stk[u].stack
    BY <1>0, <2>1 DEF Referenced, StkTypes
  <2> QED BY <1>0, <2>1, <2>2, <2>3, StkStays, ZenonT(60)
<1>2. CASE GiveSlot(t, c) /\ cache[c][i] # NoStack
  <2>1. stk' = [stk EXCEPT ![t].i = i + 1] /\ cache' = cache BY <1>2, ZenonT(60) DEF GiveSlot
  <2>2. StkTypes' BY <1>0, <2>1 DEF StkTypes
  <2>3. Referenced' /\ \A u \in StkTasks : stk'[u].stack = stk[u].stack
    BY <1>0, <2>1 DEF Referenced, StkTypes
  <2> QED BY <1>0, <2>1, <2>2, <2>3, StkStays
<1>3. CASE TakeSlot(t, c) /\ cache[c][i] # NoStack
  <2>0. PICK k \in Slots : k = i BY <1>0
  <2>1. /\ stk[t].stage = "alloc" /\ cache' = [cache EXCEPT ![c][k] = NoStack]
        /\ stk' = [stk EXCEPT ![t].stack = cache[c][k], ![t].stage = "charge"]
    BY <1>3, <2>0, ZenonT(60) DEF TakeSlot
  <2>2. StkTypes' BY <1>0, <1>3, <2>0, <2>1 DEF StkTypes, Stages
  <2>3. /\ stk[t].stack = NoStack /\ stk'[t].stack = cache[c][k] /\ cache'[c][k] = NoStack
        /\ \A u \in StkTasks \ {t} : stk'[u].stack = stk[u].stack
        /\ \A d \in StkCpus, j \in Slots : (d # c \/ j # k) => cache'[d][j] = cache[d][j]
    BY <2>0, <2>1, ZenonT(60) DEF StkTypes
  <2>4. Apart' BY <1>3, <2>0, <2>3 DEF Apart
  <2>5. Placed' BY <1>0, <1>3, <2>0, <2>3, StkAssumption DEF Placed, InSomePlace
  <2>6. Referenced' BY <1>0, <2>1 DEF Referenced, StkTypes
  <2> QED BY <2>2, <2>4, <2>5, <2>6, ZenonT(60)
<1>4. CASE GiveSlot(t, c) /\ cache[c][i] = NoStack
  <2>0. PICK k \in Slots : k = i BY <1>0
  <2>1. /\ stk[t].stage \in {"free_stack", "releasing"}
        /\ cache' = [cache EXCEPT ![c][k] = stk[t].stack]
        /\ stk' = [stk EXCEPT ![t] = IF stk[t].stage = "free_stack" THEN NoTask
                                     ELSE [NoTask EXCEPT !.stage = "released"]]
    BY <1>4, <2>0 DEF GiveSlot
  <2>2. /\ stk'[t].stack = NoStack /\ stk'[t].refs = 0 /\ stk'[t].stage \in {"none", "released"}
        /\ stk'[t] \in [stack : Stacks \cup {NoStack}, refs : Int, stage : Stages, i : Int]
        /\ \A u \in StkTasks \ {t} : stk'[u] = stk[u]
        /\ stk' \in [StkTasks -> [stack : Stacks \cup {NoStack}, refs : Int, stage : Stages, i : Int]]
    BY <2>1 DEF StkTypes, NoTask, Stages
  <2>3. /\ cache' \in [StkCpus -> [Slots -> Stacks \cup {NoStack}]]
        /\ cache'[c][k] = stk[t].stack
        /\ \A d \in StkCpus, j \in Slots : (d # c \/ j # k) => cache'[d][j] = cache[d][j]
    BY <2>0, <2>1 DEF StkTypes
  <2>4. StkTypes' BY <1>0, <2>2, <2>3, ZenonT(60) DEF StkTypes
  <2>5. Apart'
    <3>1. \A u, v \in StkTasks : stk'[u].stack = stk'[v].stack /\ u # v => stk'[u].stack = NoStack
      BY <2>2 DEF Apart
    <3>2. \A d, e \in StkCpus, j, l \in Slots :
            cache'[d][j] = cache'[e][l] /\ (d # e \/ j # l) => cache'[d][j] = NoStack
      BY <2>3 DEF Apart
    <3>3. \A u \in StkTasks, d \in StkCpus, j \in Slots :
            stk'[u].stack = cache'[d][j] => cache'[d][j] = NoStack
      BY <2>2, <2>3 DEF Apart
    <3> QED BY <3>1, <3>2, <3>3 DEF Apart
  <2>6. Placed'
    <3>1. cache[c][k] = NoStack BY <1>4, <2>0
    <3>2. ASSUME NEW s \in Stacks PROVE InSomePlace(s)' <=> InSomePlace(s)
      <4>1. CASE s = stk[t].stack BY <2>3, <4>1, ZenonT(60) DEF InSomePlace
      <4>2. CASE s # stk[t].stack
        <5>1. \A u \in StkTasks : stk'[u].stack = s <=> stk[u].stack = s
          BY <2>2, <4>2, StkAssumption, ZenonT(60)
        <5>2. \A d \in StkCpus, j \in Slots : cache'[d][j] = s <=> cache[d][j] = s
          BY <2>3, <3>1, <4>2, StkAssumption
        <5> QED BY <5>1, <5>2, ZenonT(60) DEF InSomePlace
      <4> QED BY <4>1, <4>2
    <3> QED BY <1>0, <3>2 DEF Placed
  <2>7. Referenced' BY <1>0, <2>1, <2>2 DEF Referenced
  <2> QED BY <2>4, <2>5, <2>6, <2>7
<1> QED BY <1>1, <1>2, <1>3, <1>4, ZenonT(60)

\* vmalloc and vfree of a stack.
LEMMA StkAreas ==
    ASSUME StkInv, NEW t \in StkTasks, Vmalloc(t) \/ VfreeAtomic(t)
    PROVE  StkInv'
<1> USE DEF StkInv
<1>0. UNCHANGED <<cache, lookers>> BY DEF Vmalloc, VfreeAtomic
<1>1. CASE stk[t].stage = "alloc" /\ stk' = [stk EXCEPT ![t] = NoTask] /\ areas' = areas
  <2>1. /\ stk'[t] = NoTask /\ \A u \in StkTasks \ {t} : stk'[u] = stk[u]
        /\ stk' \in [StkTasks -> [stack : Stacks \cup {NoStack}, refs : Int, stage : Stages, i : Int]]
    BY <1>1 DEF StkTypes, NoTask, Stages
  <2>2. StkTypes' BY <1>0, <1>1, <2>1, ZenonT(60) DEF StkTypes, NoTask
  <2>3. \A u \in StkTasks : stk'[u].stack = stk[u].stack BY <1>1, <2>1, ZenonT(60) DEF StkTypes, NoTask
  <2>4. Referenced' BY <1>0, <1>1, <2>1 DEF Referenced, NoTask
  <2> QED BY <1>0, <1>1, <2>2, <2>3, <2>4, StkStays, ZenonT(60)
<1>2. CASE \E s \in Stacks \ areas :
             /\ areas' = areas \cup {s} /\ stk[t].stage = "alloc"
             /\ stk' = [stk EXCEPT ![t].stack = s, ![t].stage = "charge"]
  <2>0. PICK s \in Stacks \ areas :
             /\ areas' = areas \cup {s} /\ stk[t].stage = "alloc"
             /\ stk' = [stk EXCEPT ![t].stack = s, ![t].stage = "charge"]
    BY <1>2, ZenonT(60)
  <2>1. StkTypes' BY <1>0, <2>0, StkAssumption DEF StkTypes, Stages
  <2>2. /\ stk[t].stack = NoStack /\ stk'[t].stack = s
        /\ \A u \in StkTasks \ {t} : stk'[u].stack = stk[u].stack
    BY <2>0, ZenonT(60) DEF StkTypes
  <2>6. /\ \A u \in StkTasks : stk[u].stack # s
        /\ \A c \in StkCpus, i \in Slots : cache[c][i] # s
    BY ZenonT(60) DEF Placed, InSomePlace
  <2>3. Apart'
    <3>1. \A u, v \in StkTasks : stk'[u].stack = stk'[v].stack /\ u # v => stk'[u].stack = NoStack
      BY <2>2, <2>6 DEF Apart
    <3>2. \A u \in StkTasks, d \in StkCpus, j \in Slots :
            stk'[u].stack = cache'[d][j] => cache'[d][j] = NoStack
      BY <1>0, <2>2, <2>6 DEF Apart
    <3> QED BY <1>0, <3>1, <3>2 DEF Apart
  <2>4. Placed'
    <3>1. ASSUME NEW z \in Stacks, z # s PROVE InSomePlace(z)' <=> InSomePlace(z)
      BY <1>0, <2>2, <3>1, StkAssumption, ZenonT(60) DEF InSomePlace
    <3>2. InSomePlace(s)' BY <2>2 DEF InSomePlace
    <3> QED BY <2>0, <3>1, <3>2, ZenonT(60) DEF Placed
  <2>5. Referenced' BY <1>0, <2>0, ZenonT(60) DEF Referenced, StkTypes
  <2> QED BY <2>1, <2>3, <2>4, <2>5
<1>3. CASE VfreeAtomic(t)
  <2>1. /\ stk[t].stage \in {"free_stack", "releasing"} /\ areas' = areas \ {stk[t].stack}
        /\ stk' = [stk EXCEPT ![t] = IF stk[t].stage = "free_stack" THEN NoTask
                                     ELSE [NoTask EXCEPT !.stage = "released"]]
    BY <1>3 DEF VfreeAtomic
  <2>2. /\ stk'[t].stack = NoStack /\ stk'[t].refs = 0 /\ stk'[t].stage \in {"none", "released"}
        /\ \A u \in StkTasks \ {t} : stk'[u] = stk[u]
        /\ stk' \in [StkTasks -> [stack : Stacks \cup {NoStack}, refs : Int, stage : Stages, i : Int]]
    BY <2>1 DEF StkTypes, NoTask, Stages
  <2>3. StkTypes' BY <1>0, <2>1, <2>2, ZenonT(60) DEF StkTypes
  <2>4. Apart' BY <1>0, <2>2 DEF Apart
  <2>5. stk[t].stack \in Stacks BY <2>1 DEF StkTypes
  <2>6. Placed' BY <1>0, <2>1, <2>2, <2>5, StkAssumption DEF Placed, InSomePlace, Apart
  <2>7. Referenced' BY <1>0, <2>1, <2>2 DEF Referenced
  <2> QED BY <2>3, <2>4, <2>6, <2>7
<1> QED BY <1>1, <1>2, <1>3, ZenonT(60) DEF Vmalloc

\* A CPU goes offline and its cached stacks are vfreed, or comes back.
LEMMA StkHotplug ==
    ASSUME StkInv, NEW c \in StkCpus, FreeVmStackCache(c) \/ CpuUp(c)
    PROVE  StkInv'
<1> USE DEF StkInv
<1>0. UNCHANGED <<stk, lookers>> BY ZenonT(60) DEF FreeVmStackCache, CpuUp
<1>1. Referenced' BY <1>0, ZenonT(60) DEF Referenced
<1>2. CASE CpuUp(c)
  BY <1>0, <1>1, <1>2, StkStays, ZenonT(60) DEF CpuUp, StkTypes
<1>3. CASE FreeVmStackCache(c)
  <2>1. /\ areas' = areas \ {cache[c][i] : i \in Slots}
        /\ cache' = [cache EXCEPT ![c] = [i \in Slots |-> NoStack]]
    BY <1>3, ZenonT(60) DEF FreeVmStackCache
  <2>2. /\ cache' \in [StkCpus -> [Slots -> Stacks \cup {NoStack}]]
        /\ \A i \in Slots : cache'[c][i] = NoStack
        /\ \A d \in StkCpus \ {c} : cache'[d] = cache[d]
    BY <2>1, ZenonT(60) DEF StkTypes
  <2>3. StkTypes' BY <1>0, <2>1, <2>2, ZenonT(60) DEF StkTypes
  <2>4. Apart' BY <1>0, <2>2 DEF Apart
  <2>5. Placed'
    <3> SUFFICES ASSUME NEW s \in Stacks PROVE s \in areas' <=> InSomePlace(s)'
      BY ZenonT(60) DEF Placed
    <3>1. CASE \E i \in Slots : cache[c][i] = s
      BY <1>0, <2>1, <2>2, <3>1, StkAssumption DEF InSomePlace, Apart
    <3>2. CASE ~\E i \in Slots : cache[c][i] = s
      BY <1>0, <2>1, <2>2, <3>2, StkAssumption DEF InSomePlace, Placed
    <3> QED BY <3>1, <3>2
  <2> QED BY <1>1, <2>3, <2>4, <2>5, ZenonT(60)
<1> QED BY <1>2, <1>3, ZenonT(60)

\* The inductive invariant holds of every behaviour.
LEMMA StkAlways == StkSpec => []StkInv
<1>1. StkInv /\ [StkNext]_stkVars => StkInv'
  <2> SUFFICES ASSUME StkInv, [StkNext]_stkVars PROVE StkInv' BY ZenonT(60)
  <2>1. CASE UNCHANGED stkVars
    BY <2>1 DEF stkVars, StkInv, StkTypes, Apart, Placed, InSomePlace, Referenced
  <2> QED BY <2>1, StkDups, StkRefs, StkSlots, StkAreas, StkHotplug, ZenonT(60) DEF StkNext
<1> QED BY <1>1, StkInitially, PTL DEF StkSpec

-----------------------------------------------------------------------------
(***************************************************************************)
(* What is accounted for the stacks.  The count of a set of tasks is taken *)
(* from its being finite, which is a fact about StkTasks.                  *)
(***************************************************************************)
TasksCount ==
    /\ Cardinality({}) = 0
    /\ \A S \in SUBSET StkTasks :
          Cardinality(S) \in Nat /\ \A t \in StkTasks \ S : Cardinality(S \cup {t}) = Cardinality(S) + 1

\* The tasks that NR_KERNEL_STACK_KB counts.
Counted == {t \in StkTasks : stk[t].stage \in {"running", "dead"}}

\* memcg_charge_kernel_stack has charged all pages before the task_struct is
\* copied, and free_thread_stack has uncharged all before it looks for a slot.
Charged ==
    /\ charged \in [Stacks -> 0 .. StkPages]
    /\ \A t \in StkTasks :
        /\ stk[t].stage \in {"dup", "running", "dead"} => charged[stk[t].stack] = StkPages
        /\ stk[t].stage \in {"free_stack", "releasing"} => charged[stk[t].stack] = 0
    /\ \A s \in Stacks : Owners(s) = {} => charged[s] = 0

LoopsBounded == \A t \in StkTasks : stk[t].i \in 0 .. NrCached + 1

StkAccounts ==
    /\ Charged /\ LoopsBounded /\ online \in SUBSET StkCpus
    /\ kstacks = Cardinality(Counted)

\* A step of t that charges or uncharges at most t's own stack.
LEMMA ChargesOwn ==
    ASSUME StkInv, Charged, NEW t \in StkTasks,
           \A u \in StkTasks \ {t} : stk'[u] = stk[u],
           charged' \in [Stacks -> 0 .. StkPages],
           \A s \in Stacks : charged'[s] = charged[s] \/ (s = stk[t].stack /\ s = stk'[t].stack),
           stk'[t].stage \in {"dup", "running", "dead"} => charged'[stk'[t].stack] = StkPages,
           stk'[t].stage \in {"free_stack", "releasing"} => charged'[stk'[t].stack] = 0,
           stk'[t].stack = stk[t].stack \/ stk[t].stack = NoStack \/ charged[stk[t].stack] = 0
    PROVE  Charged'
<1>0. StkTypes /\ Apart BY ZenonT(60) DEF StkInv
<1>1. ASSUME NEW u \in StkTasks \ {t},
             stk[u].stage \in {"dup", "running", "dead", "free_stack", "releasing"}
      PROVE  stk'[u] = stk[u] /\ charged'[stk[u].stack] = charged[stk[u].stack]
  <2>1. stk[u].stack \in Stacks BY <1>0, <1>1 DEF StkTypes
  <2>2. stk[u].stack # stk[t].stack BY <1>0, <2>1, StkAssumption, ZenonT(60) DEF Apart
  <2> QED BY <2>1, <2>2, ZenonT(60)
<1>2. \A u \in StkTasks :
        /\ stk'[u].stage \in {"dup", "running", "dead"} => charged'[stk'[u].stack] = StkPages
        /\ stk'[u].stage \in {"free_stack", "releasing"} => charged'[stk'[u].stack] = 0
  BY <1>1 DEF Charged
<1>3. ASSUME NEW s \in Stacks, Owners(s)' = {} PROVE charged'[s] = 0
  <2>1. s # stk'[t].stack /\ \A u \in StkTasks \ {t} : stk[u].stack # s BY <1>3, ZenonT(60) DEF Owners
  <2>2. charged'[s] = charged[s] BY <2>1, ZenonT(60)
  <2>3. CASE s = stk[t].stack BY <2>1, <2>2, <2>3, StkAssumption, ZenonT(60)
  <2>4. CASE s # stk[t].stack
    <3>1. Owners(s) = {} BY <2>1, <2>4, ZenonT(60) DEF Owners
    <3> QED BY <2>2, <3>1, ZenonT(60) DEF Charged
  <2> QED BY <2>3, <2>4, ZenonT(60)
<1> QED BY <1>2, <1>3, ZenonT(60) DEF Charged

\* What a step of t does to the tasks that are counted.
LEMMA CountsOne ==
    ASSUME TasksCount, NEW t \in StkTasks, kstacks = Cardinality(Counted),
           \A u \in StkTasks \ {t} : stk'[u] = stk[u],
           kstacks' = kstacks + (IF stk'[t].stage \in {"running", "dead"} THEN 1 ELSE 0)
                              - (IF stk[t].stage \in {"running", "dead"} THEN 1 ELSE 0)
    PROVE  kstacks' = Cardinality(Counted')
<1>0. Counted \in SUBSET StkTasks /\ Counted' \in SUBSET StkTasks BY DEF Counted
<1>1. Cardinality(Counted) \in Nat /\ Cardinality(Counted') \in Nat BY <1>0, ZenonT(60) DEF TasksCount
<1>2. CASE t \notin Counted /\ t \in Counted'
  <2>1. Counted' = Counted \cup {t} BY <1>2 DEF Counted
  <2>2. Cardinality(Counted \cup {t}) = Cardinality(Counted) + 1
    BY <1>0, <1>2, ZenonT(60) DEF TasksCount
  <2>3. stk'[t].stage \in {"running", "dead"} /\ stk[t].stage \notin {"running", "dead"}
    BY <1>2 DEF Counted
  <2> QED BY <1>1, <2>1, <2>2, <2>3
<1>3. CASE t \in Counted /\ t \notin Counted'
  <2>1. Counted = Counted' \cup {t} BY <1>3 DEF Counted
  <2>2. Cardinality(Counted' \cup {t}) = Cardinality(Counted') + 1
    BY <1>0, <1>3, ZenonT(60) DEF TasksCount
  <2>3. stk'[t].stage \notin {"running", "dead"} /\ stk[t].stage \in {"running", "dead"}
    BY <1>3 DEF Counted
  <2> QED BY <1>1, <2>1, <2>2, <2>3
<1>4. CASE t \in Counted <=> t \in Counted'
  <2>1. Counted = Counted' BY <1>4, ZenonT(60) DEF Counted
  <2>2. stk'[t].stage \in {"running", "dead"} <=> stk[t].stage \in {"running", "dead"}
    BY <1>4, ZenonT(60) DEF Counted
  <2> QED BY <1>1, <2>1, <2>2
<1> QED BY <1>2, <1>3, <1>4, ZenonT(60)

\* A step of t that charges nothing.
LEMMA AccountsKept ==
    ASSUME StkInv, StkAccounts, TasksCount, NEW t \in StkTasks,
           \A u \in StkTasks \ {t} : stk'[u] = stk[u],
           UNCHANGED <<charged, online>>,
           stk'[t].stage \in {"dup", "running", "dead"} =>
               stk[t].stage \in {"dup", "running", "dead"} /\ stk'[t].stack = stk[t].stack,
           stk'[t].stage \in {"free_stack", "releasing"} =>
               stk[t].stage \in {"free_stack", "releasing"} /\ stk'[t].stack = stk[t].stack,
           \/ stk'[t].stack = stk[t].stack \/ stk[t].stack = NoStack
           \/ stk[t].stage \in {"free_stack", "releasing"},
           stk'[t].i \in 0 .. NrCached + 1,
           kstacks' = kstacks + (IF stk'[t].stage \in {"running", "dead"} THEN 1 ELSE 0)
                              - (IF stk[t].stage \in {"running", "dead"} THEN 1 ELSE 0)
    PROVE  StkAccounts'
<1>0. Charged /\ LoopsBounded /\ online \in SUBSET StkCpus /\ kstacks = Cardinality(Counted)
  BY DEF StkAccounts
<1>1. Charged'
  <2>1. /\ stk[t].stage \in {"dup", "running", "dead"} => charged[stk[t].stack] = StkPages
        /\ stk[t].stage \in {"free_stack", "releasing"} => charged[stk[t].stack] = 0
        /\ charged \in [Stacks -> 0 .. StkPages]
    BY <1>0, ZenonT(60) DEF Charged
  <2>2. /\ stk'[t].stage \in {"dup", "running", "dead"} => charged'[stk'[t].stack] = StkPages
        /\ stk'[t].stage \in {"free_stack", "releasing"} => charged'[stk'[t].stack] = 0
        /\ stk'[t].stack = stk[t].stack \/ stk[t].stack = NoStack \/ charged[stk[t].stack] = 0
        /\ charged' \in [Stacks -> 0 .. StkPages] /\ charged' = charged
    BY <2>1, ZenonT(60)
  <2> QED BY <1>0, <2>2, ChargesOwn, ZenonT(60)
<1>2. LoopsBounded' BY <1>0 DEF LoopsBounded
<1>3. kstacks' = Cardinality(Counted') BY <1>0, CountsOne, ZenonT(60)
<1> QED BY <1>0, <1>1, <1>2, <1>3, ZenonT(60) DEF StkAccounts

\* A step of t that sets what is charged for its stack.
LEMMA AccountsCharge ==
    ASSUME StkInv, StkAccounts, TasksCount, NEW t \in StkTasks, NEW n \in 0 .. StkPages,
           \A u \in StkTasks \ {t} : stk'[u] = stk[u],
           charged' = [charged EXCEPT ![stk[t].stack] = n], online' = online,
           stk[t].stack \in Stacks, stk'[t].stack = stk[t].stack,
           stk'[t].stage \in {"dup", "running", "dead"} => n = StkPages,
           stk'[t].stage \in {"free_stack", "releasing"} => n = 0,
           stk'[t].i \in 0 .. NrCached + 1,
           kstacks' = kstacks + (IF stk'[t].stage \in {"running", "dead"} THEN 1 ELSE 0)
                              - (IF stk[t].stage \in {"running", "dead"} THEN 1 ELSE 0)
    PROVE  StkAccounts'
<1>0. /\ Charged /\ LoopsBounded /\ online \in SUBSET StkCpus /\ kstacks = Cardinality(Counted)
      /\ charged \in [Stacks -> 0 .. StkPages]
  BY ZenonT(60) DEF StkAccounts, Charged
<1>1. /\ charged' \in [Stacks -> 0 .. StkPages] /\ charged'[stk[t].stack] = n
      /\ \A s \in Stacks : charged'[s] = charged[s] \/ (s = stk[t].stack /\ s = stk'[t].stack)
  BY <1>0
<1>2. Charged' BY <1>0, <1>1, ChargesOwn, ZenonT(60)
<1>3. LoopsBounded' BY <1>0 DEF LoopsBounded
<1>4. kstacks' = Cardinality(Counted') BY <1>0, CountsOne, ZenonT(60)
<1> QED BY <1>0, <1>2, <1>3, <1>4, ZenonT(60) DEF StkAccounts

\* dup_task_struct, its failures, exit and release.
LEMMA AccountsDup ==
    ASSUME StkInv, StkAccounts, TasksCount, NEW t \in StkTasks,
           \/ AllocTaskStruct(t) \/ DupFails(t) \/ FailedDup(t) \/ FirstTaskStruct(t)
           \/ StkExit(t) \/ FreeTask(t)
           \/ \E n \in 0 .. StkPages : ChargeStack(t, n)
           \/ \E orig \in StkTasks \ {t} : DupTaskStruct(t, orig)
    PROVE  StkAccounts'
<1>0. /\ stk \in [StkTasks -> TaskStructs] /\ kstacks \in Int /\ NrCached \in Nat
      /\ stk[t].stack = NoStack <=> stk[t].stage \in {"none", "alloc", "released"}
      /\ \A u \in StkTasks : stk[u].i \in 0 .. NrCached + 1 /\ stk[u].stack \in Stacks \cup {NoStack}
      /\ 0 \in 0 .. NrCached + 1 /\ 1 \in 0 .. NrCached + 1 /\ 0 \in 0 .. StkPages
  <2>1. kstacks \in Int BY DEF StkAccounts, TasksCount, Counted
  <2>2. /\ stk \in [StkTasks -> TaskStructs]
        /\ stk[t].stack = NoStack <=> stk[t].stage \in {"none", "alloc", "released"}
        /\ \A u \in StkTasks : stk[u].stack \in Stacks \cup {NoStack}
    BY DEF StkInv, StkTypes, TaskStructs
  <2> QED BY <2>1, <2>2, StkAssumption DEF StkAccounts, LoopsBounded
<1>1. CASE AllocTaskStruct(t)
  <2>1. /\ stk[t].stage = "none" /\ UNCHANGED <<online, charged, kstacks>>
        /\ stk' = [stk EXCEPT ![t] = [NoTask EXCEPT !.i = 1, !.stage = "alloc"]]
    BY <1>1 DEF AllocTaskStruct
  <2>2. /\ \A u \in StkTasks \ {t} : stk'[u] = stk[u]
        /\ stk'[t].stage = "alloc" /\ stk'[t].i = 1 /\ stk'[t].stack = NoStack
    BY <1>0, <2>1, ZenonT(60) DEF NoTask
  <2> QED BY <1>0, <2>1, <2>2, AccountsKept
<1>2. CASE FreeTask(t)
  <2>1. /\ stk[t].stage = "released" /\ UNCHANGED <<online, charged, kstacks>>
        /\ stk' = [stk EXCEPT ![t] = NoTask]
    BY <1>2 DEF FreeTask
  <2>2. /\ \A u \in StkTasks \ {t} : stk'[u] = stk[u]
        /\ stk'[t].stage = "none" /\ stk'[t].i = 0 /\ stk'[t].stack = NoStack
    BY <1>0, <2>1, ZenonT(60) DEF NoTask
  <2> QED BY <1>0, <2>1, <2>2, AccountsKept
<1>3. CASE FailedDup(t)
  <2>1. /\ stk[t].stage = "failed" /\ UNCHANGED <<online, kstacks>>
        /\ charged' = [charged EXCEPT ![stk[t].stack] = 0]
        /\ stk' = [stk EXCEPT ![t].refs = 0, ![t].stage = "free_stack", ![t].i = 1]
    BY <1>3 DEF FailedDup, StartFree
  <2>2. /\ \A u \in StkTasks \ {t} : stk'[u] = stk[u]
        /\ stk'[t].stage = "free_stack" /\ stk'[t].i = 1 /\ stk'[t].stack = stk[t].stack
    BY <1>0, <2>1, ZenonT(60) DEF TaskStructs
  <2>3. /\ stk[t].stack \in Stacks /\ stk'[t].i \in 0 .. NrCached + 1
        /\ kstacks' = kstacks + (IF stk'[t].stage \in {"running", "dead"} THEN 1 ELSE 0)
                             - (IF stk[t].stage \in {"running", "dead"} THEN 1 ELSE 0)
    BY <1>0, <2>1, <2>2
  <2> QED BY <1>0, <2>1, <2>2, <2>3, AccountsCharge, ZenonT(60)
<1>4. CASE FirstTaskStruct(t)
  <2>1. /\ stk[t].stage = "dup" /\ UNCHANGED <<online, charged>> /\ kstacks' = kstacks + 1
        /\ stk' = [stk EXCEPT ![t].refs = 1, ![t].stage = "running", ![t].i = 0]
    BY <1>4 DEF FirstTaskStruct, AccountKernelStack
  <2>2. /\ \A u \in StkTasks \ {t} : stk'[u] = stk[u]
        /\ stk'[t].stage = "running" /\ stk'[t].i = 0 /\ stk'[t].stack = stk[t].stack
    BY <1>0, <2>1, ZenonT(60) DEF TaskStructs
  <2> QED BY <1>0, <2>1, <2>2, AccountsKept
<1>5. CASE DupFails(t) \/ StkExit(t)
  <2>1. PICK g \in {"failed", "dead"} :
          /\ UNCHANGED <<online, charged, kstacks>> /\ stk' = [stk EXCEPT ![t].stage = g]
          /\ IF g = "dead" THEN stk[t].stage = "running" ELSE stk[t].stage = "dup"
    BY <1>5 DEF DupFails, StkExit
  <2>2. /\ \A u \in StkTasks \ {t} : stk'[u] = stk[u]
        /\ stk'[t].stage = g /\ stk'[t].i = stk[t].i /\ stk'[t].stack = stk[t].stack
    BY <1>0, <2>1, ZenonT(60) DEF TaskStructs
  <2> QED BY <1>0, <2>1, <2>2, AccountsKept
<1>6. CASE \E n \in 0 .. StkPages : ChargeStack(t, n)
  <2>0. PICK n \in 0 .. StkPages : ChargeStack(t, n) BY <1>6
  <2> DEFINE g == IF n = StkPages THEN "dup" ELSE "failed"
  <2>1. /\ stk[t].stage = "charge" /\ UNCHANGED <<online, kstacks>>
        /\ charged' = [charged EXCEPT ![stk[t].stack] = n] /\ stk' = [stk EXCEPT ![t].stage = g]
    BY <2>0 DEF ChargeStack
  <2>2. /\ \A u \in StkTasks \ {t} : stk'[u] = stk[u]
        /\ stk'[t].stage = g /\ stk'[t].i = stk[t].i /\ stk'[t].stack = stk[t].stack
    BY <1>0, <2>1, ZenonT(60) DEF TaskStructs
  <2>3. /\ stk[t].stack \in Stacks /\ stk'[t].i \in 0 .. NrCached + 1
        /\ stk'[t].stage \in {"dup", "running", "dead"} => n = StkPages
        /\ stk'[t].stage \in {"free_stack", "releasing"} => n = 0
        /\ kstacks' = kstacks + (IF stk'[t].stage \in {"running", "dead"} THEN 1 ELSE 0)
                             - (IF stk[t].stage \in {"running", "dead"} THEN 1 ELSE 0)
    BY <1>0, <2>1, <2>2
  <2> QED BY <1>0, <2>1, <2>2, <2>3, AccountsCharge, ZenonT(60)
<1>7. CASE \E orig \in StkTasks \ {t} : DupTaskStruct(t, orig)
  <2>0. PICK orig \in StkTasks \ {t} : DupTaskStruct(t, orig) BY <1>7
  <2>1. /\ stk[t].stage = "dup" /\ UNCHANGED <<online, charged>> /\ kstacks' = kstacks + 1
        /\ stk' = [stk EXCEPT ![t] = [stk[orig] EXCEPT !.stack = stk[t].stack, !.refs = 1]]
        /\ stk[orig].stage = "running"
    BY <2>0, ZenonT(60) DEF DupTaskStruct, AccountKernelStack
  <2>2. stk'[t] = [stk[orig] EXCEPT !.stack = stk[t].stack, !.refs = 1]
        /\ \A u \in StkTasks \ {t} : stk'[u] = stk[u]
    BY <1>0, <2>1, ZenonT(60)
  <2>3. stk'[t].stage = "running" /\ stk'[t].i = stk[orig].i /\ stk'[t].stack = stk[t].stack
    <3>1. stk[orig] \in TaskStructs BY <1>0
    <3> DEFINE d == [stk[orig] EXCEPT !.stack = stk[t].stack, !.refs = 1]
    <3>2. d.stage = stk[orig].stage /\ d.i = stk[orig].i /\ d.stack = stk[t].stack
      BY <3>1, ZenonT(60) DEF TaskStructs
    <3>3. stk'[t] = d /\ stk[orig].stage = "running" BY <2>1, <2>2, ZenonT(60)
    <3> HIDE DEF d
    <3> QED BY <3>2, <3>3
  <2> QED BY <1>0, <2>1, <2>2, <2>3, AccountsKept
<1> QED BY <1>1, <1>2, <1>3, <1>4, <1>5, <1>6, <1>7, ZenonT(60)

\* try_get_task_stack and put_task_stack.
LEMMA AccountsRefs ==
    ASSUME StkInv, StkAccounts, TasksCount, NEW t \in StkTasks,
           TryGetTaskStack(t) \/ PutOwn(t) \/ PutLooker(t)
    PROVE  StkAccounts'
<1>0. /\ stk \in [StkTasks -> TaskStructs] /\ kstacks \in Int
      /\ stk[t].stack = NoStack <=> stk[t].stage \in {"none", "alloc", "released"}
      /\ stk[t].i \in 0 .. NrCached + 1 /\ stk[t].stack \in Stacks \cup {NoStack}
      /\ 1 \in 0 .. NrCached + 1 /\ 0 \in 0 .. StkPages
  <2>1. kstacks \in Int BY DEF StkAccounts, TasksCount, Counted
  <2>2. /\ stk \in [StkTasks -> TaskStructs] /\ stk[t].stack \in Stacks \cup {NoStack}
        /\ stk[t].stack = NoStack <=> stk[t].stage \in {"none", "alloc", "released"}
    BY DEF StkInv, StkTypes, TaskStructs
  <2> QED BY <2>1, <2>2, StkAssumption DEF StkAccounts, LoopsBounded
<1>1. CASE \E n \in Int : /\ stk' = [stk EXCEPT ![t].refs = n]
                         /\ UNCHANGED <<online, charged, kstacks>>
  <2>0. PICK n \in Int : stk' = [stk EXCEPT ![t].refs = n] /\ UNCHANGED <<online, charged, kstacks>>
    BY <1>1, ZenonT(60)
  <2>1. /\ \A u \in StkTasks \ {t} : stk'[u] = stk[u]
        /\ stk'[t].stage = stk[t].stage /\ stk'[t].i = stk[t].i /\ stk'[t].stack = stk[t].stack
    BY <1>0, <2>0, ZenonT(60) DEF TaskStructs
  <2> QED BY <1>0, <2>0, <2>1, AccountsKept
<1>2. CASE /\ stk[t].refs = 1 /\ stk[t].stage = "dead" /\ online' = online
           /\ charged' = [charged EXCEPT ![stk[t].stack] = 0] /\ kstacks' = kstacks + -1
           /\ stk' = [stk EXCEPT ![t].refs = 0, ![t].stage = "releasing", ![t].i = 1]
  <2>2. /\ \A u \in StkTasks \ {t} : stk'[u] = stk[u]
        /\ stk'[t].stage = "releasing" /\ stk'[t].i = 1 /\ stk'[t].stack = stk[t].stack
    BY <1>0, <1>2, ZenonT(60) DEF TaskStructs
  <2>3. /\ stk[t].stack \in Stacks /\ stk'[t].i \in 0 .. NrCached + 1
        /\ kstacks' = kstacks + (IF stk'[t].stage \in {"running", "dead"} THEN 1 ELSE 0)
                              - (IF stk[t].stage \in {"running", "dead"} THEN 1 ELSE 0)
    BY <1>0, <1>2, <2>2
  <2> QED BY <1>0, <1>2, <2>2, <2>3, AccountsCharge, ZenonT(60)
<1>3. stk[t].refs + 1 \in Int /\ stk[t].refs - 1 \in Int BY <1>0 DEF TaskStructs
<1>4. CASE TryGetTaskStack(t) BY <1>1, <1>3, <1>4, ZenonT(60) DEF TryGetTaskStack
<1>5. CASE PutOwn(t) \/ PutLooker(t)
  <2>1. PutTaskStack(t) /\ online' = online BY <1>5, ZenonT(60) DEF PutOwn, PutLooker
  <2> QED BY <1>1, <1>2, <1>3, <2>1, ZenonT(60) DEF PutTaskStack, StartFree, AccountKernelStack
<1> QED BY <1>4, <1>5

\* The loops over the cache, vmalloc and vfree.
LEMMA AccountsSlots ==
    ASSUME StkInv, StkAccounts, TasksCount, NEW t \in StkTasks,
           \/ Vmalloc(t) \/ VfreeAtomic(t)
           \/ \E c \in StkCpus : TakeSlot(t, c) \/ GiveSlot(t, c)
    PROVE  StkAccounts'
<1>0. /\ stk \in [StkTasks -> TaskStructs] /\ kstacks \in Int /\ NrCached \in Nat
      /\ stk[t].stack = NoStack <=> stk[t].stage \in {"none", "alloc", "released"}
      /\ stk[t].i \in 0 .. NrCached + 1 /\ 0 \in 0 .. NrCached + 1
  <2>1. kstacks \in Int BY DEF StkAccounts, TasksCount, Counted
  <2>2. /\ stk \in [StkTasks -> TaskStructs]
        /\ stk[t].stack = NoStack <=> stk[t].stage \in {"none", "alloc", "released"}
    BY DEF StkInv, StkTypes, TaskStructs
  <2> QED BY <2>1, <2>2, StkAssumption DEF StkAccounts, LoopsBounded
<1>1. /\ UNCHANGED <<online, charged, kstacks>>
      /\ stk[t].stage \in {"alloc", "free_stack", "releasing"}
  BY ZenonT(60) DEF Vmalloc, VfreeAtomic, TakeSlot, GiveSlot
<1>2. CASE stk[t].i \in Slots /\ stk' = [stk EXCEPT ![t].i = stk[t].i + 1]
  <2>1. /\ \A u \in StkTasks \ {t} : stk'[u] = stk[u]
        /\ stk'[t].stage = stk[t].stage /\ stk'[t].i = stk[t].i + 1 /\ stk'[t].stack = stk[t].stack
    BY <1>0, <1>2, ZenonT(60) DEF TaskStructs
  <2>2. stk'[t].i \in 0 .. NrCached + 1 BY <1>0, <1>2, <2>1 DEF Slots
  <2> QED BY <1>0, <1>1, <2>1, <2>2, AccountsKept
<1>3. CASE \E s : /\ stk[t].stage = "alloc"
                 /\ stk' = [stk EXCEPT ![t].stack = s, ![t].stage = "charge"]
  <2>0. PICK s : /\ stk[t].stage = "alloc"
                 /\ stk' = [stk EXCEPT ![t].stack = s, ![t].stage = "charge"]
    BY <1>3, ZenonT(60)
  <2>1. /\ \A u \in StkTasks \ {t} : stk'[u] = stk[u]
        /\ stk'[t].stage = "charge" /\ stk'[t].i = stk[t].i
    BY <1>0, <2>0, ZenonT(60) DEF TaskStructs
  <2> QED BY <1>0, <1>1, <2>0, <2>1, AccountsKept
<1>4. CASE \E g \in {"none", "released"} : stk' = [stk EXCEPT ![t] = [NoTask EXCEPT !.stage = g]]
  <2>0. PICK g \in {"none", "released"} : stk' = [stk EXCEPT ![t] = [NoTask EXCEPT !.stage = g]]
    BY <1>4, ZenonT(60)
  <2>1. /\ \A u \in StkTasks \ {t} : stk'[u] = stk[u]
        /\ stk'[t].stage = g /\ stk'[t].i = 0 /\ stk'[t].stack = NoStack
    BY <1>0, <2>0, ZenonT(60) DEF NoTask
  <2> QED BY <1>0, <1>1, <2>0, <2>1, AccountsKept
<1>5. NoTask = [NoTask EXCEPT !.stage = "none"] BY DEF NoTask
<1>6. CASE Vmalloc(t) BY <1>3, <1>4, <1>5, <1>6, ZenonT(60) DEF Vmalloc
<1>7. CASE VfreeAtomic(t) BY <1>4, <1>5, <1>7, ZenonT(60) DEF VfreeAtomic
<1>8. CASE \E c \in StkCpus : TakeSlot(t, c) BY <1>2, <1>3, <1>8, ZenonT(60) DEF TakeSlot
<1>9. CASE \E c \in StkCpus : GiveSlot(t, c) BY <1>2, <1>4, <1>5, <1>9, ZenonT(60) DEF GiveSlot
<1> QED BY <1>6, <1>7, <1>8, <1>9

\* Every step keeps the accounts.
LEMMA AccountsNext ==
    ASSUME StkInv, StkAccounts, TasksCount, [StkNext]_stkVars
    PROVE  StkAccounts'
<1>1. CASE UNCHANGED <<stk, charged, kstacks>> /\ online' \in SUBSET StkCpus
  BY <1>1 DEF StkAccounts, Charged, LoopsBounded, Counted, Owners
<1>2. online \in SUBSET StkCpus BY DEF StkAccounts
<1>3. CASE UNCHANGED stkVars BY <1>1, <1>2, <1>3 DEF stkVars
<1>4. CASE \E c \in StkCpus : FreeVmStackCache(c) \/ CpuUp(c)
  BY <1>1, <1>2, <1>4 DEF FreeVmStackCache, CpuUp
<1> QED BY <1>3, <1>4, AccountsDup, AccountsRefs, AccountsSlots, ZenonT(60) DEF StkNext

INSTANCE FiniteSetTheorems

\* A kernel stack is in one place, whatever CPU each iteration of the loops
\* over cached_stacks runs on and whatever CPUs go offline meanwhile.
THEOREM StkOneOwner == StkSpec => []OneOwner
<1>1. StkInv => OneOwner
  <2> SUFFICES ASSUME StkInv, NEW s \in Stacks
      PROVE  Cardinality(Owners(s)) + Cardinality(CachedAt(s)) = IF s \in areas THEN 1 ELSE 0
    BY DEF OneOwner
  <2>0. Cardinality({}) = 0 BY FS_EmptySet, ZenonT(60)
  <2>1. CASE s \notin areas
    <3>1. Owners(s) = {} /\ CachedAt(s) = {}
      BY <2>1, ZenonT(60) DEF StkInv, Placed, InSomePlace, Owners, CachedAt
    <3> QED BY <2>0, <2>1, <3>1
  <2>2. CASE s \in areas /\ \E t \in StkTasks : stk[t].stack = s
    <3> PICK t \in StkTasks : stk[t].stack = s BY <2>2, ZenonT(60)
    <3>1. Owners(s) = {t} BY StkAssumption, ZenonT(60) DEF StkInv, Apart, Owners
    <3>2. CachedAt(s) = {} BY StkAssumption, ZenonT(60) DEF StkInv, Apart, CachedAt
    <3>3. Cardinality({t}) = 1 BY FS_Singleton, ZenonT(60)
    <3> QED BY <2>0, <2>2, <3>1, <3>2, <3>3
  <2>3. CASE s \in areas /\ \E c \in StkCpus, i \in Slots : cache[c][i] = s
    <3> PICK c \in StkCpus, i \in Slots : cache[c][i] = s BY <2>3, ZenonT(60)
    <3>1. CachedAt(s) = {<<c, i>>} BY StkAssumption DEF StkInv, Apart, CachedAt
    <3>2. Owners(s) = {} BY StkAssumption DEF StkInv, Apart, Owners
    <3>3. Cardinality({<<c, i>>}) = 1 BY FS_Singleton, ZenonT(60)
    <3> QED BY <2>0, <2>3, <3>1, <3>2, <3>3
  <2> QED BY <2>1, <2>2, <2>3, ZenonT(60) DEF StkInv, Placed, InSomePlace
<1> QED BY <1>1, StkAlways, PTL

\* Whoever holds a reference to a stack can read it, and free_task never warns.
THEOREM StkReferenced == StkSpec => []StackWhileReferenced
<1>1. StkInv => StackWhileReferenced
  <2> SUFFICES ASSUME StkInv PROVE StackWhileReferenced BY ZenonT(60)
  <2>1. \A t \in lookers : stk[t].stage \in {"running", "dead"} /\ t \in StkTasks
    BY ZenonT(60) DEF StkInv, StkTypes, Referenced
  <2>2. \A t \in lookers : stk[t].stack # NoStack BY <2>1, ZenonT(60) DEF StkInv, StkTypes
  <2>3. \A t \in StkTasks : stk[t].stage = "released" => stk[t].refs = 0
    BY DEF StkInv, Referenced
  <2> QED BY <2>2, <2>3, ZenonT(60) DEF StackWhileReferenced
<1> QED BY <1>1, StkAlways, PTL

\* The facts about counting that the accounts rest on.
LEMMA TasksCounted == TasksCount
<1>1. ASSUME NEW S \in SUBSET StkTasks
      PROVE  Cardinality(S) \in Nat /\ \A t \in StkTasks \ S : Cardinality(S \cup {t}) = Cardinality(S) + 1
  <2>1. IsFiniteSet(S) BY StkAssumption, FS_Subset, ZenonT(60)
  <2>2. Cardinality(S) \in Nat BY <2>1, FS_CardinalityType, ZenonT(60)
  <2>3. \A t \in StkTasks \ S : Cardinality(S \cup {t}) = Cardinality(S) + 1
    BY <2>1, FS_AddElement, ZenonT(60)
  <2> QED BY <2>2, <2>3
<1> QED BY <1>1, FS_EmptySet, ZenonT(60) DEF TasksCount

\* Stacks, their places, their charges and their references are right at every
\* step: the fork, the failures of dup_task_struct, the exit, the readers and the
\* hotplug of CPUs in any order.
THEOREM StkSafe == StkSpec => []StacksSound
<1>1. StkInit => StkAccounts
  <2> SUFFICES ASSUME StkInit PROVE StkAccounts OBVIOUS
  <2>1. /\ \A t \in StkTasks : stk[t].stage = "none" /\ stk[t].i = 0
        /\ charged = [s \in Stacks |-> 0] /\ online = StkCpus /\ kstacks = 0
    BY ZenonT(60) DEF StkInit, NoTask
  <2>2. Charged BY <2>1, StkAssumption DEF Charged
  <2>3. LoopsBounded BY <2>1, StkAssumption DEF LoopsBounded
  <2>4. Counted = {} BY <2>1 DEF Counted
  <2> QED BY <2>1, <2>2, <2>3, <2>4, FS_EmptySet, ZenonT(60) DEF StkAccounts
<1>2. StkInv /\ StkAccounts /\ [StkNext]_stkVars => StkAccounts'
  BY TasksCounted, AccountsNext, ZenonT(60)
<1>3. StkInv /\ StkAccounts => StkTypeOK /\ ChargedByOwner
  <2> SUFFICES ASSUME StkInv, StkAccounts PROVE StkTypeOK /\ ChargedByOwner OBVIOUS
  <2>1. kstacks \in Nat
    <3>1. Counted \in SUBSET StkTasks BY ZenonT(60) DEF Counted
    <3> QED BY <3>1, TasksCounted, ZenonT(60) DEF StkAccounts, TasksCount
  <2>2. \A t \in StkTasks :
          /\ stk[t].stage \in Stages /\ stk[t].refs \in 0 .. 2
          /\ stk[t].stack = NoStack <=> stk[t].stage \in {"none", "alloc", "released"}
    BY DEF StkInv, StkTypes, Referenced
  <2>3. /\ cache \in [StkCpus -> [Slots -> Stacks \cup {NoStack}]]
        /\ areas \in SUBSET Stacks /\ lookers \in SUBSET StkTasks
    BY DEF StkInv, StkTypes
  <2>4. StkTypeOK
    BY <2>1, <2>2, <2>3, ZenonT(60) DEF StkTypeOK, StkAccounts, Charged, LoopsBounded
  <2>5. ChargedByOwner BY ZenonT(60) DEF StkAccounts, Charged, Counted, ChargedByOwner
  <2> QED BY <2>4, <2>5, ZenonT(60)
<1>4. StkSpec => [](StkInv /\ StkAccounts) BY <1>1, <1>2, StkAlways, PTL DEF StkSpec
<1>5. StkTypeOK /\ OneOwner /\ ChargedByOwner /\ StackWhileReferenced => StacksSound
  BY DEF StacksSound
<1> QED BY <1>3, <1>4, <1>5, StkOneOwner, StkReferenced, PTL
=============================================================================
