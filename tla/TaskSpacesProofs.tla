------------------------- MODULE TaskSpacesProofs -------------------------
(***************************************************************************)
(* Proofs about set_thread_socket_attrs, for any number of task_structs,   *)
(* of tasks and of arguments; and about whose task_struct the vtask pages  *)
(* show, for any number of tasks, address spaces and pages, and any place  *)
(* of the areas.                                                           *)
(***************************************************************************)
EXTENDS SocketAttrs, Vtask, TLAPS

\* The SMT solver gets a minute for a leaf; a leaf that is better left to Zenon
\* says so.
USE SMTT(60)

VtTypes ==
    /\ space \in [VtTasks -> VtMms \cup {NullSpace}]
    /\ doing \in [VtTasks -> {"user", "mapping", "reading", "told"}]
    /\ ptes = [m \in VtMms |-> ptes[m]] /\ ran = [m \in VtMms |-> ran[m]]
    /\ offset = [t \in VtTasks |-> offset[t]] /\ info = [t \in VtTasks |-> info[t]]

\* A task that runs is one of those that ran on its address space; one that
\* does not is in no call.
RanThere ==
    \A t \in VtTasks : IF VtRunning(t) THEN t \in ran[space[t]] ELSE doing[t] = "user"

\* The pages go with the last task of the address space.
NoPagesLeft == \A m \in VtMms : VtUsers(m) = {} => ptes[m] = {}

PagesOfRan ==
    \A m \in VtMms : \A p \in ptes[m] : p.of \in ran[m] /\ p.what \in {"task", "metadata"}

\* Between the two reads of get_task_struct_info, and after them.
ReadsOwn ==
    \A t \in VtTasks :
        /\ doing[t] = "reading" /\ ran[space[t]] = {t} => offset[t] = Offset[t]
        /\ IF doing[t] = "told" THEN ran[space[t]] = {t} => info[t] = t
           ELSE info[t] = NullSpace

VtInv == VtTypes /\ RanThere /\ NoPagesLeft /\ PagesOfRan /\ ReadsOwn

\* The first task is in exec, on an address space without pages.
LEMMA VtInitially == VtInit => VtInv
<1> SUFFICES ASSUME NEW t \in VtTasks, NEW m \in VtMms, VtStart({t}, m) PROVE VtInv
  BY DEF VtInit
<1> USE DEF VtStart
<1>1. VtTypes BY DEF VtTypes
<1>2. RanThere BY VtAssumption DEF RanThere, VtRunning
<1>0. \A n \in VtMms : ptes[n] = {} OBVIOUS
<1> HIDE DEF VtStart
<1>3. NoPagesLeft /\ PagesOfRan BY <1>0 DEF NoPagesLeft, PagesOfRan
<1>4. ReadsOwn BY DEF ReadsOwn, VtStart
<1> QED BY <1>1, <1>2, <1>3, <1>4 DEF VtInv

\* The steps that leave the tasks, the pages and what was read alone.
LEMMA VtMaps ==
    ASSUME VtInv, NEW t \in VtTasks, MapVdsoOnce(t) \/ MapLocked(t) \/ InfoUsed(t) \/ ReadFails(t)
    PROVE  VtInv'
<1>0. VtTypes /\ RanThere /\ NoPagesLeft /\ PagesOfRan /\ ReadsOwn BY DEF VtInv
<1> USE <1>0
<1>1. /\ UNCHANGED <<space, ptes, ran>>
      /\ \E d \in {"user", "mapping"} : doing' = [doing EXCEPT ![t] = d]
      /\ doing[t] # "told" => UNCHANGED info
      /\ doing[t] = "told" => info' = [info EXCEPT ![t] = NullSpace]
      /\ offset' = offset \/ offset' = [offset EXCEPT ![t] = 0]
      /\ doing[t] # "user" \/ VtRunning(t)
  BY DEF MapVdsoOnce, MapLocked, InfoUsed, ReadFails
<1>2. VtRunning(t) BY <1>1 DEF RanThere
<1>3. VtTypes' BY <1>1 DEF VtTypes
<1>4. RanThere' BY <1>1, <1>2 DEF RanThere, VtRunning, VtTypes
<1>5. NoPagesLeft' /\ PagesOfRan' BY <1>1 DEF NoPagesLeft, PagesOfRan, VtUsers
<1>6. ReadsOwn'
  <2>1. \A u \in VtTasks \ {t} : doing'[u] = doing[u] /\ info'[u] = info[u] /\ offset'[u] = offset[u]
    BY <1>1 DEF VtTypes
  <2>2. doing'[t] \notin {"reading", "told"} BY <1>1 DEF VtTypes
  <2>3. info'[t] = NullSpace BY <1>1 DEF VtTypes, ReadsOwn
  <2> QED BY <1>1, <2>1, <2>2, <2>3 DEF ReadsOwn
<1> QED BY <1>3, <1>4, <1>5, <1>6 DEF VtInv

\* munmap and mremap: pages only go.
LEMMA VtMoves ==
    ASSUME VtInv, NEW t \in VtTasks, Unmap(t) \/ \E a : Mremap(t, a)
    PROVE  VtInv'
<1>0. VtTypes /\ RanThere /\ NoPagesLeft /\ PagesOfRan /\ ReadsOwn BY DEF VtInv
<1> USE <1>0
<1>1. /\ UNCHANGED <<space, doing, offset, info, ran>>
      /\ ptes' = ptes \/ ptes' = [ptes EXCEPT ![space[t]] = {}]
  BY DEF Unmap, Mremap
<1>2. ptes' = [m \in VtMms |-> ptes'[m]] /\ \A m \in VtMms : ptes'[m] \subseteq ptes[m]
  BY <1>1 DEF VtTypes
<1>3. VtTypes' BY <1>1, <1>2 DEF VtTypes
<1>4. RanThere' /\ ReadsOwn' BY <1>1 DEF RanThere, ReadsOwn, VtRunning
<1>5. NoPagesLeft' /\ PagesOfRan' BY <1>1, <1>2 DEF NoPagesLeft, PagesOfRan, VtUsers
<1> QED BY <1>3, <1>4, <1>5 DEF VtInv

\* A fault of vtask_fault brings in a page of the task that faults.
LEMMA VtFaults ==
    ASSUME VtInv, NEW t \in VtTasks, NEW a, NEW o, VtRunning(t), UNCHANGED <<space, ran>>,
           VtaskFault(t, a, o)
    PROVE  /\ space[t] \in VtMms
           /\ ptes' = [m \in VtMms |-> ptes'[m]]
           /\ NoPagesLeft' /\ PagesOfRan'
<1>0. VtTypes /\ RanThere /\ NoPagesLeft /\ PagesOfRan /\ ReadsOwn BY DEF VtInv
<1> USE <1>0
<1>1. space[t] \in VtMms /\ t \in ran[space[t]] BY DEF VtRunning, VtTypes, RanThere
<1>2. PICK new : /\ ptes' = [ptes EXCEPT ![space[t]] = @ \cup new]
                 /\ \A p \in new : p.of = t /\ p.what \in {"task", "metadata"}
  <2> DEFINE w == Page(a.at + o, IF o = VTASK - 1 THEN "metadata" ELSE "task", t)
  <2>1. VtInsert(space[t], {w}) BY DEF VtaskFault
  <2>2. w.of = t /\ w.what \in {"task", "metadata"} BY DEF Page
  <2> HIDE DEF w
  <2> DEFINE n == {p \in {w} : ~Present(space[t], p.at)}
  <2>3. ptes' = [ptes EXCEPT ![space[t]] = @ \cup n] BY <2>1 DEF VtInsert
  <2>4. \A p \in n : p.of = t /\ p.what \in {"task", "metadata"} BY <2>2
  <2> HIDE DEF n
  <2> QED BY <2>3, <2>4, ZenonT(60)
<1>3. ptes' = [m \in VtMms |-> ptes'[m]] BY <1>2, ZenonT(60) DEF VtTypes
<1>4. \A m \in VtMms : m # space[t] => ptes'[m] = ptes[m] BY <1>2 DEF VtTypes
<1>5. ptes'[space[t]] = ptes[space[t]] \cup new BY <1>1, <1>2 DEF VtTypes
<1>6. NoPagesLeft' BY <1>1, <1>4 DEF NoPagesLeft, VtUsers
<1>7. PagesOfRan' BY <1>1, <1>2, <1>4, <1>5 DEF PagesOfRan
<1> QED BY <1>1, <1>3, <1>6, <1>7

\* The two reads of get_task_struct_info.
LEMMA VtReads ==
    ASSUME VtInv, NEW t \in VtTasks, NEW x, ReadMetadata(t, x) \/ ReadPid(t, x)
    PROVE  VtInv'
<1>0. VtTypes /\ RanThere /\ NoPagesLeft /\ PagesOfRan /\ ReadsOwn BY DEF VtInv
<1> USE <1>0
<1>1. CASE ReadMetadata(t, x)
  <2>1. /\ UNCHANGED <<space, ran, info>> /\ VtRunning(t) /\ doing[t] = "user"
        /\ doing' = [doing EXCEPT ![t] = "reading"]
        /\ \E a, o : VtaskFault(t, a, o)
        /\ \E p \in ptes'[space[t]] : offset' = [offset EXCEPT ![t] = Offset[p.of]]
    BY <1>1, ZenonT(60) DEF ReadMetadata
  <2>2. /\ space[t] \in VtMms /\ ptes' = [m \in VtMms |-> ptes'[m]]
        /\ NoPagesLeft' /\ PagesOfRan'
    BY <2>1, VtFaults
  <2>3. VtTypes' BY <2>1, <2>2, ZenonT(60) DEF VtTypes
  <2>4. RanThere' BY <2>1, ZenonT(60) DEF RanThere, VtRunning, VtTypes
  <2>5. ReadsOwn'
    <3>1. \A u \in VtTasks \ {t} : doing'[u] = doing[u] /\ offset'[u] = offset[u]
      BY <2>1 DEF VtTypes
    <3>2. doing'[t] = "reading" /\ info'[t] = NullSpace BY <2>1 DEF VtTypes, ReadsOwn
    <3>3. ran'[space'[t]] = {t} => offset'[t] = Offset[t]
      BY <2>1, <2>2 DEF PagesOfRan, VtTypes
    <3> QED BY <2>1, <3>1, <3>2, <3>3 DEF ReadsOwn
  <2> QED BY <2>2, <2>3, <2>4, <2>5 DEF VtInv
<1>2. CASE ReadPid(t, x)
  <2>1. /\ UNCHANGED <<space, ran>> /\ doing[t] = "reading"
        /\ doing' = [doing EXCEPT ![t] = "told"]
        /\ offset' = [offset EXCEPT ![t] = 0]
        /\ \E a, o : VtaskFault(t, a, o)
        /\ \E p \in ptes'[space[t]] :
              info' = [info EXCEPT ![t] = IF Offset[p.of] = offset[t] THEN p.of ELSE "garbage"]
    BY <1>2, ZenonT(60) DEF ReadPid
  <2>2. VtRunning(t) BY <2>1 DEF RanThere
  <2>3. /\ space[t] \in VtMms /\ ptes' = [m \in VtMms |-> ptes'[m]]
        /\ NoPagesLeft' /\ PagesOfRan'
    BY <2>1, <2>2, VtFaults
  <2>4. VtTypes' BY <2>1, <2>3, ZenonT(60) DEF VtTypes
  <2>5. RanThere' BY <2>1, <2>2, ZenonT(60) DEF RanThere, VtRunning, VtTypes
  <2>6. ReadsOwn'
    <3>1. \A u \in VtTasks \ {t} : doing'[u] = doing[u] /\ offset'[u] = offset[u] /\ info'[u] = info[u]
      BY <2>1, ZenonT(60) DEF VtTypes
    <3>2. doing'[t] = "told" BY <2>1 DEF VtTypes
    <3>3. ASSUME ran'[space'[t]] = {t} PROVE info'[t] = t
      <4>1. offset[t] = Offset[t] BY <2>1, <3>3 DEF ReadsOwn
      <4>2. PICK p \in ptes'[space[t]] :
              info' = [info EXCEPT ![t] = IF Offset[p.of] = offset[t] THEN p.of ELSE "garbage"]
        BY <2>1, ZenonT(60)
      <4>3. p.of = t BY <2>1, <2>3, <3>3, <4>2, ZenonT(60) DEF PagesOfRan
      <4> QED BY <4>1, <4>2, <4>3 DEF VtTypes
    <3> QED BY <2>1, <3>1, <3>2, <3>3 DEF ReadsOwn
  <2> QED BY <2>3, <2>4, <2>5, <2>6 DEF VtInv
<1> QED BY <1>1, <1>2

\* fork: an address space of its own, from which VM_WIPEONFORK keeps the pages.
\* Clone with CLONE_VM: another task on the same one.
LEMMA VtClones ==
    ASSUME VtInv, NEW t \in VtTasks, NEW u \in VtTasks,
           VtCloneVm(t, u) \/ \E n \in VtMms : VtFork(t, u, n)
    PROVE  VtInv'
<1>0. VtTypes /\ RanThere /\ NoPagesLeft /\ PagesOfRan /\ ReadsOwn BY DEF VtInv
<1> USE <1>0
<1>1. PICK n \in VtMms :
        /\ VtRunning(t) /\ ~VtRunning(u) /\ space' = [space EXCEPT ![u] = n]
        /\ UNCHANGED <<doing, offset, info>>
        /\ \/ /\ n = space[t] /\ ptes' = ptes /\ ran' = [ran EXCEPT ![n] = @ \cup {u}]
           \/ /\ VtUsers(n) = {} /\ ptes' = [ptes EXCEPT ![n] = Wiped(ptes[space[t]])]
              /\ ran' = [ran EXCEPT ![n] = {u}]
  <2>1. space[t] \in VtMms \/ ~VtRunning(t) BY DEF VtRunning, VtTypes
  <2>2. CASE VtCloneVm(t, u) BY <2>1, <2>2, ZenonT(60) DEF VtCloneVm
  <2>3. ASSUME NEW n \in VtMms, VtFork(t, u, n)
        PROVE  /\ VtRunning(t) /\ ~VtRunning(u) /\ space' = [space EXCEPT ![u] = n]
               /\ UNCHANGED <<doing, offset, info>>
               /\ VtUsers(n) = {} /\ ptes' = [ptes EXCEPT ![n] = Wiped(ptes[space[t]])]
               /\ ran' = [ran EXCEPT ![n] = {u}]
    BY <2>3, ZenonT(60) DEF VtFork
  <2> QED BY <2>2, <2>3
<1>2. /\ space'[u] = n /\ \A v \in VtTasks \ {u} : space'[v] = space[v]
      /\ n # NullSpace /\ u \in ran'[n]
      /\ \A m \in VtMms \ {n} : ran'[m] = ran[m]
      /\ \A v \in VtTasks : space[v] = n => ran[n] \subseteq ran'[n]
  BY <1>1, VtAssumption DEF VtTypes, VtUsers
<1>3. VtTypes' BY <1>1 DEF VtTypes
<1>4. RanThere'
  <2> SUFFICES ASSUME NEW v \in VtTasks
               PROVE  IF VtRunning(v)' THEN v \in ran'[space'[v]] ELSE doing'[v] = "user"
    BY DEF RanThere
  <2>1. CASE v = u BY <1>1, <1>2, <2>1 DEF VtRunning
  <2>2. CASE v # u
    <3>1. space'[v] = space[v] /\ doing'[v] = doing[v] BY <1>1, <1>2, <2>2
    <3>2. space[v] \in VtMms => ran[space[v]] \subseteq ran'[space[v]] BY <1>2
    <3>3. IF VtRunning(v) THEN v \in ran[space[v]] ELSE doing[v] = "user" BY DEF RanThere
    <3>4. space[v] = NullSpace \/ space[v] \in VtMms BY DEF VtTypes
    <3> QED BY <3>1, <3>2, <3>3, <3>4 DEF VtRunning
  <2> QED BY <2>1, <2>2
<1>5. \A m \in VtMms : ptes'[m] \subseteq ptes[m] \/ m = n BY <1>1 DEF VtTypes
<1>6. NoPagesLeft'
  <2> SUFFICES ASSUME NEW m \in VtMms, VtUsers(m)' = {} PROVE ptes'[m] = {} BY DEF NoPagesLeft
  <2>1. m # n BY <1>2 DEF VtUsers
  <2>2. space[u] = NullSpace BY <1>1 DEF VtRunning
  <2>3. VtUsers(m) = {} BY <1>2, <2>2, VtAssumption DEF VtUsers
  <2> QED BY <1>5, <2>1, <2>3 DEF NoPagesLeft
<1>7. PagesOfRan'
  <2> SUFFICES ASSUME NEW m \in VtMms, NEW p \in ptes'[m] PROVE p.of \in ran'[m] /\ p.what \in {"task", "metadata"}
    BY DEF PagesOfRan
  <2>1. CASE m # n BY <1>2, <1>5, <2>1 DEF PagesOfRan
  <2>2. CASE m = n /\ n = space[t] /\ ptes' = ptes BY <1>2, <2>2 DEF PagesOfRan
  <2>3. CASE m = n /\ ptes' = [ptes EXCEPT ![n] = Wiped(ptes[space[t]])]
    <3>1. space[t] \in VtMms BY <1>1 DEF VtRunning, VtTypes
    <3>2. Wiped(ptes[space[t]]) = {} BY <3>1 DEF Wiped, PagesOfRan
    <3> QED BY <2>3, <3>2, ZenonT(60) DEF VtTypes
  <2> QED BY <1>1, <2>1, <2>2, <2>3
<1>8. ReadsOwn'
  <2> SUFFICES ASSUME NEW v \in VtTasks
      PROVE  /\ doing'[v] = "reading" /\ ran'[space'[v]] = {v} => offset'[v] = Offset[v]
             /\ IF doing'[v] = "told" THEN ran'[space'[v]] = {v} => info'[v] = v
                ELSE info'[v] = NullSpace
    BY ZenonT(60) DEF ReadsOwn
  <2>1. CASE v = u BY <1>1, <2>1, ZenonT(60) DEF ReadsOwn, RanThere
  <2>2. CASE v # u /\ ~VtRunning(v) BY <1>1, <2>2, ZenonT(60) DEF ReadsOwn, RanThere
  <2>3. CASE v # u /\ VtRunning(v)
    <3>1. v \in ran[space[v]] /\ space[v] \in VtMms /\ space'[v] = space[v]
      BY <1>2, <2>3 DEF RanThere, VtRunning, VtTypes
    <3>2. ran'[space'[v]] = {v} => ran[space[v]] = {v} BY <1>2, <3>1
    <3> QED BY <1>1, <3>2 DEF ReadsOwn
  <2> QED BY <2>1, <2>2, <2>3
<1> QED BY <1>3, <1>4, <1>6, <1>7, <1>8 DEF VtInv

\* exit and exec: the pages go with the last task.
LEMMA VtLeaves ==
    ASSUME VtInv, NEW t \in VtTasks, VtExit(t) \/ \E n \in VtMms : VtExec(t, n)
    PROVE  VtInv'
<1>0. VtTypes /\ RanThere /\ NoPagesLeft /\ PagesOfRan /\ ReadsOwn BY DEF VtInv
<1> USE <1>0
<1>1. PICK n \in VtMms \cup {NullSpace} :
        /\ VtRunning(t) /\ doing[t] = "user" /\ space' = [space EXCEPT ![t] = n]
        /\ ptes' = VtLeft(t, ptes, {})
        /\ UNCHANGED <<offset, info>>
        /\ \/ n = NullSpace /\ doing' = doing /\ ran' = VtLeft(t, ran, {})
           \/ /\ n \in VtMms /\ VtUsers(n) = {} /\ doing' = [doing EXCEPT ![t] = "mapping"]
              /\ ran' = [VtLeft(t, ran, {}) EXCEPT ![n] = {t}]
  BY DEF VtExit, VtExec
<1>2. space[t] \in VtMms /\ n # space[t] BY <1>1, VtAssumption DEF VtRunning, VtTypes, VtUsers
<1>3. /\ space'[t] = n /\ \A v \in VtTasks \ {t} : space'[v] = space[v]
      /\ doing'[t] \in {"user", "mapping"} /\ \A v \in VtTasks \ {t} : doing'[v] = doing[v]
      /\ n = NullSpace => doing'[t] = "user"
  BY <1>1, VtAssumption DEF VtTypes
<1>4. /\ ptes' = [m \in VtMms |-> ptes'[m]] /\ ran' = [m \in VtMms |-> ran'[m]]
      /\ \A m \in VtMms \ {space[t]} : ptes'[m] = ptes[m]
      /\ \A m \in VtMms \ {space[t], n} : ran'[m] = ran[m]
      /\ n \in VtMms => ran'[n] = {t}
      /\ VtUsers(space[t]) = {t} => ptes'[space[t]] = {}
      /\ VtUsers(space[t]) # {t} => ptes'[space[t]] = ptes[space[t]] /\ ran'[space[t]] = ran[space[t]]
  BY <1>1, <1>2, VtAssumption, ZenonT(60) DEF VtLeft, VtTypes
<1>5. VtTypes' BY <1>1, <1>4, ZenonT(60) DEF VtTypes
<1>6. \A v \in VtTasks \ {t} : VtRunning(v) =>
        space'[v] \in VtMms /\ space'[v] = space[v] /\ ran'[space'[v]] = ran[space[v]]
  BY <1>1, <1>2, <1>3, <1>4 DEF VtRunning, VtTypes, VtUsers
<1>7. RanThere' BY <1>1, <1>3, <1>4, <1>6 DEF RanThere, VtRunning
<1>8. NoPagesLeft'
  <2> SUFFICES ASSUME NEW m \in VtMms, VtUsers(m)' = {} PROVE ptes'[m] = {} BY DEF NoPagesLeft
  <2>1. CASE m = space[t] /\ VtUsers(m) = {t} BY <1>4, <2>1
  <2>2. CASE m = space[t] /\ VtUsers(m) # {t}
    <3>1. PICK v \in VtTasks \ {t} : space[v] = m BY <2>2 DEF VtUsers
    <3> QED BY <1>3, <3>1, ZenonT(60) DEF VtUsers
  <2>3. CASE m # space[t]
    <3>1. VtUsers(m) = {} BY <1>3, <2>3 DEF VtUsers
    <3> QED BY <1>4, <2>3, <3>1, ZenonT(60) DEF NoPagesLeft
  <2> QED BY <2>1, <2>2, <2>3
<1>9. PagesOfRan'
  <2> SUFFICES ASSUME NEW m \in VtMms, NEW p \in ptes'[m] PROVE p.of \in ran'[m] /\ p.what \in {"task", "metadata"}
    BY DEF PagesOfRan
  <2>1. CASE m = space[t] BY <1>4, <2>1, ZenonT(60) DEF PagesOfRan
  <2>2. CASE m = n
    <3>1. VtUsers(n) = {} BY <1>1, <2>2, VtAssumption
    <3> QED BY <1>2, <1>4, <2>2, <3>1 DEF NoPagesLeft
  <2>3. CASE m \notin {space[t], n} BY <1>4, <2>3, ZenonT(60) DEF PagesOfRan
  <2> QED BY <2>1, <2>2, <2>3
<1>10. ReadsOwn'
  <2> SUFFICES ASSUME NEW v \in VtTasks
      PROVE  /\ doing'[v] = "reading" /\ ran'[space'[v]] = {v} => offset'[v] = Offset[v]
             /\ IF doing'[v] = "told" THEN ran'[space'[v]] = {v} => info'[v] = v
                ELSE info'[v] = NullSpace
    BY ZenonT(60) DEF ReadsOwn
  <2>1. CASE v = t BY <1>1, <1>3, <2>1, ZenonT(60) DEF ReadsOwn
  <2>2. CASE v # t /\ ~VtRunning(v) BY <1>1, <1>3, <2>2, ZenonT(60) DEF ReadsOwn, RanThere
  <2>3. CASE v # t /\ VtRunning(v) BY <1>1, <1>3, <1>6, <2>3 DEF ReadsOwn
  <2> QED BY <2>1, <2>2, <2>3, ZenonT(60)
<1> QED BY <1>5, <1>7, <1>8, <1>9, <1>10 DEF VtInv

\* The inductive invariant holds of every behaviour.
LEMMA VtAlways == VtSpec => []VtInv
<1>1. VtInv /\ [VtNext]_vtVars => VtInv'
  <2> SUFFICES ASSUME VtInv, [VtNext]_vtVars PROVE VtInv' OBVIOUS
  <2>1. CASE UNCHANGED vtVars
    BY <2>1, ZenonT(60) DEF vtVars, VtInv, VtTypes, RanThere, NoPagesLeft, PagesOfRan, ReadsOwn, VtRunning, VtUsers
  <2> QED BY <2>1, VtMaps, VtMoves, VtReads, VtClones, VtLeaves, ZenonT(60) DEF VtNext
<1> QED BY <1>1, VtInitially, PTL DEF VtSpec

\* No process reads a task_struct of another through its vtask area, whatever
\* forks, clones, execs, exits and mremaps there were; and in a process that
\* always had one thread, get_task_struct_info gives the pid of the caller,
\* although its two reads are apart.
THEOREM VtSafe == VtSpec => []TaskPages
<1>1. VtInv => TaskPages
  BY DEF VtInv, PagesOfRan, PagesOfOwnTasks, ReadsOwn, InfoWhenAlone, TaskPages
<1> QED BY <1>1, VtAlways, PTL

-----------------------------------------------------------------------------
\* What is true of a call in progress: the caller runs; the target is the task
\* it named; until it holds a reference, the target still holds its own.
CallValid(s) ==
    /\ state[s] = "running" /\ call[s].task \in Slots
    /\ state[call[s].task] # "free" /\ gen[call[s].task] = call[s].gen
    /\ ~call[s].byPid => call[s].task = s
    /\ pc[s] = "found" => call[s].byPid /\ state[call[s].task] \in {"running", "dead"}

CallsValid == \A s \in Slots : pc[s] # "user" => CallValid(s)

AttrInv == AttrTypeOK /\ UsageExact /\ FreedWhenUnused /\ CallsValid

\* What the proofs use of the cardinality of a set of task_structs.
SlotsCount ==
    \A S \in SUBSET Slots :
        /\ Cardinality(S) \in Nat /\ (Cardinality(S) = 0 <=> S = {})
        /\ \A r \in Slots \ S : Cardinality(S \cup {r}) = Cardinality(S) + 1

\* A call that gets a reference, and one that puts it.
LEMMA OneMore ==
    ASSUME SlotsCount, NEW S \in SUBSET Slots, NEW r \in Slots \ S, NEW T, T = S \cup {r}
    PROVE  /\ Cardinality(S) \in Nat /\ Cardinality(T) = Cardinality(S) + 1
           /\ (Cardinality(S) = 0 <=> S = {})
BY DEF SlotsCount

\* The references that calls hold on a task can be counted.
LEMMA HoldersCount ==
    ASSUME SlotsCount, NEW s
    PROVE  /\ Holders(s) \in SUBSET Slots /\ Cardinality(Holders(s)) \in Nat
           /\ (Cardinality(Holders(s)) = 0 <=> Holders(s) = {})
<1>1. Holders(s) \subseteq Slots BY ZenonT(60) DEF Holders
<1> QED BY <1>1 DEF SlotsCount

\* A call whose target stays is still valid.
LEMMA CallKept ==
    ASSUME NEW r \in Slots, CallValid(r), state'[r] = "running",
           call'[r].task = call[r].task, call'[r].gen = call[r].gen, call'[r].byPid = call[r].byPid,
           gen'[call[r].task] = gen[call[r].task], state'[call[r].task] # "free",
           pc'[r] = "found" => pc[r] = "found" /\ state'[call[r].task] \in {"running", "dead"}
    PROVE  CallValid(r)'
BY ZenonT(60) DEF CallValid

\* What a valid call says.
LEMMA CallSays ==
    ASSUME NEW r \in Slots, CallValid(r)
    PROVE  /\ state[r] = "running" /\ call[r].task \in Slots /\ state[call[r].task] # "free"
           /\ ~call[r].byPid => call[r].task = r
           /\ pc[r] = "found" => call[r].byPid /\ state[call[r].task] \in {"running", "dead"}
BY DEF CallValid

\* fork, exit, and the put after the grace period.
LEMMA AttrTasks ==
    ASSUME AttrInv, SlotsCount, NEW s \in Slots, NEW c \in Slots,
           Fork(s, c) \/ Exit(s) \/ DelayedPut(s)
    PROVE  AttrInv'
<1>1. UNCHANGED <<pc, call>> BY DEF Fork, Exit, DelayedPut
<1>2. AttrTypeOK /\ UsageExact /\ FreedWhenUnused /\ CallsValid BY DEF AttrInv
<1>3. /\ state \in [Slots -> {"free", "running", "dead", "put"}] /\ usage \in [Slots -> Nat]
      /\ gen \in [Slots -> Nat] /\ pc \in [Slots -> PCs]
  BY <1>2 DEF AttrTypeOK
<1>4. ASSUME NEW r \in Slots, pc'[r] # "user"
      PROVE  CallValid(r) /\ pc[r] \in {"found", "perm", "max", "level", "out"}
  BY <1>1, <1>2, <1>3, <1>4, ZenonT(60) DEF CallsValid, PCs
<1>5. \A x : Holders(x)' = Holders(x) BY <1>1 DEF Holders
<1>6. \A x \in Slots : Cardinality(Holders(x)) \in Nat BY HoldersCount
<1>7. CASE Fork(s, c)
  <2>1. /\ state[c] = "free" /\ state'[c] = "running" /\ usage'[c] = 1
        /\ \A z \in Slots \ {c} : usage'[z] = usage[z] /\ state'[z] = state[z] /\ gen'[z] = gen[z]
    BY <1>3, <1>7, ZenonT(60) DEF Fork
  <2>2. AttrTypeOK' BY <1>1, <1>2, <1>7 DEF AttrTypeOK, Fork
  <2>3. ASSUME NEW r \in Slots, pc'[r] # "user" PROVE r # c /\ call[r].task # c
    BY <1>4, <2>1, <2>3, CallSays
  <2>4. Holders(c) = {} BY <1>1, <2>3, ZenonT(60) DEF Holders
  <2>5. UsageExact'
    <3>1. Cardinality(Holders(c)') = 0 BY <1>5, <2>4, HoldersCount, ZenonT(60)
    <3> QED BY <1>2, <1>5, <2>1, <3>1 DEF UsageExact
  <2>6. FreedWhenUnused' BY <1>2, <2>1 DEF FreedWhenUnused
  <2>7. CallsValid'
    <3> SUFFICES ASSUME NEW r \in Slots, pc'[r] # "user" PROVE CallValid(r)'
      BY ZenonT(60) DEF CallsValid
    <3>1. r # c /\ call[r].task # c /\ CallValid(r) BY <1>4, <2>3, ZenonT(60)
    <3> QED BY <1>1, <2>1, <3>1, CallSays, CallKept
  <2> QED BY <2>2, <2>5, <2>6, <2>7, ZenonT(60) DEF AttrInv
<1>8. CASE Exit(s)
  <2>1. /\ state[s] = "running" /\ pc[s] = "user" /\ state'[s] = "dead" /\ UNCHANGED <<usage, gen>>
        /\ \A z \in Slots \ {s} : state'[z] = state[z]
    BY <1>3, <1>8 DEF Exit
  <2>2. AttrTypeOK' BY <1>1, <1>2, <1>8, ZenonT(60) DEF AttrTypeOK, Exit, attrs
  <2>3. UsageExact' BY <1>2, <1>5, <2>1, ZenonT(60) DEF UsageExact
  <2>4. FreedWhenUnused' BY <1>2, <2>1, ZenonT(60) DEF FreedWhenUnused
  <2>5. CallsValid'
    <3> SUFFICES ASSUME NEW r \in Slots, pc'[r] # "user" PROVE CallValid(r)'
      BY DEF CallsValid
    <3>1. r # s /\ CallValid(r) BY <1>1, <1>4, <2>1
    <3> QED BY <1>1, <2>1, <3>1, CallSays, CallKept
  <2> QED BY <2>2, <2>3, <2>4, <2>5 DEF AttrInv
<1>9. CASE DelayedPut(s)
  <2>1. /\ state[s] = "dead" /\ RcuReaders(s) = {} /\ gen' = gen
        /\ usage'[s] = usage[s] - 1 /\ state'[s] = IF usage[s] = 1 THEN "free" ELSE "put"
        /\ \A z \in Slots \ {s} : usage'[z] = usage[z] /\ state'[z] = state[z]
    BY <1>3, <1>9, ZenonT(60) DEF DelayedPut
  <2>2. usage[s] = Cardinality(Holders(s)) + 1 BY <1>2, <2>1, ZenonT(60) DEF UsageExact
  <2>3. AttrTypeOK'
    <3>1. usage[s] - 1 \in Nat BY <1>6, <2>2
    <3> QED BY <1>1, <1>2, <1>9, <3>1 DEF AttrTypeOK, DelayedPut, attrs
  <2>4. UsageExact' BY <1>2, <1>5, <1>6, <2>1, <2>2 DEF UsageExact
  <2>5. FreedWhenUnused' BY <1>2, <1>6, <2>1, <2>2 DEF FreedWhenUnused
  <2>6. CallsValid'
    <3> SUFFICES ASSUME NEW r \in Slots, pc'[r] # "user" PROVE CallValid(r)'
      BY DEF CallsValid
    <3>1. CallValid(r) /\ pc[r] \in {"found", "perm", "max", "level", "out"} BY <1>4
    <3>2. r # s BY <2>1, <3>1, CallSays, ZenonT(60)
    <3>3. CASE call[r].task # s BY <1>1, <2>1, <3>1, <3>2, <3>3, CallSays, CallKept
    <3>4. CASE call[r].task = s
      <4>1. pc[r] # "found" /\ r \in Holders(s)
        BY <2>1, <3>1, <3>2, <3>4, CallSays, ZenonT(60) DEF Holders, RcuReaders
      <4>2. usage[s] # 1 BY <1>6, <2>2, <4>1, HoldersCount
      <4> QED BY <1>1, <2>1, <3>1, <3>2, <3>4, <4>1, <4>2, CallSays, CallKept, ZenonT(60)
    <3> QED BY <3>3, <3>4, ZenonT(60)
  <2> QED BY <2>3, <2>4, <2>5, <2>6 DEF AttrInv
<1> QED BY <1>7, <1>8, <1>9, ZenonT(60)

\* A call begins: on the caller itself, or on a task found by its pid.
LEMMA AttrCalls ==
    ASSUME AttrInv, NEW s \in Slots, NEW x \in Slots, NEW a \in Args,
           CallOnSelf(s, a) \/ Find(s, x, a)
    PROVE  AttrInv'
<1>1. PICK to \in {"perm", "found"}, y \in Slots, by \in BOOLEAN :
        /\ state[s] = "running" /\ state[y] = "running" /\ pc[s] = "user"
        /\ pc' = [pc EXCEPT ![s] = to]
        /\ call' = [call EXCEPT ![s] = [task |-> y, gen |-> gen[y], byPid |-> by, args |-> a]]
        /\ UNCHANGED <<created, state, usage, gen, max_socket_allowed, priority_level>>
        /\ ~by => y = s
        /\ to = "found" <=> by
  <2>1. CASE CallOnSelf(s, a) BY <2>1, ZenonT(60) DEF CallOnSelf, Goto, attrs
  <2>2. CASE Find(s, x, a) BY <2>2, ZenonT(60) DEF Find, Goto, attrs
  <2> QED BY <2>1, <2>2
<1>2. AttrTypeOK /\ UsageExact /\ FreedWhenUnused /\ CallsValid BY DEF AttrInv
<1>3. gen[y] \in Nat /\ pc \in [Slots -> PCs] /\ call \in [Slots -> CallRecord]
  BY <1>2, ZenonT(60) DEF AttrTypeOK
<1>4. [task |-> y, gen |-> gen[y], byPid |-> by, args |-> a] \in CallRecord
  BY <1>3, AttrsAssumption, ZenonT(60) DEF CallRecord
<1>5. /\ pc'[s] = to /\ \A r \in Slots \ {s} : pc'[r] = pc[r] /\ call'[r] = call[r]
      /\ call'[s].task = y /\ call'[s].gen = gen[y] /\ call'[s].byPid = by
  BY <1>1, <1>3, ZenonT(60)
<1>6. AttrTypeOK' BY <1>1, <1>2, <1>4 DEF AttrTypeOK, PCs
<1>7. ASSUME NEW z PROVE Holders(z)' = Holders(z)
  <2>1. s \notin Holders(z) BY <1>1, ZenonT(60) DEF Holders
  <2>2. s \notin Holders(z)' BY <1>1, <1>5, ZenonT(60) DEF Holders
  <2>3. \A r \in Slots \ {s} : r \in Holders(z)' <=> r \in Holders(z) BY <1>5 DEF Holders
  <2>4. Holders(z) \subseteq Slots /\ Holders(z)' \subseteq Slots BY ZenonT(60) DEF Holders
  <2> QED BY <2>1, <2>2, <2>3, <2>4
<1>8. UsageExact' BY <1>1, <1>2, <1>7, ZenonT(60) DEF UsageExact
<1>9. FreedWhenUnused' BY <1>1, <1>2 DEF FreedWhenUnused
<1>10. CallsValid'
  <2> SUFFICES ASSUME NEW r \in Slots, pc'[r] # "user" PROVE CallValid(r)'
    BY ZenonT(60) DEF CallsValid
  <2>1. CASE r = s BY <1>1, <1>5, <2>1, ZenonT(60) DEF CallValid
  <2>2. CASE r # s
    <3>1. CallValid(r) BY <1>2, <1>5, <2>2 DEF CallsValid
    <3> QED BY <1>1, <1>5, <2>2, <3>1, CallSays, CallKept
  <2> QED BY <2>1, <2>2
<1> QED BY <1>6, <1>8, <1>9, <1>10, ZenonT(60) DEF AttrInv

\* get_task_struct.
LEMMA AttrGets ==
    ASSUME AttrInv, SlotsCount, NEW s \in Slots, Get(s)
    PROVE  AttrInv'
<1>1. AttrTypeOK /\ UsageExact /\ FreedWhenUnused /\ CallsValid BY ZenonT(60) DEF AttrInv
<1>2. /\ CallValid(s) /\ call[s].byPid /\ call[s].task \in Slots
      /\ state[call[s].task] \in {"running", "dead"}
  <2>1. pc[s] = "found" BY DEF Get, Goto
  <2>2. CallValid(s) BY <1>1, <2>1 DEF CallsValid
  <2> QED BY <2>1, <2>2, CallSays, ZenonT(60)
<1> PICK x \in Slots : x = call[s].task BY <1>2
<1>3. /\ pc[s] = "found" /\ pc'[s] = "perm" /\ \A r \in Slots \ {s} : pc'[r] = pc[r]
      /\ usage[x] \in Nat /\ usage'[x] = usage[x] + 1
      /\ \A z \in Slots \ {x} : usage'[z] = usage[z]
      /\ UNCHANGED <<created, state, gen, call, max_socket_allowed, priority_level>>
  BY <1>1, ZenonT(60) DEF Get, Goto, attrs, AttrTypeOK
<1>4. Holders(x)' = Holders(x) \cup {s} /\ s \notin Holders(x)
  BY <1>2, <1>3, ZenonT(60) DEF Holders
<1>5. ASSUME NEW z \in Slots \ {x} PROVE Holders(z)' = Holders(z) BY <1>3, ZenonT(60) DEF Holders
<1>6. Cardinality(Holders(x)) \in Nat /\ Cardinality(Holders(x)') = Cardinality(Holders(x)) + 1
  BY <1>4, HoldersCount, OneMore
<1>7. AttrTypeOK' BY <1>1 DEF AttrTypeOK, PCs, Get, Goto, attrs
<1>8. UsageExact' BY <1>1, <1>3, <1>5, <1>6 DEF UsageExact
<1>9. FreedWhenUnused' BY <1>1, <1>2, <1>3 DEF FreedWhenUnused
<1>10. CallsValid'
  <2> SUFFICES ASSUME NEW r \in Slots, pc'[r] # "user" PROVE CallValid(r)'
    BY ZenonT(60) DEF CallsValid
  <2>1. CallValid(r) BY <1>1, <1>2, <1>3 DEF CallsValid
  <2> QED BY <1>2, <1>3, <2>1, CallSays, CallKept
<1> QED BY <1>7, <1>8, <1>9, <1>10 DEF AttrInv

\* The permission check and the two stores: a call that goes on keeps its
\* target and its reference.
LEMMA AttrStores ==
    ASSUME AttrInv, NEW s \in Slots, CheckPermission(s) \/ SetMax(s) \/ SetLevel(s)
    PROVE  AttrInv'
<1>1. /\ pc[s] \in {"perm", "max", "level"}
      /\ \E to \in {"max", "level", "out"} : pc' = [pc EXCEPT ![s] = to]
      /\ UNCHANGED <<created, state, usage, gen>>
  BY ZenonT(60) DEF CheckPermission, SetMax, SetLevel, Goto
<1>2. call' = call \/ call' = [call EXCEPT ![s].args = <<0, 0>>]
  BY DEF CheckPermission, SetMax, SetLevel, Forget
<1>3. AttrTypeOK /\ UsageExact /\ FreedWhenUnused /\ CallsValid BY ZenonT(60) DEF AttrInv
<1>4. CallValid(s) /\ call[s].task \in Slots
  <2>1. CallValid(s) BY <1>1, <1>3 DEF CallsValid
  <2> QED BY <2>1, CallSays
<1>5. call \in [Slots -> CallRecord] BY <1>3 DEF AttrTypeOK
<1>6. ASSUME NEW r \in Slots
      PROVE  /\ call'[r].task = call[r].task /\ call'[r].gen = call[r].gen
             /\ call'[r].byPid = call[r].byPid /\ call'[r] \in CallRecord
  BY <1>2, <1>5 DEF CallRecord
<1>7. call' \in [Slots -> CallRecord] BY <1>2, <1>5, <1>6
<1>8. /\ max_socket_allowed' \in [Slots -> {m \in Int : m >= -1}]
      /\ priority_level' \in [Slots -> 0..100]
  <2>1. call[s].args[1] \in Int /\ call[s].args[2] \in Int BY <1>5 DEF CallRecord
  <2>2. /\ max_socket_allowed \in [Slots -> {m \in Int : m >= -1}]
        /\ priority_level \in [Slots -> 0..100]
    BY <1>3 DEF AttrTypeOK
  <2>3. CASE CheckPermission(s) BY <2>2, <2>3, ZenonT(60) DEF CheckPermission, attrs
  <2>4. CASE SetMax(s) BY <1>4, <2>1, <2>2, <2>4, ZenonT(60) DEF SetMax
  <2>5. CASE SetLevel(s)
    <3> DEFINE level == IF call[s].args[2] \in 0..100 THEN call[s].args[2]
                        ELSE priority_level[call[s].task]
    <3>1. level \in 0..100 BY <1>4, <2>2
    <3>2. /\ priority_level' = [priority_level EXCEPT ![call[s].task] = level]
          /\ UNCHANGED max_socket_allowed
      BY <2>5, ZenonT(60) DEF SetLevel
    <3> HIDE DEF level
    <3> QED BY <1>4, <2>2, <3>1, <3>2, ZenonT(60)
  <2> QED BY <2>3, <2>4, <2>5
<1>9. pc \in [Slots -> PCs] BY <1>3 DEF AttrTypeOK
<1>10. pc' \in [Slots -> PCs] BY <1>1, <1>9 DEF PCs
<1>11. AttrTypeOK' BY <1>1, <1>3, <1>7, <1>8, <1>10, ZenonT(60) DEF AttrTypeOK
<1>12. ASSUME NEW z PROVE Holders(z)' = Holders(z)
  <2> DEFINE Working == {"perm", "max", "level", "out"}
  <2>1. \A r \in Slots : pc'[r] \in Working <=> pc[r] \in Working BY <1>1, <1>9
  <2> QED BY <1>6, <2>1 DEF Holders
<1>13. UsageExact' BY <1>1, <1>3, <1>12, ZenonT(60) DEF UsageExact
<1>14. FreedWhenUnused' BY <1>1, <1>3, ZenonT(60) DEF FreedWhenUnused
<1>15. CallsValid'
  <2> SUFFICES ASSUME NEW r \in Slots, pc'[r] # "user" PROVE CallValid(r)'
    BY ZenonT(60) DEF CallsValid
  <2>1. CallValid(r) /\ (pc'[r] = "found" => pc[r] = "found")
    BY <1>1, <1>3, <1>4, <1>9, ZenonT(60) DEF CallsValid
  <2> QED BY <1>1, <1>6, <2>1, CallSays, CallKept, ZenonT(60)
<1> QED BY <1>11, <1>13, <1>14, <1>15, ZenonT(60) DEF AttrInv

\* out: the reference is put, and the task_struct freed with the last one.
LEMMA AttrPuts ==
    ASSUME AttrInv, SlotsCount, NEW s \in Slots, Out(s)
    PROVE  AttrInv'
<1>1. AttrTypeOK /\ UsageExact /\ FreedWhenUnused /\ CallsValid BY DEF AttrInv
<1>2. /\ pc[s] = "out" /\ pc' = [pc EXCEPT ![s] = "user"] /\ call' = [call EXCEPT ![s] = NoCall]
      /\ UNCHANGED <<created, gen, max_socket_allowed, priority_level>>
  BY DEF Out, Goto, attrs
<1>3. CallValid(s) BY <1>1, <1>2, ZenonT(60) DEF CallsValid
<1> PICK x \in Slots : x = call[s].task BY <1>3, CallSays
<1>4. /\ state \in [Slots -> {"free", "running", "dead", "put"}] /\ usage \in [Slots -> Nat]
      /\ pc \in [Slots -> PCs] /\ call \in [Slots -> CallRecord]
  BY <1>1 DEF AttrTypeOK
<1>5. pc'[s] = "user" /\ \A r \in Slots \ {s} : pc'[r] = pc[r] /\ call'[r] = call[r]
  BY <1>2, <1>4
<1>6. pc' \in [Slots -> PCs] /\ call' \in [Slots -> CallRecord]
  <2>1. NoCall \in CallRecord BY DEF NoCall, CallRecord
  <2>2. "user" \in PCs BY DEF PCs
  <2> QED BY <1>2, <1>4, <2>1, <2>2, ZenonT(60)
<1>7. CASE ~call[s].byPid
  <2>1. UNCHANGED <<state, usage>> BY <1>7, ZenonT(60) DEF Out
  <2>2. AttrTypeOK' BY <1>1, <1>2, <1>6, <2>1 DEF AttrTypeOK
  <2>3. \A z : Holders(z)' = Holders(z) BY <1>2, <1>5, <1>7, ZenonT(60) DEF Holders
  <2>4. UsageExact' /\ FreedWhenUnused' BY <1>1, <2>1, <2>3, ZenonT(60) DEF UsageExact, FreedWhenUnused
  <2>5. CallsValid'
    <3> SUFFICES ASSUME NEW r \in Slots, pc'[r] # "user" PROVE CallValid(r)'
      BY ZenonT(60) DEF CallsValid
    <3>1. r # s /\ CallValid(r) BY <1>1, <1>5, ZenonT(60) DEF CallsValid
    <3> QED BY <1>2, <1>5, <2>1, <3>1, CallSays, CallKept
  <2> QED BY <2>2, <2>4, <2>5 DEF AttrInv
<1>8. CASE call[s].byPid
  <2>1. /\ usage' = [usage EXCEPT ![x] = @ - 1]
        /\ state' = [state EXCEPT ![x] = IF usage[x] = 1 THEN "free" ELSE @]
    BY <1>8, ZenonT(60) DEF Out, PutTask
  <2>2. /\ usage'[x] = usage[x] - 1 /\ state'[x] = IF usage[x] = 1 THEN "free" ELSE state[x]
        /\ \A z \in Slots \ {x} : usage'[z] = usage[z] /\ state'[z] = state[z]
    BY <1>4, <2>1
  <2>3. s \in Holders(x) /\ Holders(x)' = Holders(x) \ {s} BY <1>2, <1>5, <1>8, ZenonT(60) DEF Holders
  <2>4. \A z \in Slots \ {x} : Holders(z)' = Holders(z) BY <1>5 DEF Holders
  <2>5. /\ Cardinality(Holders(x)) \in Nat /\ Cardinality(Holders(x)') \in Nat
        /\ Cardinality(Holders(x)) = Cardinality(Holders(x)') + 1
        /\ (Cardinality(Holders(x)') = 0 <=> Holders(x)' = {})
    <3> HIDE DEF Holders
    <3>1. /\ Holders(x)' \in SUBSET Slots /\ s \in Slots \ Holders(x)'
          /\ Holders(x) = Holders(x)' \cup {s}
      BY <2>3, HoldersCount
    <3>2. Cardinality(Holders(x)) \in Nat BY HoldersCount
    <3> QED BY <3>1, <3>2, OneMore, ZenonT(60)
  <2>6. /\ usage[x] = Cardinality(Holders(x)) + (IF state[x] \in {"running", "dead"} THEN 1 ELSE 0)
        /\ usage[x] \in Nat /\ usage[x] >= 1
    BY <1>1, <2>5 DEF UsageExact
  <2>7. AttrTypeOK'
    <3>1. usage' \in [Slots -> Nat] BY <1>4, <2>1, <2>6
    <3>2. state' \in [Slots -> {"free", "running", "dead", "put"}] BY <1>4, <2>1
    <3> QED BY <1>1, <1>2, <1>6, <3>1, <3>2, ZenonT(60) DEF AttrTypeOK
  <2>8. UsageExact'
    <3>1. usage'[x] = Cardinality(Holders(x)') + (IF state'[x] \in {"running", "dead"} THEN 1 ELSE 0)
      BY <2>2, <2>5, <2>6
    <3>2. \A z \in Slots \ {x} :
            usage'[z] = Cardinality(Holders(z)') + (IF state'[z] \in {"running", "dead"} THEN 1 ELSE 0)
      BY <1>1, <2>2, <2>4 DEF UsageExact
    <3> QED BY <3>1, <3>2, ZenonT(60) DEF UsageExact
  <2>9. FreedWhenUnused' BY <1>1, <2>2, <2>6 DEF FreedWhenUnused
  <2>10. CallsValid'
    <3> SUFFICES ASSUME NEW r \in Slots, pc'[r] # "user" PROVE CallValid(r)'
      BY DEF CallsValid
    <3>1. /\ r # s /\ pc'[r] = pc[r] /\ call'[r] = call[r]
          /\ CallValid(r) /\ pc[r] \in {"found", "perm", "max", "level", "out"}
      BY <1>1, <1>4, <1>5, ZenonT(60) DEF CallsValid, PCs
    <3>2. usage[x] = 1 => state[x] \notin {"running", "dead"} /\ Holders(x)' = {}
      BY <2>5, <2>6
    <3>3. CASE call[r].task = x /\ usage[x] = 1
      <4>1. r \in Holders(x)' BY <2>3, <3>1, <3>2, <3>3, CallSays DEF Holders
      <4> QED BY <3>2, <3>3, <4>1, ZenonT(60)
    <3>4. CASE call[r].task # x \/ usage[x] # 1
      <4>1. state'[call[r].task] = state[call[r].task] /\ state'[r] = state[r]
        BY <2>2, <3>1, <3>2, <3>4, CallSays, ZenonT(60)
      <4> QED BY <1>2, <3>1, <4>1, CallSays, CallKept, ZenonT(60)
    <3> QED BY <3>3, <3>4
  <2> QED BY <2>7, <2>8, <2>9, <2>10 DEF AttrInv
<1> QED BY <1>7, <1>8, ZenonT(60)

-----------------------------------------------------------------------------
INSTANCE FiniteSetTheorems

\* There are finitely many task_structs.
LEMMA SlotsCounted == SlotsCount
<1> SUFFICES ASSUME NEW S \in SUBSET Slots
             PROVE  /\ Cardinality(S) \in Nat /\ (Cardinality(S) = 0 <=> S = {})
                    /\ \A r \in Slots \ S : Cardinality(S \cup {r}) = Cardinality(S) + 1
  BY DEF SlotsCount
<1>1. IsFiniteSet(S) BY AttrsAssumption, FS_Subset, ZenonT(60)
<1> QED BY <1>1, FS_CardinalityType, FS_EmptySet, FS_AddElement, ZenonT(60)

\* The first task runs and no call is in progress.
LEMMA AttrInitially == AttrInit => AttrInv
<1> SUFFICES ASSUME NEW r \in Slots, AttrStart({r}) PROVE AttrInv BY ZenonT(60) DEF AttrInit
<1>1. \A s \in Slots : pc[s] = "user" BY ZenonT(60) DEF AttrStart
<1>2. AttrTypeOK
  <2>0. Cardinality({r}) = 1 BY FS_Singleton, ZenonT(60)
  <2>1. created \in Nat BY <2>0 DEF AttrStart
  <2>2. call \in [Slots -> CallRecord]
    BY DEF AttrStart, NoCall, CallRecord
  <2> QED BY <2>1, <2>2 DEF AttrTypeOK, AttrStart, PCs
<1>3. UsageExact
  <2>1. \A s \in Slots : Holders(s) = {} BY <1>1, ZenonT(60) DEF Holders
  <2> QED BY <2>1, FS_EmptySet DEF UsageExact, AttrStart
<1>4. FreedWhenUnused BY DEF FreedWhenUnused, AttrStart
<1> QED BY <1>1, <1>2, <1>3, <1>4, ZenonT(60) DEF AttrInv, CallsValid

\* The inductive invariant holds of every behaviour.
LEMMA AttrAlways == AttrSpec => []AttrInv
<1>1. AttrInv /\ [AttrNext]_attrVars => AttrInv'
  <2> SUFFICES ASSUME AttrInv, [AttrNext]_attrVars PROVE AttrInv' OBVIOUS
  <2>1. CASE UNCHANGED attrVars
    BY <2>1 DEF attrVars, AttrInv, AttrTypeOK, UsageExact, Holders, FreedWhenUnused,
               CallsValid, CallValid
  <2> QED BY <2>1, SlotsCounted, AttrTasks, AttrCalls, AttrGets, AttrStores, AttrPuts, ZenonT(60) DEF AttrNext
<1> QED BY <1>1, AttrInitially, PTL DEF AttrSpec

\* Every store of set_thread_socket_attrs reaches the task that the pid named and
\* the call puts every reference it takes, for every number of task_structs,
\* tasks and calls at a time.
THEOREM AttrSafe == AttrSpec => []AttrSound
<1>1. AttrInv => AttrSound BY DEF AttrInv, CallsValid, CallValid, TargetStays, AttrSound
<1> QED BY <1>1, AttrAlways, PTL
=============================================================================
