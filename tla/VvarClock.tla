----------------------------- MODULE VvarClock -----------------------------
(***************************************************************************)
(* The clock pages of an address space and time namespaces                 *)
(* (arch/x86/entry/vdso/vma.c): vvar_fault inserts the page of the         *)
(* namespace of the task that faults, for every task that shares the       *)
(* address space, and vdso_join_timens clears the pages again when a task  *)
(* changes its namespace.  The hypervisor's clock pages hold no namespace  *)
(* and are one page here.  unshare and setns are external.                 *)
(***************************************************************************)
EXTENDS FiniteSets

CONSTANTS
    CkTasks,    \* tasks
    CkMms,      \* address spaces
    NoSpace,    \* the address space of a task that does not run
    RootNs,     \* the initial time namespace
    TimeNs      \* the other time namespaces

ASSUME ClockAssumption ==
    /\ NoSpace \notin CkMms
    /\ RootNs \notin TimeNs

VARIABLES
    runsOn,     \* task -> its mm
    timens,     \* task -> nsproxy->time_ns
    kidsNs,     \* task -> nsproxy->time_ns_for_children
    clock       \* mm -> slot -> the page there: a namespace's own, the real
                \* vvar page, the hypervisor's, or "none"

ckVars == <<runsOn, timens, kidsNs, clock>>

ClockPages == {"vvar", "pvclock", "timens"}

Cleared == [s \in ClockPages |-> "none"]

\* The tasks in T run on m.
CkStart(T, m) ==
    /\ runsOn = [u \in CkTasks |-> IF u \in T THEN m ELSE NoSpace]
    /\ timens = [u \in CkTasks |-> RootNs]
    /\ kidsNs = [u \in CkTasks |-> RootNs]
    /\ clock = [n \in CkMms |-> Cleared]

CkInit == \E t \in CkTasks, m \in CkMms : CkStart({t}, m)

Users(m) == {t \in CkTasks : runsOn[t] = m}

Running(t) == runsOn[t] # NoSpace

-----------------------------------------------------------------------------
\* vmf_insert_pfn (external) leaves a page that is there.
Insert(pages, s, page) == IF pages[s] = "none" THEN [pages EXCEPT ![s] = page] ELSE pages

\* vvar_fault on the first page: in a time namespace the namespace's page goes
\* there, and the real one, which it refers to, is brought in with it.
FaultVvar(t) ==
    LET m == runsOn[t] IN
    /\ Running(t) /\ clock[m]["vvar"] = "none"
    /\ clock' = [clock EXCEPT ![m] =
         IF timens[t] = RootNs THEN Insert(@, "vvar", "real")
         ELSE Insert(Insert(@, "timens", "real"), "vvar", timens[t])]
    /\ UNCHANGED <<runsOn, timens, kidsNs>>

FaultPvclock(t) ==
    LET m == runsOn[t] IN
    /\ Running(t) /\ clock[m]["pvclock"] = "none"
    /\ clock' = [clock EXCEPT ![m] = Insert(@, "pvclock", "hypervisor")]
    /\ UNCHANGED <<runsOn, timens, kidsNs>>

\* SIGBUS in the initial namespace.
FaultTimens(t) ==
    LET m == runsOn[t] IN
    /\ Running(t) /\ clock[m]["timens"] = "none"
    /\ timens[t] # RootNs
    /\ clock' = [clock EXCEPT ![m] = Insert(@, "timens", "real")]
    /\ UNCHANGED <<runsOn, timens, kidsNs>>

\* vdso_join_timens clears the whole area.
Zapped(pages) == Cleared

-----------------------------------------------------------------------------
\* fork copies the pages, and copy_namespaces lets the child join the namespace
\* for children when that is another one.
CkFork(t, u, m) ==
    /\ Running(t) /\ ~Running(u) /\ Users(m) = {}
    /\ runsOn' = [runsOn EXCEPT ![u] = m]
    /\ timens' = [timens EXCEPT ![u] = kidsNs[t]]
    /\ kidsNs' = [kidsNs EXCEPT ![u] = kidsNs[t]]
    /\ clock' = [clock EXCEPT ![m] =
         IF kidsNs[t] = timens[t] THEN clock[runsOn[t]] ELSE Zapped(clock[runsOn[t]])]

\* Mutant: a child of another namespace may share the address space.
MayShareVm_Always(t) == TRUE

\* copy_process: not for a child that will be in another time namespace.
MayShareVm(t) == timens[t] = kidsNs[t]

CkCloneVm(t, u) ==
    /\ Running(t) /\ ~Running(u) /\ MayShareVm(t)
    /\ runsOn' = [runsOn EXCEPT ![u] = runsOn[t]]
    /\ timens' = [timens EXCEPT ![u] = kidsNs[t]]
    /\ kidsNs' = [kidsNs EXCEPT ![u] = kidsNs[t]]
    /\ UNCHANGED clock

\* What a task that leaves its address space leaves there.
Left(t) == [m \in CkMms |-> IF Users(m) = {t} THEN Cleared ELSE clock[m]]

CkExit(t) ==
    /\ Running(t) /\ \E u \in CkTasks \ {t} : Running(u)
    /\ runsOn' = [runsOn EXCEPT ![t] = NoSpace]
    /\ clock' = Left(t)
    /\ timens' = [timens EXCEPT ![t] = RootNs]
    /\ kidsNs' = [kidsNs EXCEPT ![t] = RootNs]

CkExec(t, m) ==
    /\ Running(t) /\ Users(m) = {}
    /\ runsOn' = [runsOn EXCEPT ![t] = m]
    /\ clock' = Left(t)
    /\ UNCHANGED <<timens, kidsNs>>

UnshareTime(t, ns) ==
    /\ Running(t) /\ ns # kidsNs[t]
    /\ kidsNs' = [kidsNs EXCEPT ![t] = ns]
    /\ UNCHANGED <<runsOn, timens, clock>>

\* setns: the task must be alone on its address space.
SetnsTime(t, ns) ==
    /\ Running(t) /\ ns # timens[t] /\ Users(runsOn[t]) = {t}
    /\ timens' = [timens EXCEPT ![t] = ns]
    /\ kidsNs' = [kidsNs EXCEPT ![t] = ns]
    /\ clock' = [clock EXCEPT ![runsOn[t]] = Zapped(@)]
    /\ UNCHANGED runsOn

CkNext ==
    \E t \in CkTasks :
        \/ FaultVvar(t)
        \/ FaultPvclock(t)
        \/ FaultTimens(t)
        \/ \E u \in CkTasks : CkCloneVm(t, u) \/ \E m \in CkMms : CkFork(t, u, m)
        \/ CkExit(t)
        \/ \E m \in CkMms : CkExec(t, m)
        \/ \E ns \in TimeNs : UnshareTime(t, ns)
        \/ \E ns \in TimeNs \cup {RootNs} : SetnsTime(t, ns)

CkSpec == CkInit /\ [][CkNext]_ckVars

-----------------------------------------------------------------------------
(* Properties.                                                             *)

\* Every variable has its type; an address space nobody uses has no pages, and
\* a task that does not run is in no namespace of its own.
CkTypeOK ==
    /\ runsOn \in [CkTasks -> CkMms \cup {NoSpace}]
    /\ timens \in [CkTasks -> TimeNs \cup {RootNs}]
    /\ kidsNs \in [CkTasks -> TimeNs \cup {RootNs}]
    /\ clock \in [CkMms -> [ClockPages -> {"none", "real", "hypervisor"} \cup TimeNs]]
    /\ \A m \in CkMms : Users(m) = {} => clock[m] = Cleared

\* The clock pages of an address space are those of the time namespace of every
\* task on it, whatever faults, setns, fork and clone came before: a task never
\* reads the offsets of a namespace it is not in.
ClockOfNamespace ==
    \A t \in CkTasks : Running(t) =>
        clock[runsOn[t]]["vvar"] \in {"none", IF timens[t] = RootNs THEN "real" ELSE timens[t]}

\* In the initial namespace there is no second clock page, and in another one
\* the page of the namespace is never there without the real one it adds its
\* offsets to.
OffsetsHaveBase ==
    \A t \in CkTasks : Running(t) =>
        IF timens[t] = RootNs THEN clock[runsOn[t]]["timens"] = "none"
        ELSE clock[runsOn[t]]["vvar"] # "none" => clock[runsOn[t]]["timens"] = "real"

\* The pages that a task's clock is read from are those of its time namespace,
\* whoever faulted them in.
ClocksRight == CkTypeOK /\ ClockOfNamespace /\ OffsetsHaveBase
=============================================================================
