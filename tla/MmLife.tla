------------------------------- MODULE MmLife -------------------------------
(***************************************************************************)
(* The life of an mm_struct in kernel/fork.c: mm_users, mm_count, the work *)
(* item that both mmput_async and mmdrop_async use, dup_mm with its        *)
(* failures, and the reference to the module of the binary format.         *)
(***************************************************************************)
EXTENDS Integers, FiniteSets

CONSTANTS MmTasks,   \* memory for tasks
          MmMem,     \* memory for mm_structs
          NullMm     \* NULL

VARIABLES users,     \* mm_users
          count,     \* mm_count
          stage,     \* none; live; put: mm_users is zero, __mmput to come
          work,      \* async_put_work: idle, mmput or mmdrop
          mm,        \* mm[t]: task->mm
          activeMm,  \* activeMm[t]: the mm a task without one runs on
          seen,      \* seen[t]: the mm that t got from get_task_mm
          dup,       \* dup[t]: the mm that a fork of t is building
          fresh,     \* tasks whose fork has not succeeded yet
          oom,       \* mms that are the oom_mm of a signal_struct
          binfmt,    \* mms whose binfmt is set
          modRefs,   \* references to the module of the binary format
          going      \* that module is being unloaded

refVars == <<users, count, stage, work>>
mmVars == <<refVars, mm, activeMm, seen, dup, fresh, oom, binfmt, modRefs, going>>

Holding(f, m) == {t \in MmTasks : f[t] = m}

\* The tasks in T run on m.
MmStart(T, m) ==
    /\ users = [x \in MmMem |-> IF x = m THEN Cardinality(T) ELSE 0]
    /\ count = [x \in MmMem |-> IF x = m THEN 1 ELSE 0]
    /\ stage = [x \in MmMem |-> IF x = m THEN "live" ELSE "none"]
    /\ mm = [x \in MmTasks |-> IF x \in T THEN m ELSE NullMm]
    /\ binfmt = MmMem \cap {m}
    /\ work = [x \in MmMem |-> "idle"]
    /\ activeMm = [t \in MmTasks |-> NullMm]
    /\ seen = activeMm /\ dup = activeMm
    /\ oom = {} /\ fresh = {} /\ modRefs = Cardinality(binfmt) /\ going = FALSE

MmInit == \E m \in MmMem, t \in MmTasks : MmStart({t}, m)

Runs(t) == mm[t] # NullMm /\ dup[t] = NullMm /\ t \notin fresh
Unborn(t) == mm[t] = NullMm /\ activeMm[t] = NullMm /\ seen[t] = NullMm

----------------------------------------------------------------------------
\* Giving references back.

\* mmdrop: __mmdrop when the last reference goes; mmdrop_async leaves that to
\* the work item.
Mmdrop(m, async) ==
    /\ count' = [count EXCEPT ![m] = @ - 1]
    /\ work' = IF count[m] = 1 /\ async THEN [work EXCEPT ![m] = "mmdrop"]
               ELSE work
    /\ stage' = IF count[m] = 1 /\ ~async THEN [stage EXCEPT ![m] = "none"]
                ELSE stage

\* Mutant: the reference of the users goes with the last of them.
Mmput_DropsCount(m, async, grabbed) ==
    /\ users' = [users EXCEPT ![m] = @ - 1]
    /\ count' = [count EXCEPT ![m] = @ + grabbed - IF users[m] = 1 THEN 1 ELSE 0]
    /\ stage' = IF users[m] = 1 THEN [stage EXCEPT ![m] = "put"] ELSE stage
    /\ work' = IF users[m] = 1 /\ async THEN [work EXCEPT ![m] = "mmput"]
               ELSE work

\* mmput: __mmput when the last user goes, which sleeps; mmput_async leaves
\* it to the work item. The caller may just have grabbed the mm_struct.
Mmput(m, async, grabbed) ==
    /\ users' = [users EXCEPT ![m] = @ - 1]
    /\ count' = [count EXCEPT ![m] = @ + grabbed]
    /\ stage' = IF users[m] = 1 THEN [stage EXCEPT ![m] = "put"] ELSE stage
    /\ work' = IF users[m] = 1 /\ async THEN [work EXCEPT ![m] = "mmput"]
               ELSE work

\* __mmput to its end: exit_mmap, module_put, mmdrop.
FinishMmput(m) ==
    /\ stage[m] = "put"
    /\ modRefs' = modRefs - IF m \in binfmt THEN 1 ELSE 0
    /\ binfmt' = binfmt \ {m}
    /\ count' = [count EXCEPT ![m] = @ - 1]
    /\ work' = [work EXCEPT ![m] = "idle"]
    /\ stage' = [stage EXCEPT ![m] = IF count[m] = 1 THEN "none" ELSE "dropped"]
    /\ UNCHANGED <<users, mm, activeMm, seen, dup, oom, fresh, going>>

\* mmdrop_async_fn.
MmdropAsyncFn(m) ==
    /\ work[m] = "mmdrop"
    /\ work' = [work EXCEPT ![m] = "idle"]
    /\ stage' = [stage EXCEPT ![m] = "none"]
    /\ UNCHANGED <<users, count, mm, activeMm, seen, dup, oom, binfmt,
                   modRefs, fresh, going>>

----------------------------------------------------------------------------
\* Taking and using them.

\* copy_mm with CLONE_VM.
MmCloneVm(t, u) ==
    /\ Runs(t) /\ Unborn(u) /\ fresh' = fresh \cup {u}
    /\ mm' = [mm EXCEPT ![u] = mm[t]]
    /\ users' = [users EXCEPT ![mm[t]] = @ + 1]
    /\ UNCHANGED <<count, stage, work, activeMm, seen, dup, oom, binfmt,
                   modRefs, going>>

\* mm_init: mm_users and mm_count start at one.
Initialised(f, n) == [f EXCEPT ![n] = 1]

\* dup_mm: the mm_struct is copied and mm_init sets the counts. When the
\* page directory or the context cannot be had it is freed again at once.
DupMm(t, n) ==
    /\ Runs(t) /\ stage[n] = "none"
    /\ dup' = [dup EXCEPT ![t] = n]
    /\ users' = Initialised(users, n) /\ count' = Initialised(count, n)
    /\ stage' = [stage EXCEPT ![n] = "live"]
    /\ binfmt' = IF mm[t] \in binfmt THEN binfmt \cup {n} ELSE binfmt
    /\ UNCHANGED <<work, mm, activeMm, seen, oom, modRefs, fresh, going>>

\* dup_mmap fails, or the module is going away: free_pt, which forgets the
\* binfmt whose module it has no reference to.
DupMmFails(t) ==
    /\ dup[t] # NullMm /\ dup' = [dup EXCEPT ![t] = NullMm]
    /\ binfmt' = binfmt \ {dup[t]}
    /\ Mmput(dup[t], FALSE, 0)
    /\ UNCHANGED <<mm, activeMm, seen, oom, modRefs, fresh, going>>

\* dup_mm returns and copy_mm gives the mm to the child.
DupMmDone(t, u) ==
    /\ dup[t] # NullMm /\ Unborn(u) /\ fresh' = fresh \cup {u}
    /\ dup[t] \in binfmt => ~going
    /\ modRefs' = modRefs + IF dup[t] \in binfmt THEN 1 ELSE 0
    /\ mm' = [mm EXCEPT ![u] = dup[t]]
    /\ dup' = [dup EXCEPT ![t] = NullMm]
    /\ UNCHANGED <<refVars, activeMm, seen, oom, binfmt, going>>

\* copy_process fails after copy_mm: bad_fork_cleanup_mm.
BadForkMm(t) ==
    /\ t \in fresh /\ fresh' = fresh \ {t}
    /\ mm' = [mm EXCEPT ![t] = NullMm]
    /\ Mmput(mm[t], FALSE, 0)
    /\ UNCHANGED <<activeMm, seen, dup, oom, binfmt, modRefs, going>>

\* The fork succeeds and the child runs.
WakeUpNewTask(t) ==
    /\ t \in fresh /\ fresh' = fresh \ {t}
    /\ UNCHANGED <<refVars, mm, activeMm, seen, dup, oom, binfmt, modRefs,
                   going>>

\* exit_mm keeps the mm_struct for the lazy TLB and puts the mm.
ExitMm(t) ==
    /\ Runs(t) /\ seen[t] = NullMm
    /\ mm' = [mm EXCEPT ![t] = NullMm]
    /\ activeMm' = [activeMm EXCEPT ![t] = mm[t]]
    /\ Mmput(mm[t], FALSE, 1)
    /\ UNCHANGED <<seen, dup, oom, binfmt, modRefs, fresh, going>>

\* A task without an mm stops running on the one it borrowed.
LeaveLazy(t) ==
    /\ activeMm[t] # NullMm
    /\ activeMm' = [activeMm EXCEPT ![t] = NullMm]
    /\ Mmdrop(activeMm[t], FALSE)
    /\ UNCHANGED <<users, mm, seen, dup, oom, binfmt, modRefs, fresh, going>>

\* mm_alloc for an exec: the task gives up the mm it had.
ExecMm(t, n) ==
    /\ Runs(t) /\ stage[n] = "none" /\ ~going
    /\ mm' = [mm EXCEPT ![t] = n]
    /\ users' = [Initialised(users, n) EXCEPT ![mm[t]] = @ - 1]
    /\ count' = Initialised(count, n)
    /\ stage' = [stage EXCEPT ![n] = "live",
                              ![mm[t]] = IF users[mm[t]] = 1 THEN "put" ELSE @]
    /\ binfmt' = binfmt \cup {n} /\ modRefs' = modRefs + 1
    /\ UNCHANGED <<work, activeMm, seen, dup, oom, fresh, going>>

\* get_task_mm, of /proc, ptrace and mm_access.
GetTaskMm(r, t) ==
    /\ seen[r] = NullMm /\ mm[t] # NullMm /\ Runs(r)
    /\ seen' = [seen EXCEPT ![r] = mm[t]]
    /\ users' = [users EXCEPT ![mm[t]] = @ + 1]
    /\ UNCHANGED <<count, stage, work, mm, activeMm, dup, oom, binfmt,
                   modRefs, fresh, going>>

\* The reader puts the mm; so does mm_access when access is denied.
PutSeen(r, async) ==
    /\ seen[r] # NullMm /\ seen' = [seen EXCEPT ![r] = NullMm]
    /\ Mmput(seen[r], async, 0)
    /\ UNCHANGED <<mm, activeMm, dup, oom, binfmt, modRefs, fresh, going>>

\* The OOM killer remembers the victim's mm in its signal_struct.
MarkOomVictim(t) ==
    /\ Runs(t) /\ mm[t] \notin oom
    /\ oom' = oom \cup {mm[t]}
    /\ count' = [count EXCEPT ![mm[t]] = @ + 1]
    /\ UNCHANGED <<users, stage, work, mm, activeMm, seen, dup, binfmt,
                   modRefs, fresh, going>>

\* free_signal_struct, once no task of the process is left.
FreeSignalStruct(m) ==
    /\ m \in oom /\ Holding(mm, m) = {} /\ oom' = oom \ {m}
    /\ Mmdrop(m, TRUE)
    /\ UNCHANGED <<users, mm, activeMm, seen, dup, binfmt, modRefs, fresh, going>>

\* The module of the binary format starts to be unloaded; that waits until
\* nobody has a reference to it.
UnloadFormat ==
    /\ ~going /\ modRefs = 0 /\ going' = TRUE
    /\ UNCHANGED <<refVars, mm, activeMm, seen, dup, oom, binfmt, modRefs, fresh>>

MmNext ==
    \/ \E m \in MmMem :
        FinishMmput(m) \/ MmdropAsyncFn(m) \/ FreeSignalStruct(m)
    \/ \E t \in MmTasks :
        \/ DupMmFails(t) \/ BadForkMm(t) \/ WakeUpNewTask(t) \/ ExitMm(t) \/ LeaveLazy(t)
        \/ MarkOomVictim(t)
        \/ \E async \in BOOLEAN : PutSeen(t, async)
        \/ \E n \in MmMem : DupMm(t, n) \/ ExecMm(t, n)
        \/ \E u \in MmTasks : MmCloneVm(t, u) \/ DupMmDone(t, u) \/ GetTaskMm(t, u)
    \/ UnloadFormat

----------------------------------------------------------------------------
\* Every variable has its type, and an mm_struct that was freed has no counts
\* and no work item pending.
MmTypeOK ==
    /\ users \in [MmMem -> Nat] /\ count \in [MmMem -> Nat]
    /\ stage \in [MmMem -> {"none", "live", "put", "dropped"}]
    /\ work \in [MmMem -> {"idle", "mmput", "mmdrop"}]
    /\ {mm, activeMm, seen, dup} \subseteq [MmTasks -> MmMem \cup {NullMm}]
    /\ modRefs \in Nat /\ going \in BOOLEAN
    /\ \A m \in MmMem : stage[m] = "none" =>
           users[m] = 0 /\ count[m] = 0 /\ work[m] = "idle"

\* mm_users is the number of tasks that run in the mm, forks that build it
\* and readers that got it, and while there is one the address space has not
\* been torn down.
UsersExact ==
    \A m \in MmMem :
        /\ users[m] = Cardinality(Holding(mm, m)) + Cardinality(Holding(seen, m))
                      + Cardinality(Holding(dup, m))
        /\ users[m] > 0 <=> stage[m] = "live"

\* mm_count is one for all users together, until the end of __mmput, plus
\* one for each task that runs on the mm lazily and for oom_mm; an mm_struct
\* nobody refers to is freed or about to be by its work item.
CountExact ==
    \A m \in MmMem :
        /\ count[m] = (IF stage[m] \in {"live", "put"} THEN 1 ELSE 0)
                      + Cardinality(Holding(activeMm, m))
                      + (IF m \in oom THEN 1 ELSE 0)
        /\ stage[m] # "none" /\ count[m] = 0 <=> work[m] = "mmdrop"

\* The module of the binary format has one reference for each mm that has it
\* as its binfmt, except one that a fork is still building; so it is not
\* unloaded under a running program, nor kept for ever by a failed fork.
BinfmtExact ==
    /\ modRefs = Cardinality({m \in binfmt : Holding(dup, m) = {}})
    /\ going => modRefs = 0

\* The three counts of an mm are exact, in whatever order its users, its lazy
\* users, the OOM killer and failing forks let go of it.
MmCountsExact == MmTypeOK /\ UsersExact /\ CountExact /\ BinfmtExact
=============================================================================
