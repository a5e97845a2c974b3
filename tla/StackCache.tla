----------------------------- MODULE StackCache -----------------------------
(***************************************************************************)
(* Kernel stacks in kernel/fork.c: the per-CPU cache of vmalloced stacks,  *)
(* the memory-cgroup charge of their pages, dup_task_struct with its       *)
(* failures, and the reference counts that delay the release.              *)
(*                                                                         *)
(* A loop over the cache runs with preemption enabled, so every iteration  *)
(* may be on another CPU. CPUs go offline and come back.                   *)
(***************************************************************************)
EXTENDS Integers, FiniteSets

CONSTANTS StkTasks,   \* memory for task_structs
          StkCpus,    \* CPUs
          Stacks,     \* memory for stacks
          NrCached,   \* NR_CACHED_STACKS
          StkPages,   \* THREAD_SIZE / PAGE_SIZE
          NoStack     \* NULL

ASSUME StkAssumption ==
    /\ NoStack \notin Stacks /\ IsFiniteSet(StkTasks)
    /\ NrCached \in Nat /\ StkPages \in Nat

Slots == 1 .. NrCached

VARIABLES cache,      \* cached_stacks[i] of each CPU
          online,     \* CPUs that run tasks
          areas,      \* stacks that are vmalloc areas
          charged,    \* pages of each stack charged to a cgroup
          kstacks,    \* NR_KERNEL_STACK_KB, in stacks
          stk,        \* stk[t]: stack, stack_refcount, task_struct's stage and
                      \* the index of the loop over the cache
          lookers     \* tasks whose stack another task holds a reference to

stkVars == <<cache, online, areas, charged, kstacks, stk, lookers>>

NoTask == [stack |-> NoStack, refs |-> 0, stage |-> "none", i |-> 0]

\* failed and free_stack: the failure label of dup_task_struct; releasing:
\* release_task_stack.
Stages == {"none", "alloc", "charge", "dup", "running", "dead",
           "failed", "free_stack", "releasing", "released"}

StkInit ==
    /\ cache = [c \in StkCpus |-> [i \in Slots |-> NoStack]]
    /\ online = StkCpus
    /\ charged = [s \in Stacks |-> 0]
    /\ areas = {} /\ kstacks = 0 /\ lookers = {}
    /\ stk = [t \in StkTasks |-> NoTask]

\* dup_task_struct: a task_struct is allocated.
AllocTaskStruct(t) ==
    /\ stk[t].stage = "none"
    /\ stk' = [stk EXCEPT ![t] = [NoTask EXCEPT !.i = 1, !.stage = "alloc"]]
    /\ UNCHANGED <<cache, online, areas, charged, kstacks, lookers>>

\* alloc_thread_stack_node: one iteration takes whatever the slot holds on
\* the CPU it runs on.
TakeSlot(t, c) ==
    LET i == stk[t].i IN
    /\ stk[t].stage = "alloc" /\ i \in Slots /\ c \in online
    /\ cache' = [cache EXCEPT ![c][i] = NoStack]
    /\ stk' = IF cache[c][i] = NoStack THEN [stk EXCEPT ![t].i = i + 1]
              ELSE [stk EXCEPT ![t].stack = cache[c][i], ![t].stage = "charge"]
    /\ UNCHANGED <<online, areas, charged, kstacks, lookers>>

\* alloc_thread_stack_node: nothing was cached, so a stack is vmalloced; when
\* that fails the task_struct is freed.
Vmalloc(t) ==
    /\ stk[t].stage = "alloc" /\ stk[t].i \notin Slots
    /\ \/ \E s \in Stacks \ areas :
            /\ areas' = areas \cup {s}
            /\ stk' = [stk EXCEPT ![t].stack = s, ![t].stage = "charge"]
       \/ /\ stk' = [stk EXCEPT ![t] = NoTask]
          /\ UNCHANGED areas
    /\ UNCHANGED <<cache, online, charged, kstacks, lookers>>

\* memcg_charge_kernel_stack: a charge that fails leaves the pages before it
\* charged.
ChargeStack(t, n) ==
    /\ stk[t].stage = "charge"
    /\ charged' = [charged EXCEPT ![stk[t].stack] = n]
    /\ stk' = [stk EXCEPT ![t].stage =
                  IF n = StkPages THEN "dup" ELSE "failed"]
    /\ UNCHANGED <<cache, online, areas, kstacks, lookers>>

AccountKernelStack(n) == kstacks' = kstacks + n

\* Mutant: the fields that arch_dup_task_struct clobbered are not restored.
DupTaskStruct_Clobbered(t, orig) ==
    /\ stk[t].stage = "dup" /\ stk[orig].stage = "running"
    /\ stk' = [stk EXCEPT ![t] = [stk[orig] EXCEPT !.refs = 1]]
    /\ AccountKernelStack(1)
    /\ UNCHANGED <<cache, online, areas, charged, lookers>>

\* dup_task_struct after the charge: the task_struct is overwritten by its
\* parent's, then the stack fields and the reference count are set again.
DupTaskStruct(t, orig) ==
    /\ stk[t].stage = "dup" /\ stk[orig].stage = "running"
    /\ stk' = [stk EXCEPT ![t] =
                  [stk[orig] EXCEPT !.stack = stk[t].stack, !.refs = 1]]
    /\ AccountKernelStack(1)
    /\ UNCHANGED <<cache, online, areas, charged, lookers>>

\* The first task has no parent that the model follows.
FirstTaskStruct(t) ==
    /\ stk[t].stage = "dup" /\ \A u \in StkTasks : stk[u].stage # "running"
    /\ stk' = [stk EXCEPT ![t].refs = 1, ![t].stage = "running", ![t].i = 0]
    /\ AccountKernelStack(1)
    /\ UNCHANGED <<cache, online, areas, charged, lookers>>

\* dup_task_struct: arch_dup_task_struct or scs_prepare fails.
DupFails(t) ==
    /\ stk[t].stage = "dup"
    /\ stk' = [stk EXCEPT ![t].stage = "failed"]
    /\ UNCHANGED <<cache, online, areas, charged, kstacks, lookers>>

\* free_thread_stack uncharges every page; one that was never charged is
\* ignored.
StartFree(t, next) ==
    /\ charged' = [charged EXCEPT ![stk[t].stack] = 0]
    /\ stk' = [stk EXCEPT ![t].refs = 0, ![t].stage = next, ![t].i = 1]

FailedDup(t) ==
    /\ stk[t].stage = "failed"
    /\ StartFree(t, "free_stack")
    /\ UNCHANGED <<cache, online, areas, kstacks, lookers>>

\* bad_fork_free, or the task's last schedule.
StkExit(t) ==
    /\ stk[t].stage = "running"
    /\ stk' = [stk EXCEPT ![t].stage = "dead"]
    /\ UNCHANGED <<cache, online, areas, charged, kstacks, lookers>>

\* Another task, say a reader of /proc/pid/stack, takes a reference to the
\* stack of a task whose task_struct it holds.
TryGetTaskStack(t) ==
    /\ stk[t].stage \in {"running", "dead"} /\ stk[t].refs > 0
    /\ t \notin lookers
    /\ stk' = [stk EXCEPT ![t].refs = @ + 1]
    /\ lookers' = lookers \cup {t}
    /\ UNCHANGED <<cache, online, areas, charged, kstacks>>

\* put_task_stack: the last reference releases the stack. release_task_stack
\* rather leaks the stack of a task that is not dead.
PutTaskStack(t) ==
    IF stk[t].refs = 1 /\ stk[t].stage = "dead"
    THEN /\ StartFree(t, "releasing")
         /\ AccountKernelStack(-1)
    ELSE /\ stk' = [stk EXCEPT ![t].refs = @ - 1]
         /\ UNCHANGED <<charged, kstacks>>

\* The reference of the task itself goes once the task is dead.
PutOwn(t) ==
    /\ stk[t].stage = "dead"
    /\ stk[t].refs = IF t \in lookers THEN 2 ELSE 1
    /\ PutTaskStack(t)
    /\ UNCHANGED <<cache, online, areas, lookers>>

PutLooker(t) ==
    /\ t \in lookers /\ lookers' = lookers \ {t}
    /\ PutTaskStack(t)
    /\ UNCHANGED <<cache, online, areas>>

\* free_thread_stack: one iteration puts the stack in the slot when that is
\* empty on the CPU it runs on. tsk->stack is set to NULL, or, after a failed
\* duplication, the task_struct is freed.
GiveSlot(t, c) ==
    LET i == stk[t].i IN
    /\ stk[t].stage \in {"free_stack", "releasing"} /\ i \in Slots
    /\ c \in online
    /\ IF cache[c][i] = NoStack
       THEN /\ cache' = [cache EXCEPT ![c][i] = stk[t].stack]
            /\ stk' = [stk EXCEPT ![t] =
                          IF stk[t].stage = "free_stack" THEN NoTask
                          ELSE [NoTask EXCEPT !.stage = "released"]]
       ELSE /\ stk' = [stk EXCEPT ![t].i = i + 1]
            /\ UNCHANGED cache
    /\ UNCHANGED <<online, areas, charged, kstacks, lookers>>

\* free_thread_stack: every slot was taken, so the stack is vfreed.
VfreeAtomic(t) ==
    /\ stk[t].stage \in {"free_stack", "releasing"} /\ stk[t].i = NrCached + 1
    /\ areas' = areas \ {stk[t].stack}
    /\ stk' = [stk EXCEPT ![t] = IF stk[t].stage = "free_stack" THEN NoTask
                                 ELSE [NoTask EXCEPT !.stage = "released"]]
    /\ UNCHANGED <<cache, online, charged, kstacks, lookers>>

\* free_task, by whoever drops the last reference to the task_struct; a
\* reference to the stack is only held along with one to the task_struct.
FreeTask(t) ==
    /\ stk[t].stage = "released" /\ t \notin lookers
    /\ stk' = [stk EXCEPT ![t] = NoTask]
    /\ UNCHANGED <<cache, online, areas, charged, kstacks, lookers>>

\* free_vm_stack_cache, after the CPU has stopped running tasks.
FreeVmStackCache(c) ==
    /\ c \in online /\ online # {c} /\ online' = online \ {c}
    /\ areas' = areas \ {cache[c][i] : i \in Slots}
    /\ cache' = [cache EXCEPT ![c] = [i \in Slots |-> NoStack]]
    /\ UNCHANGED <<charged, kstacks, stk, lookers>>

CpuUp(c) ==
    /\ c \notin online /\ online' = online \cup {c}
    /\ UNCHANGED <<cache, areas, charged, kstacks, stk, lookers>>

StkNext ==
    \/ \E t \in StkTasks :
        \/ AllocTaskStruct(t) \/ Vmalloc(t) \/ DupFails(t) \/ FailedDup(t)
        \/ FirstTaskStruct(t) \/ StkExit(t) \/ TryGetTaskStack(t) \/ PutOwn(t)
        \/ PutLooker(t) \/ VfreeAtomic(t) \/ FreeTask(t)
        \/ \E c \in StkCpus : TakeSlot(t, c) \/ GiveSlot(t, c)
        \/ \E n \in 0 .. StkPages : ChargeStack(t, n)
        \/ \E orig \in StkTasks \ {t} : DupTaskStruct(t, orig)
    \/ \E c \in StkCpus : FreeVmStackCache(c) \/ CpuUp(c)

StkSpec == StkInit /\ [][StkNext]_stkVars

----------------------------------------------------------------------------
\* The fields of every task_struct have their types, and a task has a stack
\* from the moment alloc_thread_stack_node gave it one until
\* free_thread_stack took it away.
StkTypeOK ==
    /\ cache \in [StkCpus -> [Slots -> Stacks \cup {NoStack}]]
    /\ online \in SUBSET StkCpus /\ areas \in SUBSET Stacks
    /\ charged \in [Stacks -> 0 .. StkPages] /\ kstacks \in Nat
    /\ lookers \in SUBSET StkTasks
    /\ \A t \in StkTasks :
        /\ stk[t].stage \in Stages /\ stk[t].refs \in 0 .. 2
        /\ stk[t].i \in 0 .. NrCached + 1
        /\ (stk[t].stack = NoStack) <=>
               (stk[t].stage \in {"none", "alloc", "released"})

Owners(s) == {t \in StkTasks : stk[t].stack = s}
CachedAt(s) == {p \in StkCpus \X Slots : cache[p[1]][p[2]] = s}

\* Every vmalloced stack is in exactly one place, one task or one slot of one
\* CPU's cache, and no place holds a stack that was vfreed: whatever CPU each
\* iteration of the loops over cached_stacks ran on, and although
\* arch_dup_task_struct copies the parent's stack fields to the child.
OneOwner ==
    \A s \in Stacks :
        Cardinality(Owners(s)) + Cardinality(CachedAt(s)) =
            IF s \in areas THEN 1 ELSE 0

\* No page is still charged to a cgroup when its stack is cached or vfreed,
\* the stack of a running task is charged in full, and NR_KERNEL_STACK_KB
\* counts the tasks whose stack was not released.
ChargedByOwner ==
    /\ \A s \in Stacks : Owners(s) = {} => charged[s] = 0
    /\ \A t \in StkTasks : stk[t].stage \in {"running", "dead"} =>
           charged[stk[t].stack] = StkPages
    /\ kstacks = Cardinality({t \in StkTasks :
                                  stk[t].stage \in {"running", "dead"}})

\* A task that holds a reference to a stack can read it: the stack was not
\* put in the cache or vfreed meanwhile, and the WARN_ON_ONCE of free_task
\* about stack_refcount never fires.
StackWhileReferenced ==
    /\ \A t \in lookers : stk[t].stack # NoStack
    /\ \A t \in StkTasks : stk[t].stage = "released" => stk[t].refs = 0

\* alloc_thread_stack_node, free_thread_stack and the cache between them: one
\* owner for a stack, charged while it is a task's, and there while it is read.
StacksSound == StkTypeOK /\ OneOwner /\ ChargedByOwner /\ StackWhileReferenced
=============================================================================
