---------------------------- MODULE CopyProcess ----------------------------
(***************************************************************************)
(* copy_process of kernel/fork.c: threads that fork at the same time,      *)
(* every acquisition and the label that undoes it, signals and kills that  *)
(* arrive meanwhile, and the key-value tables of a new process.            *)
(*                                                                         *)
(* What copy_process does to memory only it can see is one step up to the  *)
(* next access to something shared: the multiprocess list, nr_threads, the *)
(* pid namespace, and the locked section that makes the child visible.     *)
(***************************************************************************)
EXTENDS Integers, Sequences, FiniteSets

CONSTANTS ForkTasks,       \* memory for task_structs
          FirstTask,   \* the task that exists at the start
          MaxThreads,  \* max_threads
          MaxForks,    \* bound: forks in progress at the same time
          Events,      \* bound: what may happen besides the forks
          None         \* no task

ASSUME ForkAssumption ==
    /\ FirstTask \in ForkTasks
    /\ None \notin ForkTasks
    /\ MaxThreads \in Nat /\ MaxThreads > 1
    /\ MaxForks \in Nat
    /\ Events \subseteq {"signal", "kill", "namespace"}

VARIABLES alive,     \* tasks that are visible, nr_threads of them
          unborn,    \* task_structs allocated for a child not yet visible
          inside,    \* tasks in the pid namespace that children are put in
          group,     \* group[t]: the leader of t's thread group
          fpc,        \* where each task is, "user" outside copy_process
          fork,      \* fork[t]: the kind of t's fork and its child
          held,      \* held[t][r]: times r was acquired minus times undone
          listed,    \* tasks whose delayed.node is on signal->multiprocess
          delayed,   \* tasks whose delayed.signal is not empty
          pending,   \* groups whose shared_pending is not empty
          tif,       \* tasks with TIF_SIGPENDING
          killed,    \* tasks with a pending SIGKILL
          adding,    \* PIDNS_ADDING of the pid namespace
          zapped,    \* ghost: the namespace's tasks were all sent SIGKILL
          owed,      \* ghost: forks of a process that a signal arrived in
          due        \* ghost: groups with a signal they have not yet handled

forkVars == <<fpc, fork, held>>
taskVars == <<alive, unborn, inside, group>>
signalVars == <<pending, tif, due>>
killVars == <<killed, adding, zapped>>
delayVars == <<listed, delayed, owed>>
cpVars == <<forkVars, taskVars, signalVars, killVars, delayVars>>

NoFork == [kind |-> "none", child |-> None]

----------------------------------------------------------------------------
\* The acquisitions and how they are undone.

\* Acquisitions before the pid, in order, and the label a failure jumps to.
\* sched_fork leaves nothing to undo.
Copies == << [get |-> "mempolicy",  bad |-> "threadgroup_lock"],
             [get |-> "sched",      bad |-> "policy"],
             [get |-> "perf",       bad |-> "policy"],
             [get |-> "audit",      bad |-> "perf"],
             [get |-> "security",   bad |-> "audit"],
             [get |-> "semundo",    bad |-> "security"],
             [get |-> "files",      bad |-> "semundo"],
             [get |-> "fs",         bad |-> "files"],
             [get |-> "sighand",    bad |-> "fs"],
             [get |-> "signal",     bad |-> "sighand"],
             [get |-> "mm",         bad |-> "signal"],
             [get |-> "namespaces", bad |-> "mm"],
             [get |-> "io",         bad |-> "namespaces"],
             [get |-> "thread",     bad |-> "io"] >>

\* The bad_fork_ labels in the order in which control falls through them, and
\* what each undoes.
Labels == << [label |-> "cancel_cgroup",    undo |-> "cgroup"],
             [label |-> "put_pidfd",        undo |-> "pidfd"],
             [label |-> "free_pid",         undo |-> "pid"],
             [label |-> "thread",           undo |-> "thread"],
             [label |-> "io",               undo |-> "io"],
             [label |-> "namespaces",       undo |-> "namespaces"],
             [label |-> "mm",               undo |-> "mm"],
             [label |-> "signal",           undo |-> "signal"],
             [label |-> "sighand",          undo |-> "sighand"],
             [label |-> "fs",               undo |-> "fs"],
             [label |-> "files",            undo |-> "files"],
             [label |-> "semundo",          undo |-> "semundo"],
             [label |-> "security",         undo |-> "security"],
             [label |-> "audit",            undo |-> "audit"],
             [label |-> "perf",             undo |-> "perf"],
             [label |-> "policy",           undo |-> "mempolicy"],
             [label |-> "threadgroup_lock", undo |-> "delayacct"],
             [label |-> "count",            undo |-> "creds"],
             [label |-> "free",             undo |-> "task"] >>

KvTables == {"kv_store", "kv_store_lock"}
Resources == {Labels[i].undo : i \in DOMAIN Labels} \cup KvTables

\* copy_signal does nothing for a thread and bad_fork_cleanup_signal undoes
\* nothing then; the same holds for the pidfd without CLONE_PIDFD.
Applies(t, r) ==
    /\ r = "signal" => fork[t].kind # "thread"
    /\ r = "pidfd" => fork[t].kind = "pidfd"

NoneHeld == [r \in Resources |-> 0]

\* What h becomes when t's fork acquires the resources R.
Gain(t, h, R) ==
    [r \in Resources |-> h[r] + IF r \in R /\ Applies(t, r) THEN 1 ELSE 0]

\* What a jump to a label undoes: that label's resource and all that follow.
Undone == [label \in {Labels[i].label : i \in DOMAIN Labels} |->
    {Labels[i].undo : i \in {j \in DOMAIN Labels :
        \E k \in 1 .. j : Labels[k].label = label}}]

\* goto bad_fork_<label> with the acquisitions h: everything down to
\* delayed_free_task, which gives the child's task_struct back.
Unwind(t, h, label) ==
    /\ held' = [held EXCEPT ![t] = [r \in Resources |->
           h[r] - IF r \in Undone[label] /\ Applies(t, r) THEN 1 ELSE 0]]
    /\ unborn' = unborn \ {fork[t].child}
    /\ fork' = [fork EXCEPT ![t].child = None]
    /\ fpc' = [fpc EXCEPT ![t] = "fork_out"]

\* The fork goes on at fpc `next` after acquiring the resources R.
Proceed(t, R, next) ==
    /\ held' = [held EXCEPT ![t] = Gain(t, @, R)]
    /\ fpc' = [fpc EXCEPT ![t] = next]
    /\ UNCHANGED <<unborn, fork>>

----------------------------------------------------------------------------
\* copy_process, one action for each access to shared state.

\* Which forks put a delayed node on the multiprocess list.
Joins(kind) == kind # "thread"

\* Entry: a task whose children go to another pid namespace may not add a
\* thread to its group. Under siglock the delayed node of a new process goes on the list and
\* recalc_sigpending sets TIF_SIGPENDING. A task whose node was left on the
\* list does not fork again: adding the same stack slot twice is undefined.
CollectSignals(t, kind) ==
    /\ fpc[t] = "user" /\ t \in alive \ (killed \cup listed)
    /\ kind = "thread" => t \in inside
    /\ Cardinality({u \in ForkTasks : fpc[u] # "user"}) < MaxForks
    /\ fpc' = [fpc EXCEPT ![t] = "sigpending"]
    /\ fork' = [fork EXCEPT ![t] = [kind |-> kind, child |-> None]]
    /\ held' = [held EXCEPT ![t] = NoneHeld]
    /\ listed' = IF Joins(kind) THEN listed \cup {t} ELSE listed
    /\ delayed' = delayed \ {t}
    /\ owed' = owed \ {t}
    /\ tif' = IF group[t] \in pending THEN tif \cup {t} ELSE tif \ {t}
    /\ UNCHANGED <<taskVars, pending, due, killVars>>

\* if (task_sigpending(current)) goto fork_out
CheckSignals(t) ==
    /\ fpc[t] = "sigpending"
    /\ fpc' = [fpc EXCEPT ![t] = IF t \in tif THEN "fork_out" ELSE "dup"]
    /\ UNCHANGED <<fork, held, taskVars, signalVars, killVars, delayVars>>

\* dup_task_struct, or its failure, which is all there is without memory.
DupTask(t) ==
    /\ fpc[t] = "dup"
    /\ \/ \E c \in ForkTasks \ (alive \cup unborn) :
             /\ unborn' = unborn \cup {c}
             /\ fork' = [fork EXCEPT ![t].child = c]
             /\ held' = [held EXCEPT ![t] = Gain(t, @, {"task"})]
             /\ fpc' = [fpc EXCEPT ![t] = "limits"]
       \/ /\ fpc' = [fpc EXCEPT ![t] = "fork_out"]
          /\ UNCHANGED <<unborn, fork, held>>
    /\ UNCHANGED <<alive, inside, group, signalVars, killVars, delayVars>>

\* nr_threads >= max_threads, read without a lock.
TooManyThreads == Cardinality(alive) >= MaxThreads

\* copy_creds, the RLIMIT_NPROC check (over the limit or not, by choice) and
\* the max_threads check, then delayacct_tsk_init.
CheckLimits(t) ==
    /\ fpc[t] = "limits"
    /\ \/ Unwind(t, held[t], "free")
       \/ Unwind(t, Gain(t, held[t], {"creds"}), "count")
       \/ ~TooManyThreads /\ Proceed(t, {"creds", "delayacct"}, "copies")
    /\ UNCHANGED <<alive, inside, group, signalVars, killVars, delayVars>>

\* mpol_dup to copy_thread: the n-th copy fails, or none does.
CopyResources(t) ==
    LET Got(n) == {Copies[i].get : i \in 1 .. n} IN
    /\ fpc[t] = "copies"
    /\ \/ \E n \in DOMAIN Copies :
             Unwind(t, Gain(t, held[t], Got(n - 1)), Copies[n].bad)
       \/ Proceed(t, Got(Len(Copies)), "pid")
    /\ UNCHANGED <<alive, inside, group, signalVars, killVars, delayVars>>

\* alloc_pid, which refuses a namespace that no longer adds pids.
AllocPid(t) ==
    /\ fpc[t] = "pid"
    /\ \/ Unwind(t, held[t], "thread")
       \/ adding /\ Proceed(t, {"pid"}, "pidfd")
    /\ UNCHANGED <<alive, inside, group, signalVars, killVars, delayVars>>

\* With CLONE_PIDFD: no descriptor or file, or put_user fails, or neither.
OpenPidfd(t) ==
    /\ fpc[t] = "pidfd"
    /\ \/ /\ fork[t].kind = "pidfd"
          /\ \/ Unwind(t, held[t], "free_pid")
             \/ Unwind(t, Gain(t, held[t], {"pidfd"}), "put_pidfd")
       \/ Proceed(t, {"pidfd"}, "tables")
    /\ UNCHANGED <<alive, inside, group, signalVars, killVars, delayVars>>

\* The key-value tables: a thread shares its group's; a process allocates two
\* arrays, and if either allocation fails copy_process returns on the spot.
AllocTables(t) ==
    /\ fpc[t] = "tables"
    /\ IF fork[t].kind = "thread"
         THEN Proceed(t, {}, "cgroup")
         ELSE \E R \in SUBSET KvTables :
                 Proceed(t, R, IF R = KvTables THEN "cgroup" ELSE "user")
    /\ UNCHANGED <<alive, inside, group, signalVars, killVars, delayVars>>

\* Mutant: a refusal jumps to bad_fork_cancel_cgroup.
CanFork_CancelsCgroup(t) ==
    /\ fpc[t] = "cgroup"
    /\ \/ Unwind(t, held[t], "cancel_cgroup")
       \/ Proceed(t, {"cgroup"}, "attach")
    /\ UNCHANGED <<alive, inside, group, signalVars, killVars, delayVars>>

\* cgroup_can_fork, and sched_cgroup_fork after it.
CanFork(t) ==
    /\ fpc[t] = "cgroup"
    /\ \/ Unwind(t, held[t], "put_pidfd")
       \/ Proceed(t, {"cgroup"}, "attach")
    /\ UNCHANGED <<alive, inside, group, signalVars, killVars, delayVars>>

\* Mutants: one of the two checks is missing.
MayAttach_IgnoresKill(t) == adding
\* The two checks made under tasklist_lock and siglock.
MayAttach(t) == adding /\ t \notin killed

\* The locked section: refuse, or make the child visible with the signals
\* collected for it; schedule_tail makes the child recompute TIF_SIGPENDING.
Attach(t) ==
    LET c == fork[t].child
        leader == IF fork[t].kind = "thread" THEN group[t] ELSE c IN
    /\ fpc[t] = "attach"
    /\ \/ /\ ~MayAttach(t)
          /\ Unwind(t, held[t], "cancel_cgroup")
          /\ UNCHANGED <<alive, inside, group, signalVars, delayVars>>
       \/ /\ MayAttach(t)
          /\ alive' = alive \cup {c}
          /\ unborn' = unborn \ {c}
          /\ inside' = inside \cup {c}
          /\ group' = [group EXCEPT ![c] = leader]
          /\ pending' = IF leader = c /\ t \in delayed
                          THEN pending \cup {c} ELSE pending
          /\ tif' = IF leader \in pending' THEN tif \cup {c} ELSE tif
          /\ due' = IF leader = c /\ t \in owed THEN due \cup {c} ELSE due
          /\ listed' = listed \ {t}
          /\ delayed' = delayed \ {t}
          /\ owed' = owed \ {t}
          /\ fork' = [fork EXCEPT ![t] = NoFork]
          /\ held' = [held EXCEPT ![t] = NoneHeld]
          /\ fpc' = [fpc EXCEPT ![t] = "user"]
    /\ UNCHANGED killVars

ForkOut(t) ==
    /\ fpc[t] = "fork_out"
    /\ fpc' = [fpc EXCEPT ![t] = "user"]
    /\ fork' = [fork EXCEPT ![t] = NoFork]
    /\ listed' = listed \ {t}
    /\ delayed' = delayed \ {t}
    /\ owed' = owed \ {t}
    /\ UNCHANGED <<held, taskVars, signalVars, killVars>>

----------------------------------------------------------------------------
\* Signals: kernel/signal.c and kernel/pid_namespace.c are not part of the
\* repository; these are the effects that copy_process is written against.

Leaders == {group[t] : t \in alive}

\* A signal to every process of the process group: it becomes pending in each,
\* wakes one thread w of each, and joins the delayed signals of the forks on
\* the list.
SignalAll ==
    \E W \in SUBSET (alive \ killed) :
        /\ \A t, u \in W : group[t] = group[u] => t = u
        /\ {group[t] : t \in W} = {group[t] : t \in alive \ killed}
        /\ W # {}
        /\ pending' = pending \cup Leaders
        /\ due' = due \cup Leaders
        /\ tif' = tif \cup W
        /\ delayed' = delayed \cup {t \in listed : fpc[t] # "user"}
        /\ owed' = owed \cup {t \in ForkTasks :
                                fpc[t] # "user" /\ fork[t].kind # "thread"}
        /\ UNCHANGED <<forkVars, taskVars, killVars, listed>>

\* A thread on its way to user mode handles what is pending in its group.
HandleSignal(t) ==
    /\ fpc[t] = "user" /\ t \in tif \ killed
    /\ pending' = pending \ {group[t]}
    /\ due' = due \ {group[t]}
    /\ tif' = tif \ {t}
    /\ UNCHANGED <<forkVars, taskVars, killVars, delayVars>>

\* SIGKILL to a thread group reaches each of its visible threads.
KillGroup(g) ==
    LET T == {t \in alive : group[t] = g} IN
    /\ killed' = killed \cup T
    /\ tif' = tif \cup T
    /\ UNCHANGED <<forkVars, taskVars, pending, due, adding, zapped, delayVars>>

\* The reaper of the namespace exits: first no more pids, then SIGKILL to all.
StopAdding ==
    /\ adding /\ adding' = FALSE
    /\ UNCHANGED <<forkVars, taskVars, signalVars, killed, zapped, delayVars>>

ZapNamespace ==
    /\ ~adding /\ ~zapped /\ zapped' = TRUE
    /\ killed' = killed \cup inside
    /\ tif' = tif \cup inside
    /\ UNCHANGED <<forkVars, taskVars, pending, due, adding, delayVars>>

----------------------------------------------------------------------------
ForkInit ==
    /\ alive = {FirstTask} /\ unborn = {}
    /\ inside \in SUBSET {FirstTask}
    /\ group = [t \in ForkTasks |-> t]
    /\ fpc = [t \in ForkTasks |-> "user"]
    /\ fork = [t \in ForkTasks |-> NoFork]
    /\ held = [t \in ForkTasks |-> NoneHeld]
    /\ listed = {} /\ delayed = {} /\ owed = {}
    /\ pending = {} /\ tif = {} /\ due = {}
    /\ killed = {} /\ adding = TRUE /\ zapped = FALSE

ForkNext ==
    \/ \E t \in ForkTasks :
          \/ \E kind \in {"thread", "process", "pidfd"} : CollectSignals(t, kind)
          \/ CheckSignals(t) \/ DupTask(t) \/ CheckLimits(t) \/ CopyResources(t)
          \/ AllocPid(t) \/ OpenPidfd(t) \/ AllocTables(t) \/ CanFork(t)
          \/ Attach(t) \/ ForkOut(t) \/ HandleSignal(t)
    \/ "signal" \in Events /\ SignalAll
    \/ "kill" \in Events /\ \E g \in Leaders : KillGroup(g)
    \/ "namespace" \in Events /\ (StopAdding \/ ZapNamespace)

ForkSpec == ForkInit /\ [][ForkNext]_cpVars

----------------------------------------------------------------------------
\* Type invariant of copy_process's state; only forks of a process have a node
\* on the multiprocess list, and a child in the making is not visible.
ForkTypeOK ==
    /\ inside \subseteq alive /\ alive \subseteq ForkTasks /\ unborn \subseteq ForkTasks \ alive
    /\ group \in [ForkTasks -> ForkTasks]
    /\ fpc \in [ForkTasks -> {"user", "sigpending", "dup", "limits", "copies", "pid",
                         "pidfd", "tables", "cgroup", "attach", "fork_out"}]
    /\ fork \in [ForkTasks -> [kind : {"none", "thread", "process", "pidfd"},
                           child : unborn \cup {None}]]
    /\ held \in [ForkTasks -> [Resources -> Int]]
    /\ listed \subseteq {t \in alive : fork[t].kind \in {"process", "pidfd"}}
    /\ delayed \subseteq listed /\ owed \subseteq alive
    /\ pending \subseteq Leaders /\ due \subseteq Leaders
    /\ tif \subseteq alive /\ killed \subseteq alive
    /\ adding \in BOOLEAN /\ zapped \in BOOLEAN

\* Every exit through a bad_fork_ label of copy_process undoes exactly what
\* that call acquired: nothing stays acquired and nothing is undone twice. Two
\* exceptions are the code's: no label frees the key-value tables, and the
\* return after their failed allocation (t is still on the list) undoes nothing.
UnwindExact ==
    \A t \in ForkTasks : fpc[t] = "user" /\ t \notin listed =>
        \A r \in Resources \ KvTables : held[t][r] = 0

\* SIGKILL to a thread group spares none of its threads, even one that was
\* being cloned when the kill walked the group (fatal_signal_pending under
\* siglock in copy_process).
KillReachesGroup ==
    \A t, u \in alive : group[t] = group[u] /\ t \in killed => u \in killed

\* No task outlives its pid namespace: after all its tasks were sent SIGKILL no
\* fork that was already under way adds one, not even the fork of a task outside
\* the namespace, which is not killed with it (the PIDNS_ADDING check).
NamespaceEmpties == zapped => inside \subseteq killed

\* A signal to all processes of a process group is not lost by a fork that is
\* under way: every process, the child included, has it pending until it
\* handles it (delayed.signal copied to the child's shared_pending).
SignalReachesProcesses == due \subseteq pending

\* What is sent while a fork is under way reaches the child it makes: a SIGKILL to
\* its thread group, the end of its pid namespace, a signal to its process group.
NoChildEscapes == ForkTypeOK /\ KillReachesGroup /\ NamespaceEmpties /\ SignalReachesProcesses

\* "Collect up signals sent to multiple processes that happen during the fork":
\* the delayed node, a local variable of copy_process, is on the multiprocess
\* list only while that call of copy_process runs.
DelayedOnlyDuringFork == \A t \in listed : fpc[t] # "user"

=============================================================================
