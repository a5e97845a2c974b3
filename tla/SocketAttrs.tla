---------------------------- MODULE SocketAttrs ----------------------------
(***************************************************************************)
(* The system call set_thread_socket_attrs against threads that come and   *)
(* go: the lookup of the target by pid under rcu_read_lock, the reference  *)
(* on its task_struct, the two stores, and the put.  fork.c zeroes the     *)
(* attributes of a new task and frees a task_struct with its last          *)
(* reference; the memory is then used for the next task.                   *)
(***************************************************************************)
EXTENDS Integers, FiniteSets

CONSTANTS Slots,    \* memory for task_structs
          Args,     \* the max_sockets, priority_level arguments of calls
          MaxTasks, \* bound: tasks created in all
          Nobody    \* no target

ASSUME AttrsAssumption ==
    /\ Args \subseteq Int \X Int
    /\ MaxTasks \in Nat
    /\ IsFiniteSet(Slots) /\ Nobody \notin Slots

VARIABLES created, \* tasks created so far (ghost)
          state,  \* state[s]: "free", "running", "dead" (pid unhashed, its own
                  \* reference still to be put after a grace period), "put"
          usage,  \* usage[s]: task->usage
          gen,    \* gen[s]: how many tasks the slot has held (ghost)
          max_socket_allowed, priority_level,
          pc,     \* where the task in slot s is in its system call
          call    \* its locals: task, the pid that named it (ghost: gen), args

attrVars == <<created, state, usage, gen, max_socket_allowed, priority_level, pc, call>>
attrs == <<max_socket_allowed, priority_level>>

NoCall == [task |-> Nobody, gen |-> 0, byPid |-> FALSE, args |-> <<0, 0>>]

\* The tasks in the slots R run.
AttrStart(R) ==
    /\ created = Cardinality(R)
    /\ state = [s \in Slots |-> IF s \in R THEN "running" ELSE "free"]
    /\ usage = [s \in Slots |-> IF s \in R THEN 1 ELSE 0]
    /\ gen = usage
    /\ max_socket_allowed = [s \in Slots |-> 0]
    /\ priority_level = [s \in Slots |-> 0]
    /\ pc = [s \in Slots |-> "user"]
    /\ call = [s \in Slots |-> NoCall]

AttrInit == \E s \in Slots : AttrStart({s})

Goto(s, from, to) == pc[s] = from /\ pc' = [pc EXCEPT ![s] = to]

----------------------------------------------------------------------------
\* Tasks.

\* copy_process: the new task_struct has one reference and no attributes.
Fork(s, c) ==
    /\ state[s] = "running" /\ pc[s] = "user"
    /\ state[c] = "free" /\ created < MaxTasks
    /\ created' = created + 1
    /\ state' = [state EXCEPT ![c] = "running"]
    /\ usage' = [usage EXCEPT ![c] = 1]
    /\ gen' = [gen EXCEPT ![c] = @ + 1]
    /\ max_socket_allowed' = [max_socket_allowed EXCEPT ![c] = 0]
    /\ priority_level' = [priority_level EXCEPT ![c] = 0]
    /\ UNCHANGED <<pc, call>>

\* A task ends between system calls, though not the last one: its pid no
\* longer finds it.
Exit(s) ==
    /\ state[s] = "running" /\ pc[s] = "user"
    /\ \E o \in Slots \ {s} : state[o] = "running"
    /\ state' = [state EXCEPT ![s] = "dead"]
    /\ UNCHANGED <<created, usage, gen, attrs, pc, call>>

\* put_task_struct: __put_task_struct and free_task with the last reference.
PutTask(s) ==
    /\ usage' = [usage EXCEPT ![s] = @ - 1]
    /\ state' = [state EXCEPT ![s] = IF usage[s] = 1 THEN "free" ELSE @]

\* Readers that found task s under rcu_read_lock and hold no reference yet.
RcuReaders(s) == {r \in Slots : pc[r] = "found" /\ call[r].task = s}

\* The dead task's own reference is put after an RCU grace period.
DelayedPut(s) ==
    /\ state[s] = "dead"
    /\ RcuReaders(s) = {}
    /\ usage' = [usage EXCEPT ![s] = @ - 1]
    /\ state' = [state EXCEPT ![s] = IF usage[s] = 1 THEN "free" ELSE "put"]
    /\ UNCHANGED <<created, gen, attrs, pc, call>>

----------------------------------------------------------------------------
\* set_thread_socket_attrs.  flags other than 0, a pid nobody has and a caller
\* without permission end the call before it stores anything.

\* pid 0: the caller itself, without a reference.
CallOnSelf(s, a) ==
    /\ state[s] = "running" /\ Goto(s, "user", "perm")
    /\ call' = [call EXCEPT ![s] = [task |-> s, gen |-> gen[s], byPid |-> FALSE,
                                    args |-> a]]
    /\ UNCHANGED <<created, state, usage, gen, attrs>>

\* rcu_read_lock and find_task_by_vpid.
Find(s, x, a) ==
    /\ state[s] = "running" /\ state[x] = "running" /\ Goto(s, "user", "found")
    /\ call' = [call EXCEPT ![s] = [task |-> x, gen |-> gen[x], byPid |-> TRUE,
                                    args |-> a]]
    /\ UNCHANGED <<created, state, usage, gen, attrs>>

\* Mutant: no get_task_struct.
Get_NoRef(s) ==
    /\ Goto(s, "found", "perm")
    /\ UNCHANGED <<created, state, usage, gen, attrs, call>>

\* get_task_struct and rcu_read_unlock.
Get(s) ==
    /\ Goto(s, "found", "perm")
    /\ usage' = [usage EXCEPT ![call[s].task] = @ + 1]
    /\ UNCHANGED <<created, state, gen, attrs, call>>

\* The arguments are dead: forget them, so that equal states are one state.
Forget(s) == call' = [call EXCEPT ![s].args = <<0, 0>>]

\* The capability or an equal uid, or -EPERM.
CheckPermission(s) ==
    /\ pc[s] = "perm"
    /\ \/ Goto(s, "perm", "max") /\ UNCHANGED call
       \/ Goto(s, "perm", "out") /\ Forget(s)
    /\ UNCHANGED <<created, state, usage, gen, attrs>>

SetMax(s) ==
    /\ Goto(s, "max", "level")
    /\ max_socket_allowed' = [max_socket_allowed EXCEPT ![call[s].task] =
                                IF call[s].args[1] >= -1 THEN call[s].args[1] ELSE @]
    /\ UNCHANGED <<created, state, usage, gen, priority_level, call>>

SetLevel(s) ==
    /\ Goto(s, "level", "out")
    /\ priority_level' = [priority_level EXCEPT ![call[s].task] =
                            IF call[s].args[2] \in 0..100 THEN call[s].args[2] ELSE @]
    /\ Forget(s)
    /\ UNCHANGED <<created, state, usage, gen, max_socket_allowed>>

\* out: put_task_struct unless pid was 0.
Out(s) ==
    /\ Goto(s, "out", "user")
    /\ IF call[s].byPid THEN PutTask(call[s].task) ELSE UNCHANGED <<state, usage>>
    /\ call' = [call EXCEPT ![s] = NoCall]
    /\ UNCHANGED <<created, gen, attrs>>

AttrNext ==
    \E s \in Slots :
        \/ \E c \in Slots : Fork(s, c)
        \/ Exit(s) \/ DelayedPut(s)
        \/ \E a \in Args :
             CallOnSelf(s, a) \/ \E x \in Slots : Find(s, x, a)
        \/ Get(s) \/ CheckPermission(s) \/ SetMax(s) \/ SetLevel(s) \/ Out(s)

AttrSpec == AttrInit /\ [][AttrNext]_attrVars

----------------------------------------------------------------------------
\* Properties.

PCs == {"user", "found", "perm", "max", "level", "out"}

CallRecord == [task : Slots \cup {Nobody}, gen : Nat, byPid : BOOLEAN, args : Int \X Int]

\* Every field holds a value of its type; the limit is at least -1 and the
\* level is within 0..100, whatever is passed.
AttrTypeOK ==
    /\ state \in [Slots -> {"free", "running", "dead", "put"}]
    /\ usage \in [Slots -> Nat]
    /\ created \in Nat
    /\ gen \in [Slots -> Nat]
    /\ max_socket_allowed \in [Slots -> {m \in Int : m >= -1}]
    /\ priority_level \in [Slots -> 0..100]
    /\ pc \in [Slots -> PCs]
    /\ call \in [Slots -> CallRecord]

\* Callers that hold a reference on task s.
Holders(s) == {r \in Slots : /\ pc[r] \in {"perm", "max", "level", "out"}
                             /\ call[r].byPid /\ call[r].task = s}

\* A task_struct has exactly one reference for the task itself until its grace
\* period is over and one per call working on it, on every path of the call.
UsageExact ==
    \A s \in Slots :
        usage[s] = Cardinality(Holders(s))
                 + (IF state[s] \in {"running", "dead"} THEN 1 ELSE 0)

\* From the lookup to the put, the call works on the very task that its pid
\* named: the task may exit meanwhile, but its task_struct is neither freed nor
\* given to another task, so no store reaches a stranger's attributes.
TargetStays ==
    \A s \in Slots :
        pc[s] # "user" => /\ state[call[s].task] # "free"
                          /\ gen[call[s].task] = call[s].gen

\* A task_struct is free exactly when nothing refers to it: exited tasks are
\* not kept for ever by a call that returned.
FreedWhenUnused == \A s \in Slots : state[s] = "free" <=> usage[s] = 0

\* set_thread_socket_attrs changes the task it was asked to and keeps it no longer
\* than it works on it.
AttrSound == AttrTypeOK /\ TargetStays /\ UsageExact /\ FreedWhenUnused
=============================================================================
