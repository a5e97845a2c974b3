------------------------------- MODULE Vfork -------------------------------
(***************************************************************************)
(* kernel_clone, wait_for_vfork_done and mm_release of kernel/fork.c: a    *)
(* parent that waits until its child gives their mm back, with a           *)
(* completion on the parent's own stack, and a thread that waits for       *)
(* another to end through the word at clear_child_tid.                     *)
(***************************************************************************)
EXTENDS Integers, FiniteSets

CONSTANTS VfTasks,   \* memory for tasks
          VfFirst,   \* the task that exists at the start
          Nobody     \* NULL

VARIABLES at,        \* at[t]: where t is
          child,     \* child[t]: the child that t's kernel_clone made
          vforkDone, \* vforkDone[t]: the parent whose completion it points to
          frame,     \* tasks whose kernel_clone frame is on their stack
          completed, \* tasks whose completion is done
          taskLock,  \* tasks whose alloc_lock is held
          got,       \* got[t]: the completion t read under its task_lock
          usage,     \* usage[t]: references to the task_struct
          fatal,     \* tasks with a fatal signal
          joins,     \* joins[t]: the thread whose end t sleeps for
          borrows    \* ghost, borrows[t]: the parent whose mm t vforked into

vfVars == <<at, child, vforkDone, frame, completed, taskLock, got, usage,
            fatal, joins, borrows>>

VfInit ==
    /\ at = [t \in VfTasks |-> IF t = VfFirst THEN "user" ELSE "free"]
    /\ usage = [t \in VfTasks |-> IF t = VfFirst THEN 1 ELSE 0]
    /\ child = [t \in VfTasks |-> Nobody]
    /\ vforkDone = child /\ got = child /\ joins = child /\ borrows = child
    /\ frame = {} /\ completed = {} /\ taskLock = {} /\ fatal = {}

Move(t, where) == at' = [at EXCEPT ![t] = where]

\* kernel_clone after copy_process. With CLONE_VFORK the completion is set up
\* and a reference to the child taken before the child is woken.
KernelClone(t, c, vfork) ==
    /\ at[t] = "user" /\ t \notin fatal /\ at[c] = "free" /\ usage[c] = 0
    /\ usage' = [usage EXCEPT ![c] = IF vfork THEN 2 ELSE 1]
    /\ at' = [at EXCEPT ![c] = "user", ![t] = IF vfork THEN "wait" ELSE "user"]
    /\ IF vfork
       THEN /\ vforkDone' = [vforkDone EXCEPT ![c] = t]
            /\ borrows' = [borrows EXCEPT ![c] = t]
            /\ child' = [child EXCEPT ![t] = c]
            /\ frame' = frame \cup {t}
            /\ completed' = completed \ {t}
       ELSE UNCHANGED <<vforkDone, borrows, child, frame, completed>>
    /\ UNCHANGED <<taskLock, got, fatal, joins>>

\* The frame of kernel_clone goes when t returns; put_task_struct(child).
Returns(t) ==
    /\ Move(t, "user")
    /\ frame' = frame \ {t}
    /\ usage' = [usage EXCEPT ![child[t]] = @ - 1]
    /\ child' = [child EXCEPT ![t] = Nobody]

\* wait_for_vfork_done: the completion is done.
WaitDone(t) ==
    /\ at[t] = "wait" /\ t \in completed
    /\ Returns(t)
    /\ UNCHANGED <<vforkDone, completed, taskLock, got, fatal, joins, borrows>>

\* wait_for_vfork_done: the parent is killed first.
WaitKilled(t) ==
    /\ at[t] = "wait" /\ t \in fatal \ completed
    /\ Move(t, "killed")
    /\ UNCHANGED <<child, vforkDone, frame, completed, taskLock, got, usage,
                   fatal, joins, borrows>>

\* Mutant: the child's pointer to the completion is cleared without its lock.
ClearVforkDone_NoLock(t) ==
    /\ at[t] = "killed"
    /\ vforkDone' = [vforkDone EXCEPT ![child[t]] = Nobody]
    /\ borrows' = [borrows EXCEPT ![child[t]] = Nobody]
    /\ Returns(t)
    /\ UNCHANGED <<completed, taskLock, got, fatal, joins>>

\* wait_for_vfork_done of a killed parent: under the child's task_lock.
ClearVforkDone(t) ==
    /\ at[t] = "killed" /\ child[t] \notin taskLock
    /\ vforkDone' = [vforkDone EXCEPT ![child[t]] = Nobody]
    /\ borrows' = [borrows EXCEPT ![child[t]] = Nobody]
    /\ Returns(t)
    /\ UNCHANGED <<completed, taskLock, got, fatal, joins>>

\* mm_release, on exit or exec: the word at clear_child_tid is cleared and
\* one sleeper on it woken, since mm_users counts that sleeper too; then
\* vfork_done is looked at without a lock.
MmRelease(t) ==
    /\ at[t] = "user"
    /\ borrows' = [borrows EXCEPT ![t] = Nobody]
    /\ joins' = [j \in VfTasks |-> IF joins[j] = t THEN Nobody ELSE joins[j]]
    /\ Move(t, IF vforkDone[t] = Nobody THEN "released" ELSE "complete")
    /\ UNCHANGED <<child, vforkDone, frame, completed, taskLock, got, usage,
                   fatal>>

\* complete_vfork_done: the pointer is read again under task_lock.
LockVforkDone(t) ==
    /\ at[t] = "complete" /\ t \notin taskLock
    /\ taskLock' = taskLock \cup {t}
    /\ got' = [got EXCEPT ![t] = vforkDone[t]]
    /\ vforkDone' = [vforkDone EXCEPT ![t] = Nobody]
    /\ Move(t, "locked")
    /\ UNCHANGED <<child, frame, completed, usage, fatal, joins, borrows>>

\* Mutant: the parent is not told.
CompleteVforkDone_Silent(t) ==
    /\ at[t] = "locked"
    /\ got' = [got EXCEPT ![t] = Nobody]
    /\ taskLock' = taskLock \ {t}
    /\ Move(t, "released")
    /\ UNCHANGED <<child, vforkDone, frame, completed, usage, fatal, joins,
                   borrows>>

\* complete_vfork_done: complete and unlock.
CompleteVforkDone(t) ==
    /\ at[t] = "locked"
    /\ completed' = completed \cup ({got[t]} \ {Nobody})
    /\ got' = [got EXCEPT ![t] = Nobody]
    /\ taskLock' = taskLock \ {t}
    /\ Move(t, "released")
    /\ UNCHANGED <<child, vforkDone, frame, usage, fatal, joins, borrows>>

\* After mm_release the task runs in an mm of its own, or it exits and its
\* own reference to the task_struct goes.
ExecDone(t) ==
    /\ at[t] = "released" /\ t \notin fatal /\ Move(t, "user")
    /\ UNCHANGED <<child, vforkDone, frame, completed, taskLock, got, usage,
                   fatal, joins, borrows>>

ExitDone(t) ==
    /\ at[t] = "released" /\ Move(t, "free")
    /\ usage' = [usage EXCEPT ![t] = @ - 1]
    /\ fatal' = fatal \ {t}
    /\ UNCHANGED <<child, vforkDone, frame, completed, taskLock, got, joins,
                   borrows>>

\* A thread sleeps until the word of u, a thread that is still running, is
\* cleared; a killed sleeper leaves.
Join(t, u) ==
    /\ at[t] = "user" /\ at[u] \in {"user", "wait"} /\ t # u
    /\ t \notin fatal /\ borrows[t] = Nobody /\ borrows[u] = Nobody
    /\ \A j \in VfTasks : joins[j] = Nobody
    /\ joins' = [joins EXCEPT ![t] = u] /\ Move(t, "join")
    /\ UNCHANGED <<child, vforkDone, frame, completed, taskLock, got, usage,
                   fatal, borrows>>

Joined(t) ==
    /\ at[t] = "join" /\ (joins[t] = Nobody \/ t \in fatal)
    /\ joins' = [joins EXCEPT ![t] = Nobody] /\ Move(t, "user")
    /\ UNCHANGED <<child, vforkDone, frame, completed, taskLock, got, usage,
                   fatal, borrows>>

Kill(t) ==
    /\ at[t] # "free" /\ t \notin fatal /\ fatal' = fatal \cup {t}
    /\ UNCHANGED <<at, child, vforkDone, frame, completed, taskLock, got,
                   usage, joins, borrows>>

Waiting(t) == WaitDone(t) \/ WaitKilled(t) \/ ClearVforkDone(t)
Completing(t) == LockVforkDone(t) \/ CompleteVforkDone(t)

VfNext ==
    \E t \in VfTasks :
        \/ Waiting(t) \/ Completing(t) \/ MmRelease(t)
        \/ ExecDone(t) \/ ExitDone(t) \/ Joined(t) \/ Kill(t)
        \/ \E u \in VfTasks \ {t} : Join(t, u)
        \/ \E u \in VfTasks \ {t}, vfork \in BOOLEAN : KernelClone(t, u, vfork)

----------------------------------------------------------------------------
\* Every variable has its type, and a task_struct that was freed is not the
\* child of a parent in wait_for_vfork_done, which locks it.
VfTypeOK ==
    /\ at \in [VfTasks -> {"free", "user", "wait", "killed", "complete",
                           "locked", "released", "join"}]
    /\ usage \in [VfTasks -> 0 .. 2]
    /\ {child, vforkDone, got, joins, borrows} \subseteq
           [VfTasks -> VfTasks \cup {Nobody}]
    /\ {frame, completed, taskLock, fatal} \subseteq SUBSET VfTasks
    /\ \A t \in VfTasks : child[t] # Nobody => usage[child[t]] > 0

\* The completion is on the stack of the parent: whoever still points to it,
\* as vfork_done or in complete_vfork_done, finds that frame in place, also
\* when the parent is killed while the child completes.
FrameValid ==
    \A c \in VfTasks :
        /\ vforkDone[c] # Nobody => vforkDone[c] \in frame
        /\ got[c] # Nobody => got[c] \in frame

\* While a vforked child runs in its parent's mm the parent does not leave
\* kernel_clone, unless it is killed.
ParentWaits ==
    \A c \in VfTasks : borrows[c] # Nobody => at[borrows[c]] \in {"wait", "killed"}

\* No thread sleeps for the end of one that already gave the mm back:
\* mm_release clears the word at clear_child_tid and wakes the sleeper.
NoJoinerForgotten ==
    \A j \in VfTasks : at[j] = "join" /\ joins[j] # Nobody =>
        at[joins[j]] \in {"user", "wait", "killed", "join"}

GaveBack == {c \in VfTasks : at[c] \in {"complete", "released"}}

\* What kernel_clone and mm_release owe each other: a frame that is there as long
\* as it is pointed to, a parent that stays out of its mm, a joiner that is told.
VforkSound == VfTypeOK /\ FrameValid /\ ParentWaits /\ NoJoinerForgotten

\* A child that gave the mm back does not leave its parent waiting, nor does one
\* that runs on when the parent was killed.
ParentReturns ==
    \A p \in VfTasks :
        at[p] = "wait" /\ (child[p] \in GaveBack \/ p \in fatal) ~> at[p] # "wait"
=============================================================================
