---------------------------- MODULE TaskSharing ----------------------------
(***************************************************************************)
(* What tasks share, in kernel/fork.c: the flags that clone, clone3 and    *)
(* unshare accept, the copy_* functions that share an object or copy it,   *)
(* unshare with its failures, and an exec that relies on nobody else       *)
(* sharing its fs_struct.                                                  *)
(***************************************************************************)
EXTENDS Integers, FiniteSets, FiniteSetsExt

CONSTANTS ShTasks,      \* memory for tasks
          Objects,      \* memory for objects of each kind, numbered
          CloneFlags,   \* sets of clone flags that are tried
          UnshareFlags, \* sets of unshare flags that are tried
          MaxBusy,      \* bound: forks, unshares and execs at the same time
          NoObj         \* NULL

\* The kinds of objects that tasks share, each with a reference count.
Shared == {"FILES", "FS", "SIGHAND", "VM"}

VARIABLES has,        \* has[t][k]: t's object of kind k
          refs,       \* refs[k][o]: how often object o of kind k is used
          group,      \* group[t]: t's thread group, NoObj if t is free
          building,   \* building[t]: the child that t's copy_process builds
          unshared,   \* unshared[t][k]: the new object of an unshare of t
          asked,      \* asked[t]: flags of the unshare t is in, {} if none
          inExec      \* fs_structs with in_exec, and by whom

shVars == <<has, refs, group, building, unshared, asked, inExec>>

NoObjs == [k \in Shared |-> NoObj]

\* The tasks in T are processes that share everything.
ShStart(T) ==
    /\ has = [t \in ShTasks |-> IF t \in T THEN [k \in Shared |-> 1] ELSE NoObjs]
    /\ group = [t \in ShTasks |-> IF t \in T THEN t ELSE NoObj]
    /\ refs = [k \in Shared |-> [o \in Objects |-> IF o = 1 THEN Cardinality(T) ELSE 0]]
    /\ building = [t \in ShTasks |-> NoObj]
    /\ unshared = [t \in ShTasks |-> NoObjs]
    /\ asked = [t \in ShTasks |-> {}]
    /\ inExec = [o \in Objects |-> NoObj]

ShInit == \E t \in ShTasks : ShStart({t})

Threads(t) == {u \in ShTasks : group[u] = group[t]}
InUser(t) ==
    /\ group[t] # NoObj /\ building[t] = NoObj /\ asked[t] = {}
    /\ \A u \in ShTasks : building[u] # t
    /\ \A o \in Objects : inExec[o] # t
MayStart(t) ==
    /\ InUser(t)
    /\ Cardinality({u \in ShTasks : asked[u] # {} \/ building[u] # NoObj
                        \/ \E o \in Objects : inExec[o] = u}) < MaxBusy
HasFree(K) == \A k \in K : \E o \in Objects : refs[k][o] = 0
FreeObject(k) == Min({o \in Objects : refs[k][o] = 0})

----------------------------------------------------------------------------
\* clone.

\* CLONE_CLEAR_SIGHAND, which clone cannot pass, and shared handlers.
Clone3ArgsValid(f) == ~({"SIGHAND", "CLEAR_SIGHAND"} \subseteq f)

\* The checks of copy_process after those of the system call.
FlagsValid(f) ==
    /\ ~({"NEWNS", "FS"} \subseteq f) /\ ~({"NEWUSER", "FS"} \subseteq f)
    /\ "THREAD" \in f => "SIGHAND" \in f
    /\ "SIGHAND" \in f => "VM" \in f
    /\ "THREAD" \in f => f \cap {"NEWUSER", "PIDFD"} = {}
    /\ Clone3ArgsValid(f)

\* copy_fs refuses to share an fs_struct that is in an exec.
MayShareFs(t) == inExec[has[t]["FS"]] = NoObj

\* An object is shared, or the child gets one of its own.
SharedOrNew(t, f, k) == IF k \in f THEN has[t][k] ELSE FreeObject(k)
CopyFiles(t, f) == SharedOrNew(t, f, "FILES")
CopyFs(t, f) == SharedOrNew(t, f, "FS")
CopySighand(t, f) == SharedOrNew(t, f, "SIGHAND")
CopyMm(t, f) == SharedOrNew(t, f, "VM")

\* copy_signal: a thread has the signal_struct of its group.
CopySignal(t, u, f) == IF "THREAD" \in f THEN group[t] ELSE u

CopyProcess(t, u, f) ==
    LET got == [FILES |-> CopyFiles(t, f), FS |-> CopyFs(t, f),
                SIGHAND |-> CopySighand(t, f), VM |-> CopyMm(t, f)] IN
    /\ MayStart(t) /\ group[u] = NoObj /\ FlagsValid(f)
    /\ "FS" \in f => MayShareFs(t)
    /\ HasFree(Shared \ f)
    /\ has' = [has EXCEPT ![u] = got]
    /\ refs' = [k \in Shared |-> [refs[k] EXCEPT ![got[k]] = @ + 1]]
    /\ group' = [group EXCEPT ![u] = CopySignal(t, u, f)]
    /\ building' = [building EXCEPT ![t] = u]
    /\ UNCHANGED <<unshared, asked, inExec>>

\* The child becomes visible.
CloneDone(t) ==
    /\ building[t] # NoObj /\ building' = [building EXCEPT ![t] = NoObj]
    /\ UNCHANGED <<has, refs, group, unshared, asked, inExec>>

\* All of a task's references go.
Drop(u) ==
    /\ has' = [has EXCEPT ![u] = NoObjs]
    /\ refs' = [k \in Shared |-> [refs[k] EXCEPT ![has[u][k]] = @ - 1]]
    /\ group' = [group EXCEPT ![u] = NoObj]

\* A later step of copy_process fails: the labels from bad_fork_cleanup_mm to
\* bad_fork_cleanup_files.
CloneFails(t) ==
    /\ building[t] # NoObj /\ building' = [building EXCEPT ![t] = NoObj]
    /\ Drop(building[t])
    /\ UNCHANGED <<unshared, asked, inExec>>

\* exit_files, exit_fs, __cleanup_sighand and exit_mm. The group goes with
\* its last thread.
ExitTask(t) ==
    /\ InUser(t)
    /\ \E u \in ShTasks : InUser(u) /\ u # t
    /\ group[t] = t => Threads(t) = {t}
    /\ Drop(t)
    /\ UNCHANGED <<building, unshared, asked, inExec>>

----------------------------------------------------------------------------
\* unshare.

\* ksys_unshare: what some flags imply, in the order of the code.
Implied(f) ==
    LET a == IF "NEWUSER" \in f THEN f \cup {"THREAD", "FS"} ELSE f
        b == IF "VM" \in a THEN a \cup {"SIGHAND"} ELSE a
        c == IF "SIGHAND" \in b THEN b \cup {"THREAD"} ELSE b
    IN IF "NEWNS" \in c THEN c \cup {"FS"} ELSE c

\* Mutant: another process that shares the handlers is not looked for.
CheckUnshareFlags_NoSighand(t, f) ==
    /\ f \cap {"THREAD", "SIGHAND", "VM"} # {} => Threads(t) = {t}
    /\ "VM" \in f => refs["VM"][has[t]["VM"]] = 1

\* check_unshare_flags: threads, signal handlers and the mm cannot really be
\* unshared, so they must not be shared. current_is_single_threaded looks at
\* the users of the mm.
CheckUnshareFlags(t, f) ==
    /\ f \cap {"THREAD", "SIGHAND", "VM"} # {} => Threads(t) = {t}
    /\ f \cap {"SIGHAND", "VM"} # {} =>
           refs["SIGHAND"][has[t]["SIGHAND"]] = 1
    /\ "VM" \in f => refs["VM"][has[t]["VM"]] = 1

\* unshare_fs and unshare_fd: an object that is shared is copied. The counts
\* are read without a lock.
UnshareCopy(t, f) ==
    LET flags == Implied(f)
        copied == {k \in flags \cap {"FS", "FILES"} : refs[k][has[t][k]] > 1} IN
    /\ MayStart(t) /\ CheckUnshareFlags(t, flags) /\ HasFree(copied)
    /\ asked' = [asked EXCEPT ![t] = flags]
    /\ unshared' = [unshared EXCEPT ![t] =
                    [k \in Shared |-> IF k \in copied THEN FreeObject(k) ELSE NoObj]]
    /\ refs' = [k \in Shared |-> IF k \in copied
                                 THEN [refs[k] EXCEPT ![FreeObject(k)] = 1]
                                 ELSE refs[k]]
    /\ UNCHANGED <<has, group, building, inExec>>

\* ksys_unshare: the task gets the copies and its references to the old
\* objects go, which frees an old one that everybody else has left
\* meanwhile.
UnshareCommit(t) ==
    LET swapped == {k \in Shared : unshared[t][k] # NoObj} IN
    /\ asked[t] # {} /\ asked' = [asked EXCEPT ![t] = {}]
    /\ has' = [has EXCEPT ![t] =
                  [k \in Shared |-> IF k \in swapped THEN unshared[t][k] ELSE @[k]]]
    /\ refs' = [k \in Shared |->
                   IF k \in swapped THEN [refs[k] EXCEPT ![has[t][k]] = @ - 1]
                   ELSE refs[k]]
    /\ unshared' = [unshared EXCEPT ![t] = NoObjs]
    /\ UNCHANGED <<group, building, inExec>>

\* A later copy fails (dup_fd, unshare_userns, the namespaces or the ucounts):
\* the labels free the copies made so far.
UnshareFails(t) ==
    /\ asked[t] # {} /\ asked' = [asked EXCEPT ![t] = {}]
    /\ refs' = [k \in Shared |-> IF unshared[t][k] # NoObj
                                 THEN [refs[k] EXCEPT ![unshared[t][k]] = 0]
                                 ELSE refs[k]]
    /\ unshared' = [unshared EXCEPT ![t] = NoObjs]
    /\ UNCHANGED <<has, group, building, inExec>>

----------------------------------------------------------------------------
\* An exec: fs->in_exec is set when every user of the fs_struct is a thread
\* of this process, which the exec is about to kill.
ExecStart(t) ==
    LET fs == has[t]["FS"] IN
    /\ MayStart(t) /\ inExec[fs] = NoObj
    /\ refs["FS"][fs] <=
           Cardinality({u \in Threads(t) : has[u]["FS"] = fs /\
                            \A v \in ShTasks : building[v] # u})
    /\ inExec' = [inExec EXCEPT ![fs] = t]
    /\ UNCHANGED <<has, refs, group, building, unshared, asked>>

ExecEnd(t) ==
    /\ \E o \in Objects : inExec[o] = t
    /\ inExec' = [o \in Objects |-> IF inExec[o] = t THEN NoObj ELSE inExec[o]]
    /\ UNCHANGED <<has, refs, group, building, unshared, asked>>

ShNext ==
    \E t \in ShTasks :
        \/ CloneDone(t) \/ CloneFails(t) \/ ExitTask(t)
        \/ UnshareCommit(t) \/ UnshareFails(t) \/ ExecStart(t) \/ ExecEnd(t)
        \/ \E u \in ShTasks, f \in CloneFlags : CopyProcess(t, u, f)
        \/ \E f \in UnshareFlags : UnshareCopy(t, f)

----------------------------------------------------------------------------
\* Every variable has its type; a task has all of its objects or none.
ShTypeOK ==
    /\ refs \in [Shared -> [Objects -> Nat]]
    /\ \A t \in ShTasks :
        /\ group[t] = NoObj => has[t] = NoObjs /\ asked[t] = {}
        /\ group[t] # NoObj => has[t] \in [Shared -> Objects]
        /\ unshared[t] \in [Shared -> Objects \cup {NoObj}]
        /\ building[t] \in ShTasks \cup {NoObj}

\* The count of every files_struct, fs_struct, sighand_struct and mm is the
\* number of tasks that have it, a child that is still being built included,
\* plus the unshare that has just made it. Freeing at zero is thus right,
\* whatever forks, exits and failures come between the two halves of an
\* unshare.
SharesExact ==
    \A k \in Shared, o \in Objects :
        refs[k][o] = Cardinality({t \in ShTasks : has[t][k] = o})
                     + Cardinality({t \in ShTasks : unshared[t][k] = o})

\* The threads of a group have the same signal handlers, and tasks with the
\* same signal handlers have the same mm: the comments in copy_process. No
\* sequence of clone and unshare calls breaks it.
ThreadsShare ==
    \A t, u \in ShTasks : group[t] # NoObj /\ group[u] # NoObj =>
        /\ group[t] = group[u] => has[t]["SIGHAND"] = has[u]["SIGHAND"]
        /\ has[t]["SIGHAND"] = has[u]["SIGHAND"] => has[t]["VM"] = has[u]["VM"]

\* While an exec relies on in_exec, every task that has the fs_struct is a
\* thread of the process, so nobody else can change its root or its working
\* directory between the check and the exec.
ExecAlone ==
    \A o \in Objects : inExec[o] # NoObj =>
        \A t \in ShTasks : has[t]["FS"] = o => group[t] = group[inExec[o]]

\* unshare succeeds only if afterwards the task really shares nothing that it
\* asked not to share, although the counts were read before: what was private
\* then is still private, and what was shared was copied.
UnsharedIsPrivate ==
    [][\A t \in ShTasks : UnshareCommit(t) =>
           \A k \in Shared \cap asked[t] : refs'[k][has'[t][k]] = 1]_shVars

\* Tasks share what clone and unshare say they share, the counts say how many
\* do, an exec's fs_struct is its own, and an unshare that succeeds is private.
SharingContract == [](ShTypeOK /\ SharesExact /\ ThreadsShare /\ ExecAlone) /\ UnsharedIsPrivate
=============================================================================
