------------------------------ MODULE Sockets ------------------------------
(***************************************************************************)
(* The life of a socket in net/socket.c, with the per-thread limit that    *)
(* __sock_create enforces: socket(), socketpair(), accept4() and close()   *)
(* by threads that share one descriptor table, and the system call         *)
(* set_thread_socket_attrs that changes a thread's limit meanwhile.        *)
(*                                                                         *)
(* A socket is an inode; it may have ops (with a reference on their        *)
(* module), a sk, and a file.  A call is split wherever it calls out of    *)
(* socket.c and may sleep: the protocol's create, alloc_file_pseudo, the   *)
(* protocol's accept.  Arguments out of range and security hooks that      *)
(* refuse before anything is allocated leave no trace and are one action.  *)
(***************************************************************************)
EXTENDS Integers, FiniteSets

CONSTANTS Tasks,       \* threads of a process
          Socks,       \* struct socket / inode pairs
          Fds,         \* the process's descriptors (RLIMIT_NOFILE)
          Limits,      \* values passed as max_sockets
          MaxCreates,  \* bound: counted creations per thread
          None         \* no socket, no descriptor

ASSUME SocketsAssumption ==
    /\ Limits \subseteq Int
    /\ MaxCreates \in Nat
    /\ None \notin Socks \cup Fds \cup Tasks

VARIABLES inode,     \* sockets whose inode is allocated
          ops,       \* sockets with sock->ops set
          sk,        \* sockets whose sk is allocated
          fref,      \* fref[s]: references on the file of s, 0 without file
          opsref,    \* references on the module of the ops
          pfref,     \* references on the module of the protocol family
          opsGoing,  \* the module of the ops is being unloaded
          fdt,       \* fdt[fd]: "unused", "reserved" or the socket behind it
          count,     \* count[t]: task->socket_count
          limit,     \* limit[t]: task->max_socket_allowed
          pc,        \* where each thread is
          loc,       \* loc[t]: the locals of its call
          origin     \* origin[s]: the thread and the call that made s (ghost)

vars == <<inode, ops, sk, fref, opsref, pfref, opsGoing, fdt, count, limit,
          pc, loc, origin>>
sockVars == <<inode, ops, sk, opsref, origin>>
attrVars == <<count, limit>>

\* call: which system call; s1, s2: the sockets it made; f1, f2: descriptors it
\* reserved; lsn: the socket it accepts on; seen: the limit its check read.
NoLocals == [call |-> "none", s1 |-> None, s2 |-> None, f1 |-> None,
             f2 |-> None, lsn |-> None, seen |-> 0]

NoOrigin == [by |-> None, how |-> "none"]

Init ==
    /\ inode = {} /\ ops = {} /\ sk = {}
    /\ fref = [s \in Socks |-> 0]
    /\ opsref = 0 /\ pfref = 0 /\ opsGoing = FALSE
    /\ fdt = [f \in Fds |-> "unused"]
    /\ count = [t \in Tasks |-> 0]
    /\ limit = [t \in Tasks |-> 0]
    /\ pc = [t \in Tasks |-> "idle"]
    /\ loc = [t \in Tasks |-> NoLocals]
    /\ origin = [s \in Socks |-> NoOrigin]

----------------------------------------------------------------------------
\* Helpers.

Goto(t, to) == pc' = [pc EXCEPT ![t] = to]
Return(t) == Goto(t, "idle") /\ loc' = [loc EXCEPT ![t] = NoLocals]

\* __sock_release of sockets without a file: ops->release frees the sk and the
\* module reference is dropped, when there are ops; then the inode goes.
\* Without ops nothing frees the sk.
SockRelease(S) ==
    /\ ops' = ops \ S
    /\ sk' = sk \ (S \cap ops)
    /\ opsref' = opsref - Cardinality(S \cap ops)
    /\ inode' = inode \ S
    /\ origin' = [s \in Socks |-> IF s \in S THEN NoOrigin ELSE origin[s]]

\* fput: the last reference closes the socket through sock_close, and the
\* file's dentry drops the inode.  (The kernel runs the last fput of a thread
\* on its way back to user mode, before the thread can make another call.)
Fput(s) ==
    /\ fref' = [fref EXCEPT ![s] = @ - 1]
    /\ IF fref[s] = 1 THEN SockRelease({s}) ELSE UNCHANGED sockVars

\* sock_alloc: a new inode, its socket zeroed.  (The name of a socket whose sk
\* was lost is not used again.)
SockAlloc(t, s, how) ==
    /\ s \in Socks \ (inode \cup sk)
    /\ inode' = inode \cup {s}
    /\ origin' = [origin EXCEPT ![s] = [by |-> t, how |-> how]]

FreeFds == {f \in Fds : fdt[f] = "unused"}

\* The slot of loc[t] that the socket being created goes to.
Current(t) == IF loc[t].s2 # None THEN loc[t].s2 ELSE loc[t].s1

----------------------------------------------------------------------------
\* __sock_create

\* Mutant: the limit is tested with > instead of >=.
OverLimit_OffByOne(t) == limit[t] > 0 /\ count[t] > limit[t]

OverLimit(t) == limit[t] > 0 /\ count[t] >= limit[t]

\* What sock_create's caller does with an error: socket() returns it,
\* socketpair() releases its first socket, if any, and its descriptors.
CreateFails(t) ==
    IF loc[t].call = "socket"
    THEN Return(t)
    ELSE Goto(t, "pair_fail") /\ UNCHANGED loc

\* The range checks, the limit, the security hook and sock_alloc, any of which
\* may end the call with an error.
SockCreate(t) ==
    /\ pc[t] = "create"
    /\ \/ CreateFails(t) /\ UNCHANGED <<inode, origin>>
       \/ /\ ~OverLimit(t) /\ count[t] < MaxCreates
          /\ \E s \in Socks :
               /\ SockAlloc(t, s, "create")
               /\ loc' = [loc EXCEPT ![t].seen = limit[t],
                            ![t].s1 = IF @ = None THEN s ELSE @,
                            ![t].s2 = IF loc[t].s1 # None THEN s ELSE @]
          /\ Goto(t, "family")
    /\ UNCHANGED <<ops, sk, fref, opsref, pfref, opsGoing, fdt, attrVars>>

\* Forget the socket that __sock_create released and return its error.
\* (loc is reset by CreateFails for socket().)
DropCurrent(t) ==
    IF loc[t].call = "socket"
    THEN Return(t)
    ELSE /\ Goto(t, "pair_fail")
         /\ loc' = [loc EXCEPT ![t].s2 = None,
                      ![t].s1 = IF loc[t].s2 = None THEN None ELSE @]

\* Under rcu_read_lock: the family, possibly after request_module, and a
\* reference on its module; out_release otherwise.
FamilyGet(t) ==
    /\ pc[t] = "family"
    /\ \/ /\ Goto(t, "proto")
          /\ pfref' = pfref + 1
          /\ UNCHANGED <<loc, sockVars>>
       \/ /\ SockRelease({Current(t)})
          /\ DropCurrent(t)
          /\ UNCHANGED pfref
    /\ UNCHANGED <<fref, opsGoing, fdt, attrVars>>

\* pf->create sets ops and sk; on error sk is dropped by the protocol and
\* out_module_put clears ops, puts the family and releases the socket.
ProtoCreate(t) ==
    /\ pc[t] = "proto"
    /\ \/ /\ Goto(t, "owner")
          /\ ops' = ops \cup {Current(t)}
          /\ sk' = sk \cup {Current(t)}
          /\ UNCHANGED <<loc, inode, opsref, pfref, origin>>
       \/ /\ SockRelease({Current(t)})
          /\ pfref' = pfref - 1
          /\ DropCurrent(t)
    /\ UNCHANGED <<fref, opsGoing, fdt, attrVars>>

\* Mutant: out_module_busy releases the socket with its ops still set.
OwnerGet_KeepsOps(t) ==
    /\ pc[t] = "owner"
    /\ pfref' = pfref - 1
    /\ \/ /\ ~opsGoing
          /\ opsref' = opsref + 1
          /\ Goto(t, "post")
          /\ UNCHANGED <<loc, inode, ops, sk, origin>>
       \/ /\ opsGoing
          /\ SockRelease({Current(t)})
          /\ DropCurrent(t)
    /\ UNCHANGED <<fref, opsGoing, fdt, attrVars>>

\* try_module_get(sock->ops->owner) fails while that module is unloaded; then
\* out_module_busy clears ops, so that releasing the socket neither puts the
\* module nor frees the sk.  Otherwise the family's reference is put.
OwnerGet(t) ==
    /\ pc[t] = "owner"
    /\ pfref' = pfref - 1
    /\ \/ /\ ~opsGoing
          /\ opsref' = opsref + 1
          /\ Goto(t, "post")
          /\ UNCHANGED <<loc, inode, ops, sk, origin>>
       \/ /\ opsGoing
          /\ ops' = ops \ {Current(t)}
          /\ inode' = inode \ {Current(t)}
          /\ origin' = [origin EXCEPT ![Current(t)] = NoOrigin]
          /\ DropCurrent(t)
          /\ UNCHANGED <<sk, opsref>>
    /\ UNCHANGED <<fref, opsGoing, fdt, attrVars>>

\* Mutant: a socketpair is counted once.
PostCreate_PairOnce(t) ==
    /\ pc[t] = "post"
    /\ \/ /\ SockRelease({Current(t)})
          /\ DropCurrent(t)
          /\ UNCHANGED count
       \/ /\ count' = [count EXCEPT ![t] = IF loc[t].s2 = None THEN @ + 1 ELSE @]
          /\ Goto(t, CASE loc[t].call = "socket" -> "mapfd"
                       [] loc[t].s2 = None -> "create"
                       [] OTHER -> "pair_connect")
          /\ UNCHANGED <<loc, sockVars>>
    /\ UNCHANGED <<fref, pfref, opsGoing, fdt, limit>>

\* security_socket_post_create refuses, or the creation is counted.
PostCreate(t) ==
    /\ pc[t] = "post"
    /\ \/ /\ SockRelease({Current(t)})
          /\ DropCurrent(t)
          /\ UNCHANGED count
       \/ /\ count' = [count EXCEPT ![t] = @ + 1]
          /\ Goto(t, CASE loc[t].call = "socket" -> "mapfd"
                       [] loc[t].s2 = None -> "create"
                       [] OTHER -> "pair_connect")
          /\ UNCHANGED <<loc, sockVars>>
    /\ UNCHANGED <<fref, pfref, opsGoing, fdt, limit>>

----------------------------------------------------------------------------
\* socket()

SocketCall(t) ==
    /\ pc[t] = "idle"
    /\ Goto(t, "create")
    /\ loc' = [loc EXCEPT ![t].call = "socket"]
    /\ UNCHANGED <<sockVars, fref, pfref, opsGoing, fdt, attrVars>>

\* sock_map_fd: no descriptor is left and the socket is released, or one is
\* reserved.
MapFd(t) ==
    /\ pc[t] = "mapfd"
    /\ \/ /\ SockRelease({loc[t].s1})
          /\ Return(t)
          /\ UNCHANGED fdt
       \/ \E f \in FreeFds :
            /\ fdt' = [fdt EXCEPT ![f] = "reserved"]
            /\ loc' = [loc EXCEPT ![t].f1 = f]
            /\ Goto(t, "mapfile")
            /\ UNCHANGED sockVars
    /\ UNCHANGED <<fref, pfref, opsGoing, attrVars>>

\* Mutant: the descriptor stays reserved when sock_alloc_file fails.
MapFile_KeepsFd(t) ==
    /\ pc[t] = "mapfile"
    /\ \/ /\ fref' = [fref EXCEPT ![loc[t].s1] = 1]
          /\ fdt' = [fdt EXCEPT ![loc[t].f1] = loc[t].s1]
          /\ UNCHANGED sockVars
       \/ /\ SockRelease({loc[t].s1})
          /\ UNCHANGED <<fref, fdt>>
    /\ Return(t)
    /\ UNCHANGED <<pfref, opsGoing, attrVars>>

\* sock_alloc_file, which releases the socket itself when it fails, and then
\* fd_install or put_unused_fd.
MapFile(t) ==
    /\ pc[t] = "mapfile"
    /\ \/ /\ fref' = [fref EXCEPT ![loc[t].s1] = 1]
          /\ fdt' = [fdt EXCEPT ![loc[t].f1] = loc[t].s1]
          /\ UNCHANGED sockVars
       \/ /\ SockRelease({loc[t].s1})
          /\ fdt' = [fdt EXCEPT ![loc[t].f1] = "unused"]
          /\ UNCHANGED fref
    /\ Return(t)
    /\ UNCHANGED <<pfref, opsGoing, attrVars>>

----------------------------------------------------------------------------
\* socketpair()

\* Two descriptors are reserved and copied out first; a failure up to there
\* gives them back and leaves no trace.
PairCall(t) ==
    /\ pc[t] = "idle"
    /\ \E f1, f2 \in FreeFds :
         /\ f1 # f2
         /\ fdt' = [fdt EXCEPT ![f1] = "reserved", ![f2] = "reserved"]
         /\ loc' = [loc EXCEPT ![t].call = "pair", ![t].f1 = f1, ![t].f2 = f2]
    /\ Goto(t, "create")
    /\ UNCHANGED <<sockVars, fref, pfref, opsGoing, attrVars>>

PutFds(t) == fdt' = [fdt EXCEPT ![loc[t].f1] = "unused", ![loc[t].f2] = "unused"]

\* One of the two creations failed: the first socket, if made, is released.
PairFail(t) ==
    /\ pc[t] = "pair_fail"
    /\ SockRelease({loc[t].s1} \ {None})
    /\ PutFds(t)
    /\ Return(t)
    /\ UNCHANGED <<fref, pfref, opsGoing, attrVars>>

\* The security hook and the protocol's socketpair.
PairConnect(t) ==
    /\ pc[t] = "pair_connect"
    /\ \/ /\ Goto(t, "pair_file1")
          /\ UNCHANGED <<sockVars, fdt, loc>>
       \/ /\ SockRelease({loc[t].s1, loc[t].s2})
          /\ PutFds(t)
          /\ Return(t)
    /\ UNCHANGED <<fref, pfref, opsGoing, attrVars>>

PairFile1(t) ==
    /\ pc[t] = "pair_file1"
    /\ \/ /\ fref' = [fref EXCEPT ![loc[t].s1] = 1]
          /\ Goto(t, "pair_file2")
          /\ UNCHANGED <<sockVars, fdt, loc>>
       \/ /\ SockRelease({loc[t].s1, loc[t].s2})
          /\ PutFds(t)
          /\ Return(t)
          /\ UNCHANGED fref
    /\ UNCHANGED <<pfref, opsGoing, attrVars>>

\* When the second file fails its socket is released by sock_alloc_file, the
\* first one by fput(newfile1).
PairFile2(t) ==
    /\ pc[t] = "pair_file2"
    /\ \/ /\ fref' = [fref EXCEPT ![loc[t].s2] = 1]
          /\ fdt' = [fdt EXCEPT ![loc[t].f1] = loc[t].s1, ![loc[t].f2] = loc[t].s2]
          /\ UNCHANGED sockVars
       \/ /\ SockRelease({loc[t].s1, loc[t].s2})
          /\ fref' = [fref EXCEPT ![loc[t].s1] = 0]
          /\ PutFds(t)
    /\ Return(t)
    /\ UNCHANGED <<pfref, opsGoing, attrVars>>

----------------------------------------------------------------------------
\* accept4(), and the calls that use a socket through its descriptor

\* fdget / sockfd_lookup_light in a process with several threads: the file is
\* referenced until the matching fdput.
Fdget(t, f) ==
    /\ fdt[f] \in Socks
    /\ fref' = [fref EXCEPT ![fdt[f]] = @ + 1]

\* __sys_accept4_file reserves the new descriptor first.
AcceptCall(t) ==
    /\ pc[t] = "idle"
    /\ \E f \in Fds, new \in FreeFds :
         /\ Fdget(t, f)
         /\ fdt' = [fdt EXCEPT ![new] = "reserved"]
         /\ loc' = [loc EXCEPT ![t].call = "accept", ![t].lsn = fdt[f], ![t].f1 = new]
    /\ Goto(t, "acc_alloc")
    /\ UNCHANGED <<sockVars, pfref, opsGoing, attrVars>>

\* do_accept: no limit is consulted and nothing is counted.  The listening
\* socket holds the module, so __module_get cannot fail.
AcceptAlloc(t) ==
    /\ pc[t] = "acc_alloc"
    /\ \/ /\ Goto(t, "acc_fail")
          /\ UNCHANGED <<sockVars, loc>>
       \/ /\ \E s \in Socks :
               /\ SockAlloc(t, s, "accept")
               /\ ops' = ops \cup {s}
               /\ opsref' = opsref + 1
               /\ loc' = [loc EXCEPT ![t].s1 = s]
          /\ Goto(t, "acc_file")
          /\ UNCHANGED sk
    /\ UNCHANGED <<fref, pfref, opsGoing, fdt, attrVars>>

AcceptFile(t) ==
    /\ pc[t] = "acc_file"
    /\ \/ /\ fref' = [fref EXCEPT ![loc[t].s1] = 1]
          /\ Goto(t, "acc_wait")
          /\ UNCHANGED <<sockVars, loc>>
       \/ /\ SockRelease({loc[t].s1})
          /\ Goto(t, "acc_fail")
          /\ loc' = [loc EXCEPT ![t].s1 = None]
          /\ UNCHANGED fref
    /\ UNCHANGED <<pfref, opsGoing, fdt, attrVars>>

\* The security hook, the wait for a connection in the protocol's accept and
\* the copy of the peer's address: a failure of any of them drops the new file.
AcceptWait(t) ==
    /\ pc[t] = "acc_wait"
    /\ \/ /\ sk' = sk \cup {loc[t].s1}
          /\ fdt' = [fdt EXCEPT ![loc[t].f1] = loc[t].s1]
          /\ Goto(t, "end_use")
          /\ UNCHANGED <<inode, ops, opsref, origin, fref, loc>>
       \/ /\ Fput(loc[t].s1)
          /\ Goto(t, "acc_fail")
          /\ loc' = [loc EXCEPT ![t].s1 = None]
          /\ UNCHANGED fdt
    /\ UNCHANGED <<pfref, opsGoing, attrVars>>

AcceptFail(t) ==
    /\ pc[t] = "acc_fail"
    /\ fdt' = [fdt EXCEPT ![loc[t].f1] = "unused"]
    /\ Goto(t, "end_use")
    /\ UNCHANGED <<sockVars, fref, pfref, opsGoing, attrVars, loc>>

\* bind, listen, connect, getsockname, getpeername, the send and receive calls,
\* the option calls and shutdown: look the socket up, let its ops work on it
\* (for as long as they like), put the file.
UseCall(t) ==
    /\ pc[t] = "idle"
    /\ \E f \in Fds :
         /\ Fdget(t, f)
         /\ loc' = [loc EXCEPT ![t].call = "use", ![t].lsn = fdt[f]]
    /\ Goto(t, "end_use")
    /\ UNCHANGED <<sockVars, pfref, opsGoing, fdt, attrVars>>

\* fdput / fput_light.
EndUse(t) ==
    /\ pc[t] = "end_use"
    /\ Fput(loc[t].lsn)
    /\ Return(t)
    /\ UNCHANGED <<pfref, opsGoing, fdt, attrVars>>

\* close(): the descriptor is free at once, the socket when its last reference
\* goes.  Nothing is subtracted from the opener's count.
CloseCall(t) ==
    /\ pc[t] = "idle"
    /\ \E f \in Fds :
         /\ fdt[f] \in Socks
         /\ fdt' = [fdt EXCEPT ![f] = "unused"]
         /\ Fput(fdt[f])
    /\ UNCHANGED <<pfref, opsGoing, attrVars, pc, loc>>

----------------------------------------------------------------------------
\* set_thread_socket_attrs on any thread, by anyone permitted, at any time.  A
\* value below -1 is ignored; 0 and -1 mean no limit.
SetAttrs(t) ==
    /\ \E m \in Limits : m >= -1 /\ limit' = [limit EXCEPT ![t] = m]
    /\ UNCHANGED <<sockVars, fref, pfref, opsGoing, fdt, count, pc, loc>>

\* The module of the ops starts to unload, which it can while it has no user.
ModuleGoing ==
    /\ opsref = 0 /\ ~opsGoing
    /\ opsGoing' = TRUE
    /\ UNCHANGED <<sockVars, fref, pfref, fdt, attrVars, pc, loc>>

Step(t) ==
    \/ SocketCall(t) \/ SockCreate(t) \/ FamilyGet(t) \/ ProtoCreate(t)
    \/ OwnerGet(t) \/ PostCreate(t) \/ MapFd(t) \/ MapFile(t)
    \/ PairCall(t) \/ PairFail(t) \/ PairConnect(t) \/ PairFile1(t) \/ PairFile2(t)
    \/ AcceptCall(t) \/ AcceptAlloc(t) \/ AcceptFile(t) \/ AcceptWait(t)
    \/ AcceptFail(t) \/ UseCall(t) \/ EndUse(t) \/ CloseCall(t) \/ SetAttrs(t)

Next == ModuleGoing \/ \E t \in Tasks : Step(t)

Spec == Init /\ [][Next]_vars

----------------------------------------------------------------------------
\* Properties.

Calls == {"none", "socket", "pair", "accept", "use"}
PCs == {"idle", "create", "family", "proto", "owner", "post", "mapfd", "mapfile",
        "pair_fail", "pair_connect", "pair_file1", "pair_file2", "acc_alloc",
        "acc_file", "acc_wait", "acc_fail", "end_use"}

\* Every field holds a value of its C type, and no reference count is negative.
TypeOK ==
    /\ inode \subseteq Socks /\ ops \subseteq inode /\ sk \subseteq Socks
    /\ fref \in [Socks -> Nat]
    /\ opsref \in Nat /\ pfref \in Nat /\ opsGoing \in BOOLEAN
    /\ fdt \in [Fds -> {"unused", "reserved"} \cup Socks]
    /\ count \in [Tasks -> 0..MaxCreates] /\ limit \in [Tasks -> {0} \cup Limits]
    /\ pc \in [Tasks -> PCs]
    /\ loc \in [Tasks -> [call : Calls, s1 : Socks \cup {None}, s2 : Socks \cup {None},
                          f1 : Fds \cup {None}, f2 : Fds \cup {None},
                          lsn : Socks \cup {None}, seen : Int]]
    /\ origin \in [Socks -> [by : Tasks \cup {None}, how : {"none", "create", "accept"}]]

\* The module that implements a socket is held once per socket with ops, except
\* between the protocol's create and try_module_get in __sock_create; there the
\* family's module is held instead, and it is held nowhere else.
ModuleRefs ==
    /\ opsref = Cardinality(ops) - Cardinality({t \in Tasks : pc[t] = "owner"})
    /\ pfref = Cardinality({t \in Tasks : pc[t] \in {"proto", "owner"}})

\* A thread owns a new file from sock_alloc_file to fd_install.
OwnsNewFile(t) == pc[t] \in {"acc_wait", "pair_file2"}

\* A socket's file has exactly one reference per descriptor, per call in
\* progress on it (fdget), and for the call that is about to install it, on
\* every path of socketpair and accept4 and whatever close() races with them.
FileRefs ==
    \A s \in Socks :
        fref[s] = Cardinality({f \in Fds : fdt[f] = s})
                + Cardinality({t \in Tasks : loc[t].lsn = s})
                + Cardinality({t \in Tasks : OwnsNewFile(t) /\ loc[t].s1 = s})

\* A call that looked a socket up keeps it, its ops and its file until its own
\* fput, although another thread may close the descriptor meanwhile.
InUseIsAlive ==
    \A t \in Tasks : loc[t].lsn # None => loc[t].lsn \in inode \cap ops

\* The sockets that descriptors lead to.
Open == {fdt[f] : f \in Fds} \cap Socks

\* When no call is in progress nothing is left behind by the error paths:
\* every inode belongs to an open socket, no descriptor stays reserved, and no
\* sk is lost unless the ops' module was unloaded (out_module_busy).
NoLeak ==
    (\A t \in Tasks : pc[t] = "idle") =>
        /\ inode = Open
        /\ \A f \in Fds : fdt[f] # "reserved"
        /\ opsGoing \/ sk = Open

OpenedBy(t) == {s \in Open : origin[s].by = t}

\* socket_count never falls behind the sockets that the thread made with
\* socket() and socketpair() and that are still open, so the limit of
\* __sock_create cannot be passed by undercounting.
NeverUndercounts ==
    \A t \in Tasks :
        Cardinality({s \in OpenedBy(t) : origin[s].how = "create"}) <= count[t]

\* A creation that is counted was within the limit that its own check read,
\* whatever set_thread_socket_attrs did in between.
LimitHonoured ==
    [][\A t \in Tasks : count'[t] > count[t] /\ loc[t].seen > 0
                            => count'[t] <= loc[t].seen]_vars

\* The reference counts of net/socket.c are exact on every path: the module's,
\* the family's and each file's, and so what a call works on stays.
RefsExact == TypeOK /\ ModuleRefs /\ FileRefs /\ InUseIsAlive

\* As sched.h documents socket_count, "the number of sockets the thread has
\* open": between calls it equals the number of the thread's open sockets.
CountIsOpen ==
    \A t \in Tasks : pc[t] = "idle" => count[t] = Cardinality(OpenedBy(t))

=============================================================================
