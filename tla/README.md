# A verification development of OShm

OShm is a set of operating-system exercises built around a modified Linux
5.15.178: a key-value store and per-thread socket attributes as new system
calls, a ramfs that copies its files to a persistent directory, vDSO pages that
show a thread its own `task_struct`, an ACPI table installed by a UEFI
application and read by a driver; and, outside the kernel, a packet capture
tool, a FUSE file system in front of a chat service and GPU communication
benchmarks. Only the changed files of the kernel are in the repository, so most
of the code they call is external to it.

This directory holds TLA+ modules that model parts of that code, TLC
configurations that check them on small instances, and TLAPS proofs for any
size. `PROJECT.json` is the index: which definition stands for which lines,
which run checks which property, what was found, which hazards are covered.
In what follows `K` stands for `src/kvm/linux-5.15.178`.

## The system's parts

| Part | Source | Module | State |
|---|---|---|---|
| write_kv, read_kv | K/kernel/kv_store.c | KvBase, KvStore, KvMap, KvRefinement, KvSched | modelled, proved |
| task creation and the objects of tasks | K/kernel/fork.c | CopyProcess, TaskSharing, DupMmap, MmLife, StackCache, Vfork; KvStore and SocketAttrs for what the repository added | partly, proved in part |
| set_thread_socket_attrs | K/kernel/set_thread_socket_attrs.c | SocketAttrs | modelled, proved |
| socket system calls with a per-thread limit | K/net/socket.c | Sockets, SocketMsgs, MsgCopy, ProtoRegistry | partly, proved in part |
| sock layer | K/net/core/sock.c | SockLock, SockSend, SockLife, SockOpts, SockStamp, ProtoRegistry | partly, proved in part |
| ramfs bound to a persistent directory | K/fs/ramfs/inode.c, file-mmu.c | RamfsSync, RamfsProc | partly, proved in part |
| task_struct and clock pages beside the vDSO | K/arch/x86/entry/vdso | Vtask, VvarClock | partly, proved |
| ACPI table: driver and UEFI applications | K/drivers/acpi/my_acpi_message.c, src/edk2 | AcpiTable | modelled |
| packet capture | src/tcpdump | Capture | modelled |
| GPTfs | src/fuse/gptfs.py | GptFs | partly |
| NCCL and TCP benchmarks | src/nccl | | not modelled |
| /proc/PID/status, call tables, Kconfig, Makefiles, linker scripts | K/fs/proc/array.c, ... | | not modelled |

How they interact: `copy_process` gives a new task its key-value table (shared
within a thread group) and zeroes its socket attributes; `set_thread_socket_attrs`
changes the attributes of any task; `__sock_create` reads the limit and counts;
`sock_init_data` reads the priority; `/proc/PID/status` prints all three. The
UEFI application and the ACPI driver meet in the table's bytes.

## Modules

### The key-value store

`KvBase` has the parameters, the hash and the return codes. `k & 0x3FF` is the
non-negative remainder of a two's complement int; it is `Hash(k) == k % NBuckets`,
and the instances include a negative key.

`KvStore` is the implementation. `kv_store[tb][b]` is chain `b` of table `tb`,
head first; `kv_store_lock[tb][b]` names the holder of its spinlock; `owner[t]`
is the table a task's two pointers name. A call is split wherever another CPU
may act: `InvokeWrite`, `SpinLock`, `WriteScan` (the walk), then `WriteUpdate`,
or `WriteAlloc`/`WriteAllocFails` and `WriteInsert`, then `Unlock`; and
`InvokeRead`, `SpinLock`, `ReadCheck` (`hlist_empty`), `ReadScan`, `Unlock`.
`CloneThread`, `CloneProcess` and `Exit` are what `copy_process` and `free_task`
mean for the tables: a thread takes its creator's pointers, a process gets new
arrays, and nobody frees a table. A failed allocation in `copy_process` creates
no task and is not an action here; `CopyProcess` has it.

`KvMap` is the promise: a map per process, on which every call acts at one
instant between its start and its return. Nothing of the table is visible but
the one thing the code shows: a read of an absent key returns -3 when the chain
is empty and -2 otherwise. `KvRefinement` reads a table's chains as one map
(`AbsStore`) and the program counters as calls (`AbsCall`), and states that
`KvStore` implements `KvMap`: the instant is the step to `unlock`.

`KvSched` puts the threads of one process on `NCPU` processors. `spin_lock`
turns preemption off, so a task gives up its CPU only in user mode, or when
`kmalloc(GFP_KERNEL)`, called with the bucket's lock held, sleeps.

### Socket system calls

`Sockets` models the life of a socket in net/socket.c for threads that share a
descriptor table. A socket is an inode that may have `ops` (and then holds the
protocol's module), a `sk` and a file; the two counters are references on the
module of the protocol's ops and on that of the family. `SockCreate`,
`FamilyGet`, `ProtoCreate`, `OwnerGet` and `PostCreate` are `__sock_create`, in
order, with the limit check of this repository at the beginning and the count at
the end; every error label is a disjunct. `MapFd` and `MapFile` finish
`socket()`; `Pair...` is `socketpair()`, `Accept...` is `accept4()`; `UseCall`
and `EndUse` are the frame shared by all calls that look a socket up, let the
protocol work on it and put it (bind, listen, connect, the names, send, receive,
options, shutdown). `SetAttrs` changes a limit and `ModuleGoing` starts an unload
at any time. Security hooks and the protocol's functions are external: they
succeed or fail. Kernel sockets (`kern` set) skip the limit and are not modelled.
accept4 does not look at the limit, although sched.h:743 calls it the number of
sockets the thread may open; the model has the call as it is.

`MsgCopy` is what sendto, recvfrom, sendmsg and recvmsg copy: a header, an iovec,
an address and control data out of memory that may be bad at any access, or
changed between two reads of the same length. `SocketMsgs` is recvmmsg, several
callers on one socket with its stored error, and sendmmsg, which asks the
security module once for a run of messages to one destination.

`SocketAttrs` is `set_thread_socket_attrs` in full, against tasks that fork and
exit. A slot is the memory of a `task_struct`; it is used again when its
reference count falls to zero. `gen` counts the tasks a slot has held, so a
store through a stale pointer can be told from a good one. A dead task's own
reference is put after an RCU grace period, so not while a caller is between
`find_task_by_vpid` and `get_task_struct`.

### The sock layer

`SockLock` is the lock of a socket: ownership as a flag under the spinlock,
`__lock_sock`, `release_sock` with the drain of the backlog, `lock_sock_fast`,
`sk_wait_data`, and softirqs that queue, drop or leave packets on the backlog.
What happens under the spinlock is one step; only `lock_sock_fast` returns with
it held. `SockSend` is waiting for room in the send buffer, `SockLife` the two
counters that keep a `struct sock` (`sk_refcnt` and `sk_wmem_alloc`) through
alloc, clone, timers, transmissions and close. `SockOpts` is
`sock_setsockopt`, one action per family of options, with integers of `Width`
bits; `SockStamp` the time stamp options with the global count of sockets that
stamp and the SIOCGSTAMP ioctl, which changes flags without the lock;
`ProtoRegistry` the registration of protocols and families with every failure,
unloading, and callers that look a family up under RCU.

### Task creation

`CopyProcess` is `copy_process`: `Copies` lists the acquisitions with the label a
failure jumps to, `Labels` the labels in the order control falls through them,
and `held` counts for each fork what was acquired and not undone. What a fork
does to memory only it can see is one step (`CopyResources` is fourteen calls of
which the n-th fails, or none); it is split where it meets shared state: the
multiprocess list (`CollectSignals`, `ForkOut`), TIF_SIGPENDING
(`CheckSignals`), nr_threads (`CheckLimits`), the pid namespace (`AllocPid`) and
the section under tasklist_lock and siglock (`Attach`). `AllocTables` is where
the repository's change returns without unwinding; a task that took that return
does not fork again in the model, since adding its stack slot to the list twice
is undefined. Signals, kills and the end of a pid namespace are external
actions. The first task may be inside or outside the namespace its children
go to; outside, it may not create threads. Exit is not modelled here, so
the number of visible tasks is nr_threads.

`StackCache` is the per-CPU cache of kernel stacks, `dup_task_struct` and the
references that delay a stack's release. `MmLife` has mm_users, mm_count, the one
work item that `mmput_async` and `mmdrop_async` share, and dup_mm's failures.
`DupMmap` copies a list of vmas with every way one can fail. `TaskSharing` is
what clone, clone3 and unshare share, copy and check. `Vfork` is
`kernel_clone`, `wait_for_vfork_done` and `mm_release`: the completion lives
on the stack of a parent that may be killed.

### vDSO

`Vtask` has the three areas `map_vdso` installs, `map_vdso_once` in its two
steps, `vtask_fault`, mremap, fork and exec, and `get_task_struct_info`, which
finds the pages from the text. Addresses wrap, and an errno is the last page.
`VvarClock` is `vvar_fault` and `vdso_join_timens`: one task inserts a clock page
for all that share the address space.

### ramfs

`RamfsSync` is the flush of a ramfs file to the bound directory:
`ramfs_file_write_iter`, `ramfs_fsync` and the /proc request enter it; `Check`,
`TmpName`, `FinalName`, `OpenTmp`, `CopyBlock`, `CopyEnd`, `LookUp`, `Touch`,
`Dentry` and `Rename` are its steps, each of which may fail as in the code. A
file is a sequence of blocks, each block named by the write that put it there,
so a torn or a stale copy is visible. `Bind`, `BindFree`, `BindNull` and
`BindSet` are `ramfs_bind`; between `BindFree` and `BindNull` the field points
to freed memory, and a read of it yields the old string or another. The
persistent file system is external: its namespace operations are atomic and
reach the disk in order, at the latest with an fsync (`Commit`, `CopyDone`);
`Crash` loses the ramfs, the binding, every call and what is not on disk.
Binds are serialised. inode.c:723 announces an atomic rename, but the final name
is created, empty, before it (inode.c:774): `NoPartialFile` allows that.

`RamfsProc` is the way from the bytes written to the two /proc files to the paths,
over texts of four classes of characters, with the uninitialised `has_content`;
the order in which the entries come and go; and the life of `ramfs_fs_info` from
the fs_context to `ramfs_kill_sb`.

### Outside the kernel

`AcpiTable` is the table from `MyAddAcpiApp` (checksum, allocation, installation)
through `ChangeACPITable` to the driver's reads. `Capture` is the capture tool
with every failure of libpcap; main.c:61 says Ctrl+C stops it, but
`global_handle` (main.c:9) is never assigned, so only the packet limit and
errors do, and `main` has no limit. `GptFs` has the four maps of the FUSE file
system; the service's answers are external.

## Runs

Passing runs explore the whole state space of their instance. Components that
share no state are checked side by side in one run: the variable `part` says
which of them a behaviour is of, and the others stay as they are.

| Run | Components | States | What it shows |
|---|---|---|---|
| kv_store | KvStore against KvMap | 156 k | lock discipline, unique keys, walks that stay valid; linearizability |
| kv_sched | KvSched | 374 | a call returns, or the machine stalls on a writer asleep in kmalloc |
| sockets | Sockets | 571 k | exact references, no leak on any path, limits honoured |
| waits | SockLock, SockSend, Vfork, Capture | 112 k | exclusion and bounds, and whoever waits is woken |
| sock_core | SockLife, SockOpts, SockStamp, ProtoRegistry, SocketMsgs, MsgCopy | 629 k | exact counters and accounts of messages, errors and buffers; options within their limits |
| task_refs | StackCache, MmLife, VvarClock | 37 k | exact references and places of stacks, mms and clock pages |
| task_spaces | SocketAttrs, TaskSharing, DupMmap, Vtask | 489 k | stores reach the named task; shared objects, copied address spaces and the areas beside the vDSO |
| fork_ramfs | CopyProcess, RamfsSync, RamfsProc, AcpiTable, GptFs | 1.1 M | exact unwinding, no child escapes; no partial file, no regress on disk; texts, tables and trees consistent |

A property that joins several statements about one component (`LockSound`,
`LifeExact`, `NoChildEscapes` and the like) is their conjunction, with the
component's type invariant; each conjunct is a definition with its own comment.

Four runs check what a comment of the repository says, and TLC finds it violated:

* `sockets_count`: sched.h:744 calls `socket_count` the number of sockets the
  thread has open; it counts creations and never goes down.
* `ramfs_stored`: file-mmu.c:98 synchronises after each write; an
  older flush that renames last undoes a newer one that has returned.
* `copy_process_delayed`: fork.c:2021 has the delayed node collect signals that
  happen during the fork; after a failed allocation of a key-value array the
  node, a local variable, stays on the list when `copy_process` has returned.
* `vtask_current`: vdso_task.h:17 says that `get_task_struct_info` gets the
  information of the current task; in a process of several threads it gets that
  of the thread that faulted first.

### Bounds, and why they are enough

* kv_store: two keys in one chain give collisions, one key is negative, and the
  other chain is empty; two tasks contend for a lock, as threads of one process
  or as a process and its child. One value equals the return code of a failed
  read. More tasks, keys and chains are covered by the theorems below, which need
  none of these bounds.
* kv_sched: a stall takes more threads than CPUs; three on two is the smallest
  instance where also a spinning CPU and a working CPU coexist.
* sockets: three sockets and descriptors hold a socketpair and a third socket.
  `MaxCreates` caps `socket_count`, which the code never lowers; limit 1 is
  reached within it. -2 is a value the system call ignores, -1 means no limit.
* waits: a reader, a fast locker and a plain locker against one receiving CPU,
  with a buffer of one packet, so that the backlog reaches its limit; two
  senders on a buffer for two or three packets; three tasks for a vfork, its
  child and a joiner; captures of three packets (`Limit`) of three lengths.
* sock_core: two sockets and two packets (`MaxHolders` bounds the references a
  protocol takes), option values around every limit the code tests, in 4 bits;
  two sockets that stamp, with `MaxLost` overlaps of the ioctl; three modules of
  which two are for one family; two receivers of at most `MaxArrivals` messages
  and `MaxErrors` errors; lengths around each bound of the copying calls.
* task_refs: three tasks, three stacks and two CPUs with two cache slots; three
  mms; three address spaces and two time namespaces.
* task_spaces: three slots are a caller, a target and a bystander, and
  `MaxTasks` 4 makes a slot be used a second time; three tasks over three
  objects; all lists of three vmas of five kinds, copied to two children; two
  tasks and two address spaces of 13 pages with three holes.
* fork_ramfs: three tasks are two threads that fork at once, one of which may
  get the remaining task_struct; a kill, a zap and a signal can fall at any
  point of both. Two blocks make torn copies possible, two writes stale ones, and
  two tasks are the smallest number of concurrent flushes. Texts have up to
  `MaxText` characters; strings up to four letters are longer and shorter than
  the table's field. `MaxForks`, `Events`, `MaxWrites` and `MaxCrashes` bound the
  environment, not the code.

Symmetry is used where the members of a set are interchangeable, and in no run
with a liveness property. Deadlock is not checked where the system may stop: in
kv_sched the stall is a real deadlock of the code, and the others have parts
that end (a capture, a batch of messages, a bounded environment).

### Fairness

* kv_sched. `Proceeds` is weakly fair: a task on a CPU executes. `Takes` is
  strongly fair: queued spinlocks serve waiters in order. `Dispatch` and
  `Preempt` are strongly fair: the scheduler gives a CPU that becomes free again
  and again to every runnable task, and takes it from tasks in user mode.
  `AllocReturns` is strongly fair: a small GFP_KERNEL allocation ends once the
  task runs. No fairness makes anybody call anything.
* waits, lock: the task inside `release_sock` goes on although it has to win the
  spinlock from softirqs (`Unlocking`, strong, since queued spinlocks serve in
  order); a section under the spinlock ends and a woken reader runs (weak).
  Nothing makes packets arrive or stop, an owner release, or a timeout expire.
* waits, send: the device completes what it was given, and a woken task runs.
* waits, vfork: a task inside `kernel_clone` or `mm_release` goes on; one in user
  mode need not do anything.
* waits, capture: the tool runs, and packets come.

## Proofs

Every theorem holds for any values of the constants that satisfy the named
assumptions of its module.

* `KvStoreProofs`: `[]TypeOK`, `[]LockDiscipline`, `[]ChainsWellFormed` and
  `[]ScanStillValid`, through the inductive invariant `IInv`.
* `SockLockProofs`: mutual exclusion, no lost wake-up, nothing stranded.
* `TaskSpacesProofs`: `[]AttrSound` and `[]TaskPages`.
* `TaskRefsProofs`: one owner per stack, stacks in place while referenced, and
  `[]ClocksRight`.

Liveness under fairness is outside the prover's reach.

## Not modelled

Benchmarks (floating point and timing over external collectives), build files,
binaries, declarations, linker scripts, ramfs without MMU (not built for x86).
Of net/socket.c: the sockfs inode, fasync, splice and sendpage, compat layouts,
ioctls and kernel-internal sockets. Of net/core/sock.c: the memory accounts of a
protocol, option memory, page fragments, options that only call another
subsystem, the `sock_no_` defaults and /proc/net/protocols. Of fork.c: boot-time
set-up, exe_file, pidfd files and kernel_thread. Of the vDSO: 32-bit and x32
variants and vgetcpu. Of GPTfs: chmod, chown, utimens and statfs, which store or
return numbers nothing else reads. Within modelled parts: two binds at the same
time (undefined behaviour in the allocator), a sync directory that lies on the
same ramfs, and path names longer than PATH_MAX beyond their error return.
