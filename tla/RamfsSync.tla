----------------------------- MODULE RamfsSync -----------------------------
(***************************************************************************)
(* The persistence extension of ramfs (fs/ramfs/inode.c, file-mmu.c): a    *)
(* ramfs mount is bound to a directory of a persistent file system, and    *)
(* every write, fsync and request through /proc flushes the whole file     *)
(* there: copy to a temporary file, fsync it, create the final file,       *)
(* rename over it.                                                         *)
(*                                                                         *)
(* Nothing serialises flushes of one file with each other, with writes or  *)
(* with a new bind, so a flush is split at every access to shared state.   *)
(* The file system of the directory is external: its namespace changes are *)
(* atomic and reach the disk in order, at the latest with an fsync.        *)
(***************************************************************************)
EXTENDS Integers, Sequences, FiniteSets

CONSTANTS Tasks,      \* processes that write, fsync or request a sync
          Files,      \* regular files of the ramfs mount
          Names,      \* last components of paths
          NameOf,     \* NameOf[f]: the last component of f's path
          Dirs,       \* directories that can be bound
          NoDir,      \* NULL, or a string that names no directory
          Absent,     \* no file of that name
          MaxBlocks,  \* bound: blocks (copy buffers) in a file
          MaxWrites,  \* bound: writes in all
          MaxCrashes  \* bound: crashes

ASSUME RamfsAssumption ==
    /\ NameOf \in [Files -> Names]
    /\ NoDir \notin Dirs
    /\ Absent \notin [file : Files, blk : Seq(Nat), done : BOOLEAN]
    /\ MaxBlocks \in Nat /\ MaxWrites \in Nat /\ MaxCrashes \in Nat

VARIABLES data,      \* data[f]: the blocks of f, each named by the write it is from
          sync_dir,  \* the string fsi->sync_dir points to
          dangling,  \* that string has been freed
          final,     \* final[d][n]: what the directory holds under n
          durable,   \* what the disk holds: final after a crash
          acked,     \* files whose last state a finished flush stored (ghost)
          pc, loc,   \* where each task is, and its locals
          binder,    \* the bind in progress: its step and its directory
          writes, crashes

syncVars == <<data, sync_dir, dangling, final, durable, acked, pc, loc, binder, writes, crashes>>
world == <<data, sync_dir, dangling, final, durable, acked, binder, writes, crashes>>

\* A file of the persistent directory.  done: a flush copied it to the end and
\* synced it (ghost); the touched final file is empty and not done.
Content(f, blk, done) == [file |-> f, blk |-> blk, done |-> done]

\* f: the file; tmpdir, dir: what the two path names were built from; copy: the
\* temporary file; whole: it was copied to the end; start: the file when the
\* flush was entered; solo: nobody interfered so far (the last three: ghosts).
Locals(f, start, solo) ==
    [f |-> f, tmpdir |-> NoDir, dir |-> NoDir, copy |-> << >>, whole |-> FALSE,
     start |-> start, solo |-> solo]
NoLocals == Locals(Absent, << >>, FALSE)

SyncInit ==
    /\ data = [f \in Files |-> << >>]
    /\ sync_dir = NoDir /\ dangling = FALSE
    /\ final = [d \in Dirs |-> [n \in Names |-> Absent]]
    /\ durable = final
    /\ acked = {}
    /\ pc = [t \in Tasks |-> "idle"]
    /\ loc = [t \in Tasks |-> NoLocals]
    /\ binder = [at |-> "idle", dir |-> NoDir]
    /\ writes = 0 /\ crashes = 0

\* Flushes that end in the same final file as a flush of f.
Same(t, f) == pc[t] # "idle" /\ NameOf[loc[t].f] = NameOf[f]

\* Everybody else's flush of f's name has met interference.
Disturb(l, f, t) ==
    [u \in Tasks |-> IF u # t /\ Same(u, f) THEN [l[u] EXCEPT !.solo = FALSE] ELSE l[u]]

\* Task t enters ramfs_file_flush for f, which holds blk.
Enter(t, f, blk) ==
    /\ pc' = [pc EXCEPT ![t] = "check"]
    /\ loc' = [Disturb(loc, f, t) EXCEPT ![t] =
                 Locals(f, blk, binder.at = "idle" /\ \A u \in Tasks \ {t} : ~Same(u, f))]

Goto(t, to) == pc' = [pc EXCEPT ![t] = to]
Return(t) == Goto(t, "idle") /\ loc' = [loc EXCEPT ![t] = NoLocals]

----------------------------------------------------------------------------
\* The callers of ramfs_file_flush.

\* ramfs_file_write_iter: one block is overwritten or appended; then, if a
\* directory is bound, the file is flushed, through a second open file if this
\* one is not readable.  When that open fails the write is not flushed.
WriteIter(t) ==
    /\ pc[t] = "idle" /\ writes < MaxWrites
    /\ writes' = writes + 1
    /\ \E f \in Files, b \in 1..MaxBlocks :
         /\ b <= Len(data[f]) + 1
         /\ data' = [data EXCEPT ![f] =
                       IF b <= Len(@) THEN [@ EXCEPT ![b] = writes'] ELSE Append(@, writes')]
         /\ \/ sync_dir # NoDir /\ Enter(t, f, data'[f])
            \/ loc' = Disturb(loc, f, t) /\ UNCHANGED pc
         /\ acked' = acked \ {f}
    /\ UNCHANGED <<sync_dir, dangling, final, durable, binder, crashes>>

\* ramfs_fsync, and ramfs_proc_sync_write with the path of f.  A failure to
\* open the file a second time ends the call before the flush.
Fsync(t) ==
    /\ pc[t] = "idle"
    /\ \E f \in Files : Enter(t, f, data[f])
    /\ UNCHANGED world

----------------------------------------------------------------------------
\* ramfs_file_flush

\* The directory that a read of fsi->sync_dir yields; freed memory holds the
\* old string or something else.
ReadDir == IF dangling THEN {sync_dir, NoDir} ELSE {sync_dir}

\* -EINVAL when nothing is bound; -ENOMEM or a path too long; or go on.
Check(t) ==
    /\ pc[t] = "check"
    /\ \/ sync_dir # NoDir /\ Goto(t, "tmpname") /\ UNCHANGED loc
       \/ Return(t)
    /\ UNCHANGED world

\* The two snprintf, each of which reads fsi->sync_dir again.
TmpName(t) ==
    /\ pc[t] = "tmpname"
    /\ \E d \in ReadDir : loc' = [loc EXCEPT ![t].tmpdir = d]
    /\ Goto(t, "finalname")
    /\ UNCHANGED world

FinalName(t) ==
    /\ pc[t] = "finalname"
    /\ \E d \in ReadDir : loc' = [loc EXCEPT ![t].dir = d]
    /\ Goto(t, "open")
    /\ UNCHANGED world

\* The name of the temporary file has the time and the pid in it, so it is new.
OpenTmp(t) ==
    /\ pc[t] = "open"
    /\ \/ Return(t)
       \/ loc[t].tmpdir # NoDir /\ Goto(t, "copy") /\ UNCHANGED loc
    /\ UNCHANGED world

\* An error return after the temporary file was created.  Nobody unlinks it,
\* and nobody will look at it again: a later flush makes another name.
Abandon(t) == Return(t) /\ UNCHANGED world

\* Mutant: the source position does not advance.
CopyBlock_Rereads(t) ==
    LET src == data[loc[t].f]
        pos == Len(loc[t].copy) + 1
    IN  /\ pc[t] = "copy"
        /\ pos <= Len(src)
        /\ \/ /\ loc' = [loc EXCEPT ![t].copy = Append(@, src[1])]
              /\ UNCHANGED <<pc, world>>
           \/ Abandon(t)

\* copy_file_content reads a buffer and writes it; a short write ends the flush.
CopyBlock(t) ==
    LET src == data[loc[t].f]
        pos == Len(loc[t].copy) + 1
    IN  /\ pc[t] = "copy"
        /\ pos <= Len(src)
        /\ \/ /\ loc' = [loc EXCEPT ![t].copy = Append(@, src[pos])]
              /\ UNCHANGED <<pc, world>>
           \/ Abandon(t)

\* The copy loop is left without an error.
CopyDone(t) ==
    /\ durable' = final
    /\ loc' = [loc EXCEPT ![t].whole = Len(loc[t].copy) >= Len(data[loc[t].f])]
    /\ Goto(t, "lookup")
    /\ UNCHANGED <<data, sync_dir, dangling, final, acked, binder, writes, crashes>>

\* Mutant: a short write is not reported.
CopyEnd_IgnoresShortWrite(t) ==
    /\ pc[t] = "copy"
    /\ CopyDone(t) \/ Abandon(t)

\* End of file: vfs_fsync of the temporary file, which also brings the
\* namespace changes made before to the disk.
CopyEnd(t) ==
    /\ pc[t] = "copy"
    /\ Len(loc[t].copy) >= Len(data[loc[t].f])
    /\ CopyDone(t) \/ Abandon(t)

\* kern_path of the temporary file and of the directory of final_path.
LookUp(t) ==
    /\ pc[t] = "lookup"
    /\ \/ loc[t].dir # NoDir /\ Goto(t, "touch") /\ UNCHANGED <<loc, world>>
       \/ Abandon(t)

\* Mutant: the final file is opened with O_TRUNC.
Touch_Truncates(t) ==
    /\ pc[t] = "touch"
    /\ final' = [final EXCEPT ![loc[t].dir][NameOf[loc[t].f]] =
                   Content(loc[t].f, << >>, FALSE)]
    /\ Goto(t, "dentry")
    /\ UNCHANGED <<loc, data, sync_dir, dangling, durable, acked, binder, writes, crashes>>

\* filp_open(final_path, O_WRONLY | O_CREAT): creates it unless it is there; a
\* failure is only logged.
Touch(t) ==
    LET there == final[loc[t].dir][NameOf[loc[t].f]]
    IN  /\ pc[t] = "touch"
        /\ \/ /\ there = Absent
              /\ final' = [final EXCEPT ![loc[t].dir][NameOf[loc[t].f]] =
                             Content(loc[t].f, << >>, FALSE)]
           \/ UNCHANGED final
        /\ Goto(t, "dentry")
        /\ UNCHANGED <<loc, data, sync_dir, dangling, durable, acked, binder, writes, crashes>>

\* lookup_one_len of the final name.
Dentry(t) ==
    /\ pc[t] = "dentry"
    /\ \/ Goto(t, "rename") /\ UNCHANGED <<loc, world>>
       \/ Abandon(t)

\* do_renameat2, which fails also when the two directories are on different
\* file systems.
Rename(t) ==
    /\ pc[t] = "rename"
    /\ \/ /\ final' = [final EXCEPT ![loc[t].dir][NameOf[loc[t].f]] =
                         Content(loc[t].f, loc[t].copy, loc[t].whole)]
          /\ acked' = IF loc[t].start = data[loc[t].f] /\ loc[t].dir = sync_dir
                      THEN acked \cup {loc[t].f} ELSE acked
          /\ Return(t)
          /\ UNCHANGED <<data, sync_dir, dangling, durable, binder, writes, crashes>>
       \/ Abandon(t)

----------------------------------------------------------------------------
\* ramfs_bind.  One process binds at a time.

BindUnchanged == UNCHANGED <<data, final, durable, pc, writes, crashes>>

\* Both paths exist, the first is on a ramfs and the second a directory.
Bind(d) ==
    /\ binder.at = "idle"
    /\ binder' = [at |-> "free", dir |-> d]
    /\ loc' = [t \in Tasks |-> [loc[t] EXCEPT !.solo = FALSE]]
    /\ UNCHANGED <<sync_dir, dangling, acked>> /\ BindUnchanged

BindFree ==
    /\ binder.at = "free"
    /\ binder' = [binder EXCEPT !.at = "null"]
    /\ dangling' = (sync_dir # NoDir)
    /\ UNCHANGED <<sync_dir, acked, loc>> /\ BindUnchanged

BindNull ==
    /\ binder.at = "null"
    /\ binder' = [binder EXCEPT !.at = "set"]
    /\ sync_dir' = NoDir /\ dangling' = FALSE
    /\ acked' = {}
    /\ UNCHANGED loc /\ BindUnchanged

\* kstrdup; when it fails the mount stays unbound.
BindSet ==
    /\ binder.at = "set"
    /\ binder' = [at |-> "idle", dir |-> NoDir]
    /\ sync_dir' \in {binder.dir, NoDir}
    /\ UNCHANGED <<dangling, acked, loc>> /\ BindUnchanged

----------------------------------------------------------------------------
\* The persistent file system, and crashes.

Commit ==
    /\ durable # final
    /\ durable' = final
    /\ UNCHANGED <<data, sync_dir, dangling, final, acked, pc, loc, binder, writes, crashes>>

\* The ramfs, the binding and every call are gone.
Crash ==
    /\ crashes < MaxCrashes
    /\ crashes' = crashes + 1
    /\ final' = durable
    /\ data' = [f \in Files |-> << >>]
    /\ sync_dir' = NoDir /\ dangling' = FALSE
    /\ pc' = [t \in Tasks |-> "idle"]
    /\ loc' = [t \in Tasks |-> NoLocals]
    /\ binder' = [at |-> "idle", dir |-> NoDir]
    /\ acked' = {}
    /\ UNCHANGED <<durable, writes>>

FlushStep(t) ==
    \/ Check(t) \/ TmpName(t) \/ FinalName(t) \/ OpenTmp(t) \/ CopyBlock(t) \/ CopyEnd(t)
    \/ LookUp(t) \/ Touch(t) \/ Dentry(t) \/ Rename(t)

SyncNext ==
    \/ \E t \in Tasks : WriteIter(t) \/ Fsync(t) \/ FlushStep(t)
    \/ \E d \in Dirs : Bind(d)
    \/ BindFree \/ BindNull \/ BindSet
    \/ Commit \/ Crash

SyncSpec == SyncInit /\ [][SyncNext]_syncVars

----------------------------------------------------------------------------
\* Properties.

PCs == {"idle", "check", "tmpname", "finalname", "open", "copy", "lookup", "touch",
        "dentry", "rename"}

Blocks == {s \in Seq(1..MaxWrites) : Len(s) <= MaxBlocks}
Contents == [file : Files, blk : Blocks, done : BOOLEAN] \cup {Absent}

\* Every variable stays in its type.
SyncTypeOK ==
    /\ data \in [Files -> Blocks]
    /\ sync_dir \in Dirs \cup {NoDir} /\ dangling \in BOOLEAN
    /\ final \in [Dirs -> [Names -> Contents]] /\ durable \in [Dirs -> [Names -> Contents]]
    /\ acked \subseteq Files
    /\ pc \in [Tasks -> PCs]
    /\ loc \in [Tasks -> [f : Files \cup {Absent}, tmpdir : Dirs \cup {NoDir},
                          dir : Dirs \cup {NoDir}, copy : Blocks, whole : BOOLEAN,
                          start : Blocks, solo : BOOLEAN]]
    /\ binder \in [at : {"idle", "free", "null", "set"}, dir : Dirs \cup {NoDir}]
    /\ writes \in 0..MaxWrites /\ crashes \in 0..MaxCrashes

\* Whatever flushes, failures and crashes happen, and also on the disk, a file
\* of the bound directory is the touched empty one or a copy that reached the
\* end of its source and was synced, of a file of that name: never the
\* beginning of a copy and never parts of two.
NoPartialFile ==
    \A d \in Dirs, n \in Names : \A c \in {final[d][n], durable[d][n]} :
        c # Absent => /\ NameOf[c.file] = n
                      /\ c.done \/ c.blk = << >>

\* Once the disk holds a complete copy under a name it always will: touching
\* the final file does not truncate it, and the rename reaches the disk after
\* the data it makes visible.
NoRegress ==
    [][\A d \in Dirs, n \in Names :
         durable[d][n] # Absent /\ durable[d][n].done
             => durable'[d][n] # Absent /\ durable'[d][n].done]_syncVars

\* A flush that no write, no other flush of the same name and no bind overlaps
\* is about to rename the file as it is, within the bound directory.
SoloFlushExact ==
    \A t \in Tasks :
        pc[t] \in {"lookup", "touch", "dentry", "rename"} /\ loc[t].solo =>
            /\ loc[t].copy = data[loc[t].f]
            /\ loc[t].tmpdir = sync_dir /\ loc[t].dir = sync_dir /\ sync_dir # NoDir

\* As file-mmu.c says of a write, "if the write succeeded and a directory is
\* configured, synchronise": after a flush that covered the last write has
\* returned success, the bound directory holds that last state.
AckedIsStored ==
    \A f \in acked : /\ final[sync_dir][NameOf[f]] # Absent
                     /\ final[sync_dir][NameOf[f]].blk = data[f]
=============================================================================
