-------------------------- MODULE RamfsSyncProofs --------------------------
(***************************************************************************)
(* The flush of ramfs files, for any number of tasks, files, directories,  *)
(* writes and crashes.                                                     *)
(***************************************************************************)
EXTENDS RamfsSync, SequenceTheorems, TLAPS

\* The SMT solver gets a minute for a leaf; a leaf that is better left to Zenon
\* says so.
USE SMTT(60)

Done(c) == c # Absent /\ c.done

LocalType == [f : Files \cup {Absent}, tmpdir : Dirs \cup {NoDir}, dir : Dirs \cup {NoDir},
              copy : Blocks, whole : BOOLEAN, start : Blocks, solo : BOOLEAN]

\* Past the copy loop.
Copied == {"lookup", "touch", "dentry", "rename"}

(* A task in a flush has a file, from kern_path on a directory to put it into, *)
(* and from the end of the copy loop a complete copy.                          *)
FlushOK(t) ==
  /\ pc[t] # "idle" => loc[t].f \in Files
  /\ pc[t] \in {"touch", "dentry", "rename"} => loc[t].dir \in Dirs
  /\ pc[t] \in Copied => loc[t].whole

(* What the disk has of complete files the directory still has. *)
DiskBehind ==
  \A d \in Dirs, n \in Names : Done(durable[d][n]) => Done(final[d][n])

(* A flush nobody interfered with has found one directory throughout, and its  *)
(* copy is a beginning of the file.                                            *)
SoloOK(t) ==
  loc[t].solo =>
    /\ pc[t] # "idle" /\ binder.at = "idle"
    /\ pc[t] # "check" => sync_dir # NoDir
    /\ pc[t] \notin {"check", "tmpname"} => loc[t].tmpdir = sync_dir
    /\ pc[t] \notin {"check", "tmpname", "finalname"} => loc[t].dir = sync_dir
    /\ Len(loc[t].copy) <= Len(data[loc[t].f])
    /\ \A i \in 1 .. Len(loc[t].copy) : loc[t].copy[i] = data[loc[t].f][i]
    /\ pc[t] \in Copied => loc[t].copy = data[loc[t].f]

FreedInBind == dangling => binder.at = "null"

SyncInv ==
  /\ SyncTypeOK /\ NoPartialFile /\ DiskBehind /\ FreedInBind
  /\ \A t \in Tasks : FlushOK(t) /\ SoloOK(t)

----------------------------------------------------------------------------
(* What the steps do to the calls in progress. *)

\* A flush goes on where it was; it may have met interference.
Kept(u) ==
  /\ pc'[u] = pc[u] /\ loc'[u] \in LocalType
  /\ loc'[u].f = loc[u].f /\ loc'[u].tmpdir = loc[u].tmpdir /\ loc'[u].dir = loc[u].dir
  /\ loc'[u].copy = loc[u].copy /\ loc'[u].whole = loc[u].whole
  /\ loc'[u].start = loc[u].start
  /\ loc'[u].solo => loc[u].solo

(* The blocks of a file are a sequence of natural numbers. *)
LEMMA BlockSeq ==
  ASSUME NEW s \in Blocks
  PROVE  s \in Seq(1..MaxWrites) /\ s \in Seq(Nat) /\ Len(s) \in Nat /\ Len(s) <= MaxBlocks
<1>1. s \in Seq(1..MaxWrites) /\ Len(s) \in Nat /\ Len(s) <= MaxBlocks
  BY DEF Blocks
<1>2. 1..MaxWrites \subseteq Nat
  OBVIOUS
<1> QED
  BY <1>1, <1>2, SeqMonotonic, ZenonT(60)

(* The next block of a file can be added to a shorter copy. *)
LEMMA BlockCopied ==
  ASSUME NEW s \in Blocks, NEW src \in Blocks, Len(s) + 1 <= Len(src)
  PROVE  Append(s, src[Len(s) + 1]) \in Blocks
<1>1. src[Len(s) + 1] \in 1..MaxWrites
  <2>1. src \in Seq(1..MaxWrites) /\ Len(s) + 1 \in 1 .. Len(src)
    BY BlockSeq
  <2> QED
    BY <2>1, ElementOfSeq, ZenonT(60)
<1>2. Append(s, src[Len(s) + 1]) \in Seq(1..MaxWrites)
  BY <1>1, BlockSeq
<1>3. Len(Append(s, src[Len(s) + 1])) = Len(s) + 1
  BY <1>1, BlockSeq
<1> QED
  BY <1>2, <1>3, BlockSeq, RamfsAssumption DEF Blocks

(* A write overwrites a block or adds one. *)
LEMMA BlockWritten ==
  ASSUME NEW s \in Blocks, NEW b \in 1..MaxBlocks, b <= Len(s) + 1, NEW w \in 1..MaxWrites
  PROVE  (IF b <= Len(s) THEN [s EXCEPT ![b] = w] ELSE Append(s, w)) \in Blocks
<1>1. CASE b <= Len(s)
  <2>1. [s EXCEPT ![b] = w] \in Seq(1..MaxWrites) /\ Len([s EXCEPT ![b] = w]) = Len(s)
    BY <1>1, BlockSeq
  <2> QED
    BY <1>1, <2>1, BlockSeq DEF Blocks
<1>2. CASE ~(b <= Len(s))
  <2>1. Append(s, w) \in Seq(1..MaxWrites) /\ Len(Append(s, w)) = Len(s) + 1
    BY BlockSeq
  <2>2. b = Len(s) + 1
    BY <1>2, BlockSeq, RamfsAssumption
  <2> QED
    BY <1>2, <2>1, <2>2, RamfsAssumption DEF Blocks
<1> QED
  BY <1>1, <1>2

(* A flush that has not begun has locals of their types. *)
LEMMA FreshLocals ==
  ASSUME NEW f \in Files \cup {Absent}, NEW blk \in Blocks, NEW solo \in BOOLEAN
  PROVE  Locals(f, blk, solo) \in LocalType
<1>1. << >> \in Blocks
  BY RamfsAssumption DEF Blocks
<1> QED
  BY <1>1 DEF Locals, LocalType

\* What ramfs_file_flush starts with.
LEMMA LocalsFields ==
  ASSUME NEW f, NEW blk, NEW solo
  PROVE  LET l == Locals(f, blk, solo)
         IN  l.f = f /\ l.copy = << >> /\ l.solo = solo
  BY DEF Locals

\* The locals between two flushes.
LEMMA NoLocalsType == NoLocals \in LocalType /\ NoLocals.solo = FALSE
<1>1. << >> \in Blocks
  BY RamfsAssumption DEF Blocks
<1> QED
  BY <1>1, FreshLocals, ZenonT(60) DEF NoLocals, Locals

(* Interference with the flushes of a name changes nothing but their marks. *)
LEMMA Disturbs ==
  ASSUME SyncTypeOK, NEW t \in Tasks, NEW f \in Files, NEW u \in Tasks \ {t}
  PROVE  LET l == Disturb(loc, f, t)[u]
         IN  /\ l \in LocalType
             /\ l.f = loc[u].f /\ l.tmpdir = loc[u].tmpdir /\ l.dir = loc[u].dir
             /\ l.copy = loc[u].copy /\ l.whole = loc[u].whole /\ l.start = loc[u].start
             /\ l.solo => loc[u].solo /\ ~Same(u, f)
<1>1. loc[u] \in LocalType
  BY DEF SyncTypeOK, LocalType
<1>2. Disturb(loc, f, t)[u] = IF Same(u, f) THEN [loc[u] EXCEPT !.solo = FALSE] ELSE loc[u]
  BY DEF Disturb
<1>3. CASE Same(u, f)
  BY <1>1, <1>2, <1>3, ZenonT(60) DEF LocalType
<1>4. CASE ~Same(u, f)
  BY <1>1, <1>2, <1>4 DEF LocalType
<1> QED
  BY <1>3, <1>4

(* Entering ramfs_file_flush. *)
LEMMA Enters ==
  ASSUME SyncTypeOK, NEW t \in Tasks, NEW f \in Files, NEW blk \in Blocks, Enter(t, f, blk)
  PROVE  /\ pc' \in [Tasks -> PCs] /\ loc' \in [Tasks -> LocalType]
         /\ pc'[t] = "check"
         /\ loc'[t].f = f /\ loc'[t].copy = << >> /\ (loc'[t].solo => binder.at = "idle")
         /\ \A u \in Tasks \ {t} : Kept(u) /\ (loc'[u].solo => ~Same(u, f))
<1> DEFINE s == binder.at = "idle" /\ \A u \in Tasks \ {t} : ~Same(u, f)
<1>1. Locals(f, blk, s) \in LocalType
  BY FreshLocals, ZenonT(60)
<1>2. pc' \in [Tasks -> PCs] /\ pc'[t] = "check" /\ \A u \in Tasks \ {t} : pc'[u] = pc[u]
  BY DEF Enter, SyncTypeOK, PCs
<1>3. loc'[t] = Locals(f, blk, s) /\ \A u \in Tasks \ {t} : loc'[u] = Disturb(loc, f, t)[u]
  BY ZenonT(60) DEF Enter, Disturb
<1>4. \A u \in Tasks \ {t} : Kept(u) /\ (loc'[u].solo => ~Same(u, f))
  BY <1>2, <1>3, Disturbs DEF Kept
<1>5. loc' = [u \in Tasks |-> loc'[u]]
  BY ZenonT(60) DEF Enter, Disturb
<1>6. \A u \in Tasks : loc'[u] \in LocalType
  BY <1>1, <1>3, <1>4 DEF Kept
<1>7. s \in BOOLEAN /\ (s => binder.at = "idle")
  OBVIOUS
<1> HIDE DEF s
<1>8. loc'[t].f = f /\ loc'[t].copy = << >> /\ loc'[t].solo = s
  BY <1>3, LocalsFields
<1>9. loc'[t].solo => binder.at = "idle"
  BY <1>7, <1>8
<1> QED
  BY <1>2, <1>4, <1>5, <1>6, <1>8, <1>9

(* A return leaves no locals behind. *)
LEMMA Returns ==
  ASSUME SyncTypeOK, NEW t \in Tasks, Return(t)
  PROVE  /\ pc' \in [Tasks -> PCs] /\ loc' \in [Tasks -> LocalType]
         /\ pc'[t] = "idle" /\ loc'[t] = NoLocals
         /\ \A u \in Tasks \ {t} : Kept(u)
  BY NoLocalsType DEF Return, Goto, SyncTypeOK, Kept, PCs, LocalType

\* A file that may come to stand under n in the directory d.
Storable(d, n, c) ==
  /\ d \in Dirs /\ n \in Names
  /\ c \in Contents /\ c # Absent /\ NameOf[c.file] = n
  /\ c.done \/ c.blk = << >>
  /\ Done(final[d][n]) => c.done

(* A step of a flush: the task stays well formed, the others go on, and the     *)
(* directory changes at most by one file that may stand there.                  *)
FlushEffect(t) ==
  /\ pc' \in [Tasks -> PCs] /\ loc' \in [Tasks -> LocalType]
  /\ FlushOK(t)'
  /\ \A u \in Tasks \ {t} : Kept(u)
  /\ acked' \subseteq Files
  /\ UNCHANGED <<data, sync_dir, dangling, binder, writes, crashes>>
  /\ \/ UNCHANGED final /\ durable' \in {durable, final}
     \/ \E d \in Dirs, n \in Names, c \in Contents :
          /\ Storable(d, n, c) /\ final' = [final EXCEPT ![d][n] = c]
          /\ UNCHANGED durable

\* Returning from ramfs_file_flush is one of the effects a flush may have.
LEMMA ReturnEffect ==
  ASSUME SyncTypeOK, NEW t \in Tasks, Return(t), UNCHANGED world
  PROVE  FlushEffect(t)
  BY Returns DEF FlushEffect, FlushOK, world, SyncTypeOK, Copied

\* Every step of ramfs_file_flush has one of the effects a flush may have.
LEMMA FlushEffects ==
  ASSUME SyncTypeOK, NEW t \in Tasks, FlushOK(t), FlushStep(t)
  PROVE  FlushEffect(t)
<1>0. loc \in [Tasks -> LocalType] /\ pc \in [Tasks -> PCs] /\ acked \subseteq Files
  BY DEF SyncTypeOK, LocalType
<1>1. CASE Check(t)
  <2>1. CASE Goto(t, "tmpname") /\ UNCHANGED loc
    BY <1>0, <1>1, <2>1, ZenonT(60) DEF Check, Goto, FlushEffect, FlushOK, Kept, world, PCs, Copied
  <2> QED
    BY <1>1, <2>1, ReturnEffect, ZenonT(60) DEF Check
<1>2. CASE TmpName(t)
  <2>1. PICK d \in Dirs \cup {NoDir} : loc' = [loc EXCEPT ![t].tmpdir = d]
    BY <1>2, ZenonT(60) DEF TmpName, ReadDir, SyncTypeOK
  <2>2. [loc[t] EXCEPT !.tmpdir = d] \in LocalType
    BY <1>0 DEF LocalType
  <2> QED
    BY <1>0, <1>2, <2>1, <2>2
       DEF TmpName, Goto, FlushEffect, FlushOK, Kept, world, PCs, Copied, LocalType
<1>3. CASE FinalName(t)
  <2>1. PICK d \in Dirs \cup {NoDir} : loc' = [loc EXCEPT ![t].dir = d]
    BY <1>3, ZenonT(60) DEF FinalName, ReadDir, SyncTypeOK
  <2>2. [loc[t] EXCEPT !.dir = d] \in LocalType
    BY <1>0 DEF LocalType
  <2> QED
    BY <1>0, <1>3, <2>1, <2>2
       DEF FinalName, Goto, FlushEffect, FlushOK, Kept, world, PCs, Copied, LocalType
<1>4. CASE OpenTmp(t)
  <2>1. CASE Goto(t, "copy") /\ UNCHANGED loc
    BY <1>0, <1>4, <2>1 DEF OpenTmp, Goto, FlushEffect, FlushOK, Kept, world, PCs, Copied
  <2> QED
    BY <1>4, <2>1, ReturnEffect DEF OpenTmp
<1>5. CASE CopyBlock(t)
  <2> DEFINE src == data[loc[t].f]
             pos == Len(loc[t].copy) + 1
             new == Append(loc[t].copy, src[pos])
  <2>1. CASE loc' = [loc EXCEPT ![t].copy = Append(@, src[pos])] /\ UNCHANGED <<pc, world>>
    <3>1. src \in Blocks /\ loc[t].copy \in Blocks /\ pos <= Len(src)
      BY <1>0, <1>5 DEF CopyBlock, SyncTypeOK, FlushOK, LocalType
    <3>2. new \in Blocks
      BY <3>1, BlockCopied, ZenonT(60)
    <3> HIDE DEF new
    <3>3. loc' = [loc EXCEPT ![t] = [loc[t] EXCEPT !.copy = new]]
      BY <1>0, <2>1 DEF new
    <3>4. [loc[t] EXCEPT !.copy = new] \in LocalType
      BY <1>0, <3>2, ZenonT(60) DEF LocalType
    <3> QED
      BY <1>0, <1>5, <2>1, <3>3, <3>4, ZenonT(60)
         DEF CopyBlock, FlushEffect, FlushOK, Kept, world, Copied, LocalType
  <2> QED
    BY <1>5, <2>1, ReturnEffect DEF CopyBlock, Abandon
<1>6. CASE CopyEnd(t)
  <2>1. CASE CopyDone(t)
    <3>1. loc' = [loc EXCEPT ![t].whole = TRUE]
      <4>1. (Len(loc[t].copy) >= Len(data[loc[t].f])) = TRUE
        BY <1>6 DEF CopyEnd
      <4> QED
        BY <2>1, <4>1, ZenonT(60) DEF CopyDone
    <3>2. [loc[t] EXCEPT !.whole = TRUE] \in LocalType
      BY <1>0, ZenonT(60) DEF LocalType
    <3> QED
      BY <1>0, <1>6, <2>1, <3>1, <3>2
         DEF CopyEnd, CopyDone, Goto, FlushEffect, FlushOK, Kept, PCs, Copied, LocalType
  <2> QED
    BY <1>6, <2>1, ReturnEffect DEF CopyEnd, Abandon
<1>7. CASE LookUp(t)
  <2>1. CASE loc[t].dir # NoDir /\ Goto(t, "touch") /\ UNCHANGED <<loc, world>>
    BY <1>0, <1>7, <2>1
       DEF LookUp, Goto, FlushEffect, FlushOK, Kept, world, PCs, Copied, LocalType
  <2> QED
    BY <1>7, <2>1, ReturnEffect DEF LookUp, Abandon
<1>8. CASE Touch(t)
  <2> DEFINE d == loc[t].dir
             n == NameOf[loc[t].f]
             c == Content(loc[t].f, << >>, FALSE)
  <2>1. d \in Dirs /\ n \in Names /\ loc[t].f \in Files
    BY <1>0, <1>8, RamfsAssumption, ZenonT(60) DEF Touch, FlushOK
  <2>2. ASSUME final[d][n] = Absent PROVE Storable(d, n, c)
    <3>1. << >> \in Blocks
      BY RamfsAssumption DEF Blocks
    <3>2. c \in [file : Files, blk : Seq(Nat), done : BOOLEAN] /\ c \in Contents
      BY <2>1, <3>1 DEF Content, Contents
    <3>3. c # Absent
      BY <3>2, RamfsAssumption, ZenonT(60)
    <3> QED
      BY <2>1, <2>2, <3>2, <3>3 DEF Storable, Done, Content
  <2>3. /\ pc' \in [Tasks -> PCs] /\ loc' \in [Tasks -> LocalType]
        /\ FlushOK(t)' /\ \A u \in Tasks \ {t} : Kept(u)
    BY <1>0, <1>8, <2>1 DEF Touch, Goto, FlushOK, Kept, PCs, Copied, LocalType
  <2>4. \/ UNCHANGED final /\ durable' \in {durable, final}
        \/ /\ Storable(d, n, c) /\ final' = [final EXCEPT ![d][n] = c]
           /\ UNCHANGED durable
    BY <1>8, <2>2, ZenonT(60) DEF Touch
  <2>5. Storable(d, n, c) => c \in Contents
    BY ZenonT(60) DEF Storable
  <2> QED
    BY <1>0, <1>8, <2>1, <2>3, <2>4, <2>5, ZenonT(60) DEF Touch, FlushEffect
<1>9. CASE Dentry(t)
  <2>1. CASE Goto(t, "rename") /\ UNCHANGED <<loc, world>>
    BY <1>0, <1>9, <2>1, ZenonT(60)
       DEF Dentry, Goto, FlushEffect, FlushOK, Kept, world, PCs, Copied, LocalType
  <2> QED
    BY <1>9, <2>1, ReturnEffect, ZenonT(60) DEF Dentry, Abandon
<1>10. CASE Rename(t)
  <2> DEFINE d == loc[t].dir
             n == NameOf[loc[t].f]
             c == Content(loc[t].f, loc[t].copy, loc[t].whole)
  <2>1. CASE /\ final' = [final EXCEPT ![d][n] = c]
             /\ acked' \subseteq acked \cup {loc[t].f}
             /\ Return(t)
             /\ UNCHANGED <<data, sync_dir, dangling, durable, binder, writes, crashes>>
    <3>1. d \in Dirs /\ n \in Names /\ loc[t].f \in Files /\ loc[t].whole = TRUE
      BY <1>0, <1>10, RamfsAssumption DEF Rename, FlushOK, Copied, LocalType
    <3>2. loc[t].copy \in Blocks /\ loc[t].copy \in Seq(Nat)
      BY <1>0, BlockSeq DEF LocalType
    <3>3. c \in [file : Files, blk : Seq(Nat), done : BOOLEAN] /\ c \in Contents
      BY <3>1, <3>2, ZenonT(60) DEF Content, Contents
    <3>4. c # Absent
      BY <3>3, RamfsAssumption, ZenonT(60)
    <3>5. Storable(d, n, c)
      BY <3>1, <3>3, <3>4, ZenonT(60) DEF Storable, Content
    <3>6. /\ pc' \in [Tasks -> PCs] /\ loc' \in [Tasks -> LocalType]
          /\ FlushOK(t)' /\ \A u \in Tasks \ {t} : Kept(u)
      BY <2>1, Returns, ZenonT(60) DEF FlushOK, Copied
    <3> HIDE DEF d, n, c
    <3> QED
      BY <1>0, <2>1, <3>1, <3>3, <3>5, <3>6, ZenonT(60) DEF FlushEffect
  <2> QED
    BY <1>10, <2>1, ReturnEffect DEF Rename, Abandon
<1> QED
  BY <1>1, <1>2, <1>3, <1>4, <1>5, <1>6, <1>7, <1>8, <1>9, <1>10, ZenonT(60) DEF FlushStep

----------------------------------------------------------------------------
(* The invariant. *)

(* A flush that goes on stays well formed, and alone while what it reads stays. *)
LEMMA KeptOK ==
  ASSUME NEW u \in Tasks, Kept(u), FlushOK(u)
  PROVE  FlushOK(u)'
  BY ZenonT(60) DEF Kept, FlushOK

\* A flush stays undisturbed over another task's step that leaves its file and directory.
LEMMA KeptSolo ==
  ASSUME NEW u \in Tasks, Kept(u), SoloOK(u),
         loc'[u].solo => /\ data'[loc[u].f] = data[loc[u].f]
                         /\ sync_dir' = sync_dir /\ binder'.at = binder.at
  PROVE  SoloOK(u)'
<1> SUFFICES ASSUME loc'[u].solo PROVE SoloOK(u)'
  BY DEF SoloOK
<1>1. /\ loc[u].solo /\ data'[loc[u].f] = data[loc[u].f]
      /\ sync_dir' = sync_dir /\ binder'.at = binder.at
  BY DEF Kept
<1> QED
  BY <1>1 DEF Kept, SoloOK

(* The steps of a flush keep its own copy exact. *)
LEMMA SoloStep ==
  ASSUME SyncInv, NEW t \in Tasks, FlushStep(t), FlushEffect(t)
  PROVE  SoloOK(t)'
<1>1. loc \in [Tasks -> LocalType] /\ pc \in [Tasks -> PCs]
  BY DEF SyncInv, SyncTypeOK, LocalType
<1>2. UNCHANGED <<data, sync_dir, binder>>
  BY DEF FlushEffect
<1>3. FlushOK(t) /\ SoloOK(t)
  BY DEF SyncInv
<1>4. CASE Return(t)
  BY <1>1, <1>4, NoLocalsType, ZenonT(60) DEF Return, Goto, SoloOK
<1> SUFFICES ASSUME loc'[t].solo, ~Return(t) PROVE SoloOK(t)'
  BY <1>4, ZenonT(60) DEF SoloOK
<1>5. CASE Check(t)
  BY <1>1, <1>2, <1>3, <1>5, ZenonT(60) DEF Check, Goto, SoloOK, Copied
<1>6. CASE TmpName(t)
  <2>1. PICK d \in ReadDir : loc' = [loc EXCEPT ![t].tmpdir = d]
    BY <1>6, ZenonT(60) DEF TmpName
  <2>2. loc'[t].tmpdir = d /\ loc'[t].copy = loc[t].copy /\ loc'[t].f = loc[t].f
        /\ loc'[t].solo = loc[t].solo
    BY <1>1, <2>1, ZenonT(60) DEF LocalType
  <2>3. d = sync_dir
    BY <1>3, <2>1, <2>2 DEF ReadDir, SoloOK, SyncInv, FreedInBind
  <2> QED
    BY <1>1, <1>2, <1>3, <1>6, <2>2, <2>3 DEF TmpName, Goto, SoloOK, Copied
<1>7. CASE FinalName(t)
  <2>1. PICK d \in ReadDir : loc' = [loc EXCEPT ![t].dir = d]
    BY <1>7, ZenonT(60) DEF FinalName
  <2>2. loc'[t].dir = d /\ loc'[t].copy = loc[t].copy /\ loc'[t].f = loc[t].f
        /\ loc'[t].solo = loc[t].solo /\ loc'[t].tmpdir = loc[t].tmpdir
    BY <1>1, <2>1, ZenonT(60) DEF LocalType
  <2>3. d = sync_dir
    BY <1>3, <2>1, <2>2 DEF ReadDir, SoloOK, SyncInv, FreedInBind
  <2> QED
    BY <1>1, <1>2, <1>3, <1>7, <2>2, <2>3 DEF FinalName, Goto, SoloOK, Copied
<1>8. CASE OpenTmp(t)
  BY <1>1, <1>2, <1>3, <1>8, ZenonT(60) DEF OpenTmp, Goto, SoloOK, Copied
<1>9. CASE CopyBlock(t)
  <2> DEFINE src == data[loc[t].f]
             copy == loc[t].copy
             new == Append(copy, src[Len(copy) + 1])
  <2>1. /\ loc' = [loc EXCEPT ![t].copy = new]
        /\ pc' = pc /\ pc[t] = "copy" /\ Len(copy) + 1 <= Len(src)
    BY <1>9 DEF CopyBlock, Abandon
  <2>2. /\ loc'[t].copy = new /\ loc'[t].dir = loc[t].dir /\ loc'[t].f = loc[t].f
        /\ loc'[t].solo = loc[t].solo /\ loc'[t].tmpdir = loc[t].tmpdir
    BY <1>1, <2>1, ZenonT(60) DEF LocalType
  <2>3. copy \in Seq(Nat) /\ src \in Seq(Nat)
    BY <1>1, <1>3, <2>1, BlockSeq DEF LocalType, FlushOK, SyncInv, SyncTypeOK
  <2>4. \A i \in 1 .. Len(copy) : copy[i] = src[i]
    BY <1>3, <2>2 DEF SoloOK
  <2> HIDE DEF src, copy
  <2>5. Len(new) = Len(copy) + 1 /\ \A i \in 1 .. Len(new) : new[i] = src[i]
    BY <2>1, <2>3, <2>4
  <2> HIDE DEF new
  <2>6. Len(new) <= Len(src) /\ \A i \in 1 .. Len(new) : new[i] = src[i]
    BY <2>1, <2>5, ZenonT(60)
  <2> QED
    BY <1>2, <1>3, <2>1, <2>2, <2>6 DEF SoloOK, Copied, src
<1>10. CASE CopyEnd(t)
  <2> DEFINE src == data[loc[t].f]
             copy == loc[t].copy
  <2>1. CopyDone(t) /\ pc[t] = "copy" /\ Len(copy) >= Len(src)
    BY <1>10 DEF CopyEnd, Abandon
  <2>2. /\ loc'[t].copy = copy /\ loc'[t].dir = loc[t].dir /\ loc'[t].f = loc[t].f
        /\ loc'[t].solo = loc[t].solo /\ loc'[t].tmpdir = loc[t].tmpdir /\ pc'[t] = "lookup"
    BY <1>1, <2>1, ZenonT(60) DEF CopyDone, Goto, LocalType
  <2>3. copy \in Seq(Nat) /\ src \in Seq(Nat)
    BY <1>1, <1>3, <2>1, BlockSeq DEF LocalType, FlushOK, SyncInv, SyncTypeOK
  <2>4. Len(copy) <= Len(src) /\ \A i \in 1 .. Len(copy) : copy[i] = src[i]
    BY <1>3, <2>2, ZenonT(60) DEF SoloOK
  <2> HIDE DEF src, copy
  <2>5. copy = src
    <3>1. Len(copy) = Len(src)
      <4>1. Len(copy) \in Nat /\ Len(src) \in Nat
        BY <2>3, LenProperties, ZenonT(60)
      <4> QED
        BY <2>1, <2>4, <4>1
    <3> QED
      BY <2>3, <2>4, <3>1, SeqEqual, ZenonT(60)
  <2> QED
    BY <1>2, <1>3, <2>1, <2>2, <2>4, <2>5, ZenonT(60) DEF SoloOK, Copied, src, copy
<1>11. CASE LookUp(t) \/ Dentry(t)
  BY <1>1, <1>2, <1>3, <1>11 DEF LookUp, Dentry, Abandon, Goto, SoloOK, Copied
<1>12. CASE Touch(t)
  BY <1>1, <1>2, <1>3, <1>12 DEF Touch, Goto, SoloOK, Copied
<1>13. CASE Rename(t)
  BY <1>13 DEF Rename, Abandon
<1> QED
  BY <1>5, <1>6, <1>7, <1>8, <1>9, <1>10, <1>11, <1>12, <1>13, ZenonT(60) DEF FlushStep

(* The files of a directory stay whole when one that may stand there is put in. *)
LEMMA FilesKept ==
  ASSUME SyncInv,
         \/ UNCHANGED final /\ durable' \in {durable, final}
         \/ \E d \in Dirs, n \in Names, c \in Contents :
              /\ Storable(d, n, c) /\ final' = [final EXCEPT ![d][n] = c]
              /\ UNCHANGED durable
         \/ final' = durable /\ UNCHANGED durable
  PROVE  /\ final' \in [Dirs -> [Names -> Contents]]
         /\ durable' \in [Dirs -> [Names -> Contents]]
         /\ NoPartialFile' /\ DiskBehind'
<1>1. /\ final \in [Dirs -> [Names -> Contents]] /\ durable \in [Dirs -> [Names -> Contents]]
      /\ NoPartialFile /\ DiskBehind
  BY ZenonT(60) DEF SyncInv, SyncTypeOK
<1>2. CASE UNCHANGED final /\ durable' \in {durable, final}
  BY <1>1, <1>2 DEF NoPartialFile, DiskBehind
<1>3. CASE final' = durable /\ UNCHANGED durable
  BY <1>1, <1>3 DEF NoPartialFile, DiskBehind
<1>4. ASSUME NEW d \in Dirs, NEW n \in Names, NEW c \in Contents, Storable(d, n, c),
             final' = [final EXCEPT ![d][n] = c], UNCHANGED durable
      PROVE  /\ final' \in [Dirs -> [Names -> Contents]]
             /\ NoPartialFile' /\ DiskBehind'
  <2>1. /\ final'[d][n] = c
        /\ \A d2 \in Dirs, n2 \in Names : d2 # d \/ n2 # n => final'[d2][n2] = final[d2][n2]
    BY <1>1, <1>4, ZenonT(60)
  <2>2. final' \in [Dirs -> [Names -> Contents]]
    BY <1>1, <1>4, ZenonT(60)
  <2>3. NoPartialFile'
    BY <1>1, <1>4, <2>1 DEF NoPartialFile, Storable
  <2>4. DiskBehind'
    <3>1. Done(final[d][n]) => Done(c)
      BY <1>4 DEF Storable, Done
    <3> QED
      BY <1>1, <1>4, <2>1, <3>1, ZenonT(60) DEF DiskBehind
  <2> QED
    BY <2>2, <2>3, <2>4, ZenonT(60)
<1> QED
  BY <1>1, <1>2, <1>3, <1>4, ZenonT(60)

\* After the mount, with nothing written, the invariant holds.
LEMMA SyncInitially == SyncInit => SyncInv
<1> SUFFICES ASSUME SyncInit PROVE SyncInv
  OBVIOUS
<1>1. << >> \in Blocks
  BY RamfsAssumption DEF Blocks
<1>2. SyncTypeOK
  <2>1. data \in [Files -> Blocks]
    BY <1>1 DEF SyncInit
  <2>2. final \in [Dirs -> [Names -> Contents]] /\ durable \in [Dirs -> [Names -> Contents]]
    BY DEF SyncInit, Contents
  <2>3. pc \in [Tasks -> PCs] /\ loc \in [Tasks -> LocalType]
    BY NoLocalsType DEF SyncInit, PCs
  <2>4. binder \in [at : {"idle", "free", "null", "set"}, dir : Dirs \cup {NoDir}]
    BY DEF SyncInit
  <2>5. writes \in 0..MaxWrites /\ crashes \in 0..MaxCrashes
    BY RamfsAssumption DEF SyncInit
  <2>6. sync_dir \in Dirs \cup {NoDir} /\ dangling \in BOOLEAN /\ acked \subseteq Files
    BY ZenonT(60) DEF SyncInit
  <2> QED
    BY <2>1, <2>2, <2>3, <2>4, <2>5, <2>6, ZenonT(60) DEF SyncTypeOK, LocalType
<1>3. NoPartialFile /\ DiskBehind /\ FreedInBind
  BY ZenonT(60) DEF SyncInit, NoPartialFile, DiskBehind, Done, FreedInBind
<1>4. \A t \in Tasks : FlushOK(t) /\ SoloOK(t)
  BY NoLocalsType DEF SyncInit, FlushOK, SoloOK, Copied
<1> QED
  BY <1>2, <1>3, <1>4 DEF SyncInv

(* A write, with the flush it begins or without. *)
LEMMA WriteKeeps ==
  ASSUME SyncInv, NEW t \in Tasks, WriteIter(t)
  PROVE  SyncInv'
<1>1. SyncTypeOK /\ pc[t] = "idle" /\ writes \in 0..MaxWrites /\ writes' = writes + 1
      /\ writes' \in 1..MaxWrites
  BY RamfsAssumption DEF SyncInv, SyncTypeOK, WriteIter
<1>2. PICK f \in Files, b \in 1..MaxBlocks :
        /\ b <= Len(data[f]) + 1
        /\ data' = [data EXCEPT ![f] =
                      IF b <= Len(@) THEN [@ EXCEPT ![b] = writes'] ELSE Append(@, writes')]
        /\ \/ sync_dir # NoDir /\ Enter(t, f, data'[f])
           \/ loc' = Disturb(loc, f, t) /\ UNCHANGED pc
        /\ acked' = acked \ {f}
  BY ZenonT(60) DEF WriteIter
<1>3. UNCHANGED <<sync_dir, dangling, final, durable, binder, crashes>>
  BY ZenonT(60) DEF WriteIter
<1>4. data'[f] \in Blocks
  BY <1>1, <1>2, BlockWritten, ZenonT(60) DEF SyncTypeOK
<1>5. data' \in [Files -> Blocks] /\ \A g \in Files \ {f} : data'[g] = data[g]
  BY <1>1, <1>2, <1>4, ZenonT(60) DEF SyncTypeOK
<1>6. /\ pc' \in [Tasks -> PCs] /\ loc' \in [Tasks -> LocalType]
      /\ FlushOK(t)' /\ SoloOK(t)'
      /\ \A u \in Tasks \ {t} : Kept(u) /\ (loc'[u].solo => ~Same(u, f))
  <2>1. CASE Enter(t, f, data'[f])
    <3>1. /\ pc' \in [Tasks -> PCs] /\ loc' \in [Tasks -> LocalType]
          /\ pc'[t] = "check"
          /\ loc'[t].f = f /\ loc'[t].copy = << >> /\ (loc'[t].solo => binder.at = "idle")
          /\ \A u \in Tasks \ {t} : Kept(u) /\ (loc'[u].solo => ~Same(u, f))
      BY <1>1, <1>4, <2>1, Enters
    <3>2. Len(data'[f]) \in Nat
      BY <1>4, BlockSeq, ZenonT(60)
    <3> QED
      BY <1>3, <3>1, <3>2 DEF FlushOK, SoloOK, Copied
  <2>2. CASE loc' = Disturb(loc, f, t) /\ UNCHANGED pc
    <3>1. \A u \in Tasks \ {t} : Kept(u) /\ (loc'[u].solo => ~Same(u, f))
      BY <1>1, <2>2, Disturbs DEF Kept
    <3>2. loc'[t] = loc[t]
      BY <2>2 DEF Disturb
    <3>3. loc' = [u \in Tasks |-> loc'[u]]
      BY <2>2, ZenonT(60) DEF Disturb
    <3>4. \A u \in Tasks : loc'[u] \in LocalType
      BY <1>1, <3>1, <3>2 DEF Kept, SyncTypeOK, LocalType
    <3>5. FlushOK(t)' /\ SoloOK(t)'
      BY <1>1, <2>2, <3>2, ZenonT(60) DEF FlushOK, SoloOK, SyncInv, Copied
    <3> QED
      BY <1>1, <2>2, <3>1, <3>3, <3>4, <3>5, ZenonT(60) DEF SyncTypeOK
  <2> QED
    BY <1>2, <2>1, <2>2, ZenonT(60)
<1>7. \A u \in Tasks \ {t} : FlushOK(u)' /\ SoloOK(u)'
  <2> SUFFICES ASSUME NEW u \in Tasks \ {t} PROVE FlushOK(u)' /\ SoloOK(u)'
    OBVIOUS
  <2>1. FlushOK(u)'
    BY <1>6, KeptOK, ZenonT(60) DEF SyncInv
  <2>2. ASSUME loc'[u].solo PROVE loc[u].f \in Files \ {f}
    BY <1>6, <2>2 DEF Kept, SyncInv, SoloOK, FlushOK, Same
  <2> QED
    BY <1>3, <1>5, <1>6, <2>1, <2>2, KeptSolo, ZenonT(60) DEF SyncInv
<1>8. SyncTypeOK'
  BY <1>1, <1>2, <1>3, <1>5, <1>6, RamfsAssumption DEF SyncTypeOK, LocalType
<1>9. NoPartialFile' /\ DiskBehind' /\ FreedInBind'
  BY <1>3 DEF SyncInv, NoPartialFile, DiskBehind, FreedInBind
<1> QED
  BY <1>6, <1>7, <1>8, <1>9, ZenonT(60) DEF SyncInv

(* fsync and the request through /proc. *)
LEMMA FsyncKeeps ==
  ASSUME SyncInv, NEW t \in Tasks, Fsync(t)
  PROVE  SyncInv'
<1>1. PICK f \in Files : Enter(t, f, data[f])
  BY ZenonT(60) DEF Fsync
<1>2. SyncTypeOK /\ data[f] \in Blocks /\ UNCHANGED world
  BY ZenonT(60) DEF SyncInv, SyncTypeOK, Fsync
<1>3. /\ pc' \in [Tasks -> PCs] /\ loc' \in [Tasks -> LocalType]
      /\ pc'[t] = "check"
      /\ loc'[t].f = f /\ loc'[t].copy = << >> /\ (loc'[t].solo => binder.at = "idle")
      /\ \A u \in Tasks \ {t} : Kept(u)
  BY <1>1, <1>2, Enters
<1>4. Len(data[f]) \in Nat
  BY <1>2, BlockSeq, ZenonT(60)
<1>5. FlushOK(t)' /\ SoloOK(t)'
  BY <1>2, <1>3, <1>4 DEF FlushOK, SoloOK, Copied, world
<1>6. \A u \in Tasks \ {t} : FlushOK(u)' /\ SoloOK(u)'
  BY <1>2, <1>3, KeptOK, KeptSolo, ZenonT(60) DEF SyncInv, world
<1>7. SyncTypeOK'
  BY <1>2, <1>3, ZenonT(60) DEF SyncTypeOK, LocalType, world
<1>8. NoPartialFile' /\ DiskBehind' /\ FreedInBind'
  BY <1>2 DEF SyncInv, NoPartialFile, DiskBehind, FreedInBind, world
<1> QED
  BY <1>5, <1>6, <1>7, <1>8 DEF SyncInv

(* A step of ramfs_file_flush. *)
LEMMA FlushKeeps ==
  ASSUME SyncInv, NEW t \in Tasks, FlushStep(t)
  PROVE  SyncInv'
<1>1. FlushEffect(t)
  BY FlushEffects, ZenonT(60) DEF SyncInv
<1>2. SoloOK(t)' /\ FlushOK(t)'
  BY <1>1, SoloStep, ZenonT(60) DEF FlushEffect
<1>3. \A u \in Tasks \ {t} : FlushOK(u)' /\ SoloOK(u)'
  BY <1>1, KeptOK, KeptSolo, ZenonT(60) DEF SyncInv, FlushEffect
<1>4. /\ final' \in [Dirs -> [Names -> Contents]]
      /\ durable' \in [Dirs -> [Names -> Contents]]
      /\ NoPartialFile' /\ DiskBehind'
  BY <1>1, FilesKept, ZenonT(60) DEF FlushEffect
<1>5. SyncTypeOK'
  BY <1>1, <1>4, ZenonT(60) DEF SyncInv, SyncTypeOK, FlushEffect, LocalType
<1>6. FreedInBind'
  BY <1>1 DEF SyncInv, FreedInBind, FlushEffect
<1> QED
  BY <1>2, <1>3, <1>4, <1>5, <1>6, ZenonT(60) DEF SyncInv

(* A step of ramfs_bind: from its start on no flush counts as undisturbed. *)
LEMMA BindKeeps ==
  ASSUME SyncInv, (\E d \in Dirs : Bind(d)) \/ BindFree \/ BindNull \/ BindSet
  PROVE  SyncInv'
<1>1. /\ loc \in [Tasks -> LocalType] /\ UNCHANGED <<data, final, durable, pc, writes, crashes>>
      /\ binder \in [at : {"idle", "free", "null", "set"}, dir : Dirs \cup {NoDir}]
      /\ sync_dir \in Dirs \cup {NoDir}
  BY DEF SyncInv, SyncTypeOK, LocalType, Bind, BindFree, BindNull, BindSet, BindUnchanged
<1>2. ASSUME NEW u \in Tasks PROVE ~loc'[u].solo /\ Kept(u)
  <2>1. CASE \E d \in Dirs : Bind(d)
    <3>1. loc'[u] = [loc[u] EXCEPT !.solo = FALSE] /\ loc[u] \in LocalType
      BY <1>1, <2>1 DEF Bind
    <3>2. [loc[u] EXCEPT !.solo = FALSE] \in LocalType
      BY <3>1, ZenonT(60) DEF LocalType
    <3> QED
      BY <1>1, <3>1, <3>2 DEF Kept, LocalType
  <2>2. CASE BindFree \/ BindNull \/ BindSet
    BY <1>1, <2>2, ZenonT(60) DEF BindFree, BindNull, BindSet, Kept, SyncInv, SoloOK
  <2> QED
    BY <2>1, <2>2
<1>3. loc' \in [Tasks -> LocalType]
  <2>1. loc' = [u \in Tasks |-> loc'[u]]
    BY <1>1, ZenonT(60) DEF Bind, BindFree, BindNull, BindSet
  <2> QED
    BY <1>2, <2>1 DEF Kept
<1>4. \A u \in Tasks : FlushOK(u)' /\ SoloOK(u)'
  BY <1>2, KeptOK DEF SyncInv, SoloOK
<1>5. binder' \in [at : {"idle", "free", "null", "set"}, dir : Dirs \cup {NoDir}]
  BY <1>1 DEF Bind, BindFree, BindNull, BindSet
<1>6. sync_dir' \in Dirs \cup {NoDir} /\ dangling' \in BOOLEAN /\ acked' \subseteq Files
  BY <1>1, ZenonT(60) DEF SyncInv, SyncTypeOK, Bind, BindFree, BindNull, BindSet
<1>7. FreedInBind'
  <2>1. CASE \E d \in Dirs : Bind(d)
    BY <1>1, <2>1 DEF Bind, SyncInv, FreedInBind
  <2>2. CASE BindFree
    BY <1>1, <2>2 DEF BindFree, FreedInBind
  <2>3. CASE BindNull \/ BindSet
    BY <1>1, <2>3, ZenonT(60) DEF BindNull, BindSet, SyncInv, FreedInBind
  <2> QED
    BY <2>1, <2>2, <2>3
<1>8. SyncTypeOK'
  BY <1>1, <1>3, <1>5, <1>6, ZenonT(60) DEF SyncInv, SyncTypeOK, LocalType
<1>9. NoPartialFile' /\ DiskBehind'
  BY <1>1 DEF SyncInv, NoPartialFile, DiskBehind
<1> QED
  BY <1>4, <1>7, <1>8, <1>9, ZenonT(60) DEF SyncInv

(* The disk catches up, and a crash goes back to what it has. *)
LEMMA DiskKeeps ==
  ASSUME SyncInv, Commit \/ Crash
  PROVE  SyncInv'
<1>1. /\ final' \in [Dirs -> [Names -> Contents]]
      /\ durable' \in [Dirs -> [Names -> Contents]]
      /\ NoPartialFile' /\ DiskBehind'
  BY FilesKept, ZenonT(60) DEF Commit, Crash
<1>2. CASE Commit
  <2>1. SyncTypeOK'
    BY <1>1, <1>2, ZenonT(60) DEF Commit, SyncInv, SyncTypeOK
  <2>2. FreedInBind' /\ \A t \in Tasks : FlushOK(t)' /\ SoloOK(t)'
    BY <1>2 DEF Commit, SyncInv, FreedInBind, FlushOK, SoloOK
  <2> QED
    BY <1>1, <2>1, <2>2, ZenonT(60) DEF SyncInv
<1>3. CASE Crash
  <2>1. << >> \in Blocks
    BY RamfsAssumption DEF Blocks
  <2>2. data' \in [Files -> Blocks]
    BY <1>3, <2>1, ZenonT(60) DEF Crash
  <2>3. pc' \in [Tasks -> PCs] /\ loc' \in [Tasks -> LocalType]
    BY <1>3, NoLocalsType, ZenonT(60) DEF Crash, PCs
  <2>4. binder' \in [at : {"idle", "free", "null", "set"}, dir : Dirs \cup {NoDir}]
    BY <1>3, ZenonT(60) DEF Crash
  <2>5. writes' \in 0..MaxWrites /\ crashes' \in 0..MaxCrashes
    BY <1>3, RamfsAssumption DEF Crash, SyncInv, SyncTypeOK
  <2>6. sync_dir' \in Dirs \cup {NoDir} /\ dangling' \in BOOLEAN /\ acked' \subseteq Files
    BY <1>3, ZenonT(60) DEF Crash
  <2>7. SyncTypeOK'
    BY <1>1, <2>2, <2>3, <2>4, <2>5, <2>6, ZenonT(60) DEF SyncTypeOK, LocalType
  <2>8. FreedInBind' /\ \A t \in Tasks : FlushOK(t)' /\ SoloOK(t)'
    BY <1>3, NoLocalsType DEF Crash, FreedInBind, FlushOK, SoloOK, Copied
  <2> QED
    BY <1>1, <2>7, <2>8 DEF SyncInv
<1> QED
  BY <1>2, <1>3, ZenonT(60)

(* SyncInv is an inductive invariant of the flushes, binds and crashes. *)
THEOREM SyncInvariance == SyncSpec => []SyncInv
<1>1. SyncInv /\ [SyncNext]_syncVars => SyncInv'
  <2> SUFFICES ASSUME SyncInv, [SyncNext]_syncVars PROVE SyncInv'
    BY ZenonT(60)
  <2>1. CASE UNCHANGED syncVars
    BY <2>1 DEF syncVars, SyncInv, SyncTypeOK, NoPartialFile, DiskBehind, FreedInBind,
                FlushOK, SoloOK
  <2> QED
    BY <2>1, WriteKeeps, FsyncKeeps, FlushKeeps, BindKeeps, DiskKeeps, ZenonT(60) DEF SyncNext
<1> QED
  BY SyncInitially, <1>1, PTL DEF SyncSpec

(* Every variable of the flush stays in its type: a task past kern_path has a  *)
(* directory, and copies never outgrow their files.                            *)
THEOREM SyncTypes == SyncSpec => []SyncTypeOK
<1>1. SyncInv => SyncTypeOK
  BY DEF SyncInv
<1> QED
  BY <1>1, SyncInvariance, PTL

(* However many tasks flush, bind, fail and crash, the bound directory and the *)
(* disk hold whole copies or the touched empty file under each name.           *)
THEOREM FilesWhole == SyncSpec => []NoPartialFile
<1>1. SyncInv => NoPartialFile
  BY ZenonT(60) DEF SyncInv
<1> QED
  BY <1>1, SyncInvariance, PTL

(* An undisturbed flush renames the file as it is, in the bound directory. *)
THEOREM SoloExact == SyncSpec => []SoloFlushExact
<1>1. SyncInv => SoloFlushExact
  BY DEF SyncInv, SoloOK, SoloFlushExact, Copied
<1> QED
  BY <1>1, SyncInvariance, PTL

(* A complete copy on the disk is never lost again, a crash included: every    *)
(* step that changes the disk brings it to a directory that still has the copy. *)
THEOREM DiskNeverRegresses == SyncSpec => NoRegress
<1>1. SyncInv /\ [SyncNext]_syncVars =>
        [\A d \in Dirs, n \in Names :
           durable[d][n] # Absent /\ durable[d][n].done
             => durable'[d][n] # Absent /\ durable'[d][n].done]_syncVars
  <2> SUFFICES ASSUME SyncInv, [SyncNext]_syncVars
               PROVE  UNCHANGED durable \/ durable' = final \/ UNCHANGED syncVars
    BY ZenonT(60) DEF SyncInv, DiskBehind, Done
  <2>1. ASSUME NEW t \in Tasks, WriteIter(t) \/ Fsync(t) PROVE UNCHANGED durable
    BY <2>1, ZenonT(60) DEF WriteIter, Fsync, world
  <2>2. ASSUME NEW t \in Tasks, FlushStep(t) PROVE UNCHANGED durable \/ durable' = final
    BY <2>2, FlushEffects DEF FlushEffect, SyncInv
  <2>3. CASE (\E d \in Dirs : Bind(d)) \/ BindFree \/ BindNull \/ BindSet
    BY <2>3, ZenonT(60) DEF Bind, BindFree, BindNull, BindSet, BindUnchanged
  <2>4. CASE Commit \/ Crash
    BY <2>4 DEF Commit, Crash
  <2> QED
    BY <2>1, <2>2, <2>3, <2>4, ZenonT(60) DEF SyncNext
<1> QED
  BY <1>1, SyncInvariance, PTL DEF SyncSpec, NoRegress

=============================================================================
