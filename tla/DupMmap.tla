------------------------------ MODULE DupMmap ------------------------------
(***************************************************************************)
(* dup_mmap of kernel/fork.c: the copy of a list of vmas to a child, vma   *)
(* by vma, with every way in which one can fail, and the exit of children. *)
(* The mmap lock of the parent is held, so one copy runs at a time.        *)
(***************************************************************************)
EXTENDS Integers, Sequences, SequencesExt, FiniteSets

CONSTANTS VmaLists,      \* lists of vmas that a parent may have
          Kids,          \* memory for children
          CommitLimit    \* pages that may be committed

\* A vma: its length in pages and its flags, of which "file" says that it
\* maps a file and "empty" that it has no anon_vma and no page yet.
VmaFlags == {"DONTCOPY", "ACCOUNT", "WIPEONFORK", "SHARED", "LOCKED", "file",
             "empty"}

VARIABLES parent,      \* the parent's list
          kid,         \* kid[k]: a child's list
          totalVm,     \* totalVm[k]: total_vm of a child
          kidStage,    \* kidStage[k]: none, copying, failed, live
          hold,        \* what dup_mmap has for the vma it is copying
          next,        \* the vma of the parent to copy next
          killed,      \* the parent has a fatal signal pending
          committed,   \* vm_committed_as
          fileRefs,    \* references to the mapped file
          writable,    \* i_mmap_writable of the file
          objects      \* vm_area_structs and policies that are allocated

dupVars == <<parent, kid, totalVm, kidStage, hold, next, killed, committed,
             fileRefs, writable, objects>>

Pages(vmas) == FoldSeq(LAMBDA v, n : v.len + n, 0, vmas)
Having(vmas, flag) == SelectSeq(vmas, LAMBDA v : flag \in v.flags)
Accounted(vmas) == Pages(Having(vmas, "ACCOUNT"))
Files(vmas) == Len(Having(vmas, "file"))
SharedFiles(vmas) == Len(Having(Having(vmas, "file"), "SHARED"))
Copied(vmas) == SelectSeq(vmas, LAMBDA v : "DONTCOPY" \notin v.flags)

NoHold == [charge |-> 0, at |-> "idle", objs |-> 0]

DupInit ==
    /\ parent \in VmaLists
    /\ kid = [k \in Kids |-> <<>>] /\ totalVm = [k \in Kids |-> 0]
    /\ kidStage = [k \in Kids |-> "none"]
    /\ hold = NoHold /\ next = 1 /\ killed = FALSE
    /\ committed = Accounted(parent)
    /\ fileRefs = Files(parent) /\ writable = SharedFiles(parent)
    /\ objects = 2 * Len(parent)

CopyTo(k) == kidStage[k] = "copying"

\* dup_mmap takes both locks and copies the statistics; ksm_fork or
\* khugepaged_fork may fail.
StartDup(k, ok) ==
    /\ kidStage[k] = "none" /\ \A j \in Kids : ~CopyTo(j)
    /\ kidStage' = [kidStage EXCEPT ![k] = IF ok THEN "copying" ELSE "failed"]
    /\ totalVm' = [totalVm EXCEPT ![k] = Pages(parent)]
    /\ next' = 1
    /\ UNCHANGED <<parent, kid, killed, committed, fileRefs, writable, objects, hold>>

\* VM_DONTCOPY.
SkipVma(k) ==
    /\ CopyTo(k) /\ next <= Len(parent) /\ "DONTCOPY" \in parent[next].flags
    /\ totalVm' = [totalVm EXCEPT ![k] = @ - parent[next].len]
    /\ next' = next + 1
    /\ UNCHANGED <<parent, kid, kidStage, killed, committed, fileRefs,
                   writable, objects, hold>>

ToCopy(k) ==
    CopyTo(k) /\ next <= Len(parent) /\ "DONTCOPY" \notin parent[next].flags

Charge(v) == IF "ACCOUNT" \in v.flags THEN v.len ELSE 0
Enough(v) == Charge(v) > 0 => committed + v.len <= CommitLimit

Fail(k) == kidStage' = [kidStage EXCEPT ![k] = "failed"]

\* A fatal signal is pending: -EINTR.
CopyKilled(k) ==
    /\ ToCopy(k) /\ killed /\ hold = NoHold
    /\ Fail(k)
    /\ UNCHANGED <<parent, kid, totalVm, next, killed, committed, fileRefs,
                   writable, objects, hold>>

\* security_vm_enough_memory_mm; when it refuses, nothing was charged.
ChargeVma(k) ==
    LET charge == Charge(parent[next]) IN
    /\ ToCopy(k) /\ ~killed /\ hold = NoHold
    /\ IF Enough(parent[next])
       THEN /\ committed' = committed + charge
            /\ hold' = [charge |-> charge, at |-> "charged", objs |-> 0]
            /\ UNCHANGED kidStage
       ELSE Fail(k) /\ UNCHANGED <<committed, hold>>
    /\ UNCHANGED <<parent, kid, totalVm, next, killed, fileRefs, writable,
                   objects>>

\* vm_area_dup and then vma_dup_policy.
AllocVma(k) ==
    /\ CopyTo(k) /\ hold.at = "charged" /\ hold.objs < 2
    /\ hold' = [hold EXCEPT !.objs = @ + 1]
    /\ objects' = objects + 1
    /\ UNCHANGED <<parent, kid, totalVm, kidStage, next, killed, committed,
                   fileRefs, writable>>

\* Mutant: the charge is kept.
FailNomem_KeepsCharge(k) ==
    /\ CopyTo(k) /\ hold.at = "charged"
    /\ objects' = objects - hold.objs
    /\ hold' = NoHold
    /\ Fail(k)
    /\ UNCHANGED <<parent, kid, totalVm, next, killed, committed, fileRefs,
                   writable>>

\* An allocation failed, the last being dup_userfaultfd and anon_vma_fork:
\* the labels from fail_nomem_anon_vma_fork down give back the policy, the
\* vma and the charge, as far as they were had.
FailNomem(k) ==
    /\ CopyTo(k) /\ hold.at = "charged"
    /\ objects' = objects - hold.objs
    /\ committed' = committed - hold.charge
    /\ hold' = NoHold
    /\ Fail(k)
    /\ UNCHANGED <<parent, kid, totalVm, next, killed, fileRefs, writable>>

\* The child's copy: not locked, and with VM_WIPEONFORK a clean slate.
ChildVma(v) ==
    [len |-> v.len,
     flags |-> (v.flags \ {"LOCKED"}) \cup
               (IF "WIPEONFORK" \in v.flags THEN {"empty"} ELSE {})]

\* The vma is duplicated, entered in the file's tree and linked. When its
\* pages cannot be copied the loop is left with the vma already linked;
\* the pages of a VM_WIPEONFORK vma are not copied.
CopyVma(k, ok) ==
    LET v == ChildVma(parent[next]) IN
    /\ CopyTo(k) /\ hold.objs = 2
    /\ ~ok => "WIPEONFORK" \notin v.flags
    /\ hold' = NoHold
    /\ fileRefs' = fileRefs + Files(<<v>>)
    /\ writable' = writable + SharedFiles(<<v>>)
    /\ kid' = [kid EXCEPT ![k] = Append(@, v)]
    /\ next' = next + 1
    /\ IF ok THEN UNCHANGED kidStage ELSE Fail(k)
    /\ UNCHANGED <<parent, totalVm, killed, committed, objects>>

\* The end of the list, and arch_dup_mmap.
EndDup(k, ok) ==
    /\ CopyTo(k) /\ next > Len(parent)
    /\ kidStage' = [kidStage EXCEPT ![k] = IF ok THEN "live" ELSE "failed"]
    /\ UNCHANGED <<parent, kid, totalVm, next, killed, committed, fileRefs,
                   writable, objects, hold>>

\* mmput of the child's mm, by its exit or by dup_mm's free_pt: exit_mmap
\* unmaps whatever was linked and unaccounts it.
ExitMmap(k) ==
    /\ kidStage[k] \in {"live", "failed"}
    /\ kidStage' = [kidStage EXCEPT ![k] = "none"]
    /\ kid' = [kid EXCEPT ![k] = <<>>] /\ totalVm' = [totalVm EXCEPT ![k] = 0]
    /\ objects' = objects - 2 * Len(kid[k])
    /\ fileRefs' = fileRefs - Files(kid[k])
    /\ writable' = writable - SharedFiles(kid[k])
    /\ committed' = committed - Accounted(kid[k])
    /\ UNCHANGED <<parent, next, killed, hold>>

KillParent ==
    /\ ~killed /\ killed' = TRUE
    /\ UNCHANGED <<parent, kid, totalVm, kidStage, next, committed, fileRefs,
                   writable, objects, hold>>

DupNext ==
    \/ \E k \in Kids :
        \/ SkipVma(k) \/ CopyKilled(k) \/ ChargeVma(k) \/ AllocVma(k)
        \/ FailNomem(k) \/ ExitMmap(k)
        \/ \E ok \in BOOLEAN : StartDup(k, ok) \/ CopyVma(k, ok) \/ EndDup(k, ok)
    \/ KillParent

----------------------------------------------------------------------------
LiveLists == [k \in Kids |-> IF kidStage[k] = "none" THEN <<>> ELSE kid[k]]
Everything == parent \o FoldSeq(LAMBDA k, s : s \o LiveLists[k], <<>>,
                                SetToSeq(Kids))

\* Every variable has its type, and a child that does not exist has no vma.
DupTypeOK ==
    /\ \A k \in Kids :
        /\ kidStage[k] \in {"none", "copying", "failed", "live"}
        /\ kidStage[k] = "none" => kid[k] = <<>> /\ totalVm[k] = 0
        /\ \A i \in DOMAIN kid[k] : kid[k][i].flags \subseteq VmaFlags
    /\ totalVm \in [Kids -> Nat] /\ next \in 1 .. Len(parent) + 1
    /\ hold # NoHold => \E k \in Kids : CopyTo(k)
    /\ killed \in BOOLEAN /\ {committed, fileRefs, objects} \subseteq Nat

\* The pages committed are those of the VM_ACCOUNT vmas that are linked in
\* some mm: every label of dup_mmap gives back exactly what was charged, and
\* exit_mmap what the vmas linked before a failure had.
CommitExact == committed = Accounted(Everything) + hold.charge

\* The references to a mapped file, the writable mappings of it and the vmas
\* and policies allocated are those of the vmas that are linked.
FileMapsExact ==
    /\ fileRefs = Files(Everything)
    /\ writable = SharedFiles(Everything)
    /\ objects = 2 * Len(Everything) + hold.objs

\* When dup_mmap returns success the child has the parent's vmas in order
\* except the VM_DONTCOPY ones, total_vm counts the pages it really has,
\* nothing is locked, and a VM_WIPEONFORK vma is empty.
ChildFaithful ==
    \A k \in Kids : kidStage[k] = "live" =>
        /\ Len(kid[k]) = Len(Copied(parent))
        /\ \A i \in DOMAIN kid[k] :
            LET old == Copied(parent)[i]  new == kid[k][i] IN
            /\ new.len = old.len /\ "LOCKED" \notin new.flags
            /\ old.flags \ {"LOCKED"} \subseteq new.flags
            /\ "WIPEONFORK" \in old.flags => "empty" \in new.flags
        /\ totalVm[k] = Pages(kid[k])

\* Whichever vma dup_mmap fails at, the accounts match the vmas there are, and
\* when it does not fail the child has what the parent had.
CopyExact == DupTypeOK /\ CommitExact /\ FileMapsExact /\ ChildFaithful
=============================================================================
