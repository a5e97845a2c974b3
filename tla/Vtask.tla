------------------------------- MODULE Vtask -------------------------------
(***************************************************************************)
(* The three special mappings of an address space                          *)
(* (arch/x86/entry/vdso/vma.c): the vdso text, the vvar pages below it and *)
(* the vtask pages below those, which show a task_struct to the program;   *)
(* and get_task_struct_info, which finds them again from the text.         *)
(*                                                                         *)
(* Addresses are page numbers modulo AddrTop; an errno is the last page,   *)
(* as the errors of get_unmapped_area are.  map_vdso runs under the mmap   *)
(* lock and is one step, as is a fault; map_vdso_once is two, because it   *)
(* lets the lock go between its check and map_vdso.  The search for a hole,*)
(* mremap, fork and exec are external and follow what vma.c relies on.     *)
(***************************************************************************)
EXTENDS Integers, FiniteSets

CONSTANTS
    VtTasks,    \* task_structs
    VtMms,      \* address spaces
    NullSpace,  \* the address space of a task that does not run
    VTASK,      \* VVAR_TASK_STRUCT_NR_PAGES
    UserTop,    \* the first page beyond the user's addresses
    AddrTop,    \* the number of pages an unsigned long can name
    Holes,      \* where get_unmapped_area looks for a hole
    MoveTo,     \* where mremap moves the text
    MaxTurns,   \* bound on munmap, mremap and exec
    Offset      \* [VtTasks -> Nat]: where in its page a task_struct starts

ASSUME VtAssumption == NullSpace \notin VtMms

TEXT == 1      \* pages of the image (image->size)
VVAR == 1      \* pages of the vvar area (-image->sym_vvar_start)

VARIABLES
    space,      \* task -> its mm
    layout,     \* mm -> its special mappings
    context,    \* mm -> mm->context.vdso, AddrTop when NULL
    ptes,       \* mm -> pages present
    doing,      \* task -> "user", or between two steps of a call
    offset,     \* task -> the task_offset read from the metadata page
    info,       \* task -> the pid get_task_struct_info gave, NullSpace if none
    turns,      \* how many of those there were
    ran         \* history: mm -> tasks that ever ran on it

vtVars == <<space, layout, context, ptes, doing, offset, info, turns, ran>>

Size(kind) == CASE kind = "vtask" -> VTASK [] kind = "vvar" -> VVAR [] OTHER -> TEXT

Area(kind, at) == [kind |-> kind, at |-> at % AddrTop]

Overlap(a, b) == /\ a.at < b.at + Size(b.kind)
                 /\ b.at < a.at + Size(a.kind)

\* get_unmapped_area for all three areas: the holes, or an errno.
UnmappedArea(m) ==
    LET total == VTASK + VVAR + TEXT
        free(x) == \A a \in layout[m] : \/ a.at >= x + total
                                       \/ x >= a.at + Size(a.kind)
    IN  {x \in Holes : x + total <= UserTop /\ free(x)} \cup {AddrTop - 1}

InUserRange(a) == a.at + Size(a.kind) <= UserTop

IsErrValue(addr) == addr = AddrTop - 1

\* _install_special_mapping refuses an area that overlaps another; it may also
\* find no memory.
CanInstall(mapped, a) == \A b \in mapped : ~Overlap(a, b)

\* The tasks in T are in exec, on m.
VtStart(T, m) ==
    /\ space = [u \in VtTasks |-> IF u \in T THEN m ELSE NullSpace]
    /\ doing = [u \in VtTasks |-> IF u \in T THEN "mapping" ELSE "user"]
    /\ ran = [n \in VtMms |-> IF n = m THEN T ELSE {}]
    /\ layout = [n \in VtMms |-> {}]
    /\ context = [n \in VtMms |-> AddrTop]
    /\ ptes = [n \in VtMms |-> {}]
    /\ offset = [u \in VtTasks |-> 0]
    /\ info = [u \in VtTasks |-> NullSpace]
    /\ turns = 0

VtInit == \E t \in VtTasks, m \in VtMms : VtStart({t}, m)

VtRunning(t) == space[t] # NullSpace

VtUsers(m) == {t \in VtTasks : space[t] = m}

Turn == turns < MaxTurns /\ turns' = turns + 1

-----------------------------------------------------------------------------
(* map_vdso: the areas and the context it leaves when the search answered  *)
(* hole and the first n installations were made.                           *)

\* Mutant: the vvar area is left when vtask cannot be installed.
Mapped_KeepsVvar(m, hole, n) ==
    LET addr == (hole + VTASK) % AddrTop
        vvar == Area("vvar", addr)
    IN  IF n = 3 THEN layout[m] \cup {Area("vdso", addr + VVAR), vvar, Area("vtask", addr - VTASK)}
        ELSE IF n = 2 THEN layout[m] \cup {vvar} ELSE layout[m]

Mapped(m, hole, n) ==
    LET addr == (hole + VTASK) % AddrTop IN
    IF n < 3 THEN layout[m]
    ELSE layout[m] \cup {Area("vdso", addr + VVAR), Area("vvar", addr), Area("vtask", addr - VTASK)}

\* How many of the three installations can be made, in their order.
Installs(m, hole) ==
    LET addr == (hole + VTASK) % AddrTop
        text == Area("vdso", addr + VVAR)
        vvar == Area("vvar", addr)
        vtask == Area("vtask", addr - VTASK)
        most == IF ~CanInstall(layout[m], text) THEN 0
                ELSE IF ~CanInstall(layout[m] \cup {text}, vvar) THEN 1
                ELSE IF ~CanInstall(layout[m] \cup {text, vvar}, vtask) THEN 2 ELSE 3
    IN  0 .. most

\* The error is looked for in addr only after VTASK_SIZE was added to it.
MapVdso(m) ==
    \E hole \in UnmappedArea(m) :
        IF IsErrValue((hole + VTASK) % AddrTop) THEN UNCHANGED <<layout, context>>
        ELSE \E n \in Installs(m, hole) :
            /\ layout' = [layout EXCEPT ![m] = Mapped(m, hole, n)]
            /\ context' = IF n < 3 THEN context
                          ELSE [context EXCEPT ![m] = (hole + VTASK + VVAR) % AddrTop]

\* map_vdso_once: the check, then map_vdso after the lock was let go.
MapVdsoOnce(t) ==
    /\ VtRunning(t) /\ doing[t] = "user" /\ layout[space[t]] = {}
    /\ doing' = [doing EXCEPT ![t] = "mapping"]
    /\ UNCHANGED <<space, layout, context, ptes, offset, info, ran, turns>>

MapLocked(t) ==
    /\ doing[t] = "mapping"
    /\ MapVdso(space[t])
    /\ doing' = [doing EXCEPT ![t] = "user"]
    /\ UNCHANGED <<space, ptes, offset, info, ran, turns>>

\* munmap of everything (external): what makes room for map_vdso_once.
Unmap(t) ==
    /\ Turn
    /\ VtRunning(t) /\ doing[t] = "user" /\ layout[space[t]] # {}
    /\ layout' = [layout EXCEPT ![space[t]] = {}]
    /\ ptes' = [ptes EXCEPT ![space[t]] = {}]
    /\ UNCHANGED <<space, context, doing, offset, info, ran>>

\* Mutant: context.vdso keeps the old address.
VdsoMremap_Stale(t, a) == UNCHANGED context

VdsoMremap(t, a) == context' = [context EXCEPT ![space[t]] = a.at]

\* mremap of the text (external), with the handler of vdso_mapping.
Mremap(t, a) ==
    LET m == space[t]
        new == Area("vdso", MoveTo)
    IN  /\ Turn
        /\ VtRunning(t) /\ doing[t] = "user"
        /\ a \in layout[m] /\ a.kind = "vdso"
        /\ CanInstall(layout[m], new)
        /\ layout' = [layout EXCEPT ![m] = (@ \ {a}) \cup {new}]
        /\ VdsoMremap(t, new)
        /\ UNCHANGED <<space, ptes, doing, offset, info, ran>>

-----------------------------------------------------------------------------
(* Faults.  A page that is present stays what it is.                       *)

Present(m, at) == \E p \in ptes[m] : p.at = at

VtInsert(m, new) == ptes' = [ptes EXCEPT ![m] =
                    @ \cup {p \in new : ~Present(m, p.at)}]

Page(at, what, of) == [at |-> at % AddrTop, what |-> what, of |-> of]

\* vtask_fault: the last page is a fresh one that holds task_offset; the others
\* are the pages of the task_struct of the task that faults.
VtaskFault(t, a, pgoff) ==
    VtInsert(space[t], {Page(a.at + pgoff, IF pgoff = VTASK - 1 THEN "metadata" ELSE "task", t)})

\* get_task_struct_info finds the vtask area from where the text is.
VtaskBase(text) == (text.at - VVAR - VTASK) % AddrTop

\* An access outside the user's addresses, or outside an area, is a SIGSEGV.
VtaskAt(m, base) == Area("vtask", base) \in layout[m] /\ InUserRange(Area("vtask", base))

\* Its two reads, each after the fault that brings the page in.
ReadMetadata(t, text) ==
    LET base == VtaskBase(text)
        m == space[t]
    IN  /\ VtRunning(t) /\ doing[t] = "user"
        /\ text \in layout[m] /\ text.kind = "vdso"
        /\ VtaskAt(m, base)
        /\ VtaskFault(t, Area("vtask", base), VTASK - 1)
        /\ \E p \in ptes'[m] :
              /\ p.at = (base + VTASK - 1) % AddrTop
              /\ offset' = [offset EXCEPT ![t] = Offset[p.of]]
        /\ doing' = [doing EXCEPT ![t] = "reading"]
        /\ UNCHANGED <<space, layout, context, info, ran, turns>>

ReadPid(t, text) ==
    LET base == VtaskBase(text)
        m == space[t]
    IN  /\ doing[t] = "reading"
        /\ text \in layout[m] /\ text.kind = "vdso"
        /\ VtaskAt(m, base)
        /\ VtaskFault(t, Area("vtask", base), 0)
        /\ \E p \in ptes'[m] :
              /\ p.at = base
              /\ info' = [info EXCEPT ![t] =
                    IF Offset[p.of] = offset[t] THEN p.of ELSE "garbage"]
        /\ doing' = [doing EXCEPT ![t] = "told"]
        /\ offset' = [offset EXCEPT ![t] = 0]
        /\ UNCHANGED <<space, layout, context, ran, turns>>

InfoUsed(t) ==
    /\ doing[t] = "told"
    /\ doing' = [doing EXCEPT ![t] = "user"]
    /\ info' = [info EXCEPT ![t] = NullSpace]
    /\ UNCHANGED <<space, layout, context, ptes, offset, ran, turns>>

\* The mapping went away under a reader: SIGSEGV ends the read.
ReadFails(t) ==
    /\ doing[t] = "reading"
    /\ ~\E text \in layout[space[t]] :
          text.kind = "vdso" /\ VtaskAt(space[t], VtaskBase(text))
    /\ doing' = [doing EXCEPT ![t] = "user"]
    /\ offset' = [offset EXCEPT ![t] = 0]
    /\ UNCHANGED <<space, layout, context, ptes, info, ran, turns>>

-----------------------------------------------------------------------------
(* Tasks.                                                                  *)

\* Mutant: vtask is not VM_WIPEONFORK.
Wiped_Copies(present) == present

\* dup_mmap copies no page of an area that is VM_WIPEONFORK, as vtask is.
Wiped(present) == {p \in present : p.what \notin {"task", "metadata"}}

VtFork(t, u, n) ==
    LET m == space[t] IN
        /\ VtRunning(t) /\ doing[t] = "user" /\ ~VtRunning(u)
        /\ VtUsers(n) = {}
        /\ space' = [space EXCEPT ![u] = n]
        /\ layout' = [layout EXCEPT ![n] = layout[m]]
        /\ context' = [context EXCEPT ![n] = context[m]]
        /\ ptes' = [ptes EXCEPT ![n] = Wiped(ptes[m])]
        /\ ran' = [ran EXCEPT ![n] = {u}]
        /\ UNCHANGED <<doing, offset, info, turns>>

VtCloneVm(t, u) ==
    /\ VtRunning(t) /\ doing[t] = "user" /\ ~VtRunning(u)
    /\ space' = [space EXCEPT ![u] = space[t]]
    /\ ran' = [ran EXCEPT ![space[t]] = @ \cup {u}]
    /\ UNCHANGED <<layout, context, ptes, doing, offset, info, turns>>

\* What is left of the mm a task leaves.
VtLeft(t, f, nothing) == IF VtUsers(space[t]) = {t} THEN [f EXCEPT ![space[t]] = nothing] ELSE f

VtExit(t) ==
    /\ VtRunning(t) /\ doing[t] = "user" /\ \E u \in VtTasks \ {t} : VtRunning(u)
    /\ space' = [space EXCEPT ![t] = NullSpace]
    /\ layout' = VtLeft(t, layout, {})
    /\ context' = VtLeft(t, context, AddrTop)
    /\ ptes' = VtLeft(t, ptes, {})
    /\ ran' = VtLeft(t, ran, {})
    /\ UNCHANGED <<doing, offset, info, turns>>

\* exec (external) gives the task a fresh mm, for which
\* arch_setup_additional_pages calls map_vdso.
VtExec(t, n) ==
    /\ Turn
    /\ VtRunning(t) /\ doing[t] = "user" /\ VtUsers(n) = {}
    /\ space' = [space EXCEPT ![t] = n]
    /\ layout' = VtLeft(t, layout, {})
    /\ context' = VtLeft(t, context, AddrTop)
    /\ ptes' = VtLeft(t, ptes, {})
    /\ ran' = [VtLeft(t, ran, {}) EXCEPT ![n] = {t}]
    /\ doing' = [doing EXCEPT ![t] = "mapping"]
    /\ UNCHANGED <<offset, info>>

VtNext ==
    \E t \in VtTasks :
        \/ MapVdsoOnce(t)
        \/ MapLocked(t)
        \/ Unmap(t)
        \/ \E a \in UNION {layout[m] : m \in VtMms} :
              \/ Mremap(t, a)
              \/ ReadMetadata(t, a)
              \/ ReadPid(t, a)
        \/ InfoUsed(t)
        \/ ReadFails(t)
        \/ \E u \in VtTasks : VtCloneVm(t, u) \/ \E n \in VtMms : VtFork(t, u, n)
        \/ VtExit(t)
        \/ \E n \in VtMms : VtExec(t, n)

VtSpec == VtInit /\ [][VtNext]_vtVars

-----------------------------------------------------------------------------
(* Properties.                                                             *)

\* Every variable has its type; a task that does not run is in no call, and
\* only the pages of areas that exist are present.
VtTypeOK ==
    /\ space \in [VtTasks -> VtMms \cup {NullSpace}]
    /\ context \in [VtMms -> 0 .. AddrTop]
    /\ \A t \in VtTasks : ~VtRunning(t) => doing[t] = "user" /\ info[t] = NullSpace
    /\ \A m \in VtMms : \A p \in ptes[m] :
          \E a \in layout[m] : p.at \in a.at .. a.at + Size(a.kind) - 1

\* map_vdso installs the three areas next to each other, with the context that
\* names them, or leaves the address space as it found it: the text and the
\* vvar area are taken back when a later installation fails, and vtask lies
\* where get_task_struct_info will look for it.
AllThreeTogether ==
    [][\A t \in VtTasks : doing[t] = "mapping" /\ doing'[t] = "user" =>
          LET m == space[t]
              new == layout'[m] \ layout[m]
          IN  /\ layout[m] \subseteq layout'[m]
              /\ \/ new = {} /\ context'[m] = context[m]
                 \/ \E text \in new :
                       /\ text.kind = "vdso" /\ context'[m] = text.at
                       /\ new = {text, Area("vvar", text.at - VVAR),
                                 Area("vtask", VtaskBase(text))}]_vtVars

\* The areas lie among the user's addresses.  The exception is what map_vdso
\* does when get_unmapped_area refuses: the errno is no longer recognised once
\* VTASK_SIZE was added, so vtask is put where the errno points.
InUserSpace ==
    \A m \in VtMms : \A a \in layout[m] : InUserRange(a) \/ a = Area("vtask", AddrTop - 1)

\* As long as an address space has a text area, context.vdso is where one
\* starts, also after mremap moved it and in a forked copy.
ContextNames ==
    \A m \in VtMms : (\E a \in layout[m] : a.kind = "vdso") => Area("vdso", context[m]) \in layout[m]

\* map_vdso, mremap and fork leave the areas where user code may be, and the
\* context where the text is.
AreasInPlace == VtTypeOK /\ ContextNames /\ InUserSpace

\* The vtask pages of an address space are those of tasks that ran on it: fork
\* leaves the parent's behind, so a child never reads its parent's task_struct.
PagesOfOwnTasks ==
    \A m \in VtMms : \A p \in ptes[m] : p.what \in {"task", "metadata"} => p.of \in ran[m]

\* A task whose address space no other task ever ran on gets its own pid from
\* get_task_struct_info.
InfoWhenAlone ==
    \A t \in VtTasks : VtRunning(t) /\ ran[space[t]] = {t} => info[t] \in {NullSpace, t}

\* The pages behind get_task_struct_info: never those of a task that was not on
\* the address space, and the caller's own where nobody else was.
TaskPages == PagesOfOwnTasks /\ InfoWhenAlone

\* get_task_struct_info returns the pid of the task that calls it
\* (vdso_task.h).
InfoIsCurrent == \A t \in VtTasks : info[t] \in {NullSpace, t}

=============================================================================
