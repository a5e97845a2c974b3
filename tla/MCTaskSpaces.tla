--------------------------- MODULE MCTaskSpaces ---------------------------
(***************************************************************************)
(* What clone, unshare and exec give a task, side by side: the attributes  *)
(* of set_thread_socket_attrs, the objects that tasks share, the copy of   *)
(* an address space, and the task_struct page next to the vDSO.  They      *)
(* share no state here; part says which of them a behaviour is of.         *)
(*                                                                         *)
(* Attributes: three task_structs for four tasks, so that the memory of a  *)
(* target can come back as another task while a call is in progress.       *)
(***************************************************************************)
EXTENDS SocketAttrs, TaskSharing, DupMmap, Vtask, TLC

CONSTANTS a1, a2, a3, u1, u2, Parts

\* Arguments on both sides of each range check.
MCArgs == {<<-2, 101>>, <<3, 100>>}

MCCloneFlags == {{"FS", "FILES"}, {"VM", "SIGHAND"}, {"SIGHAND"}, {"CLEAR_SIGHAND", "VM"},
                 {"VM", "SIGHAND", "THREAD", "FS", "FILES"}}
MCUnshareFlags == {{"FS", "FILES"}, {"SIGHAND"}, {"VM"}, {"NEWUSER", "FILES"}}

MCKinds == {[len |-> 1, flags |-> {"ACCOUNT", "LOCKED"}],
            [len |-> 2, flags |-> {"ACCOUNT", "file", "SHARED"}],
            [len |-> 1, flags |-> {"DONTCOPY", "ACCOUNT", "file"}],
            [len |-> 1, flags |-> {"WIPEONFORK", "ACCOUNT"}],
            [len |-> 2, flags |-> {"file"}]}
MCVmaLists == {<<a, b, c>> : a, b, c \in MCKinds}

\* Where in its page each task_struct starts.
MCOffset == (u1 :> 0) @@ (u2 :> 1)

Symmetry == Permutations({a1, a2, a3})

VARIABLE part

mcVars == <<part, attrVars, shVars, dupVars, vtVars>>

MCInit ==
    /\ part \in Parts
    /\ IF part = "attributes" THEN AttrInit ELSE AttrStart({})
    /\ IF part = "sharing" THEN ShInit ELSE ShStart({})
    /\ DupInit /\ (part # "dup_mmap" => parent = CHOOSE l \in VmaLists : TRUE)
    /\ IF part = "vtask" THEN VtInit ELSE VtStart({}, NullSpace)

MCNext ==
    /\ UNCHANGED part
    /\ \/ part = "attributes" /\ AttrNext /\ UNCHANGED <<shVars, dupVars, vtVars>>
       \/ part = "sharing" /\ ShNext /\ UNCHANGED <<attrVars, dupVars, vtVars>>
       \/ part = "dup_mmap" /\ DupNext /\ UNCHANGED <<attrVars, shVars, vtVars>>
       \/ part = "vtask" /\ VtNext /\ UNCHANGED <<attrVars, shVars, dupVars>>

MCSpec == MCInit /\ [][MCNext]_mcVars
=============================================================================
