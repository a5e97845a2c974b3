---------------------------- MODULE MCForkRamfs ----------------------------
(***************************************************************************)
(* copy_process, ramfs and the programs outside the kernel, side by side:  *)
(* forks with their failures and signals, the flush of a file to a         *)
(* directory, the files under /proc/ramfs with the mount options, the MYTB *)
(* table, and GPTfs.  They share no state here; part says which of them a  *)
(* behaviour is of.                                                        *)
(*                                                                         *)
(* sync: two tasks write and flush one file of two blocks while one        *)
(* directory is bound, with a crash.  rebind: they flush it one at a time, *)
(* with one write, while the mount is bound to one directory and then the  *)
(* other.  fork: the first task and memory for two more, which are         *)
(* interchangeable, as are the two that write.                             *)
(***************************************************************************)
EXTENDS RamfsSync, RamfsProc, AcpiTable, GptFs, CopyProcess, TLC

CONSTANTS t1, t2, f, d, e, n, Parts

MCNameOf == [x \in Files |-> n]

\* All strings of up to four letters out of three.
MCTexts == UNION {[1..len -> 1..3] : len \in 0..4}

Symmetry == Permutations({t1, t2})

VARIABLE part

mcVars == <<part, syncVars, procVars, acpiVars, gptVars, cpVars>>

MCInit ==
    /\ part \in Parts
    /\ SyncInit /\ ProcInit /\ AcpiInit /\ GptInit
    /\ part # "acpi" => built = <<>>
    /\ ForkInit /\ (part # "fork" => inside = {})

OneFlush == Cardinality({t \in Tasks : pc'[t] # "idle"}) <= 1

MCNext ==
    /\ UNCHANGED part
    /\ \/ /\ part = "sync" /\ SyncNext /\ binder'.dir # e
          /\ UNCHANGED <<procVars, acpiVars, gptVars, cpVars>>
       \/ /\ part = "rebind" /\ SyncNext /\ OneFlush /\ crashes' = 0 /\ writes' <= 1
          /\ UNCHANGED <<procVars, acpiVars, gptVars, cpVars>>
       \/ part = "proc" /\ ProcNext /\ UNCHANGED <<syncVars, acpiVars, gptVars, cpVars>>
       \/ part = "acpi" /\ AcpiNext /\ UNCHANGED <<syncVars, procVars, gptVars, cpVars>>
       \/ part = "gptfs" /\ GptNext /\ UNCHANGED <<syncVars, procVars, acpiVars, cpVars>>
       \/ part = "fork" /\ ForkNext /\ UNCHANGED <<syncVars, procVars, acpiVars, gptVars>>

MCSpec == MCInit /\ [][MCNext]_mcVars
=============================================================================
