---------------------------- MODULE MCTaskRefs ----------------------------
(***************************************************************************)
(* What tasks share and count references to, side by side: kernel stacks   *)
(* and their cache, mms with their users and their memory, and the clock   *)
(* pages of an address space.  They share no state here; part says which   *)
(* of them a behaviour is of.  The same three sets of model values serve   *)
(* all of them, so that the symmetry is one group.                         *)
(***************************************************************************)
EXTENDS StackCache, MmLife, VvarClock, TLC

CONSTANTS a1, a2, a3, b1, b2, b3, c1, c2, Parts

Symmetry ==
    Permutations({a1, a2, a3}) \cup Permutations({b1, b2, b3}) \cup Permutations({c1, c2})

VARIABLE part

mcVars == <<part, stkVars, mmVars, ckVars>>

MCInit ==
    /\ part \in Parts
    /\ StkInit
    /\ IF part = "mm" THEN MmInit ELSE MmStart({}, NullMm)
    /\ IF part = "clock" THEN CkInit ELSE CkStart({}, NoSpace)

MCNext ==
    /\ UNCHANGED part
    /\ \/ part = "stacks" /\ StkNext /\ UNCHANGED <<mmVars, ckVars>>
       \/ part = "mm" /\ MmNext /\ UNCHANGED <<stkVars, ckVars>>
       \/ part = "clock" /\ CkNext /\ UNCHANGED <<stkVars, mmVars>>

MCSpec == MCInit /\ [][MCNext]_mcVars
=============================================================================
