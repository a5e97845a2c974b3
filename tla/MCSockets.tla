----------------------------- MODULE MCSockets -----------------------------
(***************************************************************************)
(* Two threads of one process.  Three sockets and three descriptors let a  *)
(* socketpair run while the other thread holds a socket, and let both run  *)
(* out; MaxCreates bounds the counted creations of each thread.            *)
(***************************************************************************)
EXTENDS Sockets, TLC

CONSTANTS t1, t2, s1, s2, s3, f1, f2, f3

MCTasks == {t1, t2}
MCSocks == {s1, s2, s3}
MCFds == {f1, f2, f3}

\* -2 is ignored by set_thread_socket_attrs, -1 means no limit.
MCLimits == {-2, -1, 1}

Symmetry == Permutations(MCTasks) \cup Permutations(MCSocks) \cup Permutations(MCFds)
=============================================================================
