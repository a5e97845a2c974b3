------------------------------ MODULE MCWaits ------------------------------
(***************************************************************************)
(* The components of which something must eventually happen, side by side: *)
(* the socket lock and its backlog, senders that wait for buffer space,    *)
(* parents that wait for a vfork child, and the capture loop.  They share  *)
(* no state; part says which of them a behaviour is of.                    *)
(*                                                                         *)
(* Lock: a reader that sleeps for data (t1), a task that locks the socket  *)
(* for short sections with lock_sock_fast (t3) and one that does neither,  *)
(* against one CPU that receives.  A receive buffer of one packet makes    *)
(* the backlog reach its limit.                                            *)
(***************************************************************************)
EXTENDS SockLock, SockSend, Vfork, Capture

CONSTANTS t1, t2, t3, Parts

MCReaders == {t1}
MCFast == {t3}

VARIABLE part

mcVars == <<part, lockVars, sendVars, vfVars, capVars>>

MCInit ==
    /\ part \in Parts
    /\ LockInit /\ SendInit /\ VfInit /\ CapInit
    /\ part # "send" => sndbuf = CHOOSE n \in SndBufs : TRUE
    /\ part # "capture" => mode = "main"

MCNext ==
    /\ UNCHANGED part
    /\ \/ /\ part = "lock" /\ LockNext
          /\ UNCHANGED <<sendVars, vfVars, capVars>>
       \/ /\ part = "send" /\ SendNext
          /\ UNCHANGED <<lockVars, vfVars, capVars>>
       \/ /\ part = "vfork" /\ VfNext
          /\ UNCHANGED <<lockVars, sendVars, capVars>>
       \/ /\ part = "capture" /\ CapNext
          /\ UNCHANGED <<lockVars, sendVars, vfVars>>

(***************************************************************************)
(* The task inside release_sock goes on (there is one at a time); slock is *)
(* a queued spinlock, so whoever spins on it gets it once it is let go,    *)
(* and a section under it ends.  Nothing makes packets arrive or stop, an  *)
(* owner release the socket, or a timeout expire.                          *)
(***************************************************************************)
LockFairness ==
    /\ SF_lockVars(part = "lock" /\ Unlocking)
    /\ \A t \in FastLockers : WF_lockVars(part = "lock" /\ UnlockSockFast(t))
    /\ \A t \in Readers : WF_lockVars(part = "lock" /\ WaitWoken(t))

\* The device completes what it was given, and a woken task runs.
SendFairness ==
    /\ WF_sendVars(part = "send" /\ CompleteTx)
    /\ WF_sendVars(part = "send" /\ CompleteTxLast)
    /\ \A t \in Senders : WF_sendVars(part = "send" /\ Woken(t))

\* A task inside kernel_clone or mm_release goes on. A task in user mode need
\* not do anything.
VfFairness ==
    \A t \in VfTasks :
        /\ WF_vfVars(part = "vfork" /\ Waiting(t))
        /\ WF_vfVars(part = "vfork" /\ Completing(t))

\* The tool runs, and packets come.
CapFairness ==
    /\ WF_capVars(part = "capture" /\ Run)
    /\ WF_capVars(part = "capture" /\ PacketArrives)

MCSpec ==
    /\ MCInit /\ [][MCNext]_mcVars
    /\ LockFairness /\ SendFairness /\ VfFairness /\ CapFairness
=============================================================================
