---------------------------- MODULE MCSockCore ----------------------------
(***************************************************************************)
(* The parts of net/core/sock.c and net/socket.c that the lock of one      *)
(* socket does not tie together, side by side: the life of a struct sock,  *)
(* its options and time stamps, the registries of protocols and families,  *)
(* the calls that send and receive one message, and sendmmsg and recvmmsg. *)
(* They share no state here; part says which of them a behaviour is of.    *)
(***************************************************************************)
EXTENDS SockLife, SockOpts, SockStamp, ProtoRegistry, SocketMsgs, MsgCopy,
        TLC

CONSTANTS s1, s2, b1, b2, p1, p2, k1, k2, k3, Parts

\* A socket of TCP, and one of the kernel whose packets are all in the queue.
MCKinds == {[kern |-> FALSE, rcu |-> TRUE, queue |-> FALSE],
            [kern |-> TRUE, rcu |-> FALSE, queue |-> TRUE]}

\* Values at and around the limits that the options check.
MCOptVals == {-8, -1, 0, 1, 3, 4, 7}

\* Lengths around those that addresses may have.
MCNameLens == {-1, 0, 1, 2, 3}

MCTsChoices == {{}, {"RX_SOFTWARE"}, {"OPT_ID"}, {"OPT_ID", "OPT_STATS"}}

\* Two of the three modules are for one family.
MCFamily == (k1 :> 1 @@ k2 :> 2 @@ k3 :> 1)

VARIABLE part

mcVars == <<part, lifeVars, optVars, stampVars, protoVars, recvVars, snd,
            msgCopyVars>>

MCInit ==
    /\ part \in Parts
    /\ LifeInit /\ OptInit /\ StampInit /\ ProtoInit /\ RecvInit /\ SendMInit
    /\ MsgCopyInit
    /\ part # "msgcopy" => umem = 0
    /\ part # "options" => kind = "tcp"

MCNext ==
    /\ UNCHANGED part
    /\ \/ /\ part = "life" /\ LifeNext
          /\ UNCHANGED <<optVars, stampVars, protoVars, recvVars, snd, msgCopyVars>>
       \/ /\ part = "options" /\ OptNext
          /\ UNCHANGED <<lifeVars, stampVars, protoVars, recvVars, snd, msgCopyVars>>
       \/ /\ part = "stamps" /\ StampNext
          /\ UNCHANGED <<lifeVars, optVars, protoVars, recvVars, snd, msgCopyVars>>
       \/ /\ part = "registry" /\ ProtoNext
          /\ UNCHANGED <<lifeVars, optVars, stampVars, recvVars, snd, msgCopyVars>>
       \/ /\ part = "recvmmsg" /\ RecvNext
          /\ UNCHANGED <<lifeVars, optVars, stampVars, protoVars, snd, msgCopyVars>>
       \/ /\ part = "sendmmsg" /\ SendMNext
          /\ UNCHANGED <<lifeVars, optVars, stampVars, protoVars, recvVars, msgCopyVars>>
       \/ /\ part = "msgcopy" /\ MsgCopyNext
          /\ UNCHANGED <<lifeVars, optVars, stampVars, protoVars, recvVars, snd>>

MCSpec == MCInit /\ [][MCNext]_mcVars
=============================================================================
