----------------------------- MODULE SocketMsgs -----------------------------
(***************************************************************************)
(* The system calls that move many messages (net/socket.c): recvmmsg, by   *)
(* several tasks on one socket, and sendmmsg.  recvmsg and sendmsg are the *)
(* same with one message.  Files, addresses and buffers of the callers may *)
(* be bad at any access; the protocols below are external.                 *)
(***************************************************************************)
EXTENDS Naturals, Sequences, FiniteSets, FiniteSetsExt

CONSTANTS
    Receivers,      \* tasks in recvmmsg
    Vlen,           \* messages asked for, at most UIO_MAXIOV
    Addrs,          \* destinations
    MaxArrivals,    \* bound: messages that arrive
    MaxErrors       \* bound: errors that arrive, or that calls meet

ASSUME MsgAssumption == Vlen \in Nat \ {0} /\ MaxArrivals \in Nat /\ MaxErrors \in Nat

VARIABLES
    rq,         \* receive queue: "data" or "oob"
    skErr,      \* sk->sk_err
    rcv,        \* rcv[t]: a call of do_recvmmsg
    acct,       \* history: messages and errors, by what became of them
    snd         \* a call of __sys_sendmmsg

recvVars == <<rq, skErr, rcv, acct>>

Errors == {"EIO", "EFAULT", "EINTR"}
IdleRecv == [pc |-> "idle", n |-> 0, block |-> FALSE, waitone |-> FALSE,
             timed |-> FALSE, err |-> "ok"]
IdleSend == [pc |-> "idle", vec |-> <<>>, n |-> 0, used |-> "any", asked |-> {},
             last |-> "none", sent |-> 0, open |-> FALSE, err |-> "ok"]

\* The queues and the two calls in progress in their types.
MsgTypeOK ==
    /\ rq \in Seq({"data", "oob"}) /\ skErr \in Errors \cup {"ok"}
    /\ \A t \in Receivers :
        /\ rcv[t].pc \in {"idle", "loop", "end"} /\ rcv[t].n \in 0..Vlen
        /\ rcv[t].err \in Errors \cup {"ok", "EAGAIN"}
        /\ rcv[t].pc = "idle" => rcv[t] = IdleRecv
    /\ snd.pc \in {"idle", "loop", "end"} /\ snd.n \in 0..Vlen
    /\ snd.used \in Addrs \cup {"any", "null"} /\ snd.err \in Errors \cup {"ok", "EPERM"}

RecvInit ==
    /\ rq = <<>> /\ skErr = "ok" /\ rcv = [t \in Receivers |-> IdleRecv]
    /\ acct = [arrived |-> 0, reported |-> 0, dropped |-> 0,
               raised |-> 0, told |-> 0, replaced |-> 0]

\* The protocol queues a message, or reports an error: sk_err is stored.
MsgArrives ==
    /\ acct.arrived < MaxArrivals
    /\ \E m \in {"data", "oob"} : rq' = Append(rq, m)
    /\ acct' = [acct EXCEPT !.arrived = @ + 1]
    /\ UNCHANGED <<skErr, rcv>>

StoreErr(e, a) ==
    /\ skErr' = e
    /\ acct' = IF skErr # "ok" THEN [a EXCEPT !.replaced = @ + 1] ELSE a

ErrorArrives ==
    /\ acct.raised < MaxErrors
    /\ StoreErr("EIO", [acct EXCEPT !.raised = @ + 1])
    /\ UNCHANGED <<rq, rcv>>

\* do_recvmmsg up to its loop: sock_error takes a pending error and ends
\* the call with it.
RecvStart(t) ==
    /\ rcv[t].pc = "idle"
    /\ IF skErr # "ok"
       THEN /\ skErr' = "ok" /\ acct' = [acct EXCEPT !.told = @ + 1]
            /\ UNCHANGED rcv
       ELSE /\ \E b \in BOOLEAN, w \in BOOLEAN, d \in BOOLEAN :
                rcv' = [rcv EXCEPT ![t] = [IdleRecv EXCEPT !.pc = "loop", !.block = b,
                                                           !.waitone = w, !.timed = d]]
            /\ UNCHANGED <<skErr, acct>>
    /\ UNCHANGED rq

Looping(t) == rcv[t].pc = "loop"

\* A message was received and its length stored: the rest of the loop's body.
Received(r, m, expired) ==
    LET n == r.n + 1
    IN [r EXCEPT !.n = n, !.block = @ /\ ~r.waitone,
                 !.pc = IF n = Vlen \/ m = "oob" \/ (r.timed /\ expired) THEN "end" ELSE "loop"]

\* ___sys_recvmsg takes a message from the queue; the sender's address,
\* the flags or the length may then not be storable, and it is gone.
RecvOne(t) ==
    /\ Looping(t) /\ rq # <<>>
    /\ rq' = Tail(rq)
    /\ \/ /\ \E expired \in BOOLEAN : rcv' = [rcv EXCEPT ![t] = Received(@, Head(rq), expired)]
          /\ UNCHANGED acct
       \/ /\ acct.raised < MaxErrors
          /\ rcv' = [rcv EXCEPT ![t].err = "EFAULT", ![t].pc = "end"]
          /\ acct' = [acct EXCEPT !.dropped = @ + 1, !.raised = @ + 1]
    /\ UNCHANGED skErr

\* It fails before it has one: the header is bad, or a signal ends the wait.
RecvFails(t) ==
    /\ Looping(t) /\ acct.raised < MaxErrors
    /\ \E e \in {"EFAULT"} \cup (IF rq = <<>> /\ rcv[t].block THEN {"EINTR"} ELSE {}) :
        rcv' = [rcv EXCEPT ![t].err = e, ![t].pc = "end"]
    /\ acct' = [acct EXCEPT !.raised = @ + 1]
    /\ UNCHANGED <<rq, skErr>>

\* The protocol's recvmsg finds nothing: a pending error, or -EAGAIN.
RecvNothing(t) ==
    /\ Looping(t) /\ rq = <<>>
    /\ \/ /\ skErr # "ok"
          /\ rcv' = [rcv EXCEPT ![t].err = skErr, ![t].pc = "end"] /\ skErr' = "ok"
       \/ /\ skErr = "ok" /\ ~rcv[t].block
          /\ rcv' = [rcv EXCEPT ![t].err = "EAGAIN", ![t].pc = "end"] /\ UNCHANGED skErr
    /\ UNCHANGED <<rq, acct>>

\* Mutant: an error met after some messages is forgotten.
RecvEnd_Forgets(t) ==
    LET r == rcv[t] IN
    /\ r.pc = "end"
    /\ acct' = [acct EXCEPT !.reported = @ + r.n,
                            !.told = IF r.n = 0 /\ r.err \in Errors THEN @ + 1 ELSE @]
    /\ rcv' = [rcv EXCEPT ![t] = IdleRecv]
    /\ UNCHANGED <<rq, skErr>>

\* The end of do_recvmmsg: the messages count before the error, which is
\* then stored for the next call.
RecvEnd(t) ==
    LET r == rcv[t] IN
    /\ r.pc = "end"
    /\ IF r.n > 0 /\ r.err \in Errors
       THEN StoreErr(r.err, [acct EXCEPT !.reported = @ + r.n])
       ELSE /\ acct' = [acct EXCEPT !.reported = @ + r.n,
                                    !.told = IF r.err \in Errors THEN @ + 1 ELSE @]
            /\ UNCHANGED skErr
    /\ rcv' = [rcv EXCEPT ![t] = IdleRecv]
    /\ UNCHANGED rq

RecvNext ==
    \/ MsgArrives \/ ErrorArrives
    \/ \E t \in Receivers : \/ RecvStart(t) \/ RecvOne(t) \/ RecvFails(t)
                            \/ RecvNothing(t) \/ RecvEnd(t)

-----------------------------------------------------------------------------
SendMInit == snd = IdleSend

\* __sys_sendmmsg up to its loop; a message may have no destination.
SendStart ==
    /\ snd.pc = "idle"
    /\ \E vec \in [1..Vlen -> Addrs \cup {"null"}] :
        snd' = [IdleSend EXCEPT !.pc = "loop", !.vec = vec]

SendFails(s, e) == snd' = [s EXCEPT !.err = e, !.pc = "end"]

\* ____sys_sendmsg asks the security module, unless the message goes where
\* the last one that succeeded went.
Asks(s, addr) == addr = "null" \/ addr # s.used

Batched(s) == s.n + 1 < Vlen

\* ___sys_sendmsg and the rest of the loop's body
SendOne ==
    LET addr == snd.vec[snd.n + 1]
        asked == IF Asks(snd, addr) THEN snd.asked \cup {addr} ELSE snd.asked
        gone == [snd EXCEPT !.asked = asked, !.last = addr, !.used = addr,
                            !.sent = @ + 1, !.open = Batched(snd)]
    IN /\ snd.pc = "loop"
       /\ \/ SendFails(snd, "EFAULT")                        \* bad header or data
          \/ Asks(snd, addr) /\ SendFails(snd, "EPERM")      \* refused
          \/ SendFails([snd EXCEPT !.asked = asked], "EIO")  \* the protocol fails
          \/ SendFails(gone, "EFAULT")                       \* msg_len not storable
          \/ \E rest \in BOOLEAN :                           \* data left: stop here
                snd' = [gone EXCEPT !.n = @ + 1,
                                    !.pc = IF rest \/ snd.n + 1 = Vlen THEN "end" ELSE "loop"]

\* The number of messages, or the error if there are none.
SendEnd == snd.pc = "end" /\ snd' = IdleSend

SendMNext == SendStart \/ SendOne \/ SendEnd

-----------------------------------------------------------------------------
(***************************************************************************)
(* Every message that arrived is still queued, was or will be reported by  *)
(* the call that took it, or was dropped by a call that could not store    *)
(* what belongs to it: calls that overlap take none twice and lose none.   *)
(***************************************************************************)
MessagesConserved ==
    acct.arrived = Len(rq) + acct.reported + acct.dropped
                   + MapThenSumSet(LAMBDA t : rcv[t].n, Receivers)

(***************************************************************************)
(* Every error was told to a caller, is stored for the next one, or was    *)
(* replaced by a later error: a call that returns messages instead of the  *)
(* error it met keeps it, and no error is told twice.                      *)
(***************************************************************************)
ErrorsConserved ==
    acct.raised = acct.told + acct.replaced + (IF skErr # "ok" THEN 1 ELSE 0)
                  + Cardinality({t \in Receivers : rcv[t].err \in Errors})

(***************************************************************************)
(* A receiver that asked for MSG_WAITFORONE and has a message waits for no *)
(* other, and none that has all it asked for is still looking.             *)
(***************************************************************************)
WaitsForOne ==
    \A t \in Receivers :
        rcv[t].pc = "loop" => rcv[t].n < Vlen /\ (rcv[t].n > 0 /\ rcv[t].waitone => ~rcv[t].block)

(***************************************************************************)
(* sendmmsg sends nothing to a destination the security module was not     *)
(* asked about in this call, although it is asked once for a run of        *)
(* messages to one destination, and messages without one come in between.  *)
(***************************************************************************)
DestinationsAsked == snd.last \in snd.asked \cup {"none"}

(***************************************************************************)
(* What is counted was sent; at most one message was sent that is not; and *)
(* a call that sent all it was given has left none waiting for more.       *)
(***************************************************************************)
BatchesEnd ==
    /\ snd.sent - snd.n \in {0, 1} /\ (snd.sent # snd.n => snd.err = "EFAULT")
    /\ snd.n = Vlen => ~snd.open

(***************************************************************************)
(* recvmmsg and sendmmsg account for every message, every error and every  *)
(* destination, and wait no longer than asked, also when calls overlap and *)
(* stop half way.                                                          *)
(***************************************************************************)
BatchesExact ==
    /\ MsgTypeOK
    /\ MessagesConserved /\ ErrorsConserved /\ WaitsForOne
    /\ DestinationsAsked /\ BatchesEnd
=============================================================================
