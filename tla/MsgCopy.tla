------------------------------ MODULE MsgCopy ------------------------------
(***************************************************************************)
(* sendto, recvfrom, sendmsg and recvmsg (net/socket.c) between the user's *)
(* memory and the protocol: the file reference, the address, the iovec and *)
(* the control buffer of one call.  The user's memory may be bad at any    *)
(* access, and other threads of the caller change the length that it holds *)
(* while the call is under way.  The compat layouts differ in the copy     *)
(* only, and are left out.                                                 *)
(***************************************************************************)
EXTENDS Integers, FiniteSetsExt

CONSTANTS Storage,   \* sizeof(struct sockaddr_storage)
          FastIov,   \* UIO_FASTIOV
          MaxIov,    \* UIO_MAXIOV
          CtlStack,  \* bytes of the control buffer on the stack
          CtlMax,    \* INT_MAX, for the length of control data
          NameLens,  \* lengths of addresses that callers pass
          IovLens,   \* numbers of segments that they pass
          CtlLens    \* lengths of control data that they pass

ASSUME MsgCopyAssumption ==
    /\ Storage \in Nat \ {0} /\ NameLens \subseteq Int
    /\ FastIov < MaxIov /\ CtlStack < CtlMax

VARIABLES umem,   \* what the user's length field holds
          mc      \* the call

msgCopyVars == <<umem, mc>>

Buffers == {"iov", "ctl"}

\* op, arg: the call, and the length passed to sendto; uname: the
\* user gave an address; msg_name, msg_namelen: for the protocol; valid: bytes
\* of the kernel's address that were written; held: file references; heap:
\* buffers from the allocator; space, wrote, told: the length that was read,
\* the bytes written to the user's address, the length stored (ghosts).
NoMsgCall == [pc |-> "idle", op |-> "none", arg |-> 0, uname |-> FALSE,
              msg_name |-> FALSE, msg_namelen |-> 0, valid |-> 0, held |-> 0,
              heap |-> [b \in Buffers |-> 0], space |-> 0, wrote |-> 0, told |-> -1]

MsgCopyInit == umem \in NameLens /\ mc = NoMsgCall

MsgStep(new) == mc' = new /\ UNCHANGED umem
MsgGoto(to) == [mc EXCEPT !.pc = to]

\* Where a failure, and the end, of the receiving calls leads.
RecvOut == IF mc.op = "recvmsg" THEN "put_iov" ELSE "put"

----------------------------------------------------------------------------
\* Addresses.

\* move_addr_to_kernel: -EINVAL.
AddrRefused(ulen) == ulen < 0 \/ ulen > Storage

\* Mutant: a negative length counts as a large one.
UserCut_Unsigned(len, klen) == IF len > klen \/ len < 0 THEN klen ELSE len

\* move_addr_to_user: what is left of the user's length.
UserCut(len, klen) == Min({len, klen})

\* The length is read from the user's memory, and the full length is stored in
\* its place after the copy.  Each access may fail.
MoveAddrToUser(next) ==
    LET len == UserCut(umem, mc.msg_namelen) IN
    \/ MsgStep(MsgGoto(RecvOut))
    \/ /\ len >= 0
       /\ \/ MsgStep([mc EXCEPT !.pc = RecvOut, !.space = umem, !.wrote = len])
          \/ /\ mc' = [mc EXCEPT !.pc = next, !.space = umem, !.wrote = len,
                                 !.told = mc.msg_namelen]
             /\ umem' = mc.msg_namelen

----------------------------------------------------------------------------
\* The four calls.

StartMsg(op, uname, arg) ==
    /\ mc = NoMsgCall
    /\ arg = 0 \/ op = "sendto"
    /\ MsgStep([mc EXCEPT !.pc = IF op \in {"sendto", "recvfrom"} THEN "import" ELSE "lookup",
                          !.op = op, !.arg = arg, !.uname = uname])

\* import_single_range comes before the file is looked up.
ImportRange ==
    /\ mc.pc = "import"
    /\ MsgStep(MsgGoto("done")) \/ MsgStep(MsgGoto("lookup"))

SockfdLookup ==
    /\ mc.pc = "lookup"
    /\ \/ MsgStep(MsgGoto("done"))
       \/ MsgStep([mc EXCEPT !.held = @ + 1,
                   !.pc = CASE mc.op = "sendto" -> "name"
                            [] mc.op = "recvfrom" -> "recv"
                            [] OTHER -> "header"])

SendtoName ==
    /\ mc.pc = "name"
    /\ IF ~mc.uname THEN MsgStep(MsgGoto("send"))
       ELSE \/ MsgStep(MsgGoto("put"))
            \/ /\ ~AddrRefused(mc.arg)
               /\ MsgStep([mc EXCEPT !.pc = "send", !.msg_name = TRUE,
                                     !.msg_namelen = mc.arg, !.valid = mc.arg])

\* __copy_msghdr_from_user cuts the length; sendmsg copies the address in.
CopyMsghdr ==
    LET len == IF mc.uname THEN Min({umem, Storage}) ELSE 0 IN
    /\ mc.pc = "header"
    /\ \/ MsgStep(MsgGoto("put"))
       \/ /\ len >= 0
          /\ IF mc.op = "sendmsg" /\ len > 0
             THEN /\ ~AddrRefused(len)
                  /\ MsgStep([mc EXCEPT !.pc = "iovec", !.msg_name = TRUE,
                                        !.msg_namelen = len, !.valid = len])
             ELSE MsgStep(MsgGoto("iovec"))

\* The number of segments, and import_iovec, which frees what it allocated
\* when it fails.
ImportIovec(nsegs) ==
    /\ mc.pc = "iovec"
    /\ \/ MsgStep(MsgGoto("put"))
       \/ /\ nsegs <= MaxIov
          /\ MsgStep([mc EXCEPT !.heap["iov"] = IF nsegs > FastIov THEN @ + 1 ELSE @,
                                !.pc = IF mc.op = "sendmsg" THEN "ctl" ELSE "recv"])

\* ____sys_sendmsg: the control data is copied to the stack or to a buffer
\* charged to the socket.
CopyCtl(ctl_len) ==
    LET large == ctl_len > CtlStack
        buf == [mc EXCEPT !.heap["ctl"] = IF large THEN @ + 1 ELSE @] IN
    /\ mc.pc = "ctl"
    /\ \/ ctl_len > CtlMax /\ MsgStep(MsgGoto("put_iov"))
       \/ /\ ctl_len <= CtlMax
          /\ \/ large /\ MsgStep(MsgGoto("put_iov"))
             \/ ctl_len > 0 /\ MsgStep([buf EXCEPT !.pc = "put_ctl"])
             \/ MsgStep([buf EXCEPT !.pc = "send"])

\* The protocol sends, or not (external).
ProtoSend ==
    /\ mc.pc = "send"
    /\ MsgStep(MsgGoto(IF mc.op = "sendmsg" THEN "put_ctl" ELSE "put"))

\* The protocol receives (external): it stores the sender's address where it is
\* asked to, and how long that is.  recvfrom asks only for a caller who does.
ProtoRecv(klen) ==
    LET wanted == mc.op = "recvmsg" \/ mc.uname
        len == IF wanted THEN klen ELSE 0 IN
    /\ mc.pc = "recv"
    /\ \/ MsgStep(MsgGoto(RecvOut))
       \/ MsgStep([mc EXCEPT !.pc = IF mc.uname THEN "addr" ELSE "flags",
                             !.msg_name = wanted, !.msg_namelen = len, !.valid = len])

AddrOut == mc.pc = "addr" /\ MoveAddrToUser("flags")

\* recvmsg stores the flags and the length of the control data, each of which
\* may fail; recvfrom has neither.
FlagsOut ==
    /\ mc.pc = "flags"
    /\ MsgStep(MsgGoto(RecvOut))

\* out_freectl, unless the data is on the stack.
FreeCtl ==
    /\ mc.pc = "put_ctl"
    /\ MsgStep([mc EXCEPT !.pc = "put_iov", !.heap["ctl"] = IF @ > 0 THEN @ - 1 ELSE @])

\* kfree(iov); there is none unless it was too long for the stack.
FreeIov ==
    /\ mc.pc = "put_iov"
    /\ MsgStep([mc EXCEPT !.pc = "put", !.heap["iov"] = IF @ > 0 THEN @ - 1 ELSE @])

FputLight ==
    /\ mc.pc = "put"
    /\ MsgStep([mc EXCEPT !.pc = "done", !.held = @ - 1])

MsgReturn == mc.pc = "done" /\ MsgStep(NoMsgCall)

\* Another thread of the caller.
UserWrites ==
    /\ umem' \in NameLens
    /\ UNCHANGED mc

MsgCopyNext ==
    \/ \E op \in {"sendto", "recvfrom", "sendmsg", "recvmsg"}, uname \in BOOLEAN, arg \in NameLens \cup {0} :
          StartMsg(op, uname, arg)
    \/ ImportRange \/ SockfdLookup \/ SendtoName \/ CopyMsghdr
    \/ \E n \in IovLens : ImportIovec(n)
    \/ \E n \in CtlLens : CopyCtl(n)
    \/ ProtoSend \/ (\E klen \in 0..Storage : ProtoRecv(klen)) \/ AddrOut \/ FlagsOut
    \/ FreeCtl \/ FreeIov \/ FputLight \/ MsgReturn \/ UserWrites

----------------------------------------------------------------------------
\* Properties.

\* Every variable has its type, and a call has at most one reference on its
\* file and one buffer of a kind.
MsgCopyTypeOK ==
    /\ umem \in NameLens \cup 0..Storage
    /\ mc.op \in {"none", "sendto", "recvfrom", "sendmsg", "recvmsg"}
    /\ mc.msg_namelen \in 0..Storage /\ mc.valid \in 0..Storage
    /\ mc.held \in 0..1 /\ mc.told \in -1..Storage

\* Whichever access fails, a call returns without a reference on the file and
\* without the buffers it took for the iovec and the control data, and frees
\* none that it did not take.
BuffersBalanced ==
    /\ \A b \in Buffers : mc.heap[b] \in 0..1
    /\ mc.pc = "done" => mc.held = 0 /\ \A b \in Buffers : mc.heap[b] = 0
    /\ mc.pc \in {"send", "recv", "addr", "flags"} => mc.held = 1

\* The address that a protocol is given to send to was copied in as far as its
\* length says, which is no more than the kernel's storage for it holds, and
\* there is no length without an address.
NameInitialised ==
    mc.pc = "send" => /\ mc.msg_namelen <= Min({mc.valid, Storage})
                      /\ ~mc.msg_name => mc.msg_namelen = 0

\* The user gets no more bytes of an address than their length field asked for
\* when the copy was made, whatever it held when the header was copied in, none
\* that the protocol did not write, and is told the full length.
AddressFits ==
    /\ mc.wrote <= mc.valid
    /\ mc.wrote > 0 => mc.wrote <= mc.space
    /\ mc.told # -1 => mc.told = mc.valid /\ mc.wrote = Min({mc.space, mc.valid})

\* Whatever access to user memory fails or changes, a message call gives back
\* what it took, and neither reads nor writes past an address.
CopiesExact == MsgCopyTypeOK /\ BuffersBalanced /\ NameInitialised /\ AddressFits
=============================================================================
