------------------------------ MODULE SockLife ------------------------------
(***************************************************************************)
(* The life of a struct sock (net/core/sock.c).  Two counters keep it:     *)
(* sk_refcnt, the references, and sk_wmem_alloc, one for all the           *)
(* references together plus the bytes of the packets in flight.  The last  *)
(* reference drops that one, and whoever brings sk_wmem_alloc to zero,     *)
(* possibly a driver that completes a transmission long after close(),     *)
(* frees the socket, now or after an RCU grace period.                     *)
(***************************************************************************)
EXTENDS Naturals, FiniteSets, FiniteSetsExt, TLC

CONSTANTS
    Socks,      \* memory for struct sock
    Skbs,       \* memory for packets
    NoSk,
    Kinds,      \* [kern, rcu, queue]: kernel sockets, SOCK_RCU_FREE,
                \* SOCK_USE_WRITE_QUEUE, as protocols combine them
    TrueSize,   \* skb->truesize
    MaxHolders  \* references a lookup may hold on one socket at a time

ASSUME LifeAssumption ==
    /\ Kinds \subseteq [kern : BOOLEAN, rcu : BOOLEAN, queue : BOOLEAN]
    /\ TrueSize \in Nat \ {0} /\ MaxHolders \in Nat

VARIABLES
    sk,         \* sk[s]: the struct sock, and who points to it
    skb,        \* skb[k]: a packet that points to a socket
    inuse,      \* net->core.sock_inuse
    netref,     \* references on the net namespace
    modref,     \* references on the protocol's module
    filterref   \* references on the filter that may be attached

lifeVars == <<sk, skb, inuse, netref, modref, filterref>>
counters == <<inuse, netref, modref, filterref>>

(***************************************************************************)
(* state: "free", "clone" (sk_clone_lock works on it; "uncharged" when its *)
(* filter could not be charged), "live", or "dying" (call_rcu or the       *)
(* destroy broadcast will call __sk_destruct).  open: a                    *)
(* struct socket refers to it and lookups find it.  holders: lookups that  *)
(* hold a reference.  timer: sk_timer is armed or its handler runs.        *)
(***************************************************************************)
FreeSk == [state |-> "free", kern |-> FALSE, rcu |-> FALSE, queue |-> FALSE,
           filter |-> FALSE, refcnt |-> 0, wmem |-> 0, open |-> FALSE,
           holders |-> 0, timer |-> "off"]
NoSkb == [sk |-> NoSk, fn |-> "none", stage |-> "none"]

\* Every field of a sock and of an skb holds a value of its type; no count is
\* negative.
LifeTypeOK ==
    /\ \A s \in Socks :
        /\ DOMAIN sk[s] = DOMAIN FreeSk
        /\ sk[s].state \in {"free", "clone", "uncharged", "live", "dying"}
        /\ sk[s].refcnt \in Nat /\ sk[s].wmem \in Nat /\ sk[s].holders \in Nat
        /\ sk[s].timer \in {"off", "armed", "running"}
        /\ sk[s].state = "free" => sk[s] = FreeSk
    /\ skb \in [Skbs -> {NoSkb} \cup [sk : Socks, fn : {"wfree", "efree", "both"},
                                       stage : {"flight", "half"}]]
    /\ inuse \in Nat /\ netref \in Nat /\ modref \in Nat /\ filterref \in Nat

LifeInit ==
    /\ sk = [s \in Socks |-> FreeSk]
    /\ skb = [k \in Skbs |-> NoSkb]
    /\ inuse = 0 /\ netref = 0 /\ modref = 0 /\ filterref = 0

-----------------------------------------------------------------------------
One(b) == IF b THEN 1 ELSE 0

\* sk_prot_alloc and the references sk_alloc and sk_clone_lock take.
Allocated(s, r) ==
    /\ sk[s].state = "free"
    /\ sk' = [sk EXCEPT ![s] = r]
    /\ modref' = modref + 1
    /\ netref' = netref + One(~r.kern)
    /\ inuse' = inuse + One(~r.kern)

\* __sk_destruct, with sk_prot_free; sock_disable_timestamp is in SockStamp.
Destruct(s, r) ==
    /\ sk' = [sk EXCEPT ![s] = FreeSk]
    /\ filterref' = filterref - One(r.filter)
    /\ netref' = netref - One(~r.kern)
    /\ modref' = modref - 1

\* __sk_free and sk_destruct: the socket leaves the count in use at once; it
\* is destroyed later when SOCK_RCU_FREE is set or when sock_diag has
\* listeners (not for a kernel socket), else now.
SkFreeNow(s, r) ==
    /\ inuse' = inuse - One(~r.kern)
    /\ \/ /\ r.rcu \/ ~r.kern
          /\ sk' = [sk EXCEPT ![s] = [r EXCEPT !.state = "dying"]]
          /\ UNCHANGED <<netref, modref, filterref>>
       \/ ~r.rcu /\ Destruct(s, r)

\* A counter of s has been lowered, giving r: at zero the socket is freed.
Settle(s, r) ==
    IF r.wmem = 0
    THEN SkFreeNow(s, r)
    ELSE sk' = [sk EXCEPT ![s] = r] /\ UNCHANGED counters

\* Mutant: the last reference frees the socket, packets in flight or not.
PutRef_Frees(r) ==
    IF r.refcnt = 1 THEN [r EXCEPT !.refcnt = 0, !.wmem = 0]
                    ELSE [r EXCEPT !.refcnt = @ - 1]

\* sock_put, and sk_free when it was the last reference.
PutRef(r) ==
    IF r.refcnt = 1 THEN [r EXCEPT !.refcnt = 0, !.wmem = @ - 1]
                    ELSE [r EXCEPT !.refcnt = @ - 1]

-----------------------------------------------------------------------------
\* Creation.

\* sk_alloc and sock_init_data.  Whether its protocol sets SOCK_RCU_FREE or
\* SOCK_USE_WRITE_QUEUE is the protocol's choice.
SkAlloc(s) ==
    /\ \E kind \in Kinds :
        Allocated(s, kind @@ [FreeSk EXCEPT !.state = "live", !.refcnt = 1,
                                            !.wmem = 1, !.open = TRUE])
    /\ UNCHANGED <<skb, filterref>>

\* sk_clone_lock by a softirq that holds s: the copy has no reference yet, a
\* count of one, and the filter's reference if that could be charged.
SkCloneLock(s, n) ==
    /\ sk[s].state = "live" /\ sk[s].holders > 0
    /\ \E charged \in BOOLEAN :
        /\ Allocated(n, [FreeSk EXCEPT !.state = IF sk[s].filter /\ ~charged
                                               THEN "uncharged" ELSE "clone",
                                      !.kern = sk[s].kern, !.rcu = sk[s].rcu,
                                      !.queue = sk[s].queue, !.wmem = 1,
                                      !.filter = sk[s].filter /\ charged])
        /\ filterref' = filterref + One(sk[s].filter /\ charged)
    /\ UNCHANGED skb

\* Its end: the child has two references, the accept queue's and the
\* softirq's; or sk_free_unlock_clone, when the filter was not charged, the
\* policy or the storage not copied.
CloneDone(n) ==
    /\ sk[n].state \in {"clone", "uncharged"}
    /\ \/ /\ sk[n].state = "clone"
          /\ sk' = [sk EXCEPT ![n].state = "live", ![n].refcnt = 2, ![n].open = TRUE,
                              ![n].holders = 1]
          /\ UNCHANGED counters
       \/ Settle(n, [sk[n] EXCEPT !.wmem = @ - 1])
    /\ UNCHANGED skb

\* SO_ATTACH_FILTER on an open socket.
AttachFilter(s) ==
    /\ sk[s].open /\ ~sk[s].filter
    /\ sk' = [sk EXCEPT ![s].filter = TRUE]
    /\ filterref' = filterref + 1
    /\ UNCHANGED <<skb, inuse, netref, modref>>

-----------------------------------------------------------------------------
\* References: lookups, the timer, and the struct socket.

\* Lookups find an open socket; one that started before it was unhashed may
\* still have it in hand when its memory is freed through RCU.
Findable(s) == sk[s].open \/ (sk[s].rcu /\ sk[s].state \in {"live", "dying"})

\* A lookup's refcount_inc_not_zero.
SockHold(s) ==
    /\ Findable(s) /\ sk[s].refcnt > 0 /\ sk[s].holders < MaxHolders
    /\ sk' = [sk EXCEPT ![s].refcnt = @ + 1, ![s].holders = @ + 1]
    /\ UNCHANGED <<skb, counters>>

\* sock_put at the end of __sk_receive_skb.
SockPut(s) ==
    /\ sk[s].holders > 0
    /\ Settle(s, PutRef([sk[s] EXCEPT !.holders = @ - 1]))
    /\ UNCHANGED skb

\* Whoever works on the socket: its process or a softirq with a reference.
Used(s) == sk[s].open \/ sk[s].holders > 0

\* sk_reset_timer: the timer holds a reference from the first arming on.
\* A handler that runs and is armed again keeps its own reference too; that
\* state is left to the protocols, which arm when no handler runs.
SkResetTimer(s) ==
    /\ Used(s) /\ sk[s].timer # "running"
    /\ sk' = [sk EXCEPT ![s].refcnt = @ + One(sk[s].timer = "off"), ![s].timer = "armed"]
    /\ UNCHANGED <<skb, counters>>

\* sk_stop_timer: __sock_put does not look for zero.
SkStopTimer(s) ==
    /\ Used(s) /\ sk[s].timer = "armed"
    /\ sk' = [sk EXCEPT ![s].refcnt = @ - 1, ![s].timer = "off"]
    /\ UNCHANGED <<skb, counters>>

TimerFires(s) ==
    /\ sk[s].timer = "armed"
    /\ sk' = [sk EXCEPT ![s].timer = "running"]
    /\ UNCHANGED <<skb, counters>>

\* The handler's end puts the timer's reference.
TimerDone(s) ==
    /\ sk[s].timer = "running"
    /\ Settle(s, PutRef([sk[s] EXCEPT !.timer = "off"]))
    /\ UNCHANGED skb

\* sk_common_release: no lookup finds the socket any more, and the struct
\* socket's reference goes.
SkCommonRelease(s) ==
    /\ sk[s].open
    /\ Settle(s, PutRef([sk[s] EXCEPT !.open = FALSE]))
    /\ UNCHANGED skb

\* The grace period or the broadcast is over.
DestructLater(s) ==
    /\ sk[s].state = "dying"
    /\ Destruct(s, sk[s])
    /\ UNCHANGED <<skb, inuse>>

-----------------------------------------------------------------------------
\* Packets.

\* skb_set_owner_w: no reference, the bytes keep the socket.
SkbSetOwnerW(s, k) ==
    /\ Used(s) /\ skb[k] = NoSkb
    /\ skb' = [skb EXCEPT ![k] = [sk |-> s, fn |-> "wfree", stage |-> "flight"]]
    /\ sk' = [sk EXCEPT ![s].wmem = @ + TrueSize]
    /\ UNCHANGED counters

\* skb_orphan_partial: the packet exchanges its bytes for a reference, unless
\* the last one is gone; then it only gives up its bytes, as at completion.
SkbOrphanPartial(k) ==
    LET s == skb[k].sk IN
    /\ skb[k].fn = "wfree" /\ skb[k].stage = "flight" /\ sk[s].refcnt > 0
    /\ sk' = [sk EXCEPT ![s].refcnt = @ + 1]
    /\ skb' = [skb EXCEPT ![k].fn = "both"]
    /\ UNCHANGED counters

\* The packet is done with sock_wfree.
Released(k) == [skb EXCEPT ![k] = IF skb[k].fn = "both"
                                  THEN [@ EXCEPT !.fn = "efree", !.stage = "flight"]
                                  ELSE NoSkb]

\* sock_wfree: all bytes but one go, sk_write_space is called, the last byte
\* goes; at once with SOCK_USE_WRITE_QUEUE, as in __sock_wfree.
SockWfree(k) ==
    LET s == skb[k].sk IN
    /\ skb[k].fn \in {"wfree", "both"} /\ skb[k].stage = "flight"
    /\ IF sk[s].queue
       THEN /\ Settle(s, [sk[s] EXCEPT !.wmem = @ - TrueSize])
            /\ skb' = Released(k)
       ELSE /\ sk' = [sk EXCEPT ![s].wmem = @ - (TrueSize - 1)]
            /\ skb' = [skb EXCEPT ![k].stage = "half"]
            /\ UNCHANGED counters

\* sk_write_space has returned.
SockWfreeLast(k) ==
    /\ skb[k].stage = "half"
    /\ Settle(skb[k].sk, [sk[skb[k].sk] EXCEPT !.wmem = @ - 1])
    /\ skb' = Released(k)

\* sock_efree
SockEfree(k) ==
    /\ skb[k].fn = "efree"
    /\ Settle(skb[k].sk, PutRef(sk[skb[k].sk]))
    /\ skb' = [skb EXCEPT ![k] = NoSkb]

-----------------------------------------------------------------------------
LifeNext ==
    \/ \E s \in Socks :
        \/ SkAlloc(s) \/ CloneDone(s) \/ AttachFilter(s)
        \/ SockHold(s) \/ SockPut(s) \/ SkCommonRelease(s) \/ DestructLater(s)
        \/ SkResetTimer(s) \/ SkStopTimer(s) \/ TimerFires(s) \/ TimerDone(s)
        \/ \E n \in Socks : SkCloneLock(s, n)
        \/ \E k \in Skbs : SkbSetOwnerW(s, k)
    \/ \E k \in Skbs :
        SkbOrphanPartial(k) \/ SockWfree(k) \/ SockWfreeLast(k) \/ SockEfree(k)

-----------------------------------------------------------------------------
SkbsOf(s, fns) == {k \in Skbs : skb[k].sk = s /\ skb[k].fn \in fns}

(***************************************************************************)
(* sk_refcnt counts exactly who refers to the socket: its struct socket,   *)
(* lookups, the timer, and the packets sock_efree will complete.           *)
(***************************************************************************)
RefsExact ==
    \A s \in Socks :
        sk[s].refcnt = One(sk[s].open) + sk[s].holders + One(sk[s].timer # "off")
                       + Cardinality(SkbsOf(s, {"efree", "both"}))

(***************************************************************************)
(* sk_wmem_alloc is one for all the references together, plus what each    *)
(* packet in flight still has to give back.                                *)
(***************************************************************************)
WmemExact ==
    \A s \in Socks :
        sk[s].wmem = One(sk[s].refcnt > 0 \/ sk[s].state \in {"clone", "uncharged"})
                     + MapThenSumSet(LAMBDA k : IF skb[k].stage = "half" THEN 1 ELSE TrueSize,
                                     SkbsOf(s, {"wfree", "both"}))

(***************************************************************************)
(* A socket is alive exactly as long as something points to it: a packet   *)
(* a driver still has, the sk_write_space call in sock_wfree, a timer, a   *)
(* lookup or its struct socket.  So nothing points to freed memory, and    *)
(* nothing is kept for ever once the last of them is gone.                 *)
(***************************************************************************)
AliveWhileUsed ==
    \A s \in Socks :
        sk[s].state = "live" <=>
            \/ Used(s) \/ sk[s].timer # "off"
            \/ SkbsOf(s, {"wfree", "efree", "both"}) # {}

(***************************************************************************)
(* The counters outside the socket agree with the sockets there are, also  *)
(* after failed clones: in use until the last byte is gone; the net        *)
(* namespace, the module and the filter until the socket is destroyed.     *)
(***************************************************************************)
CountersExact ==
    LET Is(P(_)) == Cardinality({s \in Socks : sk[s].state # "free" /\ P(sk[s])})
    IN /\ inuse = Is(LAMBDA r : ~r.kern /\ r.state # "dying")
       /\ netref = Is(LAMBDA r : ~r.kern)
       /\ modref = Is(LAMBDA r : TRUE)
       /\ filterref = Is(LAMBDA r : r.filter)

(***************************************************************************)
(* The counters of a struct sock, and those around it, are exact on every  *)
(* path of alloc, clone, send, complete and put; so a socket lives exactly *)
(* as long as something points to it.                                      *)
(***************************************************************************)
LifeExact == LifeTypeOK /\ RefsExact /\ WmemExact /\ CountersExact /\ AliveWhileUsed
=============================================================================
