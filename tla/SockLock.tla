------------------------------ MODULE SockLock ------------------------------
(***************************************************************************)
(* The lock of a struct sock (net/core/sock.c).  A process owns the socket *)
(* through sk_lock.owned, which it sets and clears under the spinlock      *)
(* sk_lock.slock.  A softirq that finds the socket owned leaves its packet *)
(* on the backlog, and the owner delivers the backlog before it lets go.   *)
(*                                                                         *)
(* What happens between spin_lock_bh and spin_unlock_bh touches nothing    *)
(* that others touch without slock, so such a section is one step; only    *)
(* lock_sock_fast returns with slock held, and slock then names its task.  *)
(***************************************************************************)
EXTENDS Naturals, Sequences

CONSTANTS
    LockTasks,  \* processes that lock the socket
    Readers,    \* the tasks that receive and wait for data
    FastLockers,\* the tasks that use lock_sock_fast; the others use lock_sock
    Cpus,       \* processors whose softirqs receive packets
    NoOne,      \* nobody, nothing
    RcvBuf      \* sk_rcvbuf, in packets: every packet has truesize 1

ASSUME LockAssumption ==
    /\ NoOne \notin LockTasks
    /\ Readers \subseteq LockTasks /\ FastLockers \subseteq LockTasks
    /\ RcvBuf \in Nat \ {0}

VARIABLES
    slock,      \* the task that holds sk_lock.slock since lock_sock_fast
    owned,      \* sk_lock.owned
    lockq,      \* sk_lock.wq: the tasks asleep in __lock_sock, in order
    backlog,    \* sk_backlog, head first
    blen,       \* sk_backlog.len
    todo,       \* the packets the owner took off the backlog
    rcvq,       \* sk_receive_queue, head first
    sleepers,   \* sk_sleep(sk): the tasks registered by sk_wait_data
    woken,      \* the tasks of sleepers with WQ_FLAG_WOKEN set
    pc,         \* where a task is
    goal,       \* what a task calls __release_sock for
    rx,         \* the packet each processor's softirq handles
    marks       \* how many packets have been marked

lockVars == <<slock, owned, lockq, backlog, blen, todo, rcvq, sleepers, woken, pc,
          goal, rx, marks>>
queues == <<backlog, blen, todo, rcvq>>
waits == <<sleepers, woken>>

(***************************************************************************)
(* The code never looks at what a packet is, so its order is told by two   *)
(* marked packets among any number of plain ones.                          *)
(***************************************************************************)
Packets == {"plain", "first", "second"}
Owning == {"own", "unlock", "drain", "relock"}
Locs == Owning \cup {"idle", "locking", "asleep", "woken", "fastlocking",
                     "fastasleep", "fastwoken", "fast", "check", "wait"}
Goals == {"release", "flush", "wait"}

\* The lock, the two queues and the tasks in their types.
LockTypeOK ==
    /\ slock \in LockTasks \cup {NoOne}
    /\ owned \in BOOLEAN
    /\ lockq \in Seq(LockTasks)
    /\ backlog \in Seq(Packets) /\ todo \in Seq(Packets) /\ rcvq \in Seq(Packets)
    /\ blen \in Nat
    /\ sleepers \subseteq LockTasks /\ woken \subseteq sleepers
    /\ pc \in [LockTasks -> Locs]
    /\ goal \in [LockTasks -> Goals]
    /\ rx \in [Cpus -> {NoOne} \cup ({"new", "checked"} \X Packets)]
    /\ marks \in 0..2

LockInit ==
    /\ slock = NoOne /\ owned = FALSE /\ lockq = <<>>
    /\ backlog = <<>> /\ blen = 0 /\ todo = <<>> /\ rcvq = <<>>
    /\ sleepers = {} /\ woken = {}
    /\ pc = [t \in LockTasks |-> "idle"]
    /\ goal = [t \in LockTasks |-> "release"]
    /\ rx = [c \in Cpus |-> NoOne]
    /\ marks = 0

(***************************************************************************)
(* Receiving.  sk_rmem_alloc is the length of the receive queue.           *)
(***************************************************************************)
rmem == Len(rcvq)

\* sk_rcvqueues_full
RcvqueuesFull == blen + rmem > RcvBuf

\* __sock_queue_rcv_skb, called through sk_backlog_rcv: the packet is queued
\* and every reader asleep is woken, or it is dropped because the buffer is
\* full or sk_rmem_schedule refuses.
QueueRcv(p) ==
    \/ /\ rmem < RcvBuf
       /\ rcvq' = Append(rcvq, p)
       /\ woken' = sleepers
       /\ UNCHANGED sleepers
    \/ UNCHANGED <<rcvq, waits>>

\* A packet for the socket arrives at a processor.
Arrive(c) ==
    /\ rx[c] = NoOne
    /\ \E p \in {"plain"} \cup (CASE marks = 0 -> {"first"}
                                  [] marks = 1 -> {"second"}
                                  [] OTHER -> {}) :
        \* Marked packets come in the order of their processing.
        /\ p = "second" => \A d \in Cpus : rx[d] \notin {"new", "checked"} \X {"first"}
        /\ rx' = [rx EXCEPT ![c] = <<"new", p>>]
        /\ marks' = IF p = "plain" THEN marks ELSE marks + 1
    /\ UNCHANGED <<slock, owned, lockq, pc, goal, queues, waits>>

\* __sk_receive_skb up to bh_lock_sock: the filter or the unlocked look at
\* the queues may discard the packet.
RxCheck(c) ==
    /\ rx[c] # NoOne /\ rx[c][1] = "new"
    /\ \/ rx' = [rx EXCEPT ![c] = NoOne]
       \/ ~RcvqueuesFull /\ rx' = [rx EXCEPT ![c][1] = "checked"]
    /\ UNCHANGED <<slock, owned, lockq, pc, goal, marks, queues, waits>>

\* __sk_receive_skb under bh_lock_sock: deliver, or leave to the owner.
RxLocked(c) ==
    /\ rx[c] # NoOne /\ rx[c][1] = "checked"
    /\ slock = NoOne
    /\ IF ~owned
       THEN QueueRcv(rx[c][2]) /\ UNCHANGED <<backlog, blen, todo>>
       ELSE /\ IF RcvqueuesFull
               THEN UNCHANGED <<backlog, blen>>
               ELSE /\ backlog' = Append(backlog, rx[c][2])
                    /\ blen' = blen + 1
            /\ UNCHANGED <<todo, rcvq, waits>>
    /\ rx' = [rx EXCEPT ![c] = NoOne]
    /\ UNCHANGED <<slock, owned, lockq, pc, goal, marks>>

(***************************************************************************)
(* Taking the lock: lock_sock and lock_sock_fast, with __lock_sock.        *)
(***************************************************************************)
Call(t) ==
    /\ pc[t] = "idle"
    /\ pc' = [pc EXCEPT ![t] = IF t \in FastLockers THEN "fastlocking" ELSE "locking"]
    /\ UNCHANGED <<slock, owned, lockq, goal, rx, marks, queues, waits>>

\* prepare_to_wait_exclusive and schedule
SleepFor(t, place) ==
    /\ lockq' = Append(lockq, t)
    /\ pc' = [pc EXCEPT ![t] = place]
    /\ UNCHANGED <<owned, waits>>

\* The lock is taken; a reader that slept leaves the wait queue of the data.
Take(t) ==
    /\ owned' = TRUE
    /\ pc' = [pc EXCEPT ![t] = "own"]
    /\ sleepers' = sleepers \ {t}
    /\ woken' = woken \ {t}
    /\ UNCHANGED lockq

\* Mutant: a task that was woken does not look at the flag again.
LockSock_NoRecheck(t) ==
    /\ pc[t] \in {"locking", "woken"} /\ slock = NoOne
    /\ IF owned /\ pc[t] = "locking" THEN SleepFor(t, "asleep") ELSE Take(t)
    /\ UNCHANGED <<slock, goal, rx, marks, queues>>

\* lock_sock_nested, and __lock_sock when schedule() returns
LockSock(t) ==
    /\ pc[t] \in {"locking", "woken"}
    /\ slock = NoOne
    /\ IF owned THEN SleepFor(t, "asleep") ELSE Take(t)
    /\ UNCHANGED <<slock, goal, rx, marks, queues>>

\* __lock_sock_fast: a socket that nobody owns is not owned either, slock
\* stays held.  After a sleep the lock is taken as by lock_sock.
LockSockFast(t) ==
    /\ slock = NoOne
    /\ \/ /\ pc[t] = "fastlocking" /\ ~owned
          /\ slock' = t
          /\ pc' = [pc EXCEPT ![t] = "fast"]
          /\ UNCHANGED <<owned, lockq, waits>>
       \/ /\ pc[t] = "fastlocking" /\ owned
          /\ SleepFor(t, "fastasleep")
          /\ UNCHANGED slock
       \/ /\ pc[t] = "fastwoken"
          /\ IF owned THEN SleepFor(t, "fastasleep") ELSE Take(t)
          /\ UNCHANGED slock
    /\ UNCHANGED <<goal, rx, marks, queues>>

\* unlock_sock_fast on the fast path: slock is released and nobody is woken.
UnlockSockFast(t) ==
    /\ pc[t] = "fast"
    /\ slock' = NoOne
    /\ pc' = [pc EXCEPT ![t] = "idle"]
    /\ UNCHANGED <<owned, lockq, goal, rx, marks, queues, waits>>

(***************************************************************************)
(* What an owner does.                                                     *)
(***************************************************************************)
\* A receive call takes the first packet; sock_rfree gives its memory back.
Dequeue(t) ==
    /\ pc[t] = "own" /\ t \in Readers /\ rcvq # <<>>
    /\ rcvq' = Tail(rcvq)
    /\ UNCHANGED <<slock, owned, lockq, pc, goal, rx, marks, backlog, blen, todo, waits>>

\* release_sock, sk_flush_backlog, or sk_wait_data on an empty queue, which
\* registers with the data's wait queue before it releases the socket.
Leave(t) ==
    /\ pc[t] = "own"
    /\ \E g \in Goals :
        /\ g = "wait" => t \in Readers /\ rcvq = <<>>
        /\ goal' = [goal EXCEPT ![t] = g]
        /\ sleepers' = IF g = "wait" THEN sleepers \cup {t} ELSE sleepers
    /\ pc' = [pc EXCEPT ![t] = "unlock"]
    /\ UNCHANGED <<slock, owned, lockq, rx, marks, woken, queues>>

\* The end of release_sock: ownership goes and the first waiter is woken,
\* which also takes it off the queue.  sk_flush_backlog keeps ownership.
Ownership(t) ==
    IF goal[t] = "flush"
    THEN pc' = [pc EXCEPT ![t] = "own"] /\ UNCHANGED <<owned, lockq>>
    ELSE LET next == IF goal[t] = "wait" THEN "check" ELSE "idle"
             w == Head(lockq)
             ready == IF pc[w] = "asleep" THEN "woken" ELSE "fastwoken"
         IN /\ owned' = FALSE
            /\ IF lockq = <<>>
               THEN pc' = [pc EXCEPT ![t] = next] /\ UNCHANGED lockq
               ELSE /\ pc' = [pc EXCEPT ![t] = next, ![w] = ready]
                    /\ lockq' = Tail(lockq)

\* Mutant: the length is zeroed with every list that is taken.
ReleaseSock_EarlyZero(t) ==
    /\ pc[t] \in {"unlock", "relock"} /\ slock = NoOne
    /\ blen' = 0 /\ backlog' = <<>> /\ todo' = backlog
    /\ IF backlog # <<>>
       THEN pc' = [pc EXCEPT ![t] = "drain"] /\ UNCHANGED <<owned, lockq>>
       ELSE Ownership(t)
    /\ UNCHANGED <<slock, goal, rx, marks, rcvq, waits>>

\* Mutant: the backlog is taken once.
ReleaseSock_Once(t) ==
    /\ pc[t] \in {"unlock", "relock"} /\ slock = NoOne
    /\ IF backlog # <<>> /\ pc[t] = "unlock"
       THEN /\ todo' = backlog /\ backlog' = <<>>
            /\ pc' = [pc EXCEPT ![t] = "drain"]
            /\ UNCHANGED <<owned, lockq, blen>>
       ELSE blen' = 0 /\ Ownership(t) /\ UNCHANGED <<backlog, todo>>
    /\ UNCHANGED <<slock, goal, rx, marks, rcvq, waits>>

\* __release_sock with slock held: the whole backlog is taken and slock is
\* let go, or the backlog is empty.  Its length is only zeroed at the end.
ReleaseSock(t) ==
    /\ pc[t] \in {"unlock", "relock"}
    /\ slock = NoOne
    /\ IF backlog # <<>>
       THEN /\ todo' = backlog /\ backlog' = <<>>
            /\ pc' = [pc EXCEPT ![t] = "drain"]
            /\ UNCHANGED <<owned, lockq, blen>>
       ELSE /\ blen' = IF pc[t] = "relock" \/ goal[t] = "flush" THEN 0 ELSE blen
            /\ Ownership(t)
            /\ UNCHANGED <<backlog, todo>>
    /\ goal' = IF pc'[t] \in {"idle", "check", "own"} THEN [goal EXCEPT ![t] = "release"] ELSE goal
    /\ UNCHANGED <<slock, rx, marks, rcvq, waits>>

\* One packet of __release_sock's inner loop, without slock.
Drain(t) ==
    /\ pc[t] = "drain"
    /\ QueueRcv(Head(todo))
    /\ todo' = Tail(todo)
    /\ pc' = IF Len(todo) = 1 THEN [pc EXCEPT ![t] = "relock"] ELSE pc
    /\ UNCHANGED <<slock, owned, lockq, goal, rx, marks, backlog, blen>>

(***************************************************************************)
(* sk_wait_event after the release: look, sleep until woken (or until the  *)
(* timeout or a signal), lock again.                                       *)
(***************************************************************************)
CheckData(t) ==
    /\ pc[t] = "check"
    /\ pc' = [pc EXCEPT ![t] = IF rcvq # <<>> THEN "locking" ELSE "wait"]
    /\ UNCHANGED <<slock, owned, lockq, goal, rx, marks, queues, waits>>

WaitWoken(t) ==
    /\ pc[t] = "wait" /\ t \in woken
    /\ pc' = [pc EXCEPT ![t] = "locking"]
    /\ UNCHANGED <<slock, owned, lockq, goal, rx, marks, queues, waits>>

WaitTimeout(t) ==
    /\ pc[t] = "wait" /\ t \notin woken
    /\ pc' = [pc EXCEPT ![t] = "locking"]
    /\ UNCHANGED <<slock, owned, lockq, goal, rx, marks, queues, waits>>

Unlocking == \E t \in LockTasks : ReleaseSock(t) \/ Drain(t)
Locking(t) == LockSock(t) \/ LockSockFast(t)

LockNext ==
    \/ \E c \in Cpus : Arrive(c) \/ RxCheck(c) \/ RxLocked(c)
    \/ Unlocking
    \/ \E t \in LockTasks :
        \/ Call(t) \/ Locking(t) \/ UnlockSockFast(t)
        \/ Dequeue(t) \/ Leave(t) \/ CheckData(t)
        \/ WaitWoken(t) \/ WaitTimeout(t)

LockSpec == LockInit /\ [][LockNext]_lockVars

-----------------------------------------------------------------------------
Owners == {t \in LockTasks : pc[t] \in Owning}

(***************************************************************************)
(* sk_lock is a mutex over both ways of locking: the tasks between         *)
(* lock_sock and the end of release_sock are at most one, the flag tells   *)
(* whether there is one, and none is there while lock_sock_fast's section  *)
(* holds slock.                                                            *)
(***************************************************************************)
MutualExclusion ==
    /\ \A t, u \in Owners : t = u
    /\ owned <=> Owners # {}
    /\ slock # NoOne => Owners = {}

(***************************************************************************)
(* No wake-up of __lock_sock is lost: when tasks sleep for a socket that   *)
(* nobody owns, one has been woken and will try, although release_sock     *)
(* wakes a single waiter and unlock_sock_fast none.                        *)
(***************************************************************************)
LockWakeup ==
    lockq # <<>> /\ ~owned => \E t \in LockTasks : pc[t] \in {"woken", "fastwoken"}

(***************************************************************************)
(* No wake-up of sk_wait_data is lost: a reader that sleeps while the      *)
(* receive queue has a packet has its WOKEN flag set.                      *)
(***************************************************************************)
DataWakeup ==
    \A t \in LockTasks : pc[t] = "wait" /\ rcvq # <<>> => t \in woken

(***************************************************************************)
(* A packet left on the backlog is delivered by the owner: release_sock    *)
(* never lets go while one is there.                                       *)
(***************************************************************************)
NothingStranded == backlog # <<>> \/ todo # <<>> => owned

(***************************************************************************)
(* Packets reach the receive queue in the order __sk_receive_skb handled   *)
(* them, whether they went through the backlog, through the list the owner *)
(* took from it, or straight there.                                        *)
(***************************************************************************)
InOrder ==
    LET line == rcvq \o todo \o backlog
    IN \A i, j \in DOMAIN line : line[i] = "first" /\ line[j] = "second" => i < j

(***************************************************************************)
(* The backlog's length, which is not lowered while the owner drains,      *)
(* covers what is still to be delivered and stays within a packet of       *)
(* sk_rcvbuf; the receive queue stays within sk_rcvbuf.                    *)
(***************************************************************************)
BacklogBounded ==
    /\ Len(backlog) + Len(todo) <= blen
    /\ blen <= RcvBuf + 1
    /\ rmem <= RcvBuf

(***************************************************************************)
(* The lock of a socket has one owner at a time and loses no wake-up,      *)
(* neither of the tasks that wait for it nor of the readers that wait for  *)
(* data while it is let go.                                                *)
(***************************************************************************)
LockSound == LockTypeOK /\ MutualExclusion /\ LockWakeup /\ DataWakeup

(***************************************************************************)
(* Nothing on its way to the receive queue is forgotten by an owner that   *)
(* lets go, overtaken, or piled up past the limit.                         *)
(***************************************************************************)
BacklogDelivered == NothingStranded /\ InOrder /\ BacklogBounded

(***************************************************************************)
(* "Doing the zeroing here guarantee we can not loop forever while a wild  *)
(* producer attempts to flood us" (sock.c:2736): whoever enters            *)
(* __release_sock leaves it, however many packets keep arriving.           *)
(***************************************************************************)
ReleaseEnds ==
    \A t \in LockTasks :
        pc[t] \in {"unlock", "drain", "relock"} ~> pc[t] \in {"idle", "check", "own"}

(***************************************************************************)
(* A reader that sleeps in sk_wait_data when a packet is queued gets up.   *)
(***************************************************************************)
ReaderWakes ==
    \A t \in Readers : pc[t] = "wait" /\ rcvq # <<>> ~> pc[t] # "wait"

(***************************************************************************)
(* release_sock and sk_wait_data end whatever the network does.            *)
(***************************************************************************)
LockProgress == ReleaseEnds /\ ReaderWakes
=============================================================================
