--------------------------- MODULE SockLockProofs ---------------------------
(***************************************************************************)
(* Proofs about the lock of a socket, for any number of tasks and of       *)
(* processors: it excludes, no wake-up is lost, and nothing is left on the *)
(* backlog.                                                                *)
(***************************************************************************)
EXTENDS SockLock, SequenceTheorems, TLAPS

\* The SMT solver gets a minute for a leaf; a leaf that is better left to Zenon
\* says so.
USE SMTT(60)

\* The types of what the proofs read.
Types ==
    /\ slock \in LockTasks \cup {NoOne} /\ owned \in BOOLEAN
    /\ lockq \in Seq(LockTasks)
    /\ backlog \in Seq(Packets) /\ todo \in Seq(Packets) /\ rcvq \in Seq(Packets)
    /\ pc \in [LockTasks -> Locs]
    /\ goal \in [LockTasks -> Goals]
    /\ rx \in [Cpus -> {NoOne} \cup ({"new", "checked"} \X Packets)]

\* slock is held from lock_sock_fast to unlock_sock_fast and by nobody else.
FastHolds == \A t \in LockTasks : pc[t] = "fast" <=> slock = t

\* The owner that drains has packets to deliver, and only then are there any.
Draining ==
    /\ \A t \in LockTasks : pc[t] = "drain" => todo # <<>>
    /\ todo # <<>> => \E t \in LockTasks : pc[t] = "drain"

\* A reader registers before it lets the socket go, and stays registered until
\* it owns the socket again.
Registered ==
    \A t \in LockTasks :
        \/ pc[t] \in {"check", "wait"}
        \/ pc[t] \in {"unlock", "drain", "relock"} /\ goal[t] = "wait"
        => t \in sleepers

LockInv ==
    /\ Types /\ MutualExclusion /\ FastHolds /\ Draining /\ NothingStranded
    /\ Registered /\ DataWakeup /\ LockWakeup

\* A socket that nobody uses.
LEMMA LockInitially == LockInit => LockInv
<1> SUFFICES ASSUME LockInit PROVE LockInv OBVIOUS
<1> USE DEF LockInit
<1>1. Types
  <2>1. rx \in [Cpus -> {NoOne} \cup ({"new", "checked"} \X Packets)] OBVIOUS
  <2>2. \A S : <<>> \in Seq(S) BY EmptySeq
  <2>3. pc \in [LockTasks -> Locs] /\ goal \in [LockTasks -> Goals] BY DEF Locs, Goals
  <2> QED BY <2>1, <2>2, <2>3, ZenonT(60) DEF Types
<1>2. MutualExclusion BY DEF MutualExclusion, Owners, Owning
<1>3. FastHolds BY LockAssumption, ZenonT(60) DEF FastHolds
<1>4. Draining /\ NothingStranded BY DEF Draining, NothingStranded
<1>5. Registered /\ DataWakeup /\ LockWakeup BY DEF Registered, DataWakeup, LockWakeup
<1> QED BY <1>1, <1>2, <1>3, <1>4, <1>5 DEF LockInv

\* What __sock_queue_rcv_skb does to the queue and to the readers.
LEMMA QueueRcvWakes ==
    ASSUME NEW p \in Packets, QueueRcv(p), rcvq \in Seq(Packets)
    PROVE  /\ rcvq' \in Seq(Packets)
           /\ sleepers' = sleepers
           /\ woken' = sleepers \/ (woken' = woken /\ rcvq' = rcvq)
BY DEF QueueRcv, waits

\* Softirqs: a packet is delivered, or left to the owner, or dropped.
LEMMA LockSoftirq ==
    ASSUME LockInv, NEW c \in Cpus, Arrive(c) \/ RxCheck(c) \/ RxLocked(c)
    PROVE  LockInv'
<1> USE DEF LockInv
<1>1. CASE Arrive(c)
  <2>1. Types' BY <1>1 DEF Types, Arrive, queues, Packets
  <2>2. UNCHANGED <<slock, owned, lockq, pc, goal, queues, waits>> BY <1>1 DEF Arrive
  <2> QED BY <2>1, <2>2 DEF MutualExclusion, Owners, FastHolds, Draining, NothingStranded,
             Registered, DataWakeup, LockWakeup, queues, waits
<1>2. CASE RxCheck(c)
  <2>1. Types'
    <3>1. CASE rx' = [rx EXCEPT ![c] = NoOne] BY <1>2, <3>1 DEF Types, RxCheck, queues
    <3>2. CASE rx' = [rx EXCEPT ![c][1] = "checked"]
      <4>1. rx[c] \in {"new", "checked"} \X Packets BY <1>2 DEF Types, RxCheck
      <4>2. [rx[c] EXCEPT ![1] = "checked"] \in {"new", "checked"} \X Packets BY <4>1
      <4> QED BY <1>2, <3>2, <4>2 DEF Types, RxCheck, queues
    <3> QED BY <1>2, <3>1, <3>2 DEF RxCheck
  <2>2. UNCHANGED <<slock, owned, lockq, pc, goal, queues, waits>> BY <1>2 DEF RxCheck
  <2> QED BY <2>1, <2>2 DEF MutualExclusion, Owners, FastHolds, Draining, NothingStranded,
             Registered, DataWakeup, LockWakeup, queues, waits
<1>3. CASE RxLocked(c)
  <2>1. UNCHANGED <<slock, owned, lockq, pc, goal, todo>> /\ rx' = [rx EXCEPT ![c] = NoOne]
    BY <1>3, ZenonT(60) DEF RxLocked, waits
  <2>2. rx[c][2] \in Packets BY <1>3 DEF RxLocked, Types
  <2>3. /\ backlog' \in Seq(Packets) /\ rcvq' \in Seq(Packets) /\ sleepers' = sleepers
        /\ woken' = sleepers \/ (woken' = woken /\ rcvq' = rcvq)
        /\ backlog' = backlog \/ owned
    <3>1. CASE ~owned BY <1>3, <2>2, <3>1, QueueRcvWakes DEF RxLocked, Types
    <3>2. CASE owned
      <4>1. UNCHANGED <<rcvq, sleepers, woken>> BY <1>3, <3>2 DEF RxLocked, waits
      <4>2. backlog' = backlog \/ backlog' = Append(backlog, rx[c][2])
        BY <1>3, <3>2 DEF RxLocked
      <4>3. backlog' \in Seq(Packets) /\ rcvq' \in Seq(Packets)
        <5>1. backlog \in Seq(Packets) /\ rcvq \in Seq(Packets) BY DEF Types
        <5>2. Append(backlog, rx[c][2]) \in Seq(Packets) BY <2>2, <5>1, AppendProperties
        <5> QED BY <4>1, <4>2, <5>1, <5>2, ZenonT(60)
      <4> QED BY <3>2, <4>1, <4>3, ZenonT(60)
    <3> QED BY <3>1, <3>2, ZenonT(60)
  <2>4. Types' BY <2>1, <2>3 DEF Types
  <2>5. MutualExclusion' /\ FastHolds' /\ Draining' /\ LockWakeup' /\ Registered'
    BY <2>1, <2>3 DEF MutualExclusion, Owners, FastHolds, Draining, LockWakeup, Registered
  <2>6. NothingStranded' BY <2>1, <2>3 DEF NothingStranded
  <2>7. DataWakeup' BY <2>1, <2>3 DEF DataWakeup, Registered
  <2> QED BY <2>4, <2>5, <2>6, <2>7, ZenonT(60)
<1> QED BY <1>1, <1>2, <1>3

\* Steps of a task that neither take the lock nor let it go.
LEMMA LockLocal ==
    ASSUME LockInv, NEW t \in LockTasks,
           \/ Call(t) \/ UnlockSockFast(t) \/ Dequeue(t) \/ Leave(t)
           \/ CheckData(t) \/ WaitWoken(t) \/ WaitTimeout(t)
    PROVE  LockInv'
<1> USE DEF LockInv, Types, MutualExclusion, Owners, Owning, FastHolds, Draining,
            NothingStranded, Registered, DataWakeup, LockWakeup, Locs, queues, waits
<1>1. CASE Call(t) BY <1>1 DEF Call
<1>2. CASE UnlockSockFast(t) BY <1>2, LockAssumption DEF UnlockSockFast
<1>3. CASE Dequeue(t)
  <2>1. rcvq' \in Seq(Packets) BY <1>3 DEF Dequeue
  <2> QED BY <1>3, <2>1 DEF Dequeue
<1>4. CASE Leave(t)
  <2>1. PICK g \in Goals :
          /\ goal' = [goal EXCEPT ![t] = g]
          /\ sleepers' = IF g = "wait" THEN sleepers \cup {t} ELSE sleepers
    BY <1>4, ZenonT(60) DEF Leave
  <2>2. /\ pc[t] = "own" /\ pc' = [pc EXCEPT ![t] = "unlock"]
        /\ UNCHANGED <<slock, owned, lockq, rx, woken, backlog, todo, rcvq>>
    BY <1>4, ZenonT(60) DEF Leave
  <2>3. goal' \in [LockTasks -> Goals] BY <2>1, ZenonT(60)
  <2> QED BY <2>1, <2>2, <2>3
<1>5. CASE CheckData(t) BY <1>5 DEF CheckData
<1>6. CASE WaitWoken(t) BY <1>6 DEF WaitWoken
<1>7. CASE WaitTimeout(t) BY <1>7 DEF WaitTimeout
<1> QED BY <1>1, <1>2, <1>3, <1>4, <1>5, <1>6, <1>7, ZenonT(60)

\* The two outcomes of trying to take the lock as lock_sock does.
LEMMA LockTakes ==
    ASSUME LockInv, NEW t \in LockTasks, NEW place \in {"asleep", "fastasleep"},
           pc[t] \in {"locking", "woken", "fastlocking", "fastwoken"}, slock = NoOne,
           \/ owned /\ SleepFor(t, place)
           \/ ~owned /\ Take(t),
           UNCHANGED <<slock, goal, rx, marks, queues>>
    PROVE  LockInv'
<1> USE DEF LockInv, Types, MutualExclusion, Owners, Owning, FastHolds, Draining,
            NothingStranded, Registered, DataWakeup, LockWakeup, Locs, queues, waits
<1>1. CASE owned /\ SleepFor(t, place)
  <2>1. lockq' \in Seq(LockTasks) BY <1>1 DEF SleepFor
  <2> QED BY <1>1, <2>1, LockAssumption DEF SleepFor
<1>2. CASE ~owned /\ Take(t)
  BY <1>2, LockAssumption DEF Take
<1> QED BY <1>1, <1>2, ZenonT(60)

\* lock_sock and lock_sock_fast.
LEMMA LockLocks ==
    ASSUME LockInv, NEW t \in LockTasks, Locking(t)
    PROVE  LockInv'
<1>1. CASE LockSock(t) BY <1>1, LockTakes, ZenonT(60) DEF LockSock
<1>2. CASE LockSockFast(t) /\ ~(pc[t] = "fastlocking" /\ ~owned)
  BY <1>2, LockTakes, ZenonT(60) DEF LockSockFast
<1>3. CASE LockSockFast(t) /\ pc[t] = "fastlocking" /\ ~owned
  BY <1>3, LockAssumption
     DEF LockSockFast, LockInv, Types, MutualExclusion, Owners, Owning, FastHolds, Draining,
         NothingStranded, Registered, DataWakeup, LockWakeup, Locs, queues, waits
<1> QED BY <1>1, <1>2, <1>3 DEF Locking

\* __release_sock and release_sock.
LEMMA LockReleases ==
    ASSUME LockInv, NEW t \in LockTasks, ReleaseSock(t) \/ Drain(t)
    PROVE  LockInv'
<1> USE DEF LockInv, Types, MutualExclusion, Owners, Owning, FastHolds, Draining,
            NothingStranded, Registered, DataWakeup, LockWakeup, Locs
<1>1. CASE Drain(t)
  <2>1. /\ pc[t] = "drain" /\ todo # <<>> /\ todo' = Tail(todo)
        /\ UNCHANGED <<slock, owned, lockq, goal, rx, backlog>>
        /\ pc' = IF Len(todo) = 1 THEN [pc EXCEPT ![t] = "relock"] ELSE pc
    BY <1>1, ZenonT(60) DEF Drain
  <2>2. Head(todo) \in Packets /\ todo' \in Seq(Packets) BY <2>1
  <2>3. todo' = <<>> <=> Len(todo) = 1
    <3>1. Len(todo') = Len(todo) - 1 /\ Len(todo) \in Nat
      BY <2>1, HeadTailProperties, LenProperties, ZenonT(60)
    <3>2. todo' = <<>> <=> Len(todo') = 0 BY <2>2, EmptySeq, ZenonT(60)
    <3> QED BY <3>1, <3>2
  <2>4. /\ rcvq' \in Seq(Packets) /\ sleepers' = sleepers
        /\ woken' = sleepers \/ (woken' = woken /\ rcvq' = rcvq)
    BY <1>1, <2>2, QueueRcvWakes, ZenonT(60) DEF Drain
  <2>5. CASE Len(todo) = 1 BY <2>1, <2>2, <2>3, <2>4, <2>5
  <2>6. CASE Len(todo) # 1 BY <2>1, <2>2, <2>3, <2>4, <2>6, ZenonT(60)
  <2> QED BY <2>5, <2>6, ZenonT(60)
<1>2. CASE ReleaseSock(t) /\ backlog # <<>>
  <2>1. /\ pc[t] \in {"unlock", "relock"} /\ slock = NoOne
        /\ todo' = backlog /\ backlog' = <<>>
        /\ pc' = [pc EXCEPT ![t] = "drain"] /\ goal' = goal
        /\ UNCHANGED <<slock, owned, lockq, rx, rcvq, sleepers, woken>>
    BY <1>2 DEF ReleaseSock, waits
  <2> QED BY <2>1, <1>2, LockAssumption
<1>3. CASE ReleaseSock(t) /\ backlog = <<>>
  <2>1. /\ pc[t] \in {"unlock", "relock"} /\ slock = NoOne
        /\ UNCHANGED <<backlog, todo, slock, rx, rcvq, sleepers, woken>>
        /\ Ownership(t)
        /\ goal' = goal \/ goal' = [goal EXCEPT ![t] = "release"]
    BY <1>3, ZenonT(60) DEF ReleaseSock, waits
  <2>2. owned /\ Owners = {t} BY <2>1
  <2>3. todo = <<>> BY <2>1, <2>2
  <2>4. goal' \in [LockTasks -> Goals] BY <2>1, ZenonT(60) DEF Goals
  <2>5. \A u \in LockTasks \ {t} : goal'[u] = goal[u] BY <2>1
  <2>6. CASE goal[t] = "flush"
    <3>1. pc' = [pc EXCEPT ![t] = "own"] /\ UNCHANGED <<owned, lockq>>
      BY <2>1, <2>6 DEF Ownership
    <3>2. Types' BY <2>1, <2>4, <3>1, ZenonT(60)
    <3>3. MutualExclusion' /\ FastHolds' BY <2>1, <2>2, <3>1, LockAssumption
    <3>4. Draining' /\ NothingStranded' BY <1>3, <2>1, <2>3, <3>1, ZenonT(60)
    <3>5. Registered' /\ DataWakeup' /\ LockWakeup' BY <2>1, <2>2, <2>5, <3>1
    <3> QED BY <3>2, <3>3, <3>4, <3>5, ZenonT(60)
  <2>7. CASE goal[t] # "flush" /\ lockq = <<>>
    <3>1. PICK next \in {"check", "idle"} :
            /\ pc' = [pc EXCEPT ![t] = next] /\ owned' = FALSE /\ lockq' = lockq
            /\ next = "check" => goal[t] = "wait"
      BY <2>1, <2>7 DEF Ownership
    <3>2. Types' BY <2>1, <2>4, <3>1, ZenonT(60)
    <3>3. MutualExclusion' /\ FastHolds' BY <2>1, <2>2, <3>1, LockAssumption
    <3>4. Draining' /\ NothingStranded' BY <1>3, <2>1, <2>2, <2>3, <3>1, ZenonT(60)
    <3>5. Registered' /\ DataWakeup' /\ LockWakeup' BY <2>1, <2>2, <2>5, <2>7, <3>1
    <3> QED BY <3>2, <3>3, <3>4, <3>5, ZenonT(60)
  <2>8. CASE goal[t] # "flush" /\ lockq # <<>>
    <3>1. Head(lockq) \in LockTasks /\ Tail(lockq) \in Seq(LockTasks) BY <2>8
    <3>2. PICK w \in LockTasks, next \in {"check", "idle"}, ready \in {"woken", "fastwoken"} :
            /\ w = Head(lockq) /\ pc' = [pc EXCEPT ![t] = next, ![w] = ready]
            /\ owned' = FALSE /\ lockq' = Tail(lockq)
            /\ next = "check" => goal[t] = "wait"
            /\ ready = IF pc[w] = "asleep" THEN "woken" ELSE "fastwoken"
      BY <2>1, <2>8, <3>1, ZenonT(60) DEF Ownership
    <3>3. Types' BY <2>1, <2>4, <3>1, <3>2, ZenonT(60)
    <3>4. \A u \in LockTasks :
            pc'[u] = IF u = w THEN ready ELSE IF u = t THEN next ELSE pc[u]
      BY <3>2
    <3>5. MutualExclusion'
      <4>1. Owners' = {} BY <2>2, <3>2, <3>4
      <4> QED BY <2>1, <3>2, <4>1, ZenonT(60)
    <3>6. FastHolds' BY <2>1, <3>2, <3>4, LockAssumption
    <3>7. Draining' /\ NothingStranded' BY <1>3, <2>1, <2>3, <3>2, <3>4
    <3>8. Registered' /\ DataWakeup' BY <2>1, <2>2, <2>5, <3>2, <3>4
    <3>9. LockWakeup' BY <3>2, <3>4
    <3> QED BY <3>3, <3>5, <3>6, <3>7, <3>8, <3>9, ZenonT(60)
  <2> QED BY <2>6, <2>7, <2>8, ZenonT(60)
<1> QED BY <1>1, <1>2, <1>3, ZenonT(60)

\* The inductive invariant holds of every behaviour.
LEMMA LockAlways == LockSpec => []LockInv
<1>1. LockInv /\ [LockNext]_lockVars => LockInv'
  <2> SUFFICES ASSUME LockInv, [LockNext]_lockVars PROVE LockInv' BY ZenonT(60)
  <2>1. CASE UNCHANGED lockVars
    BY <2>1, ZenonT(60) DEF lockVars, LockInv, Types, MutualExclusion, Owners, FastHolds, Draining,
                NothingStranded, Registered, DataWakeup, LockWakeup
  <2>2. CASE LockNext
    BY <2>2, LockSoftirq, LockLocal, LockLocks, LockReleases DEF LockNext, Unlocking
  <2> QED BY <2>1, <2>2
<1> QED BY <1>1, LockInitially, PTL DEF LockSpec

\* lock_sock and lock_sock_fast together are a mutex, for every number of tasks
\* and of processors whose softirqs receive.
THEOREM LockExcludes == LockSpec => []MutualExclusion
<1>1. LockInv => MutualExclusion BY DEF LockInv
<1> QED BY <1>1, LockAlways, PTL

\* No wake-up is lost: neither of a task asleep for the socket nor of a reader
\* asleep for data.
THEOREM LockWakes == LockSpec => [](LockWakeup /\ DataWakeup)
<1>1. LockInv => LockWakeup /\ DataWakeup BY DEF LockInv
<1> QED BY <1>1, LockAlways, PTL

\* release_sock leaves no packet on the backlog of a socket that nobody owns.
THEOREM LockDelivers == LockSpec => []NothingStranded
<1>1. LockInv => NothingStranded BY DEF LockInv
<1> QED BY <1>1, LockAlways, PTL

-----------------------------------------------------------------------------
(***************************************************************************)
(* What the backlog promises: order and bounds.  Order is stated queue by  *)
(* queue, because a step moves a packet from one queue to the next.        *)
(***************************************************************************)
Has(q, p) == \E i \in DOMAIN q : q[i] = p
Told(q) == \A i, j \in DOMAIN q : q[i] = "first" /\ q[j] = "second" => i < j
Apart(q, r) == ~(Has(q, "second") /\ Has(r, "first"))
Handled(p) == \E c \in Cpus : rx[c] # NoOne /\ rx[c] \in {"new", "checked"} \X {p}

Ordered ==
    /\ Told(rcvq) /\ Told(todo) /\ Told(backlog)
    /\ Apart(rcvq, todo) /\ Apart(rcvq, backlog) /\ Apart(todo, backlog)

\* The second marked packet comes when no softirq handles the first any more.
Marked ==
    /\ marks # 2 => /\ ~Has(rcvq, "second") /\ ~Has(todo, "second")
                    /\ ~Has(backlog, "second") /\ ~Handled("second")
    /\ marks = 2 => ~Handled("first")

Counts ==
    /\ blen \in Nat /\ marks \in 0..2
    /\ sleepers \subseteq LockTasks /\ woken \subseteq sleepers

QueueInv == Counts /\ BacklogBounded /\ Ordered /\ Marked

\* Nothing is in an empty queue.
LEMMA EmptyQueue == Told(<<>>) /\ \A p : ~Has(<<>>, p)
BY DEF Told, Has

\* A packet that is queued comes after all others.
LEMMA AppendQueue ==
    ASSUME NEW q \in Seq(Packets), NEW p \in Packets
    PROVE  /\ Append(q, p) \in Seq(Packets) /\ Len(Append(q, p)) = Len(q) + 1
           /\ \A x : Has(Append(q, p), x) <=> Has(q, x) \/ p = x
           /\ Told(q) /\ (p = "first" => ~Has(q, "second")) => Told(Append(q, p))
<1>1. /\ Len(q) \in Nat /\ DOMAIN q = 1..Len(q) /\ DOMAIN Append(q, p) = 1..(Len(q) + 1)
      /\ \A i \in 1..Len(q) : Append(q, p)[i] = q[i]
      /\ Append(q, p)[Len(q) + 1] = p /\ Append(q, p) \in Seq(Packets)
      /\ Len(Append(q, p)) = Len(q) + 1
  OBVIOUS
<1>2. \A x : Has(Append(q, p), x) <=> Has(q, x) \/ p = x
  <2> TAKE x
  <2>1. ASSUME Has(Append(q, p), x) PROVE Has(q, x) \/ p = x BY <1>1, <2>1 DEF Has
  <2>2. ASSUME Has(q, x) \/ p = x PROVE Has(Append(q, p), x) BY <1>1, <2>2 DEF Has
  <2> QED BY <2>1, <2>2
<1>3. ASSUME Told(q), p = "first" => ~Has(q, "second") PROVE Told(Append(q, p))
  BY <1>1, <1>3 DEF Told, Has
<1> QED BY <1>1, <1>2, <1>3

\* The first packet is taken from a queue.
LEMMA TailQueue ==
    ASSUME NEW q \in Seq(Packets), q # <<>>
    PROVE  /\ Head(q) \in Packets /\ Tail(q) \in Seq(Packets)
           /\ Len(Tail(q)) = Len(q) - 1 /\ Len(q) \in Nat
           /\ Has(q, Head(q)) /\ \A x : Has(Tail(q), x) => Has(q, x)
           /\ Told(q) => Told(Tail(q)) /\ (Head(q) = "second" => ~Has(Tail(q), "first"))
<1>1. /\ Len(q) \in Nat \ {0} /\ DOMAIN q = 1..Len(q) /\ Head(q) = q[1]
      /\ Tail(q) \in Seq(Packets) /\ Len(Tail(q)) = Len(q) - 1
      /\ DOMAIN Tail(q) = 1..(Len(q) - 1) /\ Head(q) \in Packets
      /\ \A i \in 1..(Len(q) - 1) : Tail(q)[i] = q[i + 1]
  OBVIOUS
<1>2. Has(q, Head(q)) BY <1>1 DEF Has
<1>3. \A x : Has(Tail(q), x) => Has(q, x) BY <1>1 DEF Has
<1>4. ASSUME Told(q) PROVE Told(Tail(q))
  <2> SUFFICES ASSUME NEW i \in DOMAIN Tail(q), NEW j \in DOMAIN Tail(q),
                      Tail(q)[i] = "first", Tail(q)[j] = "second"
               PROVE  i < j
    BY DEF Told
  <2>1. i + 1 \in DOMAIN q /\ j + 1 \in DOMAIN q /\ q[i + 1] = "first" /\ q[j + 1] = "second"
    BY <1>1
  <2>2. i + 1 < j + 1 BY <1>4, <2>1 DEF Told
  <2> QED BY <1>1, <2>2
<1>5. ASSUME Told(q), Head(q) = "second", Has(Tail(q), "first") PROVE FALSE
  <2>1. PICK i \in DOMAIN Tail(q) : Tail(q)[i] = "first" BY <1>5 DEF Has
  <2>2. 1 \in DOMAIN q /\ i + 1 \in DOMAIN q /\ q[1] = "second" /\ q[i + 1] = "first"
    BY <1>1, <1>5, <2>1
  <2>3. i + 1 < 1 BY <1>5, <2>2 DEF Told
  <2> QED BY <1>1, <2>1, <2>3
<1> QED BY <1>1, <1>2, <1>3, <1>4, <1>5

\* One queue after another.
LEMMA JoinQueues ==
    ASSUME NEW q \in Seq(Packets), NEW r \in Seq(Packets)
    PROVE  /\ q \o r \in Seq(Packets)
           /\ \A x : Has(q \o r, x) => Has(q, x) \/ Has(r, x)
           /\ Told(q) /\ Told(r) /\ Apart(q, r) => Told(q \o r)
<1>1. /\ Len(q) \in Nat /\ Len(r) \in Nat /\ DOMAIN q = 1..Len(q) /\ DOMAIN r = 1..Len(r)
      /\ q \o r \in Seq(Packets) /\ Len(q \o r) = Len(q) + Len(r)
      /\ DOMAIN (q \o r) = 1..(Len(q) + Len(r))
  BY LenProperties, ConcatProperties
<1>2. \A i \in 1..(Len(q) + Len(r)) :
        (q \o r)[i] = IF i <= Len(q) THEN q[i] ELSE r[i - Len(q)]
  BY ConcatProperties
<1>3. \A i \in DOMAIN (q \o r) :
        \/ i \in DOMAIN q /\ i <= Len(q) /\ (q \o r)[i] = q[i]
        \/ i > Len(q) /\ i - Len(q) \in DOMAIN r /\ (q \o r)[i] = r[i - Len(q)]
  BY <1>1, <1>2
<1>4. \A x : Has(q \o r, x) => Has(q, x) \/ Has(r, x) BY <1>3 DEF Has
<1>5. ASSUME Told(q), Told(r), Apart(q, r) PROVE Told(q \o r)
  <2> SUFFICES ASSUME NEW i \in DOMAIN (q \o r), NEW j \in DOMAIN (q \o r),
                      (q \o r)[i] = "first", (q \o r)[j] = "second"
               PROVE  i < j
    BY ZenonT(60) DEF Told
  <2>0. i \in Nat /\ j \in Nat BY <1>1
  <2>1. CASE i \in DOMAIN q /\ i <= Len(q) /\ q[i] = "first"
    <3>1. CASE j \in DOMAIN q /\ q[j] = "second" BY <1>5, <2>1, <3>1 DEF Told
    <3>2. CASE j > Len(q) BY <1>1, <2>0, <2>1, <3>2
    <3> QED BY <1>3, <3>1, <3>2
  <2>2. CASE i > Len(q) /\ i - Len(q) \in DOMAIN r /\ r[i - Len(q)] = "first"
    <3>1. CASE j \in DOMAIN q /\ q[j] = "second" BY <1>5, <2>2, <3>1 DEF Apart, Has
    <3>2. CASE j > Len(q) /\ j - Len(q) \in DOMAIN r /\ r[j - Len(q)] = "second"
      <4>1. i - Len(q) < j - Len(q) BY <1>5, <2>2, <3>2 DEF Told
      <4> QED BY <1>1, <2>0, <4>1
    <3> QED BY <1>3, <3>1, <3>2
  <2> QED BY <1>3, <2>1, <2>2
<1> QED BY <1>1, <1>4, <1>5

\* Queue by queue in order, the line from the receive queue to the backlog is.
LEMMA LineInOrder ==
    ASSUME Types, Ordered PROVE InOrder
<1>0. rcvq \in Seq(Packets) /\ todo \in Seq(Packets) /\ backlog \in Seq(Packets) BY DEF Types
<1>1. /\ rcvq \o todo \in Seq(Packets) /\ Told(rcvq \o todo)
      /\ \A x : Has(rcvq \o todo, x) => Has(rcvq, x) \/ Has(todo, x)
  BY <1>0, JoinQueues DEF Ordered
<1>2. Apart(rcvq \o todo, backlog) BY <1>1 DEF Ordered, Apart
<1>3. Told(rcvq \o todo \o backlog)
  <2>1. Told(backlog) BY DEF Ordered
  <2> QED BY <1>0, <1>1, <1>2, <2>1, JoinQueues, ZenonT(60)
<1> QED BY <1>3, ZenonT(60) DEF Told, InOrder

\* A socket that nobody uses has empty queues.
LEMMA QueuesInitially == LockInit => QueueInv
<1> SUFFICES ASSUME LockInit PROVE QueueInv OBVIOUS
<1>1. rcvq = <<>> /\ todo = <<>> /\ backlog = <<>> /\ blen = 0 /\ marks = 0
  BY DEF LockInit
<1>2. Counts /\ BacklogBounded
  BY <1>1, LockAssumption DEF LockInit, Counts, BacklogBounded, rmem
<1>3. Ordered BY <1>1, EmptyQueue DEF Ordered, Apart
<1>4. Marked
  <2>1. \A c \in Cpus : rx[c] = NoOne BY DEF LockInit
  <2>2. ~Handled("second") BY <2>1, ZenonT(60) DEF Handled
  <2> QED BY <1>1, <2>2, EmptyQueue DEF Marked
<1> QED BY <1>2, <1>3, <1>4 DEF QueueInv

\* A step that leaves the packets alone.
LEMMA QueuesKept ==
    ASSUME QueueInv, UNCHANGED <<backlog, blen, todo, rcvq, rx, marks>>, Counts'
    PROVE  QueueInv'
BY DEF QueueInv, BacklogBounded, rmem, Ordered, Marked, Handled

\* __sock_queue_rcv_skb: what it does to the receive queue.
LEMMA QueueRcvAppends ==
    ASSUME NEW p \in Packets, QueueRcv(p), Counts
    PROVE  /\ rcvq' = rcvq \/ (rcvq' = Append(rcvq, p) /\ Len(rcvq) < RcvBuf)
           /\ sleepers' = sleepers /\ woken' \subseteq sleepers
BY DEF QueueRcv, waits, rmem, Counts

\* The softirq that loses its packet, to a queue or for good.
LEMMA HandledLess ==
    ASSUME NEW c \in Cpus, Types, rx' = [rx EXCEPT ![c] = NoOne]
    PROVE  \A p : Handled(p)' => Handled(p)
BY DEF Handled, Types

\* A packet arrives at a processor.
LEMMA QueuesArrive ==
    ASSUME QueueInv, Types, NEW c \in Cpus, Arrive(c)
    PROVE  QueueInv'
<1>0. Counts /\ BacklogBounded /\ Ordered /\ Marked BY DEF QueueInv
<1>1. UNCHANGED <<backlog, blen, todo, rcvq, sleepers, woken>> BY DEF Arrive, queues, waits
<1>2. PICK p \in Packets :
        /\ p # "plain" => p = IF marks = 0 THEN "first" ELSE "second"
        /\ p # "plain" => marks \in {0, 1}
        /\ p = "second" => \A d \in Cpus : rx[d] \notin {"new", "checked"} \X {"first"}
        /\ rx' = [rx EXCEPT ![c] = <<"new", p>>]
        /\ marks' = IF p = "plain" THEN marks ELSE marks + 1
  <2> DEFINE new == CASE marks = 0 -> {"first"} [] marks = 1 -> {"second"} [] OTHER -> {}
  <2>1. PICK p \in {"plain"} \cup new :
          /\ p = "second" => \A d \in Cpus : rx[d] \notin {"new", "checked"} \X {"first"}
          /\ rx' = [rx EXCEPT ![c] = <<"new", p>>]
          /\ marks' = IF p = "plain" THEN marks ELSE marks + 1
    BY ZenonT(60) DEF Arrive
  <2>2. marks \in 0..2 BY <1>0 DEF Counts
  <2>3. /\ p \in Packets /\ (p # "plain" => marks \in {0, 1})
        /\ p # "plain" => p = IF marks = 0 THEN "first" ELSE "second"
    BY <2>1, <2>2 DEF Packets
  <2> QED BY <2>1, <2>3, ZenonT(60)
<1>3. \A d \in Cpus : rx'[d] = IF d = c THEN <<"new", p>> ELSE rx[d] BY <1>2, ZenonT(60) DEF Types
<1>4. \A x : Handled(x)' => x = p \/ Handled(x) BY <1>3 DEF Handled
<1>5. p = "second" => ~Handled("first") BY <1>2 DEF Handled
<1>6. Counts' BY <1>0, <1>1, <1>2 DEF Counts
<1>7. BacklogBounded' /\ Ordered' BY <1>0, <1>1, ZenonT(60) DEF BacklogBounded, rmem, Ordered
<1>8. Marked' BY <1>0, <1>1, <1>2, <1>4, <1>5 DEF Marked, Counts, Packets
<1> QED BY <1>6, <1>7, <1>8 DEF QueueInv

\* __sk_receive_skb before it locks.
LEMMA QueuesCheck ==
    ASSUME QueueInv, Types, NEW c \in Cpus, RxCheck(c)
    PROVE  QueueInv'
<1>0. Counts /\ BacklogBounded /\ Ordered /\ Marked BY DEF QueueInv
<1>1. UNCHANGED <<backlog, blen, todo, rcvq, sleepers, woken, marks>> BY DEF RxCheck, queues, waits
<1>2. rx[c] # NoOne /\ rx[c] \in {"new", "checked"} \X Packets BY DEF RxCheck, Types
<1>3. \/ rx' = [rx EXCEPT ![c] = NoOne]
      \/ rx' = [rx EXCEPT ![c] = <<"checked", rx[c][2]>>]
  BY <1>2 DEF RxCheck
<1>4. \A x : Handled(x)' => Handled(x)
  <2>1. CASE rx' = [rx EXCEPT ![c] = NoOne] BY <2>1, HandledLess, ZenonT(60)
  <2>2. CASE rx' = [rx EXCEPT ![c] = <<"checked", rx[c][2]>>]
    <3>1. \A d \in Cpus : rx'[d] = IF d = c THEN <<"checked", rx[c][2]>> ELSE rx[d]
      BY <2>2 DEF Types
    <3> QED BY <1>2, <3>1 DEF Handled
  <2> QED BY <1>3, <2>1, <2>2
<1>5. Counts' BY <1>0, <1>1 DEF Counts
<1>6. BacklogBounded' /\ Ordered' BY <1>0, <1>1 DEF BacklogBounded, rmem, Ordered
<1>7. Marked' BY <1>0, <1>1, <1>4 DEF Marked
<1> QED BY <1>5, <1>6, <1>7 DEF QueueInv

\* __sk_receive_skb under the spinlock.
LEMMA QueuesReceive ==
    ASSUME QueueInv, LockInv, NEW c \in Cpus, RxLocked(c)
    PROVE  QueueInv'
<1>0. Counts /\ BacklogBounded /\ Ordered /\ Marked /\ Types /\ NothingStranded
  BY DEF QueueInv, LockInv
<1> DEFINE p == rx[c][2]
<1>1. /\ rx[c] # NoOne /\ p \in Packets /\ rx[c] \in {"new", "checked"} \X {p}
      /\ rx' = [rx EXCEPT ![c] = NoOne] /\ marks' = marks /\ todo' = todo
  <2>1. rx[c] # NoOne /\ rx[c] \in {"new", "checked"} \X Packets BY <1>0, ZenonT(60) DEF RxLocked, Types
  <2>2. rx' = [rx EXCEPT ![c] = NoOne] /\ marks' = marks /\ todo' = todo BY DEF RxLocked
  <2> QED BY <2>1, <2>2, ZenonT(60)
<1>2. \A x : Handled(x)' => Handled(x) BY <1>0, <1>1, HandledLess, ZenonT(60)
<1>3. /\ rcvq \in Seq(Packets) /\ backlog \in Seq(Packets) /\ Len(rcvq) \in Nat
      /\ Len(backlog) \in Nat /\ Len(todo) \in Nat
  BY <1>0 DEF Types
<1>4. p = "first" => ~Has(rcvq, "second") /\ ~Has(todo, "second") /\ ~Has(backlog, "second")
  <2> SUFFICES ASSUME p = "first" PROVE marks # 2 BY <1>0 DEF Marked
  <2>1. Handled("first") BY <1>1, ZenonT(60) DEF Handled
  <2> QED BY <1>0, <2>1, ZenonT(60) DEF Marked
<1>5. p = "second" => marks = 2
  <2> SUFFICES ASSUME p = "second" PROVE marks = 2 OBVIOUS
  <2>1. Handled("second") BY <1>1 DEF Handled
  <2> QED BY <1>0, <2>1 DEF Marked
<1> HIDE DEF p
<1>6. CASE ~owned
  <2>1. QueueRcv(p) /\ UNCHANGED <<backlog, blen>> BY <1>6, ZenonT(60) DEF RxLocked, p
  <2>2. /\ rcvq' = rcvq \/ (rcvq' = Append(rcvq, p) /\ Len(rcvq) < RcvBuf)
        /\ sleepers' = sleepers /\ woken' \subseteq sleepers
    BY <1>0, <1>1, <2>1, QueueRcvAppends
  <2>3. todo = <<>> /\ backlog = <<>> BY <1>0, <1>6 DEF NothingStranded
  <2>4. Counts' BY <1>0, <1>1, <2>1, <2>2, ZenonT(60) DEF Counts
  <2>5. CASE rcvq' = rcvq
    BY <1>0, <1>1, <1>2, <2>1, <2>4, <2>5, ZenonT(60) DEF QueueInv, BacklogBounded, rmem, Ordered, Marked
  <2>6. CASE rcvq' = Append(rcvq, p) /\ Len(rcvq) < RcvBuf
    <3>1. /\ Len(rcvq') = Len(rcvq) + 1 /\ \A x : Has(rcvq', x) <=> Has(rcvq, x) \/ p = x
          /\ Told(rcvq')
      BY <1>0, <1>1, <1>3, <1>4, <2>6, AppendQueue, ZenonT(60) DEF Ordered
    <3>2. BacklogBounded'
      BY <1>0, <1>1, <1>3, <2>1, <2>6, <3>1, LockAssumption DEF BacklogBounded, rmem, Counts
    <3>3. Ordered' BY <1>1, <2>1, <2>3, <3>1, EmptyQueue, ZenonT(60) DEF Ordered, Apart
    <3>4. Marked' BY <1>0, <1>1, <1>2, <1>5, <2>1, <3>1, ZenonT(60) DEF Marked
    <3> QED BY <2>4, <3>2, <3>3, <3>4, ZenonT(60) DEF QueueInv
  <2> QED BY <2>2, <2>5, <2>6, ZenonT(60)
<1>7. CASE owned
  <2>1. rcvq' = rcvq /\ sleepers' = sleepers /\ woken' = woken BY <1>7, ZenonT(60) DEF RxLocked, waits
  <2>2. CASE UNCHANGED <<backlog, blen>>
    <3>1. Counts' BY <1>0, <1>1, <2>1, <2>2 DEF Counts
    <3> QED BY <1>0, <1>1, <1>2, <2>1, <2>2, <3>1, ZenonT(60)
            DEF QueueInv, BacklogBounded, rmem, Ordered, Marked
  <2>3. CASE backlog' = Append(backlog, p) /\ blen' = blen + 1 /\ ~RcvqueuesFull
    <3>1. /\ Len(backlog') = Len(backlog) + 1 /\ Told(backlog')
          /\ \A x : Has(backlog', x) <=> Has(backlog, x) \/ p = x
      BY <1>0, <1>1, <1>3, <1>4, <2>3, AppendQueue, ZenonT(60) DEF Ordered
    <3>2. Counts' /\ BacklogBounded'
      BY <1>0, <1>1, <1>3, <2>1, <2>3, <3>1, LockAssumption
         DEF BacklogBounded, rmem, Counts, RcvqueuesFull
    <3>3. Ordered' BY <1>0, <1>1, <1>4, <2>1, <3>1, ZenonT(60) DEF Ordered, Apart
    <3>4. Marked' BY <1>0, <1>1, <1>2, <1>5, <2>1, <3>1, ZenonT(60) DEF Marked
    <3> QED BY <3>2, <3>3, <3>4, ZenonT(60) DEF QueueInv
  <2> QED BY <1>7, <2>2, <2>3, ZenonT(60) DEF RxLocked, p
<1> QED BY <1>6, <1>7

\* A receive call takes the first packet.
LEMMA QueuesDequeue ==
    ASSUME QueueInv, Types, NEW t \in LockTasks, Dequeue(t)
    PROVE  QueueInv'
<1>0. Counts /\ BacklogBounded /\ Ordered /\ Marked /\ rcvq \in Seq(Packets)
  BY DEF QueueInv, Types
<1>1. /\ rcvq # <<>> /\ rcvq' = Tail(rcvq)
      /\ UNCHANGED <<rx, marks, backlog, blen, todo, sleepers, woken>>
  BY DEF Dequeue, waits
<1>2. /\ Len(rcvq') = Len(rcvq) - 1 /\ Len(rcvq) \in Nat /\ Told(rcvq')
      /\ \A x : Has(rcvq', x) => Has(rcvq, x)
  BY <1>0, <1>1, TailQueue DEF Ordered
<1>3. Counts' BY <1>0, <1>1 DEF Counts
<1>4. BacklogBounded' BY <1>0, <1>1, <1>2, LockAssumption DEF BacklogBounded, rmem
<1>5. Ordered' BY <1>0, <1>1, <1>2, ZenonT(60) DEF Ordered, Apart
<1>6. Marked' BY <1>0, <1>1, <1>2 DEF Marked, Handled
<1> QED BY <1>3, <1>4, <1>5, <1>6 DEF QueueInv

\* __release_sock takes the backlog, after it delivered what it took before.
LEMMA QueuesRelease ==
    ASSUME QueueInv, LockInv, NEW t \in LockTasks, ReleaseSock(t)
    PROVE  QueueInv'
<1>0. /\ Counts /\ BacklogBounded /\ Ordered /\ Marked
      /\ Types /\ MutualExclusion /\ Draining
  BY DEF QueueInv, LockInv
<1>1. /\ pc[t] \in {"unlock", "relock"}
      /\ UNCHANGED <<rx, marks, rcvq, sleepers, woken>>
  BY DEF ReleaseSock, waits
<1>2. todo = <<>> BY <1>0, <1>1 DEF MutualExclusion, Owners, Owning, Draining
<1>3. Len(backlog) \in Nat /\ Len(rcvq) \in Nat /\ Len(<<>>) = 0 BY <1>0 DEF Types
<1>4. CASE backlog # <<>>
  <2>1. todo' = backlog /\ backlog' = <<>> /\ blen' = blen BY <1>4 DEF ReleaseSock
  <2>2. Counts' BY <1>0, <1>1, <2>1 DEF Counts
  <2>3. BacklogBounded' BY <1>0, <1>1, <1>2, <1>3, <2>1 DEF BacklogBounded, rmem
  <2>4. Ordered' BY <1>0, <1>1, <2>1, EmptyQueue, ZenonT(60) DEF Ordered, Apart
  <2>5. Marked' BY <1>0, <1>1, <2>1, EmptyQueue DEF Marked, Handled
  <2> QED BY <2>2, <2>3, <2>4, <2>5 DEF QueueInv
<1>5. CASE backlog = <<>>
  <2>1. UNCHANGED <<backlog, todo>> /\ (blen' = 0 \/ blen' = blen) BY <1>5 DEF ReleaseSock
  <2>2. Counts' BY <1>0, <1>1, <2>1 DEF Counts
  <2>3. BacklogBounded'
    BY <1>0, <1>1, <1>2, <1>3, <1>5, <2>1, LockAssumption DEF BacklogBounded, rmem, Counts
  <2>4. Ordered' /\ Marked' BY <1>0, <1>1, <2>1 DEF Ordered, Marked, Handled
  <2> QED BY <2>2, <2>3, <2>4, ZenonT(60) DEF QueueInv
<1> QED BY <1>4, <1>5

\* One packet of the list goes to the receive queue or is dropped.
LEMMA QueuesDrain ==
    ASSUME QueueInv, LockInv, NEW t \in LockTasks, Drain(t)
    PROVE  QueueInv'
<1>0. Counts /\ BacklogBounded /\ Ordered /\ Marked /\ Types /\ Draining
  BY DEF QueueInv, LockInv
<1>1. /\ pc[t] = "drain" /\ QueueRcv(Head(todo)) /\ todo' = Tail(todo)
      /\ UNCHANGED <<rx, marks, backlog, blen>>
  BY ZenonT(60) DEF Drain
<1>2. /\ todo # <<>> /\ todo \in Seq(Packets) /\ rcvq \in Seq(Packets) /\ Len(rcvq) \in Nat
      /\ Len(backlog) \in Nat
  BY <1>0, <1>1 DEF Draining, Types
<1> DEFINE p == Head(todo)
<1>3. /\ p \in Packets /\ Len(todo') = Len(todo) - 1 /\ Len(todo) \in Nat
      /\ Has(todo, p) /\ Told(todo') /\ (p = "second" => ~Has(todo', "first"))
      /\ \A x : Has(todo', x) => Has(todo, x)
  BY <1>0, <1>1, <1>2, TailQueue, ZenonT(60) DEF Ordered
<1>4. /\ rcvq' = rcvq \/ (rcvq' = Append(rcvq, p) /\ Len(rcvq) < RcvBuf)
      /\ sleepers' = sleepers /\ woken' \subseteq sleepers
  BY <1>0, <1>1, <1>3, QueueRcvAppends
<1> HIDE DEF p
<1>5. Counts' BY <1>0, <1>1, <1>4, ZenonT(60) DEF Counts
<1>6. CASE rcvq' = rcvq
  <2>1. BacklogBounded'
    BY <1>0, <1>1, <1>2, <1>3, <1>6 DEF BacklogBounded, rmem, Counts
  <2>2. Ordered' BY <1>0, <1>1, <1>3, <1>6, ZenonT(60) DEF Ordered, Apart
  <2>3. Marked' BY <1>0, <1>1, <1>3, <1>6, ZenonT(60) DEF Marked, Handled
  <2> QED BY <1>5, <2>1, <2>2, <2>3 DEF QueueInv
<1>7. CASE rcvq' = Append(rcvq, p) /\ Len(rcvq) < RcvBuf
  <2>1. p = "first" => ~Has(rcvq, "second") BY <1>0, <1>3, ZenonT(60) DEF Ordered, Apart
  <2>2. /\ Len(rcvq') = Len(rcvq) + 1 /\ Told(rcvq')
        /\ \A x : Has(rcvq', x) <=> Has(rcvq, x) \/ p = x
    BY <1>0, <1>2, <1>3, <1>7, <2>1, AppendQueue, ZenonT(60) DEF Ordered
  <2>3. BacklogBounded'
    BY <1>0, <1>1, <1>2, <1>3, <1>7, <2>2, LockAssumption DEF BacklogBounded, rmem, Counts
  <2>4. Ordered' BY <1>0, <1>1, <1>3, <2>2, ZenonT(60) DEF Ordered, Apart
  <2>5. Marked' BY <1>0, <1>1, <1>3, <2>2 DEF Marked, Handled
  <2> QED BY <1>5, <2>3, <2>4, <2>5 DEF QueueInv
<1> QED BY <1>4, <1>6, <1>7

\* The other steps of a task leave the packets alone.
LEMMA QueuesLocal ==
    ASSUME QueueInv, LockInv, NEW t \in LockTasks,
           \/ Call(t) \/ Locking(t) \/ UnlockSockFast(t) \/ Leave(t)
           \/ CheckData(t) \/ WaitWoken(t) \/ WaitTimeout(t)
    PROVE  QueueInv'
<1>0. Counts BY DEF QueueInv
<1>1. UNCHANGED <<backlog, blen, todo, rcvq, rx, marks>>
  BY ZenonT(60) DEF Call, Locking, LockSock, LockSockFast, UnlockSockFast, Leave, CheckData,
     WaitWoken, WaitTimeout, queues
<1>2. \/ UNCHANGED <<sleepers, woken>>
      \/ sleepers' = sleepers \ {t} /\ woken' = woken \ {t}
      \/ sleepers' = sleepers \cup {t} /\ woken' = woken
  BY ZenonT(60) DEF Call, Locking, LockSock, LockSockFast, SleepFor, Take, UnlockSockFast, Leave,
     CheckData, WaitWoken, WaitTimeout, waits
<1>3. Counts' BY <1>0, <1>1, <1>2 DEF Counts
<1> QED BY <1>1, <1>3, QueuesKept, ZenonT(60)

\* The two invariants hold of every behaviour.
LEMMA QueuesAlways == LockSpec => [](LockInv /\ QueueInv)
<1>1. LockInv /\ QueueInv /\ [LockNext]_lockVars => QueueInv'
  <2> SUFFICES ASSUME LockInv, QueueInv, [LockNext]_lockVars PROVE QueueInv' BY ZenonT(60)
  <2>0. Types BY DEF LockInv
  <2>1. CASE UNCHANGED lockVars
    <3>1. Counts' BY <2>1 DEF lockVars, QueueInv, Counts
    <3> QED BY <2>1, <3>1, QueuesKept, ZenonT(60) DEF lockVars
  <2>2. CASE LockNext
    BY <2>0, <2>2, QueuesArrive, QueuesCheck, QueuesReceive, QueuesDequeue, QueuesRelease,
       QueuesDrain, QueuesLocal, ZenonT(60) DEF LockNext, Unlocking
  <2> QED BY <2>1, <2>2
<1> QED BY <1>1, QueuesInitially, LockAlways, PTL DEF LockSpec

\* The lock of a socket is sound, for any number of tasks and processors and any
\* receive buffer: one owner, types, and no wake-up lost.
THEOREM LockIsSound == LockSpec => []LockSound
<1>1. LockInv /\ QueueInv => LockSound
  BY DEF LockInv, QueueInv, Counts, Types, LockSound, LockTypeOK
<1> QED BY <1>1, QueuesAlways, PTL

\* What is on its way to the receive queue stays in order and within the limits,
\* and an owner that lets go leaves nothing behind.
THEOREM BacklogIsDelivered == LockSpec => []BacklogDelivered
<1>1. LockInv /\ QueueInv => BacklogDelivered
  BY LineInOrder DEF LockInv, QueueInv, BacklogDelivered
<1> QED BY <1>1, QueuesAlways, PTL
=============================================================================
