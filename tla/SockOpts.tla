------------------------------ MODULE SockOpts ------------------------------
(***************************************************************************)
(* SOL_SOCKET options (net/core/sock.c): sock_setsockopt, which runs under *)
(* the socket's lock, and what sk_getsockopt reads without it.  One socket *)
(* is modelled; the timestamp options are those of SockStamp.  Integers    *)
(* are Width bits wide, and time is counted in units of which UsecPerSec   *)
(* make a second and UsecPerSec \div HZ a clock tick.                      *)
(***************************************************************************)
EXTENDS Integers, FiniteSets, TLC

CONSTANTS
    Width,                  \* bits of an int
    WmemMax, RmemMax,       \* sysctl_wmem_max, sysctl_rmem_max
    MinSnd, MinRcv,         \* SOCK_MIN_SNDBUF, SOCK_MIN_RCVBUF
    UsecPerSec, HZ,
    MaxTimeout,             \* MAX_SCHEDULE_TIMEOUT, in ticks
    TopPriority,            \* the last one anyone may set (6)
    U16Max,                 \* the largest budget of a busy poll
    Devices,                \* interface indexes that exist
    OptVals,                \* integer arguments tried
    MaxCalls                \* bound: setsockopt calls

IntMax == 2^(Width - 1) - 1
Ints == (-IntMax - 1)..IntMax
U32(v) == v % 2^Width                    \* (u32) of an int
Forever == MaxTimeout                    \* MAX_SCHEDULE_TIMEOUT
NoRate == 2^(2 * Width) - 1              \* ~0UL
Lesser(a, b) == IF a < b THEN a ELSE b
Greater(a, b) == IF a > b THEN a ELSE b

ASSUME OptAssumption ==
    /\ Width \in Nat \ {0, 1} /\ OptVals \subseteq Ints
    /\ WmemMax \in 1..IntMax /\ RmemMax \in 1..IntMax
    /\ MinSnd \in 1..IntMax /\ MinRcv \in 1..IntMax
    /\ HZ \in Nat \ {0} /\ UsecPerSec % HZ = 0
    /\ MaxTimeout \in Nat /\ Devices \subseteq 1..IntMax

\* Options that set or clear one flag, and the flag.
FlagOf == [SO_REUSEADDR |-> "sk_reuse", SO_DONTROUTE |-> "LOCALROUTE",
           SO_BROADCAST |-> "BROADCAST", SO_KEEPALIVE |-> "KEEPOPEN",
           SO_OOBINLINE |-> "URGINLINE", SO_NO_CHECK |-> "sk_no_check_tx",
           SO_PASSCRED |-> "PASSCRED", SO_PASSSEC |-> "PASSSEC",
           SO_RXQ_OVFL |-> "RXQ_OVFL", SO_WIFI_STATUS |-> "WIFI_STATUS",
           SO_NOFCS |-> "NOFCS", SO_SELECT_ERR_QUEUE |-> "SELECT_ERR_QUEUE"]
Flags == {FlagOf[f] : f \in DOMAIN FlagOf} \cup
         {"DBG", "sk_reuseport", "LINGER", "FILTER_LOCKED", "ZEROCOPY",
          "TXTIME", "sk_prefer_busy_poll"}

VARIABLES
    opt,    \* the fields of struct sock and the flags of struct socket
    kind,   \* family and protocol
    call,   \* history: was the last caller privileged, did it succeed
    asked,  \* history: what the last successful calls asked for
    calls

optVars == <<opt, kind, call, asked, calls>>

\* Every option of struct sock holds a value of its C type.
OptTypeOK ==
    /\ opt.flags \subseteq Flags /\ opt.locks \subseteq {"snd", "rcv", "bindaddr"}
    /\ opt.sndbuf \in Ints /\ opt.rcvbuf \in Ints /\ opt.lowat \in 1..IntMax
    /\ opt.priority \in Ints /\ opt.mark \in Ints /\ opt.ll_usec \in 0..IntMax /\ opt.budget \in 0..U16Max
    /\ opt.maxrate \in 0..NoRate /\ opt.rate \in 0..NoRate
    /\ opt.rcvtimeo \in 0..Forever /\ opt.sndtimeo \in 0..Forever
    /\ opt.lingertime \in 0..(2^Width - 1) /\ opt.ifindex \in 0..IntMax
    /\ opt.filter \in BOOLEAN /\ opt.clock \in {"realtime", "monotonic", "tai"}

\* sock_init_data, for the fields the options name
OptInit ==
    /\ opt = [flags |-> {}, locks |-> {"bindaddr"}, sndbuf |-> MinSnd, rcvbuf |-> MinRcv,
              lowat |-> 1, priority |-> 0, mark |-> 0, ll_usec |-> 0, budget |-> 0,
              maxrate |-> NoRate, rate |-> NoRate, lingertime |-> 0,
              rcvtimeo |-> Forever, sndtimeo |-> Forever, ifindex |-> 0,
              filter |-> FALSE, clock |-> "realtime"]
    /\ kind \in {"tcp", "raw", "unix"}
    /\ call = [cap |-> FALSE, ok |-> TRUE] /\ calls = 0
    /\ asked = [sndbuf |-> 0, rcvbuf |-> 0, rcvtimeo |-> <<0, 0>>, sndtimeo |-> <<0, 0>>]

Returns(cap, ok) == call' = [cap |-> cap, ok |-> ok]
Fail(cap) == Returns(cap, FALSE) /\ UNCHANGED <<opt, asked>>
Store(cap, o) == Returns(cap, TRUE) /\ opt' = o /\ UNCHANGED asked

\* sock_valbool_flag
Valbool(o, flag, v) ==
    [o EXCEPT !.flags = IF v # 0 THEN @ \cup {flag} ELSE @ \ {flag}]

SetFlag(name, v, cap) == Store(cap, Valbool(opt, FlagOf[name], v))

SetDebug(v, cap) ==
    IF v # 0 /\ ~cap THEN Fail(cap) ELSE Store(cap, Valbool(opt, "DBG", v))

SetReuseport(v, cap) ==
    IF v # 0 /\ kind = "unix" THEN Fail(cap)
                              ELSE Store(cap, Valbool(opt, "sk_reuseport", v))

\* set_sndbuf and __sock_set_rcvbuf
SetBuffer(buf, lock, min, v, cap) ==
    /\ opt' = [opt EXCEPT ![buf] = Greater(2 * Lesser(v, IntMax \div 2), min),
                          !.locks = @ \cup {lock}]
    /\ asked' = [asked EXCEPT ![buf] = v]
    /\ Returns(cap, TRUE)

SetSndbuf(force, v, cap) ==
    IF ~force THEN SetBuffer("sndbuf", "snd", MinSnd, Lesser(U32(v), WmemMax), cap)
    ELSE IF cap THEN SetBuffer("sndbuf", "snd", MinSnd, Greater(v, 0), cap)
    ELSE Fail(cap)

SetRcvbuf(force, v, cap) ==
    IF ~force THEN SetBuffer("rcvbuf", "rcv", MinRcv, Lesser(U32(v), RmemMax), cap)
    ELSE IF cap THEN SetBuffer("rcvbuf", "rcv", MinRcv, Greater(v, 0), cap)
    ELSE Fail(cap)

SetPriority(v, cap) ==
    IF v \in 0..TopPriority \/ cap THEN Store(cap, [opt EXCEPT !.priority = v])
                                   ELSE Fail(cap)

\* SO_LINGER on a 64-bit build: the product is that of unsigned ints.
SetLinger(on, v, cap) ==
    Store(cap, IF ~on THEN [opt EXCEPT !.flags = @ \ {"LINGER"}]
               ELSE [opt EXCEPT !.flags = @ \cup {"LINGER"},
                                !.lingertime = (U32(v) * HZ) % 2^Width])

SetRcvlowat(v, cap) ==
    LET val == IF v < 0 THEN IntMax ELSE v
    IN Store(cap, [opt EXCEPT !.lowat = IF val = 0 THEN 1 ELSE val])

Ticks(sec, usec) ==
    sec * HZ + (usec + UsecPerSec \div HZ - 1) \div (UsecPerSec \div HZ)

\* Mutant: the timeout is reset before the argument is checked.
SetTimeout_StoresFirst(which, sec, usec, cap) ==
    IF usec \notin 0..(UsecPerSec - 1)
    THEN opt' = [opt EXCEPT ![which] = Forever] /\ Returns(cap, FALSE) /\ UNCHANGED asked
    ELSE /\ opt' = [opt EXCEPT ![which] = IF sec < 0 THEN 0 ELSE Ticks(sec, usec)]
         /\ asked' = [asked EXCEPT ![which] = <<sec, usec>>]
         /\ Returns(cap, TRUE)

\* sock_set_timeout
SetTimeout(which, sec, usec, cap) ==
    IF usec \notin 0..(UsecPerSec - 1) THEN Fail(cap)
    ELSE /\ opt' = [opt EXCEPT ![which] =
                IF sec < 0 THEN 0
                ELSE IF sec + usec > 0 /\ sec < MaxTimeout \div HZ - 1 THEN Ticks(sec, usec)
                ELSE Forever]
         /\ asked' = [asked EXCEPT ![which] = <<sec, usec>>]
         /\ Returns(cap, TRUE)

\* SO_ATTACH_FILTER, SO_ATTACH_BPF and SO_DETACH_FILTER; the program itself
\* is checked by net/core/filter.c, which may refuse it.
SoAttachFilter(cap) ==
    \/ Fail(cap)
    \/ "FILTER_LOCKED" \notin opt.flags /\ Store(cap, [opt EXCEPT !.filter = TRUE])

DetachFilter(cap) ==
    IF "FILTER_LOCKED" \in opt.flags \/ ~opt.filter
    THEN Fail(cap) ELSE Store(cap, [opt EXCEPT !.filter = FALSE])

SetLockFilter(v, cap) ==
    IF "FILTER_LOCKED" \in opt.flags /\ v = 0
    THEN Fail(cap) ELSE Store(cap, Valbool(opt, "FILTER_LOCKED", v))

SetMark(v, cap) ==
    IF ~cap THEN Fail(cap) ELSE Store(cap, [opt EXCEPT !.mark = v])

\* SO_BUSY_POLL and SO_BUSY_POLL_BUDGET
SetBusyPoll(field, top, v, cap) ==
    IF (v > opt[field] /\ ~cap) \/ v \notin 0..top
    THEN Fail(cap) ELSE Store(cap, [opt EXCEPT ![field] = v])

SetPreferBusyPoll(v, cap) ==
    IF v # 0 /\ ~cap THEN Fail(cap)
                     ELSE Store(cap, Valbool(opt, "sk_prefer_busy_poll", v))

\* SO_MAX_PACING_RATE with an int, or with a long when wide
SetPacing(v, wide, cap) ==
    LET rate == IF wide THEN U32(v) + 2^Width
                ELSE IF U32(v) = 2^Width - 1 THEN NoRate ELSE U32(v)
    IN Store(cap, [opt EXCEPT !.maxrate = rate, !.rate = Lesser(@, rate)])

SetZerocopy(v, cap) ==
    IF kind # "tcp" \/ v \notin {0, 1}
    THEN Fail(cap) ELSE Store(cap, Valbool(opt, "ZEROCOPY", v))

SetTxtime(clock, cap) ==
    IF clock # "monotonic" /\ ~cap
    THEN Fail(cap)
    ELSE Store(cap, [opt EXCEPT !.flags = @ \cup {"TXTIME"}, !.clock = clock])

\* sock_bindtoindex_locked
BindToIndex(index, cap) ==
    IF (opt.ifindex # 0 /\ ~cap) \/ index < 0
    THEN Fail(cap) ELSE Store(cap, [opt EXCEPT !.ifindex = index])

\* sock_setbindtodevice: the name is looked up before the socket is locked.
SetBindToDevice(dev, cap) ==
    IF dev \in Devices \cup {0} THEN BindToIndex(dev, cap) ELSE Fail(cap)

SetBufLock(locks, cap) ==
    IF ~(locks \subseteq {"snd", "rcv"}) THEN Fail(cap)
    ELSE Store(cap, [opt EXCEPT !.locks = locks \cup (@ \ {"snd", "rcv"})])

\* the switch of sock_setsockopt
SetSockOpt(cap) ==
    \/ \E v \in OptVals :
        \/ SetDebug(v, cap) \/ SetReuseport(v, cap)
        \/ \E name \in DOMAIN FlagOf : SetFlag(name, v, cap)
        \/ \E force \in BOOLEAN : SetSndbuf(force, v, cap) \/ SetRcvbuf(force, v, cap)
        \/ SetPriority(v, cap) \/ SetRcvlowat(v, cap) \/ SetMark(v, cap)
        \/ \E on \in BOOLEAN : SetLinger(on, v, cap) \/ SetPacing(v, on, cap)
        \/ \E which \in {"rcvtimeo", "sndtimeo"}, usec \in {-1, 0, 1, UsecPerSec - 1, UsecPerSec} :
              SetTimeout(which, v, usec, cap)
        \/ SetLockFilter(v, cap) \/ SetBusyPoll("ll_usec", IntMax, v, cap)
        \/ SetBusyPoll("budget", U16Max, v, cap) \/ SetPreferBusyPoll(v, cap)
        \/ SetZerocopy(v, cap) \/ BindToIndex(v, cap) \/ SetBindToDevice(v, cap)
    \/ SoAttachFilter(cap) \/ DetachFilter(cap)
    \/ \E clock \in {"realtime", "monotonic", "tai"} : SetTxtime(clock, cap)
    \/ \E locks \in SUBSET {"snd", "rcv", "bindaddr"} : SetBufLock(locks, cap)

\* __sys_setsockopt: the security module or a control group's program may
\* refuse the call, and the program may also do it in place of the socket.
SysSetsockopt(cap) == \/ Fail(cap) \/ Store(cap, opt) \/ SetSockOpt(cap)

OptNext ==
    /\ calls < MaxCalls /\ calls' = calls + 1
    /\ \E cap \in BOOLEAN : SysSetsockopt(cap)
    /\ UNCHANGED kind

-----------------------------------------------------------------------------
\* What sk_getsockopt reads.

\* The options that are a flag, wherever they are in the switch.
ReadFlags == [name \in DOMAIN FlagOf |-> FlagOf[name] \in opt.flags]

\* sock_get_timeout
ReadTimeout(t) ==
    IF t = Forever THEN <<0, 0>> ELSE <<t \div HZ, ((t % HZ) * UsecPerSec) \div HZ>>

ReadPacing == IF opt.maxrate > 2^Width - 1 THEN -1 ELSE opt.maxrate

\* One reading for each other option, or group of options over the same field,
\* in the order of the switch.
ReadFirst ==
    [SO_DEBUG |-> "DBG" \in opt.flags, SO_REUSEPORT |-> "sk_reuseport" \in opt.flags,
     SO_SNDBUF |-> opt.sndbuf, SO_RCVBUF |-> opt.rcvbuf, SO_PRIORITY |-> opt.priority,
     SO_LINGER |-> <<"LINGER" \in opt.flags, opt.lingertime \div HZ>>]
ReadTimes ==
    [SO_RCVTIMEO |-> ReadTimeout(opt.rcvtimeo), SO_SNDTIMEO |-> ReadTimeout(opt.sndtimeo),
     SO_RCVLOWAT |-> opt.lowat]
ReadMiddle ==
    [SO_MARK |-> opt.mark, SO_GET_FILTER |-> opt.filter,
     SO_LOCK_FILTER |-> "FILTER_LOCKED" \in opt.flags, SO_BUSY_POLL |-> opt.ll_usec,
     SO_PREFER_BUSY_POLL |-> "sk_prefer_busy_poll" \in opt.flags,
     SO_MAX_PACING_RATE |-> ReadPacing]
ReadLast ==
    [SO_ZEROCOPY |-> "ZEROCOPY" \in opt.flags, SO_TXTIME |-> opt.clock,
     SO_BINDTOIFINDEX |-> opt.ifindex, SO_BUF_LOCK |-> opt.locks \cap {"snd", "rcv"}]

Named(reading) == {<<name, reading[name]>> : name \in DOMAIN reading}
Readings ==
    UNION {Named(ReadFlags), Named(ReadFirst), Named(ReadTimes), Named(ReadMiddle), Named(ReadLast)}

Changed == {reading[1] : reading \in Readings' \ Readings}

(***************************************************************************)
(* A call of setsockopt that fails leaves every option as it was, although *)
(* the arguments of some are checked after the switch was entered; one     *)
(* that succeeds changes the option it names and no other, but for the     *)
(* buffer locks that setting a buffer takes.                               *)
(***************************************************************************)
OnlyWhatIsNamed ==
    [][ opt' # opt =>
        LET changed == Changed IN
        /\ ~call'.ok => changed = {}
        /\ Cardinality(changed \ {"SO_BUF_LOCK"}) <= 1
        /\ "SO_BUF_LOCK" \in changed => changed \subseteq {"SO_BUF_LOCK", "SO_SNDBUF", "SO_RCVBUF"}
      ]_optVars

(***************************************************************************)
(* What a caller without privileges may never do, whatever the calls that  *)
(* came before: raise a busy poll, mark packets, turn debugging on, take a *)
(* high priority, or move a socket from the device it is bound to.         *)
(***************************************************************************)
UnprivilegedBounds ==
    [][ opt' # opt /\ ~call'.cap =>
        /\ opt'.ll_usec <= opt.ll_usec /\ opt'.budget <= opt.budget /\ opt'.mark = opt.mark
        /\ opt'.priority \in (0..TopPriority) \cup {opt.priority}
        /\ opt'.flags \cap {"DBG", "sk_prefer_busy_poll"} \subseteq opt.flags
        /\ opt.ifindex # 0 => opt'.ifindex = opt.ifindex
      ]_optVars

(***************************************************************************)
(* SO_LOCK_FILTER is for ever, and with it the filter: not even a caller   *)
(* with privileges detaches, replaces or unlocks it.                       *)
(***************************************************************************)
FilterLockStays ==
    [][ "FILTER_LOCKED" \in opt.flags =>
        "FILTER_LOCKED" \in opt'.flags /\ opt'.filter = opt.filter ]_optVars

(***************************************************************************)
(* A buffer is at least its minimum and at least what was asked for, up to *)
(* the limit of the system: doubling the request, negative and huge ones   *)
(* included, never wraps round an int.                                     *)
(***************************************************************************)
BuffersHonoured ==
    /\ opt.sndbuf \in Greater(MinSnd, Lesser(asked.sndbuf, IntMax - 1))..IntMax
    /\ opt.rcvbuf \in Greater(MinRcv, Lesser(asked.rcvbuf, IntMax - 1))..IntMax

(***************************************************************************)
(* A wait that was given a time never ends before it, ends at most a tick  *)
(* after it, and the time read back is not shorter than the one set; times *)
(* too long for the scheduler, and zero, are no limit.                     *)
(***************************************************************************)
TimeoutNotShort ==
    \A which \in {"rcvtimeo", "sndtimeo"} :
        LET t == opt[which] sec == asked[which][1] usec == asked[which][2]
            wait == t * (UsecPerSec \div HZ) want == sec * UsecPerSec + usec
            read == ReadTimeout(t)
        IN /\ sec < 0 => t = 0
           /\ sec >= 0 /\ t # Forever => wait >= want /\ wait < want + UsecPerSec \div HZ
           /\ t \notin {0, Forever} => read[1] * UsecPerSec + read[2] >= want
           /\ want = 0 => t = Forever

(***************************************************************************)
(* The contract of sock_setsockopt over any sequence of calls: what was    *)
(* asked for is what the socket gets, no buffer size wraps and no timeout  *)
(* is cut short; nothing else changes, nothing without its privilege, and  *)
(* a locked filter never.                                                  *)
(***************************************************************************)
SetsockoptContract ==
    /\ [](OptTypeOK /\ BuffersHonoured /\ TimeoutNotShort)
    /\ OnlyWhatIsNamed /\ UnprivilegedBounds /\ FilterLockStays
=============================================================================
