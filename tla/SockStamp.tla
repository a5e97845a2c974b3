----------------------------- MODULE SockStamp ------------------------------
(***************************************************************************)
(* Time stamps of packets (net/core/sock.c).  The sockets that ask for     *)
(* them hold a global count, netstamp_needed, which the receive path tests *)
(* before it stamps anything.  setsockopt changes a socket's flags under   *)
(* its lock; the SIOCGSTAMP ioctl sets one of them without it, in steps    *)
(* that are apart here.                                                    *)
(***************************************************************************)
EXTENDS Integers, FiniteSets

CONSTANTS
    StampSocks,     \* addresses of struct sock
    TsChoices,      \* arguments of SO_TIMESTAMPING: sets of its flags
    MaxKey,         \* bound: packets counted by sk_tskey
    MaxLost         \* bound: clones that fail

\* The two flags that need time stamping, SK_FLAGS_TIMESTAMP
Needing == {"TIMESTAMP", "RX_SOFTWARE"}
Formats == {"TSTAMP_NEW", "RCVTSTAMP", "RCVTSTAMPNS"}

\* flags of SO_TIMESTAMPING that matter here
TsFlags == {"RX_SOFTWARE", "OPT_ID", "OPT_STATS", "OPT_TSONLY"}

ASSUME StampAssumption == TsChoices \subseteq SUBSET TsFlags /\ MaxKey \in Nat /\ MaxLost \in Nat

VARIABLES
    stamp,      \* stamp[s]: the socket at address s
    netstamp,   \* netstamp_needed
    lost        \* history: failed clones that took the count down

stampVars == <<stamp, netstamp, lost>>

NoSock == [live |-> FALSE, unix |-> FALSE, flags |-> {}, ts |-> {}, key |-> 0,
           get |-> "idle", raced |-> FALSE]

\* The flags of the sockets and the time stamp key in their types.
StampTypeOK ==
    /\ netstamp \in Int /\ lost \in Nat
    /\ \A s \in StampSocks :
        /\ stamp[s].flags \subseteq Needing \cup Formats /\ stamp[s].ts \subseteq TsFlags
        /\ stamp[s].get \in {"idle", "first", "again"} /\ stamp[s].key \in 0..MaxKey
        /\ ~stamp[s].live => stamp[s] = NoSock

StampInit == stamp = [s \in StampSocks |-> NoSock] /\ netstamp = 0 /\ lost = 0

\* The flags change while an unlocked SIOCGSTAMP has read them.  Neither
\* update is atomic, so what the flags are afterwards is up to the compiled
\* code; such a socket, and the count, are not followed any further.
Write(s, r) ==
    stamp' = [stamp EXCEPT ![s] = [r EXCEPT !.raced = @ \/ (r.get # "idle" /\ r.flags # stamp[s].flags)]]

Usable(s) == stamp[s].live /\ \A t \in StampSocks : ~stamp[t].raced
Stamping(r) == r.flags \cap Needing # {}

\* sock_needs_netstamp
Counted(r) == ~r.unix

\* net_enable_timestamp and net_disable_timestamp, by what a change of the
\* flags of one socket starts and stops
Count(r, old, new) ==
    IF ~Counted(r) THEN 0
    ELSE IF old \cap Needing = {} /\ new \cap Needing # {} THEN 1
    ELSE IF old \cap Needing # {} /\ new \cap Needing = {} THEN -1
    ELSE 0

StampAlloc(s) ==
    /\ ~stamp[s].live /\ \A t \in StampSocks : ~stamp[t].raced
    /\ \E unix \in BOOLEAN : stamp' = [stamp EXCEPT ![s] = [NoSock EXCEPT !.live = TRUE, !.unix = unix]]
    /\ UNCHANGED <<netstamp, lost>>

\* __sock_set_timestamps, for the four SO_TIMESTAMP options.  Turning one
\* off leaves SOCK_TIMESTAMP set.
SetTimestamp(s, on, new, ns) ==
    LET r == stamp[s]
        flags == IF on THEN (r.flags \ Formats) \cup {"RCVTSTAMP", "TIMESTAMP"}
                               \cup (IF new THEN {"TSTAMP_NEW"} ELSE {})
                               \cup (IF ns THEN {"RCVTSTAMPNS"} ELSE {})
                 ELSE r.flags \ {"RCVTSTAMP", "RCVTSTAMPNS"}
    IN /\ Usable(s)
       /\ Write(s, [r EXCEPT !.flags = flags])
       /\ netstamp' = netstamp + Count(r, r.flags, flags)
       /\ UNCHANGED lost

\* sk_tskey starts again when SOF_TIMESTAMPING_OPT_ID is turned on.
FreshKey(r, ts) == IF "OPT_ID" \in ts /\ "OPT_ID" \notin r.ts THEN 0 ELSE r.key

\* sock_set_timestamping: the key is reset before the last check can fail.
SetTimestamping(s, ts, new) ==
    LET r == stamp[s]
        bad == "OPT_STATS" \in ts /\ "OPT_TSONLY" \notin ts
        format == IF new THEN {"TSTAMP_NEW"} ELSE {}
        flags == (r.flags \ {"TSTAMP_NEW", "RX_SOFTWARE"}) \cup format \cup (ts \cap {"RX_SOFTWARE"})
    IN /\ Usable(s)
       /\ IF bad
          THEN Write(s, [r EXCEPT !.key = FreshKey(r, ts)]) /\ UNCHANGED netstamp
          ELSE /\ Write(s, [r EXCEPT !.key = FreshKey(r, ts), !.ts = ts, !.flags = flags])
               /\ netstamp' = netstamp + Count(r, r.flags, flags)
       /\ UNCHANGED lost

\* A packet is sent with the key of the socket.
SendStamped(s) ==
    /\ Usable(s) /\ "OPT_ID" \in stamp[s].ts /\ stamp[s].key < MaxKey
    /\ stamp' = [stamp EXCEPT ![s].key = @ + 1]
    /\ UNCHANGED <<netstamp, lost>>

\* sock_gettstamp, sock_enable_timestamp: the flags are tested and copied ...
GetStamp(s) ==
    /\ Usable(s) /\ stamp[s].get = "idle" /\ "TIMESTAMP" \notin stamp[s].flags
    /\ stamp' = [stamp EXCEPT ![s].get = IF Stamping(stamp[s]) THEN "again" ELSE "first"]
    /\ UNCHANGED <<netstamp, lost>>

\* ... and the flag is set, and the count raised by what the copy says.
GetStampSet(s) ==
    LET r == stamp[s] IN
    /\ Usable(s) /\ r.get # "idle"
    /\ stamp' = [stamp EXCEPT ![s].flags = @ \cup {"TIMESTAMP"}, ![s].get = "idle"]
    /\ netstamp' = netstamp + (IF Counted(r) /\ r.get = "first" THEN 1 ELSE 0)
    /\ UNCHANGED lost

\* Mutant: the clone's flags are not counted.
StampClone_Uncounted(s, c) ==
    /\ Usable(s) /\ ~stamp[c].live
    /\ stamp' = [stamp EXCEPT ![c] = [stamp[s] EXCEPT !.get = "idle"]]
    /\ UNCHANGED <<netstamp, lost>>

\* sk_clone_lock succeeds: the copied flags count for the clone.
StampClone(s, c) ==
    /\ Usable(s) /\ ~stamp[c].live
    /\ stamp' = [stamp EXCEPT ![c] = [stamp[s] EXCEPT !.get = "idle"]]
    /\ netstamp' = netstamp + (IF Counted(stamp[s]) /\ Stamping(stamp[s]) THEN 1 ELSE 0)
    /\ UNCHANGED lost

\* It fails after the fields were copied: sk_free_unlock_clone destroys the
\* copy, whose flags __sk_destruct takes off the count they never raised.
StampCloneFails(s) ==
    /\ Usable(s) /\ lost < MaxLost
    /\ Counted(stamp[s]) /\ Stamping(stamp[s])
    /\ netstamp' = netstamp - 1 /\ lost' = lost + 1
    /\ UNCHANGED stamp

\* __sk_destruct: sock_disable_timestamp
StampDestruct(s) ==
    LET r == stamp[s] IN
    /\ Usable(s) /\ r.get = "idle"
    /\ netstamp' = netstamp + Count(r, r.flags, {})
    /\ stamp' = [stamp EXCEPT ![s] = NoSock]
    /\ UNCHANGED lost

StampNext ==
    \E s \in StampSocks :
        \/ StampAlloc(s) \/ SendStamped(s) \/ GetStamp(s) \/ GetStampSet(s)
        \/ \E on \in BOOLEAN, new \in BOOLEAN, ns \in BOOLEAN : SetTimestamp(s, on, new, ns)
        \/ \E ts \in TsChoices, new \in BOOLEAN : SetTimestamping(s, ts, new)
        \/ \E c \in StampSocks \ {s} : StampClone(s, c)
        \/ StampCloneFails(s) \/ StampDestruct(s)

\* sk_getsockopt of the four SO_TIMESTAMP options: those that read 1
ReadStamp(f) ==
    {o \in {"SO_TIMESTAMP_OLD", "SO_TIMESTAMP_NEW"} :
        /\ "RCVTSTAMP" \in f /\ (o = "SO_TIMESTAMP_NEW" <=> "TSTAMP_NEW" \in f)
        /\ o = "SO_TIMESTAMP_OLD" => "RCVTSTAMPNS" \notin f} \cup
    {o \in {"SO_TIMESTAMPNS_OLD", "SO_TIMESTAMPNS_NEW"} :
        "RCVTSTAMPNS" \in f /\ (o = "SO_TIMESTAMPNS_NEW" <=> "TSTAMP_NEW" \in f)}

\* __sock_recv_timestamp: the control messages a reader gets with a packet
Report(f) ==
    IF "RCVTSTAMP" \notin f THEN {}
    ELSE IF "RCVTSTAMPNS" \notin f
         THEN IF "TSTAMP_NEW" \in f THEN {"SO_TIMESTAMP_NEW"} ELSE {"SO_TIMESTAMP_OLD"}
         ELSE IF "TSTAMP_NEW" \in f THEN {"SO_TIMESTAMPNS_NEW"} ELSE {"SO_TIMESTAMPNS_OLD"}

-----------------------------------------------------------------------------
(***************************************************************************)
(* The count is the number of sockets that want time stamps, less one for  *)
(* each clone that failed, as long as no SIOCGSTAMP overlapped a change of *)
(* its socket's flags: two flags over one count, options that leave one of *)
(* them set, and clones that copy them, are all accounted for.             *)
(***************************************************************************)
NetstampExact ==
    (\A s \in StampSocks : ~stamp[s].raced) =>
        netstamp + lost =
            Cardinality({s \in StampSocks : Counted(stamp[s]) /\ Stamping(stamp[s])})

(***************************************************************************)
(* A socket that reports stamps to its reader has them taken: no order of  *)
(* the six options leaves a report without its stamp, or one in            *)
(* nanoseconds on a socket that reports none.                              *)
(***************************************************************************)
ReportersStamped ==
    \A s \in StampSocks : ~stamp[s].raced =>
        /\ "RCVTSTAMPNS" \in stamp[s].flags => "RCVTSTAMP" \in stamp[s].flags
        /\ "RCVTSTAMP" \in stamp[s].flags => "TIMESTAMP" \in stamp[s].flags
        /\ "RX_SOFTWARE" \in stamp[s].ts <=> "RX_SOFTWARE" \in stamp[s].flags

(***************************************************************************)
(* What a reader gets with a packet is what getsockopt says it will get:   *)
(* the type of the control message is that of an option that reads 1, and  *)
(* there is none only if all four read 0, after any order of options that  *)
(* share the flag for the new format.                                      *)
(***************************************************************************)
ReportsAsRead ==
    \A s \in StampSocks :
        LET f == stamp[s].flags
        IN Report(f) \subseteq ReadStamp(f) /\ (Report(f) = {} => ReadStamp(f) = {})

(***************************************************************************)
(* The keys by which a sender tells its packets' stamps apart do not start *)
(* again while they are on: not when they are asked for once more, and not *)
(* by a call that fails after it touched the key.                          *)
(***************************************************************************)
KeysKept ==
    [][\A s \in StampSocks :
        stamp'[s].live /\ "OPT_ID" \in stamp[s].ts /\ "OPT_ID" \in stamp'[s].ts
            => stamp'[s].key >= stamp[s].key]_stampVars

(***************************************************************************)
(* The flags of a socket, the global count, what a reader is given and the *)
(* keys of a sender agree after any order of the time stamp options.       *)
(***************************************************************************)
StampContract == [](StampTypeOK /\ NetstampExact /\ ReportersStamped /\ ReportsAsRead) /\ KeysKept
=============================================================================
