------------------------------ MODULE Capture ------------------------------
(***************************************************************************)
(* The packet capture tool (src/tcpdump): main, which captures without a   *)
(* limit until it is interrupted, and custom_tcpdump_capture, which stores *)
(* a number of packets in the caller's buffer.  libpcap is external: a     *)
(* call succeeds or fails, and pcap_loop hands over packets one by one     *)
(* until the limit, an error, or a pcap_breakloop on its handle.           *)
(***************************************************************************)
EXTENDS Integers, Sequences, FiniteSets

CONSTANTS
    Limit,      \* packets custom_tcpdump_capture asks for (10)
    BufSizes,   \* buffer sizes of its callers
    CapLens,    \* captured lengths
    MaxPackets  \* bound on the packets that arrive

VARIABLES
    mode,       \* "main" or "buffer": who captures
    step,       \* where custom_tcpdump_capture_with_handler is
    handle,     \* the pcap_t: "none", "open", "closed"
    code,       \* a compiled filter is held
    bufSize,    \* capture_info.buffer_size
    packets,    \* lengths of the packets handed over for the buffer
    stored,     \* which of them were copied to the buffer, in order
    written,    \* capture_info.bytes_written
    interrupted,\* SIGINT was delivered
    break       \* pcap_breakloop was called on the handle

capVars == <<mode, step, handle, code, bufSize, packets, stored, written, interrupted, break>>

\* main.c: no statement assigns global_handle.
GlobalHandle == "NULL"

CapInit ==
    /\ mode \in {"main", "buffer"}
    /\ bufSize \in IF mode = "main" THEN {0} ELSE BufSizes
    /\ step = "call" /\ handle = "none" /\ code = FALSE
    /\ packets = <<>> /\ stored = <<>> /\ written = 0
    /\ interrupted = FALSE /\ break = FALSE

\* custom_tcpdump_capture refuses a buffer of no size.
CheckArguments ==
    /\ step = "call"
    /\ step' = IF mode = "buffer" /\ bufSize = 0 THEN "EINVAL" ELSE "open"
    /\ UNCHANGED <<mode, handle, code, bufSize, packets, stored, written, interrupted, break>>

OpenLive ==
    /\ step = "open"
    /\ \/ step' = "ENODEV" /\ UNCHANGED handle
       \/ step' \in {"compile", "loop"} /\ handle' = "open"
    /\ UNCHANGED <<mode, code, bufSize, packets, stored, written, interrupted, break>>

Compile ==
    /\ step = "compile"
    /\ \/ step' = "EINVAL" /\ handle' = "closed" /\ UNCHANGED code
       \/ step' = "setfilter" /\ code' = TRUE /\ UNCHANGED handle
    /\ UNCHANGED <<mode, bufSize, packets, stored, written, interrupted, break>>

SetFilter ==
    /\ step = "setfilter"
    /\ code' = FALSE
    /\ \/ step' = "EINVAL" /\ handle' = "closed"
       \/ step' = "loop" /\ UNCHANGED handle
    /\ UNCHANGED <<mode, bufSize, packets, stored, written, interrupted, break>>

\* default_packet_handler leaves a packet out that does not fit.
Fits(caplen) == written + caplen <= bufSize

Handler(caplen) ==
    IF mode = "buffer" /\ Fits(caplen)
    THEN /\ written' = written + caplen
         /\ stored' = Append(stored, Len(packets) + 1)
    ELSE UNCHANGED <<written, stored>>

\* Mutant: only packets that were stored are counted.
LimitReached_Stored == mode = "buffer" /\ Len(stored) >= Limit

\* pcap_loop's count; 0 in main means no limit.
LimitReached == mode = "buffer" /\ Len(packets) >= Limit

\* my_packet_handler, main's, only prints.
Deliver(caplen) ==
    /\ step = "loop" /\ ~break /\ ~LimitReached
    /\ Len(packets) < MaxPackets
    /\ Handler(caplen)
    /\ packets' = IF mode = "main" THEN packets ELSE Append(packets, caplen)
    /\ UNCHANGED <<mode, step, handle, code, bufSize, interrupted, break>>

\* The limit, or pcap_breakloop, ends the loop.
LoopEnds ==
    /\ step = "loop" /\ TRUE \in {break, LimitReached}
    /\ step' = "done" /\ handle' = "closed"
    /\ UNCHANGED <<mode, code, bufSize, packets, stored, written, interrupted, break>>

LoopFails ==
    /\ step = "loop"
    /\ step' = "EIO" /\ handle' = "closed"
    /\ UNCHANGED <<mode, code, bufSize, packets, stored, written, interrupted, break>>

\* signal_handler, which main installs before it captures.
SignalHandler ==
    /\ mode = "main" /\ ~interrupted
    /\ interrupted' = TRUE
    /\ break' = IF GlobalHandle # "NULL" THEN handle = "open" ELSE break
    /\ UNCHANGED <<mode, step, handle, code, bufSize, packets, stored, written>>

Run == CheckArguments \/ OpenLive \/ Compile \/ SetFilter \/ LoopEnds

PacketArrives == \E caplen \in CapLens : Deliver(caplen)

CapNext == Run \/ PacketArrives \/ LoopFails \/ SignalHandler

-----------------------------------------------------------------------------
(* Properties.                                                             *)

Returned == step \in {"done", "EINVAL", "ENODEV", "EIO"}

\* Every variable has its type, and no more packets are handed over than were
\* asked for.
CapTypeOK ==
    /\ handle \in {"none", "open", "closed"}
    /\ code \in BOOLEAN /\ interrupted \in BOOLEAN /\ break \in BOOLEAN
    /\ mode = "buffer" => Len(packets) <= Limit

\* Whichever step fails, the capture returns without an open handle and without
\* a compiled filter.
NothingHeld == Returned => handle # "open" /\ ~code

\* The buffer holds whole packets, in the order they came, within its size; one
\* is missing only if it did not fit behind those before it.
WholePackets ==
    LET total[n \in 0 .. Len(stored)] ==
            IF n = 0 THEN 0 ELSE total[n - 1] + packets[stored[n]]
    IN  /\ written = total[Len(stored)]
        /\ written <= bufSize
        /\ \A i \in 1 .. Len(stored) - 1 : stored[i] < stored[i + 1]
        /\ mode = "buffer" => \A k \in 1 .. Len(packets) :
              \/ \E i \in 1 .. Len(stored) : stored[i] = k
              \/ total[Cardinality({i \in 1 .. Len(stored) : stored[i] < k})] + packets[k] > bufSize

\* A capture into a buffer returns as long as packets come: also when none of
\* them fits.
BufferCaptureEnds == mode = "buffer" ~> Returned

\* custom_tcpdump_capture gives its caller whole packets, keeps nothing, and
\* returns.
CaptureContract == [](CapTypeOK /\ NothingHeld /\ WholePackets) /\ BufferCaptureEnds
=============================================================================
