------------------------------ MODULE SockSend ------------------------------
(***************************************************************************)
(* Waiting for room in a socket's send buffer (net/core/sock.c): senders   *)
(* in sock_alloc_send_pskb sleep in sock_wait_for_wmem until a completed   *)
(* transmission, a larger buffer, an error or a shutdown wakes them.       *)
(***************************************************************************)
EXTENDS Integers, FiniteSets

CONSTANTS
    Senders,    \* tasks that send on the socket
    NCompleting,\* how many transmissions may complete at the same time
    SkbSize,    \* truesize of a packet
    SndBufs     \* values of sk_sndbuf that SO_SNDBUF can leave

(***************************************************************************)
(* SOCK_MIN_SNDBUF leaves room for what sock_wfree keeps: sock_wfree gives *)
(* its last byte back after sk_write_space has looked, so each completion  *)
(* under way, and the one of the references, counts as a byte.             *)
(***************************************************************************)
ASSUME SendAssumption ==
    /\ SkbSize \in Nat /\ SkbSize > 1 /\ NCompleting \in Nat \ {0}
    /\ SndBufs \subseteq Nat /\ SndBufs # {}
    /\ \A b \in SndBufs : b >= 2 * (1 + NCompleting)

VARIABLES
    sndbuf,     \* sk_sndbuf
    wmem,       \* sk_wmem_alloc
    flight,     \* packets given to the device
    half,       \* completions between the two halves of sock_wfree
    nospace,    \* SOCK_NOSPACE
    shut,       \* sk_shutdown & SEND_SHUTDOWN
    err,        \* sk_err is set
    queued,     \* tasks on the socket's wait queue
    runnable,   \* those of them that have been woken
    spc         \* where a sender is

sendVars == <<sndbuf, wmem, flight, half, nospace, shut, err, queued, runnable, spc>>
sockState == <<sndbuf, wmem, flight, half, shut, err>>
SendLocs == {"user", "loop", "alloc", "prepare", "look", "sleep"}

\* The buffer account, the wait queue and the senders in their types.
SendTypeOK ==
    /\ sndbuf \in SndBufs /\ wmem \in Nat /\ flight \in Nat /\ half \in 0..NCompleting
    /\ nospace \in BOOLEAN /\ shut \in BOOLEAN /\ err \in BOOLEAN
    /\ runnable \subseteq queued /\ queued \subseteq Senders
    /\ spc \in [Senders -> SendLocs]

SendInit ==
    /\ sndbuf \in SndBufs /\ wmem = 1 /\ flight = 0 /\ half = 0
    /\ nospace = FALSE /\ shut = FALSE /\ err = FALSE
    /\ queued = {} /\ runnable = {}
    /\ spc = [t \in Senders |-> "user"]

GoTo(t, l) == spc' = [spc EXCEPT ![t] = l]

SendCall(t) ==
    /\ spc[t] = "user"
    /\ GoTo(t, "loop")
    /\ UNCHANGED <<sockState, nospace, queued, runnable>>

HasRoom == wmem - 1 < sndbuf

AllocSendSkb(t) ==
    /\ spc[t] = "loop"
    /\ IF err
       THEN GoTo(t, "user") /\ err' = FALSE /\ UNCHANGED nospace
       ELSE /\ UNCHANGED err
            /\ IF shut THEN GoTo(t, "user") /\ UNCHANGED nospace
               ELSE IF HasRoom
               THEN GoTo(t, "alloc") /\ UNCHANGED nospace
               ELSE nospace' = TRUE /\ \E l \in {"user", "prepare"} : GoTo(t, l)
    /\ UNCHANGED <<sndbuf, wmem, flight, half, shut, queued, runnable>>

\* alloc_skb_with_frags may sleep and fail; then skb_set_owner_w
SetOwner(t) ==
    /\ spc[t] = "alloc"
    /\ \/ wmem' = wmem + SkbSize /\ flight' = flight + 1
       \/ UNCHANGED <<wmem, flight>>
    /\ GoTo(t, "user")
    /\ UNCHANGED <<sndbuf, half, nospace, shut, err, queued, runnable>>

(***************************************************************************)
(* sock_wait_for_wmem.  The task joins the queue before it looks, so a     *)
(* wake-up after its look makes schedule_timeout return at once.           *)
(***************************************************************************)
\* Mutant: the look comes before the task is on the queue.
PrepareToWait_Late(t) ==
    /\ spc[t] = "prepare"
    /\ nospace' = TRUE
    /\ GoTo(t, "look")
    /\ UNCHANGED <<sockState, queued, runnable>>

PrepareToWait(t) ==
    /\ spc[t] = "prepare"
    /\ nospace' = TRUE
    /\ queued' = queued \cup {t} /\ runnable' = runnable \ {t}
    /\ GoTo(t, "look")
    /\ UNCHANGED sockState

\* finish_wait, and back to the loop of sock_alloc_send_pskb
FinishWait(t) ==
    /\ queued' = queued \ {t} /\ runnable' = runnable \ {t}
    /\ GoTo(t, "loop")

LookForRoom(t) ==
    /\ spc[t] = "look"
    /\ IF wmem < sndbuf \/ shut \/ err
       THEN FinishWait(t)
       ELSE GoTo(t, "sleep") /\ UNCHANGED <<queued, runnable>>
    /\ UNCHANGED <<sockState, nospace>>

\* schedule_timeout returns because of a wake-up: around the loop again
Woken(t) ==
    /\ spc[t] = "sleep" /\ t \in runnable
    /\ GoTo(t, "prepare")
    /\ UNCHANGED <<sockState, nospace, queued, runnable>>

\* ... or because of the timeout or a signal
TimedOut(t) ==
    /\ spc[t] = "sleep" /\ t \notin runnable
    /\ FinishWait(t)
    /\ UNCHANGED <<sockState, nospace>>

(***************************************************************************)
(* The other side.                                                         *)
(***************************************************************************)
WakeAll == runnable' = queued

\* sock_def_write_space with the values it reads
WriteSpace(w, b) == IF 2 * w <= b THEN WakeAll ELSE UNCHANGED runnable

\* sock_wfree: all bytes but one go before sk_write_space
CompleteTx ==
    /\ flight > 0 /\ half < NCompleting
    /\ flight' = flight - 1 /\ half' = half + 1
    /\ wmem' = wmem - (SkbSize - 1)
    /\ WriteSpace(wmem - (SkbSize - 1), sndbuf)
    /\ UNCHANGED <<sndbuf, shut, err, nospace, queued, spc>>

CompleteTxLast ==
    /\ half > 0
    /\ half' = half - 1
    /\ wmem' = wmem - 1
    /\ UNCHANGED <<sndbuf, flight, shut, err, nospace, queued, runnable, spc>>

\* SO_SNDBUF, with its sk_write_space
SetSndbuf ==
    /\ \E b \in SndBufs : sndbuf' = b /\ WriteSpace(wmem, b)
    /\ UNCHANGED <<wmem, flight, half, shut, err, nospace, queued, spc>>

\* A protocol sets sk_err and calls sock_def_error_report, or sets
\* sk_shutdown and calls sock_def_wakeup.
ErrorOrShutdown ==
    /\ \/ err' = TRUE /\ UNCHANGED shut
       \/ shut' = TRUE /\ UNCHANGED err
    /\ WakeAll
    /\ UNCHANGED <<sndbuf, wmem, flight, half, nospace, queued, spc>>

SendNext ==
    \/ \E t \in Senders :
        SendCall(t) \/ AllocSendSkb(t) \/ SetOwner(t) \/ PrepareToWait(t) \/ LookForRoom(t)
        \/ Woken(t) \/ TimedOut(t)
    \/ CompleteTx \/ CompleteTxLast \/ SetSndbuf \/ ErrorOrShutdown

-----------------------------------------------------------------------------
(***************************************************************************)
(* A sender that sleeps and has not been woken has somebody to wake it: a  *)
(* packet whose completion still calls sk_write_space.  sock_def_write_    *)
(* space stays silent while more than half of the buffer is in use, so     *)
(* this rests on its being heard when the last packet goes.                *)
(***************************************************************************)
SomeoneWakes ==
    \A t \in Senders : spc[t] = "sleep" /\ t \notin runnable => flight > 0

(***************************************************************************)
(* The room is looked at before the packet is allocated and charged after  *)
(* it, so senders together may pass sk_sndbuf, but by less than a packet   *)
(* each; and what is charged is what the device has.                       *)
(***************************************************************************)
OvershootBounded ==
    /\ wmem = 1 + half + flight * SkbSize
    /\ \E b \in SndBufs : flight * SkbSize < b + Cardinality(Senders) * SkbSize

(***************************************************************************)
(* A sender that sleeps for room wakes up, unless others keep sending: as  *)
(* sock_def_write_space waits for half of the buffer, senders that refill  *)
(* it can keep one asleep for ever, but a lost wake-up cannot.             *)
(***************************************************************************)
SleepsOnlyBehindOthers ==
    \A t \in Senders :
        <>[](spc[t] = "sleep") => []<><<\E u \in Senders \ {t} : SetOwner(u)>>_sendVars

(***************************************************************************)
(* Senders share the buffer: together they pass its limit by no more than  *)
(* a packet each, and none is left asleep but behind others that send.     *)
(***************************************************************************)
SendersServed == [](SendTypeOK /\ SomeoneWakes /\ OvershootBounded) /\ SleepsOnlyBehindOthers
=============================================================================
