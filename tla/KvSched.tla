------------------------------ MODULE KvSched ------------------------------
(***************************************************************************)
(* The threads of one process calling write_kv and read_kv on NCPU         *)
(* processors.  A task acts only while it is on a CPU.  spin_lock disables *)
(* preemption before it spins and until spin_unlock, so a task leaves its  *)
(* CPU in user mode, or where it sleeps: in kmalloc(GFP_KERNEL), which     *)
(* write_kv calls with the bucket's spinlock held.                         *)
(***************************************************************************)
EXTENDS KvStore, FiniteSets

CONSTANT NCPU

ASSUME CpuAssumption == NCPU \in Nat \ {0}

VARIABLE onCpu   \* the tasks that have a processor

schedVars == <<vars, onCpu>>

\* All threads have been cloned from the first task and share its table.
SchedInit ==
    /\ kv_store = [tb \in Tables |-> NoChain]
    /\ kv_store_lock = [tb \in Tables |-> NoHolder]
    /\ owner = [t \in Tasks |-> InitTable]
    /\ used = {InitTable}
    /\ pc = [t \in Tasks |-> "idle"]
    /\ arg = [t \in Tasks |-> [key |-> 0, val |-> 0]]
    /\ ret = [t \in Tasks |-> 0]
    /\ onCpu = {}

Calls(t) ==
    /\ t \in onCpu
    /\ \/ \E k \in Keys, v \in Values : InvokeWrite(t, k, v)
       \/ \E k \in Keys : InvokeRead(t, k)
    /\ UNCHANGED onCpu

Takes(t) == t \in onCpu /\ (WriteLock(t) \/ ReadLock(t)) /\ UNCHANGED onCpu

\* The two outcomes of kmalloc.
AllocReturns(t) ==
    /\ t \in onCpu
    /\ WriteAlloc(t) \/ WriteAllocFails(t)
    /\ UNCHANGED onCpu

Proceeds(t) ==
    /\ t \in onCpu
    /\ \/ WriteScan(t) \/ WriteUpdate(t) \/ WriteInsert(t)
       \/ ReadCheck(t) \/ ReadScan(t) \/ Unlock(t)
    /\ UNCHANGED onCpu

\* GFP_KERNEL lets kmalloc wait for memory.
AllocSleeps(t) ==
    /\ t \in onCpu /\ pc[t] = "w_alloc"
    /\ onCpu' = onCpu \ {t}
    /\ UNCHANGED vars

\* Mutant: a task is preempted wherever it is.
Preempt_Anywhere(t) ==
    /\ t \in onCpu
    /\ onCpu' = onCpu \ {t}
    /\ UNCHANGED vars

\* The scheduler takes the CPU of a task in user mode.
Preempt(t) ==
    /\ t \in onCpu /\ pc[t] = "idle"
    /\ onCpu' = onCpu \ {t}
    /\ UNCHANGED vars

Dispatch(t) ==
    /\ t \notin onCpu
    /\ Cardinality(onCpu) < NCPU
    /\ onCpu' = onCpu \cup {t}
    /\ UNCHANGED vars

SchedNext ==
    \E t \in Tasks :
        \/ Calls(t) \/ Takes(t) \/ AllocReturns(t) \/ Proceeds(t)
        \/ AllocSleeps(t) \/ Preempt(t) \/ Dispatch(t)

\* A task on a CPU executes.  Queued spinlocks serve waiters in order, the
\* scheduler gives every runnable task a CPU that is free again and again and
\* interrupts every task that keeps coming back to user mode, and a small
\* GFP_KERNEL allocation ends.  Nothing forces a task to make a call.
Fairness ==
    \A t \in Tasks :
        /\ WF_schedVars(Proceeds(t))
        /\ SF_schedVars(Takes(t))
        /\ SF_schedVars(AllocReturns(t))
        /\ SF_schedVars(Dispatch(t))
        /\ SF_schedVars(Preempt(t))

SchedSpec == SchedInit /\ [][SchedNext]_schedVars /\ Fairness

----------------------------------------------------------------------------
Spinning(t) ==
    /\ pc[t] \in {"w_spin", "r_spin"}
    /\ kv_store_lock[owner[t]][Bucket(t)] # NoTask

\* No CPU can do anything: each has a task that spins, with preemption off, on
\* a lock whose holder has no CPU.
AllCpusSpin ==
    /\ Cardinality(onCpu) = NCPU
    /\ \A t \in onCpu :
         Spinning(t) /\ kv_store_lock[owner[t]][Bucket(t)] \notin onCpu

\* The machine can only stall on the key-value store's spinlocks if a task
\* sleeps in write_kv's kmalloc(GFP_KERNEL) with a bucket's lock held: no other
\* point of write_kv or read_kv gives up the CPU with a lock held.  In
\* particular it takes more threads than CPUs.
StallNeedsSleepingWriter ==
    AllCpusSpin => \E t \in Tasks \ onCpu : pc[t] = "w_alloc"

\* Every write_kv and read_kv returns, or every CPU is lost to the stall above:
\* nothing else keeps a call from finishing, no lock is left held and no waiter
\* is starved.
CallsReturn ==
    \A t \in Tasks : pc[t] # "idle" ~> (pc[t] = "idle" \/ AllCpusSpin)
=============================================================================
