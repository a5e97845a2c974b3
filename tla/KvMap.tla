------------------------------- MODULE KvMap -------------------------------
(***************************************************************************)
(* What the write_kv and read_kv system calls promise: every process owns  *)
(* a map from keys to values that its threads share, and every call takes  *)
(* effect on that map at one instant between its start and its return.     *)
(*                                                                         *)
(* Nothing of the hash table is visible here but one thing: a read of an   *)
(* absent key answers EMPTY when no key of the same hash is stored, and    *)
(* ABSENT otherwise.                                                       *)
(***************************************************************************)
EXTENDS KvBase

VARIABLES store,  \* store[tb]: the map of table tb, a function on its keys
          owner,  \* owner[t]: the table of task t, NoTable if t is not in use
          used,   \* tables allocated so far
          call    \* call[t]: the call task t is in

mapVars == <<store, owner, used, call>>

Idle == [st |-> "idle", op |-> "none", key |-> 0, val |-> 0, ret |-> 0]
Done(r) == [st |-> "done", op |-> "none", key |-> 0, val |-> 0, ret |-> r]

MapInit ==
    /\ store = [tb \in Tables |-> [k \in {} |-> 0]]
    /\ owner = [t \in Tasks |-> IF t = InitTask THEN InitTable ELSE NoTable]
    /\ used = {InitTable}
    /\ call = [t \in Tasks |-> Idle]

Live(t) == owner[t] # NoTable

Invoke(t, op, k, v) ==
    /\ Live(t)
    /\ call[t].st = "idle"
    /\ call' = [call EXCEPT ![t] = [st |-> "called", op |-> op, key |-> k,
                                    val |-> v, ret |-> 0]]
    /\ UNCHANGED <<store, owner, used>>

\* The call has taken effect: only its result is left to deliver.
Finish(t, r) == call' = [call EXCEPT ![t] = Done(r)]

\* A write binds the key, or runs out of memory and changes nothing; it can
\* only run out of memory when the key is new.
ApplyWrite(t) ==
    LET m == store[owner[t]]
        k == call[t].key
    IN  /\ call[t].st = "called" /\ call[t].op = "write"
        /\ \/ /\ store' = [store EXCEPT ![owner[t]] =
                             [x \in DOMAIN m \cup {k} |->
                                IF x = k THEN call[t].val ELSE m[x]]]
              /\ Finish(t, 0)
           \/ /\ k \notin DOMAIN m
              /\ Finish(t, ENOMEM)
              /\ UNCHANGED store
        /\ UNCHANGED <<owner, used>>

ReadAnswer(m, k) ==
    IF k \in DOMAIN m THEN m[k]
    ELSE IF \E x \in DOMAIN m : Hash(x) = Hash(k) THEN ABSENT ELSE EMPTY

ApplyRead(t) ==
    /\ call[t].st = "called" /\ call[t].op = "read"
    /\ Finish(t, ReadAnswer(store[owner[t]], call[t].key))
    /\ UNCHANGED <<store, owner, used>>

Return(t) ==
    /\ call[t].st = "done"
    /\ call' = [call EXCEPT ![t] = Idle]
    /\ UNCHANGED <<store, owner, used>>

\* clone with CLONE_THREAD shares the map; without it the child has a new,
\* empty one.
Clone(p, c) ==
    /\ Live(p) /\ ~Live(c) /\ call[p].st = "idle"
    /\ \/ owner' = [owner EXCEPT ![c] = owner[p]] /\ UNCHANGED <<store, used>>
       \/ \E tb \in Tables \ used :
            /\ owner' = [owner EXCEPT ![c] = tb]
            /\ used' = used \cup {tb}
            /\ store' = [store EXCEPT ![tb] = [k \in {} |-> 0]]
    /\ UNCHANGED call

Exit(t) ==
    /\ Live(t) /\ t # InitTask /\ call[t].st = "idle"
    /\ owner' = [owner EXCEPT ![t] = NoTable]
    /\ UNCHANGED <<store, used, call>>

MapNext ==
    \E t \in Tasks :
        \/ \E k \in Keys, v \in Values : Invoke(t, "write", k, v)
        \/ \E k \in Keys : Invoke(t, "read", k, 0)
        \/ ApplyWrite(t) \/ ApplyRead(t) \/ Return(t) \/ Exit(t)
        \/ \E c \in Tasks : Clone(t, c)

MapSpec == MapInit /\ [][MapNext]_mapVars
=============================================================================
