------------------------------ MODULE KvProofs ------------------------------
(***************************************************************************)
(* What the key-value store promises its callers, for any number of tasks, *)
(* tables, keys, buckets and processors.  KvStore implements KvMap: the    *)
(* initial state maps to the initial state, and every step to a step of    *)
(* the map or to a stutter.  And the processors can only stall on its      *)
(* locks when a writer sleeps.                                             *)
(***************************************************************************)
EXTENDS KvRefinement, KvSched, KvStoreProofs

\* The SMT solver gets a minute for a leaf; a leaf that is better left to Zenon
\* says so.
USE SMTT(60)

Distinct(chain) == \A i, j \in DOMAIN chain : chain[i].key = chain[j].key => i = j

(* In a chain of distinct keys the walk finds the node of a key. *)
LEMMA LookUpAt ==
  ASSUME NEW chain \in Seq(Node), Distinct(chain), NEW i \in DOMAIN chain
  PROVE  LookUp(chain, chain[i].key) = chain[i].value
<1> DEFINE k == chain[i].key
           j == CHOOSE x \in DOMAIN chain : FirstWith(chain, k, x)
<1>1. \A x \in 1 .. (i - 1) : x \in DOMAIN chain /\ x # i
  OBVIOUS
<1>2. FirstWith(chain, k, i)
  BY <1>1 DEF FirstWith, Distinct
<1>3. j \in DOMAIN chain /\ FirstWith(chain, k, j)
  BY <1>2, ZenonT(60)
<1>4. j = i
  BY <1>3 DEF FirstWith, Distinct
<1> QED
  BY <1>4, ZenonT(60) DEF LookUp

(* Overwriting the value of a node changes the map at its key only. *)
LEMMA UpdateChain ==
  ASSUME NEW chain \in Seq(Node), Distinct(chain), NEW i \in DOMAIN chain, NEW v \in Values,
         NEW new, new = [chain EXCEPT ![i].value = v], NEW x
  PROVE  /\ HasKey(new, x) <=> HasKey(chain, x)
         /\ HasKey(chain, x) =>
              LookUp(new, x) = IF x = chain[i].key THEN v ELSE LookUp(chain, x)
<1>1. \A j \in DOMAIN chain : chain[j] \in Node
  OBVIOUS
<1>2. [chain[i] EXCEPT !.value = v] \in Node
      /\ [chain[i] EXCEPT !.value = v].key = chain[i].key
      /\ [chain[i] EXCEPT !.value = v].value = v
  BY <1>1 DEF Node
<1>3. new \in Seq(Node) /\ DOMAIN new = DOMAIN chain
  BY <1>2
<1>4. \A j \in DOMAIN chain : new[j] = IF j = i THEN [chain[i] EXCEPT !.value = v] ELSE chain[j]
  OBVIOUS
<1>5. \A j \in DOMAIN chain : new[j].key = chain[j].key
  BY <1>2, <1>4
<1>6. Distinct(new)
  BY <1>3, <1>5 DEF Distinct
<1>7. HasKey(new, x) <=> HasKey(chain, x)
  BY <1>3, <1>5 DEF HasKey
<1>8. ASSUME HasKey(chain, x)
      PROVE  LookUp(new, x) = IF x = chain[i].key THEN v ELSE LookUp(chain, x)
  <2>1. PICK j \in DOMAIN chain : chain[j].key = x
    BY <1>8 DEF HasKey
  <2>2. LookUp(chain, x) = chain[j].value
    BY <2>1, LookUpAt
  <2>3. LookUp(new, x) = new[j].value
    BY <2>1, <1>3, <1>5, <1>6, LookUpAt, ZenonT(60)
  <2>4. x = chain[i].key <=> j = i
    BY <2>1 DEF Distinct
  <2> QED
    BY <1>2, <1>4, <2>2, <2>3, <2>4
<1> QED
  BY <1>7, <1>8

(* A node put in front of a chain without its key adds that key to the map. *)
LEMMA InsertChain ==
  ASSUME NEW chain \in Seq(Node), Distinct(chain), NEW n \in Node, ~HasKey(chain, n.key),
         NEW new, new = <<n>> \o chain, NEW x
  PROVE  /\ HasKey(new, x) <=> x = n.key \/ HasKey(chain, x)
         /\ HasKey(new, x) =>
              LookUp(new, x) = IF x = n.key THEN n.value ELSE LookUp(chain, x)
<1>1. new \in Seq(Node) /\ DOMAIN new = 1 .. (Len(chain) + 1) /\ DOMAIN chain = 1 .. Len(chain)
  OBVIOUS
<1>2. new[1] = n /\ \A j \in DOMAIN chain : new[j + 1] = chain[j] /\ j + 1 \in DOMAIN new
  OBVIOUS
<1>3. \A j \in DOMAIN new : j = 1 \/ (j - 1 \in DOMAIN chain /\ new[j] = chain[j - 1])
  OBVIOUS
<1>4. Distinct(new)
  BY InsertKeepsDistinct, ZenonT(60) DEF Distinct
<1>5. 1 \in DOMAIN new
  BY <1>1
<1>6. HasKey(new, x) <=> x = n.key \/ HasKey(chain, x)
  <2>1. ASSUME HasKey(new, x) PROVE x = n.key \/ HasKey(chain, x)
    <3>1. PICK j \in DOMAIN new : new[j].key = x
      BY <2>1 DEF HasKey
    <3> QED
      BY <1>2, <1>3, <3>1 DEF HasKey
  <2>2. ASSUME x = n.key PROVE HasKey(new, x)
    BY <1>2, <1>5, <2>2, ZenonT(60) DEF HasKey
  <2>3. ASSUME HasKey(chain, x) PROVE HasKey(new, x)
    <3>1. PICK j \in DOMAIN chain : chain[j].key = x
      BY <2>3 DEF HasKey
    <3> QED
      BY <1>2, <3>1, ZenonT(60) DEF HasKey
  <2> QED
    BY <2>1, <2>2, <2>3
<1>7. LookUp(new, n.key) = n.value
  BY <1>1, <1>2, <1>4, <1>5, LookUpAt, ZenonT(60)
<1>8. ASSUME HasKey(chain, x)
      PROVE  x # n.key /\ LookUp(new, x) = LookUp(chain, x)
  <2>1. PICK j \in DOMAIN chain : chain[j].key = x
    BY <1>8 DEF HasKey
  <2>2. LookUp(chain, x) = chain[j].value
    BY <2>1, LookUpAt
  <2>3. LookUp(new, x) = new[j + 1].value
    BY <2>1, <1>1, <1>2, <1>4, LookUpAt, ZenonT(60)
  <2> QED
    BY <1>2, <1>8, <2>2, <2>3
<1> QED
  BY <1>6, <1>7, <1>8

(* Where the chains are not touched the maps are the same. *)
LEMMA StoreSame == kv_store' = kv_store => AbsStore' = AbsStore
  BY DEF AbsStore, MapOf, StoredKeys

(* A step of one task changes the call of that task only. *)
LEMMA CallStep ==
  ASSUME NEW t \in Tasks,
         \A u \in Tasks \ {t} : pc'[u] = pc[u] /\ arg'[u] = arg[u] /\ ret'[u] = ret[u]
  PROVE  AbsCall' = [AbsCall EXCEPT ![t] = CallRec(pc'[t], arg'[t], ret'[t])]
  BY ZenonT(60) DEF AbsCall

(* A task that is in no call has the idle record, *)
LEMMA IdleCall ==
  ASSUME NEW a, NEW r
  PROVE  CallRec("idle", a, r) = Map!Idle
  BY DEF CallRec, Map!Idle, Writing

(* one that has left the body of its call the record of its result, *)
LEMMA DoneCall ==
  ASSUME NEW a, NEW r
  PROVE  CallRec("unlock", a, r) = Map!Done(r)
  BY DEF CallRec, Map!Done, Writing

(* and any other that of its arguments. *)
LEMMA WriteCall ==
  ASSUME NEW p \in Writing, NEW a, NEW r
  PROVE  CallRec(p, a, r) = [st |-> "called", op |-> "write", key |-> a.key,
                             val |-> a.val, ret |-> 0]
  BY DEF CallRec, Writing

\* The call that a reader of read_kv is in, on the abstract map.
LEMMA ReadCall ==
  ASSUME NEW p \in {"r_spin", "r_check", "r_scan"}, NEW a, NEW r
  PROVE  CallRec(p, a, r) = [st |-> "called", op |-> "read", key |-> a.key,
                             val |-> a.val, ret |-> 0]
  BY DEF CallRec, Writing

(* A table in which k is bound to v and nothing else has changed is the map with *)
(* k bound to v.                                                                 *)
LEMMA StoreWrite ==
  ASSUME NEW tb \in Tables, NEW k \in Keys, NEW v,
         \A tb2 \in Tables \ {tb} : kv_store'[tb2] = kv_store[tb2],
         \A x \in Keys : HasKey(kv_store'[tb][Hash(x)], x)
                           <=> x = k \/ HasKey(kv_store[tb][Hash(x)], x),
         \A x \in Keys : HasKey(kv_store'[tb][Hash(x)], x) =>
                           LookUp(kv_store'[tb][Hash(x)], x)
                             = IF x = k THEN v ELSE LookUp(kv_store[tb][Hash(x)], x)
  PROVE  AbsStore' = [AbsStore EXCEPT ![tb] =
                        [x \in (DOMAIN AbsStore[tb]) \cup {k} |->
                           IF x = k THEN v ELSE AbsStore[tb][x]]]
<1>1. StoredKeys(tb)' = StoredKeys(tb) \cup {k}
  BY DEF StoredKeys
<1>2. AbsStore[tb] = MapOf(tb) /\ DOMAIN MapOf(tb) = StoredKeys(tb)
  BY DEF AbsStore, MapOf
<1>3. MapOf(tb)' = [x \in StoredKeys(tb) \cup {k} |->
                      IF x = k THEN v ELSE MapOf(tb)[x]]
  <2>1. \A x \in StoredKeys(tb) \cup {k} :
          LookUp(kv_store'[tb][Hash(x)], x) = IF x = k THEN v ELSE MapOf(tb)[x]
    BY <1>1 DEF StoredKeys, MapOf
  <2> QED
    BY <1>1, <2>1 DEF MapOf
<1>4. \A tb2 \in Tables \ {tb} : MapOf(tb2)' = MapOf(tb2)
  BY DEF MapOf, StoredKeys
<1> QED
  BY <1>2, <1>3, <1>4, ZenonT(60) DEF AbsStore

(* The initial state of the store is that of the map. *)
LEMMA MapInitially == Init => Map!MapInit
<1> SUFFICES ASSUME Init PROVE Map!MapInit
  OBVIOUS
<1>1. AbsStore = [tb \in Tables |-> [k \in {} |-> 0]]
  <2>1. \A tb \in Tables, k \in Keys : kv_store[tb][Hash(k)] = << >>
    BY HashInBuckets, KvAssumption DEF Init, NoChain
  <2>2. \A tb \in Tables : StoredKeys(tb) = {}
    BY <2>1 DEF StoredKeys, HasKey
  <2> QED
    BY <2>2 DEF AbsStore, MapOf
<1>2. AbsCall = [t \in Tasks |-> Map!Idle]
  BY IdleCall DEF Init, AbsCall
<1> QED
  BY <1>1, <1>2 DEF Init, Map!MapInit

(* Steps before a call takes effect are invisible to its caller. *)
LEMMA SilentSteps ==
  ASSUME IInv, NEW t \in Tasks,
         \/ WriteLock(t) \/ ReadLock(t) \/ WriteScan(t) \/ WriteAlloc(t)
         \/ (ReadCheck(t) /\ Chain(t) # << >>)
  PROVE  UNCHANGED Map!mapVars
<1>1. /\ UNCHANGED <<kv_store, owner, used, arg, ret>>
      /\ \A u \in Tasks \ {t} : pc'[u] = pc[u]
      /\ \/ pc[t] \in Writing /\ pc'[t] \in Writing
         \/ pc[t] \in {"r_spin", "r_check", "r_scan"} /\ pc'[t] \in {"r_spin", "r_check", "r_scan"}
  BY DEF WriteLock, ReadLock, SpinLock, WriteScan, WriteAlloc, ReadCheck, Goto, Writing,
         IInv, TypeOK, TaskTypes
<1>2. CallRec(pc'[t], arg'[t], ret'[t]) = CallRec(pc[t], arg[t], ret[t])
  BY <1>1, WriteCall, ReadCall
<1>3. AbsCall' = AbsCall
  BY <1>1, <1>2 DEF AbsCall
<1> QED
  BY <1>1, <1>3, StoreSame, ZenonT(60) DEF Map!mapVars

(* The start of a call and its return. *)
LEMMA CallEnds ==
  ASSUME IInv, NEW t \in Tasks,
         \/ \E k \in Keys, v \in Values : InvokeWrite(t, k, v)
         \/ \E k \in Keys : InvokeRead(t, k)
         \/ Unlock(t)
  PROVE  Map!MapNext
<1>0. pc \in [Tasks -> PCs] /\ arg \in [Tasks -> [key : Int, val : Int]] /\ ret \in [Tasks -> Int]
  BY DEF IInv, TypeOK, TaskTypes
<1>1. ASSUME NEW k \in Keys, NEW v \in Values, InvokeWrite(t, k, v) PROVE Map!MapNext
  <2>1. /\ pc[t] = "idle" /\ pc'[t] = "w_spin" /\ arg'[t] = [key |-> k, val |-> v]
        /\ \A u \in Tasks \ {t} : pc'[u] = pc[u] /\ arg'[u] = arg[u] /\ ret'[u] = ret[u]
        /\ UNCHANGED <<kv_store, owner, used>>
    BY <1>0, <1>1 DEF InvokeWrite, Goto
  <2>2. AbsCall[t] = Map!Idle
    BY <2>1, IdleCall DEF AbsCall
  <2>3. CallRec(pc'[t], arg'[t], ret'[t])
          = [st |-> "called", op |-> "write", key |-> k, val |-> v, ret |-> 0]
    BY <2>1, WriteCall DEF Writing
  <2>4. Map!Invoke(t, "write", k, v)
    BY <1>1, <2>1, <2>2, <2>3, CallStep, StoreSame
       DEF Map!Invoke, Map!Live, Map!Idle, Live, InvokeWrite
  <2> QED
    BY <2>4, ZenonT(60) DEF Map!MapNext
<1>2. ASSUME NEW k \in Keys, InvokeRead(t, k) PROVE Map!MapNext
  <2>1. /\ pc[t] = "idle" /\ pc'[t] = "r_spin" /\ arg'[t] = [key |-> k, val |-> 0]
        /\ \A u \in Tasks \ {t} : pc'[u] = pc[u] /\ arg'[u] = arg[u] /\ ret'[u] = ret[u]
        /\ UNCHANGED <<kv_store, owner, used>>
    BY <1>0, <1>2, ZenonT(60) DEF InvokeRead, Goto
  <2>2. AbsCall[t] = Map!Idle
    BY <2>1, IdleCall DEF AbsCall
  <2>3. CallRec(pc'[t], arg'[t], ret'[t])
          = [st |-> "called", op |-> "read", key |-> k, val |-> 0, ret |-> 0]
    BY <2>1, ReadCall
  <2>4. Map!Invoke(t, "read", k, 0)
    BY <1>2, <2>1, <2>2, <2>3, CallStep, StoreSame
       DEF Map!Invoke, Map!Live, Map!Idle, Live, InvokeRead
  <2> QED
    BY <2>4, ZenonT(60) DEF Map!MapNext
<1>3. CASE Unlock(t)
  <2>1. /\ pc[t] = "unlock" /\ pc'[t] = "idle"
        /\ \A u \in Tasks \ {t} : pc'[u] = pc[u] /\ arg'[u] = arg[u] /\ ret'[u] = ret[u]
        /\ UNCHANGED <<kv_store, owner, used>>
    BY <1>0, <1>3, ZenonT(60) DEF Unlock, Goto
  <2>2. AbsCall[t].st = "done"
    BY <2>1, DoneCall DEF AbsCall, Map!Done
  <2>3. CallRec(pc'[t], arg'[t], ret'[t]) = Map!Idle
    BY <2>1, IdleCall, ZenonT(60)
  <2>4. Map!Return(t)
    BY <2>1, <2>2, <2>3, CallStep, StoreSame DEF Map!Return
  <2> QED
    BY <2>4, ZenonT(60) DEF Map!MapNext
<1> QED
  BY <1>1, <1>2, <1>3

(* A call that leaves its body with result r has finished with r in the map. *)
LEMMA Finishes ==
  ASSUME IInv, NEW t \in Tasks, NEW r, NEW from, Leave(t, from, r), UNCHANGED arg
  PROVE  Map!Finish(t, r)
<1>1. /\ pc'[t] = "unlock" /\ ret'[t] = r
      /\ \A u \in Tasks \ {t} : pc'[u] = pc[u] /\ arg'[u] = arg[u] /\ ret'[u] = ret[u]
  BY DEF Leave, Goto, IInv, TypeOK, TaskTypes
<1>2. CallRec(pc'[t], arg'[t], ret'[t]) = Map!Done(r)
  BY <1>1, DoneCall, ZenonT(60)
<1> QED
  BY <1>1, <1>2, CallStep DEF Map!Finish

(* What a task inside write_kv or read_kv knows of its bucket. *)
LEMMA OwnBucket ==
  ASSUME IInv, NEW t \in Tasks, pc[t] # "idle"
  PROVE  /\ owner[t] \in Tables /\ arg[t].key \in Keys /\ Bucket(t) \in Buckets
         /\ Chain(t) \in Seq(Node) /\ Distinct(Chain(t))
         /\ \A i \in DOMAIN Chain(t) : Hash(Chain(t)[i].key) = Bucket(t)
         /\ AbsStore[owner[t]] = MapOf(owner[t])
         /\ DOMAIN AbsStore[owner[t]] = StoredKeys(owner[t])
<1>1. owner[t] \in Tables /\ arg[t].key \in Keys
  BY DEF IInv, CallsOK, Live, TypeOK, TaskTypes
<1>2. Bucket(t) \in Buckets
  BY <1>1, HashInBuckets, KvAssumption, ZenonT(60) DEF Bucket
<1>3. Chain(t) \in Seq(Node)
  BY <1>1, <1>2, ZenonT(60) DEF Chain, IInv, TypeOK, TableTypes
<1>4. Distinct(Chain(t)) /\ \A i \in DOMAIN Chain(t) : Hash(Chain(t)[i].key) = Bucket(t)
  BY <1>1, <1>2 DEF Chain, IInv, ChainsWellFormed, Distinct
<1> QED
  BY <1>1, <1>2, <1>3, <1>4 DEF AbsStore, MapOf

(* Where a write step takes effect. *)
LEMMA WriteApplies ==
  ASSUME IInv, NEW t \in Tasks, WriteUpdate(t) \/ WriteInsert(t) \/ WriteAllocFails(t)
  PROVE  Map!ApplyWrite(t)
<1> DEFINE tb == owner[t]
           k == arg[t].key
           v == arg[t].val
<1>1. pc[t] \in {"w_update", "w_insert", "w_alloc"}
  BY DEF WriteUpdate, WriteInsert, WriteAllocFails, Leave, Goto
<1>2. AbsCall[t] = [st |-> "called", op |-> "write", key |-> k, val |-> v, ret |-> 0]
  BY <1>1, WriteCall DEF AbsCall, Writing
<1>3. /\ tb \in Tables /\ k \in Keys /\ Bucket(t) \in Buckets
      /\ Chain(t) \in Seq(Node) /\ Distinct(Chain(t))
      /\ AbsStore[tb] = MapOf(tb) /\ DOMAIN AbsStore[tb] = StoredKeys(tb)
  BY <1>1, OwnBucket, ZenonT(60)
<1>4. UNCHANGED <<owner, used>>
  BY ZenonT(60) DEF WriteUpdate, WriteInsert, WriteAllocFails
<1>5. CASE WriteAllocFails(t)
  <2>1. ~HasKey(Chain(t), k)
    BY <1>5, ZenonT(60) DEF WriteAllocFails, Leave, Goto, IInv, ScanStillValid
  <2>2. k \notin DOMAIN AbsStore[tb]
    BY <1>3, <2>1 DEF StoredKeys, Chain, Bucket
  <2>3. Map!Finish(t, ENOMEM) /\ AbsStore' = AbsStore
    BY <1>5, Finishes, StoreSame, ZenonT(60) DEF WriteAllocFails
  <2> QED
    BY <1>2, <1>4, <2>2, <2>3 DEF Map!ApplyWrite, Map!ENOMEM, ENOMEM
<1>6. ASSUME NEW new, Map!Finish(t, 0),
             kv_store' = [kv_store EXCEPT ![tb][Bucket(t)] = new],
             \A x \in Keys : HasKey(new, x) <=> x = k \/ HasKey(Chain(t), x),
             \A x \in Keys : HasKey(new, x) =>
                LookUp(new, x) = IF x = k THEN v ELSE LookUp(Chain(t), x)
      PROVE  Map!ApplyWrite(t)
  <2>1. /\ kv_store'[tb][Bucket(t)] = new
        /\ \A b \in Buckets \ {Bucket(t)} : kv_store'[tb][b] = kv_store[tb][b]
        /\ \A tb2 \in Tables \ {tb} : kv_store'[tb2] = kv_store[tb2]
    BY <1>3, <1>6, ZenonT(60) DEF IInv, TypeOK, TableTypes
  <2>2. ASSUME NEW x \in Keys
        PROVE  /\ HasKey(kv_store'[tb][Hash(x)], x)
                    <=> x = k \/ HasKey(kv_store[tb][Hash(x)], x)
               /\ HasKey(kv_store'[tb][Hash(x)], x) =>
                    LookUp(kv_store'[tb][Hash(x)], x)
                      = IF x = k THEN v ELSE LookUp(kv_store[tb][Hash(x)], x)
    <3>1. Hash(x) \in Buckets
      BY HashInBuckets, KvAssumption, ZenonT(60)
    <3>2. CASE Hash(x) = Bucket(t)
      BY <1>6, <2>1, <3>2 DEF Chain
    <3>3. CASE Hash(x) # Bucket(t)
      BY <2>1, <3>1, <3>3, ZenonT(60) DEF Bucket
    <3> QED
      BY <3>2, <3>3
  <2>3. AbsStore' = [AbsStore EXCEPT ![tb] =
                       [x \in (DOMAIN AbsStore[tb]) \cup {k} |->
                          IF x = k THEN v ELSE AbsStore[tb][x]]]
    <3>1. tb \in Tables /\ k \in Keys
      BY <1>3
    <3>2. \A tb2 \in Tables \ {tb} : kv_store'[tb2] = kv_store[tb2]
      BY <2>1, ZenonT(60)
    <3>3. \A x \in Keys : HasKey(kv_store'[tb][Hash(x)], x)
                             <=> x = k \/ HasKey(kv_store[tb][Hash(x)], x)
      BY <2>2, ZenonT(60)
    <3>4. \A x \in Keys : HasKey(kv_store'[tb][Hash(x)], x) =>
                             LookUp(kv_store'[tb][Hash(x)], x)
                               = IF x = k THEN v ELSE LookUp(kv_store[tb][Hash(x)], x)
      BY <2>2
    <3> HIDE DEF tb, k, v
    <3> QED
      BY <3>1, <3>2, <3>3, <3>4, StoreWrite
  <2> QED
    BY <1>2, <1>4, <1>6, <2>3 DEF Map!ApplyWrite
<1>7. CASE WriteUpdate(t)
  <2>1. PICK i \in DOMAIN Chain(t) :
          /\ FirstWith(Chain(t), k, i)
          /\ kv_store' = [kv_store EXCEPT ![tb][Bucket(t)][i].value = v]
    BY <1>7, ZenonT(60) DEF WriteUpdate
  <2> DEFINE new == [Chain(t) EXCEPT ![i].value = v]
  <2>2. kv_store' = [kv_store EXCEPT ![tb][Bucket(t)] = new]
    BY <1>3, <2>1, ZenonT(60) DEF Chain, IInv, TypeOK, TableTypes
  <2>3. Chain(t)[i].key = k /\ HasKey(Chain(t), k)
    BY <2>1 DEF FirstWith, HasKey
  <2>4. v \in Values
    BY <1>1 DEF IInv, CallsOK
  <2>5. ASSUME NEW x
        PROVE  /\ HasKey(new, x) <=> HasKey(Chain(t), x)
               /\ HasKey(Chain(t), x) =>
                    LookUp(new, x) = IF x = k THEN v ELSE LookUp(Chain(t), x)
    BY <1>3, <2>3, <2>4, UpdateChain
  <2>6. Map!Finish(t, 0)
    BY <1>7, Finishes DEF WriteUpdate
  <2> HIDE DEF new
  <2> QED
    BY <1>6, <2>2, <2>3, <2>5, <2>6, ZenonT(60)
<1>8. CASE WriteInsert(t)
  <2> DEFINE n == [key |-> k, value |-> v]
             new == <<n>> \o Chain(t)
  <2>1. kv_store' = [kv_store EXCEPT ![tb][Bucket(t)] = new]
    BY <1>3, <1>8, ZenonT(60) DEF WriteInsert, Chain, IInv, TypeOK, TableTypes
  <2>2. n \in Node /\ n.key = k /\ n.value = v
    BY <1>1, <1>3, ZenonT(60) DEF IInv, CallsOK, Node
  <2>3. ~HasKey(Chain(t), k)
    BY <1>8 DEF WriteInsert, Leave, Goto, IInv, ScanStillValid
  <2> HIDE DEF n
  <2>4. ASSUME NEW x
        PROVE  /\ HasKey(new, x) <=> x = k \/ HasKey(Chain(t), x)
               /\ HasKey(new, x) =>
                    LookUp(new, x) = IF x = k THEN v ELSE LookUp(Chain(t), x)
    <3>1. new = <<n>> \o Chain(t) /\ ~HasKey(Chain(t), n.key)
      BY <2>2, <2>3
    <3> HIDE DEF new, k, v
    <3>2. /\ HasKey(new, x) <=> x = n.key \/ HasKey(Chain(t), x)
          /\ HasKey(new, x) =>
               LookUp(new, x) = IF x = n.key THEN n.value ELSE LookUp(Chain(t), x)
      BY <1>3, <2>2, <3>1, InsertChain, ZenonT(60)
    <3> QED
      BY <2>2, <3>2
  <2>5. Map!Finish(t, 0)
    BY <1>8, Finishes, ZenonT(60) DEF WriteInsert
  <2> HIDE DEF new
  <2> QED
    BY <1>6, <2>1, <2>4, <2>5, ZenonT(60)
<1> QED
  BY <1>5, <1>7, <1>8, ZenonT(60)

(* Where a read takes effect: at the check of an empty chain, or at the walk. *)
LEMMA ReadApplies ==
  ASSUME IInv, NEW t \in Tasks, (ReadCheck(t) /\ Chain(t) = << >>) \/ ReadScan(t)
  PROVE  Map!ApplyRead(t)
<1> DEFINE tb == owner[t]
           k == arg[t].key
           m == AbsStore[tb]
<1>1. pc[t] \in {"r_check", "r_scan"}
  BY ZenonT(60) DEF ReadCheck, ReadScan
<1>2. AbsCall[t] = [st |-> "called", op |-> "read", key |-> k, val |-> arg[t].val, ret |-> 0]
  BY <1>1, ReadCall, ZenonT(60) DEF AbsCall
<1>3. /\ tb \in Tables /\ k \in Keys
      /\ Chain(t) \in Seq(Node) /\ Distinct(Chain(t))
      /\ \A i \in DOMAIN Chain(t) : Hash(Chain(t)[i].key) = Bucket(t)
      /\ m = MapOf(tb) /\ DOMAIN m = StoredKeys(tb)
  BY <1>1, OwnBucket
<1>4. UNCHANGED <<AbsStore, owner, used>>
  BY StoreSame, ZenonT(60) DEF ReadCheck, ReadScan
<1>5. \A x \in DOMAIN m : Hash(x) = Hash(k) => HasKey(Chain(t), x)
  BY <1>3, ZenonT(60) DEF StoredKeys, Chain, Bucket
<1>6. HasKey(Chain(t), k) <=> k \in DOMAIN m
  BY <1>3 DEF StoredKeys, Chain, Bucket
<1>7. \A x : Map!Hash(x) = Hash(x)
  BY ZenonT(60) DEF Map!Hash, Hash
<1>8. ASSUME Map!Finish(t, Map!ReadAnswer(m, k)) PROVE Map!ApplyRead(t)
  BY <1>2, <1>4, <1>8 DEF Map!ApplyRead
<1>9. CASE ReadCheck(t) /\ Chain(t) = << >>
  <2>1. ~\E x \in DOMAIN m : Hash(x) = Hash(k)
    BY <1>5, <1>9 DEF HasKey
  <2>2. Map!ReadAnswer(m, k) = EMPTY
    BY <2>1, <1>7 DEF Map!ReadAnswer, Map!EMPTY, EMPTY
  <2>3. Map!Finish(t, EMPTY)
    BY <1>9, Finishes, ZenonT(60) DEF ReadCheck
  <2> QED
    BY <1>8, <2>2, <2>3
<1>10. ASSUME NEW i \in DOMAIN Chain(t), FirstWith(Chain(t), k, i),
              Leave(t, "r_scan", Chain(t)[i].value), UNCHANGED arg
       PROVE  Map!ApplyRead(t)
  <2>1. Chain(t)[i].key = k /\ HasKey(Chain(t), k)
    BY <1>10, ZenonT(60) DEF FirstWith, HasKey
  <2>2. LookUp(Chain(t), k) = Chain(t)[i].value
    BY <1>3, <1>10, <2>1, LookUpAt
  <2>3. m[k] = Chain(t)[i].value
    BY <1>3, <1>6, <2>1, <2>2, ZenonT(60) DEF MapOf, Chain, Bucket
  <2>4. Map!ReadAnswer(m, k) = Chain(t)[i].value
    BY <1>6, <2>1, <2>3 DEF Map!ReadAnswer
  <2>5. Map!Finish(t, Chain(t)[i].value)
    BY <1>10, Finishes, ZenonT(60)
  <2> QED
    BY <1>8, <2>4, <2>5
<1>11. ASSUME ReadScan(t), ~HasKey(Chain(t), k), Leave(t, "r_scan", ABSENT), UNCHANGED arg
       PROVE  Map!ApplyRead(t)
  <2>1. Chain(t) # << >>
    BY <1>11 DEF ReadScan, IInv, ScanStillValid
  <2>2. 1 \in DOMAIN Chain(t) /\ Chain(t)[1].key \in Keys
    <3>1. Chain(t) \in Seq(Node)
      BY <1>3
    <3>2. 1 \in DOMAIN Chain(t)
      BY <2>1, <3>1
    <3>3. Chain(t)[1] \in Node
      BY <3>1, <3>2
    <3> QED
      BY <3>2, <3>3, ZenonT(60) DEF Node
  <2>3. Hash(Chain(t)[1].key) = Hash(k)
    BY <1>3, <2>2 DEF Bucket
  <2>4. HasKey(Chain(t), Chain(t)[1].key)
    BY <2>2 DEF HasKey
  <2>5. Chain(t)[1].key \in DOMAIN m
    BY <1>3, <2>2, <2>3, <2>4, ZenonT(60) DEF StoredKeys, Chain, Bucket
  <2>6. Map!ReadAnswer(m, k) = ABSENT
    BY <1>6, <1>7, <1>11, <2>3, <2>5 DEF Map!ReadAnswer, Map!ABSENT, ABSENT
  <2>7. Map!Finish(t, ABSENT)
    BY <1>11, Finishes
  <2> QED
    BY <1>8, <2>6, <2>7
<1> QED
  BY <1>9, <1>10, <1>11, ZenonT(60) DEF ReadScan

(* Tasks that come and go: a thread shares its process's map, a process gets an *)
(* empty one.                                                                   *)
LEMMA TasksComeAndGo ==
  ASSUME IInv, NEW t \in Tasks, NEW c \in Tasks,
         CloneThread(t, c) \/ CloneProcess(t, c) \/ Exit(t)
  PROVE  Map!MapNext
<1>1. pc[t] = "idle" /\ AbsCall' = AbsCall
  BY ZenonT(60) DEF CloneThread, CloneProcess, Exit, AbsCall
<1>2. AbsCall[t].st = "idle"
  BY <1>1, IdleCall DEF AbsCall, Map!Idle
<1>3. CASE CloneThread(t, c)
  <2>1. Map!Clone(t, c)
    BY <1>1, <1>2, <1>3, StoreSame DEF CloneThread, Map!Clone, Live, Map!Live
  <2> QED
    BY <2>1 DEF Map!MapNext
<1>4. CASE Exit(t)
  <2>1. Map!Exit(t)
    BY <1>1, <1>2, <1>4, StoreSame, ZenonT(60) DEF Exit, Map!Exit, Live, Map!Live
  <2> QED
    BY <2>1, ZenonT(60) DEF Map!MapNext
<1>5. CASE CloneProcess(t, c)
  <2>1. PICK tb \in Tables \ used :
          /\ owner' = [owner EXCEPT ![c] = tb]
          /\ used' = used \cup {tb}
          /\ kv_store' = [kv_store EXCEPT ![tb] = NoChain]
    BY <1>5, ZenonT(60) DEF CloneProcess
  <2>2. kv_store'[tb] = NoChain /\ \A tb2 \in Tables \ {tb} : kv_store'[tb2] = kv_store[tb2]
    BY <2>1, ZenonT(60) DEF IInv, TypeOK, TableTypes
  <2>3. \A k \in Keys : ~HasKey(kv_store'[tb][Hash(k)], k)
    BY <2>2, HashInBuckets, KvAssumption DEF NoChain, HasKey
  <2>4. AbsStore'[tb] = [k \in {} |-> 0]
    BY <2>3, ZenonT(60) DEF AbsStore, MapOf, StoredKeys
  <2>5. \A tb2 \in Tables \ {tb} : AbsStore'[tb2] = AbsStore[tb2]
    BY <2>2 DEF AbsStore, MapOf, StoredKeys
  <2>6. AbsStore' = [AbsStore EXCEPT ![tb] = [k \in {} |-> 0]]
    BY <2>4, <2>5, ZenonT(60) DEF AbsStore
  <2>7. Map!Clone(t, c)
    BY <1>1, <1>2, <1>5, <2>1, <2>6, ZenonT(60) DEF CloneProcess, Map!Clone, Live, Map!Live
  <2> QED
    BY <2>7 DEF Map!MapNext
<1> QED
  BY <1>3, <1>4, <1>5

(* Every step of the store is a step of the map or leaves the map as it is. *)
LEMMA StepRefines == IInv /\ [Next]_vars => [Map!MapNext]_(Map!mapVars)
<1> SUFFICES ASSUME IInv, [Next]_vars PROVE [Map!MapNext]_(Map!mapVars)
  OBVIOUS
<1>1. CASE UNCHANGED vars
  BY <1>1, StoreSame DEF vars, Map!mapVars, AbsCall
<1>2. ASSUME NEW t \in Tasks,
             \/ \E k \in Keys, v \in Values : InvokeWrite(t, k, v)
             \/ \E k \in Keys : InvokeRead(t, k)
      PROVE  Map!MapNext
  BY <1>2, CallEnds
<1>3. ASSUME NEW t \in Tasks, Step(t) PROVE [Map!MapNext]_(Map!mapVars)
  <2>1. CASE Unlock(t)
    BY <2>1, CallEnds
  <2>2. CASE WriteUpdate(t) \/ WriteInsert(t) \/ WriteAllocFails(t)
    BY <2>2, WriteApplies DEF Map!MapNext
  <2>3. CASE (ReadCheck(t) /\ Chain(t) = << >>) \/ ReadScan(t)
    BY <2>3, ReadApplies DEF Map!MapNext
  <2>4. CASE \/ WriteLock(t) \/ ReadLock(t) \/ WriteScan(t) \/ WriteAlloc(t)
             \/ (ReadCheck(t) /\ Chain(t) # << >>)
    BY <2>4, SilentSteps, ZenonT(60)
  <2> QED
    BY <1>3, <2>1, <2>2, <2>3, <2>4 DEF Step
<1>4. ASSUME NEW t \in Tasks,
             (\E c \in Tasks : CloneThread(t, c) \/ CloneProcess(t, c)) \/ Exit(t)
      PROVE  Map!MapNext
  BY <1>4, TasksComeAndGo
<1> QED
  BY <1>1, <1>2, <1>3, <1>4 DEF Next

(* write_kv and read_kv are linearizable, for any number of threads, processes, *)
(* keys and buckets: the hash table behaves as one map per process on which     *)
(* every call takes effect at one instant between its start and its return.     *)
THEOREM Linearizable == Spec => ImplementsMap
  BY Invariance, MapInitially, StepRefines, PTL DEF Spec, ImplementsMap, Map!MapSpec

----------------------------------------------------------------------------
(* The store on NCPU processors. *)

(* Only a task in user mode or in kmalloc is without a CPU. *)
SchedInv ==
  /\ IInv
  /\ onCpu \subseteq Tasks
  /\ \A t \in Tasks : pc[t] \notin {"idle", "w_alloc"} => t \in onCpu

\* With no call in progress and no CPU taken the invariant holds.
LEMMA SchedInitially == SchedInit => SchedInv
<1> SUFFICES ASSUME SchedInit PROVE SchedInv
  OBVIOUS
<1>1. TypeOK
  BY KvAssumption DEF SchedInit, TypeOK, TableTypes, TaskTypes, NoChain, NoHolder, PCs
<1>2. CallsOK /\ ScanStillValid
  BY DEF SchedInit, CallsOK, ScanStillValid
<1>3. LockDiscipline
  BY KvAssumption, ZenonT(60) DEF SchedInit, LockDiscipline, NoHolder, InCritical
<1>4. ChainsWellFormed
  BY DEF SchedInit, ChainsWellFormed, NoChain
<1> QED
  BY <1>1, <1>2, <1>3, <1>4, ZenonT(60) DEF SchedInv, IInv, SchedInit

\* A step of the scheduled calls is one of the calls, and only a sleeper leaves its CPU inside a call.
LEMMA SchedStep == SchedInv /\ [SchedNext]_schedVars => SchedInv'
<1> SUFFICES ASSUME SchedInv, [SchedNext]_schedVars PROVE SchedInv'
  BY ZenonT(60)
<1>1. [Next]_vars
  BY DEF SchedNext, schedVars, Calls, Takes, AllocReturns, Proceeds, AllocSleeps, Preempt,
         Dispatch, Next, Step
<1>2. IInv'
  BY <1>1, TableTypesStep, TaskTypesStep, CallsStep, LockStep, ScanStep, ChainStep, ZenonT(60)
     DEF SchedInv, IInv, TypeOK
<1>3. pc \in [Tasks -> PCs]
  BY DEF SchedInv, IInv, TypeOK, TaskTypes
<1>4. CASE UNCHANGED schedVars
  BY <1>2, <1>4, ZenonT(60) DEF schedVars, vars, SchedInv
<1>5. ASSUME NEW t \in Tasks, Calls(t) \/ Takes(t) \/ AllocReturns(t) \/ Proceeds(t)
      PROVE  SchedInv'
  <2>1. t \in onCpu /\ onCpu' = onCpu
    BY <1>5 DEF Calls, Takes, AllocReturns, Proceeds
  <2>2. \A u \in Tasks \ {t} : pc'[u] = pc[u]
    BY <1>3, <1>5, ZenonT(60) DEF Calls, Takes, AllocReturns, Proceeds, InvokeWrite, InvokeRead, WriteLock,
       ReadLock, SpinLock, WriteAlloc, WriteAllocFails, WriteScan, WriteUpdate, WriteInsert,
       ReadCheck, ReadScan, Unlock, Leave, Goto
  <2> QED
    BY <1>2, <2>1, <2>2 DEF SchedInv
<1>6. ASSUME NEW t \in Tasks, AllocSleeps(t) \/ Preempt(t) \/ Dispatch(t)
      PROVE  SchedInv'
  <2>1. pc' = pc
    BY <1>6 DEF AllocSleeps, Preempt, Dispatch, vars
  <2> QED
    BY <1>2, <1>6, <2>1, ZenonT(60) DEF SchedInv, AllocSleeps, Preempt, Dispatch
<1> QED
  BY <1>4, <1>5, <1>6 DEF SchedNext

INSTANCE FiniteSetTheorems

(* Whatever the number of threads and processors, the only way to lose every    *)
(* processor to the store's spinlocks is a writer that sleeps in kmalloc with   *)
(* a bucket's lock held.                                                        *)
THEOREM StallSafe == SchedSpec => []StallNeedsSleepingWriter
<1>1. SchedInv => StallNeedsSleepingWriter
  <2> SUFFICES ASSUME SchedInv, AllCpusSpin
               PROVE  \E t \in Tasks \ onCpu : pc[t] = "w_alloc"
    BY ZenonT(60) DEF StallNeedsSleepingWriter
  <2>1. onCpu # {}
    BY CpuAssumption, FS_EmptySet, ZenonT(60) DEF AllCpusSpin
  <2>2. PICK t \in onCpu :
          Spinning(t) /\ kv_store_lock[owner[t]][Bucket(t)] \notin onCpu
    BY <2>1, ZenonT(60) DEF AllCpusSpin
  <2>3. t \in Tasks /\ pc[t] # "idle"
    BY <2>2, ZenonT(60) DEF SchedInv, Spinning
  <2>4. owner[t] \in Tables /\ Bucket(t) \in Buckets
    BY <2>3, OwnBucket, ZenonT(60) DEF SchedInv
  <2> DEFINE h == kv_store_lock[owner[t]][Bucket(t)]
  <2>5. h \in Tasks
    BY <2>2, <2>4, ZenonT(60) DEF Spinning, SchedInv, IInv, TypeOK, TableTypes
  <2>6. InCritical(h)
    BY <2>4, <2>5 DEF SchedInv, IInv, LockDiscipline
  <2> QED
    BY <2>2, <2>5, <2>6, ZenonT(60) DEF SchedInv, InCritical
<1> QED
  BY <1>1, SchedInitially, SchedStep, PTL DEF SchedSpec

=============================================================================
