--------------------------- MODULE ProtoRegistry ----------------------------
(***************************************************************************)
(* Registration of protocols (net/core/sock.c) and of socket families      *)
(* (net/socket.c).  A module that provides both registers its protocol,    *)
(* then its family, and undoes them in the opposite order; callers of      *)
(* socket() look the family up meanwhile.  Sockets are counted per CPU, in *)
(* the slot the protocol was given.                                        *)
(***************************************************************************)
EXTENDS Integers, FiniteSets, FiniteSetsExt, Functions

CONSTANTS
    Modules,        \* modules, each with one protocol and one family
    Family,         \* Family[m]: the number of its family
    Creators,       \* tasks in __sock_create
    PCpus,          \* CPUs
    InuseNr,        \* PROTO_INUSE_NR
    MaxSocks,       \* bound: sockets of one protocol
    MaxDrift        \* bound: how far one CPU's count is from zero

ASSUME ProtoAssumption == InuseNr \in Nat \ {0} /\ MaxSocks \in Nat

VARIABLES
    mod,        \* mod[m]: how far it is, and the caches it holds
    usedIdx,    \* proto_inuse_idx
    inuseVal,   \* net->core.prot_inuse: [PCpus -> [slot -> Int]]
    fam,        \* net_families: registered modules, at most one a family
    creator,    \* creator[t]: <<step, module>>
    socks       \* socks[m]: sockets of its protocol

protoVars == <<mod, usedIdx, inuseVal, fam, creator, socks>>

Slots == 0..(InuseNr - 1)
Off == [pc |-> "off", caches |-> {}, idx |-> InuseNr - 1]

\* The registries, the per-CPU counters and the callers of socket() in their types.
ProtoTypeOK ==
    /\ \A m \in Modules :
        /\ mod[m].pc \in {"off", "slab", "req", "tw", "listed", "live", "going", "waiting", "gone"}
        /\ mod[m].caches \subseteq {"slab", "req", "tw"} /\ mod[m].idx \in Slots
    /\ usedIdx \subseteq 0..(InuseNr - 2) /\ fam \subseteq Modules
    /\ socks \in [Modules -> 0..MaxSocks]
    /\ \A t \in Creators : creator[t] \in {<<"idle">>} \cup {"looked", "holds"} \X Modules

ProtoInit ==
    /\ mod = [m \in Modules |-> Off] /\ usedIdx = {} /\ fam = {}
    /\ inuseVal = [c \in PCpus |-> [i \in Slots |-> 0]]
    /\ creator = [t \in Creators |-> <<"idle">>] /\ socks = [m \in Modules |-> 0]

Refs(m) == socks[m] + Cardinality({t \in Creators : creator[t] = <<"holds", m>>})

\* kmem_cache_create_usercopy, req_prot_init and tw_prot_init; any of them
\* may find no memory.
CreateCache(m, from, cache) ==
    /\ mod[m].pc = from
    /\ mod' = [mod EXCEPT ![m].pc = cache, ![m].caches = @ \cup {cache}]
    /\ UNCHANGED <<usedIdx, inuseVal, fam, creator, socks>>

\* the exits of proto_register: what was created is destroyed
RegisterFails(m) ==
    /\ mod[m].pc \in {"off", "slab", "req"}
    /\ mod' = [mod EXCEPT ![m] = Off]
    /\ UNCHANGED <<usedIdx, inuseVal, fam, creator, socks>>

\* find_first_zero_bit(proto_inuse_idx)
FreeIdx == Min(Slots \ usedIdx)

\* assign_proto_idx and list_add, under proto_list_mutex.  The last slot
\* stands for none: a protocol that finds only that one is not registered.
AssignIdx(m) ==
    /\ mod[m].pc = "tw"
    /\ IF FreeIdx = InuseNr - 1
       THEN mod' = [mod EXCEPT ![m] = Off] /\ UNCHANGED usedIdx
       ELSE /\ usedIdx' = usedIdx \cup {FreeIdx}
            /\ mod' = [mod EXCEPT ![m].pc = "listed", ![m].idx = FreeIdx]
    /\ UNCHANGED <<inuseVal, fam, creator, socks>>

ReleaseIdx(m) == usedIdx' = usedIdx \ {mod[m].idx}

\* proto_unregister
Unregistered(m) ==
    /\ ReleaseIdx(m)
    /\ mod' = [mod EXCEPT ![m] = Off]

\* sock_register: one module a family, the later one gets -EEXIST and takes
\* its protocol back.
SockRegister(m) ==
    /\ mod[m].pc = "listed"
    /\ IF \E k \in fam : Family[k] = Family[m]
       THEN Unregistered(m) /\ UNCHANGED fam
       ELSE /\ mod' = [mod EXCEPT ![m].pc = "live"]
            /\ fam' = fam \cup {m} /\ UNCHANGED usedIdx
    /\ UNCHANGED <<inuseVal, creator, socks>>

\* The module loader starts to remove a module nobody holds; from here on
\* try_module_get fails.
Unload(m) ==
    /\ mod[m].pc = "live" /\ Refs(m) = 0
    /\ mod' = [mod EXCEPT ![m].pc = "going"]
    /\ UNCHANGED <<usedIdx, inuseVal, fam, creator, socks>>

\* sock_unregister, first half
SockUnregister(m) ==
    /\ mod[m].pc = "going"
    /\ fam' = fam \ {m}
    /\ mod' = [mod EXCEPT ![m].pc = "waiting"]
    /\ UNCHANGED <<usedIdx, inuseVal, creator, socks>>

\* Mutant: sock_unregister does not wait.
SynchronizeRcu_NoWait(m) ==
    /\ mod[m].pc = "waiting"
    /\ mod' = [mod EXCEPT ![m].pc = "gone"]
    /\ UNCHANGED <<usedIdx, inuseVal, fam, creator, socks>>

\* synchronize_rcu: it waits for the callers that may have found the family
SynchronizeRcu(m) ==
    /\ mod[m].pc = "waiting"
    /\ \A t \in Creators : creator[t] # <<"looked", m>>
    /\ mod' = [mod EXCEPT ![m].pc = "gone"]
    /\ UNCHANGED <<usedIdx, inuseVal, fam, creator, socks>>

ProtoUnregister(m) ==
    /\ mod[m].pc = "gone" /\ Unregistered(m)
    /\ UNCHANGED <<inuseVal, fam, creator, socks>>

\* __sock_create: rcu_dereference(net_families[family])
LookUp(t, m) ==
    /\ creator[t] = <<"idle">> /\ m \in fam
    /\ creator' = [creator EXCEPT ![t] = <<"looked", m>>]
    /\ UNCHANGED <<mod, usedIdx, inuseVal, fam, socks>>

\* try_module_get, and rcu_read_unlock
TryModuleGet(t) ==
    /\ creator[t][1] = "looked"
    /\ creator' = [creator EXCEPT ![t] =
            IF mod[@[2]].pc = "live" THEN <<"holds", @[2]>> ELSE <<"idle">>]
    /\ UNCHANGED <<mod, usedIdx, inuseVal, fam, socks>>

\* pf->create: the socket takes a reference of its own and is counted on
\* this CPU, or there is none.
Create(t, c) ==
    /\ creator[t][1] = "holds"
    /\ LET m == creator[t][2] IN
       \/ /\ socks[m] < MaxSocks /\ inuseVal[c][mod[m].idx] < MaxDrift
          /\ socks' = [socks EXCEPT ![m] = @ + 1]
          /\ inuseVal' = [inuseVal EXCEPT ![c][mod[m].idx] = @ + 1]
       \/ UNCHANGED <<socks, inuseVal>>
    /\ creator' = [creator EXCEPT ![t] = <<"idle">>]
    /\ UNCHANGED <<mod, usedIdx, fam>>

\* The socket is destroyed, on whatever CPU that happens.
Destroy(m, c) ==
    /\ socks[m] > 0 /\ inuseVal[c][mod[m].idx] > -MaxDrift
    /\ socks' = [socks EXCEPT ![m] = @ - 1]
    /\ inuseVal' = [inuseVal EXCEPT ![c][mod[m].idx] = @ - 1]
    /\ UNCHANGED <<mod, usedIdx, fam, creator>>

ProtoNext ==
    \/ \E m \in Modules :
        \/ CreateCache(m, "off", "slab") \/ CreateCache(m, "slab", "req") \/ CreateCache(m, "req", "tw")
        \/ RegisterFails(m) \/ AssignIdx(m) \/ SockRegister(m) \/ Unload(m) \/ SockUnregister(m)
        \/ SynchronizeRcu(m) \/ ProtoUnregister(m)
        \/ \E t \in Creators : LookUp(t, m)
        \/ \E c \in PCpus : Destroy(m, c)
    \/ \E t \in Creators : TryModuleGet(t) \/ \E c \in PCpus : Create(t, c)

-----------------------------------------------------------------------------
Listed == {m \in Modules : mod[m].pc \in {"listed", "live", "going", "waiting", "gone"}}

(***************************************************************************)
(* Whatever step of a registration fails, and in whatever order modules    *)
(* come and go: the slots taken are those of the registered protocols, no  *)
(* two share one, and a module that is not registered holds no cache.      *)
(***************************************************************************)
NothingLeaks ==
    /\ usedIdx = {mod[m].idx : m \in Listed} /\ Cardinality(usedIdx) = Cardinality(Listed)
    /\ \A m \in Modules : mod[m].pc = "off" => mod[m].caches = {}

\* sock_prot_inuse_get: the sum over the CPUs.
InuseGet(idx) == MapThenSumSet(LAMBDA c : inuseVal[c][idx], PCpus)

(***************************************************************************)
(* sock_prot_inuse_get of a registered protocol, the sum over the CPUs, is *)
(* the number of its sockets, although they are destroyed on other CPUs    *)
(* than those that created them and slots are reused without being reset.  *)
(***************************************************************************)
InuseExact == \A m \in Listed : InuseGet(mod[m].idx) = socks[m]

(***************************************************************************)
(* A caller of socket() that found a family uses it only while the module  *)
(* is there: sock_unregister outlasts every look-up, and a reference once  *)
(* taken keeps the module from going.                                      *)
(***************************************************************************)
FamilyAlive ==
    \A t \in Creators :
        /\ creator[t][1] = "looked" => mod[creator[t][2]].pc \in {"live", "going", "waiting"}
        /\ creator[t][1] = "holds" => mod[creator[t][2]].pc = "live"

(***************************************************************************)
(* Protocols and families come and go without leaving anything behind,     *)
(* without a wrong count, and never under a caller of socket().            *)
(***************************************************************************)
RegistrySound == ProtoTypeOK /\ NothingLeaks /\ InuseExact /\ FamilyAlive
=============================================================================
