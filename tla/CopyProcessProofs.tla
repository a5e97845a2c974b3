------------------------- MODULE CopyProcessProofs -------------------------
(***************************************************************************)
(* copy_process for any number of tasks and any limit on the threads.      *)
(***************************************************************************)
EXTENDS CopyProcess, TLAPS

\* The SMT solver gets a minute for a leaf; a leaf that is better left to Zenon
\* says so.
USE SMTT(60)

\* Between dup_task_struct and the locked section.
Making == {"limits", "copies", "pid", "pidfd", "tables", "cgroup", "attach"}

(* A task in copy_process is visible; its fork of a thread is of a task of the *)
(* namespace and its fork of a process has a node on the multiprocess list.    *)
ForksOK ==
  \A t \in ForkTasks :
    /\ fpc[t] # "user" =>
         /\ t \in alive
         /\ fork[t].kind = "thread" => t \in inside
         /\ fork[t].kind # "thread" => t \in listed
    /\ fpc[t] \in Making => fork[t].child # None

(* No two forks make the same child. *)
ChildrenApart ==
  \A t, u \in ForkTasks : fork[t].child # None /\ fork[u].child = fork[t].child => t = u

(* Thread groups have visible leaders and are in the namespace as a whole. *)
GroupsOK ==
  /\ \A t \in alive : group[t] \in alive
  /\ \A t, u \in alive : group[t] = group[u] /\ t \in inside => u \in inside

(* The reaper stops the pids before it kills. *)
ZapAfterStop == zapped => ~adding

(* A fork that was in progress when a signal came has it collected. *)
Collected == owed \subseteq delayed

(* From which label on, in the order of the labels, a fork at p has to undo. *)
From(p) ==
  CASE p = "limits" -> 19
    [] p = "copies" -> 17
    [] p = "pid" -> 4
    [] p = "pidfd" -> 3
    [] p \in {"tables", "cgroup"} -> 2
    [] p = "attach" -> 1
    [] OTHER -> 20

(* At every point of copy_process the call holds exactly what the labels from   *)
(* one of them on undo: the labels are in the reverse order of the acquisitions. *)
Holds(t, h, i) ==
  \A j \in 1 .. 19 :
    h[Labels[j].undo] = IF j >= i /\ Applies(t, Labels[j].undo) THEN 1 ELSE 0

HeldExact ==
  \A t \in ForkTasks : fpc[t] # "user" \/ t \notin listed => Holds(t, held[t], From(fpc[t]))

ForkInv ==
  /\ ForkTypeOK /\ ForksOK /\ ChildrenApart /\ GroupsOK /\ ZapAfterStop /\ Collected
  /\ KillReachesGroup /\ NamespaceEmpties /\ SignalReachesProcesses /\ HeldExact
----------------------------------------------------------------------------
(* The labels and the acquisitions. *)

(* The nineteen labels, by their place. *)
LEMMA LabelTable ==
  /\ DOMAIN Labels = 1 .. 19
  /\ Labels[1] = [label |-> "cancel_cgroup", undo |-> "cgroup"]
  /\ Labels[2] = [label |-> "put_pidfd", undo |-> "pidfd"]
  /\ Labels[3] = [label |-> "free_pid", undo |-> "pid"]
  /\ Labels[4] = [label |-> "thread", undo |-> "thread"]
  /\ Labels[5] = [label |-> "io", undo |-> "io"]
  /\ Labels[6] = [label |-> "namespaces", undo |-> "namespaces"]
  /\ Labels[7] = [label |-> "mm", undo |-> "mm"]
  /\ Labels[8] = [label |-> "signal", undo |-> "signal"]
  /\ Labels[9] = [label |-> "sighand", undo |-> "sighand"]
  /\ Labels[10] = [label |-> "fs", undo |-> "fs"]
  /\ Labels[11] = [label |-> "files", undo |-> "files"]
  /\ Labels[12] = [label |-> "semundo", undo |-> "semundo"]
  /\ Labels[13] = [label |-> "security", undo |-> "security"]
  /\ Labels[14] = [label |-> "audit", undo |-> "audit"]
  /\ Labels[15] = [label |-> "perf", undo |-> "perf"]
  /\ Labels[16] = [label |-> "policy", undo |-> "mempolicy"]
  /\ Labels[17] = [label |-> "threadgroup_lock", undo |-> "delayacct"]
  /\ Labels[18] = [label |-> "count", undo |-> "creds"]
  /\ Labels[19] = [label |-> "free", undo |-> "task"]
  BY DEF Labels

(* No two labels have a name or a resource in common, and none undoes a table *)
(* of the key-value store.                                                    *)
LEMMA LabelsApart ==
  /\ \A i, j \in 1 .. 19 : Labels[i].label = Labels[j].label => i = j
  /\ \A i, j \in 1 .. 19 : Labels[i].undo = Labels[j].undo => i = j
  /\ \A i \in 1 .. 19 : Labels[i].undo \in Resources \ KvTables
<1>1. \A i, j \in 1 .. 19 : Labels[i].label = Labels[j].label => i = j
  BY LabelTable
<1>2. \A i, j \in 1 .. 19 : Labels[i].undo = Labels[j].undo => i = j
  BY LabelTable
<1>3. \A i \in 1 .. 19 : Labels[i].undo \notin KvTables
  BY LabelTable DEF KvTables
<1>4. \A i \in 1 .. 19 : Labels[i].undo \in Resources
  BY LabelTable DEF Resources
<1> QED
  BY <1>1, <1>2, <1>3, <1>4, ZenonT(60)

(* Control falls through from a label to the end. *)
LEMMA FallThrough ==
  ASSUME NEW i \in 1 .. 19, NEW j \in 1 .. 19
  PROVE  Labels[j].undo \in Undone[Labels[i].label] <=> j >= i
<1> DEFINE L == Labels[i].label
<1>1. Undone[L] = {Labels[m].undo : m \in {n \in DOMAIN Labels :
                      \E k \in 1 .. n : Labels[k].label = L}}
  BY LabelTable DEF Undone
<1>2. DOMAIN Labels = 1 .. 19
  BY LabelTable
<1>3. ASSUME j >= i PROVE Labels[j].undo \in Undone[L]
  BY <1>1, <1>2, <1>3
<1>4. ASSUME Labels[j].undo \in Undone[L] PROVE j >= i
  <2>1. PICK m \in 1 .. 19 :
          Labels[j].undo = Labels[m].undo /\ \E k \in 1 .. m : Labels[k].label = L
    BY <1>1, <1>2, <1>4
  <2>2. m = j
    BY <2>1, LabelsApart, ZenonT(60)
  <2>3. PICK k \in 1 .. 19 : k <= j /\ Labels[k].label = L
    <3>1. PICK k \in 1 .. j : Labels[k].label = L
      BY <2>1, <2>2, ZenonT(60)
    <3>2. k \in 1 .. 19 /\ k <= j
      OBVIOUS
    <3> QED
      BY <3>1, <3>2, ZenonT(60)
  <2>4. k = i
    BY <2>3, LabelsApart, ZenonT(60)
  <2> QED
    BY <2>3, <2>4
<1> QED
  BY <1>3, <1>4, ZenonT(60)

\* Of what the labels undo, R has what is from the k-th to before the i-th.
Spans(R, k, i) == \A j \in 1 .. 19 : Labels[j].undo \in R <=> j >= k /\ j < i

(* The place of the label that the n-th copy's failure jumps to. *)
Place(n) == IF n <= 2 THEN 18 - n ELSE 19 - n

\* Each copy_* of copy_process jumps to the label that undoes the copies before it.
LEMMA CopyTable ==
  /\ DOMAIN Copies = 1 .. 14 /\ Len(Copies) = 14
  /\ \A n \in 1 .. 14 : Copies[n].bad = Labels[Place(n)].label
  /\ Copies[1].get = Labels[16].undo
  /\ Copies[2].get = "sched"
  /\ \A n \in 3 .. 14 : Copies[n].get = Labels[18 - n].undo
<1>1. /\ Copies[1] = [get |-> "mempolicy", bad |-> "threadgroup_lock"]
      /\ Copies[2] = [get |-> "sched", bad |-> "policy"]
      /\ Copies[3] = [get |-> "perf", bad |-> "policy"]
      /\ Copies[4] = [get |-> "audit", bad |-> "perf"]
      /\ Copies[5] = [get |-> "security", bad |-> "audit"]
      /\ Copies[6] = [get |-> "semundo", bad |-> "security"]
      /\ Copies[7] = [get |-> "files", bad |-> "semundo"]
      /\ Copies[8] = [get |-> "fs", bad |-> "files"]
      /\ Copies[9] = [get |-> "sighand", bad |-> "fs"]
      /\ Copies[10] = [get |-> "signal", bad |-> "sighand"]
      /\ Copies[11] = [get |-> "mm", bad |-> "signal"]
      /\ Copies[12] = [get |-> "namespaces", bad |-> "mm"]
      /\ Copies[13] = [get |-> "io", bad |-> "namespaces"]
      /\ Copies[14] = [get |-> "thread", bad |-> "io"]
      /\ DOMAIN Copies = 1 .. 14 /\ Len(Copies) = 14
  BY DEF Copies
<1>2. \A n \in 1 .. 14 : Copies[n].bad = Labels[Place(n)].label
  BY <1>1, LabelTable DEF Place
<1>3. \A n \in 3 .. 14 : Copies[n].get = Labels[18 - n].undo
  BY <1>1, LabelTable
<1> QED
  BY <1>1, <1>2, <1>3, LabelTable

(* What the copies before the n-th acquired is what lies between the label of  *)
(* the n-th and that of delayacct.                                             *)
LEMMA CopiedSoFar ==
  ASSUME NEW n \in 1 .. 15
  PROVE  Spans({Copies[i].get : i \in 1 .. (n - 1)}, Place(n), 17)
<1> DEFINE G == {Copies[i].get : i \in 1 .. (n - 1)}
<1> SUFFICES ASSUME NEW j \in 1 .. 19
             PROVE  Labels[j].undo \in G <=> j >= Place(n) /\ j <= 16
  BY DEF Spans
<1>1. ASSUME Labels[j].undo \in G PROVE j >= Place(n) /\ j <= 16
  <2>1. PICK i \in 1 .. (n - 1) : Labels[j].undo = Copies[i].get
    BY <1>1
  <2>2. CASE i = 1
    <3>1. j = 16
      <4>1. Labels[j].undo = Labels[16].undo
        BY <2>1, <2>2, CopyTable
      <4> QED
        BY <4>1, LabelsApart
    <3> QED
      BY <2>1, <2>2, <3>1 DEF Place
  <2>3. CASE i = 2
    <3>1. \A k \in 1 .. 19 : Labels[k].undo # "sched"
      BY LabelTable
    <3> QED
      BY <2>1, <2>3, <3>1, CopyTable
  <2>4. CASE i \in 3 .. 14
    <3>1. j = 18 - i
      <4>1. Labels[j].undo = Labels[18 - i].undo /\ 18 - i \in 1 .. 19
        BY <2>1, <2>4, CopyTable
      <4> QED
        BY <4>1, LabelsApart, ZenonT(60)
    <3> QED
      BY <2>1, <2>4, <3>1 DEF Place
  <2> QED
    BY <2>1, <2>2, <2>3, <2>4
<1>2. ASSUME j >= Place(n), j <= 16 PROVE Labels[j].undo \in G
  <2>1. CASE j = 16
    <3>1. 1 \in 1 .. (n - 1)
      BY <1>2, <2>1 DEF Place
    <3> QED
      BY <2>1, <3>1, CopyTable
  <2>2. CASE j # 16
    <3>1. 18 - j \in 3 .. 14 /\ 18 - j \in 1 .. (n - 1) /\ 18 - (18 - j) = j
      BY <1>2, <2>2 DEF Place
    <3>2. Copies[18 - j].get = Labels[j].undo
      BY <3>1, CopyTable
    <3> QED
      BY <3>1, <3>2
  <2> QED
    BY <2>1, <2>2
<1> QED
  BY <1>1, <1>2

----------------------------------------------------------------------------
(* What a jump to a label and an acquisition do to what is held. *)

\* A jump to the right label of copy_process leaves nothing held.
LEMMA UnwindsAll ==
  ASSUME NEW t \in ForkTasks, NEW h \in [Resources -> Int], NEW i \in 1 .. 19,
         Holds(t, h, i), NEW j \in 1 .. 19
  PROVE  [r \in Resources |->
            h[r] - IF r \in Undone[Labels[i].label] /\ Applies(t, r) THEN 1 ELSE 0]
              [Labels[j].undo] = 0
<1> DEFINE r == Labels[j].undo
<1>1. r \in Resources
  BY LabelsApart
<1>2. r \in Undone[Labels[i].label] <=> j >= i
  BY FallThrough, ZenonT(60)
<1>3. h[r] = IF j >= i /\ Applies(t, r) THEN 1 ELSE 0
  BY ZenonT(60) DEF Holds
<1> HIDE DEF r
<1> QED
  BY <1>1, <1>2, <1>3 DEF r

\* What the next stretch of copy_process acquires is what the next label undoes.
LEMMA GainsNext ==
  ASSUME NEW t \in ForkTasks, NEW h \in [Resources -> Int], NEW i \in 1 .. 20,
         NEW k \in 1 .. 20, NEW R, Holds(t, h, i), k <= i, Spans(R, k, i)
  PROVE  /\ Gain(t, h, R) \in [Resources -> Int]
         /\ Holds(t, Gain(t, h, R), k)
<1>1. Gain(t, h, R) \in [Resources -> Int]
  BY DEF Gain
<1>2. ASSUME NEW j \in 1 .. 19
      PROVE  Gain(t, h, R)[Labels[j].undo] =
               IF j >= k /\ Applies(t, Labels[j].undo) THEN 1 ELSE 0
  <2> DEFINE r == Labels[j].undo
  <2>1. r \in Resources
    BY LabelsApart
  <2>2. h[r] = IF j >= i /\ Applies(t, r) THEN 1 ELSE 0
    BY DEF Holds
  <2>3. r \in R <=> j >= k /\ j < i
    BY DEF Spans
  <2> HIDE DEF r
  <2>4. Gain(t, h, R)[r] = h[r] + IF r \in R /\ Applies(t, r) THEN 1 ELSE 0
    BY <2>1 DEF Gain
  <2> QED
    BY <2>2, <2>3, <2>4 DEF r
<1> QED
  BY <1>1, <1>2 DEF Holds

----------------------------------------------------------------------------
(* The steps of a fork that nobody else can see. *)

FPCs == {"user", "sigpending", "dup", "limits", "copies", "pid", "pidfd", "tables",
         "cgroup", "attach", "fork_out"}
ForkRecs(U) == [kind : {"none", "thread", "process", "pidfd"}, child : U \cup {None}]
others == <<alive, inside, group, signalVars, killVars, delayVars>>

\* The fork of t is at p and holds what is to be undone there.
ForkAt(t, p) ==
  /\ fpc' = [fpc EXCEPT ![t] = p]
  /\ held'[t] \in [Resources -> Int]
  /\ held' = [held EXCEPT ![t] = held'[t]]
  /\ fork'[t] \in ForkRecs(unborn') /\ fork'[t].kind = fork[t].kind
  /\ fork' = [fork EXCEPT ![t] = fork'[t]]

(* A step of one fork that changes none of the shared state keeps the invariant *)
(* when it keeps that fork's part of it.                                        *)
LEMMA QuietStep ==
  ASSUME ForkInv, NEW t \in ForkTasks, fpc[t] # "user", NEW p \in FPCs, ForkAt(t, p),
         UNCHANGED others,
         unborn' \subseteq ForkTasks \ alive,
         \A u \in ForkTasks \ {t} : fork[u].child \in unborn' \cup {None},
         \A u \in ForkTasks \ {t} : fork'[t].child # None => fork[u].child # fork'[t].child,
         p \in Making => fork'[t].child # None,
         \/ Holds(t, held[t], From(p))'
         \/ p = "user" /\ t \in listed
  PROVE  ForkInv'
<1>1. /\ fpc \in [ForkTasks -> FPCs] /\ fork \in [ForkTasks -> ForkRecs(unborn)]
      /\ held \in [ForkTasks -> [Resources -> Int]]
  BY ZenonT(60) DEF ForkInv, ForkTypeOK, FPCs, ForkRecs
<1>2. /\ fpc'[t] = p
      /\ \A u \in ForkTasks \ {t} : fpc'[u] = fpc[u] /\ fork'[u] = fork[u] /\ held'[u] = held[u]
  BY <1>1, ZenonT(60) DEF ForkAt
<1>3. fpc' \in [ForkTasks -> FPCs] /\ held' \in [ForkTasks -> [Resources -> Int]]
  BY <1>1 DEF ForkAt
<1>4. fork' \in [ForkTasks -> ForkRecs(unborn')]
  <2>1. \A u \in ForkTasks : fork'[u] \in ForkRecs(unborn')
    BY <1>1, <1>2 DEF ForkAt, ForkRecs
  <2> QED
    BY <1>1, <2>1 DEF ForkAt
<1>5. \A u \in ForkTasks : fork'[u].kind = fork[u].kind
  BY <1>2, ZenonT(60) DEF ForkAt
<1>6. UNCHANGED <<alive, inside, group, pending, tif, due, killed, adding, zapped, listed,
                  delayed, owed>>
  BY ZenonT(60) DEF others, signalVars, killVars, delayVars
<1>7. ForkTypeOK'
  BY <1>3, <1>4, <1>5, <1>6 DEF ForkInv, ForkTypeOK, FPCs, ForkRecs, Leaders
<1>8. ForksOK'
  BY <1>2, <1>5, <1>6 DEF ForkInv, ForksOK, Making
<1>9. ChildrenApart'
  BY <1>2 DEF ForkInv, ChildrenApart
<1>10. HeldExact'
  <2>1. ASSUME NEW u \in ForkTasks \ {t}, fpc'[u] # "user" \/ u \notin listed'
        PROVE  Holds(u, held[u], From(fpc[u]))'
    <3>1. Holds(u, held[u], From(fpc[u]))
      BY <1>2, <1>6, <2>1, ZenonT(60) DEF ForkInv, HeldExact
    <3>2. fork'[u] = fork[u] /\ held'[u] = held[u] /\ fpc'[u] = fpc[u]
      BY <1>2
    <3>3. From(fpc[u])' = From(fpc[u])
      BY <3>2, ZenonT(60) DEF From
    <3> QED
      BY <3>1, <3>2, <3>3, ZenonT(60) DEF Holds, Applies
  <2> QED
    BY <1>2, <1>6, <2>1 DEF HeldExact
<1>11. /\ GroupsOK' /\ ZapAfterStop' /\ Collected'
       /\ KillReachesGroup' /\ NamespaceEmpties' /\ SignalReachesProcesses'
  BY <1>6, ZenonT(60) DEF ForkInv, GroupsOK, ZapAfterStop, Collected, KillReachesGroup,
              NamespaceEmpties, SignalReachesProcesses
<1> QED
  BY <1>7, <1>8, <1>9, <1>10, <1>11, ZenonT(60) DEF ForkInv

(* A jump to the label of all that is held. *)
LEMMA UnwindKeeps ==
  ASSUME ForkInv, NEW t \in ForkTasks, fpc[t] \in Making, NEW h \in [Resources -> Int],
         NEW i \in 1 .. 19, Holds(t, h, i), Unwind(t, h, Labels[i].label), UNCHANGED others
  PROVE  ForkInv'
<1>1. /\ fork \in [ForkTasks -> ForkRecs(unborn)] /\ held \in [ForkTasks -> [Resources -> Int]]
      /\ unborn \subseteq ForkTasks \ alive
  BY ZenonT(60) DEF ForkInv, ForkTypeOK, ForkRecs
<1> DEFINE left == [r \in Resources |->
                      h[r] - IF r \in Undone[Labels[i].label] /\ Applies(t, r) THEN 1 ELSE 0]
<1>2. left \in [Resources -> Int]
  OBVIOUS
<1>3. \A j \in 1 .. 19 : left[Labels[j].undo] = 0
  BY UnwindsAll, ZenonT(60)
<1>4. /\ held' = [held EXCEPT ![t] = left] /\ unborn' = unborn \ {fork[t].child}
      /\ fork' = [fork EXCEPT ![t].child = None] /\ fpc' = [fpc EXCEPT ![t] = "fork_out"]
  BY DEF Unwind
<1> HIDE DEF left
<1>5. fork'[t] = [fork[t] EXCEPT !.child = None]
  BY <1>1, <1>4
<1>6. fork'[t] \in ForkRecs(unborn') /\ fork'[t].kind = fork[t].kind /\ fork'[t].child = None
  BY <1>1, <1>5 DEF ForkRecs
<1>7. ForkAt(t, "fork_out")
  BY <1>1, <1>2, <1>4, <1>6, ZenonT(60) DEF ForkAt
<1>8. Holds(t, held[t], From("fork_out"))'
  BY <1>1, <1>3, <1>4 DEF Holds, From
<1>9. \A u \in ForkTasks \ {t} : fork[u].child \in unborn' \cup {None}
  BY <1>1, <1>4 DEF ForkInv, ChildrenApart, ForkRecs
<1> QED
  BY <1>1, <1>4, <1>6, <1>7, <1>8, <1>9, QuietStep, ZenonT(60) DEF Making, FPCs

(* Going on with one more acquisition. *)
LEMMA ProceedKeeps ==
  ASSUME ForkInv, NEW t \in ForkTasks, fpc[t] \in Making, NEW R, NEW p \in FPCs,
         Proceed(t, R, p), UNCHANGED others,
         Gain(t, held[t], R) \in [Resources -> Int],
         Holds(t, Gain(t, held[t], R), From(p)) \/ (p = "user" /\ t \in listed)
  PROVE  ForkInv'
<1>1. /\ fork \in [ForkTasks -> ForkRecs(unborn)] /\ held \in [ForkTasks -> [Resources -> Int]]
      /\ unborn \subseteq ForkTasks \ alive
  BY ZenonT(60) DEF ForkInv, ForkTypeOK, ForkRecs
<1>2. /\ held' = [held EXCEPT ![t] = Gain(t, held[t], R)]
      /\ fpc' = [fpc EXCEPT ![t] = p] /\ unborn' = unborn /\ fork' = fork
  BY <1>1 DEF Proceed
<1>3. held'[t] = Gain(t, held[t], R)
  BY <1>1, <1>2
<1>4. ForkAt(t, p)
  BY <1>1, <1>2, <1>3 DEF ForkAt
<1>5. Holds(t, Gain(t, held[t], R), From(p)) => Holds(t, held[t], From(p))'
  BY <1>2, <1>3, ZenonT(60) DEF Holds, Applies
<1>6. /\ \A u \in ForkTasks \ {t} : fork[u].child \in unborn' \cup {None}
      /\ \A u \in ForkTasks \ {t} : fork'[t].child # None => fork[u].child # fork'[t].child
      /\ fork'[t].child # None
  BY <1>1, <1>2, ZenonT(60) DEF ForkInv, ChildrenApart, ForksOK, ForkRecs
<1> QED
  BY <1>1, <1>2, <1>4, <1>5, <1>6, QuietStep, ZenonT(60) DEF Making

(* Which labels undo what the single steps acquire. *)
LEMMA Acquired ==
  /\ Spans({"task"}, 19, 20) /\ Spans({"creds"}, 18, 19) /\ Spans({"creds", "delayacct"}, 17, 19)
  /\ Spans({"pid"}, 3, 4) /\ Spans({"pidfd"}, 2, 3) /\ Spans({"cgroup"}, 1, 2)
  /\ \A R \in SUBSET KvTables : Spans(R, 2, 2)
<1>1. \A R \in SUBSET KvTables : Spans(R, 2, 2)
  BY LabelsApart DEF Spans
<1> QED
  BY <1>1, LabelTable DEF Spans

(* What the fork of a task holds in terms of the labels. *)
LEMMA HoldsNow ==
  ASSUME ForkInv, NEW t \in ForkTasks, fpc[t] # "user"
  PROVE  held[t] \in [Resources -> Int] /\ Holds(t, held[t], From(fpc[t]))
  BY ZenonT(60) DEF ForkInv, ForkTypeOK, HeldExact

\* The check of pending signals at the start of copy_process keeps the invariant.
LEMMA CheckSignalsKeeps ==
  ASSUME ForkInv, NEW t \in ForkTasks, CheckSignals(t)
  PROVE  ForkInv'
<1>1. PICK p \in {"fork_out", "dup"} : fpc' = [fpc EXCEPT ![t] = p]
  BY ZenonT(60) DEF CheckSignals
<1>2. /\ fork \in [ForkTasks -> ForkRecs(unborn)] /\ held \in [ForkTasks -> [Resources -> Int]]
      /\ unborn \subseteq ForkTasks \ alive
  BY DEF ForkInv, ForkTypeOK, ForkRecs
<1>3. UNCHANGED <<fork, held, unborn>> /\ UNCHANGED others /\ fpc[t] = "sigpending"
  BY DEF CheckSignals, others, taskVars
<1>4. ForkAt(t, p)
  BY <1>1, <1>2, <1>3, ZenonT(60) DEF ForkAt
<1>5. Holds(t, held[t], From(p))'
  <2>1. Holds(t, held[t], 20) /\ From(p) = 20
    BY <1>3, HoldsNow DEF From
  <2> QED
    BY <1>3, <2>1, ZenonT(60) DEF Holds, Applies, From
<1>6. /\ \A u \in ForkTasks \ {t} : fork[u].child \in unborn' \cup {None}
      /\ \A u \in ForkTasks \ {t} : fork'[t].child # None => fork[u].child # fork'[t].child
  BY <1>2, <1>3 DEF ForkInv, ChildrenApart, ForkRecs
<1> QED
  BY <1>2, <1>3, <1>4, <1>5, <1>6, QuietStep DEF FPCs, Making

\* dup_task_struct, or its failure, keeps the invariant.
LEMMA DupTaskKeeps ==
  ASSUME ForkInv, NEW t \in ForkTasks, DupTask(t)
  PROVE  ForkInv'
<1>1. /\ fork \in [ForkTasks -> ForkRecs(unborn)] /\ held \in [ForkTasks -> [Resources -> Int]]
      /\ unborn \subseteq ForkTasks \ alive
  BY DEF ForkInv, ForkTypeOK, ForkRecs
<1>2. UNCHANGED others /\ fpc[t] = "dup" /\ Holds(t, held[t], 20)
  BY HoldsNow, ZenonT(60) DEF DupTask, others, From
<1>3. ASSUME NEW c \in ForkTasks \ (alive \cup unborn),
             unborn' = unborn \cup {c}, fork' = [fork EXCEPT ![t].child = c],
             held' = [held EXCEPT ![t] = Gain(t, @, {"task"})],
             fpc' = [fpc EXCEPT ![t] = "limits"]
      PROVE  ForkInv'
  <2>1. Gain(t, held[t], {"task"}) \in [Resources -> Int] /\ Holds(t, Gain(t, held[t], {"task"}), 19)
    BY <1>1, <1>2, Acquired, GainsNext
  <2>2. fork'[t] = [fork[t] EXCEPT !.child = c] /\ held'[t] = Gain(t, held[t], {"task"})
    BY <1>1, <1>3
  <2>3. fork'[t] \in ForkRecs(unborn') /\ fork'[t].kind = fork[t].kind /\ fork'[t].child = c
    BY <1>1, <1>3, <2>2 DEF ForkRecs
  <2>4. ForkAt(t, "limits")
    BY <1>1, <1>3, <2>1, <2>2, <2>3 DEF ForkAt
  <2>5. Holds(t, held[t], From("limits"))'
    BY <2>1, <2>2, <2>3, ZenonT(60) DEF Holds, Applies, From
  <2>6. /\ \A u \in ForkTasks \ {t} : fork[u].child \in unborn' \cup {None}
        /\ \A u \in ForkTasks \ {t} : fork[u].child # c
        /\ c # None
    BY <1>1, <1>3, ForkAssumption DEF ForkRecs
  <2> QED
    BY <1>1, <1>2, <1>3, <2>3, <2>4, <2>5, <2>6, QuietStep, ZenonT(60) DEF FPCs
<1>4. ASSUME fpc' = [fpc EXCEPT ![t] = "fork_out"], UNCHANGED <<unborn, fork, held>>
      PROVE  ForkInv'
  <2>1. ForkAt(t, "fork_out")
    BY <1>1, <1>4, ZenonT(60) DEF ForkAt
  <2>2. Holds(t, held[t], From("fork_out"))'
    BY <1>2, <1>4 DEF Holds, Applies, From
  <2>3. /\ \A u \in ForkTasks \ {t} : fork[u].child \in unborn' \cup {None}
        /\ \A u \in ForkTasks \ {t} : fork'[t].child # None => fork[u].child # fork'[t].child
    BY <1>1, <1>4, ZenonT(60) DEF ForkInv, ChildrenApart, ForkRecs
  <2> QED
    BY <1>1, <1>2, <1>4, <2>1, <2>2, <2>3, QuietStep DEF FPCs, Making
<1> QED
  BY <1>3, <1>4 DEF DupTask

\* copy_creds and the two limits on processes keep the invariant.
LEMMA CheckLimitsKeeps ==
  ASSUME ForkInv, NEW t \in ForkTasks, CheckLimits(t)
  PROVE  ForkInv'
<1>1. /\ UNCHANGED others /\ fpc[t] \in Making /\ held[t] \in [Resources -> Int]
      /\ Holds(t, held[t], 19)
  BY HoldsNow, ZenonT(60) DEF CheckLimits, others, Making, From
<1>2. CASE Unwind(t, held[t], "free")
  BY <1>1, <1>2, UnwindKeeps, LabelTable
<1>3. CASE Unwind(t, Gain(t, held[t], {"creds"}), "count")
  <2>1. Gain(t, held[t], {"creds"}) \in [Resources -> Int]
        /\ Holds(t, Gain(t, held[t], {"creds"}), 18)
    BY <1>1, Acquired, GainsNext
  <2> QED
    BY <1>1, <1>3, <2>1, UnwindKeeps, LabelTable
<1>4. CASE Proceed(t, {"creds", "delayacct"}, "copies")
  <2> DEFINE R == {"creds", "delayacct"}
  <2>1. Gain(t, held[t], R) \in [Resources -> Int] /\ Holds(t, Gain(t, held[t], R), 17)
    BY <1>1, Acquired, GainsNext
  <2> QED
    BY <1>1, <1>4, <2>1, ProceedKeeps DEF From, FPCs
<1> QED
  BY <1>2, <1>3, <1>4 DEF CheckLimits

\* The fourteen copies, up to the first that fails, keep the invariant.
LEMMA CopyResourcesKeeps ==
  ASSUME ForkInv, NEW t \in ForkTasks, CopyResources(t)
  PROVE  ForkInv'
<1> DEFINE Got(n) == {Copies[i].get : i \in 1 .. n}
<1>1. /\ UNCHANGED others /\ fpc[t] \in Making /\ held[t] \in [Resources -> Int]
      /\ Holds(t, held[t], 17)
  BY HoldsNow, ZenonT(60) DEF CopyResources, others, Making, From
<1>2. ASSUME NEW n \in 1 .. 15
      PROVE  /\ Gain(t, held[t], Got(n - 1)) \in [Resources -> Int]
             /\ Holds(t, Gain(t, held[t], Got(n - 1)), Place(n))
  <2>1. Spans(Got(n - 1), Place(n), 17)
    BY CopiedSoFar, ZenonT(60)
  <2>2. Place(n) \in 1 .. 20 /\ Place(n) <= 17
    BY DEF Place
  <2> HIDE DEF Got
  <2> QED
    BY <1>1, <2>1, <2>2, GainsNext
<1>3. ASSUME NEW n \in 1 .. 14, Unwind(t, Gain(t, held[t], Got(n - 1)), Copies[n].bad)
      PROVE  ForkInv'
  <2>1. Copies[n].bad = Labels[Place(n)].label /\ Place(n) \in 1 .. 19
    BY CopyTable DEF Place
  <2> HIDE DEF Got
  <2> QED
    BY <1>1, <1>2, <1>3, <2>1, UnwindKeeps
<1>4. ASSUME Proceed(t, Got(14), "pid") PROVE ForkInv'
  <2>1. Gain(t, held[t], Got(14)) \in [Resources -> Int]
        /\ Holds(t, Gain(t, held[t], Got(14)), 4)
    <3>1. Place(15) = 4 /\ 15 - 1 = 14
      BY DEF Place
    <3> HIDE DEF Got
    <3> QED
      BY <1>2, <3>1
  <2> HIDE DEF Got
  <2> QED
    BY <1>1, <1>4, <2>1, ProceedKeeps, ZenonT(60) DEF From, FPCs
<1> QED
  BY <1>3, <1>4, CopyTable DEF CopyResources

\* alloc_pid, or its failure, keeps the invariant.
LEMMA AllocPidKeeps ==
  ASSUME ForkInv, NEW t \in ForkTasks, AllocPid(t)
  PROVE  ForkInv'
<1>1. /\ UNCHANGED others /\ fpc[t] \in Making /\ held[t] \in [Resources -> Int]
      /\ Holds(t, held[t], 4)
  BY HoldsNow, ZenonT(60) DEF AllocPid, others, Making, From
<1>2. CASE Unwind(t, held[t], "thread")
  BY <1>1, <1>2, UnwindKeeps, LabelTable
<1>3. CASE Proceed(t, {"pid"}, "pidfd")
  <2>1. Gain(t, held[t], {"pid"}) \in [Resources -> Int] /\ Holds(t, Gain(t, held[t], {"pid"}), 3)
    BY <1>1, Acquired, GainsNext
  <2> QED
    BY <1>1, <1>3, <2>1, ProceedKeeps, ZenonT(60) DEF From, FPCs
<1> QED
  BY <1>2, <1>3 DEF AllocPid

\* The pidfd, its put_user and their failures keep the invariant.
LEMMA OpenPidfdKeeps ==
  ASSUME ForkInv, NEW t \in ForkTasks, OpenPidfd(t)
  PROVE  ForkInv'
<1>1. /\ UNCHANGED others /\ fpc[t] \in Making /\ held[t] \in [Resources -> Int]
      /\ Holds(t, held[t], 3)
  BY HoldsNow, ZenonT(60) DEF OpenPidfd, others, Making, From
<1>2. Gain(t, held[t], {"pidfd"}) \in [Resources -> Int]
      /\ Holds(t, Gain(t, held[t], {"pidfd"}), 2)
  BY <1>1, Acquired, GainsNext
<1>3. CASE Unwind(t, held[t], "free_pid")
  BY <1>1, <1>3, UnwindKeeps, LabelTable
<1>4. CASE Unwind(t, Gain(t, held[t], {"pidfd"}), "put_pidfd")
  BY <1>1, <1>2, <1>4, UnwindKeeps, LabelTable
<1>5. CASE Proceed(t, {"pidfd"}, "tables")
  BY <1>1, <1>2, <1>5, ProceedKeeps DEF From, FPCs
<1> QED
  BY <1>3, <1>4, <1>5 DEF OpenPidfd

\* The tables of the key-value store, allocated or not, keep the invariant.
LEMMA AllocTablesKeeps ==
  ASSUME ForkInv, NEW t \in ForkTasks, AllocTables(t)
  PROVE  ForkInv'
<1>1. /\ UNCHANGED others /\ fpc[t] \in Making /\ held[t] \in [Resources -> Int]
      /\ Holds(t, held[t], 2) /\ fpc[t] # "user"
  BY HoldsNow, ZenonT(60) DEF AllocTables, others, Making, From
<1>2. ASSUME NEW R \in SUBSET KvTables
      PROVE  Gain(t, held[t], R) \in [Resources -> Int] /\ Holds(t, Gain(t, held[t], R), 2)
  BY <1>1, Acquired, GainsNext
<1>3. ASSUME NEW R \in SUBSET KvTables, Proceed(t, R, "cgroup") PROVE ForkInv'
  BY <1>1, <1>2, <1>3, ProceedKeeps DEF From, FPCs
<1>4. ASSUME NEW R \in SUBSET KvTables, Proceed(t, R, "user"), fork[t].kind # "thread"
      PROVE  ForkInv'
  <2>1. t \in listed
    BY <1>1, <1>4, ZenonT(60) DEF ForkInv, ForksOK
  <2> QED
    BY <1>1, <1>2, <1>4, <2>1, ProceedKeeps, ZenonT(60) DEF FPCs
<1>5. CASE fork[t].kind = "thread"
  BY <1>3, <1>5 DEF AllocTables
<1>6. CASE fork[t].kind # "thread"
  <2>1. PICK R \in SUBSET KvTables : Proceed(t, R, IF R = KvTables THEN "cgroup" ELSE "user")
    BY <1>6 DEF AllocTables
  <2> QED
    BY <1>3, <1>4, <1>6, <2>1, ZenonT(60)
<1> QED
  BY <1>5, <1>6

\* The cgroup's answer to the fork keeps the invariant.
LEMMA CanForkKeeps ==
  ASSUME ForkInv, NEW t \in ForkTasks, CanFork(t)
  PROVE  ForkInv'
<1>1. /\ UNCHANGED others /\ fpc[t] \in Making /\ held[t] \in [Resources -> Int]
      /\ Holds(t, held[t], 2)
  BY HoldsNow, ZenonT(60) DEF CanFork, others, Making, From
<1>2. CASE Unwind(t, held[t], "put_pidfd")
  BY <1>1, <1>2, UnwindKeeps, LabelTable
<1>3. CASE Proceed(t, {"cgroup"}, "attach")
  <2>1. Gain(t, held[t], {"cgroup"}) \in [Resources -> Int]
        /\ Holds(t, Gain(t, held[t], {"cgroup"}), 1)
    BY <1>1, Acquired, GainsNext
  <2> QED
    BY <1>1, <1>3, <2>1, ProceedKeeps, ZenonT(60) DEF From, FPCs
<1> QED
  BY <1>2, <1>3 DEF CanFork

----------------------------------------------------------------------------
(* The steps that others see. *)

(* The calls of others, when nothing of theirs changes, hold what they held. *)
LEMMA OthersHold ==
  ASSUME ForkInv, NEW u \in ForkTasks, fpc'[u] = fpc[u], fork'[u] = fork[u],
         held'[u] = held[u], u \in listed' <=> u \in listed,
         fpc'[u] # "user" \/ u \notin listed'
  PROVE  Holds(u, held[u], From(fpc[u]))'
<1>1. Holds(u, held[u], From(fpc[u]))
  BY DEF ForkInv, HeldExact
<1>2. From(fpc[u])' = From(fpc[u])
  BY DEF From
<1> QED
  BY <1>1, <1>2, ZenonT(60) DEF Holds, Applies

\* Before a call, and after one that failed, nothing is to be undone.
LEMMA NothingHeld ==
  ASSUME NEW t \in ForkTasks
  PROVE  NoneHeld \in [Resources -> Int] /\ Holds(t, NoneHeld, 20) /\ Holds(t, NoneHeld, 20)'
<1>1. \A j \in 1 .. 19 : NoneHeld[Labels[j].undo] = 0
  <2>1. \A r \in Resources : NoneHeld[r] = 0
    BY ZenonT(60) DEF NoneHeld
  <2> QED
    BY <2>1, LabelsApart, ZenonT(60)
<1>2. \A j \in 1 .. 19 : ~(j >= 20)
  OBVIOUS
<1>3. Holds(t, NoneHeld, 20) /\ Holds(t, NoneHeld, 20)'
  BY <1>1, <1>2, ZenonT(60) DEF Holds
<1>4. NoneHeld \in [Resources -> Int]
  BY DEF NoneHeld
<1> QED
  BY <1>3, <1>4

\* The entry of copy_process, which puts the delayed node on the list, keeps it too.
LEMMA CollectSignalsKeeps ==
  ASSUME ForkInv, NEW t \in ForkTasks, NEW kind \in {"thread", "process", "pidfd"},
         CollectSignals(t, kind)
  PROVE  ForkInv'
<1>1. /\ fpc \in [ForkTasks -> FPCs] /\ fork \in [ForkTasks -> ForkRecs(unborn)]
      /\ held \in [ForkTasks -> [Resources -> Int]]
  BY ZenonT(60) DEF ForkInv, ForkTypeOK, FPCs, ForkRecs
<1>2. /\ fpc' = [fpc EXCEPT ![t] = "sigpending"]
      /\ fork' = [fork EXCEPT ![t] = [kind |-> kind, child |-> None]]
      /\ held' = [held EXCEPT ![t] = NoneHeld]
      /\ fpc[t] = "user" /\ t \in alive /\ t \notin listed
      /\ kind = "thread" => t \in inside
      /\ listed' = IF kind # "thread" THEN listed \cup {t} ELSE listed
      /\ delayed' = delayed \ {t} /\ owed' = owed \ {t}
      /\ tif' \subseteq tif \cup {t}
      /\ UNCHANGED <<alive, unborn, inside, group, pending, due, killed, adding, zapped>>
  BY ZenonT(60) DEF CollectSignals, Joins, taskVars, killVars
<1>3. /\ fpc'[t] = "sigpending" /\ fork'[t] = [kind |-> kind, child |-> None]
      /\ held'[t] = NoneHeld
      /\ \A u \in ForkTasks \ {t} : fpc'[u] = fpc[u] /\ fork'[u] = fork[u] /\ held'[u] = held[u]
  BY <1>1, <1>2, ZenonT(60)
<1>4. /\ fpc' \in [ForkTasks -> FPCs] /\ fork' \in [ForkTasks -> ForkRecs(unborn)]
      /\ held' \in [ForkTasks -> [Resources -> Int]]
  BY <1>1, <1>2, NothingHeld, ZenonT(60) DEF FPCs, ForkRecs
<1>5. ForkTypeOK'
  <2>1. listed' \subseteq {u \in alive : fork'[u].kind \in {"process", "pidfd"}}
    BY <1>2, <1>3 DEF ForkInv, ForkTypeOK
  <2>2. delayed' \subseteq listed'
    BY <1>2, ZenonT(60) DEF ForkInv, ForkTypeOK
  <2> QED
    BY <1>2, <1>4, <2>1, <2>2 DEF ForkInv, ForkTypeOK, FPCs, ForkRecs, Leaders
<1>6. ForksOK'
  BY <1>2, <1>3 DEF ForkInv, ForksOK, Making
<1>7. ChildrenApart'
  BY <1>3 DEF ForkInv, ChildrenApart
<1>8. HeldExact'
  <2>1. Holds(t, held[t], From(fpc[t]))'
    <3>1. Holds(t, NoneHeld, 20)'
      BY NothingHeld, ZenonT(60)
    <3>2. From(fpc[t])' = 20
      BY <1>3 DEF From
    <3> QED
      BY <1>3, <3>1, <3>2, ZenonT(60) DEF Holds
  <2>2. ASSUME NEW u \in ForkTasks \ {t}, fpc'[u] # "user" \/ u \notin listed'
        PROVE  Holds(u, held[u], From(fpc[u]))'
    BY <1>2, <1>3, <2>2, OthersHold
  <2> QED
    BY <2>1, <2>2, ZenonT(60) DEF HeldExact
<1>9. /\ GroupsOK' /\ ZapAfterStop' /\ Collected'
      /\ KillReachesGroup' /\ NamespaceEmpties' /\ SignalReachesProcesses'
  BY <1>2, ZenonT(60) DEF ForkInv, GroupsOK, ZapAfterStop, Collected, KillReachesGroup,
              NamespaceEmpties, SignalReachesProcesses
<1> QED
  BY <1>5, <1>6, <1>7, <1>8, <1>9, ZenonT(60) DEF ForkInv

\* fork_out, which takes the delayed signals off the list, keeps the invariant.
LEMMA ForkOutKeeps ==
  ASSUME ForkInv, NEW t \in ForkTasks, ForkOut(t)
  PROVE  ForkInv'
<1>1. /\ fpc \in [ForkTasks -> FPCs] /\ fork \in [ForkTasks -> ForkRecs(unborn)]
      /\ held \in [ForkTasks -> [Resources -> Int]]
  BY DEF ForkInv, ForkTypeOK, FPCs, ForkRecs
<1>2. /\ fpc' = [fpc EXCEPT ![t] = "user"] /\ fork' = [fork EXCEPT ![t] = NoFork]
      /\ fpc[t] = "fork_out"
      /\ listed' = listed \ {t} /\ delayed' = delayed \ {t} /\ owed' = owed \ {t}
      /\ UNCHANGED <<held, alive, unborn, inside, group, pending, tif, due, killed, adding,
                     zapped>>
  BY ZenonT(60) DEF ForkOut, taskVars, signalVars, killVars
<1>3. /\ fpc'[t] = "user" /\ fork'[t] = NoFork
      /\ \A u \in ForkTasks \ {t} : fpc'[u] = fpc[u] /\ fork'[u] = fork[u] /\ held'[u] = held[u]
  BY <1>1, <1>2, ZenonT(60)
<1>4. fpc' \in [ForkTasks -> FPCs] /\ fork' \in [ForkTasks -> ForkRecs(unborn)]
  BY <1>1, <1>2, ZenonT(60) DEF FPCs, ForkRecs, NoFork
<1>5. ForkTypeOK'
  <2>1. listed' \subseteq {u \in alive : fork'[u].kind \in {"process", "pidfd"}}
    BY <1>2, <1>3, ZenonT(60) DEF ForkInv, ForkTypeOK
  <2> QED
    BY <1>1, <1>2, <1>4, <2>1 DEF ForkInv, ForkTypeOK, FPCs, ForkRecs, Leaders
<1>6. ForksOK'
  BY <1>2, <1>3 DEF ForkInv, ForksOK, Making
<1>7. ChildrenApart'
  BY <1>3 DEF ForkInv, ChildrenApart, NoFork
<1>8. HeldExact'
  <2>1. Holds(t, held[t], 20)
    BY <1>2, HoldsNow, ZenonT(60) DEF From
  <2>2. Holds(t, held[t], From(fpc[t]))'
    BY <1>2, <1>3, <2>1 DEF Holds, From
  <2>3. ASSUME NEW u \in ForkTasks \ {t}, fpc'[u] # "user" \/ u \notin listed'
        PROVE  Holds(u, held[u], From(fpc[u]))'
    BY <1>2, <1>3, <2>3, OthersHold, ZenonT(60)
  <2> QED
    BY <2>2, <2>3 DEF HeldExact
<1>9. /\ GroupsOK' /\ ZapAfterStop' /\ Collected'
      /\ KillReachesGroup' /\ NamespaceEmpties' /\ SignalReachesProcesses'
  BY <1>2, ZenonT(60) DEF ForkInv, GroupsOK, ZapAfterStop, Collected, KillReachesGroup,
              NamespaceEmpties, SignalReachesProcesses
<1> QED
  BY <1>5, <1>6, <1>7, <1>8, <1>9, ZenonT(60) DEF ForkInv

(* The locked section.  A new thread joins a group none of whose threads is    *)
(* killed; a new process leads a group of its own and gets the signals that    *)
(* were collected for it.                                                      *)
LEMMA AttachKeeps ==
  ASSUME ForkInv, NEW t \in ForkTasks, Attach(t)
  PROVE  ForkInv'
<1> DEFINE c == fork[t].child
           leader == IF fork[t].kind = "thread" THEN group[t] ELSE c
<1>1. /\ fpc \in [ForkTasks -> FPCs] /\ fork \in [ForkTasks -> ForkRecs(unborn)]
      /\ held \in [ForkTasks -> [Resources -> Int]]
      /\ unborn \subseteq ForkTasks \ alive /\ group \in [ForkTasks -> ForkTasks]
  BY ZenonT(60) DEF ForkInv, ForkTypeOK, FPCs, ForkRecs
<1>2. /\ fpc[t] = "attach" /\ UNCHANGED <<killed, adding, zapped>>
      /\ t \in alive /\ c \in unborn
      /\ fork[t].kind = "thread" => t \in inside
      /\ fork[t].kind # "thread" => t \in listed
  BY <1>1, ZenonT(60) DEF Attach, killVars, ForkInv, ForksOK, Making, ForkRecs
<1>3. CASE /\ Unwind(t, held[t], "cancel_cgroup")
           /\ UNCHANGED <<alive, inside, group, signalVars, delayVars>>
  <2>1. UNCHANGED others /\ fpc[t] \in Making /\ held[t] \in [Resources -> Int]
        /\ Holds(t, held[t], 1)
    BY <1>2, <1>3, HoldsNow DEF others, killVars, Making, From
  <2> QED
    BY <1>3, <2>1, UnwindKeeps, LabelTable
<1>4. CASE /\ MayAttach(t)
           /\ alive' = alive \cup {c}
           /\ unborn' = unborn \ {c}
           /\ inside' = inside \cup {c}
           /\ group' = [group EXCEPT ![c] = leader]
           /\ pending' = IF leader = c /\ t \in delayed THEN pending \cup {c} ELSE pending
           /\ tif' = IF leader \in pending' THEN tif \cup {c} ELSE tif
           /\ due' = IF leader = c /\ t \in owed THEN due \cup {c} ELSE due
           /\ listed' = listed \ {t}
           /\ delayed' = delayed \ {t}
           /\ owed' = owed \ {t}
           /\ fork' = [fork EXCEPT ![t] = NoFork]
           /\ held' = [held EXCEPT ![t] = NoneHeld]
           /\ fpc' = [fpc EXCEPT ![t] = "user"]
  <2>1. /\ c \in ForkTasks \ alive /\ leader \in ForkTasks /\ c # t
        /\ leader \in alive' /\ (leader # c => leader = group[t] /\ t \in inside)
        /\ t \notin killed /\ adding
    BY <1>1, <1>2, <1>4, ZenonT(60) DEF MayAttach, ForkInv, GroupsOK
  <2> HIDE DEF c, leader
  <2>2. group'[c] = leader /\ \A u \in ForkTasks \ {c} : group'[u] = group[u]
    BY <1>1, <1>4, <2>1, ZenonT(60)
  <2>3. /\ fpc'[t] = "user" /\ fork'[t] = NoFork /\ held'[t] = NoneHeld
        /\ \A u \in ForkTasks \ {t} : fpc'[u] = fpc[u] /\ fork'[u] = fork[u] /\ held'[u] = held[u]
    BY <1>1, <1>4, ZenonT(60)
  <2>4. fpc' \in [ForkTasks -> FPCs] /\ held' \in [ForkTasks -> [Resources -> Int]]
    BY <1>1, <1>4, NothingHeld DEF FPCs
  <2>5. fork' \in [ForkTasks -> ForkRecs(unborn')]
    <3>1. \A u \in ForkTasks \ {t} : fork[u].child # c
      BY <1>2, <2>1, ForkAssumption, ZenonT(60) DEF ForkInv, ChildrenApart, c
    <3>2. \A u \in ForkTasks : fork'[u] \in ForkRecs(unborn')
      BY <1>1, <1>4, <2>3, <3>1 DEF ForkRecs, NoFork
    <3> QED
      BY <1>1, <1>4, <3>2, ZenonT(60)
  <2>6. Leaders \subseteq Leaders' /\ leader \in Leaders'
    BY <1>4, <2>1, <2>2 DEF Leaders, ForkInv, ForkTypeOK
  <2>7. ForkTypeOK'
    <3>1. listed' \subseteq {u \in alive' : fork'[u].kind \in {"process", "pidfd"}}
      BY <1>4, <2>3, ZenonT(60) DEF ForkInv, ForkTypeOK
    <3>2. inside' \subseteq alive' /\ alive' \subseteq ForkTasks /\ unborn' \subseteq ForkTasks \ alive'
      BY <1>1, <1>4, <2>1 DEF ForkInv, ForkTypeOK
    <3>3. delayed' \subseteq listed' /\ owed' \subseteq alive' /\ tif' \subseteq alive' /\ killed' \subseteq alive'
      BY <1>2, <1>4, ZenonT(60) DEF ForkInv, ForkTypeOK
    <3>4. pending' \subseteq Leaders' /\ due' \subseteq Leaders'
      BY <1>4, <2>6, ZenonT(60) DEF ForkInv, ForkTypeOK
    <3>5. group' \in [ForkTasks -> ForkTasks]
      BY <1>1, <1>4, <2>1, ZenonT(60)
    <3>6. adding' \in BOOLEAN /\ zapped' \in BOOLEAN
      BY <1>2, ZenonT(60) DEF ForkInv, ForkTypeOK
    <3> QED
      BY <2>4, <2>5, <3>1, <3>2, <3>3, <3>4, <3>5, <3>6, ZenonT(60) DEF ForkTypeOK, FPCs, ForkRecs
  <2>8. ForksOK'
    BY <1>4, <2>3 DEF ForkInv, ForksOK, Making
  <2>9. ChildrenApart'
    BY <2>3 DEF ForkInv, ChildrenApart, NoFork
  <2>10. HeldExact'
    <3>1. Holds(t, held[t], From(fpc[t]))'
      <4>1. Holds(t, NoneHeld, 20)'
        BY NothingHeld, ZenonT(60)
      <4>2. From(fpc[t])' = 20
        BY <2>3 DEF From
      <4> QED
        BY <2>3, <4>1, <4>2, ZenonT(60) DEF Holds
    <3>2. ASSUME NEW u \in ForkTasks \ {t}, fpc'[u] # "user" \/ u \notin listed'
          PROVE  Holds(u, held[u], From(fpc[u]))'
      BY <1>4, <2>3, <3>2, OthersHold, ZenonT(60)
    <3> QED
      BY <3>1, <3>2 DEF HeldExact
  <2>11. alive \subseteq ForkTasks /\ killed \subseteq alive /\ GroupsOK /\ KillReachesGroup
    BY ZenonT(60) DEF ForkInv, ForkTypeOK
  <2>12. GroupsOK'
    <3>1. \A u \in alive' : group'[u] \in alive'
      BY <1>4, <2>1, <2>2, <2>11 DEF GroupsOK
    <3>2. ASSUME NEW u \in alive', NEW v \in alive', group'[u] = group'[v], u \in inside'
          PROVE  v \in inside'
      BY <1>2, <1>4, <2>1, <2>2, <2>11, <3>2 DEF GroupsOK
    <3> QED
      BY <3>1, <3>2, ZenonT(60) DEF GroupsOK
  <2>13. KillReachesGroup'
    <3> SUFFICES ASSUME NEW u \in alive', NEW v \in alive', group'[u] = group'[v], u \in killed'
                 PROVE  v \in killed'
      BY ZenonT(60) DEF KillReachesGroup
    <3>1. u \in alive /\ u \in killed /\ u # c
      BY <1>2, <2>1, <2>11, ZenonT(60)
    <3>2. CASE v # c
      BY <1>2, <1>4, <2>2, <2>11, <3>1, <3>2, ZenonT(60) DEF KillReachesGroup
    <3>3. CASE v = c
      <4>1. group[u] = leader /\ group[u] \in alive
        BY <2>2, <2>11, <3>1, <3>3, ZenonT(60) DEF GroupsOK
      <4>2. group[u] = group[t] /\ t \in alive
        BY <1>2, <2>1, <4>1, ZenonT(60)
      <4> QED
        BY <2>1, <2>11, <3>1, <4>2, ZenonT(60) DEF KillReachesGroup
    <3> QED
      BY <3>2, <3>3, ZenonT(60)
  <2>14. ZapAfterStop' /\ NamespaceEmpties'
    BY <1>2, <2>1, ZenonT(60) DEF ForkInv, ZapAfterStop, NamespaceEmpties
  <2>15. Collected' /\ SignalReachesProcesses'
    BY <1>4, ZenonT(60) DEF ForkInv, Collected, SignalReachesProcesses
  <2> QED
    BY <2>7, <2>8, <2>9, <2>10, <2>12, <2>13, <2>14, <2>15, ZenonT(60) DEF ForkInv
<1> QED
  BY <1>3, <1>4, ZenonT(60) DEF Attach

(* Signals, kills and the end of the namespace. *)
LEMMA EventKeeps ==
  ASSUME ForkInv,
         \/ SignalAll \/ (\E t \in ForkTasks : HandleSignal(t))
         \/ (\E g \in Leaders : KillGroup(g)) \/ StopAdding \/ ZapNamespace
  PROVE  ForkInv'
<1>1. UNCHANGED <<fpc, fork, held, alive, unborn, inside, group, listed>>
  BY DEF SignalAll, HandleSignal, KillGroup, StopAdding, ZapNamespace, forkVars, taskVars,
         delayVars
<1>2. ForksOK' /\ ChildrenApart' /\ GroupsOK'
  BY <1>1, ZenonT(60) DEF ForkInv, ForksOK, ChildrenApart, GroupsOK
<1>3. HeldExact'
  BY <1>1, OthersHold DEF HeldExact
<1>4. Leaders' = Leaders
  BY <1>1, ZenonT(60) DEF Leaders
<1>5. /\ pending' \subseteq Leaders /\ due' \subseteq Leaders
      /\ tif' \subseteq alive /\ killed' \subseteq alive
      /\ adding' \in BOOLEAN /\ zapped' \in BOOLEAN
      /\ delayed' \subseteq listed /\ owed' \subseteq alive
  BY ZenonT(60) DEF ForkInv, ForkTypeOK, ForksOK, SignalAll, HandleSignal, KillGroup, StopAdding,
         ZapNamespace, signalVars, killVars, delayVars
<1>6. ForkTypeOK'
  BY <1>1, <1>4, <1>5, ZenonT(60) DEF ForkInv, ForkTypeOK
<1>7. Collected'
  BY DEF ForkInv, ForkTypeOK, ForksOK, Collected, SignalAll, HandleSignal, KillGroup,
         StopAdding, ZapNamespace, delayVars
<1>8. SignalReachesProcesses'
  BY ZenonT(60) DEF ForkInv, SignalReachesProcesses, SignalAll, HandleSignal, KillGroup, StopAdding,
         ZapNamespace, signalVars
<1>9. ZapAfterStop' /\ NamespaceEmpties'
  BY DEF ForkInv, ZapAfterStop, NamespaceEmpties, SignalAll, HandleSignal, KillGroup,
         StopAdding, ZapNamespace, killVars, taskVars
<1>10. KillReachesGroup'
  <2>1. CASE SignalAll \/ (\E t \in ForkTasks : HandleSignal(t)) \/ StopAdding
    BY <1>1, <2>1, ZenonT(60) DEF ForkInv, KillReachesGroup, SignalAll, HandleSignal, StopAdding, killVars
  <2>2. CASE \E g \in Leaders : KillGroup(g)
    BY <1>1, <2>2, ZenonT(60) DEF ForkInv, KillReachesGroup, KillGroup
  <2>3. CASE ZapNamespace
    BY <1>1, <2>3 DEF ForkInv, KillReachesGroup, GroupsOK, ZapNamespace
  <2> QED
    BY <2>1, <2>2, <2>3
<1> QED
  BY <1>2, <1>3, <1>6, <1>7, <1>8, <1>9, <1>10, ZenonT(60) DEF ForkInv

\* Before the first fork the invariant holds.
LEMMA ForkInitially == ForkInit => ForkInv
<1> SUFFICES ASSUME ForkInit PROVE ForkInv
  OBVIOUS
<1>1. ForkTypeOK
  BY NothingHeld, ForkAssumption, ZenonT(60) DEF ForkInit, ForkTypeOK, NoFork, Leaders
<1>2. ForksOK /\ ChildrenApart /\ GroupsOK
  <2>1. ForksOK
    BY ZenonT(60) DEF ForkInit, ForksOK, Making
  <2>2. ChildrenApart
    BY ZenonT(60) DEF ForkInit, ChildrenApart, NoFork
  <2>3. GroupsOK
    BY ForkAssumption, ZenonT(60) DEF ForkInit, GroupsOK
  <2> QED
    BY <2>1, <2>2, <2>3, ZenonT(60)
<1>3. ZapAfterStop /\ Collected /\ KillReachesGroup /\ NamespaceEmpties /\ SignalReachesProcesses
  BY DEF ForkInit, ZapAfterStop, Collected, KillReachesGroup, NamespaceEmpties,
         SignalReachesProcesses
<1>4. HeldExact
  BY NothingHeld DEF ForkInit, HeldExact, From
<1> QED
  BY <1>1, <1>2, <1>3, <1>4 DEF ForkInv

(* ForkInv is an inductive invariant of copy_process. *)
THEOREM ForkInvariance == ForkSpec => []ForkInv
<1>1. ForkInv /\ [ForkNext]_cpVars => ForkInv'
  <2> SUFFICES ASSUME ForkInv, [ForkNext]_cpVars PROVE ForkInv'
    BY ZenonT(60)
  <2>1. CASE UNCHANGED cpVars
    <3>1. /\ UNCHANGED <<fpc, fork, held, alive, unborn, inside, group, listed>>
          /\ UNCHANGED <<pending, tif, due, killed, adding, zapped, delayed, owed>>
      BY <2>1, ZenonT(60) DEF cpVars, forkVars, taskVars, signalVars, killVars, delayVars
    <3>2. HeldExact'
      BY <3>1, OthersHold, ZenonT(60) DEF HeldExact
    <3> QED
      BY <3>1, <3>2 DEF ForkInv, ForkTypeOK, Leaders, ForksOK, ChildrenApart, GroupsOK,
         ZapAfterStop, Collected, KillReachesGroup, NamespaceEmpties, SignalReachesProcesses
  <2>2. ASSUME NEW t \in ForkTasks,
               \/ \E kind \in {"thread", "process", "pidfd"} : CollectSignals(t, kind)
               \/ CheckSignals(t) \/ DupTask(t) \/ CheckLimits(t) \/ CopyResources(t)
               \/ AllocPid(t) \/ OpenPidfd(t) \/ AllocTables(t) \/ CanFork(t)
               \/ Attach(t) \/ ForkOut(t)
        PROVE  ForkInv'
    BY <2>2, CollectSignalsKeeps, CheckSignalsKeeps, DupTaskKeeps, CheckLimitsKeeps,
       CopyResourcesKeeps, AllocPidKeeps, OpenPidfdKeeps, AllocTablesKeeps, CanForkKeeps,
       AttachKeeps, ForkOutKeeps, ZenonT(60)
  <2> QED
    BY <2>1, <2>2, EventKeeps DEF ForkNext
<1> QED
  BY ForkInitially, <1>1, PTL DEF ForkSpec

(* Whatever fails in copy_process, and whatever other forks, signals and kills *)
(* do meanwhile, the labels undo exactly what the call acquired.               *)
THEOREM UnwindsExactly == ForkSpec => []UnwindExact
<1>1. ForkInv => UnwindExact
  <2> SUFFICES ASSUME ForkInv, NEW t \in ForkTasks, fpc[t] = "user", t \notin listed,
                      NEW r \in Resources \ KvTables
               PROVE  held[t][r] = 0
    BY ZenonT(60) DEF UnwindExact
  <2>1. PICK j \in 1 .. 19 : r = Labels[j].undo
    BY LabelTable DEF Resources
  <2>2. Holds(t, held[t], 20)
    BY DEF ForkInv, HeldExact, From
  <2> QED
    BY <2>1, <2>2 DEF Holds
<1> QED
  BY <1>1, ForkInvariance, PTL

(* A kill of the thread group, the end of the pid namespace and a signal to    *)
(* the process group reach the child of every fork under way.                  *)
THEOREM ChildrenReached == ForkSpec => []NoChildEscapes
<1>1. ForkInv => NoChildEscapes
  BY DEF ForkInv, NoChildEscapes
<1> QED
  BY <1>1, ForkInvariance, PTL

=============================================================================
