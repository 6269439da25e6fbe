---------------------------- MODULE TaskGraphProofs ----------------------------
(***************************************************************************)
(* Proofs about TaskGraph, for every set of tasks: no task runs early, no    *)
(* task waits for ever, and the loops implement the one-step plan.           *)
(***************************************************************************)
EXTENDS TaskGraph, FiniteSetTheorems, TLAPS

Elems(q) == {q[i] : i \in 1 .. Len(q)}
Distinct(q) == \A i, j \in 1 .. Len(q) : q[i] = q[j] => i = j

LEMMA AppendElems ==
  ASSUME NEW S, NEW q \in Seq(S), NEW x \in S
  PROVE  /\ Append(q, x) \in Seq(S)
         /\ Elems(Append(q, x)) = Elems(q) \cup {x}
         /\ x \notin Elems(q) /\ Distinct(q) => Distinct(Append(q, x))
<1> DEFINE r == Append(q, x)
<1>1. r \in Seq(S) /\ Len(r) = Len(q) + 1 /\ Len(q) \in Nat
  OBVIOUS
<1>2. /\ r[Len(q) + 1] = x
      /\ \A i \in 1 .. Len(q) : r[i] = q[i]
  OBVIOUS
<1> HIDE DEF r
<1>3. 1 .. Len(r) = (1 .. Len(q)) \cup {Len(q) + 1}
  BY <1>1
<1>4. Elems(r) = Elems(q) \cup {x}
  BY <1>2, <1>3 DEF Elems
<1>5. ASSUME x \notin Elems(q), Distinct(q) PROVE Distinct(r)
  BY <1>1, <1>2, <1>3, <1>5 DEF Elems, Distinct
<1>6. QED
  BY <1>1, <1>4, <1>5 DEF r

LEMMA TailElems ==
  ASSUME NEW S, NEW q \in Seq(S), q # <<>>, Distinct(q)
  PROVE  /\ Head(q) \in S
         /\ Tail(q) \in Seq(S)
         /\ Head(q) \in Elems(q)
         /\ Elems(Tail(q)) = Elems(q) \ {Head(q)}
         /\ Distinct(Tail(q))
<1> DEFINE r == Tail(q)
<1>1. /\ r \in Seq(S) /\ Head(q) \in S /\ Head(q) = q[1]
      /\ Len(q) \in Nat /\ Len(q) >= 1 /\ Len(r) = Len(q) - 1
      /\ \A i \in 1 .. Len(r) : r[i] = q[i + 1]
  OBVIOUS
<1> HIDE DEF r
<1>2. Head(q) \in Elems(q)
  BY <1>1 DEF Elems
<1>3. Distinct(r)
  BY <1>1 DEF Distinct
<1>4. Elems(r) \subseteq Elems(q) \ {Head(q)}
  <2> SUFFICES ASSUME NEW i \in 1 .. Len(r)
               PROVE  r[i] \in Elems(q) \ {Head(q)}
    BY DEF Elems
  <2>1. i + 1 \in 1 .. Len(q) /\ 1 \in 1 .. Len(q) /\ i + 1 # 1
    BY <1>1
  <2>2. QED
    BY <1>1, <2>1 DEF Elems, Distinct
<1>5. Elems(q) \ {Head(q)} \subseteq Elems(r)
  <2> SUFFICES ASSUME NEW i \in 1 .. Len(q), q[i] # q[1]
               PROVE  q[i] \in Elems(r)
    BY <1>1 DEF Elems
  <2>1. i - 1 \in 1 .. Len(r) /\ (i - 1) + 1 = i
    BY <1>1
  <2>2. q[i] = r[i - 1]
    BY <1>1, <2>1
  <2>3. QED
    BY <2>1, <2>2 DEF Elems
<1>6. QED
  BY <1>1, <1>2, <1>3, <1>4, <1>5 DEF r

\* The work list, in the words of the two lemmas above.
LEMMA QueueIs ==
  ASSUME TypeOK
  PROVE  /\ queue \in Seq(Nodes) /\ Distinct(queue)
         /\ Queued = Elems(queue) /\ Queued \subseteq Nodes
<1>1. queue \in Seq(Nodes)
  BY DEF TypeOK
<1>2. Distinct(queue)
  BY DEF TypeOK, Distinct
<1>3. Queued \subseteq Nodes
  BY <1>1 DEF Queued
<1>4. QED
  BY <1>1, <1>2, <1>3 DEF Queued, Elems

LEMMA NodesFinite ==
  /\ IsFiniteSet(Nodes)
  /\ Cardinality(Nodes) \in Nat
  /\ \A P \in SUBSET Nodes : /\ IsFiniteSet(P)
                             /\ Cardinality(P) \in 0 .. Cardinality(Nodes)
                             /\ Cardinality(P) = Cardinality(Nodes) => P = Nodes
<1>1. Nodes \subseteq Tasks
  BY DEF Nodes
<1>2. IsFiniteSet(Nodes)
  BY <1>1, TasksAssumption, FS_Subset
<1>3. ASSUME NEW P \in SUBSET Nodes
      PROVE  /\ IsFiniteSet(P)
             /\ Cardinality(P) \in 0 .. Cardinality(Nodes)
             /\ Cardinality(P) = Cardinality(Nodes) => P = Nodes
  BY <1>2, FS_Subset, FS_CardinalityType
<1>4. QED
  BY <1>2, <1>3, FS_CardinalityType

LEMMA InitHolds == Init => IInv
<1> SUFFICES ASSUME Init PROVE IInv
  OBVIOUS
<1>1. Nodes = {}
  BY DEF Init, Nodes
<1>2. Cardinality(Nodes) = 0
  BY <1>1, FS_EmptySet
<1>3. TypeOK
  BY <1>1, <1>2 DEF Init, TypeOK, Status
<1>4. NoneRunsEarly /\ SortInv /\ CascadeInv
  BY DEF Init, NoneRunsEarly, SortInv, CascadeInv
<1>5. GraphInv
  BY <1>1 DEF Init, GraphInv
<1>6. QED
  BY <1>3, <1>4, <1>5 DEF IInv

--------------------------------------------------------------------------------
(* The coordinator's calls that have no loop, and the start of those that do.   *)

LEMMA AddNodeKeeps ==
  ASSUME IInv, NEW t \in Tasks, AddNode(t)
  PROVE  IInv'
<1> USE DEF IInv
<1>d. PICK D \in SUBSET Tasks : deps' = [deps EXCEPT ![t] = D]
  BY DEF AddNode
<1>0. /\ Idle /\ phase = "building" /\ status[t] = "none"
      /\ status' = [status EXCEPT ![t] = "Pending"] /\ seen' = status'
      /\ UNCHANGED <<list, phase, call, queue, current, left, remaining, visited, failing>>
  BY DEF AddNode, loopVars
<1>1. Nodes' = Nodes \cup {t}
  BY <1>0 DEF TypeOK, Nodes
<1>2. Cardinality(Nodes') \in Nat /\ Cardinality(Nodes) <= Cardinality(Nodes')
  <2>1. IsFiniteSet(Nodes) /\ Cardinality(Nodes) \in Nat
    BY NodesFinite
  <2>2. Cardinality(Nodes \cup {t}) \in {Cardinality(Nodes), Cardinality(Nodes) + 1}
    BY <2>1, FS_AddElement
  <2>3. QED
    BY <1>1, <2>1, <2>2
<1>3. TypeOK'
  <2>1. queue' \in Seq(Nodes')
    <3>1. queue \in Seq(Nodes)
      BY DEF TypeOK
    <3>2. queue \in Seq(Nodes \cup {t})
      BY <3>1
    <3>3. QED
      BY <1>0, <1>1, <3>2
  <2>2. visited' \in 0 .. Cardinality(Nodes')
    BY <1>0, <1>2, NodesFinite DEF TypeOK
  <2>3. deps' \in [Tasks -> SUBSET Tasks] /\ status' \in [Tasks -> Status]
    BY <1>d, <1>0 DEF TypeOK, Status
  <2>4. QED
    BY <1>0, <1>1, <2>1, <2>2, <2>3 DEF TypeOK
<1>4. \A u \in Nodes' : status'[u] = "Pending"
  BY <1>0, <1>1 DEF GraphInv, TypeOK
<1>5. NoneRunsEarly'
  BY <1>3, <1>4 DEF NoneRunsEarly, TypeOK, Nodes
<1>6. SortInv' /\ CascadeInv'
  BY <1>0 DEF SortInv, CascadeInv, Idle
<1>7. GraphInv'
  BY <1>0, <1>4 DEF GraphInv
<1>8. QED
  BY <1>3, <1>5, <1>6, <1>7

LEMMA RefuseUnknownKeeps == IInv /\ RefuseUnknown => IInv'
<1> SUFFICES ASSUME IInv, RefuseUnknown PROVE IInv'
  OBVIOUS
<1> USE DEF IInv
<1>0. /\ Idle /\ phase = "building" /\ phase' = "refused"
      /\ UNCHANGED <<deps, status, seen, list, call, queue, current, left, remaining,
                     visited, failing>>
  BY DEF RefuseUnknown, loopVars
<1>1. UNCHANGED <<Nodes, Ready>>
  BY <1>0 DEF Nodes, Ready
<1>2. TypeOK' /\ NoneRunsEarly'
  BY <1>0, <1>1 DEF TypeOK, NoneRunsEarly
<1>3. SortInv' /\ CascadeInv'
  BY <1>0 DEF SortInv, CascadeInv, Idle
<1>4. GraphInv'
  BY <1>0, <1>1 DEF GraphInv
<1>5. QED
  BY <1>2, <1>3, <1>4

LEMMA ValidateKeeps == IInv /\ Validate => IInv'
<1> SUFFICES ASSUME IInv, Validate PROVE IInv'
  OBVIOUS
<1> USE DEF IInv
<1>0. /\ Idle /\ phase = "building" /\ ~Unknown
      /\ call' = "collect" /\ queue' = <<>> /\ left' = Nodes /\ remaining' = deps
      /\ visited' = 0
      /\ UNCHANGED <<deps, status, seen, list, phase, current, failing>>
  BY DEF Validate, graphVars
<1>1. UNCHANGED <<Nodes, Ready, Unknown>>
  BY <1>0 DEF Nodes, Ready, Unknown
<1>2. TypeOK'
  <2>1. queue' \in Seq(Nodes') /\ \A i, j \in 1 .. Len(queue') : queue'[i] = queue'[j] => i = j
    BY <1>0
  <2>2. visited' \in 0 .. Cardinality(Nodes')
    BY <1>0, <1>1, NodesFinite
  <2>3. QED
    BY <1>0, <1>1, <2>1, <2>2 DEF TypeOK
<1>3. NoneRunsEarly'
  BY <1>0 DEF NoneRunsEarly
<1>4. SortInv'
  <2>1. Queued' = {}
    BY <1>0 DEF Queued
  <2>2. QED
    BY <1>0, <1>1, <2>1 DEF SortInv
<1>5. CascadeInv'
  BY <1>0 DEF CascadeInv, Idle
<1>6. GraphInv'
  BY <1>0, <1>1 DEF GraphInv
<1>7. QED
  BY <1>2, <1>3, <1>4, <1>5, <1>6

LEMMA GetReadyTasksKeeps == IInv /\ GetReadyTasks => IInv'
<1> SUFFICES ASSUME IInv, GetReadyTasks PROVE IInv'
  OBVIOUS
<1> USE DEF IInv
<1>0. /\ Idle /\ phase = "valid" /\ list' = Ready
      /\ UNCHANGED <<deps, status, seen, phase, call, queue, current, left, remaining,
                     visited, failing>>
  BY DEF GetReadyTasks, loopVars
<1>1. UNCHANGED <<Nodes, Ready, Unknown>> /\ Ready \subseteq Nodes
  BY <1>0 DEF Nodes, Ready, Unknown
<1>2. TypeOK' /\ NoneRunsEarly'
  BY <1>0, <1>1 DEF TypeOK, NoneRunsEarly
<1>3. SortInv' /\ CascadeInv'
  BY <1>0 DEF SortInv, CascadeInv, Idle
<1>4. GraphInv'
  <2>1. UNCHANGED Plan!Acyclic
    BY <1>0 DEF Plan!Acyclic, Plan!Nodes, Plan!With
  <2>2. QED
    BY <1>0, <1>1, <2>1 DEF GraphInv
<1>5. QED
  BY <1>2, <1>3, <1>4

\* A task is marked while no loop runs: what the marking must respect.
LEMMA MarkKeeps ==
  ASSUME IInv, Idle, phase = "valid",
         NEW t \in Nodes, NEW s \in {"Running", "Succeeded"}, Mark(t, s),
         list' \subseteq list \ {t},
         status[t] = "Pending" => \A d \in deps[t] : status[d] = "Succeeded",
         status[t] \in {"Pending", "Running"},
         UNCHANGED <<deps, phase, loopVars>>
  PROVE  IInv'
<1> USE DEF IInv
<1>0. /\ status' = [status EXCEPT ![t] = s] /\ seen' = status' /\ seen = status
      /\ UNCHANGED <<deps, phase, call, queue, current, left, remaining, visited, failing>>
  BY DEF Mark, loopVars, CascadeInv, Idle
<1>1. /\ status \in [Tasks -> Status] /\ deps \in [Tasks -> SUBSET Tasks] /\ t \in Tasks
      /\ \A u \in Tasks : status'[u] = IF u = t THEN s ELSE status[u]
  BY <1>0 DEF TypeOK, Nodes
<1>2. UNCHANGED Nodes
  BY <1>0, <1>1 DEF Nodes
<1>3. TypeOK'
  <2>1. status' \in [Tasks -> Status]
    BY <1>0, <1>1 DEF Status
  <2>2. list' \subseteq Nodes'
    BY <1>2 DEF TypeOK
  <2>3. QED
    BY <1>0, <1>2, <2>1, <2>2 DEF TypeOK
<1>4. NoneRunsEarly'
  <2> SUFFICES ASSUME NEW u \in Tasks, status'[u] \in {"Running", "Succeeded", "Failed"},
                      NEW d \in deps[u]
               PROVE  status'[d] = "Succeeded"
    BY <1>0 DEF NoneRunsEarly
  <2>1. d \in Tasks
    BY <1>1
  <2>2. status[d] = "Succeeded"
    BY <1>1 DEF NoneRunsEarly
  <2>3. d # t
    BY <2>2
  <2>4. QED
    BY <1>1, <2>1, <2>2, <2>3
<1>5. SortInv' /\ CascadeInv'
  BY <1>0 DEF SortInv, CascadeInv, Idle
<1>6. list' \subseteq Ready'
  <2> SUFFICES ASSUME NEW u \in list' PROVE u \in Ready'
    OBVIOUS
  <2>1. u \in Ready /\ u # t /\ u \in Tasks
    BY DEF GraphInv, Ready, Nodes
  <2>2. \A d \in deps[u] : d \in Tasks /\ d # t /\ status[d] = "Succeeded"
    BY <1>1, <2>1 DEF Ready
  <2>3. QED
    BY <1>0, <1>1, <1>2, <2>1, <2>2 DEF Ready
<1>7. UNCHANGED Plan!Acyclic
  <2>1. UNCHANGED Plan!Nodes
    BY <1>0, <1>1 DEF Plan!Nodes, Plan!With
  <2>2. QED
    BY <1>0, <2>1 DEF Plan!Acyclic
<1>8. GraphInv'
  <2>1. ~Unknown'
    BY <1>0, <1>2 DEF GraphInv, Unknown
  <2>2. ASSUME NEW u \in Nodes, seen'[u] = "Pending", NEW d \in deps[u]
        PROVE  seen'[d] \notin {"Failed", "Cancelled"}
    <3>1. u \in Tasks /\ d \in Tasks /\ u # t /\ seen[u] = "Pending"
      BY <1>0, <1>1, <2>2 DEF Nodes
    <3>2. seen[d] \notin {"Failed", "Cancelled"}
      BY <2>2, <3>1 DEF GraphInv
    <3>3. QED
      BY <1>0, <1>1, <3>1, <3>2
  <2>3. QED
    BY <1>0, <1>2, <1>6, <1>7, <2>1, <2>2 DEF GraphInv
<1>9. QED
  BY <1>3, <1>4, <1>5, <1>8

LEMMA MarkRunningKeeps ==
  ASSUME IInv, NEW t \in Tasks, MarkRunning(t)
  PROVE  IInv'
<1>1. t \in Ready /\ t \in list /\ phase = "valid"
  BY DEF IInv, GraphInv, MarkRunning
<1>2. /\ t \in Nodes /\ status[t] = "Pending"
      /\ \A d \in deps[t] : status[d] = "Succeeded"
  BY <1>1 DEF Ready
<1>3. /\ Idle /\ list' = list \ {t} /\ Mark(t, "Running") /\ UNCHANGED <<deps, phase, loopVars>>
  BY DEF MarkRunning
<1>4. QED
  BY <1>1, <1>2, <1>3, MarkKeeps

LEMMA MarkSucceededKeeps ==
  ASSUME IInv, NEW t \in Tasks, MarkSucceeded(t)
  PROVE  IInv'
<1>1. /\ Idle /\ status[t] = "Running" /\ Mark(t, "Succeeded")
      /\ UNCHANGED <<deps, list, phase, loopVars>>
  BY DEF MarkSucceeded
<1>2. t \in Nodes
  BY <1>1 DEF Nodes
<1>3. phase = "valid" /\ t \notin list
  BY <1>1, <1>2 DEF IInv, GraphInv, Ready
<1>4. QED
  BY <1>1, <1>2, <1>3, MarkKeeps

--------------------------------------------------------------------------------
(* The loops of validate.  They leave the graph as it is.                       *)

LEMMA LoopKeepsGraph ==
  ASSUME IInv, UNCHANGED graphVars, call # "cascade", call' # "cascade"
  PROVE  /\ UNCHANGED <<Nodes, Ready, Unknown>>
         /\ NoneRunsEarly' /\ CascadeInv' /\ GraphInv'
<1> USE DEF IInv
<1>0. UNCHANGED <<deps, status, seen, list, phase>>
  BY DEF graphVars
<1>1. UNCHANGED <<Nodes, Ready, Unknown>>
  BY <1>0 DEF Nodes, Ready, Unknown
<1>2. UNCHANGED Plan!Acyclic
  BY <1>0 DEF Plan!Acyclic, Plan!Nodes, Plan!With
<1>3. NoneRunsEarly' /\ CascadeInv'
  BY <1>0 DEF NoneRunsEarly, CascadeInv
<1>4. GraphInv'
  BY <1>0, <1>1, <1>2 DEF GraphInv
<1>5. QED
  BY <1>1, <1>3, <1>4

LEMMA CollectKeeps ==
  ASSUME IInv, NEW t \in Tasks, Collect(t)
  PROVE  IInv'
<1> USE DEF IInv
<1>0. /\ call = "collect" /\ t \in left /\ left' = left \ {t}
      /\ queue' = IF deps[t] = {} THEN Append(queue, t) ELSE queue
      /\ UNCHANGED <<deps, status, phase, call, current, remaining, visited, failing>>
      /\ UNCHANGED <<seen, list>>
  BY DEF Collect, graphVars
<1>1. /\ UNCHANGED <<Nodes, Ready, Unknown>>
      /\ NoneRunsEarly' /\ CascadeInv' /\ GraphInv'
  BY <1>0, LoopKeepsGraph DEF graphVars
<1>2. t \in Nodes /\ left \subseteq Nodes
  BY <1>0 DEF TypeOK
<1>3. Queued = {u \in Nodes \ left : deps[u] = {}}
  BY <1>0 DEF SortInv
<1>4. t \notin Queued
  BY <1>0, <1>3
<1>5. /\ queue' \in Seq(Nodes) /\ Distinct(queue')
      /\ Elems(queue') = {u \in Nodes \ left' : deps[u] = {}}
  <2>1. CASE deps[t] = {}
    <3>1. queue' = Append(queue, t)
      BY <1>0, <2>1
    <3>2. /\ queue' \in Seq(Nodes) /\ Distinct(queue')
          /\ Elems(queue') = Queued \cup {t}
      BY <3>1, <1>2, <1>4, QueueIs, AppendElems
    <3>3. QED
      BY <3>2, <1>0, <1>2, <1>3, <2>1
  <2>2. CASE deps[t] # {}
    <3>1. queue' = queue
      BY <1>0, <2>2
    <3>2. QED
      BY <3>1, <1>0, <1>2, <1>3, <2>2, QueueIs
  <2>3. QED
    BY <2>1, <2>2
<1>6. TypeOK'
  BY <1>0, <1>1, <1>5 DEF TypeOK, Distinct
<1>7. SortInv'
  BY <1>0, <1>1, <1>5 DEF SortInv, Elems, Queued
<1>8. QED
  BY <1>1, <1>6, <1>7

LEMMA CollectedKeeps == IInv /\ Collected => IInv'
<1> SUFFICES ASSUME IInv, Collected PROVE IInv'
  OBVIOUS
<1> USE DEF IInv
<1>0. /\ call = "collect" /\ left = {} /\ call' = "sort"
      /\ UNCHANGED <<deps, status, seen, list, phase, queue, current, left, remaining,
                     visited, failing>>
  BY DEF Collected, graphVars
<1>1. /\ UNCHANGED <<Nodes, Ready, Unknown>>
      /\ NoneRunsEarly' /\ CascadeInv' /\ GraphInv'
  BY <1>0, LoopKeepsGraph DEF graphVars
<1>2. TypeOK'
  BY <1>0, <1>1 DEF TypeOK
<1>3. /\ visited = 0 /\ remaining = deps /\ phase = "building" /\ ~Unknown
      /\ Queued = {t \in Nodes : deps[t] = {}}
  BY <1>0 DEF SortInv
<1>4. UNCHANGED <<Queued, Popped>> /\ Popped = {}
  BY <1>0, <1>1, <1>3 DEF Queued, Popped
<1>5. Cardinality(Popped) = 0
  BY <1>4, FS_EmptySet
<1>6. Rooted
  BY <1>3, <1>4 DEF Rooted
<1>7. Rooted'
  BY <1>0, <1>1, <1>4, <1>6 DEF Rooted
<1>8. \A t \in Nodes : remaining[t] = deps[t] \ {d \in Popped : t \in left => d # current}
  BY <1>3, <1>4
<1>9. SortInv'
  BY <1>0, <1>1, <1>3, <1>4, <1>5, <1>7, <1>8 DEF SortInv
<1>10. QED
  BY <1>1, <1>2, <1>9

LEMMA NextTaskKeeps == IInv /\ NextTask => IInv'
<1> SUFFICES ASSUME IInv, NextTask PROVE IInv'
  OBVIOUS
<1> USE DEF IInv
<1> DEFINE h == Head(queue)
<1>0. /\ call = "sort" /\ left = {} /\ queue # <<>>
      /\ current' = h /\ queue' = Tail(queue) /\ visited' = visited + 1 /\ left' = Nodes
      /\ UNCHANGED <<deps, status, seen, list, phase, call, remaining, failing>>
  BY DEF NextTask, graphVars
<1>1. /\ UNCHANGED <<Nodes, Ready, Unknown>>
      /\ NoneRunsEarly' /\ CascadeInv' /\ GraphInv'
  BY <1>0, LoopKeepsGraph DEF graphVars
<1>2. /\ h \in Nodes /\ h \in Queued
      /\ queue' \in Seq(Nodes) /\ Distinct(queue') /\ Elems(queue') = Queued \ {h}
  BY <1>0, QueueIs, TailElems
<1> HIDE DEF h
<1>3. Queued' = Queued \ {h}
  BY <1>2 DEF Queued, Elems
<1>4. /\ \A t \in Queued : remaining[t] = {}
      /\ visited = Cardinality(Popped) /\ Rooted /\ phase = "building" /\ ~Unknown
      /\ \A t \in Nodes : remaining[t] = deps[t] \ Popped
  BY <1>0 DEF SortInv
<1>5. Popped' = Popped \cup {h} /\ h \notin Popped
  BY <1>0, <1>1, <1>2, <1>3, <1>4 DEF Popped
<1>6. Popped \in SUBSET Nodes /\ Popped' \in SUBSET Nodes
  BY <1>2, <1>5 DEF Popped
<1>7. Cardinality(Popped') = visited + 1 /\ visited + 1 \in 0 .. Cardinality(Nodes)
  <2>1. IsFiniteSet(Popped)
    BY <1>6, NodesFinite
  <2>2. Cardinality(Popped \cup {h}) = Cardinality(Popped) + 1
    BY <2>1, <1>5, FS_AddElement
  <2>3. Cardinality(Popped') \in 0 .. Cardinality(Nodes)
    BY <1>6, NodesFinite
  <2>4. QED
    BY <1>4, <1>5, <2>2, <2>3
<1>8. TypeOK'
  BY <1>0, <1>1, <1>2, <1>7 DEF TypeOK, Distinct, Nodes
<1>9. Rooted'
  <2>1. Popped' \cup Queued' = Popped \cup Queued
    BY <1>2, <1>3, <1>5
  <2>2. QED
    BY <1>0, <1>1, <1>4, <2>1 DEF Rooted
<1>10. ASSUME NEW t \in Nodes
       PROVE  remaining'[t] = deps'[t] \ {d \in Popped' : t \in left' => d # current'}
  <2>1. {d \in Popped' : t \in left' => d # current'} = Popped
    BY <1>0, <1>5
  <2>2. QED
    BY <1>0, <1>4, <2>1
<1>11. SortInv'
  BY <1>0, <1>1, <1>3, <1>4, <1>5, <1>7, <1>9, <1>10 DEF SortInv
<1>12. QED
  BY <1>1, <1>8, <1>11

LEMMA ReleaseKeeps ==
  ASSUME IInv, NEW t \in Tasks, Release(t)
  PROVE  IInv'
<1> USE DEF IInv
<1>0. /\ call = "sort" /\ t \in left /\ left' = left \ {t}
      /\ remaining' = [remaining EXCEPT ![t] = @ \ {current}]
      /\ queue' = IF remaining[t] # {} /\ remaining[t] \subseteq {current}
                  THEN Append(queue, t) ELSE queue
      /\ UNCHANGED <<deps, status, seen, list, phase, call, current, visited, failing>>
  BY DEF Release, graphVars
<1>1. /\ UNCHANGED <<Nodes, Ready, Unknown>>
      /\ NoneRunsEarly' /\ CascadeInv' /\ GraphInv'
  BY <1>0, LoopKeepsGraph DEF graphVars
<1>2. t \in Nodes /\ left \subseteq Nodes
  BY <1>0 DEF TypeOK
<1>3. /\ \A u \in Queued : remaining[u] = {}
      /\ visited = Cardinality(Popped) /\ current \in Popped /\ Rooted
      /\ phase = "building" /\ ~Unknown
      /\ \A u \in Nodes : remaining[u] = deps[u] \ {d \in Popped : u \in left => d # current}
  BY <1>0 DEF SortInv
<1>4. \A u \in Tasks : remaining'[u] = IF u = t THEN remaining[t] \ {current} ELSE remaining[u]
  BY <1>0 DEF TypeOK
<1>5. /\ queue' \in Seq(Nodes) /\ Distinct(queue')
      /\ Elems(queue') = IF remaining[t] # {} /\ remaining[t] \subseteq {current}
                         THEN Queued \cup {t} ELSE Queued
  <2>1. CASE remaining[t] # {} /\ remaining[t] \subseteq {current}
    <3>1. queue' = Append(queue, t) /\ t \notin Queued
      BY <1>0, <1>3, <2>1
    <3>2. /\ queue' \in Seq(Nodes) /\ Distinct(queue') /\ Elems(queue') = Queued \cup {t}
      BY <3>1, <1>2, QueueIs, AppendElems
    <3>3. QED
      BY <3>2, <2>1
  <2>2. CASE ~(remaining[t] # {} /\ remaining[t] \subseteq {current})
    BY <1>0, <2>2, QueueIs
  <2>3. QED
    BY <2>1, <2>2
<1>6. Queued' = IF remaining[t] # {} /\ remaining[t] \subseteq {current}
                THEN Queued \cup {t} ELSE Queued
  BY <1>5 DEF Queued, Elems
<1>7. Popped' = Popped
  <2> SUFFICES ASSUME NEW u \in Nodes
               PROVE  remaining'[u] = {} /\ u \notin Queued'
                        <=> remaining[u] = {} /\ u \notin Queued
    BY <1>1 DEF Popped
  <2>1. u \in Tasks
    BY DEF Nodes
  <2>2. CASE u # t
    BY <1>4, <1>6, <2>1, <2>2
  <2>3. CASE u = t
    BY <1>3, <1>4, <1>6, <2>1, <2>3
  <2>4. QED
    BY <2>2, <2>3
<1>8. TypeOK'
  <2>1. remaining' \in [Tasks -> SUBSET Tasks]
    BY <1>0 DEF TypeOK
  <2>2. QED
    BY <1>0, <1>1, <1>5, <2>1 DEF TypeOK, Distinct
<1>9. ASSUME NEW u \in Nodes
      PROVE  remaining'[u] = deps'[u] \ {d \in Popped' : u \in left' => d # current'}
  <2>1. u \in Tasks
    BY DEF Nodes
  <2>2. CASE u = t
    <3>1. {d \in Popped' : u \in left' => d # current'} = Popped
      BY <1>0, <1>7, <2>2
    <3>2. {d \in Popped : u \in left => d # current} = Popped \ {current}
      BY <1>0, <2>2
    <3>3. QED
      BY <1>0, <1>3, <1>4, <2>1, <2>2, <3>1, <3>2
  <2>3. CASE u # t
    BY <1>0, <1>3, <1>4, <1>7, <2>1, <2>3
  <2>4. QED
    BY <2>2, <2>3
<1>10. \A u \in Queued' : remaining'[u] = {}
  <2> SUFFICES ASSUME NEW u \in Queued' PROVE remaining'[u] = {}
    OBVIOUS
  <2>1. u \in Tasks
    BY <1>2, <1>6, QueueIs DEF Nodes
  <2>2. QED
    BY <1>3, <1>4, <1>6, <2>1
<1>11. Rooted'
  <2> SUFFICES ASSUME NEW S \in SUBSET Nodes, S \cap (Popped \cup Queued') # {}
               PROVE  \E u \in S : deps[u] \cap S = {}
    BY <1>0, <1>1, <1>7 DEF Rooted
  <2>1. CASE S \cap (Popped \cup Queued) # {}
    BY <1>3, <2>1 DEF Rooted
  <2>2. CASE S \cap (Popped \cup Queued) = {}
    <3>1. t \in S /\ remaining[t] \subseteq {current}
      BY <1>6, <2>2
    <3>2. deps[t] \subseteq Popped
      BY <1>0, <1>2, <1>3, <3>1
    <3>3. QED
      BY <2>2, <3>1, <3>2
  <2>3. QED
    BY <2>1, <2>2
<1>12. SortInv'
  BY <1>0, <1>1, <1>3, <1>7, <1>9, <1>10, <1>11 DEF SortInv
<1>13. QED
  BY <1>1, <1>8, <1>12

\* The plan sees the tasks of the graph.
LEMMA PlanNodes == TypeOK /\ CascadeInv => Plan!Nodes = Nodes
<1> SUFFICES ASSUME TypeOK, CascadeInv PROVE Plan!Nodes = Nodes
  OBVIOUS
<1>1. Plan!Nodes = {t \in Tasks : seen[t] # "none"}
  BY DEF Plan!Nodes, Plan!With
<1>2. ASSUME NEW t \in Tasks PROVE seen[t] # "none" <=> status[t] # "none"
  <2>1. CASE call # "cascade"
    BY <2>1 DEF CascadeInv
  <2>2. CASE call = "cascade"
    BY <2>2 DEF CascadeInv, Cancelled
  <2>3. QED
    BY <2>1, <2>2
<1>3. QED
  BY <1>1, <1>2 DEF Nodes

\* Kahn's algorithm: at its end, it has popped every task exactly when no group of
\* tasks waits for itself.
LEMMA SortDecides ==
  ASSUME IInv, call = "sort", left = {}, queue = <<>>
  PROVE  visited = Cardinality(Nodes) <=> Plan!Acyclic
<1> USE DEF IInv
<1>1. /\ ~Unknown /\ Rooted /\ visited = Cardinality(Popped)
      /\ \A t \in Nodes : remaining[t] = deps[t] \ Popped
  BY DEF SortInv
<1>2. Queued = {} /\ Popped \in SUBSET Nodes
  BY DEF Queued, Popped
<1>3. Plan!Nodes = Nodes
  BY PlanNodes
<1>4. ASSUME visited = Cardinality(Nodes) PROVE Plan!Acyclic
  <2>1. Popped = Nodes
    BY <1>1, <1>2, <1>4, NodesFinite
  <2>2. QED
    BY <1>1, <1>3, <2>1 DEF Rooted, Plan!Acyclic
<1>5. ASSUME Plan!Acyclic PROVE visited = Cardinality(Nodes)
  <2> DEFINE S == Nodes \ Popped
  <2>1. ASSUME NEW t \in S PROVE deps[t] \cap S # {}
    <3>1. remaining[t] # {}
      BY <1>2 DEF Popped
    <3>2. PICK d \in deps[t] : d \notin Popped
      BY <1>1, <3>1
    <3>3. d \in Nodes
      BY <1>1 DEF Unknown
    <3>4. QED
      BY <3>2, <3>3
  <2>2. S = {}
    BY <1>3, <1>5, <2>1 DEF Plan!Acyclic
  <2>3. Popped = Nodes
    BY <1>2, <2>2
  <2>4. QED
    BY <1>1, <2>3
<1>6. QED
  BY <1>4, <1>5

LEMMA ValidatedKeeps == IInv /\ Validated => IInv'
<1> SUFFICES ASSUME IInv, Validated PROVE IInv'
  OBVIOUS
<1> USE DEF IInv
<1>0. /\ call = "sort" /\ left = {} /\ queue = <<>> /\ call' = "none"
      /\ phase' = IF visited = Cardinality(Nodes) THEN "valid" ELSE "refused"
      /\ UNCHANGED <<deps, status, seen, list, queue, current, left, remaining, visited,
                     failing>>
  BY DEF Validated
<1>1. UNCHANGED <<Nodes, Ready, Unknown>>
  BY <1>0 DEF Nodes, Ready, Unknown
<1>2. UNCHANGED Plan!Acyclic
  BY <1>0 DEF Plan!Acyclic, Plan!Nodes, Plan!With
<1>3. TypeOK' /\ NoneRunsEarly'
  BY <1>0, <1>1 DEF TypeOK, NoneRunsEarly
<1>4. SortInv' /\ CascadeInv'
  BY <1>0 DEF SortInv, CascadeInv
<1>5. /\ phase = "building" /\ ~Unknown /\ list = {} /\ seen = status
      /\ \A t \in Nodes : status[t] = "Pending"
  BY <1>0 DEF SortInv, GraphInv, CascadeInv
<1>6. phase' = "valid" => Plan!Acyclic
  BY <1>0, SortDecides
<1>7. ASSUME NEW t \in Nodes, NEW d \in deps[t] PROVE seen[d] \notin {"Failed", "Cancelled"}
  <2>1. d \in Nodes
    BY <1>5 DEF Unknown
  <2>2. QED
    BY <1>5, <2>1
<1>8. GraphInv'
  BY <1>0, <1>1, <1>2, <1>5, <1>6, <1>7 DEF GraphInv
<1>9. QED
  BY <1>3, <1>4, <1>8

--------------------------------------------------------------------------------
(* The loop of mark_failed.                                                     *)

LEMMA MarkFailedKeeps ==
  ASSUME IInv, NEW t \in Tasks, MarkFailed(t)
  PROVE  IInv'
<1> USE DEF IInv
<1>0. /\ Idle /\ status[t] = "Running" /\ status' = [status EXCEPT ![t] = "Failed"]
      /\ call' = "cascade" /\ queue' = <<t>> /\ left' = {} /\ failing' = t
      /\ UNCHANGED <<deps, seen, list, phase, current, remaining, visited>>
  BY DEF MarkFailed
<1>1. seen = status /\ t \in Nodes
  BY <1>0 DEF CascadeInv, Idle, Nodes
<1>2. /\ status \in [Tasks -> Status] /\ deps \in [Tasks -> SUBSET Tasks]
      /\ \A u \in Tasks : status'[u] = IF u = t THEN "Failed" ELSE status[u]
  BY <1>0 DEF TypeOK
<1>3. UNCHANGED <<Nodes, Unknown>>
  BY <1>0, <1>1, <1>2 DEF Nodes, Unknown
<1>4. TypeOK'
  <2>1. status' \in [Tasks -> Status]
    BY <1>0, <1>2 DEF Status
  <2>2. queue' \in Seq(Nodes') /\ \A i, j \in 1 .. Len(queue') : queue'[i] = queue'[j] => i = j
    BY <1>0, <1>1, <1>3
  <2>3. QED
    BY <1>0, <1>3, <2>1, <2>2 DEF TypeOK
<1>5. ASSUME NEW u \in Tasks, status[u] \in {"Pending", "Running", "Succeeded", "Failed"},
             NEW d \in deps[u], status[d] = "Succeeded"
      PROVE  d \in Tasks /\ status'[d] = "Succeeded"
  BY <1>0, <1>2, <1>5
<1>6. NoneRunsEarly'
  <2> SUFFICES ASSUME NEW u \in Tasks, status'[u] \in {"Running", "Succeeded", "Failed"},
                      NEW d \in deps[u]
               PROVE  status'[d] = "Succeeded"
    BY <1>0 DEF NoneRunsEarly
  <2>1. status[u] \in {"Running", "Succeeded", "Failed"}
    BY <1>0, <1>2
  <2>2. QED
    BY <1>5, <2>1 DEF NoneRunsEarly
<1>7. SortInv'
  BY <1>0 DEF SortInv
<1>8. phase = "valid"
  BY <1>0, <1>1 DEF GraphInv
<1>9. CascadeInv'
  <2>1. Cancelled' = {}
    BY <1>0, <1>1, <1>2 DEF Cancelled, Nodes
  <2>2. Queued' = {t}
    BY <1>0 DEF Queued
  <2>3. t \in Nodes' /\ seen'[t] = "Running" /\ status'[t] = "Failed"
    BY <1>0, <1>1, <1>2, <1>3
  <2>4. \A u \in Tasks \ {t} : status'[u] = seen'[u]
    BY <1>0, <1>1, <1>2
  <2>5. QED
    BY <1>0, <1>8, <2>1, <2>2, <2>3, <2>4 DEF CascadeInv
<1>10. GraphInv'
  <2>1. UNCHANGED Plan!Acyclic
    BY <1>0 DEF Plan!Acyclic, Plan!Nodes, Plan!With
  <2>2. list' \subseteq Ready'
    <3> SUFFICES ASSUME NEW u \in list PROVE u \in Ready'
      BY <1>0
    <3>1. u \in Nodes /\ status[u] = "Pending" /\ \A d \in deps[u] : status[d] = "Succeeded"
      BY DEF GraphInv, Ready
    <3>2. u \in Tasks /\ u # t
      BY <1>0, <3>1 DEF Nodes
    <3>3. status'[u] = "Pending" /\ \A d \in deps[u] : status'[d] = "Succeeded"
      BY <1>2, <1>5, <3>1, <3>2
    <3>4. QED
      BY <1>0, <1>3, <3>1, <3>3 DEF Ready
  <2>3. QED
    BY <1>0, <1>3, <1>8, <2>1, <2>2 DEF GraphInv
<1>11. QED
  BY <1>4, <1>6, <1>7, <1>9, <1>10

LEMMA NextParentKeeps == IInv /\ NextParent => IInv'
<1> SUFFICES ASSUME IInv, NextParent PROVE IInv'
  OBVIOUS
<1> USE DEF IInv
<1> DEFINE h == Head(queue)
<1>0. /\ call = "cascade" /\ left = {} /\ queue # <<>>
      /\ current' = h /\ queue' = Tail(queue) /\ left' = Nodes
      /\ UNCHANGED <<deps, status, seen, list, phase, call, remaining, visited, failing>>
  BY DEF NextParent, graphVars
<1>1. UNCHANGED <<Nodes, Ready, Unknown, Cancelled>>
  BY <1>0 DEF Nodes, Ready, Unknown, Cancelled
<1>2. /\ h \in Nodes /\ h \in Queued
      /\ queue' \in Seq(Nodes) /\ Distinct(queue') /\ Elems(queue') = Queued \ {h}
  BY <1>0, QueueIs, TailElems
<1> HIDE DEF h
<1>3. Queued' = Queued \ {h}
  BY <1>2 DEF Queued, Elems
<1>4. TypeOK' /\ NoneRunsEarly'
  BY <1>0, <1>1, <1>2 DEF TypeOK, Distinct, Nodes, NoneRunsEarly
<1>5. SortInv'
  BY <1>0 DEF SortInv
<1>6. CascadeInv'
  <2>1. UNCHANGED Plan!With("Pending")
    BY <1>0 DEF Plan!With
  <2>2. \A S : Plan!Closed(failing, S)' = Plan!Closed(failing, S)
    BY <1>0, <2>1 DEF Plan!Closed
  <2>3. \A S \in SUBSET Plan!With("Pending")' : Plan!Closed(failing, S)' => Cancelled' \subseteq S
    BY <1>0, <1>1, <2>1, <2>2 DEF CascadeInv
  <2>4. QED
    BY <1>0, <1>1, <1>2, <1>3, <2>3 DEF CascadeInv
<1>7. GraphInv'
  <2>1. UNCHANGED Plan!Acyclic
    BY <1>0 DEF Plan!Acyclic, Plan!Nodes, Plan!With
  <2>2. QED
    BY <1>0, <1>1, <2>1 DEF GraphInv
<1>8. QED
  BY <1>4, <1>5, <1>6, <1>7

LEMMA CancelKeeps ==
  ASSUME IInv, NEW t \in Tasks, Cancel(t)
  PROVE  IInv'
<1> USE DEF IInv
<1>0. /\ call = "cascade" /\ t \in left /\ left' = left \ {t}
      /\ UNCHANGED <<deps, seen, list, phase, call, current, remaining, visited, failing>>
  BY DEF Cancel
<1>1. /\ phase = "valid"
      /\ failing \in Nodes /\ seen[failing] = "Running" /\ status[failing] = "Failed"
      /\ \A u \in Tasks \ {failing} : status[u] = seen[u] \/ u \in Cancelled
      /\ Queued \subseteq Cancelled \cup {failing}
      /\ current \in Cancelled \cup {failing}
      /\ \A q \in (Cancelled \cup {failing}) \ Queued, u \in Nodes :
           q \in deps[u] /\ seen[u] = "Pending" => u \in Cancelled \/ (q = current /\ u \in left)
      /\ \A S \in SUBSET Plan!With("Pending") : Plan!Closed(failing, S) => Cancelled \subseteq S
  BY <1>0 DEF CascadeInv
<1>2. t \in Nodes /\ status \in [Tasks -> Status] /\ deps \in [Tasks -> SUBSET Tasks]
  BY <1>0 DEF TypeOK
<1>3. UNCHANGED Plan!With("Pending")
  BY <1>0 DEF Plan!With
<1>4. \A S : Plan!Closed(failing, S)' = Plan!Closed(failing, S)
  BY <1>0, <1>3 DEF Plan!Closed
<1>5. UNCHANGED Plan!Acyclic
  BY <1>0 DEF Plan!Acyclic, Plan!Nodes, Plan!With
<1>6. SortInv'
  BY <1>0 DEF SortInv
<1>7. CASE current \in deps[t] /\ status[t] = "Pending"
  <2>1. status' = [status EXCEPT ![t] = "Cancelled"] /\ queue' = Append(queue, t)
    BY <1>7 DEF Cancel
  <2>2. \A u \in Tasks : status'[u] = IF u = t THEN "Cancelled" ELSE status[u]
    BY <1>2, <2>1
  <2>3. UNCHANGED <<Nodes, Unknown>>
    BY <1>0, <1>2, <2>2 DEF Nodes, Unknown
  <2>4. t # failing /\ seen[t] = "Pending" /\ t \notin Queued
    BY <1>1, <1>7 DEF Cancelled
  <2>5. /\ queue' \in Seq(Nodes) /\ Distinct(queue') /\ Elems(queue') = Queued \cup {t}
    BY <1>2, <2>1, <2>4, QueueIs, AppendElems
  <2>6. Queued' = Queued \cup {t}
    BY <2>5 DEF Queued, Elems
  <2>7. Cancelled' = Cancelled \cup {t}
    BY <1>0, <1>2, <2>2, <2>3, <2>4 DEF Cancelled, Nodes
  <2>8. TypeOK'
    <3>1. status' \in [Tasks -> Status]
      BY <1>2, <2>1 DEF Status
    <3>2. QED
      BY <1>0, <2>3, <2>5, <3>1 DEF TypeOK, Distinct
  <2>9. ASSUME NEW u \in Tasks, NEW d \in deps[u], status[d] = "Succeeded"
        PROVE  status'[d] = "Succeeded"
    BY <1>2, <1>7, <2>2, <2>9
  <2>10. NoneRunsEarly'
    <3> SUFFICES ASSUME NEW u \in Tasks, status'[u] \in {"Running", "Succeeded", "Failed"},
                        NEW d \in deps[u]
                 PROVE  status'[d] = "Succeeded"
      BY <1>0 DEF NoneRunsEarly
    <3>1. status[u] \in {"Running", "Succeeded", "Failed"}
      BY <2>2
    <3>2. QED
      BY <2>9, <3>1 DEF NoneRunsEarly
  <2>11. CascadeInv'
    <3>1. \A u \in Tasks \ {failing} : status'[u] = seen'[u] \/ u \in Cancelled'
      BY <1>0, <1>1, <2>2, <2>7
    <3>2. \A q \in (Cancelled' \cup {failing}) \ Queued', u \in Nodes :
            q \in deps[u] /\ seen[u] = "Pending" =>
              u \in Cancelled' \/ (q = current /\ u \in left')
      BY <1>0, <1>1, <2>6, <2>7
    <3>3. ASSUME NEW S \in SUBSET Plan!With("Pending"), Plan!Closed(failing, S)
          PROVE  t \in S
      <4>1. current \in deps[t] \cap (S \cup {failing})
        BY <1>1, <1>7, <3>3
      <4>2. t \in Plan!With("Pending")
        BY <1>2, <2>4 DEF Plan!With, Nodes
      <4>3. QED
        BY <3>3, <4>1, <4>2 DEF Plan!Closed
    <3>4. \A S \in SUBSET Plan!With("Pending")' : Plan!Closed(failing, S)' => Cancelled' \subseteq S
      BY <1>1, <1>3, <1>4, <2>7, <3>3
    <3>5. failing \in Nodes' /\ status'[failing] = "Failed"
      BY <1>1, <2>2, <2>3, <2>4 DEF Nodes
    <3>6. QED
      BY <1>0, <1>1, <2>3, <2>6, <2>7, <3>1, <3>2, <3>4, <3>5 DEF CascadeInv
  <2>12. list' \subseteq Ready'
    <3> SUFFICES ASSUME NEW u \in list PROVE u \in Ready'
      BY <1>0
    <3>1. u \in Nodes /\ status[u] = "Pending" /\ \A d \in deps[u] : status[d] = "Succeeded"
      BY DEF GraphInv, Ready
    <3>2. status[current] # "Succeeded"
      BY <1>1 DEF Cancelled
    <3>3. u \in Tasks /\ u # t
      BY <1>7, <3>1, <3>2 DEF Nodes
    <3>4. status'[u] = "Pending" /\ \A d \in deps[u] : status'[d] = "Succeeded"
      BY <2>2, <2>9, <3>1, <3>3
    <3>5. QED
      BY <1>0, <2>3, <3>1, <3>4 DEF Ready
  <2>13. GraphInv'
    BY <1>0, <1>1, <1>5, <2>3, <2>12 DEF GraphInv
  <2>14. QED
    BY <1>6, <2>8, <2>10, <2>11, <2>13
<1>8. CASE ~(current \in deps[t] /\ status[t] = "Pending")
  <2>1. UNCHANGED <<status, queue>>
    BY <1>8 DEF Cancel
  <2>2. UNCHANGED <<Nodes, Ready, Unknown, Cancelled, Queued>>
    BY <1>0, <2>1 DEF Nodes, Ready, Unknown, Cancelled, Queued
  <2>3. TypeOK' /\ NoneRunsEarly'
    BY <1>0, <2>1, <2>2 DEF TypeOK, NoneRunsEarly
  <2>4. current \in deps[t] /\ seen[t] = "Pending" => t \in Cancelled
    BY <1>1, <1>2, <1>8 DEF Nodes
  <2>5. \A q \in (Cancelled \cup {failing}) \ Queued, u \in Nodes :
          q \in deps[u] /\ seen[u] = "Pending" =>
            u \in Cancelled \/ (q = current /\ u \in left')
    BY <1>0, <1>1, <2>4
  <2>6. \A S \in SUBSET Plan!With("Pending")' : Plan!Closed(failing, S)' => Cancelled' \subseteq S
    BY <1>1, <1>3, <1>4, <2>2
  <2>7. CascadeInv'
    BY <1>0, <1>1, <2>1, <2>2, <2>5, <2>6 DEF CascadeInv
  <2>8. GraphInv'
    BY <1>0, <1>5, <2>1, <2>2 DEF GraphInv
  <2>9. QED
    BY <1>6, <2>3, <2>7, <2>8
<1>9. QED
  BY <1>7, <1>8

LEMMA FailedKeeps == IInv /\ Failed => IInv'
<1> SUFFICES ASSUME IInv, Failed PROVE IInv'
  OBVIOUS
<1> USE DEF IInv
<1>0. /\ call = "cascade" /\ left = {} /\ queue = <<>> /\ call' = "none" /\ seen' = status
      /\ UNCHANGED <<deps, status, list, phase, queue, current, left, remaining, visited,
                     failing>>
  BY DEF Failed
<1>1. UNCHANGED <<Nodes, Ready, Unknown>> /\ Queued = {}
  BY <1>0 DEF Nodes, Ready, Unknown, Queued
<1>2. TypeOK' /\ NoneRunsEarly' /\ SortInv' /\ CascadeInv'
  BY <1>0, <1>1 DEF TypeOK, NoneRunsEarly, SortInv, CascadeInv
<1>3. /\ phase = "valid" /\ failing \in Nodes /\ seen[failing] = "Running"
      /\ \A u \in Tasks \ {failing} : status[u] = seen[u] \/ u \in Cancelled
      /\ \A q \in Cancelled \cup {failing}, u \in Nodes :
           q \in deps[u] /\ seen[u] = "Pending" => u \in Cancelled
  BY <1>0, <1>1 DEF CascadeInv
<1>4. ASSUME NEW t \in Nodes, status[t] = "Pending", NEW d \in deps[t]
      PROVE  status[d] \notin {"Failed", "Cancelled"}
  <2>1. t \in Tasks /\ d \in Tasks
    BY DEF TypeOK, Nodes
  <2>2. t \notin Cancelled /\ status[failing] = "Failed" /\ t # failing
    BY <1>0, <1>4 DEF Cancelled, CascadeInv
  <2>3. seen[t] = "Pending"
    BY <1>3, <1>4, <2>1, <2>2
  <2>4. d \notin Cancelled \cup {failing}
    BY <1>3, <2>2, <2>3
  <2>5. status[d] = seen[d]
    BY <1>3, <2>1, <2>4
  <2>6. QED
    BY <1>3, <2>3, <2>5 DEF GraphInv
<1>5. GraphInv'
  <2>1. /\ Plan!Nodes = Nodes /\ Plan!Nodes' = Nodes'
    <3>1. Plan!Nodes = Nodes
      BY PlanNodes
    <3>2. Plan!Nodes' = Nodes'
      BY <1>0 DEF Plan!Nodes, Plan!With, Nodes
    <3>3. QED
      BY <3>1, <3>2
  <2>2. UNCHANGED Plan!Acyclic
    BY <1>0, <1>1, <2>1 DEF Plan!Acyclic
  <2>3. QED
    BY <1>0, <1>1, <1>3, <1>4, <2>2 DEF GraphInv
<1>6. QED
  BY <1>2, <1>5

LEMMA NextKeeps == IInv /\ [Next]_vars => IInv'
<1> SUFFICES ASSUME IInv, [Next]_vars PROVE IInv'
  OBVIOUS
<1>1. CASE LoopStep
  BY <1>1, CollectKeeps, CollectedKeeps, NextTaskKeeps, ReleaseKeeps, ValidatedKeeps,
     NextParentKeeps, CancelKeeps, FailedKeeps DEF LoopStep
<1>2. CASE \E t \in Tasks : AddNode(t) \/ MarkRunning(t) \/ MarkSucceeded(t) \/ MarkFailed(t)
  BY <1>2, AddNodeKeeps, MarkRunningKeeps, MarkSucceededKeeps, MarkFailedKeeps
<1>3. CASE RefuseUnknown \/ Validate \/ GetReadyTasks
  BY <1>3, RefuseUnknownKeeps, ValidateKeeps, GetReadyTasksKeeps
<1>4. CASE UNCHANGED vars
  <2>1. UNCHANGED <<deps, status, seen, list, phase, call, queue, current, left, remaining,
                    visited, failing>>
    BY <1>4 DEF vars, graphVars, loopVars
  <2>2. UNCHANGED <<Nodes, Ready, Unknown, Cancelled, Queued, Popped>>
    BY <2>1 DEF Nodes, Ready, Unknown, Cancelled, Queued, Popped
  <2>3. UNCHANGED <<Rooted, Plan!Acyclic, Plan!With("Pending")>>
    BY <2>1, <2>2 DEF Rooted, Plan!Acyclic, Plan!Nodes, Plan!With
  <2>4. \A S : Plan!Closed(failing, S)' = Plan!Closed(failing, S)
    BY <2>1, <2>3 DEF Plan!Closed
  <2>5. TypeOK' /\ NoneRunsEarly'
    BY <2>1, <2>2 DEF IInv, TypeOK, NoneRunsEarly
  <2>6. SortInv'
    BY <2>1, <2>2, <2>3 DEF IInv, SortInv
  <2>7. CascadeInv'
    BY <2>1, <2>2, <2>3, <2>4 DEF IInv, CascadeInv
  <2>8. GraphInv'
    BY <2>1, <2>2, <2>3 DEF IInv, GraphInv
  <2>9. QED
    BY <2>5, <2>6, <2>7, <2>8 DEF IInv
<1>5. QED
  BY <1>1, <1>2, <1>3, <1>4 DEF Next

\* The inductive invariant of the graph, the sort and the cascade: between and inside
\* the calls of dag.rs, it holds at every step.
THEOREM InvariantHolds == Spec => []IInv
BY InitHolds, NextKeeps, PTL DEF Spec

--------------------------------------------------------------------------------
(* What follows from it.                                                        *)

\* The variables keep their types, the work lists name no task twice, and the sort
\* never pops more tasks than the graph has.
THEOREM TypeCorrect == Spec => []TypeOK
<1>1. IInv => TypeOK
  BY DEF IInv
<1>2. QED
  BY <1>1, InvariantHolds, PTL

\* However old the list the coordinator works through, it starts no task whose
\* dependencies have not all succeeded.
THEOREM NoTaskRunsEarly == Spec => []NoneRunsEarly
<1>1. IInv => NoneRunsEarly
  BY DEF IInv
<1>2. QED
  BY <1>1, InvariantHolds, PTL

LEMMA WaitingEnds == IInv => NoneWaitsForever
<1> SUFFICES ASSUME IInv, Idle, phase = "valid", ~Complete,
                    \A t \in Nodes : status[t] # "Running"
             PROVE  Ready # {}
  BY DEF NoneWaitsForever
<1> USE DEF IInv
<1>1. seen = status /\ Plan!Nodes = Nodes
  BY PlanNodes DEF CascadeInv, Idle
<1> DEFINE P == {t \in Nodes : status[t] = "Pending"}
<1>2. ASSUME NEW t \in Nodes
      PROVE  status[t] \in {"Pending", "Succeeded", "Failed", "Cancelled"}
  BY <1>2 DEF TypeOK, Status, Nodes
<1>3. P # {}
  BY <1>2 DEF Complete
<1>4. PICK t \in P : deps[t] \cap P = {}
  BY <1>1, <1>3 DEF GraphInv, Plan!Acyclic
<1>5. ASSUME NEW d \in deps[t] PROVE status[d] = "Succeeded"
  <2>1. d \in Nodes /\ d \notin P
    BY <1>4 DEF GraphInv, Unknown
  <2>2. status[d] \notin {"Failed", "Cancelled"}
    BY <1>1 DEF GraphInv
  <2>3. QED
    BY <1>2, <2>1, <2>2
<1>6. QED
  BY <1>4, <1>5 DEF Ready

\* Between calls, a valid graph that is not complete has a task that runs or one that
\* get_ready_tasks returns.
THEOREM NoTaskWaitsForever == Spec => []NoneWaitsForever
BY InvariantHolds, WaitingEnds, PTL

--------------------------------------------------------------------------------
(* The loops implement the plan.                                                *)

\* When the cascade's work list is empty, it has cancelled what is downstream.
LEMMA CascadeCancels ==
  ASSUME IInv, call = "cascade", left = {}, queue = <<>>
  PROVE  Cancelled = Plan!Downstream(failing)
<1> USE DEF IInv
<1>1. Queued = {} /\ Cancelled \subseteq Plan!With("Pending")
  BY DEF Queued, Cancelled, Plan!With, Nodes
<1>2. Plan!Closed(failing, Cancelled)
  <2> SUFFICES ASSUME NEW u \in Plan!With("Pending"), NEW q \in deps[u],
                      q \in Cancelled \cup {failing}
               PROVE  u \in Cancelled
    BY DEF Plan!Closed
  <2>1. u \in Nodes /\ seen[u] = "Pending"
    BY DEF Plan!With, CascadeInv, Nodes, Cancelled
  <2>2. QED
    BY <1>1, <2>1 DEF CascadeInv
<1>3. \A S \in SUBSET Plan!With("Pending") : Plan!Closed(failing, S) => Cancelled \subseteq S
  BY DEF CascadeInv
<1>4. QED
  BY <1>1, <1>2, <1>3 DEF Plan!Downstream

\* A step that changes nothing the coordinator sees.
LEMMA Stutters == UNCHANGED <<deps, seen, list, phase>> => UNCHANGED Plan!vars
BY DEF Plan!vars

LEMMA StepRefines == IInv /\ [Next]_vars => [Plan!Next]_(Plan!vars)
<1> SUFFICES ASSUME IInv, [Next]_vars PROVE Plan!Next \/ UNCHANGED Plan!vars
  OBVIOUS
<1> USE DEF IInv
<1>t. deps \in [Tasks -> SUBSET Tasks] /\ status \in [Tasks -> Status] /\ seen \in [Tasks -> Status]
  BY DEF TypeOK
<1>n. Plan!Nodes = Nodes
  BY PlanNodes
<1>u. Plan!Known <=> ~Unknown
  BY <1>n DEF Plan!Known, Unknown
<1>i. Idle => seen = status
  BY DEF Idle, CascadeInv
<1>1. CASE Collected \/ NextTask \/ NextParent
  BY <1>1, Stutters DEF Collected, NextTask, NextParent, graphVars
<1>2. CASE \E t \in Tasks : Collect(t) \/ Release(t) \/ Cancel(t) \/ MarkFailed(t)
  BY <1>2, Stutters DEF Collect, Release, Cancel, MarkFailed, graphVars
<1>3. CASE Validate \/ UNCHANGED vars
  BY <1>3, Stutters DEF Validate, vars, graphVars
<1>4. CASE RefuseUnknown
  <2>1. Plan!Validate
    BY <1>4, <1>u DEF RefuseUnknown, Plan!Validate
  <2>2. QED
    BY <2>1 DEF Plan!Next
<1>5. CASE Validated
  <2>1. phase = "building" /\ Plan!Known
    BY <1>5, <1>u DEF Validated, SortInv
  <2>2. visited = Cardinality(Nodes) <=> Plan!Acyclic
    BY <1>5, SortDecides DEF Validated
  <2>3. Plan!Validate
    BY <1>5, <2>1, <2>2 DEF Validated, Plan!Validate
  <2>4. QED
    BY <2>3 DEF Plan!Next
<1>6. CASE GetReadyTasks
  <2>1. Ready = Plan!Ready
    BY <1>6, <1>i DEF GetReadyTasks, Ready, Plan!Ready, Plan!With, Nodes
  <2>2. Plan!GetReadyTasks
    BY <1>6, <2>1 DEF GetReadyTasks, Plan!GetReadyTasks
  <2>3. QED
    BY <2>2 DEF Plan!Next
<1>7. ASSUME NEW t \in Tasks, AddNode(t) PROVE Plan!Next
  <2>1. Plan!AddNode(t)
    BY <1>7, <1>i DEF AddNode, Plan!AddNode
  <2>2. QED
    BY <2>1 DEF Plan!Next
<1>8. ASSUME NEW t \in Tasks, MarkRunning(t) PROVE Plan!Next
  <2>1. Plan!MarkRunning(t)
    BY <1>8, <1>i DEF MarkRunning, Mark, Plan!MarkRunning
  <2>2. QED
    BY <2>1 DEF Plan!Next
<1>9. ASSUME NEW t \in Tasks, MarkSucceeded(t) PROVE Plan!Next
  <2>1. Plan!MarkSucceeded(t)
    BY <1>9, <1>i DEF MarkSucceeded, Mark, Plan!MarkSucceeded
  <2>2. QED
    BY <2>1 DEF Plan!Next
<1>10. CASE Failed
  <2>1. /\ call = "cascade" /\ left = {} /\ queue = <<>> /\ seen' = status
        /\ UNCHANGED <<deps, list, phase>>
    BY <1>10 DEF Failed
  <2>2. Cancelled = Plan!Downstream(failing)
    BY <2>1, CascadeCancels
  <2>3. /\ failing \in Tasks /\ seen[failing] = "Running" /\ status[failing] = "Failed"
        /\ \A u \in Tasks \ {failing} : status[u] = seen[u] \/ u \in Cancelled
    BY <2>1 DEF CascadeInv, Nodes
  <2>4. ASSUME NEW u \in Tasks
        PROVE  status[u] = IF u = failing THEN "Failed"
                           ELSE IF u \in Plan!Downstream(failing) THEN "Cancelled" ELSE seen[u]
    BY <2>2, <2>3 DEF Cancelled
  <2>5. status = [u \in Tasks |-> IF u = failing THEN "Failed"
                                  ELSE IF u \in Plan!Downstream(failing) THEN "Cancelled"
                                  ELSE seen[u]]
    BY <1>t, <2>4
  <2>6. Plan!MarkFailed(failing)
    BY <2>1, <2>3, <2>5 DEF Plan!MarkFailed
  <2>7. QED
    BY <2>3, <2>6 DEF Plan!Next
<1>11. QED
  BY <1>1, <1>2, <1>3, <1>4, <1>5, <1>6, <1>7, <1>8, <1>9, <1>10 DEF Next, LoopStep

\* Each call, loop and all, is one step of the plan: validate accepts exactly the
\* graphs that know their dependencies and have no cycle, get_ready_tasks answers
\* what is ready, and mark_failed cancels exactly what is downstream.
THEOREM Implements == Spec => ImplementsTaskPlan
<1>1. Init => Plan!Init
  BY DEF Init, Plan!Init
<1>2. QED
  BY <1>1, InvariantHolds, StepRefines, PTL DEF Spec, ImplementsTaskPlan, Plan!PlanSpec
================================================================================
