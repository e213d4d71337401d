--------------------------- MODULE Acyclicity_proofs ---------------------------
(***************************************************************************)
(* check_acyclicity is correct for every dependency graph: it passes the   *)
(* graphs without a cycle and reports a real cycle of the others, and its  *)
(* path never outgrows the array.                                          *)
(***************************************************************************)
EXTENDS Acyclicity, FiniteSetTheorems, WellFoundedInduction, TLAPS

------------------------------------------------------------------------------
(* find_dep_node.                                                          *)

(* A non-empty set of naturals has a least element.                        *)
LEMMA LeastElement ==
  ASSUME NEW S, S \subseteq Nat, S # {}
  PROVE  \E i \in S : \A j \in S : i <= j
<1>1. \E i \in S : \A j \in S : ~ (<<j, i>> \in OpToRel(<, Nat))
  BY WFMin, NatLessThanWellFounded
<1>2. PICK i \in S : \A j \in S : ~ (<<j, i>> \in OpToRel(<, Nat))
  BY <1>1
<1>3. \A j \in S : i <= j
  <2> TAKE j \in S
  <2>1. ~ (j < i)
    <3>1. <<j, i>> \in Nat \X Nat
      OBVIOUS
    <3>2. j < i => <<j, i>> \in OpToRel(<, Nat)
      BY <3>1 DEF OpToRel
    <3> QED BY <3>2, <1>2
  <2> QED BY <2>1
<1> QED BY <1>3

(* It answers an index of the graph, or the mark of an external name.      *)
LEMMA FindDepNodeType ==
  ASSUME NEW g \in Seq(Node), NEW name
  PROVE  FindDepNode(g, name) \in DOMAIN g \cup {0}
<1> DEFINE hits == {i \in DOMAIN g : g[i].name = name}
<1>1. CASE hits = {}
  BY <1>1 DEF FindDepNode
<1>2. CASE hits # {}
  <2>1. hits \subseteq Nat
    OBVIOUS
  <2>2. \E i \in hits : \A j \in hits : i <= j
    BY <1>2, <2>1, LeastElement
  <2>3. (CHOOSE i \in hits : \A j \in hits : i <= j) \in hits
    BY <2>2
  <2> QED BY <1>2, <2>3 DEF FindDepNode
<1> QED BY <1>1, <1>2

------------------------------------------------------------------------------
(* The inductive invariant.                                                *)

(* The path holds the nodes being visited, each once.                      *)
OnPath ==
  /\ \A i \in DOMAIN graph : state[i] = "in_progress" <=> \E k \in DOMAIN path : path[k] = i
  /\ \A j, k \in DOMAIN path : path[j] = path[k] => j = k

(* Each node of the path is at the dependency the next one is.             *)
Chain ==
  /\ \A k \in DOMAIN path : tried[k] <= Len(graph[path[k]].deps)
  /\ \A k \in 1..(Len(path) - 1) :
       /\ tried[k] < Len(graph[path[k]].deps)
       /\ FindDepNode(graph, graph[path[k]].deps[tried[k] + 1]) = path[k + 1]

(* What a node of the path has dealt with is finished, not merely seen.    *)
TriedSettled ==
  \A k \in DOMAIN path : \A d \in 1..tried[k] :
    Settled(FindDepNode(graph, graph[path[k]].deps[d]))

(* The dependencies of a finished node are finished ...                    *)
DoneClosed ==
  \A i, j \in DOMAIN graph : state[i] = "done" /\ Edge(graph, i, j) => state[j] = "done"

(* ... and there is no cycle among finished nodes.                         *)
Done == {i \in DOMAIN graph : state[i] = "done"}
DoneAcyclic ==
  \A S \in SUBSET Done : S # {} => \E i \in S : \A j \in S : ~Edge(graph, i, j)

RootsVisited == \A i \in 1..(root - 1) : state[i] # "unvisited"

Reported ==
  /\ status = "cyclic" => IsCycle(graph, cycle)
  /\ status = "clean" => \A i \in DOMAIN graph : state[i] = "done"

IInv ==
  /\ TypeOK /\ OnPath /\ Chain /\ TriedSettled
  /\ DoneClosed /\ DoneAcyclic /\ RootsVisited /\ Reported

LEMMA InitIInv == Init => IInv
<1> SUFFICES ASSUME Init PROVE IInv
  OBVIOUS
<1>1. graph \in Seq(Node)
  BY GraphsAssumption DEF Init
<1>2. TypeOK
  BY <1>1 DEF Init, TypeOK
<1>3. OnPath /\ Chain /\ TriedSettled /\ DoneClosed /\ RootsVisited /\ Reported
  BY <1>1 DEF Init, OnPath, Chain, TriedSettled, DoneClosed, RootsVisited, Reported
<1>4. DoneAcyclic
  <2>1. Done = {}
    BY DEF Init, Done
  <2> QED BY <2>1 DEF DoneAcyclic
<1> QED BY <1>2, <1>3, <1>4 DEF IInv

(* What the types say of the graph, and of the path and its counters.      *)
LEMMA Shape ==
  ASSUME TypeOK
  PROVE  /\ Len(graph) \in Nat /\ DOMAIN graph = 1..Len(graph)
         /\ \A i \in DOMAIN graph :
              /\ graph[i].deps \in Seq(Names) /\ Len(graph[i].deps) \in Nat
              /\ DOMAIN graph[i].deps = 1..Len(graph[i].deps)
         /\ DOMAIN state = DOMAIN graph
         /\ Len(path) \in Nat /\ DOMAIN path = 1..Len(path) /\ DOMAIN tried = 1..Len(path)
         /\ \A k \in 1..Len(path) : path[k] \in DOMAIN graph /\ tried[k] \in Nat
         /\ path # << >> => Len(path) \in 1..Len(path)
<1>1. Len(graph) \in Nat /\ DOMAIN graph = 1..Len(graph) /\ DOMAIN state = DOMAIN graph
  BY DEF TypeOK
<1>2. \A i \in DOMAIN graph : graph[i].deps \in Seq(Names)
  <2>1. \A i \in DOMAIN graph : graph[i] \in Node
    BY DEF TypeOK
  <2> QED BY <2>1 DEF Node
<1>3. \A i \in DOMAIN graph : /\ Len(graph[i].deps) \in Nat
                              /\ DOMAIN graph[i].deps = 1..Len(graph[i].deps)
  BY <1>2
<1>4. /\ Len(path) \in Nat /\ DOMAIN path = 1..Len(path) /\ DOMAIN tried = 1..Len(path)
      /\ \A k \in 1..Len(path) : path[k] \in DOMAIN graph /\ tried[k] \in Nat
  BY DEF TypeOK
<1>5. path # << >> => Len(path) \in 1..Len(path)
  BY DEF TypeOK
<1> QED BY <1>1, <1>2, <1>3, <1>4, <1>5

(* A dependency of the innermost call is a node or an external name.       *)
LEMMA DependencyType ==
  ASSUME TypeOK, AtDependency
  PROVE  /\ Len(path) \in DOMAIN path /\ Top \in DOMAIN graph
         /\ tried[Len(path)] + 1 \in DOMAIN graph[Top].deps
         /\ Dependency \in DOMAIN graph \cup {0}
<1>1. Len(path) \in DOMAIN path /\ Top \in DOMAIN graph
  BY Shape DEF AtDependency, Top
<1>2. tried[Len(path)] \in Nat /\ Len(graph[Top].deps) \in Nat
      /\ DOMAIN graph[Top].deps = 1..Len(graph[Top].deps)
  BY <1>1, Shape
<1>3. tried[Len(path)] + 1 \in DOMAIN graph[Top].deps
  BY <1>2 DEF AtDependency
<1>4. Dependency \in DOMAIN graph \cup {0}
  BY FindDepNodeType DEF TypeOK, Dependency
<1> QED BY <1>1, <1>3, <1>4

(* Entering an unvisited node, from the outer loop or from the node before *)
(* it on the path.                                                         *)
LEMMA EnterIInv ==
  ASSUME IInv, NEW i \in DOMAIN graph, state[i] = "unvisited", Enter(i),
         Searching,
         path # << >> =>
           /\ tried[Len(path)] < Len(graph[Top].deps)
           /\ FindDepNode(graph, graph[Top].deps[tried[Len(path)] + 1]) = i
  PROVE  IInv'
<1> USE DEF IInv
<1>0. /\ path' = Append(path, i) /\ tried' = Append(tried, 0)
      /\ state' = [state EXCEPT ![i] = "in_progress"]
      /\ graph' = graph /\ root' = root /\ cycle' = cycle /\ status' = status
  BY DEF Enter
<1>1. TypeOK'
  BY <1>0 DEF TypeOK
<1>2. Len(path') = Len(path) + 1 /\ path'[Len(path) + 1] = i
      /\ DOMAIN path' = 1..(Len(path) + 1)
      /\ \A k \in 1..Len(path) : path'[k] = path[k] /\ tried'[k] = tried[k]
  BY <1>0 DEF TypeOK
<1>3. tried'[Len(path) + 1] = 0
  BY <1>0 DEF TypeOK
<1>4. \A k \in 1..Len(path) : path[k] # i
  BY Shape DEF OnPath
<1>5. OnPath'
  <2>1. ASSUME NEW j \in DOMAIN graph
        PROVE  state'[j] = "in_progress" <=> \E k \in DOMAIN path' : path'[k] = j
    <3>1. CASE j = i
      <4>1. state'[j] = "in_progress"
        BY <3>1, <1>0 DEF TypeOK
      <4>2. Len(path) + 1 \in DOMAIN path' /\ path'[Len(path) + 1] = j
        BY <3>1, <1>2, Shape
      <4> QED BY <4>1, <4>2
    <3>2. CASE j # i
      <4>1. state'[j] = state[j]
        BY <3>2, <1>0 DEF TypeOK
      <4>2. ASSUME NEW k \in DOMAIN path', path'[k] = j
            PROVE  k \in DOMAIN path /\ path[k] = j
        BY <3>2, <1>2, <4>2, Shape
      <4>3. ASSUME NEW k \in DOMAIN path
            PROVE  k \in DOMAIN path' /\ path'[k] = path[k]
        BY <1>2, Shape
      <4> QED BY <4>1, <4>2, <4>3 DEF OnPath
    <3> QED BY <3>1, <3>2
  <2>2. ASSUME NEW j \in DOMAIN path', NEW k \in DOMAIN path', path'[j] = path'[k]
        PROVE  j = k
    <3>1. CASE j \in 1..Len(path) /\ k \in 1..Len(path)
      BY <3>1, <1>2, <2>2, Shape DEF OnPath
    <3>2. CASE ~(j \in 1..Len(path) /\ k \in 1..Len(path))
      <4>1. /\ j \in 1..Len(path) \/ j = Len(path) + 1
            /\ k \in 1..Len(path) \/ k = Len(path) + 1
        BY <1>2, Shape
      <4>2. \A n \in 1..Len(path) : path'[n] # path'[Len(path) + 1]
        BY <1>2, <1>4
      <4> QED BY <2>2, <3>2, <4>1, <4>2
    <3> QED BY <3>1, <3>2
  <2> QED BY <1>0, <2>1, <2>2 DEF OnPath
<1>6. Chain'
  <2>1. \A k \in DOMAIN path' : tried'[k] <= Len(graph[path'[k]].deps)
    BY <1>0, <1>2, <1>3, Shape DEF Chain
  <2>2. ASSUME NEW k \in 1..(Len(path') - 1)
        PROVE  /\ tried'[k] < Len(graph[path'[k]].deps)
               /\ FindDepNode(graph, graph[path'[k]].deps[tried'[k] + 1]) = path'[k + 1]
    <3>1. CASE k < Len(path)
      <4>1. k \in 1..(Len(path) - 1) /\ k + 1 \in DOMAIN path
        BY <3>1, <1>2, Shape
      <4>2. tried'[k] = tried[k] /\ path'[k] = path[k] /\ path'[k + 1] = path[k + 1]
        BY <4>1, <1>2, Shape
      <4> QED BY <4>1, <4>2 DEF Chain
    <3>2. CASE k = Len(path)
      <4>1. path # << >> /\ k \in 1..Len(path)
        BY <3>2, Shape
      <4> QED BY <3>2, <4>1, <1>2, Shape DEF Top
    <3>3. Len(path) \in Nat
      BY Shape
    <3>4. k < Len(path) \/ k = Len(path)
      BY <3>3, <1>2
    <3> QED BY <3>1, <3>2, <3>4
  <2> QED BY <2>1, <2>2, <1>0 DEF Chain
<1>7. \A j : Settled(j) => Settled(j)'
  BY <1>0 DEF Settled, TypeOK
<1>8. TriedSettled'
  BY <1>0, <1>2, <1>3, <1>7 DEF TriedSettled, TypeOK
<1>9. Done' = Done
  BY <1>0 DEF Done, TypeOK
<1>10. DoneClosed' /\ DoneAcyclic'
  BY <1>0, <1>9 DEF DoneClosed, DoneAcyclic, TypeOK, Done
<1>11. RootsVisited' /\ Reported'
  BY <1>0 DEF RootsVisited, Reported, Searching, TypeOK
<1> QED BY <1>1, <1>5, <1>6, <1>8, <1>10, <1>11

(* A dependency is passed over: it is settled.                             *)
LEMMA SkipIInv ==
  ASSUME IInv, SkipDependency
  PROVE  IInv'
<1> USE DEF IInv
<1>0. /\ tried' = [tried EXCEPT ![Len(path)] = @ + 1]
      /\ graph' = graph /\ state' = state /\ path' = path /\ root' = root
      /\ cycle' = cycle /\ status' = status
  BY DEF SkipDependency
<1>1. /\ Len(path) \in DOMAIN path /\ Top \in DOMAIN graph
      /\ tried[Len(path)] < Len(graph[Top].deps)
  BY DependencyType DEF SkipDependency, AtDependency
<1>2. TypeOK'
  BY <1>0, <1>1 DEF TypeOK
<1>3. OnPath' /\ DoneClosed' /\ DoneAcyclic' /\ RootsVisited' /\ Reported'
  BY <1>0 DEF OnPath, DoneClosed, DoneAcyclic, Done, RootsVisited, Reported
<1>4. Chain'
  <2>1. ASSUME NEW k \in 1..Len(path), k # Len(path)
        PROVE  tried'[k] = tried[k]
    BY <1>0, <2>1 DEF TypeOK
  <2>2. tried'[Len(path)] = tried[Len(path)] + 1
    BY <1>0, <1>1 DEF TypeOK
  <2>3. \A k \in DOMAIN path : tried'[k] <= Len(graph[path[k]].deps)
    <3> SUFFICES ASSUME NEW k \in DOMAIN path PROVE tried'[k] <= Len(graph[path[k]].deps)
      OBVIOUS
    <3>1. CASE k = Len(path)
      <4>1. tried[k] \in Nat /\ Len(graph[Top].deps) \in Nat /\ path[k] = Top
        BY <3>1, <1>1, Shape DEF Top
      <4> QED BY <3>1, <4>1, <1>1, <2>2
    <3>2. CASE k # Len(path)
      <4>1. k \in 1..Len(path)
        BY Shape
      <4> QED BY <3>2, <4>1, <2>1 DEF Chain
    <3> QED BY <3>1, <3>2
  <2>4. \A k \in 1..(Len(path) - 1) : k \in 1..Len(path) /\ k # Len(path)
    <3>1. Len(path) \in Nat
      BY Shape
    <3> QED BY <3>1
  <2> QED BY <1>0, <2>1, <2>3, <2>4 DEF Chain
<1>5. \A j : Settled(j) => Settled(j)'
  BY <1>0 DEF Settled
<1>6. TriedSettled'
  <2> SUFFICES ASSUME NEW k \in DOMAIN path, NEW d \in 1..tried'[k]
               PROVE  Settled(FindDepNode(graph, graph[path[k]].deps[d]))
    BY <1>0, <1>5 DEF TriedSettled
  <2>1. CASE d \in 1..tried[k]
    BY <2>1 DEF TriedSettled
  <2>2. CASE d \notin 1..tried[k]
    <3>1. k = Len(path) /\ d = tried[k] + 1
      BY <1>0, <1>1, <2>2 DEF TypeOK
    <3> QED BY <3>1 DEF SkipDependency, Dependency, Top
  <2> QED BY <2>1, <2>2
<1> QED BY <1>2, <1>3, <1>4, <1>6

(* The path from a node being visited back to itself is a cycle.           *)
LEMMA ReportIInv ==
  ASSUME IInv, ReportCycle
  PROVE  IInv'
<1> USE DEF IInv
<1>0. /\ status' = "cyclic" /\ graph' = graph /\ state' = state /\ path' = path
      /\ tried' = tried /\ root' = root
  BY DEF ReportCycle
<1>1. PICK start \in DOMAIN path :
        path[start] = Dependency /\ cycle' = SubSeq(path, start, Len(path))
  <2> DEFINE hits == {k \in DOMAIN path : path[k] = Dependency}
  <2>1. AtDependency /\ Dependency # 0 /\ state[Dependency] = "in_progress"
        /\ cycle' = SubSeq(path, CycleStart(Dependency), Len(path))
    BY DEF ReportCycle
  <2>2. Dependency \in DOMAIN graph
    BY <2>1, DependencyType
  <2>3. hits # {}
    BY <2>1, <2>2 DEF OnPath
  <2>4. hits \subseteq Nat
    BY Shape
  <2>5. \E k \in hits : \A j \in hits : k <= j
    BY <2>3, <2>4, LeastElement
  <2>6. CycleStart(Dependency) \in hits
    BY <2>3, <2>5 DEF CycleStart
  <2> QED BY <2>1, <2>6
<1>2. /\ Len(path) \in DOMAIN path /\ Top \in DOMAIN graph
      /\ tried[Len(path)] + 1 \in DOMAIN graph[Top].deps
  BY DependencyType DEF ReportCycle
<1>3. start \in 1..Len(path) /\ Len(path) \in Nat /\ path \in Seq(DOMAIN graph)
  BY <1>2 DEF TypeOK
<1>4. /\ cycle' \in Seq(DOMAIN graph) /\ Len(cycle') = Len(path) - start + 1
      /\ \A i \in 1..(Len(path) - start + 1) : cycle'[i] = path[start + i - 1]
  BY <1>1, <1>3
<1>5. ASSUME NEW i \in 1..(Len(cycle') - 1)
      PROVE  Edge(graph, cycle'[i], cycle'[i + 1])
  <2> DEFINE k == start + i - 1
  <2>1. k \in 1..(Len(path) - 1) /\ cycle'[i] = path[k] /\ cycle'[i + 1] = path[k + 1]
    BY <1>3, <1>4
  <2>2. /\ tried[k] < Len(graph[path[k]].deps)
        /\ FindDepNode(graph, graph[path[k]].deps[tried[k] + 1]) = path[k + 1]
    BY <2>1 DEF Chain
  <2>3. tried[k] + 1 \in DOMAIN graph[path[k]].deps
    <3>1. k \in 1..Len(path)
      BY <2>1, <1>3
    <3>2. path[k] \in DOMAIN graph /\ tried[k] \in Nat
      BY <3>1, Shape
    <3>3. /\ Len(graph[path[k]].deps) \in Nat
          /\ DOMAIN graph[path[k]].deps = 1..Len(graph[path[k]].deps)
      BY <3>2, Shape
    <3> HIDE DEF k
    <3> QED BY <3>2, <3>3, <2>2
  <2> QED BY <2>1, <2>2, <2>3 DEF Edge
<1>6. Edge(graph, cycle'[Len(cycle')], cycle'[1])
  <2>1. cycle'[Len(cycle')] = Top /\ cycle'[1] = Dependency
    <3>1. Len(cycle') \in 1..(Len(path) - start + 1) /\ 1 \in 1..(Len(path) - start + 1)
          /\ start + Len(cycle') - 1 = Len(path) /\ start + 1 - 1 = start
      BY <1>3, <1>4
    <3>2. cycle'[Len(cycle')] = path[start + Len(cycle') - 1] /\ cycle'[1] = path[start + 1 - 1]
      BY <3>1, <1>4
    <3> QED BY <1>1, <3>1, <3>2 DEF Top
  <2> QED BY <2>1, <1>2 DEF Edge, Dependency
<1>7. IsCycle(graph, cycle')
  BY <1>3, <1>4, <1>5, <1>6 DEF IsCycle
<1>8. TypeOK' /\ Reported'
  BY <1>0, <1>4, <1>7 DEF TypeOK, Reported
<1>9. OnPath' /\ Chain' /\ DoneClosed' /\ DoneAcyclic' /\ RootsVisited'
  BY <1>0 DEF OnPath, Chain, DoneClosed, DoneAcyclic, Done, RootsVisited
<1>10. TriedSettled'
  BY <1>0 DEF TriedSettled, Settled
<1> QED BY <1>8, <1>9, <1>10

(* A node is finished: every dependency of it was, so the node adds no     *)
(* cycle to those finished before.                                         *)
LEMMA FinishIInv ==
  ASSUME IInv, Finish
  PROVE  IInv'
<1> USE DEF IInv
<1> DEFINE caller == Len(path) - 1
<1>0. /\ state' = [state EXCEPT ![Top] = "done"]
      /\ path' = SubSeq(path, 1, caller)
      /\ tried' = [k \in 1..caller |-> IF k = caller THEN tried[k] + 1 ELSE tried[k]]
      /\ graph' = graph /\ root' = root /\ cycle' = cycle /\ status' = status
      /\ status = "searching" /\ path # << >>
      /\ tried[Len(path)] = Len(graph[Top].deps)
  BY DEF Finish, Return, Searching
<1>1. /\ Len(path) \in DOMAIN path /\ Top = path[Len(path)] /\ Top \in DOMAIN graph
      /\ caller \in Nat
  BY <1>0 DEF TypeOK, Top
<1>2. /\ path' \in Seq(DOMAIN graph) /\ Len(path') = caller
      /\ \A k \in 1..caller : path'[k] = path[k]
  BY <1>0, <1>1 DEF TypeOK
<1>3. /\ tried' \in Seq(Nat) /\ Len(tried') = caller
      /\ \A k \in 1..caller : tried'[k] = IF k = caller THEN tried[k] + 1 ELSE tried[k]
  <2>1. \A k \in 1..caller : tried[k] \in Nat
    BY <1>1 DEF TypeOK
  <2>2. tried' \in [1..caller -> Nat]
    BY <1>0, <2>1
  <2>3. tried' \in Seq(Nat) /\ Len(tried') = caller
    BY <1>1, <2>2
  <2> QED BY <1>0, <2>3
<1>4. TypeOK'
  BY <1>0, <1>1, <1>2, <1>3 DEF TypeOK
<1>5. state[Top] = "in_progress"
  BY <1>1 DEF OnPath
<1>6. \A k \in 1..caller : path[k] # Top
  <2> SUFFICES ASSUME NEW k \in 1..caller, path[k] = Top PROVE FALSE
    OBVIOUS
  <2>1. k \in DOMAIN path /\ k # Len(path)
    <3>1. DOMAIN path = 1..Len(path) /\ Len(path) \in Nat
      BY Shape
    <3>2. \A n \in Nat : \A j \in 1..(n - 1) : j \in 1..n /\ j # n
      OBVIOUS
    <3>3. k \in 1..Len(path) /\ k # Len(path)
      BY <3>1, <3>2
    <3> QED BY <3>1, <3>3
  <2> QED BY <2>1, <1>1 DEF OnPath
<1>7. OnPath'
  <2>1. DOMAIN path' = 1..caller /\ DOMAIN path = 1..(caller + 1)
    <3>1. DOMAIN path = 1..Len(path) /\ Len(path) \in Nat
      BY Shape
    <3> QED BY <3>1, <1>2
  <2>2. \A j, k \in DOMAIN path' : path'[j] = path'[k] => j = k
    BY <1>2, <2>1 DEF OnPath
  <2>3. ASSUME NEW i \in DOMAIN graph
        PROVE  state'[i] = "in_progress" <=> \E k \in DOMAIN path' : path'[k] = i
    <3>1. CASE i = Top
      BY <3>1, <1>0, <1>1, <1>2, <1>6, <2>1 DEF TypeOK
    <3>2. CASE i # Top
      <4>1. state'[i] = state[i]
        BY <3>2, <1>0 DEF TypeOK
      <4>2. ASSUME NEW k \in DOMAIN path, path[k] = i
            PROVE  k \in DOMAIN path' /\ path'[k] = i
        BY <3>2, <4>2, <1>1, <1>2, <2>1
      <4>3. ASSUME NEW k \in DOMAIN path'
            PROVE  k \in DOMAIN path /\ path'[k] = path[k]
        BY <1>2, <2>1, <1>1
      <4> QED BY <4>1, <4>2, <4>3 DEF OnPath
    <3> QED BY <3>1, <3>2
  <2> QED BY <1>0, <2>2, <2>3 DEF OnPath
<1>8. \A j : Settled(j) => Settled(j)'
  BY <1>0, <1>1 DEF Settled, TypeOK
<1>9. ASSUME NEW j, j = Top
      PROVE  Settled(j)'
  BY <1>0, <1>1, <1>9 DEF Settled, TypeOK
<1>10. caller > 0 => /\ tried[caller] < Len(graph[path[caller]].deps)
                     /\ FindDepNode(graph, graph[path[caller]].deps[tried[caller] + 1]) = Top
  BY <1>1 DEF Chain, Top
<1>11. Chain'
  <2>1. ASSUME NEW k \in 1..caller
        PROVE  tried'[k] <= Len(graph[path'[k]].deps)
    <3>1. k \in DOMAIN path /\ path[k] \in DOMAIN graph /\ tried[k] \in Nat
      BY <1>1 DEF TypeOK
    <3>2. Len(graph[path[k]].deps) \in Nat
      BY <3>1, Shape
    <3>3. tried[k] <= Len(graph[path[k]].deps)
      BY <3>1 DEF Chain
    <3>4. path'[k] = path[k] /\ tried'[k] = IF k = caller THEN tried[k] + 1 ELSE tried[k]
      BY <1>2, <1>3
    <3>5. k = caller => tried[k] < Len(graph[path[k]].deps)
      BY <1>1, <1>10
    <3> QED BY <3>1, <3>2, <3>3, <3>4, <3>5
  <2>2. ASSUME NEW k \in 1..(caller - 1)
        PROVE  /\ tried'[k] < Len(graph[path'[k]].deps)
               /\ FindDepNode(graph, graph[path'[k]].deps[tried'[k] + 1]) = path'[k + 1]
    <3>1. k \in 1..(Len(path) - 1) /\ k \in 1..caller /\ k + 1 \in 1..caller /\ k # caller
      BY <1>1
    <3>2. tried'[k] = tried[k] /\ path'[k] = path[k] /\ path'[k + 1] = path[k + 1]
      BY <3>1, <1>2, <1>3
    <3> QED BY <3>1, <3>2 DEF Chain
  <2>3. DOMAIN path' = 1..caller
    BY <1>2
  <2> QED BY <1>0, <1>2, <2>1, <2>2, <2>3 DEF Chain
<1>12. TriedSettled'
  <2> SUFFICES ASSUME NEW k \in 1..caller, NEW d \in 1..tried'[k]
               PROVE  Settled(FindDepNode(graph, graph[path[k]].deps[d]))'
    <3>1. DOMAIN path' = 1..caller /\ \A k \in 1..caller : path'[k] = path[k]
      BY <1>2
    <3> QED BY <1>0, <3>1 DEF TriedSettled
  <2>1. k \in DOMAIN path /\ tried[k] \in Nat
    BY <1>1, Shape
  <2>2. CASE d \in 1..tried[k]
    BY <1>0, <1>8, <2>1, <2>2 DEF TriedSettled
  <2>3. CASE d \notin 1..tried[k]
    <3>1. k = caller /\ d = tried[k] + 1
      <4>1. tried'[k] = IF k = caller THEN tried[k] + 1 ELSE tried[k]
        BY <1>3
      <4>2. k = caller
        BY <4>1, <2>3
      <4>3. d \in 1..(tried[k] + 1)
        BY <4>1, <4>2
      <4> QED BY <4>2, <4>3, <2>1, <2>3
    <3>2. FindDepNode(graph, graph[path[k]].deps[d]) = Top
      BY <3>1, <1>1, <1>10
    <3> QED BY <3>2, <1>0, <1>9
  <2> QED BY <2>2, <2>3
<1>13. \A j \in DOMAIN graph : Edge(graph, Top, j) => j \in Done
  <2> SUFFICES ASSUME NEW j \in DOMAIN graph, Edge(graph, Top, j) PROVE state[j] = "done"
    BY DEF Done
  <2>1. PICK d \in DOMAIN graph[Top].deps : FindDepNode(graph, graph[Top].deps[d]) = j
    BY DEF Edge
  <2>2. d \in 1..tried[Len(path)]
    BY <1>0, <1>1 DEF TypeOK, Node
  <2>3. Settled(j)
    BY <1>1, <2>1, <2>2 DEF TriedSettled
  <2>4. j # 0
    BY DEF TypeOK
  <2> QED BY <2>3, <2>4 DEF Settled
<1>14. Done' = Done \cup {Top} /\ Top \notin Done
  BY <1>0, <1>1, <1>5 DEF Done, TypeOK
<1>15. DoneClosed'
  <2> SUFFICES ASSUME NEW i \in DOMAIN graph, NEW j \in DOMAIN graph,
                      i \in Done', Edge(graph, i, j)
               PROVE  j \in Done'
    BY <1>0 DEF DoneClosed, Done
  <2> QED BY <1>13, <1>14 DEF DoneClosed, Done
<1>16. DoneAcyclic'
  <2> SUFFICES ASSUME NEW S \in SUBSET (Done \cup {Top}), S # {}
               PROVE  \E i \in S : \A j \in S : ~Edge(graph, i, j)
    BY <1>0, <1>14 DEF DoneAcyclic
  <2>1. CASE S \ {Top} = {}
    <3>1. S = {Top}
      BY <2>1
    <3>2. ~Edge(graph, Top, Top)
      BY <1>1, <1>13, <1>14
    <3> QED BY <3>1, <3>2
  <2>2. CASE S \ {Top} # {}
    <3>1. S \ {Top} \in SUBSET Done
      OBVIOUS
    <3>2. PICK i \in S \ {Top} : \A j \in S \ {Top} : ~Edge(graph, i, j)
      BY <2>2, <3>1 DEF DoneAcyclic
    <3>3. ~Edge(graph, i, Top)
      BY <3>1, <1>1, <1>14 DEF DoneClosed, Done
    <3> QED BY <3>2, <3>3
  <2> QED BY <2>1, <2>2
<1>17. RootsVisited'
  BY <1>0, <1>1 DEF RootsVisited, TypeOK
<1>18. Reported'
  BY <1>0 DEF Reported
<1> QED BY <1>4, <1>7, <1>11, <1>12, <1>15, <1>16, <1>17, <1>18

LEMMA NextIInv == IInv /\ [Next]_vars => IInv'
<1> SUFFICES ASSUME IInv, [Next]_vars PROVE IInv'
  OBVIOUS
<1>1. CASE NextRoot
  <2>1. /\ root' = root + 1 /\ root \in DOMAIN graph /\ state[root] # "unvisited"
        /\ UNCHANGED <<graph, state, path, tried, cycle, status>>
    BY <1>1 DEF NextRoot
  <2>2. TypeOK' /\ RootsVisited'
    BY <2>1 DEF IInv, TypeOK, RootsVisited
  <2>3. OnPath' /\ Chain' /\ DoneClosed' /\ DoneAcyclic' /\ Reported'
    BY <2>1 DEF IInv, OnPath, Chain, DoneClosed, DoneAcyclic, Done, Reported
  <2>4. TriedSettled'
    BY <2>1 DEF IInv, TriedSettled, Settled
  <2> QED BY <2>2, <2>3, <2>4 DEF IInv
<1>2. CASE VisitRoot
  <2>1. root \in DOMAIN graph /\ state[root] = "unvisited" /\ Enter(root) /\ Searching
        /\ path = << >>
    BY <1>2 DEF VisitRoot
  <2> QED BY <2>1, EnterIInv
<1>3. CASE NoCycle
  <2>1. /\ status' = "clean" /\ path = << >> /\ root \notin DOMAIN graph
        /\ UNCHANGED <<graph, state, path, tried, root, cycle>>
    BY <1>3 DEF NoCycle
  <2>2. root = Len(graph) + 1
    BY <2>1 DEF IInv, TypeOK
  <2>3. \A i \in DOMAIN graph : state[i] = "done"
    BY <2>1, <2>2 DEF IInv, TypeOK, RootsVisited, OnPath
  <2>4. TypeOK' /\ Reported'
    BY <2>1, <2>3 DEF IInv, TypeOK, Reported
  <2>5. OnPath' /\ Chain' /\ DoneClosed' /\ DoneAcyclic' /\ RootsVisited'
    BY <2>1 DEF IInv, OnPath, Chain, DoneClosed, DoneAcyclic, Done, RootsVisited
  <2>6. TriedSettled'
    BY <2>1 DEF IInv, TriedSettled, Settled
  <2> QED BY <2>4, <2>5, <2>6 DEF IInv
<1>4. CASE SkipDependency
  BY <1>4, SkipIInv
<1>5. CASE Descend
  <2>1. /\ AtDependency /\ Dependency # 0 /\ state[Dependency] = "unvisited"
        /\ Enter(Dependency)
    BY <1>5 DEF Descend
  <2>2. Dependency \in DOMAIN graph
    BY <2>1, DependencyType DEF IInv
  <2>3. /\ Searching /\ tried[Len(path)] < Len(graph[Top].deps)
        /\ FindDepNode(graph, graph[Top].deps[tried[Len(path)] + 1]) = Dependency
    BY <2>1 DEF AtDependency, Dependency
  <2> QED BY <2>1, <2>2, <2>3, EnterIInv
<1>6. CASE ReportCycle
  BY <1>6, ReportIInv
<1>7. CASE Finish
  BY <1>7, FinishIInv
<1>8. CASE UNCHANGED vars
  <2>1. TypeOK' /\ OnPath' /\ Chain' /\ DoneClosed' /\ DoneAcyclic'
        /\ RootsVisited' /\ Reported'
    BY <1>8 DEF IInv, vars, TypeOK, OnPath, Chain, DoneClosed, DoneAcyclic, Done,
                RootsVisited, Reported
  <2>2. TriedSettled'
    BY <1>8 DEF IInv, vars, TriedSettled, Settled
  <2> QED BY <2>1, <2>2 DEF IInv
<1> QED BY <1>1, <1>2, <1>3, <1>4, <1>5, <1>6, <1>7, <1>8 DEF Next

LEMMA AlwaysIInv == Spec => []IInv
BY InitIInv, NextIInv, PTL DEF Spec

------------------------------------------------------------------------------
(* The state of the search is well typed and a counter goes with each node *)
(* of the path.                                                            *)
THEOREM SearchTyped == Spec => []TypeOK
<1>1. IInv => TypeOK
  BY DEF IInv
<1> QED BY <1>1, AlwaysIInv, PTL

(* A graph the checker passes has no cycle.                                *)
THEOREM CleanGraphsAcyclic == Spec => []CleanIsAcyclic
<1>1. IInv => CleanIsAcyclic
  <2> SUFFICES ASSUME IInv, status = "clean", Cyclic(graph) PROVE FALSE
    BY DEF CleanIsAcyclic
  <2>1. Done = DOMAIN graph
    BY DEF IInv, Reported, Done
  <2> QED BY <2>1 DEF IInv, DoneAcyclic, Cyclic
<1> QED BY <1>1, AlwaysIInv, PTL

(* The cycle the checker reports is one.                                   *)
THEOREM ReportedCyclesReal == Spec => []CycleIsReal
<1>1. IInv => CycleIsReal
  BY DEF IInv, Reported, CycleIsReal
<1> QED BY <1>1, AlwaysIInv, PTL

(* The path array is never overrun, whatever the graph.                    *)
THEOREM PathAlwaysFits == Spec => []PathFits
<1>1. IInv => PathFits
  <2> SUFFICES ASSUME IInv PROVE Len(path) <= Len(graph)
    BY DEF PathFits
  <2>1. path \in [1..Len(path) -> 1..Len(graph)] /\ Len(path) \in Nat /\ Len(graph) \in Nat
    <3>1. TypeOK
      BY DEF IInv
    <3>2. path \in Seq(DOMAIN graph)
      BY <3>1 DEF TypeOK
    <3>3. Len(path) \in Nat /\ Len(graph) \in Nat /\ DOMAIN graph = 1..Len(graph)
      BY <3>1, Shape
    <3> QED BY <3>2, <3>3
  <2>2. path \in Injection(1..Len(path), 1..Len(graph))
    BY <2>1 DEF Injection, IsInjective, IInv, OnPath
  <2>3. /\ IsFiniteSet(1..Len(graph)) /\ Cardinality(1..Len(graph)) = Len(graph)
        /\ Cardinality(1..Len(path)) = Len(path)
    <3>1. 1 \in Int /\ Len(graph) \in Int /\ Len(path) \in Int
      BY <2>1
    <3>2. /\ IsFiniteSet(1..Len(graph))
          /\ Cardinality(1..Len(graph)) = IF 1 > Len(graph) THEN 0 ELSE Len(graph) - 1 + 1
      BY <3>1, FS_Interval
    <3>3. Cardinality(1..Len(path)) = IF 1 > Len(path) THEN 0 ELSE Len(path) - 1 + 1
      BY <3>1, FS_Interval
    <3> QED BY <2>1, <3>2, <3>3
  <2>4. Cardinality(1..Len(path)) <= Cardinality(1..Len(graph))
    BY <2>2, <2>3, FS_Injection
  <2> QED BY <2>3, <2>4
<1> QED BY <1>1, AlwaysIInv, PTL

==============================================================================
