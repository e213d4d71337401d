------------------------------- MODULE Acyclicity ------------------------------
(***************************************************************************)
(* check_acyclicity of src/src/checker.c: a depth-first search over the    *)
(* graph of contracts and the names they depend on.  The recursion of      *)
(* dfs_visit is an explicit stack: path holds the nodes of the active      *)
(* calls and tried how far the loop over the dependencies of each has got. *)
(***************************************************************************)
EXTENDS DepGraph

CONSTANT Graphs    \* the dependency graphs a checker may be given

ASSUME GraphsAssumption == Graphs \subseteq Seq(Node)

------------------------------------------------------------------------------
VARIABLES
  graph,   \* the DepGraph
  state,   \* the colour of each node
  path,    \* the nodes being visited, outermost first
  tried,   \* for each node on the path, how many dependencies are dealt with
  root,    \* the node the outer loop is at
  cycle,   \* the cycle reported, or << >>
  status   \* "searching", "clean" or "cyclic"

vars == <<graph, state, path, tried, root, cycle, status>>

Init ==
  /\ graph \in Graphs
  /\ state = [i \in DOMAIN graph |-> "unvisited"]
  /\ path = << >> /\ tried = << >> /\ root = 1
  /\ cycle = << >> /\ status = "searching"

Top == path[Len(path)]
Searching == status = "searching"

(* A faulty variant: the node is entered without being coloured.           *)
EnterUncoloured(i) ==
  /\ path' = Append(path, i)
  /\ tried' = Append(tried, 0)
  /\ UNCHANGED <<graph, state, root, cycle, status>>

(* dfs_visit is called on a node.                                          *)
Enter(i) ==
  /\ state' = [state EXCEPT ![i] = "in_progress"]
  /\ path' = Append(path, i)
  /\ tried' = Append(tried, 0)
  /\ UNCHANGED <<graph, root, cycle, status>>

NextRoot ==
  /\ Searching /\ path = << >> /\ root \in DOMAIN graph
  /\ state[root] # "unvisited"
  /\ root' = root + 1
  /\ UNCHANGED <<graph, state, path, tried, cycle, status>>

VisitRoot ==
  /\ Searching /\ path = << >> /\ root \in DOMAIN graph
  /\ state[root] = "unvisited"
  /\ Enter(root)

NoCycle ==
  /\ Searching /\ path = << >> /\ root \notin DOMAIN graph
  /\ status' = "clean"
  /\ UNCHANGED <<graph, state, path, tried, root, cycle>>

(* The loop of the innermost call: it is at some dependency, or at its end. *)
AtDependency ==
  Searching /\ path # << >> /\ tried[Len(path)] < Len(graph[Top].deps)

Dependency == FindDepNode(graph, graph[Top].deps[tried[Len(path)] + 1])

(* A faulty variant: a node being visited counts as finished.              *)
SettledIfVisited(i) == i = 0 \/ (i \in DOMAIN state /\ state[i] # "unvisited")

(* External dependencies and finished ones need nothing.                   *)
Settled(i) == i = 0 \/ (i \in DOMAIN state /\ state[i] = "done")

SkipDependency ==
  /\ AtDependency /\ Settled(Dependency)
  /\ tried' = [tried EXCEPT ![Len(path)] = @ + 1]
  /\ UNCHANGED <<graph, state, path, root, cycle, status>>

Descend ==
  /\ AtDependency /\ Dependency # 0 /\ state[Dependency] = "unvisited"
  /\ Enter(Dependency)

(* The cycle is the path from the first occurrence of the dependency, or   *)
(* from its start when there is none.                                      *)
CycleStart(i) ==
  LET hits == {k \in DOMAIN path : path[k] = i}
  IN  IF hits = {} THEN 1
      ELSE CHOOSE k \in hits : \A j \in hits : k <= j

ReportCycle ==
  /\ AtDependency /\ Dependency # 0 /\ state[Dependency] = "in_progress"
  /\ cycle' = SubSeq(path, CycleStart(Dependency), Len(path))
  /\ status' = "cyclic"
  /\ UNCHANGED <<graph, state, path, tried, root>>

(* A faulty variant: the caller's loop counter is not restored.            *)
ReturnKeepsCounter(colour) ==
  /\ state' = [state EXCEPT ![Top] = colour]
  /\ path' = SubSeq(path, 1, Len(path) - 1)
  /\ UNCHANGED <<graph, tried, root, cycle, status>>

(* dfs_visit returns 0, and the caller's loop goes on.                     *)
Return(colour) ==
  LET caller == Len(path) - 1 IN
  /\ state' = [state EXCEPT ![Top] = colour]
  /\ path' = SubSeq(path, 1, caller)
  /\ tried' = [i \in 1..caller |-> IF i = caller THEN tried[i] + 1 ELSE tried[i]]
  /\ UNCHANGED <<graph, root, cycle, status>>

(* Faulty variants: the node keeps the colour of one being visited, or     *)
(* gets back that of one never visited.                                    *)
FinishUncoloured ==
  /\ Searching /\ path # << >> /\ tried[Len(path)] = Len(graph[Top].deps)
  /\ Return("in_progress")

FinishForgotten ==
  /\ Searching /\ path # << >> /\ tried[Len(path)] = Len(graph[Top].deps)
  /\ Return("unvisited")

Finish ==
  /\ Searching /\ path # << >> /\ tried[Len(path)] = Len(graph[Top].deps)
  /\ Return("done")

Next ==
  \/ NextRoot \/ VisitRoot \/ NoCycle
  \/ SkipDependency \/ Descend \/ ReportCycle \/ Finish

(* check_acyclicity runs to its end on the caller's thread.                *)
Spec == Init /\ [][Next]_vars /\ WF_vars(Next)

------------------------------------------------------------------------------
(* Every field has its type, and the path and its counters agree.          *)
TypeOK ==
  /\ graph \in Seq(Node)
  /\ state \in [DOMAIN graph -> {"unvisited", "in_progress", "done"}]
  /\ path \in Seq(DOMAIN graph)
  /\ tried \in Seq(Nat) /\ Len(tried) = Len(path)
  /\ root \in 1..(Len(graph) + 1)
  /\ cycle \in Seq(DOMAIN graph)
  /\ status \in {"searching", "clean", "cyclic"}

(* check_acyclicity passes only graphs without a cycle: a contract that is *)
(* a dependency of several others is searched once and still found to be   *)
(* harmless, and a cycle away from the first contract is found too.        *)
CleanIsAcyclic == status = "clean" => ~Cyclic(graph)

(* The error of dfs_visit names contracts that do depend on one another in *)
(* a circle: an acyclic graph is never rejected.                           *)
CycleIsReal == status = "cyclic" => IsCycle(graph, cycle)

(* The array path has one entry per contract, and dfs_visit writes to it   *)
(* without a check: no chain of calls is longer, as none repeats a node.   *)
PathFits == Len(path) <= Len(graph)

(* The search ends for every graph.                                        *)
SearchEnds == <>(status # "searching")

==============================================================================
