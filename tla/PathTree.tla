------------------------------ MODULE PathTree ------------------------------
(***************************************************************************)
(* What any search that keeps a distance and a predecessor per node does:  *)
(* it relaxes edges, in whatever order and as often as it wants.  The      *)
(* distance of a node only falls, and following the predecessors always    *)
(* ends in the root, even though the distances of the nodes below a        *)
(* relaxed one are out of date and edges may cost nothing.                 *)
(***************************************************************************)
EXTENDS Integers, TLAPS

CONSTANTS
    Nodes,
    Root,
    NoNode,
    Edges    \* triples <<node, cost, node>>

\* What the theorem is about: a graph with a root.  A module that instantiates this one
\* shows it of its own graph.
RootedGraph ==
    /\ Root \in Nodes
    /\ NoNode \notin Nodes
    /\ Edges \subseteq Nodes \X Nat \X Nodes

VARIABLES
    dist,    \* the distance a node was last reached with, -1 before that
    pred     \* the node it was last reached from

tree == <<dist, pred>>

Reached == {n \in Nodes : dist[n] >= 0}

Init ==
    /\ dist = [n \in Nodes |-> -1]
    /\ pred = [n \in Nodes |-> NoNode]

Start ==
    /\ dist[Root] = -1
    /\ dist' = [dist EXCEPT ![Root] = 0]
    /\ UNCHANGED pred

Relax(m, c, n) ==
    /\ m \in Reached
    /\ n \in Reached => dist[m] + c < dist[n]
    /\ dist' = [dist EXCEPT ![n] = dist[m] + c]
    /\ pred' = [pred EXCEPT ![n] = m]

Next == Start \/ \E e \in Edges : Relax(e[1], e[2], e[3])

Spec == Init /\ [][Next]_tree

-----------------------------------------------------------------------------

TypeOK ==
    /\ dist \in [Nodes -> Nat \cup {-1}]
    /\ pred \in [Nodes -> Nodes \cup {NoNode}]

\* The distance of a node is at least what its predecessor has by now plus the edge.
PredecessorsCloser ==
    /\ dist[Root] \in {-1, 0}
    /\ Reached # {} => Root \in Reached
    /\ \A n \in Reached \ {Root} :
          /\ pred[n] \in Reached
          /\ \E c \in Nat : <<pred[n], c, n>> \in Edges /\ dist[pred[n]] + c <= dist[n]

\* Every set of reached nodes has one whose predecessor is elsewhere: no cycle.
NoCycle == \A C \in SUBSET Reached : C # {} => \E n \in C : pred[n] \notin C

RootHasNoPredecessor == pred[Root] = NoNode

TreeInv == TypeOK /\ RootHasNoPredecessor /\ PredecessorsCloser /\ NoCycle

-----------------------------------------------------------------------------

\* Starting at the root, or relaxing an edge, keeps what predecessors say about distances.
LEMMA StartKeepsTree == RootedGraph /\ TreeInv /\ Start => TreeInv'
<1> SUFFICES ASSUME RootedGraph, TreeInv, Start PROVE TreeInv'
    OBVIOUS
<1> USE DEF RootedGraph, TreeInv, TypeOK, RootHasNoPredecessor
<1>1. TypeOK' /\ RootHasNoPredecessor'
    BY DEF Start
<1>2. Reached = {} /\ Reached' = {Root}
    BY DEF Start, Reached, PredecessorsCloser
<1>3. PredecessorsCloser'
    BY <1>2 DEF Start, PredecessorsCloser
<1>4. NoCycle'
    BY <1>2 DEF Start, NoCycle
<1> QED
    BY <1>1, <1>3, <1>4

\* Relaxing an edge keeps predecessors closer and free of cycles.
LEMMA RelaxKeepsTree ==
    \A e \in Edges : RootedGraph /\ TreeInv /\ Relax(e[1], e[2], e[3]) => TreeInv'
<1> SUFFICES ASSUME NEW e \in Edges, RootedGraph, TreeInv, Relax(e[1], e[2], e[3]) PROVE TreeInv'
    OBVIOUS
<1> DEFINE m == e[1]  c == e[2]  n == e[3]
<1>1. e = <<m, c, n>> /\ m \in Nodes /\ c \in Nat /\ n \in Nodes
    BY DEF RootedGraph
<1> HIDE DEF m, c, n
<1>2. Relax(m, c, n)
    BY DEF m, c, n
<1> USE DEF TreeInv, TypeOK
<1>3. /\ m \in Reached /\ dist[m] \in Nat
      /\ dist' = [dist EXCEPT ![n] = dist[m] + c]
      /\ pred' = [pred EXCEPT ![n] = m]
    BY <1>1, <1>2 DEF Relax, Reached
<1>4. dist' \in [Nodes -> Nat \cup {-1}] /\ pred' \in [Nodes -> Nodes \cup {NoNode}]
    BY <1>1, <1>3
<1>5. n \in Reached => dist[m] + c < dist[n]
    BY <1>2 DEF Relax
<1>6. Root \in Reached /\ dist[Root] = 0 /\ n # Root
    BY <1>1, <1>3, <1>5 DEF RootedGraph, PredecessorsCloser, Reached
<1>7. RootHasNoPredecessor'
    BY <1>3, <1>6 DEF RootedGraph, RootHasNoPredecessor
<1>8. Reached' = Reached \cup {n}
    BY <1>1, <1>3, <1>4 DEF Reached
<1>9. \A x \in Reached : dist'[x] <= dist[x]
    BY <1>1, <1>3, <1>5 DEF Reached
<1>10. PredecessorsCloser'
  <2>1. dist'[Root] \in {-1, 0} /\ Root \in Reached'
    BY <1>1, <1>3, <1>6, <1>8 DEF RootedGraph
  <2>2. ASSUME NEW x \in Reached' \ {Root}
        PROVE  /\ pred'[x] \in Reached'
               /\ \E k \in Nat : <<pred'[x], k, x>> \in Edges /\ dist'[pred'[x]] + k <= dist'[x]
    <3>1. CASE x = n
      <4>1. pred'[x] = m /\ dist'[x] = dist[m] + c
        BY <1>1, <1>3, <3>1
      <4>2. dist'[m] <= dist[m] /\ dist'[m] \in Nat \cup {-1}
        BY <1>1, <1>3, <1>4, <1>9
      <4>3. dist'[m] + c <= dist'[x]
        BY <4>1, <4>2, <1>1, <1>3
      <4> QED
        BY <4>1, <4>3, <1>1, <1>3, <1>8, <3>1
    <3>2. CASE x # n
      <4>1. x \in Reached \ {Root} /\ x \in Nodes
        BY <3>2, <1>8 DEF Reached
      <4>2. pred'[x] = pred[x] /\ dist'[x] = dist[x]
        BY <3>2, <4>1, <1>3
      <4>3. PICK k \in Nat : <<pred[x], k, x>> \in Edges /\ dist[pred[x]] + k <= dist[x]
        BY <4>1 DEF PredecessorsCloser
      <4>4. pred[x] \in Reached /\ pred[x] \in Nodes
        BY <4>1 DEF PredecessorsCloser, Reached
      <4>5. dist'[pred[x]] <= dist[pred[x]]
        BY <4>4, <1>9
      <4>6. dist'[pred[x]] + k <= dist[x]
        BY <4>1, <4>3, <4>4, <4>5, <1>4
      <4> QED
        BY <4>2, <4>3, <4>4, <4>6, <1>8
    <3> QED
        BY <3>1, <3>2
  <2> QED
    BY <2>1, <2>2 DEF PredecessorsCloser
<1>11. NoCycle'
  \* A cycle would hold n and m; its nodes that were closer than n formed one before.
  <2> SUFFICES ASSUME NEW C \in SUBSET Reached', C # {}, \A x \in C : pred'[x] \in C PROVE FALSE
    BY DEF NoCycle
  <2>1. C \subseteq Nodes
    BY DEF Reached
  <2>2. CASE n \notin C
    <3>1. C \subseteq Reached /\ \A x \in C : pred[x] \in C
      BY <2>1, <2>2, <1>3, <1>8
    <3> QED
      BY <3>1 DEF NoCycle
  <2>3. CASE n \in C
    <3> DEFINE D == {x \in C : x \in Reached /\ (n \in Reached => dist[x] < dist[n])} \ {n}
    <3>1. m \in C
      BY <2>3, <1>1, <1>3
    <3>2. m # n
      BY <1>3, <1>5, <1>1
    <3>3. m \in D
      BY <3>1, <3>2, <1>1, <1>3, <1>5 DEF Reached
    <3>4. ASSUME NEW x \in D PROVE pred[x] \in D
      <4>1. x \in C /\ x \in Reached /\ x # n /\ x \in Nodes
        BY <2>1
      <4>2. pred[x] \in C
        BY <4>1, <1>3
      <4>3. x # Root
        BY <4>2, <2>1 DEF RootedGraph, RootHasNoPredecessor
      <4>4. PICK k \in Nat : dist[pred[x]] + k <= dist[x]
        BY <4>1, <4>3 DEF PredecessorsCloser
      <4>5. pred[x] \in Reached /\ pred[x] \in Nodes
        BY <4>1, <4>3 DEF PredecessorsCloser, Reached
      <4>6. n \in Reached => dist[pred[x]] < dist[n]
        BY <4>1, <4>4, <4>5, <1>1
      <4>7. pred[x] # n
        BY <4>5, <4>6, <1>1
      <4> QED
        BY <4>2, <4>5, <4>6, <4>7
    <3>5. D \in SUBSET Reached /\ D # {}
      BY <3>3
    <3> QED
      BY <3>4, <3>5 DEF NoCycle
  <2> QED
    BY <2>2, <2>3
<1> QED
    BY <1>4, <1>7, <1>10, <1>11

\* Following the predecessors of a reached node ends in the root, at every moment of every
\* search that relaxes edges, in any order: what trace_path of search_space.cc relies on.
THEOREM TreeSafe == RootedGraph => (Spec => []TreeInv)
<1> SUFFICES ASSUME RootedGraph PROVE Spec => []TreeInv
    OBVIOUS
<1>1. Init => TreeInv
    BY DEF RootedGraph, Init, TreeInv, TypeOK, RootHasNoPredecessor, PredecessorsCloser,
                          NoCycle, Reached
<1>2. TreeInv /\ [Next]_tree => TreeInv'
  <2>1. TreeInv /\ UNCHANGED tree => TreeInv'
    BY DEF TreeInv, TypeOK, RootHasNoPredecessor, PredecessorsCloser, NoCycle, Reached, tree
  <2> QED
    BY <2>1, StartKeepsTree, RelaxKeepsTree DEF Next
<1> QED
    BY <1>1, <1>2, PTL DEF Spec

=============================================================================
