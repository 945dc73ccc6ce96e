-------------------------- MODULE DependencyGraph --------------------------
(***************************************************************************)
(* Strongly connected components, which the translator computes for the    *)
(* derived variables and the stratifier of the search for the axioms.      *)
(* Both find them by depth-first search; what the callers rely on is that  *)
(* two nodes are in one component when each can be reached from the other. *)
(***************************************************************************)
EXTENDS FiniteSetsExt

\* The pairs of nodes connected by a path of at least one edge.
Closure(nodes, edges) ==
    FoldSet(LAMBDA k, r : r \cup {e \in nodes \X nodes : <<e[1], k>> \in r /\ <<k, e[2]>> \in r},
            edges, nodes)

ComponentOf(v, nodes, closure) ==
    {v} \cup {w \in nodes : <<v, w>> \in closure /\ <<w, v>> \in closure}

Components(nodes, edges) ==
    LET closure == Closure(nodes, edges) IN {ComponentOf(v, nodes, closure) : v \in nodes}

\* The edges between different components.
ComponentEdges(components, edges) ==
    {e \in components \X components : e[1] # e[2] /\ \E v \in e[1], w \in e[2] : <<v, w>> \in edges}

=============================================================================
