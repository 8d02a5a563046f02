--------------------------------- MODULE Cfg ----------------------------------
(***************************************************************************)
(* Textbook definitions about control flow graphs, against which the       *)
(* algorithms of the optimizer are checked.  A graph is given by a finite  *)
(* set N of nodes, a set E of edges <<from, to>> and an entry node.        *)
(***************************************************************************)
EXTENDS Naturals, FiniteSets

\* The nodes reachable from the set S in any number of steps.
ReachableFrom(S, N, E) ==
  LET within[k \in 0 .. Cardinality(N)] ==
        IF k = 0 THEN S
        ELSE LET closer == within[k - 1] IN closer \cup {n \in N : \E m \in closer : <<m, n>> \in E}
  IN  within[Cardinality(N)]

\* The nodes n can reach in at least one step.
Beyond(n, N, E) == ReachableFrom({m \in N : <<n, m>> \in E}, N, E)

\* The nodes that d dominates, itself included: every path from the entry to them
\* goes through d.
DominatedBy(d, entry, N, E) ==
  LET R == ReachableFrom({entry}, N, E)
  IN  R \ ReachableFrom({entry} \ {d}, R \ {d}, {e \in E : e[1] # d})

\* The pairs <<d, n>> where d dominates n.
Dominance(entry, N, E) ==
  UNION {{d} \X DominatedBy(d, entry, N, E) : d \in ReachableFrom({entry}, N, E)}

\* The pairs <<d, n>> where d is the closest of the strict dominators of n.
IdomPairs(entry, N, E) ==
  LET D == Dominance(entry, N, E)
  IN  {e \in D : /\ e[1] # e[2]
                 /\ \A c \in N \ {e[2]} : <<c, e[2]>> \in D => <<c, e[1]>> \in D}

\* The dominance frontier of n: joins that n does not strictly dominate, but one
\* of whose predecessors it dominates.
Frontier(n, entry, N, E) ==
  LET D == DominatedBy(n, entry, N, E) IN
    {j \in {e[2] : e \in {e \in E : e[1] \in D}} : j \notin D \/ j = n}

\* Every cycle is entered through one node only, which dominates the others: the
\* edges whose target does not dominate their source form no cycle.
Reducible(entry, N, E) ==
  LET R == ReachableFrom({entry}, N, E)
      D == Dominance(entry, N, E)
      forward == {e \in E : e[1] \in R /\ <<e[2], e[1]>> \notin D}
  IN  \A n \in R : n \notin Beyond(n, R, forward)

\* The loops of a reducible graph: for each header, the nodes from which an edge back
\* to it can be reached without going through it.
NaturalLoops(entry, N, E) ==
  LET R == ReachableFrom({entry}, N, E)
      D == Dominance(entry, N, E)
      back == {e \in E : <<e[2], e[1]>> \in D}
      Body(h) == {h} \cup ReachableFrom({e[1] : e \in {e \in back : e[2] = h}} \ {h}, R \ {h},
                                        {<<e[2], e[1]>> : e \in {e \in E : h \notin {e[1], e[2]}}})
  IN  {[base |-> h, bbs |-> Body(h)] : h \in {e[2] : e \in back}}
===============================================================================
