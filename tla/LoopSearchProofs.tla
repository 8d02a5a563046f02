--------------------------- MODULE LoopSearchProofs ---------------------------
(***************************************************************************)
(* Proofs about LoopSearch, for every control flow graph: the stack of     *)
(* Tarjan's algorithm holds the nodes that are marked on it, in the order  *)
(* of their indices, and is empty when a search has ended; so every round  *)
(* begins with a clean slate, and the bases never come back.               *)
(***************************************************************************)
EXTENDS LoopSearch, CfgProofs

-------------------------------------------------------------------------------
(* The inductive invariant *)

\* What the pass is given: edges between blocks of the function, and loops over sets that
\* come to their elements.
Given ==
  /\ MaxBlock \in Nat \ {0}
  /\ \A S \in SUBSET BB : Order(S) \subseteq S
  /\ listed \in Seq(BB)
  /\ pre \in [BB -> Seq(BB)] /\ succ \in [BB -> Seq(BB)]
  /\ \A b \in BB : ToSet(pre[b]) \cup ToSet(succ[b]) \subseteq ToSet(listed)

Typed ==
  /\ pc \in {"search", "bases", "done", "crashed"}
  /\ succs \in [BB -> SUBSET Nodes] /\ prevs \in [BB -> SUBSET Nodes]
  /\ index \in [BB -> 0 .. MaxBlock] /\ lowlink \in [BB -> 0 .. MaxBlock]
  /\ onStack \in [BB -> BOOLEAN] /\ index_count \in 1 .. MaxBlock + 1
  /\ node_stack \in Seq(BB) /\ calls \in Seq(BB \X SUBSET Nodes)
  /\ sccs \subseteq SUBSET Nodes
  /\ bb2base \in [BB -> BB \cup {None}]

\* A block is in the graph or a base, and a base, like the rest of a component, has been
\* searched and keeps its index.
Parted ==
  /\ nodes \cup reserved = Nodes /\ nodes \cap reserved = {}
  /\ \A b \in reserved \cup UNION sccs : index[b] # None

Indexed == {b \in nodes : index[b] # None}

\* The nodes on the stack are those marked; they are in the order of their indices, and
\* so are the activations, each with its node on the stack and the first one at the
\* bottom, below which no lowlink goes.
Stacked ==
  /\ \A b \in BB : onStack[b] <=> b \in ToSet(node_stack)
  /\ \A b \in BB : lowlink[b] <= index[b]
  /\ \A i \in DOMAIN node_stack : /\ 0 < index[node_stack[i]]
                                  /\ lowlink[node_stack[i]] >= index[node_stack[1]]
  /\ \A i, j \in DOMAIN node_stack : i < j => index[node_stack[i]] < index[node_stack[j]]
  /\ \A i, j \in DOMAIN calls : i < j => index[calls[i][1]] < index[calls[j][1]]
  /\ \A j \in DOMAIN calls : calls[j][1] \in ToSet(node_stack)
  /\ IF calls = << >> THEN node_stack = << >> ELSE node_stack[1] = calls[1][1]

\* As many indices have been given as nodes of the graph have one.
Counted == /\ index_count = Cardinality(Indexed) + 1
           /\ ToSet(node_stack) \subseteq nodes
           /\ \A b \in nodes : index[b] < index_count

LInv == /\ Given /\ Typed /\ Parted /\ Stacked
        /\ IF pc = "search" THEN Counted ELSE calls = << >>

-------------------------------------------------------------------------------
(* Steps of a search *)

\* The blocks of the function.
LEMMA Blocks ==
  ASSUME Given
  PROVE  /\ MaxBlock \in Nat \ {0} /\ Nodes \subseteq BB
         /\ IsFiniteSet(BB) /\ Cardinality(BB) = MaxBlock
<1>1. MaxBlock \in Nat \ {0} /\ listed \in Seq(BB)
  BY DEF Given
<1>2. Nodes \subseteq BB
  BY <1>1, ElementOfSeq, LenProperties DEF Nodes, ToSet
<1>3. IsFiniteSet(BB) /\ Cardinality(BB) = MaxBlock
  <2>1. 1 \in Int /\ MaxBlock \in Int /\ ~ 1 > MaxBlock /\ MaxBlock - 1 + 1 = MaxBlock
    BY <1>1
  <2> QED BY <2>1, FS_Interval DEF BB
<1> QED BY <1>1, <1>2, <1>3

\* The function is only read.
LEMMA SameFunction ==
  ASSUME UNCHANGED function
  PROVE  (Given' <=> Given) /\ Nodes' = Nodes
BY DEF function, Given, Nodes

\* The positions on the stack.
LEMMA OnTheStack ==
  ASSUME LInv
  PROVE  /\ DOMAIN node_stack = 1 .. Len(node_stack) /\ Len(node_stack) \in Nat
         /\ DOMAIN calls = 1 .. Len(calls) /\ Len(calls) \in Nat
         /\ \A i \in DOMAIN node_stack : node_stack[i] \in BB
         /\ \A j \in DOMAIN calls : calls[j][1] \in BB /\ calls[j][2] \in SUBSET Nodes
         /\ \A b \in BB : index[b] \in Nat /\ lowlink[b] \in Nat
         /\ node_stack # << >> => 1 \in DOMAIN node_stack
         /\ calls # << >> => 1 \in DOMAIN calls /\ node_stack # << >>
<1>1. /\ node_stack \in Seq(BB) /\ calls \in Seq(BB \X SUBSET Nodes)
      /\ index \in [BB -> 0 .. MaxBlock] /\ lowlink \in [BB -> 0 .. MaxBlock]
      /\ MaxBlock \in Nat
  BY DEF LInv, Typed, Given
<1>2. /\ DOMAIN node_stack = 1 .. Len(node_stack) /\ Len(node_stack) \in Nat
      /\ \A i \in DOMAIN node_stack : node_stack[i] \in BB
      /\ node_stack # << >> => Len(node_stack) # 0
  BY <1>1, ElementOfSeq, LenProperties, EmptySeq
<1>3. /\ DOMAIN calls = 1 .. Len(calls) /\ Len(calls) \in Nat
      /\ \A j \in DOMAIN calls : calls[j] \in BB \X SUBSET Nodes
      /\ calls # << >> => Len(calls) # 0
  BY <1>1, ElementOfSeq, LenProperties, EmptySeq
<1>4. calls # << >> => \E b : b \in ToSet(node_stack)
  BY <1>3 DEF LInv, Stacked
<1>5. calls # << >> => node_stack # << >>
  BY <1>4 DEF ToSet
<1> QED BY <1>1, <1>2, <1>3, <1>5

\* traverse is called on a node without an index.
LEMMA Called ==
  ASSUME LInv, pc = "search", NEW n \in nodes, index[n] = None,
         NEW above \in Seq(BB \X SUBSET Nodes), Len(above) = Len(calls),
         \A j \in DOMAIN calls : above[j][1] = calls[j][1],
         Call(n, above), UNCHANGED <<function, pc, graph, sccs, found>>
  PROVE  LInv'
<1>1. /\ Given /\ Typed /\ Parted /\ Stacked /\ Counted
  BY DEF LInv
<1>2. /\ Given' /\ Nodes' = Nodes /\ nodes' = nodes /\ succs' = succs /\ prevs' = prevs
      /\ pc' = pc /\ sccs' = sccs /\ reserved' = reserved /\ bb2base' = bb2base
  BY <1>1, SameFunction DEF graph, found
<1>3. n \in BB /\ n \in Nodes /\ succs[n] \in SUBSET Nodes
  BY <1>1, Blocks DEF Parted, Typed
<1> DEFINE c == index_count
           N == Indexed
<1>4. /\ index' = [index EXCEPT ![n] = c] /\ lowlink' = [lowlink EXCEPT ![n] = c]
      /\ index_count' = c + 1 /\ onStack' = [onStack EXCEPT ![n] = TRUE]
      /\ node_stack' = Append(node_stack, n) /\ calls' = Append(above, <<n, succs[n]>>)
  BY DEF Call
<1>5. /\ index'[n] = c /\ lowlink'[n] = c /\ onStack'[n]
      /\ \A b \in BB \ {n} : /\ index'[b] = index[b] /\ lowlink'[b] = lowlink[b]
                             /\ onStack'[b] = onStack[b]
  BY <1>1, <1>3, <1>4 DEF Typed
<1>6. c \in Nat \ {0} /\ c <= MaxBlock /\ Cardinality(N \cup {n}) = c /\ MaxBlock \in Nat
  <2>1. N \cup {n} \subseteq BB /\ N \subseteq BB /\ n \notin N
    BY <1>1, <1>3, Blocks DEF Indexed, Parted
  <2>2. IsFiniteSet(N) /\ IsFiniteSet(BB) /\ Cardinality(BB) = MaxBlock /\ MaxBlock \in Nat
    BY <1>1, <2>1, Blocks, FS_Subset
  <2>3. Cardinality(N \cup {n}) = Cardinality(N) + 1 /\ Cardinality(N) \in Nat
    BY <2>1, <2>2, FS_AddElement, FS_CardinalityType
  <2>4. Cardinality(N \cup {n}) <= Cardinality(BB)
    BY <2>1, <2>2, FS_Subset
  <2> QED BY <1>1, <2>2, <2>3, <2>4 DEF Counted
<1>7. Indexed' = N \cup {n}
  <2>1. \A b \in nodes : index'[b] # None <=> b = n \/ index[b] # None
    BY <1>1, <1>3, <1>5, <1>6, Blocks DEF Parted, None
  <2> QED BY <1>2, <2>1 DEF Indexed
<1> HIDE DEF N
<1>8. /\ node_stack' \in Seq(BB) /\ DOMAIN node_stack' = 1 .. Len(node_stack) + 1
      /\ \A i \in 1 .. Len(node_stack) : node_stack'[i] = node_stack[i]
      /\ node_stack'[Len(node_stack) + 1] = n
      /\ ToSet(node_stack') = ToSet(node_stack) \cup {n} /\ node_stack' # << >>
  <2>1. node_stack \in Seq(BB)
    BY <1>1 DEF Typed
  <2> QED BY <1>3, <1>4, <2>1, AppendFacts
<1>9. /\ calls' \in Seq(BB \X SUBSET Nodes) /\ calls' # << >>
      /\ DOMAIN calls' = 1 .. Len(calls) + 1
      /\ \A j \in 1 .. Len(calls) : calls'[j][1] = calls[j][1]
      /\ calls'[Len(calls) + 1][1] = n
  <2>1. <<n, succs[n]>> \in BB \X SUBSET Nodes
    BY <1>3
  <2>2. /\ calls' \in Seq(BB \X SUBSET Nodes) /\ calls' # << >>
        /\ DOMAIN calls' = 1 .. Len(calls) + 1
        /\ \A j \in 1 .. Len(calls) : calls'[j] = above[j]
        /\ calls'[Len(calls) + 1] = <<n, succs[n]>>
    BY <1>4, <2>1, AppendFacts
  <2>3. DOMAIN calls = 1 .. Len(calls)
    BY OnTheStack
  <2>4. \A j \in 1 .. Len(calls) : calls'[j][1] = calls[j][1]
    BY <2>2, <2>3
  <2>5. calls'[Len(calls) + 1][1] = n
    BY <2>2
  <2> QED BY <2>2, <2>4, <2>5
<1>10. \A i \in DOMAIN node_stack : /\ node_stack[i] \in nodes /\ node_stack[i] \in BB
                                    /\ node_stack[i] # n /\ index[node_stack[i]] < c
                                    /\ index[node_stack[i]] > 0
  <2>1. \A i \in DOMAIN node_stack : node_stack[i] \in nodes
    BY <1>1 DEF Counted, ToSet
  <2> QED BY <1>1, <2>1, OnTheStack DEF Counted, Stacked, None
<1>11. Typed'
  <2>1. c \in 0 .. MaxBlock /\ c + 1 \in 1 .. MaxBlock + 1
    BY <1>6
  <2>2. /\ index' \in [BB -> 0 .. MaxBlock] /\ lowlink' \in [BB -> 0 .. MaxBlock]
        /\ onStack' \in [BB -> BOOLEAN] /\ index_count' \in 1 .. MaxBlock + 1
    BY <1>1, <1>4, <2>1 DEF Typed
  <2> QED BY <1>1, <1>2, <1>8, <1>9, <2>2 DEF Typed
<1>12. Parted'
  <2>1. \A b \in reserved \cup UNION sccs : b \in BB /\ b # n
    BY <1>1, Blocks DEF Parted, Typed
  <2> QED BY <1>1, <1>2, <1>5, <2>1 DEF Parted
<1>13. Counted'
  <2>1. \A b \in nodes : b \in BB /\ index[b] \in Nat
    BY <1>1, Blocks, OnTheStack DEF Parted
  <2>2. \A b \in nodes : index'[b] < index_count'
    BY <1>1, <1>4, <1>5, <1>6, <2>1 DEF Counted
  <2>3. ToSet(node_stack') \subseteq nodes'
    BY <1>1, <1>2, <1>8 DEF Counted
  <2>4. index_count' = Cardinality(Indexed') + 1
    BY <1>4, <1>6, <1>7
  <2> QED BY <1>2, <2>2, <2>3, <2>4 DEF Counted
<1>14. Stacked'
  <2> DEFINE m == Len(node_stack)
             k == Len(calls)
  <2>1. /\ m \in Nat /\ k \in Nat /\ DOMAIN node_stack = 1 .. m /\ DOMAIN calls = 1 .. k
        /\ DOMAIN node_stack' = 1 .. m + 1 /\ DOMAIN calls' = 1 .. k + 1
    BY <1>8, <1>9, OnTheStack
  <2>2. \A b \in BB : onStack'[b] <=> b \in ToSet(node_stack')
    BY <1>1, <1>5, <1>8 DEF Stacked
  <2>3. \A b \in BB : lowlink'[b] <= index'[b]
    BY <1>1, <1>5, <1>6 DEF Stacked
  <2>4. \A i \in 1 .. m : /\ index'[node_stack'[i]] = index[node_stack[i]]
                          /\ lowlink'[node_stack'[i]] = lowlink[node_stack[i]]
    BY <1>5, <1>8, <1>10, <2>1
  <2>5. index'[node_stack'[m + 1]] = c /\ lowlink'[node_stack'[m + 1]] = c
    BY <1>5, <1>8
  <2>6. \A i \in 1 .. m : index[node_stack[i]] \in Nat /\ lowlink[node_stack[i]] \in Nat
    BY <2>1, OnTheStack
  <2>7. \A i, j \in DOMAIN node_stack' : i < j => index'[node_stack'[i]] < index'[node_stack'[j]]
    <3> TAKE i, j \in DOMAIN node_stack'
    <3> HAVE i < j
    <3>1. i \in 1 .. m /\ (j \in 1 .. m \/ j = m + 1)
      BY <2>1
    <3>2. CASE j \in 1 .. m
      BY <1>1, <2>1, <2>4, <3>1, <3>2 DEF Stacked
    <3>3. CASE j = m + 1
      BY <1>10, <2>1, <2>4, <2>5, <3>1, <3>3
    <3> QED BY <3>1, <3>2, <3>3
  <2>8. \A i \in DOMAIN node_stack' :
          0 < index'[node_stack'[i]] /\ lowlink'[node_stack'[i]] >= index'[node_stack'[1]]
    <3> TAKE i \in DOMAIN node_stack'
    <3>1. CASE m = 0
      <4>1. i = m + 1 /\ 1 = m + 1
        BY <2>1, <3>1
      <4> QED BY <1>6, <2>5, <4>1
    <3>2. CASE m # 0
      <4>1. 1 \in 1 .. m /\ (i \in 1 .. m \/ i = m + 1)
        BY <2>1, <3>2
      <4>2. CASE i \in 1 .. m
        BY <1>1, <2>1, <2>4, <4>1, <4>2 DEF Stacked
      <4>3. CASE i = m + 1
        <5>1. index'[node_stack'[1]] = index[node_stack[1]] /\ index[node_stack[1]] < c
          BY <1>10, <2>1, <2>4, <4>1
        <5> QED BY <1>6, <2>1, <2>5, <2>6, <4>1, <4>3, <5>1
      <4> QED BY <4>1, <4>2, <4>3
    <3> QED BY <3>1, <3>2
  <2>9. \A j \in 1 .. k : calls[j][1] \in BB /\ calls[j][1] # n /\ calls[j][1] \in ToSet(node_stack)
    BY <1>1, <1>10, <2>1, OnTheStack DEF Stacked, ToSet
  <2>10. \A j \in DOMAIN calls' : calls'[j][1] \in ToSet(node_stack')
    BY <1>8, <1>9, <2>1, <2>9
  <2>11. \A i, j \in DOMAIN calls' : i < j => index'[calls'[i][1]] < index'[calls'[j][1]]
    <3> TAKE i, j \in DOMAIN calls'
    <3> HAVE i < j
    <3>1. i \in 1 .. k /\ (j \in 1 .. k \/ j = k + 1)
      BY <2>1
    <3>2. index'[calls'[i][1]] = index[calls[i][1]]
      BY <1>5, <1>9, <2>9, <3>1
    <3>3. CASE j \in 1 .. k
      <4>1. index'[calls'[j][1]] = index[calls[j][1]]
        BY <1>5, <1>9, <2>9, <3>3
      <4> QED BY <1>1, <2>1, <3>1, <3>2, <3>3, <4>1 DEF Stacked
    <3>4. CASE j = k + 1
      <4>1. index[calls[i][1]] < c
        BY <1>10, <2>9, <3>1 DEF ToSet
      <4> QED BY <1>5, <1>9, <3>2, <3>4, <4>1
    <3> QED BY <3>1, <3>3, <3>4
  <2>12. node_stack'[1] = calls'[1][1]
    <3>1. CASE calls = << >>
      <4>1. node_stack = << >>
        BY <1>1, <3>1 DEF Stacked
      <4>2. m = 0 /\ k = 0
        BY <3>1, <4>1
      <4> QED BY <1>8, <1>9, <4>2
    <3>2. CASE calls # << >>
      <4>1. 1 \in 1 .. k /\ 1 \in 1 .. m /\ node_stack[1] = calls[1][1]
        BY <1>1, <2>1, <3>2, OnTheStack DEF Stacked
      <4> QED BY <1>8, <1>9, <4>1
    <3> QED BY <3>1, <3>2
  <2> QED BY <1>9, <2>2, <2>3, <2>7, <2>8, <2>10, <2>11, <2>12 DEF Stacked
<1> QED BY <1>2, <1>11, <1>12, <1>13, <1>14 DEF LInv

\* A search starts from a node that has no index.
LEMMA KeptByStartFrom ==
  ASSUME LInv, NEW n \in BB, StartFrom(n)
  PROVE  LInv'
<1>1. /\ pc = "search" /\ calls = << >> /\ n \in Order({m \in nodes : index[m] = None})
      /\ Call(n, << >>) /\ UNCHANGED <<function, pc, graph, sccs, found>>
  BY DEF StartFrom
<1>2. n \in nodes /\ index[n] = None
  <2>1. Given /\ nodes \subseteq BB
    BY Blocks DEF LInv, Parted
  <2>2. {m \in nodes : index[m] = None} \in SUBSET BB
    BY <2>1
  <2>3. n \in {m \in nodes : index[m] = None}
    BY <1>1, <2>1, <2>2 DEF Given
  <2> QED BY <2>3
<1> DEFINE above == << >>
<1>3. /\ above \in Seq(BB \X SUBSET Nodes) /\ Len(above) = Len(calls)
      /\ \A j \in DOMAIN calls : above[j][1] = calls[j][1]
  BY <1>1
<1>4. Call(n, above)
  BY <1>1
<1> HIDE DEF above
<1> QED BY <1>1, <1>2, <1>3, <1>4, Called

\* The next successor is called, or may lower the lowlink, but not below the bottom's index.
LEMMA KeptByVisitSuccessor ==
  ASSUME LInv, NEW su \in BB, VisitSuccessor(su)
  PROVE  LInv'
<1> DEFINE k == Len(calls)
           n == Last(calls)[1]
           above == Append(Front(calls), <<n, Last(calls)[2] \ {su}>>)
<1>1. /\ Given /\ Typed /\ Parted /\ Stacked /\ Counted /\ pc = "search" /\ calls # << >>
      /\ su \in Order(Last(calls)[2])
      /\ UNCHANGED <<function, pc, graph, sccs, found>>
  BY DEF VisitSuccessor, LInv
<1>2. /\ calls \in Seq(BB \X SUBSET Nodes) /\ k \in Nat \ {0} /\ DOMAIN calls = 1 .. k
      /\ Last(calls) = calls[k] /\ calls[k] \in BB \X SUBSET Nodes
      /\ Front(calls) \in Seq(BB \X SUBSET Nodes) /\ Len(Front(calls)) = k - 1
      /\ \A j \in 1 .. k - 1 : Front(calls)[j] = calls[j]
  <2>1. calls \in Seq(BB \X SUBSET Nodes)
    BY <1>1 DEF Typed
  <2> QED BY <1>1, <2>1, FrontFacts
<1>3. n \in BB /\ Last(calls)[2] \in SUBSET Nodes /\ n = calls[k][1]
  BY <1>2
<1>4. su \in Nodes
  <2> DEFINE S == Last(calls)[2]
  <2>1. S \in SUBSET Nodes /\ su \in Order(S)
    BY <1>1, <1>3
  <2> HIDE DEF S
  <2>2. S \in SUBSET BB
    BY <1>1, <2>1, Blocks
  <2>3. Order(S) \subseteq S
    BY <1>1, <2>2 DEF Given
  <2> QED BY <2>1, <2>3
<1>5. <<n, Last(calls)[2] \ {su}>> \in BB \X SUBSET Nodes
  BY <1>3
<1>6. /\ above \in Seq(BB \X SUBSET Nodes) /\ Len(above) = k /\ DOMAIN above = 1 .. k
      /\ above # << >> /\ \A j \in 1 .. k : above[j][1] = calls[j][1]
  <2> DEFINE q == Front(calls)
             e == <<n, Last(calls)[2] \ {su}>>
             T == BB \X SUBSET Nodes
  <2>1. q \in Seq(T) /\ e \in T /\ Len(q) = k - 1 /\ above = Append(q, e) /\ e[1] = n
    BY <1>2, <1>5
  <2>2. \A j \in 1 .. k - 1 : q[j] = calls[j]
    BY <1>2
  <2> HIDE DEF q, e, T
  <2>3. /\ Append(q, e) \in Seq(T) /\ Len(Append(q, e)) = Len(q) + 1
        /\ DOMAIN Append(q, e) = 1 .. Len(q) + 1 /\ Append(q, e) # << >>
        /\ \A j \in 1 .. Len(q) : Append(q, e)[j] = q[j]
        /\ Append(q, e)[Len(q) + 1] = e
    BY <2>1, AppendFacts
  <2>4. /\ above \in Seq(T) /\ Len(above) = k /\ DOMAIN above = 1 .. k /\ above # << >>
        /\ \A j \in 1 .. k - 1 : above[j] = calls[j]
        /\ above[k] = e
    <3> HIDE DEF above
    <3>1. Len(q) + 1 = k /\ k \in Nat
      BY <1>2, <2>1
    <3> QED BY <2>1, <2>2, <2>3, <3>1
  <2> HIDE DEF above, n
  <2>5. \A j \in 1 .. k : above[j][1] = calls[j][1]
    <3> TAKE j \in 1 .. k
    <3>1. CASE j = k
      BY <1>3, <2>1, <2>4, <3>1
    <3>2. CASE j # k
      <4>1. k \in Nat \ {0}
        BY <1>2
      <4>2. j \in 1 .. k - 1
        BY <3>2, <4>1
      <4> QED BY <2>4, <4>2
    <3> QED BY <3>1, <3>2
  <2> QED BY <2>4, <2>5 DEF T
<1>7. IF index[su] = None THEN Call(su, above)
      ELSE /\ lowlink' = IF onStack[su] THEN [lowlink EXCEPT ![n] = Least(index[su], lowlink[n])]
                         ELSE lowlink
           /\ calls' = above
           /\ UNCHANGED <<index, onStack, index_count, node_stack>>
  BY DEF VisitSuccessor
<1> HIDE DEF above, n
<1>8. CASE index[su] = None
  <2>1. su \in nodes
    BY <1>1, <1>4, <1>8 DEF Parted
  <2> QED BY <1>1, <1>2, <1>6, <1>7, <1>8, <2>1, Called
<1>9. CASE index[su] # None
  <2>1. /\ Given' /\ Nodes' = Nodes /\ nodes' = nodes /\ succs' = succs /\ prevs' = prevs
        /\ pc' = pc /\ sccs' = sccs /\ reserved' = reserved /\ bb2base' = bb2base
        /\ index' = index /\ onStack' = onStack /\ index_count' = index_count
        /\ node_stack' = node_stack /\ calls' = above
    BY <1>1, <1>7, <1>9, SameFunction DEF graph, found
  <2>2. n \in ToSet(node_stack)
    BY <1>1, <1>2, <1>3 DEF Stacked
  <2>3. \A b \in ToSet(node_stack) : /\ b \in BB /\ index[b] \in Nat /\ lowlink[b] \in Nat
                                     /\ index[b] >= index[node_stack[1]]
                                     /\ lowlink[b] >= index[node_stack[1]]
                                     /\ index[node_stack[1]] \in Nat
    <3> TAKE b \in ToSet(node_stack)
    <3>1. PICK i \in DOMAIN node_stack : node_stack[i] = b
      BY DEF ToSet
    <3>2. 1 \in DOMAIN node_stack /\ (i = 1 \/ 1 < i) /\ b \in BB /\ node_stack[1] \in BB
      BY <3>1, OnTheStack
    <3>3. index[b] \in Nat /\ lowlink[b] \in Nat /\ index[node_stack[1]] \in Nat
      BY <3>2, OnTheStack
    <3>4. lowlink[b] >= index[node_stack[1]]
      BY <1>1, <3>1 DEF Stacked
    <3>5. 1 < i => index[node_stack[1]] < index[node_stack[i]]
      BY <1>1, <3>2 DEF Stacked
    <3>6. index[b] >= index[node_stack[1]]
      BY <3>1, <3>2, <3>3, <3>5
    <3> QED BY <3>2, <3>3, <3>4, <3>6
  <2>4. /\ lowlink' \in [BB -> 0 .. MaxBlock]
        /\ \A b \in BB : lowlink'[b] <= index[b]
        /\ \A b \in ToSet(node_stack) : lowlink'[b] >= index[node_stack[1]]
    <3>1. CASE ~ onStack[su]
      <4>1. lowlink' = lowlink
        BY <1>7, <1>9, <3>1
      <4> QED BY <1>1, <2>3, <4>1 DEF Typed, Stacked
    <3>2. CASE onStack[su]
      <4>1. lowlink' = [lowlink EXCEPT ![n] = Least(index[su], lowlink[n])]
        BY <1>7, <1>9, <3>2
      <4>2. su \in ToSet(node_stack)
        BY <1>1, <3>2 DEF Stacked
      <4>3. /\ Least(index[su], lowlink[n]) \in Nat
            /\ Least(index[su], lowlink[n]) <= lowlink[n]
            /\ Least(index[su], lowlink[n]) >= index[node_stack[1]]
        BY <2>2, <2>3, <4>2 DEF Least
      <4>4. lowlink[n] \in 0 .. MaxBlock /\ lowlink[n] <= index[n] /\ MaxBlock \in Nat
        BY <1>1, <1>3, Blocks DEF Typed, Stacked
      <4>5. Least(index[su], lowlink[n]) \in 0 .. MaxBlock
        BY <4>3, <4>4
      <4>6. lowlink' \in [BB -> 0 .. MaxBlock]
        BY <1>1, <4>1, <4>5 DEF Typed
      <4>7. /\ lowlink'[n] = Least(index[su], lowlink[n])
            /\ \A b \in BB \ {n} : lowlink'[b] = lowlink[b]
        BY <1>1, <1>3, <4>1 DEF Typed
      <4>8. \A b \in BB : lowlink'[b] <= index[b]
        <5> TAKE b \in BB
        <5>1. CASE b = n
          BY <2>2, <2>3, <4>3, <4>4, <4>7, <5>1
        <5>2. CASE b # n
          BY <1>1, <4>7, <5>2 DEF Stacked
        <5> QED BY <5>1, <5>2
      <4>9. \A b \in ToSet(node_stack) : lowlink'[b] >= index[node_stack[1]]
        BY <2>3, <4>3, <4>7
      <4> QED BY <4>6, <4>8, <4>9
    <3> QED BY <3>1, <3>2
  <2>5. Typed'
    BY <1>1, <1>6, <2>1, <2>4 DEF Typed
  <2>6. Parted' /\ Counted'
    BY <1>1, <2>1 DEF Parted, Counted, Indexed
  <2>7. Stacked'
    <3>1. \A i \in DOMAIN node_stack : node_stack[i] \in ToSet(node_stack)
      BY DEF ToSet
    <3>2. \A i \in DOMAIN node_stack :
            0 < index[node_stack[i]] /\ lowlink'[node_stack[i]] >= index[node_stack[1]]
      BY <1>1, <2>4, <3>1 DEF Stacked
    <3>3. \A i, j \in DOMAIN above : i < j => index[above[i][1]] < index[above[j][1]]
      BY <1>1, <1>2, <1>6 DEF Stacked
    <3>4. \A j \in DOMAIN above : above[j][1] \in ToSet(node_stack)
      BY <1>1, <1>2, <1>6 DEF Stacked
    <3>5. above # << >> /\ node_stack[1] = above[1][1]
      BY <1>1, <1>2, <1>6 DEF Stacked
    <3> QED BY <1>1, <2>1, <2>4, <3>2, <3>3, <3>4, <3>5 DEF Stacked
  <2> QED BY <1>1, <2>1, <2>5, <2>6, <2>7 DEF LInv
<1> QED BY <1>8, <1>9

\* The node of the last activation is on the stack; if it is the root of a component, it
\* goes off the stack with all that is above it; the first activation is always a root.
LEMMA KeptByLeave ==
  ASSUME LInv, Leave
  PROVE  LInv'
<1> DEFINE k == Len(calls)
           m == Len(node_stack)
           n == Last(calls)[1]
           from == CHOOSE i \in DOMAIN node_stack : node_stack[i] = n
           component == {node_stack[i] : i \in from .. m}
           isRoot == index[n] = lowlink[n]
           q == IF isRoot THEN from - 1 ELSE m
           caller == calls[k - 1][1]
<1>1. /\ Given /\ Typed /\ Parted /\ Stacked /\ Counted /\ pc = "search" /\ calls # << >>
      /\ UNCHANGED <<function, pc, graph, index, index_count, found>>
  BY DEF Leave, LInv
<1>2. /\ calls' = Front(calls)
      /\ node_stack' = IF isRoot THEN SubSeq(node_stack, 1, from - 1) ELSE node_stack
      /\ onStack' = [b \in BB |-> onStack[b] /\ ~ (isRoot /\ b \in component)]
      /\ sccs' = IF isRoot /\ component # {n} THEN sccs \cup {component} ELSE sccs
      /\ lowlink' = IF k = 1 THEN lowlink
                    ELSE [lowlink EXCEPT ![caller] = Least(lowlink[n], lowlink[caller])]
  BY DEF Leave
<1>3. /\ k \in Nat \ {0} /\ DOMAIN calls = 1 .. k /\ n = calls[k][1]
      /\ Front(calls) \in Seq(BB \X SUBSET Nodes) /\ DOMAIN Front(calls) = 1 .. k - 1
      /\ Len(Front(calls)) = k - 1
      /\ \A j \in 1 .. k - 1 : Front(calls)[j] = calls[j]
  <2>1. calls \in Seq(BB \X SUBSET Nodes)
    BY <1>1 DEF Typed
  <2> QED BY <1>1, <2>1, FrontFacts
<1>4. /\ m \in Nat /\ DOMAIN node_stack = 1 .. m
      /\ \A i \in 1 .. m : node_stack[i] \in BB /\ index[node_stack[i]] \in Nat
      /\ \A j \in 1 .. k : calls[j][1] \in BB
      /\ \A b \in BB : index[b] \in Nat /\ lowlink[b] \in Nat
  BY <1>3, OnTheStack
<1>5. \A i, j \in 1 .. m : node_stack[i] = node_stack[j] => i = j
  <2> SUFFICES ASSUME NEW i \in 1 .. m, NEW j \in 1 .. m, node_stack[i] = node_stack[j], i < j
               PROVE  FALSE
    BY <1>4
  <2>1. index[node_stack[i]] < index[node_stack[j]]
    BY <1>1, <1>4 DEF Stacked
  <2> QED BY <1>4, <2>1
<1>6. from \in 1 .. m /\ node_stack[from] = n
  <2>1. n \in ToSet(node_stack)
    BY <1>1, <1>3 DEF Stacked
  <2>2. \E i \in DOMAIN node_stack : node_stack[i] = n
    BY <2>1 DEF ToSet
  <2> QED BY <1>4, <2>2
<1> HIDE DEF from, n
<1>7. n \in BB /\ q \in 0 .. m /\ 1 \in 1 .. m /\ node_stack[1] = calls[1][1]
  BY <1>1, <1>3, <1>4, <1>6 DEF Stacked
<1>8. /\ node_stack' \in Seq(BB) /\ DOMAIN node_stack' = 1 .. q
      /\ \A i \in 1 .. q : node_stack'[i] = node_stack[i]
      /\ q = 0 <=> node_stack' = << >>
  <2>1. node_stack \in Seq(BB)
    BY <1>1 DEF Typed
  <2>2. CASE ~ isRoot
    BY <1>2, <1>4, <2>1, <2>2, EmptySeq
  <2>3. CASE isRoot
    <3> DEFINE r == from - 1
    <3>1. r \in Nat /\ r <= m /\ 1 \in Int /\ r \in Int /\ q = r
      BY <1>4, <1>6, <2>3
    <3>2. \A i \in 1 .. r : node_stack[i] \in BB
      BY <1>4, <3>1
    <3> HIDE DEF r
    <3>3. /\ SubSeq(node_stack, 1, r) \in Seq(BB)
          /\ Len(SubSeq(node_stack, 1, r)) = IF 1 <= r THEN r - 1 + 1 ELSE 0
          /\ \A i \in 1 .. r - 1 + 1 : SubSeq(node_stack, 1, r)[i] = node_stack[1 + i - 1]
      BY <2>1, <3>1, <3>2, SubSeqProperties
    <3>4. Len(SubSeq(node_stack, 1, r)) = r
      BY <3>1, <3>3
    <3>5. ASSUME NEW i \in 1 .. r PROVE SubSeq(node_stack, 1, r)[i] = node_stack[i]
      <4>1. 1 + i - 1 = i /\ i \in 1 .. r - 1 + 1
        BY <3>1
      <4> QED BY <3>3, <4>1
    <3>6. node_stack' = SubSeq(node_stack, 1, r)
      BY <1>2, <2>3 DEF r
    <3>7. DOMAIN node_stack' = 1 .. r /\ (r = 0 <=> node_stack' = << >>)
      BY <3>3, <3>4, <3>6, LenProperties, EmptySeq
    <3> QED BY <3>1, <3>3, <3>5, <3>6, <3>7
  <2> QED BY <2>2, <2>3
<1>9. \A i \in 1 .. m : isRoot /\ node_stack[i] \in component <=> i > q
  <2> TAKE i \in 1 .. m
  <2>1. node_stack[i] \in component <=> i >= from
    BY <1>4, <1>5, <1>6
  <2> QED BY <1>4, <1>6, <2>1
<1>10. \A b \in BB : onStack'[b] <=> b \in ToSet(node_stack')
  <2> TAKE b \in BB
  <2>1. b \in ToSet(node_stack) <=> \E i \in 1 .. m : node_stack[i] = b
    BY <1>4 DEF ToSet
  <2>2. b \in ToSet(node_stack') <=> \E i \in 1 .. q : node_stack[i] = b
    BY <1>8 DEF ToSet
  <2>3. onStack[b] <=> b \in ToSet(node_stack)
    BY <1>1 DEF Stacked
  <2>4. onStack'[b] <=> onStack[b] /\ ~ (isRoot /\ b \in component)
    BY <1>2
  <2>5. CASE \E i \in 1 .. m : node_stack[i] = b
    <3>1. PICK i \in 1 .. m : node_stack[i] = b
      BY <2>5
    <3>2. isRoot /\ b \in component <=> i > q
      BY <1>9, <3>1
    <3>3. (\E j \in 1 .. q : node_stack[j] = b) <=> i <= q
      BY <1>4, <1>5, <1>7, <3>1
    <3> QED BY <1>4, <1>7, <2>1, <2>2, <2>3, <2>4, <2>5, <3>2, <3>3
  <2>6. CASE ~ \E i \in 1 .. m : node_stack[i] = b
    <3>1. ~ \E j \in 1 .. q : node_stack[j] = b
      BY <1>4, <1>7, <2>6
    <3> QED BY <2>1, <2>2, <2>3, <2>4, <2>6, <3>1
  <2> QED BY <2>5, <2>6
<1>11. \A j \in 1 .. k - 1 : \E g \in 1 .. q : calls[j][1] = node_stack[g]
  <2> TAKE j \in 1 .. k - 1
  <2>1. j \in 1 .. k /\ j < k
    BY <1>3
  <2>2. index[calls[j][1]] < index[n]
    BY <1>1, <1>3, <2>1 DEF Stacked
  <2>3. PICK g \in 1 .. m : calls[j][1] = node_stack[g]
    <3>1. calls[j][1] \in ToSet(node_stack)
      BY <1>1, <1>3, <2>1 DEF Stacked
    <3> QED BY <1>4, <3>1 DEF ToSet
  <2>4. from < g => index[node_stack[from]] < index[node_stack[g]]
    BY <1>1, <1>4, <1>6 DEF Stacked
  <2>5. g < from
    BY <1>4, <1>6, <2>2, <2>3, <2>4
  <2>6. g \in 1 .. q
    BY <1>4, <1>6, <2>5
  <2> QED BY <2>3, <2>6
<1>12. k = 1 => q = 0
  <2> SUFFICES ASSUME k = 1 PROVE q = 0
    OBVIOUS
  <2>1. n = node_stack[1] /\ from = 1
    BY <1>3, <1>5, <1>6, <1>7
  <2>2. lowlink[n] <= index[n] /\ lowlink[n] >= index[n]
    BY <1>1, <1>4, <1>6, <1>7, <2>1 DEF Stacked
  <2>3. isRoot
    BY <1>4, <1>7, <2>2
  <2> QED BY <2>1, <2>3
<1>13. k # 1 => q # 0 /\ k - 1 \in 1 .. k - 1 /\ 1 \in 1 .. k - 1
  <2> SUFFICES ASSUME k # 1 PROVE q # 0 /\ k - 1 \in 1 .. k - 1 /\ 1 \in 1 .. k - 1
    OBVIOUS
  <2>1. k - 1 \in 1 .. k - 1 /\ 1 \in 1 .. k - 1
    BY <1>3
  <2>2. \E g \in 1 .. q : calls[k - 1][1] = node_stack[g]
    BY <1>11, <2>1
  <2> QED BY <1>7, <2>1, <2>2
<1>14. /\ lowlink' \in [BB -> 0 .. MaxBlock]
       /\ \A b \in BB : lowlink'[b] <= index[b]
       /\ \A i \in 1 .. m : lowlink'[node_stack[i]] >= index[node_stack[1]]
  <2>1. CASE k = 1
    BY <1>1, <1>2, <1>4, <2>1 DEF Typed, Stacked
  <2>2. CASE k # 1
    <3> DEFINE low == Least(lowlink[n], lowlink[caller])
    <3>1. PICK g \in 1 .. q : caller = node_stack[g]
      BY <1>11, <1>13, <2>2
    <3>2. g \in 1 .. m /\ caller \in BB
      BY <1>4, <1>7, <3>1
    <3>3. /\ lowlink[n] >= index[node_stack[1]] /\ lowlink[caller] >= index[node_stack[1]]
          /\ lowlink[n] \in Nat /\ lowlink[caller] \in Nat /\ index[node_stack[1]] \in Nat
      BY <1>1, <1>4, <1>6, <1>7, <3>1, <3>2 DEF Stacked
    <3>4. low \in Nat /\ low <= lowlink[caller] /\ low >= index[node_stack[1]]
      BY <3>3 DEF Least
    <3>5. lowlink[caller] \in 0 .. MaxBlock /\ lowlink[caller] <= index[caller] /\ MaxBlock \in Nat
      BY <1>1, <3>2, Blocks DEF Typed, Stacked
    <3>6. low \in 0 .. MaxBlock
      BY <3>4, <3>5
    <3>7. lowlink' = [lowlink EXCEPT ![caller] = low]
      BY <1>2, <2>2
    <3> HIDE DEF low, caller
    <3>8. lowlink' \in [BB -> 0 .. MaxBlock]
      BY <1>1, <3>6, <3>7 DEF Typed
    <3>9. lowlink'[caller] = low /\ \A b \in BB \ {caller} : lowlink'[b] = lowlink[b]
      BY <1>1, <3>2, <3>7 DEF Typed
    <3>10. \A b \in BB : lowlink'[b] <= index[b]
      <4> TAKE b \in BB
      <4>1. CASE b = caller
        BY <1>4, <3>3, <3>4, <3>5, <3>9, <4>1
      <4>2. CASE b # caller
        BY <1>1, <3>9, <4>2 DEF Stacked
      <4> QED BY <4>1, <4>2
    <3>11. \A i \in 1 .. m : lowlink'[node_stack[i]] >= index[node_stack[1]]
      <4> TAKE i \in 1 .. m
      <4>1. CASE node_stack[i] = caller
        BY <3>4, <3>9, <4>1
      <4>2. CASE node_stack[i] # caller
        BY <1>1, <1>4, <3>9, <4>2 DEF Stacked
      <4> QED BY <4>1, <4>2
    <3> QED BY <3>8, <3>10, <3>11
  <2> QED BY <2>1, <2>2
<1>15. component \in SUBSET Nodes /\ \A b \in component : index[b] # None
  <2>1. \A i \in from .. m : i \in 1 .. m
    BY <1>4, <1>6
  <2>2. \A i \in 1 .. m : node_stack[i] \in Nodes /\ index[node_stack[i]] # None
    <3>1. \A i \in 1 .. m : node_stack[i] \in ToSet(node_stack)
      BY <1>4 DEF ToSet
    <3> QED BY <1>1, <1>4, <3>1 DEF Stacked, None, Counted, Parted
  <2> QED BY <2>1, <2>2
<1>16. /\ Given' /\ Nodes' = Nodes /\ nodes' = nodes /\ succs' = succs /\ prevs' = prevs
       /\ pc' = pc /\ reserved' = reserved /\ bb2base' = bb2base
       /\ index' = index /\ index_count' = index_count
  BY <1>1, SameFunction DEF graph, found
<1> HIDE DEF component, isRoot, q, caller
<1>17. sccs' \subseteq sccs \cup {component}
  BY <1>2
<1>18. onStack' \in [BB -> BOOLEAN]
  <2>1. onStack' = [b \in BB |-> onStack[b] /\ ~ (isRoot /\ b \in component)]
    BY <1>2
  <2>2. \A b \in BB : (onStack[b] /\ ~ (isRoot /\ b \in component)) \in BOOLEAN
    OBVIOUS
  <2> QED BY <2>1, <2>2
<1>19. Typed'
  <2>1. sccs' \subseteq SUBSET Nodes
    BY <1>1, <1>15, <1>17 DEF Typed
  <2> QED BY <1>1, <1>2, <1>3, <1>8, <1>14, <1>16, <1>18, <2>1 DEF Typed
<1>20. Parted'
  <2>1. \A b \in reserved \cup UNION sccs' : index[b] # None
    BY <1>1, <1>15, <1>17 DEF Parted
  <2> QED BY <1>1, <1>16, <2>1 DEF Parted
<1>21. Counted'
  <2>1. ToSet(node_stack') \subseteq ToSet(node_stack)
    BY <1>4, <1>7, <1>8 DEF ToSet
  <2> QED BY <1>1, <1>16, <2>1 DEF Counted, Indexed
<1>22. Stacked'
  <2>1. \A i \in 1 .. q : i \in 1 .. m
    BY <1>4, <1>7
  <2>2. \A i \in DOMAIN node_stack' :
          0 < index[node_stack'[i]] /\ lowlink'[node_stack'[i]] >= index[node_stack'[1]]
    <3> TAKE i \in DOMAIN node_stack'
    <3>1. i \in 1 .. q /\ 1 \in 1 .. q /\ i \in 1 .. m
      BY <1>7, <1>8, <2>1
    <3>2. node_stack'[i] = node_stack[i] /\ node_stack'[1] = node_stack[1]
      BY <1>8, <3>1
    <3>3. 0 < index[node_stack[i]]
      BY <1>1, <1>4, <3>1 DEF Stacked
    <3> QED BY <1>14, <3>1, <3>2, <3>3
  <2>3. \A i, j \in DOMAIN node_stack' : i < j => index[node_stack'[i]] < index[node_stack'[j]]
    BY <1>1, <1>4, <1>8, <2>1 DEF Stacked
  <2>0. \A j \in 1 .. k - 1 : j \in 1 .. k
    <3>1. k \in Nat \ {0}
      BY <1>3
    <3> QED BY <3>1
  <2>4. DOMAIN calls' = 1 .. k - 1 /\ \A j \in 1 .. k - 1 : calls'[j] = calls[j]
    BY <1>2, <1>3
  <2>5. \A i, j \in DOMAIN calls' : i < j => index[calls'[i][1]] < index[calls'[j][1]]
    BY <1>1, <1>3, <2>0, <2>4 DEF Stacked
  <2>6. \A j \in DOMAIN calls' : calls'[j][1] \in ToSet(node_stack')
    <3> TAKE j \in DOMAIN calls'
    <3>1. PICK g \in 1 .. q : calls[j][1] = node_stack[g]
      BY <1>11, <2>4
    <3>2. g \in DOMAIN node_stack' /\ node_stack'[g] = calls'[j][1]
      BY <1>8, <2>4, <3>1
    <3> QED BY <3>2 DEF ToSet
  <2>7. IF calls' = << >> THEN node_stack' = << >> ELSE node_stack'[1] = calls'[1][1]
    <3>1. calls' = << >> <=> k = 1
      <4>1. Len(calls') = k - 1 /\ calls' \in Seq(BB \X SUBSET Nodes)
        BY <1>2, <1>3
      <4> QED BY <1>3, <4>1, EmptySeq
    <3>2. CASE k = 1
      BY <1>8, <1>12, <3>1, <3>2
    <3>3. CASE k # 1
      <4>1. 1 \in 1 .. q /\ 1 \in 1 .. k - 1
        BY <1>7, <1>13, <3>3
      <4> QED BY <1>7, <1>8, <2>4, <3>1, <3>3, <4>1
    <3> QED BY <3>2, <3>3
  <2> QED BY <1>10, <1>14, <1>16, <2>2, <2>3, <2>5, <2>6, <2>7 DEF Stacked
<1> QED BY <1>1, <1>16, <1>19, <1>20, <1>21, <1>22 DEF LInv

\* A search ends with empty stacks.
LEMMA KeptByEndSearch ==
  ASSUME LInv, EndSearch
  PROVE  LInv'
<1>1. /\ Given /\ Typed /\ Parted /\ Stacked /\ calls = << >>
      /\ pc' \in {"bases", "done"}
      /\ UNCHANGED <<function, graph, tarjan, sccs, found>>
  BY DEF EndSearch, LInv
<1>2. /\ Given' /\ Nodes' = Nodes
      /\ UNCHANGED <<nodes, succs, prevs, index, lowlink, onStack, index_count, calls,
                     node_stack, sccs, reserved, bb2base>>
  BY <1>1, SameFunction DEF graph, tarjan, found
<1>3. Typed' /\ Parted' /\ Stacked'
  BY <1>1, <1>2 DEF Typed, Parted, Stacked
<1> QED BY <1>1, <1>2, <1>3 DEF LInv

-------------------------------------------------------------------------------
(* Steps between searches *)

\* A base leaves the graph and is reserved.
LEMMA KeptByTakeComponent ==
  ASSUME LInv, NEW scc \in sccs, TakeComponent(scc)
  PROVE  LInv'
<1>1. /\ Given /\ Typed /\ Parted /\ Stacked /\ calls = << >> /\ pc = "bases"
      /\ sccs' = sccs \ {scc} /\ UNCHANGED <<function, tarjan>>
      /\ IF Bases(scc) = {} THEN pc' = "crashed" /\ UNCHANGED <<graph, found>>
         ELSE /\ \E base \in Order(Bases(scc)) : KeepLoop(scc, base) /\ RemoveBase(base)
              /\ UNCHANGED pc
  BY DEF TakeComponent, LInv
<1>2. /\ Given' /\ Nodes' = Nodes
      /\ UNCHANGED <<index, lowlink, onStack, index_count, calls, node_stack>>
  BY <1>1, SameFunction DEF tarjan
<1>3. Stacked' /\ pc' \in {"bases", "crashed"} /\ scc \in SUBSET Nodes /\ scc \in SUBSET BB
  BY <1>1, <1>2, Blocks DEF Stacked, Typed
<1>4. CASE Bases(scc) = {}
  <2>1. UNCHANGED <<nodes, succs, prevs, reserved, bb2base>>
    BY <1>1, <1>4 DEF graph, found
  <2>2. Typed'
    BY <1>1, <1>2, <1>3, <2>1 DEF Typed
  <2>3. Parted'
    BY <1>1, <1>2, <2>1 DEF Parted
  <2> QED BY <1>1, <1>2, <1>3, <2>2, <2>3 DEF LInv
<1>5. CASE Bases(scc) # {}
  <2>1. PICK base \in Order(Bases(scc)) : KeepLoop(scc, base) /\ RemoveBase(base)
    BY <1>1, <1>5
  <2>2. base \in scc
    <3>1. Bases(scc) \subseteq scc
      BY DEF Bases
    <3> DEFINE S == Bases(scc)
    <3>2. S \in SUBSET BB /\ base \in Order(S)
      BY <1>3, <3>1
    <3> HIDE DEF S
    <3>3. base \in S
      BY <1>1, <3>2 DEF Given
    <3> QED BY <3>1, <3>3 DEF S
  <2>3. /\ bb2base' = [b \in BB |-> IF b \in scc THEN base ELSE bb2base[b]]
        /\ reserved' = reserved \cup {base} /\ nodes' = nodes \ {base}
        /\ prevs' = [b \in BB |-> IF b \in succs[base] THEN prevs[b] \ {base} ELSE prevs[b]]
        /\ succs' = [b \in BB |-> IF b \in prevs[base] THEN succs[b] \ {base} ELSE succs[b]]
    BY <2>1 DEF KeepLoop, RemoveBase
  <2>4. base \in BB /\ index[base] # None
    BY <1>1, <1>3, <2>2 DEF Parted
  <2>5. base \in Nodes
    BY <1>3, <2>2
  <2>6. Typed'
    <3>1. prevs' \in [BB -> SUBSET Nodes] /\ succs' \in [BB -> SUBSET Nodes]
      BY <1>1, <2>3 DEF Typed
    <3>2. bb2base' \in [BB -> BB \cup {None}]
      BY <1>1, <2>3, <2>4 DEF Typed
    <3> QED BY <1>1, <1>2, <1>3, <3>1, <3>2 DEF Typed
  <2>7. Parted'
    <3>1. nodes' \cup reserved' = Nodes /\ nodes' \cap reserved' = {}
      BY <1>1, <2>3, <2>5 DEF Parted
    <3>2. \A b \in reserved' \cup UNION sccs' : index[b] # None
      BY <1>1, <2>3, <2>4 DEF Parted
    <3> QED BY <1>2, <3>1, <3>2 DEF Parted
  <2> QED BY <1>1, <1>2, <1>3, <2>6, <2>7 DEF LInv
<1> QED BY <1>4, <1>5

\* The next round begins without an index in the graph.
LEMMA KeptByNextRound ==
  ASSUME LInv, NextRound
  PROVE  LInv'
<1>1. /\ Given /\ Typed /\ Parted /\ Stacked /\ calls = << >> /\ pc' = "search" /\ sccs = {}
      /\ index' = [n \in BB |-> IF n \in nodes THEN None ELSE index[n]]
      /\ lowlink' = [n \in BB |-> IF n \in nodes THEN None ELSE lowlink[n]]
      /\ onStack' = [n \in BB |-> onStack[n] /\ n \notin nodes]
      /\ index_count' = 1
      /\ UNCHANGED <<function, graph, calls, node_stack, sccs, found>>
  BY DEF NextRound, LInv
<1>2. /\ Given' /\ Nodes' = Nodes /\ MaxBlock \in Nat \ {0}
      /\ UNCHANGED <<nodes, succs, prevs, calls, node_stack, sccs, reserved, bb2base>>
  BY <1>1, SameFunction, Blocks DEF graph, found
<1>3. node_stack = << >> /\ DOMAIN node_stack = {} /\ DOMAIN calls = {} /\ ToSet(node_stack) = {}
  BY <1>1 DEF Stacked, ToSet
<1>4. Typed'
  <2>1. None \in 0 .. MaxBlock /\ 1 \in 1 .. MaxBlock + 1
    BY <1>2 DEF None
  <2>2. index' \in [BB -> 0 .. MaxBlock] /\ lowlink' \in [BB -> 0 .. MaxBlock]
    BY <1>1, <2>1 DEF Typed
  <2>3. onStack' \in [BB -> BOOLEAN]
    BY <1>1
  <2> QED BY <1>1, <1>2, <2>1, <2>2, <2>3 DEF Typed
<1>5. Parted'
  <2>1. \A b \in reserved : b \in BB /\ b \notin nodes /\ index[b] # None
    BY <1>1, Blocks DEF Parted
  <2> QED BY <1>1, <1>2, <2>1 DEF Parted
<1>6. Stacked'
  <2>1. \A b \in BB : onStack'[b] <=> b \in ToSet(node_stack)
    BY <1>1, <1>3 DEF Stacked
  <2>2. \A b \in BB : lowlink'[b] <= index'[b]
    BY <1>1 DEF Stacked, None
  <2> QED BY <1>1, <1>2, <1>3, <2>1, <2>2 DEF Stacked
<1>7. Counted'
  <2>1. Indexed' = {}
    BY <1>1, <1>2, Blocks DEF Indexed, Parted
  <2>2. \A b \in nodes : index'[b] < 1
    BY <1>1, Blocks DEF Parted, None
  <2> QED BY <1>1, <1>2, <1>3, <2>1, <2>2, FS_EmptySet DEF Counted
<1> QED BY <1>1, <1>2, <1>4, <1>5, <1>6, <1>7 DEF LInv

-------------------------------------------------------------------------------
(* The invariant *)

\* build_cfg's copy of a function is where the pass begins.
LEMMA Started ==
  ASSUME Given, Start
  PROVE  LInv
<1>1. /\ pc = "search" /\ nodes = Nodes
      /\ succs = [b \in BB |-> ToSet(succ[b])] /\ prevs = [b \in BB |-> ToSet(pre[b])]
      /\ index = [b \in BB |-> None] /\ lowlink = index
      /\ onStack = [b \in BB |-> FALSE]
      /\ index_count = 1 /\ calls = << >> /\ node_stack = << >>
      /\ sccs = {} /\ reserved = {}
      /\ bb2base = [b \in BB |-> None]
  BY DEF Start, Idle, Nodes
<1>2. MaxBlock \in Nat \ {0} /\ Nodes \subseteq BB
  BY Blocks
<1>3. DOMAIN node_stack = {} /\ DOMAIN calls = {} /\ ToSet(node_stack) = {}
  BY <1>1 DEF ToSet
<1>4. Typed
  <2>1. None \in 0 .. MaxBlock /\ 1 \in 1 .. MaxBlock + 1
    BY <1>2 DEF None
  <2>2. \A b \in BB : ToSet(succ[b]) \in SUBSET Nodes /\ ToSet(pre[b]) \in SUBSET Nodes
    BY DEF Given, Nodes
  <2>3. succs \in [BB -> SUBSET Nodes] /\ prevs \in [BB -> SUBSET Nodes]
    BY <1>1, <2>2
  <2>4. node_stack \in Seq(BB) /\ calls \in Seq(BB \X SUBSET Nodes)
    BY <1>1
  <2> QED BY <1>1, <2>1, <2>3, <2>4 DEF Typed
<1>5. Parted
  BY <1>1 DEF Parted
<1>6. Stacked
  BY <1>1, <1>3 DEF Stacked, None
<1>7. Counted
  <2>1. Indexed = {}
    BY <1>1, <1>2 DEF Indexed
  <2>2. \A b \in nodes : index[b] < 1
    BY <1>1, <1>2 DEF None
  <2> QED BY <1>1, <1>3, <2>1, <2>2, FS_EmptySet DEF Counted
<1> QED BY <1>1, <1>4, <1>5, <1>6, <1>7 DEF LInv

\* So it is for the state after build_cfg.
LEMMA StartedNext == (Given /\ Start)' => LInv'
<1>1. Given /\ Start => LInv
  BY Started
<1> QED BY <1>1, PTL

\* Every step of the pass keeps the invariant.
LEMMA KeptByNext ==
  ASSUME LInv, [Next]_vars
  PROVE  LInv'
<1>1. ASSUME NEW n \in BB, StartFrom(n) PROVE LInv'
  BY <1>1, KeptByStartFrom
<1>2. ASSUME NEW n \in BB, VisitSuccessor(n) PROVE LInv'
  BY <1>2, KeptByVisitSuccessor
<1>3. CASE Leave
  BY <1>3, KeptByLeave
<1>4. CASE EndSearch
  BY <1>4, KeptByEndSearch
<1>5. CASE NextRound
  BY <1>5, KeptByNextRound
<1>6. ASSUME NEW scc \in sccs, TakeComponent(scc) PROVE LInv'
  BY <1>6, KeptByTakeComponent
<1>7. CASE UNCHANGED vars
  <2>1. UNCHANGED <<function, pc, nodes, succs, prevs, index, lowlink, onStack, index_count,
                    calls, node_stack, sccs, reserved, bb2base>>
    BY <1>7 DEF vars, graph, tarjan, found
  <2>2. (Given' <=> Given) /\ Nodes' = Nodes
    BY <2>1, SameFunction
  <2> QED BY <2>1, <2>2 DEF LInv, Typed, Parted, Stacked, Counted, Indexed
<1> QED BY <1>1, <1>2, <1>3, <1>4, <1>5, <1>6, <1>7 DEF Next

\* The ranges of the variables, and what is on the stack (TypeOK).
LEMMA InRange ==
  ASSUME LInv
  PROVE  TypeOK
<1>1. Given /\ Typed /\ Parted /\ Stacked /\ MaxBlock \in Nat \ {0}
      /\ Nodes \subseteq BB /\ Cardinality(BB) = MaxBlock
  BY Blocks DEF LInv
<1>2. succs \in [BB -> SUBSET BB] /\ prevs \in [BB -> SUBSET BB]
  BY <1>1 DEF Typed
<1>3. \A b \in BB : index[b] \in 0 .. MaxBlock /\ lowlink[b] \in 0 .. index[b]
  <2> TAKE b \in BB
  <2>1. index[b] \in 0 .. MaxBlock /\ lowlink[b] \in 0 .. MaxBlock /\ lowlink[b] <= index[b]
    BY <1>1 DEF Typed, Stacked
  <2> QED BY <1>1, <2>1
<1>4. ToSet(node_stack) = {b \in BB : onStack[b]}
  <2>1. ToSet(node_stack) \subseteq BB
    BY OnTheStack DEF ToSet
  <2> QED BY <1>1, <2>1 DEF Stacked
<1>5. nodes \subseteq Nodes /\ reserved \cap nodes = {}
  BY <1>1 DEF Parted
<1> QED BY <1>1, <1>2, <1>3, <1>4, <1>5 DEF TypeOK, Typed

\* In every step of a call of run(), for every function, the variables stay in their
\* ranges, a base does not come back into the graph, and the nodes on the stack are those
\* that are marked on it.
THEOREM StackIsMarked == Given /\ Start /\ [][Next]_vars => []TypeOK
<1>1. Given /\ Start => LInv
  BY Started
<1>2. LInv /\ [Next]_vars => LInv'
  BY KeptByNext
<1>3. LInv => TypeOK
  BY InRange
<1> QED BY <1>1, <1>2, <1>3, PTL
===============================================================================
