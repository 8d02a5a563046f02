--------------------------- MODULE ActiveVarsProofs ---------------------------
(***************************************************************************)
(* Proofs about ActiveVars, for all functions in SSA form: its variables   *)
(* stay in their ranges, and nothing is ever called live at the end of a   *)
(* block that is not.                                                      *)
(***************************************************************************)
EXTENDS ActiveVars, CfgProofs

-------------------------------------------------------------------------------
(* The inductive invariant *)

\* The instructions that the scan passes over.
Silent(i) == i.op = "ret" \/ (i.op = "phi" /\ i.pairs = << >>)

\* The scan has been at instruction j of b.
Scanned(b, j) == phase # "scan" \/ b < at \/ (b = at /\ j < k)

\* b uses v before it defines it, if it does.
UsedFirst(b, v) ==
  \E j \in DOMAIN fn.body[b] : /\ ~ Silent(fn.body[b][j]) /\ v \in Args(fn.body[b][j])
                               /\ \A i \in 1 .. j - 1 : v \notin Defines(fn.body[b][i])

Shape ==
  /\ fn \in Functions
  /\ phase \in {"scan", "iterate", "done"} /\ change \in BOOLEAN
  /\ at \in 1 .. Len(fn.succ) + 1 /\ k \in Nat \ {0}
  /\ use \in [Block -> SUBSET Values] /\ def \in [Block -> SUBSET Values]
  /\ live_in \in [Block -> SUBSET Values] /\ live_out \in [Block -> SUBSET Values]

\* What the scan has found of a block: what is used first, and all that is defined.
ScanRight ==
  \A b \in Block :
     /\ use[b] \cap def[b] = {}
     /\ \A v \in use[b] : UsedFirst(b, v)
     /\ \A j \in DOMAIN fn.body[b] :
          Scanned(b, j) /\ ~ Silent(fn.body[b][j])
            => Defines(fn.body[b][j]) \subseteq use[b] \cup def[b]

\* What the rounds have found of a block.
LiveRight ==
  \A b \in Block : /\ live_out[b] \subseteq Live(b)
                   /\ live_in[b] \subseteq use[b] \cup (Live(b) \ def[b])
                   /\ phase = "scan" => live_in[b] = {} /\ live_out[b] = {}

AInv == Shape /\ ScanRight /\ LiveRight

-------------------------------------------------------------------------------
(* Functions in SSA form *)

\* The blocks of a function and their instructions.
LEMMA Blocks ==
  ASSUME fn \in Functions
  PROVE  /\ Len(fn.succ) \in Nat /\ Block = 1 .. Len(fn.succ) /\ IsFiniteSet(Block)
         /\ \A b \in Block : /\ fn.succ[b] \in Seq(Block)
                             /\ Len(fn.body[b]) \in Nat
                             /\ DOMAIN fn.body[b] = 1 .. Len(fn.body[b])
                             /\ \A j \in DOMAIN fn.body[b] :
                                  /\ fn.body[b][j] \in Instrs(b)
                                  /\ fn.body[b][j].op \in {"def", "use", "ret", "phi"}
                                  /\ fn.body[b][j].op = "phi" =>
                                       \A pair \in ToSet(fn.body[b][j].pairs) :
                                         pair = <<pair[1], pair[2]>>
<1>1. /\ fn.succ \in Seq(Seq(Block)) /\ DOMAIN fn.body = Block
      /\ \A b \in Block :
           /\ fn.body[b] \in Seq(ToSet(fn.body[b]))
           /\ \A i \in ToSet(fn.body[b]) :
                /\ i.op \in {"def", "use", "ret", "phi"}
                /\ i.op = "phi" => \A pair \in ToSet(i.pairs) : pair = <<pair[1], pair[2]>>
  BY FunctionsAssumption DEF Block
<1>2. Len(fn.succ) \in Nat /\ Block = 1 .. Len(fn.succ)
  BY <1>1 DEF Block
<1>3. IsFiniteSet(Block)
  <2>1. 1 \in Int /\ Len(fn.succ) \in Int
    BY <1>2
  <2> QED BY <2>1, <1>2, FS_Interval
<1>4. ASSUME NEW b \in Block
      PROVE  /\ fn.succ[b] \in Seq(Block)
             /\ Len(fn.body[b]) \in Nat
             /\ DOMAIN fn.body[b] = 1 .. Len(fn.body[b])
             /\ \A j \in DOMAIN fn.body[b] :
                  /\ fn.body[b][j] \in Instrs(b)
                  /\ fn.body[b][j].op \in {"def", "use", "ret", "phi"}
                  /\ fn.body[b][j].op = "phi" =>
                       \A pair \in ToSet(fn.body[b][j].pairs) : pair = <<pair[1], pair[2]>>
  <2>1. fn.succ[b] \in Seq(Block)
    BY <1>1, <1>2
  <2>2. \A j \in DOMAIN fn.body[b] : fn.body[b][j] \in Instrs(b)
    BY DEF Instrs, ToSet
  <2> QED BY <1>1, <2>1, <2>2 DEF Instrs
<1> QED BY <1>2, <1>3, <1>4

\* What an instruction uses and defines is among the values.
LEMMA ValuesOfBlock ==
  ASSUME NEW b \in Block, NEW i \in Instrs(b)
  PROVE  Args(i) \subseteq Values /\ Defines(i) \subseteq Values
BY DEF Values

\* The assumption, about the function at hand.
LEMMA InSSAForm ==
  ASSUME fn \in Functions, NEW b \in Block, NEW n \in DOMAIN fn.body[b]
  PROVE  LET i == fn.body[b][n] IN
           /\ Defines(i) \cap Constant = {}
           /\ i.op = "phi" => \A j \in 1 .. n : fn.body[b][j].op = "phi"
           /\ i.op = "phi" /\ i.pairs = << >> =>
                \A c \in Block : \A u \in Instrs(c) : i.id \notin Args(u)
           /\ i.op \in {"def", "use"} =>
                \A j \in n .. Len(fn.body[b]) : Args(i) \cap Defines(fn.body[b][j]) = {}
<1>1. DOMAIN fn.body = Block
  BY FunctionsAssumption DEF Block
<1> QED BY <1>1, SSAAssumption DEF Instrs

\* What a silent instruction would define is not used.
LEMMA SilentUnused ==
  ASSUME fn \in Functions, NEW b \in Block, NEW n \in DOMAIN fn.body[b],
         Silent(fn.body[b][n]), NEW v \in Defines(fn.body[b][n]),
         NEW c \in Block, NEW u \in Instrs(c)
  PROVE  v \notin Args(u)
BY InSSAForm DEF Silent, Defines

\* A value live somewhere is used somewhere.
LEMMA LiveIsUsed ==
  ASSUME fn \in Functions, NEW b \in Block, NEW v \in Live(b), v \notin Constant
  PROVE  \E c \in Block : \E u \in Instrs(c) : v \in Args(u)
<1> DEFINE free == {c \in Block : v \notin DefinedIn(c)}
           first == {s \in ToSet(fn.succ[b]) : s \in free}
           path == ReachableFrom(first, free, {e \in Edges : e[1] \in free})
<1>1. path \subseteq Block
  <2>1. IsFiniteSet(free)
    BY Blocks, FS_Subset
  <2>2. path \subseteq first \cup free
    <3> HIDE DEF free, first
    <3> QED BY <2>1, ReachableClosed
  <2> QED BY <2>2
<1>2. \/ \E c \in path : v \in UsedIn(c)
      \/ \E c \in path \cup {b} : \E s \in ToSet(fn.succ[c]) : v \in PhiUses(s, c)
  BY DEF Live
<1> HIDE DEF path
<1>3. ASSUME NEW c \in path, v \in UsedIn(c)
      PROVE  \E d \in Block : \E u \in Instrs(d) : v \in Args(u)
  BY <1>1, <1>3 DEF UsedIn
<1>4. ASSUME NEW c \in path \cup {b}, NEW s \in ToSet(fn.succ[c]), v \in PhiUses(s, c)
      PROVE  \E d \in Block : \E u \in Instrs(d) : v \in Args(u)
  <2>1. s \in Block
    <3>1. c \in Block /\ fn.succ[c] \in Seq(Block)
      BY <1>1, Blocks
    <3> QED BY <3>1 DEF ToSet
  <2>2. PICK j \in DOMAIN fn.body[s] : /\ fn.body[s][j].op = "phi"
                                       /\ <<v, c>> \in ToSet(fn.body[s][j].pairs)
    <3>1. PICK p \in Phis(s) : <<v, c>> \in ToSet(p.pairs)
      BY <1>4 DEF PhiUses
    <3>2. PICK j \in DOMAIN fn.body[s] : /\ p = fn.body[s][j]
                                         /\ \A i \in 1 .. j : fn.body[s][i].op = "phi"
      BY DEF Phis
    <3>3. j \in 1 .. j
      BY <2>1, Blocks
    <3> QED BY <3>1, <3>2, <3>3
  <2>3. v \in ValuesOf(fn.body[s][j].pairs)
    <3>1. v = <<v, c>>[1]
      OBVIOUS
    <3> QED BY <2>2, <3>1 DEF ValuesOf
  <2>4. v \in Args(fn.body[s][j])
    BY <2>2, <2>3 DEF Args
  <2> QED BY <2>1, <2>4, Blocks
<1> QED BY <1>2, <1>3, <1>4

-------------------------------------------------------------------------------
(* What leaves a block *)

\* What has been collected once the successor s has been visited.
Visited(b, s, V) == (V \cup live_in[s]) \ FromOthers(s, b)

\* What Out collects, up to successor c.
Collected(b, c, W) ==
  W = [i \in 0 .. c |-> IF i = 0 THEN {} ELSE Visited(b, fn.succ[b][i], W[i - 1])]

\* The recursive definition of Out has a solution.
LEMMA CollectedExists ==
  ASSUME NEW b, NEW c \in Nat
  PROVE  \E W : Collected(b, c, W)
<1> DEFINE T == {n \in Nat : ~ \E W : Collected(b, n, W)}
<1>1. SUFFICES ASSUME T # {} PROVE FALSE
  OBVIOUS
<1>2. PICK m \in T : \A n \in T : m <= n
  <2>1. T \subseteq Nat
    OBVIOUS
  <2> HIDE DEF T
  <2> QED BY <1>1, <2>1, LeastNat
<1>3. m # 0
  <2>1. Collected(b, 0, [i \in 0 .. 0 |-> {}])
    BY DEF Collected
  <2> QED BY <2>1
<1>4. PICK V : Collected(b, m - 1, V)
  BY <1>2, <1>3
<1> DEFINE W == [i \in 0 .. m |-> IF i = m THEN Visited(b, fn.succ[b][m], V[m - 1]) ELSE V[i]]
<1>5. Collected(b, m, W)
  <2>1. \A i \in 0 .. m - 1 : V[i] = IF i = 0 THEN {} ELSE Visited(b, fn.succ[b][i], V[i - 1])
    BY <1>4 DEF Collected
  <2>2. m \in Nat
    OBVIOUS
  <2>3. \A i \in 0 .. m : W[i] = IF i = 0 THEN {} ELSE Visited(b, fn.succ[b][i], W[i - 1])
    <3> TAKE i \in 0 .. m
    <3>1. CASE i = m
      <4>1. W[i] = Visited(b, fn.succ[b][i], V[i - 1]) /\ i # 0 /\ W[i - 1] = V[i - 1]
        BY <3>1, <1>3, <2>2
      <4> HIDE DEF W
      <4> QED BY <4>1
    <3>2. CASE i # m
      <4>1. W[i] = V[i] /\ (i # 0 => W[i - 1] = V[i - 1]) /\ i \in 0 .. m - 1
        BY <3>2, <2>2
      <4> HIDE DEF W
      <4> QED BY <4>1, <2>1
    <3> QED BY <3>1, <3>2
  <2>4. W = [i \in 0 .. m |-> W[i]]
    OBVIOUS
  <2> HIDE DEF W
  <2> QED BY <2>3, <2>4 DEF Collected
<1> QED BY <1>5

\* What Out collects is live at the start of a successor, and not taken by its phis
\* from other edges only.
LEMMA OutFrom ==
  ASSUME fn \in Functions, NEW b \in Block, NEW v \in Out(b)
  PROVE  \E s \in ToSet(fn.succ[b]) : s \in Block /\ v \in live_in[s] /\ v \notin FromOthers(s, b)
<1> DEFINE c == Len(fn.succ[b])
           W == CHOOSE W : Collected(b, c, W)
           From(x) == \E s \in ToSet(fn.succ[b]) : /\ s \in Block /\ x \in live_in[s]
                                                   /\ x \notin FromOthers(s, b)
           G == {i \in 0 .. c : \A x \in W[i] : From(x)}
<1>1. c \in Nat /\ fn.succ[b] \in Seq(Block) /\ DOMAIN fn.succ[b] = 1 .. c
  BY Blocks
<1>2. Collected(b, c, W)
  <2>1. \E V : Collected(b, c, V)
    BY <1>1, CollectedExists
  <2> QED BY <2>1
<1>3. Out(b) = W[c]
  BY DEF Out, Collected, Visited
<1> HIDE DEF W, c
<1>4. \A i \in 0 .. c : W[i] = IF i = 0 THEN {} ELSE Visited(b, fn.succ[b][i], W[i - 1])
  BY <1>2 DEF Collected
<1>5. 0 \in G
  BY <1>1, <1>4
<1>6. ASSUME NEW i \in 0 .. c - 1, i \in G PROVE i + 1 \in G
  <2>1. i + 1 \in 1 .. c /\ i + 1 \in 0 .. c /\ i + 1 # 0 /\ (i + 1) - 1 = i
    BY <1>1
  <2>2. W[i + 1] = Visited(b, fn.succ[b][i + 1], W[i])
    BY <1>4, <2>1
  <2>3. fn.succ[b][i + 1] \in ToSet(fn.succ[b]) /\ fn.succ[b][i + 1] \in Block
    BY <1>1, <2>1 DEF ToSet
  <2>4. ASSUME NEW x \in W[i + 1] PROVE From(x)
    BY <2>2, <2>3, <1>6 DEF Visited
  <2> QED BY <2>1, <2>4
<1>7. c \in G
  <2> HIDE DEF G
  <2>1. \A i \in 0 .. c : i \in G
    BY <1>1, <1>5, <1>6, UpTo
  <2> QED BY <2>1, <1>1
<1> QED BY <1>3, <1>7

\* What a block uses first is live where it comes from, unless a phi takes it from
\* another edge.
LEMMA UsedIsLive ==
  ASSUME fn \in Functions, NEW b \in Block, NEW s \in ToSet(fn.succ[b]), s \in Block,
         NEW v, UsedFirst(s, v), v \notin FromOthers(s, b)
  PROVE  v \in Live(b)
<1>1. PICK j \in DOMAIN fn.body[s] :
           /\ ~ Silent(fn.body[s][j]) /\ v \in Args(fn.body[s][j])
           /\ \A i \in 1 .. j - 1 : v \notin Defines(fn.body[s][i])
  BY DEF UsedFirst
<1> DEFINE i == fn.body[s][j]
           free == {c \in Block : v \notin DefinedIn(c)}
           first == {t \in ToSet(fn.succ[b]) : t \in free}
           path == ReachableFrom(first, free, {e \in Edges : e[1] \in free})
<1>2. DOMAIN fn.body[s] = 1 .. Len(fn.body[s]) /\ Len(fn.body[s]) \in Nat /\ i \in Instrs(s)
      /\ i.op \in {"def", "use", "ret", "phi"} /\ IsFiniteSet(Block)
  BY Blocks
<1>3. v \in Values
  BY <1>1, <1>2, ValuesOfBlock
<1>4. CASE i.op = "phi"
  <2>1. \A l \in 1 .. j : fn.body[s][l].op = "phi"
    BY <1>4, InSSAForm
  <2>2. i \in Phis(s)
    BY <2>1 DEF Phis
  <2>3. PICK q \in ToSet(i.pairs) : v = q[1]
    BY <1>1, <1>4 DEF Args, ValuesOf
  <2>4. q[2] = b
    BY <2>2, <2>3 DEF FromOthers
  <2>5. <<v, b>> \in ToSet(i.pairs)
    <3>1. q = <<q[1], q[2]>>
      BY <1>4, Blocks
    <3> QED BY <2>3, <2>4, <3>1
  <2>6. v \in PhiUses(s, b)
    BY <1>3, <2>2, <2>5 DEF PhiUses
  <2>7. \E c \in path \cup {b} : \E t \in ToSet(fn.succ[c]) : v \in PhiUses(t, c)
    <3> HIDE DEF path
    <3> QED BY <2>6
  <2> QED BY <1>3, <2>7 DEF Live
<1>5. CASE i.op # "phi"
  <2>1. i.op \in {"def", "use"}
    BY <1>1, <1>2, <1>5 DEF Silent
  <2>2. \A l \in DOMAIN fn.body[s] : v \notin Defines(fn.body[s][l])
    <3> TAKE l \in DOMAIN fn.body[s]
    <3>1. CASE l < j
      BY <1>1, <1>2, <3>1
    <3>2. CASE l >= j
      <4>1. l \in j .. Len(fn.body[s])
        BY <1>2, <3>2
      <4>2. Args(i) \cap Defines(fn.body[s][l]) = {}
        BY <2>1, <4>1, InSSAForm
      <4> QED BY <1>1, <4>2
    <3> QED BY <1>2, <3>1, <3>2
  <2>3. v \notin DefinedIn(s)
    BY <2>2 DEF DefinedIn, Instrs, ToSet
  <2>4. v \in UsedIn(s)
    BY <1>1, <1>2, <2>1, <2>3 DEF UsedIn
  <2>5. s \in path
    <3>1. s \in first
      BY <2>3
    <3>2. IsFiniteSet(free)
      BY <1>2, FS_Subset
    <3>3. first \subseteq path
      <4> HIDE DEF free, first
      <4> QED BY <3>2, ReachableClosed
    <3> QED BY <3>1, <3>3
  <2>6. \E c \in path : v \in UsedIn(c)
    <3> HIDE DEF path
    <3> QED BY <2>4, <2>5
  <2> QED BY <1>3, <2>6 DEF Live
<1> QED BY <1>4, <1>5

\* What is live at the end of a block that does not define it is live where the block
\* comes from.
LEMMA LiveUpwards ==
  ASSUME fn \in Functions, NEW b \in Block, NEW s \in ToSet(fn.succ[b]), s \in Block,
         NEW v \in Live(s), v \notin DefinedIn(s)
  PROVE  v \in Live(b)
<1> DEFINE free == {c \in Block : v \notin DefinedIn(c)}
           edges == {e \in Edges : e[1] \in free}
           first(c) == {t \in ToSet(fn.succ[c]) : t \in free}
           path(c) == ReachableFrom(first(c), free, edges)
<1>1. IsFiniteSet(free)
  BY Blocks, FS_Subset
<1>2. s \in first(b)
  OBVIOUS
<1>3. /\ first(b) \subseteq path(b)
      /\ \A m \in path(b), n \in free : <<m, n>> \in edges => n \in path(b)
  <2> HIDE DEF free, edges, first
  <2> QED BY <1>1, ReachableClosed
<1>4. s \in path(b)
  <2> HIDE DEF path, first
  <2> QED BY <1>2, <1>3
<1>5. first(s) \subseteq path(b)
  <2>1. ASSUME NEW t \in first(s) PROVE t \in path(b)
    <3>1. <<s, t>> \in edges /\ t \in free
      BY <1>2 DEF Edges
    <3> HIDE DEF path, edges, free
    <3> QED BY <3>1, <1>3, <1>4
  <2> HIDE DEF path, first
  <2> QED BY <2>1
<1>6. path(s) \subseteq path(b)
  <2> DEFINE Q == path(b)
             S == first(s)
  <2>1. S \subseteq Q /\ \A m \in Q, n \in free : <<m, n>> \in edges => n \in Q
    <3> HIDE DEF path, edges, free, first
    <3> QED BY <1>3, <1>5
  <2> HIDE DEF free, edges, Q, S
  <2>2. ReachableFrom(S, free, edges) \subseteq Q
    BY <1>1, <2>1, ReachableLeast
  <2> QED BY <2>2 DEF Q, S
<1>7. v \in Values /\ (\/ \E c \in path(s) : v \in UsedIn(c)
                       \/ \E c \in path(s) \cup {s} : \E t \in ToSet(fn.succ[c]) : v \in PhiUses(t, c))
  BY DEF Live
<1>8. \/ \E c \in path(b) : v \in UsedIn(c)
      \/ \E c \in path(b) \cup {b} : \E t \in ToSet(fn.succ[c]) : v \in PhiUses(t, c)
  <2> HIDE DEF path
  <2> QED BY <1>4, <1>6, <1>7
<1> QED BY <1>7, <1>8 DEF Live

\* Once all blocks have been scanned, what goes out of a block is live there.
LEMMA OutIsLive ==
  ASSUME AInv, phase # "scan", NEW b \in Block
  PROVE  Out(b) \subseteq Live(b)
<1> SUFFICES ASSUME NEW v \in Out(b) PROVE v \in Live(b)
  OBVIOUS
<1>1. fn \in Functions
  BY DEF AInv, Shape
<1>2. PICK s \in ToSet(fn.succ[b]) : s \in Block /\ v \in live_in[s] /\ v \notin FromOthers(s, b)
  BY <1>1, OutFrom
<1>3. CASE v \in use[s]
  <2>1. UsedFirst(s, v)
    BY <1>2, <1>3 DEF AInv, ScanRight
  <2> QED BY <1>1, <1>2, <2>1, UsedIsLive
<1>4. CASE v \notin use[s]
  <2>1. v \in Live(s) /\ v \notin def[s]
    BY <1>2, <1>4 DEF AInv, LiveRight
  <2>2. ASSUME NEW j \in DOMAIN fn.body[s], v \in Defines(fn.body[s][j]) PROVE FALSE
    <3>1. Silent(fn.body[s][j])
      BY <1>2, <1>4, <2>1, <2>2 DEF AInv, ScanRight, Scanned
    <3>2. v \notin Constant
      BY <1>1, <1>2, <2>2, InSSAForm
    <3>3. PICK c \in Block : \E u \in Instrs(c) : v \in Args(u)
      BY <1>1, <1>2, <2>1, <3>2, LiveIsUsed
    <3> QED BY <1>1, <1>2, <2>2, <3>1, <3>3, SilentUnused
  <2>3. v \notin DefinedIn(s)
    BY <2>2 DEF DefinedIn, Instrs, ToSet
  <2> QED BY <1>1, <1>2, <2>1, <2>3, LiveUpwards
<1> QED BY <1>3, <1>4

-------------------------------------------------------------------------------
(* The steps *)

\* A step that leaves the function alone leaves alone what depends on it only.
LEMMA Unmoved ==
  ASSUME UNCHANGED fn
  PROVE  /\ Block' = Block /\ Values' = Values
         /\ \A b : Live(b)' = Live(b) /\ \A v : UsedFirst(b, v)' = UsedFirst(b, v)
<1>1. Block' = Block /\ Values' = Values
  BY DEF Block, Values, Instrs
<1>2. \A b : Live(b)' = Live(b)
  BY <1>1 DEF Live, Block, UsedIn, DefinedIn, PhiUses, Phis, Values, Instrs, Edges
<1>3. \A b, v : UsedFirst(b, v)' = UsedFirst(b, v)
  BY DEF UsedFirst
<1> QED BY <1>1, <1>2, <1>3

\* Nothing has been scanned or computed at first.
LEMMA Initially == Init => AInv
<1> SUFFICES ASSUME Init PROVE AInv
  OBVIOUS
<1>1. fn \in Functions
  BY DEF Init
<1>2. Block = 1 .. Len(fn.succ) /\ Len(fn.succ) \in Nat
  BY <1>1, Blocks
<1>3. Shape
  <2>1. [b \in Block |-> {}] \in [Block -> SUBSET Values]
    OBVIOUS
  <2>2. use \in [Block -> SUBSET Values] /\ def = use /\ live_in = use /\ live_out = use
    BY <2>1 DEF Init
  <2>3. change \in BOOLEAN
    BY DEF Init
  <2>4. phase \in {"scan", "iterate", "done"} /\ at \in 1 .. Len(fn.succ) + 1 /\ k \in Nat \ {0}
    BY <1>2 DEF Init
  <2> QED BY <1>1, <2>2, <2>3, <2>4 DEF Shape
<1>4. ScanRight
  <2> SUFFICES ASSUME NEW b \in Block
               PROVE  /\ use[b] = {} /\ def[b] = {}
                      /\ \A j \in DOMAIN fn.body[b] : ~ Scanned(b, j)
    BY DEF ScanRight
  <2>1. \A j \in DOMAIN fn.body[b] : ~ Scanned(b, j)
    BY <1>1, <1>2, Blocks DEF Init, Scanned
  <2> QED BY <2>1 DEF Init
<1>5. LiveRight
  BY DEF Init, LiveRight
<1> QED BY <1>3, <1>4, <1>5 DEF AInv

\* Scanning an instruction.
LEMMA KeptByScanInstr ==
  ASSUME AInv, ScanInstr
  PROVE  AInv'
<1> DEFINE i == fn.body[at][k]
<1>1. /\ fn \in Functions /\ phase = "scan" /\ at \in Block /\ k \in Nat \ {0}
      /\ UNCHANGED <<fn, phase, at, live_in, live_out, change>> /\ k' = k + 1
  BY DEF AInv, Shape, ScanInstr
<1>2. k \in DOMAIN fn.body[at] /\ i \in Instrs(at) /\ Len(fn.body[at]) \in Nat
      /\ DOMAIN fn.body[at] = 1 .. Len(fn.body[at])
      /\ Block = 1 .. Len(fn.succ) /\ Len(fn.succ) \in Nat
  BY <1>1, Blocks DEF ScanInstr
<1>3. /\ Block' = Block /\ Values' = Values
      /\ \A b : Live(b)' = Live(b) /\ \A v : UsedFirst(b, v)' = UsedFirst(b, v)
  BY <1>1, Unmoved
<1>4. Args(i) \subseteq Values /\ Defines(i) \subseteq Values
  BY <1>1, <1>2, ValuesOfBlock
<1>5. CASE Silent(i)
  <2>1. UNCHANGED <<use, def>>
    BY <1>5 DEF ScanInstr, Silent
  <2>2. Shape'
    BY <1>1, <1>3, <2>1 DEF AInv, Shape
  <2>3. ASSUME NEW b \in Block, NEW j \in DOMAIN fn.body[b], Scanned(b, j)', ~ Silent(fn.body[b][j])
        PROVE  Defines(fn.body[b][j]) \subseteq use[b] \cup def[b]
    <3>1. Scanned(b, j)
      BY <1>1, <1>2, <1>5, <2>3, Blocks DEF Scanned
    <3> QED BY <2>3, <3>1 DEF AInv, ScanRight
  <2>4. ScanRight'
    <3>1. \A b \in Block : use[b] \cap def[b] = {} /\ \A v \in use[b] : UsedFirst(b, v)
      BY DEF AInv, ScanRight
    <3> QED BY <1>1, <1>3, <2>1, <2>3, <3>1 DEF ScanRight
  <2>5. LiveRight'
    BY <1>1, <1>3, <2>1 DEF AInv, LiveRight
  <2> QED BY <2>2, <2>4, <2>5 DEF AInv
<1>6. CASE ~ Silent(i)
  <2> DEFINE used == use[at] \cup (Args(i) \ def[at])
             defined == def[at] \cup (Defines(i) \ used)
  <2>1. /\ use \in [Block -> SUBSET Values] /\ def \in [Block -> SUBSET Values]
        /\ use[at] \cap def[at] = {}
    BY <1>1 DEF AInv, Shape, ScanRight
  <2>2. use' = [use EXCEPT ![at] = used] /\ def' = [def EXCEPT ![at] = defined]
    <3>1. /\ use' = [use EXCEPT ![at] = used]
          /\ def' = [def EXCEPT ![at] = @ \cup (Defines(i) \ use'[at])]
      BY <1>6 DEF ScanInstr, Silent
    <3>2. use'[at] = used
      BY <1>1, <2>1, <3>1
    <3> QED BY <3>1, <3>2
  <2>3. used \subseteq Values /\ defined \subseteq Values /\ used \cap defined = {}
        /\ use[at] \subseteq used /\ def[at] \subseteq defined /\ Defines(i) \subseteq used \cup defined
    BY <1>1, <1>4, <2>1
  <2>4. ASSUME NEW v \in used PROVE UsedFirst(at, v)
    <3>1. CASE v \in use[at]
      BY <1>1, <3>1 DEF AInv, ScanRight
    <3>2. CASE v \notin use[at]
      <4>1. v \in Args(i) /\ v \notin def[at]
        BY <2>4, <3>2
      <4>2. ASSUME NEW j \in 1 .. k - 1 PROVE v \notin Defines(fn.body[at][j])
        <5>1. j \in DOMAIN fn.body[at] /\ Scanned(at, j)
          BY <1>1, <1>2 DEF Scanned
        <5>2. CASE Silent(fn.body[at][j])
          BY <1>1, <1>2, <4>1, <5>1, <5>2, SilentUnused
        <5>3. CASE ~ Silent(fn.body[at][j])
          BY <1>1, <3>2, <4>1, <5>1, <5>3 DEF AInv, ScanRight
        <5> QED BY <5>2, <5>3
      <4> QED BY <1>2, <1>6, <4>1, <4>2 DEF UsedFirst
    <3> QED BY <3>1, <3>2
  <2>5. ASSUME NEW j \in DOMAIN fn.body[at], Scanned(at, j)', ~ Silent(fn.body[at][j])
        PROVE  Defines(fn.body[at][j]) \subseteq used \cup defined
    <3>1. CASE j = k
      BY <2>3, <3>1
    <3>2. CASE j # k
      <4>1. Scanned(at, j)
        BY <1>1, <1>2, <2>5, <3>2 DEF Scanned
      <4>2. Defines(fn.body[at][j]) \subseteq use[at] \cup def[at]
        BY <1>1, <2>5, <4>1 DEF AInv, ScanRight
      <4> HIDE DEF used, defined
      <4> QED BY <2>3, <4>2
    <3> QED BY <3>1, <3>2
  <2> HIDE DEF used, defined
  <2>6. \A b \in Block : /\ b = at => use'[b] = used /\ def'[b] = defined
                         /\ b # at => use'[b] = use[b] /\ def'[b] = def[b]
    BY <2>1, <2>2
  <2>7. Shape'
    BY <1>1, <1>3, <2>1, <2>2, <2>3 DEF AInv, Shape
  <2>8. ASSUME NEW b \in Block
        PROVE  /\ use'[b] \cap def'[b] = {}
               /\ \A v \in use'[b] : UsedFirst(b, v)
               /\ \A j \in DOMAIN fn.body[b] :
                    Scanned(b, j)' /\ ~ Silent(fn.body[b][j])
                      => Defines(fn.body[b][j]) \subseteq use'[b] \cup def'[b]
    <3>1. CASE b = at
      <4>1. \A j : Scanned(b, j)' <=> Scanned(at, j)'
        BY <1>1, <3>1
      <4> QED BY <2>3, <2>4, <2>5, <2>6, <3>1, <4>1
    <3>2. CASE b # at
      <4>1. \A j : Scanned(b, j)' <=> Scanned(b, j)
        BY <1>1, <3>2 DEF Scanned
      <4> QED BY <2>6, <3>2, <4>1 DEF AInv, ScanRight
    <3> QED BY <3>1, <3>2
  <2>9. ScanRight'
    BY <1>1, <1>3, <2>8 DEF ScanRight
  <2>10. LiveRight'
    BY <1>1, <1>3, <2>6 DEF AInv, LiveRight
  <2> QED BY <2>7, <2>9, <2>10 DEF AInv
<1> QED BY <1>5, <1>6

\* The next block's turn, or the end of the scan: nothing has been passed by.
LEMMA KeptByScanEnd ==
  ASSUME AInv, NextBlock \/ EndScan
  PROVE  AInv'
<1>1. fn \in Functions /\ phase = "scan" /\ UNCHANGED <<fn, sets, change>>
      /\ at \in 1 .. Len(fn.succ) + 1 /\ k \in Nat \ {0}
  BY DEF AInv, Shape, NextBlock, EndScan
<1>2. Block = 1 .. Len(fn.succ) /\ Len(fn.succ) \in Nat
  BY <1>1, Blocks
<1>3. /\ Block' = Block /\ Values' = Values
      /\ \A b : Live(b)' = Live(b) /\ \A v : UsedFirst(b, v)' = UsedFirst(b, v)
  BY <1>1, Unmoved
<1>4. Shape'
  BY <1>1, <1>2, <1>3 DEF AInv, Shape, NextBlock, EndScan, sets
<1>5. ASSUME NEW b \in Block, NEW j \in DOMAIN fn.body[b], Scanned(b, j)'
      PROVE  Scanned(b, j)
  <2>1. DOMAIN fn.body[b] = 1 .. Len(fn.body[b]) /\ Len(fn.body[b]) \in Nat
    BY <1>1, Blocks
  <2>2. CASE NextBlock
    BY <1>1, <1>2, <1>5, <2>1, <2>2 DEF Scanned, NextBlock
  <2>3. CASE EndScan
    BY <1>1, <1>2, <2>3 DEF Scanned, EndScan
  <2> QED BY <2>2, <2>3
<1>6. ScanRight'
  BY <1>1, <1>3, <1>5 DEF AInv, ScanRight, sets
<1>7. LiveRight'
  BY <1>1, <1>3 DEF AInv, LiveRight, sets
<1> QED BY <1>4, <1>6, <1>7 DEF AInv

\* One block's turn in a round.
LEMMA KeptByUpdate ==
  ASSUME AInv, Update
  PROVE  AInv'
<1>1. fn \in Functions /\ phase = "iterate" /\ at \in Block
      /\ UNCHANGED <<fn, phase, k, use, def>> /\ at' = at + 1
  BY DEF AInv, Shape, Update
<1>2. Block = 1 .. Len(fn.succ) /\ Len(fn.succ) \in Nat
  BY <1>1, Blocks
<1>3. /\ Block' = Block /\ Values' = Values
      /\ \A b : Live(b)' = Live(b) /\ \A v : UsedFirst(b, v)' = UsedFirst(b, v)
  BY <1>1, Unmoved
<1> DEFINE out == Out(at)
<1>4. out \subseteq Live(at)
  BY <1>1, OutIsLive
<1>5. Live(at) \subseteq Values
  BY DEF Live
<1>6. /\ live_out' = [live_out EXCEPT ![at] = out]
      /\ live_in' = [live_in EXCEPT ![at] = use[at] \cup (out \ def[at])]
      /\ change' \in BOOLEAN
  BY DEF Update, AInv, Shape
<1> HIDE DEF out
<1>7. Shape'
  <2>1. /\ live_out' \in [Block -> SUBSET Values] /\ live_in' \in [Block -> SUBSET Values]
        /\ use' \in [Block -> SUBSET Values] /\ def' \in [Block -> SUBSET Values]
    BY <1>1, <1>4, <1>5, <1>6 DEF AInv, Shape
  <2>2. at' \in 1 .. Len(fn'.succ) + 1 /\ k' \in Nat \ {0}
    BY <1>1, <1>2 DEF AInv, Shape
  <2>3. fn' \in Functions /\ phase' \in {"scan", "iterate", "done"}
    BY <1>1
  <2> QED BY <1>3, <1>6, <2>1, <2>2, <2>3 DEF Shape
<1>8. ScanRight'
  BY <1>1, <1>3 DEF AInv, ScanRight, Scanned
<1>9. LiveRight'
  <2>1. ASSUME NEW b \in Block
        PROVE  live_out'[b] \subseteq Live(b) /\ live_in'[b] \subseteq use[b] \cup (Live(b) \ def[b])
    <3>1. /\ b = at => live_out'[b] = out /\ live_in'[b] = use[b] \cup (out \ def[b])
          /\ b # at => live_out'[b] = live_out[b] /\ live_in'[b] = live_in[b]
      BY <1>1, <1>6 DEF AInv, Shape
    <3> QED BY <1>4, <3>1 DEF AInv, LiveRight
  <2> QED BY <1>1, <1>3, <2>1 DEF LiveRight
<1> QED BY <1>7, <1>8, <1>9 DEF AInv

\* The end of a round.
LEMMA KeptByEndRound ==
  ASSUME AInv, EndRound
  PROVE  AInv'
<1>1. fn \in Functions /\ phase = "iterate" /\ phase' \in {"iterate", "done"}
      /\ UNCHANGED <<fn, k, sets>> /\ at' = 1 /\ change' = FALSE
  BY DEF AInv, Shape, EndRound
<1>2. Len(fn.succ) \in Nat
  BY <1>1, Blocks
<1>3. /\ Block' = Block /\ Values' = Values
      /\ \A b : Live(b)' = Live(b) /\ \A v : UsedFirst(b, v)' = UsedFirst(b, v)
  BY <1>1, Unmoved
<1>4. Shape'
  <2>1. /\ live_out' \in [Block -> SUBSET Values] /\ live_in' \in [Block -> SUBSET Values]
        /\ use' \in [Block -> SUBSET Values] /\ def' \in [Block -> SUBSET Values]
    BY <1>1 DEF AInv, Shape, sets
  <2>2. at' \in 1 .. Len(fn'.succ) + 1 /\ k' \in Nat \ {0}
    BY <1>1, <1>2 DEF AInv, Shape
  <2>3. fn' \in Functions /\ phase' \in {"scan", "iterate", "done"} /\ change' \in BOOLEAN
    BY <1>1
  <2> QED BY <1>3, <2>1, <2>2, <2>3 DEF Shape
<1>5. ScanRight'
  BY <1>1, <1>3 DEF AInv, ScanRight, Scanned, sets
<1>6. LiveRight'
  BY <1>1, <1>3 DEF AInv, LiveRight, sets
<1> QED BY <1>4, <1>5, <1>6 DEF AInv

\* Every step of the scan and of the rounds keeps the invariant.
LEMMA Inductive == AInv /\ [Next]_vars => AInv'
<1> SUFFICES ASSUME AInv, [Next]_vars PROVE AInv'
  OBVIOUS
<1>1. CASE UNCHANGED vars
  <2>1. UNCHANGED <<fn, phase, at, k, sets, change>>
    BY <1>1 DEF vars
  <2>2. /\ Block' = Block /\ Values' = Values
        /\ \A b : Live(b)' = Live(b) /\ \A v : UsedFirst(b, v)' = UsedFirst(b, v)
    BY <2>1, Unmoved
  <2> QED BY <2>1, <2>2 DEF AInv, Shape, ScanRight, LiveRight, Scanned, sets
<1>2. CASE Next
  BY <1>2, KeptByScanInstr, KeptByScanEnd, KeptByUpdate, KeptByEndRound DEF Next
<1> QED BY <1>1, <1>2

-------------------------------------------------------------------------------
(* The theorems *)

\* The invariant holds in every state of the pass.
LEMMA Invariant == Spec => []AInv
BY Initially, Inductive, PTL DEF Spec

\* All variables stay in their ranges, and the pass never takes a value to be both
\* used first and defined first in a block (ActiveVars.cpp:33-172).
THEOREM Ranges == Spec => []TypeOK
<1>1. AInv => TypeOK
  BY DEF AInv, Shape, ScanRight, TypeOK
<1> QED BY <1>1, Invariant, PTL

\* On no function in SSA form the pass calls a value live at the end of a block from
\* where no path leads to a use of it (ActiveVars.cpp:174-217).
THEOREM LiveIsTrue == Spec => []NothingDeadIsLive
<1>1. AInv => NothingDeadIsLive
  <2> SUFFICES ASSUME AInv, phase = "iterate", at > 1
               PROVE  live_out[at - 1] \subseteq Live(at - 1)
    BY DEF NothingDeadIsLive
  <2>1. at - 1 \in Block
    <3>1. Block = 1 .. Len(fn.succ) /\ Len(fn.succ) \in Nat
      BY Blocks DEF AInv, Shape
    <3> QED BY <3>1 DEF AInv, Shape
  <2> QED BY <2>1 DEF AInv, LiveRight
<1> QED BY <1>1, Invariant, PTL
===============================================================================
