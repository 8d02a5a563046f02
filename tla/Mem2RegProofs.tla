----------------------------- MODULE Mem2RegProofs -----------------------------
(***************************************************************************)
(* What holds of Mem2Reg on every function: its stacks and activations     *)
(* keep in step, it meets no empty stack if every variable is stored on    *)
(* entry, and what it leaves then is well formed; and the names that are   *)
(* given before and after the pass differ.                                 *)
(***************************************************************************)
EXTENDS Names, CfgProofs

-------------------------------------------------------------------------------
(* Sequences of instructions *)

\* The elements at some positions.
LEMMA SelectedFacts ==
  ASSUME NEW S, NEW s \in Seq(S), NEW T
  PROVE  /\ Selected(s, T) \in Seq(S)
         /\ ToSet(Selected(s, T)) = {s[i] : i \in T \cap DOMAIN s}
         /\ \A i, j \in DOMAIN Selected(s, T) :
              i # j => \E p, q \in T \cap DOMAIN s :
                         p # q /\ Selected(s, T)[i] = s[p] /\ Selected(s, T)[j] = s[q]
<1> DEFINE F == CHOOSE F : Choice(s, T, Len(s), F)
<1>1. Choice(s, T, Len(s), F)
  <2>1. \E G : Choice(s, T, Len(s), G)
    BY LenProperties, ChoiceExists
  <2> QED BY <2>1
<1>2. Selected(s, T) = F[Len(s)]
  BY DEF Selected, Choice
<1> HIDE DEF F
<1>3. /\ F[Len(s)] \in Seq(S)
      /\ ToSet(F[Len(s)]) = {s[i] : i \in T \cap DOMAIN s}
  BY <1>1, ChoiceFacts
<1>4. \A i, j \in DOMAIN F[Len(s)] :
        i # j => \E p, q \in T \cap DOMAIN s : p # q /\ F[Len(s)][i] = s[p] /\ F[Len(s)][j] = s[q]
  BY <1>1, ChoiceApart
<1> QED BY <1>2, <1>3, <1>4

\* The elements of r are elements of s at different positions.
PickedFrom(r, s) ==
  \A i, j \in DOMAIN r : i # j => \E p, q \in DOMAIN s : p # q /\ r[i] = s[p] /\ r[j] = s[q]

\* Instructions that are left when those at some positions are deleted.
LEMMA WithoutFacts ==
  ASSUME NEW S, NEW is \in Seq(S), NEW positions
  PROVE  /\ Without(is, positions) \in Seq(S)
         /\ ToSet(Without(is, positions)) = {is[i] : i \in DOMAIN is \ positions}
         /\ PickedFrom(Without(is, positions), is)
<1> DEFINE T == DOMAIN is \ positions
           r == Selected(is, T)
<1>1. Without(is, positions) = r /\ T \cap DOMAIN is = T /\ T \subseteq DOMAIN is
  BY DEF Without
<1> HIDE DEF T
<1>2. /\ r \in Seq(S)
      /\ ToSet(r) = {is[i] : i \in T \cap DOMAIN is}
      /\ \A i, j \in DOMAIN r :
           i # j => \E p, q \in T \cap DOMAIN is : p # q /\ r[i] = is[p] /\ r[j] = is[q]
  BY SelectedFacts
<1> HIDE DEF r
<1>3. PickedFrom(r, is)
  BY <1>2 DEF PickedFrom
<1>4. ToSet(r) = {is[i] : i \in DOMAIN is \ positions}
  BY <1>1, <1>2 DEF T
<1> QED BY <1>1, <1>2, <1>3, <1>4

\* As many elements of some other set.
LEMMA MappedSeq ==
  ASSUME NEW S, NEW s \in Seq(S), NEW T, NEW t, t = [k \in 1 .. Len(s) |-> t[k]],
         \A k \in 1 .. Len(s) : t[k] \in T
  PROVE  t \in Seq(T) /\ Len(t) = Len(s) /\ DOMAIN t = 1 .. Len(s)
<1>1. Len(s) \in Nat
  BY LenProperties
<1> QED BY <1>1, IsASeq

\* An element more in front.
LEMMA PrefixFacts ==
  ASSUME NEW S, NEW s \in Seq(S), NEW e \in S
  PROVE  /\ <<e>> \o s \in Seq(S) /\ DOMAIN s = 1 .. Len(s) /\ Len(s) \in Nat
         /\ Len(<<e>> \o s) = Len(s) + 1 /\ DOMAIN (<<e>> \o s) = 1 .. Len(s) + 1
         /\ (<<e>> \o s)[1] = e
         /\ \A i \in 1 .. Len(s) : (<<e>> \o s)[i + 1] = s[i]
<1>1. <<e>> \in Seq(S) /\ Len(<<e>>) = 1 /\ <<e>>[1] = e
  OBVIOUS
<1>2. Len(s) \in Nat /\ DOMAIN s = 1 .. Len(s)
  BY LenProperties
<1>3. /\ <<e>> \o s \in Seq(S) /\ Len(<<e>> \o s) = Len(<<e>>) + Len(s)
      /\ \A i \in 1 .. Len(<<e>>) + Len(s) :
           (<<e>> \o s)[i] = IF i <= Len(<<e>>) THEN <<e>>[i] ELSE s[i - Len(<<e>>)]
  BY <1>1, ConcatProperties
<1>4. \A i \in 1 .. 1 + Len(s) : (<<e>> \o s)[i] = IF i <= 1 THEN <<e>>[i] ELSE s[i - 1]
  BY <1>1, <1>3
<1> DEFINE t == <<e>> \o s
<1>5. t \in Seq(S) /\ Len(t) = Len(s) + 1
  BY <1>1, <1>2, <1>3
<1>6. DOMAIN t = 1 .. Len(s) + 1
  BY <1>5, LenProperties
<1>7. t[1] = e /\ \A i \in 1 .. Len(s) : t[i + 1] = s[i]
  <2>1. \A i \in 1 .. Len(s) : i + 1 \in 1 .. 1 + Len(s) /\ ~ (i + 1 <= 1) /\ i + 1 - 1 = i
    BY <1>2
  <2>2. 1 \in 1 .. 1 + Len(s)
    BY <1>2
  <2> QED BY <1>1, <1>4, <2>1, <2>2
<1> QED BY <1>2, <1>5, <1>6, <1>7

-------------------------------------------------------------------------------
(* Functions *)

Doms(a, b) == b \in DominatedBy(a, Entry, Block, Edges)
Idom(a, b) == <<a, b>> \in IdomPairs(Entry, Block, Edges)

\* The values that fn mentions, and those of phis.
Value ==
  (UNION {{fn.body[b][i].id : i \in Is("load", fn.body[b])} : b \in Block})
    \cup (UNION {{fn.body[b][i].val : i \in Is("store", fn.body[b]) \cup Is("use", fn.body[b])} :
                   b \in Block})
    \cup {Joined(e[1], e[2]) : e \in Block \X Var}

Instruction ==
  [op : {"store"}, var : Var, val : Value] \cup [op : {"load"}, var : Var, id : Value]
    \cup [op : {"use"}, val : Value]
    \cup [op : {"phi"}, var : Var, id : Value, pairs : Seq(Value \X Block)]

\* An activation of re_name.
Activation ==
  [bb : Block, at : Nat \ {0}, filled : BOOLEAN, wait_delete : SUBSET Nat, next : SUBSET Block]

\* The blocks are finitely many and all reachable, and the edges are those of the lists.
LEMMA Graph ==
  ASSUME fn \in Functions
  PROVE  /\ IsFiniteSet(Block) /\ Entry \in Block
         /\ ReachableFrom({Entry}, Block, Edges) = Block
         /\ \A b \in Block : ToSet(fn.succ[b]) \subseteq Block
         /\ \A a, b : <<a, b>> \in Edges <=> a \in Block /\ b \in ToSet(fn.succ[a])
<1>1. /\ fn.succ \in Seq(Seq(Block)) /\ Entry \in Block
      /\ ReachableFrom({Entry}, Block, Edges) = Block
  BY FunctionsAssumption DEF Block, Edges
<1>2. Block = 1 .. Len(fn.succ) /\ Len(fn.succ) \in Nat
  BY <1>1, LenProperties DEF Block
<1>3. IsFiniteSet(Block)
  BY <1>2, FS_Interval
<1>4. \A b \in Block : ToSet(fn.succ[b]) \subseteq Block
  <2> TAKE b \in Block
  <2>1. fn.succ[b] \in Seq(Block)
    BY <1>1, ElementOfSeq DEF Block
  <2> QED BY <2>1, ElementOfSeq, LenProperties DEF ToSet
<1>5. \A a, b : <<a, b>> \in Edges <=> a \in Block /\ b \in ToSet(fn.succ[a])
  BY DEF Edges
<1> QED BY <1>1, <1>3, <1>4, <1>5

\* The instructions of the function are instructions here.
LEMMA Bodies ==
  ASSUME fn \in Functions
  PROVE  fn.body \in [Block -> Seq(Instruction)]
<1> DEFINE All == UNION {ToSet(fn.body[b]) : b \in Block}
<1>1. fn.body \in [Block -> Seq(All)]
  BY FunctionsAssumption DEF Block
<1>2. ASSUME NEW b \in Block PROVE fn.body[b] \in Seq(Instruction)
  <2> DEFINE is == fn.body[b]
  <2>1. is \in Seq(All) /\ \A i \in ToSet(is) : Original(i)
    BY <1>1, FunctionsAssumption DEF Block
  <2>2. DOMAIN is = 1 .. Len(is) /\ Len(is) \in Nat /\ is = [k \in 1 .. Len(is) |-> is[k]]
    <3> HIDE DEF All, is
    <3> QED BY <2>1, LenProperties
  <2>3. ASSUME NEW k \in DOMAIN is PROVE is[k] \in Instruction
    <3>1. Original(is[k])
      BY <2>1, <2>3 DEF ToSet
    <3>2. CASE is[k].op = "store" /\ is[k] \in [op : {"store"}, var : Var, val : {is[k].val}]
      <4>1. is[k].val \in Value
        BY <3>2 DEF Value, Is
      <4>2. is[k] \in [op : {"store"}, var : Var, val : Value]
        BY <3>2, <4>1
      <4> QED BY <4>2 DEF Instruction
    <3>3. CASE is[k].op = "load" /\ is[k] \in [op : {"load"}, var : Var, id : {is[k].id}]
      <4>1. is[k].id \in Value
        BY <3>3 DEF Value, Is
      <4>2. is[k] \in [op : {"load"}, var : Var, id : Value]
        BY <3>3, <4>1
      <4> QED BY <4>2 DEF Instruction
    <3>4. CASE is[k].op = "use" /\ is[k] \in [op : {"use"}, val : {is[k].val}]
      <4>1. is[k].val \in Value
        BY <3>4 DEF Value, Is
      <4>2. is[k] \in [op : {"use"}, val : Value]
        BY <3>4, <4>1
      <4> QED BY <4>2 DEF Instruction
    <3> QED BY <3>1, <3>2, <3>3, <3>4 DEF Original
  <2> HIDE DEF is
  <2> QED BY <2>2, <2>3, IsASeq DEF is
<1> QED BY <1>1, <1>2

\* These sets depend on the function only.
LEMMA SameTypes ==
  ASSUME fn' = fn
  PROVE  /\ Block' = Block /\ Edges' = Edges /\ Value' = Value /\ Instruction' = Instruction
         /\ Activation' = Activation
<1>1. Block' = Block
  BY DEF Block
<1>2. Edges' = Edges
  BY <1>1 DEF Edges
<1>3. Value' = Value
  BY <1>1 DEF Value
<1>4. Instruction' = Instruction
  BY <1>1, <1>3 DEF Instruction
<1>5. Activation' = Activation
  BY <1>1 DEF Activation
<1> QED BY <1>1, <1>2, <1>3, <1>4, <1>5

\* A phi is a value.
LEMMA JoinedIsValue ==
  ASSUME NEW b \in Block, NEW x \in Var
  PROVE  Joined(b, x) \in Value
<1> DEFINE e == <<b, x>>
<1>1. e \in Block \X Var /\ e[1] = b /\ e[2] = x
  OBVIOUS
<1> HIDE DEF e
<1>2. Joined(e[1], e[2]) \in {Joined(d[1], d[2]) : d \in Block \X Var}
  BY <1>1
<1> QED BY <1>1, <1>2 DEF Value

\* What the fields of an instruction are.
LEMMA InstructionFacts ==
  ASSUME NEW i \in Instruction
  PROVE  /\ i.op \in {"store", "load", "use", "phi"}
         /\ i.op # "use" => i.var \in Var
         /\ i.op \in {"store", "use"} => i.val \in Value
         /\ i.op \in {"load", "phi"} => i.id \in Value
         /\ i.op = "phi" => i.pairs \in Seq(Value \X Block)
BY DEF Instruction

-------------------------------------------------------------------------------
(* Stacks and activations *)

\* Every variable is in its range; the results of Dominators stay what they were.
Typed ==
  /\ fn \in Functions
  /\ dominators_ = [frontier |-> [b \in Block |-> Frontier(b, Entry, Block, Edges)],
                    tree |-> IdomPairs(Entry, Block, Edges)]
  /\ code \in [Block -> Seq(Instruction)]
  /\ phase \in {"variable", "work list", "rename", "done", "aborted", "undefined"}
  /\ todo \subseteq Var /\ stacked \subseteq Var /\ work_list \subseteq Block
  /\ var \in Var \cup {0} /\ (phase = "work list" => var \in Var)
  /\ var_val_stack \in [Var -> Seq(Value)]
  /\ calls \in Seq(Activation)

\* The activations are a way down the dominator tree from the entry; all but the last
\* have filled the phis of their successors and called for some of their children.
FrameFits(c) ==
  /\ c.at <= Len(code[c.bb]) + 1
  /\ c.wait_delete \subseteq 1 .. c.at - 1
  /\ c.filled => c.at = Len(code[c.bb]) + 1
  /\ \A b \in c.next : Idom(c.bb, b)
Active ==
  /\ \A k \in 1 .. Len(calls) : FrameFits(calls[k])
  /\ \A k \in 1 .. Len(calls) - 1 : calls[k].filled /\ Idom(calls[k].bb, calls[k + 1].bb)
  /\ \A j, k \in 1 .. Len(calls) :
       j < k => Doms(calls[j].bb, calls[k].bb) /\ calls[j].bb # calls[k].bb
  /\ calls # << >> => calls[1].bb = Entry /\ phase \in {"rename", "aborted", "undefined"}

\* The phis of a block are of different variables, and named for them.
PhisDiffer ==
  \A b \in Block : \A i \in Is("phi", code[b]) :
    /\ code[b][i].id = Joined(b, code[b][i].var)
    /\ \A j \in Is("phi", code[b]) : code[b][i].var = code[b][j].var => i = j

\* The instructions of a block that have a value on the stack of x when its activation
\* is at position at.
PushedIn(is, at, x) ==
  {i \in 1 .. Len(is) :
     (is[i].op = "phi" \/ (is[i].op = "store" /\ i < at)) /\ is[i].var = x}
PushedBy(c, x) == PushedIn(code[c.bb], c.at, x)
Weights(x) == [k \in 1 .. Len(calls) |-> Cardinality(PushedBy(calls[k], x))]

\* t is the sum of the numbers in w.
AddsUp(w, t) ==
  \E H : /\ H[0] = 0 /\ H[Len(w)] = t
         /\ \A k \in 1 .. Len(w) : H[k - 1] \in Nat /\ H[k] = H[k - 1] + w[k]

\* On the stack of a variable is what the activations have pushed.
Stacked ==
  \A x \in Var : /\ AddsUp(Weights(x), Len(var_val_stack[x]))
                 /\ var_val_stack[x] # << >> => x \in stacked

SInv == Typed /\ Active /\ PhisDiffer /\ Stacked

-------------------------------------------------------------------------------
(* Sums *)

\* Nothing adds up to nothing.
LEMMA SumEmpty == AddsUp(<< >>, 0)
<1> DEFINE H == [k \in {0} |-> 0]
<1>1. H[0] = 0 /\ Len(<< >>) = 0
  OBVIOUS
<1> HIDE DEF H
<1>2. H[Len(<< >>)] = 0 /\ \A k \in 1 .. Len(<< >>) : FALSE
  BY <1>1
<1> QED BY <1>1, <1>2 DEF AddsUp

\* One number more.
LEMMA SumAppend ==
  ASSUME NEW w \in Seq(Nat), NEW t \in Nat, AddsUp(w, t), NEW d \in Nat
  PROVE  AddsUp(Append(w, d), t + d)
<1>1. PICK H : /\ H[0] = 0 /\ H[Len(w)] = t
               /\ \A k \in 1 .. Len(w) : H[k - 1] \in Nat /\ H[k] = H[k - 1] + w[k]
  BY DEF AddsUp
<1> DEFINE n == Len(w)
           v == Append(w, d)
           G == [k \in 0 .. n + 1 |-> IF k = n + 1 THEN t + d ELSE H[k]]
<1>2. n \in Nat /\ Len(v) = n + 1 /\ v[n + 1] = d /\ \A k \in 1 .. n : v[k] = w[k]
  BY AppendFacts
<1> HIDE DEF v, n
<1>3. G[0] = 0 /\ G[n + 1] = t + d /\ G[n] = t
  BY <1>1, <1>2 DEF n
<1>4. ASSUME NEW k \in 1 .. n + 1 PROVE G[k - 1] \in Nat /\ G[k] = G[k - 1] + v[k]
  <2>1. CASE k = n + 1
    BY <1>2, <1>3, <2>1
  <2>2. CASE k \in 1 .. n
    <3>1. G[k] = H[k] /\ G[k - 1] = H[k - 1]
      BY <1>2, <2>2
    <3> QED BY <1>1, <1>2, <2>2, <3>1 DEF n
  <2> QED BY <1>2, <2>1, <2>2
<1> HIDE DEF G
<1>5. AddsUp(v, t + d)
  <2>1. G[Len(v)] = t + d /\ \A k \in 1 .. Len(v) : G[k - 1] \in Nat /\ G[k] = G[k - 1] + v[k]
    BY <1>2, <1>3, <1>4
  <2> QED BY <1>3, <2>1 DEF AddsUp
<1> QED BY <1>5 DEF v

\* One number less; each is at most the sum.
LEMMA SumFront ==
  ASSUME NEW w \in Seq(Nat), w # << >>, NEW t \in Nat, AddsUp(w, t)
  PROVE  /\ Last(w) \in Nat /\ Last(w) <= t /\ AddsUp(Front(w), t - Last(w))
         /\ \A k \in 1 .. Len(w) : w[k] <= t
<1>1. PICK H : /\ H[0] = 0 /\ H[Len(w)] = t
               /\ \A k \in 1 .. Len(w) : H[k - 1] \in Nat /\ H[k] = H[k - 1] + w[k]
  BY DEF AddsUp
<1> DEFINE n == Len(w)
           v == Front(w)
<1>2. /\ n \in Nat \ {0} /\ Len(v) = n - 1 /\ (\A k \in 1 .. n - 1 : v[k] = w[k])
      /\ Last(w) = w[n] /\ \A k \in 1 .. n : w[k] \in Nat
  BY FrontFacts, ElementOfSeq
<1> HIDE DEF v, n
<1>3. \A k \in 1 .. n : H[k - 1] \in Nat /\ H[k] = H[k - 1] + w[k]
  BY <1>1 DEF n
<1>4. H[n - 1] \in Nat /\ t = H[n - 1] + w[n] /\ w[n] \in Nat
  BY <1>1, <1>2, <1>3 DEF n
<1>5. AddsUp(v, t - w[n])
  <2>1. H[n - 1] = t - w[n]
    BY <1>2, <1>4
  <2>2. \A k \in 1 .. n - 1 : H[k - 1] \in Nat /\ H[k] = H[k - 1] + v[k]
    BY <1>2, <1>3
  <2> QED BY <1>1, <1>2, <2>1, <2>2 DEF AddsUp
<1>6. \A k \in 1 .. n : w[k] <= t
  <2> DEFINE G == {k \in 0 .. n : H[n - k] \in Nat /\ H[n - k] <= t}
  <2>1. 0 \in G
    BY <1>1, <1>2 DEF n
  <2>2. ASSUME NEW k \in 0 .. n - 1, k \in G PROVE k + 1 \in G
    <3>1. n - k \in 1 .. n /\ n - (k + 1) = n - k - 1 /\ k + 1 \in 0 .. n
      BY <1>2
    <3>2. H[n - k - 1] \in Nat /\ H[n - k] = H[n - k - 1] + w[n - k] /\ w[n - k] \in Nat
      BY <1>2, <1>3, <3>1
    <3> QED BY <2>2, <3>1, <3>2
  <2> HIDE DEF G
  <2>3. \A k \in 0 .. n : k \in G
    BY <1>2, <2>1, <2>2, UpTo
  <2> TAKE k \in 1 .. n
  <2>4. H[k] \in Nat /\ H[k] <= t
    <3>1. n - k \in 0 .. n /\ n - (n - k) = k
      BY <1>2
    <3> QED BY <2>3, <3>1 DEF G
  <2>5. H[k - 1] \in Nat /\ H[k] = H[k - 1] + w[k] /\ w[k] \in Nat
    BY <1>2, <1>3
  <2> QED BY <2>4, <2>5
<1> QED BY <1>2, <1>4, <1>5, <1>6 DEF v, n

-------------------------------------------------------------------------------
(* Steps of an activation *)

\* The same instructions, but for the values they use.
Alike(is, js) ==
  /\ Len(js) = Len(is)
  /\ \A i \in 1 .. Len(is) : /\ js[i].op = is[i].op
                             /\ is[i].op # "use" => js[i].var = is[i].var
                             /\ is[i].op \in {"load", "phi"} => js[i].id = is[i].id

\* Instructions that are alike push the same values.
LEMMA AlikePushes ==
  ASSUME NEW is, NEW js, Alike(is, js), NEW at, NEW x
  PROVE  PushedIn(js, at, x) = PushedIn(is, at, x)
BY DEF PushedIn, Alike

\* What is pushed is counted by a number.
LEMMA PushedFinite ==
  ASSUME NEW is \in Seq(Instruction), NEW at, NEW x
  PROVE  IsFiniteSet(PushedIn(is, at, x)) /\ Cardinality(PushedIn(is, at, x)) \in Nat
<1>1. PushedIn(is, at, x) \subseteq 1 .. Len(is) /\ Len(is) \in Nat
  BY LenProperties DEF PushedIn
<1>2. IsFiniteSet(1 .. Len(is))
  BY <1>1, FS_Interval
<1>3. IsFiniteSet(PushedIn(is, at, x))
  BY <1>1, <1>2, FS_Subset
<1> QED BY <1>3, FS_CardinalityType

\* One more instruction of the block: a store of x counts, nothing else does.
LEMMA PushedNext ==
  ASSUME NEW is \in Seq(Instruction), NEW at \in 1 .. Len(is), NEW x
  PROVE  Cardinality(PushedIn(is, at + 1, x)) =
           IF is[at].op = "store" /\ is[at].var = x THEN Cardinality(PushedIn(is, at, x)) + 1
           ELSE Cardinality(PushedIn(is, at, x))
<1>1. Len(is) \in Nat
  BY LenProperties
<1>2. CASE is[at].op = "store" /\ is[at].var = x
  <2>1. PushedIn(is, at + 1, x) = PushedIn(is, at, x) \cup {at} /\ at \notin PushedIn(is, at, x)
    BY <1>1, <1>2 DEF PushedIn
  <2> QED BY <1>2, <2>1, PushedFinite, FS_AddElement
<1>3. CASE ~ (is[at].op = "store" /\ is[at].var = x)
  <2>1. PushedIn(is, at + 1, x) = PushedIn(is, at, x)
    BY <1>1, <1>3 DEF PushedIn
  <2> QED BY <1>3, <2>1
<1> QED BY <1>2, <1>3

\* Before the first instruction only phis count, of which a variable has one at most.
LEMMA PushedFirst ==
  ASSUME NEW is \in Seq(Instruction), NEW x,
         \A i, j \in Is("phi", is) : is[i].var = is[j].var => i = j
  PROVE  Cardinality(PushedIn(is, 1, x)) =
           IF x \in {is[i].var : i \in Is("phi", is)} THEN 1 ELSE 0
<1>1. Len(is) \in Nat /\ DOMAIN is = 1 .. Len(is)
  BY LenProperties
<1>2. PushedIn(is, 1, x) = {i \in Is("phi", is) : is[i].var = x}
  BY <1>1 DEF PushedIn, Is
<1>3. CASE x \in {is[i].var : i \in Is("phi", is)}
  <2>1. PICK i \in Is("phi", is) : is[i].var = x
    BY <1>3
  <2>2. PushedIn(is, 1, x) = {i}
    BY <1>2, <2>1
  <2> QED BY <1>3, <2>2, FS_Singleton
<1>4. CASE x \notin {is[i].var : i \in Is("phi", is)}
  <2>1. PushedIn(is, 1, x) = {}
    BY <1>2, <1>4
  <2> QED BY <1>4, <2>1, FS_EmptySet
<1> QED BY <1>3, <1>4

\* The last activation is replaced by c.
LEMMA Replaced ==
  ASSUME NEW S, NEW s \in Seq(S), s # << >>, NEW c \in S
  PROVE  LET r == Append(Front(s), c)
             n == Len(s)
         IN  /\ n \in Nat \ {0} /\ DOMAIN s = 1 .. n
             /\ r \in Seq(S) /\ r # << >> /\ Len(r) = n /\ DOMAIN r = 1 .. n
             /\ r[n] = c /\ Last(r) = c /\ Front(r) = Front(s)
             /\ \A k \in 1 .. n - 1 : r[k] = s[k]
             /\ Last(s) = s[n] /\ s[n] \in S
<1>1. /\ Len(s) \in Nat \ {0} /\ DOMAIN s = 1 .. Len(s)
      /\ Front(s) \in Seq(S) /\ Len(Front(s)) = Len(s) - 1
      /\ \A i \in 1 .. Len(s) - 1 : Front(s)[i] = s[i]
      /\ Last(s) = s[Len(s)] /\ Last(s) \in S
  BY FrontFacts
<1> DEFINE f == Front(s)
           r == Append(f, c)
<1> HIDE DEF f
<1>2. /\ r \in Seq(S) /\ r # << >> /\ Len(r) = Len(f) + 1 /\ DOMAIN r = 1 .. Len(f) + 1
      /\ \A i \in 1 .. Len(f) : r[i] = f[i]
      /\ r[Len(f) + 1] = c /\ Last(r) = c
  <2>1. f \in Seq(S)
    BY <1>1 DEF f
  <2> QED BY <2>1, AppendFacts
<1> HIDE DEF r
<1>3. Len(f) + 1 = Len(s)
  BY <1>1 DEF f
<1>4. Front(r) = f
  <2>1. /\ Front(r) \in Seq(S) /\ Len(Front(r)) = Len(r) - 1
        /\ \A i \in 1 .. Len(r) - 1 : Front(r)[i] = r[i]
    BY <1>2, FrontFacts
  <2>2. f \in Seq(S) /\ Len(Front(r)) = Len(f) /\ \A i \in 1 .. Len(f) : Front(r)[i] = f[i]
    BY <1>1, <1>2, <1>3, <2>1 DEF f
  <2> QED BY <2>1, <2>2, SeqEqual
<1> QED BY <1>1, <1>2, <1>3, <1>4 DEF f, r

\* The tree that dominators_ holds.
LEMMA Tree ==
  ASSUME Typed
  PROVE  \A a, b : b \in get_dom_tree_succ_blocks(a) <=> Idom(a, b)
<1> SUFFICES ASSUME NEW a, NEW b
             PROVE  b \in get_dom_tree_succ_blocks(a) <=> Idom(a, b)
  OBVIOUS
<1>1. dominators_.tree = IdomPairs(Entry, Block, Edges)
  BY DEF Typed
<1>2. ASSUME NEW e \in IdomPairs(Entry, Block, Edges) PROVE \E d, n : e = <<d, n>>
  <2>1. \E d, n : /\ e = <<d, n>> /\ d # n
                  /\ d \in ReachableFrom({Entry}, Block, Edges)
                  /\ n \in DominatedBy(d, Entry, Block, Edges)
                  /\ \A c \in Block \ {n} :
                       /\ c \in ReachableFrom({Entry}, Block, Edges)
                       /\ n \in DominatedBy(c, Entry, Block, Edges)
                       => d \in DominatedBy(c, Entry, Block, Edges)
    BY <1>2, IdomDef
  <2> QED BY <2>1
<1> QED BY <1>1, <1>2 DEF get_dom_tree_succ_blocks, Idom

\* Blocks that are related in the tree.
LEMMA IdomIs ==
  ASSUME fn \in Functions, NEW a, NEW b, Idom(a, b)
  PROVE  /\ a \in Block /\ b \in Block /\ a # b /\ b # Entry /\ Doms(a, b)
         /\ \A c : Idom(c, b) => c = a
         /\ \A c \in Block : Doms(c, b) => c = b \/ Doms(c, a)
BY Graph, IdomFacts DEF Idom, Doms

\* What the last activation is.
LEMMA FrameIs ==
  ASSUME Typed, Active, calls # << >>
  PROVE  LET n == Len(calls)
         IN  /\ n \in Nat \ {0} /\ DOMAIN calls = 1 .. n
             /\ Frame = calls[n] /\ Frame \in Activation
             /\ FrameFits(Frame)
             /\ \A k \in 1 .. n : calls[k] \in Activation
             /\ \A k \in 1 .. n : code[calls[k].bb] \in Seq(Instruction)
             /\ \A k \in 1 .. n : DOMAIN code[calls[k].bb] = 1 .. Len(code[calls[k].bb])
             /\ \A k \in 1 .. n : Len(code[calls[k].bb]) \in Nat
<1> DEFINE n == Len(calls)
<1>1. calls \in Seq(Activation)
  BY DEF Typed
<1>2. n \in Nat \ {0} /\ DOMAIN calls = 1 .. n /\ Frame = calls[n]
  BY <1>1, FrontFacts DEF Frame
<1>3. \A k \in 1 .. n : calls[k] \in Activation
  BY <1>1, ElementOfSeq
<1>4. \A k \in 1 .. n : code[calls[k].bb] \in Seq(Instruction)
  BY <1>3 DEF Typed, Activation
<1>5. \A k \in 1 .. n : /\ DOMAIN code[calls[k].bb] = 1 .. Len(code[calls[k].bb])
                        /\ Len(code[calls[k].bb]) \in Nat
  BY <1>4, LenProperties
<1>6. FrameFits(calls[n])
  BY <1>2 DEF Active
<1> QED BY <1>2, <1>3, <1>4, <1>5, <1>6

\* The last activation goes on, and the code keeps its shape.
Onwards(c) ==
  /\ calls # << >> /\ calls' = Append(Front(calls), c)
  /\ c \in Activation /\ c.bb = Frame.bb /\ Frame.at <= c.at
  /\ c.at <= Len(code[c.bb]) + 1 /\ c.wait_delete \subseteq 1 .. c.at - 1
  /\ c.filled => c.at = Len(code[c.bb]) + 1
  /\ c.next \subseteq Frame.next
  /\ fn' = fn /\ phase' = "rename" /\ phase = "rename"
  /\ code' \in [Block -> Seq(Instruction)]
  /\ \A b \in Block : Alike(code[b], code'[b])

\* The other activations stay, ...
LEMMA OnwardsFrames ==
  ASSUME Typed, Active, NEW c, Onwards(c)
  PROVE  LET n == Len(calls)
         IN  /\ n \in Nat \ {0} /\ calls' # << >> /\ Len(calls') = n /\ calls' \in Seq(Activation)
             /\ calls'[n] = c /\ Frame = calls[n] /\ c.bb = Frame.bb
             /\ \A k \in 1 .. n - 1 : calls'[k] = calls[k]
             /\ \A k \in 1 .. n : calls'[k].bb = calls[k].bb /\ calls[k].bb \in Block
<1> DEFINE n == Len(calls)
<1>1. /\ calls \in Seq(Activation) /\ calls # << >> /\ c \in Activation /\ c.bb = Frame.bb
      /\ calls' = Append(Front(calls), c)
  BY DEF Typed, Onwards
<1>2. /\ n \in Nat \ {0} /\ calls' # << >> /\ Len(calls') = n /\ calls' \in Seq(Activation)
      /\ calls'[n] = c /\ \A k \in 1 .. n - 1 : calls'[k] = calls[k]
  BY <1>1, Replaced
<1>3. Frame = calls[n] /\ \A k \in 1 .. n : calls[k] \in Activation
  BY <1>1, FrameIs
<1> HIDE DEF n
<1>4. ASSUME NEW k \in 1 .. n PROVE calls'[k].bb = calls[k].bb /\ calls[k].bb \in Block
  <2>1. CASE k = n
    BY <1>1, <1>2, <1>3, <2>1 DEF Activation
  <2>2. CASE k \in 1 .. n - 1
    BY <1>2, <1>3, <2>2 DEF Activation
  <2> QED BY <1>2, <2>1, <2>2
<1> QED BY <1>1, <1>2, <1>3, <1>4 DEF n

\* ... the way down the tree stays, ...
LEMMA OnwardsActive ==
  ASSUME Typed, Active, NEW c, Onwards(c)
  PROVE  Active'
<1> DEFINE n == Len(calls)
<1>1. /\ n \in Nat \ {0} /\ calls' # << >> /\ Len(calls') = n
      /\ calls'[n] = c /\ \A k \in 1 .. n - 1 : calls'[k] = calls[k]
  BY OnwardsFrames
<1>2. /\ Frame = calls[n] /\ FrameFits(Frame)
      /\ \A k \in 1 .. n : calls'[k].bb = calls[k].bb /\ calls[k].bb \in Block
  BY OnwardsFrames, FrameIs DEF Onwards
<1>3. \A b \in Block : Len(code'[b]) = Len(code[b])
  BY DEF Onwards, Alike
<1>4. Block' = Block /\ Edges' = Edges
  BY DEF Onwards, Block, Edges
<1>5. ASSUME NEW k \in 1 .. n PROVE FrameFits(calls[k])'
  <2>1. CASE k = n
    <3>1. \A b \in c.next : Idom(calls[n].bb, b)
      BY <1>2 DEF Onwards, FrameFits
    <3>2. /\ c.bb = calls[n].bb /\ c.at <= Len(code[calls[n].bb]) + 1
          /\ c.wait_delete \subseteq 1 .. c.at - 1
          /\ c.filled => c.at = Len(code[calls[n].bb]) + 1
      BY <1>2 DEF Onwards
    <3>3. Len(code'[calls[n].bb]) = Len(code[calls[n].bb])
      BY <1>1, <1>2, <1>3
    <3> QED BY <1>1, <1>4, <2>1, <3>1, <3>2, <3>3 DEF FrameFits, Idom
  <2>2. CASE k \in 1 .. n - 1
    <3>1. calls'[k] = calls[k] /\ FrameFits(calls[k])
      BY <1>1, <2>2 DEF Active
    <3>2. Len(code'[calls[k].bb]) = Len(code[calls[k].bb])
      BY <1>2, <1>3
    <3> QED BY <1>4, <3>1, <3>2 DEF FrameFits, Idom
  <2> QED BY <1>1, <2>1, <2>2
<1>6. ASSUME NEW k \in 1 .. n - 1
      PROVE  calls'[k].filled /\ Idom(calls[k].bb, calls[k + 1].bb)'
  <2>1. k \in 1 .. n /\ k + 1 \in 1 .. n
    BY <1>1
  <2>2. calls[k].filled /\ Idom(calls[k].bb, calls[k + 1].bb)
    BY DEF Active
  <2> QED BY <1>1, <1>2, <1>4, <2>1, <2>2 DEF Idom
<1>7. ASSUME NEW j \in 1 .. n, NEW k \in 1 .. n, j < k
      PROVE  Doms(calls[j].bb, calls[k].bb)' /\ calls'[j].bb # calls'[k].bb
  <2>1. Doms(calls[j].bb, calls[k].bb) /\ calls[j].bb # calls[k].bb
    BY <1>7 DEF Active
  <2> QED BY <1>2, <1>4, <2>1 DEF Doms
<1>8. calls'[1].bb = Entry
  <2>1. 1 \in 1 .. n /\ calls[1].bb = Entry
    BY <1>1 DEF Active, Onwards
  <2> QED BY <1>2, <2>1
<1>9. phase' \in {"rename", "aborted", "undefined"} /\ Entry' = Entry
  BY DEF Onwards, Entry
<1> QED BY <1>1, <1>5, <1>6, <1>7, <1>8, <1>9 DEF Active

\* ... and so do the phis and their names.
LEMMA OnwardsPhis ==
  ASSUME Typed, PhisDiffer, NEW c, Onwards(c)
  PROVE  PhisDiffer'
<1>1. Block' = Block
  BY DEF Onwards, Block
<1>2. ASSUME NEW b \in Block
      PROVE  /\ Is("phi", code'[b]) = Is("phi", code[b])
             /\ \A i \in Is("phi", code[b]) : /\ code'[b][i].var = code[b][i].var
                                              /\ code'[b][i].id = code[b][i].id
  <2>1. Alike(code[b], code'[b]) /\ code[b] \in Seq(Instruction) /\ code'[b] \in Seq(Instruction)
    BY DEF Onwards, Typed
  <2>2. /\ DOMAIN code[b] = 1 .. Len(code[b]) /\ DOMAIN code'[b] = 1 .. Len(code'[b])
        /\ Len(code[b]) \in Nat
    BY <2>1, LenProperties
  <2> QED BY <2>1, <2>2 DEF Alike, Is
<1> QED BY <1>1, <1>2 DEF PhisDiffer

\* The stacks grow with what the activation goes over.
LEMMA OnwardsStacked ==
  ASSUME Typed, Active, PhisDiffer, Stacked, NEW c, Onwards(c),
         var_val_stack' \in [Var -> Seq(Value)], stacked \subseteq stacked',
         \A x \in Var : \E d \in Nat :
           /\ Cardinality(PushedIn(code[c.bb], c.at, x))
                = Cardinality(PushedIn(code[c.bb], Frame.at, x)) + d
           /\ Len(var_val_stack'[x]) = Len(var_val_stack[x]) + d
           /\ d = 0 \/ x \in stacked'
  PROVE  Stacked'
<1> SUFFICES ASSUME NEW x \in Var
             PROVE  /\ AddsUp(Weights(x)', Len(var_val_stack'[x]))
                    /\ var_val_stack'[x] # << >> => x \in stacked'
  BY DEF Stacked
<1> DEFINE n == Len(calls)
           is == code[c.bb]
           old == Cardinality(PushedIn(is, Frame.at, x))
           new == Cardinality(PushedIn(is, c.at, x))
           w == Weights(x)
           t == Len(var_val_stack[x])
<1>1. /\ n \in Nat \ {0} /\ calls' # << >> /\ Len(calls') = n
      /\ calls'[n] = c /\ (\A k \in 1 .. n - 1 : calls'[k] = calls[k])
      /\ \A k \in 1 .. n : calls'[k].bb = calls[k].bb /\ calls[k].bb \in Block
  BY OnwardsFrames
<1>2. /\ Frame = calls[n] /\ (\A k \in 1 .. n : calls[k] \in Activation)
      /\ c \in Activation /\ c.bb = Frame.bb /\ c.bb \in Block /\ is \in Seq(Instruction)
  <2>1. c \in Activation /\ c.bb = Frame.bb /\ c.bb \in Block
    BY DEF Onwards, Activation
  <2> QED BY <2>1, FrameIs DEF Onwards, Typed
<1>3. old \in Nat /\ new \in Nat
  BY <1>2, PushedFinite
<1>4. /\ t \in Nat /\ Len(var_val_stack'[x]) = t + (new - old) /\ new - old \in Nat
      /\ new - old = 0 \/ x \in stacked'
  <2>1. PICK d \in Nat : /\ new = old + d /\ Len(var_val_stack'[x]) = t + d
                         /\ d = 0 \/ x \in stacked'
    OBVIOUS
  <2>2. t \in Nat
    BY LenProperties DEF Typed
  <2>3. new - old = d
    BY <1>3, <2>1
  <2> QED BY <2>1, <2>2, <2>3
<1>5. AddsUp(w, t)
  BY DEF Stacked
<1>6. ASSUME NEW k \in 1 .. n
      PROVE  /\ w[k] = Cardinality(PushedIn(code[calls[k].bb], calls[k].at, x)) /\ w[k] \in Nat
             /\ Weights(x)'[k] = Cardinality(PushedIn(code[calls[k].bb], calls'[k].at, x))
  <2>1. calls[k].bb \in Block /\ calls'[k].bb = calls[k].bb
    BY <1>1
  <2>2. /\ code[calls[k].bb] \in Seq(Instruction)
        /\ Alike(code[calls[k].bb], code'[calls[k].bb])
    BY <2>1 DEF Typed, Onwards
  <2>3. PushedIn(code'[calls[k].bb], calls'[k].at, x) = PushedIn(code[calls[k].bb], calls'[k].at, x)
    BY <2>2, AlikePushes
  <2>4. w[k] = Cardinality(PushedIn(code[calls[k].bb], calls[k].at, x))
    BY DEF Weights, PushedBy
  <2>5. Weights(x)'[k] = Cardinality(PushedIn(code'[calls'[k].bb], calls'[k].at, x))
    BY <1>1 DEF Weights, PushedBy
  <2> QED BY <2>1, <2>2, <2>3, <2>4, <2>5, PushedFinite
<1>7. ASSUME NEW v, v = [k \in 1 .. n |-> v[k]], \A k \in 1 .. n : v[k] \in Nat
      PROVE  v \in Seq(Nat) /\ v # << >> /\ Len(v) = n
  <2>1. v \in Seq(Nat) /\ Len(v) = n
    BY <1>1, <1>7, IsASeq
  <2> QED BY <1>1, <2>1, EmptySeq
<1>8. w = [k \in 1 .. n |-> w[k]] /\ Weights(x)' = [k \in 1 .. n |-> Weights(x)'[k]]
  BY <1>1 DEF Weights
<1> HIDE DEF n, w, t, old, new
<1>9. w \in Seq(Nat) /\ w # << >> /\ Len(w) = n
  BY <1>6, <1>7, <1>8
<1>10. /\ Last(w) = old /\ Front(w) \in Seq(Nat) /\ Len(Front(w)) = n - 1
       /\ \A k \in 1 .. n - 1 : Front(w)[k] = w[k]
  <2>1. w[n] = old
    <3>1. n \in 1 .. n
      BY <1>1
    <3> QED BY <1>2, <1>6, <3>1 DEF old
  <2> QED BY <1>9, <2>1, FrontFacts
<1>11. old <= t /\ AddsUp(Front(w), t - old)
  BY <1>4, <1>5, <1>9, <1>10, SumFront
<1>12. AddsUp(Append(Front(w), new), t - old + new)
  <2>1. t - old \in Nat
    BY <1>3, <1>4, <1>11
  <2> QED BY <1>3, <1>10, <1>11, <2>1, SumAppend
<1>13. Append(Front(w), new) = Weights(x)'
  <2> DEFINE u == Append(Front(w), new)
  <2>1. u \in Seq(Nat) /\ Len(u) = n - 1 + 1 /\ (\A k \in 1 .. n - 1 : u[k] = w[k]) /\ u[n - 1 + 1] = new
    BY <1>3, <1>10, AppendFacts
  <2> HIDE DEF u
  <2>2. u \in Seq(Nat) /\ Len(u) = n /\ (\A k \in 1 .. n - 1 : u[k] = w[k]) /\ u[n] = new
    BY <1>1, <2>1
  <2>3. ASSUME NEW k \in 1 .. n PROVE u[k] = Weights(x)'[k]
    <3>1. CASE k = n
      BY <1>1, <1>2, <1>6, <2>2, <3>1 DEF new
    <3>2. CASE k \in 1 .. n - 1
      BY <1>1, <1>6, <2>2, <3>2
    <3> QED BY <1>1, <3>1, <3>2
  <2>4. u = [k \in 1 .. n |-> u[k]]
    BY <2>2, LenProperties
  <2> QED BY <1>8, <2>3, <2>4 DEF u
<1>14. t - old + new = Len(var_val_stack'[x])
  BY <1>3, <1>4
<1>15. ASSUME var_val_stack'[x] # << >> PROVE x \in stacked'
  <2>1. CASE new - old = 0
    <3>1. Len(var_val_stack'[x]) = t
      BY <1>4, <2>1
    <3>2. var_val_stack[x] \in Seq(Value) /\ var_val_stack'[x] \in Seq(Value)
      BY DEF Typed
    <3>3. var_val_stack[x] # << >>
      BY <1>15, <3>1, <3>2, EmptySeq DEF t
    <3> QED BY <3>3 DEF Stacked
  <2>2. CASE new - old # 0
    BY <1>4, <2>2
  <2> QED BY <2>1, <2>2
<1> QED BY <1>12, <1>13, <1>14, <1>15

\* An operand is replaced, and nothing else of an instruction changes.
LEMMA SubstitutedFacts ==
  ASSUME NEW i \in Instruction, NEW old, NEW new \in Value
  PROVE  LET j == Substituted(i, old, new)
         IN  /\ j \in Instruction /\ j.op = i.op
             /\ i.op # "use" => j.var = i.var
             /\ i.op \in {"load", "phi"} => j.id = i.id
             /\ i.op \in {"store", "use"} => j.val = Subst(i.val, old, new)
             /\ i.op = "phi" =>
                  /\ Len(j.pairs) = Len(i.pairs)
                  /\ \A k \in 1 .. Len(i.pairs) : /\ j.pairs[k][1] = Subst(i.pairs[k][1], old, new)
                                                  /\ j.pairs[k][2] = i.pairs[k][2]
<1> DEFINE j == Substituted(i, old, new)
<1>1. \A v \in Value : Subst(v, old, new) \in Value
  BY DEF Subst
<1>2. CASE i \in [op : {"store"}, var : Var, val : Value]
  <2>1. j = [i EXCEPT !.val = Subst(@, old, new)]
    BY <1>2 DEF Substituted
  <2>2. /\ j \in [op : {"store"}, var : Var, val : Value]
        /\ j.op = i.op /\ j.var = i.var /\ j.val = Subst(i.val, old, new)
    BY <1>1, <1>2, <2>1
  <2> QED BY <1>2, <2>2 DEF Instruction
<1>3. CASE i \in [op : {"load"}, var : Var, id : Value]
  <2>1. j = i
    BY <1>3 DEF Substituted
  <2> QED BY <1>3, <2>1
<1>4. CASE i \in [op : {"use"}, val : Value]
  <2>1. j = [i EXCEPT !.val = Subst(@, old, new)]
    BY <1>4 DEF Substituted
  <2>2. j \in [op : {"use"}, val : Value] /\ j.op = i.op /\ j.val = Subst(i.val, old, new)
    BY <1>1, <1>4, <2>1
  <2> QED BY <1>4, <2>2 DEF Instruction
<1>5. CASE i \in [op : {"phi"}, var : Var, id : Value, pairs : Seq(Value \X Block)]
  <2> DEFINE ps == i.pairs
             qs == [k \in DOMAIN ps |-> <<Subst(ps[k][1], old, new), ps[k][2]>>]
  <2>1. j = [i EXCEPT !.pairs = qs]
    BY <1>5 DEF Substituted
  <2>2. ps \in Seq(Value \X Block) /\ DOMAIN ps = 1 .. Len(ps) /\ Len(ps) \in Nat
    BY <1>5, LenProperties
  <2>3. \A k \in 1 .. Len(ps) : ps[k][1] \in Value /\ ps[k][2] \in Block
    <3> TAKE k \in 1 .. Len(ps)
    <3>1. ps[k] \in Value \X Block
      BY <2>2, ElementOfSeq
    <3> QED BY <3>1
  <2>4. \A k \in 1 .. Len(ps) : qs[k] \in Value \X Block
    BY <1>1, <2>2, <2>3
  <2>5. qs = [k \in 1 .. Len(ps) |-> qs[k]]
    BY <2>2
  <2>6. qs \in Seq(Value \X Block) /\ Len(qs) = Len(ps)
    <3> HIDE DEF qs, ps
    <3> QED BY <2>2, <2>4, <2>5, MappedSeq
  <2>7. \A k \in 1 .. Len(ps) : qs[k][1] = Subst(ps[k][1], old, new) /\ qs[k][2] = ps[k][2]
    BY <2>2
  <2> HIDE DEF qs
  <2>8. /\ j \in [op : {"phi"}, var : Var, id : Value, pairs : Seq(Value \X Block)]
        /\ j.op = i.op /\ j.var = i.var /\ j.id = i.id /\ j.pairs = qs
    BY <1>5, <2>1, <2>6
  <2> QED BY <1>5, <2>6, <2>7, <2>8 DEF Instruction
<1> QED BY <1>2, <1>3, <1>4, <1>5 DEF Instruction

\* A block of which every instruction is changed alike.
LEMMA MappedBlock ==
  ASSUME NEW is \in Seq(Instruction), NEW js, js = [k \in DOMAIN is |-> js[k]],
         \A k \in DOMAIN is : /\ js[k] \in Instruction /\ js[k].op = is[k].op
                              /\ is[k].op # "use" => js[k].var = is[k].var
                              /\ is[k].op \in {"load", "phi"} => js[k].id = is[k].id
  PROVE  js \in Seq(Instruction) /\ Alike(is, js) /\ DOMAIN js = DOMAIN is
<1>1. DOMAIN is = 1 .. Len(is) /\ Len(is) \in Nat
  BY LenProperties
<1>2. js \in Seq(Instruction) /\ Len(js) = Len(is)
  BY <1>1, IsASeq
<1> QED BY <1>1, <1>2 DEF Alike

\* What stays the same is alike.
LEMMA AlikeSelf ==
  ASSUME NEW is
  PROVE  Alike(is, is)
BY DEF Alike

\* What replace_all_use_with does to the code.
LEMMA ReplaceAllUsesFacts ==
  ASSUME Typed, NEW old, NEW new \in Value, ReplaceAllUses(old, new)
  PROVE  /\ code' \in [Block -> Seq(Instruction)]
         /\ \A b \in Block : /\ Alike(code[b], code'[b])
                             /\ DOMAIN code'[b] = DOMAIN code[b]
                             /\ \A k \in DOMAIN code[b] : code'[b][k] = Substituted(code[b][k], old, new)
<1>1. ASSUME NEW b \in Block
      PROVE  /\ code'[b] \in Seq(Instruction) /\ Alike(code[b], code'[b])
             /\ DOMAIN code'[b] = DOMAIN code[b]
             /\ \A k \in DOMAIN code[b] : code'[b][k] = Substituted(code[b][k], old, new)
  <2> DEFINE is == code[b]
             js == [k \in DOMAIN is |-> Substituted(is[k], old, new)]
  <2>1. code'[b] = js
    BY DEF ReplaceAllUses
  <2>2. is \in Seq(Instruction)
    BY DEF Typed
  <2>3. \A k \in DOMAIN is : is[k] \in Instruction
    BY <2>2, ElementOfSeq, LenProperties
  <2>4. \A k \in DOMAIN is : /\ js[k] \in Instruction /\ js[k].op = is[k].op
                             /\ is[k].op # "use" => js[k].var = is[k].var
                             /\ is[k].op \in {"load", "phi"} => js[k].id = is[k].id
    BY <2>3, SubstitutedFacts
  <2>5. js = [k \in DOMAIN is |-> js[k]]
    OBVIOUS
  <2>6. js \in Seq(Instruction) /\ Alike(is, js) /\ DOMAIN js = DOMAIN is
    <3> HIDE DEF js, is
    <3> QED BY <2>2, <2>4, <2>5, MappedBlock
  <2> QED BY <2>1, <2>6
<1>2. code' = [b \in Block |-> code'[b]]
  BY DEF ReplaceAllUses
<1> QED BY <1>1, <1>2

-------------------------------------------------------------------------------
(* The actions of re_name keep SInv *)

\* The next instruction of the block.
LEMMA AdvanceOnwards ==
  ASSUME Typed, Active, Working, NEW w, w \in {{}, {Frame.at}}, Advance(w),
         fn' = fn, phase' = phase,
         code' \in [Block -> Seq(Instruction)], \A b \in Block : Alike(code[b], code'[b])
  PROVE  LET c == [Frame EXCEPT !.at = @ + 1, !.wait_delete = @ \cup w]
         IN  /\ Onwards(c) /\ c.at = Frame.at + 1 /\ c.bb = Frame.bb /\ c.filled = Frame.filled
             /\ c.wait_delete = Frame.wait_delete \cup w /\ c.next = Frame.next
             /\ ~ Frame.filled
             /\ Frame.at \in 1 .. Len(code[Frame.bb]) /\ code[Frame.bb] \in Seq(Instruction)
             /\ instr = code[Frame.bb][Frame.at] /\ instr \in Instruction
<1> DEFINE c == [Frame EXCEPT !.at = @ + 1, !.wait_delete = @ \cup w]
<1>1. /\ calls # << >> /\ phase = "rename" /\ Frame.at <= Len(code[Frame.bb])
      /\ calls' = Append(Front(calls), c)
  BY DEF Working, Renaming, Advance
<1>2. /\ Frame \in Activation /\ FrameFits(Frame)
      /\ code[Frame.bb] \in Seq(Instruction) /\ Len(code[Frame.bb]) \in Nat
  <2>1. Len(calls) \in 1 .. Len(calls)
    BY <1>1, FrameIs
  <2> QED BY <1>1, <2>1, FrameIs
<1>3. /\ Frame.bb \in Block /\ Frame.at \in Nat \ {0} /\ Frame.filled \in BOOLEAN
      /\ Frame.wait_delete \in SUBSET Nat /\ Frame.next \in SUBSET Block
  BY <1>2 DEF Activation
<1>4. /\ c \in Activation /\ c.at = Frame.at + 1 /\ c.bb = Frame.bb /\ c.filled = Frame.filled
      /\ c.wait_delete = Frame.wait_delete \cup w /\ c.next = Frame.next
  <2>1. Frame.at + 1 \in Nat \ {0} /\ Frame.wait_delete \cup w \in SUBSET Nat
    BY <1>3
  <2> QED BY <1>2, <2>1 DEF Activation
<1>5. ~ Frame.filled /\ Frame.at \in 1 .. Len(code[Frame.bb])
  BY <1>1, <1>2, <1>3 DEF FrameFits
<1>6. c.wait_delete \subseteq 1 .. c.at - 1
  BY <1>2, <1>3, <1>4 DEF FrameFits
<1>7. instr = code[Frame.bb][Frame.at] /\ instr \in Instruction
  BY <1>2, <1>5, ElementOfSeq DEF instr
<1> HIDE DEF c
<1>8. Onwards(c)
  BY <1>1, <1>2, <1>3, <1>4, <1>5, <1>6 DEF Onwards
<1> QED BY <1>2, <1>4, <1>5, <1>7, <1>8 DEF c

\* A store puts its value on the stack of its variable, and is counted as gone over.
LEMMA PushStoreSInv ==
  ASSUME SInv, PushStore
  PROVE  SInv'
<1> DEFINE c == [Frame EXCEPT !.at = @ + 1, !.wait_delete = @ \cup {Frame.at}]
           is == code[Frame.bb]
<1>1. /\ Typed /\ Active /\ PhisDiffer /\ Stacked /\ Working /\ instr.op = "store"
      /\ Pushed(instr.var, instr.val) /\ Advance({Frame.at})
      /\ fn' = fn /\ dominators_' = dominators_ /\ code' = code /\ phase' = phase
      /\ todo' = todo /\ var' = var /\ work_list' = work_list
  BY DEF SInv, PushStore
<1>2. code' \in [Block -> Seq(Instruction)] /\ \A b \in Block : Alike(code[b], code'[b])
  BY <1>1, AlikeSelf DEF Typed
<1>3. /\ Onwards(c) /\ c.at = Frame.at + 1 /\ c.bb = Frame.bb
      /\ Frame.at \in 1 .. Len(is) /\ is \in Seq(Instruction)
      /\ instr = is[Frame.at] /\ instr \in Instruction
  BY <1>1, <1>2, AdvanceOnwards
<1>4. instr.var \in Var /\ instr.val \in Value
  BY <1>1, <1>3, InstructionFacts
<1> HIDE DEF c
<1>5. ASSUME NEW x \in Var
      PROVE  /\ x = instr.var => /\ var_val_stack'[x] = Append(var_val_stack[x], instr.val)
                                 /\ x \in stacked'
             /\ x # instr.var => var_val_stack'[x] = var_val_stack[x]
             /\ var_val_stack[x] \in Seq(Value) /\ var_val_stack'[x] \in Seq(Value)
             /\ Len(var_val_stack'[x]) = Len(var_val_stack[x]) + (IF x = instr.var THEN 1 ELSE 0)
  <2>1. /\ x = instr.var => var_val_stack'[x] = Append(var_val_stack[x], instr.val) /\ x \in stacked'
        /\ x # instr.var => var_val_stack'[x] = var_val_stack[x]
    BY <1>1 DEF Pushed, Typed
  <2>2. var_val_stack[x] \in Seq(Value)
    BY <1>1 DEF Typed
  <2>3. Len(var_val_stack[x]) \in Nat
    BY <2>2, LenProperties
  <2>4. /\ Append(var_val_stack[x], instr.val) \in Seq(Value)
        /\ Len(Append(var_val_stack[x], instr.val)) = Len(var_val_stack[x]) + 1
    BY <1>4, <2>2, AppendProperties
  <2>5. CASE x = instr.var
    BY <2>1, <2>2, <2>4, <2>5
  <2>6. CASE x # instr.var
    BY <2>1, <2>2, <2>3, <2>6
  <2> QED BY <2>5, <2>6
<1>6. var_val_stack' \in [Var -> Seq(Value)] /\ stacked \subseteq stacked' /\ stacked' \subseteq Var
  <2>1. var_val_stack' = [x \in Var |-> var_val_stack'[x]]
    BY <1>1 DEF Pushed, Typed
  <2> QED BY <1>1, <1>4, <1>5, <2>1 DEF Pushed, Typed
<1>7. Typed'
  <2>1. calls' \in Seq(Activation)
    BY <1>1, <1>3, OnwardsFrames
  <2>2. Activation' = Activation /\ Instruction' = Instruction /\ Value' = Value /\ Block' = Block /\ Edges' = Edges
    BY <1>1 DEF Activation, Instruction, Value, Block, Edges
  <2> QED BY <1>1, <1>2, <1>6, <2>1, <2>2 DEF Typed
<1>8. Active' /\ PhisDiffer'
  BY <1>1, <1>3, OnwardsActive, OnwardsPhis
<1>9. Stacked'
  <2>1. ASSUME NEW x \in Var
        PROVE  \E d \in Nat :
                 /\ Cardinality(PushedIn(code[c.bb], c.at, x))
                      = Cardinality(PushedIn(code[c.bb], Frame.at, x)) + d
                 /\ Len(var_val_stack'[x]) = Len(var_val_stack[x]) + d
                 /\ d = 0 \/ x \in stacked'
    <3>1. /\ Cardinality(PushedIn(is, Frame.at, x)) \in Nat
          /\ Cardinality(PushedIn(is, Frame.at + 1, x)) =
               IF x = instr.var THEN Cardinality(PushedIn(is, Frame.at, x)) + 1
               ELSE Cardinality(PushedIn(is, Frame.at, x))
      BY <1>1, <1>3, PushedFinite, PushedNext
    <3>2. PushedIn(code[c.bb], c.at, x) = PushedIn(is, Frame.at + 1, x) /\ code[c.bb] = is
      BY <1>3
    <3>3. Len(var_val_stack[x]) \in Nat
      BY <1>5, LenProperties
    <3>4. CASE x = instr.var
      BY <1>5, <3>1, <3>2, <3>3, <3>4
    <3>5. CASE x # instr.var
      <4>1. /\ Cardinality(PushedIn(code[c.bb], c.at, x)) = Cardinality(PushedIn(is, Frame.at, x))
            /\ PushedIn(code[c.bb], Frame.at, x) = PushedIn(is, Frame.at, x)
        BY <3>1, <3>2, <3>5
      <4>2. Len(var_val_stack'[x]) = Len(var_val_stack[x])
        BY <1>5, <3>5
      <4>3. /\ Cardinality(PushedIn(code[c.bb], c.at, x))
                 = Cardinality(PushedIn(code[c.bb], Frame.at, x)) + 0
            /\ Len(var_val_stack'[x]) = Len(var_val_stack[x]) + 0
        BY <3>1, <3>3, <4>1, <4>2
      <4> QED BY <4>3
    <3> QED BY <3>4, <3>5
  <2> QED BY <1>1, <1>3, <1>6, <2>1, OnwardsStacked
<1> QED BY <1>7, <1>8, <1>9 DEF SInv

\* A step of the last activation that leaves the stacks alone.
LEMMA IdleSInv ==
  ASSUME SInv, NEW c, Onwards(c),
         dominators_' = dominators_ /\ todo' = todo /\ var' = var /\ work_list' = work_list,
         var_val_stack' = var_val_stack /\ stacked' = stacked,
         \/ c.at = Frame.at
         \/ /\ c.at = Frame.at + 1 /\ Frame.at \in 1 .. Len(code[Frame.bb])
            /\ code[Frame.bb][Frame.at].op # "store"
  PROVE  SInv'
<1>1. Typed /\ Active /\ PhisDiffer /\ Stacked
  BY DEF SInv
<1>2. /\ fn' = fn /\ phase' = "rename" /\ code' \in [Block -> Seq(Instruction)]
      /\ c.bb = Frame.bb /\ c.bb \in Block /\ calls # << >>
  BY DEF Onwards, Activation
<1>3. Typed'
  <2>1. calls' \in Seq(Activation)
    BY <1>1, OnwardsFrames
  <2>2. Activation' = Activation /\ Instruction' = Instruction /\ Value' = Value /\ Block' = Block /\ Edges' = Edges
    BY <1>2 DEF Activation, Instruction, Value, Block, Edges
  <2> QED BY <1>1, <1>2, <2>1, <2>2 DEF Typed
<1>4. Active' /\ PhisDiffer'
  BY <1>1, OnwardsActive, OnwardsPhis
<1>5. Stacked'
  <2>1. ASSUME NEW x \in Var
        PROVE  \E d \in Nat :
                 /\ Cardinality(PushedIn(code[c.bb], c.at, x))
                      = Cardinality(PushedIn(code[c.bb], Frame.at, x)) + d
                 /\ Len(var_val_stack'[x]) = Len(var_val_stack[x]) + d
                 /\ d = 0 \/ x \in stacked'
    <3>1. code[c.bb] \in Seq(Instruction) /\ var_val_stack[x] \in Seq(Value)
      BY <1>1, <1>2 DEF Typed
    <3>2. /\ Cardinality(PushedIn(code[c.bb], Frame.at, x)) \in Nat
          /\ Len(var_val_stack[x]) \in Nat
      BY <3>1, PushedFinite, LenProperties
    <3>3. Cardinality(PushedIn(code[c.bb], c.at, x)) = Cardinality(PushedIn(code[c.bb], Frame.at, x))
      BY <1>2, <3>1, PushedNext
    <3>4. /\ Cardinality(PushedIn(code[c.bb], c.at, x))
               = Cardinality(PushedIn(code[c.bb], Frame.at, x)) + 0
          /\ Len(var_val_stack'[x]) = Len(var_val_stack[x]) + 0
      BY <3>2, <3>3
    <3> QED BY <3>4
  <2>2. var_val_stack' \in [Var -> Seq(Value)]
    BY <1>1 DEF Typed
  <2> QED BY <1>1, <2>1, <2>2, OnwardsStacked
<1> QED BY <1>3, <1>4, <1>5 DEF SInv

\* Other instructions push nothing.
LEMMA SkipInstrSInv ==
  ASSUME SInv, SkipInstr
  PROVE  SInv'
<1> DEFINE c == [Frame EXCEPT !.at = @ + 1, !.wait_delete = @ \cup {}]
<1>1. /\ Typed /\ Active /\ Working /\ Advance({}) /\ instr.op # "store"
      /\ fn' = fn /\ dominators_' = dominators_ /\ code' = code /\ phase' = phase
      /\ todo' = todo /\ var' = var /\ work_list' = work_list
      /\ var_val_stack' = var_val_stack /\ stacked' = stacked
  BY DEF SInv, SkipInstr
<1>2. code' \in [Block -> Seq(Instruction)] /\ \A b \in Block : Alike(code[b], code'[b])
  BY <1>1, AlikeSelf DEF Typed
<1>3. /\ Onwards(c) /\ c.at = Frame.at + 1 /\ Frame.at \in 1 .. Len(code[Frame.bb])
      /\ instr = code[Frame.bb][Frame.at]
  BY <1>1, <1>2, AdvanceOnwards
<1> HIDE DEF c
<1> QED BY <1>1, <1>3, IdleSInv

\* A step that only ends the pass.
LEMMA StopsSInv ==
  ASSUME SInv, UNCHANGED <<fn, dominators_, code, todo, var, work_list, var_val_stack, stacked, calls>>,
         phase' \in {"aborted", "undefined"}
         \/ (phase' = "done" /\ calls = << >>)
  PROVE  SInv'
<1>1. Typed /\ Active /\ PhisDiffer /\ Stacked
  BY DEF SInv
<1>2. /\ Activation' = Activation /\ Instruction' = Instruction /\ Value' = Value
      /\ Block' = Block /\ Edges' = Edges /\ Entry' = Entry
  BY DEF Activation, Instruction, Value, Block, Edges, Entry
<1>3. Typed'
  BY <1>1, <1>2 DEF Typed
<1>4. Active'
  BY <1>1, <1>2 DEF Active, FrameFits, Idom, Doms
<1>5. PhisDiffer'
  BY <1>1, <1>2 DEF PhisDiffer
<1>6. Stacked'
  BY <1>1, <1>2 DEF Stacked, Weights, PushedBy
<1> QED BY <1>3, <1>4, <1>5, <1>6 DEF SInv

\* Nor does a load, whose uses are replaced.
LEMMA ReplaceLoadSInv ==
  ASSUME SInv, ReplaceLoad
  PROVE  SInv'
<1>1. /\ Typed /\ Active /\ Working /\ instr.op = "load" /\ instr.var \in stacked
      /\ fn' = fn /\ dominators_' = dominators_
      /\ todo' = todo /\ var' = var /\ work_list' = work_list
      /\ var_val_stack' = var_val_stack /\ stacked' = stacked
  BY DEF SInv, ReplaceLoad
<1>2. CASE var_val_stack[instr.var] = << >>
  BY <1>1, <1>2, StopsSInv DEF ReplaceLoad
<1>3. CASE var_val_stack[instr.var] # << >>
  <2> DEFINE c == [Frame EXCEPT !.at = @ + 1, !.wait_delete = @ \cup {Frame.at}]
             v == Last(var_val_stack[instr.var])
  <2>1. ReplaceAllUses(instr.id, v) /\ Advance({Frame.at}) /\ phase' = phase
    BY <1>3 DEF ReplaceLoad
  <2>2. v \in Value
    <3>1. instr.var \in Var /\ var_val_stack[instr.var] \in Seq(Value)
      BY <1>1 DEF Typed
    <3> QED BY <1>3, <3>1, FrontFacts
  <2> HIDE DEF v
  <2>3. code' \in [Block -> Seq(Instruction)] /\ \A b \in Block : Alike(code[b], code'[b])
    BY <1>1, <2>1, <2>2, ReplaceAllUsesFacts
  <2>4. /\ Onwards(c) /\ c.at = Frame.at + 1 /\ Frame.at \in 1 .. Len(code[Frame.bb])
        /\ instr = code[Frame.bb][Frame.at]
    BY <1>1, <2>1, <2>3, AdvanceOnwards
  <2> HIDE DEF c
  <2> QED BY <1>1, <2>4, IdleSInv
<1> QED BY <1>2, <1>3

\* Step 6, for one block: its phis have a pair more or stay.
FilledBlock(is) ==
  [k \in DOMAIN is |->
     IF is[k].op = "phi" /\ is[k].var \in stacked
     THEN [is[k] EXCEPT !.pairs = Append(@, <<Last(var_val_stack[is[k].var]), Frame.bb>>)]
     ELSE is[k]]

\* The block keeps its shape, and the pairs are of a value and a block.
LEMMA FilledFacts ==
  ASSUME Typed, calls # << >>, Frame \in Activation, NEW b \in Block,
         \A k \in Is("phi", code[b]) : code[b][k].var \in stacked => var_val_stack[code[b][k].var] # << >>
  PROVE  LET is == code[b]
             js == FilledBlock(is)
         IN  /\ js \in Seq(Instruction) /\ Alike(is, js) /\ DOMAIN js = DOMAIN is
             /\ \A k \in DOMAIN is :
                  /\ is[k].op = "phi" /\ is[k].var \in stacked =>
                       LET v == Last(var_val_stack[is[k].var])
                       IN  /\ v \in Value /\ var_val_stack[is[k].var] \in Seq(Value)
                           /\ var_val_stack[is[k].var] # << >>
                           /\ is[k].pairs \in Seq(Value \X Block)
                           /\ js[k].pairs = Append(is[k].pairs, <<v, Frame.bb>>)
                  /\ is[k].op # "phi" \/ is[k].var \notin stacked => js[k] = is[k]
<1> DEFINE is == code[b]
           js == FilledBlock(is)
<1>1. /\ is \in Seq(Instruction) /\ Frame.bb \in Block
      /\ stacked \subseteq Var /\ var_val_stack \in [Var -> Seq(Value)]
  BY DEF Typed, Activation
<1>2. \A k \in DOMAIN is : is[k] \in Instruction
  BY <1>1, ElementOfSeq, LenProperties
<1>3. ASSUME NEW k \in DOMAIN is
      PROVE  /\ js[k] \in Instruction /\ js[k].op = is[k].op
             /\ is[k].op # "use" => js[k].var = is[k].var
             /\ is[k].op \in {"load", "phi"} => js[k].id = is[k].id
             /\ is[k].op = "phi" /\ is[k].var \in stacked =>
                       LET v == Last(var_val_stack[is[k].var])
                       IN  /\ v \in Value /\ var_val_stack[is[k].var] \in Seq(Value)
                           /\ var_val_stack[is[k].var] # << >>
                           /\ is[k].pairs \in Seq(Value \X Block)
                           /\ js[k].pairs = Append(is[k].pairs, <<v, Frame.bb>>)
             /\ is[k].op # "phi" \/ is[k].var \notin stacked => js[k] = is[k]
  <2>1. CASE is[k].op = "phi" /\ is[k].var \in stacked
    <3> DEFINE s == var_val_stack[is[k].var]
               pair == <<Last(s), Frame.bb>>
               ps == Append(is[k].pairs, pair)
    <3>1. js[k] = [is[k] EXCEPT !.pairs = ps]
      BY <2>1 DEF FilledBlock
    <3>2. s \in Seq(Value) /\ s # << >>
      BY <1>1, <2>1 DEF Is
    <3>3. pair \in Value \X Block /\ Last(s) \in Value
      <4> HIDE DEF s
      <4>1. Last(s) \in Value
        BY <3>2, FrontFacts
      <4> QED BY <1>1, <4>1
    <3>4. is[k] \in [op : {"phi"}, var : Var, id : Value, pairs : Seq(Value \X Block)]
      BY <1>2, <2>1 DEF Instruction
    <3>5. ps \in Seq(Value \X Block) /\ is[k].pairs \in Seq(Value \X Block)
      <4>1. is[k].pairs \in Seq(Value \X Block)
        BY <3>4
      <4> HIDE DEF pair
      <4> QED BY <3>3, <4>1, AppendProperties
    <3> HIDE DEF ps, s
    <3>6. /\ js[k] \in [op : {"phi"}, var : Var, id : Value, pairs : Seq(Value \X Block)]
          /\ js[k].op = is[k].op /\ js[k].var = is[k].var /\ js[k].id = is[k].id
          /\ js[k].pairs = ps
      BY <3>1, <3>4, <3>5
    <3> QED BY <2>1, <3>2, <3>3, <3>5, <3>6 DEF Instruction, ps, s
  <2>2. CASE is[k].op # "phi" \/ is[k].var \notin stacked
    <3>1. js[k] = is[k]
      BY <2>2 DEF FilledBlock
    <3> QED BY <1>2, <2>2, <3>1
  <2> QED BY <2>1, <2>2
<1>4. js = [k \in DOMAIN is |-> js[k]]
  BY DEF FilledBlock
<1> HIDE DEF is, js
<1>5. js \in Seq(Instruction) /\ Alike(is, js) /\ DOMAIN js = DOMAIN is
  BY <1>1, <1>3, <1>4, MappedBlock
<1> QED BY <1>3, <1>5 DEF is, js

\* What FillPhis does if no stack that it needs is empty.
LEMMA FillPhisFacts ==
  ASSUME SInv, FillPhis, phase' # "aborted"
  PROVE  LET c == [Frame EXCEPT !.filled = TRUE]
         IN  /\ Onwards(c) /\ c.at = Frame.at /\ c.bb = Frame.bb /\ c.filled /\ ~ Frame.filled
             /\ c.wait_delete = Frame.wait_delete /\ c.next = Frame.next
             /\ Frame.at = Len(code[Frame.bb]) + 1
             /\ \A b \in Block : code'[b] = IF b \in ToSet(fn.succ[Frame.bb]) THEN FilledBlock(code[b])
                                            ELSE code[b]
             /\ \A b \in ToSet(fn.succ[Frame.bb]) : \A k \in Is("phi", code[b]) :
                  code[b][k].var \in stacked => var_val_stack[code[b][k].var] # << >>
<1> DEFINE bb == Frame.bb
           c == [Frame EXCEPT !.filled = TRUE]
<1>1. Typed /\ Active
  BY DEF SInv
<1>2. /\ phase = "rename" /\ calls # << >> /\ ~ (Frame.at <= Len(code[bb])) /\ ~ Frame.filled
      /\ fn' = fn
  BY DEF FillPhis, Renaming, Working
<1>3. /\ \A s \in ToSet(fn.succ[bb]) : \A k \in Is("phi", code[s]) :
           code[s][k].var \in stacked => var_val_stack[code[s][k].var] # << >>
      /\ code' = [s \in Block |-> IF s \in ToSet(fn.succ[bb]) THEN FilledBlock(code[s]) ELSE code[s]]
      /\ calls' = Append(Front(calls), c) /\ phase' = phase
  BY DEF FillPhis, FilledBlock
<1>4. /\ Frame \in Activation /\ FrameFits(Frame)
      /\ code[bb] \in Seq(Instruction) /\ Len(code[bb]) \in Nat
  <2>1. Len(calls) \in 1 .. Len(calls)
    BY <1>1, <1>2, FrameIs
  <2> QED BY <1>1, <1>2, <2>1, FrameIs
<1>5. Frame.at \in Nat /\ Frame.at = Len(code[bb]) + 1
  BY <1>2, <1>4 DEF FrameFits, Activation
<1>6. /\ c \in Activation /\ c.at = Frame.at /\ c.bb = Frame.bb /\ c.filled
      /\ c.wait_delete = Frame.wait_delete /\ c.next = Frame.next
  BY <1>4 DEF Activation
<1> HIDE DEF c
<1>7. ASSUME NEW b \in Block PROVE code'[b] \in Seq(Instruction) /\ Alike(code[b], code'[b])
  <2>1. CASE b \in ToSet(fn.succ[bb])
    BY <1>1, <1>2, <1>3, <1>4, <2>1, FilledFacts
  <2>2. CASE b \notin ToSet(fn.succ[bb])
    BY <1>1, <1>3, <2>2, AlikeSelf DEF Typed
  <2> QED BY <2>1, <2>2
<1>8. code' \in [Block -> Seq(Instruction)]
  BY <1>3, <1>7
<1>9. Onwards(c)
  BY <1>2, <1>3, <1>4, <1>5, <1>6, <1>7, <1>8 DEF Onwards, FrameFits
<1> QED BY <1>2, <1>3, <1>5, <1>6, <1>9 DEF c

\* Pairs are no matter of the stacks.
LEMMA FillPhisSInv ==
  ASSUME SInv, FillPhis
  PROVE  SInv'
<1>1. /\ fn' = fn /\ dominators_' = dominators_ /\ todo' = todo /\ var' = var
      /\ work_list' = work_list /\ var_val_stack' = var_val_stack /\ stacked' = stacked
  BY DEF FillPhis
<1>2. CASE phase' = "aborted"
  <2>1. code' = code /\ calls' = calls
    BY <1>2 DEF FillPhis, Renaming
  <2> QED BY <1>1, <1>2, <2>1, StopsSInv
<1>3. CASE phase' # "aborted"
  BY <1>1, <1>3, FillPhisFacts, IdleSInv
<1> QED BY <1>2, <1>3

\* re_name is called for b by the activations above, which are those there were but for
\* the children that are left.
CallsFor(b, above) ==
  /\ b \in Block /\ above \in Seq(Activation) /\ Len(above) = Len(calls)
  /\ \A k \in 1 .. Len(calls) :
       /\ above[k].bb = calls[k].bb /\ above[k].at = calls[k].at /\ calls[k].filled
       /\ above[k].filled = calls[k].filled /\ above[k].wait_delete = calls[k].wait_delete
       /\ above[k].next \subseteq calls[k].next
  /\ IF calls = << >> THEN b = Entry ELSE Idom(Frame.bb, b)
  /\ Call(b, above)
  /\ fn' = fn /\ dominators_' = dominators_ /\ code' = code /\ phase' = "rename"
  /\ todo' = todo /\ var' = var /\ work_list' = work_list

NewFrame(b) ==
  [bb |-> b, at |-> 1, filled |-> FALSE, wait_delete |-> {}, next |-> get_dom_tree_succ_blocks(b)]

\* There is one activation more.
LEMMA CallFrames ==
  ASSUME Typed, Active, NEW b, NEW above, CallsFor(b, above)
  PROVE  LET n == Len(calls)
         IN  /\ n \in Nat /\ NewFrame(b) \in Activation /\ FrameFits(NewFrame(b))
             /\ calls' \in Seq(Activation) /\ calls' # << >> /\ Len(calls') = n + 1
             /\ calls'[n + 1] = NewFrame(b) /\ \A k \in 1 .. n : calls'[k] = above[k]
             /\ Block' = Block /\ Edges' = Edges
             /\ \A k \in 1 .. n : calls[k] \in Activation
<1> DEFINE n == Len(calls)
<1>1. calls' = Append(above, NewFrame(b)) /\ b \in Block /\ above \in Seq(Activation)
      /\ fn \in Functions
  BY DEF CallsFor, Call, NewFrame, Typed
<1>2. \A c \in get_dom_tree_succ_blocks(b) : Idom(b, c) /\ c \in Block
  BY <1>1, Tree, IdomIs
<1>3. NewFrame(b) \in Activation
  BY <1>1, <1>2 DEF NewFrame, Activation
<1>4. code[b] \in Seq(Instruction) /\ Len(code[b]) \in Nat
  BY <1>1, LenProperties DEF Typed
<1>5. FrameFits(NewFrame(b))
  BY <1>2, <1>4 DEF NewFrame, FrameFits
<1>6. calls \in Seq(Activation) /\ Len(above) = n /\ n \in Nat
  BY LenProperties DEF CallsFor, Typed
<1>7. \A k \in 1 .. n : calls[k] \in Activation
  BY <1>6, ElementOfSeq
<1>8. /\ calls' \in Seq(Activation) /\ calls' # << >> /\ Len(calls') = n + 1
      /\ calls'[n + 1] = NewFrame(b) /\ \A k \in 1 .. n : calls'[k] = above[k]
  BY <1>1, <1>3, <1>6, AppendFacts
<1>9. Block' = Block /\ Edges' = Edges
  BY DEF CallsFor, Block, Edges
<1> QED BY <1>3, <1>5, <1>6, <1>7, <1>8, <1>9

\* It is for a child of the last one, which it is not the same as, nor any above it.
LEMMA CallActive ==
  ASSUME Typed, Active, NEW b, NEW above, CallsFor(b, above)
  PROVE  Active'
<1> DEFINE n == Len(calls)
<1>1. /\ n \in Nat /\ FrameFits(NewFrame(b))
      /\ calls' # << >> /\ Len(calls') = n + 1
      /\ calls'[n + 1] = NewFrame(b) /\ (\A k \in 1 .. n : calls'[k] = above[k])
      /\ Block' = Block /\ Edges' = Edges
      /\ \A k \in 1 .. n : calls[k] \in Activation
  BY CallFrames
<1>2. \A k \in 1 .. n :
       /\ above[k].bb = calls[k].bb /\ above[k].at = calls[k].at /\ calls[k].filled
       /\ above[k].filled = calls[k].filled /\ above[k].wait_delete = calls[k].wait_delete
       /\ above[k].next \subseteq calls[k].next
  BY DEF CallsFor
<1>3. NewFrame(b).bb = b /\ code' = code /\ fn \in Functions
  BY DEF NewFrame, CallsFor, Typed
<1> HIDE DEF n
<1>4. n # 0 => /\ calls # << >> /\ Frame = calls[n] /\ n \in 1 .. n /\ Idom(calls[n].bb, b)
  <2>1. n # 0 => calls # << >>
    BY EmptySeq DEF n, Typed
  <2>2. calls # << >> => Frame = calls[n]
    BY FrameIs DEF n
  <2> QED BY <1>1, <2>1, <2>2 DEF CallsFor
<1>5. ASSUME NEW k \in 1 .. n + 1 PROVE FrameFits(calls[k])'
  <2>1. CASE k = n + 1
    BY <1>1, <1>3, <2>1 DEF FrameFits, Idom
  <2>2. CASE k \in 1 .. n
    <3>1. FrameFits(calls[k])
      BY <2>2 DEF Active, n
    <3> QED BY <1>1, <1>2, <1>3, <2>2, <3>1 DEF FrameFits, Idom
  <2> QED BY <1>1, <2>1, <2>2
<1>6. ASSUME NEW k \in 1 .. n PROVE calls'[k].filled /\ Idom(calls[k].bb, calls[k + 1].bb)'
  <2>1. calls'[k].filled /\ calls'[k].bb = calls[k].bb
    BY <1>1, <1>2
  <2>2. CASE k = n
    <3>1. Idom(calls[n].bb, b) /\ calls'[k + 1].bb = b
      BY <1>1, <1>3, <1>4, <2>2
    <3> QED BY <1>1, <2>1, <2>2, <3>1 DEF Idom
  <2>3. CASE k \in 1 .. n - 1
    <3>1. Idom(calls[k].bb, calls[k + 1].bb)
      BY <2>3 DEF Active, n
    <3>2. k + 1 \in 1 .. n
      BY <1>1, <2>3
    <3>3. calls'[k + 1].bb = calls[k + 1].bb
      BY <1>1, <1>2, <3>2
    <3> QED BY <1>1, <2>1, <3>1, <3>3 DEF Idom
  <2> QED BY <1>1, <2>2, <2>3
<1>7. ASSUME NEW j \in 1 .. n PROVE Doms(calls[j].bb, b) /\ calls[j].bb # b
  <2>1. Idom(calls[n].bb, b) /\ n \in 1 .. n
    BY <1>1, <1>4
  <2>2. Doms(calls[n].bb, b) /\ calls[n].bb # b
    BY <1>3, <2>1, IdomIs
  <2>3. CASE j = n
    BY <2>2, <2>3
  <2>4. CASE j # n
    <3>1. Doms(calls[j].bb, calls[n].bb) /\ calls[j].bb # calls[n].bb
      <4>1. j < n
        BY <1>1, <2>4
      <4> QED BY <2>1, <4>1 DEF Active, n
    <3>2. IsFiniteSet(Block)
      BY <1>3, Graph
    <3>3. Doms(calls[j].bb, b)
      BY <2>2, <3>1, <3>2, DominanceTrans DEF Doms
    <3>4. calls[j].bb # b
      BY <2>2, <3>1, <3>2, DominanceAntisym DEF Doms
    <3> QED BY <3>3, <3>4
  <2> QED BY <2>3, <2>4
<1>8. ASSUME NEW j \in 1 .. n + 1, NEW k \in 1 .. n + 1, j < k
      PROVE  Doms(calls[j].bb, calls[k].bb)' /\ calls'[j].bb # calls'[k].bb
  <2>1. j \in 1 .. n /\ calls'[j].bb = calls[j].bb
    BY <1>1, <1>2, <1>8
  <2>2. CASE k = n + 1
    BY <1>1, <1>3, <1>7, <2>1, <2>2 DEF Doms
  <2>3. CASE k \in 1 .. n
    <3>1. Doms(calls[j].bb, calls[k].bb) /\ calls[j].bb # calls[k].bb
      BY <1>8, <2>1, <2>3 DEF Active, n
    <3>2. calls'[k].bb = calls[k].bb
      BY <1>1, <1>2, <2>3
    <3> QED BY <1>1, <2>1, <3>1, <3>2 DEF Doms
  <2> QED BY <1>1, <2>2, <2>3
<1>9. calls'[1].bb = Entry
  <2>1. CASE n = 0
    <3>1. calls = << >>
      BY <2>1, EmptySeq DEF n, Typed
    <3> QED BY <1>1, <1>3, <2>1, <3>1 DEF CallsFor
  <2>2. CASE n # 0
    <3>1. 1 \in 1 .. n /\ calls[1].bb = Entry
      BY <1>1, <1>4, <2>2 DEF Active
    <3> QED BY <1>1, <1>2, <3>1
  <2> QED BY <2>1, <2>2
<1>10. phase' \in {"rename", "aborted", "undefined"} /\ Entry' = Entry /\ n + 1 - 1 = n
  BY <1>1 DEF CallsFor, Entry
<1> QED BY <1>1, <1>5, <1>6, <1>8, <1>9, <1>10 DEF Active

\* With it the phis of its block are on the stacks.
LEMMA CallSInv ==
  ASSUME SInv, NEW b, NEW above, CallsFor(b, above)
  PROVE  SInv'
<1> DEFINE n == Len(calls)
           joined == {code[b][i].var : i \in Is("phi", code[b])}
<1>1. Typed /\ Active /\ PhisDiffer /\ Stacked
  BY DEF SInv
<1>2. /\ n \in Nat
      /\ calls' \in Seq(Activation) /\ calls' # << >> /\ Len(calls') = n + 1
      /\ calls'[n + 1] = NewFrame(b) /\ (\A k \in 1 .. n : calls'[k] = above[k])
      /\ Block' = Block /\ Edges' = Edges
      /\ \A k \in 1 .. n : calls[k] \in Activation
  BY <1>1, CallFrames
<1>3. \A k \in 1 .. n : above[k].bb = calls[k].bb /\ above[k].at = calls[k].at
  BY DEF CallsFor
<1>4. /\ b \in Block /\ fn' = fn /\ code' = code /\ dominators_' = dominators_ /\ phase' = "rename"
      /\ todo' = todo /\ var' = var /\ work_list' = work_list
      /\ var_val_stack' = [x \in Var |-> IF x \in joined THEN Append(var_val_stack[x], Joined(b, x))
                                                         ELSE var_val_stack[x]]
      /\ stacked' = stacked \cup joined
  BY DEF CallsFor, Call
<1>5. /\ code[b] \in Seq(Instruction) /\ joined \subseteq Var
      /\ \A i, j \in Is("phi", code[b]) : code[b][i].var = code[b][j].var => i = j
  <2>1. code[b] \in Seq(Instruction)
    BY <1>1, <1>4 DEF Typed
  <2>2. \A i \in Is("phi", code[b]) : code[b][i] \in Instruction /\ code[b][i].op = "phi"
    BY <2>1, ElementOfSeq, LenProperties DEF Is
  <2>3. joined \subseteq Var
    BY <2>2, InstructionFacts
  <2> QED BY <1>1, <1>4, <2>1, <2>3 DEF PhisDiffer
<1> HIDE DEF joined
<1>6. ASSUME NEW x \in Var
      PROVE  /\ var_val_stack[x] \in Seq(Value) /\ Len(var_val_stack[x]) \in Nat
             /\ var_val_stack'[x] \in Seq(Value)
             /\ x \in joined => Len(var_val_stack'[x]) = Len(var_val_stack[x]) + 1
             /\ x \notin joined => var_val_stack'[x] = var_val_stack[x]
  <2>1. var_val_stack[x] \in Seq(Value)
    BY <1>1 DEF Typed
  <2>2. Len(var_val_stack[x]) \in Nat
    BY <2>1, LenProperties
  <2>3. Joined(b, x) \in Value
    BY <1>4, JoinedIsValue
  <2>4. /\ Append(var_val_stack[x], Joined(b, x)) \in Seq(Value)
        /\ Len(Append(var_val_stack[x], Joined(b, x))) = Len(var_val_stack[x]) + 1
    BY <2>1, <2>3, AppendProperties
  <2> QED BY <1>4, <2>1, <2>2, <2>4
<1>7. var_val_stack' \in [Var -> Seq(Value)]
  BY <1>4, <1>6
<1>8. Typed'
  <2>1. Activation' = Activation /\ Instruction' = Instruction /\ Value' = Value
    BY <1>2, <1>4 DEF Activation, Instruction, Value
  <2> QED BY <1>1, <1>2, <1>4, <1>5, <1>7, <2>1 DEF Typed
<1>9. Active'
  BY <1>1, CallActive
<1>10. PhisDiffer'
  BY <1>1, <1>2, <1>4 DEF PhisDiffer
<1>11. Stacked'
  <2> SUFFICES ASSUME NEW x \in Var
               PROVE  /\ AddsUp(Weights(x)', Len(var_val_stack'[x]))
                      /\ var_val_stack'[x] # << >> => x \in stacked'
    BY DEF Stacked
  <2> DEFINE w == Weights(x)
             d == Cardinality(PushedIn(code[b], 1, x))
             v == Append(w, d)
             t == Len(var_val_stack[x])
  <2>1. d = IF x \in joined THEN 1 ELSE 0
    BY <1>5, PushedFirst DEF joined
  <2>2. \A k \in 1 .. n : /\ w[k] = Cardinality(PushedIn(code[calls[k].bb], calls[k].at, x))
                          /\ w[k] \in Nat
    <3> TAKE k \in 1 .. n
    <3>1. w[k] = Cardinality(PushedIn(code[calls[k].bb], calls[k].at, x))
      BY DEF Weights, PushedBy
    <3>2. code[calls[k].bb] \in Seq(Instruction)
      BY <1>1, <1>2 DEF Typed, Activation
    <3> QED BY <3>1, <3>2, PushedFinite
  <2>3. w = [k \in 1 .. n |-> w[k]]
    BY DEF Weights
  <2>4. /\ Weights(x)' = [k \in 1 .. n + 1 |-> Weights(x)'[k]]
        /\ \A k \in 1 .. n + 1 :
             Weights(x)'[k] = Cardinality(PushedIn(code[calls'[k].bb], calls'[k].at, x))
    BY <1>2, <1>4 DEF Weights, PushedBy
  <2> HIDE DEF w, d, t, n
  <2>5. w \in Seq(Nat) /\ Len(w) = n
    BY <1>2, <2>2, <2>3, IsASeq
  <2>6. d \in Nat /\ t \in Nat
    BY <1>6, <2>1 DEF t
  <2>7. AddsUp(v, t + d)
    <3>1. AddsUp(w, t)
      BY <1>1 DEF Stacked, w, t
    <3> QED BY <2>5, <2>6, <3>1, SumAppend
  <2>8. v \in Seq(Nat) /\ Len(v) = n + 1 /\ (\A k \in 1 .. n : v[k] = w[k]) /\ v[n + 1] = d
    BY <2>5, <2>6, AppendFacts
  <2>9. v = [k \in 1 .. n + 1 |-> v[k]]
    BY <2>8, LenProperties
  <2> HIDE DEF v
  <2>10. v = Weights(x)'
    <3>1. ASSUME NEW k \in 1 .. n + 1 PROVE v[k] = Weights(x)'[k]
      <4>1. CASE k = n + 1
        <5>1. calls'[k].bb = b /\ calls'[k].at = 1
          BY <1>2, <4>1 DEF NewFrame
        <5> QED BY <2>4, <2>8, <4>1, <5>1 DEF d
      <4>2. CASE k \in 1 .. n
        <5>1. calls'[k].bb = calls[k].bb /\ calls'[k].at = calls[k].at
          BY <1>2, <1>3, <4>2
        <5>2. Weights(x)'[k] = Cardinality(PushedIn(code[calls[k].bb], calls[k].at, x))
          BY <2>4, <5>1
        <5> QED BY <2>2, <2>8, <4>2, <5>2
      <4> QED BY <1>2, <4>1, <4>2
    <3> QED BY <2>4, <2>9, <3>1
  <2>11. Len(var_val_stack'[x]) = t + d
    <3>1. CASE x \in joined
      BY <1>6, <2>1, <3>1 DEF t
    <3>2. CASE x \notin joined
      <4>1. d = 0 /\ Len(var_val_stack'[x]) = t
        BY <1>6, <2>1, <3>2 DEF t
      <4> QED BY <2>6, <4>1
    <3> QED BY <3>1, <3>2
  <2>12. var_val_stack'[x] # << >> => x \in stacked'
    BY <1>1, <1>4, <1>6 DEF Stacked
  <2> QED BY <2>7, <2>10, <2>11, <2>12
<1> QED BY <1>8, <1>9, <1>10, <1>11 DEF SInv

\* The first call is for the entry, ...
LEMMA RenameSInv ==
  ASSUME SInv, Rename
  PROVE  SInv'
<1>1. /\ Typed /\ Active /\ phase = "variable" /\ phase' = "rename" /\ Call(Entry, << >>)
      /\ UNCHANGED <<fn, dominators_, code, todo, var, work_list>>
  BY DEF SInv, Rename
<1>2. calls = << >>
  BY <1>1 DEF Active
<1>3. Entry \in Block /\ << >> \in Seq(Activation) /\ Len(<< >>) = 0
  BY <1>1, Graph, EmptySeq DEF Typed
<1>4. CallsFor(Entry, << >>)
  BY <1>1, <1>2, <1>3 DEF CallsFor
<1> QED BY <1>4, CallSInv

\* The activation that calls for its child c.
LEMMA DescendCalls ==
  ASSUME SInv, NEW c, Descend(c)
  PROVE  LET n == Len(calls)
             above == Append(Front(calls), [Frame EXCEPT !.next = @ \ {c}])
         IN  /\ CallsFor(c, above) /\ c \in Frame.next /\ calls # << >> /\ Idom(Frame.bb, c)
             /\ n \in Nat \ {0} /\ Frame = calls[n] /\ phase = "rename"
             /\ (\A k \in 1 .. n - 1 : above[k] = calls[k])
             /\ above[n].next = Frame.next \ {c} /\ above[n].bb = Frame.bb
             /\ above[n].at = Frame.at /\ above[n].filled = Frame.filled
             /\ above[n].wait_delete = Frame.wait_delete
<1> DEFINE n == Len(calls)
           f == [Frame EXCEPT !.next = @ \ {c}]
           above == Append(Front(calls), f)
<1>1. /\ Typed /\ Active /\ phase = "rename" /\ calls # << >> /\ Frame.filled /\ c \in Frame.next
      /\ Call(c, above) /\ UNCHANGED <<fn, dominators_, code, phase, todo, var, work_list>>
  BY DEF SInv, Descend, Renaming
<1>2. /\ n \in Nat \ {0} /\ Frame = calls[n] /\ Frame \in Activation /\ FrameFits(Frame)
      /\ \A k \in 1 .. n : calls[k] \in Activation
  BY <1>1, FrameIs
<1>3. /\ f \in Activation /\ f.next = Frame.next \ {c} /\ f.bb = Frame.bb
      /\ f.at = Frame.at /\ f.filled = Frame.filled /\ f.wait_delete = Frame.wait_delete
  BY <1>2 DEF Activation
<1> HIDE DEF f, n
<1>4. /\ above \in Seq(Activation) /\ Len(above) = n /\ above[n] = f
      /\ \A k \in 1 .. n - 1 : above[k] = calls[k]
  BY <1>1, <1>3, Replaced DEF Typed, n
<1> HIDE DEF above
<1>5. c \in Block /\ Idom(Frame.bb, c)
  BY <1>1, <1>2 DEF Activation, FrameFits
<1>6. ASSUME NEW k \in 1 .. n
      PROVE  /\ above[k].bb = calls[k].bb /\ above[k].at = calls[k].at /\ calls[k].filled
             /\ above[k].filled = calls[k].filled /\ above[k].wait_delete = calls[k].wait_delete
             /\ above[k].next \subseteq calls[k].next
  <2>1. CASE k = n
    BY <1>1, <1>2, <1>3, <1>4, <2>1
  <2>2. CASE k \in 1 .. n - 1
    <3>1. calls[k].filled
      BY <1>1, <2>2 DEF Active, n
    <3> QED BY <1>4, <2>2, <3>1
  <2> QED BY <1>2, <2>1, <2>2
<1>7. CallsFor(c, above)
  BY <1>1, <1>4, <1>5, <1>6 DEF CallsFor, n
<1> QED BY <1>1, <1>2, <1>3, <1>4, <1>5, <1>7 DEF n, above, f

\* ... the others are for children.
LEMMA DescendSInv ==
  ASSUME SInv, NEW c, Descend(c)
  PROVE  SInv'
BY DescendCalls, CallSInv

-------------------------------------------------------------------------------
(* The end of an activation *)

\* What is left when the last activation ends.
LEMMA LeaveFacts ==
  ASSUME SInv, Leave
  PROVE  LET n == Len(calls)
             bb == Frame.bb
         IN  /\ calls # << >> /\ n \in Nat \ {0} /\ Frame = calls[n] /\ Frame \in Activation
             /\ bb \in Block /\ Frame.filled /\ Frame.next = {} /\ phase = "rename"
             /\ fn' = fn /\ dominators_' = dominators_ /\ phase' = phase /\ todo' = todo
             /\ var' = var /\ work_list' = work_list /\ stacked' = stacked
             /\ code[bb] \in Seq(Instruction) /\ Frame.at = Len(code[bb]) + 1
             /\ Frame.wait_delete \subseteq DOMAIN code[bb]
             /\ code' \in [Block -> Seq(Instruction)]
             /\ \A b \in Block \ {bb} : code'[b] = code[b]
             /\ ToSet(code'[bb]) = {code[bb][i] : i \in DOMAIN code[bb] \ Frame.wait_delete}
             /\ PickedFrom(code'[bb], code[bb])
             /\ calls' \in Seq(Activation) /\ Len(calls') = n - 1
             /\ \A k \in 1 .. n - 1 : /\ calls'[k] = calls[k] /\ calls[k].bb \in Block
                                      /\ calls[k].bb # bb
<1> DEFINE n == Len(calls)
           bb == Frame.bb
<1>1. Typed /\ Active
  BY DEF SInv
<1>2. /\ calls # << >> /\ Frame.filled /\ Frame.next = {} /\ phase = "rename"
      /\ code' = [code EXCEPT ![bb] = Without(@, Frame.wait_delete)]
      /\ calls' = Front(calls)
      /\ fn' = fn /\ dominators_' = dominators_ /\ phase' = phase /\ todo' = todo
      /\ var' = var /\ work_list' = work_list /\ stacked' = stacked
  BY DEF Leave, Renaming
<1>3. /\ n \in Nat \ {0} /\ Frame = calls[n] /\ Frame \in Activation /\ FrameFits(Frame)
      /\ \A k \in 1 .. n : calls[k] \in Activation
  BY <1>1, <1>2, FrameIs
<1>4. bb \in Block /\ code[bb] \in Seq(Instruction) /\ DOMAIN code[bb] = 1 .. Len(code[bb])
      /\ Len(code[bb]) \in Nat
  BY <1>1, <1>3, LenProperties DEF Typed, Activation
<1>5. Frame.at = Len(code[bb]) + 1 /\ Frame.wait_delete \subseteq DOMAIN code[bb]
  BY <1>2, <1>3, <1>4 DEF FrameFits
<1>6. /\ Without(code[bb], Frame.wait_delete) \in Seq(Instruction)
      /\ ToSet(Without(code[bb], Frame.wait_delete))
           = {code[bb][i] : i \in DOMAIN code[bb] \ Frame.wait_delete}
      /\ PickedFrom(Without(code[bb], Frame.wait_delete), code[bb])
  BY <1>4, WithoutFacts
<1>7. /\ code'[bb] = Without(code[bb], Frame.wait_delete)
      /\ \A b \in Block \ {bb} : code'[b] = code[b]
      /\ code' \in [Block -> Seq(Instruction)]
  BY <1>1, <1>2, <1>4, <1>6 DEF Typed
<1>8. /\ calls' \in Seq(Activation) /\ Len(calls') = n - 1
      /\ \A k \in 1 .. n - 1 : calls'[k] = calls[k]
  BY <1>1, <1>2, FrontFacts DEF Typed
<1> HIDE DEF n, bb
<1>9. \A k \in 1 .. n - 1 : calls[k].bb \in Block /\ calls[k].bb # bb
  <2> TAKE k \in 1 .. n - 1
  <2>1. k \in 1 .. n /\ n \in 1 .. n /\ k < n
    BY <1>3
  <2>2. calls[k].bb # calls[n].bb
    BY <1>1, <2>1 DEF Active, n
  <2> QED BY <1>3, <2>1, <2>2 DEF Activation, bb
<1> QED BY <1>2, <1>3, <1>4, <1>5, <1>6, <1>7, <1>8, <1>9 DEF n, bb

\* A stack without its last elements.
LEMMA DropFacts ==
  ASSUME NEW S, NEW s \in Seq(S), NEW m \in 0 .. Len(s)
  PROVE  /\ Drop(s, m) \in Seq(S) /\ Len(Drop(s, m)) = Len(s) - m
         /\ \A i \in 1 .. Len(s) - m : Drop(s, m)[i] = s[i]
<1>1. Len(s) \in Nat /\ \A i \in 1 .. Len(s) : s[i] \in S
  BY LenProperties, ElementOfSeq
<1> DEFINE k == Len(s) - m
<1>2. k \in Nat /\ k <= Len(s)
  BY <1>1
<1> HIDE DEF k
<1>3. /\ SubSeq(s, 1, k) \in Seq(S)
      /\ Len(SubSeq(s, 1, k)) = IF 1 <= k THEN k - 1 + 1 ELSE 0
      /\ \A i \in 1 .. k - 1 + 1 : SubSeq(s, 1, k)[i] = s[1 + i - 1]
  <2>1. k \in Int /\ 1 \in Int /\ \A i \in 1 .. k : s[i] \in S
    BY <1>1, <1>2
  <2> QED BY <2>1, SubSeqProperties
<1>4. k - 1 + 1 = k /\ (IF 1 <= k THEN k - 1 + 1 ELSE 0) = k /\ \A i \in 1 .. k : 1 + i - 1 = i
  BY <1>2
<1>5. Drop(s, m) = SubSeq(s, 1, k)
  BY DEF Drop, k
<1> QED BY <1>3, <1>4, <1>5 DEF k

\* The stacks lose their last elements, as many as the activation has pushed.
LEMMA LeaveShrinks ==
  ASSUME SInv, Leave, NEW x \in Var
  PROVE  /\ AddsUp(Weights(x)', Len(var_val_stack'[x])) /\ var_val_stack'[x] \in Seq(Value)
         /\ var_val_stack'[x] # << >> => var_val_stack[x] # << >>
         /\ \A i \in 1 .. Len(var_val_stack'[x]) :
              i \in 1 .. Len(var_val_stack[x]) /\ var_val_stack'[x][i] = var_val_stack[x][i]
<1> DEFINE n == Len(calls)
           bb == Frame.bb
           w == Weights(x)
           s == var_val_stack[x]
           t == Len(s)
<1>1. Typed /\ Active /\ Stacked
  BY DEF SInv
<1>2. /\ calls # << >> /\ n \in Nat \ {0} /\ Frame = calls[n]
      /\ code[bb] \in Seq(Instruction) /\ Frame.at = Len(code[bb]) + 1
      /\ (\A b \in Block \ {bb} : code'[b] = code[b])
      /\ Len(calls') = n - 1
      /\ \A k \in 1 .. n - 1 : /\ calls'[k] = calls[k] /\ calls[k].bb \in Block
                               /\ calls[k].bb # bb
  BY LeaveFacts
<1> HIDE DEF n, bb
<1>3. \A k \in 1 .. n : /\ w[k] = Cardinality(PushedIn(code[calls[k].bb], calls[k].at, x))
                        /\ w[k] \in Nat
  <2> TAKE k \in 1 .. n
  <2>1. w[k] = Cardinality(PushedIn(code[calls[k].bb], calls[k].at, x))
    BY DEF Weights, PushedBy, n
  <2>2. code[calls[k].bb] \in Seq(Instruction)
    BY <1>1, <1>2, FrameIs DEF n
  <2> QED BY <2>1, <2>2, PushedFinite
<1>4. w = [k \in 1 .. n |-> w[k]]
  BY DEF Weights, n
<1>5. /\ Weights(x)' = [k \in 1 .. n - 1 |-> Weights(x)'[k]]
      /\ \A k \in 1 .. n - 1 :
           Weights(x)'[k] = Cardinality(PushedIn(code[calls[k].bb], calls[k].at, x))
  BY <1>2 DEF Weights, PushedBy
<1> HIDE DEF w
<1>6. w \in Seq(Nat) /\ Len(w) = n /\ w # << >>
  <2>1. w \in Seq(Nat) /\ Len(w) = n
    BY <1>2, <1>3, <1>4, IsASeq
  <2> QED BY <1>2, <2>1, EmptySeq
<1>7. s \in Seq(Value) /\ t \in Nat
  BY <1>1, LenProperties DEF Typed
<1>8. AddsUp(w, t)
  BY <1>1 DEF Stacked, w
<1>9. Pops(bb, x) = w[n]
  <2>1. n \in 1 .. n /\ DOMAIN code[bb] = 1 .. Len(code[bb]) /\ Len(code[bb]) \in Nat
    BY <1>2, LenProperties
  <2>2. PushedIn(code[bb], Frame.at, x)
          = {i \in Is("store", code[bb]) \cup Is("phi", code[bb]) : code[bb][i].var = x}
    BY <1>2, <2>1 DEF PushedIn, Is
  <2> QED BY <1>2, <1>3, <2>1, <2>2 DEF Pops, bb
<1>10. /\ Last(w) = w[n] /\ Front(w) \in Seq(Nat) /\ Len(Front(w)) = n - 1
       /\ \A k \in 1 .. n - 1 : Front(w)[k] = w[k]
  BY <1>6, FrontFacts
<1>11. w[n] \in Nat /\ w[n] <= t /\ AddsUp(Front(w), t - w[n])
  BY <1>6, <1>7, <1>8, <1>10, SumFront
<1>12. Front(w) = Weights(x)'
  <2>1. Front(w) = [k \in 1 .. n - 1 |-> Front(w)[k]]
    BY <1>10, LenProperties
  <2>2. \A k \in 1 .. n - 1 : Front(w)[k] = Weights(x)'[k]
    <3> TAKE k \in 1 .. n - 1
    <3>1. k \in 1 .. n
      BY <1>2
    <3> QED BY <1>3, <1>5, <1>10, <3>1
  <2> QED BY <1>5, <2>1, <2>2
<1>13. var_val_stack'[x] = Drop(s, w[n])
  BY <1>9 DEF Leave, bb
<1>14. /\ var_val_stack'[x] \in Seq(Value) /\ Len(var_val_stack'[x]) = t - w[n]
       /\ \A i \in 1 .. t - w[n] : var_val_stack'[x][i] = s[i]
  <2>1. w[n] \in 0 .. Len(s)
    BY <1>7, <1>11
  <2> HIDE DEF s
  <2> QED BY <1>7, <1>13, <2>1, DropFacts
<1>15. var_val_stack'[x] # << >> => s # << >>
  BY <1>7, <1>11, <1>14, EmptySeq
<1>16. \A i \in 1 .. t - w[n] : i \in 1 .. t
  BY <1>7, <1>11
<1> QED BY <1>11, <1>12, <1>14, <1>15, <1>16

\* When an activation ends, what it pushed has been popped.
LEMMA LeaveSInv ==
  ASSUME SInv, Leave
  PROVE  SInv'
<1> DEFINE n == Len(calls)
           bb == Frame.bb
<1>1. Typed /\ Active /\ PhisDiffer /\ Stacked
  BY DEF SInv
<1>2. /\ calls # << >> /\ n \in Nat \ {0} /\ Frame = calls[n] /\ Frame \in Activation
      /\ bb \in Block /\ phase = "rename"
      /\ fn' = fn /\ dominators_' = dominators_ /\ phase' = phase /\ todo' = todo
      /\ var' = var /\ work_list' = work_list /\ stacked' = stacked
      /\ code[bb] \in Seq(Instruction) /\ Frame.at = Len(code[bb]) + 1
      /\ code' \in [Block -> Seq(Instruction)]
      /\ (\A b \in Block \ {bb} : code'[b] = code[b])
      /\ ToSet(code'[bb]) = {code[bb][i] : i \in DOMAIN code[bb] \ Frame.wait_delete}
      /\ calls' \in Seq(Activation) /\ Len(calls') = n - 1
      /\ \A k \in 1 .. n - 1 : /\ calls'[k] = calls[k] /\ calls[k].bb \in Block
                               /\ calls[k].bb # bb
  BY LeaveFacts
<1>3. /\ Activation' = Activation /\ Instruction' = Instruction /\ Value' = Value
      /\ Block' = Block /\ Edges' = Edges /\ Entry' = Entry
  BY <1>2, SameTypes DEF Entry
<1>4. PickedFrom(code'[bb], code[bb])
  BY LeaveFacts
<1> HIDE DEF n, bb
<1>5. Active'
  <2>1. ASSUME NEW k \in 1 .. n - 1 PROVE FrameFits(calls[k])'
    <3>1. FrameFits(calls[k])
      BY <1>1, <1>2, <2>1 DEF Active, n
    <3>2. calls'[k] = calls[k] /\ code'[calls[k].bb] = code[calls[k].bb]
      BY <1>2, <2>1
    <3> QED BY <1>3, <3>1, <3>2 DEF FrameFits, Idom
  <2>2. ASSUME NEW k \in 1 .. n - 1 - 1 PROVE calls'[k].filled /\ Idom(calls[k].bb, calls[k + 1].bb)'
    <3>1. k \in 1 .. n - 1 /\ k + 1 \in 1 .. n - 1
      BY <1>2, <2>2
    <3>2. calls[k].filled /\ Idom(calls[k].bb, calls[k + 1].bb)
      BY <1>1, <3>1 DEF Active, n
    <3> QED BY <1>2, <1>3, <3>1, <3>2 DEF Idom
  <2>3. ASSUME NEW j \in 1 .. n - 1, NEW k \in 1 .. n - 1, j < k
        PROVE  Doms(calls[j].bb, calls[k].bb)' /\ calls'[j].bb # calls'[k].bb
    <3>1. j \in 1 .. n /\ k \in 1 .. n
      BY <1>2
    <3>2. Doms(calls[j].bb, calls[k].bb) /\ calls[j].bb # calls[k].bb
      BY <1>1, <2>3, <3>1 DEF Active, n
    <3> QED BY <1>2, <1>3, <3>2 DEF Doms
  <2>4. calls' # << >> => calls'[1].bb = Entry
    <3>1. calls' # << >> => 1 \in 1 .. n - 1
      BY <1>2, EmptySeq
    <3> QED BY <1>1, <1>2, <3>1 DEF Active
  <2> QED BY <1>2, <1>3, <2>1, <2>2, <2>3, <2>4 DEF Active
<1>6. PhisDiffer'
  <2>1. ASSUME NEW b \in Block
        PROVE  \A i \in Is("phi", code'[b]) :
                 /\ code'[b][i].id = Joined(b, code'[b][i].var)
                 /\ \A j \in Is("phi", code'[b]) : code'[b][i].var = code'[b][j].var => i = j
    <3>1. CASE b = bb
      <4>1. ASSUME NEW i \in Is("phi", code'[b]) PROVE code'[b][i].id = Joined(b, code'[b][i].var)
        <5>1. code'[b][i] \in ToSet(code'[bb]) /\ code'[b][i].op = "phi"
          BY <3>1 DEF Is, ToSet
        <5>2. PICK p \in DOMAIN code[bb] : code'[b][i] = code[bb][p]
          BY <1>2, <5>1
        <5> QED BY <1>1, <1>2, <3>1, <5>1, <5>2 DEF PhisDiffer, Is
      <4>2. ASSUME NEW i \in Is("phi", code'[b]), NEW j \in Is("phi", code'[b]),
                   code'[b][i].var = code'[b][j].var, i # j
            PROVE  FALSE
        <5>1. /\ i \in DOMAIN code'[bb] /\ j \in DOMAIN code'[bb]
              /\ code'[bb][i].op = "phi" /\ code'[bb][j].op = "phi"
          BY <3>1 DEF Is
        <5>2. PICK p \in DOMAIN code[bb], q \in DOMAIN code[bb] :
                p # q /\ code'[bb][i] = code[bb][p] /\ code'[bb][j] = code[bb][q]
          BY <1>4, <4>2, <5>1 DEF PickedFrom
        <5>3. p \in Is("phi", code[bb]) /\ q \in Is("phi", code[bb]) /\ code[bb][p].var = code[bb][q].var
          BY <3>1, <4>2, <5>1, <5>2 DEF Is
        <5> QED BY <1>1, <1>2, <5>2, <5>3 DEF PhisDiffer
      <4> QED BY <4>1, <4>2
    <3>2. CASE b # bb
      BY <1>1, <1>2, <3>2 DEF PhisDiffer
    <3> QED BY <3>1, <3>2
  <2> QED BY <1>3, <2>1 DEF PhisDiffer
<1>7. ASSUME NEW x \in Var
      PROVE  /\ AddsUp(Weights(x)', Len(var_val_stack'[x])) /\ var_val_stack'[x] \in Seq(Value)
             /\ var_val_stack'[x] # << >> => var_val_stack[x] # << >>
  BY LeaveShrinks
<1>8. var_val_stack' \in [Var -> Seq(Value)]
  <2>1. var_val_stack' = [x \in Var |-> var_val_stack'[x]]
    BY DEF Leave
  <2> QED BY <1>7, <2>1
<1>9. Typed'
  BY <1>1, <1>2, <1>3, <1>8 DEF Typed
<1>10. Stacked'
  BY <1>1, <1>2, <1>7 DEF Stacked
<1> QED BY <1>5, <1>6, <1>9, <1>10 DEF SInv

-------------------------------------------------------------------------------
(* generate_phi, and the rest *)

\* The blocks that get a phi.
Added(b) == {d \in get_dominance_frontier(b) : ~ HasPhi(d, var)}

\* They are blocks, and have one instruction more.
LEMMA TakeWorkFacts ==
  ASSUME SInv, NEW b, TakeWork(b)
  PROVE  /\ phase = "work list" /\ b \in Block /\ var \in Var /\ Added(b) \subseteq Block
         /\ code' = [d \in Block |-> IF d \in Added(b) THEN <<Phi(d, var)>> \o code[d] ELSE code[d]]
         /\ work_list' = (work_list \ {b}) \cup Added(b)
         /\ \A d \in Block : /\ code[d] \in Seq(Instruction) /\ code'[d] \in Seq(Instruction)
                             /\ Phi(d, var) \in Instruction /\ Phi(d, var).op = "phi"
                             /\ Phi(d, var).var = var /\ Phi(d, var).id = Joined(d, var)
<1>1. Typed /\ phase = "work list" /\ b \in work_list
  BY DEF SInv, TakeWork
<1>2. /\ b \in Block /\ var \in Var
      /\ get_dominance_frontier(b) = Frontier(b, Entry, Block, Edges)
  BY <1>1 DEF Typed, get_dominance_frontier
<1>3. Added(b) \subseteq Block
  <2>1. \A e \in Edges : e[2] \in Block
    <3> TAKE e \in Edges
    <3>1. PICK a \in Block : e \in {a} \X ToSet(fn.succ[a])
      BY DEF Edges
    <3> QED BY <1>1, <3>1, Graph DEF Typed
  <2> QED BY <1>2, <2>1 DEF Added, Frontier
<1>4. /\ code' = [d \in Block |-> IF d \in Added(b) THEN <<Phi(d, var)>> \o code[d] ELSE code[d]]
      /\ work_list' = (work_list \ {b}) \cup Added(b)
  BY DEF TakeWork, Added
<1>5. ASSUME NEW d \in Block
      PROVE  /\ code[d] \in Seq(Instruction) /\ code'[d] \in Seq(Instruction)
             /\ Phi(d, var) \in Instruction /\ Phi(d, var).op = "phi"
             /\ Phi(d, var).var = var /\ Phi(d, var).id = Joined(d, var)
  <2>1. code[d] \in Seq(Instruction)
    BY <1>1 DEF Typed
  <2>2. Joined(d, var) \in Value /\ << >> \in Seq(Value \X Block)
    BY <1>2, JoinedIsValue
  <2>3. Phi(d, var) \in Instruction /\ Phi(d, var).op = "phi"
        /\ Phi(d, var).var = var /\ Phi(d, var).id = Joined(d, var)
    BY <1>2, <2>2 DEF Phi, Instruction
  <2>4. <<Phi(d, var)>> \o code[d] \in Seq(Instruction)
    BY <2>1, <2>3, PrefixFacts
  <2> QED BY <1>4, <2>1, <2>3, <2>4
<1> QED BY <1>1, <1>2, <1>3, <1>4, <1>5

\* Before re_name there are no activations, and nothing is on the stacks.
Idle == /\ Typed /\ PhisDiffer /\ calls = << >>
        /\ \A x \in Var : var_val_stack[x] = << >>

\* Then the activations and the stacks are as SInv says.
LEMMA IdleSuffices == Idle => SInv
<1> SUFFICES ASSUME Idle PROVE SInv
  OBVIOUS
<1> USE DEF Idle
<1>1. Len(calls) = 0 /\ Len(<< >>) = 0
  OBVIOUS
<1>2. Active
  BY <1>1 DEF Active
<1>3. ASSUME NEW x \in Var PROVE AddsUp(Weights(x), 0)
  <2>1. Weights(x) = << >>
    BY <1>1 DEF Weights
  <2> QED BY <2>1, SumEmpty
<1>4. Stacked
  BY <1>1, <1>3 DEF Stacked
<1> QED BY <1>2, <1>4 DEF SInv

\* And the stacks are empty whenever there are no activations.
LEMMA NoCallsNoValues ==
  ASSUME SInv, calls = << >>, NEW x \in Var
  PROVE  var_val_stack[x] = << >>
<1>1. Weights(x) = << >> /\ Len(<< >>) = 0
  BY DEF Weights
<1>2. PICK H : H[0] = 0 /\ H[Len(Weights(x))] = Len(var_val_stack[x])
  BY DEF SInv, Stacked, AddsUp
<1>3. Len(var_val_stack[x]) = 0 /\ var_val_stack[x] \in Seq(Value)
  BY <1>1, <1>2 DEF SInv, Typed
<1> QED BY <1>3, EmptySeq

\* A new phi is for a variable that the block had none for.
LEMMA TakeWorkSInv ==
  ASSUME SInv, NEW b, TakeWork(b)
  PROVE  SInv'
<1>1. Typed /\ PhisDiffer /\ Active
  BY DEF SInv
<1>2. /\ phase = "work list" /\ b \in Block /\ var \in Var /\ Added(b) \subseteq Block
      /\ code' = [d \in Block |-> IF d \in Added(b) THEN <<Phi(d, var)>> \o code[d] ELSE code[d]]
      /\ work_list' = (work_list \ {b}) \cup Added(b)
      /\ \A d \in Block : /\ code[d] \in Seq(Instruction) /\ code'[d] \in Seq(Instruction)
                          /\ Phi(d, var) \in Instruction /\ Phi(d, var).op = "phi"
                          /\ Phi(d, var).var = var /\ Phi(d, var).id = Joined(d, var)
  BY TakeWorkFacts
<1>3. UNCHANGED <<fn, dominators_, phase, todo, var, var_val_stack, stacked, calls>>
  BY DEF TakeWork
<1>4. calls = << >>
  BY <1>1, <1>2 DEF Active
<1>5. Block' = Block /\ Edges' = Edges /\ Value' = Value /\ Instruction' = Instruction /\ Activation' = Activation
  BY <1>3, SameTypes
<1>6. Typed'
  <2>1. code' \in [Block -> Seq(Instruction)]
    BY <1>2
  <2> QED BY <1>1, <1>2, <1>3, <1>5, <2>1 DEF Typed
<1>7. PhisDiffer'
  <2>1. ASSUME NEW d \in Block
        PROVE  \A i \in Is("phi", code'[d]) :
                 /\ code'[d][i].id = Joined(d, code'[d][i].var)
                 /\ \A j \in Is("phi", code'[d]) : code'[d][i].var = code'[d][j].var => i = j
    <3>1. CASE d \in Added(b)
      <4> DEFINE is == code[d]
                 js == code'[d]
      <4>1. js = <<Phi(d, var)>> \o is /\ is \in Seq(Instruction) /\ Phi(d, var) \in Instruction
        BY <1>2, <3>1
      <4>2. \A i \in Is("phi", is) : /\ is[i].var # var /\ is[i].id = Joined(d, is[i].var)
                                     /\ \A j \in Is("phi", is) : is[i].var = is[j].var => i = j
        BY <1>1, <3>1 DEF Added, HasPhi, PhisDiffer
      <4> HIDE DEF is, js
      <4>3. /\ DOMAIN is = 1 .. Len(is) /\ Len(is) \in Nat /\ DOMAIN js = 1 .. Len(is) + 1
            /\ js[1] = Phi(d, var) /\ \A i \in 1 .. Len(is) : js[i + 1] = is[i]
        BY <4>1, PrefixFacts
      <4>4. \A i \in Is("phi", js) : i = 1 \/ (i - 1 \in Is("phi", is) /\ js[i] = is[i - 1])
        <5> TAKE i \in Is("phi", js)
        <5>1. i \in 1 .. Len(is) + 1 /\ js[i].op = "phi"
          BY <4>3 DEF Is
        <5>2. CASE i # 1
          <6>1. i - 1 \in 1 .. Len(is) /\ i - 1 + 1 = i
            BY <4>3, <5>1, <5>2
          <6>2. js[i] = is[i - 1]
            BY <4>3, <6>1
          <6> QED BY <4>3, <5>1, <6>1, <6>2 DEF Is
        <5> QED BY <5>2
      <4>5. js[1].var = var /\ js[1].id = Joined(d, var)
        BY <1>2, <4>3
      <4>6. \A i \in Is("phi", js) : i \in 1 .. Len(is) + 1
        BY <4>3 DEF Is
      <4>7. ASSUME NEW i \in Is("phi", js) PROVE js[i].id = Joined(d, js[i].var)
        BY <4>2, <4>4, <4>5, <4>7
      <4>8. ASSUME NEW i \in Is("phi", js), NEW j \in Is("phi", js), js[i].var = js[j].var
            PROVE  i = j
        <5>1. CASE i = 1
          BY <4>2, <4>4, <4>5, <4>8, <5>1
        <5>2. CASE j = 1
          BY <4>2, <4>4, <4>5, <4>8, <5>2
        <5>3. CASE i # 1 /\ j # 1
          <6>1. i - 1 \in Is("phi", is) /\ j - 1 \in Is("phi", is) /\ is[i - 1].var = is[j - 1].var
            BY <4>4, <4>8, <5>3
          <6>2. i - 1 = j - 1
            BY <4>2, <6>1
          <6> QED BY <4>3, <4>6, <6>2
        <5> QED BY <5>1, <5>2, <5>3
      <4> QED BY <4>7, <4>8 DEF js
    <3>2. CASE d \notin Added(b)
      BY <1>1, <1>2, <3>2 DEF PhisDiffer
    <3> QED BY <3>1, <3>2
  <2> QED BY <1>5, <2>1 DEF PhisDiffer
<1>8. calls' = << >> /\ \A x \in Var : var_val_stack'[x] = << >>
  BY <1>3, <1>4, NoCallsNoValues
<1>9. Idle' => SInv'
  BY IdleSuffices, PTL
<1> QED BY <1>6, <1>7, <1>8, <1>9 DEF Idle

\* The choice of a variable changes neither code nor stacks.
LEMMA ChooseVariableSInv ==
  ASSUME SInv, NEW x \in Var, ChooseVariable(x) \/ VariableDone
  PROVE  SInv'
<1>1. /\ Typed /\ PhisDiffer /\ Active /\ phase \in {"variable", "work list"}
      /\ phase' \in {"variable", "work list"}
      /\ UNCHANGED <<fn, dominators_, code, var_val_stack, stacked, calls>>
  BY DEF SInv, ChooseVariable, VariableDone
<1>2. calls = << >>
  BY <1>1 DEF Active
<1>3. Block' = Block /\ Edges' = Edges /\ Value' = Value /\ Instruction' = Instruction /\ Activation' = Activation
  BY <1>1, SameTypes
<1>4. /\ todo' \subseteq Var /\ work_list' \subseteq Block
      /\ var' \in Var \cup {0} /\ (phase' = "work list" => var' \in Var)
  BY <1>1 DEF ChooseVariable, VariableDone, Typed
<1>5. Typed'
  BY <1>1, <1>3, <1>4 DEF Typed
<1>6. PhisDiffer'
  BY <1>1, <1>3 DEF PhisDiffer
<1>7. calls' = << >> /\ \A y \in Var : var_val_stack'[y] = << >>
  BY <1>1, <1>2, NoCallsNoValues
<1>8. Idle' => SInv'
  BY IdleSuffices, PTL
<1> QED BY <1>5, <1>6, <1>7, <1>8 DEF Idle

\* At the start there are no phis.
LEMMA InitSInv ==
  ASSUME Init
  PROVE  SInv
<1>1. /\ fn \in Functions /\ code = fn.body /\ calls = << >> /\ var_val_stack = [x \in Var |-> << >>]
      /\ dominators_ = [frontier |-> [b \in Block |-> Frontier(b, Entry, Block, Edges)],
                        tree |-> IdomPairs(Entry, Block, Edges)]
      /\ phase = "variable" /\ stacked = {} /\ work_list = {} /\ var = 0
      /\ todo \subseteq Var
  BY DEF Init
<1>2. code \in [Block -> Seq(Instruction)]
  BY <1>1, Bodies
<1>3. Typed
  BY <1>1, <1>2 DEF Typed
<1>4. PhisDiffer
  <2> SUFFICES ASSUME NEW b \in Block, NEW i \in Is("phi", code[b]) PROVE FALSE
    BY DEF PhisDiffer
  <2>1. fn.body[b][i] \in ToSet(fn.body[b]) /\ fn.body[b][i].op = "phi"
    BY <1>1 DEF Is, ToSet
  <2>2. Original(fn.body[b][i])
    BY <1>1, <2>1, FunctionsAssumption DEF Block
  <2> QED BY <2>1, <2>2 DEF Original
<1> QED BY <1>1, <1>3, <1>4, IdleSuffices DEF Idle

\* Every step of the pass keeps SInv.
LEMMA NextSInv ==
  ASSUME SInv, [Next]_vars
  PROVE  SInv'
<1>1. ASSUME NEW x \in Var, ChooseVariable(x) PROVE SInv'
  BY <1>1, ChooseVariableSInv
<1>2. ASSUME VariableDone PROVE SInv'
  <2>1. ASSUME Var = {} PROVE FALSE
    BY <1>2, <2>1 DEF VariableDone, SInv, Typed
  <2> QED BY <1>2, <2>1, ChooseVariableSInv
<1>3. ASSUME RemoveAllocas PROVE SInv'
  BY <1>3, StopsSInv DEF RemoveAllocas
<1>4. ASSUME UNCHANGED vars PROVE SInv'
  <2>1. /\ fn' = fn /\ dominators_' = dominators_ /\ code' = code /\ phase' = phase
        /\ todo' = todo /\ var' = var /\ work_list' = work_list
        /\ var_val_stack' = var_val_stack /\ stacked' = stacked /\ calls' = calls
    BY <1>4 DEF vars
  <2>2. Block' = Block /\ Edges' = Edges /\ Value' = Value /\ Instruction' = Instruction /\ Activation' = Activation
    BY <2>1, SameTypes
  <2>3. Typed'
    BY <2>1, <2>2 DEF SInv, Typed
  <2>4. Active'
    BY <2>1, <2>2 DEF SInv, Active, FrameFits, Idom, Doms, Entry
  <2>5. PhisDiffer'
    BY <2>1, <2>2 DEF SInv, PhisDiffer
  <2>6. Stacked'
    BY <2>1, <2>2 DEF SInv, Stacked, Weights, PushedBy
  <2> QED BY <2>3, <2>4, <2>5, <2>6 DEF SInv
<1> QED BY <1>1, <1>2, <1>3, <1>4, TakeWorkSInv, DescendSInv, RenameSInv, ReplaceLoadSInv,
           PushStoreSInv, SkipInstrSInv, FillPhisSInv, LeaveSInv DEF Next

\* SInv gives the ranges of TypeOK: the positions of an activation are positions of its
\* block as it is now.
LEMMA SInvTypes ==
  ASSUME SInv
  PROVE  TypeOK
<1>1. Typed /\ Active
  BY DEF SInv
<1>2. ASSUME NEW b \in Block, NEW i \in Instrs(b) PROVE i.op \in {"store", "load", "use", "phi"}
  <2>1. code[b] \in Seq(Instruction)
    BY <1>1 DEF Typed
  <2>2. i \in Instruction
    BY <1>2, <2>1, ElementOfSeq, LenProperties DEF Instrs, ToSet
  <2> QED BY <2>2, InstructionFacts
<1>3. ASSUME NEW k \in DOMAIN calls
      PROVE  /\ calls[k].bb \in Block
             /\ calls[k].at \in 1 .. Len(code[calls[k].bb]) + 1
             /\ calls[k].wait_delete \subseteq DOMAIN code[calls[k].bb]
  <2>1. calls \in Seq(Activation) /\ DOMAIN calls = 1 .. Len(calls)
    BY <1>1, LenProperties DEF Typed
  <2>2. calls[k] \in Activation /\ FrameFits(calls[k])
    BY <1>1, <1>3, <2>1, ElementOfSeq DEF Active
  <2>3. calls[k].bb \in Block /\ calls[k].at \in Nat \ {0}
    BY <2>2 DEF Activation
  <2>4. /\ DOMAIN code[calls[k].bb] = 1 .. Len(code[calls[k].bb])
        /\ Len(code[calls[k].bb]) \in Nat
    BY <1>1, <2>3, LenProperties DEF Typed
  <2> QED BY <2>2, <2>3, <2>4 DEF FrameFits
<1> QED BY <1>1, <1>2, <1>3 DEF TypeOK, Typed

\* Activations of re_name stay in step with their blocks: at is a position of the block
\* or one past it, and wait_delete are positions of it, although activations below
\* delete instructions.
THEOREM Typing == Spec => []TypeOK
<1>1. Init => SInv
  BY InitSInv
<1>2. SInv /\ [Next]_vars => SInv'
  BY NextSInv
<1>3. SInv => TypeOK
  BY SInvTypes
<1> QED BY <1>1, <1>2, <1>3, PTL DEF Spec

\* The global stacks of values are empty again when the function is done: each activation
\* pops as much as it has pushed, for every variable.
THEOREM StacksAreEmptied == Spec => [](phase = "done" => StacksEmptied)
<1>1. Init => SInv
  BY InitSInv
<1>2. SInv /\ [Next]_vars => SInv'
  BY NextSInv
<1>3. SInv => (phase = "done" => StacksEmptied)
  <2> SUFFICES ASSUME SInv, phase = "done", NEW x \in Var PROVE var_val_stack[x] = << >>
    BY DEF StacksEmptied
  <2>1. calls = << >>
    BY DEF SInv, Active
  <2> QED BY <2>1, NoCallsNoValues
<1> QED BY <1>1, <1>2, <1>3, PTL DEF Spec

-------------------------------------------------------------------------------
(* Functions that store every variable on entry *)

\* Until re_name is called, a block has its phis, without pairs, and then what the
\* builder gave it.
GeneratedAt(b, m) ==
  /\ m \in Nat /\ Len(code[b]) = m + Len(fn.body[b])
  /\ \A i \in 1 .. m : code[b][i].op = "phi" /\ code[b][i].pairs = << >>
  /\ \A i \in 1 .. Len(fn.body[b]) : code[b][m + i] = fn.body[b][i]
Generated == \A b \in Block : \E m : GeneratedAt(b, m)

\* And so it is with the entry until its activation ends, but for the values used.
KeptAt(m) ==
  /\ m \in Nat /\ Len(code[Entry]) = m + Len(fn.body[Entry])
  /\ \A i \in 1 .. m : code[Entry][i].op = "phi"
  /\ \A i \in 1 .. Len(fn.body[Entry]) :
       /\ code[Entry][m + i].op = fn.body[Entry][i].op
       /\ code[Entry][m + i].op # "use" => code[Entry][m + i].var = fn.body[Entry][i].var
EntryKept == calls # << >> => \E m : KeptAt(m)

IsActive(b) == \E k \in 1 .. Len(calls) : calls[k].bb = b

\* V are the blocks that re_name has been called for: with a block its parent, and the
\* children that its activation has done with.
Visits(V) ==
  /\ V \subseteq Block /\ Entry \in V
  /\ \A k \in 1 .. Len(calls) : calls[k].bb \in V /\ calls[k].next \cap V = {}
  /\ \A a, b : Idom(a, b) =>
       /\ b \in V => a \in V
       /\ a \in V /\ b \notin V => \E k \in 1 .. Len(calls) : calls[k].bb = a /\ b \in calls[k].next

\* An activation has queued all loads and stores it went over, and nothing else.
Queued ==
  \A k \in 1 .. Len(calls) : \A i \in 1 .. calls[k].at - 1 :
    i \in calls[k].wait_delete <=> code[calls[k].bb][i].op \in {"load", "store"}

\* When it has ended there are none.
Deleted(V) ==
  \A b \in V : ~ IsActive(b) => \A i \in DOMAIN code[b] : code[b][i].op \notin {"load", "store"}

\* The pairs of phis are for the predecessors whose activations have filled them.
FromEach(ps, S) ==
  /\ \A k \in DOMAIN ps : ps[k][2] \in S
  /\ \A s \in S : \E k \in DOMAIN ps : ps[k][2] = s
  /\ \A k, l \in DOMAIN ps : ps[k][2] = ps[l][2] => k = l
FilledIn(V) == {b \in V : \A k \in 1 .. Len(calls) : calls[k].bb = b => calls[k].filled}
Paired(V) ==
  \A b \in Block : \A i \in Is("phi", code[b]) :
    FromEach(code[b][i].pairs, {a \in FilledIn(V) : <<a, b>> \in Edges})

\* Operands are constants and phis, or loads that are yet to be gone over before them.
Settled(v) == \/ v[1] = "const"
              \/ \E c \in Block : \E j \in Is("phi", code[c]) : code[c][j].id = v
Ahead(V, c, j) ==
  /\ c \in Block /\ j \in DOMAIN code[c] /\ code[c][j].op = "load"
  /\ c \in V => \E k \in 1 .. Len(calls) : calls[k].bb = c /\ calls[k].at <= j
LoadedBefore(V, b, i, v) ==
  \E c, j : Ahead(V, c, j) /\ code[c][j].id = v /\ (IF c = b THEN j < i ELSE Doms(c, b))
OperandsAhead(V) ==
  \A b \in Block : \A i \in DOMAIN code[b] :
    /\ code[b][i].op \in {"store", "use"} =>
         Settled(code[b][i].val) \/ LoadedBefore(V, b, i, code[b][i].val)
    /\ code[b][i].op = "phi" => \A k \in DOMAIN code[b][i].pairs : Settled(code[b][i].pairs[k][1])
ValuesSettled == \A x \in Var : \A k \in 1 .. Len(var_val_stack[x]) : Settled(var_val_stack[x][k])

Walk(V) ==
  /\ Visits(V) /\ Queued /\ Deleted(V) /\ Paired(V) /\ OperandsAhead(V)
  /\ EntryKept /\ ValuesSettled

WInv ==
  /\ SInv
  /\ phase \in {"variable", "work list"} => Generated
  /\ StoredOnEntry => /\ phase \notin {"aborted", "undefined"}
                      /\ phase \in {"rename", "done"} => \E V : Walk(V)

-------------------------------------------------------------------------------
(* Every stack has a value when it is needed *)

\* What an activation has gone over is on the stack.
LEMMA PushedThere ==
  ASSUME SInv, NEW k \in 1 .. Len(calls), NEW x \in Var, PushedBy(calls[k], x) # {}
  PROVE  x \in stacked /\ var_val_stack[x] # << >>
<1> DEFINE w == Weights(x)
           t == Len(var_val_stack[x])
           n == Len(calls)
<1>1. Typed /\ Active /\ Stacked /\ calls # << >>
  <2>1. calls # << >>
    OBVIOUS
  <2> QED BY <2>1 DEF SInv
<1>2. \A l \in 1 .. n : /\ w[l] = Cardinality(PushedBy(calls[l], x)) /\ w[l] \in Nat
                        /\ IsFiniteSet(PushedBy(calls[l], x))
  <2> TAKE l \in 1 .. n
  <2>1. w[l] = Cardinality(PushedBy(calls[l], x))
    BY DEF Weights
  <2>2. code[calls[l].bb] \in Seq(Instruction)
    BY <1>1, FrameIs
  <2> QED BY <2>1, <2>2, PushedFinite DEF PushedBy
<1>3. w = [l \in 1 .. n |-> w[l]] /\ n \in Nat \ {0}
  BY <1>1, FrameIs DEF Weights
<1>4. AddsUp(w, t) /\ t \in Nat /\ var_val_stack[x] \in Seq(Value)
  <2>1. var_val_stack[x] \in Seq(Value)
    BY <1>1 DEF Typed
  <2> QED BY <1>1, <2>1, LenProperties DEF Stacked
<1> HIDE DEF w, t, n
<1>5. w \in Seq(Nat) /\ Len(w) = n /\ w # << >>
  <2>1. w \in Seq(Nat) /\ Len(w) = n
    BY <1>2, <1>3, IsASeq
  <2> QED BY <1>3, <2>1, EmptySeq
<1>6. k \in 1 .. n /\ w[k] <= t
  BY <1>4, <1>5, SumFront DEF n
<1>7. w[k] # 0
  BY <1>2, <1>6, FS_EmptySet
<1>8. t # 0
  BY <1>2, <1>4, <1>6, <1>7
<1>9. var_val_stack[x] # << >>
  BY <1>8 DEF t
<1> QED BY <1>1, <1>9 DEF Stacked

\* When the activation of the entry is through, every variable has a value.
LEMMA EntryStores ==
  ASSUME SInv, StoredOnEntry, EntryKept, calls # << >>,
         calls[1].at = Len(code[Entry]) + 1, NEW x \in Var
  PROVE  x \in stacked /\ var_val_stack[x] # << >>
<1> DEFINE is == fn.body[Entry]
<1>1. PICK m : KeptAt(m)
  BY DEF EntryKept
<1>2. PICK i \in Is("store", is) : is[i].var = x
  BY DEF StoredOnEntry
<1>3. fn \in Functions /\ is \in Seq(Instruction) /\ i \in 1 .. Len(is) /\ Len(is) \in Nat /\ is[i].op = "store"
  <2>1. fn \in Functions
    BY DEF SInv, Typed
  <2>2. is \in Seq(Instruction)
    BY <2>1, Bodies, Graph
  <2> QED BY <1>2, <2>1, <2>2, LenProperties DEF Is
<1> HIDE DEF is
<1>4. /\ code[Entry][m + i].op = "store" /\ code[Entry][m + i].var = x
      /\ m + i \in 1 .. Len(code[Entry]) /\ m + i < calls[1].at
  <2>1. /\ m \in Nat /\ Len(code[Entry]) = m + Len(is) /\ code[Entry][m + i].op = is[i].op
        /\ code[Entry][m + i].op # "use" => code[Entry][m + i].var = is[i].var
    BY <1>1, <1>3 DEF KeptAt, is
  <2>2. m + i \in 1 .. m + Len(is) /\ m + i < m + Len(is) + 1
    BY <1>3, <2>1
  <2>3. is[i].var = x
    BY <1>2 DEF is
  <2> QED BY <1>3, <2>1, <2>2, <2>3
<1>5. 1 \in 1 .. Len(calls) /\ calls[1].bb = Entry
  BY FrameIs DEF SInv, Active
<1>6. m + i \in PushedBy(calls[1], x)
  BY <1>4, <1>5 DEF PushedBy, PushedIn
<1> QED BY <1>5, <1>6, PushedThere

\* A load is of a variable that has a value.
LEMMA LoadsStacked ==
  ASSUME SInv, StoredOnEntry, EntryKept, Working, instr.op = "load"
  PROVE  instr.var \in Var /\ instr.var \in stacked /\ var_val_stack[instr.var] # << >>
<1> DEFINE is == fn.body[Entry]
           n == Len(calls)
           x == instr.var
           at == Frame.at
<1>1. Typed /\ Active /\ calls # << >>
  BY DEF SInv, Working, Renaming
<1>2. /\ n \in Nat \ {0} /\ Frame = calls[n] /\ Frame \in Activation
      /\ code[Frame.bb] \in Seq(Instruction) /\ Len(code[Frame.bb]) \in Nat
      /\ calls[1].bb = Entry
  BY <1>1, FrameIs DEF Active
<1>3. at \in 1 .. Len(code[Frame.bb]) /\ instr = code[Frame.bb][at]
  BY <1>2 DEF Working, Activation, instr
<1>4. x \in Var
  BY <1>2, <1>3, ElementOfSeq, InstructionFacts
<1>5. CASE n # 1
  <2> HIDE DEF n
  <2>1. 1 \in 1 .. n - 1 /\ 1 \in 1 .. n
    BY <1>2, <1>5
  <2>2. calls[1].filled /\ FrameFits(calls[1])
    BY <1>1, <2>1 DEF Active, n
  <2>3. calls[1].at = Len(code[Entry]) + 1
    BY <1>2, <2>2 DEF FrameFits
  <2> QED BY <1>1, <1>4, <2>3, EntryStores
<1>6. CASE n = 1
  <2>1. Frame = calls[1] /\ Frame.bb = Entry
    BY <1>2, <1>6
  <2>2. PICK m : KeptAt(m)
    BY <1>1 DEF EntryKept
  <2>3. PICK i \in Is("store", is) : is[i].var = x /\ \A j \in 1 .. i - 1 : is[j].op = "load" => is[j].var # x
    BY <1>4 DEF StoredOnEntry
  <2>4. is \in Seq(Instruction) /\ i \in 1 .. Len(is) /\ Len(is) \in Nat /\ is[i].op = "store"
    <3>1. is \in Seq(Instruction)
      BY <1>1, Bodies, Graph DEF Typed
    <3> QED BY <2>3, <3>1, LenProperties DEF Is
  <2> HIDE DEF is, x, at
  <2>5. /\ m \in Nat /\ Len(code[Entry]) = m + Len(is)
        /\ (\A j \in 1 .. m : code[Entry][j].op = "phi")
        /\ \A j \in 1 .. Len(is) : /\ code[Entry][m + j].op = is[j].op
                                   /\ code[Entry][m + j].op # "use" => code[Entry][m + j].var = is[j].var
    BY <2>2 DEF KeptAt, is
  <2>6. at \in 1 .. m + Len(is) /\ code[Entry][at].op = "load" /\ code[Entry][at].var = x
    BY <1>3, <2>1, <2>5 DEF x
  <2>7. at - m \in 1 .. Len(is) /\ m + (at - m) = at
    <3>1. at \notin 1 .. m
      BY <2>5, <2>6
    <3> QED BY <2>4, <2>5, <2>6, <3>1
  <2>8. is[at - m].op = "load" /\ is[at - m].var = x
    BY <2>5, <2>6, <2>7
  <2>9. i < at - m
    BY <2>3, <2>4, <2>7, <2>8
  <2>10. /\ m + i \in 1 .. Len(code[Entry]) /\ m + i < at
         /\ code[Entry][m + i].op = "store" /\ code[Entry][m + i].var = x
    <3>1. m + i \in 1 .. m + Len(is) /\ m + i < at
      BY <2>4, <2>5, <2>6, <2>9
    <3>2. is[i].var = x
      BY <2>3 DEF is
    <3> QED BY <2>4, <2>5, <3>1, <3>2
  <2>11. m + i \in PushedBy(calls[1], x)
    BY <2>1, <2>10 DEF PushedBy, PushedIn, at
  <2>12. 1 \in 1 .. Len(calls)
    BY <1>6 DEF n
  <2> QED BY <1>4, <2>11, <2>12, PushedThere DEF x
<1> QED BY <1>5, <1>6

-------------------------------------------------------------------------------
(* The invariant of the walk, step by step *)

\* A block has one activation at most; all but the last are through with their blocks.
LEMMA Apart ==
  ASSUME Typed, Active
  PROVE  /\ \A j, k \in 1 .. Len(calls) : calls[j].bb = calls[k].bb => j = k
         /\ \A k \in 1 .. Len(calls) :
              k # Len(calls) => /\ calls[k].filled
                                /\ calls[k].at = Len(code[calls[k].bb]) + 1
<1>1. Len(calls) \in Nat
  BY LenProperties DEF Typed
<1>2. ASSUME NEW j \in 1 .. Len(calls), NEW k \in 1 .. Len(calls), calls[j].bb = calls[k].bb
      PROVE  j = k
  <2>1. ~ j < k /\ ~ k < j
    BY <1>2 DEF Active
  <2> QED BY <1>1, <2>1
<1>3. ASSUME NEW k \in 1 .. Len(calls), k # Len(calls)
      PROVE  calls[k].filled /\ calls[k].at = Len(code[calls[k].bb]) + 1
  <2>1. k \in 1 .. Len(calls) - 1
    BY <1>1, <1>3
  <2> QED BY <1>3, <2>1 DEF Active, FrameFits
<1> QED BY <1>2, <1>3

\* What dominates the block of the last activation is the block of one below, or this one.
LEMMA DominatorsActive ==
  ASSUME Typed, Active, calls # << >>, NEW d \in Block, Doms(d, Frame.bb)
  PROVE  \E k \in 1 .. Len(calls) : calls[k].bb = d
<1> DEFINE n == Len(calls)
           G == {j \in 0 .. n - 1 : (\E k \in 1 .. n : calls[k].bb = d) \/ Doms(d, calls[n - j].bb)}
<1>1. n \in Nat \ {0} /\ Frame = calls[n] /\ calls[1].bb = Entry /\ fn \in Functions
  BY FrameIs DEF Active, Typed
<1> HIDE DEF n
<1>2. 0 \in G
  <2>1. 0 \in 0 .. n - 1 /\ n - 0 = n
    BY <1>1
  <2> QED BY <1>1, <2>1
<1>4. ASSUME NEW j \in 0 .. (n - 1) - 1, j \in G PROVE j + 1 \in G
  <2>1. /\ n - j \in 1 .. n /\ n - (j + 1) \in 1 .. n - 1 /\ n - (j + 1) + 1 = n - j
        /\ j + 1 \in 0 .. n - 1
    BY <1>1
  <2>2. Idom(calls[n - (j + 1)].bb, calls[n - j].bb)
    BY <2>1 DEF Active, n
  <2>3. CASE Doms(d, calls[n - j].bb)
    <3>1. d = calls[n - j].bb \/ Doms(d, calls[n - (j + 1)].bb)
      BY <1>1, <2>2, <2>3, IdomIs
    <3> QED BY <2>1, <3>1
  <2> QED BY <1>4, <2>1, <2>3
<1> HIDE DEF G
<1>5. n - 1 \in G
  <2>1. n - 1 \in Nat /\ n - 1 \in 0 .. n - 1
    BY <1>1
  <2> QED BY <1>2, <1>4, <2>1, UpTo
<1>6. (\E k \in 1 .. n : calls[k].bb = d) \/ Doms(d, Entry)
  <2>1. n - (n - 1) = 1
    BY <1>1
  <2> QED BY <1>1, <1>5, <2>1 DEF G
<1>7. Doms(d, Entry) => d = Entry
  <2>1. IsFiniteSet(Block)
    BY <1>1, Graph
  <2>2. Entry \in DominatedBy(d, Entry, Block, Edges) => Entry = d
    BY <2>1, DominatedBack
  <2> QED BY <2>2 DEF Doms
<1>8. 1 \in 1 .. n
  BY <1>1
<1> QED BY <1>1, <1>6, <1>7, <1>8 DEF n

\* What stays when the last activation goes on and keeps its children.
LEMMA OnwardsFields ==
  ASSUME Typed, Active, NEW c, Onwards(c), c.next = Frame.next
  PROVE  LET n == Len(calls)
         IN  /\ n \in Nat \ {0} /\ Len(calls') = n /\ calls # << >> /\ calls' # << >>
             /\ calls'[n] = c /\ Frame = calls[n] /\ c.bb = Frame.bb /\ Frame.bb \in Block
             /\ \A k \in 1 .. n : /\ calls'[k].bb = calls[k].bb /\ calls'[k].next = calls[k].next
                                  /\ calls[k].bb \in Block
                                  /\ k # n => calls'[k] = calls[k]
             /\ Block' = Block /\ Edges' = Edges
             /\ \A b \in Block : /\ DOMAIN code'[b] = DOMAIN code[b]
                                 /\ DOMAIN code[b] = 1 .. Len(code[b]) /\ Len(code[b]) \in Nat
                                 /\ Alike(code[b], code'[b])
<1> DEFINE n == Len(calls)
<1>1. /\ n \in Nat \ {0} /\ calls' # << >> /\ Len(calls') = n /\ calls'[n] = c
      /\ Frame = calls[n] /\ c.bb = Frame.bb
      /\ \A k \in 1 .. n - 1 : calls'[k] = calls[k]
      /\ \A k \in 1 .. n : calls'[k].bb = calls[k].bb /\ calls[k].bb \in Block
  BY OnwardsFrames
<1>2. Block' = Block /\ Edges' = Edges /\ calls # << >>
  BY DEF Onwards, Block, Edges
<1> HIDE DEF n
<1>3. ASSUME NEW k \in 1 .. n
      PROVE  /\ k # n => calls'[k] = calls[k]
             /\ calls'[k].next = calls[k].next
  <2>1. k = n \/ k \in 1 .. n - 1
    BY <1>1
  <2> QED BY <1>1, <2>1
<1>4. ASSUME NEW b \in Block
      PROVE  /\ DOMAIN code'[b] = DOMAIN code[b]
             /\ DOMAIN code[b] = 1 .. Len(code[b]) /\ Len(code[b]) \in Nat
             /\ Alike(code[b], code'[b])
  <2>1. code[b] \in Seq(Instruction) /\ code'[b] \in Seq(Instruction) /\ Alike(code[b], code'[b])
    BY DEF Typed, Onwards
  <2> QED BY <2>1, LenProperties DEF Alike
<1>5. n \in 1 .. n
  BY <1>1
<1> QED BY <1>1, <1>2, <1>3, <1>4, <1>5 DEF n

\* So do the blocks that were called for, ...
LEMMA OnwardsVisits ==
  ASSUME Typed, Active, NEW c, Onwards(c), c.next = Frame.next, NEW V, Visits(V)
  PROVE  Visits(V)'
<1>1. /\ Len(calls') = Len(calls) /\ Block' = Block /\ Edges' = Edges /\ Entry' = Entry
      /\ \A k \in 1 .. Len(calls) : calls'[k].bb = calls[k].bb /\ calls'[k].next = calls[k].next
  BY OnwardsFields DEF Entry
<1>2. \A k \in 1 .. Len(calls) : calls[k].bb \in V /\ calls[k].next \cap V = {}
  BY DEF Visits
<1>3. \A a, b : Idom(a, b)' <=> Idom(a, b)
  BY <1>1 DEF Idom
<1> QED BY <1>1, <1>2, <1>3 DEF Visits

\* ... what is settled, ...
LEMMA OnwardsSettled ==
  ASSUME Typed, Active, NEW c, Onwards(c), c.next = Frame.next
  PROVE  \A v : Settled(v)' <=> Settled(v)
<1>1. Block' = Block /\ \A b \in Block : /\ DOMAIN code'[b] = DOMAIN code[b]
                                         /\ DOMAIN code[b] = 1 .. Len(code[b])
                                         /\ Alike(code[b], code'[b])
  BY OnwardsFields
<1>2. \A b \in Block : /\ Is("phi", code'[b]) = Is("phi", code[b])
                       /\ \A i \in Is("phi", code[b]) : code'[b][i].id = code[b][i].id
  BY <1>1 DEF Alike, Is
<1> QED BY <1>1, <1>2 DEF Settled

\* ... which blocks are through with, ...
LEMMA OnwardsDeleted ==
  ASSUME Typed, Active, NEW c, Onwards(c), c.next = Frame.next, NEW V, V \subseteq Block, Deleted(V)
  PROVE  Deleted(V)'
<1>1. /\ Len(calls') = Len(calls)
      /\ \A k \in 1 .. Len(calls) : calls'[k].bb = calls[k].bb
      /\ \A b \in Block : /\ DOMAIN code'[b] = DOMAIN code[b] /\ DOMAIN code[b] = 1 .. Len(code[b])
                          /\ Alike(code[b], code'[b])
  BY OnwardsFields
<1>2. \A b : IsActive(b)' <=> IsActive(b)
  BY <1>1 DEF IsActive
<1>3. \A b \in Block : \A i \in DOMAIN code[b] : code'[b][i].op = code[b][i].op
  BY <1>1 DEF Alike
<1> QED BY <1>1, <1>2, <1>3 DEF Deleted

\* ... and the entry.
LEMMA OnwardsEntry ==
  ASSUME Typed, Active, NEW c, Onwards(c), c.next = Frame.next, EntryKept
  PROVE  EntryKept'
<1>1. /\ calls # << >> /\ fn' = fn /\ fn \in Functions /\ Entry' = Entry
      /\ Len(code[Entry]) \in Nat /\ Alike(code[Entry], code'[Entry])
  BY OnwardsFields, Graph DEF Onwards, Typed, Entry
<1>2. PICK m : KeptAt(m)
  BY <1>1 DEF EntryKept
<1> DEFINE l == Len(fn.body[Entry])
<1>3. /\ m \in Nat /\ Len(code[Entry]) = m + l
      /\ \A i \in 1 .. m : code[Entry][i].op = "phi"
      /\ \A i \in 1 .. l :
           /\ code[Entry][m + i].op = fn.body[Entry][i].op
           /\ code[Entry][m + i].op # "use" => code[Entry][m + i].var = fn.body[Entry][i].var
  BY <1>2 DEF KeptAt
<1>4. l \in Nat
  BY <1>1, Bodies, LenProperties
<1> HIDE DEF l
<1>5. /\ \A i \in 1 .. m : i \in 1 .. Len(code[Entry])
      /\ \A i \in 1 .. l : m + i \in 1 .. Len(code[Entry])
  BY <1>3, <1>4
<1>6. \A i \in 1 .. Len(code[Entry]) :
        /\ code'[Entry][i].op = code[Entry][i].op
        /\ code[Entry][i].op # "use" => code'[Entry][i].var = code[Entry][i].var
  BY <1>1 DEF Alike
<1>7. /\ Len(code'[Entry]) = m + l
      /\ \A i \in 1 .. m : code'[Entry][i].op = "phi"
      /\ \A i \in 1 .. l :
           /\ code'[Entry][m + i].op = fn.body[Entry][i].op
           /\ code'[Entry][m + i].op # "use" => code'[Entry][m + i].var = fn.body[Entry][i].var
  <2>1. Len(code'[Entry]) = m + l
    BY <1>1, <1>3 DEF Alike
  <2>2. \A i \in 1 .. m : code'[Entry][i].op = "phi"
    BY <1>3, <1>5, <1>6
  <2>3. ASSUME NEW i \in 1 .. l
        PROVE  /\ code'[Entry][m + i].op = fn.body[Entry][i].op
               /\ code'[Entry][m + i].op # "use" => code'[Entry][m + i].var = fn.body[Entry][i].var
    BY <1>3, <1>5, <1>6
  <2> QED BY <2>1, <2>2, <2>3
<1>8. KeptAt(m)'
  BY <1>1, <1>3, <1>7 DEF KeptAt, l
<1> QED BY <1>8 DEF EntryKept

\* A load that is ahead still is, unless the activation has gone over it.
LEMMA OnwardsAhead ==
  ASSUME Typed, Active, NEW c, Onwards(c), c.next = Frame.next, NEW V, NEW d, NEW j,
         Ahead(V, d, j),
         c.at = Frame.at \/ (c.at = Frame.at + 1 /\ ~ (d = Frame.bb /\ j = Frame.at))
  PROVE  Ahead(V, d, j)'
<1> DEFINE n == Len(calls)
<1>1. /\ n \in Nat \ {0} /\ Len(calls') = n /\ calls'[n] = c /\ Frame = calls[n]
      /\ Block' = Block
      /\ \A k \in 1 .. n : calls'[k].bb = calls[k].bb /\ (k # n => calls'[k] = calls[k])
      /\ \A b \in Block : /\ DOMAIN code'[b] = DOMAIN code[b]
                          /\ DOMAIN code[b] = 1 .. Len(code[b]) /\ Len(code[b]) \in Nat
                          /\ Alike(code[b], code'[b])
  BY OnwardsFields
<1>2. /\ d \in Block /\ j \in DOMAIN code[d] /\ code[d][j].op = "load"
      /\ d \in V => \E k \in 1 .. n : calls[k].bb = d /\ calls[k].at <= j
  BY DEF Ahead
<1>3. j \in Nat /\ j \in DOMAIN code'[d] /\ code'[d][j].op = "load"
  BY <1>1, <1>2 DEF Alike
<1>4. Frame.at \in Nat
  BY FrameIs, OnwardsFields DEF Activation
<1>5. ASSUME d \in V PROVE \E k \in 1 .. n : calls'[k].bb = d /\ calls'[k].at <= j
  <2>1. PICK k \in 1 .. n : calls[k].bb = d /\ calls[k].at <= j
    BY <1>2, <1>5
  <2>2. calls'[k].at <= j
    <3>1. CASE k = n
      <4>1. Frame.at <= j /\ Frame.bb = d
        BY <1>1, <2>1, <3>1
      <4>2. c.at <= j
        BY <1>3, <1>4, <4>1
      <4> QED BY <1>1, <3>1, <4>2
    <3>2. CASE k # n
      BY <1>1, <2>1, <3>2
    <3> QED BY <3>1, <3>2
  <2> QED BY <1>1, <2>1, <2>2
<1> QED BY <1>1, <1>2, <1>3, <1>5 DEF Ahead, n

\* An operand whose load is gone over is replaced by one that is settled.
LEMMA OnwardsOperands ==
  ASSUME Typed, Active, NEW c, Onwards(c), c.next = Frame.next, NEW V, OperandsAhead(V),
         \/ c.at = Frame.at
         \/ c.at = Frame.at + 1 /\ Frame.at \in DOMAIN code[Frame.bb],
         \A b \in Block : \A i \in DOMAIN code[b] :
           /\ code[b][i].op \in {"store", "use"} =>
                \/ Settled(code'[b][i].val)
                \/ /\ code'[b][i].val = code[b][i].val
                   /\ c.at # Frame.at /\ code[Frame.bb][Frame.at].op = "load" =>
                        code[b][i].val # code[Frame.bb][Frame.at].id
           /\ code[b][i].op = "phi" =>
                \A k \in DOMAIN code'[b][i].pairs : Settled(code'[b][i].pairs[k][1])
  PROVE  OperandsAhead(V)'
<1>1. /\ Block' = Block
      /\ \A b \in Block : /\ DOMAIN code'[b] = DOMAIN code[b]
                          /\ DOMAIN code[b] = 1 .. Len(code[b]) /\ Len(code[b]) \in Nat
                          /\ Alike(code[b], code'[b])
  BY OnwardsFields
<1>2. \A v : Settled(v)' <=> Settled(v)
  BY OnwardsSettled
<1>3. \A b \in Block : \A i \in DOMAIN code[b] :
        /\ code'[b][i].op = code[b][i].op
        /\ code[b][i].op = "load" => code'[b][i].id = code[b][i].id
  BY <1>1 DEF Alike
<1>4. ASSUME NEW b \in Block, NEW i \in DOMAIN code[b], code[b][i].op \in {"store", "use"},
             ~ Settled(code'[b][i].val)
      PROVE  LoadedBefore(V, b, i, code[b][i].val)' /\ code'[b][i].val = code[b][i].val
  <2> DEFINE v == code[b][i].val
  <2>1. /\ code'[b][i].val = v /\ ~ Settled(v)
        /\ c.at # Frame.at /\ code[Frame.bb][Frame.at].op = "load" => v # code[Frame.bb][Frame.at].id
    BY <1>4
  <2>2. LoadedBefore(V, b, i, v)
    BY <1>4, <2>1 DEF OperandsAhead
  <2>3. PICK d, j : /\ Ahead(V, d, j) /\ code[d][j].id = v
                    /\ (IF d = b THEN j < i ELSE Doms(d, b))
    BY <2>2 DEF LoadedBefore
  <2>4. d \in Block /\ j \in DOMAIN code[d] /\ code[d][j].op = "load"
    BY <2>3 DEF Ahead
  <2>5. c.at = Frame.at \/ (c.at = Frame.at + 1 /\ ~ (d = Frame.bb /\ j = Frame.at))
    <3>1. Frame.at \in Nat
      BY FrameIs, OnwardsFields DEF Activation
    <3> QED BY <2>1, <2>3, <2>4, <3>1
  <2>6. Ahead(V, d, j)'
    BY <2>3, <2>5, OnwardsAhead
  <2>7. code'[d][j].id = v
    BY <1>3, <2>3, <2>4
  <2>8. Doms(d, b)' <=> Doms(d, b)
    BY OnwardsFields DEF Doms, Entry
  <2> HIDE DEF v
  <2>9. LoadedBefore(V, b, i, v)'
    BY <2>3, <2>6, <2>7, <2>8, <2>1 DEF LoadedBefore, v
  <2> QED BY <2>1, <2>9 DEF v
<1> QED BY <1>1, <1>2, <1>3, <1>4 DEF OperandsAhead

\* Pairs stay for the same predecessors if no activation gets through.
LEMMA OnwardsPaired ==
  ASSUME Typed, Active, NEW c, Onwards(c), c.next = Frame.next, c.filled = Frame.filled,
         NEW V, Paired(V),
         \A b \in Block : \A i \in Is("phi", code[b]) :
           /\ DOMAIN code'[b][i].pairs = DOMAIN code[b][i].pairs
           /\ \A k \in DOMAIN code[b][i].pairs : code'[b][i].pairs[k][2] = code[b][i].pairs[k][2]
  PROVE  Paired(V)'
<1>1. /\ Block' = Block /\ Edges' = Edges
      /\ \A b \in Block : /\ DOMAIN code'[b] = DOMAIN code[b] /\ DOMAIN code[b] = 1 .. Len(code[b])
                          /\ Alike(code[b], code'[b])
  BY OnwardsFields
<1>2. \A b \in Block : Is("phi", code'[b]) = Is("phi", code[b])
  BY <1>1 DEF Alike, Is
<1>3. FilledIn(V)' = FilledIn(V)
  <2>1. /\ Len(calls') = Len(calls)
        /\ \A k \in 1 .. Len(calls) : calls'[k].bb = calls[k].bb /\ calls'[k].filled = calls[k].filled
    BY OnwardsFields
  <2> QED BY <2>1 DEF FilledIn
<1>4. ASSUME NEW b \in Block, NEW i \in Is("phi", code[b])
      PROVE  FromEach(code'[b][i].pairs, {a \in FilledIn(V) : <<a, b>> \in Edges})
  <2> DEFINE ps == code[b][i].pairs
             qs == code'[b][i].pairs
             S == {a \in FilledIn(V) : <<a, b>> \in Edges}
  <2>1. FromEach(ps, S)
    BY DEF Paired
  <2>2. DOMAIN qs = DOMAIN ps /\ \A k \in DOMAIN ps : qs[k][2] = ps[k][2]
    OBVIOUS
  <2> HIDE DEF ps, qs, S
  <2>3. FromEach(qs, S)
    BY <2>1, <2>2 DEF FromEach
  <2> QED BY <2>3 DEF qs, S
<1>5. \A b \in Block : {a \in FilledIn(V)' : <<a, b>> \in Edges'} = {a \in FilledIn(V) : <<a, b>> \in Edges}
  BY <1>1, <1>3
<1> QED BY <1>1, <1>2, <1>4, <1>5 DEF Paired

\* What is queued, when one instruction more is gone over.
LEMMA OnwardsQueued ==
  ASSUME Typed, Active, NEW c, Onwards(c), c.next = Frame.next, Queued,
         \/ c.at = Frame.at /\ c.wait_delete = Frame.wait_delete
         \/ /\ c.at = Frame.at + 1
            /\ c.wait_delete = Frame.wait_delete \cup
                 (IF code[Frame.bb][Frame.at].op \in {"load", "store"} THEN {Frame.at} ELSE {})
  PROVE  Queued'
<1> DEFINE n == Len(calls)
<1>1. /\ n \in Nat \ {0} /\ Len(calls') = n /\ calls'[n] = c /\ Frame = calls[n]
      /\ c.bb = Frame.bb /\ calls # << >>
      /\ \A k \in 1 .. n : /\ calls'[k].bb = calls[k].bb /\ (k # n => calls'[k] = calls[k])
                           /\ calls[k].bb \in Block
      /\ \A b \in Block : DOMAIN code[b] = 1 .. Len(code[b]) /\ Len(code[b]) \in Nat /\ Alike(code[b], code'[b])
  BY OnwardsFields
<1>2. \A k \in 1 .. n : FrameFits(calls[k]) /\ calls[k].at \in Nat \ {0}
  BY FrameIs, <1>1 DEF Active, Activation
<1>3. \A k \in 1 .. n : \A i \in 1 .. calls[k].at - 1 :
        i \in calls[k].wait_delete <=> code[calls[k].bb][i].op \in {"load", "store"}
  BY DEF Queued, n
<1>4. \A b \in Block : \A i \in 1 .. Len(code[b]) : code'[b][i].op = code[b][i].op
  BY <1>1 DEF Alike
<1> HIDE DEF n
<1>5. ASSUME NEW k \in 1 .. n, NEW i \in 1 .. calls'[k].at - 1
      PROVE  i \in calls'[k].wait_delete <=> code'[calls'[k].bb][i].op \in {"load", "store"}
  <2>1. CASE k # n
    <3>1. calls'[k] = calls[k] /\ i \in 1 .. calls[k].at - 1
      BY <1>1, <1>5, <2>1
    <3>2. i \in 1 .. Len(code[calls[k].bb])
      BY <1>1, <1>2, <3>1 DEF FrameFits
    <3>3. code'[calls[k].bb][i].op = code[calls[k].bb][i].op
      BY <1>1, <1>4, <3>2
    <3> QED BY <1>3, <3>1, <3>3
  <2>2. CASE k = n
    <3>1. /\ calls'[k] = c /\ c.bb \in Block /\ i \in 1 .. c.at - 1 /\ Frame.at \in Nat \ {0}
          /\ Len(code[c.bb]) \in Nat
      BY <1>1, <1>2, <1>5, <2>2
    <3>2. c.at <= Len(code[c.bb]) + 1 /\ c.at \in Nat \ {0}
      BY DEF Onwards, Activation
    <3>3. i \in 1 .. Len(code[c.bb])
      BY <3>1, <3>2
    <3>4. code'[c.bb][i].op = code[c.bb][i].op
      BY <1>4, <3>1, <3>3
    <3>5. Frame.wait_delete \subseteq 1 .. Frame.at - 1
      BY <1>1, <1>2, <2>2 DEF FrameFits
    <3>6. CASE i \in 1 .. Frame.at - 1
      <4>1. i \in Frame.wait_delete <=> code[c.bb][i].op \in {"load", "store"}
        BY <1>1, <1>3, <2>2, <3>6
      <4>2. i # Frame.at
        BY <3>1, <3>6
      <4>3. i \in c.wait_delete <=> i \in Frame.wait_delete
        BY <4>2
      <4> QED BY <3>1, <3>4, <4>1, <4>3
    <3>7. CASE i \notin 1 .. Frame.at - 1
      <4>1. c.at # Frame.at /\ i = Frame.at
        BY <3>1, <3>2, <3>7
      <4>2. i \notin Frame.wait_delete
        BY <3>5, <3>7
      <4>3. i \in c.wait_delete <=> code[c.bb][i].op \in {"load", "store"}
        BY <1>1, <4>1, <4>2
      <4> QED BY <3>1, <3>4, <4>3
    <3> QED BY <3>6, <3>7
  <2> QED BY <2>1, <2>2
<1> QED BY <1>1, <1>5 DEF Queued

\* No step from an instruction to the next touches what only Onwards keeps.
LEMMA OnwardsWalk ==
  ASSUME SInv, NEW c, Onwards(c), c.next = Frame.next, NEW V, Walk(V),
         Queued', Paired(V)', OperandsAhead(V)',
         \A x \in Var : \A k \in 1 .. Len(var_val_stack'[x]) : Settled(var_val_stack'[x][k])
  PROVE  Walk(V)'
<1>1. Typed /\ Active
  BY DEF SInv
<1>2. Visits(V)' /\ Deleted(V)' /\ EntryKept'
  BY <1>1, OnwardsVisits, OnwardsDeleted, OnwardsEntry DEF Walk, Visits
<1>3. ValuesSettled'
  BY <1>1, OnwardsSettled DEF ValuesSettled
<1> QED BY <1>2, <1>3 DEF Walk

\* A value that is stored is settled when the activation comes to the store: the load of
\* it would be in the block before the store, or in one that dominates the block, and all
\* of these are through.
LEMMA OperandSettled ==
  ASSUME SInv, NEW V, Walk(V), Working, instr.op \in {"store", "use"}
  PROVE  Settled(instr.val)
<1> DEFINE n == Len(calls)
           bb == Frame.bb
           at == Frame.at
<1>1. Typed /\ Active /\ calls # << >>
  BY DEF SInv, Working, Renaming
<1>2. /\ n \in Nat \ {0} /\ Frame = calls[n] /\ bb \in Block /\ at \in 1 .. Len(code[bb])
      /\ DOMAIN code[bb] = 1 .. Len(code[bb]) /\ Len(code[bb]) \in Nat /\ at \in Nat
      /\ instr = code[bb][at]
  <2>1. /\ n \in Nat \ {0} /\ Frame = calls[n] /\ Frame \in Activation
        /\ DOMAIN code[bb] = 1 .. Len(code[bb]) /\ Len(code[bb]) \in Nat
    BY <1>1, FrameIs
  <2>2. at <= Len(code[bb]) /\ at \in Nat \ {0} /\ bb \in Block
    BY <2>1 DEF Working, Activation
  <2> QED BY <2>1, <2>2 DEF instr
<1> SUFFICES ASSUME LoadedBefore(V, bb, at, instr.val) PROVE FALSE
  BY <1>2 DEF Walk, OperandsAhead
<1>3. PICK d, j : /\ Ahead(V, d, j)
                  /\ (IF d = bb THEN j < at ELSE Doms(d, bb))
  BY DEF LoadedBefore
<1>4. /\ d \in Block /\ j \in DOMAIN code[d]
      /\ d \in V => \E k \in 1 .. n : calls[k].bb = d /\ calls[k].at <= j
  BY <1>3 DEF Ahead
<1>5. \A k \in 1 .. n : calls[k].bb \in V
  BY DEF Walk, Visits
<1>6. \E k \in 1 .. n : calls[k].bb = d
  <2>1. CASE d = bb
    <3>1. n \in 1 .. n
      BY <1>2
    <3> QED BY <1>2, <2>1, <3>1
  <2>2. CASE d # bb
    BY <1>1, <1>3, <1>4, <2>2, DominatorsActive
  <2> QED BY <2>1, <2>2
<1>7. PICK k \in 1 .. n : calls[k].bb = d /\ calls[k].at <= j
  BY <1>4, <1>5, <1>6
<1>8. DOMAIN code[d] = 1 .. Len(code[d]) /\ Len(code[d]) \in Nat
  BY <1>1, <1>7, FrameIs
<1>9. CASE d = bb
  <2>1. k = n
    <3>1. n \in 1 .. n
      BY <1>2
    <3> QED BY <1>1, <1>2, <1>7, <1>9, <3>1, Apart
  <2>2. at <= j /\ j < at
    BY <1>2, <1>3, <1>7, <1>9, <2>1
  <2> QED BY <1>2, <1>4, <1>8, <2>2
<1>10. CASE d # bb
  <2>1. k # n
    BY <1>2, <1>7, <1>10
  <2>2. calls[k].at = Len(code[d]) + 1
    BY <1>1, <1>7, <2>1, Apart
  <2> QED BY <1>4, <1>7, <1>8, <2>2
<1> QED BY <1>9, <1>10

\* The code is left alone.
LEMMA SameCodeOperands ==
  ASSUME Typed, Active, NEW c, Onwards(c), c.next = Frame.next, c.filled = Frame.filled, code' = code,
         NEW V, OperandsAhead(V), Paired(V),
         c.at = Frame.at + 1, Frame.at \in DOMAIN code[Frame.bb], code[Frame.bb][Frame.at].op # "load"
  PROVE  OperandsAhead(V)' /\ Paired(V)'
<1>1. Paired(V)'
  BY OnwardsPaired
<1>2. \A b \in Block : \A i \in DOMAIN code[b] :
           code[b][i].op = "phi" =>
                \A k \in DOMAIN code'[b][i].pairs : Settled(code'[b][i].pairs[k][1])
  BY DEF OperandsAhead
<1>3. OperandsAhead(V)'
  BY <1>2, OnwardsOperands
<1> QED BY <1>1, <1>3

\* A store pushes a value that is settled.
LEMMA PushStoreWalk ==
  ASSUME SInv, NEW V, Walk(V), PushStore
  PROVE  Walk(V)'
<1> DEFINE c == [Frame EXCEPT !.at = @ + 1, !.wait_delete = @ \cup {Frame.at}]
           x == instr.var
<1>1. /\ Typed /\ Active /\ Working /\ instr.op = "store" /\ Advance({Frame.at})
      /\ fn' = fn /\ code' = code /\ phase' = phase
      /\ var_val_stack' = [var_val_stack EXCEPT ![x] = Append(@, instr.val)]
  BY DEF SInv, PushStore, Pushed
<1>2. code' \in [Block -> Seq(Instruction)] /\ \A b \in Block : Alike(code[b], code'[b])
  BY <1>1, AlikeSelf DEF Typed
<1>3. /\ Onwards(c) /\ c.at = Frame.at + 1 /\ c.bb = Frame.bb /\ c.filled = Frame.filled
      /\ c.wait_delete = Frame.wait_delete \cup {Frame.at} /\ c.next = Frame.next
      /\ Frame.at \in 1 .. Len(code[Frame.bb]) /\ code[Frame.bb] \in Seq(Instruction)
      /\ instr = code[Frame.bb][Frame.at] /\ instr \in Instruction
  BY <1>1, <1>2, AdvanceOnwards
<1> HIDE DEF c
<1>4. Queued'
  BY <1>1, <1>3, OnwardsQueued DEF Walk
<1>5. OperandsAhead(V)' /\ Paired(V)'
  <2>1. DOMAIN code[Frame.bb] = 1 .. Len(code[Frame.bb])
    BY <1>3, LenProperties
  <2> QED BY <1>1, <1>3, <2>1, SameCodeOperands DEF Walk
<1>6. ASSUME NEW y \in Var, NEW k \in 1 .. Len(var_val_stack'[y])
      PROVE  Settled(var_val_stack'[y][k])
  <2> DEFINE s == var_val_stack[y]
  <2>1. /\ s \in Seq(Value) /\ instr.val \in Value /\ Settled(instr.val)
        /\ \A i \in 1 .. Len(s) : Settled(s[i])
    BY <1>1, <1>3, InstructionFacts, OperandSettled DEF Typed, Walk, ValuesSettled
  <2>2. CASE y = x
    <3>1. var_val_stack'[y] = Append(s, instr.val)
      BY <1>1, <2>2 DEF Typed
    <3>2. /\ Len(Append(s, instr.val)) = Len(s) + 1 /\ Len(s) \in Nat
          /\ (\A i \in 1 .. Len(s) : Append(s, instr.val)[i] = s[i])
          /\ Append(s, instr.val)[Len(s) + 1] = instr.val
      BY <2>1, AppendFacts
    <3>3. k \in 1 .. Len(s) \/ k = Len(s) + 1
      BY <1>6, <3>1, <3>2
    <3> QED BY <2>1, <3>1, <3>2, <3>3
  <2>3. CASE y # x
    <3>1. var_val_stack'[y] = s
      BY <1>1, <2>3 DEF Typed
    <3> QED BY <1>6, <2>1, <3>1
  <2> QED BY <2>2, <2>3
<1> QED BY <1>3, <1>4, <1>5, <1>6, OnwardsWalk

\* What is skipped is no load, as every variable has a stack.
LEMMA SkipInstrWalk ==
  ASSUME SInv, StoredOnEntry, NEW V, Walk(V), SkipInstr
  PROVE  Walk(V)'
<1> DEFINE c == [Frame EXCEPT !.at = @ + 1, !.wait_delete = @ \cup {}]
<1>1. /\ Typed /\ Active /\ Working /\ Advance({})
      /\ fn' = fn /\ code' = code /\ phase' = phase /\ var_val_stack' = var_val_stack
      /\ instr.op \notin {"load", "store"} \/ (instr.op = "load" /\ instr.var \notin stacked)
  BY DEF SInv, SkipInstr
<1>2. instr.op \notin {"load", "store"}
  BY <1>1, LoadsStacked DEF Walk
<1>3. code' \in [Block -> Seq(Instruction)] /\ \A b \in Block : Alike(code[b], code'[b])
  BY <1>1, AlikeSelf DEF Typed
<1>4. /\ Onwards(c) /\ c.at = Frame.at + 1 /\ c.bb = Frame.bb /\ c.filled = Frame.filled
      /\ c.wait_delete = Frame.wait_delete \cup {} /\ c.next = Frame.next
      /\ Frame.at \in 1 .. Len(code[Frame.bb]) /\ code[Frame.bb] \in Seq(Instruction)
      /\ instr = code[Frame.bb][Frame.at]
  BY <1>1, <1>3, AdvanceOnwards
<1> HIDE DEF c
<1>5. Queued'
  BY <1>1, <1>2, <1>4, OnwardsQueued DEF Walk
<1>6. OperandsAhead(V)' /\ Paired(V)'
  <2>1. DOMAIN code[Frame.bb] = 1 .. Len(code[Frame.bb])
    BY <1>4, LenProperties
  <2> QED BY <1>1, <1>2, <1>4, <2>1, SameCodeOperands DEF Walk
<1>7. \A x \in Var : \A k \in 1 .. Len(var_val_stack'[x]) : Settled(var_val_stack'[x][k])
  BY <1>1 DEF Walk, ValuesSettled
<1> QED BY <1>4, <1>5, <1>6, <1>7, OnwardsWalk

\* A load is replaced by a value that is settled, and nothing names it any more.
LEMMA ReplaceLoadWalk ==
  ASSUME SInv, StoredOnEntry, NEW V, Walk(V), ReplaceLoad
  PROVE  phase' = "rename" /\ Walk(V)'
<1> DEFINE c == [Frame EXCEPT !.at = @ + 1, !.wait_delete = @ \cup {Frame.at}]
           s == var_val_stack[instr.var]
           new == Last(s)
           old == instr.id
<1>1. /\ Typed /\ Active /\ Working /\ instr.op = "load"
      /\ fn' = fn /\ var_val_stack' = var_val_stack
  BY DEF SInv, ReplaceLoad
<1>2. instr.var \in Var /\ s # << >>
  BY <1>1, LoadsStacked DEF Walk
<1>3. ReplaceAllUses(old, new) /\ Advance({Frame.at}) /\ phase' = phase
  BY <1>2 DEF ReplaceLoad
<1>4. new \in Value /\ Settled(new)
  <2>1. s \in Seq(Value)
    BY <1>1, <1>2 DEF Typed
  <2>2. Len(s) \in Nat \ {0} /\ new = s[Len(s)] /\ new \in Value
    BY <1>2, <2>1, FrontFacts
  <2>3. \A k \in 1 .. Len(s) : Settled(s[k])
    BY <1>2 DEF Walk, ValuesSettled
  <2> QED BY <2>2, <2>3
<1> HIDE DEF new
<1>5. /\ code' \in [Block -> Seq(Instruction)]
      /\ \A b \in Block : /\ Alike(code[b], code'[b])
                          /\ DOMAIN code'[b] = DOMAIN code[b]
                          /\ \A k \in DOMAIN code[b] : code'[b][k] = Substituted(code[b][k], old, new)
  BY <1>1, <1>3, <1>4, ReplaceAllUsesFacts
<1>6. /\ Onwards(c) /\ c.at = Frame.at + 1 /\ c.bb = Frame.bb /\ c.filled = Frame.filled
      /\ c.wait_delete = Frame.wait_delete \cup {Frame.at} /\ c.next = Frame.next
      /\ Frame.at \in 1 .. Len(code[Frame.bb]) /\ code[Frame.bb] \in Seq(Instruction)
      /\ instr = code[Frame.bb][Frame.at]
  BY <1>1, <1>3, <1>5, AdvanceOnwards
<1> HIDE DEF c
<1>7. Queued'
  BY <1>1, <1>6, OnwardsQueued DEF Walk
<1>8. ASSUME NEW b \in Block, NEW i \in DOMAIN code[b]
      PROVE  /\ code[b][i].op \in {"store", "use"} => code'[b][i].val = Subst(code[b][i].val, old, new)
             /\ code[b][i].op = "phi" =>
                  /\ DOMAIN code'[b][i].pairs = DOMAIN code[b][i].pairs
                  /\ \A k \in DOMAIN code[b][i].pairs :
                       /\ code'[b][i].pairs[k][1] = Subst(code[b][i].pairs[k][1], old, new)
                       /\ code'[b][i].pairs[k][2] = code[b][i].pairs[k][2]
  <2> DEFINE is == code[b][i]
             js == code'[b][i]
  <2>1. js = Substituted(is, old, new)
    BY <1>5
  <2>2. is \in Instruction
    <3>1. code[b] \in Seq(Instruction)
      BY <1>1 DEF Typed
    <3> QED BY <3>1, ElementOfSeq, LenProperties
  <2> HIDE DEF is, js
  <2>3. /\ js \in Instruction /\ js.op = is.op
        /\ is.op \in {"store", "use"} => js.val = Subst(is.val, old, new)
        /\ is.op = "phi" =>
             /\ Len(js.pairs) = Len(is.pairs)
             /\ \A k \in 1 .. Len(is.pairs) : /\ js.pairs[k][1] = Subst(is.pairs[k][1], old, new)
                                              /\ js.pairs[k][2] = is.pairs[k][2]
    BY <1>4, <2>1, <2>2, SubstitutedFacts
  <2>4. is.op = "phi" => /\ DOMAIN is.pairs = 1 .. Len(is.pairs)
                         /\ DOMAIN js.pairs = 1 .. Len(js.pairs)
    <3> SUFFICES ASSUME is.op = "phi"
                 PROVE  /\ DOMAIN is.pairs = 1 .. Len(is.pairs)
                        /\ DOMAIN js.pairs = 1 .. Len(js.pairs)
      OBVIOUS
    <3>1. is.pairs \in Seq(Value \X Block) /\ js.pairs \in Seq(Value \X Block)
      BY <2>2, <2>3, InstructionFacts
    <3> QED BY <3>1, LenProperties
  <2>5. is.op = "phi" =>
          /\ DOMAIN js.pairs = DOMAIN is.pairs
          /\ \A k \in DOMAIN is.pairs : /\ js.pairs[k][1] = Subst(is.pairs[k][1], old, new)
                                        /\ js.pairs[k][2] = is.pairs[k][2]
    BY <2>3, <2>4
  <2> QED BY <2>3, <2>5 DEF is, js
<1>9. Paired(V)'
  BY <1>1, <1>6, <1>8, OnwardsPaired DEF Walk, Is
<1>10. \A v : Settled(v) => Settled(Subst(v, old, new))
  BY <1>4 DEF Subst
<1>11. \A v : v = old => Settled(Subst(v, old, new))
  BY <1>4 DEF Subst
<1>12. \A v : v # old => Subst(v, old, new) = v
  BY DEF Subst
<1>13. ASSUME NEW b \in Block, NEW i \in DOMAIN code[b]
       PROVE  /\ code[b][i].op \in {"store", "use"} =>
                   \/ Settled(code'[b][i].val)
                   \/ code'[b][i].val = code[b][i].val /\ code[b][i].val # old
              /\ code[b][i].op = "phi" =>
                   \A k \in DOMAIN code'[b][i].pairs : Settled(code'[b][i].pairs[k][1])
  <2>1. code[b][i].op = "phi" => \A k \in DOMAIN code[b][i].pairs : Settled(code[b][i].pairs[k][1])
    BY DEF Walk, OperandsAhead
  <2>2. code[b][i].op = "phi" =>
                   \A k \in DOMAIN code'[b][i].pairs : Settled(code'[b][i].pairs[k][1])
    BY <1>8, <1>10, <2>1
  <2>3. code[b][i].op \in {"store", "use"} =>
                   \/ Settled(code'[b][i].val)
                   \/ code'[b][i].val = code[b][i].val /\ code[b][i].val # old
    BY <1>8, <1>11, <1>12
  <2> QED BY <2>2, <2>3
<1>14. OperandsAhead(V)'
  <2>1. DOMAIN code[Frame.bb] = 1 .. Len(code[Frame.bb])
    BY <1>6, LenProperties
  <2>2. old = code[Frame.bb][Frame.at].id
    BY <1>6
  <2> HIDE DEF old
  <2> QED BY <1>1, <1>6, <1>13, <2>1, <2>2, OnwardsOperands DEF Walk
<1>15. \A x \in Var : \A k \in 1 .. Len(var_val_stack'[x]) : Settled(var_val_stack'[x][k])
  BY <1>1 DEF Walk, ValuesSettled
<1>16. Walk(V)'
  BY <1>6, <1>7, <1>9, <1>14, <1>15, OnwardsWalk
<1> QED BY <1>1, <1>3, <1>16 DEF Working, Renaming

\* A pair more, for a predecessor that had none.
LEMMA FromEachMore ==
  ASSUME NEW T, NEW ps \in Seq(T), NEW S, FromEach(ps, S), NEW pair \in T, pair[2] \notin S
  PROVE  FromEach(Append(ps, pair), S \cup {pair[2]})
<1> DEFINE qs == Append(ps, pair)
           n == Len(ps)
<1>1. /\ n \in Nat /\ DOMAIN ps = 1 .. n /\ DOMAIN qs = 1 .. n + 1
      /\ \A i \in 1 .. n : qs[i] = ps[i]
      /\ qs[n + 1] = pair
  BY AppendFacts
<1>2. /\ \A k \in 1 .. n : ps[k][2] \in S
      /\ \A s \in S : \E k \in 1 .. n : ps[k][2] = s
      /\ \A k, l \in 1 .. n : ps[k][2] = ps[l][2] => k = l
  BY <1>1 DEF FromEach
<1> HIDE DEF qs, n
<1>3. \A k \in 1 .. n + 1 : k \in 1 .. n \/ k = n + 1
  BY <1>1
<1>4. \A k \in 1 .. n : k \in 1 .. n + 1
  BY <1>1
<1>5. n + 1 \in 1 .. n + 1
  BY <1>1
<1>6. \A k \in 1 .. n + 1 : qs[k][2] \in S \cup {pair[2]}
  BY <1>1, <1>2, <1>3
<1>7. \A s \in S \cup {pair[2]} : \E k \in 1 .. n + 1 : qs[k][2] = s
  BY <1>1, <1>2, <1>4, <1>5
<1>8. ASSUME NEW k \in 1 .. n + 1, NEW l \in 1 .. n + 1, qs[k][2] = qs[l][2] PROVE k = l
  <2>1. CASE k \in 1 .. n /\ l \in 1 .. n
    BY <1>1, <1>2, <1>8, <2>1
  <2>2. CASE k = n + 1 /\ l \in 1 .. n
    BY <1>1, <1>2, <1>8, <2>2
  <2>3. CASE k \in 1 .. n /\ l = n + 1
    BY <1>1, <1>2, <1>8, <2>3
  <2> QED BY <1>3, <2>1, <2>2, <2>3
<1>9. FromEach(qs, S \cup {pair[2]})
  BY <1>1, <1>6, <1>7, <1>8 DEF FromEach
<1> QED BY <1>9 DEF qs

\* When an activation is through with its block, every variable has a value.
LEMMA ThroughStacked ==
  ASSUME SInv, StoredOnEntry, EntryKept, Renaming, ~ Working, NEW x \in Var
  PROVE  x \in stacked /\ var_val_stack[x] # << >>
<1> DEFINE n == Len(calls)
<1>1. Typed /\ Active /\ calls # << >>
  BY DEF SInv, Renaming
<1>2. /\ n \in Nat \ {0} /\ Frame = calls[n] /\ Frame \in Activation /\ FrameFits(Frame)
      /\ Len(code[Frame.bb]) \in Nat /\ calls[1].bb = Entry
  BY <1>1, FrameIs DEF Active
<1>3. calls[1].at = Len(code[Entry]) + 1
  <2>1. CASE n = 1
    <3>1. ~ Frame.at <= Len(code[Frame.bb]) /\ Frame.at <= Len(code[Frame.bb]) + 1 /\ Frame.at \in Nat
      BY <1>2 DEF Working, FrameFits, Activation
    <3> QED BY <1>2, <2>1, <3>1
  <2>2. CASE n # 1
    <3> HIDE DEF n
    <3>1. 1 \in 1 .. n /\ 1 # n
      BY <1>2, <2>2
    <3> QED BY <1>1, <1>2, <3>1, Apart DEF n
  <2> QED BY <2>1, <2>2
<1> QED BY <1>1, <1>3, EntryStores

\* The phis of the successors get a settled value for this block, once.
LEMMA FillPhisWalk ==
  ASSUME SInv, StoredOnEntry, NEW V, Walk(V), FillPhis
  PROVE  phase' = "rename" /\ Walk(V)'
<1> DEFINE c == [Frame EXCEPT !.filled = TRUE]
           bb == Frame.bb
<1>1. /\ Typed /\ Active /\ Renaming /\ ~ Working /\ fn' = fn /\ fn \in Functions
      /\ var_val_stack' = var_val_stack /\ phase = "rename"
  BY DEF SInv, FillPhis, Typed, Renaming
<1>2. \A x \in Var : x \in stacked /\ var_val_stack[x] # << >>
  BY <1>1, ThroughStacked DEF Walk
<1>3. phase' = "rename"
  <2>1. \A s \in ToSet(fn.succ[bb]) : \A k \in Is("phi", code[s]) :
          code[s][k].var \in stacked => var_val_stack[code[s][k].var] # << >>
    BY <1>1, <1>2 DEF Typed
  <2> QED BY <1>1, <2>1 DEF FillPhis
<1>4. /\ Onwards(c) /\ c.at = Frame.at /\ c.bb = bb /\ c.filled /\ ~ Frame.filled
      /\ c.wait_delete = Frame.wait_delete /\ c.next = Frame.next
      /\ \A b \in Block : code'[b] = IF b \in ToSet(fn.succ[bb]) THEN FilledBlock(code[b])
                                     ELSE code[b]
      /\ \A b \in ToSet(fn.succ[bb]) : \A k \in Is("phi", code[b]) :
           code[b][k].var \in stacked => var_val_stack[code[b][k].var] # << >>
  BY <1>3, FillPhisFacts
<1> HIDE DEF c
<1>5. /\ Len(calls) \in Nat \ {0} /\ Len(calls') = Len(calls) /\ calls # << >>
      /\ calls'[Len(calls)] = c /\ Frame = calls[Len(calls)] /\ bb \in Block
      /\ \A k \in 1 .. Len(calls) : /\ calls'[k].bb = calls[k].bb
                                    /\ k # Len(calls) => calls'[k] = calls[k]
      /\ Block' = Block /\ Edges' = Edges
      /\ \A b \in Block : DOMAIN code'[b] = DOMAIN code[b] /\ DOMAIN code[b] = 1 .. Len(code[b])
  BY <1>1, <1>4, OnwardsFields
<1>6. Frame \in Activation
  BY <1>1, <1>5, FrameIs
<1>7. Queued'
  BY <1>1, <1>4, OnwardsQueued DEF Walk
<1>8. ASSUME NEW b \in ToSet(fn.succ[bb]), NEW k \in DOMAIN code[b]
      PROVE  IF code[b][k].op = "phi"
             THEN \E v \in Value : /\ Settled(v) /\ code[b][k].pairs \in Seq(Value \X Block)
                                   /\ code'[b][k].pairs = Append(code[b][k].pairs, <<v, bb>>)
             ELSE code'[b][k] = code[b][k]
  <2>1. b \in Block
    BY <1>1, <1>5, Graph
  <2> DEFINE is == code[b]
             js == FilledBlock(is)
             s == var_val_stack[is[k].var]
  <2>2. code'[b] = js /\ is \in Seq(Instruction)
    BY <1>1, <1>4, <2>1 DEF Typed
  <2>3. \A l \in DOMAIN is :
          /\ is[l].op = "phi" /\ is[l].var \in stacked =>
               LET v == Last(var_val_stack[is[l].var])
               IN  /\ v \in Value /\ var_val_stack[is[l].var] \in Seq(Value)
                   /\ var_val_stack[is[l].var] # << >>
                   /\ is[l].pairs \in Seq(Value \X Block)
                   /\ js[l].pairs = Append(is[l].pairs, <<v, bb>>)
          /\ is[l].op # "phi" \/ is[l].var \notin stacked => js[l] = is[l]
    BY <1>1, <1>4, <1>5, <1>6, <2>1, FilledFacts
  <2> HIDE DEF js
  <2>4. CASE is[k].op = "phi"
    <3>1. is[k].var \in Var
      BY <2>2, <2>4, ElementOfSeq, LenProperties, InstructionFacts
    <3>2. /\ Last(s) \in Value /\ s \in Seq(Value) /\ s # << >>
          /\ is[k].pairs \in Seq(Value \X Block) /\ js[k].pairs = Append(is[k].pairs, <<Last(s), bb>>)
      BY <1>2, <2>3, <2>4, <3>1
    <3>3. Len(s) \in Nat \ {0} /\ Last(s) = s[Len(s)]
      BY <3>2, FrontFacts
    <3>4. Settled(Last(s))
      BY <3>1, <3>3 DEF Walk, ValuesSettled
    <3> QED BY <2>2, <2>4, <3>2, <3>4
  <2>5. CASE is[k].op # "phi"
    BY <2>2, <2>3, <2>5
  <2> QED BY <2>4, <2>5
<1>9. FilledIn(V)' = FilledIn(V) \cup {bb} /\ bb \notin FilledIn(V)
  <2>1. bb \in V
    BY <1>5 DEF Walk, Visits
  <2>2. \A k \in 1 .. Len(calls) : calls[k].bb = bb <=> k = Len(calls)
    <3>1. Len(calls) \in 1 .. Len(calls)
      BY <1>5
    <3> QED BY <1>1, <1>5, <3>1, Apart
  <2>3. \A k \in 1 .. Len(calls) : calls'[k].filled <=> calls[k].filled \/ k = Len(calls)
    BY <1>4, <1>5
  <2>4. bb \notin FilledIn(V)
    <3>1. Len(calls) \in 1 .. Len(calls)
      BY <1>5
    <3> QED BY <1>4, <1>5, <3>1 DEF FilledIn
  <2>5. \A b \in V : b \in FilledIn(V)' <=> b \in FilledIn(V) \/ b = bb
    BY <1>5, <2>2, <2>3 DEF FilledIn
  <2>6. FilledIn(V) \subseteq V /\ FilledIn(V)' \subseteq V
    BY DEF FilledIn
  <2> QED BY <2>1, <2>4, <2>5, <2>6
<1>10. Paired(V)'
  <2>1. ASSUME NEW b \in Block, NEW i \in Is("phi", code'[b])
        PROVE  FromEach(code'[b][i].pairs, {a \in FilledIn(V)' : <<a, b>> \in Edges})
    <3> DEFINE S == {a \in FilledIn(V) : <<a, b>> \in Edges}
               ps == code[b][i].pairs
    <3>1. i \in DOMAIN code[b] /\ code[b][i].op = "phi"
      BY <1>4, <1>5, OnwardsFields DEF Is, Onwards, Alike
    <3>2. FromEach(ps, S) /\ bb \notin S
      BY <1>9, <3>1 DEF Walk, Paired, Is
    <3>3. CASE b \in ToSet(fn.succ[bb])
      <4>1. PICK v \in Value : /\ ps \in Seq(Value \X Block)
                               /\ code'[b][i].pairs = Append(ps, <<v, bb>>)
        BY <1>8, <3>1, <3>3
      <4>2. <<v, bb>> \in Value \X Block /\ <<v, bb>>[2] = bb
        BY <1>5
      <4>3. {a \in FilledIn(V)' : <<a, b>> \in Edges} = S \cup {bb}
        BY <1>1, <1>5, <1>9, <3>3, Graph
      <4> HIDE DEF S, ps
      <4>4. FromEach(Append(ps, <<v, bb>>), S \cup {bb})
        <5> DEFINE pair == <<v, bb>>
        <5>1. pair \in Value \X Block /\ pair[2] = bb
          BY <4>2
        <5> HIDE DEF pair
        <5>2. FromEach(Append(ps, pair), S \cup {pair[2]})
          BY <3>2, <4>1, <5>1, FromEachMore
        <5> QED BY <5>1, <5>2 DEF pair
      <4> QED BY <4>1, <4>3, <4>4
    <3>4. CASE b \notin ToSet(fn.succ[bb])
      <4>1. code'[b] = code[b]
        BY <1>4, <3>4
      <4>2. {a \in FilledIn(V)' : <<a, b>> \in Edges} = S
        BY <1>1, <1>9, <3>4, Graph
      <4> QED BY <3>2, <4>1, <4>2
    <3> QED BY <3>3, <3>4
  <2> QED BY <1>5, <2>1 DEF Paired
<1>11. OperandsAhead(V)'
  <2>1. ASSUME NEW b \in Block, NEW i \in DOMAIN code[b]
        PROVE  /\ code[b][i].op \in {"store", "use"} => code'[b][i].val = code[b][i].val
               /\ code[b][i].op = "phi" =>
                    \A k \in DOMAIN code'[b][i].pairs : Settled(code'[b][i].pairs[k][1])
    <3>1. code[b][i].op = "phi" => \A k \in DOMAIN code[b][i].pairs : Settled(code[b][i].pairs[k][1])
      BY DEF Walk, OperandsAhead
    <3>2. CASE b \notin ToSet(fn.succ[bb]) \/ code[b][i].op # "phi"
      <4>1. code'[b][i] = code[b][i]
        BY <1>4, <1>8, <3>2
      <4> QED BY <3>1, <4>1
    <3>3. CASE b \in ToSet(fn.succ[bb]) /\ code[b][i].op = "phi"
      <4> DEFINE ps == code[b][i].pairs
                 qs == code'[b][i].pairs
      <4>1. PICK v \in Value : Settled(v) /\ ps \in Seq(Value \X Block) /\ qs = Append(ps, <<v, bb>>)
        BY <1>8, <3>3
      <4>2. \A k \in DOMAIN ps : Settled(ps[k][1])
        BY <3>1, <3>3
      <4> HIDE DEF ps, qs
      <4> DEFINE pair == <<v, bb>>
      <4>3. pair \in Value \X Block /\ pair[1] = v
        BY <1>5
      <4> HIDE DEF pair
      <4>4. /\ Len(ps) \in Nat /\ DOMAIN ps = 1 .. Len(ps) /\ DOMAIN qs = 1 .. Len(ps) + 1
            /\ \A k \in 1 .. Len(ps) : qs[k] = ps[k]
            /\ qs[Len(ps) + 1] = pair
        <5>1. qs = Append(ps, pair)
          BY <4>1 DEF pair
        <5> QED BY <4>1, <4>3, <5>1, AppendFacts
      <4>5. \A k \in DOMAIN qs : k \in DOMAIN ps \/ k = Len(ps) + 1
        BY <4>4
      <4>6. \A k \in DOMAIN qs : Settled(qs[k][1])
        BY <4>1, <4>2, <4>3, <4>4, <4>5
      <4> QED BY <3>3, <4>6 DEF qs
    <3> QED BY <3>2, <3>3
  <2> QED BY <1>1, <1>4, <2>1, OnwardsOperands DEF Walk
<1>12. \A x \in Var : \A k \in 1 .. Len(var_val_stack'[x]) : Settled(var_val_stack'[x][k])
  BY <1>1 DEF Walk, ValuesSettled
<1>13. Walk(V)'
  BY <1>4, <1>7, <1>10, <1>11, <1>12, OnwardsWalk
<1> QED BY <1>3, <1>13

\* A call pushes phis of its block, which are settled.
LEMMA CallValues ==
  ASSUME SInv, NEW b, NEW above, CallsFor(b, above), ValuesSettled
  PROVE  /\ \A v : Settled(v)' <=> Settled(v)
         /\ ValuesSettled'
<1> DEFINE joined == {code[b][i].var : i \in Is("phi", code[b])}
<1>1. /\ Typed /\ PhisDiffer /\ b \in Block /\ fn' = fn /\ code' = code
      /\ var_val_stack' = [x \in Var |-> IF x \in joined THEN Append(var_val_stack[x], Joined(b, x))
                                         ELSE var_val_stack[x]]
  BY DEF SInv, CallsFor, Call
<1>2. \A v : Settled(v)' <=> Settled(v)
  BY <1>1 DEF Settled, Block
<1>3. ASSUME NEW x \in Var, NEW k \in 1 .. Len(var_val_stack'[x])
      PROVE  Settled(var_val_stack'[x][k])
  <2> DEFINE s == var_val_stack[x]
             v == Joined(b, x)
  <2>1. s \in Seq(Value) /\ v \in Value /\ \A i \in 1 .. Len(s) : Settled(s[i])
    BY <1>1, JoinedIsValue DEF Typed, ValuesSettled
  <2>2. CASE x \in joined
    <3>1. Settled(v)
      <4>1. PICK i \in Is("phi", code[b]) : code[b][i].var = x
        BY <2>2
      <4>2. code[b][i].id = v
        BY <1>1, <4>1 DEF PhisDiffer
      <4> QED BY <1>1, <4>1, <4>2 DEF Settled
    <3>2. var_val_stack'[x] = Append(s, v)
      BY <1>1, <2>2
    <3> HIDE DEF v, s
    <3>3. /\ Len(Append(s, v)) = Len(s) + 1 /\ Len(s) \in Nat
          /\ (\A i \in 1 .. Len(s) : Append(s, v)[i] = s[i])
          /\ Append(s, v)[Len(s) + 1] = v
      BY <2>1, AppendFacts
    <3>4. k \in 1 .. Len(s) \/ k = Len(s) + 1
      BY <1>3, <3>2, <3>3
    <3> QED BY <2>1, <3>1, <3>2, <3>3, <3>4
  <2>3. CASE x \notin joined
    <3>1. var_val_stack'[x] = s
      BY <1>1, <2>3
    <3> QED BY <1>3, <2>1, <3>1
  <2> QED BY <2>2, <2>3
<1>4. ValuesSettled'
  BY <1>2, <1>3 DEF ValuesSettled
<1> QED BY <1>2, <1>4

\* The child that is called for joins the blocks visited; it has filled no phi yet.
LEMMA DescendWalk ==
  ASSUME SInv, NEW V, Walk(V), NEW c, Descend(c)
  PROVE  Walk(V \cup {c})'
<1> DEFINE n == Len(calls)
           above == Append(Front(calls), [Frame EXCEPT !.next = @ \ {c}])
           U == V \cup {c}
<1>1. /\ CallsFor(c, above) /\ c \in Frame.next /\ calls # << >> /\ Idom(Frame.bb, c)
      /\ n \in Nat \ {0} /\ Frame = calls[n] /\ phase = "rename"
      /\ (\A k \in 1 .. n - 1 : above[k] = calls[k])
      /\ above[n].next = Frame.next \ {c} /\ above[n].bb = Frame.bb
      /\ above[n].at = Frame.at /\ above[n].filled = Frame.filled
      /\ above[n].wait_delete = Frame.wait_delete
  BY DescendCalls
<1> HIDE DEF above
<1>2. /\ Typed /\ Active /\ fn \in Functions /\ fn' = fn /\ code' = code /\ Entry' = Entry
      /\ c \in Block
  BY <1>1 DEF SInv, Typed, CallsFor, Entry
<1>3. /\ Len(calls') = n + 1 /\ calls'[n + 1] = NewFrame(c) /\ (\A k \in 1 .. n : calls'[k] = above[k])
      /\ Block' = Block /\ Edges' = Edges /\ calls' # << >>
      /\ \A k \in 1 .. n : calls[k] \in Activation
  BY <1>1, <1>2, CallFrames
<1>4. /\ NewFrame(c).bb = c /\ NewFrame(c).at = 1 /\ ~ NewFrame(c).filled
      /\ \A b : b \in NewFrame(c).next <=> Idom(c, b)
  BY <1>2, Tree DEF NewFrame
<1> HIDE DEF n
<1>5. /\ n + 1 \in 1 .. n + 1 /\ n \in 1 .. n
      /\ \A k \in 1 .. n : k \in 1 .. n + 1
      /\ \A k \in 1 .. n + 1 : k \in 1 .. n \/ k = n + 1
      /\ \A k \in 1 .. n : k \in 1 .. n - 1 \/ k = n
  BY <1>1
<1>6. \A k \in 1 .. n : /\ calls'[k].bb = calls[k].bb /\ calls'[k].at = calls[k].at
                        /\ calls'[k].filled = calls[k].filled
                        /\ calls'[k].wait_delete = calls[k].wait_delete
                        /\ calls'[k].next = IF k = n THEN calls[k].next \ {c} ELSE calls[k].next
  <2> TAKE k \in 1 .. n
  <2>1. CASE k = n
    BY <1>1, <1>3, <2>1
  <2>2. CASE k \in 1 .. n - 1 /\ k # n
    BY <1>1, <1>3, <2>2
  <2> QED BY <1>5, <2>1, <2>2
<1>7. /\ V \subseteq Block /\ Entry \in V
      /\ \A k \in 1 .. n : calls[k].bb \in V /\ calls[k].next \cap V = {}
      /\ \A a, b : Idom(a, b) =>
           /\ b \in V => a \in V
           /\ a \in V /\ b \notin V => \E k \in 1 .. n : calls[k].bb = a /\ b \in calls[k].next
  BY DEF Walk, Visits, n
<1>8. c \notin V /\ Frame.bb \in V
  BY <1>1, <1>5, <1>7
<1>9. \A a, b : Idom(a, b)' <=> Idom(a, b)
  BY <1>2, <1>3 DEF Idom
<1>10. \A b : IsActive(b)' <=> IsActive(b) \/ b = c
  <2> TAKE b
  <2>1. IsActive(b)' <=> \E k \in 1 .. n + 1 : calls'[k].bb = b
    BY <1>3 DEF IsActive
  <2>2. IsActive(b) <=> \E k \in 1 .. n : calls[k].bb = b
    BY DEF IsActive, n
  <2> QED BY <1>3, <1>4, <1>5, <1>6, <2>1, <2>2
<1>11. Visits(U)'
  <2>1. ASSUME NEW k \in 1 .. n + 1 PROVE calls'[k].bb \in U /\ calls'[k].next \cap U = {}
    <3>1. CASE k = n + 1
      <4>1. \A b : Idom(c, b) => b # c /\ b \notin V
        BY <1>2, <1>7, <1>8, IdomIs
      <4> QED BY <1>3, <1>4, <3>1, <4>1
    <3>2. CASE k \in 1 .. n
      <4>1. c \notin calls'[k].next
        <5>1. CASE k = n
          BY <1>6, <5>1, <3>2
        <5>2. CASE k # n
          <6>1. c \in calls[k].next => Idom(calls[k].bb, c)
            BY <1>2, <3>2 DEF Active, FrameFits, n
          <6>2. c \in calls[k].next => calls[k].bb = Frame.bb
            BY <1>1, <1>2, <6>1, IdomIs
          <6>3. calls[k].bb # calls[n].bb
            BY <1>2, <1>5, <3>2, <5>2, Apart DEF n
          <6> QED BY <1>1, <1>6, <3>2, <5>2, <6>2, <6>3
        <5> QED BY <5>1, <5>2
      <4>2. calls'[k].next \subseteq calls[k].next
        BY <1>6, <3>2
      <4>3. calls'[k].bb \in V /\ calls'[k].next \cap V = {}
        BY <1>6, <1>7, <3>2, <4>2
      <4> QED BY <4>1, <4>3
    <3> QED BY <1>5, <3>1, <3>2
  <2>2. ASSUME NEW a, NEW b, Idom(a, b)
        PROVE  /\ b \in U => a \in U
               /\ a \in U /\ b \notin U => \E k \in 1 .. n + 1 : calls'[k].bb = a /\ b \in calls'[k].next
    <3>1. b = c => a = Frame.bb
      BY <1>1, <1>2, <2>2, IdomIs
    <3>2. b \in U => a \in U
      BY <1>7, <1>8, <2>2, <3>1
    <3>3. ASSUME a \in U, b \notin U
          PROVE  \E k \in 1 .. n + 1 : calls'[k].bb = a /\ b \in calls'[k].next
      <4>1. CASE a = c
        BY <1>3, <1>4, <1>5, <2>2, <4>1
      <4>2. CASE a \in V
        <5>1. PICK k \in 1 .. n : calls[k].bb = a /\ b \in calls[k].next
          BY <1>7, <2>2, <3>3, <4>2
        <5>2. calls'[k].bb = a /\ b \in calls'[k].next
          BY <1>6, <3>3, <5>1
        <5> QED BY <1>5, <5>1, <5>2
      <4> QED BY <3>3, <4>1, <4>2
    <3> QED BY <3>2, <3>3
  <2>3. U \subseteq Block /\ Entry \in U
    BY <1>2, <1>7
  <2> HIDE DEF U
  <2> QED BY <1>2, <1>3, <1>9, <2>1, <2>2, <2>3 DEF Visits
<1>12. Queued'
  <2>1. ASSUME NEW k \in 1 .. n + 1, NEW i \in 1 .. calls'[k].at - 1
        PROVE  i \in calls'[k].wait_delete <=> code[calls'[k].bb][i].op \in {"load", "store"}
    <3>1. CASE k \in 1 .. n
      <4>1. i \in 1 .. calls[k].at - 1
        BY <1>6, <2>1, <3>1
      <4> QED BY <1>6, <3>1, <4>1 DEF Walk, Queued, n
    <3>2. CASE k = n + 1
      BY <1>3, <1>4, <2>1, <3>2
    <3> QED BY <1>5, <3>1, <3>2
  <2> QED BY <1>2, <1>3, <2>1 DEF Queued
<1>13. Deleted(U)'
  <2>1. \A b \in V : ~ IsActive(b) => \A i \in DOMAIN code[b] : code[b][i].op \notin {"load", "store"}
    BY DEF Walk, Deleted
  <2> QED BY <1>2, <1>10, <2>1 DEF Deleted
<1>14. FilledIn(U)' = FilledIn(V)
  <2> DEFINE Now(b) == \A k \in 1 .. n + 1 : calls'[k].bb = b => calls'[k].filled
             Then(b) == \A k \in 1 .. n : calls[k].bb = b => calls[k].filled
  <2>1. FilledIn(U)' = {b \in U : Now(b)}
    BY <1>3 DEF FilledIn
  <2>2. FilledIn(V) = {b \in V : Then(b)}
    BY DEF FilledIn, n
  <2>3. ~ Now(c)
    BY <1>3, <1>4, <1>5
  <2>4. ASSUME NEW b \in V PROVE Now(b) <=> Then(b)
    <3>1. calls'[n + 1].bb # b
      BY <1>3, <1>4, <1>8, <2>4
    <3> QED BY <1>5, <1>6, <3>1
  <2> HIDE DEF Now, Then
  <2> QED BY <2>1, <2>2, <2>3, <2>4
<1>15. Paired(U)'
  <2>1. \A b \in Block : \A i \in Is("phi", code[b]) :
          FromEach(code[b][i].pairs, {a \in FilledIn(V) : <<a, b>> \in Edges})
    BY DEF Walk, Paired
  <2> QED BY <1>2, <1>3, <1>14, <2>1 DEF Paired
<1>16. /\ \A v : Settled(v)' <=> Settled(v)
       /\ ValuesSettled'
  BY <1>1, CallValues DEF Walk
<1>17. ASSUME NEW d, NEW j, Ahead(V, d, j) PROVE Ahead(U, d, j)'
  <2>1. /\ d \in Block /\ j \in DOMAIN code[d] /\ code[d][j].op = "load"
        /\ d \in V => \E k \in 1 .. n : calls[k].bb = d /\ calls[k].at <= j
    BY <1>17 DEF Ahead, n
  <2>2. ASSUME d \in U PROVE \E k \in 1 .. n + 1 : calls'[k].bb = d /\ calls'[k].at <= j
    <3>1. CASE d = c
      <4>1. DOMAIN code[d] = 1 .. Len(code[d]) /\ Len(code[d]) \in Nat
        BY <1>2, <2>1, LenProperties DEF Typed
      <4>2. 1 <= j
        BY <2>1, <4>1
      <4> QED BY <1>3, <1>4, <1>5, <3>1, <4>2
    <3>2. CASE d \in V
      <4>1. PICK k \in 1 .. n : calls[k].bb = d /\ calls[k].at <= j
        BY <2>1, <3>2
      <4> QED BY <1>5, <1>6, <4>1
    <3> QED BY <2>2, <3>1, <3>2
  <2> HIDE DEF U
  <2> QED BY <1>2, <1>3, <2>1, <2>2 DEF Ahead
<1>18. ASSUME NEW b, NEW i, NEW v, LoadedBefore(V, b, i, v) PROVE LoadedBefore(U, b, i, v)'
  <2>1. PICK d, j : /\ Ahead(V, d, j) /\ code[d][j].id = v
                    /\ (IF d = b THEN j < i ELSE Doms(d, b))
    BY <1>18 DEF LoadedBefore
  <2>2. Ahead(U, d, j)' /\ (Doms(d, b)' <=> Doms(d, b))
    BY <1>2, <1>3, <1>17, <2>1 DEF Doms
  <2> HIDE DEF U
  <2> QED BY <1>2, <2>1, <2>2 DEF LoadedBefore
<1>19. OperandsAhead(U)'
  <2>1. \A b \in Block : \A i \in DOMAIN code[b] :
          /\ code[b][i].op \in {"store", "use"} =>
               Settled(code[b][i].val) \/ LoadedBefore(V, b, i, code[b][i].val)
          /\ code[b][i].op = "phi" => \A k \in DOMAIN code[b][i].pairs : Settled(code[b][i].pairs[k][1])
    BY DEF Walk, OperandsAhead
  <2> HIDE DEF U
  <2> QED BY <1>2, <1>3, <1>16, <1>18, <2>1 DEF OperandsAhead
<1>20. EntryKept'
  <2>1. PICK m : KeptAt(m)
    BY <1>1 DEF Walk, EntryKept
  <2>2. KeptAt(m)'
    BY <1>2, <2>1 DEF KeptAt
  <2> QED BY <2>2 DEF EntryKept
<1> QED BY <1>11, <1>12, <1>13, <1>15, <1>16, <1>19, <1>20 DEF Walk

\* What is deleted when an activation ends are the loads and stores of its block.
LEMMA LeaveWalk ==
  ASSUME SInv, NEW V, Walk(V), Leave
  PROVE  Walk(V)'
<1> DEFINE n == Len(calls)
           bb == Frame.bb
<1>1. Typed /\ Active /\ fn \in Functions
  BY DEF SInv, Typed
<1>2. /\ calls # << >> /\ n \in Nat \ {0} /\ Frame = calls[n]
      /\ bb \in Block /\ Frame.filled /\ Frame.next = {} /\ fn' = fn
      /\ code[bb] \in Seq(Instruction) /\ Frame.at = Len(code[bb]) + 1
      /\ (\A b \in Block \ {bb} : code'[b] = code[b])
      /\ ToSet(code'[bb]) = {code[bb][i] : i \in DOMAIN code[bb] \ Frame.wait_delete}
      /\ calls' \in Seq(Activation) /\ Len(calls') = n - 1
      /\ \A k \in 1 .. n - 1 : /\ calls'[k] = calls[k] /\ calls[k].bb \in Block
                               /\ calls[k].bb # bb
  BY LeaveFacts
<1>3. Block' = Block /\ Edges' = Edges /\ Entry' = Entry
  BY <1>2, SameTypes DEF Entry
<1>4. DOMAIN code[bb] = 1 .. Len(code[bb]) /\ Len(code[bb]) \in Nat
  BY <1>2, LenProperties
<1> HIDE DEF n, bb
<1>5. /\ n \in 1 .. n
      /\ \A k \in 1 .. n - 1 : k \in 1 .. n
      /\ \A k \in 1 .. n : k # n => k \in 1 .. n - 1
  BY <1>2
<1>6. /\ V \subseteq Block /\ Entry \in V
      /\ \A k \in 1 .. n : calls[k].bb \in V /\ calls[k].next \cap V = {}
      /\ \A a, b : Idom(a, b) =>
           /\ b \in V => a \in V
           /\ a \in V /\ b \notin V => \E k \in 1 .. n : calls[k].bb = a /\ b \in calls[k].next
  BY DEF Walk, Visits, n
<1>7. \A i \in DOMAIN code[bb] : i \in Frame.wait_delete <=> code[bb][i].op \in {"load", "store"}
  <2>1. \A i \in 1 .. calls[n].at - 1 :
          i \in calls[n].wait_delete <=> code[calls[n].bb][i].op \in {"load", "store"}
    BY <1>5 DEF Walk, Queued, n
  <2>2. \A i \in DOMAIN code[bb] : i \in 1 .. calls[n].at - 1
    BY <1>2, <1>4
  <2> QED BY <1>2, <2>1, <2>2 DEF bb
<1>8. /\ \A i \in DOMAIN code'[bb] : \E p \in DOMAIN code[bb] :
           code'[bb][i] = code[bb][p] /\ code[bb][p].op \notin {"load", "store"}
      /\ \A p \in DOMAIN code[bb] : code[bb][p].op \notin {"load", "store"} =>
           \E i \in DOMAIN code'[bb] : code'[bb][i] = code[bb][p]
  <2>1. ToSet(code'[bb]) = {code'[bb][i] : i \in DOMAIN code'[bb]}
    BY DEF ToSet
  <2>2. ASSUME NEW i \in DOMAIN code'[bb]
        PROVE  \E p \in DOMAIN code[bb] :
                 code'[bb][i] = code[bb][p] /\ code[bb][p].op \notin {"load", "store"}
    <3>1. code'[bb][i] \in {code[bb][p] : p \in DOMAIN code[bb] \ Frame.wait_delete}
      BY <1>2, <2>1
    <3>2. PICK p \in DOMAIN code[bb] \ Frame.wait_delete : code'[bb][i] = code[bb][p]
      BY <3>1
    <3> QED BY <1>7, <3>2
  <2>3. ASSUME NEW p \in DOMAIN code[bb], code[bb][p].op \notin {"load", "store"}
        PROVE  \E i \in DOMAIN code'[bb] : code'[bb][i] = code[bb][p]
    <3>1. code[bb][p] \in ToSet(code'[bb])
      BY <1>2, <1>7, <2>3
    <3> QED BY <2>1, <3>1
  <2> QED BY <2>2, <2>3
<1>9. \A a, b : Idom(a, b)' <=> Idom(a, b)
  BY <1>3 DEF Idom
<1>10. Visits(V)'
  <2>1. \A k \in 1 .. n - 1 : calls'[k].bb \in V /\ calls'[k].next \cap V = {}
    BY <1>2, <1>5, <1>6
  <2>2. ASSUME NEW a, NEW b, Idom(a, b), a \in V, b \notin V
        PROVE  \E k \in 1 .. n - 1 : calls'[k].bb = a /\ b \in calls'[k].next
    <3>1. PICK k \in 1 .. n : calls[k].bb = a /\ b \in calls[k].next
      BY <1>6, <2>2
    <3>2. k # n
      BY <1>2, <3>1
    <3> QED BY <1>2, <1>5, <3>1, <3>2
  <2> QED BY <1>2, <1>3, <1>6, <1>9, <2>1, <2>2 DEF Visits
<1>11. Queued'
  <2>1. ASSUME NEW k \in 1 .. n - 1, NEW i \in 1 .. calls[k].at - 1
        PROVE  i \in calls[k].wait_delete <=> code'[calls[k].bb][i].op \in {"load", "store"}
    <3>1. code'[calls[k].bb] = code[calls[k].bb]
      BY <1>2
    <3> QED BY <1>5, <3>1 DEF Walk, Queued, n
  <2> QED BY <1>2, <2>1 DEF Queued
<1>12. \A b : IsActive(b)' <=> IsActive(b) /\ b # bb
  <2> TAKE b
  <2>1. IsActive(b)' <=> \E k \in 1 .. n - 1 : calls[k].bb = b
    BY <1>2 DEF IsActive
  <2>2. IsActive(b) <=> \E k \in 1 .. n : calls[k].bb = b
    BY DEF IsActive, n
  <2>3. calls[n].bb = bb
    BY <1>2 DEF bb
  <2> QED BY <1>2, <1>5, <2>1, <2>2, <2>3
<1>13. Deleted(V)'
  <2>1. ASSUME NEW b \in V, b # bb, ~ IsActive(b), NEW i \in DOMAIN code'[b]
        PROVE  code'[b][i].op \notin {"load", "store"}
    BY <1>2, <1>6, <2>1 DEF Walk, Deleted
  <2>2. ASSUME NEW i \in DOMAIN code'[bb] PROVE code'[bb][i].op \notin {"load", "store"}
    BY <1>8
  <2> QED BY <1>12, <2>1, <2>2 DEF Deleted
<1>14. FilledIn(V)' = FilledIn(V)
  <2> DEFINE Now(b) == \A k \in 1 .. n - 1 : calls[k].bb = b => calls[k].filled
             Then(b) == \A k \in 1 .. n : calls[k].bb = b => calls[k].filled
  <2>1. FilledIn(V)' = {b \in V : Now(b)}
    BY <1>2 DEF FilledIn
  <2>2. FilledIn(V) = {b \in V : Then(b)}
    BY DEF FilledIn, n
  <2>3. ASSUME NEW b PROVE Now(b) <=> Then(b)
    <3>1. calls[n].filled
      BY <1>2
    <3> QED BY <1>5, <3>1
  <2> HIDE DEF Now, Then
  <2> QED BY <2>1, <2>2, <2>3
<1>15. \A b \in Block : \A i \in Is("phi", code'[b]) : \E p \in Is("phi", code[b]) :
          code'[b][i] = code[b][p]
  <2> TAKE b \in Block
  <2> TAKE i \in Is("phi", code'[b])
  <2>1. CASE b = bb
    BY <1>8, <2>1 DEF Is
  <2>2. CASE b # bb
    BY <1>2, <2>2
  <2> QED BY <2>1, <2>2
<1>16. Paired(V)'
  <2>1. \A b \in Block : \A i \in Is("phi", code[b]) :
          FromEach(code[b][i].pairs, {a \in FilledIn(V) : <<a, b>> \in Edges})
    BY DEF Walk, Paired
  <2>2. \A b \in Block : \A i \in Is("phi", code'[b]) :
          FromEach(code'[b][i].pairs, {a \in FilledIn(V) : <<a, b>> \in Edges})
    BY <1>15, <2>1
  <2> QED BY <1>3, <1>14, <2>2 DEF Paired
<1>17. \A v : Settled(v) => Settled(v)'
  <2> SUFFICES ASSUME NEW v, NEW b \in Block, NEW p \in Is("phi", code[b]), code[b][p].id = v
               PROVE  \E d \in Block : \E j \in Is("phi", code'[d]) : code'[d][j].id = v
    BY <1>3 DEF Settled
  <2>1. p \in DOMAIN code[b] /\ code[b][p].op = "phi"
    BY DEF Is
  <2>2. CASE b = bb
    <3>1. PICK i \in DOMAIN code'[bb] : code'[bb][i] = code[bb][p]
      BY <1>8, <2>1, <2>2
    <3> QED BY <2>1, <2>2, <3>1 DEF Is
  <2>3. CASE b # bb
    BY <1>2, <2>3
  <2> QED BY <2>2, <2>3
<1>18. ASSUME NEW d, NEW j, Ahead(V, d, j) PROVE d # bb /\ Ahead(V, d, j)'
  <2>1. /\ d \in Block /\ j \in DOMAIN code[d] /\ code[d][j].op = "load"
        /\ d \in V => \E k \in 1 .. n : calls[k].bb = d /\ calls[k].at <= j
    BY <1>18 DEF Ahead, n
  <2>2. d # bb
    <3> SUFFICES ASSUME d = bb PROVE FALSE
      OBVIOUS
    <3>1. calls[n].bb = bb /\ bb \in V
      BY <1>2, <1>5, <1>6 DEF bb
    <3>2. PICK k \in 1 .. n : calls[k].bb = bb /\ calls[k].at <= j
      BY <2>1, <3>1
    <3>3. k = n
      BY <1>1, <1>5, <3>1, <3>2, Apart DEF n
    <3>4. j \in 1 .. Len(code[bb]) /\ Len(code[bb]) + 1 <= j
      BY <1>2, <1>4, <2>1, <3>2, <3>3
    <3> QED BY <1>4, <3>4
  <2>3. code'[d] = code[d]
    BY <1>2, <2>1, <2>2
  <2>4. ASSUME d \in V PROVE \E k \in 1 .. n - 1 : calls'[k].bb = d /\ calls'[k].at <= j
    <3>1. PICK k \in 1 .. n : calls[k].bb = d /\ calls[k].at <= j
      BY <2>1, <2>4
    <3>2. k # n
      BY <1>2, <2>2, <3>1 DEF bb
    <3> QED BY <1>2, <1>5, <3>1, <3>2
  <2>5. Ahead(V, d, j)'
    BY <1>2, <1>3, <2>1, <2>3, <2>4 DEF Ahead
  <2> QED BY <2>2, <2>5
<1>19. ASSUME NEW b, NEW i, NEW p, NEW v, LoadedBefore(V, b, p, v), b = bb \/ i = p
       PROVE  LoadedBefore(V, b, i, v)'
  <2>1. PICK d, j : /\ Ahead(V, d, j) /\ code[d][j].id = v
                    /\ (IF d = b THEN j < p ELSE Doms(d, b))
    BY <1>19 DEF LoadedBefore
  <2>2. /\ d # bb /\ Ahead(V, d, j)' /\ (Doms(d, b)' <=> Doms(d, b)) /\ d \in Block
    BY <1>3, <1>18, <2>1 DEF Doms, Ahead
  <2>3. code'[d] = code[d]
    BY <1>2, <2>2
  <2> QED BY <1>19, <2>1, <2>2, <2>3 DEF LoadedBefore
<1>20. OperandsAhead(V)'
  <2>1. \A b \in Block : \A i \in DOMAIN code[b] :
          /\ code[b][i].op \in {"store", "use"} =>
               Settled(code[b][i].val) \/ LoadedBefore(V, b, i, code[b][i].val)
          /\ code[b][i].op = "phi" => \A k \in DOMAIN code[b][i].pairs : Settled(code[b][i].pairs[k][1])
    BY DEF Walk, OperandsAhead
  <2>2. ASSUME NEW b \in Block, NEW i \in DOMAIN code'[b]
        PROVE  \E p \in DOMAIN code[b] : code'[b][i] = code[b][p] /\ (b = bb \/ i = p)
    <3>1. CASE b = bb
      BY <1>8, <2>2, <3>1
    <3>2. CASE b # bb
      BY <1>2, <2>2, <3>2
    <3> QED BY <3>1, <3>2
  <2>3. ASSUME NEW b \in Block, NEW i \in DOMAIN code'[b], code'[b][i].op \in {"store", "use"},
               NEW v, v = code'[b][i].val
        PROVE  Settled(v)' \/ LoadedBefore(V, b, i, v)'
    <3>1. PICK p \in DOMAIN code[b] : code'[b][i] = code[b][p] /\ (b = bb \/ i = p)
      BY <2>2
    <3>2. Settled(v) \/ LoadedBefore(V, b, p, v)
      BY <2>1, <2>3, <3>1
    <3> QED BY <1>17, <1>19, <3>1, <3>2
  <2>4. ASSUME NEW b \in Block, NEW i \in DOMAIN code'[b], code'[b][i].op = "phi",
               NEW k \in DOMAIN code'[b][i].pairs, NEW v, v = code'[b][i].pairs[k][1]
        PROVE  Settled(v)'
    <3>1. PICK p \in DOMAIN code[b] : code'[b][i] = code[b][p]
      BY <2>2
    <3>2. Settled(v)
      BY <2>1, <2>4, <3>1
    <3> QED BY <1>17, <3>2
  <2> QED BY <1>3, <2>3, <2>4 DEF OperandsAhead
<1>21. ValuesSettled'
  <2>1. ASSUME NEW x \in Var, NEW k \in 1 .. Len(var_val_stack'[x])
        PROVE  Settled(var_val_stack[x][k])'
    <3>1. k \in 1 .. Len(var_val_stack[x]) /\ var_val_stack'[x][k] = var_val_stack[x][k]
      BY LeaveShrinks
    <3>2. Settled(var_val_stack[x][k])
      BY <3>1 DEF Walk, ValuesSettled
    <3> QED BY <1>17, <3>1, <3>2
  <2> QED BY <2>1 DEF ValuesSettled
<1>22. EntryKept'
  <2> SUFFICES ASSUME calls' # << >> PROVE \E m : KeptAt(m)'
    BY DEF EntryKept
  <2>1. 1 \in 1 .. n - 1
    BY <1>2, EmptySeq
  <2>2. Entry # bb
    <3>1. calls[1].bb = Entry
      BY <1>1, <1>2 DEF Active
    <3> QED BY <1>2, <2>1, <3>1
  <2>3. PICK m : KeptAt(m)
    BY <1>2 DEF Walk, EntryKept
  <2>4. code'[Entry] = code[Entry] /\ Entry \in Block
    BY <1>1, <1>2, <2>2, Graph
  <2>5. KeptAt(m)'
    BY <1>2, <1>3, <2>3, <2>4 DEF KeptAt
  <2> QED BY <2>5
<1> QED BY <1>10, <1>11, <1>13, <1>16, <1>20, <1>21, <1>22 DEF Walk

\* What the builder gave: an operand is a constant, or a load that comes before it.
LEMMA Originals ==
  ASSUME fn \in Functions, NEW b \in Block, NEW i \in 1 .. Len(fn.body[b])
  PROVE  LET is == fn.body[b]
         IN  /\ is[i].op \in {"load", "store", "use"}
             /\ is[i].op \in {"store", "use"} =>
                  \/ is[i].val[1] = "const"
                  \/ \E d \in Block : \E j \in 1 .. Len(fn.body[d]) :
                       /\ fn.body[d][j].op = "load" /\ fn.body[d][j].id = is[i].val
                       /\ IF d = b THEN j < i ELSE Doms(d, b)
<1> DEFINE is == fn.body[b]
<1>1. \A d \in Block : DOMAIN fn.body[d] = 1 .. Len(fn.body[d])
  BY Bodies, LenProperties
<1>2. Original(is[i])
  <2>1. is[i] \in ToSet(is)
    BY <1>1 DEF ToSet
  <2> QED BY <2>1, FunctionsAssumption DEF Block
<1>3. is[i].op \in {"load", "store", "use"}
  BY <1>2 DEF Original
<1>4. ASSUME is[i].op # "load"
      PROVE  \/ is[i].val[1] = "const"
             \/ \E d \in Block : \E j \in DOMAIN fn.body[d] :
                  /\ fn.body[d][j].op = "load" /\ fn.body[d][j].id = is[i].val
                  /\ IF b = d THEN j < i ELSE b \in DominatedBy(d, Entry, Block, Edges)
  <2>1. i \in DOMAIN fn.body[b]
    BY <1>1
  <2> QED BY <1>4, <2>1, SSAAssumption DEF Block, Edges
<1> QED BY <1>1, <1>3, <1>4 DEF Doms

\* The instructions of a block before re_name.
LEMMA GeneratedFacts ==
  ASSUME SInv, NEW b \in Block, NEW m, GeneratedAt(b, m)
  PROVE  LET is == fn.body[b]
         IN  /\ m \in Nat /\ Len(is) \in Nat /\ DOMAIN code[b] = 1 .. m + Len(is)
             /\ \A i \in DOMAIN code[b] :
                  \/ i \in 1 .. m /\ code[b][i].op = "phi" /\ code[b][i].pairs = << >>
                  \/ i - m \in 1 .. Len(is) /\ code[b][i] = is[i - m] /\ code[b][i].op # "phi"
             /\ \A i \in 1 .. Len(is) : m + i \in DOMAIN code[b] /\ code[b][m + i] = is[i]
<1> DEFINE is == fn.body[b]
<1>1. fn \in Functions /\ code[b] \in Seq(Instruction) /\ is \in Seq(Instruction)
  BY Bodies DEF SInv, Typed
<1>2. DOMAIN code[b] = 1 .. Len(code[b]) /\ Len(is) \in Nat
  BY <1>1, LenProperties
<1>3. /\ m \in Nat /\ Len(code[b]) = m + Len(is)
      /\ \A i \in 1 .. m : code[b][i].op = "phi" /\ code[b][i].pairs = << >>
      /\ \A i \in 1 .. Len(is) : code[b][m + i] = is[i]
  BY DEF GeneratedAt
<1>4. \A i \in 1 .. Len(is) : is[i].op # "phi"
  BY <1>1, Originals
<1> HIDE DEF is
<1>5. \A i \in 1 .. Len(is) : m + i \in 1 .. m + Len(is)
  BY <1>2, <1>3
<1>6. ASSUME NEW i \in 1 .. m + Len(is)
      PROVE  \/ i \in 1 .. m /\ code[b][i].op = "phi" /\ code[b][i].pairs = << >>
             \/ i - m \in 1 .. Len(is) /\ code[b][i] = is[i - m] /\ code[b][i].op # "phi"
  <2>1. CASE i \in 1 .. m
    BY <1>3, <2>1
  <2>2. CASE i \notin 1 .. m
    <3>1. i - m \in 1 .. Len(is) /\ m + (i - m) = i
      BY <1>2, <1>3, <2>2
    <3>2. code[b][i] = is[i - m]
      BY <1>3, <3>1
    <3> QED BY <1>4, <3>1, <3>2
  <2> QED BY <2>1, <2>2
<1> QED BY <1>2, <1>3, <1>5, <1>6 DEF is

\* re_name starts: only the entry is called for, no phi has a pair, and no load is gone over.
LEMMA RenameWalk ==
  ASSUME SInv, Generated, Rename
  PROVE  Walk({Entry})'
<1> DEFINE V == {Entry}
           M(b) == CHOOSE m : GeneratedAt(b, m)
           c == NewFrame(Entry)
<1>1. /\ Typed /\ Active /\ phase = "variable" /\ Call(Entry, << >>)
      /\ fn' = fn /\ code' = code /\ fn \in Functions /\ Entry' = Entry
  BY DEF SInv, Rename, Typed, Entry
<1>2. calls = << >> /\ Entry \in Block
  BY <1>1, Graph DEF Active
<1>3. CallsFor(Entry, << >>)
  <2>1. Entry \in Block /\ << >> \in Seq(Activation) /\ Len(<< >>) = 0
    BY <1>1, Graph, EmptySeq
  <2> QED BY <1>1, <1>2, <2>1 DEF CallsFor, Rename
<1>4. Len(calls') = 1 /\ calls'[1] = c /\ Block' = Block /\ Edges' = Edges
  <2>1. LET n == Len(calls)
        IN  Len(calls') = n + 1 /\ calls'[n + 1] = c /\ Block' = Block /\ Edges' = Edges
    BY <1>1, <1>3, CallFrames
  <2>2. Len(calls) = 0
    BY <1>2
  <2> QED BY <2>1, <2>2
<1>5. /\ c.bb = Entry /\ c.at = 1 /\ ~ c.filled
      /\ \A b : b \in c.next <=> Idom(Entry, b)
  BY <1>1, Tree DEF NewFrame
<1> HIDE DEF c
<1>6. \A k \in 1 .. Len(calls') : k = 1
  BY <1>4
<1>7. 1 \in 1 .. Len(calls')
  BY <1>4
<1>8. \A b \in Block : GeneratedAt(b, M(b))
  BY DEF Generated
<1> HIDE DEF M
<1>9. \A b \in Block :
        /\ M(b) \in Nat /\ Len(fn.body[b]) \in Nat /\ DOMAIN code[b] = 1 .. M(b) + Len(fn.body[b])
        /\ \A i \in DOMAIN code[b] :
             \/ i \in 1 .. M(b) /\ code[b][i].op = "phi" /\ code[b][i].pairs = << >>
             \/ /\ i - M(b) \in 1 .. Len(fn.body[b]) /\ code[b][i] = fn.body[b][i - M(b)]
                /\ code[b][i].op # "phi"
        /\ \A i \in 1 .. Len(fn.body[b]) : M(b) + i \in DOMAIN code[b] /\ code[b][M(b) + i] = fn.body[b][i]
  BY <1>8, GeneratedFacts
<1>10. Visits(V)'
  <2>1. \A a, b : Idom(a, b) => b # Entry
    BY <1>1, IdomIs
  <2>2. \A a, b : Idom(a, b)' <=> Idom(a, b)
    BY <1>1, <1>4 DEF Idom
  <2> QED BY <1>1, <1>2, <1>4, <1>5, <1>6, <1>7, <2>1, <2>2 DEF Visits
<1>11. Queued'
  BY <1>4, <1>5, <1>6 DEF Queued
<1>12. Deleted(V)'
  BY <1>1, <1>4, <1>5, <1>7 DEF Deleted, IsActive
<1>13. \A b \in Block : \A i \in Is("phi", code[b]) : code[b][i].pairs = << >>
  BY <1>9 DEF Is
<1>14. FilledIn(V)' = {}
  BY <1>4, <1>5, <1>7 DEF FilledIn
<1>15. Paired(V)'
  <2>1. FromEach(<< >>, {})
    BY DEF FromEach
  <2> QED BY <1>1, <1>4, <1>13, <1>14, <2>1 DEF Paired
<1>16. ValuesSettled' /\ \A v : Settled(v)' <=> Settled(v)
  <2>1. ValuesSettled
    <3>1. \A x \in Var : var_val_stack[x] = << >> /\ Len(<< >>) = 0
      BY <1>2, NoCallsNoValues
    <3> QED BY <3>1 DEF ValuesSettled
  <2> QED BY <1>3, <2>1, CallValues
<1>17. ASSUME NEW b \in Block, NEW i \in DOMAIN code[b], code[b][i].op \in {"store", "use"},
              NEW v, v = code[b][i].val
       PROVE  Settled(v)' \/ LoadedBefore(V, b, i, v)'
  <2> DEFINE l == i - M(b)
  <2>1. l \in 1 .. Len(fn.body[b]) /\ code[b][i] = fn.body[b][l]
    BY <1>9, <1>17
  <2>2. \/ v[1] = "const"
        \/ \E d \in Block : \E j \in 1 .. Len(fn.body[d]) :
             /\ fn.body[d][j].op = "load" /\ fn.body[d][j].id = v
             /\ IF d = b THEN j < l ELSE Doms(d, b)
    BY <1>1, <1>17, <2>1, Originals
  <2>3. CASE v[1] = "const"
    BY <2>3 DEF Settled
  <2>4. ASSUME NEW d \in Block, NEW j \in 1 .. Len(fn.body[d]),
               fn.body[d][j].op = "load", fn.body[d][j].id = v,
               IF d = b THEN j < l ELSE Doms(d, b)
        PROVE  LoadedBefore(V, b, i, v)'
    <3> PICK p : p = M(d) + j
      OBVIOUS
    <3>1. p \in DOMAIN code[d] /\ code[d][p] = fn.body[d][j] /\ p \in Nat \ {0}
      BY <1>9
    <3>2. IF d = b THEN p < i ELSE Doms(d, b)
      <4>1. CASE d = b
        <5>1. M(b) \in Nat /\ i \in Nat /\ j < i - M(b) /\ j \in Nat
          BY <1>9, <2>4, <4>1
        <5> QED BY <4>1, <5>1
      <4>2. CASE d # b
        BY <2>4, <4>2
      <4> QED BY <4>1, <4>2
    <3>3. Ahead(V, d, p)'
      <4>1. 1 <= p
        BY <3>1
      <4> QED BY <1>1, <1>4, <1>5, <1>7, <2>4, <3>1, <4>1 DEF Ahead
    <3>4. Doms(d, b)' <=> Doms(d, b)
      BY <1>1, <1>4 DEF Doms
    <3> QED BY <1>1, <2>4, <3>1, <3>2, <3>3, <3>4 DEF LoadedBefore
  <2> QED BY <2>2, <2>3, <2>4
<1>18. OperandsAhead(V)'
  <2>1. \A b \in Block : \A i \in DOMAIN code[b] :
          code[b][i].op = "phi" => DOMAIN code[b][i].pairs = {}
    BY <1>13 DEF Is
  <2> HIDE DEF V
  <2> QED BY <1>1, <1>4, <1>17, <2>1 DEF OperandsAhead
<1>19. EntryKept'
  <2> PICK m : m = M(Entry)
    OBVIOUS
  <2>1. GeneratedAt(Entry, m)
    BY <1>2, <1>8
  <2>2. KeptAt(m)'
    BY <1>1, <2>1 DEF KeptAt, GeneratedAt
  <2> QED BY <2>2 DEF EntryKept
<1> HIDE DEF V
<1>20. Walk(V)'
  BY <1>10, <1>11, <1>12, <1>15, <1>16, <1>18, <1>19 DEF Walk
<1> QED BY <1>20 DEF V

\* generate_phi only puts phis in front.
LEMMA TakeWorkGenerated ==
  ASSUME SInv, Generated, NEW b, TakeWork(b)
  PROVE  Generated'
<1>1. /\ Added(b) \subseteq Block
      /\ code' = [d \in Block |-> IF d \in Added(b) THEN <<Phi(d, var)>> \o code[d] ELSE code[d]]
      /\ \A d \in Block : code[d] \in Seq(Instruction) /\ Phi(d, var) \in Instruction
  BY TakeWorkFacts
<1>2. fn' = fn /\ Block' = Block /\ fn \in Functions
  BY DEF TakeWork, Block, SInv, Typed
<1>3. ASSUME NEW d \in Block PROVE \E m : GeneratedAt(d, m)'
  <2>1. PICK m : GeneratedAt(d, m)
    BY DEF Generated
  <2> DEFINE is == code[d]
             js == code'[d]
             body == fn.body[d]
  <2>2. /\ m \in Nat /\ Len(is) = m + Len(body)
        /\ \A i \in 1 .. m : is[i].op = "phi" /\ is[i].pairs = << >>
        /\ \A i \in 1 .. Len(body) : is[m + i] = body[i]
    BY <2>1 DEF GeneratedAt
  <2>3. CASE d \notin Added(b)
    <3>1. js = is
      BY <1>1, <2>3
    <3>2. GeneratedAt(d, m)'
      BY <1>2, <2>2, <3>1 DEF GeneratedAt
    <3> QED BY <3>2
  <2>4. CASE d \in Added(b)
    <3> DEFINE e == Phi(d, var)
    <3>1. js = <<e>> \o is /\ is \in Seq(Instruction) /\ e \in Instruction
      BY <1>1, <2>4
    <3>2. e.op = "phi" /\ e.pairs = << >>
      BY DEF Phi
    <3> HIDE DEF e, is, js
    <3>3. /\ Len(js) = Len(is) + 1 /\ js[1] = e /\ \A i \in 1 .. Len(is) : js[i + 1] = is[i]
      BY <3>1, PrefixFacts
    <3>4. Len(body) \in Nat
      BY <1>2, Bodies, LenProperties
    <3> HIDE DEF body
    <3>5. Len(js) = m + 1 + Len(body) /\ m + 1 \in Nat
      BY <2>2, <3>3, <3>4
    <3>6. ASSUME NEW i \in 1 .. m + 1 PROVE js[i].op = "phi" /\ js[i].pairs = << >>
      <4>1. CASE i = 1
        BY <3>2, <3>3, <4>1
      <4>2. CASE i # 1
        <5>1. i - 1 \in 1 .. m /\ i - 1 \in 1 .. Len(is) /\ i - 1 + 1 = i
          BY <2>2, <3>4, <4>2
        <5>2. js[i] = is[i - 1]
          BY <3>3, <5>1
        <5> QED BY <2>2, <5>1, <5>2
      <4> QED BY <4>1, <4>2
    <3>7. ASSUME NEW i \in 1 .. Len(body) PROVE js[m + 1 + i] = body[i]
      <4>1. m + i \in 1 .. Len(is) /\ m + i + 1 = m + 1 + i
        BY <2>2, <3>4
      <4>2. js[m + i + 1] = is[m + i]
        BY <3>3, <4>1
      <4> QED BY <2>2, <4>1, <4>2
    <3> PICK l : l = m + 1
      OBVIOUS
    <3>8. GeneratedAt(d, l)'
      BY <1>2, <3>5, <3>6, <3>7 DEF GeneratedAt, js, body
    <3> QED BY <3>8
  <2> QED BY <2>3, <2>4
<1> QED BY <1>2, <1>3 DEF Generated

\* At the start each block is what the builder made.
LEMMA InitWInv ==
  ASSUME Init
  PROVE  WInv
<1>1. SInv
  BY InitSInv
<1>2. code = fn.body /\ phase = "variable"
  BY DEF Init
<1>3. ASSUME NEW b \in Block PROVE \E m : GeneratedAt(b, m)
  <2>1. Len(fn.body[b]) \in Nat
    BY <1>1, Bodies, LenProperties DEF SInv, Typed
  <2> PICK m : m = 0
    OBVIOUS
  <2>2. m \in Nat /\ Len(code[b]) = m + Len(fn.body[b]) /\ \A i \in 1 .. m : FALSE
    BY <1>2, <2>1
  <2>3. \A i \in 1 .. Len(fn.body[b]) : m + i = i
    BY <2>1
  <2>4. \A i \in 1 .. Len(fn.body[b]) : code[b][m + i] = fn.body[b][i]
    BY <1>2, <2>3
  <2> QED BY <2>2, <2>4 DEF GeneratedAt
<1> QED BY <1>1, <1>2, <1>3 DEF WInv, Generated

\* A step of the walk.
LEMMA WalkStep ==
  ASSUME SInv, StoredOnEntry, NEW V, Walk(V),
         ReplaceLoad \/ PushStore \/ SkipInstr \/ FillPhis \/ Leave \/ RemoveAllocas
         \/ \E c \in Block : Descend(c)
  PROVE  phase' \in {"rename", "done"} /\ \E U : Walk(U)'
<1>1. CASE ReplaceLoad
  BY <1>1, ReplaceLoadWalk
<1>2. CASE PushStore
  BY <1>2, PushStoreWalk DEF PushStore, Working, Renaming
<1>3. CASE SkipInstr
  BY <1>3, SkipInstrWalk DEF SkipInstr, Working, Renaming
<1>4. CASE FillPhis
  BY <1>4, FillPhisWalk
<1>5. CASE Leave
  BY <1>5, LeaveWalk DEF Leave, Renaming
<1>6. ASSUME NEW c \in Block, Descend(c)
      PROVE  phase' \in {"rename", "done"} /\ \E U : Walk(U)'
  <2>1. Walk(V \cup {c})'
    BY <1>6, DescendWalk
  <2>2. phase' = "rename"
    BY <1>6 DEF Descend, Renaming
  <2> PICK U : U = V \cup {c}
    OBVIOUS
  <2> QED BY <2>1, <2>2
<1>7. CASE RemoveAllocas
  <2>1. phase' = "done" /\ UNCHANGED <<fn, code, var_val_stack, calls>>
    BY <1>7 DEF RemoveAllocas
  <2>2. Block' = Block /\ Edges' = Edges /\ Entry' = Entry
    BY <2>1, SameTypes DEF Entry
  <2>3. Visits(V)' /\ Queued' /\ EntryKept'
    BY <2>1, <2>2 DEF Walk, Visits, Idom, Queued, EntryKept, KeptAt
  <2>4. Deleted(V)' /\ Paired(V)' /\ ValuesSettled'
    BY <2>1, <2>2 DEF Walk, Deleted, IsActive, Paired, FilledIn, ValuesSettled, Settled
  <2>5. OperandsAhead(V)'
    BY <2>1, <2>2 DEF Walk, OperandsAhead, LoadedBefore, Ahead, Settled, Doms
  <2>6. Walk(V)'
    BY <2>3, <2>4, <2>5 DEF Walk
  <2> QED BY <2>1, <2>6
<1> QED BY <1>1, <1>2, <1>3, <1>4, <1>5, <1>6, <1>7

\* Every step of the pass keeps WInv.
LEMMA NextWInv ==
  ASSUME WInv, [Next]_vars
  PROVE  WInv'
<1>1. SInv /\ SInv' /\ Typed /\ Active
  BY NextSInv DEF WInv, SInv
<1>2. fn' = fn
  BY DEF Next, ChooseVariable, TakeWork, Descend, VariableDone, Rename, ReplaceLoad, PushStore,
         SkipInstr, FillPhis, Leave, RemoveAllocas, vars
<1>3. StoredOnEntry' <=> StoredOnEntry
  BY <1>2 DEF StoredOnEntry, Is, Entry
<1>4. ASSUME (\E x \in Var : ChooseVariable(x)) \/ VariableDone PROVE WInv'
  <2>1. /\ code' = code /\ phase \in {"variable", "work list"} /\ phase' \in {"variable", "work list"}
    BY <1>4 DEF ChooseVariable, VariableDone
  <2>2. Generated
    BY <2>1 DEF WInv
  <2>3. Block' = Block
    BY <1>2 DEF Block
  <2>4. \A b \in Block : \A m : GeneratedAt(b, m) => GeneratedAt(b, m)'
    <3>1. code' = code /\ fn' = fn
      BY <1>2, <2>1
    <3> QED BY <3>1 DEF GeneratedAt
  <2>5. Generated'
    BY <2>2, <2>3, <2>4 DEF Generated
  <2> QED BY <1>1, <2>1, <2>5 DEF WInv
<1>5. ASSUME NEW b \in Block, TakeWork(b) PROVE WInv'
  <2>1. phase = "work list" /\ phase' = "work list"
    BY <1>5 DEF TakeWork
  <2>2. Generated'
    BY <1>1, <1>5, <2>1, TakeWorkGenerated DEF WInv
  <2> QED BY <1>1, <2>1, <2>2 DEF WInv
<1>6. ASSUME Rename PROVE WInv'
  <2>1. phase = "variable" /\ phase' = "rename"
    BY <1>6 DEF Rename
  <2>2. Walk({Entry})'
    BY <1>1, <1>6, <2>1, RenameWalk DEF WInv
  <2>3. \E V : Walk(V)'
    <3> PICK V : V = {Entry}
      OBVIOUS
    <3> QED BY <2>2 DEF Entry
  <2> QED BY <1>1, <2>1, <2>3 DEF WInv
<1>7. ASSUME ReplaceLoad \/ PushStore \/ SkipInstr \/ FillPhis \/ Leave \/ RemoveAllocas
             \/ \E c \in Block : Descend(c)
      PROVE  WInv'
  <2>1. phase = "rename" /\ phase' \notin {"variable", "work list"}
    BY <1>7 DEF ReplaceLoad, PushStore, SkipInstr, FillPhis, Leave, RemoveAllocas, Descend, Working, Renaming
  <2>2. ASSUME StoredOnEntry PROVE phase' \in {"rename", "done"} /\ \E U : Walk(U)'
    <3>1. PICK V : Walk(V)
      BY <2>1, <2>2 DEF WInv
    <3> QED BY <1>1, <1>7, <2>2, <3>1, WalkStep
  <2> QED BY <1>1, <1>3, <2>1, <2>2 DEF WInv
<1>8. ASSUME UNCHANGED vars PROVE WInv'
  <2>1. phase' = phase /\ UNCHANGED <<fn, code, var_val_stack, calls>>
    BY <1>8 DEF vars
  <2>2. Block' = Block /\ Edges' = Edges /\ Entry' = Entry
    BY <2>1, SameTypes DEF Entry
  <2>3. Generated => Generated'
    BY <2>1, <2>2 DEF Generated, GeneratedAt
  <2>4. ASSUME NEW V, Walk(V) PROVE Walk(V)'
    <3>1. Visits(V)' /\ Queued' /\ EntryKept'
      BY <2>1, <2>2, <2>4 DEF Walk, Visits, Idom, Queued, EntryKept, KeptAt
    <3>2. Deleted(V)' /\ Paired(V)' /\ ValuesSettled'
      BY <2>1, <2>2, <2>4 DEF Walk, Deleted, IsActive, Paired, FilledIn, ValuesSettled, Settled
    <3>3. OperandsAhead(V)'
      BY <2>1, <2>2, <2>4 DEF Walk, OperandsAhead, LoadedBefore, Ahead, Settled, Doms
    <3> QED BY <3>1, <3>2, <3>3 DEF Walk
  <2> QED BY <1>1, <1>3, <2>1, <2>3, <2>4 DEF WInv
<1> QED BY <1>4, <1>5, <1>6, <1>7, <1>8 DEF Next

-------------------------------------------------------------------------------
(* What it gives *)

\* If a function stores every variable on entry, the pass never takes the last value of
\* an empty stack: neither for a load (undefined behaviour) nor for a phi (an assertion).
THEOREM StacksHaveValues == Spec => []NoEmptyStack
<1>1. Init => WInv
  BY InitWInv
<1>2. WInv /\ [Next]_vars => WInv'
  BY NextWInv
<1>3. WInv => NoEmptyStack
  BY DEF WInv, NoEmptyStack
<1> QED BY <1>1, <1>2, <1>3, PTL DEF Spec

\* When it is done, all blocks were called for and all activations have ended.
LEMMA AllVisited ==
  ASSUME SInv, phase = "done", NEW V, Walk(V)
  PROVE  calls = << >> /\ V = Block /\ FilledIn(V) = Block
<1>1. Typed /\ Active /\ fn \in Functions
  BY DEF SInv, Typed
<1>2. calls = << >> /\ Len(calls) = 0
  BY <1>1 DEF Active
<1>3. V \subseteq Block /\ Entry \in V
  BY DEF Walk, Visits
<1>4. \A a, b : Idom(a, b) /\ a \in V => b \in V
  BY <1>2 DEF Walk, Visits
<1>5. Block \subseteq V
  <2>1. IsFiniteSet(Block) /\ Entry \in Block /\ ReachableFrom({Entry}, Block, Edges) = Block
    BY <1>1, Graph
  <2> QED BY <1>3, <1>4, <2>1, IdomTree DEF Idom
<1>6. FilledIn(V) = V
  BY <1>2 DEF FilledIn
<1> QED BY <1>2, <1>3, <1>5, <1>6

\* When the walk is over, all blocks have filled the phis of their successors.
LEMMA WInvWellFormed ==
  ASSUME WInv, phase = "done", StoredOnEntry
  PROVE  PhisComplete /\ NothingDangles
<1>1. PICK V : Walk(V)
  BY DEF WInv
<1>2. SInv /\ Typed /\ fn \in Functions
  BY DEF WInv, SInv, Typed
<1>3. calls = << >> /\ Len(calls) = 0 /\ V = Block /\ FilledIn(V) = Block
  BY <1>1, <1>2, AllVisited
<1>4. ASSUME NEW b \in Block, NEW i \in Is("phi", code[b])
      PROVE  LET froms == [k \in DOMAIN code[b][i].pairs |-> code[b][i].pairs[k][2]]
             IN  IsInjective(froms) /\ ToSet(froms) = {e[1] : e \in {e \in Edges : e[2] = b}}
  <2> DEFINE ps == code[b][i].pairs
             froms == [k \in DOMAIN ps |-> ps[k][2]]
             S == {a \in Block : <<a, b>> \in Edges}
  <2>1. FromEach(ps, S)
    BY <1>1, <1>3 DEF Walk, Paired
  <2>2. S = {e[1] : e \in {e \in Edges : e[2] = b}}
    <3>1. \A e \in Edges : e = <<e[1], e[2]>> /\ e[1] \in Block
      <4> TAKE e \in Edges
      <4>1. PICK a \in Block : e \in {a} \X ToSet(fn.succ[a])
        BY DEF Edges
      <4> QED BY <4>1
    <3>2. ASSUME NEW a \in S PROVE a \in {e[1] : e \in {e \in Edges : e[2] = b}}
      <4> DEFINE e == <<a, b>>
      <4>1. e \in Edges /\ e[1] = a /\ e[2] = b
        OBVIOUS
      <4> HIDE DEF e
      <4> QED BY <4>1
    <3>3. ASSUME NEW e \in Edges, e[2] = b PROVE e[1] \in S
      BY <3>1, <3>3
    <3> HIDE DEF S
    <3> QED BY <3>2, <3>3
  <2> HIDE DEF ps, S
  <2>3. DOMAIN froms = DOMAIN ps /\ \A k \in DOMAIN ps : froms[k] = ps[k][2]
    OBVIOUS
  <2> HIDE DEF froms
  <2>4. IsInjective(froms)
    BY <2>1, <2>3 DEF IsInjective, FromEach
  <2>5. ToSet(froms) = S
    BY <2>1, <2>3 DEF ToSet, FromEach
  <2> QED BY <2>2, <2>4, <2>5 DEF froms, ps
<1>5. ASSUME NEW b \in Block, NEW i \in Instrs(b)
      PROVE  /\ i.op \notin {"load", "store"}
             /\ \A v \in Operands(i) :
                  v[1] = "const" \/ \E c \in Block : \E j \in Instrs(c) : j.op = "phi" /\ j.id = v
  <2>1. PICK k \in DOMAIN code[b] : i = code[b][k]
    BY DEF Instrs, ToSet
  <2>2. i.op \notin {"load", "store"}
    BY <1>1, <1>3, <2>1 DEF Walk, Deleted, IsActive
  <2>3. i.op \in {"use", "phi"} /\ (i.op = "phi" => i.pairs \in Seq(Value \X Block))
    <3>1. i \in Instruction
      BY <1>2, <2>1, ElementOfSeq, LenProperties DEF Typed
    <3> QED BY <2>2, <3>1, InstructionFacts
  <2>4. \A d, j : ~ Ahead(V, d, j)
    BY <1>3 DEF Ahead
  <2>5. /\ i.op = "use" => Settled(i.val)
        /\ i.op = "phi" => \A l \in DOMAIN i.pairs : Settled(i.pairs[l][1])
    BY <1>1, <2>1, <2>4 DEF Walk, OperandsAhead, LoadedBefore
  <2>6. ASSUME NEW v \in Operands(i) PROVE Settled(v)
    <3>1. CASE i.op = "use"
      BY <2>5, <2>6, <3>1 DEF Operands
    <3>2. CASE i.op = "phi"
      <4>1. PICK pair \in ToSet(i.pairs) : v = pair[1]
        BY <2>6, <3>2 DEF Operands
      <4> QED BY <2>5, <3>2, <4>1 DEF ToSet
    <3> QED BY <2>3, <3>1, <3>2
  <2>7. \A v : Settled(v) =>
          v[1] = "const" \/ \E c \in Block : \E j \in Instrs(c) : j.op = "phi" /\ j.id = v
    BY DEF Settled, Instrs, ToSet, Is
  <2> QED BY <2>2, <2>6, <2>7
<1> QED BY <1>4, <1>5 DEF PhisComplete, NothingDangles

\* If a function stores every variable on entry, what the pass leaves is well formed:
\* each phi has exactly one pair for each predecessor of its block, loads and stores are
\* gone, and no operand is a value that replacement or deletion has orphaned.
THEOREM LeftWellFormed == Spec => []WellFormed
<1>1. Init => WInv
  BY InitWInv
<1>2. WInv /\ [Next]_vars => WInv'
  BY NextWInv
<1>3. WInv => WellFormed
  BY WInvWellFormed DEF WellFormed
<1> QED BY <1>1, <1>2, <1>3, PTL DEF Spec

-------------------------------------------------------------------------------
(* Names: what the function mentions *)

\* The results of the loads that the builder made.
LoadIds == UNION {{fn.body[b][i].id : i \in Is("load", fn.body[b])} : b \in Block}

\* Operands and stacked values are constants, phis that are there, or those results;
\* no phi is queued for deletion.
Known(v) == v \in LoadIds \/ Settled(v)
OperandsKnown ==
  \A b \in Block : \A i \in DOMAIN code[b] :
    /\ code[b][i].op \in {"store", "use"} => Known(code[b][i].val)
    /\ code[b][i].op = "phi" => \A k \in DOMAIN code[b][i].pairs : Known(code[b][i].pairs[k][1])
ValuesKnown == \A x \in Var : \A k \in 1 .. Len(var_val_stack[x]) : Known(var_val_stack[x][k])
PhisStay ==
  \A k \in 1 .. Len(calls) : \A i \in calls[k].wait_delete : code[calls[k].bb][i].op # "phi"

KInv == OperandsKnown /\ ValuesKnown /\ PhisStay

\* What is known stays known while phis stay.
LEMMA KnownStays ==
  ASSUME fn' = fn, \A v : Settled(v) => Settled(v)'
  PROVE  \A v : Known(v) => Known(v)'
<1>1. LoadIds' = LoadIds
  BY DEF LoadIds, Block
<1> QED BY <1>1 DEF Known

\* The last activation goes on, and brings nothing unknown.
LEMMA OnwardsKnown ==
  ASSUME SInv, KInv, NEW c, Onwards(c), c.next = Frame.next,
         \A b \in Block : \A i \in DOMAIN code[b] :
           /\ code[b][i].op \in {"store", "use"} => Known(code'[b][i].val)
           /\ code[b][i].op = "phi" =>
                \A k \in DOMAIN code'[b][i].pairs : Known(code'[b][i].pairs[k][1]),
         \A x \in Var : \A k \in 1 .. Len(var_val_stack'[x]) : Known(var_val_stack'[x][k]),
         c.wait_delete \subseteq Frame.wait_delete
           \cup {j \in {Frame.at} : code[Frame.bb][j].op # "phi"}
  PROVE  KInv'
<1>1. Typed /\ Active /\ fn' = fn
  BY DEF SInv, Onwards
<1>2. LET n == Len(calls)
         IN  /\ n \in Nat \ {0} /\ Len(calls') = n /\ calls # << >> /\ calls' # << >>
             /\ calls'[n] = c /\ Frame = calls[n] /\ c.bb = Frame.bb /\ Frame.bb \in Block
             /\ \A k \in 1 .. n : /\ calls'[k].bb = calls[k].bb /\ calls'[k].next = calls[k].next
                                  /\ calls[k].bb \in Block
                                  /\ k # n => calls'[k] = calls[k]
             /\ Block' = Block /\ Edges' = Edges
             /\ \A b \in Block : /\ DOMAIN code'[b] = DOMAIN code[b]
                                 /\ DOMAIN code[b] = 1 .. Len(code[b]) /\ Len(code[b]) \in Nat
                                 /\ Alike(code[b], code'[b])
  BY <1>1, OnwardsFields
<1>3. \A v : Known(v) => Known(v)'
  BY <1>1, OnwardsSettled, KnownStays
<1>4. \A b \in Block : \A i \in DOMAIN code[b] : code'[b][i].op = code[b][i].op
  BY <1>2 DEF Alike
<1>5. OperandsKnown'
  BY <1>2, <1>3, <1>4 DEF OperandsKnown
<1>6. ValuesKnown'
  BY <1>3 DEF ValuesKnown
<1>7. ASSUME NEW k \in 1 .. Len(calls), NEW i \in calls'[k].wait_delete
      PROVE  code'[calls[k].bb][i].op # "phi"
  <2>1. \A j \in calls[k].wait_delete : j \in DOMAIN code[calls[k].bb]
    <3>1. /\ calls[k] \in Activation /\ DOMAIN code[calls[k].bb] = 1 .. Len(code[calls[k].bb])
          /\ Len(code[calls[k].bb]) \in Nat /\ FrameFits(calls[k])
      BY <1>1, <1>2, FrameIs DEF Active
    <3> QED BY <3>1 DEF FrameFits, Activation
  <2>2. \A j \in calls[k].wait_delete : code[calls[k].bb][j].op # "phi"
    BY DEF KInv, PhisStay
  <2>3. CASE i \in calls[k].wait_delete
    BY <1>2, <1>4, <2>1, <2>2, <2>3
  <2>4. CASE i \notin calls[k].wait_delete
    <3>1. k = Len(calls)
      BY <1>2, <1>7, <2>4
    <3>2. i = Frame.at /\ code[Frame.bb][Frame.at].op # "phi" /\ calls[k] = Frame
      BY <1>2, <1>7, <2>4, <3>1
    <3>3. i \in DOMAIN code[Frame.bb]
      <4>1. i \in 1 .. c.at - 1 /\ c.at <= Len(code[Frame.bb]) + 1 /\ c.at \in Nat \ {0}
        BY <1>2, <1>7, <3>1 DEF Onwards, Activation
      <4>2. DOMAIN code[Frame.bb] = 1 .. Len(code[Frame.bb]) /\ Len(code[Frame.bb]) \in Nat
        BY <1>2
      <4> QED BY <4>1, <4>2
    <3> QED BY <1>2, <1>4, <3>2, <3>3
  <2> QED BY <2>3, <2>4
<1>8. PhisStay'
  BY <1>2, <1>7 DEF PhisStay
<1> QED BY <1>5, <1>6, <1>8 DEF KInv

\* So it is for a store, ...
LEMMA PushStoreKnown ==
  ASSUME SInv, KInv, PushStore
  PROVE  KInv'
<1> DEFINE c == [Frame EXCEPT !.at = @ + 1, !.wait_delete = @ \cup {Frame.at}]
           x == instr.var
<1>1. /\ Typed /\ Active /\ Working /\ instr.op = "store" /\ Advance({Frame.at})
      /\ fn' = fn /\ code' = code /\ phase' = phase
      /\ var_val_stack' = [var_val_stack EXCEPT ![x] = Append(@, instr.val)]
  BY DEF SInv, PushStore, Pushed
<1>2. code' \in [Block -> Seq(Instruction)] /\ \A b \in Block : Alike(code[b], code'[b])
  BY <1>1, AlikeSelf DEF Typed
<1>3. /\ Onwards(c) /\ c.bb = Frame.bb /\ c.next = Frame.next
      /\ c.wait_delete = Frame.wait_delete \cup {Frame.at}
      /\ Frame.at \in 1 .. Len(code[Frame.bb]) /\ code[Frame.bb] \in Seq(Instruction)
      /\ instr = code[Frame.bb][Frame.at] /\ instr \in Instruction
  BY <1>1, <1>2, AdvanceOnwards
<1> HIDE DEF c
<1>4. Known(instr.val) /\ instr.val \in Value
  <2>1. Frame.bb \in Block /\ Frame.at \in DOMAIN code[Frame.bb]
    BY <1>1, <1>3, OnwardsFields
  <2> QED BY <1>1, <1>3, <2>1, InstructionFacts DEF KInv, OperandsKnown
<1>5. ASSUME NEW y \in Var, NEW k \in 1 .. Len(var_val_stack'[y])
      PROVE  Known(var_val_stack'[y][k])
  <2> DEFINE s == var_val_stack[y]
  <2>1. s \in Seq(Value) /\ \A i \in 1 .. Len(s) : Known(s[i])
    BY <1>1 DEF Typed, KInv, ValuesKnown
  <2>2. CASE y = x
    <3>1. var_val_stack'[y] = Append(s, instr.val)
      BY <1>1, <2>2 DEF Typed
    <3>2. /\ Len(Append(s, instr.val)) = Len(s) + 1 /\ Len(s) \in Nat
          /\ (\A i \in 1 .. Len(s) : Append(s, instr.val)[i] = s[i])
          /\ Append(s, instr.val)[Len(s) + 1] = instr.val
      BY <1>4, <2>1, AppendFacts
    <3>3. k \in 1 .. Len(s) \/ k = Len(s) + 1
      BY <1>5, <3>1, <3>2
    <3> QED BY <1>4, <2>1, <3>1, <3>2, <3>3
  <2>3. CASE y # x
    <3>1. var_val_stack'[y] = s
      BY <1>1, <2>3 DEF Typed
    <3> QED BY <1>5, <2>1, <3>1
  <2> QED BY <2>2, <2>3
<1>6. \A b \in Block : \A i \in DOMAIN code[b] :
           /\ code[b][i].op \in {"store", "use"} => Known(code'[b][i].val)
           /\ code[b][i].op = "phi" =>
                \A k \in DOMAIN code'[b][i].pairs : Known(code'[b][i].pairs[k][1])
  BY <1>1 DEF KInv, OperandsKnown
<1>7. c.wait_delete \subseteq Frame.wait_delete
           \cup {j \in {Frame.at} : code[Frame.bb][j].op # "phi"}
  BY <1>1, <1>3
<1> QED BY <1>3, <1>5, <1>6, <1>7, OnwardsKnown

\* ... for what is not touched, ...
LEMMA SkipInstrKnown ==
  ASSUME SInv, KInv, SkipInstr
  PROVE  KInv'
<1> DEFINE c == [Frame EXCEPT !.at = @ + 1, !.wait_delete = @ \cup {}]
<1>1. /\ Typed /\ Active /\ Working /\ Advance({})
      /\ fn' = fn /\ code' = code /\ phase' = phase /\ var_val_stack' = var_val_stack
  BY DEF SInv, SkipInstr
<1>2. code' \in [Block -> Seq(Instruction)] /\ \A b \in Block : Alike(code[b], code'[b])
  BY <1>1, AlikeSelf DEF Typed
<1>3. Onwards(c) /\ c.next = Frame.next /\ c.wait_delete = Frame.wait_delete \cup {}
  BY <1>1, <1>2, AdvanceOnwards
<1> HIDE DEF c
<1>4. \A x \in Var : \A k \in 1 .. Len(var_val_stack'[x]) : Known(var_val_stack'[x][k])
  BY <1>1 DEF KInv, ValuesKnown
<1>5. \A b \in Block : \A i \in DOMAIN code[b] :
           /\ code[b][i].op \in {"store", "use"} => Known(code'[b][i].val)
           /\ code[b][i].op = "phi" =>
                \A k \in DOMAIN code'[b][i].pairs : Known(code'[b][i].pairs[k][1])
  BY <1>1 DEF KInv, OperandsKnown
<1>6. c.wait_delete \subseteq Frame.wait_delete
  BY <1>3
<1> QED BY <1>3, <1>4, <1>5, <1>6, OnwardsKnown

\* ... for a load that is replaced, ...
LEMMA ReplaceLoadKnown ==
  ASSUME SInv, KInv, ReplaceLoad, phase' # "undefined"
  PROVE  KInv'
<1> DEFINE c == [Frame EXCEPT !.at = @ + 1, !.wait_delete = @ \cup {Frame.at}]
           s == var_val_stack[instr.var]
           new == Last(s)
           old == instr.id
<1>1. /\ Typed /\ Active /\ Working /\ instr.op = "load" /\ instr.var \in stacked /\ s # << >>
      /\ fn' = fn /\ var_val_stack' = var_val_stack
      /\ ReplaceAllUses(old, new) /\ Advance({Frame.at}) /\ phase' = phase
  BY DEF SInv, ReplaceLoad
<1>2. new \in Value /\ Known(new)
  <2>1. instr.var \in Var /\ s \in Seq(Value)
    BY <1>1 DEF Typed
  <2>2. Len(s) \in Nat \ {0} /\ new = s[Len(s)] /\ new \in Value
    BY <1>1, <2>1, FrontFacts
  <2>3. \A k \in 1 .. Len(s) : Known(s[k])
    BY <2>1 DEF KInv, ValuesKnown
  <2> QED BY <2>2, <2>3
<1> HIDE DEF new, old
<1>3. /\ code' \in [Block -> Seq(Instruction)]
      /\ \A b \in Block : /\ Alike(code[b], code'[b])
                          /\ DOMAIN code'[b] = DOMAIN code[b]
                          /\ \A k \in DOMAIN code[b] : code'[b][k] = Substituted(code[b][k], old, new)
  BY <1>1, <1>2, ReplaceAllUsesFacts
<1>4. /\ Onwards(c) /\ c.next = Frame.next /\ c.wait_delete = Frame.wait_delete \cup {Frame.at}
      /\ instr = code[Frame.bb][Frame.at]
  BY <1>1, <1>3, AdvanceOnwards
<1> HIDE DEF c
<1>5. \A v : Known(v) => Known(Subst(v, old, new))
  BY <1>2 DEF Subst
<1>6. ASSUME NEW b \in Block, NEW i \in DOMAIN code[b]
      PROVE  /\ code[b][i].op \in {"store", "use"} => Known(code'[b][i].val)
             /\ code[b][i].op = "phi" =>
                  \A k \in DOMAIN code'[b][i].pairs : Known(code'[b][i].pairs[k][1])
  <2> DEFINE is == code[b][i]
             js == code'[b][i]
  <2>1. js = Substituted(is, old, new)
    BY <1>3
  <2>2. is \in Instruction
    <3>1. code[b] \in Seq(Instruction)
      BY <1>1 DEF Typed
    <3> QED BY <3>1, ElementOfSeq, LenProperties
  <2>3. /\ is.op \in {"store", "use"} => Known(is.val)
        /\ is.op = "phi" => \A k \in DOMAIN is.pairs : Known(is.pairs[k][1])
    BY DEF KInv, OperandsKnown
  <2> HIDE DEF is, js
  <2>4. /\ js \in Instruction /\ js.op = is.op
        /\ is.op \in {"store", "use"} => js.val = Subst(is.val, old, new)
        /\ is.op = "phi" =>
             /\ Len(js.pairs) = Len(is.pairs)
             /\ \A k \in 1 .. Len(is.pairs) : js.pairs[k][1] = Subst(is.pairs[k][1], old, new)
    BY <1>2, <2>1, <2>2, SubstitutedFacts
  <2>5. ASSUME is.op = "phi", NEW k \in DOMAIN js.pairs PROVE Known(js.pairs[k][1])
    <3>1. is.pairs \in Seq(Value \X Block) /\ js.pairs \in Seq(Value \X Block)
      BY <2>2, <2>4, <2>5, InstructionFacts
    <3>2. DOMAIN is.pairs = 1 .. Len(is.pairs) /\ DOMAIN js.pairs = 1 .. Len(js.pairs)
      BY <3>1, LenProperties
    <3> QED BY <1>5, <2>3, <2>4, <2>5, <3>2
  <2> QED BY <1>5, <2>3, <2>4, <2>5 DEF is, js
<1>7. \A x \in Var : \A k \in 1 .. Len(var_val_stack'[x]) : Known(var_val_stack'[x][k])
  BY <1>1 DEF KInv, ValuesKnown
<1>8. c.wait_delete \subseteq Frame.wait_delete
           \cup {j \in {Frame.at} : code[Frame.bb][j].op # "phi"}
  BY <1>1, <1>4
<1> QED BY <1>4, <1>6, <1>7, <1>8, OnwardsKnown

\* ... and for phis that are filled.
LEMMA FillPhisKnown ==
  ASSUME SInv, KInv, FillPhis, phase' # "aborted"
  PROVE  KInv'
<1> DEFINE c == [Frame EXCEPT !.filled = TRUE]
           bb == Frame.bb
<1>1. /\ Typed /\ Active /\ fn' = fn /\ fn \in Functions /\ calls # << >>
      /\ var_val_stack' = var_val_stack
  BY DEF SInv, FillPhis, Typed, Renaming
<1>2. /\ Onwards(c) /\ c.wait_delete = Frame.wait_delete /\ c.next = Frame.next
      /\ \A b \in Block : code'[b] = IF b \in ToSet(fn.succ[bb]) THEN FilledBlock(code[b])
                                     ELSE code[b]
      /\ \A b \in ToSet(fn.succ[bb]) : \A k \in Is("phi", code[b]) :
           code[b][k].var \in stacked => var_val_stack[code[b][k].var] # << >>
  BY FillPhisFacts
<1> HIDE DEF c
<1>3. Frame \in Activation /\ bb \in Block
  <2>1. Frame \in Activation
    BY <1>1, FrameIs
  <2> QED BY <2>1 DEF Activation
<1>4. ASSUME NEW b \in Block, NEW i \in DOMAIN code[b]
      PROVE  /\ code[b][i].op \in {"store", "use"} => Known(code'[b][i].val)
             /\ code[b][i].op = "phi" =>
                  \A k \in DOMAIN code'[b][i].pairs : Known(code'[b][i].pairs[k][1])
  <2> DEFINE is == code[b]
             js == FilledBlock(is)
             s == var_val_stack[is[i].var]
  <2>1. /\ is[i].op \in {"store", "use"} => Known(is[i].val)
        /\ is[i].op = "phi" => \A k \in DOMAIN is[i].pairs : Known(is[i].pairs[k][1])
    BY DEF KInv, OperandsKnown
  <2>2. CASE b \notin ToSet(fn.succ[bb])
    BY <1>2, <2>1, <2>2
  <2>3. CASE b \in ToSet(fn.succ[bb])
    <3>1. code'[b] = js
      BY <1>2, <2>3
    <3>2. \A l \in DOMAIN is :
            /\ is[l].op = "phi" /\ is[l].var \in stacked =>
                 LET v == Last(var_val_stack[is[l].var])
                 IN  /\ v \in Value /\ var_val_stack[is[l].var] \in Seq(Value)
                     /\ var_val_stack[is[l].var] # << >>
                     /\ is[l].pairs \in Seq(Value \X Block)
                     /\ js[l].pairs = Append(is[l].pairs, <<v, bb>>)
            /\ is[l].op # "phi" \/ is[l].var \notin stacked => js[l] = is[l]
      BY <1>1, <1>2, <1>3, <2>3, FilledFacts
    <3> HIDE DEF js
    <3>3. CASE is[i].op # "phi" \/ is[i].var \notin stacked
      BY <2>1, <3>1, <3>2, <3>3
    <3>4. CASE is[i].op = "phi" /\ is[i].var \in stacked
      <4> DEFINE ps == is[i].pairs
                 pair == <<Last(s), bb>>
                 qs == Append(ps, pair)
      <4>1. /\ Last(s) \in Value /\ s \in Seq(Value) /\ s # << >> /\ ps \in Seq(Value \X Block)
            /\ js[i].pairs = qs
        BY <3>2, <3>4
      <4>2. Known(Last(s))
        <5>1. is[i].var \in Var
          BY <1>1, <3>4 DEF Typed
        <5>2. Len(s) \in Nat \ {0} /\ Last(s) = s[Len(s)]
          BY <4>1, FrontFacts
        <5> QED BY <5>1, <5>2 DEF KInv, ValuesKnown
      <4>3. pair \in Value \X Block /\ pair[1] = Last(s)
        BY <1>3, <4>1
      <4>4. \A k \in DOMAIN ps : Known(ps[k][1])
        BY <2>1, <3>4
      <4>5. js[i].pairs = qs
        BY <4>1
      <4>6. ps \in Seq(Value \X Block)
        BY <4>1
      <4> HIDE DEF pair, ps
      <4>7. /\ Len(ps) \in Nat /\ DOMAIN ps = 1 .. Len(ps) /\ DOMAIN qs = 1 .. Len(ps) + 1
            /\ \A k \in 1 .. Len(ps) : qs[k] = ps[k]
            /\ qs[Len(ps) + 1] = pair
        BY <4>3, <4>6, AppendFacts, LenProperties
      <4>8. \A k \in DOMAIN qs : k \in DOMAIN ps \/ k = Len(ps) + 1
        BY <4>7
      <4>9. \A k \in DOMAIN qs : Known(qs[k][1])
        BY <4>2, <4>3, <4>4, <4>7, <4>8
      <4> QED BY <3>1, <3>4, <4>5, <4>9
    <3> QED BY <3>3, <3>4
  <2> QED BY <2>2, <2>3
<1>5. \A x \in Var : \A k \in 1 .. Len(var_val_stack'[x]) : Known(var_val_stack'[x][k])
  BY <1>1 DEF KInv, ValuesKnown
<1>6. c.wait_delete \subseteq Frame.wait_delete
  BY <1>2
<1> QED BY <1>2, <1>4, <1>5, <1>6, OnwardsKnown

\* A call pushes phis that are there.
LEMMA CallKnown ==
  ASSUME SInv, KInv, NEW b, NEW above, CallsFor(b, above)
  PROVE  KInv'
<1> DEFINE joined == {code[b][i].var : i \in Is("phi", code[b])}
           n == Len(calls)
<1>1. /\ Typed /\ Active /\ PhisDiffer /\ b \in Block /\ fn' = fn /\ code' = code
      /\ var_val_stack' = [x \in Var |-> IF x \in joined THEN Append(var_val_stack[x], Joined(b, x))
                                         ELSE var_val_stack[x]]
  BY DEF SInv, CallsFor, Call
<1>2. \A v : Known(v) => Known(v)'
  BY <1>1, KnownStays DEF Settled, Block
<1>3. Block' = Block
  BY <1>1 DEF Block
<1>4. OperandsKnown'
  BY <1>1, <1>2, <1>3 DEF KInv, OperandsKnown
<1>5. ASSUME NEW x \in Var, NEW k \in 1 .. Len(var_val_stack'[x])
      PROVE  Known(var_val_stack'[x][k])
  <2> DEFINE s == var_val_stack[x]
             v == Joined(b, x)
  <2>1. s \in Seq(Value) /\ v \in Value /\ \A i \in 1 .. Len(s) : Known(s[i])
    BY <1>1, JoinedIsValue DEF Typed, KInv, ValuesKnown
  <2>2. CASE x \in joined
    <3>1. Known(v)
      <4>1. PICK i \in Is("phi", code[b]) : code[b][i].var = x
        BY <2>2
      <4>2. code[b][i].id = v
        BY <1>1, <4>1 DEF PhisDiffer
      <4> QED BY <1>1, <4>1, <4>2 DEF Known, Settled
    <3>2. var_val_stack'[x] = Append(s, v)
      BY <1>1, <2>2
    <3> HIDE DEF v, s
    <3>3. /\ Len(Append(s, v)) = Len(s) + 1 /\ Len(s) \in Nat
          /\ (\A i \in 1 .. Len(s) : Append(s, v)[i] = s[i])
          /\ Append(s, v)[Len(s) + 1] = v
      BY <2>1, AppendFacts
    <3>4. k \in 1 .. Len(s) \/ k = Len(s) + 1
      BY <1>5, <3>2, <3>3
    <3> QED BY <2>1, <3>1, <3>2, <3>3, <3>4
  <2>3. CASE x \notin joined
    <3>1. var_val_stack'[x] = s
      BY <1>1, <2>3
    <3> QED BY <1>5, <2>1, <3>1
  <2> QED BY <2>2, <2>3
<1>6. ValuesKnown'
  BY <1>2, <1>5 DEF ValuesKnown
<1>7. PhisStay'
  <2>1. /\ n \in Nat /\ Len(calls') = n + 1 /\ calls'[n + 1] = NewFrame(b)
        /\ \A k \in 1 .. n : calls'[k] = above[k]
    BY <1>1, CallFrames
  <2>2. \A k \in 1 .. n : above[k].bb = calls[k].bb /\ above[k].wait_delete = calls[k].wait_delete
    BY DEF CallsFor
  <2>3. NewFrame(b).wait_delete = {}
    BY DEF NewFrame
  <2>4. \A k \in 1 .. n + 1 : k \in 1 .. n \/ k = n + 1
    BY <2>1
  <2>5. ASSUME NEW k \in 1 .. n, NEW i \in calls'[k].wait_delete
        PROVE  code'[calls'[k].bb][i].op # "phi"
    BY <1>1, <2>1, <2>2, <2>5 DEF KInv, PhisStay
  <2> QED BY <2>1, <2>3, <2>4, <2>5 DEF PhisStay
<1> QED BY <1>4, <1>6, <1>7 DEF KInv

\* What an activation deletes when it ends is no phi.
LEMMA LeaveKnown ==
  ASSUME SInv, KInv, Leave
  PROVE  KInv'
<1> DEFINE n == Len(calls)
           bb == Frame.bb
<1>1. /\ n \in Nat \ {0} /\ Frame = calls[n] /\ bb \in Block /\ fn' = fn
      /\ code[bb] \in Seq(Instruction)
      /\ Frame.wait_delete \subseteq DOMAIN code[bb]
      /\ code' \in [Block -> Seq(Instruction)]
      /\ \A b \in Block \ {bb} : code'[b] = code[b]
      /\ ToSet(code'[bb]) = {code[bb][i] : i \in DOMAIN code[bb] \ Frame.wait_delete}
      /\ Len(calls') = n - 1
      /\ \A k \in 1 .. n - 1 : /\ calls'[k] = calls[k] /\ calls[k].bb \in Block
                               /\ calls[k].bb # bb
  BY LeaveFacts
<1> HIDE DEF n, bb
<1>2. \A v : Settled(v) => Settled(v)'
  <2> SUFFICES ASSUME NEW v, NEW c \in Block, NEW j \in Is("phi", code[c]), code[c][j].id = v
               PROVE  \E d \in Block : \E i \in Is("phi", code'[d]) : code'[d][i].id = v
    BY <1>1 DEF Settled, Block
  <2>1. CASE c # bb
    BY <1>1, <2>1
  <2>2. CASE c = bb
    <3>1. j \in DOMAIN code[bb] \ Frame.wait_delete
      <4>1. n \in 1 .. n
        BY <1>1
      <4> QED BY <1>1, <2>2, <4>1 DEF KInv, PhisStay, Is, n, bb
    <3>2. code[bb][j] \in ToSet(code'[bb])
      BY <1>1, <3>1
    <3>3. PICK i \in DOMAIN code'[bb] : code'[bb][i] = code[bb][j]
      BY <3>2 DEF ToSet
    <3>4. i \in Is("phi", code'[bb]) /\ code'[bb][i].id = v
      BY <2>2, <3>3 DEF Is
    <3> QED BY <1>1, <3>4
  <2> QED BY <2>1, <2>2
<1>3. \A v : Known(v) => Known(v)'
  BY <1>1, <1>2, KnownStays
<1>4. Block' = Block
  BY <1>1 DEF Block
<1>5. ASSUME NEW b \in Block, NEW i \in DOMAIN code'[b]
      PROVE  \E j \in DOMAIN code[b] : code'[b][i] = code[b][j]
  <2>1. CASE b = bb
    <3>1. code'[bb][i] \in ToSet(code'[bb])
      BY <1>5, <2>1 DEF ToSet
    <3> QED BY <1>1, <2>1, <3>1
  <2>2. CASE b # bb
    BY <1>1, <1>5, <2>2
  <2> QED BY <2>1, <2>2
<1>6. OperandsKnown'
  BY <1>3, <1>4, <1>5 DEF KInv, OperandsKnown
<1>7. ValuesKnown'
  BY <1>3, LeaveShrinks DEF KInv, ValuesKnown
<1>8. PhisStay'
  <2>1. ASSUME NEW k \in 1 .. n - 1, NEW i \in calls'[k].wait_delete
        PROVE  code'[calls'[k].bb][i].op # "phi"
    <3>1. k \in 1 .. n
      BY <1>1
    <3>2. calls'[k] = calls[k] /\ code'[calls[k].bb] = code[calls[k].bb]
      BY <1>1
    <3>3. \A j \in calls[k].wait_delete : code[calls[k].bb][j].op # "phi"
      BY <3>1 DEF KInv, PhisStay, n
    <3> QED BY <2>1, <3>2, <3>3
  <2> QED BY <1>1, <2>1 DEF PhisStay
<1> QED BY <1>6, <1>7, <1>8 DEF KInv

\* New phis have no pairs, and the old ones stay.
LEMMA TakeWorkKnown ==
  ASSUME SInv, KInv, NEW b, TakeWork(b)
  PROVE  KInv'
<1>1. /\ phase = "work list" /\ Added(b) \subseteq Block
      /\ code' = [d \in Block |-> IF d \in Added(b) THEN <<Phi(d, var)>> \o code[d] ELSE code[d]]
      /\ \A d \in Block : /\ code[d] \in Seq(Instruction) /\ Phi(d, var) \in Instruction
                          /\ Phi(d, var).op = "phi"
  BY TakeWorkFacts
<1>2. fn' = fn /\ var_val_stack' = var_val_stack /\ calls' = calls /\ Block' = Block
  BY DEF TakeWork, Block
<1>3. ASSUME NEW d \in Block, d \in Added(b)
      PROVE  /\ DOMAIN code[d] = 1 .. Len(code[d]) /\ Len(code[d]) \in Nat
             /\ DOMAIN code'[d] = 1 .. Len(code[d]) + 1 /\ code'[d][1] = Phi(d, var)
             /\ \A i \in 1 .. Len(code[d]) : code'[d][i + 1] = code[d][i]
  <2> DEFINE phi == Phi(d, var)
  <2>1. code'[d] = <<phi>> \o code[d] /\ phi \in Instruction /\ code[d] \in Seq(Instruction)
    BY <1>1, <1>3
  <2> HIDE DEF phi
  <2>2. /\ DOMAIN code[d] = 1 .. Len(code[d]) /\ Len(code[d]) \in Nat
        /\ DOMAIN code'[d] = 1 .. Len(code[d]) + 1 /\ code'[d][1] = phi
        /\ \A i \in 1 .. Len(code[d]) : code'[d][i + 1] = code[d][i]
    BY <2>1, PrefixFacts
  <2> QED BY <2>2 DEF phi
<1>4. \A v : Settled(v) => Settled(v)'
  <2> SUFFICES ASSUME NEW v, NEW c \in Block, NEW j \in Is("phi", code[c]), code[c][j].id = v
               PROVE  \E d \in Block : \E i \in Is("phi", code'[d]) : code'[d][i].id = v
    BY <1>2 DEF Settled
  <2>1. CASE c \in Added(b)
    <3>1. j \in 1 .. Len(code[c]) /\ code[c][j].op = "phi"
      BY <1>3, <2>1 DEF Is
    <3>2. j + 1 \in DOMAIN code'[c] /\ code'[c][j + 1] = code[c][j]
      BY <1>3, <2>1, <3>1
    <3>3. j + 1 \in Is("phi", code'[c]) /\ code'[c][j + 1].id = v
      BY <3>1, <3>2 DEF Is
    <3> QED BY <3>3
  <2>2. CASE c \notin Added(b)
    BY <1>1, <2>2
  <2> QED BY <2>1, <2>2
<1>5. \A v : Known(v) => Known(v)'
  BY <1>2, <1>4, KnownStays
<1>6. ASSUME NEW d \in Block, NEW i \in DOMAIN code'[d]
      PROVE  \/ code'[d][i] = Phi(d, var)
             \/ \E j \in DOMAIN code[d] : code'[d][i] = code[d][j]
  <2>1. CASE d \in Added(b) /\ i # 1
    <3>1. i - 1 \in 1 .. Len(code[d]) /\ i - 1 + 1 = i
      BY <1>3, <1>6, <2>1
    <3> QED BY <1>3, <2>1, <3>1
  <2>2. CASE d \in Added(b) /\ i = 1
    BY <1>3, <2>2
  <2>3. CASE d \notin Added(b)
    BY <1>1, <1>6, <2>3
  <2> QED BY <2>1, <2>2, <2>3
<1>7. OperandsKnown'
  <2>1. ASSUME NEW d \in Block, NEW i \in DOMAIN code'[d]
        PROVE  /\ code'[d][i].op \in {"store", "use"} => Known(code'[d][i].val)
               /\ code'[d][i].op = "phi" =>
                    \A k \in DOMAIN code'[d][i].pairs : Known(code'[d][i].pairs[k][1])
    <3>1. CASE code'[d][i] = Phi(d, var)
      BY <3>1 DEF Phi
    <3>2. ASSUME NEW j \in DOMAIN code[d], code'[d][i] = code[d][j]
          PROVE  /\ code'[d][i].op \in {"store", "use"} => Known(code'[d][i].val)
                 /\ code'[d][i].op = "phi" =>
                      \A k \in DOMAIN code'[d][i].pairs : Known(code'[d][i].pairs[k][1])
      BY <3>2 DEF KInv, OperandsKnown
    <3> QED BY <1>6, <2>1, <3>1, <3>2
  <2> QED BY <1>2, <1>5, <2>1 DEF OperandsKnown
<1>8. ValuesKnown'
  BY <1>2, <1>5 DEF KInv, ValuesKnown
<1>9. calls = << >>
  BY <1>1 DEF SInv, Active
<1>10. PhisStay'
  BY <1>2, <1>9 DEF PhisStay
<1> QED BY <1>7, <1>8, <1>10 DEF KInv

\* The other steps leave the code and the stacks alone.
LEMMA IdleKnown ==
  ASSUME KInv, UNCHANGED <<fn, code, var_val_stack, calls>>
  PROVE  KInv'
<1>1. \A v : Known(v)' <=> Known(v)
  BY DEF Known, LoadIds, Settled, Block
<1>2. Block' = Block
  BY DEF Block
<1> QED BY <1>1, <1>2 DEF KInv, OperandsKnown, ValuesKnown, PhisStay

\* What the builder made uses the results of loads.
LEMMA InitKnown ==
  ASSUME Init
  PROVE  KInv
<1>1. /\ fn \in Functions /\ code = fn.body /\ calls = << >>
      /\ var_val_stack = [x \in Var |-> << >>]
  BY DEF Init
<1>2. ASSUME NEW b \in Block, NEW i \in DOMAIN code[b]
      PROVE  /\ code[b][i].op # "phi"
             /\ code[b][i].op \in {"store", "use"} => Known(code[b][i].val)
  <2>1. Original(code[b][i])
    BY <1>1, FunctionsAssumption DEF Block, ToSet
  <2>2. code[b][i].op \in {"store", "load", "use"}
    BY <2>1 DEF Original
  <2>3. ASSUME code[b][i].op # "load" PROVE Known(code[b][i].val)
    <3>1. \/ code[b][i].val[1] = "const"
          \/ \E c \in Block : \E j \in Is("load", fn.body[c]) : fn.body[c][j].id = code[b][i].val
      <4>1. \A c \in Block : DOMAIN fn.body[c] = 1 .. Len(fn.body[c])
        BY <1>1, Bodies, LenProperties
      <4>2. i \in 1 .. Len(fn.body[b]) /\ fn.body[b][i].op \in {"store", "use"}
        BY <1>1, <2>2, <2>3, <4>1
      <4> QED BY <1>1, <4>1, <4>2, Originals DEF Is
    <3>2. CASE code[b][i].val[1] = "const"
      BY <3>2 DEF Known, Settled
    <3>3. CASE \E c \in Block : \E j \in Is("load", fn.body[c]) : fn.body[c][j].id = code[b][i].val
      BY <3>3 DEF Known, LoadIds
    <3> QED BY <3>1, <3>2, <3>3
  <2> QED BY <2>2, <2>3
<1>3. OperandsKnown
  BY <1>2 DEF OperandsKnown
<1>4. ValuesKnown /\ PhisStay
  BY <1>1 DEF ValuesKnown, PhisStay
<1> QED BY <1>3, <1>4 DEF KInv

\* Every step of the pass keeps SInv and KInv.
LEMMA NextKnown ==
  ASSUME SInv, KInv, [Next]_vars
  PROVE  KInv'
<1>1. ASSUME NEW x \in Var, ChooseVariable(x) PROVE KInv'
  BY <1>1, IdleKnown DEF ChooseVariable
<1>2. ASSUME VariableDone \/ RemoveAllocas \/ UNCHANGED vars PROVE KInv'
  BY <1>2, IdleKnown DEF VariableDone, RemoveAllocas, vars
<1>3. ASSUME Rename PROVE KInv'
  <2>1. /\ Typed /\ Active /\ phase = "variable" /\ phase' = "rename" /\ Call(Entry, << >>)
        /\ UNCHANGED <<fn, dominators_, code, todo, var, work_list>>
    BY <1>3 DEF SInv, Rename
  <2>2. calls = << >>
    BY <2>1 DEF Active
  <2>3. Entry \in Block /\ << >> \in Seq(Activation) /\ Len(<< >>) = 0
    BY <2>1, Graph, EmptySeq DEF Typed
  <2>4. CallsFor(Entry, << >>)
    BY <2>1, <2>2, <2>3 DEF CallsFor
  <2> QED BY <2>4, CallKnown
<1>4. ASSUME NEW c, Descend(c) PROVE KInv'
  BY <1>4, DescendCalls, CallKnown
<1>5. ASSUME ReplaceLoad PROVE KInv'
  <2>1. CASE phase' = "undefined"
    <3>1. UNCHANGED <<code, calls>>
      BY <1>5, <2>1 DEF ReplaceLoad, Working, Renaming
    <3> QED BY <1>5, <3>1, IdleKnown DEF ReplaceLoad
  <2>2. CASE phase' # "undefined"
    BY <1>5, <2>2, ReplaceLoadKnown
  <2> QED BY <2>1, <2>2
<1>6. ASSUME FillPhis PROVE KInv'
  <2>1. CASE phase' = "aborted"
    <3>1. UNCHANGED <<code, calls>>
      BY <1>6, <2>1 DEF FillPhis, Renaming
    <3> QED BY <1>6, <3>1, IdleKnown DEF FillPhis
  <2>2. CASE phase' # "aborted"
    BY <1>6, <2>2, FillPhisKnown
  <2> QED BY <2>1, <2>2
<1> QED BY <1>1, <1>2, <1>3, <1>4, <1>5, <1>6, TakeWorkKnown, PushStoreKnown, SkipInstrKnown,
           LeaveKnown DEF Next

-------------------------------------------------------------------------------
(* Lists of lists *)

\* What FlattenSeq collects up to position m.
Flattened(ss, m, F) == F = [i \in 1 .. m |-> IF i = 1 THEN ss[i] ELSE F[i - 1] \o ss[i]]

\* Its recursive definition has a solution.
LEMMA FlattenedExists ==
  ASSUME NEW ss, NEW m \in Nat
  PROVE  \E F : Flattened(ss, m, F)
<1> DEFINE Bad == {n \in Nat : ~ \E F : Flattened(ss, n, F)}
<1>1. SUFFICES ASSUME Bad # {} PROVE FALSE
  OBVIOUS
<1>2. PICK n \in Bad : \A k \in Bad : n <= k
  <2>1. Bad \subseteq Nat
    OBVIOUS
  <2> HIDE DEF Bad
  <2> QED BY <1>1, <2>1, LeastNat
<1>3. n # 0
  <2>1. Flattened(ss, 0, [k \in 1 .. 0 |-> ss[1]])
    BY DEF Flattened
  <2> QED BY <2>1
<1>4. PICK G : Flattened(ss, n - 1, G)
  BY <1>2, <1>3
<1> DEFINE next == IF n = 1 THEN ss[n] ELSE G[n - 1] \o ss[n]
           F == [k \in 1 .. n |-> IF k = n THEN next ELSE G[k]]
           Of(H, k) == IF k = 1 THEN ss[k] ELSE H[k - 1] \o ss[k]
<1>5. \A k \in 1 .. n - 1 : G[k] = Of(G, k)
  BY <1>4 DEF Flattened
<1>6. \A k \in 1 .. n : F[k] = Of(F, k)
  <2> TAKE k \in 1 .. n
  <2>1. CASE k = n
    <3>1. F[k] = next /\ (k # 1 => F[k - 1] = G[k - 1])
      BY <2>1, <1>3
    <3> HIDE DEF F
    <3> QED BY <3>1, <2>1
  <2>2. CASE k # n
    <3>1. F[k] = G[k] /\ (k # 1 => F[k - 1] = G[k - 1]) /\ k \in 1 .. n - 1
      BY <2>2
    <3> HIDE DEF F
    <3> QED BY <3>1, <1>5
  <2> QED BY <2>1, <2>2
<1>7. F = [k \in 1 .. n |-> F[k]]
  OBVIOUS
<1>8. Flattened(ss, n, F)
  <2> HIDE DEF F
  <2> QED BY <1>6, <1>7 DEF Flattened
<1> QED BY <1>8

\* Both lists are in the list that they make.
LEMMA ConcatMembers ==
  ASSUME NEW S, NEW s \in Seq(S), NEW t \in Seq(S)
  PROVE  /\ s \o t \in Seq(S)
         /\ ToSet(s) \subseteq ToSet(s \o t) /\ ToSet(t) \subseteq ToSet(s \o t)
<1>1. /\ s \o t \in Seq(S) /\ Len(s \o t) = Len(s) + Len(t)
      /\ \A i \in 1 .. Len(s) + Len(t) : (s \o t)[i] = IF i <= Len(s) THEN s[i] ELSE t[i - Len(s)]
  BY ConcatProperties
<1> DEFINE u == s \o t
<1>2. /\ DOMAIN s = 1 .. Len(s) /\ DOMAIN t = 1 .. Len(t) /\ DOMAIN u = 1 .. Len(s) + Len(t)
      /\ Len(s) \in Nat /\ Len(t) \in Nat
  BY <1>1, LenProperties
<1> HIDE DEF u
<1>3. ASSUME NEW i \in DOMAIN s PROVE i \in DOMAIN u /\ u[i] = s[i]
  BY <1>1, <1>2 DEF u
<1>4. ASSUME NEW i \in DOMAIN t PROVE i + Len(s) \in DOMAIN u /\ u[i + Len(s)] = t[i]
  <2>1. i + Len(s) \in 1 .. Len(s) + Len(t) /\ ~ (i + Len(s) <= Len(s)) /\ i + Len(s) - Len(s) = i
    BY <1>2
  <2> QED BY <1>1, <1>2, <2>1 DEF u
<1>5. ToSet(s) \subseteq ToSet(u)
  BY <1>3 DEF ToSet
<1>6. ToSet(t) \subseteq ToSet(u)
  BY <1>4 DEF ToSet
<1> QED BY <1>1, <1>5, <1>6 DEF u

\* The elements of the lists are elements of the flattened list.
LEMMA FlattenSeqFacts ==
  ASSUME NEW S, NEW ss \in Seq(Seq(S)), ss # << >>
  PROVE  /\ FlattenSeq(ss) \in Seq(S)
         /\ \A i \in 1 .. Len(ss) : ToSet(ss[i]) \subseteq ToSet(FlattenSeq(ss))
<1> DEFINE n == Len(ss)
           F == CHOOSE F : Flattened(ss, n, F)
<1>1. n \in Nat \ {0} /\ \A i \in 1 .. n : ss[i] \in Seq(S)
  BY LenProperties, ElementOfSeq, EmptySeq
<1>2. Flattened(ss, n, F)
  <2>1. \E G : Flattened(ss, n, G)
    BY <1>1, FlattenedExists
  <2> QED BY <2>1
<1>3. FlattenSeq(ss) = F[n]
  BY <1>1 DEF FlattenSeq, Flattened
<1> HIDE DEF F
<1> DEFINE Good(m) == F[m] \in Seq(S) /\ \A i \in 1 .. m : ToSet(ss[i]) \subseteq ToSet(F[m])
           G == {m \in 0 .. n : m = 0 \/ Good(m)}
<1>4. \A k \in 1 .. n : F[k] = IF k = 1 THEN ss[k] ELSE F[k - 1] \o ss[k]
  BY <1>2 DEF Flattened
<1>5. ASSUME NEW k \in 0 .. n - 1, k \in G PROVE k + 1 \in G
  <2>1. k + 1 \in 1 .. n /\ k + 1 \in 0 .. n /\ k + 1 - 1 = k /\ ss[k + 1] \in Seq(S)
    BY <1>1
  <2>2. CASE k = 0
    <3>1. F[1] = ss[1] /\ ss[1] \in Seq(S)
      BY <1>4, <2>1, <2>2
    <3>2. \A i \in 1 .. 1 : i = 1
      OBVIOUS
    <3>3. Good(1)
      BY <3>1, <3>2
    <3> HIDE DEF Good
    <3> QED BY <2>1, <2>2, <3>3
  <2>3. CASE k # 0
    <3> DEFINE s == F[k]
               t == ss[k + 1]
    <3>1. F[k + 1] = s \o t
      <4> DEFINE j == k + 1
      <4>1. j \in 1 .. n /\ j # 1 /\ j - 1 = k
        BY <2>1, <2>3
      <4> HIDE DEF j
      <4>2. F[j] = F[j - 1] \o ss[j]
        BY <1>4, <4>1
      <4>3. F[j] = F[k] \o ss[j]
        BY <4>1, <4>2
      <4> QED BY <4>3 DEF j
    <3>2. s \in Seq(S) /\ t \in Seq(S) /\ \A i \in 1 .. k : ToSet(ss[i]) \subseteq ToSet(s)
      BY <1>5, <2>1, <2>3
    <3> HIDE DEF s, t
    <3>3. /\ s \o t \in Seq(S) /\ ToSet(s) \subseteq ToSet(s \o t)
          /\ ToSet(t) \subseteq ToSet(s \o t)
      BY <3>2, ConcatMembers
    <3>4. \A i \in 1 .. k + 1 : ToSet(ss[i]) \subseteq ToSet(s \o t)
      <4> TAKE i \in 1 .. k + 1
      <4>1. i \in 1 .. k \/ i = k + 1
        OBVIOUS
      <4>2. ToSet(ss[k + 1]) \subseteq ToSet(s \o t)
        BY <3>3 DEF t
      <4> QED BY <3>2, <3>3, <4>1, <4>2
    <3>5. Good(k + 1)
      BY <3>1, <3>3, <3>4
    <3> HIDE DEF Good
    <3> QED BY <2>1, <3>5
  <2> QED BY <2>2, <2>3
<1>6. n \in G
  <2>1. 0 \in G
    BY <1>1
  <2>2. n \in Nat
    BY <1>1
  <2> HIDE DEF G, n
  <2>3. \A k \in 0 .. n : k \in G
    BY <1>5, <2>1, <2>2, UpTo
  <2> QED BY <2>2, <2>3
<1>7. Good(n)
  BY <1>1, <1>6
<1> QED BY <1>3, <1>7

-------------------------------------------------------------------------------
(* Names *)

\* What set_instr_name goes over is a list of values.
Item == [prefix : {"arg", "label", "op"}, value : Value \cup {<<"block", b>> : b \in Block}]

\* A list of values under one prefix.
LEMMA NamedFacts ==
  ASSUME NEW V, V \subseteq Value \cup {<<"block", b>> : b \in Block}, NEW s \in Seq(V),
         NEW prefix \in {"arg", "label", "op"}
  PROVE  /\ Named(prefix, s) \in Seq(Item)
         /\ \A k \in DOMAIN s : \E e \in ToSet(Named(prefix, s)) : e.value = s[k]
<1> DEFINE r == Named(prefix, s)
           W == Value \cup {<<"block", b>> : b \in Block}
<1>1. DOMAIN s = 1 .. Len(s) /\ Len(s) \in Nat /\ \A k \in 1 .. Len(s) : s[k] \in W
  BY LenProperties, ElementOfSeq
<1>2. r = [k \in 1 .. Len(s) |-> [prefix |-> prefix, value |-> s[k]]]
  BY <1>1 DEF Named
<1> HIDE DEF r
<1>3. \A k \in 1 .. Len(s) : r[k] \in Item /\ r[k].value = s[k]
  <2> HIDE DEF W
  <2>1. Item = [prefix : {"arg", "label", "op"}, value : W]
    BY DEF Item, W
  <2> QED BY <1>1, <1>2, <2>1
<1>4. r = [k \in 1 .. Len(s) |-> r[k]]
  BY <1>2
<1>5. r \in Seq(Item)
  BY <1>1, <1>3, <1>4, IsASeq
<1>6. DOMAIN r = 1 .. Len(s)
  BY <1>2
<1> QED BY <1>1, <1>3, <1>5, <1>6 DEF ToSet, r

\* The fields, as f gives them, of the instructions at some positions.
LEMMA FieldsFacts ==
  ASSUME NEW is \in Seq(Instruction), NEW T, NEW f, \A i \in T \cap DOMAIN is : f[is[i]] \in Value
  PROVE  LET chosen == Selected(is, T)
             s == [k \in DOMAIN chosen |-> f[chosen[k]]]
         IN  /\ s \in Seq(Value)
             /\ \A i \in T \cap DOMAIN is : \E k \in DOMAIN s : s[k] = f[is[i]]
<1> DEFINE chosen == Selected(is, T)
           s == [k \in DOMAIN chosen |-> f[chosen[k]]]
<1>1. /\ chosen \in Seq(Instruction) /\ ToSet(chosen) = {is[i] : i \in T \cap DOMAIN is}
  BY SelectedFacts
<1> HIDE DEF chosen
<1>2. DOMAIN chosen = 1 .. Len(chosen) /\ Len(chosen) \in Nat
  BY <1>1, LenProperties
<1>3. \A k \in 1 .. Len(chosen) : f[chosen[k]] \in Value
  <2> TAKE k \in 1 .. Len(chosen)
  <2>1. chosen[k] \in ToSet(chosen)
    BY <1>2 DEF ToSet
  <2> QED BY <1>1, <2>1
<1>4. s = [k \in 1 .. Len(chosen) |-> f[chosen[k]]]
  BY <1>2
<1>5. s \in Seq(Value)
  <2>1. \A k \in 1 .. Len(chosen) : s[k] \in Value
    BY <1>3, <1>4
  <2>2. s = [k \in 1 .. Len(chosen) |-> s[k]]
    BY <1>4
  <2> HIDE DEF s
  <2> QED BY <1>2, <2>1, <2>2, IsASeq
<1>6. ASSUME NEW i \in T \cap DOMAIN is PROVE \E k \in DOMAIN s : s[k] = f[is[i]]
  <2>1. is[i] \in ToSet(chosen)
    BY <1>1
  <2>2. PICK k \in DOMAIN chosen : chosen[k] = is[i]
    BY <2>1 DEF ToSet
  <2> QED BY <2>2
<1> QED BY <1>5, <1>6 DEF chosen

\* The results of a block are those of its loads and phis.
LEMMA ResultsFacts ==
  ASSUME NEW b \in Block, code[b] \in Seq(Instruction)
  PROVE  /\ Results(b) \in Seq(Value)
         /\ \A i \in Is("load", code[b]) \cup Is("phi", code[b]) :
              \E k \in DOMAIN Results(b) : Results(b)[k] = code[b][i].id
<1> DEFINE is == code[b]
           T == Is("load", is) \cup Is("phi", is)
           chosen == Selected(is, T)
           f == [i \in Instruction |-> i.id]
           s == [k \in DOMAIN chosen |-> f[chosen[k]]]
<1>1. T \cap DOMAIN is = T
  BY DEF Is
<1>2. ASSUME NEW i \in T PROVE f[is[i]] = is[i].id /\ is[i].id \in Value
  <2>1. is[i] \in Instruction
    BY ElementOfSeq, LenProperties DEF Is
  <2>2. is[i].op \in {"load", "phi"}
    BY DEF Is
  <2> QED BY <2>1, <2>2, InstructionFacts
<1>3. s = Results(b)
  <2>1. chosen \in Seq(Instruction)
    BY SelectedFacts
  <2>2. \A k \in DOMAIN chosen : chosen[k] \in Instruction
    <3> HIDE DEF chosen
    <3> QED BY <2>1, ElementOfSeq, LenProperties
  <2>3. Results(b) = [k \in DOMAIN chosen |-> chosen[k].id]
    BY DEF Results
  <2> HIDE DEF chosen
  <2> QED BY <2>2, <2>3
<1> HIDE DEF f, T, is
<1>4. \A i \in T \cap DOMAIN is : f[is[i]] \in Value
  BY <1>1, <1>2
<1>5. is \in Seq(Instruction)
  BY DEF is
<1>6. /\ s \in Seq(Value)
      /\ \A i \in T \cap DOMAIN is : \E k \in DOMAIN s : s[k] = f[is[i]]
  BY <1>4, <1>5, FieldsFacts
<1> HIDE DEF s
<1> QED BY <1>1, <1>2, <1>3, <1>6 DEF T, is

\* Every load and every phi is in the list.
LEMMA ListedFacts ==
  ASSUME SInv
  PROVE  /\ Listed \in Seq(Item)
         /\ \A b \in Block : \A i \in Is("load", code[b]) \cup Is("phi", code[b]) :
              \E e \in ToSet(Listed) : e.value = code[b][i].id
<1>1. /\ fn \in Functions /\ code \in [Block -> Seq(Instruction)]
      /\ fn.body \in [Block -> Seq(Instruction)] /\ Entry \in Block
  BY Bodies, Graph DEF SInv, Typed
<1>2. arguments_ \in Seq(Value)
  <2> DEFINE is == fn.body[Entry]
             T == {k \in Is("store", is) : is[k].val[1] = "const"}
             chosen == Selected(is, T)
             f == [i \in Instruction |-> i.val]
             s == [k \in DOMAIN chosen |-> f[chosen[k]]]
  <2>1. is \in Seq(Instruction)
    BY <1>1
  <2>2. ASSUME NEW i \in T \cap DOMAIN is PROVE f[is[i]] \in Value
    <3>1. is[i] \in Instruction /\ is[i].op = "store"
      BY <2>1, ElementOfSeq, LenProperties DEF Is
    <3> QED BY <3>1, InstructionFacts
  <2>3. s = arguments_
    <3>1. chosen \in Seq(Instruction)
      BY <2>1, SelectedFacts
    <3>2. \A k \in DOMAIN chosen : chosen[k] \in Instruction
      <4> HIDE DEF chosen
      <4> QED BY <3>1, ElementOfSeq, LenProperties
    <3>3. arguments_ = [k \in DOMAIN chosen |-> chosen[k].val]
      BY DEF arguments_
    <3> HIDE DEF chosen
    <3> QED BY <3>2, <3>3
  <2> HIDE DEF f, T, is
  <2>4. s \in Seq(Value)
    BY <2>1, <2>2, FieldsFacts
  <2> QED BY <2>3, <2>4
<1>3. ASSUME NEW b \in Block
      PROVE  /\ ListedIn(b) \in Seq(Item)
             /\ \A i \in Is("load", code[b]) \cup Is("phi", code[b]) :
                  \E e \in ToSet(ListedIn(b)) : e.value = code[b][i].id
  <2> DEFINE label == IF b = Entry THEN << >> ELSE <<<<"block", b>>>>
             s == Named("label", label)
             t == Named("op", Results(b))
  <2>1. label \in Seq({<<"block", b>>})
    OBVIOUS
  <2> HIDE DEF label
  <2>2. s \in Seq(Item)
    BY <2>1, NamedFacts
  <2>3. /\ Results(b) \in Seq(Value)
        /\ \A i \in Is("load", code[b]) \cup Is("phi", code[b]) :
             \E k \in DOMAIN Results(b) : Results(b)[k] = code[b][i].id
    BY <1>1, ResultsFacts
  <2>4. /\ t \in Seq(Item)
        /\ \A k \in DOMAIN Results(b) : \E e \in ToSet(t) : e.value = Results(b)[k]
    BY <2>3, NamedFacts
  <2>5. ListedIn(b) = s \o t
    BY DEF ListedIn, label
  <2> HIDE DEF s, t
  <2>6. s \o t \in Seq(Item) /\ ToSet(t) \subseteq ToSet(s \o t)
    BY <2>2, <2>4, ConcatMembers
  <2> QED BY <2>3, <2>4, <2>5, <2>6
<1> DEFINE ss == [b \in Block |-> ListedIn(b)]
           all == FlattenSeq(ss)
           args == Named("arg", arguments_)
<1>4. Block = 1 .. Len(fn.succ) /\ Len(fn.succ) \in Nat
  <2>1. fn.succ \in Seq(Seq(Block))
    BY <1>1, FunctionsAssumption DEF Block
  <2> QED BY <2>1, LenProperties DEF Block
<1>5. ss \in Seq(Seq(Item)) /\ ss # << >> /\ Len(ss) = Len(fn.succ)
  <2>1. \A b \in 1 .. Len(fn.succ) : ss[b] \in Seq(Item)
    BY <1>3, <1>4
  <2>2. ss = [b \in 1 .. Len(fn.succ) |-> ss[b]]
    BY <1>4
  <2>3. ss \in Seq(Seq(Item)) /\ Len(ss) = Len(fn.succ)
    <3> HIDE DEF ss
    <3> QED BY <1>4, <2>1, <2>2, IsASeq
  <2>4. Len(fn.succ) # 0
    BY <1>1, <1>4
  <2> QED BY <2>3, <2>4
<1>6. \A b \in Block : ss[b] = ListedIn(b)
  OBVIOUS
<1> HIDE DEF ss
<1>7. all \in Seq(Item) /\ \A b \in Block : ToSet(ListedIn(b)) \subseteq ToSet(all)
  BY <1>4, <1>5, <1>6, FlattenSeqFacts
<1>8. args \in Seq(Item)
  BY <1>2, NamedFacts
<1>9. Listed = args \o all
  BY DEF Listed, ss
<1> HIDE DEF args, all
<1>10. args \o all \in Seq(Item) /\ ToSet(all) \subseteq ToSet(args \o all)
  BY <1>7, <1>8, ConcatMembers
<1> QED BY <1>3, <1>7, <1>9, <1>10

\* Names are given once, with numbers below seq_cnt_; the pass starts when what the
\* builder made has its names, and what is printed has names.
Numbered ==
  /\ seq_cnt_ \in Nat
  /\ \A v \in DOMAIN name_ : name_[v][2] \in Nat /\ name_[v][2] < seq_cnt_
  /\ \A v, w \in DOMAIN name_ : name_[v] = name_[w] => v = w
NamedInTime ==
  /\ seq_cnt_ = 0 => code = fn.body /\ phase = "variable"
  /\ seq_cnt_ > 0 => LoadIds \subseteq DOMAIN name_
  /\ printed => /\ phase = "done"
                /\ \A b \in Block : \A i \in Is("phi", code[b]) : code[b][i].id \in DOMAIN name_
NInv == SInv /\ KInv /\ Numbered /\ NamedInTime

\* What a round of naming does.
LEMMA RoundFacts ==
  ASSUME SInv, Numbered, set_instr_name
  PROVE  /\ Numbered' /\ DOMAIN name_ \subseteq DOMAIN name_' /\ seq_cnt_ <= seq_cnt_'
         /\ \A b \in Block : \A i \in Is("load", code[b]) \cup Is("phi", code[b]) :
              code[b][i].id \in DOMAIN name_'
<1> DEFINE all == Listed
           T == {k \in DOMAIN all : all[k].value \notin DOMAIN name_}
           new == Selected(all, T)
           given == {new[k].value : k \in DOMAIN new}
           at(v) == CHOOSE n \in DOMAIN new : new[n].value = v
           names == [v \in DOMAIN name_ \cup given |->
                       LET n == CHOOSE n \in DOMAIN new : new[n].value = v
                       IN  IF v \in DOMAIN name_ THEN name_[v] ELSE <<new[n].prefix, Number(n)>>]
<1>1. name_' = names /\ seq_cnt_' = seq_cnt_ + Len(new)
  BY DEF set_instr_name
<1>2. /\ all \in Seq(Item)
      /\ \A b \in Block : \A i \in Is("load", code[b]) \cup Is("phi", code[b]) :
           \E e \in ToSet(all) : e.value = code[b][i].id
  BY ListedFacts
<1> HIDE DEF all
<1>3. new \in Seq(Item) /\ ToSet(new) = {all[k] : k \in T}
  <2>1. T \cap DOMAIN all = T
    OBVIOUS
  <2> HIDE DEF T
  <2> QED BY <1>2, <2>1, SelectedFacts
<1> HIDE DEF new
<1>4. DOMAIN new = 1 .. Len(new) /\ Len(new) \in Nat
  BY <1>3, LenProperties
<1>5. \A v \in given : at(v) \in DOMAIN new /\ new[at(v)].value = v
  OBVIOUS
<1>6. given \cap DOMAIN name_ = {}
  <2>1. \A k \in DOMAIN new : new[k] \in ToSet(new)
    BY DEF ToSet
  <2> QED BY <1>3, <2>1
<1>7. \A v \in given : names[v] = <<new[at(v)].prefix, at(v) - 1 + seq_cnt_>>
  BY <1>6 DEF Number
<1> HIDE DEF at
<1>8. /\ DOMAIN name_' = given \cup DOMAIN name_
      /\ \A v \in DOMAIN name_ : name_'[v] = name_[v]
  BY <1>1
<1> HIDE DEF names
<1>9. \A e \in ToSet(all) : e.value \in DOMAIN name_'
  <2> TAKE e \in ToSet(all)
  <2>1. PICK k \in DOMAIN all : e = all[k]
    BY DEF ToSet
  <2>2. CASE all[k].value \in DOMAIN name_
    BY <1>8, <2>1, <2>2
  <2>3. CASE all[k].value \notin DOMAIN name_
    <3>1. e \in ToSet(new)
      BY <1>3, <2>1, <2>3
    <3>2. e.value \in given
      BY <3>1 DEF ToSet
    <3> QED BY <1>8, <3>2
  <2> QED BY <2>2, <2>3
<1> HIDE DEF given
<1>10. \A v \in given : /\ name_'[v][2] = at(v) - 1 + seq_cnt_ /\ at(v) \in 1 .. Len(new)
                        /\ name_'[v][2] \in Nat /\ name_'[v][2] < seq_cnt_' /\ name_'[v][2] >= seq_cnt_
  <2> TAKE v \in given
  <2>1. name_'[v] = <<new[at(v)].prefix, at(v) - 1 + seq_cnt_>> /\ at(v) \in 1 .. Len(new)
    BY <1>1, <1>4, <1>5, <1>7
  <2>2. name_'[v][2] = at(v) - 1 + seq_cnt_
    BY <2>1
  <2> QED BY <1>1, <1>4, <2>1, <2>2 DEF Numbered
<1>11. \A v \in DOMAIN name_ : name_'[v] = name_[v]
  BY <1>8
<1>12. seq_cnt_' \in Nat /\ seq_cnt_ <= seq_cnt_'
  BY <1>1, <1>4 DEF Numbered
<1>13. \A v \in DOMAIN name_ : name_'[v][2] \in Nat /\ name_'[v][2] < seq_cnt_
  BY <1>11 DEF Numbered
<1>14. ASSUME NEW v \in DOMAIN name_', NEW w \in DOMAIN name_', name_'[v] = name_'[w]
       PROVE  v = w
  <2>1. name_'[v][2] = name_'[w][2]
    BY <1>14
  <2>2. CASE v \in given /\ w \in given
    <3>1. at(v) = at(w)
      BY <1>10, <2>1, <2>2 DEF Numbered
    <3> QED BY <1>5, <2>2, <3>1
  <2>3. CASE v \in DOMAIN name_ /\ w \in DOMAIN name_
    BY <1>11, <1>14, <2>3 DEF Numbered
  <2>4. CASE v \in given /\ w \in DOMAIN name_
    BY <1>10, <1>13, <2>1, <2>4 DEF Numbered
  <2>5. CASE v \in DOMAIN name_ /\ w \in given
    BY <1>10, <1>13, <2>1, <2>5 DEF Numbered
  <2> QED BY <1>8, <2>2, <2>3, <2>4, <2>5
<1>15. ASSUME NEW v \in DOMAIN name_' PROVE name_'[v][2] \in Nat /\ name_'[v][2] < seq_cnt_'
  <2>1. CASE v \in given
    BY <1>10, <2>1
  <2>2. CASE v \in DOMAIN name_
    BY <1>12, <1>13, <2>2 DEF Numbered
  <2> QED BY <1>8, <2>1, <2>2
<1>16. Numbered'
  BY <1>12, <1>14, <1>15 DEF Numbered
<1> QED BY <1>2, <1>8, <1>9, <1>12, <1>16

\* The pass leaves names and the function as it was made alone, and is not run again.
LEMMA NextKeeps ==
  ASSUME Next
  PROVE  fn' = fn /\ phase # "done"
BY DEF Next, ChooseVariable, TakeWork, Descend, VariableDone, Rename, ReplaceLoad, PushStore,
       SkipInstr, FillPhis, Leave, RemoveAllocas, Working, Renaming

\* Every step around the pass, and of it, keeps NInv.
LEMMA NextNInv ==
  ASSUME NInv, [NamesNext]_<<vars, run, naming>>
  PROVE  NInv'
<1>1. SInv /\ KInv /\ Numbered /\ NamedInTime
  BY DEF NInv
<1>2. [Next]_vars
  BY DEF NamesNext, Compile, SetPrintName, PrintFunction, RunBlock
<1>3. SInv' /\ KInv'
  BY <1>1, <1>2, NextSInv, NextKnown
<1>4. ASSUME fn' = fn PROVE LoadIds' = LoadIds /\ Block' = Block
  BY <1>4 DEF LoadIds, Block
<1>5. CASE SetPrintName
  <2>1. /\ seq_cnt_ = 0 /\ phase = "variable" /\ set_instr_name /\ printed' = printed
        /\ fn' = fn /\ code' = code /\ phase' = phase
    BY <1>5 DEF SetPrintName, vars
  <2>2. /\ Numbered' /\ seq_cnt_ <= seq_cnt_'
        /\ \A b \in Block : \A i \in Is("load", code[b]) \cup Is("phi", code[b]) :
              code[b][i].id \in DOMAIN name_'
    BY <1>1, <2>1, RoundFacts
  <2>3. code = fn.body /\ ~ printed
    BY <1>1, <2>1 DEF NamedInTime
  <2>4. LoadIds \subseteq DOMAIN name_'
    BY <2>2, <2>3 DEF LoadIds
  <2>5. NamedInTime'
    BY <1>4, <2>1, <2>3, <2>4 DEF NamedInTime
  <2> QED BY <1>3, <2>2, <2>5 DEF NInv
<1>6. CASE PrintFunction
  <2>1. phase = "done" /\ set_instr_name /\ fn' = fn /\ code' = code /\ phase' = phase
    BY <1>6 DEF PrintFunction, vars
  <2>2. /\ Numbered' /\ seq_cnt_ <= seq_cnt_' /\ DOMAIN name_ \subseteq DOMAIN name_'
        /\ \A b \in Block : \A i \in Is("load", code[b]) \cup Is("phi", code[b]) :
              code[b][i].id \in DOMAIN name_'
    BY <1>1, <2>1, RoundFacts
  <2>3. seq_cnt_ > 0 /\ seq_cnt_' > 0
    BY <1>1, <2>1, <2>2 DEF NamedInTime, Numbered
  <2>4. LoadIds' \subseteq DOMAIN name_'
    BY <1>1, <1>4, <2>1, <2>2, <2>3 DEF NamedInTime
  <2>5. NamedInTime'
    BY <1>4, <2>1, <2>2, <2>3, <2>4 DEF NamedInTime
  <2> QED BY <1>3, <2>2, <2>5 DEF NInv
<1>7. CASE seq_cnt_ > 0 /\ Next /\ UNCHANGED <<run, naming>>
  <2>1. name_' = name_ /\ seq_cnt_' = seq_cnt_ /\ printed' = printed
    BY <1>7 DEF naming
  <2>2. fn' = fn /\ ~ printed
    BY <1>1, <1>7, NextKeeps DEF NamedInTime
  <2>3. Numbered'
    BY <1>1, <2>1 DEF Numbered
  <2>4. NamedInTime'
    BY <1>1, <1>4, <1>7, <2>1, <2>2 DEF NamedInTime, Numbered
  <2> QED BY <1>3, <2>3, <2>4 DEF NInv
<1>8. CASE UNCHANGED vars /\ UNCHANGED naming
  <2>1. /\ name_' = name_ /\ seq_cnt_' = seq_cnt_ /\ printed' = printed
        /\ fn' = fn /\ code' = code /\ phase' = phase
    BY <1>8 DEF naming, vars
  <2>2. Numbered'
    BY <1>1, <2>1 DEF Numbered
  <2>3. NamedInTime'
    BY <1>1, <1>4, <2>1 DEF NamedInTime
  <2> QED BY <1>3, <2>2, <2>3 DEF NInv
<1> QED BY <1>5, <1>6, <1>7, <1>8 DEF NamesNext, Compile, RunBlock

\* At the start nothing has a name.
LEMMA InitNInv ==
  ASSUME NamesInit
  PROVE  NInv
<1>1. /\ Init /\ name_ = << >> /\ seq_cnt_ = 0 /\ printed = FALSE
      /\ code = fn.body /\ phase = "variable"
  BY DEF NamesInit, RunInit, Init
<1>2. DOMAIN name_ = {}
  BY <1>1
<1>3. Numbered
  BY <1>1, <1>2 DEF Numbered
<1>4. NamedInTime
  BY <1>1 DEF NamedInTime
<1> QED BY <1>1, <1>3, <1>4, InitSInv, InitKnown DEF NInv

\* And then the names are as they should be.
LEMMA NInvApart ==
  ASSUME NInv
  PROVE  NamedApart
<1>1. SInv /\ KInv /\ Numbered /\ NamedInTime
  BY DEF NInv
<1>2. ASSUME printed, NEW b \in Block, NEW i \in Instrs(b), NEW v \in Operands(i)
      PROVE  v[1] = "const" \/ v \in DOMAIN name_
  <2>1. PICK j \in DOMAIN code[b] : i = code[b][j]
    BY DEF Instrs, ToSet
  <2>2. i \in Instruction
    <3>1. code[b] \in Seq(Instruction)
      BY <1>1 DEF SInv, Typed
    <3> QED BY <2>1, <3>1, ElementOfSeq, LenProperties
  <2>3. Known(v)
    <3>1. CASE i.op \in {"store", "use"}
      <4>1. v = i.val
        BY <3>1 DEF Operands
      <4> QED BY <1>1, <2>1, <3>1, <4>1 DEF KInv, OperandsKnown
    <3>2. CASE i.op = "phi"
      <4>1. v \in {pair[1] : pair \in ToSet(i.pairs)}
        BY <1>2, <3>2 DEF Operands
      <4>2. PICK k \in DOMAIN i.pairs : v = i.pairs[k][1]
        BY <4>1 DEF ToSet
      <4> QED BY <1>1, <2>1, <3>2, <4>2 DEF KInv, OperandsKnown
    <3>3. CASE i.op = "load"
      BY <1>2, <3>3 DEF Operands
    <3> QED BY <2>2, <3>1, <3>2, <3>3, InstructionFacts
  <2>4. seq_cnt_ > 0
    BY <1>1, <1>2 DEF NamedInTime, Numbered
  <2> QED BY <1>1, <1>2, <2>3, <2>4 DEF Known, Settled, NamedInTime
<1> QED BY <1>1, <1>2 DEF NamedApart, Numbered

\* No two values have the same name, also of those that the pass deletes between the two
\* rounds of naming, and nothing that is printed mentions a value without one.
THEOREM NamesDiffer == NamesSpec => []NamedApart
<1>1. NamesInit => NInv
  BY InitNInv
<1>2. NInv /\ [NamesNext]_<<vars, run, naming>> => NInv'
  BY NextNInv
<1>3. NInv => NamedApart
  BY NInvApart
<1> QED BY <1>1, <1>2, <1>3, PTL DEF NamesSpec
===============================================================================
