---------------------------- MODULE UseListsProofs ----------------------------
(***************************************************************************)
(* Proofs about UseLists, for any sets of instructions and leaves.         *)
(***************************************************************************)
EXTENDS UseLists, TLAPS

-------------------------------------------------------------------------------
(* Typing *)

\* What kind of thing each set of values contains.
LEMMA Kinds ==
  /\ Data \subseteq Value /\ Alloca \subseteq Value /\ Leaf \subseteq Value
  /\ Const \subseteq Data /\ Label \subseteq Leaf /\ Const \subseteq Leaf
  /\ Load \cup Pure \cup Phi \subseteq Data
  /\ Alloca \cup Load \cup Store \cup Phi \cup Pure \cup Void = Instr
  /\ \A v \in Value : v \notin Store /\ v \notin Void
  /\ \A v \in Data : v \notin Alloca
BY KindsDisjoint DEF Value, Data, Leaf, Instr, Disjoint

\* Building an instruction creates it with a sequence of live values.
LEMMA BuildCreates ==
  ASSUME Build
  PROVE  \E u \in Instr, ops \in Seq(Value) :
           /\ Create(u, ops)
           /\ \A i \in DOMAIN ops : ops[i] \in Live
<1>1. CASE \E u \in Alloca : CreateAlloca(u)
  <2>1. PICK u \in Alloca : Create(u, << >>)
    BY <1>1 DEF CreateAlloca
  <2>2. << >> \in Seq(Value) /\ DOMAIN << >> = {}
    OBVIOUS
  <2> QED BY <2>1, <2>2, Kinds
<1>2. CASE \E u \in Load, a \in Alloca : CreateLoad(u, a)
  <2>1. PICK u \in Load, a \in Alloca : CreateLoad(u, a)
    BY <1>2
  <2>2. <<a>> \in Seq(Value) /\ \A i \in DOMAIN <<a>> : <<a>>[i] \in Live
    BY <2>1, Kinds DEF CreateLoad
  <2> QED BY <2>1, <2>2, Kinds DEF CreateLoad
<1>3. CASE \E u \in Store, v \in Data, a \in Alloca : CreateStore(u, v, a)
  <2>1. PICK u \in Store, v \in Data, a \in Alloca : CreateStore(u, v, a)
    BY <1>3
  <2>2. <<v, a>> \in Seq(Value) /\ \A i \in DOMAIN <<v, a>> : <<v, a>>[i] \in Live
    BY <2>1, Kinds DEF CreateStore
  <2> QED BY <2>1, <2>2, Kinds DEF CreateStore
<1>4. CASE \E u \in Pure, v, w \in Data : CreatePure(u, v, w)
  <2>1. PICK u \in Pure, v \in Data, w \in Data : CreatePure(u, v, w)
    BY <1>4
  <2>2. <<v, w>> \in Seq(Value) /\ \A i \in DOMAIN <<v, w>> : <<v, w>>[i] \in Live
    BY <2>1, Kinds DEF CreatePure
  <2> QED BY <2>1, <2>2, Kinds DEF CreatePure
<1>5. CASE \E u \in Void, v \in Data, b \in Label : CreateVoid(u, v, b)
  <2>1. PICK u \in Void, v \in Data, b \in Label : CreateVoid(u, v, b)
    BY <1>5
  <2>2. <<v, b>> \in Seq(Value) /\ \A i \in DOMAIN <<v, b>> : <<v, b>>[i] \in Live
    BY <2>1, Kinds DEF CreateVoid, Live
  <2> QED BY <2>1, <2>2, Kinds DEF CreateVoid
<1> QED BY <1>1, <1>2, <1>3, <1>4, <1>5 DEF Build

\* Registering operands keeps the use lists well typed.
LEMMA RegisteredType ==
  ASSUME TypeOK, NEW u \in Instr, NEW ops \in Seq(Value), NEW n \in Nat
  PROVE  Registered(u, ops, n) \in [Value -> SUBSET (Instr \X (Nat \ {0}))]
<1>1. \A i \in DOMAIN ops : i \in Nat \ {0}
  OBVIOUS
<1> QED BY <1>1 DEF TypeOK, Registered

\* replace_all_use_with keeps operands and use lists well typed.
LEMMA ReplaceType ==
  ASSUME TypeOK, NEW old \in Value, NEW new \in Value,
         replace_all_use_with(old, new)
  PROVE  /\ operands' \in [Instr -> Seq(Value)]
         /\ \A u \in Instr : DOMAIN operands'[u] = DOMAIN operands[u]
         /\ \A u \in Instr : \A i \in DOMAIN operands[u] :
              operands'[u][i] = IF <<u, i>> \in uses[old] THEN new ELSE operands[u][i]
         /\ uses' \in [Value -> SUBSET (Instr \X (Nat \ {0}))]
         /\ replaced' \in SUBSET Value
<1> DEFINE repl(u) == [i \in DOMAIN operands[u] |->
                         IF <<u, i>> \in uses[old] THEN new ELSE operands[u][i]]
<1>1. operands' = [u \in Instr |-> repl(u)]
  BY DEF replace_all_use_with
<1>2. ASSUME NEW u \in Instr PROVE repl(u) \in Seq(Value)
  <2>1. operands[u] \in Seq(Value)
    BY DEF TypeOK
  <2>2. /\ DOMAIN operands[u] = 1 .. Len(operands[u]) /\ Len(operands[u]) \in Nat
        /\ \A i \in DOMAIN operands[u] : operands[u][i] \in Value
    BY <2>1
  <2>3. repl(u) \in [1 .. Len(operands[u]) -> Value]
    BY <2>2
  <2> QED BY <2>2, <2>3
<1>3. operands' \in [Instr -> Seq(Value)]
  BY <1>1, <1>2
<1>4. /\ \A u \in Instr : DOMAIN operands'[u] = DOMAIN operands[u]
      /\ \A u \in Instr : \A i \in DOMAIN operands[u] :
           operands'[u][i] = IF <<u, i>> \in uses[old] THEN new ELSE operands[u][i]
  BY <1>1
<1>5. /\ uses' \in [Value -> SUBSET (Instr \X (Nat \ {0}))]
      /\ replaced' \in SUBSET Value
  BY DEF TypeOK, replace_all_use_with
<1> QED BY <1>3, <1>4, <1>5

\* delete_instr keeps use lists and places well typed.
LEMMA DeleteType ==
  ASSUME TypeOK, NEW u \in Instr, NEW where \in {"removed", "moving"},
         delete_instr(u, where)
  PROVE  /\ place' \in [Instr -> {"fresh", "placed", "removed", "moving"}]
         /\ uses' \in [Value -> SUBSET (Instr \X (Nat \ {0}))]
BY DEF TypeOK, delete_instr, remove_use_of_ops

\* Every step keeps the state well typed.
LEMMA TypeStep == TypeOK /\ [Next]_vars => TypeOK'
<1> SUFFICES ASSUME TypeOK, [Next]_vars PROVE TypeOK'
  OBVIOUS
<1>1. ASSUME Build PROVE TypeOK'
  <2>1. PICK u \in Instr, ops \in Seq(Value) : Create(u, ops)
    BY <1>1, BuildCreates
  <2>3. uses' \in [Value -> SUBSET (Instr \X (Nat \ {0}))]
    BY <2>1, RegisteredType DEF Create
  <2> QED BY <2>1, <2>3 DEF TypeOK, Create
<1>2. ASSUME NEW u \in Instr, InsertPhi(u) PROVE TypeOK'
  BY <1>2 DEF TypeOK, InsertPhi
<1>3. ASSUME NEW u \in Instr, DropStore(u) PROVE TypeOK'
  BY <1>3 DEF TypeOK, DropStore, Placed
<1>4. ASSUME NEW u \in Instr, RemoveAlloca(u) PROVE TypeOK'
  BY <1>4, DeleteType DEF TypeOK, RemoveAlloca
<1>5. ASSUME NEW u \in Instr, DeleteWaiting(u) PROVE TypeOK'
  BY <1>5, DeleteType DEF TypeOK, DeleteWaiting
<1>6. ASSUME NEW u \in Instr, HoistDelete(u) PROVE TypeOK'
  BY <1>6, DeleteType DEF TypeOK, HoistDelete
<1>7. ASSUME NEW u \in Instr, HoistInsert(u) PROVE TypeOK'
  BY <1>7 DEF TypeOK, HoistInsert
<1>8. ASSUME NEW p \in Phi, NEW v \in Data, NEW b \in Label, FillPhi(p, v, b) PROVE TypeOK'
  <2>1. p \in Instr /\ v \in Value /\ b \in Value
    BY KindsDisjoint DEF Instr, Data, Value, Leaf, Disjoint
  <2>2. operands[p] \in Seq(Value) /\ Len(operands[p]) \in Nat
    BY <2>1 DEF TypeOK
  <2>3. operands[p] \o <<v, b>> \in Seq(Value)
    BY <2>1, <2>2
  <2>4. uses' \in [Value -> SUBSET (Instr \X (Nat \ {0}))]
    BY <1>8, <2>1, RegisteredType, <2>2, <2>3 DEF FillPhi
  <2> QED BY <1>8, <2>1, <2>3, <2>4 DEF TypeOK, FillPhi
<1>9. ASSUME NEW l \in Load, NEW v \in Data, ReplaceLoad(l, v) PROVE TypeOK'
  <2>1. l \in Instr /\ l \in Value /\ v \in Value
    BY KindsDisjoint DEF Instr, Data, Value, Leaf, Disjoint
  <2> QED BY <1>9, <2>1, ReplaceType DEF TypeOK, ReplaceLoad
<1>10. ASSUME NEW u \in Pure, NEW c \in Const, Fold(u, c) PROVE TypeOK'
  <2>1. u \in Instr /\ u \in Value /\ c \in Value
    BY KindsDisjoint DEF Instr, Data, Value, Leaf, Disjoint
  <2> QED BY <1>10, <2>1, ReplaceType DEF TypeOK, Fold
<1>11. ASSUME EndPhase PROVE TypeOK'
  <2>1. PICK k \in 1 .. Len(Phases) - 1 : phase' = Phases[k + 1]
    BY <1>11 DEF EndPhase
  <2>2. k + 1 \in 1 .. Len(Phases)
    BY DEF Phases
  <2> QED BY <1>11, <2>1, <2>2 DEF TypeOK, EndPhase
<1>12. ASSUME UNCHANGED vars PROVE TypeOK'
  BY <1>12 DEF TypeOK, vars
<1> QED BY <1>1, <1>2, <1>3, <1>4, <1>5, <1>6, <1>7, <1>8, <1>9, <1>10, <1>11, <1>12 DEF Next

\* The initial lists have their types.
LEMMA TypeInit == Init => TypeOK
<1>1. "build" = Phases[1] /\ 1 \in 1 .. Len(Phases)
  BY DEF Phases
<1>2. << >> \in Seq(Value)
  OBVIOUS
<1> QED BY <1>1, <1>2 DEF Init, TypeOK

\* The state is well typed in every reachable state.
THEOREM Typing == Spec => []TypeOK
BY TypeInit, TypeStep, PTL DEF Spec

-------------------------------------------------------------------------------
(* The inductive invariant *)

\* What instructions wait for and what has been replaced, in each phase: only
\* queued or deleted loads and foldable instructions are replaced; a queued
\* instruction is still placed, and is either a store or replaced; nothing is
\* queued or replaced while building, and nothing moves before LoopInvHoist.
Queues ==
  /\ replaced \subseteq Load \cup Pure
  /\ \A v \in replaced : v \in waiting \/ place[v] = "removed"
  /\ \A u \in waiting : place[u] = "placed" /\ (u \in Store \/ u \in replaced)
  /\ waiting # {} => phase \in {"rename", "fold"}
  /\ \A u \in Instr : place[u] = "moving" => phase = "hoist"

IInv == TypeOK /\ Queues /\ UsesComplete /\ UsesSound /\ ReplacedUnused /\ NoDanglingOperand

\* A live value is defined and has not been replaced.
LEMMA LiveFacts ==
  ASSUME TypeOK, Queues, NEW v \in Live
  PROVE  /\ v \in Value /\ v \notin replaced
         /\ v \in Instr => place[v] = "placed"
BY KindsDisjoint DEF Live, Placed, Queues, TypeOK, Value, Instr, Leaf, Disjoint

\* Operands are values.
LEMMA OperandType ==
  ASSUME TypeOK, NEW u \in Instr, NEW i \in DOMAIN operands[u]
  PROVE  operands[u][i] \in Value /\ i \in Nat \ {0}
<1>1. operands[u] \in Seq(Value)
  BY DEF TypeOK
<1> QED BY <1>1

\* The invariant holds of the initial lists.
LEMMA IInvInit == Init => IInv
<1> SUFFICES ASSUME Init PROVE IInv
  OBVIOUS
<1>1. \A u \in Instr : DOMAIN operands[u] = {}
  BY DEF Init
<1>2. Placed = {}
  BY DEF Init, Placed
<1>3. TypeOK
  BY TypeInit
<1>4. Queues
  BY DEF Init, Queues
<1>5. UsesComplete /\ UsesSound
  BY <1>2 DEF Init, UsesComplete, UsesSound
<1>6. ReplacedUnused /\ NoDanglingOperand
  BY <1>1 DEF ReplacedUnused, NoDanglingOperand
<1> QED BY <1>3, <1>4, <1>5, <1>6 DEF IInv

\* Giving a user more operands, all of them live, keeps the use lists complete
\* and sound, and names neither a replaced nor a missing instruction.
LEMMA ExtendStep ==
  ASSUME IInv, TypeOK',
         NEW u \in Instr, NEW ops \in Seq(Value), NEW n \in Nat,
         phase' = phase, phase \notin {"hoist", "done"},
         place[u] \in {"fresh", "placed"},
         place' = [place EXCEPT ![u] = "placed"],
         operands' = [operands EXCEPT ![u] = ops],
         uses' = Registered(u, ops, n),
         waiting' = waiting, replaced' = replaced,
         place[u] = "fresh" => n = 0,
         place[u] = "placed" => /\ n = Len(operands[u]) /\ n <= Len(ops)
                                /\ \A i \in 1 .. n : ops[i] = operands[u][i],
         \A i \in DOMAIN ops : i > n => ops[i] \in Live
  PROVE  IInv'
<1>1. /\ operands[u] \in Seq(Value) /\ DOMAIN ops = 1 .. Len(ops) /\ Len(ops) \in Nat
      /\ DOMAIN operands[u] = 1 .. Len(operands[u]) /\ Len(operands[u]) \in Nat
      /\ \A i \in DOMAIN ops : ops[i] \in Value
      /\ operands'[u] = ops
      /\ \A w \in Instr \ {u} : operands'[w] = operands[w] /\ place'[w] = place[w]
      /\ place'[u] = "placed"
      /\ \A v \in Value : uses[v] \subseteq uses'[v]
  BY DEF IInv, TypeOK, Registered
<1>2. \A v \in Live : /\ v \in Value /\ v \notin replaced
                      /\ v \in Instr => place[v] = "placed"
  BY LiveFacts DEF IInv
<1>3. ASSUME NEW i \in DOMAIN ops
      PROVE  \/ /\ place[u] = "placed" /\ i \in DOMAIN operands[u]
                /\ ops[i] = operands[u][i]
             \/ i > n /\ ops[i] \in Live
  BY <1>1
<1>4. Queues'
  <2>1. u \notin waiting \/ place[u] = "placed"
    BY DEF IInv, Queues
  <2>2. \A v \in replaced : v \in Instr
    BY Kinds DEF IInv, Queues
  <2> QED BY <1>1, <2>1, <2>2 DEF IInv, Queues, TypeOK
<1>5. UsesComplete'
  <2> SUFFICES ASSUME NEW w \in Placed', NEW i \in DOMAIN operands'[w]
               PROVE  <<w, i>> \in uses'[operands'[w][i]]
    BY DEF UsesComplete
  <2>1. CASE w # u
    <3>1. w \in Placed /\ i \in DOMAIN operands[w] /\ operands'[w][i] = operands[w][i]
      BY <1>1, <2>1 DEF Placed
    <3>2. operands[w][i] \in Value
      BY <3>1, OperandType DEF Placed, IInv
    <3> QED BY <1>1, <3>1, <3>2 DEF IInv, UsesComplete
  <2>2. CASE w = u
    <3>1. i \in DOMAIN ops /\ operands'[w][i] = ops[i] /\ ops[i] \in Value
      BY <1>1, <2>2
    <3>2. CASE i > n
      BY <2>2, <3>1, <3>2 DEF Registered
    <3>3. CASE place[u] = "placed" /\ i \in DOMAIN operands[u] /\ ops[i] = operands[u][i]
      BY <1>1, <2>2, <3>1, <3>3 DEF IInv, UsesComplete, Placed
    <3> QED BY <1>3, <3>1, <3>2, <3>3
  <2> QED BY <2>1, <2>2
<1>6. UsesSound'
  <2> SUFFICES ASSUME NEW v \in Value \ replaced, NEW e \in uses'[v]
               PROVE  /\ e[1] \in Placed'
                      /\ e[2] \in DOMAIN operands'[e[1]]
                      /\ operands'[e[1]][e[2]] = v
    BY DEF UsesSound
  <2>1. CASE e \in uses[v]
    <3>1. e[1] \in Placed /\ e[2] \in DOMAIN operands[e[1]] /\ operands[e[1]][e[2]] = v
      BY <2>1 DEF IInv, UsesSound
    <3>2. e[1] \in Placed'
      BY <1>1, <3>1 DEF Placed
    <3>3. CASE e[1] = u
      BY <1>1, <3>1, <3>2, <3>3 DEF Placed
    <3>4. CASE e[1] # u
      BY <1>1, <3>1, <3>2, <3>4 DEF Placed
    <3> QED BY <3>3, <3>4
  <2>2. CASE \E i \in DOMAIN ops : ops[i] = v /\ e = <<u, i>>
    BY <1>1, <2>2 DEF Placed
  <2> QED BY <2>1, <2>2 DEF Registered
<1>7. ReplacedUnused'
  <2> SUFFICES ASSUME NEW w \in Instr, place'[w] \in {"placed", "moving"},
                      NEW i \in DOMAIN operands'[w]
               PROVE  operands'[w][i] \notin replaced
    BY DEF ReplacedUnused
  <2>1. CASE w # u
    BY <1>1, <2>1 DEF IInv, ReplacedUnused
  <2>2. CASE w = u
    BY <1>1, <1>2, <1>3, <2>2 DEF IInv, ReplacedUnused
  <2> QED BY <2>1, <2>2
<1>8. NoDanglingOperand'
  <2> SUFFICES ASSUME NEW w \in Instr, place'[w] \in {"placed", "moving"},
                      NEW i \in DOMAIN operands'[w],
                      operands'[w][i] \in Instr \ Alloca
               PROVE  place'[operands'[w][i]] \in {"placed", "moving"}
    BY DEF NoDanglingOperand
  <2>1. CASE w # u
    BY <1>1, <2>1 DEF IInv, NoDanglingOperand
  <2>2. CASE w = u
    BY <1>1, <1>2, <1>3, <2>2 DEF IInv, NoDanglingOperand
  <2> QED BY <2>1, <2>2
<1> QED BY <1>4, <1>5, <1>6, <1>7, <1>8 DEF IInv

\* Replacing a live, unqueued instruction by a live value, and queueing it.
LEMMA ReplaceStep ==
  ASSUME IInv, TypeOK',
         NEW old \in Load \cup Pure, NEW new \in Live,
         old \in Placed, old \notin waiting, new # old,
         phase \in {"rename", "fold"}, phase' = phase, place' = place,
         replace_all_use_with(old, new), waiting' = waiting \cup {old}
  PROVE  IInv'
<1>1. /\ old \in Value /\ old \in Instr /\ place[old] = "placed" /\ old \notin replaced
      /\ new \in Value /\ new \notin replaced
      /\ new \in Instr => place[new] = "placed"
  BY LiveFacts, Kinds DEF IInv, Placed, Queues
<1>2. /\ \A u \in Instr : DOMAIN operands'[u] = DOMAIN operands[u]
      /\ \A u \in Instr : \A i \in DOMAIN operands[u] :
           operands'[u][i] = IF <<u, i>> \in uses[old] THEN new ELSE operands[u][i]
  BY <1>1, ReplaceType DEF IInv
<1>3. /\ replaced' = replaced \cup {old}
      /\ uses'[new] = uses[new] \cup uses[old]
      /\ \A v \in Value \ {new} : uses'[v] = uses[v]
  BY <1>1 DEF replace_all_use_with, IInv, TypeOK
<1>4. Placed' = Placed
  BY DEF Placed
<1>5. ASSUME NEW u \in Placed, NEW i \in DOMAIN operands[u]
      PROVE  /\ operands[u][i] = old => operands'[u][i] = new
             /\ operands[u][i] # old => operands'[u][i] = operands[u][i]
  <2>1. u \in Instr /\ operands[u][i] \in Value
    BY OperandType DEF IInv, Placed
  <2>2. operands[u][i] = old => <<u, i>> \in uses[old]
    BY DEF IInv, UsesComplete
  <2>3. <<u, i>> \in uses[old] => operands[u][i] = old
    BY <1>1 DEF IInv, UsesSound
  <2> QED BY <1>2, <2>1, <2>2, <2>3
<1>6. Queues'
  BY <1>1, <1>3 DEF IInv, Queues
<1>7. UsesComplete'
  <2> SUFFICES ASSUME NEW u \in Placed, NEW i \in DOMAIN operands[u]
               PROVE  <<u, i>> \in uses'[operands'[u][i]]
    BY <1>2, <1>4 DEF UsesComplete, Placed
  <2>1. operands[u][i] \in Value /\ <<u, i>> \in uses[operands[u][i]]
    BY OperandType DEF IInv, UsesComplete, Placed
  <2> QED BY <1>1, <1>3, <1>5, <2>1
<1>8. UsesSound'
  <2> SUFFICES ASSUME NEW v \in Value \ replaced', NEW e \in uses'[v]
               PROVE  /\ e[1] \in Placed
                      /\ e[2] \in DOMAIN operands'[e[1]]
                      /\ operands'[e[1]][e[2]] = v
    BY <1>4 DEF UsesSound
  <2>1. v \notin replaced /\ v # old
    BY <1>3
  <2>2. CASE e \in uses[v]
    BY <1>2, <1>5, <2>1, <2>2 DEF IInv, UsesSound, Placed
  <2>3. CASE v = new /\ e \in uses[old]
    BY <1>1, <1>2, <1>5, <2>3 DEF IInv, UsesSound, Placed
  <2> QED BY <1>3, <2>2, <2>3
<1>9. \A u \in Instr : place[u] \in {"placed", "moving"} => u \in Placed
  BY DEF IInv, Queues, Placed
<1>10. ReplacedUnused'
  <2> SUFFICES ASSUME NEW u \in Placed, NEW i \in DOMAIN operands[u]
               PROVE  operands'[u][i] \notin replaced \cup {old}
    BY <1>2, <1>3, <1>9 DEF ReplacedUnused
  <2>1. operands[u][i] \notin replaced
    BY DEF IInv, ReplacedUnused, Placed
  <2> QED BY <1>1, <1>5, <2>1
<1>11. NoDanglingOperand'
  <2> SUFFICES ASSUME NEW u \in Placed, NEW i \in DOMAIN operands[u],
                      operands'[u][i] \in Instr \ Alloca
               PROVE  place[operands'[u][i]] \in {"placed", "moving"}
    BY <1>2, <1>9 DEF NoDanglingOperand
  <2> QED BY <1>1, <1>5 DEF IInv, NoDanglingOperand, Placed
<1> QED BY <1>6, <1>7, <1>8, <1>10, <1>11 DEF IInv

\* Taking an instruction out of its block for good when no operand names it (or
\* it is an alloca), or in order to put it back elsewhere.
LEMMA DeleteStep ==
  ASSUME IInv, TypeOK', Queues',
         NEW u \in Placed, NEW where \in {"removed", "moving"},
         delete_instr(u, where),
         operands' = operands, phase' = phase, replaced' = replaced,
         \/ where = "moving" \/ u \in Alloca
         \/ \A w \in Instr : place[w] \in {"placed", "moving"} =>
              \A i \in DOMAIN operands[w] : operands[w][i] # u
  PROVE  IInv'
<1>1. /\ u \in Instr /\ place'[u] = where
      /\ \A w \in Instr \ {u} : place'[w] = place[w]
      /\ Placed' = Placed \ {u}
  BY DEF delete_instr, Placed, IInv, TypeOK
<1>2. \A v \in Value :
        uses'[v] = IF \E i \in DOMAIN operands[u] : operands[u][i] = v
                   THEN {e \in uses[v] : e[1] # u} ELSE uses[v]
  BY DEF delete_instr, remove_use_of_ops
<1>3. UsesComplete'
  <2> SUFFICES ASSUME phase \notin {"hoist", "done"},
                      NEW w \in Placed \ {u}, NEW i \in DOMAIN operands[w]
               PROVE  <<w, i>> \in uses'[operands[w][i]]
    BY <1>1 DEF UsesComplete
  <2>1. operands[w][i] \in Value /\ <<w, i>> \in uses[operands[w][i]]
    BY OperandType DEF IInv, UsesComplete, Placed
  <2> QED BY <1>2, <2>1
<1>4. UsesSound'
  <2> SUFFICES ASSUME NEW v \in Value \ replaced, NEW e \in uses'[v]
               PROVE  /\ e[1] \in Placed \ {u}
                      /\ e[2] \in DOMAIN operands[e[1]]
                      /\ operands[e[1]][e[2]] = v
    BY <1>1 DEF UsesSound
  <2>1. e \in uses[v]
    BY <1>2
  <2>2. e[1] \in Placed /\ e[2] \in DOMAIN operands[e[1]] /\ operands[e[1]][e[2]] = v
    BY <2>1 DEF IInv, UsesSound
  <2>3. e[1] # u
    <3> SUFFICES ASSUME e[1] = u PROVE FALSE
      OBVIOUS
    <3>1. \E i \in DOMAIN operands[u] : operands[u][i] = v
      BY <2>2
    <3>2. uses'[v] = {d \in uses[v] : d[1] # u}
      BY <1>2, <3>1
    <3> QED BY <3>2
  <2> QED BY <2>2, <2>3
<1>5. \A w \in Instr : place'[w] \in {"placed", "moving"} => place[w] \in {"placed", "moving"}
  BY <1>1 DEF Placed
<1>6. ReplacedUnused'
  BY <1>5 DEF IInv, ReplacedUnused
<1>7. NoDanglingOperand'
  <2> SUFFICES ASSUME NEW w \in Instr, place'[w] \in {"placed", "moving"},
                      NEW i \in DOMAIN operands[w], operands[w][i] \in Instr \ Alloca
               PROVE  place'[operands[w][i]] \in {"placed", "moving"}
    BY DEF NoDanglingOperand
  <2>1. place[operands[w][i]] \in {"placed", "moving"}
    BY <1>5 DEF IInv, NoDanglingOperand
  <2> QED BY <1>1, <1>5, <2>1
<1> QED BY <1>3, <1>4, <1>6, <1>7 DEF IInv

\* Every step keeps the inductive invariant.
LEMMA IInvStep == IInv /\ [Next]_vars => IInv'
<1> SUFFICES ASSUME IInv, [Next]_vars PROVE IInv'
  OBVIOUS
<1> TypeOK'
  BY TypeStep DEF IInv
<1>1. ASSUME Build PROVE IInv'
  <2>1. PICK u \in Instr, ops \in Seq(Value) :
          Create(u, ops) /\ \A i \in DOMAIN ops : ops[i] \in Live
    BY <1>1, BuildCreates
  <2> QED BY <2>1, ExtendStep DEF Create
<1>2. ASSUME NEW p \in Instr, InsertPhi(p) PROVE IInv'
  <2>1. << >> \in Seq(Value) /\ DOMAIN << >> = {} /\ 0 \in Nat
    OBVIOUS
  <2>2. uses = Registered(p, << >>, 0)
    BY <2>1 DEF IInv, TypeOK, Registered
  <2>3. /\ place[p] = "fresh" /\ phase = "phi" /\ phase' = phase /\ uses' = uses
        /\ place' = [place EXCEPT ![p] = "placed"]
        /\ operands' = [operands EXCEPT ![p] = << >>]
        /\ waiting' = waiting /\ replaced' = replaced
    BY <1>2 DEF InsertPhi
  <2> QED BY <2>1, <2>2, <2>3, ExtendStep
<1>3. ASSUME NEW s \in Instr, DropStore(s) PROVE IInv'
  BY <1>3 DEF DropStore, IInv, Queues, UsesComplete, UsesSound, ReplacedUnused,
              NoDanglingOperand, Placed
<1>4. ASSUME NEW a \in Instr, RemoveAlloca(a) PROVE IInv'
  <2>1. Queues'
    BY <1>4 DEF RemoveAlloca, delete_instr, IInv, TypeOK, Queues, Placed
  <2> QED BY <1>4, <2>1, DeleteStep DEF RemoveAlloca
<1>5. ASSUME NEW u \in Instr, DeleteWaiting(u) PROVE IInv'
  <2>1. u \in Placed /\ (u \in Store \/ u \in replaced)
    BY <1>5 DEF DeleteWaiting, IInv, Queues, Placed
  <2>2. Queues'
    BY <1>5, <2>1 DEF DeleteWaiting, delete_instr, IInv, TypeOK, Queues, Placed
  <2>3. \A w \in Instr : place[w] \in {"placed", "moving"} =>
          \A i \in DOMAIN operands[w] : operands[w][i] # u
    BY <2>1, OperandType, Kinds DEF IInv, ReplacedUnused
  <2> QED BY <1>5, <2>1, <2>2, <2>3, DeleteStep DEF DeleteWaiting
<1>6. ASSUME NEW u \in Instr, HoistDelete(u) PROVE IInv'
  <2>1. Queues'
    BY <1>6 DEF HoistDelete, delete_instr, IInv, TypeOK, Queues, Placed
  <2> QED BY <1>6, <2>1, DeleteStep DEF HoistDelete
<1>7. ASSUME NEW u \in Instr, HoistInsert(u) PROVE IInv'
  <2>1. /\ \A w \in Instr : place'[w] \in {"placed", "moving"} <=> place[w] \in {"placed", "moving"}
        /\ Placed \subseteq Placed'
    BY <1>7 DEF HoistInsert, IInv, TypeOK, Placed
  <2>2. Queues'
    BY <1>7 DEF HoistInsert, IInv, TypeOK, Queues
  <2>3. UsesComplete' /\ UsesSound'
    BY <1>7, <2>1 DEF HoistInsert, IInv, UsesComplete, UsesSound
  <2>4. ReplacedUnused' /\ NoDanglingOperand'
    BY <1>7, <2>1 DEF HoistInsert, IInv, ReplacedUnused, NoDanglingOperand
  <2> QED BY <2>2, <2>3, <2>4 DEF IInv
<1>8. ASSUME NEW p \in Phi, NEW v \in Data, NEW b \in Label, FillPhi(p, v, b) PROVE IInv'
  <2>1. p \in Instr /\ v \in Value /\ b \in Value /\ v \in Live /\ b \in Live
        /\ place[p] = "placed"
    BY <1>8, Kinds DEF FillPhi, Live, Placed
  <2>2. operands[p] \in Seq(Value) /\ Len(operands[p]) \in Nat
    BY <2>1 DEF IInv, TypeOK
  <2> DEFINE n == Len(operands[p])
             ops == operands[p] \o <<v, b>>
  <2>3. /\ ops \in Seq(Value) /\ Len(ops) = n + 2
        /\ \A i \in 1 .. n : ops[i] = operands[p][i]
        /\ \A i \in DOMAIN ops : i > n => ops[i] \in {v, b}
    BY <2>1, <2>2
  <2>4. /\ operands' = [operands EXCEPT ![p] = ops]
        /\ uses' = Registered(p, ops, n)
        /\ place' = [place EXCEPT ![p] = "placed"]
        /\ phase' = phase /\ phase = "rename" /\ waiting' = waiting /\ replaced' = replaced
    BY <1>8, <2>1 DEF FillPhi, IInv, TypeOK
  <2>5. n \in Nat /\ n <= Len(ops)
    BY <2>2, <2>3
  <2> HIDE DEF n, ops
  <2>6. place[p] = "placed" => n = Len(operands[p])
    BY DEF n
  <2> QED BY <2>1, <2>3, <2>4, <2>5, <2>6, ExtendStep
<1>9. ASSUME NEW l \in Load, NEW v \in Data, ReplaceLoad(l, v) PROVE IInv'
  BY <1>9, ReplaceStep DEF ReplaceLoad
<1>10. ASSUME NEW u \in Pure, NEW c \in Const, Fold(u, c) PROVE IInv'
  <2>1. c \in Live /\ c # u
    BY KindsDisjoint DEF Live, Leaf, Instr, Disjoint
  <2> QED BY <1>10, <2>1, ReplaceStep DEF Fold
<1>11. ASSUME EndPhase PROVE IInv'
  <2>1. /\ phase \in {"hoist", "done"} => phase' \in {"hoist", "done"}
        /\ UNCHANGED <<place, operands, uses, waiting, replaced>>
    BY <1>11 DEF EndPhase, Phases
  <2>2. Queues'
    BY <1>11, <2>1 DEF EndPhase, IInv, Queues
  <2>3. UsesComplete' /\ UsesSound'
    BY <2>1 DEF IInv, UsesComplete, UsesSound, Placed
  <2>4. ReplacedUnused' /\ NoDanglingOperand'
    BY <2>1 DEF IInv, ReplacedUnused, NoDanglingOperand
  <2> QED BY <2>2, <2>3, <2>4 DEF IInv
<1>12. ASSUME UNCHANGED vars PROVE IInv'
  BY <1>12 DEF vars, IInv, TypeOK, Queues, UsesComplete, UsesSound, ReplacedUnused,
               NoDanglingOperand, Placed
<1> QED BY <1>1, <1>2, <1>3, <1>4, <1>5, <1>6, <1>7, <1>8, <1>9, <1>10, <1>11, <1>12 DEF Next

\* Use lists stay complete and sound, and no pass leaves an operand naming a
\* replaced value or a removed instruction.
THEOREM UseListsCorrect ==
  Spec => [](UsesComplete /\ UsesSound /\ ReplacedUnused /\ NoDanglingOperand)
<1>1. IInv => UsesComplete /\ UsesSound /\ ReplacedUnused /\ NoDanglingOperand
  BY DEF IInv
<1> QED BY IInvInit, IInvStep, <1>1, PTL DEF Spec

\* Up to LoopInvHoist, replace_all_use_with reaches every operand that names the old value.
COROLLARY UsesStayComplete == Spec => []UsesComplete
BY UseListsCorrect, PTL

\* No pass takes an instruction out of the program that another one still names.
COROLLARY NothingDangles == Spec => []NoDanglingOperand
BY UseListsCorrect, PTL

\* What a pass has replaced is not named by any instruction again.
COROLLARY ReplacedStayUnused == Spec => []ReplacedUnused
BY UseListsCorrect, PTL

-------------------------------------------------------------------------------
(* UseLists implements ValueGraph *)

\* What the mapping makes of the abstract module's sets.
LEMMA GraphSets ==
  ASSUME TypeOK, Queues
  PROVE  /\ Graph!Placed = {u \in Instr : place[u] \in {"placed", "moving"}}
         /\ Graph!Value = Value
         /\ Live \subseteq Graph!Defined
         /\ Graph!Defined = Leaf \cup {u \in Instr \ (Store \cup Void) :
                                        place[u] \in {"placed", "moving"}}
<1>1. Graph!Placed = {u \in Instr : place[u] \in {"placed", "moving"}}
  BY DEF Graph!Placed
<1>2. Graph!Value = Value
  BY DEF Graph!Value, Value
<1> QED BY <1>1, <1>2 DEF Graph!Defined, Live, Placed

\* A replacement is a substitution in all placed instructions.
LEMMA ReplaceSubstitutes ==
  ASSUME IInv, NEW old \in Load \cup Pure, NEW new \in Live,
         old \in Placed, new # old, phase \in {"rename", "fold"}, place' = place,
         old \notin waiting, replace_all_use_with(old, new)
  PROVE  Graph!Substitute(old, new)
<1>1. /\ old \in Value /\ old \in Instr /\ old \notin replaced
      /\ old \notin Store /\ old \notin Void
  BY Kinds DEF IInv, Placed, Queues
<1>2. old \in Graph!Placed \ (Store \cup Void) /\ new \in Graph!Defined \ {old}
  BY <1>1, GraphSets DEF IInv, Placed
<1>3. ASSUME NEW u \in Instr, NEW i \in DOMAIN operands[u]
      PROVE  <<u, i>> \in uses[old] <=> u \in Graph!Placed /\ operands[u][i] = old
  <2>1. <<u, i>> \in uses[old] => u \in Placed /\ operands[u][i] = old
    BY <1>1 DEF IInv, UsesSound
  <2>2. u \in Graph!Placed <=> u \in Placed
    BY GraphSets DEF IInv, Queues, Placed
  <2>3. u \in Placed /\ operands[u][i] = old => <<u, i>> \in uses[old]
    BY DEF IInv, UsesComplete
  <2> QED BY <2>1, <2>2, <2>3
<1>4. operands' = [u \in Instr |-> [i \in DOMAIN operands[u] |->
        IF u \in Graph!Placed /\ operands[u][i] = old THEN new ELSE operands[u][i]]]
  <2> DEFINE f(u) == [i \in DOMAIN operands[u] |->
                        IF <<u, i>> \in uses[old] THEN new ELSE operands[u][i]]
             g(u) == [i \in DOMAIN operands[u] |->
                        IF u \in Graph!Placed /\ operands[u][i] = old
                        THEN new ELSE operands[u][i]]
  <2>1. operands' = [u \in Instr |-> f(u)]
    BY DEF replace_all_use_with
  <2>2. \A u \in Instr : f(u) = g(u)
    BY <1>3
  <2> HIDE DEF f, g
  <2>3. operands' = [u \in Instr |-> g(u)]
    BY <2>1, <2>2
  <2> QED BY <2>3 DEF g
<1> QED BY <1>2, <1>4 DEF Graph!Substitute

\* Every step of UseLists is a step of ValueGraph, or leaves it as it is.
LEMMA GraphStep == IInv /\ IInv' /\ [Next]_vars => [Graph!Next]_(Graph!vars)
<1> SUFFICES ASSUME IInv, IInv', [Next]_vars PROVE Graph!Next \/ UNCHANGED Graph!vars
  OBVIOUS
<1>0. place \in [Instr -> {"fresh", "placed", "removed", "moving"}]
  BY DEF IInv, TypeOK
<1>1. ASSUME Build PROVE Graph!Next
  <2>1. PICK u \in Instr, ops \in Seq(Value) :
          Create(u, ops) /\ \A i \in DOMAIN ops : ops[i] \in Live
    BY <1>1, BuildCreates
  <2>2. operands'[u] = ops
    BY <2>1 DEF Create, IInv, TypeOK
  <2>3. ops \in Seq(Graph!Defined)
    <3>1. DOMAIN ops = 1 .. Len(ops) /\ Len(ops) \in Nat
      OBVIOUS
    <3>2. ops = [i \in 1 .. Len(ops) |-> ops[i]]
      OBVIOUS
    <3>3. \A i \in 1 .. Len(ops) : ops[i] \in Graph!Defined
      BY <2>1, <3>1, GraphSets DEF IInv
    <3>4. ops \in [1 .. Len(ops) -> Graph!Defined]
      BY <3>2, <3>3
    <3> QED BY <3>1, <3>4
  <2>4. Graph!Create(u)
    BY <1>0, <2>1, <2>2, <2>3 DEF Create, Graph!Create
  <2> QED BY <2>4 DEF Graph!Next
<1>2. ASSUME NEW p \in Instr, InsertPhi(p) PROVE Graph!Next
  <2>1. operands'[p] = << >> /\ << >> \in Seq(Graph!Defined)
    BY <1>2 DEF InsertPhi, IInv, TypeOK
  <2>2. Graph!Create(p)
    BY <1>0, <1>2, <2>1 DEF InsertPhi, Graph!Create
  <2> QED BY <2>2 DEF Graph!Next
<1>3. ASSUME NEW s \in Instr, DropStore(s) PROVE UNCHANGED Graph!vars
  BY <1>3 DEF DropStore, Graph!vars
<1>4. ASSUME NEW a \in Instr, RemoveAlloca(a) PROVE Graph!Next
  <2>1. Graph!Delete(a)
    BY <1>0, <1>4, GraphSets DEF RemoveAlloca, delete_instr, Graph!Delete, Placed, IInv
  <2> QED BY <2>1 DEF Graph!Next
<1>5. ASSUME NEW u \in Instr, DeleteWaiting(u) PROVE Graph!Next
  <2>1. u \in Placed /\ (u \in Store \/ u \in replaced)
    BY <1>5 DEF DeleteWaiting, IInv, Queues, Placed
  <2>2. \A w \in Graph!Placed : ~ Graph!Uses(w, u)
    BY <2>1, OperandType, GraphSets, Kinds DEF IInv, ReplacedUnused, Graph!Uses
  <2>3. Graph!Delete(u)
    BY <1>0, <1>5, <2>1, <2>2, GraphSets
       DEF DeleteWaiting, delete_instr, Graph!Delete, Placed, IInv
  <2> QED BY <2>3 DEF Graph!Next
<1>6. ASSUME NEW u \in Instr, HoistDelete(u) PROVE UNCHANGED Graph!vars
  BY <1>0, <1>6 DEF HoistDelete, delete_instr, Graph!vars, Placed
<1>7. ASSUME NEW u \in Instr, HoistInsert(u) PROVE UNCHANGED Graph!vars
  BY <1>0, <1>7 DEF HoistInsert, Graph!vars
<1>8. ASSUME NEW p \in Phi, NEW v \in Data, NEW b \in Label, FillPhi(p, v, b)
      PROVE  Graph!Next
  <2>1. p \in Instr /\ p \in Placed /\ v \in Live /\ b \in Live /\ v \in Value /\ b \in Value
    BY <1>8, Kinds DEF FillPhi, Live
  <2>2. Graph!AddPair(p, v, b)
    BY <1>8, <2>1, GraphSets DEF FillPhi, Graph!AddPair, Placed, IInv
  <2>3. v \in Graph!Value /\ b \in Graph!Value
    BY <2>1, GraphSets DEF IInv
  <2> QED BY <2>1, <2>2, <2>3 DEF Graph!Next
<1>9. ASSUME NEW l \in Load, NEW v \in Data, ReplaceLoad(l, v) PROVE Graph!Next
  <2>1. Graph!Substitute(l, v)
    BY <1>9, ReplaceSubstitutes DEF ReplaceLoad
  <2>2. l \in Graph!Value /\ v \in Graph!Value
    BY Kinds, GraphSets DEF IInv
  <2> QED BY <2>1, <2>2 DEF Graph!Next
<1>10. ASSUME NEW u \in Pure, NEW c \in Const, Fold(u, c) PROVE Graph!Next
  <2>1. c \in Live /\ c # u
    BY KindsDisjoint DEF Live, Leaf, Instr, Disjoint
  <2>2. Graph!Substitute(u, c)
    BY <1>10, <2>1, ReplaceSubstitutes DEF Fold
  <2>3. u \in Graph!Value /\ c \in Graph!Value
    BY Kinds, GraphSets DEF IInv
  <2> QED BY <2>2, <2>3 DEF Graph!Next
<1>11. ASSUME EndPhase PROVE UNCHANGED Graph!vars
  BY <1>11 DEF EndPhase, Graph!vars
<1>12. ASSUME UNCHANGED vars PROVE UNCHANGED Graph!vars
  BY <1>12 DEF vars, Graph!vars
<1> QED BY <1>1, <1>2, <1>3, <1>4, <1>5, <1>6, <1>7, <1>8, <1>9, <1>10, <1>11, <1>12 DEF Next

\* Whatever program is built and whatever the passes do with it, the def-use
\* layer behaves as the value graph: every replacement reaches every user.
THEOREM Refinement == Spec => ImplementsValueGraph
<1>1. Init => Graph!Init
  BY DEF Init, Graph!Init
<1> QED BY IInvInit, IInvStep, GraphStep, <1>1, PTL DEF Spec, Graph!Spec, ImplementsValueGraph
===============================================================================
