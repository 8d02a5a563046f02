------------------------------- MODULE UseLists -------------------------------
(***************************************************************************)
(* The def-use layer of LightIR (User::operands_, Value::use_list_) under  *)
(* the passes of cminusfc, in the order in which cminusfc.cpp runs them:   *)
(* the builder creates instructions, Mem2Reg inserts and fills phis,       *)
(* replaces loads, deletes loads and stores and then the allocas,          *)
(* ConstPropagation replaces foldable instructions by constants, and       *)
(* LoopInvHoist moves instructions.                                        *)
(*                                                                         *)
(* A use_list_ is modelled by the set of its entries: remove_use drops all *)
(* entries of a user, and writing the same operand twice is idempotent, so *)
(* neither order nor multiplicity is observable.                           *)
(***************************************************************************)
EXTENDS Naturals, Sequences

CONSTANTS Alloca, Load, Store, Phi,   \* instructions, by kind
          Pure,     \* foldable and hoistable ones: binary, cmp, zext, sitofp, fptosi
          Void,     \* ret, br and calls of void functions
          Const,    \* constants
          Label,    \* basic blocks, as operands of br and phi
          MaxPairs  \* bound: [value, block] pairs one phi may get

Instr == Alloca \cup Load \cup Store \cup Phi \cup Pure \cup Void
Leaf == Const \cup Label
Value == (Instr \ (Store \cup Void)) \cup Leaf
Data == Load \cup Phi \cup Pure \cup Const   \* what a variable may hold

\* Different objects are different: kinds and leaves do not overlap.
Disjoint(S, T) == S \cap T = {}
ASSUME KindsDisjoint ==
  /\ Disjoint(Instr, Leaf) /\ Disjoint(Const, Label)
  /\ Disjoint(Alloca, Load \cup Store \cup Phi \cup Pure \cup Void)
  /\ Disjoint(Load, Store \cup Phi \cup Pure \cup Void)
  /\ Disjoint(Store, Phi \cup Pure \cup Void)
  /\ Disjoint(Phi, Pure \cup Void) /\ Disjoint(Pure, Void)
ASSUME MaxPairsNat == MaxPairs \in Nat

VARIABLES
  phase,     \* the pass that is running
  place,     \* "fresh", "placed" in a block, "removed", or "moving" (LoopInvHoist)
  operands,  \* User::operands_
  uses,      \* Value::use_list_, as a set of <<user, arg_no>>
  waiting,   \* the pass's vector of instructions to delete (wait_delete, del)
  replaced   \* values that replace_all_use_with was called on

vars == <<phase, place, operands, uses, waiting, replaced>>

\* The order of add_pass in cminusfc.cpp; Mem2Reg is three of the phases.
Phases == <<"build", "phi", "rename", "alloca", "fold", "hoist", "done">>

Placed == {u \in Instr : place[u] = "placed"}

\* The values the running pass can lay hands on: it never keeps a pointer to an
\* instruction it has queued for deletion.
Live == (Placed \ (waiting \cup Store \cup Void)) \cup Leaf

-------------------------------------------------------------------------------
(* Operations of Value, User and BasicBlock *)

\* Seeded fault: operands numbered from -1 (from 0 here, where sequences start at 1).
RegisteredOffByOne(u, ops, n) ==
  [v \in Value |-> uses[v] \cup
     {<<u, i - 1>> : i \in {i \in DOMAIN ops : i > n /\ ops[i] = v}}]

\* The uses registered when user u gets the operands of ops after the n-th: one
\* add_use per set_operand or add_operand.
Registered(u, ops, n) ==
  [v \in Value |-> uses[v] \cup
     {<<u, i>> : i \in {i \in DOMAIN ops : i > n /\ ops[i] = v}}]

\* Seeded fault: set_operand without the add_use.
ReplaceWithoutAddUse(old, new) ==
  /\ operands' = [u \in Instr |-> [i \in DOMAIN operands[u] |->
                    IF <<u, i>> \in uses[old] THEN new ELSE operands[u][i]]]
  /\ uses' = uses
  /\ replaced' = replaced \cup {old}

\* replace_all_use_with: for (auto use : use_list_) set_operand(use.arg_no_, new).
\* Entries of old stay in its own list; new gets one more entry for each.
replace_all_use_with(old, new) ==
  /\ operands' = [u \in Instr |-> [i \in DOMAIN operands[u] |->
                    IF <<u, i>> \in uses[old] THEN new ELSE operands[u][i]]]
  /\ uses' = [uses EXCEPT ![new] = @ \cup uses[old]]
  /\ replaced' = replaced \cup {old}

\* Seeded fault: only the first operand forgets the user.
RemoveFirstUseOnly(u) ==
  uses' = [v \in Value |->
             IF operands[u] # << >> /\ operands[u][1] = v
             THEN {e \in uses[v] : e[1] # u} ELSE uses[v]]

\* remove_use_of_ops: every operand forgets this user.
remove_use_of_ops(u) ==
  uses' = [v \in Value |->
             IF \E i \in DOMAIN operands[u] : operands[u][i] = v
             THEN {e \in uses[v] : e[1] # u} ELSE uses[v]]

\* delete_instr: off the list of the block, and no longer a user.
delete_instr(u, where) ==
  /\ place' = [place EXCEPT ![u] = where]
  /\ remove_use_of_ops(u)

-------------------------------------------------------------------------------
(* The builder *)

\* The constructor of an instruction: one set_operand per operand, and
\* add_instruction at the end of a block.
Create(u, ops) ==
  /\ phase = "build" /\ place[u] = "fresh"
  /\ place' = [place EXCEPT ![u] = "placed"]
  /\ operands' = [operands EXCEPT ![u] = ops]
  /\ uses' = Registered(u, ops, 0)
  /\ UNCHANGED <<phase, waiting, replaced>>

CreateAlloca(u) == Create(u, << >>)
CreateLoad(u, a) == a \in Live /\ Create(u, <<a>>)
CreateStore(u, v, a) == {v, a} \subseteq Live /\ Create(u, <<v, a>>)
CreatePure(u, v, w) == {v, w} \subseteq Live /\ Create(u, <<v, w>>)
CreateVoid(u, v, b) == v \in Live /\ Create(u, <<v, b>>)

(* Mem2Reg *)

\* generate_phi: a phi without operands, at the front of a block.
InsertPhi(p) ==
  /\ phase = "phi" /\ p \in Phi /\ place[p] = "fresh"
  /\ place' = [place EXCEPT ![p] = "placed"]
  /\ operands' = [operands EXCEPT ![p] = << >>]
  /\ UNCHANGED <<phase, uses, waiting, replaced>>

\* re_name step 6: add_phi_pair_operand(top of the stack, bb), two add_operands.
FillPhi(p, v, b) ==
  /\ phase = "rename" /\ p \in Phi \cap Placed
  /\ Len(operands[p]) < 2 * MaxPairs
  /\ v \in Data \cap Live /\ b \in Label
  /\ uses' = Registered(p, operands[p] \o <<v, b>>, Len(operands[p]))
  /\ operands' = [operands EXCEPT ![p] = @ \o <<v, b>>]
  /\ UNCHANGED <<phase, place, waiting, replaced>>

\* Seeded fault: a load of a variable without a stack is queued all the same.
QueueLoadOnly(l, v) ==
  /\ phase = "rename" /\ l \in (Load \cap Placed) \ waiting
  /\ v \in (Data \cap Live) \ {l}
  /\ waiting' = waiting \cup {l}
  /\ UNCHANGED <<phase, place, operands, uses, replaced>>

\* re_name step 4: the load's value is the top of the stack of its variable.
\* (A load of a variable without a stack is left alone: no action.)
ReplaceLoad(l, v) ==
  /\ phase = "rename" /\ l \in (Load \cap Placed) \ waiting
  /\ v \in (Data \cap Live) \ {l}
  /\ replace_all_use_with(l, v)
  /\ waiting' = waiting \cup {l}
  /\ UNCHANGED <<phase, place>>

\* re_name step 5: a store's value is on the stack, the store can go.
DropStore(s) ==
  /\ phase = "rename" /\ s \in (Store \cap Placed) \ waiting
  /\ waiting' = waiting \cup {s}
  /\ UNCHANGED <<phase, place, operands, uses, replaced>>

\* remove_alloca: the scalar allocas, whoever uses them.
RemoveAlloca(a) ==
  /\ phase = "alloca" /\ a \in Alloca \cap Placed
  /\ delete_instr(a, "removed")
  /\ UNCHANGED <<phase, operands, waiting, replaced>>

(* ConstPropagation *)

\* An instruction all of whose operands are constants becomes a constant.
Fold(u, c) ==
  /\ phase = "fold" /\ u \in (Pure \cap Placed) \ waiting /\ c \in Const
  /\ \A i \in DOMAIN operands[u] : operands[u][i] \in Const
  /\ replace_all_use_with(u, c)
  /\ waiting' = waiting \cup {u}
  /\ UNCHANGED <<phase, place>>

\* The loop over wait_delete (Mem2Reg) or del (ConstPropagation).
DeleteWaiting(u) ==
  /\ u \in waiting
  /\ delete_instr(u, "removed")
  /\ waiting' = waiting \ {u}
  /\ UNCHANGED <<phase, operands, replaced>>

(* LoopInvHoist *)

\* The block of the loop loses the instruction: delete_instr.
HoistDelete(u) ==
  /\ phase = "hoist" /\ u \in Pure \cap Placed
  /\ delete_instr(u, "moving")
  /\ UNCHANGED <<phase, operands, waiting, replaced>>

\* The preheader gets it: add_instr_begin, which registers no use.
HoistInsert(u) ==
  /\ phase = "hoist" /\ u \in Instr /\ place[u] = "moving"
  /\ place' = [place EXCEPT ![u] = "placed"]
  /\ UNCHANGED <<phase, operands, uses, waiting, replaced>>

(* PassManager: one pass after the other *)

EndPhase ==
  /\ waiting = {} /\ \A u \in Instr : place[u] # "moving"
  /\ \E k \in 1 .. Len(Phases) - 1 : phase = Phases[k] /\ phase' = Phases[k + 1]
  /\ UNCHANGED <<place, operands, uses, waiting, replaced>>

Init == /\ phase = "build"
        /\ place = [u \in Instr |-> "fresh"]
        /\ operands = [u \in Instr |-> << >>]
        /\ uses = [v \in Value |-> {}]
        /\ waiting = {}
        /\ replaced = {}

Build == \/ \E u \in Alloca : CreateAlloca(u)
         \/ \E u \in Load, a \in Alloca : CreateLoad(u, a)
         \/ \E u \in Store, v \in Data, a \in Alloca : CreateStore(u, v, a)
         \/ \E u \in Pure, v, w \in Data : CreatePure(u, v, w)
         \/ \E u \in Void, v \in Data, b \in Label : CreateVoid(u, v, b)

Next == \/ Build
        \/ \E u \in Instr : \/ InsertPhi(u) \/ DropStore(u) \/ RemoveAlloca(u)
                            \/ DeleteWaiting(u) \/ HoistDelete(u) \/ HoistInsert(u)
        \/ \E p \in Phi, v \in Data, b \in Label : FillPhi(p, v, b)
        \/ \E l \in Load, v \in Data : ReplaceLoad(l, v)
        \/ \E u \in Pure, c \in Const : Fold(u, c)
        \/ EndPhase

Spec == Init /\ [][Next]_vars

-------------------------------------------------------------------------------
(* Properties *)

\* Every variable stays in its range: operands are values, entries of use lists
\* name a user and an operand number, and only instructions wait for deletion.
TypeOK ==
  /\ phase \in {Phases[k] : k \in 1 .. Len(Phases)}
  /\ place \in [Instr -> {"fresh", "placed", "removed", "moving"}]
  /\ operands \in [Instr -> Seq(Value)]
  /\ uses \in [Value -> SUBSET (Instr \X (Nat \ {0}))]
  /\ waiting \in SUBSET Instr
  /\ replaced \in SUBSET Value

\* Up to LoopInvHoist, every operand of an instruction in a block is in the use
\* list of the value it names: what replace_all_use_with needs in order to reach
\* all the places its comment speaks of (LightIR.md:803).
UsesComplete ==
  phase \notin {"hoist", "done"} =>
    \A u \in Placed : \A i \in DOMAIN operands[u] : <<u, i>> \in uses[operands[u][i]]

\* An entry in the use list of a value that has not been replaced is true: that
\* user is in a block, has that operand, and it is this value.  Otherwise
\* replace_all_use_with would overwrite an operand that names another value, or
\* fail set_operand's assertion on the index (User.cpp:24).
UsesSound ==
  \A v \in Value \ replaced : \A e \in uses[v] :
    /\ e[1] \in Placed
    /\ e[2] \in DOMAIN operands[e[1]]
    /\ operands[e[1]][e[2]] = v

\* No instruction of the program names a value that a pass has replaced, however
\* replacements, phi filling and deletions of queued instructions interleave.
ReplacedUnused ==
  \A u \in Instr : place[u] \in {"placed", "moving"} =>
    \A i \in DOMAIN operands[u] : operands[u][i] \notin replaced

\* No instruction of the program names an instruction that was taken out of it,
\* allocas excepted (Mem2Reg removes those without looking at their users).
NoDanglingOperand ==
  \A u \in Instr : place[u] \in {"placed", "moving"} =>
    \A i \in DOMAIN operands[u] :
      operands[u][i] \in Instr \ Alloca => place[operands[u][i]] \in {"placed", "moving"}

\* The layer implements the abstract graph of values: replace_all_use_with is a
\* substitution in every placed instruction, deletion only hits unused values,
\* and a move by LoopInvHoist changes nothing.
Graph == INSTANCE ValueGraph WITH
  Void <- Store \cup Void, Slot <- Alloca,
  place <- [u \in Instr |-> IF place[u] = "moving" THEN "placed" ELSE place[u]]
ImplementsValueGraph == Graph!Spec
===============================================================================
