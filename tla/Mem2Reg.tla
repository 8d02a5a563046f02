------------------------------- MODULE Mem2Reg --------------------------------
(***************************************************************************)
(* The pass Mem2Reg on one function: phis are inserted on the iterated     *)
(* dominance frontiers of the stores, then re_name walks the dominator     *)
(* tree with a stack of values per variable, replaces loads, fills phis    *)
(* and deletes loads and stores; last, the allocas go.                     *)
(*                                                                         *)
(* Variables are the scalar allocas.  Of the other instructions only those *)
(* that use a value matter ("use": an output, a condition, a call).        *)
(* Dominance is taken from the definitions in Cfg: that the pass Dominators*)
(* computes them is shown in the module of that name.                      *)
(***************************************************************************)
EXTENDS Naturals, Sequences, SequencesExt, Cfg

CONSTANTS Var,       \* the scalar variables, numbered from 1
          Functions  \* records: succ (lists of successors) and body (lists of instructions)

VARIABLES
  fn,             \* the function as the builder made it
  dominators_,    \* the results of the pass Dominators: frontiers and tree
  code,           \* instr_list_ of each block now, allocas left out
  phase,          \* "variable", "work list", "rename", "alloca", "done"; or why it stopped
  todo, var,      \* global_live_var_name still to visit, and the one visited
  work_list,
  var_val_stack,
  stacked,        \* the keys of var_val_stack: variables that ever had a value pushed
  calls           \* activations of re_name, innermost last

vars == <<fn, dominators_, code, phase, todo, var, work_list, var_val_stack, stacked, calls>>

Block == DOMAIN fn.succ
Entry == 1
Edges == UNION {{b} \X ToSet(fn.succ[b]) : b \in Block}

\* Operands: constants, and the instructions that define a value.
Const(n) == <<"const", n>>
Loaded(b, i) == <<"load", b, i>>
Joined(b, x) == <<"phi", b, x>>

Store(x, v) == [op |-> "store", var |-> x, val |-> v]
Load(x, id) == [op |-> "load", var |-> x, id |-> id]
Use(v) == [op |-> "use", val |-> v]
Phi(b, x) == [op |-> "phi", var |-> x, id |-> Joined(b, x), pairs |-> << >>]

ASSUME VarAssumption == Var \subseteq Nat \ {0}

\* What the builder makes of the statements of a function.
Original(i) ==
  \/ i.op = "store" /\ i \in [op : {"store"}, var : Var, val : {i.val}]
  \/ i.op = "load" /\ i \in [op : {"load"}, var : Var, id : {i.id}]
  \/ i.op = "use" /\ i \in [op : {"use"}, val : {i.val}]

ASSUME FunctionsAssumption ==
  \A f \in Functions :
    LET B == DOMAIN f.succ
        E == UNION {{b} \X ToSet(f.succ[b]) : b \in B}
    IN  /\ f.succ \in Seq(Seq(B)) /\ Entry \in B
        /\ ReachableFrom({Entry}, B, E) = B
        /\ f.body \in [B -> Seq(UNION {ToSet(f.body[b]) : b \in B})]
        /\ \A b \in B : \A i \in ToSet(f.body[b]) : Original(i)

\* A load has a register of its own, and its result is used after it: later in its block,
\* or in a block that it dominates.
ASSUME SSAAssumption ==
  \A f \in Functions :
    LET B == DOMAIN f.succ
        E == UNION {{b} \X ToSet(f.succ[b]) : b \in B}
        Loads(b) == {i \in DOMAIN f.body[b] : f.body[b][i].op = "load"}
    IN  /\ \A b, c \in B : \A i \in Loads(b), j \in Loads(c) :
             f.body[b][i].id = f.body[c][j].id => b = c /\ i = j
        /\ \A b \in B : \A i \in Loads(b) : f.body[b][i].id[1] = "load"
        /\ \A b \in B : \A i \in DOMAIN f.body[b] \ Loads(b) :
             LET v == f.body[b][i].val IN
               \/ v[1] = "const"
               \/ \E c \in B : \E j \in Loads(c) :
                    /\ f.body[c][j].id = v
                    /\ IF b = c THEN j < i ELSE b \in DominatedBy(c, Entry, B, E)

Is(op, is) == {i \in DOMAIN is : is[i].op = op}
HasPhi(b, x) == \E i \in Is("phi", code[b]) : code[b][i].var = x

\* The elements of s at some positions, in order.
Selected(s, positions) ==
  LET taken[i \in 0 .. Len(s)] == IF i = 0 THEN << >>
                                  ELSE IF i \in positions THEN Append(taken[i - 1], s[i])
                                  ELSE taken[i - 1]
  IN  taken[Len(s)]

get_dominance_frontier(b) == dominators_.frontier[b]
get_dom_tree_succ_blocks(b) == {e[2] : e \in {e \in dominators_.tree : e[1] = b}}

-------------------------------------------------------------------------------
(* generate_phi *)

\* The next variable; its work list starts with the blocks that store it.  (The
\* code has a vector in the order of the blocks' addresses; here it is the set of
\* the blocks that the loop has yet to reach.)
ChooseVariable(x) ==
  /\ phase = "variable" /\ x \in todo
  /\ todo' = todo \ {x} /\ var' = x
  /\ work_list' = {b \in Block : \E i \in Is("store", code[b]) : code[b][i].var = x}
  /\ phase' = "work list"
  /\ UNCHANGED <<fn, dominators_, code, var_val_stack, stacked, calls>>

\* Seeded fault: only the frontiers of the stores get phis, not those of phis.
TakeWorkOnce(b) ==
  LET new == {d \in get_dominance_frontier(b) : ~ HasPhi(d, var)} IN
    /\ phase = "work list" /\ b \in work_list
    /\ code' = [d \in Block |-> IF d \in new THEN <<Phi(d, var)>> \o code[d] ELSE code[d]]
    /\ work_list' = work_list \ {b}
    /\ UNCHANGED <<fn, dominators_, phase, todo, var, var_val_stack, stacked, calls>>

\* The blocks of the frontier that have no phi for the variable get one, at their
\* front, and join the work list.
TakeWork(b) ==
  LET new == {d \in get_dominance_frontier(b) : ~ HasPhi(d, var)} IN
    /\ phase = "work list" /\ b \in work_list
    /\ code' = [d \in Block |-> IF d \in new THEN <<Phi(d, var)>> \o code[d] ELSE code[d]]
    /\ work_list' = (work_list \ {b}) \cup new
    /\ UNCHANGED <<fn, dominators_, phase, todo, var, var_val_stack, stacked, calls>>

VariableDone ==
  /\ phase = "work list" /\ work_list = {}
  /\ phase' = "variable"
  /\ UNCHANGED <<fn, dominators_, code, todo, var, work_list, var_val_stack, stacked, calls>>

-------------------------------------------------------------------------------
(* re_name *)

Pushed(x, v) ==
  /\ var_val_stack' = [var_val_stack EXCEPT ![x] = Append(@, v)]
  /\ stacked' = stacked \cup {x}

\* Seeded fault: the phis of bb are not pushed.
CallWithoutPhis(bb, above) ==
  /\ calls' = Append(above, [bb |-> bb, at |-> 1, filled |-> FALSE, wait_delete |-> {},
                             next |-> get_dom_tree_succ_blocks(bb)])
  /\ UNCHANGED <<var_val_stack, stacked>>

\* re_name(bb) is called; step 3: the phis of bb are the values of their variables.
Call(bb, above) ==
  LET phis == Is("phi", code[bb])
      joined == {code[bb][i].var : i \in phis}
  IN  /\ calls' = Append(above, [bb |-> bb, at |-> 1, filled |-> FALSE, wait_delete |-> {},
                                 next |-> get_dom_tree_succ_blocks(bb)])
      /\ var_val_stack' = [x \in Var |-> IF x \in joined THEN Append(var_val_stack[x], Joined(bb, x))
                                                         ELSE var_val_stack[x]]
      /\ stacked' = stacked \cup joined

Rename ==
  /\ phase = "variable" /\ todo = {}
  /\ phase' = "rename"
  /\ Call(Entry, << >>)
  /\ UNCHANGED <<fn, dominators_, code, todo, var, work_list>>

Frame == Last(calls)
Renaming == phase = "rename" /\ calls # << >>
Working == Renaming /\ Frame.at <= Len(code[Frame.bb])
instr == code[Frame.bb][Frame.at]

\* Seeded fault: the iterator moves on once for the queue and once for the loop.
AdvanceTwice(waiting) ==
  calls' = Append(Front(calls), [Frame EXCEPT !.at = IF waiting = {} THEN @ + 1 ELSE @ + 2,
                                              !.wait_delete = @ \cup waiting])

\* The next instruction of the loop; some are queued for deletion.
Advance(waiting) ==
  calls' = Append(Front(calls), [Frame EXCEPT !.at = @ + 1, !.wait_delete = @ \cup waiting])

\* replace_all_use_with: every operand that is old becomes new, wherever it is.
Subst(v, old, new) == IF v = old THEN new ELSE v

\* Seeded fault: the value of a store is not taken for a use.
SubstitutedInUses(i, old, new) ==
  IF i.op = "use" THEN [i EXCEPT !.val = Subst(@, old, new)] ELSE i

Substituted(i, old, new) ==
  CASE i.op \in {"store", "use"} -> [i EXCEPT !.val = Subst(@, old, new)]
    [] i.op = "phi" -> [i EXCEPT !.pairs = [k \in DOMAIN @ |-> <<Subst(@[k][1], old, new), @[k][2]>>]]
    [] OTHER -> i
ReplaceAllUses(old, new) ==
  code' = [b \in Block |-> [k \in DOMAIN code[b] |-> Substituted(code[b][k], old, new)]]

\* Step 4: a load is replaced by the last value on the stack of its variable, if
\* that has a stack.  back() of an empty vector is undefined behaviour.
ReplaceLoad ==
  /\ Working /\ instr.op = "load" /\ instr.var \in stacked
  /\ IF var_val_stack[instr.var] = << >>
     THEN phase' = "undefined" /\ UNCHANGED <<code, calls>>
     ELSE /\ ReplaceAllUses(instr.id, Last(var_val_stack[instr.var]))
          /\ Advance({Frame.at}) /\ UNCHANGED phase
  /\ UNCHANGED <<fn, dominators_, todo, var, work_list, var_val_stack, stacked>>

\* Step 5: a store's value goes on the stack.
PushStore ==
  /\ Working /\ instr.op = "store"
  /\ Pushed(instr.var, instr.val)
  /\ Advance({Frame.at})
  /\ UNCHANGED <<fn, dominators_, code, phase, todo, var, work_list>>

\* Other instructions, and loads of variables that never had a stack, stay.
SkipInstr ==
  /\ Working
  /\ \/ instr.op \notin {"load", "store"}
     \/ instr.op = "load" /\ instr.var \notin stacked
  /\ Advance({})
  /\ UNCHANGED <<fn, dominators_, code, phase, todo, var, work_list, var_val_stack, stacked>>

\* Step 6: each phi of each successor gets the last value of its variable, for the
\* edge from this block; assert(size() != 0).  A phi whose variable never had a
\* stack gets no pair.
FillPhis ==
  LET bb == Frame.bb
      Filled(i) == IF i.op = "phi" /\ i.var \in stacked
                   THEN [i EXCEPT !.pairs = Append(@, <<Last(var_val_stack[i.var]), bb>>)] ELSE i
      fillable == \A s \in ToSet(fn.succ[bb]) : \A k \in Is("phi", code[s]) :
                    code[s][k].var \in stacked => var_val_stack[code[s][k].var] # << >>
  IN  /\ Renaming /\ ~ Working /\ ~ Frame.filled
      /\ IF fillable
         THEN /\ code' = [s \in Block |-> IF s \in ToSet(fn.succ[bb])
                                          THEN [k \in DOMAIN code[s] |-> Filled(code[s][k])]
                                          ELSE code[s]]
              /\ calls' = Append(Front(calls), [Frame EXCEPT !.filled = TRUE])
              /\ UNCHANGED phase
         ELSE phase' = "aborted" /\ UNCHANGED <<code, calls>>
      /\ UNCHANGED <<fn, dominators_, todo, var, work_list, var_val_stack, stacked>>

\* The recursive call, on the children in the dominator tree in any order (a set
\* of addresses).
Descend(c) ==
  /\ Renaming /\ Frame.filled /\ c \in Frame.next
  /\ Call(c, Append(Front(calls), [Frame EXCEPT !.next = @ \ {c}]))
  /\ UNCHANGED <<fn, dominators_, code, phase, todo, var, work_list>>

Pops(b, x) == Cardinality({i \in Is("store", code[b]) \cup Is("phi", code[b]) : code[b][i].var = x})
Drop(s, n) == SubSeq(s, 1, Len(s) - n)
Without(is, positions) == Selected(is, DOMAIN is \ positions)

\* Seeded fault: only the values of stores are popped.
LeaveWithPhis ==
  LET bb == Frame.bb
      Stores(x) == Cardinality({i \in Is("store", code[bb]) : code[bb][i].var = x})
  IN  /\ Renaming /\ Frame.filled /\ Frame.next = {}
      /\ var_val_stack' = [x \in Var |-> Drop(var_val_stack[x], Stores(x))]
      /\ code' = [code EXCEPT ![bb] = Without(@, Frame.wait_delete)]
      /\ calls' = Front(calls)
      /\ UNCHANGED <<fn, dominators_, phase, todo, var, work_list, stacked>>

\* Step 7: the values of the block are popped, and what was queued is deleted.
Leave ==
  LET bb == Frame.bb IN
    /\ Renaming /\ Frame.filled /\ Frame.next = {}
    /\ var_val_stack' = [x \in Var |-> Drop(var_val_stack[x], Pops(bb, x))]
    /\ code' = [code EXCEPT ![bb] = Without(@, Frame.wait_delete)]
    /\ calls' = Front(calls)
    /\ UNCHANGED <<fn, dominators_, phase, todo, var, work_list, stacked>>

\* remove_alloca deletes the allocas: their number is all there is to see.
RemoveAllocas ==
  /\ phase = "rename" /\ calls = << >>
  /\ phase' = "done"
  /\ UNCHANGED <<fn, dominators_, code, todo, var, work_list, var_val_stack, stacked, calls>>

-------------------------------------------------------------------------------

\* var_val_stack is a global that outlives the function, but its keys are the
\* addresses of allocas: at the start none is a variable of this function.
Init == /\ fn \in Functions
        /\ dominators_ = [frontier |-> [b \in Block |-> Frontier(b, Entry, Block, Edges)],
                           tree |-> IdomPairs(Entry, Block, Edges)]
        /\ code = fn.body
        /\ phase = "variable"
        /\ todo = {x \in Var : \E b \in Block : \E i \in Is("store", code[b]) : code[b][i].var = x}
        /\ var = 0
        /\ work_list = {}
        /\ var_val_stack = [x \in Var |-> << >>]
        /\ stacked = {}
        /\ calls = << >>

Next == \/ \E x \in Var : ChooseVariable(x)
        \/ \E b \in Block : TakeWork(b) \/ Descend(b)
        \/ VariableDone \/ Rename \/ ReplaceLoad \/ PushStore \/ SkipInstr
        \/ FillPhis \/ Leave \/ RemoveAllocas

\* One call of run() on one thread.
Fairness == WF_vars(Next)

Spec == Init /\ [][Next]_vars /\ Fairness
-------------------------------------------------------------------------------
(* Properties *)

Instrs(b) == ToSet(code[b])
Operands(i) == CASE i.op \in {"store", "use"} -> {i.val}
                 [] i.op = "phi" -> {pair[1] : pair \in ToSet(i.pairs)}
                 [] OTHER -> {}

\* Every variable stays in its range; wait_delete holds positions of the block.
TypeOK ==
  /\ phase \in {"variable", "work list", "rename", "done", "aborted", "undefined"}
  /\ todo \subseteq Var /\ stacked \subseteq Var /\ var \in Var \cup {0}
  /\ work_list \subseteq Block
  /\ DOMAIN var_val_stack = Var
  /\ \A b \in Block : \A i \in Instrs(b) : i.op \in {"store", "load", "use", "phi"}
  /\ \A k \in DOMAIN calls : /\ calls[k].bb \in Block
                             /\ calls[k].at \in 1 .. Len(code[calls[k].bb]) + 1
                             /\ calls[k].wait_delete \subseteq DOMAIN code[calls[k].bb]

\* Every variable is stored on entry, as parameters are, and not loaded there before.
StoredOnEntry ==
  LET is == fn.body[Entry] IN
    \A x \in Var : \E i \in Is("store", is) :
      is[i].var = x /\ \A j \in 1 .. i - 1 : is[j].op = "load" => is[j].var # x

\* If every variable is stored on entry, the pass neither fails
\* assert(var_val_stack[l_val].size() != 0) nor takes the last value of an empty stack.
NoEmptyStack == StoredOnEntry => phase \notin {"aborted", "undefined"}

\* The assertion of step 6 (Mem2Reg.cpp:131) holds, for any program.
AssertionHolds == phase # "aborted"

\* Every value is on the stack exactly as long as its block is being renamed: the
\* global stacks are empty when the function is done.
StacksEmptied == \A x \in Var : var_val_stack[x] = << >>

\* Every phi has exactly one pair for each predecessor of its block.
PhisComplete ==
  \A b \in Block : \A i \in Is("phi", code[b]) :
    LET froms == [k \in DOMAIN code[b][i].pairs |-> code[b][i].pairs[k][2]]
    IN  IsInjective(froms) /\ ToSet(froms) = {e[1] : e \in {e \in Edges : e[2] = b}}

\* No instruction names a deleted alloca or a value that no instruction defines.
NothingDangles ==
  \A b \in Block : \A i \in Instrs(b) :
    /\ i.op \notin {"load", "store"}
    /\ \A v \in Operands(i) :
         v[1] = "const" \/ \E c \in Block : \E j \in Instrs(c) : j.op = "phi" /\ j.id = v

\* If every variable is stored on entry, the function that the pass leaves is well
\* formed: complete phis, and no operand that replacement or deletion has orphaned.
WellFormed == phase = "done" /\ StoredOnEntry => PhisComplete /\ NothingDangles

\* The pass ends, with its stacks as empty as it found them, unless it meets an empty
\* stack on the way.
EndsWithEmptyStacks ==
  <>((phase = "done" /\ StacksEmptied) \/ phase \in {"aborted", "undefined"})
===============================================================================
