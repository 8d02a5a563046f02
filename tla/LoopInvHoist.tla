----------------------------- MODULE LoopInvHoist ------------------------------
(***************************************************************************)
(* The pass LoopInvHoist on one function: for each loop, and then for each *)
(* loop around it, instructions that seem not to depend on the loop are    *)
(* taken out of its blocks and put in front of the block it is entered     *)
(* from.                                                                   *)
(*                                                                         *)
(* Instructions differ by what the pass does with them: phis; the ones it  *)
(* may move (binary, compare, zext, sitofp, fptosi), called "pure" unless  *)
(* they are divisions; and all others, which it does not look at.  Loops and the loops around them are taken from the        *)
(* definition in Cfg: that LoopSearch finds them is shown in Analyses.     *)
(* What becomes of the use lists is the subject of UseLists.               *)
(***************************************************************************)
EXTENDS Naturals, Sequences, SequencesExt, Cfg

CONSTANT Functions   \* records: succ, pre and body, by block; blocks are 1, 2, ...

VARIABLES fn,
          loops,        \* get_loops_in_func: records with fields base and bbs
          code,         \* instr_list_ of each block
          phase,        \* "loop", "scan", "place" or "done"
          todo,         \* the loops that the outer loop of the pass has yet to reach
          now_loop,
          left,         \* the blocks of now_loop that are still to scan
          used_ins_op,  \* what depends on the loop, as far as the pass has seen
          del           \* the instructions that will be moved

vars == <<fn, loops, code, phase, todo, now_loop, left, used_ins_op, del>>

Block == DOMAIN fn.succ
Entry == 1
Edges == UNION {{b} \X ToSet(fn.succ[b]) : b \in Block}

Instr(op, id, args) == [op |-> op, id |-> id, args |-> args]
Phi(id, args) == Instr("phi", id, args)
Pure(id, args) == Instr("pure", id, args)
Division(id, args) == Instr("division", id, args)
Other(id, args) == Instr("other", id, args)

\* What isBinary, is_cmp, is_fcmp, is_zext, is_si2fp and is_fp2si let through.
Movable == {"pure", "division"}

ASSUME FunctionsAssumption ==
  \A f \in Functions :
    /\ Entry \in DOMAIN f.succ /\ DOMAIN f.body = DOMAIN f.succ /\ DOMAIN f.pre = DOMAIN f.succ
    /\ \A b, c \in DOMAIN f.succ : c \in ToSet(f.succ[b]) <=> b \in ToSet(f.pre[c])

\* get_parent_loop: the smallest loop around a loop, if there is one.
get_parent_loop(l) ==
  LET around == {m \in loops \ {l} : l.bbs \subseteq m.bbs}
  IN  {m \in around : \A n \in around : m.bbs \subseteq n.bbs}

-------------------------------------------------------------------------------

\* Seeded fault: used_ins_op starts empty.
BeginLoopWithoutPhis(l) ==
  /\ phase' = "scan" /\ now_loop' = l /\ left' = l.bbs
  /\ used_ins_op' = {}
  /\ del' = << >>

\* Seeded fault: the phis of the whole function count.
BeginLoopWithAllPhis(l) ==
  /\ phase' = "scan" /\ now_loop' = l /\ left' = l.bbs
  /\ used_ins_op' = UNION {{i.id : i \in {i \in ToSet(code[b]) : i.op = "phi"}} : b \in Block}
  /\ del' = << >>

\* while (now_loop): the phis of all its blocks depend on the loop.
BeginLoop(l) ==
  /\ phase' = "scan" /\ now_loop' = l /\ left' = l.bbs
  /\ used_ins_op' = UNION {{i.id : i \in {i \in ToSet(code[b]) : i.op = "phi"}} : b \in l.bbs}
  /\ del' = << >>

\* for (auto each_loop : loops), in the order of a set of addresses; the innermost
\* loop of its base is the loop itself.
ChooseLoop(l) ==
  /\ phase = "loop" /\ l \in todo
  /\ todo' = todo \ {l}
  /\ BeginLoop(l)
  /\ UNCHANGED <<fn, loops, code>>

\* Seeded fault: the kind of the instruction is not looked at.
ScannedOfAnyKind(is) ==
  FoldLeft(LAMBDA s, i : IF ToSet(i.args) \cap s.used = {} THEN [s EXCEPT !.del = Append(@, i)]
                         ELSE [s EXCEPT !.used = @ \cup {i.id}],
           [used |-> used_ins_op, del |-> del], is)

\* What the scan of some instructions adds to used_ins_op and to del: one that may
\* move is taken if none of its operands has been seen to depend on the loop.
Scanned(is) ==
  FoldLeft(LAMBDA s, i : IF i.op \notin Movable THEN s
                         ELSE IF ToSet(i.args) \cap s.used = {} THEN [s EXCEPT !.del = Append(@, i)]
                         ELSE [s EXCEPT !.used = @ \cup {i.id}],
           [used |-> used_ins_op, del |-> del], is)

\* One block of the loop, in any order; at its end it loses the instructions of del.
Scan(b) ==
  LET s == Scanned(code[b]) IN
    /\ phase = "scan" /\ b \in left
    /\ left' = left \ {b}
    /\ used_ins_op' = s.used /\ del' = s.del
    /\ code' = [code EXCEPT ![b] = SelectSeq(@, LAMBDA i : i \notin ToSet(s.del))]
    /\ UNCHANGED <<fn, loops, phase, todo, now_loop>>

EndScan ==
  /\ phase = "scan" /\ left = {}
  /\ phase' = "place"
  /\ UNCHANGED <<fn, loops, code, todo, now_loop, left, used_ins_op, del>>

\* The predecessors of the base that are not in the loop, in the order of pre_bbs_.
Outside(l) == SelectSeq(fn.pre[l.base], LAMBDA b : b \notin l.bbs)

\* Seeded fault: add_instr_begin from the front of del to its back.
PlacedInOrder ==
  IF del = << >> THEN code ELSE [code EXCEPT ![Outside(now_loop)[1]] = Reverse(del) \o @]

\* Seeded fault: the last predecessor, be it in the loop or not.
PlacedInLatch ==
  IF del = << >> THEN code
  ELSE [code EXCEPT ![fn.pre[now_loop.base][Len(fn.pre[now_loop.base])]] = del \o @]

\* From the back of del to its front, each goes to the begin of the first predecessor.
Placed == IF del = << >> THEN code ELSE [code EXCEPT ![Outside(now_loop)[1]] = del \o @]

\* del is put in front of the loop; on with the loop around, or the next one.
Place ==
  /\ phase = "place"
  /\ code' = Placed
  /\ \/ \E l \in get_parent_loop(now_loop) : BeginLoop(l)
     \/ /\ get_parent_loop(now_loop) = {}
        /\ phase' = IF todo = {} THEN "done" ELSE "loop"
        /\ del' = << >> /\ used_ins_op' = {}
        /\ UNCHANGED <<now_loop, left>>
  /\ UNCHANGED <<fn, loops, todo>>

Init == /\ fn \in Functions
        /\ loops = NaturalLoops(Entry, Block, Edges)
        /\ code = fn.body
        /\ todo = loops
        /\ phase = IF loops = {} THEN "done" ELSE "loop"
        /\ now_loop = [base |-> 0, bbs |-> {}]
        /\ left = {} /\ used_ins_op = {} /\ del = << >>

Next == \/ \E l \in loops : ChooseLoop(l)
        \/ \E b \in Block : Scan(b)
        \/ EndScan \/ Place

\* One call of run() on one thread.
Fairness == WF_vars(Next)

Spec == Init /\ [][Next]_vars /\ Fairness

-------------------------------------------------------------------------------
(* Properties *)

Instrs(b) == ToSet(code[b])
AllInstrs == UNION {ToSet(fn.body[b]) : b \in Block}
Position(c, i) == {p \in UNION {{b} \X DOMAIN c[b] : b \in Block} : c[p[1]][p[2]] = i}
Result(v) == {i \in AllInstrs : i.id = v}

\* Every variable stays in its range.
TypeOK ==
  /\ phase \in {"loop", "scan", "place", "done"}
  /\ todo \subseteq loops
  /\ phase \in {"scan", "place"} => now_loop \in loops /\ left \subseteq now_loop.bbs
  /\ used_ins_op \subseteq {i.id : i \in {i \in AllInstrs : i.op \in {"phi"} \cup Movable}}
  /\ \A k \in DOMAIN del : del[k] \in AllInstrs /\ del[k].op \in Movable

\* Every instruction of the function is in one place: in a block, or waiting to be put
\* in front of the loop, never both, and never twice.
OnePlaceEach ==
  \A i \in AllInstrs :
    Cardinality(Position(code, i)) + Cardinality({k \in DOMAIN del : del[k] = i}) = 1

\* Only instructions of those kinds move, and only to blocks that are always run before the
\* ones they come from, and that are in fewer loops.
MovesOutAndUp ==
  OnePlaceEach /\ \A i \in AllInstrs : \A here \in Position(code, i) : \A home \in Position(fn.body, i) :
    \/ here[1] = home[1]
    \/ /\ i.op \in Movable
       /\ home[1] \in DominatedBy(here[1], Entry, Block, Edges)
       /\ {l \in loops : here[1] \in l.bbs} \subseteq {l \in loops : home[1] \in l.bbs}
       /\ \E l \in loops : home[1] \in l.bbs /\ here[1] \notin l.bbs

\* "Expressions that do not depend on the loop" are moved out of it (4-ir-opt/README.md:72):
\* no operand of what is moved is computed by an instruction that stays in the loop.
OnlyInvariantsMove ==
  phase = "place" =>
    \A k \in DOMAIN del : \A v \in ToSet(del[k].args) :
      \A i \in Result(v) : \A b \in now_loop.bbs : i \notin Instrs(b)

\* After each loop, every operand of every instruction that is no phi has been computed
\* before: earlier in its block ("a sequence of statements executed in order",
\* LightIR.md:55), or in a block that dominates it.
OperandsComputedBefore ==
  phase \in {"loop", "done"} =>
    \A b \in Block : \A k \in DOMAIN code[b] :
      code[b][k].op = "phi" \/
        \A v \in ToSet(code[b][k].args) : \A i \in Result(v) : \A p \in Position(code, i) :
          IF p[1] = b THEN p[2] < k ELSE b \in DominatedBy(p[1], Entry, Block, Edges)

\* "Judge whether a statement does not depend on the loop, and whether moving it has no
\* side effect" (4-ir-opt/README.md:90): in the end operands are computed before they
\* are used, and a division is only where the block it comes from is going to be run,
\* so that it does not trap in a program that would not have reached it.
MovedWithoutEffect ==
  phase = "done" =>
    /\ OperandsComputedBefore
    /\ \A i \in {i \in AllInstrs : i.op = "division"} :
         \A here \in Position(code, i) : \A home \in Position(fn.body, i) :
           \A b \in ReachableFrom({here[1]} \ {home[1]}, Block \ {home[1]}, Edges) :
             fn.succ[b] # << >>

\* None of those instructions is left in a loop if none of its operands is
\* computed there, however the loops were ordered.
InvariantsLeft ==
  \A l \in loops : \A b \in l.bbs : \A i \in Instrs(b) :
    i.op \in Movable => \E v \in ToSet(i.args) : \E j \in Result(v) : \E c \in l.bbs : j \in Instrs(c)

\* The pass ends, and nothing is left to move.
EndsWithoutInvariants == <>(phase = "done" /\ InvariantsLeft)
===============================================================================
