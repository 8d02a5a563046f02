---------------------------- MODULE Mem2RegMeaning ----------------------------
(***************************************************************************)
(* What Mem2Reg must preserve: when the pass is done, the function as the  *)
(* builder made it and the function as the pass left it are run side by    *)
(* side along any path, block by block.  The first keeps its variables in  *)
(* memory; the second has phis, which take the values of their pairs for   *)
(* the edge that is followed, all at once.                                 *)
(***************************************************************************)
EXTENDS Mem2Reg

VARIABLES
  here,      \* the block that was just run; 0 before the first
  memory,    \* of the first run: the value of each variable
  loads,     \* of the first run: the value of each load
  values,    \* of the second run: the values of phis
  uses,      \* what the uses of the block saw in the first run
  newUses    \* ... and in the second

run == <<here, memory, loads, values, uses, newUses>>

\* The value of a variable that was never stored: any value would do.
undef == <<"undef">>

Get(f, id) == IF id \in DOMAIN f THEN f[id] ELSE undef
ValueIn(f, v) == IF v[1] = "const" THEN v ELSE Get(f, v)
Set(f, id, v) == [x \in DOMAIN f \cup {id} |-> IF x = id THEN v ELSE f[x]]

\* One instruction of the original.
Step(s, i) ==
  CASE i.op = "store" -> [s EXCEPT !.memory = Set(@, i.var, ValueIn(s.loads, i.val))]
    [] i.op = "load" -> [s EXCEPT !.loads = Set(@, i.id, Get(s.memory, i.var))]
    [] OTHER -> [s EXCEPT !.uses = Append(@, ValueIn(s.loads, i.val))]

\* The phis of block b, entered from block a; values that are not defined there
\* are no longer of interest.
Entered(a, b) ==
  LET phis == {i \in Instrs(b) : i.op = "phi"}
      From(i) == SelectSeq(i.pairs, LAMBDA pair : pair[2] = a)
      Taken(i) == IF From(i) = << >> THEN undef ELSE ValueIn(values, From(i)[1][1])
      ids == {i.id : i \in phis}
  IN  [id \in DOMAIN values \cup ids |->
         IF id \in ids THEN Taken(CHOOSE i \in phis : i.id = id) ELSE values[id]]

UsesOf(is, f) ==
  LET seen == SelectSeq(is, LAMBDA i : i.op = "use")
  IN  [k \in DOMAIN seen |-> ValueIn(f, seen[k].val)]

RunBlock(b) ==
  LET old == FoldLeft(Step, [memory |-> memory, loads |-> loads, uses |-> << >>], fn.body[b])
  IN  /\ phase = "done"
      /\ IF here = 0 THEN b = Entry ELSE <<here, b>> \in Edges
      /\ here' = b
      /\ memory' = old.memory /\ loads' = old.loads /\ uses' = old.uses
      /\ values' = Entered(here, b)
      /\ newUses' = UsesOf(code[b], Entered(here, b))
      /\ UNCHANGED vars

RunInit == /\ Init
           /\ here = 0 /\ memory = << >> /\ loads = << >> /\ values = << >>
           /\ uses = << >> /\ newUses = << >>

RunNext == \/ Next /\ UNCHANGED run
           \/ \E b \in Block : RunBlock(b)

RunSpec == RunInit /\ [][RunNext]_<<vars, run>> /\ WF_<<vars, run>>(Next /\ UNCHANGED run)

\* Along every path, loops and joins included, each use sees the value it saw in
\* memory before the pass, unless it was undefined there.
SameUses ==
  /\ Len(uses) = Len(newUses)
  /\ \A k \in DOMAIN uses : uses[k] = undef \/ uses[k] = newUses[k]
===============================================================================
