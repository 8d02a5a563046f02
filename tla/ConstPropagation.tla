---------------------------- MODULE ConstPropagation ----------------------------
(***************************************************************************)
(* The pass ConstPropagation on one function: one scan of each block, in   *)
(* the order of the list, replaces instructions with constant operands by  *)
(* constants, and deletes them at the end of the block.  What the          *)
(* replacement does to the use lists is in UseLists.                       *)
(***************************************************************************)
EXTENDS Integers, Sequences, SequencesExt

CONSTANTS Width,                  \* bits of an int: 32 in the code
          Floats, NaN,            \* the values of float
          FloatOp(_, _, _),       \* its arithmetic, comparisons and conversions: those of
          FloatCmp(_, _, _),      \* the processor, for the compiler and for the program
          FromInt(_),
          Truncated(_),           \* towards zero; what no int has, if out of range
          Functions               \* the functions the pass may be run on

Ints == -(2^(Width - 1)) .. 2^(Width - 1) - 1

\* Operands: constants, and the results of instructions.
ConstantInt(n) == <<"ConstantInt", n>>
ConstantFP(x) == <<"ConstantFP", x>>
Result(i) == <<"Instruction", i>>
isint(o) == o[1] = "ConstantInt"
isfloat(o) == o[1] = "ConstantFP"
isconst(o) == isint(o) \/ isfloat(o)

\* function: blocks is the list of lists of instructions; kind and op tell instructions
\* apart ("other": loads, calls, phis, op being their type; "void": calls, br and ret);
\* args are the operands.
VARIABLES function, instructions, args, bb, at, del, pc
vars == <<function, instructions, args, bb, at, del, pc>>

Instr == DOMAIN function.args
kind(i) == function.kind[i]
op(i) == function.op[i]

-------------------------------------------------------------------------------
(* ConstFolder *)

Wrap(n) == ((n + 2^(Width - 1)) % 2^Width) - 2^(Width - 1)
Abs(n) == IF n < 0 THEN -n ELSE n

\* Seeded fault: quotients are rounded down.
QuotientRoundedDown(m, n) == IF n < 0 THEN (-m) \div (-n) ELSE m \div n

\* Quotients are rounded towards zero.
Quotient(m, n) == IF (m < 0) = (n < 0) THEN Abs(m) \div Abs(n) ELSE -(Abs(m) \div Abs(n))

\* Signed overflow wraps in every build, as it does in the program.
compute(o, m, n) == CASE o = "add"  -> Wrap(m + n)
                      [] o = "sub"  -> Wrap(m - n)
                      [] o = "mul"  -> Wrap(m * n)
                      [] o = "sdiv" -> Quotient(m, n)

intcmp(o, m, n) == CASE o = "eq" -> IF m = n THEN 1 ELSE 0
                     [] o = "ne" -> IF m # n THEN 1 ELSE 0
                     [] o = "le" -> IF m <= n THEN 1 ELSE 0
                     [] o = "lt" -> IF m < n THEN 1 ELSE 0
                     [] o = "gt" -> IF m > n THEN 1 ELSE 0
                     [] o = "ge" -> IF m >= n THEN 1 ELSE 0

floatcmp(o, x, y) == IF FloatCmp(o, x, y) THEN 1 ELSE 0

\* A division that traps, and a comparison of mixed constants, which dereferences null
\* (isint of the float).
NoQuotient(m, n) == n = 0 \/ (m = -(2^(Width - 1)) /\ n = -1)
Crashes(i) ==
  /\ kind(i) \in {"binary", "cmp"} /\ \A k \in 1 .. 2 : isconst(args[i][k])
  /\ LET l == args[i][1]
         r == args[i][2]
     IN  \/ op(i) = "sdiv" /\ isint(l) /\ isint(r) /\ NoQuotient(l[2], r[2])
         \/ kind(i) = "cmp" /\ isint(l) # isint(r)

AsFloat(o) == IF isint(o) THEN FromInt(o[2]) ELSE o[2]

\* The constants that may replace instruction i; none if it is not folded.  A float that
\* no int can be near is cast to any int.
Folded(i) ==
  LET l == args[i][1]
      r == args[i][2]
      bothInt == isint(l) /\ isint(r)
      both == isconst(l) /\ isconst(r)
  IN  CASE kind(i) = "binary" /\ bothInt -> {ConstantInt(compute(op(i), l[2], r[2]))}
        [] kind(i) = "binary" /\ ~ bothInt /\ both ->
             {ConstantFP(FloatOp(op(i), AsFloat(l), AsFloat(r)))}
        [] kind(i) = "cmp" /\ bothInt -> {ConstantInt(intcmp(op(i), l[2], r[2]))}
        [] kind(i) = "fcmp" /\ both /\ ~ bothInt ->
             {ConstantInt(floatcmp(op(i), AsFloat(l), AsFloat(r)))}
        [] kind(i) = "zext" /\ isint(l) -> {l}
        [] kind(i) = "sitofp" /\ isint(l) -> {ConstantFP(FromInt(l[2]))}
        [] kind(i) = "fptosi" /\ isfloat(l) ->
             {ConstantInt(n) : n \in IF Truncated(l[2]) \in Ints THEN {Truncated(l[2])} ELSE Ints}
        [] OTHER -> {}

-------------------------------------------------------------------------------
(* run *)

\* The instruction of this turn of the loop over the block.
ins == instructions[bb][at]
InBlock == pc = "scan" /\ bb <= Len(instructions) /\ at <= Len(instructions[bb])

\* Seeded fault: only the uses in the same block are replaced.
ReplacedInBlock(i, v) == [j \in Instr |-> [k \in DOMAIN args[j] |->
                           IF args[j][k] = Result(i) /\ j \in ToSet(instructions[bb]) THEN v
                           ELSE args[j][k]]]

\* replace_all_use_with
ReplacedBy(i, v) == [j \in Instr |-> [k \in DOMAIN args[j] |->
                      IF args[j][k] = Result(i) THEN v ELSE args[j][k]]]

\* Seeded fault: the instruction after a folded one is skipped.
FoldAndSkip == /\ InBlock /\ ~ Crashes(ins)
               /\ \E v \in Folded(ins) : args' = ReplacedBy(ins, v)
               /\ del' = Append(del, ins)
               /\ at' = at + 2
               /\ UNCHANGED <<function, instructions, bb, pc>>

Fold == /\ InBlock /\ ~ Crashes(ins)
        /\ \E v \in Folded(ins) : args' = ReplacedBy(ins, v)
        /\ del' = Append(del, ins)
        /\ at' = at + 1
        /\ UNCHANGED <<function, instructions, bb, pc>>

Skip == /\ InBlock /\ ~ Crashes(ins) /\ Folded(ins) = {}
        /\ at' = at + 1
        /\ UNCHANGED <<function, instructions, args, bb, del, pc>>

Crash == /\ InBlock /\ Crashes(ins)
         /\ pc' = "crashed"
         /\ UNCHANGED <<function, instructions, args, bb, at, del>>

\* delete_instr for all folded instructions of the block.
EndBlock ==
  /\ pc = "scan" /\ bb <= Len(instructions) /\ at > Len(instructions[bb])
  /\ instructions' = [instructions EXCEPT ![bb] = SelectSeq(@, LAMBDA i : i \notin ToSet(del))]
  /\ bb' = bb + 1 /\ at' = 1 /\ del' = << >>
  /\ UNCHANGED <<function, args, pc>>

Done == /\ pc = "scan" /\ bb > Len(instructions)
        /\ pc' = "done"
        /\ UNCHANGED <<function, instructions, args, bb, at, del>>

Init == /\ function \in Functions
        /\ instructions = function.blocks /\ args = function.args
        /\ bb = 1 /\ at = 1 /\ del = << >> /\ pc = "scan"

Next == Fold \/ Skip \/ Crash \/ EndBlock \/ Done

\* One call of run() on one thread.
Spec == Init /\ [][Next]_vars /\ WF_vars(Next)

-------------------------------------------------------------------------------
(* What the program computes: LLVM's definition of the instructions. *)

Undef == <<"undef">>
Bit(b) == ConstantInt(IF b THEN 1 ELSE 0)
Congruent(n) == CHOOSE m \in Ints : (m - n) % 2^Width = 0

\* sdiv is undefined where it traps, and else the quotient that leaves a remainder of the
\* sign of the dividend.
Sdiv(m, n) ==
  IF NoQuotient(m, n) THEN Undef
  ELSE ConstantInt(CHOOSE q \in Ints : LET rest == m - q * n IN
                     Abs(rest) < Abs(n) /\ (rest = 0 \/ (rest < 0) = (m < 0)))

Execute(i, l, r) ==
  IF Undef \in {l, r} THEN Undef
  ELSE CASE op(i) = "sdiv" -> Sdiv(l[2], r[2])
         [] op(i) = "add" -> ConstantInt(Congruent(l[2] + r[2]))
         [] op(i) = "sub" -> ConstantInt(Congruent(l[2] - r[2]))
         [] op(i) = "mul" -> ConstantInt(Congruent(l[2] * r[2]))
         [] kind(i) = "binary" /\ isfloat(l) -> ConstantFP(FloatOp(op(i), l[2], r[2]))
         [] kind(i) = "cmp" -> LET d == l[2] - r[2] IN
              Bit(CASE op(i) = "eq" -> d = 0 [] op(i) = "ne" -> d \in Int \ {0}
                    [] op(i) = "lt" -> -d > 0 [] op(i) = "le" -> -d >= 0
                    [] op(i) = "gt" -> d > 0 [] op(i) = "ge" -> d >= 0)
         [] kind(i) = "fcmp" ->        \* predicates are unordered: left open for NaN
              IF NaN \in {l[2], r[2]} THEN Undef ELSE Bit(FloatCmp(op(i), l[2], r[2]))
         [] kind(i) = "zext" -> l
         [] kind(i) = "sitofp" -> ConstantFP(FromInt(l[2]))
         [] kind(i) = "fptosi" -> IF Truncated(l[2]) \in Ints THEN ConstantInt(Truncated(l[2]))
                                                              ELSE Undef

\* The value of each instruction, if those not folded (loads, calls, phis) give env.
Values(operands, env) ==
  LET value[i \in Instr] ==
        LET Of(o) == IF o[1] = "Instruction" THEN value[o[2]] ELSE o
        IN  CASE kind(i) = "other" -> env[i]
              [] kind(i) = "void" -> Undef
              [] OTHER -> Execute(i, Of(operands[i][1]), Of(Last(operands[i])))
  IN  [i \in Instr |-> [k \in DOMAIN operands[i] |->
         IF operands[i][k][1] = "Instruction" THEN value[operands[i][k][2]]
         ELSE operands[i][k]]]

Opaque == {i \in Instr : kind(i) = "other"}
Envs == {env \in [Opaque -> {ConstantInt(n) : n \in Ints} \cup {ConstantFP(x) : x \in Floats}] :
           \A i \in Opaque : env[i][1] = op(i)}

-------------------------------------------------------------------------------
(* Properties *)

Listed == {i \in Instr : \E b \in DOMAIN instructions : i \in ToSet(instructions[b])}

\* The type an operand is of, and the one its instruction expects (i1 is another one only
\* for branches and zext, which take the results of comparisons).
TypeOf(o) == IF o[1] # "Instruction" THEN o[1]
             ELSE CASE kind(o[2]) = "other" -> op(o[2])
                    [] kind(o[2]) = "sitofp" -> "ConstantFP"
                    [] kind(o[2]) = "binary" /\ op(o[2]) \in {"fadd", "fsub", "fmul", "fdiv"} ->
                         "ConstantFP"
                    [] OTHER -> "ConstantInt"

\* Variables stay in their ranges; an operand keeps its type (int or float) whatever it
\* is replaced by, and operands in the block are of instructions that have not been deleted.
TypeOK ==
  /\ function \in Functions /\ pc \in {"scan", "done", "crashed"}
  /\ bb \in 1 .. Len(instructions) + 1 /\ at \in Nat \ {0}
  /\ \A i \in Instr : \A k \in DOMAIN args[i] : TypeOf(args[i][k]) = TypeOf(function.args[i][k])
  /\ \A i \in Listed : \A k \in DOMAIN args[i] :
       args[i][k][1] = "Instruction" => args[i][k][2] \in Listed

\* In the end, whatever loads, calls and phis give, every instruction that is left sees the operands
\* it saw before, unless they had no defined value: what the pass is for.
SameMeaning ==
  pc = "done" => \A env \in Envs :
    LET before == Values(function.args, env)
        now == Values(args, env)
    IN  \A i \in Listed : \A k \in DOMAIN args[i] :
          Undef \notin {before[i][j] : j \in DOMAIN args[i]} => now[i][k] = before[i][k]

\* i comes after j in the function's list, which is not the order of execution: the block
\* after an if is listed before those inside its branches.
Position(i) == CHOOSE p \in (DOMAIN function.blocks) \X (1 .. 20) :
                 p[2] \in DOMAIN function.blocks[p[1]] /\ function.blocks[p[1]][p[2]] = i
After(i, j) == LET p == Position(i)
                   q == Position(j)
               IN  p[1] > q[1] \/ (p[1] = q[1] /\ p[2] > q[2])

\* One scan is enough: in the end nothing is left to fold, but where an operand is computed
\* in a block listed later.  The compiler crashes only on a division without a result.
EndsFolded ==
  <>\/ /\ pc = "done"
       /\ \A i \in Listed : Crashes(i) \/ Folded(i) # {} =>
            \E k \in DOMAIN args[i] : /\ function.args[i][k][1] = "Instruction"
                                      /\ After(function.args[i][k][2], i)
    \/ pc = "crashed" /\ op(ins) = "sdiv"

\* The condition of a branch is an i1, the result of a comparison (`br i1 <cond>`,
\* LightIR.md): not one of the i32 constants that comparisons are folded to.
BranchesOnBit ==
  \A i \in Listed : op(i) = "br" => args[i][1][1] = "Instruction"
===============================================================================
