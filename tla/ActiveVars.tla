------------------------------ MODULE ActiveVars ------------------------------
(***************************************************************************)
(* The pass ActiveVars on one function: which values are live at the       *)
(* borders of its blocks.  Each block is scanned for the values it uses    *)
(* and defines, then live_in and live_out are iterated until a round       *)
(* changes no live_in.                                                     *)
(*                                                                         *)
(* Instructions differ by what the scan does with them: phis; instructions *)
(* that define a value ("def": binary, compare, load, call, conversion,    *)
(* gep, alloca); those that only use some ("use": store, conditional br,   *)
(* void call); and returns, which the scan has no case for.                *)
(***************************************************************************)
EXTENDS Naturals, Sequences, SequencesExt, Cfg

CONSTANTS Constant,   \* operands that are constants
          Functions   \* records: succ and body, by block; blocks are 1, 2, ...

VARIABLES fn,
          phase,      \* "scan", "iterate" or "done"
          at, k,      \* the block whose turn it is, and the instruction
          use, def,
          live_in, live_out,
          change

sets == <<use, def, live_in, live_out>>
vars == <<fn, phase, at, k, sets, change>>

Block == DOMAIN fn.succ
Entry == 1
Edges == UNION {{b} \X ToSet(fn.succ[b]) : b \in Block}

Def(id, args) == [op |-> "def", id |-> id, args |-> args]
Use(args) == [op |-> "use", args |-> args]
Ret(args) == [op |-> "ret", args |-> args]
Phi(id, pairs) == [op |-> "phi", id |-> id, pairs |-> pairs]   \* <<value, block>>

ValuesOf(pairs) == {pair[1] : pair \in ToSet(pairs)}
Args(i) == (IF i.op = "phi" THEN ValuesOf(i.pairs) ELSE ToSet(i.args)) \ Constant
Defines(i) == IF i.op \in {"def", "phi"} THEN {i.id} ELSE {}

ASSUME FunctionsAssumption ==
  \A f \in Functions :
    /\ f.succ \in Seq(Seq(DOMAIN f.succ)) /\ Entry \in DOMAIN f.succ
    /\ DOMAIN f.body = DOMAIN f.succ
    /\ \A b \in DOMAIN f.body :
         /\ f.body[b] \in Seq(ToSet(f.body[b]))
         /\ \A i \in ToSet(f.body[b]) :
              /\ i.op \in {"def", "use", "ret", "phi"}
              /\ i.op = "phi" => \A pair \in ToSet(i.pairs) : pair = <<pair[1], pair[2]>>

\* The functions are in SSA form: phis come first, other instructions use no value that
\* their own block defines later, and what a phi without pairs would be is not used.
ASSUME SSAAssumption ==
  \A f \in Functions : \A b \in DOMAIN f.body : \A n \in DOMAIN f.body[b] :
    LET i == f.body[b][n] IN
      /\ Defines(i) \cap Constant = {}
      /\ i.op = "phi" => \A j \in 1 .. n : f.body[b][j].op = "phi"
      /\ i.op = "phi" /\ i.pairs = << >> =>
           \A c \in DOMAIN f.body : \A u \in ToSet(f.body[c]) : i.id \notin Args(u)
      /\ i.op \in {"def", "use"} =>
           \A j \in n .. Len(f.body[b]) : Args(i) \cap Defines(f.body[b][j]) = {}

-------------------------------------------------------------------------------

\* Seeded fault: operands are used, whether the block has defined them or not.
ScanInstrWithoutDef ==
  /\ phase = "scan" /\ at \in Block /\ k <= Len(fn.body[at])
  /\ LET i == fn.body[at][k] IN
       IF i.op = "ret" \/ (i.op = "phi" /\ i.pairs = << >>) THEN UNCHANGED <<use, def>>
       ELSE /\ use' = [use EXCEPT ![at] = @ \cup Args(i)]
            /\ def' = [def EXCEPT ![at] = @ \cup (Defines(i) \ use'[at])]
  /\ k' = k + 1
  /\ UNCHANGED <<fn, phase, at, live_in, live_out, change>>

\* One instruction: operands that the block has not defined before are used by it,
\* the result is defined unless the block has used it before.  A phi without pairs
\* gets a message, a return gets nothing.
ScanInstr ==
  /\ phase = "scan" /\ at \in Block /\ k <= Len(fn.body[at])
  /\ LET i == fn.body[at][k] IN
       IF i.op = "ret" \/ (i.op = "phi" /\ i.pairs = << >>) THEN UNCHANGED <<use, def>>
       ELSE /\ use' = [use EXCEPT ![at] = @ \cup (Args(i) \ def[at])]
            /\ def' = [def EXCEPT ![at] = @ \cup (Defines(i) \ use'[at])]
  /\ k' = k + 1
  /\ UNCHANGED <<fn, phase, at, live_in, live_out, change>>

NextBlock ==
  /\ phase = "scan" /\ at \in Block /\ k > Len(fn.body[at])
  /\ at' = at + 1 /\ k' = 1
  /\ UNCHANGED <<fn, phase, sets, change>>

EndScan ==
  /\ phase = "scan" /\ at \notin Block
  /\ phase' = "iterate" /\ at' = 1
  /\ UNCHANGED <<fn, k, sets, change>>

-------------------------------------------------------------------------------

\* The phis a block starts with.
Phis(b) == {fn.body[b][i] : i \in {i \in DOMAIN fn.body[b] :
                                     \A j \in 1 .. i : fn.body[b][j].op = "phi"}}

\* The phi operands of s that belong to other edges than the one from b.
FromOthers(s, b) == UNION {{pair[1] : pair \in {q \in ToSet(p.pairs) : q[2] # b}} : p \in Phis(s)}

\* Seeded fault: all operands of the phis stay live on all edges.
OutWithoutErasure(b) == UNION {live_in[s] : s \in ToSet(fn.succ[b])}

\* The union of the successors' live_in; after each successor, its phi operands for
\* other edges are erased from what has been collected.
Out(b) ==
  LET succs == fn.succ[b]
      out[i \in 0 .. Len(succs)] ==
        IF i = 0 THEN {}
        ELSE (out[i - 1] \cup live_in[succs[i]]) \ FromOthers(succs[i], b)
  IN  out[Len(succs)]

\* Seeded fault: the last block decides whether there is another round.
UpdateForgettingChange ==
  /\ phase = "iterate" /\ at \in Block
  /\ live_out' = [live_out EXCEPT ![at] = Out(at)]
  /\ live_in' = [live_in EXCEPT ![at] = use[at] \cup (Out(at) \ def[at])]
  /\ change' = (live_in' # live_in)
  /\ at' = at + 1
  /\ UNCHANGED <<fn, phase, k, use, def>>

\* IN = use, and OUT without def.
Update ==
  /\ phase = "iterate" /\ at \in Block
  /\ live_out' = [live_out EXCEPT ![at] = Out(at)]
  /\ live_in' = [live_in EXCEPT ![at] = use[at] \cup (Out(at) \ def[at])]
  /\ change' = (change \/ live_in' # live_in)
  /\ at' = at + 1
  /\ UNCHANGED <<fn, phase, k, use, def>>

\* while (change)
EndRound ==
  /\ phase = "iterate" /\ at \notin Block
  /\ at' = 1
  /\ IF change THEN UNCHANGED phase ELSE phase' = "done"
  /\ change' = FALSE
  /\ UNCHANGED <<fn, k, sets>>

Init == /\ fn \in Functions
        /\ phase = "scan" /\ at = 1 /\ k = 1
        /\ use = [b \in Block |-> {}] /\ def = use
        /\ live_in = use /\ live_out = use
        /\ change = FALSE

Next == ScanInstr \/ NextBlock \/ EndScan \/ Update \/ EndRound

\* One call of run() on one thread.
Fairness == WF_vars(Next)

Spec == Init /\ [][Next]_vars /\ Fairness

-------------------------------------------------------------------------------
(* Properties *)

Done == phase = "done"
Instrs(b) == ToSet(fn.body[b])
Values == UNION {UNION {Args(i) \cup Defines(i) : i \in Instrs(b)} : b \in Block}
Returned(b) == UNION {Args(i) : i \in {i \in Instrs(b) : i.op = "ret"}}

DefinedIn(b) == UNION {Defines(i) : i \in Instrs(b)}
PhiUses(s, b) == {v \in Values : \E p \in Phis(s) : <<v, b>> \in ToSet(p.pairs)}
UsedIn(b) == (UNION {Args(i) : i \in {i \in Instrs(b) : i.op \in {"def", "use"}}}) \ DefinedIn(b)

\* What is live at the end of b: a path leads from b, without a definition of v, to
\* an instruction that uses it, or along an edge whose phi takes it.
Live(b) ==
  {v \in Values :
     LET free == {c \in Block : v \notin DefinedIn(c)}
         first == {s \in ToSet(fn.succ[b]) : s \in free}
         path == ReachableFrom(first, free, {e \in Edges : e[1] \in free})
     IN  \/ \E c \in path : v \in UsedIn(c)
         \/ \E c \in path \cup {b} : \E s \in ToSet(fn.succ[c]) : v \in PhiUses(s, c)}

\* Every variable stays in its range; use and def never overlap.
TypeOK ==
  /\ phase \in {"scan", "iterate", "done"} /\ change \in BOOLEAN
  /\ at \in 1 .. Len(fn.succ) + 1 /\ k \in Nat \ {0}
  /\ \A b \in Block : /\ use[b] \cap def[b] = {}
                      /\ UNION {use[b], def[b], live_in[b], live_out[b]} \subseteq Values

\* At no time a value is called live at the end of a block (the one that has just
\* been updated) that is not: the pass comes from below, and erases what phis take
\* from other edges.
NothingDeadIsLive == phase = "iterate" /\ at > 1 => live_out[at - 1] \subseteq Live(at - 1)

\* What is live but has not been found has been erased: it, or a value on its way,
\* is an operand of a phi on another edge into a successor.
OnlyErasureLoses ==
  \/ \A b \in Block : live_out[b] = Live(b)
  \/ \E b \in Block : \E s \in ToSet(fn.succ[b]) : FromOthers(s, b) \cap Live(b) # {}

\* The rounds come to an end, and by then all that is live has been found, up to what
\* the erasure of phi operands (ActiveVars.cpp:198) loses.
EndsWithLive == <>(Done /\ OnlyErasureLoses)

===============================================================================
