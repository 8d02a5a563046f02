------------------------------ MODULE ValueGraph ------------------------------
(***************************************************************************)
(* What the def-use layer of LightIR promises to the passes: the operands  *)
(* of the instructions, and four operations on them.  There are no use     *)
(* lists here: replacing a value substitutes it in every operand at once,  *)
(* and an instruction is deleted only when nothing refers to it any more.  *)
(* UseLists, the code's way of doing this with Value::use_list_, is shown  *)
(* to implement this module.                                               *)
(***************************************************************************)
EXTENDS Naturals, Sequences

CONSTANTS Instr,  \* the instructions
          Void,   \* those that define no value (store, ret, br, call void)
          Slot,   \* those that define a stack slot (alloca)
          Leaf    \* operands that are no instruction: constants, arguments, labels

Value == (Instr \ Void) \cup Leaf

VARIABLES place,     \* where an instruction is: "fresh", "placed" or "removed"
          operands   \* the operands of each instruction

vars == <<place, operands>>

Placed == {u \in Instr : place[u] = "placed"}

\* The values an operand may name: leaves, and results of placed instructions.
Defined == Leaf \cup (Placed \ Void)

Uses(u, v) == \E i \in DOMAIN operands[u] : operands[u][i] = v

Init == /\ place = [u \in Instr |-> "fresh"]
        /\ operands = [u \in Instr |-> << >>]

\* A fresh instruction is placed, with any operands that are defined.
Create(u) ==
  /\ place[u] = "fresh"
  /\ place' = [place EXCEPT ![u] = "placed"]
  /\ operands'[u] \in Seq(Defined)
  /\ operands' = [operands EXCEPT ![u] = operands'[u]]

AddPair(u, v, w) ==
  /\ u \in Placed /\ v \in Defined /\ w \in Defined
  /\ operands' = [operands EXCEPT ![u] = @ \o <<v, w>>]
  /\ UNCHANGED place

\* Every operand of a placed instruction that was old is now new.
Substitute(old, new) ==
  /\ old \in Placed \ Void /\ new \in Defined \ {old}
  /\ operands' = [u \in Instr |->
       [i \in DOMAIN operands[u] |->
          IF u \in Placed /\ operands[u][i] = old THEN new ELSE operands[u][i]]]
  /\ UNCHANGED place

\* Only a value that is no longer used is deleted; stack slots are the exception
\* (Mem2Reg deletes them on the strength of its own renaming).
Delete(u) ==
  /\ u \in Placed
  /\ u \in Slot \/ \A w \in Placed : ~ Uses(w, u)
  /\ place' = [place EXCEPT ![u] = "removed"]
  /\ UNCHANGED operands

Next == \/ \E u \in Instr : Create(u) \/ Delete(u)
        \/ \E u \in Instr, v, w \in Value : AddPair(u, v, w)
        \/ \E old, new \in Value : Substitute(old, new)

Spec == Init /\ [][Next]_vars
===============================================================================
