--------------------------- MODULE CfgBuilderProofs ---------------------------
(***************************************************************************)
(* Proofs about CfgBuilder, for functions of any size and any nesting:     *)
(* about the instructions that its visits put into blocks, and, in the     *)
(* second half, about the edges that it records at both of their ends, the *)
(* scopes that its visits open and close, and its loops.                   *)
(***************************************************************************)
EXTENDS CfgBuilder, CfgProofs, FiniteSetTheorems, SequenceTheorems, TLAPS

-------------------------------------------------------------------------------
(* The inductive invariant *)

Instruction == [op : {"plain", "br", "ret"}, to : Seq(Block)]

Frame ==
  {Function(first) : first \in BOOLEAN} \cup {Compound(first, own) : first, own \in BOOLEAN}
  \cup {Statement, Expression, Returned} \cup {Condition(else) : else \in BOOLEAN}
  \cup {Then(f, c, else) : f, c \in Block, else \in BOOLEAN} \cup {Else(c) : c \in Block}
  \cup {LoopCondition(b) : b \in Block} \cup {Body(b, c) : b, c \in Block}

\* The blocks that a visit has created and will go on in later.
Pending(f) == CASE f.visit = "then" -> {f.falseBB, f.contBB}
                [] f.visit \in {"else", "body"} -> {f.contBB}
                [] OTHER -> {}

\* The visits that put code into the insert point next, without a look at its end.
Begins(f) == \/ f.visit \in {"statement", "expression", "return", "condition", "loop condition"}
             \/ f.visit \in {"compound", "function"} /\ f.first

\* A list of instructions without a terminator, and one with a terminator at its end at most.
Ends(i) == i.op \in {"br", "ret"}
Open(s) == \A i \in DOMAIN s : ~ Ends(s[i])
Ended(s) == s # << >> /\ Ends(Last(s))
Clean(s) == \A i \in DOMAIN s : Ends(s[i]) => i = Len(s)

Typed == /\ created \in Block /\ BB_ \in 1 .. created
         /\ code \in [Block -> Seq(Instruction)]
         /\ listed \in Seq(1 .. created)
         /\ stack \in Seq(Frame) /\ pre_enter_scope \in BOOLEAN

\* Blocks that wait for their code have none yet.
Fresh == /\ \A b \in Block : b > created => code[b] = << >>
         /\ \A i \in DOMAIN stack : \A b \in Pending(stack[i]) :
              b \in 1 .. created /\ b # BB_ /\ code[b] = << >>

\* Each block waits in one visit only, and an if has two different ones.
Apart == /\ \A i, j \in DOMAIN stack : i # j => Pending(stack[i]) \cap Pending(stack[j]) = {}
         /\ \A i \in DOMAIN stack :
              stack[i].visit = "then" => stack[i].falseBB # stack[i].contBB

\* Only the innermost visit is about to put code, and then the insert point is open.
Ready == \A i \in DOMAIN stack : Begins(stack[i]) => i = Len(stack) /\ Open(code[BB_])

\* No repetition in a list.
Once(s) == \A i, j \in DOMAIN s : s[i] = s[j] => i = j

\* Every block is listed once at most; a listed one is finished, the insert point, or waiting for its code.
Covered ==
  /\ Once(listed)
  /\ \A k \in DOMAIN listed :
       \/ Terminated(listed[k]) \/ listed[k] = BB_
       \/ \E i \in DOMAIN stack : listed[k] \in Pending(stack[i])
  /\ stack = << >> => Terminated(BB_)
  /\ stack # << >> => stack[1].visit = "function"

PInv == Typed /\ NothingAfterTerminator /\ Fresh /\ Apart /\ Ready /\ Covered

-------------------------------------------------------------------------------
(* Sequences *)

\* The stack when a visit is replaced by others.
LEMMA Replaced ==
  ASSUME NEW S, NEW s \in Seq(S), s # << >>, NEW t \in Seq(S)
  PROVE  /\ Front(s) \o t \in Seq(S)
         /\ Len(Front(s) \o t) = Len(s) - 1 + Len(t)
         /\ Len(s) \in Nat \ {0} /\ Len(t) \in Nat
         /\ \A i \in 1 .. Len(s) - 1 : (Front(s) \o t)[i] = s[i]
         /\ \A i \in 1 .. Len(t) : (Front(s) \o t)[Len(s) - 1 + i] = t[i]
         /\ Last(s) = s[Len(s)] /\ Last(s) \in S
<1>1. Len(s) \in Nat \ {0} /\ Len(t) \in Nat /\ \A i \in 1 .. Len(s) : s[i] \in S
  BY EmptySeq, LenProperties, ElementOfSeq
<1>2. /\ Front(s) \in Seq(S) /\ Len(Front(s)) = Len(s) - 1
      /\ \A i \in 1 .. Len(s) - 1 : Front(s)[i] = s[i]
  <2> DEFINE n == Len(s) - 1
  <2>1. n \in Int /\ 1 \in Int /\ \A i \in 1 .. n : s[i] \in S
    BY <1>1
  <2>2. /\ SubSeq(s, 1, n) \in Seq(S)
        /\ Len(SubSeq(s, 1, n)) = IF 1 <= n THEN n - 1 + 1 ELSE 0
        /\ \A i \in 1 .. n - 1 + 1 : SubSeq(s, 1, n)[i] = s[1 + i - 1]
    BY <2>1, SubSeqProperties
  <2>3. n \in Nat /\ n - 1 + 1 = n /\ (IF 1 <= n THEN n - 1 + 1 ELSE 0) = n
    BY <1>1
  <2>4. ASSUME NEW i \in 1 .. n PROVE SubSeq(s, 1, n)[i] = s[i]
    <3>1. 1 + i - 1 = i /\ i \in 1 .. n - 1 + 1
      BY <2>3
    <3> QED BY <2>2, <3>1
  <2> QED BY <2>2, <2>3, <2>4 DEF Front
<1>3. /\ Front(s) \o t \in Seq(S) /\ Len(Front(s) \o t) = Len(s) - 1 + Len(t)
      /\ \A i \in 1 .. Len(s) - 1 + Len(t) :
           (Front(s) \o t)[i] = IF i <= Len(s) - 1 THEN Front(s)[i] ELSE t[i - (Len(s) - 1)]
  <2> DEFINE q == Front(s)
  <2>1. q \in Seq(S) /\ Len(q) = Len(s) - 1
    BY <1>2
  <2> HIDE DEF q
  <2>2. /\ q \o t \in Seq(S) /\ Len(q \o t) = Len(q) + Len(t)
        /\ \A i \in 1 .. Len(q) + Len(t) :
             (q \o t)[i] = IF i <= Len(q) THEN q[i] ELSE t[i - Len(q)]
    BY <2>1, ConcatProperties
  <2>3. /\ q \o t \in Seq(S) /\ Len(q \o t) = Len(s) - 1 + Len(t)
        /\ \A i \in 1 .. Len(s) - 1 + Len(t) :
             (q \o t)[i] = IF i <= Len(s) - 1 THEN q[i] ELSE t[i - (Len(s) - 1)]
    BY <2>1, <2>2
  <2> QED BY <2>3 DEF q
<1>4. ASSUME NEW i \in 1 .. Len(t) PROVE (Front(s) \o t)[Len(s) - 1 + i] = t[i]
  <2>1. Len(s) - 1 + i \in 1 .. Len(s) - 1 + Len(t) /\ ~ Len(s) - 1 + i <= Len(s) - 1
        /\ Len(s) - 1 + i - (Len(s) - 1) = i
    BY <1>1
  <2> QED BY <1>3, <2>1
<1>5. ASSUME NEW i \in 1 .. Len(s) - 1 PROVE (Front(s) \o t)[i] = s[i]
  BY <1>1, <1>2, <1>3
<1> QED BY <1>1, <1>3, <1>4, <1>5 DEF Last

\* Code added to a block that is open leaves the others alone and ends where the code ends.
LEMMA EmittedClean ==
  ASSUME Typed, NEW b \in Block, Open(code[b]), NEW is \in Seq(Instruction), Clean(is)
  PROVE  /\ Emitted(b, is) \in [Block -> Seq(Instruction)]
         /\ \A c \in Block \ {b} : Emitted(b, is)[c] = code[c]
         /\ Clean(Emitted(b, is)[b])
         /\ Open(is) => Open(Emitted(b, is)[b])
         /\ Ended(is) => Ended(Emitted(b, is)[b])
<1> DEFINE c == code[b]
           merged == c # << >> /\ is # << >> /\ Last(c) = Plain /\ Head(is) = Plain
           added == IF merged THEN Tail(is) ELSE is
<1>1. c \in Seq(Instruction) /\ Open(c) /\ Len(is) \in Nat /\ DOMAIN is = 1 .. Len(is)
  BY LenProperties DEF Typed
<1> HIDE DEF c
<1>0. ASSUME is # << >>
      PROVE  /\ Tail(is) \in Seq(Instruction) /\ Len(Tail(is)) = Len(is) - 1 /\ Len(is) \in Nat
             /\ \A i \in 1 .. Len(is) - 1 : Tail(is)[i] = is[i + 1]
             /\ DOMAIN Tail(is) = 1 .. Len(is) - 1 /\ Len(is) # 0
  BY <1>0, <1>1, HeadTailProperties, LenProperties, EmptySeq
<1>2. added \in Seq(Instruction) /\ Clean(added)
  <2>1. CASE ~ merged
    BY <2>1
  <2>2. CASE merged
    BY <1>0, <1>1, <2>2 DEF Clean
  <2> QED BY <2>1, <2>2
<1>3. Open(is) => Open(added)
  <2>1. CASE ~ merged
    BY <2>1
  <2>2. CASE merged
    BY <1>0, <1>1, <2>2 DEF Open
  <2> QED BY <2>1, <2>2
<1>4. is # << >> /\ Ends(Last(is)) => added # << >> /\ Ends(Last(added))
  <2> SUFFICES ASSUME is # << >>, Ends(Last(is)), merged
               PROVE  Tail(is) # << >> /\ Ends(Last(Tail(is)))
    OBVIOUS
  <2>1. ~ Ends(Head(is)) /\ Head(is) = is[1]
    BY DEF Ends, Plain
  <2>2. Len(is) # 1
    BY <2>1 DEF Last
  <2> QED BY <1>0, <1>1, <2>2, EmptySeq DEF Last
<1>5. Emitted(b, is) = [code EXCEPT ![b] = c \o added]
  BY DEF Emitted, c
<1>6. /\ c \o added \in Seq(Instruction) /\ Len(c \o added) = Len(c) + Len(added)
      /\ Len(c) \in Nat /\ Len(added) \in Nat
      /\ DOMAIN c = 1 .. Len(c) /\ DOMAIN added = 1 .. Len(added)
      /\ DOMAIN (c \o added) = 1 .. Len(c) + Len(added)
      /\ \A i \in 1 .. Len(c) : (c \o added)[i] = c[i]
      /\ \A i \in Len(c) + 1 .. Len(c) + Len(added) : (c \o added)[i] = added[i - Len(c)]
  <2>1. /\ c \o added \in Seq(Instruction) /\ Len(c \o added) = Len(c) + Len(added)
        /\ \A i \in 1 .. Len(c) + Len(added) :
             (c \o added)[i] = IF i <= Len(c) THEN c[i] ELSE added[i - Len(c)]
    BY <1>1, <1>2, ConcatProperties
  <2>2. /\ Len(c) \in Nat /\ Len(added) \in Nat
        /\ DOMAIN c = 1 .. Len(c) /\ DOMAIN added = 1 .. Len(added)
        /\ DOMAIN (c \o added) = 1 .. Len(c) + Len(added)
    BY <1>1, <1>2, <2>1, LenProperties
  <2> QED BY <2>1, <2>2
<1> HIDE DEF merged, added
<1>7. Emitted(b, is) \in [Block -> Seq(Instruction)] /\ Emitted(b, is)[b] = c \o added
      /\ \A d \in Block \ {b} : Emitted(b, is)[d] = code[d]
  BY <1>5, <1>6 DEF Typed
<1>8. Clean(c \o added)
  <2> SUFFICES ASSUME NEW i \in 1 .. Len(c) + Len(added), Ends((c \o added)[i])
               PROVE  i = Len(c) + Len(added)
    BY <1>6 DEF Clean
  <2>1. i > Len(c)
    BY <1>1, <1>6 DEF Open
  <2>2. i - Len(c) \in 1 .. Len(added) /\ Ends(added[i - Len(c)])
    BY <1>6, <2>1
  <2>3. i - Len(c) = Len(added)
    BY <1>2, <1>6, <2>2 DEF Clean
  <2> QED BY <1>6, <2>3
<1>9. Open(is) => Open(c \o added)
  <2> SUFFICES ASSUME Open(is), NEW i \in 1 .. Len(c) + Len(added)
               PROVE  ~ Ends((c \o added)[i])
    BY <1>6 DEF Open
  <2>1. CASE i \in 1 .. Len(c)
    BY <1>1, <1>6, <2>1 DEF Open
  <2>2. CASE i \notin 1 .. Len(c)
    <3>1. i - Len(c) \in 1 .. Len(added) /\ (c \o added)[i] = added[i - Len(c)]
      BY <1>6, <2>2
    <3> QED BY <1>2, <1>3, <3>1 DEF Open
  <2> QED BY <2>1, <2>2
<1>10. is # << >> /\ Ends(Last(is)) => c \o added # << >> /\ Ends(Last(c \o added))
  BY <1>2, <1>4, <1>6 DEF Last
<1> QED BY <1>7, <1>8, <1>9, <1>10 DEF Ended

-------------------------------------------------------------------------------
(* Steps *)

\* The frames after a visit has been replaced by others.
LEMMA StackAfter ==
  ASSUME Typed, stack # << >>, NEW frames \in Seq(Frame), Return(frames)
  PROVE  /\ stack' \in Seq(Frame) /\ Len(stack') = Len(stack) - 1 + Len(frames)
         /\ Len(stack) \in Nat \ {0} /\ Len(frames) \in Nat
         /\ DOMAIN stack = 1 .. Len(stack) /\ DOMAIN frames = 1 .. Len(frames)
         /\ DOMAIN stack' = 1 .. Len(stack) - 1 + Len(frames)
         /\ \A i \in 1 .. Len(stack) - 1 : stack'[i] = stack[i]
         /\ \A i \in 1 .. Len(frames) : stack'[Len(stack) - 1 + i] = frames[i]
         /\ Last(stack) = stack[Len(stack)] /\ Last(stack) \in Frame
<1>1. stack \in Seq(Frame)
  BY DEF Typed
<1>2. stack' = Front(stack) \o frames
  BY DEF Return
<1>3. /\ Front(stack) \o frames \in Seq(Frame)
      /\ Len(Front(stack) \o frames) = Len(stack) - 1 + Len(frames)
      /\ Len(stack) \in Nat \ {0} /\ Len(frames) \in Nat
      /\ \A i \in 1 .. Len(stack) - 1 : (Front(stack) \o frames)[i] = stack[i]
      /\ \A i \in 1 .. Len(frames) : (Front(stack) \o frames)[Len(stack) - 1 + i] = frames[i]
      /\ Last(stack) = stack[Len(stack)] /\ Last(stack) \in Frame
  BY <1>1, Replaced
<1> QED BY <1>1, <1>2, <1>3, LenProperties

\* Listed blocks have been created.
LEMMA ListedIn ==
  ASSUME PInv
  PROVE  \A m \in DOMAIN listed : listed[m] \in 1 .. created
<1>1. listed \in Seq(1 .. created)
  BY DEF PInv, Typed
<1>2. DOMAIN listed = 1 .. Len(listed)
  BY <1>1, LenProperties
<1> QED BY <1>1, <1>2, ElementOfSeq

\* What the visits that replace the innermost one, the blocks and the insert point have to
\* be like for the invariant to go on.
LEMMA Step ==
  ASSUME PInv, stack # << >>, NEW frames \in Seq(Frame), Return(frames),
         created' \in created .. MaxBlocks, BB_' \in 1 .. created',
         pre_enter_scope' \in BOOLEAN,
         code' \in [Block -> Seq(Instruction)], \A b \in Block : Clean(code'[b]),
         \A b \in 1 .. created : b # BB_ => code'[b] = code[b],
         \A b \in Block : b > created' => code'[b] = << >>,
         BB_' = BB_ \/ (Ended(code'[BB_]) /\ (BB_' > created \/ BB_' \in Pending(Last(stack)))),
         \A i \in DOMAIN frames : \A b \in Pending(frames[i]) :
           /\ b \in 1 .. created' /\ b # BB_' /\ code'[b] = << >>
           /\ b > created \/ b \in Pending(Last(stack)),
         \A i, j \in DOMAIN frames : i # j => Pending(frames[i]) \cap Pending(frames[j]) = {},
         \A i \in DOMAIN frames :
           /\ frames[i].visit = "then" => frames[i].falseBB # frames[i].contBB
           /\ Begins(frames[i]) => i = Len(frames) /\ Open(code'[BB_']),
         listed' \in Seq(1 .. created'),
         Once(listed'),
         \A k \in DOMAIN listed' :
           \/ \E m \in DOMAIN listed : listed[m] = listed'[k] /\ listed[m] \notin Pending(Last(stack))
           \/ listed'[k] = BB_' \/ Terminated(listed[k])'
           \/ \E i \in DOMAIN frames : listed'[k] \in Pending(frames[i]),
         Last(stack).visit = "function" =>
           \/ frames = << >> /\ Terminated(BB_)'
           \/ frames # << >> /\ frames[1].visit = "function"
  PROVE  PInv'
<1> DEFINE n == Len(stack)
<1>1. /\ stack' \in Seq(Frame) /\ Len(stack') = n - 1 + Len(frames)
      /\ n \in Nat \ {0} /\ Len(frames) \in Nat
      /\ DOMAIN stack = 1 .. n /\ DOMAIN frames = 1 .. Len(frames)
      /\ DOMAIN stack' = 1 .. n - 1 + Len(frames)
      /\ \A i \in 1 .. n - 1 : stack'[i] = stack[i]
      /\ \A i \in 1 .. Len(frames) : stack'[n - 1 + i] = frames[i]
      /\ Last(stack) = stack[n]
  BY StackAfter DEF PInv
<1> HIDE DEF n
<1>2. ASSUME NEW i \in DOMAIN stack'
      PROVE  \/ i \in 1 .. n - 1 /\ stack'[i] = stack[i] /\ i \in DOMAIN stack /\ i # n
             \/ \E j \in DOMAIN frames : i = n - 1 + j /\ stack'[i] = frames[j]
  <2>1. CASE i \in 1 .. n - 1
    BY <1>1, <2>1
  <2>2. CASE i \notin 1 .. n - 1
    <3>1. i - (n - 1) \in DOMAIN frames /\ i = n - 1 + (i - (n - 1))
      BY <1>1, <2>2
    <3> QED BY <1>1, <3>1
  <2> QED BY <2>1, <2>2
<1>3. n \in DOMAIN stack /\ created \in Nat \ {0} /\ created \in Block /\ BB_ \in 1 .. created
      /\ created' \in Block
  BY <1>1, BoundsNat DEF PInv, Typed, Block
<1>4. Typed'
  BY <1>1, <1>3 DEF Typed
<1>5. NothingAfterTerminator'
  BY DEF NothingAfterTerminator, Clean, Ends
<1>6. ASSUME NEW i \in 1 .. n - 1, NEW b \in Pending(stack[i])
      PROVE  b \in 1 .. created' /\ b # BB_' /\ code'[b] = << >> /\ b \in 1 .. created
             /\ b \notin Pending(Last(stack))
  <2>1. i \in DOMAIN stack /\ i # n
    BY <1>1
  <2>2. b \in 1 .. created /\ b # BB_ /\ code[b] = << >> /\ b \notin Pending(stack[n])
    BY <1>3, <2>1 DEF PInv, Fresh, Apart
  <2>3. b \in 1 .. created' /\ ~ b > created
    BY <1>3, <2>2
  <2> QED BY <1>1, <2>2, <2>3
<1>7. Fresh'
  <2>1. ASSUME NEW i \in DOMAIN stack', NEW b \in Pending(stack'[i])
        PROVE  b \in 1 .. created' /\ b # BB_' /\ code'[b] = << >>
    BY <1>2, <1>6
  <2> QED BY <2>1 DEF Fresh
<1>8. Apart'
  <2>1. ASSUME NEW i \in 1 .. n - 1, NEW j \in DOMAIN frames
        PROVE  Pending(stack[i]) \cap Pending(frames[j]) = {}
    <3> SUFFICES ASSUME NEW b \in Pending(stack[i]), b \in Pending(frames[j]) PROVE FALSE
      OBVIOUS
    <3>1. b \in 1 .. created /\ b \notin Pending(Last(stack))
      BY <1>6
    <3>2. b > created
      BY <3>1
    <3> QED BY <1>3, <3>1, <3>2
  <2>2. ASSUME NEW i \in DOMAIN stack', NEW j \in DOMAIN stack', i # j
        PROVE  Pending(stack'[i]) \cap Pending(stack'[j]) = {}
    <3>1. CASE i \in 1 .. n - 1 /\ j \in 1 .. n - 1
      <4>1. i \in DOMAIN stack /\ j \in DOMAIN stack /\ stack'[i] = stack[i] /\ stack'[j] = stack[j]
        BY <1>1, <3>1
      <4> QED BY <2>2, <4>1 DEF PInv, Apart
    <3>2. CASE i \in 1 .. n - 1 /\ j \notin 1 .. n - 1
      BY <1>1, <1>2, <2>1, <3>2
    <3>3. CASE i \notin 1 .. n - 1 /\ j \in 1 .. n - 1
      BY <1>1, <1>2, <2>1, <3>3
    <3>4. CASE i \notin 1 .. n - 1 /\ j \notin 1 .. n - 1
      <4>1. PICK k \in DOMAIN frames : i = n - 1 + k /\ stack'[i] = frames[k]
        BY <1>2, <3>4
      <4>2. PICK l \in DOMAIN frames : j = n - 1 + l /\ stack'[j] = frames[l]
        BY <1>2, <3>4
      <4> QED BY <2>2, <4>1, <4>2
    <3> QED BY <3>1, <3>2, <3>3, <3>4
  <2>3. ASSUME NEW i \in DOMAIN stack', stack'[i].visit = "then"
        PROVE  stack'[i].falseBB # stack'[i].contBB
    BY <1>2, <2>3 DEF PInv, Apart
  <2> QED BY <2>2, <2>3 DEF Apart
<1>9. Ready'
  <2>1. ASSUME NEW i \in DOMAIN stack', Begins(stack'[i])
        PROVE  i = Len(stack') /\ Open(code'[BB_'])
    <3>1. ~ (i \in 1 .. n - 1 /\ stack'[i] = stack[i] /\ i \in DOMAIN stack /\ i # n)
      BY <2>1 DEF PInv, Ready, n
    <3>2. PICK j \in DOMAIN frames : i = n - 1 + j /\ stack'[i] = frames[j]
      BY <1>2, <3>1
    <3>3. j = Len(frames) /\ Open(code'[BB_'])
      BY <2>1, <3>2
    <3> QED BY <1>1, <3>2, <3>3
  <2> QED BY <2>1 DEF Ready
<1>10. Covered'
  <2>1. ASSUME NEW k \in DOMAIN listed'
        PROVE  \/ Terminated(listed[k])' \/ listed'[k] = BB_'
               \/ \E i \in DOMAIN stack' : listed'[k] \in Pending(stack'[i])
    <3>1. ASSUME NEW i \in DOMAIN frames, listed'[k] \in Pending(frames[i])
          PROVE  \E j \in DOMAIN stack' : listed'[k] \in Pending(stack'[j])
      <4>1. n - 1 + i \in DOMAIN stack' /\ stack'[n - 1 + i] = frames[i]
        BY <1>1
      <4> QED BY <3>1, <4>1
    <3>2. ASSUME NEW m \in DOMAIN listed, listed[m] = listed'[k],
                 listed[m] \notin Pending(Last(stack))
          PROVE  \/ Terminated(listed[k])' \/ listed'[k] = BB_'
                 \/ \E i \in DOMAIN stack' : listed'[k] \in Pending(stack'[i])
      <4>1. CASE listed[m] = BB_
        BY <3>2, <4>1 DEF Terminated, Ended, Ends
      <4>2. CASE Terminated(listed[m]) /\ listed[m] # BB_
        <5>1. code'[listed'[k]] = code[listed[m]]
          <6>1. listed[m] \in 1 .. created
            BY ListedIn
          <6> QED BY <3>2, <4>2, <6>1
        <5> QED BY <4>2, <5>1 DEF Terminated
      <4>3. CASE \E i \in DOMAIN stack : listed[m] \in Pending(stack[i])
        <5>1. PICK i \in DOMAIN stack : listed[m] \in Pending(stack[i])
          BY <4>3
        <5>2. i # n
          BY <1>1, <3>2, <5>1
        <5>3. i \in 1 .. n /\ n \in Nat /\ Len(frames) \in Nat
          BY <1>1
        <5>4. i \in 1 .. n - 1 /\ i \in 1 .. n - 1 + Len(frames)
          BY <5>2, <5>3
        <5>5. i \in DOMAIN stack' /\ stack'[i] = stack[i]
          BY <1>1, <5>4
        <5> QED BY <3>2, <5>1, <5>5
      <4> QED BY <4>1, <4>2, <4>3 DEF PInv, Covered
    <3> QED BY <3>1, <3>2
  <2>2. n = 1 => Last(stack).visit = "function"
    BY <1>1 DEF PInv, Covered
  <2>3. stack' = << >> => Terminated(BB_)'
    <3> SUFFICES ASSUME stack' = << >> PROVE Terminated(BB_)'
      OBVIOUS
    <3>1. Len(stack') = 0
      OBVIOUS
    <3>2. n = 1 /\ Len(frames) = 0
      BY <1>1, <3>1
    <3>3. frames = << >>
      BY <3>2, EmptySeq
    <3> QED BY <2>2, <3>2, <3>3
  <2>4. stack' # << >> => stack'[1].visit = "function"
    <3>1. CASE n > 1
      <4>1. 1 \in 1 .. n - 1 /\ stack'[1] = stack[1]
        BY <1>1, <3>1
      <4> QED BY <4>1 DEF PInv, Covered
    <3>2. CASE n = 1
      <4> SUFFICES ASSUME stack' # << >> PROVE stack'[1].visit = "function"
        OBVIOUS
      <4>1. Len(frames) # 0
        BY <1>1, <3>2, EmptySeq
      <4>2. frames # << >> /\ 1 \in 1 .. Len(frames) /\ stack'[1] = frames[1]
        BY <1>1, <3>2, <4>1
      <4> QED BY <2>2, <3>2, <4>2
    <3> QED BY <1>1, <3>1, <3>2
  <2> QED BY <2>1, <2>3, <2>4 DEF Covered
<1> QED BY <1>4, <1>5, <1>7, <1>8, <1>9, <1>10 DEF PInv

\* The innermost visit.
LEMMA AtTop ==
  ASSUME PInv, stack # << >>
  PROVE  /\ Top \in Frame
         /\ \A b \in Pending(Top) : b \in 1 .. created /\ b # BB_ /\ code[b] = << >>
         /\ Top.visit = "then" => Top.falseBB # Top.contBB
         /\ Begins(Top) => Open(code[BB_])
         /\ \A b \in Block : Clean(code[b])
<1>1. stack \in Seq(Frame)
  BY DEF PInv, Typed
<1>2. Len(stack) \in DOMAIN stack /\ stack[Len(stack)] \in Frame
  BY <1>1, EmptySeq, LenProperties, ElementOfSeq
<1>3. Top = stack[Len(stack)]
  BY DEF Top, Last
<1>4. \A b \in Block : Clean(code[b])
  BY DEF PInv, NothingAfterTerminator, Clean, Ends
<1> QED BY <1>2, <1>3, <1>4 DEF PInv, Fresh, Apart, Ready

\* f is a frame, the blocks bs wait for it, and it is about to put code or not.
Shape(f, bs, begins) == f \in Frame /\ Pending(f) = bs /\ (Begins(f) <=> begins)

\* Of the frames, only those of if, else and loop bodies have blocks that wait.
LEMMA Shapes ==
  /\ \A first \in BOOLEAN : Shape(Function(first), {}, first)
  /\ \A first, own \in BOOLEAN : Shape(Compound(first, own), {}, first)
  /\ \A f \in {Statement, Expression, Returned} : Shape(f, {}, TRUE)
  /\ \A else \in BOOLEAN : Shape(Condition(else), {}, TRUE)
  /\ \A b \in Block : Shape(LoopCondition(b), {}, TRUE)
  /\ \A f, c \in Block, else \in BOOLEAN : Shape(Then(f, c, else), {f, c}, FALSE)
  /\ \A c \in Block : Shape(Else(c), {c}, FALSE)
  /\ \A b, c \in Block : Shape(Body(b, c), {c}, FALSE)
<1>1. ASSUME NEW first \in BOOLEAN PROVE Shape(Function(first), {}, first)
  BY DEF Shape, Frame, Function, Pending, Begins
<1>2. ASSUME NEW first \in BOOLEAN, NEW own \in BOOLEAN
      PROVE  Shape(Compound(first, own), {}, first)
  BY DEF Shape, Frame, Compound, Pending, Begins
<1>3. Shape(Statement, {}, TRUE) /\ Shape(Expression, {}, TRUE) /\ Shape(Returned, {}, TRUE)
  BY DEF Shape, Frame, Statement, Expression, Returned, Pending, Begins
<1>4. ASSUME NEW else \in BOOLEAN PROVE Shape(Condition(else), {}, TRUE)
  BY DEF Shape, Frame, Condition, Pending, Begins
<1>5. ASSUME NEW b \in Block PROVE Shape(LoopCondition(b), {}, TRUE)
  <2>1. LoopCondition(b) \in Frame
    BY DEF Frame
  <2>2. Pending(LoopCondition(b)) = {} /\ Begins(LoopCondition(b))
    BY DEF LoopCondition, Pending, Begins
  <2> QED BY <2>1, <2>2 DEF Shape
<1>6. ASSUME NEW f \in Block, NEW c \in Block, NEW else \in BOOLEAN
      PROVE  Shape(Then(f, c, else), {f, c}, FALSE)
  BY DEF Shape, Frame, Then, Pending, Begins
<1>7. ASSUME NEW c \in Block PROVE Shape(Else(c), {c}, FALSE)
  BY DEF Shape, Frame, Else, Pending, Begins
<1>8. ASSUME NEW b \in Block, NEW c \in Block PROVE Shape(Body(b, c), {c}, FALSE)
  BY DEF Shape, Frame, Body, Pending, Begins
<1> QED BY <1>1, <1>2, <1>3, <1>4, <1>5, <1>6, <1>7, <1>8

\* What a frame has, by its visit.
LEMMA Kinds ==
  ASSUME NEW f \in Frame
  PROVE  /\ f.visit = "function" => f.first \in BOOLEAN
         /\ f.visit = "compound" => f.first \in BOOLEAN /\ f.own \in BOOLEAN
         /\ f.visit = "condition" => f.else \in BOOLEAN
         /\ f.visit = "loop condition" => f.exprBB \in Block
         /\ f.visit = "then" => f.falseBB \in Block /\ f.contBB \in Block /\ f.else \in BOOLEAN
         /\ f.visit = "else" => f.contBB \in Block
         /\ f.visit = "body" => f.exprBB \in Block /\ f.contBB \in Block
         /\ f.visit \notin {"then", "else", "body"} => Pending(f) = {}
<1> DEFINE K(g) ==
      /\ g.visit = "function" => g.first \in BOOLEAN
      /\ g.visit = "compound" => g.first \in BOOLEAN /\ g.own \in BOOLEAN
      /\ g.visit = "condition" => g.else \in BOOLEAN
      /\ g.visit = "loop condition" => g.exprBB \in Block
      /\ g.visit = "then" => g.falseBB \in Block /\ g.contBB \in Block /\ g.else \in BOOLEAN
      /\ g.visit = "else" => g.contBB \in Block
      /\ g.visit = "body" => g.exprBB \in Block /\ g.contBB \in Block
      /\ g.visit \notin {"then", "else", "body"} => Pending(g) = {}
<1>1. \A first \in BOOLEAN : K(Function(first))
  BY DEF Function, Pending
<1>2. \A first, own \in BOOLEAN : K(Compound(first, own))
  BY DEF Compound, Pending
<1>3. K(Statement) /\ K(Expression) /\ K(Returned)
  BY DEF Statement, Expression, Returned, Pending
<1>4. \A else \in BOOLEAN : K(Condition(else))
  BY DEF Condition, Pending
<1>5. \A b, c \in Block, else \in BOOLEAN : K(Then(b, c, else))
  BY DEF Then, Pending
<1>6. \A c \in Block : K(Else(c))
  BY DEF Else, Pending
<1>7. \A b \in Block : K(LoopCondition(b))
  BY DEF LoopCondition, Pending
<1>8. \A b, c \in Block : K(Body(b, c))
  BY DEF Body, Pending
<1> HIDE DEF K
<1>9. K(f)
  BY <1>1, <1>2, <1>3, <1>4, <1>5, <1>6, <1>7, <1>8 DEF Frame
<1> QED BY <1>9 DEF K

\* A visit of code that only goes on in the insert point.
LEMMA StepInPlace ==
  ASSUME PInv, stack # << >>, Pending(Top) = {}, NEW frames \in Seq(Frame), Return(frames),
         UNCHANGED <<created, listed, BB_>>, pre_enter_scope' \in BOOLEAN,
         code' \in [Block -> Seq(Instruction)], Clean(code'[BB_]),
         \A b \in Block \ {BB_} : code'[b] = code[b],
         \A i \in DOMAIN frames :
           /\ Pending(frames[i]) = {} /\ frames[i].visit # "then"
           /\ Begins(frames[i]) => i = Len(frames) /\ Open(code'[BB_]),
         Top.visit = "function" =>
           \/ frames = << >> /\ Ended(code'[BB_])
           \/ frames # << >> /\ frames[1].visit = "function"
  PROVE  PInv'
<1>1. created \in Block /\ BB_ \in 1 .. created /\ MaxBlocks \in Nat
  BY BoundsNat DEF PInv, Typed
<1>2. created' \in created .. MaxBlocks /\ BB_' \in 1 .. created' /\ BB_ \in Block
  BY <1>1 DEF Block
<1>3. \A b \in Block : Clean(code'[b])
  BY AtTop
<1>4. \A b \in Block : b > created' => code'[b] = << >>
  <2>1. \A b \in Block : b > created => code[b] = << >>
    BY DEF PInv, Fresh
  <2>2. \A b \in Block : b > created' => b > created /\ b # BB_
    BY <1>1 DEF Block
  <2> QED BY <2>1, <2>2
<1>5. \A b \in 1 .. created : b # BB_ => code'[b] = code[b]
  BY <1>1 DEF Block
<1>6. listed' \in Seq(1 .. created')
  BY DEF PInv, Typed
<1>7. Once(listed')
  BY DEF PInv, Covered, Once
<1>8. \A k \in DOMAIN listed' :
        \E m \in DOMAIN listed : listed[m] = listed'[k] /\ listed[m] \notin Pending(Top)
  OBVIOUS
<1>9. Ended(code'[BB_]) => Terminated(BB_)'
  BY DEF Ended, Ends, Terminated
<1> QED BY <1>2, <1>3, <1>4, <1>5, <1>6, <1>7, <1>8, <1>9, Step DEF Top

-------------------------------------------------------------------------------
(* Code *)

\* The instructions that are emitted together.
LEMMA Runs ==
  /\ <<Plain>> \in Seq(Instruction) /\ Clean(<<Plain>>) /\ Open(<<Plain>>)
  /\ <<Ret>> \in Seq(Instruction) /\ Clean(<<Ret>>) /\ Ended(<<Ret>>)
  /\ <<Plain, Ret>> \in Seq(Instruction) /\ Clean(<<Plain, Ret>>) /\ Ended(<<Plain, Ret>>)
  /\ \A b \in Block : <<Br(b)>> \in Seq(Instruction) /\ Clean(<<Br(b)>>) /\ Ended(<<Br(b)>>)
  /\ \A t, f \in Block : /\ <<Plain, CondBr(t, f)>> \in Seq(Instruction)
                         /\ Clean(<<Plain, CondBr(t, f)>>) /\ Ended(<<Plain, CondBr(t, f)>>)
<1>1. Plain \in Instruction /\ ~ Ends(Plain) /\ Ret \in Instruction /\ Ends(Ret)
  BY DEF Plain, Ret, Instruction, Ends
<1>2. ASSUME NEW b \in Block PROVE Br(b) \in Instruction /\ Ends(Br(b))
  BY DEF Br, Instruction, Ends
<1>3. ASSUME NEW t \in Block, NEW f \in Block
      PROVE  CondBr(t, f) \in Instruction /\ Ends(CondBr(t, f))
  BY DEF CondBr, Instruction, Ends
<1>4. ASSUME NEW i \in Instruction
      PROVE  /\ <<i>> \in Seq(Instruction) /\ Clean(<<i>>)
             /\ Ends(i) => Ended(<<i>>)
             /\ ~ Ends(i) => Open(<<i>>)
  BY DEF Clean, Open, Ended, Last
<1>5. ASSUME NEW i \in Instruction, Ends(i)
      PROVE  <<Plain, i>> \in Seq(Instruction) /\ Clean(<<Plain, i>>) /\ Ended(<<Plain, i>>)
  BY <1>1, <1>5 DEF Clean, Ended, Last
<1> QED BY <1>1, <1>2, <1>3, <1>4, <1>5

\* A block without a terminator at its end has none.
LEMMA Opened ==
  ASSUME PInv, NEW b \in Block, ~ Terminated(b)
  PROVE  Open(code[b])
<1>1. code[b] \in Seq(Instruction) /\ Clean(code[b])
  BY DEF PInv, Typed, NothingAfterTerminator, Clean, Ends
<1>2. DOMAIN code[b] = 1 .. Len(code[b])
  BY <1>1, LenProperties
<1> SUFFICES ASSUME NEW i \in DOMAIN code[b], Ends(code[b][i]) PROVE FALSE
  BY DEF Open
<1>3. i = Len(code[b]) /\ code[b] # << >>
  BY <1>1, <1>2 DEF Clean
<1> QED BY <1>3 DEF Terminated, Last, Ends

\* The insert point is a block.
LEMMA InsertPoint == ASSUME PInv PROVE BB_ \in Block /\ MaxBlocks \in Nat /\ created \in Block
  BY BoundsNat DEF PInv, Typed, Block

\* create_br after the look at the terminator: the insert point ends in one.
LEMMA BranchEnds ==
  ASSUME PInv, NEW b \in Block, BranchUnlessTerminated(b)
  PROVE  /\ code' \in [Block -> Seq(Instruction)]
         /\ \A c \in Block \ {BB_} : code'[c] = code[c]
         /\ Clean(code'[BB_]) /\ Ended(code'[BB_])
<1>1. BB_ \in Block /\ Clean(code[BB_]) /\ Typed
  BY InsertPoint DEF PInv, NothingAfterTerminator, Clean, Ends
<1>2. CASE Terminated(BB_)
  BY <1>1, <1>2 DEF BranchUnlessTerminated, Terminated, Ended, Ends, Typed
<1>3. CASE ~ Terminated(BB_)
  <2>1. code' = Emitted(BB_, Append(<< >>, Br(b)))
    BY <1>3 DEF BranchUnlessTerminated, Branch
  <2>2. Append(<< >>, Br(b)) = <<Br(b)>>
    OBVIOUS
  <2>3. Open(code[BB_])
    BY <1>1, <1>3, Opened
  <2> QED BY <1>1, <2>1, <2>2, <2>3, Runs, EmittedClean
<1> QED BY <1>2, <1>3

\* A visit of code finds the insert point open, and no block waits for it.
LEMMA AtCode ==
  ASSUME PInv, NEW visits, In(visits),
         visits \subseteq {"statement", "expression", "return", "condition", "loop condition"}
  PROVE  /\ stack # << >> /\ Top \in Frame /\ Begins(Top) /\ Open(code[BB_])
         /\ Pending(Top) = {} /\ Top.visit # "function"
<1>1. stack # << >> /\ Top.visit \in visits
  BY DEF In, Top
<1>2. Top \in Frame /\ Begins(Top)
  BY <1>1, AtTop DEF Begins
<1> QED BY <1>1, <1>2, AtTop, Kinds

-------------------------------------------------------------------------------
(* Visits that go on in the insert point *)

\* A statement about to be visited becomes its visit, when no block is created or entered.
LEMMA StepStatement ==
  ASSUME PInv, NEW frames \in Seq(Frame), Len(frames) <= 1, In({"statement"}), Return(frames),
         \A i \in DOMAIN frames : Pending(frames[i]) = {} /\ frames[i].visit # "then",
         UNCHANGED <<created, listed, BB_>>, pre_enter_scope' \in BOOLEAN,
         code' \in [Block -> Seq(Instruction)], Clean(code'[BB_]),
         \A b \in Block \ {BB_} : code'[b] = code[b],
         frames # << >> => Open(code'[BB_])
  PROVE  PInv'
<1>1. stack # << >> /\ Pending(Top) = {} /\ Top.visit # "function"
  BY AtCode
<1>2. \A i \in DOMAIN frames : i = Len(frames) /\ frames # << >>
  BY LenProperties, EmptySeq
<1> QED BY <1>1, <1>2, StepInPlace

\* Ordinary code, or none, at the insert point leaves it open.
LEMMA Ordinary ==
  ASSUME PInv, Open(code[BB_]), code' = code \/ code' = Emitted(BB_, <<Plain>>)
  PROVE  /\ code' \in [Block -> Seq(Instruction)] /\ Clean(code'[BB_]) /\ Open(code'[BB_])
         /\ \A b \in Block \ {BB_} : code'[b] = code[b]
<1>1. Typed /\ BB_ \in Block
  BY InsertPoint DEF PInv
<1>2. CASE code' = code
  BY <1>1, <1>2 DEF Typed, Open, Clean
<1>3. CASE code' = Emitted(BB_, <<Plain>>)
  BY <1>1, <1>3, Runs, EmittedClean
<1> QED BY <1>2, <1>3

\* A return at the insert point, after a conversion perhaps.
LEMMA Returns ==
  ASSUME PInv, Open(code[BB_]),
         code' = Emitted(BB_, <<Ret>>) \/ code' = Emitted(BB_, <<Plain, Ret>>)
  PROVE  /\ code' \in [Block -> Seq(Instruction)] /\ Clean(code'[BB_]) /\ Ended(code'[BB_])
         /\ \A b \in Block \ {BB_} : code'[b] = code[b]
<1>1. Typed /\ BB_ \in Block
  BY InsertPoint DEF PInv
<1>2. CASE code' = Emitted(BB_, <<Ret>>)
  BY <1>1, <1>2, Runs, EmittedClean
<1>3. CASE code' = Emitted(BB_, <<Plain, Ret>>)
  BY <1>1, <1>3, Runs, EmittedClean
<1> QED BY <1>2, <1>3

\* The frame of one visit.
LEMMA OneFrame ==
  ASSUME NEW f, NEW begins \in BOOLEAN, Shape(f, {}, begins), f.visit # "then",
         NEW frames, frames = <<f>>
  PROVE  /\ frames \in Seq(Frame) /\ Len(frames) <= 1 /\ frames # << >>
         /\ \A i \in DOMAIN frames : Pending(frames[i]) = {} /\ frames[i].visit # "then"
  BY DEF Shape

\* A visit that ends is replaced by none.
LEMMA NoFrame ==
  ASSUME NEW frames, frames = << >>
  PROVE  /\ frames \in Seq(Frame) /\ Len(frames) <= 1
         /\ \A i \in DOMAIN frames : Pending(frames[i]) = {} /\ frames[i].visit # "then"
  BY LenProperties

\* A compound, an if, an expression statement or a return, up to what is visited first.
LEMMA DoStatement ==
  ASSUME PInv, NEW f, Shape(f, {}, TRUE), f.visit # "then", In({"statement"}), Return(<<f>>),
         UNCHANGED blocks, pre_enter_scope' \in BOOLEAN
  PROVE  PInv'
<1> DEFINE frames == <<f>>
<1>1. /\ frames \in Seq(Frame) /\ Len(frames) <= 1 /\ frames # << >> /\ Return(frames)
      /\ \A i \in DOMAIN frames : Pending(frames[i]) = {} /\ frames[i].visit # "then"
  BY OneFrame
<1> HIDE DEF frames
<1>2. Open(code[BB_])
  BY AtCode
<1>3. UNCHANGED <<created, listed, BB_>> /\ code' = code
  BY DEF blocks
<1>4. /\ code' \in [Block -> Seq(Instruction)] /\ Clean(code'[BB_]) /\ Open(code'[BB_])
      /\ \A b \in Block \ {BB_} : code'[b] = code[b]
  BY <1>2, <1>3, Ordinary
<1> QED BY <1>1, <1>3, <1>4, StepStatement

\* A compound begins in the insert point.
LEMMA DoVisitCompound == ASSUME PInv, VisitCompound PROVE PInv'
<1> DEFINE f == Compound(TRUE, ~ pre_enter_scope)
<1>1. Shape(f, {}, TRUE) /\ f.visit # "then"
  <2>1. (~ pre_enter_scope) \in BOOLEAN
    OBVIOUS
  <2> QED BY <2>1, Shapes DEF Compound
<1>2. In({"statement"}) /\ Return(<<f>>) /\ UNCHANGED blocks /\ pre_enter_scope' \in BOOLEAN
  BY DEF VisitCompound, EnterCompound
<1> HIDE DEF f
<1> QED BY <1>1, <1>2, DoStatement

\* The next statement of a compound: the insert point is open, or has just been looked at.
LEMMA DoNextStatement == ASSUME PInv, NextStatement PROVE PInv'
<1> DEFINE c == Compound(FALSE, Top.own)
           frames == <<c, Statement>>
<1>1. /\ stack # << >> /\ Top.visit = "compound" /\ (Top.first \/ ~ Terminated(BB_))
      /\ Return(frames) /\ UNCHANGED blocks /\ pre_enter_scope' = pre_enter_scope
  BY DEF NextStatement, In, Top
<1>2. Top \in Frame /\ Top.own \in BOOLEAN /\ Top.first \in BOOLEAN /\ Pending(Top) = {}
  BY <1>1, AtTop, Kinds
<1>3. Open(code[BB_])
  <2>1. CASE Top.first
    <3>1. Begins(Top)
      BY <1>1, <2>1 DEF Begins
    <3> QED BY <1>1, <3>1, AtTop
  <2>2. CASE ~ Top.first
    BY <1>1, <2>2, InsertPoint, Opened
  <2> QED BY <2>1, <2>2
<1>4. /\ Shape(c, {}, FALSE) /\ c.visit = "compound"
      /\ Shape(Statement, {}, TRUE) /\ Statement.visit = "statement"
  BY <1>2, Shapes DEF Compound, Statement
<1> HIDE DEF c
<1>5. /\ frames \in Seq(Frame) /\ Len(frames) = 2 /\ DOMAIN frames = {1, 2}
      /\ frames[1] = c /\ frames[2] = Statement
  BY <1>4 DEF Shape
<1> HIDE DEF frames
<1>6. /\ UNCHANGED <<created, listed, BB_>> /\ code' = code /\ pre_enter_scope' \in BOOLEAN
  BY <1>1 DEF blocks, PInv, Typed
<1>7. /\ code' \in [Block -> Seq(Instruction)] /\ Clean(code'[BB_]) /\ Open(code'[BB_])
      /\ \A b \in Block \ {BB_} : code'[b] = code[b]
  BY <1>3, <1>6, Ordinary
<1>8. ASSUME NEW i \in DOMAIN frames
      PROVE  /\ Pending(frames[i]) = {} /\ frames[i].visit # "then"
             /\ Begins(frames[i]) => i = Len(frames) /\ Open(code'[BB_])
  BY <1>4, <1>5, <1>7 DEF Shape
<1> QED BY <1>1, <1>2, <1>5, <1>6, <1>7, <1>8, StepInPlace

\* A visit that goes on: the frames are the same ones.
LEMMA Stays ==
  ASSUME PInv, stack # << >>, stack' = stack
  PROVE  Return(<<Top>>)
<1>1. stack \in Seq(Frame) /\ Len(stack) \in Nat \ {0}
  BY EmptySeq DEF PInv, Typed
<1>2. 1 \in 1 .. Len(stack) /\ Len(stack) \in 1 .. Len(stack)
  BY <1>1
<1>3. SubSeq(stack, 1, Len(stack)) = SubSeq(stack, 1, Len(stack) - 1) \o <<stack[Len(stack)]>>
  BY <1>1, <1>2, SubSeqRecursiveSecond
<1>4. SubSeq(stack, 1, Len(stack)) = stack
  BY <1>1, SubSeqFull
<1> QED BY <1>3, <1>4 DEF Return, Front, Top, Last

\* What is computed goes into an insert point that was open, and leaves it open.
LEMMA DoCompute == ASSUME PInv, Compute PROVE PInv'
<1> DEFINE frames == <<Top>>
<1>1. /\ stack # << >> /\ stack' = stack /\ code' = Emitted(BB_, <<Plain>>)
      /\ UNCHANGED <<created, listed, BB_>> /\ pre_enter_scope' \in BOOLEAN
  BY DEF Compute, In, PInv, Typed
<1>2. /\ Begins(Top) /\ Top.visit \notin {"function", "then", "else", "body"}
  BY DEF Compute, In, Top, Begins
<1>3. Top \in Frame /\ Open(code[BB_]) /\ Pending(Top) = {}
  BY <1>1, <1>2, AtTop, Kinds
<1>4. /\ code' \in [Block -> Seq(Instruction)] /\ Clean(code'[BB_]) /\ Open(code'[BB_])
      /\ \A b \in Block \ {BB_} : code'[b] = code[b]
  BY <1>1, <1>3, Ordinary
<1>5. frames \in Seq(Frame) /\ DOMAIN frames = {1} /\ Len(frames) = 1 /\ frames[1] = Top
  BY <1>3
<1>6. Return(frames)
  BY <1>1, Stays
<1> HIDE DEF frames
<1>7. \A i \in DOMAIN frames :
        /\ Pending(frames[i]) = {} /\ frames[i].visit # "then"
        /\ Begins(frames[i]) => i = Len(frames) /\ Open(code'[BB_])
  BY <1>2, <1>3, <1>4, <1>5
<1> QED BY <1>1, <1>2, <1>3, <1>4, <1>5, <1>6, <1>7, StepInPlace

\* An if begins with its condition, in the insert point.
LEMMA DoVisitSelection ==
  ASSUME PInv, NEW else \in BOOLEAN, VisitSelection(else) PROVE PInv'
<1>1. Shape(Condition(else), {}, TRUE) /\ Condition(else).visit # "then"
  BY Shapes DEF Condition
<1>2. /\ In({"statement"}) /\ Return(<<Condition(else)>>)
      /\ UNCHANGED blocks /\ pre_enter_scope' \in BOOLEAN
  BY DEF VisitSelection, PInv, Typed
<1> QED BY <1>1, <1>2, DoStatement

\* An expression statement begins with its expression, in the insert point.
LEMMA DoVisitExpressionStmt == ASSUME PInv, VisitExpressionStmt PROVE PInv'
<1>1. Shape(Expression, {}, TRUE) /\ Expression.visit # "then"
  BY Shapes DEF Expression
<1>2. /\ In({"statement"}) /\ Return(<<Expression>>)
      /\ UNCHANGED blocks /\ pre_enter_scope' \in BOOLEAN
  BY DEF VisitExpressionStmt, PInv, Typed
<1> QED BY <1>1, <1>2, DoStatement

\* A return begins with its expression, in the insert point.
LEMMA DoVisitReturn == ASSUME PInv, VisitReturn PROVE PInv'
<1>1. Shape(Returned, {}, TRUE) /\ Returned.visit # "then"
  BY Shapes DEF Returned
<1>2. /\ In({"statement"}) /\ Return(<<Returned>>)
      /\ UNCHANGED blocks /\ pre_enter_scope' \in BOOLEAN
  BY DEF VisitReturn, PInv, Typed
<1> QED BY <1>1, <1>2, DoStatement

\* A return without expression ends an insert point that was open.
LEMMA DoVisitVoidReturn == ASSUME PInv, VisitVoidReturn PROVE PInv'
<1> DEFINE frames == << >>
<1>1. /\ In({"statement"}) /\ Return(frames) /\ code' = Emitted(BB_, <<Ret>>)
      /\ UNCHANGED <<created, listed, BB_>> /\ pre_enter_scope' \in BOOLEAN
  BY DEF VisitVoidReturn, PInv, Typed
<1>2. /\ frames \in Seq(Frame) /\ Len(frames) <= 1 /\ frames = << >>
      /\ \A i \in DOMAIN frames : Pending(frames[i]) = {} /\ frames[i].visit # "then"
  BY NoFrame
<1> HIDE DEF frames
<1>3. Open(code[BB_])
  BY <1>1, AtCode
<1>4. /\ code' \in [Block -> Seq(Instruction)] /\ Clean(code'[BB_])
      /\ \A b \in Block \ {BB_} : code'[b] = code[b]
  BY <1>1, <1>3, Returns
<1> QED BY <1>1, <1>2, <1>4, StepStatement

\* A visit that ends in the insert point, and is not that of the function.
LEMMA StepEnd ==
  ASSUME PInv, NEW visit, visit \in {"expression", "return", "compound"}, In({visit}),
         Return(<< >>), UNCHANGED <<created, listed, BB_>>, pre_enter_scope' \in BOOLEAN,
         code' \in [Block -> Seq(Instruction)], Clean(code'[BB_]),
         \A b \in Block \ {BB_} : code'[b] = code[b]
  PROVE  PInv'
<1> DEFINE frames == << >>
<1>1. stack # << >> /\ Top.visit = visit
  BY DEF In, Top
<1>2. Pending(Top) = {} /\ Top.visit # "function"
  BY <1>1, AtTop, Kinds
<1>3. frames \in Seq(Frame) /\ Return(frames) /\ DOMAIN frames = {}
  BY LenProperties
<1> HIDE DEF frames
<1> QED BY <1>1, <1>2, <1>3, StepInPlace

\* The end of an expression leaves the blocks alone.
LEMMA DoEndExpression == ASSUME PInv, EndExpression PROVE PInv'
<1>1. /\ In({"expression"}) /\ Return(<< >>) /\ UNCHANGED <<created, listed, BB_>>
      /\ pre_enter_scope' \in BOOLEAN /\ code' = code
  BY DEF EndExpression, blocks, PInv, Typed
<1>2. Open(code[BB_])
  BY <1>1, AtCode
<1>3. /\ code' \in [Block -> Seq(Instruction)] /\ Clean(code'[BB_])
      /\ \A b \in Block \ {BB_} : code'[b] = code[b]
  BY <1>1, <1>2, Ordinary
<1> QED BY <1>1, <1>3, StepEnd

\* A return ends an insert point that was open: the expression did not end it.
LEMMA DoEndReturn ==
  ASSUME PInv, NEW converted \in BOOLEAN, EndReturn(converted) PROVE PInv'
<1>1. /\ In({"return"}) /\ Return(<< >>) /\ UNCHANGED <<created, listed, BB_>>
      /\ pre_enter_scope' \in BOOLEAN
      /\ code' = Emitted(BB_, <<Ret>>) \/ code' = Emitted(BB_, <<Plain, Ret>>)
  BY DEF EndReturn, PInv, Typed
<1>2. Open(code[BB_])
  BY <1>1, AtCode
<1>3. /\ code' \in [Block -> Seq(Instruction)] /\ Clean(code'[BB_])
      /\ \A b \in Block \ {BB_} : code'[b] = code[b]
  BY <1>1, <1>2, Returns
<1> QED BY <1>1, <1>3, StepEnd

\* The end of a compound leaves the blocks alone.
LEMMA DoEndCompound == ASSUME PInv, EndCompound PROVE PInv'
<1>1. /\ In({"compound"}) /\ Return(<< >>) /\ UNCHANGED <<created, listed, BB_>>
      /\ pre_enter_scope' \in BOOLEAN /\ code' = code
  BY DEF EndCompound, blocks, PInv, Typed
<1>2. stack # << >> /\ BB_ \in Block /\ \A b \in Block : Clean(code[b])
  BY <1>1, InsertPoint, AtTop DEF In
<1>3. /\ code' \in [Block -> Seq(Instruction)] /\ Clean(code'[BB_])
      /\ \A b \in Block \ {BB_} : code'[b] = code[b]
  BY <1>1, <1>2 DEF PInv, Typed
<1> QED BY <1>1, <1>3, StepEnd

\* The function's body follows its frame, which stays below.
LEMMA DoVisitFunctionBody == ASSUME PInv, VisitFunctionBody PROVE PInv'
<1> DEFINE f == Function(FALSE)
           c == Compound(TRUE, ~ pre_enter_scope)
           frames == <<f, c>>
<1>1. /\ stack # << >> /\ Top.visit = "function" /\ Top.first /\ Return(frames)
      /\ UNCHANGED <<created, listed, BB_>> /\ pre_enter_scope' \in BOOLEAN
      /\ code' = code
  BY DEF VisitFunctionBody, EnterCompound, blocks, In, Top
<1>2. Shape(f, {}, FALSE) /\ Shape(c, {}, TRUE) /\ f.visit = "function" /\ c.visit = "compound"
  <2>1. (~ pre_enter_scope) \in BOOLEAN
    OBVIOUS
  <2> QED BY <2>1, Shapes DEF Function, Compound
<1> HIDE DEF f, c
<1>3. Open(code[BB_]) /\ Pending(Top) = {}
  <2>1. Begins(Top)
    BY <1>1 DEF Begins
  <2> QED BY <1>1, <2>1, AtTop, Kinds
<1>4. /\ code' \in [Block -> Seq(Instruction)] /\ Clean(code'[BB_]) /\ Open(code'[BB_])
      /\ \A b \in Block \ {BB_} : code'[b] = code[b]
  BY <1>1, <1>3, Ordinary
<1>5. /\ frames \in Seq(Frame) /\ Len(frames) = 2 /\ DOMAIN frames = {1, 2}
      /\ frames[1] = f /\ frames[2] = c /\ frames # << >>
  BY <1>2 DEF Shape
<1> HIDE DEF frames
<1>6. ASSUME NEW i \in DOMAIN frames
      PROVE  /\ Pending(frames[i]) = {} /\ frames[i].visit # "then"
             /\ Begins(frames[i]) => i = Len(frames) /\ Open(code'[BB_])
  BY <1>2, <1>4, <1>5 DEF Shape
<1> QED BY <1>1, <1>2, <1>3, <1>4, <1>5, <1>6, StepInPlace

\* The end of the function ends the insert point, if nothing has.
LEMMA DoEndFunction == ASSUME PInv, EndFunction PROVE PInv'
<1> DEFINE frames == << >>
<1>1. /\ stack # << >> /\ Top.visit = "function" /\ Return(frames)
      /\ UNCHANGED <<created, listed, BB_>> /\ pre_enter_scope' \in BOOLEAN
      /\ code' = IF Terminated(BB_) THEN code ELSE Emitted(BB_, <<Ret>>)
  BY DEF EndFunction, In, Top, PInv, Typed
<1>2. frames \in Seq(Frame) /\ frames = << >> /\ DOMAIN frames = {}
  BY LenProperties
<1> HIDE DEF frames
<1>3. Pending(Top) = {} /\ BB_ \in Block /\ \A b \in Block : Clean(code[b])
  BY <1>1, AtTop, Kinds, InsertPoint
<1>4. /\ code' \in [Block -> Seq(Instruction)] /\ Clean(code'[BB_]) /\ Ended(code'[BB_])
      /\ \A b \in Block \ {BB_} : code'[b] = code[b]
  <2>1. CASE Terminated(BB_)
    BY <1>1, <1>3, <2>1 DEF PInv, Typed, Terminated, Ended, Ends
  <2>2. CASE ~ Terminated(BB_)
    BY <1>1, <1>3, <2>2, Opened, Returns
  <2> QED BY <2>1, <2>2
<1> QED BY <1>1, <1>2, <1>3, <1>4, StepInPlace

-------------------------------------------------------------------------------
(* Visits that go on in another block *)

\* The k numbers after c.
After(c, k) == [i \in 1 .. k |-> c + i]

\* A list without repetition of numbers up to c, and the k numbers that follow.
LEMMA Extended ==
  ASSUME NEW c \in Nat, NEW k \in Nat, NEW s \in Seq(1 .. c), NEW t
  PROVE  Once(s) /\ t = s \o After(c, k)
         => /\ t \in Seq(1 .. c + k)
            /\ Once(t)
            /\ \A j \in DOMAIN t : \/ \E m \in DOMAIN s : s[m] = t[j]
                                  \/ t[j] \in c + 1 .. c + k
<1>0. HAVE Once(s) /\ t = s \o After(c, k)
<1> DEFINE q == After(c, k)
           n == Len(s)
<1>1. n \in Nat /\ DOMAIN s = 1 .. n /\ s \in [1 .. n -> 1 .. c]
  BY LenProperties
<1>2. \A i \in 1 .. n : s[i] \in 1 .. c
  BY <1>1
<1> HIDE DEF n
<1>4. s \in Seq(1 .. c + k)
  <2>1. 1 .. c \subseteq 1 .. c + k
    OBVIOUS
  <2> QED BY <2>1, SeqMonotonic
<1>5. q \in Seq(1 .. c + k) /\ Len(q) = k
  <2>1. q \in [1 .. k -> 1 .. c + k]
    BY DEF After
  <2>2. q \in Seq(1 .. c + k) /\ DOMAIN q = 1 .. k
    BY <2>1, SeqDef
  <2> QED BY <2>2, LenProperties
<1>6. \A i \in 1 .. k : q[i] = c + i
  BY DEF After
<1>7. t = s \o q
  BY <1>0
<1> HIDE DEF q
<1>8. /\ t \in Seq(1 .. c + k) /\ Len(t) = n + k
      /\ \A i \in 1 .. n + k : t[i] = IF i <= n THEN s[i] ELSE q[i - n]
  <2> DEFINE T == 1 .. c + k
  <2>1. s \in Seq(T) /\ q \in Seq(T) /\ Len(s) = n
    BY <1>4, <1>5 DEF n
  <2> HIDE DEF T
  <2>2. /\ s \o q \in Seq(T) /\ Len(s \o q) = n + k
        /\ \A i \in 1 .. n + k : (s \o q)[i] = IF i <= n THEN s[i] ELSE q[i - n]
    BY <1>5, <2>1, ConcatProperties
  <2> QED BY <1>7, <2>2 DEF T
<1>9. DOMAIN t = 1 .. n + k
  BY <1>8, LenProperties
<1>10. ASSUME NEW i \in 1 .. n + k, i <= n
       PROVE  i \in 1 .. n /\ t[i] = s[i] /\ t[i] \in 1 .. c
  <2>1. i \in 1 .. n
    BY <1>1, <1>10
  <2> QED BY <1>2, <1>8, <1>10, <2>1
<1>11. ASSUME NEW i \in 1 .. n + k, i > n
       PROVE  t[i] = c + (i - n) /\ t[i] \in c + 1 .. c + k
  <2>1. i - n \in 1 .. k /\ ~ i <= n
    BY <1>1, <1>11
  <2>2. t[i] = c + (i - n)
    BY <1>6, <1>8, <2>1
  <2>3. c + (i - n) \in c + 1 .. c + k
    BY <2>1
  <2> QED BY <2>2, <2>3
<1>12. ASSUME NEW i \in 1 .. n + k, NEW j \in 1 .. n + k, t[i] = t[j] PROVE i = j
  <2>1. CASE i <= n /\ j <= n
    BY <1>0, <1>1, <1>10, <1>12, <2>1 DEF Once
  <2>2. CASE i > n /\ j > n
    <3>1. t[i] = c + (i - n) /\ t[j] = c + (j - n)
      BY <1>11, <2>2
    <3>2. c + (i - n) = c + (j - n)
      BY <1>12, <3>1
    <3> QED BY <1>1, <3>2
  <2>3. CASE i <= n /\ j > n
    <3>1. t[i] \in 1 .. c /\ t[j] \in c + 1 .. c + k
      BY <1>10, <1>11, <2>3
    <3> QED BY <1>12, <3>1
  <2>4. CASE i > n /\ j <= n
    <3>1. t[j] \in 1 .. c /\ t[i] \in c + 1 .. c + k
      BY <1>10, <1>11, <2>4
    <3> QED BY <1>12, <3>1
  <2> QED BY <1>1, <2>1, <2>2, <2>3, <2>4
<1>13. ASSUME NEW j \in 1 .. n + k
       PROVE  (\E m \in DOMAIN s : s[m] = t[j]) \/ t[j] \in c + 1 .. c + k
  BY <1>1, <1>10, <1>11
<1> QED BY <1>8, <1>9, <1>12, <1>13 DEF Once

\* The list of the blocks after some have been created.
LEMMA NewBlocks ==
  ASSUME PInv, NEW k \in Nat, CreateBlocks(k)
  PROVE  /\ created' = created + k /\ created' \in created .. MaxBlocks
         /\ listed' \in Seq(1 .. created')
         /\ Once(listed')
         /\ \A j \in DOMAIN listed' : \/ \E m \in DOMAIN listed : listed[m] = listed'[j]
                                     \/ listed'[j] \in created + 1 .. created + k
<1>1. created \in Nat /\ created' = created + k /\ created' \in created .. MaxBlocks
  BY InsertPoint DEF CreateBlocks, Block
<1>2. listed \in Seq(1 .. created) /\ Once(listed) /\ listed' = listed \o After(created, k)
  BY DEF CreateBlocks, PInv, Typed, Covered, After
<1>3. Once(listed) /\ listed' = listed \o After(created, k)
      => /\ listed' \in Seq(1 .. created + k)
         /\ Once(listed')
         /\ \A j \in DOMAIN listed' : \/ \E m \in DOMAIN listed : listed[m] = listed'[j]
                                     \/ listed'[j] \in created + 1 .. created + k
  BY <1>1, <1>2, Extended
<1> QED BY <1>1, <1>2, <1>3

\* A branch to new blocks out of an insert point that is open.
LEMMA Branches ==
  ASSUME PInv, Open(code[BB_]), NEW t \in Block, NEW f \in Block,
         NEW next, next = Emitted(BB_, <<Plain, CondBr(t, f)>>)
  PROVE  /\ next \in [Block -> Seq(Instruction)] /\ Clean(next[BB_]) /\ Ended(next[BB_])
         /\ \A b \in Block \ {BB_} : next[b] = code[b]
<1>1. Typed /\ BB_ \in Block
  BY InsertPoint DEF PInv
<1> QED BY <1>1, Runs, EmittedClean

\* A list without repetition after an element has been taken off.
LEMMA Removed ==
  ASSUME NEW S, NEW s \in Seq(S), NEW e, NEW t
  PROVE  Once(s) /\ t = RemoveFirst(s, e)
         => /\ t \in Seq(S) /\ Once(t)
            /\ \A j \in DOMAIN t : t[j] # e /\ \E m \in DOMAIN s : s[m] = t[j]
            /\ \A m \in DOMAIN s : s[m] # e => \E j \in DOMAIN t : t[j] = s[m]
<1>0. HAVE Once(s) /\ t = RemoveFirst(s, e)
<1>1. Len(s) \in Nat /\ DOMAIN s = 1 .. Len(s) /\ \A i \in 1 .. Len(s) : s[i] \in S
  BY LenProperties, ElementOfSeq
<1>2. CASE ~ \E i \in 1 .. Len(s) : s[i] = e
  <2>1. t = s
    BY <1>0, <1>2 DEF RemoveFirst
  <2> QED BY <1>0, <1>1, <1>2, <2>1
<1>3. CASE \E i \in 1 .. Len(s) : s[i] = e
  <2> DEFINE n == Len(s)
  <2>1. PICK p \in 1 .. n : s[p] = e
    BY <1>3
  <2> HIDE DEF n
  <2>2. \A i \in 1 .. n : s[i] = e <=> i = p
    BY <1>0, <1>1, <2>1 DEF Once, n
  <2>3. SelectInSeq(s, LAMBDA v : v = e) = p
    <3>1. {i \in 1 .. n : s[i] = e} = {p}
      BY <2>1, <2>2
    <3>2. Min({p}) = p
      BY <2>1 DEF Min
    <3> QED BY <3>1, <3>2 DEF SelectInSeq, n
  <2>4. t = SubSeq(s, 1, p - 1) \o SubSeq(s, p + 1, n)
    BY <1>0, <1>3, <2>3 DEF RemoveFirst, RemoveAt, n
  <2> DEFINE a == SubSeq(s, 1, p - 1)
             b == SubSeq(s, p + 1, n)
  <2>5. p \in Int /\ n \in Nat /\ 1 <= p /\ p <= n /\ DOMAIN s = 1 .. n
    BY <1>1, <2>1 DEF n
  <2>6. /\ a \in Seq(S) /\ Len(a) = p - 1
        /\ \A i \in 1 .. p - 1 : a[i] = s[i]
    <3>1. 1 \in Int /\ p - 1 \in Int /\ \A i \in 1 .. p - 1 : s[i] \in S
      BY <1>1, <2>5 DEF n
    <3>2. /\ a \in Seq(S) /\ Len(a) = IF 1 <= p - 1 THEN p - 1 - 1 + 1 ELSE 0
          /\ \A i \in 1 .. p - 1 - 1 + 1 : a[i] = s[1 + i - 1]
      BY <3>1, SubSeqProperties
    <3>3. (IF 1 <= p - 1 THEN p - 1 - 1 + 1 ELSE 0) = p - 1 /\ p - 1 - 1 + 1 = p - 1
      BY <2>5
    <3>4. \A i \in 1 .. p - 1 : 1 + i - 1 = i
      BY <2>5
    <3> QED BY <3>2, <3>3, <3>4
  <2>7. /\ b \in Seq(S) /\ Len(b) = n - p
        /\ \A i \in 1 .. n - p : b[i] = s[p + i]
    <3>1. p + 1 \in Int /\ n \in Int /\ \A i \in p + 1 .. n : s[i] \in S
      BY <1>1, <2>5 DEF n
    <3>2. /\ b \in Seq(S) /\ Len(b) = IF p + 1 <= n THEN n - (p + 1) + 1 ELSE 0
          /\ \A i \in 1 .. n - (p + 1) + 1 : b[i] = s[p + 1 + i - 1]
      BY <3>1, SubSeqProperties
    <3>3. (IF p + 1 <= n THEN n - (p + 1) + 1 ELSE 0) = n - p /\ n - (p + 1) + 1 = n - p
      BY <2>5
    <3>4. \A i \in 1 .. n - p : p + 1 + i - 1 = p + i
      BY <2>5
    <3> QED BY <3>2, <3>3, <3>4
  <2>8. t = a \o b
    BY <2>4
  <2> HIDE DEF a, b
  <2>9. /\ t \in Seq(S) /\ Len(t) = p - 1 + (n - p)
        /\ \A i \in 1 .. p - 1 + (n - p) : t[i] = IF i <= p - 1 THEN a[i] ELSE b[i - (p - 1)]
    BY <2>6, <2>7, <2>8, ConcatProperties
  <2>10. p - 1 + (n - p) = n - 1 /\ n - 1 \in Nat
    BY <2>5
  <2>11. DOMAIN t = 1 .. n - 1
    BY <2>9, <2>10, LenProperties
  <2> DEFINE at(x) == IF x < p THEN x ELSE x + 1
  <2>12. ASSUME NEW j \in 1 .. n - 1
         PROVE  at(j) \in 1 .. n /\ at(j) # p /\ t[j] = s[at(j)]
    <3>1. CASE j < p
      <4>1. j \in 1 .. p - 1 /\ j <= p - 1 /\ j \in 1 .. n /\ j # p
        BY <2>5, <3>1
      <4> QED BY <2>6, <2>9, <2>10, <3>1, <4>1
    <3>2. CASE j >= p
      <4>1. /\ j - (p - 1) \in 1 .. n - p /\ ~ j <= p - 1 /\ ~ j < p
            /\ j + 1 \in 1 .. n /\ j + 1 # p /\ p + (j - (p - 1)) = j + 1
        BY <2>5, <3>2
      <4>2. t[j] = b[j - (p - 1)] /\ b[j - (p - 1)] = s[p + (j - (p - 1))]
        BY <2>7, <2>9, <2>10, <4>1
      <4> QED BY <4>1, <4>2
    <3> QED BY <2>5, <3>1, <3>2
  <2>13. ASSUME NEW j \in 1 .. n - 1 PROVE t[j] # e /\ \E m \in 1 .. n : s[m] = t[j]
    <3> HIDE DEF at
    <3> QED BY <2>2, <2>12
  <2>14. ASSUME NEW i \in 1 .. n - 1, NEW j \in 1 .. n - 1, t[i] = t[j] PROVE i = j
    <3>1. at(i) = at(j)
      <4> HIDE DEF at
      <4>1. s[at(i)] = s[at(j)]
        BY <2>12, <2>14
      <4> QED BY <1>0, <2>5, <2>12, <4>1 DEF Once
    <3> QED BY <2>5, <3>1
  <2>15. ASSUME NEW m \in 1 .. n, s[m] # e PROVE \E j \in 1 .. n - 1 : t[j] = s[m]
    <3>1. m # p
      BY <2>1, <2>15
    <3>2. PICK j \in 1 .. n - 1 : at(j) = m
      <4>1. CASE m < p
        BY <2>5, <4>1
      <4>2. CASE m > p
        <5>1. m - 1 \in 1 .. n - 1 /\ at(m - 1) = m
          BY <2>5, <4>2
        <5> QED BY <5>1
      <4> QED BY <2>5, <3>1, <4>1, <4>2
    <3> HIDE DEF at
    <3> QED BY <2>12, <3>2
  <2> QED BY <2>5, <2>9, <2>11, <2>13, <2>14, <2>15 DEF Once
<1> QED BY <1>2, <1>3

\* The code when only that of the insert point has changed.
LEMMA CodeAfter ==
  ASSUME PInv, stack # << >>, NEW next, Clean(next[BB_]),
         \A c \in Block \ {BB_} : next[c] = code[c]
  PROVE  /\ \A b \in Block : Clean(next[b])
         /\ \A b \in 1 .. created : b # BB_ => next[b] = code[b]
         /\ \A b \in Block : b > created => next[b] = << >>
<1>1. \A b \in 1 .. created : b \in Block
  BY InsertPoint DEF Block
<1>2. \A b \in Block : b > created => code[b] = << >> /\ b # BB_
  <2>1. created \in Nat /\ BB_ \in 1 .. created
    BY InsertPoint DEF PInv, Typed, Block
  <2>2. \A b \in Block : b > created => b # BB_
    BY <2>1 DEF Block
  <2> QED BY <2>2 DEF PInv, Fresh
<1>3. \A b \in Block : Clean(code[b])
  BY AtTop
<1> QED BY <1>1, <1>2, <1>3

\* The block of a loop condition is new, and entered at once.
LEMMA DoVisitIteration == ASSUME PInv, VisitIteration PROVE PInv'
<1> DEFINE e == created + 1
           f == LoopCondition(e)
           frames == <<f>>
<1>1. /\ In({"statement"}) /\ Return(frames) /\ CreateBlocks(1) /\ BranchUnlessTerminated(e)
      /\ BB_' = e /\ pre_enter_scope' \in BOOLEAN
  BY DEF VisitIteration, PInv, Typed
<1>2. /\ created' = e /\ created' \in created .. MaxBlocks /\ listed' \in Seq(1 .. created')
      /\ Once(listed')
      /\ \A j \in DOMAIN listed' : (\E m \in DOMAIN listed : listed[m] = listed'[j]) \/ listed'[j] = e
  <2>1. \A x : x \in created + 1 .. created + 1 <=> x = e
    BY InsertPoint DEF Block
  <2>2. 1 \in Nat
    OBVIOUS
  <2> QED BY <1>1, <2>1, <2>2, NewBlocks
<1>3. /\ e \in Block /\ e > created /\ BB_ \in Block /\ BB_ # e /\ BB_' \in 1 .. created'
      /\ created \in Nat /\ BB_ \in 1 .. created
  BY <1>1, <1>2, InsertPoint DEF Block, PInv, Typed
<1>4. Shape(f, {}, TRUE) /\ f.visit # "then"
  BY <1>3, Shapes DEF LoopCondition
<1> HIDE DEF f
<1>5. /\ frames \in Seq(Frame) /\ Len(frames) <= 1
      /\ \A i \in DOMAIN frames : Pending(frames[i]) = {} /\ frames[i].visit # "then"
  BY <1>4, OneFrame
<1> HIDE DEF frames
<1>6. stack # << >> /\ Pending(Top) = {} /\ Top.visit # "function"
  BY <1>1, AtCode
<1>7. \A i \in DOMAIN frames : i = Len(frames)
  BY <1>5, LenProperties
<1>8. /\ code' \in [Block -> Seq(Instruction)] /\ Clean(code'[BB_]) /\ Ended(code'[BB_])
      /\ \A c \in Block \ {BB_} : code'[c] = code[c]
  BY <1>1, <1>3, BranchEnds
<1>9. /\ \A b \in Block : Clean(code'[b])
      /\ \A b \in 1 .. created : b # BB_ => code'[b] = code[b]
      /\ \A b \in Block : b > created => code'[b] = << >>
  BY <1>6, <1>8, CodeAfter
<1>10. Open(code'[BB_'])
  BY <1>1, <1>3, <1>9 DEF Open
<1>11. \A b \in Block : b > created' => code'[b] = << >>
  BY <1>2, <1>3, <1>9 DEF Block
<1>13. \A k \in DOMAIN listed' :
         \/ \E m \in DOMAIN listed : listed[m] = listed'[k] /\ listed[m] \notin Pending(Top)
         \/ listed'[k] = BB_'
  BY <1>1, <1>2, <1>6
<1> HIDE DEF e
<1>14. BB_' > created
  BY <1>1, <1>3
<1> QED BY <1>1, <1>2, <1>3, <1>5, <1>6, <1>7, <1>8, <1>9, <1>10, <1>11, <1>13, <1>14, Step
        DEF Top

\* The end of an if or a loop: the insert point is left by a branch, unless it has one, for
\* the block that waits, and the visit is over.
LEMMA StepJoin ==
  ASSUME PInv, stack # << >>, Top.visit \in {"else", "body"}, NEW to \in Block,
         BranchUnlessTerminated(to), BB_' = Top.contBB, Return(<< >>),
         UNCHANGED <<created, listed, pre_enter_scope>>
  PROVE  PInv'
<1> DEFINE frames == << >>
<1>1. frames \in Seq(Frame) /\ frames = << >> /\ DOMAIN frames = {} /\ Return(frames)
  BY LenProperties
<1> HIDE DEF frames
<1>2. Pending(Top) = {Top.contBB} /\ Top.visit # "function"
  BY DEF Pending
<1>3. BB_' \in Pending(Top) /\ BB_' \in 1 .. created' /\ created' \in created .. MaxBlocks
  <2>1. created \in Nat /\ created <= MaxBlocks /\ MaxBlocks \in Nat
    BY InsertPoint DEF Block
  <2>2. created' \in created .. MaxBlocks
    BY <2>1
  <2>3. BB_' \in 1 .. created
    BY <1>2, AtTop
  <2> QED BY <1>2, <2>2, <2>3
<1>4. /\ code' \in [Block -> Seq(Instruction)] /\ Clean(code'[BB_]) /\ Ended(code'[BB_])
      /\ \A c \in Block \ {BB_} : code'[c] = code[c]
  BY BranchEnds
<1>5. /\ \A b \in Block : Clean(code'[b])
      /\ \A b \in 1 .. created : b # BB_ => code'[b] = code[b]
      /\ \A b \in Block : b > created' => code'[b] = << >>
  BY <1>4, CodeAfter
<1>6. listed' \in Seq(1 .. created') /\ Once(listed') /\ pre_enter_scope' \in BOOLEAN
  BY DEF PInv, Typed, Covered
<1>7. \A k \in DOMAIN listed' :
        \/ \E m \in DOMAIN listed : listed[m] = listed'[k] /\ listed[m] \notin Pending(Top)
        \/ listed'[k] = BB_'
  BY <1>2
<1> QED BY <1>1, <1>2, <1>3, <1>4, <1>5, <1>6, <1>7, Step DEF Top

\* The end of an else goes on in the block after the if.
LEMMA DoEndElse == ASSUME PInv, EndElse PROVE PInv'
<1>1. /\ stack # << >> /\ Top.visit = "else" /\ BranchUnlessTerminated(Top.contBB)
      /\ BB_' = Top.contBB /\ Return(<< >>) /\ UNCHANGED <<created, listed, pre_enter_scope>>
  BY DEF EndElse, In, Top
<1>2. Top.contBB \in Block
  BY <1>1, AtTop, Kinds
<1> QED BY <1>1, <1>2, StepJoin

\* The end of a loop body goes on in the block after the loop.
LEMMA DoEndBody == ASSUME PInv, EndBody PROVE PInv'
<1>1. /\ stack # << >> /\ Top.visit = "body" /\ BranchUnlessTerminated(Top.exprBB)
      /\ BB_' = Top.contBB /\ Return(<< >>) /\ UNCHANGED <<created, listed, pre_enter_scope>>
  BY DEF EndBody, In, Top
<1>2. Top.exprBB \in Block
  BY <1>1, AtTop, Kinds
<1> QED BY <1>1, <1>2, StepJoin

\* The else goes on in the block kept for it; the one after the if still waits.
LEMMA DoEndThenBeginElse == ASSUME PInv, EndThenBeginElse PROVE PInv'
<1> DEFINE c == Top.contBB
           e == Else(c)
           frames == <<e, Statement>>
<1>1. /\ stack # << >> /\ Top.visit = "then" /\ BranchUnlessTerminated(c)
      /\ BB_' = Top.falseBB /\ Return(frames) /\ UNCHANGED <<created, listed, pre_enter_scope>>
  BY DEF EndThenBeginElse, In, Top
<1>2. Pending(Top) = {Top.falseBB, c} /\ Top.visit # "function" /\ c \in Block /\ Top.falseBB # c
  BY <1>1, AtTop, Kinds DEF Pending
<1>3. BB_' \in Pending(Top) /\ BB_' \in 1 .. created' /\ created' \in created .. MaxBlocks
  <2>1. created \in Nat /\ created <= MaxBlocks /\ MaxBlocks \in Nat
    BY InsertPoint DEF Block
  <2>2. created' \in created .. MaxBlocks
    BY <1>1, <2>1
  <2>3. BB_' \in 1 .. created
    BY <1>1, <1>2, AtTop
  <2> QED BY <1>1, <1>2, <2>2, <2>3
<1>4. /\ code' \in [Block -> Seq(Instruction)] /\ Clean(code'[BB_]) /\ Ended(code'[BB_])
      /\ \A b \in Block \ {BB_} : code'[b] = code[b]
  BY <1>1, <1>2, BranchEnds
<1>5. /\ \A b \in Block : Clean(code'[b])
      /\ \A b \in 1 .. created : b # BB_ => code'[b] = code[b]
      /\ \A b \in Block : b > created' => code'[b] = << >>
  BY <1>1, <1>4, CodeAfter
<1>6. \A b \in Pending(Top) : b \in 1 .. created' /\ code'[b] = << >>
  <2>1. \A b \in Pending(Top) : b \in 1 .. created /\ b # BB_ /\ code[b] = << >>
    BY <1>1, AtTop
  <2> QED BY <1>1, <1>5, <2>1
<1>7. Open(code'[BB_'])
  BY <1>3, <1>6 DEF Open
<1>8. listed' \in Seq(1 .. created') /\ Once(listed') /\ pre_enter_scope' \in BOOLEAN
  BY <1>1 DEF PInv, Typed, Covered
<1>9. Shape(e, {c}, FALSE) /\ e.visit = "else" /\ Shape(Statement, {}, TRUE)
      /\ Statement.visit = "statement"
  BY <1>2, Shapes DEF Else, Statement
<1> HIDE DEF e
<1>10. /\ frames \in Seq(Frame) /\ DOMAIN frames = {1, 2} /\ Len(frames) = 2
       /\ frames[1] = e /\ frames[2] = Statement
  BY <1>9 DEF Shape
<1> HIDE DEF frames
<1>11. Pending(frames[1]) = {c} /\ ~ Begins(frames[1]) /\ Pending(frames[2]) = {}
  BY <1>9, <1>10 DEF Shape
<1>12. \A k \in DOMAIN listed' :
         \/ \E m \in DOMAIN listed : listed[m] = listed'[k] /\ listed[m] \notin Pending(Top)
         \/ listed'[k] = BB_'
         \/ \E i \in DOMAIN frames : listed'[k] \in Pending(frames[i])
  BY <1>1, <1>2, <1>10, <1>11
<1>13. \A i \in DOMAIN frames : \A b \in Pending(frames[i]) :
         b \in 1 .. created' /\ b # BB_' /\ code'[b] = << >> /\ b \in Pending(Top)
  BY <1>1, <1>2, <1>6, <1>10, <1>11
<1>14. \A i, j \in DOMAIN frames : i # j => Pending(frames[i]) \cap Pending(frames[j]) = {}
  BY <1>10, <1>11
<1>15. \A i \in DOMAIN frames :
         /\ frames[i].visit = "then" => frames[i].falseBB # frames[i].contBB
         /\ Begins(frames[i]) => i = Len(frames) /\ Open(code'[BB_'])
  BY <1>7, <1>9, <1>10, <1>11
<1> HIDE DEF c
<1>16. BB_' = BB_ \/ (Ended(code'[BB_]) /\ (BB_' > created \/ BB_' \in Pending(Last(stack))))
  BY <1>3, <1>4 DEF Top
<1>17. \A k \in DOMAIN listed' :
         \/ \E m \in DOMAIN listed : listed[m] = listed'[k] /\ listed[m] \notin Pending(Last(stack))
         \/ listed'[k] = BB_' \/ Terminated(listed[k])'
         \/ \E i \in DOMAIN frames : listed'[k] \in Pending(frames[i])
  BY <1>12 DEF Top
<1>18. \A i \in DOMAIN frames : \A b \in Pending(frames[i]) :
         /\ b \in 1 .. created' /\ b # BB_' /\ code'[b] = << >>
         /\ b > created \/ b \in Pending(Last(stack))
  BY <1>13 DEF Top
<1>19. Last(stack).visit # "function"
  BY <1>2 DEF Top
<1> QED BY <1>1, <1>3, <1>4, <1>5, <1>8, <1>10, <1>14, <1>15, <1>16, <1>17, <1>18, <1>19, Step

\* Without an else, its block goes off the list, and the one after the if is entered.
LEMMA DoEndThenWithoutElse == ASSUME PInv, EndThenWithoutElse PROVE PInv'
<1> DEFINE c == Top.contBB
           br == IF Terminated(BB_) THEN << >> ELSE <<Br(c)>>
           frames == << >>
<1>1. /\ stack # << >> /\ Top.visit = "then" /\ code' = Emitted(BB_, br)
      /\ BB_' = c /\ Return(frames) /\ listed' = RemoveFirst(listed, Top.falseBB)
      /\ UNCHANGED <<created, pre_enter_scope>>
  BY DEF EndThenWithoutElse, In, Top
<1>2. frames \in Seq(Frame) /\ frames = << >> /\ DOMAIN frames = {}
  BY LenProperties
<1> HIDE DEF frames
<1>3. Pending(Top) = {Top.falseBB, c} /\ Top.visit # "function" /\ c \in Block
  BY <1>1, AtTop, Kinds DEF Pending
<1>4. BB_' \in Pending(Top) /\ BB_' \in 1 .. created' /\ created' \in created .. MaxBlocks
  <2>1. created \in Nat /\ created <= MaxBlocks /\ MaxBlocks \in Nat
    BY InsertPoint DEF Block
  <2>2. created' \in created .. MaxBlocks
    BY <1>1, <2>1
  <2>3. BB_' \in 1 .. created
    BY <1>1, <1>3, AtTop
  <2> QED BY <1>1, <1>3, <2>2, <2>3
<1>5. /\ code' \in [Block -> Seq(Instruction)] /\ Clean(code'[BB_]) /\ Ended(code'[BB_])
      /\ \A b \in Block \ {BB_} : code'[b] = code[b]
  <2>1. /\ BB_ \in Block /\ Typed /\ Clean(code[BB_])
        /\ code \in [Block -> Seq(Instruction)] /\ code[BB_] \in Seq(Instruction)
    BY <1>1, InsertPoint, AtTop DEF PInv, Typed
  <2>2. CASE Terminated(BB_)
    <3>1. code[BB_] \o << >> = code[BB_]
      BY <2>1, ConcatEmptySeq
    <3>2. Emitted(BB_, << >>) = [code EXCEPT ![BB_] = code[BB_] \o << >>]
      BY DEF Emitted
    <3>3. code' = code
      BY <1>1, <2>1, <2>2, <3>1, <3>2
    <3> QED BY <2>1, <2>2, <3>3 DEF Terminated, Ended, Ends
  <2>3. CASE ~ Terminated(BB_)
    <3>1. code' = Emitted(BB_, <<Br(c)>>)
      BY <1>1, <2>3
    <3>2. Open(code[BB_])
      BY <2>1, <2>3, Opened
    <3>3. <<Br(c)>> \in Seq(Instruction) /\ Clean(<<Br(c)>>) /\ Ended(<<Br(c)>>)
      BY <1>3, Runs
    <3> QED BY <2>1, <3>1, <3>2, <3>3, EmittedClean
  <2> QED BY <2>2, <2>3
<1>6. /\ \A b \in Block : Clean(code'[b])
      /\ \A b \in 1 .. created : b # BB_ => code'[b] = code[b]
      /\ \A b \in Block : b > created' => code'[b] = << >>
  BY <1>1, <1>5, CodeAfter
<1>7. /\ listed' \in Seq(1 .. created) /\ Once(listed')
      /\ \A j \in DOMAIN listed' :
           listed'[j] # Top.falseBB /\ \E m \in DOMAIN listed : listed[m] = listed'[j]
  <2>1. listed \in Seq(1 .. created) /\ Once(listed)
    BY DEF PInv, Typed, Covered
  <2>2. Once(listed) /\ listed' = RemoveFirst(listed, Top.falseBB)
        => /\ listed' \in Seq(1 .. created) /\ Once(listed')
           /\ \A j \in DOMAIN listed' :
                listed'[j] # Top.falseBB /\ \E m \in DOMAIN listed : listed[m] = listed'[j]
    BY <2>1, Removed
  <2> QED BY <1>1, <2>1, <2>2
<1>8. listed' \in Seq(1 .. created') /\ pre_enter_scope' \in BOOLEAN
  BY <1>1, <1>7 DEF PInv, Typed
<1>9. \A k \in DOMAIN listed' :
        \/ \E m \in DOMAIN listed : listed[m] = listed'[k] /\ listed[m] \notin Pending(Top)
        \/ listed'[k] = BB_'
  BY <1>1, <1>3, <1>7
<1> HIDE DEF c, br
<1> QED BY <1>1, <1>2, <1>3, <1>4, <1>5, <1>6, <1>7, <1>8, <1>9, Step DEF Top

\* A list of two.
LEMMA Appended ==
  ASSUME NEW S, NEW a \in S, NEW b \in S
  PROVE  Append(<<a>>, b) = <<a, b>>
<1> DEFINE s == Append(<<a>>, b)
           t == <<a, b>>
<1>1. s \in Seq(S) /\ Len(s) = 2 /\ s[1] = a /\ s[2] = b
  OBVIOUS
<1>2. t \in Seq(S) /\ Len(t) = 2 /\ t[1] = a /\ t[2] = b
  OBVIOUS
<1> HIDE DEF s, t
<1>3. \A i \in 1 .. Len(s) : s[i] = t[i]
  BY <1>1, <1>2
<1>4. s = t
  BY <1>1, <1>2, <1>3, SeqEqual
<1> QED BY <1>4 DEF s, t

\* New blocks are empty, and the branch to them leaves the others alone.
LEMMA BranchToNew ==
  ASSUME PInv, stack # << >>, Begins(Top), NEW k \in Nat, CreateBlocks(k),
         NEW t \in created + 1 .. created + k, NEW f \in created + 1 .. created + k,
         Branch(<<Plain>>, CondBr(t, f))
  PROVE  /\ code' \in [Block -> Seq(Instruction)] /\ Ended(code'[BB_])
         /\ \A b \in Block : Clean(code'[b])
         /\ \A b \in 1 .. created : b # BB_ => code'[b] = code[b]
         /\ \A b \in Block : b > created => code'[b] = << >>
         /\ \A b \in created + 1 .. created + k : b \in Block /\ b \in 1 .. created' /\ b > created
<1>1. created' = created + k /\ created' \in created .. MaxBlocks
  BY NewBlocks
<1>2. created \in Nat \ {0}
  BY InsertPoint DEF Block
<1>3. \A b \in created + 1 .. created + k : b \in Block /\ b \in 1 .. created' /\ b > created
  <2>1. MaxBlocks \in Nat /\ created + k <= MaxBlocks
    BY <1>1, <1>2, InsertPoint
  <2> QED BY <1>1, <1>2, <2>1 DEF Block
<1>4. code' = Emitted(BB_, <<Plain, CondBr(t, f)>>)
  <2>1. code' = Emitted(BB_, Append(<<Plain>>, CondBr(t, f)))
    BY DEF Branch
  <2>2. Append(<<Plain>>, CondBr(t, f)) = <<Plain, CondBr(t, f)>>
    <3>1. CondBr(t, f) \in Instruction /\ Plain \in Instruction
      BY <1>3 DEF CondBr, Plain, Instruction
    <3> QED BY <3>1, Appended
  <2> QED BY <2>1, <2>2
<1>5. Open(code[BB_])
  BY AtTop
<1>6. /\ code' \in [Block -> Seq(Instruction)] /\ Clean(code'[BB_]) /\ Ended(code'[BB_])
      /\ \A b \in Block \ {BB_} : code'[b] = code[b]
  BY <1>3, <1>4, <1>5, Branches
<1>7. /\ \A b \in Block : Clean(code'[b])
      /\ \A b \in 1 .. created : b # BB_ => code'[b] = code[b]
      /\ \A b \in Block : b > created => code'[b] = << >>
  BY <1>6, CodeAfter
<1> QED BY <1>3, <1>6, <1>7

\* The three blocks of an if are new: one is entered, two wait.
LEMMA DoBeginThen == ASSUME PInv, BeginThen PROVE PInv'
<1> DEFINE t == created + 1
           f == created + 2
           c == created + 3
           else == Top.else
           then == Then(f, c, else)
           frames == <<then, Statement>>
<1>1. /\ stack # << >> /\ Top.visit = "condition" /\ CreateBlocks(3)
      /\ Branch(<<Plain>>, CondBr(t, IF else THEN f ELSE c))
      /\ BB_' = t /\ Return(frames) /\ UNCHANGED pre_enter_scope
  BY DEF BeginThen, In, Top
<1>2. /\ created \in Nat /\ 3 \in Nat /\ Begins(Top) /\ else \in BOOLEAN
      /\ Pending(Top) = {} /\ Top.visit # "function"
  <2>1. created \in Nat
    BY InsertPoint DEF Block
  <2>2. Begins(Top)
    BY <1>1 DEF Begins
  <2>3. Top \in Frame
    BY <1>1, AtTop
  <2> QED BY <1>1, <2>1, <2>2, <2>3, Kinds
<1>3. /\ t \in created + 1 .. created + 3 /\ f \in created + 1 .. created + 3
      /\ c \in created + 1 .. created + 3 /\ t # f /\ t # c /\ f # c
      /\ \A x \in created + 1 .. created + 3 : x \in {t, f, c}
  BY <1>2
<1>4. /\ code' \in [Block -> Seq(Instruction)] /\ Ended(code'[BB_])
      /\ \A b \in Block : Clean(code'[b])
      /\ \A b \in 1 .. created : b # BB_ => code'[b] = code[b]
      /\ \A b \in Block : b > created => code'[b] = << >>
      /\ \A b \in created + 1 .. created + 3 : b \in Block /\ b \in 1 .. created' /\ b > created
  <2> DEFINE g == IF else THEN f ELSE c
  <2>1. g \in created + 1 .. created + 3
    BY <1>3
  <2>2. Branch(<<Plain>>, CondBr(t, g))
    BY <1>1
  <2> HIDE DEF t, g
  <2> QED BY <1>1, <1>2, <1>3, <2>1, <2>2, BranchToNew
<1>5. /\ created' = created + 3 /\ created' \in created .. MaxBlocks /\ listed' \in Seq(1 .. created')
      /\ Once(listed')
      /\ \A j \in DOMAIN listed' : \/ \E m \in DOMAIN listed : listed[m] = listed'[j]
                                  \/ listed'[j] \in created + 1 .. created + 3
  BY <1>1, <1>2, NewBlocks
<1>6. \A b \in {t, f, c} : b \in Block /\ b \in 1 .. created' /\ b > created /\ code'[b] = << >>
  BY <1>3, <1>4
<1>7. \A b \in Block : b > created' => code'[b] = << >>
  <2>1. \A b \in Block : b > created' => b > created
    BY <1>2, <1>5 DEF Block
  <2> QED BY <1>4, <2>1
<1>8. \A j \in DOMAIN listed' :
        (\E m \in DOMAIN listed : listed[m] = listed'[j]) \/ listed'[j] \in {t, f, c}
  BY <1>3, <1>5
<1> HIDE DEF t, f, c, else
<1>9. /\ Shape(then, {f, c}, FALSE) /\ then.visit = "then" /\ then.falseBB = f /\ then.contBB = c
      /\ Shape(Statement, {}, TRUE) /\ Statement.visit = "statement"
  BY <1>2, <1>6, Shapes DEF Then, Statement
<1> HIDE DEF then
<1>10. /\ frames \in Seq(Frame) /\ DOMAIN frames = {1, 2} /\ Len(frames) = 2
       /\ frames[1] = then /\ frames[2] = Statement
  BY <1>9 DEF Shape
<1> HIDE DEF frames
<1>11. Pending(frames[1]) = {f, c} /\ ~ Begins(frames[1]) /\ Pending(frames[2]) = {}
  BY <1>9, <1>10 DEF Shape
<1>12. \A k \in DOMAIN listed' :
         \/ \E m \in DOMAIN listed : listed[m] = listed'[k] /\ listed[m] \notin Pending(Top)
         \/ listed'[k] = BB_'
         \/ \E i \in DOMAIN frames : listed'[k] \in Pending(frames[i])
  BY <1>1, <1>2, <1>8, <1>10, <1>11
<1>13. \A i \in DOMAIN frames : \A b \in Pending(frames[i]) :
         b \in 1 .. created' /\ b # BB_' /\ code'[b] = << >> /\ b > created
  BY <1>1, <1>3, <1>6, <1>10, <1>11
<1>14. \A i, j \in DOMAIN frames : i # j => Pending(frames[i]) \cap Pending(frames[j]) = {}
  BY <1>10, <1>11
<1>15. \A i \in DOMAIN frames :
         /\ frames[i].visit = "then" => frames[i].falseBB # frames[i].contBB
         /\ Begins(frames[i]) => i = Len(frames) /\ Open(code'[BB_'])
  <2>1. code'[t] = << >> /\ BB_' = t
    BY <1>1, <1>6
  <2>2. Open(<< >>)
    BY DEF Open
  <2> QED BY <1>3, <1>9, <1>10, <1>11, <2>1, <2>2
<1>16. BB_' \in 1 .. created' /\ BB_' > created /\ pre_enter_scope' \in BOOLEAN
  BY <1>1, <1>6 DEF PInv, Typed
<1> QED BY <1>1, <1>2, <1>4, <1>5, <1>7, <1>10, <1>12, <1>13, <1>14, <1>15, <1>16, Step DEF Top

\* The two blocks after a loop condition are new: one is entered, one waits.
LEMMA DoBeginBody == ASSUME PInv, BeginBody PROVE PInv'
<1> DEFINE t == created + 1
           c == created + 2
           e == Top.exprBB
           body == Body(e, c)
           frames == <<body, Statement>>
<1>1. /\ stack # << >> /\ Top.visit = "loop condition" /\ CreateBlocks(2)
      /\ Branch(<<Plain>>, CondBr(t, c))
      /\ BB_' = t /\ Return(frames) /\ UNCHANGED pre_enter_scope
  BY DEF BeginBody, In, Top
<1>2. /\ created \in Nat /\ 2 \in Nat /\ Begins(Top) /\ e \in Block
      /\ Pending(Top) = {} /\ Top.visit # "function"
  <2>1. created \in Nat
    BY InsertPoint DEF Block
  <2>2. Begins(Top)
    BY <1>1 DEF Begins
  <2>3. Top \in Frame
    BY <1>1, AtTop
  <2> QED BY <1>1, <2>1, <2>2, <2>3, Kinds
<1>3. /\ t \in created + 1 .. created + 2 /\ c \in created + 1 .. created + 2 /\ t # c
      /\ \A x \in created + 1 .. created + 2 : x \in {t, c}
  BY <1>2
<1> HIDE DEF e
<1>4. /\ code' \in [Block -> Seq(Instruction)] /\ Ended(code'[BB_])
      /\ \A b \in Block : Clean(code'[b])
      /\ \A b \in 1 .. created : b # BB_ => code'[b] = code[b]
      /\ \A b \in Block : b > created => code'[b] = << >>
      /\ \A b \in created + 1 .. created + 2 : b \in Block /\ b \in 1 .. created' /\ b > created
  <2> HIDE DEF t, c
  <2> QED BY <1>1, <1>2, <1>3, BranchToNew
<1>5. /\ created' = created + 2 /\ created' \in created .. MaxBlocks /\ listed' \in Seq(1 .. created')
      /\ Once(listed')
      /\ \A j \in DOMAIN listed' : \/ \E m \in DOMAIN listed : listed[m] = listed'[j]
                                  \/ listed'[j] \in created + 1 .. created + 2
  BY <1>1, <1>2, NewBlocks
<1>6. \A b \in {t, c} : b \in Block /\ b \in 1 .. created' /\ b > created /\ code'[b] = << >>
  BY <1>3, <1>4
<1>7. \A b \in Block : b > created' => code'[b] = << >>
  <2>1. \A b \in Block : b > created' => b > created
    BY <1>2, <1>5 DEF Block
  <2> QED BY <1>4, <2>1
<1>8. \A j \in DOMAIN listed' :
        (\E m \in DOMAIN listed : listed[m] = listed'[j]) \/ listed'[j] \in {t, c}
  BY <1>3, <1>5
<1> HIDE DEF t, c
<1>9. /\ Shape(body, {c}, FALSE) /\ body.visit = "body"
      /\ Shape(Statement, {}, TRUE) /\ Statement.visit = "statement"
  BY <1>2, <1>6, Shapes DEF Body, Statement
<1> HIDE DEF body
<1>10. /\ frames \in Seq(Frame) /\ DOMAIN frames = {1, 2} /\ Len(frames) = 2
       /\ frames[1] = body /\ frames[2] = Statement
  BY <1>9 DEF Shape
<1> HIDE DEF frames
<1>11. Pending(frames[1]) = {c} /\ ~ Begins(frames[1]) /\ Pending(frames[2]) = {}
  BY <1>9, <1>10 DEF Shape
<1>12. \A k \in DOMAIN listed' :
         \/ \E m \in DOMAIN listed : listed[m] = listed'[k] /\ listed[m] \notin Pending(Top)
         \/ listed'[k] = BB_'
         \/ \E i \in DOMAIN frames : listed'[k] \in Pending(frames[i])
  BY <1>1, <1>2, <1>8, <1>10, <1>11
<1>13. \A i \in DOMAIN frames : \A b \in Pending(frames[i]) :
         b \in 1 .. created' /\ b # BB_' /\ code'[b] = << >> /\ b > created
  BY <1>1, <1>3, <1>6, <1>10, <1>11
<1>14. \A i, j \in DOMAIN frames : i # j => Pending(frames[i]) \cap Pending(frames[j]) = {}
  BY <1>10, <1>11
<1>15. \A i \in DOMAIN frames :
         /\ frames[i].visit # "then"
         /\ Begins(frames[i]) => i = Len(frames) /\ Open(code'[BB_'])
  <2>1. code'[t] = << >> /\ BB_' = t
    BY <1>1, <1>6
  <2>2. Open(<< >>)
    BY DEF Open
  <2> QED BY <1>9, <1>10, <1>11, <2>1, <2>2
<1>16. BB_' \in 1 .. created' /\ BB_' > created /\ pre_enter_scope' \in BOOLEAN
  BY <1>1, <1>6 DEF PInv, Typed
<1> QED BY <1>1, <1>2, <1>4, <1>5, <1>7, <1>10, <1>12, <1>13, <1>14, <1>15, <1>16, Step DEF Top

\* The visit of an indexed variable inside an expression: the stack is the same.
LEMMA DoIndexAccess == ASSUME PInv, IndexAccess PROVE PInv'
<1> DEFINE x == created + 1
           c == created + 2
           tested == Emitted(BB_, <<Plain, CondBr(x, c)>>)
           frames == <<Top>>
<1>1. /\ stack # << >> /\ Top.visit \in {"expression", "return", "condition", "loop condition"}
      /\ CreateBlocks(2) /\ code' = [tested EXCEPT ![x] = <<Plain, Ret>>, ![c] = <<Plain>>]
      /\ BB_' = c /\ stack' = stack /\ UNCHANGED pre_enter_scope
  BY DEF IndexAccess, In, Top
<1>2. created \in Nat /\ BB_ \in 1 .. created /\ MaxBlocks \in Nat /\ BB_ \in Block
  BY InsertPoint DEF Block, PInv, Typed
<1>3. Top \in Frame /\ Begins(Top) /\ Pending(Top) = {} /\ Open(code[BB_])
  <2>1. Top \in Frame
    BY <1>1, AtTop
  <2>2. Begins(Top)
    BY <1>1 DEF Begins
  <2> QED BY <1>1, <2>1, <2>2, AtTop, Kinds
<1>4. /\ created' = created + 2 /\ created' \in created .. MaxBlocks /\ listed' \in Seq(1 .. created')
      /\ Once(listed')
      /\ \A j \in DOMAIN listed' : \/ \E m \in DOMAIN listed : listed[m] = listed'[j]
                                  \/ listed'[j] \in created + 1 .. created + 2
  <2>1. 2 \in Nat
    OBVIOUS
  <2> QED BY <1>1, <2>1, NewBlocks
<1>5. /\ x \in Block /\ c \in Block /\ x # c /\ x > created /\ c > created
      /\ BB_ # x /\ BB_ # c /\ c \in 1 .. created'
      /\ \A y \in created + 1 .. created + 2 : y \in {x, c}
      /\ \A y \in 1 .. created : y # x /\ y # c
      /\ \A y \in Block : y > created' => y > created /\ y # x /\ y # c
  BY <1>2, <1>4 DEF Block
<1> HIDE DEF x, c
<1>6. /\ tested \in [Block -> Seq(Instruction)] /\ Clean(tested[BB_]) /\ Ended(tested[BB_])
      /\ \A b \in Block \ {BB_} : tested[b] = code[b]
  BY <1>3, <1>5, Branches
<1> HIDE DEF tested
<1>7. /\ \A b \in Block : Clean(tested[b])
      /\ \A b \in 1 .. created : b # BB_ => tested[b] = code[b]
      /\ \A b \in Block : b > created => tested[b] = << >>
  BY <1>1, <1>6, CodeAfter
<1> DEFINE p == <<Plain>>
           r == <<Plain, Ret>>
<1>8. /\ p \in Seq(Instruction) /\ Clean(p) /\ Open(p)
      /\ r \in Seq(Instruction) /\ Clean(r) /\ Ended(r)
  BY Runs
<1>9. code' = [tested EXCEPT ![x] = r, ![c] = p]
  BY <1>1
<1> HIDE DEF p, r
<1>10. /\ code' \in [Block -> Seq(Instruction)] /\ code'[x] = r /\ code'[c] = p
       /\ \A b \in Block : b # x /\ b # c => code'[b] = tested[b]
  BY <1>5, <1>6, <1>8, <1>9
<1>11. \A b \in Block : Clean(code'[b])
  BY <1>7, <1>8, <1>10
<1>12. \A b \in 1 .. created : b # BB_ => code'[b] = code[b]
  <2>1. \A b \in 1 .. created : b \in Block
    BY InsertPoint DEF Block
  <2> QED BY <1>5, <1>7, <1>10, <2>1
<1>13. \A b \in Block : b > created' => code'[b] = << >>
  BY <1>5, <1>7, <1>10
<1>14. Ended(code'[BB_]) /\ Ended(code'[x]) /\ Open(code'[BB_'])
  BY <1>1, <1>2, <1>5, <1>6, <1>8, <1>10
<1>15. Return(frames)
  BY <1>1, Stays
<1>16. /\ frames \in Seq(Frame) /\ DOMAIN frames = {1} /\ Len(frames) = 1 /\ frames[1] = Top
  BY <1>3
<1> HIDE DEF frames
<1>17. \A k \in DOMAIN listed' :
         \/ \E m \in DOMAIN listed : listed[m] = listed'[k] /\ listed[m] \notin Pending(Top)
         \/ listed'[k] = BB_' \/ Terminated(listed[k])'
  <2> SUFFICES ASSUME NEW k \in DOMAIN listed',
                      ~ \E m \in DOMAIN listed : listed[m] = listed'[k],
                      listed'[k] # BB_'
               PROVE  Ended(code'[listed'[k]])
    BY <1>3 DEF Terminated, Ended, Ends
  <2>1. listed'[k] = x
    BY <1>1, <1>4, <1>5
  <2> QED BY <1>14, <2>1
<1>18. \A i \in DOMAIN frames : /\ Pending(frames[i]) = {} /\ frames[i].visit # "then" /\ i = Len(frames)
  BY <1>1, <1>3, <1>16
<1>19. BB_' \in 1 .. created' /\ BB_' > created /\ pre_enter_scope' \in BOOLEAN /\ Top.visit # "function"
  BY <1>1, <1>5 DEF PInv, Typed
<1> QED BY <1>1, <1>4, <1>10, <1>11, <1>12, <1>13, <1>14, <1>15, <1>16, <1>17, <1>18, <1>19, Step
        DEF Top

-------------------------------------------------------------------------------
(* Theorems *)

\* A function begins with one open block and one visit.
LEMMA Initially == Init => PInv
<1> SUFFICES ASSUME Init PROVE PInv
  OBVIOUS
<1>1. PICK params \in BOOLEAN :
        code = [b \in Block |-> IF b = Entry /\ params THEN <<Plain>> ELSE << >>]
  BY DEF Init
<1>2. /\ created = 1 /\ listed = <<1>> /\ BB_ = 1 /\ pre_enter_scope = TRUE
      /\ stack = <<Function(TRUE)>>
  BY DEF Init, Entry
<1>3. 1 \in Block /\ \A b \in Block : b > 1 => b # Entry
  BY BoundsNat DEF Block, Entry
<1>4. Shape(Function(TRUE), {}, TRUE) /\ Function(TRUE).visit = "function"
  BY Shapes DEF Function
<1>5. \A b \in Block : code[b] \in Seq(Instruction) /\ Open(code[b])
  <2>1. << >> \in Seq(Instruction) /\ Open(<< >>)
    BY DEF Open
  <2> QED BY <1>1, <2>1, Runs
<1> DEFINE f == Function(TRUE)
<1> HIDE DEF f
<1>6. stack \in Seq(Frame) /\ Len(stack) = 1 /\ DOMAIN stack = {1} /\ stack[1] = f
  <2>1. f \in Frame /\ stack = <<f>>
    BY <1>2, <1>4 DEF Shape, f
  <2> QED BY <2>1
<1>7. listed \in Seq(1 .. created) /\ DOMAIN listed = {1} /\ listed[1] = 1
  BY <1>2
<1>8. Typed
  <2>1. code \in [Block -> Seq(Instruction)]
    BY <1>1, <1>5
  <2>2. created \in Block /\ BB_ \in 1 .. created /\ pre_enter_scope \in BOOLEAN
    BY <1>2, <1>3
  <2> QED BY <1>6, <1>7, <2>1, <2>2 DEF Typed
<1>9. NothingAfterTerminator
  BY <1>5 DEF NothingAfterTerminator, Open, Ends
<1>10. \A i \in DOMAIN stack : Pending(stack[i]) = {} /\ i = 1 /\ stack[i].visit = "function"
  BY <1>4, <1>6 DEF Shape, f
<1>11. Fresh
  BY <1>1, <1>2, <1>3, <1>10 DEF Fresh
<1>12. Apart
  BY <1>10 DEF Apart
<1>13. Ready
  BY <1>2, <1>3, <1>5, <1>6, <1>10 DEF Ready
<1>14. Covered
  BY <1>2, <1>6, <1>7, <1>10 DEF Covered, Once
<1> QED BY <1>8, <1>9, <1>11, <1>12, <1>13, <1>14 DEF PInv

\* Every step of the visitor keeps the invariant.
LEMMA Inductive == PInv /\ [Next]_vars => PInv'
<1> SUFFICES ASSUME PInv, [Next]_vars PROVE PInv'
  OBVIOUS
<1>1. CASE VisitFunctionBody
  BY <1>1, DoVisitFunctionBody
<1>2. CASE VisitCompound
  BY <1>2, DoVisitCompound
<1>3. ASSUME NEW else \in BOOLEAN, VisitSelection(else) PROVE PInv'
  BY <1>3, DoVisitSelection
<1>4. CASE EndExpression
  BY <1>4, DoEndExpression
<1>5. CASE VisitExpressionStmt
  BY <1>5, DoVisitExpressionStmt
<1>6. CASE VisitReturn
  BY <1>6, DoVisitReturn
<1>7. CASE VisitVoidReturn
  BY <1>7, DoVisitVoidReturn
<1>8. CASE VisitIteration
  BY <1>8, DoVisitIteration
<1>9. CASE IndexAccess
  BY <1>9, DoIndexAccess
<1>10. ASSUME NEW converted \in BOOLEAN, EndReturn(converted) PROVE PInv'
  BY <1>10, DoEndReturn
<1>11. CASE BeginThen
  BY <1>11, DoBeginThen
<1>12. CASE BeginBody
  BY <1>12, DoBeginBody
<1>13. CASE EndCompound
  BY <1>13, DoEndCompound
<1>14. CASE EndThenWithoutElse
  BY <1>14, DoEndThenWithoutElse
<1>15. CASE EndThenBeginElse
  BY <1>15, DoEndThenBeginElse
<1>16. CASE EndElse
  BY <1>16, DoEndElse
<1>17. CASE EndBody
  BY <1>17, DoEndBody
<1>18. CASE EndFunction
  BY <1>18, DoEndFunction
<1>20. CASE NextStatement
  BY <1>20, DoNextStatement
<1>21. CASE Compute
  BY <1>21, DoCompute
<1>19. CASE UNCHANGED vars
  <2>1. UNCHANGED <<created, listed, code, BB_, pre_enter_scope, stack>>
    BY <1>19 DEF vars, blocks
  <2>2. Typed' /\ NothingAfterTerminator' /\ Fresh' /\ Apart' /\ Ready' /\ Covered'
    BY <2>1 DEF PInv, Typed, NothingAfterTerminator, Fresh, Apart, Ready, Covered, Terminated
  <2> QED BY <2>2 DEF PInv
<1> QED BY <1>1, <1>2, <1>3, <1>4, <1>5, <1>6, <1>7, <1>8, <1>9, <1>10, <1>11, <1>12, <1>13,
           <1>14, <1>15, <1>16, <1>17, <1>18, <1>19, <1>20, <1>21 DEF Next

\* The invariant holds throughout.
LEMMA Invariant == Spec => []PInv
<1> QED BY Initially, Inductive, PTL DEF Spec

\* However statements nest and wherever they return or index arrays, no block the builder
\* fills has code after its first terminator (BasicBlock::get_terminator looks at the last
\* instruction only).
THEOREM OneTerminator == Spec => []NothingAfterTerminator
<1>1. PInv => NothingAfterTerminator
  BY DEF PInv
<1> QED BY <1>1, Invariant, PTL

\* When the visit of a function is over, each block on its list ends in a terminator: the
\* default return at the end reaches the only one that could be left without.
THEOREM AllBlocksEnd == Spec => []AllTerminated
<1>1. PInv => AllTerminated
  <2> SUFFICES ASSUME PInv, stack = << >>, NEW k \in DOMAIN listed PROVE Terminated(listed[k])
    BY DEF AllTerminated, Done
  <2>1. DOMAIN stack = {} /\ Terminated(BB_)
    BY DEF PInv, Covered
  <2> QED BY <2>1 DEF PInv, Covered
<1> QED BY <1>1, Invariant, PTL

-------------------------------------------------------------------------------
(* Edges, scopes and loops: the inductive invariant *)

\* Where a list of instructions branches to.
To(s) == IF Ended(s) THEN Last(s).to ELSE << >>

\* The blocks that a visit names: those that wait for it, and the head of its loop.
Named(f) == Pending(f) \cup (IF f.visit \in {"loop condition", "body"} THEN {f.exprBB} ELSE {})

\* The blocks that f names are among those listed and none is the entry, the block it
\* will take off the list has no predecessor, and the head of its loop has code.
Settled(f, names, preds, codes, at) ==
  /\ Named(f) \subseteq names \ {Entry}
  /\ f.visit = "then" /\ ~ f.else => preds[f.falseBB] = << >>
  /\ f.visit = "body" => codes[f.exprBB] # << >>
  /\ f.visit = "loop condition" => f.exprBB = at \/ codes[f.exprBB] # << >>

\* Both ends of each edge are recorded, once, as the branches say.
Recorded ==
  /\ pre \in [Block -> Seq(1 .. created)] /\ succ \in [Block -> Seq(1 .. created)]
  /\ \A b \in Block : /\ succ[b] = Reverse(To(code[b]))
                      /\ Once(pre[b])
                      /\ \A c \in Block : c \in ToSet(pre[b]) <=> b \in ToSet(succ[c])

\* A block that is off the list has neither code nor predecessors.
Unlisted ==
  /\ BB_ \in ToSet(listed)
  /\ \A b \in 1 .. created : b \notin ToSet(listed) => code[b] = << >> /\ pre[b] = << >>

EInv == /\ Recorded /\ Unlisted /\ pre[Entry] = << >>
        /\ \A i \in DOMAIN stack : Settled(stack[i], ToSet(listed), pre, code, BB_)

-------------------------------------------------------------------------------
(* Sequences *)

\* A list, and what is added to it.
LEMMA AppendOnce ==
  ASSUME NEW S, NEW s \in Seq(S), NEW e \in S
  PROVE  /\ Append(s, e) \in Seq(S) /\ ToSet(Append(s, e)) = ToSet(s) \cup {e}
         /\ Once(s) /\ e \notin ToSet(s) => Once(Append(s, e))
<1>1. Len(s) \in Nat /\ DOMAIN s = 1 .. Len(s)
  BY LenProperties
<1>2. /\ Append(s, e) \in Seq(S) /\ Len(Append(s, e)) = Len(s) + 1
      /\ \A i \in 1 .. Len(s) : Append(s, e)[i] = s[i]
      /\ Append(s, e)[Len(s) + 1] = e
  BY AppendProperties
<1>3. DOMAIN Append(s, e) = 1 .. Len(s) + 1
  BY <1>2, LenProperties
<1>4. ToSet(Append(s, e)) = ToSet(s) \cup {e}
  BY <1>1, <1>2, <1>3 DEF ToSet
<1>5. Once(s) /\ e \notin ToSet(s) => Once(Append(s, e))
  BY <1>1, <1>2, <1>3 DEF ToSet, Once
<1> QED BY <1>2, <1>4, <1>5

\* A list backwards.
LEMMA ReverseSame ==
  ASSUME NEW S, NEW s \in Seq(S)
  PROVE  Reverse(s) \in Seq(S) /\ ToSet(Reverse(s)) = ToSet(s) /\ (s = << >> => Reverse(s) = << >>)
<1>1. Len(s) \in Nat /\ DOMAIN s = 1 .. Len(s) /\ \A i \in 1 .. Len(s) : s[i] \in S
  BY LenProperties, ElementOfSeq
<1>2. /\ DOMAIN Reverse(s) = 1 .. Len(s) /\ \A i \in 1 .. Len(s) : Reverse(s)[i] = s[Len(s) - i + 1]
  BY DEF Reverse
<1>3. \A i \in 1 .. Len(s) : Len(s) - i + 1 \in 1 .. Len(s) /\ Len(s) - (Len(s) - i + 1) + 1 = i
  BY <1>1
<1>4. Reverse(s) \in [1 .. Len(s) -> S]
  BY <1>1, <1>3 DEF Reverse
<1>5. Reverse(s) \in Seq(S)
  BY <1>1, <1>4, SeqDef
<1>6. ToSet(Reverse(s)) = ToSet(s)
  BY <1>1, <1>2, <1>3 DEF ToSet
<1>7. s = << >> => Reverse(s) = << >>
  <2>1. s = << >> => Len(s) = 0
    OBVIOUS
  <2>2. Len(Reverse(s)) = Len(s)
    BY <1>1, <1>2, <1>5, LenProperties
  <2> QED BY <1>5, <2>1, <2>2, EmptySeq
<1> QED BY <1>5, <1>6, <1>7

\* Elements of a list are of its kind.
LEMMA Elements ==
  ASSUME NEW S, NEW s \in Seq(S)
  PROVE  /\ ToSet(s) \subseteq S
         /\ s = << >> <=> ToSet(s) = {}
<1>1. Len(s) \in Nat /\ DOMAIN s = 1 .. Len(s) /\ \A i \in 1 .. Len(s) : s[i] \in S
  BY LenProperties, ElementOfSeq
<1>2. s = << >> <=> Len(s) = 0
  BY EmptySeq
<1>3. ToSet(s) \subseteq S
  BY <1>1 DEF ToSet
<1>4. CASE Len(s) = 0
  <2>1. DOMAIN s = {}
    BY <1>1, <1>4
  <2> QED BY <1>2, <1>3, <1>4, <2>1 DEF ToSet
<1>5. CASE Len(s) # 0
  <2>1. 1 \in DOMAIN s
    BY <1>1, <1>5
  <2>2. s[1] \in ToSet(s)
    BY <2>1 DEF ToSet
  <2> QED BY <1>2, <1>3, <1>5, <2>2
<1> QED BY <1>4, <1>5

-------------------------------------------------------------------------------
(* Steps *)

\* Where blocks branch to after a list of instructions has been added to an open one.
LEMMA EmittedTo ==
  ASSUME Typed, NEW b \in Block, Open(code[b]), NEW is \in Seq(Instruction), Clean(is), is # << >>
  PROVE  /\ Emitted(b, is)[b] # << >> /\ To(Emitted(b, is)[b]) = To(is)
         /\ \A c \in Block \ {b} : Emitted(b, is)[c] = code[c]
<1> DEFINE c == code[b]
           merged == c # << >> /\ Last(c) = Plain /\ Head(is) = Plain
           added == IF merged THEN Tail(is) ELSE is
<1>1. c \in Seq(Instruction) /\ code \in [Block -> Seq(Instruction)]
  BY DEF Typed
<1>2. Emitted(b, is) = [code EXCEPT ![b] = c \o added]
  BY DEF Emitted
<1>3. Emitted(b, is)[b] = c \o added /\ \A d \in Block \ {b} : Emitted(b, is)[d] = code[d]
  BY <1>1, <1>2
<1>4. Len(is) \in Nat \ {0} /\ DOMAIN is = 1 .. Len(is) /\ Head(is) = is[1]
  BY LenProperties, EmptySeq
<1>5. c \o added # << >> /\ Last(c \o added) = Last(is)
  <2>1. CASE ~ merged
    <3>1. /\ c \o is \in Seq(Instruction) /\ Len(c \o is) = Len(c) + Len(is) /\ Len(c) \in Nat
          /\ \A i \in 1 .. Len(c) + Len(is) : (c \o is)[i] = IF i <= Len(c) THEN c[i] ELSE is[i - Len(c)]
      BY <1>1, ConcatProperties, LenProperties
    <3>2. (c \o is)[Len(c) + Len(is)] = is[Len(is)] /\ Len(c) + Len(is) # 0
      BY <1>4, <3>1
    <3> QED BY <2>1, <3>1, <3>2 DEF Last
  <2>2. CASE merged
    <3>1. /\ Tail(is) \in Seq(Instruction) /\ Len(Tail(is)) = Len(is) - 1
          /\ \A i \in 1 .. Len(is) - 1 : Tail(is)[i] = is[i + 1]
      BY HeadTailProperties
    <3> DEFINE t == Tail(is)
    <3> HIDE DEF t
    <3>2. t \in Seq(Instruction) /\ Len(t) = Len(is) - 1 /\ \A i \in 1 .. Len(is) - 1 : t[i] = is[i + 1]
      BY <3>1 DEF t
    <3>3. /\ c \o t \in Seq(Instruction) /\ Len(c \o t) = Len(c) + Len(t) /\ Len(c) \in Nat \ {0}
          /\ \A i \in 1 .. Len(c) + Len(t) : (c \o t)[i] = IF i <= Len(c) THEN c[i] ELSE t[i - Len(c)]
      BY <1>1, <2>2, <3>2, ConcatProperties, LenProperties, EmptySeq
    <3>4. (c \o t)[Len(c) + Len(t)] = is[Len(is)]
      <4>1. CASE Len(is) = 1
        <5>1. Len(c) + Len(t) = Len(c) /\ Len(c) \in 1 .. Len(c) + Len(t)
          BY <3>2, <3>3, <4>1
        <5>2. c[Len(c)] = Plain /\ is[1] = Plain
          BY <1>4, <2>2 DEF Last
        <5> QED BY <3>3, <4>1, <5>1, <5>2
      <4>2. CASE Len(is) # 1
        <5>1. Len(t) \in 1 .. Len(is) - 1 /\ Len(t) + 1 = Len(is)
          BY <1>4, <3>2, <4>2
        <5>2. (c \o t)[Len(c) + Len(t)] = t[Len(t)]
          <6>1. Len(c) + Len(t) \in 1 .. Len(c) + Len(t) /\ ~ Len(c) + Len(t) <= Len(c)
                /\ Len(c) + Len(t) - Len(c) = Len(t)
            BY <3>3, <5>1
          <6> QED BY <3>3, <6>1
        <5> QED BY <3>2, <5>1, <5>2
      <4> QED BY <4>1, <4>2
    <3>5. Len(c) + Len(t) # 0
      BY <1>4, <3>2, <3>3
    <3> QED BY <2>2, <3>3, <3>4, <3>5 DEF Last, t
  <2> QED BY <2>1, <2>2
<1> QED BY <1>3, <1>5 DEF To, Ended

\* A step that branches from the insert point to the blocks t, or to none, and replaces the
\* innermost visit: what is left to show of it.
LEMMA EdgeStep ==
  ASSUME PInv, PInv', EInv, stack # << >>, NEW frames \in Seq(Frame), Return(frames),
         NEW t \in Seq(1 .. created'), Once(t), t # << >> => ~ Terminated(BB_),
         ToSet(t) \subseteq ToSet(listed') \ {Entry},
         created' >= created, succ' = SuccAfter(BB_, t), pre' = PreAfter(BB_, t),
         \A b \in Block : To(code'[b]) = IF b = BB_ /\ t # << >> THEN t ELSE To(code[b]),
         \A b \in Block : code[b] # << >> => code'[b] # << >>,
         \A b \in 1 .. created : b # BB_ => code'[b] = code[b],
         \A b \in ToSet(t) : b > created \/ code[b] # << >> \/ b \in Pending(Top),
         \A b \in ToSet(listed) : b \in ToSet(listed') \/ (b \in Pending(Top) /\ pre[b] = << >>),
         \A b \in created + 1 .. created' : b \in ToSet(listed'),
         BB_' \in ToSet(listed'),
         \A i \in DOMAIN frames : Settled(frames[i], ToSet(listed'), pre', code', BB_')
  PROVE  EInv'
<1>1. /\ created \in Nat \ {0} /\ created' \in Nat \ {0} /\ created' <= MaxBlocks /\ MaxBlocks \in Nat
      /\ BB_ \in Block /\ BB_ \in 1 .. created /\ created <= MaxBlocks
  <2>1. created \in 1 .. MaxBlocks /\ created' \in 1 .. MaxBlocks /\ BB_ \in 1 .. created
    BY DEF PInv, Typed, Block
  <2>2. MaxBlocks \in Nat
    BY BoundsNat
  <2> QED BY <2>1, <2>2 DEF Block
<1>2. 1 .. created \subseteq 1 .. created' /\ 1 .. created' \subseteq Block /\ 1 .. created \subseteq Block
  BY <1>1 DEF Block
<1>3. /\ Seq(1 .. created) \subseteq Seq(1 .. created')
  BY <1>2, SeqMonotonic
<1>4. /\ pre \in [Block -> Seq(1 .. created)] /\ succ \in [Block -> Seq(1 .. created)]
      /\ \A b \in Block : /\ succ[b] = Reverse(To(code[b]))
                          /\ Once(pre[b])
                          /\ \A c \in Block : c \in ToSet(pre[b]) <=> b \in ToSet(succ[c])
  BY DEF EInv, Recorded
<1>5. Reverse(t) \in Seq(1 .. created') /\ ToSet(Reverse(t)) = ToSet(t)
      /\ (t = << >> => Reverse(t) = << >>)
  BY ReverseSame
<1>6. t # << >> => succ[BB_] = << >>
  <2> SUFFICES ASSUME t # << >> PROVE succ[BB_] = << >>
    OBVIOUS
  <2>1. To(code[BB_]) = << >>
    BY DEF Terminated, To, Ended, Ends
  <2> DEFINE e == << >>
  <2>2. e \in Seq(Block)
    OBVIOUS
  <2>3. Reverse(e) = e
    <3> HIDE DEF e
    <3> QED BY <2>2, ReverseSame DEF e
  <2> QED BY <1>1, <1>4, <2>1, <2>3
<1>7. /\ \A b \in Block \ {BB_} : succ'[b] = succ[b]
      /\ succ'[BB_] = IF t = << >> THEN succ[BB_] ELSE Reverse(t)
      /\ succ' \in [Block -> Seq(1 .. created')]
  <2>1. succ' = [succ EXCEPT ![BB_] = @ \o Reverse(t)]
    BY DEF SuccAfter
  <2>2. succ[BB_] \o Reverse(t) = IF t = << >> THEN succ[BB_] ELSE Reverse(t)
    <3>1. CASE t = << >>
      <4>1. succ[BB_] \in Seq(1 .. created')
        BY <1>1, <1>3, <1>4
      <4> QED BY <1>5, <3>1, <4>1, ConcatEmptySeq
    <3>2. CASE t # << >>
      BY <1>5, <1>6, <3>2, ConcatEmptySeq
    <3> QED BY <3>1, <3>2
  <2>3. \A b \in Block : succ[b] \in Seq(1 .. created')
    BY <1>3, <1>4
  <2>4. succ[BB_] \o Reverse(t) \in Seq(1 .. created')
    BY <1>1, <1>5, <2>2, <2>3
  <2> QED BY <1>1, <1>4, <2>1, <2>2, <2>3, <2>4
<1>8. \A b \in Block : succ'[b] = Reverse(To(code'[b]))
  BY <1>4, <1>7
<1>9. ASSUME NEW b \in Block
      PROVE  /\ pre'[b] \in Seq(1 .. created') /\ Once(pre'[b])
             /\ ToSet(pre'[b]) = ToSet(pre[b]) \cup (IF b \in ToSet(t) THEN {BB_} ELSE {})
  <2>1. pre'[b] = IF b \in ToSet(t) THEN Append(pre[b], BB_) ELSE pre[b]
    BY DEF PreAfter
  <2>2. pre[b] \in Seq(1 .. created') /\ Once(pre[b])
    BY <1>3, <1>4
  <2>3. CASE b \notin ToSet(t)
    BY <2>1, <2>2, <2>3
  <2>4. CASE b \in ToSet(t)
    <3>1. BB_ \notin ToSet(pre[b])
      <4>1. t # << >>
        BY <2>4, Elements
      <4>2. ToSet(succ[BB_]) = {}
        BY <1>6, <4>1 DEF ToSet
      <4> QED BY <1>1, <1>4, <4>2
    <3> QED BY <1>1, <1>2, <2>1, <2>2, <2>4, <3>1, AppendOnce
  <2> QED BY <2>3, <2>4
<1>10. pre' \in [Block -> Seq(1 .. created')]
  <2>1. pre' = [b \in Block |-> IF b \in ToSet(t) THEN Append(pre[b], BB_) ELSE pre[b]]
    BY DEF PreAfter
  <2> QED BY <1>9, <2>1
<1>11. ASSUME NEW b \in Block, NEW c \in Block
       PROVE  c \in ToSet(pre'[b]) <=> b \in ToSet(succ'[c])
  <2>1. CASE c # BB_
    BY <1>4, <1>7, <1>9, <2>1
  <2>2. CASE c = BB_ /\ t # << >>
    <3>1. ToSet(succ'[BB_]) = ToSet(t)
      BY <1>5, <1>7, <2>2
    <3>2. ToSet(succ[BB_]) = {}
      BY <1>6, <2>2 DEF ToSet
    <3> QED BY <1>4, <1>9, <2>2, <3>1, <3>2
  <2>3. CASE c = BB_ /\ t = << >>
    <3>1. ToSet(t) = {}
      BY <2>3 DEF ToSet
    <3> QED BY <1>4, <1>7, <1>9, <2>3, <3>1
  <2> QED BY <2>1, <2>2, <2>3
<1>12. Recorded'
  BY <1>7, <1>8, <1>9, <1>10, <1>11 DEF Recorded
<1>13. ASSUME NEW b \in Block, b \notin ToSet(t)
       PROVE  pre'[b] = pre[b]
  BY <1>13 DEF PreAfter
<1>14. Unlisted'
  <2> SUFFICES ASSUME NEW b \in 1 .. created', b \notin ToSet(listed')
               PROVE  code'[b] = << >> /\ pre'[b] = << >>
    BY DEF Unlisted
  <2>1. b \notin ToSet(t) /\ b \in Block /\ b \in 1 .. created
    BY <1>1, <1>2
  <2>2. CASE b \in ToSet(listed)
    <3>1. b \in Pending(Top) /\ pre[b] = << >>
      BY <2>2
    <3>2. b # BB_ /\ code[b] = << >>
      BY <3>1, AtTop
    <3> QED BY <1>13, <2>1, <3>1, <3>2
  <2>3. CASE b \notin ToSet(listed)
    <3>1. code[b] = << >> /\ pre[b] = << >> /\ b # BB_
      BY <2>1, <2>3 DEF EInv, Unlisted
    <3> QED BY <1>13, <2>1, <3>1
  <2> QED BY <2>2, <2>3
<1>15. pre'[Entry] = << >>
  <2>1. Entry \in Block
    BY <1>1 DEF Block, Entry
  <2> QED BY <1>13, <2>1 DEF EInv
<1>16. ASSUME NEW i \in DOMAIN stack'
       PROVE  Settled(stack'[i], ToSet(listed'), pre', code', BB_')
  <2> DEFINE n == Len(stack)
  <2>1. /\ stack' \in Seq(Frame) /\ Len(stack') = n - 1 + Len(frames)
        /\ n \in Nat \ {0} /\ Len(frames) \in Nat
        /\ DOMAIN stack = 1 .. n /\ DOMAIN frames = 1 .. Len(frames)
        /\ DOMAIN stack' = 1 .. n - 1 + Len(frames)
        /\ \A k \in 1 .. n - 1 : stack'[k] = stack[k]
        /\ \A k \in 1 .. Len(frames) : stack'[n - 1 + k] = frames[k]
        /\ Top = stack[n]
    BY StackAfter DEF PInv, Top
  <2> HIDE DEF n
  <2>2. CASE i \notin 1 .. n - 1
    <3>1. i - (n - 1) \in DOMAIN frames /\ i = n - 1 + (i - (n - 1))
      BY <2>1, <2>2
    <3>2. stack'[i] = frames[i - (n - 1)]
      BY <2>1, <3>1
    <3> QED BY <3>1, <3>2
  <2>3. CASE i \in 1 .. n - 1
    <3> DEFINE f == stack[i]
    <3>1. i \in DOMAIN stack /\ i # n /\ n \in DOMAIN stack /\ stack'[i] = f
      BY <2>1, <2>3
    <3>2. f \in Frame /\ Settled(f, ToSet(listed), pre, code, BB_)
      BY <3>1, ElementOfSeq, LenProperties DEF EInv, PInv, Typed
    <3>3. /\ Pending(f) \cap Pending(Top) = {}
          /\ \A b \in Pending(f) : b \in 1 .. created /\ b # BB_ /\ code[b] = << >>
          /\ ~ Begins(f)
          /\ n = Len(stack)
      BY <2>1, <3>1 DEF PInv, Apart, Fresh, Ready, n
    <3>4. f.visit # "loop condition"
      BY <3>3 DEF Begins
    <3> HIDE DEF f
    <3>5. \A b \in Named(f) : b \in ToSet(listed') \ {Entry}
      <4>1. ASSUME NEW b \in Named(f) PROVE b \in ToSet(listed') \ {Entry}
        <5>1. b \in ToSet(listed) \ {Entry}
          BY <3>2 DEF Settled
        <5>2. b \notin Pending(Top)
          <6>1. CASE b \in Pending(f)
            BY <3>3, <6>1
          <6>2. CASE b \notin Pending(f)
            <7>1. f.visit = "body" /\ b = f.exprBB
              BY <3>4, <6>2 DEF Named
            <7>2. code[b] # << >>
              BY <3>2, <7>1 DEF Settled
            <7> QED BY <7>2, AtTop
          <6> QED BY <6>1, <6>2
        <5> QED BY <5>1, <5>2
      <4> QED BY <4>1
    <3>6. f.visit = "then" /\ ~ f.else => pre'[f.falseBB] = << >>
      <4> SUFFICES ASSUME f.visit = "then", ~ f.else PROVE pre'[f.falseBB] = << >>
        OBVIOUS
      <4>1. f.falseBB \in Pending(f)
        BY DEF Pending
      <4>2. f.falseBB \in 1 .. created /\ code[f.falseBB] = << >> /\ f.falseBB \notin Pending(Top)
        BY <3>3, <4>1
      <4>3. f.falseBB \notin ToSet(t)
        BY <1>1, <4>2
      <4>4. f.falseBB \in Block
        BY <1>2, <4>2
      <4> QED BY <1>13, <3>2, <4>3, <4>4 DEF Settled
    <3>7. f.visit = "body" => code'[f.exprBB] # << >>
      BY <3>2, Kinds DEF Settled
    <3> QED BY <3>1, <3>4, <3>5, <3>6, <3>7 DEF Settled
  <2> QED BY <2>2, <2>3
<1> QED BY <1>12, <1>14, <1>15, <1>16 DEF EInv

\* Where runs of instructions branch to.
LEMMA RunsTo ==
  /\ To(<<Plain>>) = << >> /\ To(<<Ret>>) = << >> /\ To(<<Plain, Ret>>) = << >>
  /\ \A b \in Block : To(<<Br(b)>>) = <<b>>
  /\ \A t, f \in Block : To(<<Plain, CondBr(t, f)>>) = <<t, f>>
<1>1. To(<<Plain>>) = << >> /\ To(<<Ret>>) = << >> /\ To(<<Plain, Ret>>) = << >>
  BY DEF To, Ended, Ends, Last, Plain, Ret
<1>2. ASSUME NEW b \in Block PROVE To(<<Br(b)>>) = <<b>>
  <2>1. Last(<<Br(b)>>) = Br(b) /\ Ends(Br(b)) /\ Br(b).to = <<b>>
    BY DEF Last, Ends, Br
  <2> QED BY <2>1 DEF To, Ended
<1>3. ASSUME NEW t \in Block, NEW f \in Block PROVE To(<<Plain, CondBr(t, f)>>) = <<t, f>>
  <2>1. /\ Last(<<Plain, CondBr(t, f)>>) = CondBr(t, f)
        /\ Ends(CondBr(t, f)) /\ CondBr(t, f).to = <<t, f>>
    BY DEF Last, Ends, CondBr
  <2> QED BY <2>1 DEF To, Ended
<1> QED BY <1>1, <1>2, <1>3

\* A block without a terminator branches nowhere.
LEMMA OpenTo ==
  ASSUME NEW s \in Seq(Instruction), Open(s)
  PROVE  To(s) = << >>
<1> SUFFICES ASSUME s # << >> PROVE ~ Ends(Last(s))
  BY DEF To, Ended
<1>1. Len(s) \in DOMAIN s
  BY LenProperties, EmptySeq
<1> QED BY <1>1 DEF Open, Last

\* Nothing is recorded without targets.
LEMMA NoEdge ==
  ASSUME PInv, EInv
  PROVE  PreAfter(BB_, << >>) = pre /\ SuccAfter(BB_, << >>) = succ
<1>1. /\ pre \in [Block -> Seq(1 .. created)] /\ succ \in [Block -> Seq(1 .. created)] /\ BB_ \in Block
  BY InsertPoint DEF EInv, Recorded
<1>2. ToSet(<< >>) = {}
  BY DEF ToSet
<1> DEFINE e == << >>
<1>3. Reverse(e) = e
  <2>1. e \in Seq(Block) /\ e = << >>
    OBVIOUS
  <2> HIDE DEF e
  <2> QED BY <2>1, ReverseSame
<1>4. succ[BB_] \o e = succ[BB_]
  BY <1>1, ConcatEmptySeq
<1>5. SuccAfter(BB_, e) = succ
  BY <1>1, <1>3, <1>4 DEF SuccAfter
<1> QED BY <1>1, <1>2, <1>5 DEF PreAfter

\* Blocks that have been created.
LEMMA Numbers ==
  ASSUME PInv
  PROVE  /\ created \in Nat \ {0} /\ MaxBlocks \in Nat \ {0} /\ created <= MaxBlocks
         /\ BB_ \in Block /\ BB_ \in 1 .. created
         /\ \A b \in 1 .. created : b \in Block
<1>1. created \in 1 .. MaxBlocks /\ BB_ \in 1 .. created
  BY DEF PInv, Typed, Block
<1>2. MaxBlocks \in Nat \ {0}
  BY BoundsNat
<1> QED BY <1>1, <1>2 DEF Block

\* A visit that names no block.
Nameless(f) == f.visit \notin {"then", "else", "body", "loop condition"}

\* A statement whose frame names no blocks waits for none.
LEMMA NamelessSettled ==
  ASSUME NEW f, Nameless(f), NEW names, NEW preds, NEW codes, NEW at
  PROVE  Settled(f, names, preds, codes, at) /\ Pending(f) = {}
<1>1. Pending(f) = {} /\ Named(f) = {}
  BY DEF Nameless, Pending, Named
<1> QED BY <1>1 DEF Nameless, Settled

\* The innermost visit names blocks as all of them do.
LEMMA TopSettled ==
  ASSUME PInv, EInv, stack # << >>
  PROVE  Settled(Top, ToSet(listed), pre, code, BB_)
<1>1. stack \in Seq(Frame)
  BY DEF PInv, Typed
<1>2. Len(stack) \in DOMAIN stack /\ Top = stack[Len(stack)]
  BY <1>1, EmptySeq, LenProperties DEF Top, Last
<1> QED BY <1>2 DEF EInv

\* Nothing that waits has a successor, or is the insert point.
LEMMA NoTargets ==
  ASSUME NEW t, t = << >>
  PROVE  ToSet(t) = {} /\ Once(t) /\ \A S : t \in Seq(S)
<1>1. DOMAIN t = {}
  OBVIOUS
<1> QED BY <1>1 DEF ToSet, Once

\* A step that at most adds code, or a return, to the insert point.
LEMMA EdgeQuiet ==
  ASSUME PInv, PInv', EInv, stack # << >>, NEW frames \in Seq(Frame), Return(frames),
         UNCHANGED <<created, listed, pre, succ, BB_>>,
         \/ code' = code
         \/ /\ Open(code[BB_])
            /\ \/ code' = Emitted(BB_, <<Plain>>) \/ code' = Emitted(BB_, <<Ret>>)
               \/ code' = Emitted(BB_, <<Plain, Ret>>),
         Top.visit \notin {"then", "else", "body"},
         \A i \in DOMAIN frames : frames[i] = Top \/ Nameless(frames[i])
  PROVE  EInv'
<1>1. Typed /\ BB_ \in Block /\ code \in [Block -> Seq(Instruction)]
  BY InsertPoint DEF PInv, Typed
<1>2. /\ \A b \in Block : To(code'[b]) = To(code[b])
      /\ \A b \in Block : code[b] # << >> => code'[b] # << >>
      /\ \A b \in Block \ {BB_} : code'[b] = code[b]
  <2>1. CASE code' = code
    BY <2>1
  <2> DEFINE Kept(is) ==
        /\ \A b \in Block : To(Emitted(BB_, is)[b]) = To(code[b])
        /\ \A b \in Block : code[b] # << >> => Emitted(BB_, is)[b] # << >>
        /\ \A b \in Block \ {BB_} : Emitted(BB_, is)[b] = code[b]
  <2>2. ASSUME NEW is \in Seq(Instruction), Open(code[BB_]), Clean(is), is # << >>, To(is) = << >>
        PROVE  Kept(is)
    <3>1. /\ Emitted(BB_, is)[BB_] # << >> /\ To(Emitted(BB_, is)[BB_]) = << >>
          /\ \A c \in Block \ {BB_} : Emitted(BB_, is)[c] = code[c]
      BY <1>1, <2>2, EmittedTo
    <3>2. To(code[BB_]) = << >>
      BY <1>1, <2>2, OpenTo
    <3> QED BY <3>1, <3>2
  <2>3. Open(code[BB_]) => Kept(<<Plain>>) /\ Kept(<<Ret>>) /\ Kept(<<Plain, Ret>>)
    <3>1. <<Plain>> # << >> /\ <<Ret>> # << >> /\ <<Plain, Ret>> # << >>
      OBVIOUS
    <3> HIDE DEF Kept
    <3> QED BY <2>2, <3>1, Runs, RunsTo
  <2> QED BY <2>1, <2>3
<1> DEFINE t == << >>
<1>3. pre' = PreAfter(BB_, t) /\ succ' = SuccAfter(BB_, t)
  BY NoEdge
<1>4. t \in Seq(1 .. created') /\ Once(t) /\ ToSet(t) = {} /\ t = << >>
  BY NoTargets
<1> HIDE DEF t
<1>5. created \in Nat /\ created' = created /\ \A b \in 1 .. created : b \in Block
  BY Numbers
<1>6. BB_' \in ToSet(listed')
  BY DEF EInv, Unlisted
<1>7. ASSUME NEW i \in DOMAIN frames
      PROVE  Settled(frames[i], ToSet(listed'), pre', code', BB_')
  <2>1. CASE Nameless(frames[i])
    BY <2>1, NamelessSettled
  <2>2. CASE frames[i] = Top
    <3>1. Settled(Top, ToSet(listed), pre, code, BB_)
      BY TopSettled
    <3>2. Top.visit = "loop condition" => Top.exprBB \in Block
      BY AtTop, Kinds
    <3> QED BY <1>2, <2>2, <3>1, <3>2 DEF Settled
  <2> QED BY <2>1, <2>2
<1>8. created' >= created /\ \A b \in created + 1 .. created' : b \in ToSet(listed')
  BY <1>5
<1>9. Pending(Top) = {}
  BY AtTop, Kinds
<1>10. \A b \in Block : To(code'[b]) = IF b = BB_ /\ t # << >> THEN t ELSE To(code[b])
  BY <1>2, <1>4
<1>11. \A b \in 1 .. created : b # BB_ => code'[b] = code[b]
  BY <1>2, <1>5
<1> QED BY <1>2, <1>3, <1>4, <1>6, <1>7, <1>8, <1>10, <1>11, EdgeStep

-------------------------------------------------------------------------------
(* Visits that go on in the insert point *)

Quiet(is) == Open(code[BB_]) /\ code' = Emitted(BB_, is)

\* A step that creates no block, branches nowhere, and replaces the innermost visit by
\* none, by f, or by f and then g, neither of which names a block.
Quietly(f, g) ==
  /\ stack # << >> /\ UNCHANGED <<created, listed, pre, succ, BB_>>
  /\ Top.visit \notin {"then", "else", "body"}
  /\ code' = code \/ Quiet(<<Plain>>) \/ Quiet(<<Ret>>) \/ Quiet(<<Plain, Ret>>)
  /\ Return(<< >>) \/ Return(<<f>>) \/ Return(<<f, g>>)
  /\ f \in Frame /\ g \in Frame /\ Nameless(f) /\ Nameless(g)

\* Frames that name no blocks can be pushed and popped without changing what waits for whom.
LEMMA QuietFrames ==
  ASSUME NEW f, NEW g, Quietly(f, g)
  PROVE  \E frames \in Seq(Frame) : Return(frames) /\ \A i \in DOMAIN frames : Nameless(frames[i])
<1>1. << >> \in Seq(Frame) /\ <<f>> \in Seq(Frame) /\ <<f, g>> \in Seq(Frame)
  BY DEF Quietly
<1>2. \A i \in DOMAIN << >> : Nameless((<< >>)[i])
  OBVIOUS
<1>3. \A i \in DOMAIN <<f>> : Nameless((<<f>>)[i])
  BY DEF Quietly
<1>4. \A i \in DOMAIN <<f, g>> : Nameless((<<f, g>>)[i])
  BY DEF Quietly
<1> QED BY <1>1, <1>2, <1>3, <1>4 DEF Quietly

\* Then edges stay as they are recorded.
LEMMA EdgeQuietly ==
  ASSUME PInv, PInv', EInv, NEW f, NEW g, Quietly(f, g)
  PROVE  EInv'
<1>1. PICK frames \in Seq(Frame) : Return(frames) /\ \A i \in DOMAIN frames : Nameless(frames[i])
  BY QuietFrames
<1> QED BY <1>1, EdgeQuiet DEF Quietly, Quiet

\* The frames that name no block.
LEMMA NamelessFrames ==
  /\ \A first \in BOOLEAN : Function(first) \in Frame /\ Nameless(Function(first))
  /\ \A first, own \in BOOLEAN : Compound(first, own) \in Frame /\ Nameless(Compound(first, own))
  /\ \A f \in {Statement, Expression, Returned} : f \in Frame /\ Nameless(f)
  /\ \A else \in BOOLEAN : Condition(else) \in Frame /\ Nameless(Condition(else))
<1>1. /\ \A first \in BOOLEAN : Nameless(Function(first))
      /\ \A first, own \in BOOLEAN : Nameless(Compound(first, own))
      /\ \A f \in {Statement, Expression, Returned} : Nameless(f)
      /\ \A else \in BOOLEAN : Nameless(Condition(else))
  BY DEF Nameless, Function, Compound, Statement, Expression, Returned, Condition
<1> QED BY <1>1, Shapes DEF Shape

\* The visits that create no block and branch nowhere.
LEMMA QuietVisits ==
  ASSUME PInv,
         \/ VisitFunctionBody \/ NextStatement \/ VisitCompound \/ VisitExpressionStmt
         \/ EndExpression \/ VisitReturn \/ VisitVoidReturn \/ EndCompound \/ EndFunction
         \/ \E yes \in BOOLEAN : VisitSelection(yes) \/ EndReturn(yes)
  PROVE  \E f, g : Quietly(f, g)
<1> DEFINE Kept == /\ stack # << >> /\ UNCHANGED <<created, listed, pre, succ, BB_>>
                   /\ Top.visit \notin {"then", "else", "body"}
           c == Compound(TRUE, ~ pre_enter_scope)
           s == Statement
<1>1. s \in Frame /\ Nameless(s) /\ c \in Frame /\ Nameless(c)
  <2>1. (~ pre_enter_scope) \in BOOLEAN
    OBVIOUS
  <2> QED BY <2>1, NamelessFrames
<1>2. CASE VisitFunctionBody
  <2> DEFINE f == Function(FALSE)
  <2>1. Kept /\ code' = code /\ Return(<<f, c>>)
    BY <1>2 DEF VisitFunctionBody, EnterCompound, In, Top, blocks
  <2>2. f \in Frame /\ Nameless(f)
    BY NamelessFrames
  <2> HIDE DEF f, c
  <2>3. Quietly(f, c)
    BY <1>1, <2>1, <2>2 DEF Quietly
  <2> QED BY <2>3
<1>3. CASE NextStatement
  <2> DEFINE f == Compound(FALSE, Top.own)
  <2>1. Kept /\ code' = code /\ Return(<<f, s>>)
    BY <1>3 DEF NextStatement, In, Top, blocks
  <2>2. f \in Frame /\ Nameless(f)
    <3>1. Top.own \in BOOLEAN
      BY <1>3, <2>1, AtTop, Kinds DEF NextStatement, In, Top
    <3> QED BY <3>1, NamelessFrames
  <2> HIDE DEF f, s
  <2>3. Quietly(f, s)
    BY <1>1, <2>1, <2>2 DEF Quietly
  <2> QED BY <2>3
<1>4. CASE VisitCompound
  <2>1. Kept /\ code' = code /\ Return(<<c>>)
    BY <1>4 DEF VisitCompound, EnterCompound, In, Top, blocks
  <2> HIDE DEF c
  <2>2. Quietly(c, c)
    BY <1>1, <2>1 DEF Quietly
  <2> QED BY <2>2
<1>5. CASE VisitExpressionStmt \/ VisitReturn
  <2>1. Kept /\ code' = code /\ (Return(<<Expression>>) \/ Return(<<Returned>>))
    BY <1>5 DEF VisitExpressionStmt, VisitReturn, In, Top, blocks
  <2>2. /\ Expression \in Frame /\ Nameless(Expression) /\ Returned \in Frame /\ Nameless(Returned)
    BY NamelessFrames
  <2>3. Quietly(Expression, Expression) \/ Quietly(Returned, Returned)
    BY <2>1, <2>2 DEF Quietly
  <2> QED BY <2>3
<1>6. CASE EndExpression \/ EndCompound
  <2>1. Kept /\ code' = code /\ Return(<< >>)
    BY <1>6 DEF EndExpression, EndCompound, In, Top, blocks
  <2> HIDE DEF s
  <2>2. Quietly(s, s)
    BY <1>1, <2>1 DEF Quietly
  <2> QED BY <2>2
<1>7. CASE VisitVoidReturn
  <2>1. Kept /\ code' = Emitted(BB_, <<Ret>>) /\ Return(<< >>) /\ In({"statement"})
    BY <1>7 DEF VisitVoidReturn, In, Top
  <2>2. Open(code[BB_])
    BY <2>1, AtCode
  <2> HIDE DEF s
  <2>3. Quietly(s, s)
    BY <1>1, <2>1, <2>2 DEF Quietly, Quiet
  <2> QED BY <2>3
<1>8. CASE EndFunction
  <2>1. /\ Kept /\ Return(<< >>)
        /\ code' = IF Terminated(BB_) THEN code ELSE Emitted(BB_, <<Ret>>)
    BY <1>8 DEF EndFunction, In, Top
  <2>2. code' = code \/ Quiet(<<Ret>>)
    BY <2>1, InsertPoint, Opened DEF Quiet
  <2> HIDE DEF s
  <2>3. Quietly(s, s)
    BY <1>1, <2>1, <2>2 DEF Quietly
  <2> QED BY <2>3
<1>9. ASSUME NEW yes \in BOOLEAN, VisitSelection(yes) PROVE \E f, g : Quietly(f, g)
  <2> DEFINE f == Condition(yes)
  <2>1. Kept /\ code' = code /\ Return(<<f>>)
    BY <1>9 DEF VisitSelection, In, Top, blocks
  <2>2. f \in Frame /\ Nameless(f)
    BY NamelessFrames
  <2> HIDE DEF f
  <2>3. Quietly(f, f)
    BY <2>1, <2>2 DEF Quietly
  <2> QED BY <2>3
<1>10. ASSUME NEW yes \in BOOLEAN, EndReturn(yes) PROVE \E f, g : Quietly(f, g)
  <2>1. /\ Kept /\ Return(<< >>) /\ In({"return"})
        /\ code' = Emitted(BB_, <<Plain, Ret>>) \/ code' = Emitted(BB_, <<Ret>>)
    BY <1>10 DEF EndReturn, In, Top
  <2>2. Open(code[BB_])
    BY <2>1, AtCode
  <2> HIDE DEF s
  <2>3. Quietly(s, s)
    BY <1>1, <2>1, <2>2 DEF Quietly, Quiet
  <2> QED BY <2>3
<1> QED BY <1>2, <1>3, <1>4, <1>5, <1>6, <1>7, <1>8, <1>9, <1>10

\* What an expression computes, or the allocas of a compound: the visit is the same.
LEMMA QuietCompute == ASSUME PInv, PInv', EInv, Compute PROVE EInv'
<1> DEFINE frames == <<Top>>
<1>1. /\ stack # << >> /\ stack' = stack /\ code' = Emitted(BB_, <<Plain>>)
      /\ UNCHANGED <<created, listed, pre, succ, BB_>>
      /\ Begins(Top) /\ Top.visit \notin {"then", "else", "body"}
  BY DEF Compute, In, Top, Begins
<1>2. Top \in Frame /\ Open(code[BB_]) /\ Return(frames)
  BY <1>1, AtTop, Stays
<1>3. frames \in Seq(Frame) /\ \A i \in DOMAIN frames : frames[i] = Top
  BY <1>2
<1> HIDE DEF frames
<1> QED BY <1>1, <1>2, <1>3, EdgeQuiet

-------------------------------------------------------------------------------
(* Visits that go on in another block *)

\* create_br(b) after the look at the terminator, as a branch to no block or to b.
LEMMA BranchTo ==
  ASSUME PInv, EInv, NEW b \in Block, BranchUnlessTerminated(b),
         NEW t, t = IF Terminated(BB_) THEN << >> ELSE <<b>>
  PROVE  /\ succ' = SuccAfter(BB_, t) /\ pre' = PreAfter(BB_, t)
         /\ \A c \in Block : To(code'[c]) = IF c = BB_ /\ t # << >> THEN t ELSE To(code[c])
         /\ \A c \in Block : code[c] # << >> => code'[c] # << >>
         /\ \A c \in Block \ {BB_} : code'[c] = code[c]
         /\ code'[BB_] # << >>
<1>1. CASE Terminated(BB_)
  <2>1. code[BB_] # << >>
    BY <1>1 DEF Terminated
  <2> QED BY <1>1, <2>1, NoEdge DEF BranchUnlessTerminated
<1>2. CASE ~ Terminated(BB_)
  <2>1. t = <<b>> /\ Br(b).to = t
    BY <1>2 DEF Br
  <2>2. /\ code' = Emitted(BB_, Append(<< >>, Br(b)))
        /\ succ' = SuccAfter(BB_, t) /\ pre' = PreAfter(BB_, t)
    BY <1>2, <2>1 DEF BranchUnlessTerminated, Branch
  <2>3. Append(<< >>, Br(b)) = <<Br(b)>> /\ <<Br(b)>> # << >>
    OBVIOUS
  <2>4. Open(code[BB_]) /\ Typed /\ BB_ \in Block
    BY <1>2, InsertPoint, Opened DEF PInv
  <2>5. /\ code'[BB_] # << >> /\ To(code'[BB_]) = t
        /\ \A c \in Block \ {BB_} : code'[c] = code[c]
    BY <2>1, <2>2, <2>3, <2>4, Runs, RunsTo, EmittedTo
  <2> QED BY <2>1, <2>2, <2>5
<1> QED BY <1>1, <1>2

\* The list of the only block a branch goes to, if there is a branch.
LEMMA OneTarget ==
  ASSUME NEW S, NEW b \in S, NEW t, t = << >> \/ t = <<b>>
  PROVE  t \in Seq(S) /\ Once(t) /\ ToSet(t) \subseteq {b}
<1>1. CASE t = << >>
  <2>1. t \in Seq(S) /\ DOMAIN t = {}
    BY <1>1
  <2> QED BY <2>1 DEF Once, ToSet
<1>2. CASE t = <<b>>
  <2>1. t \in Seq(S) /\ DOMAIN t = {1} /\ t[1] = b
    BY <1>2
  <2> QED BY <2>1 DEF Once, ToSet
<1> QED BY <1>1, <1>2

\* A branch to b, if there is none yet, after which the builder goes on elsewhere.
LEMMA EdgeBranch ==
  ASSUME PInv, PInv', EInv, stack # << >>, NEW frames \in Seq(Frame), Return(frames),
         NEW b \in 1 .. created', b \in ToSet(listed') \ {Entry}, BranchUnlessTerminated(b),
         b > created \/ code[b] # << >> \/ b \in Pending(Top),
         created' >= created,
         \A c \in ToSet(listed) : c \in ToSet(listed') \/ (c \in Pending(Top) /\ pre[c] = << >>),
         \A c \in created + 1 .. created' : c \in ToSet(listed'),
         BB_' \in ToSet(listed'),
         \A i \in DOMAIN frames : Settled(frames[i], ToSet(listed'), pre', code', BB_')
  PROVE  EInv'
<1> DEFINE t == IF Terminated(BB_) THEN << >> ELSE <<b>>
<1>1. b \in Block
  BY BoundsNat DEF PInv, Typed, Block
<1>2. /\ succ' = SuccAfter(BB_, t) /\ pre' = PreAfter(BB_, t)
      /\ \A c \in Block : To(code'[c]) = IF c = BB_ /\ t # << >> THEN t ELSE To(code[c])
      /\ \A c \in Block : code[c] # << >> => code'[c] # << >>
      /\ \A c \in Block \ {BB_} : code'[c] = code[c]
  BY <1>1, BranchTo
<1>3. t = << >> \/ t = <<b>>
  OBVIOUS
<1>4. t # << >> => ~ Terminated(BB_)
  OBVIOUS
<1> HIDE DEF t
<1>5. t \in Seq(1 .. created') /\ Once(t) /\ ToSet(t) \subseteq {b}
  BY <1>3, OneTarget
<1>6. \A c \in 1 .. created : c # BB_ => code'[c] = code[c]
  BY <1>2, Numbers
<1>7. ToSet(t) \subseteq ToSet(listed') \ {Entry}
  BY <1>5
<1>8. \A c \in ToSet(t) : c > created \/ code[c] # << >> \/ c \in Pending(Top)
  BY <1>5
<1> QED BY <1>2, <1>4, <1>5, <1>6, <1>7, <1>8, EdgeStep

\* What a visit with blocks in wait has named.
LEMMA TopNames ==
  ASSUME PInv, EInv, stack # << >>, NEW b \in Named(Top)
  PROVE  b \in ToSet(listed) /\ b # Entry /\ b \in 1 .. created /\ b \in Block
<1>1. b \in ToSet(listed) /\ b # Entry
  BY TopSettled DEF Settled
<1>2. ToSet(listed) \subseteq 1 .. created
  BY Elements DEF PInv, Typed
<1> QED BY <1>1, <1>2, Numbers

\* The end of the branch of an if, and the end of a loop's body.
LEMMA EdgeEndElse == ASSUME PInv, PInv', EInv, EndElse PROVE EInv'
<1> DEFINE frames == << >>
           b == Top.contBB
<1>1. /\ stack # << >> /\ Top.visit = "else" /\ BranchUnlessTerminated(b)
      /\ BB_' = b /\ Return(frames) /\ UNCHANGED <<created, listed>>
  BY DEF EndElse, In, Top
<1>2. b \in Pending(Top) /\ b \in Named(Top)
  BY <1>1 DEF Pending, Named
<1>3. b \in ToSet(listed) /\ b # Entry /\ b \in 1 .. created
  BY <1>1, <1>2, TopNames
<1>4. frames \in Seq(Frame) /\ DOMAIN frames = {}
  OBVIOUS
<1>5. created' >= created /\ \A c \in created + 1 .. created' : c \in ToSet(listed')
  BY <1>1, Numbers
<1> HIDE DEF frames, b
<1> QED BY <1>1, <1>2, <1>3, <1>4, <1>5, EdgeBranch

\* The end of the body of a while: the branch back to the condition is recorded.
LEMMA EdgeEndBody == ASSUME PInv, PInv', EInv, EndBody PROVE EInv'
<1> DEFINE frames == << >>
           b == Top.exprBB
           c == Top.contBB
<1>1. /\ stack # << >> /\ Top.visit = "body" /\ BranchUnlessTerminated(b)
      /\ BB_' = c /\ Return(frames) /\ UNCHANGED <<created, listed>>
  BY DEF EndBody, In, Top
<1>2. c \in Named(Top) /\ b \in Named(Top)
  BY <1>1 DEF Pending, Named
<1>3. b \in ToSet(listed) /\ b # Entry /\ b \in 1 .. created /\ c \in ToSet(listed)
  BY <1>1, <1>2, TopNames
<1>4. code[b] # << >>
  BY <1>1, TopSettled DEF Settled
<1>5. frames \in Seq(Frame) /\ DOMAIN frames = {}
  OBVIOUS
<1>6. created' >= created /\ \A x \in created + 1 .. created' : x \in ToSet(listed')
  BY <1>1, Numbers
<1> HIDE DEF frames, b, c
<1> QED BY <1>1, <1>3, <1>4, <1>5, <1>6, EdgeBranch

\* Between the branches of an if: the branch of the first one to the join is recorded.
LEMMA EdgeBeginElse == ASSUME PInv, PInv', EInv, EndThenBeginElse PROVE EInv'
<1> DEFINE b == Top.contBB
           c == Top.falseBB
           f == Else(b)
           frames == <<f, Statement>>
<1>1. /\ stack # << >> /\ Top.visit = "then" /\ BranchUnlessTerminated(b)
      /\ BB_' = c /\ Return(frames) /\ UNCHANGED <<created, listed>>
  BY DEF EndThenBeginElse, In, Top
<1>2. b \in Pending(Top) /\ b \in Named(Top) /\ c \in Named(Top)
  BY <1>1 DEF Pending, Named
<1>3. b \in ToSet(listed) /\ b # Entry /\ b \in 1 .. created /\ b \in Block /\ c \in ToSet(listed)
  BY <1>1, <1>2, TopNames
<1>4. created' >= created /\ \A x \in created + 1 .. created' : x \in ToSet(listed')
  BY <1>1, Numbers
<1> HIDE DEF b, c
<1>5. f \in Frame /\ f.visit = "else" /\ Named(f) = {b}
  <2>1. f.visit = "else" /\ f \in Frame /\ Pending(f) = {b}
    BY <1>3, Shapes DEF Shape, Else
  <2> QED BY <2>1 DEF Named
<1>6. Statement \in Frame /\ Nameless(Statement)
  BY NamelessFrames
<1> HIDE DEF f
<1>7. /\ frames \in Seq(Frame) /\ DOMAIN frames = {1, 2} /\ frames[1] = f /\ frames[2] = Statement
  BY <1>5, <1>6
<1> HIDE DEF frames
<1>8. Settled(f, ToSet(listed'), pre', code', BB_')
  BY <1>1, <1>3, <1>5 DEF Settled
<1>9. Settled(Statement, ToSet(listed'), pre', code', BB_')
  BY <1>6, NamelessSettled
<1> QED BY <1>1, <1>2, <1>3, <1>4, <1>7, <1>8, <1>9, EdgeBranch

\* The blocks on the list after some have been created.
LEMMA NewListed ==
  ASSUME PInv, NEW k \in Nat, CreateBlocks(k)
  PROVE  /\ created' = created + k /\ created' \in Nat /\ created' <= MaxBlocks
         /\ ToSet(listed) \subseteq ToSet(listed') /\ ToSet(listed) \subseteq 1 .. created
         /\ \A b \in created + 1 .. created + k :
              /\ b \in ToSet(listed') /\ b # Entry /\ b > created
              /\ b \in 1 .. created' /\ b \in Block
<1>1. created \in Nat \ {0} /\ created' = created + k /\ created' <= MaxBlocks /\ MaxBlocks \in Nat
  BY Numbers DEF CreateBlocks
<1> DEFINE q == After(created, k)
           n == Len(listed)
           T == 1 .. created + k
<1>2. listed \in Seq(1 .. created) /\ listed' = listed \o q
  BY DEF CreateBlocks, PInv, Typed, After
<1>3. ToSet(listed) \subseteq 1 .. created
  BY <1>2, Elements
<1>4. listed \in Seq(T)
  <2>1. 1 .. created \subseteq T
    BY <1>1
  <2> HIDE DEF T
  <2> QED BY <1>2, <2>1, SeqMonotonic
<1>5. q \in Seq(T) /\ Len(q) = k /\ \A i \in 1 .. k : q[i] = created + i
  <2>1. q \in [1 .. k -> T] /\ \A i \in 1 .. k : q[i] = created + i
    BY <1>1 DEF After
  <2> HIDE DEF T
  <2>2. q \in Seq(T) /\ DOMAIN q = 1 .. k
    BY <2>1, SeqDef
  <2> QED BY <2>1, <2>2, LenProperties
<1> HIDE DEF q, T
<1>6. n \in Nat /\ DOMAIN listed = 1 .. n
  BY <1>2, LenProperties
<1>7. /\ listed' \in Seq(T) /\ Len(listed') = n + k
      /\ \A i \in 1 .. n + k : listed'[i] = IF i <= n THEN listed[i] ELSE q[i - n]
  BY <1>2, <1>4, <1>5, ConcatProperties
<1>8. DOMAIN listed' = 1 .. n + k
  BY <1>7, LenProperties
<1> HIDE DEF n
<1>9. ToSet(listed) \subseteq ToSet(listed')
  <2>1. ASSUME NEW i \in 1 .. n PROVE i \in 1 .. n + k /\ listed'[i] = listed[i]
    BY <1>6, <1>7
  <2> QED BY <1>6, <1>8, <2>1 DEF ToSet
<1>10. ASSUME NEW b \in created + 1 .. created + k
       PROVE  /\ b \in ToSet(listed') /\ b # Entry /\ b > created
              /\ b \in 1 .. created' /\ b \in Block
  <2>1. b \in Int /\ b - created \in 1 .. k /\ created + (b - created) = b
    BY <1>1
  <2> DEFINE m == n + (b - created)
  <2>2. m \in 1 .. n + k /\ ~ m <= n /\ m - n = b - created
    BY <1>6, <2>1
  <2> HIDE DEF m
  <2>3. listed'[m] = q[b - created]
    <3>1. listed'[m] = q[m - n]
      BY <1>7, <2>2
    <3> QED BY <2>2, <3>1
  <2>4. q[b - created] = b
    BY <1>5, <2>1
  <2>5. b \in ToSet(listed')
    BY <1>8, <2>2, <2>3, <2>4 DEF ToSet
  <2> QED BY <1>1, <2>5 DEF Entry, Block
<1> QED BY <1>1, <1>3, <1>9, <1>10

\* A loop begins with a branch to the block of its condition, which is entered.
LEMMA EdgeIteration == ASSUME PInv, PInv', EInv, VisitIteration PROVE EInv'
<1> DEFINE e == created + 1
           f == LoopCondition(e)
           frames == <<f>>
<1>1. /\ stack # << >> /\ Return(frames) /\ CreateBlocks(1) /\ BranchUnlessTerminated(e) /\ BB_' = e
  BY DEF VisitIteration, In
<1>2. 1 \in Nat /\ created \in Nat /\ e \in created + 1 .. created + 1
      /\ \A x \in created + 1 .. created + 1 : x = e
  BY Numbers
<1>3. /\ created' = created + 1 /\ ToSet(listed) \subseteq ToSet(listed')
      /\ e \in ToSet(listed') /\ e # Entry /\ e > created /\ e \in 1 .. created' /\ e \in Block
  BY <1>1, <1>2, NewListed
<1>4. created' >= created /\ \A x \in created + 1 .. created' : x \in ToSet(listed')
  BY <1>2, <1>3
<1> HIDE DEF e
<1>5. f \in Frame /\ f.visit = "loop condition" /\ Named(f) = {e} /\ f.exprBB = e
  <2>1. f.visit = "loop condition" /\ f.exprBB = e
    BY DEF LoopCondition
  <2>2. f \in Frame /\ Pending(f) = {}
    BY <1>3, Shapes DEF Shape
  <2> HIDE DEF f
  <2> QED BY <2>1, <2>2 DEF Named
<1> HIDE DEF f
<1>6. Settled(f, ToSet(listed'), pre', code', BB_')
  BY <1>1, <1>3, <1>5 DEF Settled
<1>7. frames \in Seq(Frame) /\ DOMAIN frames = {1} /\ frames[1] = f
  <2>1. f \in Frame
    BY <1>5
  <2> QED BY <2>1
<1> HIDE DEF frames
<1> QED BY <1>1, <1>3, <1>4, <1>6, <1>7, EdgeBranch

\* A list of two.
LEMMA TwoTargets ==
  ASSUME NEW S, NEW a \in S, NEW b \in S, a # b, NEW t, t = <<a, b>>
  PROVE  t \in Seq(S) /\ Once(t) /\ ToSet(t) = {a, b} /\ t # << >>
<1>1. t \in Seq(S) /\ DOMAIN t = {1, 2} /\ t[1] = a /\ t[2] = b
  OBVIOUS
<1> QED BY <1>1 DEF Once, ToSet

\* A test at the end of an insert point that is open, with a branch to two new blocks.
LEMMA EdgeTest ==
  ASSUME PInv, PInv', EInv, stack # << >>, Begins(Top), Top \in Frame,
         NEW frames \in Seq(Frame), Return(frames), NEW k \in Nat, CreateBlocks(k),
         NEW x \in created + 1 .. created + k, NEW y \in created + 1 .. created + k, x # y,
         \/ code' = Emitted(BB_, <<Plain, CondBr(x, y)>>)
         \/ code' = [Emitted(BB_, <<Plain, CondBr(x, y)>>) EXCEPT
                       ![x] = <<Plain, Ret>>, ![y] = <<Plain>>],
         succ' = SuccAfter(BB_, <<x, y>>), pre' = PreAfter(BB_, <<x, y>>),
         BB_' \in ToSet(listed'),
         \A i \in DOMAIN frames : Settled(frames[i], ToSet(listed'), pre', code', BB_')
  PROVE  EInv'
<1> DEFINE t == <<x, y>>
           next == Emitted(BB_, <<Plain, CondBr(x, y)>>)
<1>1. /\ created' = created + k /\ created' \in Nat /\ ToSet(listed) \subseteq ToSet(listed')
      /\ \A b \in created + 1 .. created + k :
           /\ b \in ToSet(listed') /\ b # Entry /\ b > created /\ b \in 1 .. created' /\ b \in Block
  BY NewListed
<1>2. Open(code[BB_]) /\ Typed /\ BB_ \in Block /\ code \in [Block -> Seq(Instruction)]
  BY AtTop, InsertPoint DEF PInv, Typed
<1>3. ~ Terminated(BB_)
  <2> SUFFICES ASSUME code[BB_] # << >> PROVE ~ Ends(Last(code[BB_]))
    BY DEF Terminated, Ends
  <2>1. code[BB_] \in Seq(Instruction)
    BY <1>2
  <2>2. Len(code[BB_]) \in DOMAIN code[BB_]
    BY <2>1, LenProperties, EmptySeq
  <2> QED BY <1>2, <2>2 DEF Open, Last
<1>4. /\ next \in [Block -> Seq(Instruction)]
      /\ next[BB_] # << >> /\ To(next[BB_]) = t
      /\ \A b \in Block \ {BB_} : next[b] = code[b]
  <2> DEFINE is == <<Plain, CondBr(x, y)>>
  <2>1. is \in Seq(Instruction) /\ Clean(is) /\ To(is) = t
    BY <1>1, Runs, RunsTo
  <2>2. is # << >>
    OBVIOUS
  <2> HIDE DEF is, t
  <2>3. /\ Emitted(BB_, is)[BB_] # << >> /\ To(Emitted(BB_, is)[BB_]) = t
        /\ \A c \in Block \ {BB_} : Emitted(BB_, is)[c] = code[c]
    BY <1>2, <2>1, <2>2, EmittedTo
  <2>4. Emitted(BB_, is) \in [Block -> Seq(Instruction)]
    BY <1>2, <2>1, EmittedClean
  <2> QED BY <2>3, <2>4 DEF is
<1>5. t \in Seq(1 .. created') /\ Once(t) /\ ToSet(t) = {x, y} /\ t # << >>
  BY <1>1, TwoTargets
<1>6. /\ x \notin 1 .. created /\ y \notin 1 .. created /\ BB_ # x /\ BB_ # y
      /\ \A b \in 1 .. created : b \in Block
      /\ code[x] = << >> /\ code[y] = << >> /\ x \in Block /\ y \in Block
  <2>1. BB_ \in 1 .. created /\ created \in Nat /\ \A b \in 1 .. created : b \in Block
    BY Numbers
  <2>2. code[x] = << >> /\ code[y] = << >>
    BY <1>1 DEF PInv, Fresh
  <2>3. x \in Nat /\ y \in Nat /\ x > created /\ y > created
    BY <1>1, <2>1
  <2> QED BY <1>1, <2>1, <2>2, <2>3
<1> HIDE DEF t, next
<1>7. /\ \A b \in Block : To(code'[b]) = IF b = BB_ /\ t # << >> THEN t ELSE To(code[b])
      /\ \A b \in Block : code[b] # << >> => code'[b] # << >>
      /\ \A b \in 1 .. created : b # BB_ => code'[b] = code[b]
  <2>1. CASE code' = next
    BY <1>4, <1>5, <1>6, <2>1
  <2> DEFINE r == <<Plain, Ret>>
             p == <<Plain>>
  <2>2. CASE code' = [next EXCEPT ![x] = r, ![y] = p]
    <3>1. To(r) = << >> /\ To(p) = << >> /\ To(<< >>) = << >>
      BY RunsTo DEF To, Ended
    <3> HIDE DEF r, p
    <3>2. /\ code'[x] = r /\ code'[y] = p
          /\ \A b \in Block : b # x /\ b # y => code'[b] = next[b]
      BY <1>4, <1>6, <2>2
    <3>3. /\ code'[BB_] = next[BB_]
          /\ \A b \in Block : b \notin {x, y, BB_} => code'[b] = code[b]
      BY <1>2, <1>4, <1>6, <3>2
    <3>4. \A b \in Block : code[b] # << >> => b # x /\ b # y
      BY <1>6
    <3> QED BY <1>4, <1>5, <1>6, <3>1, <3>2, <3>3, <3>4
  <2> QED BY <2>1, <2>2 DEF next
<1>8. ToSet(t) \subseteq ToSet(listed') \ {Entry} /\ \A b \in ToSet(t) : b > created
  BY <1>1, <1>5
<1>9. created' >= created /\ created \in Nat
  BY <1>1, Numbers
<1>10. /\ \A b \in ToSet(listed) : b \in ToSet(listed')
       /\ \A b \in created + 1 .. created' : b \in ToSet(listed')
  BY <1>1
<1>11. succ' = SuccAfter(BB_, t) /\ pre' = PreAfter(BB_, t)
  BY DEF t
<1> QED BY <1>3, <1>5, <1>7, <1>8, <1>9, <1>10, <1>11, EdgeStep

\* Ordinary code and a conditional branch.
LEMMA Test ==
  ASSUME PInv, NEW x \in Block, NEW y \in Block, Branch(<<Plain>>, CondBr(x, y))
  PROVE  /\ code' = Emitted(BB_, <<Plain, CondBr(x, y)>>)
         /\ succ' = SuccAfter(BB_, <<x, y>>) /\ pre' = PreAfter(BB_, <<x, y>>)
<1>1. CondBr(x, y) \in Instruction /\ Plain \in Instruction /\ CondBr(x, y).to = <<x, y>>
  BY DEF CondBr, Plain, Instruction
<1>2. Append(<<Plain>>, CondBr(x, y)) = <<Plain, CondBr(x, y)>>
  BY <1>1, Appended
<1> QED BY <1>1, <1>2 DEF Branch

\* A block that is still to be created has no predecessor.
LEMMA NewPre ==
  ASSUME PInv, EInv, NEW b \in Block, b > created
  PROVE  pre[b] = << >>
<1>1. pre[b] \in Seq(1 .. created) /\ \A c \in Block : c \in ToSet(pre[b]) <=> b \in ToSet(succ[c])
  BY DEF EInv, Recorded
<1>2. ASSUME NEW c \in ToSet(pre[b]) PROVE FALSE
  <2>1. c \in Block
    BY <1>1, Elements, Numbers
  <2>2. succ[c] \in Seq(1 .. created)
    BY <2>1 DEF EInv, Recorded
  <2>3. b \in 1 .. created
    BY <1>1, <2>1, <2>2, Elements
  <2> QED BY <2>3, Numbers
<1> QED BY <1>1, <1>2, Elements

\* An if has three new blocks: the test goes to the first, and past the second if there is
\* no else.
LEMMA EdgeBeginThen == ASSUME PInv, PInv', EInv, BeginThen PROVE EInv'
<1> DEFINE x == created + 1
           f == created + 2
           c == created + 3
           else == Top.else
           y == IF else THEN f ELSE c
           then == Then(f, c, else)
           frames == <<then, Statement>>
<1>1. /\ stack # << >> /\ Top.visit = "condition" /\ CreateBlocks(3) /\ 3 \in Nat
      /\ Branch(<<Plain>>, CondBr(x, y)) /\ BB_' = x /\ Return(frames)
  BY DEF BeginThen, In, Top
<1>2. Top \in Frame /\ else \in BOOLEAN /\ Begins(Top)
  BY <1>1, AtTop, Kinds DEF Begins
<1>3. /\ x \in created + 1 .. created + 3 /\ f \in created + 1 .. created + 3
      /\ c \in created + 1 .. created + 3 /\ y \in created + 1 .. created + 3
      /\ x # f /\ x # c /\ x # y /\ f # c /\ (y = f \/ (y = c /\ ~ else))
      /\ ~ else => y # f
  BY Numbers
<1> HIDE DEF x, f, c, else, y
<1>4. \A b \in {x, f, c, y} : b \in ToSet(listed') /\ b # Entry /\ b > created /\ b \in Block
  BY <1>1, <1>3, NewListed
<1>5. /\ code' = Emitted(BB_, <<Plain, CondBr(x, y)>>)
      /\ succ' = SuccAfter(BB_, <<x, y>>) /\ pre' = PreAfter(BB_, <<x, y>>)
  BY <1>1, <1>4, Test
<1>6. /\ then \in Frame /\ then.visit = "then" /\ Named(then) = {f, c}
      /\ then.falseBB = f /\ then.else = else
  <2>1. then.visit = "then" /\ then.falseBB = f /\ then.else = else
    BY DEF Then
  <2>2. then \in Frame /\ Pending(then) = {f, c}
    BY <1>2, <1>4, Shapes DEF Shape
  <2> HIDE DEF then
  <2> QED BY <2>1, <2>2 DEF Named
<1>7. ~ else => pre'[f] = << >>
  <2> SUFFICES ASSUME ~ else PROVE pre'[f] = << >>
    OBVIOUS
  <2>1. ToSet(<<x, y>>) = {x, y}
    BY <1>3, <1>4, TwoTargets
  <2>2. f \notin ToSet(<<x, y>>)
    BY <1>3, <2>1
  <2>3. pre'[f] = pre[f]
    BY <1>4, <1>5, <2>2 DEF PreAfter
  <2> QED BY <1>4, <2>3, NewPre
<1> HIDE DEF then
<1>8. Settled(then, ToSet(listed'), pre', code', BB_')
  BY <1>4, <1>6, <1>7 DEF Settled
<1>9. Statement \in Frame /\ Settled(Statement, ToSet(listed'), pre', code', BB_')
  BY NamelessFrames, NamelessSettled
<1>10. then \in Frame
  BY <1>6
<1>11. frames \in Seq(Frame) /\ DOMAIN frames = {1, 2} /\ frames[1] = then /\ frames[2] = Statement
  BY <1>9, <1>10
<1> HIDE DEF frames
<1>12. \A i \in DOMAIN frames : Settled(frames[i], ToSet(listed'), pre', code', BB_')
  BY <1>8, <1>9, <1>11
<1>13. BB_' \in ToSet(listed')
  BY <1>1, <1>4
<1> QED BY <1>1, <1>2, <1>3, <1>5, <1>11, <1>12, <1>13, EdgeTest

\* A loop has two more blocks when its condition is over, and the test goes to both.
LEMMA EdgeBeginBody == ASSUME PInv, PInv', EInv, BeginBody PROVE EInv'
<1> DEFINE x == created + 1
           c == created + 2
           e == Top.exprBB
           body == Body(e, c)
           frames == <<body, Statement>>
<1>1. /\ stack # << >> /\ Top.visit = "loop condition" /\ CreateBlocks(2) /\ 2 \in Nat
      /\ Branch(<<Plain>>, CondBr(x, c)) /\ BB_' = x /\ Return(frames)
  BY DEF BeginBody, In, Top
<1>2. Top \in Frame /\ Begins(Top)
  BY <1>1, AtTop DEF Begins
<1>3. x \in created + 1 .. created + 2 /\ c \in created + 1 .. created + 2 /\ x # c
  BY Numbers
<1> HIDE DEF x, c
<1>4. /\ \A b \in {x, c} : b \in ToSet(listed') /\ b # Entry /\ b > created /\ b \in Block
      /\ ToSet(listed) \subseteq ToSet(listed')
  BY <1>1, <1>3, NewListed
<1>5. /\ code' = Emitted(BB_, <<Plain, CondBr(x, c)>>)
      /\ succ' = SuccAfter(BB_, <<x, c>>) /\ pre' = PreAfter(BB_, <<x, c>>)
  BY <1>1, <1>4, Test
<1>6. e \in ToSet(listed) /\ e # Entry /\ e \in Block /\ (e = BB_ \/ code[e] # << >>)
  <2>1. e \in Named(Top)
    BY <1>1 DEF Named
  <2> QED BY <1>1, <2>1, TopNames, TopSettled DEF Settled
<1>7. code'[e] # << >>
  <2> DEFINE is == <<Plain, CondBr(x, c)>>
  <2>1. is \in Seq(Instruction) /\ Clean(is)
    BY <1>4, Runs
  <2>2. is # << >>
    OBVIOUS
  <2> HIDE DEF is
  <2>3. Typed /\ BB_ \in Block /\ Open(code[BB_])
    BY <1>1, <1>2, AtTop, InsertPoint DEF PInv
  <2>4. /\ Emitted(BB_, is)[BB_] # << >>
        /\ \A b \in Block \ {BB_} : Emitted(BB_, is)[b] = code[b]
    BY <2>1, <2>2, <2>3, EmittedTo
  <2>5. code' = Emitted(BB_, is)
    BY <1>5 DEF is
  <2> QED BY <1>6, <2>4, <2>5
<1> HIDE DEF e
<1>8. body \in Frame /\ body.visit = "body" /\ Named(body) = {c, e} /\ body.exprBB = e
  <2>1. body.visit = "body" /\ body.exprBB = e
    BY DEF Body
  <2>2. body \in Frame /\ Pending(body) = {c}
    BY <1>4, <1>6, Shapes DEF Shape
  <2> HIDE DEF body
  <2> QED BY <2>1, <2>2 DEF Named
<1> HIDE DEF body
<1>9. Settled(body, ToSet(listed'), pre', code', BB_')
  BY <1>4, <1>6, <1>7, <1>8 DEF Settled
<1>10. Statement \in Frame /\ Settled(Statement, ToSet(listed'), pre', code', BB_')
  BY NamelessFrames, NamelessSettled
<1>11. body \in Frame
  BY <1>8
<1>12. frames \in Seq(Frame) /\ DOMAIN frames = {1, 2} /\ frames[1] = body /\ frames[2] = Statement
  BY <1>10, <1>11
<1> HIDE DEF frames
<1>13. \A i \in DOMAIN frames : Settled(frames[i], ToSet(listed'), pre', code', BB_')
  BY <1>9, <1>10, <1>12
<1>14. BB_' \in ToSet(listed')
  BY <1>1, <1>4
<1> QED BY <1>1, <1>2, <1>3, <1>5, <1>12, <1>13, <1>14, EdgeTest

\* An indexed variable: the insert point is left by a test, and the visit goes on.
LEMMA EdgeIndexAccess == ASSUME PInv, PInv', EInv, IndexAccess PROVE EInv'
<1> DEFINE x == created + 1
           c == created + 2
           frames == <<Top>>
           next == Emitted(BB_, <<Plain, CondBr(x, c)>>)
<1>1. /\ stack # << >> /\ Top.visit \in {"expression", "return", "condition", "loop condition"}
      /\ CreateBlocks(2) /\ 2 \in Nat
      /\ code' = [next EXCEPT ![x] = <<Plain, Ret>>, ![c] = <<Plain>>]
      /\ succ' = SuccAfter(BB_, <<x, c>>) /\ pre' = PreAfter(BB_, <<x, c>>)
      /\ BB_' = c /\ stack' = stack
  BY DEF IndexAccess, In, Top
<1>2. Top \in Frame /\ Begins(Top)
  BY <1>1, AtTop DEF Begins
<1>3. x \in created + 1 .. created + 2 /\ c \in created + 1 .. created + 2 /\ x # c
  BY Numbers
<1> HIDE DEF x, c
<1>4. /\ \A b \in {x, c} : b \in ToSet(listed') /\ b # Entry /\ b > created /\ b \in Block
      /\ ToSet(listed) \subseteq ToSet(listed')
  BY <1>1, <1>3, NewListed
<1>5. Top.visit = "loop condition" => code'[Top.exprBB] # << >>
  <2> SUFFICES ASSUME Top.visit = "loop condition" PROVE code'[Top.exprBB] # << >>
    OBVIOUS
  <2> DEFINE e == Top.exprBB
             is == <<Plain, CondBr(x, c)>>
             r == <<Plain, Ret>>
             p == <<Plain>>
  <2>1. e \in Block /\ (e = BB_ \/ code[e] # << >>)
    <3>1. e \in Named(Top)
      BY DEF Named
    <3> QED BY <1>1, <3>1, TopNames, TopSettled DEF Settled
  <2>2. is \in Seq(Instruction) /\ Clean(is)
    BY <1>4, Runs
  <2>3. is # << >> /\ r # << >> /\ p # << >>
    OBVIOUS
  <2>4. Typed /\ BB_ \in Block /\ Open(code[BB_])
    BY <1>1, <1>2, AtTop, InsertPoint DEF PInv
  <2>5. code' = [next EXCEPT ![x] = r, ![c] = p] /\ next = Emitted(BB_, is)
    BY <1>1
  <2> HIDE DEF e, is, r, p, next
  <2>6. next \in [Block -> Seq(Instruction)]
    BY <2>2, <2>4, <2>5, EmittedClean
  <2>7. next[BB_] # << >> /\ \A b \in Block \ {BB_} : next[b] = code[b]
    BY <2>2, <2>3, <2>4, <2>5, EmittedTo
  <2>8. next[e] # << >>
    BY <2>1, <2>7
  <2>9. code'[e] # << >>
    BY <1>4, <2>1, <2>3, <2>5, <2>6, <2>8
  <2> QED BY <2>9 DEF e
<1>6. Settled(Top, ToSet(listed'), pre', code', BB_')
  BY <1>1, <1>4, <1>5, TopSettled DEF Settled
<1>7. Return(frames)
  BY <1>1, Stays
<1>8. frames \in Seq(Frame) /\ DOMAIN frames = {1} /\ frames[1] = Top
  BY <1>2
<1> HIDE DEF frames
<1>9. \A i \in DOMAIN frames : Settled(frames[i], ToSet(listed'), pre', code', BB_')
  BY <1>6, <1>8
<1>10. BB_' \in ToSet(listed')
  BY <1>1, <1>4
<1> QED BY <1>1, <1>2, <1>3, <1>7, <1>8, <1>9, <1>10, EdgeTest DEF next

\* Without an else, its block is erased: nothing branches to it, so that no list but the
\* function's has it.
LEMMA Erased ==
  ASSUME PInv, EInv, EndThenWithoutElse,
         NEW t, t = IF Terminated(BB_) THEN << >> ELSE <<Top.contBB>>
  PROVE  /\ succ' = SuccAfter(BB_, t) /\ pre' = PreAfter(BB_, t)
         /\ \A b \in Block : To(code'[b]) = IF b = BB_ /\ t # << >> THEN t ELSE To(code[b])
         /\ \A b \in Block : code[b] # << >> => code'[b] # << >>
         /\ \A b \in Block \ {BB_} : code'[b] = code[b]
         /\ t \in Seq(1 .. created) /\ Once(t) /\ ToSet(t) \subseteq {Top.contBB}
<1> DEFINE f == Top.falseBB
           c == Top.contBB
           br == IF Terminated(BB_) THEN << >> ELSE <<Br(c)>>
           others(s) == SelectSeq(s, LAMBDA b : b # f)
<1>1. /\ stack # << >> /\ Top.visit = "then" /\ ~ Top.else /\ code' = Emitted(BB_, br)
      /\ listed' = RemoveFirst(listed, f)
      /\ succ' = [b \in Block |-> IF b \in ToSet(PreAfter(BB_, t)[f])
                                  THEN others(SuccAfter(BB_, t)[b]) ELSE SuccAfter(BB_, t)[b]]
      /\ pre' = [b \in Block |-> IF b \in ToSet(SuccAfter(BB_, t)[f])
                                 THEN others(PreAfter(BB_, t)[b]) ELSE PreAfter(BB_, t)[b]]
      /\ created' = created
  BY DEF EndThenWithoutElse, In, Top
<1>2. f \in Named(Top) /\ c \in Named(Top) /\ f \in Pending(Top) /\ c \in Pending(Top)
  BY <1>1 DEF Named, Pending
<1>3. /\ f \in ToSet(listed) /\ f # Entry /\ f \in 1 .. created /\ f \in Block
      /\ c \in ToSet(listed) /\ c # Entry /\ c \in 1 .. created /\ c \in Block
  BY <1>1, <1>2, TopNames
<1>4. f # c /\ f # BB_ /\ code[f] = << >> /\ pre[f] = << >>
  BY <1>1, <1>2, AtTop, TopSettled DEF Settled
<1>5. Typed /\ BB_ \in Block /\ code \in [Block -> Seq(Instruction)]
  BY InsertPoint DEF PInv, Typed
<1>6. t = << >> \/ t = <<c>>
  OBVIOUS
<1>7. t # << >> => ~ Terminated(BB_)
  OBVIOUS
<1>8. /\ \A b \in Block : To(code'[b]) = IF b = BB_ /\ t # << >> THEN t ELSE To(code[b])
      /\ \A b \in Block : code[b] # << >> => code'[b] # << >>
      /\ \A b \in Block \ {BB_} : code'[b] = code[b]
  <2>1. CASE Terminated(BB_)
    <3> DEFINE e == << >>
    <3>1. code[BB_] \o e = code[BB_]
      BY <1>5, ConcatEmptySeq
    <3>2. Emitted(BB_, e) = [code EXCEPT ![BB_] = code[BB_] \o e]
      BY DEF Emitted
    <3>3. code' = code
      BY <1>1, <1>5, <2>1, <3>1, <3>2
    <3> QED BY <2>1, <3>3
  <2>2. CASE ~ Terminated(BB_)
    <3> DEFINE is == <<Br(c)>>
    <3>1. is \in Seq(Instruction) /\ Clean(is) /\ To(is) = <<c>> /\ code' = Emitted(BB_, is)
      BY <1>1, <1>3, <2>2, Runs, RunsTo
    <3>2. is # << >>
      OBVIOUS
    <3>3. Open(code[BB_])
      BY <1>5, <2>2, Opened
    <3> HIDE DEF is
    <3>4. /\ Emitted(BB_, is)[BB_] # << >> /\ To(Emitted(BB_, is)[BB_]) = <<c>>
          /\ \A b \in Block \ {BB_} : Emitted(BB_, is)[b] = code[b]
      BY <1>5, <3>1, <3>2, <3>3, EmittedTo
    <3> QED BY <2>2, <3>1, <3>4
  <2> QED BY <2>1, <2>2
<1> HIDE DEF br
<1>9. t \in Seq(1 .. created) /\ Once(t) /\ ToSet(t) \subseteq {c}
  BY <1>1, <1>3, <1>6, OneTarget
<1>10. f \notin ToSet(t)
  BY <1>4, <1>9
<1>11. ToSet(PreAfter(BB_, t)[f]) = {}
  <2>1. PreAfter(BB_, t)[f] = << >>
    BY <1>3, <1>4, <1>10 DEF PreAfter
  <2> QED BY <2>1 DEF ToSet
<1>12. ToSet(SuccAfter(BB_, t)[f]) = {}
  <2>1. SuccAfter(BB_, t)[f] = succ[f] /\ succ[f] = Reverse(To(code[f])) /\ succ[f] \in Seq(1 .. created)
    BY <1>3, <1>4 DEF SuccAfter, EInv, Recorded
  <2>2. \A b \in Block : b \in ToSet(succ[f]) => f \in ToSet(pre[b])
    BY <1>3 DEF EInv, Recorded
  <2>3. To(code[f]) = << >>
    BY <1>4 DEF To, Ended
  <2> DEFINE e == << >>
  <2>4. e \in Seq(Block) /\ e = << >>
    OBVIOUS
  <2> HIDE DEF e
  <2>5. Reverse(e) = << >>
    BY <2>4, ReverseSame
  <2>6. SuccAfter(BB_, t)[f] = << >>
    BY <2>1, <2>3, <2>4, <2>5
  <2> QED BY <2>6 DEF ToSet
<1>13. /\ succ' = [b \in Block |-> SuccAfter(BB_, t)[b]] /\ pre' = [b \in Block |-> PreAfter(BB_, t)[b]]
  BY <1>1, <1>11, <1>12
<1>14. succ' = SuccAfter(BB_, t) /\ pre' = PreAfter(BB_, t)
  <2>1. DOMAIN succ = Block
    BY DEF EInv, Recorded
  <2>2. SuccAfter(BB_, t) = [b \in Block |-> SuccAfter(BB_, t)[b]]
    BY <2>1 DEF SuccAfter
  <2>3. PreAfter(BB_, t) = [b \in Block |-> PreAfter(BB_, t)[b]]
    BY DEF PreAfter
  <2> QED BY <1>13, <2>2, <2>3
<1> QED BY <1>8, <1>9, <1>14

\* An if without else: the false block, still empty and with one predecessor, is erased with its edge.
LEMMA EdgeWithoutElse == ASSUME PInv, PInv', EInv, EndThenWithoutElse PROVE EInv'
<1> DEFINE f == Top.falseBB
           c == Top.contBB
           frames == << >>
<1>1. /\ stack # << >> /\ Top.visit = "then" /\ ~ Top.else
      /\ listed' = RemoveFirst(listed, f)
      /\ BB_' = c /\ Return(frames) /\ created' = created
  BY DEF EndThenWithoutElse, In, Top
<1>2. f \in Named(Top) /\ c \in Named(Top) /\ f \in Pending(Top) /\ c \in Pending(Top)
  BY <1>1 DEF Named, Pending
<1>3. /\ f \in ToSet(listed) /\ f # Entry /\ f \in 1 .. created /\ f \in Block
      /\ c \in ToSet(listed) /\ c # Entry /\ c \in 1 .. created /\ c \in Block
  BY <1>1, <1>2, TopNames
<1>4. f # c /\ f # BB_ /\ code[f] = << >> /\ pre[f] = << >>
  BY <1>1, <1>2, AtTop, TopSettled DEF Settled
<1>5. PICK t : t = IF Terminated(BB_) THEN << >> ELSE <<c>>
  OBVIOUS
<1>7. t # << >> => ~ Terminated(BB_)
  BY <1>5
<1>8. /\ \A b \in Block : To(code'[b]) = IF b = BB_ /\ t # << >> THEN t ELSE To(code[b])
      /\ \A b \in Block : code[b] # << >> => code'[b] # << >>
      /\ \A b \in Block \ {BB_} : code'[b] = code[b]
      /\ succ' = SuccAfter(BB_, t) /\ pre' = PreAfter(BB_, t)
      /\ t \in Seq(1 .. created) /\ Once(t) /\ ToSet(t) \subseteq {c}
  BY <1>5, Erased
<1>9. t \in Seq(1 .. created') /\ Once(t) /\ ToSet(t) \subseteq {c}
  BY <1>1, <1>8
<1>15. \A b \in ToSet(listed) : b \in ToSet(listed') \/ b = f
  <2>1. listed \in Seq(1 .. created) /\ Once(listed)
    BY DEF PInv, Typed, Covered
  <2>2. Once(listed) /\ listed' = RemoveFirst(listed, f)
        => \A m \in DOMAIN listed : listed[m] # f => \E j \in DOMAIN listed' : listed'[j] = listed[m]
    <3> HIDE DEF f
    <3> QED BY <2>1, Removed
  <2> QED BY <1>1, <2>1, <2>2 DEF ToSet
<1>16. c \in ToSet(listed')
  BY <1>3, <1>4, <1>15
<1>17. ToSet(t) \subseteq ToSet(listed') \ {Entry} /\ \A b \in ToSet(t) : b \in Pending(Top)
  BY <1>2, <1>3, <1>9, <1>16
<1>18. \A b \in ToSet(listed) : b \in ToSet(listed') \/ (b \in Pending(Top) /\ pre[b] = << >>)
  BY <1>2, <1>4, <1>15
<1>19. created' >= created /\ \A b \in created + 1 .. created' : b \in ToSet(listed')
  BY <1>1, Numbers
<1>20. \A b \in 1 .. created : b # BB_ => code'[b] = code[b]
  BY <1>8, Numbers
<1>21. BB_' \in ToSet(listed')
  BY <1>1, <1>16
<1>22. frames \in Seq(Frame) /\ DOMAIN frames = {} /\ Return(frames)
  BY <1>1
<1> HIDE DEF f, c, frames
<1> QED BY <1>1, <1>7, <1>8, <1>9, <1>17, <1>18, <1>19, <1>20, <1>21, <1>22, EdgeStep

-------------------------------------------------------------------------------
(* Theorems *)

\* A function begins without branches.
LEMMA EdgesInitially == Init => EInv
<1> SUFFICES ASSUME Init PROVE EInv
  OBVIOUS
<1>1. /\ created = 1 /\ listed = <<1>> /\ BB_ = 1 /\ stack = <<Function(TRUE)>>
      /\ pre = [b \in Block |-> << >>] /\ succ = [b \in Block |-> << >>]
  BY DEF Init, Entry
<1>2. Entry \in Block /\ PInv
  BY Initially, BoundsNat DEF Block, Entry
<1>3. \A b \in Block : Open(code[b]) /\ code[b] \in Seq(Instruction)
  <2>1. PICK params \in BOOLEAN :
          code = [b \in Block |-> IF b = Entry /\ params THEN <<Plain>> ELSE << >>]
    BY DEF Init
  <2>2. << >> \in Seq(Instruction) /\ Open(<< >>)
    BY DEF Open
  <2> QED BY <2>1, <2>2, Runs
<1> DEFINE e == << >>
<1>4. /\ e \in Seq(1 .. created) /\ e \in Seq(Block) /\ Once(e) /\ ToSet(e) = {} /\ e = << >>
  BY NoTargets
<1>5. \A b \in Block : pre[b] = e /\ succ[b] = e
  BY <1>1
<1>6. pre \in [Block -> Seq(1 .. created)] /\ succ \in [Block -> Seq(1 .. created)]
  BY <1>1
<1> HIDE DEF e
<1>7. Reverse(e) = e
  BY <1>4, ReverseSame
<1>8. \A b \in Block : To(code[b]) = e
  BY <1>3, <1>4, OpenTo
<1>9. Recorded
  BY <1>4, <1>5, <1>6, <1>7, <1>8 DEF Recorded
<1>10. ToSet(listed) = {1}
  BY <1>1 DEF ToSet
<1>11. Unlisted
  BY <1>1, <1>10 DEF Unlisted
<1> DEFINE f == Function(TRUE)
<1>12. Settled(f, ToSet(listed), pre, code, BB_) /\ stack = <<f>>
  BY <1>1, NamelessFrames, NamelessSettled
<1> HIDE DEF f
<1>13. DOMAIN stack = {1} /\ stack[1] = f
  BY <1>12
<1>14. \A i \in DOMAIN stack : Settled(stack[i], ToSet(listed), pre, code, BB_)
  BY <1>12, <1>13
<1> QED BY <1>2, <1>4, <1>5, <1>9, <1>11, <1>14 DEF EInv

\* Every step of the visitor records the edges it makes.
LEMMA EdgesInductive == PInv /\ EInv /\ [Next]_vars => EInv'
<1> SUFFICES ASSUME PInv, EInv, [Next]_vars PROVE EInv'
  OBVIOUS
<1>1. PInv'
  BY Inductive
<1>2. CASE UNCHANGED vars
  <2>1. UNCHANGED <<created, listed, code, pre, succ, BB_, stack>>
    BY <1>2 DEF vars, blocks
  <2>2. Recorded' /\ Unlisted'
    BY <2>1 DEF EInv, Recorded, Unlisted
  <2> QED BY <2>1, <2>2 DEF EInv
<1>3. CASE \/ VisitFunctionBody \/ NextStatement \/ VisitCompound \/ VisitExpressionStmt
           \/ EndExpression \/ VisitReturn \/ VisitVoidReturn \/ EndCompound \/ EndFunction
           \/ \E yes \in BOOLEAN : VisitSelection(yes) \/ EndReturn(yes)
  BY <1>1, <1>3, QuietVisits, EdgeQuietly
<1>4. CASE Compute
  BY <1>1, <1>4, QuietCompute
<1>5. CASE VisitIteration
  BY <1>1, <1>5, EdgeIteration
<1>6. CASE IndexAccess
  BY <1>1, <1>6, EdgeIndexAccess
<1>7. CASE BeginThen
  BY <1>1, <1>7, EdgeBeginThen
<1>8. CASE BeginBody
  BY <1>1, <1>8, EdgeBeginBody
<1>9. CASE EndThenWithoutElse
  BY <1>1, <1>9, EdgeWithoutElse
<1>10. CASE EndThenBeginElse
  BY <1>1, <1>10, EdgeBeginElse
<1>11. CASE EndElse
  BY <1>1, <1>11, EdgeEndElse
<1>12. CASE EndBody
  BY <1>1, <1>12, EdgeEndBody
<1> QED BY <1>2, <1>3, <1>4, <1>5, <1>6, <1>7, <1>8, <1>9, <1>10, <1>11, <1>12 DEF Next

\* Edges and terminators agree in every state of the builder.
LEMMA EdgesInvariant == Spec => [](PInv /\ EInv)
<1>1. Init => PInv /\ EInv
  BY Initially, EdgesInitially
<1>2. PInv /\ EInv /\ [Next]_vars => (PInv /\ EInv)'
  BY Inductive, EdgesInductive
<1> QED BY <1>1, <1>2, PTL DEF Spec

\* However large a function is, pre_bbs_ and succ_bbs_ of its blocks say the same, each
\* edge once, and what the terminators say; a block that Function::remove has erased is in
\* none of them.
THEOREM EdgesRecorded == Spec => []EdgesAgree
<1>1. PInv /\ EInv => EdgesAgree
  <2> SUFFICES ASSUME PInv, EInv, NEW b \in Block
               PROVE  /\ succ[b] = IF Terminated(b) THEN Reverse(Last(code[b]).to) ELSE << >>
                      /\ IsInjective(pre[b])
                      /\ \A c \in Block : c \in ToSet(pre[b]) <=> b \in ToSet(succ[c])
                      /\ b \in 1 .. created /\ b \notin ToSet(listed) => pre[b] = << >> /\ succ[b] = << >>
    BY DEF EdgesAgree
  <2> DEFINE e == << >>
  <2>1. e \in Seq(Block) /\ e = << >>
    OBVIOUS
  <2> HIDE DEF e
  <2>2. Reverse(e) = e
    BY <2>1, ReverseSame
  <2>3. succ[b] = IF Terminated(b) THEN Reverse(Last(code[b]).to) ELSE e
    BY <2>1, <2>2 DEF EInv, Recorded, To, Ended, Ends, Terminated
  <2>4. IsInjective(pre[b])
    BY DEF EInv, Recorded, Once, IsInjective
  <2>5. b \in 1 .. created /\ b \notin ToSet(listed) => pre[b] = << >> /\ succ[b] = e
    BY <2>1, <2>3 DEF EInv, Unlisted, Terminated
  <2> QED BY <2>1, <2>3, <2>4, <2>5 DEF EInv, Recorded
<1> QED BY <1>1, EdgesInvariant, PTL

-------------------------------------------------------------------------------
(* Scopes *)

\* The visits that have opened a scope, which they close when they are over.
Opens(f) == f.visit = "function" \/ (f.visit = "compound" /\ f.own)
Scopes == {i \in DOMAIN stack : Opens(stack[i])}

\* Statements that hold no others: they may be one deeper than those that do.
Leaf(f) == f.visit \in {"statement", "expression", "return"}

\* The function is the outermost visit and its body, if there is one, opens no scope: the
\* function's serves both.
Nested ==
  /\ \A i \in DOMAIN stack :
       /\ stack[i].visit = "function" <=> i = 1
       /\ i = 2 => stack[i].visit = "compound" /\ ~ stack[i].own
       /\ IF Leaf(stack[i]) THEN i <= 3 \/ i <= MaxDepth ELSE i <= 2 \/ i < MaxDepth
  /\ pre_enter_scope <=> stack # << >> /\ stack[1].first

SInv == depth = 1 + Cardinality(Scopes) /\ Nested

\* A visit at place i of the stack that is not too deep.
Fits(f, i) == IF Leaf(f) THEN i <= 3 \/ i <= MaxDepth ELSE i <= 2 \/ i < MaxDepth

\* There are as many open scopes as visits at most.
LEMMA ScopesFinite ==
  ASSUME PInv
  PROVE  IsFiniteSet(Scopes) /\ Cardinality(Scopes) \in Nat /\ Cardinality(Scopes) <= Len(stack)
<1>1. Len(stack) \in Nat /\ DOMAIN stack = 1 .. Len(stack)
  BY LenProperties DEF PInv, Typed
<1>2. IsFiniteSet(1 .. Len(stack)) /\ Cardinality(1 .. Len(stack)) = Len(stack)
  <2> DEFINE n == Len(stack)
  <2>1. n \in Nat
    BY <1>1
  <2> HIDE DEF n
  <2>2. IsFiniteSet(1 .. n) /\ Cardinality(1 .. n) = IF 1 > n THEN 0 ELSE n - 1 + 1
    BY <2>1, FS_Interval
  <2>3. IsFiniteSet(1 .. n) /\ Cardinality(1 .. n) = n
    BY <2>1, <2>2
  <2> QED BY <2>3 DEF n
<1>3. Scopes \in SUBSET (1 .. Len(stack))
  BY <1>1 DEF Scopes
<1> QED BY <1>2, <1>3, FS_Subset, FS_CardinalityType

\* Inside the function, the innermost visit is replaced by others.
LEMMA NestStep ==
  ASSUME PInv, SInv, stack # << >>, Top.visit # "function",
         NEW frames \in Seq(Frame), Return(frames),
         pre_enter_scope' = FALSE \/ pre_enter_scope' = pre_enter_scope,
         NEW opens \in BOOLEAN, opens <=> (frames # << >> /\ Opens(frames[1])),
         depth' = depth + (IF opens THEN 1 ELSE 0) - (IF Opens(Top) THEN 1 ELSE 0),
         \A i \in DOMAIN frames : /\ frames[i].visit # "function"
                                  /\ Fits(frames[i], Len(stack) - 1 + i)
                                  /\ i # 1 => ~ Opens(frames[i]),
         frames # << >> /\ Top.visit = "compound" =>
           frames[1].visit = "compound" /\ (~ Top.own => ~ frames[1].own)
  PROVE  SInv'
<1> DEFINE n == Len(stack)
<1>1. /\ stack' \in Seq(Frame) /\ Len(stack') = n - 1 + Len(frames)
      /\ n \in Nat \ {0} /\ Len(frames) \in Nat
      /\ DOMAIN stack = 1 .. n /\ DOMAIN frames = 1 .. Len(frames)
      /\ DOMAIN stack' = 1 .. n - 1 + Len(frames)
      /\ \A i \in 1 .. n - 1 : stack'[i] = stack[i]
      /\ \A i \in 1 .. Len(frames) : stack'[n - 1 + i] = frames[i]
      /\ Top = stack[n]
  BY StackAfter DEF PInv, Top
<1>2. n # 1 /\ n \in DOMAIN stack /\ 1 \in DOMAIN stack
  <2>1. n \in DOMAIN stack /\ 1 \in DOMAIN stack
    BY <1>1
  <2> QED BY <1>1, <2>1 DEF SInv, Nested
<1>3. ~ pre_enter_scope /\ ~ stack[1].first /\ stack[1].visit = "function"
  <2>1. stack[1].visit = "function"
    BY <1>2 DEF PInv, Covered
  <2>2. stack[1].first => Begins(stack[1])
    BY <2>1 DEF Begins
  <2>3. ~ stack[1].first
    BY <1>2, <2>2 DEF PInv, Ready
  <2> QED BY <2>1, <2>3 DEF SInv, Nested
<1> HIDE DEF n
<1>4. ASSUME NEW i \in DOMAIN stack'
      PROVE  \/ i \in 1 .. n - 1 /\ stack'[i] = stack[i] /\ i \in DOMAIN stack /\ i # n
             \/ \E j \in DOMAIN frames : i = n - 1 + j /\ stack'[i] = frames[j] /\ i \notin 1 .. n - 1
  <2>1. CASE i \in 1 .. n - 1
    BY <1>1, <2>1
  <2>2. CASE i \notin 1 .. n - 1
    <3>1. i - (n - 1) \in DOMAIN frames /\ i = n - 1 + (i - (n - 1))
      BY <1>1, <2>2
    <3> QED BY <1>1, <2>2, <3>1
  <2> QED BY <2>1, <2>2
<1>5. ASSUME NEW i \in DOMAIN stack'
      PROVE  /\ stack'[i].visit = "function" <=> i = 1
             /\ i = 2 => stack'[i].visit = "compound" /\ ~ stack'[i].own
             /\ Fits(stack'[i], i)
  <2>1. CASE i \in 1 .. n - 1
    BY <1>1, <1>4, <2>1 DEF SInv, Nested, Fits
  <2>2. CASE i \notin 1 .. n - 1
    <3>1. PICK j \in DOMAIN frames : i = n - 1 + j /\ stack'[i] = frames[j]
      BY <1>4, <2>2
    <3>2. i # 1 /\ (i = 2 => j = 1 /\ n = 2)
      BY <1>1, <1>2, <3>1
    <3>3. i = 2 => stack'[i].visit = "compound" /\ ~ stack'[i].own
      <4> SUFFICES ASSUME i = 2 PROVE frames[1].visit = "compound" /\ ~ frames[1].own
        BY <3>1, <3>2
      <4>1. Top.visit = "compound" /\ ~ Top.own
        BY <1>1, <1>2, <3>2 DEF SInv, Nested
      <4>2. frames # << >>
        BY <3>1
      <4> QED BY <4>1, <4>2
    <3> QED BY <3>1, <3>2, <3>3 DEF n
  <2> QED BY <2>1, <2>2
<1>6. stack' # << >> /\ stack'[1] = stack[1]
  <2>1. 1 \in 1 .. n - 1
    BY <1>1, <1>2
  <2> QED BY <1>1, <2>1
<1>7. Nested'
  <2>1. pre_enter_scope' = FALSE
    BY <1>3
  <2>2. \A i \in DOMAIN stack' :
          /\ stack'[i].visit = "function" <=> i = 1
          /\ i = 2 => stack'[i].visit = "compound" /\ ~ stack'[i].own
          /\ IF Leaf(stack'[i]) THEN i <= 3 \/ i <= MaxDepth ELSE i <= 2 \/ i < MaxDepth
    BY <1>5 DEF Fits
  <2> QED BY <1>3, <1>6, <2>1, <2>2 DEF Nested
<1>8. Scopes' = IF opens THEN Scopes \cup {n} ELSE Scopes \ {n}
  <2>1. Scopes' = {i \in DOMAIN stack' : Opens(stack'[i])}
    BY DEF Scopes
  <2>2. ASSUME NEW i
        PROVE  i \in Scopes' <=> \/ i \in Scopes /\ i # n
                                 \/ i = n /\ opens
    <3>1. CASE i \in 1 .. n - 1
      <4>1. i \in DOMAIN stack /\ i \in DOMAIN stack' /\ i # n /\ stack'[i] = stack[i]
        BY <1>1, <3>1
      <4> QED BY <2>1, <4>1 DEF Scopes
    <3>2. CASE i = n
      <4>1. n \notin 1 .. n - 1
        BY <1>1
      <4>2. opens => n \in DOMAIN stack' /\ stack'[n] = frames[1]
        <5> SUFFICES ASSUME opens PROVE n \in DOMAIN stack' /\ stack'[n] = frames[1]
          OBVIOUS
        <5>1. Len(frames) # 0 /\ 1 \in 1 .. Len(frames) /\ n - 1 + 1 = n
          BY <1>1, EmptySeq
        <5>2. stack'[n - 1 + 1] = frames[1]
          BY <1>1, <5>1
        <5> QED BY <1>1, <5>1, <5>2
      <4>3. n \in DOMAIN stack' => frames # << >> /\ stack'[n] = frames[1]
        <5> SUFFICES ASSUME n \in DOMAIN stack' PROVE frames # << >> /\ stack'[n] = frames[1]
          OBVIOUS
        <5>1. PICK j \in DOMAIN frames : n = n - 1 + j /\ stack'[n] = frames[j]
          BY <1>4, <4>1
        <5>2. j = 1
          BY <1>1, <5>1
        <5> QED BY <5>1, <5>2
      <4> QED BY <2>1, <3>2, <4>2, <4>3
    <3>3. CASE i \notin 1 .. n - 1 /\ i # n
      <4>1. i \notin DOMAIN stack
        BY <1>1, <3>3
      <4>2. ASSUME i \in Scopes' PROVE FALSE
        <5>1. PICK j \in DOMAIN frames : i = n - 1 + j /\ stack'[i] = frames[j]
          BY <1>4, <2>1, <3>3, <4>2
        <5>2. j # 1
          BY <1>1, <3>3, <5>1
        <5> QED BY <2>1, <4>2, <5>1, <5>2
      <4> QED BY <3>3, <4>1, <4>2 DEF Scopes
    <3> QED BY <3>1, <3>2, <3>3
  <2> HIDE DEF Scopes
  <2>3. Opens(Top) \/ ~ Opens(Top)
    OBVIOUS
  <2>4. CASE opens
    BY <2>2, <2>4
  <2>5. CASE ~ opens
    BY <2>2, <2>5
  <2> QED BY <2>4, <2>5
<1>9. IsFiniteSet(Scopes) /\ Cardinality(Scopes) \in Nat
  BY ScopesFinite
<1>10. n \in Scopes <=> Opens(Top)
  BY <1>1, <1>2 DEF Scopes
<1>11. /\ Cardinality(Scopes \cup {n}) = IF n \in Scopes THEN Cardinality(Scopes) ELSE Cardinality(Scopes) + 1
       /\ Cardinality(Scopes \ {n}) = IF n \in Scopes THEN Cardinality(Scopes) - 1 ELSE Cardinality(Scopes)
  BY <1>9, FS_AddElement, FS_RemoveElement
<1>12. depth = 1 + Cardinality(Scopes)
  BY DEF SInv
<1>13. depth' = 1 + Cardinality(Scopes')
  <2>1. CASE opens
    BY <1>8, <1>9, <1>10, <1>11, <1>12, <2>1
  <2>2. CASE ~ opens
    BY <1>8, <1>9, <1>10, <1>11, <1>12, <2>2
  <2> QED BY <2>1, <2>2
<1>14. depth' = 1 + Cardinality(Scopes)'
  BY <1>13
<1> QED BY <1>7, <1>14 DEF SInv

\* The innermost visit is at the top of the stack, and not too deep.
LEMMA TopFits ==
  ASSUME PInv, SInv, stack # << >>
  PROVE  /\ Len(stack) \in Nat \ {0} /\ MaxDepth \in Nat \ {0}
         /\ Fits(Top, Len(stack))
         /\ Top.visit = "function" <=> Len(stack) = 1
         /\ Len(stack) = 2 => Top.visit = "compound" /\ ~ Top.own
<1>1. stack \in Seq(Frame)
  BY DEF PInv, Typed
<1>2. Len(stack) \in DOMAIN stack /\ Top = stack[Len(stack)] /\ Len(stack) \in Nat \ {0}
  BY <1>1, EmptySeq, LenProperties DEF Top, Last
<1> QED BY <1>2, BoundsNat DEF SInv, Nested, Fits

\* A visit that opens no scope follows one that had opened none, with a statement about to
\* be visited above it or not.
LEMMA NestReplace ==
  ASSUME PInv, SInv, stack # << >>, Top.visit \notin {"function", "compound"},
         NEW f \in Frame, f.visit \notin {"function", "compound"},
         Leaf(f) \/ ~ Leaf(Top) \/ Len(stack) < MaxDepth,
         Return(<< >>) \/ Return(<<f>>) \/ (Return(<<f, Statement>>) /\ ~ Leaf(f)),
         UNCHANGED <<depth, pre_enter_scope>>
  PROVE  SInv'
<1> DEFINE n == Len(stack)
<1>1. n \in Nat \ {0} /\ MaxDepth \in Nat \ {0} /\ Fits(Top, n) /\ n # 1 /\ n # 2
  BY TopFits
<1>2. ~ Opens(Top) /\ ~ Opens(f) /\ ~ Opens(Statement) /\ Leaf(Statement)
      /\ Statement.visit # "function" /\ Statement \in Frame
  BY NamelessFrames DEF Opens, Leaf, Statement
<1>3. Fits(f, n)
  BY <1>1 DEF Fits
<1>4. ~ Leaf(f) => Fits(Statement, n + 1)
  BY <1>1, <1>2, <1>3 DEF Fits
<1>5. depth \in Int
  BY ScopesFinite DEF SInv
<1> HIDE DEF n
<1>6. ASSUME NEW frames \in Seq(Frame), Return(frames),
             frames = << >> \/ ~ Opens(frames[1]),
             \A i \in DOMAIN frames : /\ frames[i].visit # "function"
                                      /\ Fits(frames[i], n - 1 + i) /\ ~ Opens(frames[i])
      PROVE  SInv'
  <2> DEFINE opens == FALSE
  <2>1. opens \in BOOLEAN /\ (opens <=> (frames # << >> /\ Opens(frames[1])))
    BY <1>6
  <2>2. depth' = depth + (IF opens THEN 1 ELSE 0) - (IF Opens(Top) THEN 1 ELSE 0)
    BY <1>2, <1>5
  <2> HIDE DEF opens
  <2> QED BY <1>6, <2>1, <2>2, NestStep DEF n
<1>7. CASE Return(<< >>)
  <2> DEFINE frames == << >>
  <2>1. frames \in Seq(Frame) /\ DOMAIN frames = {} /\ frames = << >> /\ Return(frames)
    BY <1>7
  <2> HIDE DEF frames
  <2> QED BY <1>6, <2>1
<1>8. CASE Return(<<f>>)
  <2> DEFINE frames == <<f>>
  <2>1. frames \in Seq(Frame) /\ DOMAIN frames = {1} /\ frames[1] = f /\ Return(frames)
    BY <1>8
  <2>2. n - 1 + 1 = n
    BY <1>1
  <2> HIDE DEF frames
  <2> QED BY <1>2, <1>3, <1>6, <2>1, <2>2
<1>9. CASE Return(<<f, Statement>>) /\ ~ Leaf(f)
  <2> DEFINE frames == <<f, Statement>>
  <2>1. /\ frames \in Seq(Frame) /\ DOMAIN frames = {1, 2} /\ frames[1] = f
        /\ frames[2] = Statement /\ Return(frames)
    BY <1>2, <1>9
  <2>2. n - 1 + 1 = n /\ n - 1 + 2 = n + 1
    BY <1>1
  <2> HIDE DEF frames
  <2> QED BY <1>2, <1>3, <1>4, <1>6, <1>9, <2>1, <2>2
<1> QED BY <1>7, <1>8, <1>9

\* The visits that are not of compounds and functions open no scope.
LEMMA ScopeVisits ==
  ASSUME PInv, SInv,
         \/ Compute \/ VisitExpressionStmt \/ EndExpression \/ VisitReturn \/ VisitVoidReturn
         \/ VisitIteration \/ IndexAccess \/ BeginThen \/ BeginBody
         \/ EndThenWithoutElse \/ EndThenBeginElse \/ EndElse \/ EndBody
         \/ \E yes \in BOOLEAN : VisitSelection(yes) \/ EndReturn(yes)
  PROVE  SInv'
<1>1. CASE Compute \/ IndexAccess
  <2>1. UNCHANGED <<depth, pre_enter_scope, stack>>
    BY <1>1 DEF Compute, IndexAccess
  <2> QED BY <2>1 DEF SInv, Nested, Scopes
<1> DEFINE Kept == stack # << >> /\ UNCHANGED <<depth, pre_enter_scope>>
<1>2. ASSUME NEW f \in Frame, Leaf(f), Kept, Top.visit = "statement", Return(<<f>>) \/ Return(<< >>)
      PROVE  SInv'
  <2>1. f.visit \notin {"function", "compound"}
    BY <1>2 DEF Leaf
  <2> QED BY <1>2, <2>1, NestReplace
<1>3. /\ Statement \in Frame /\ Expression \in Frame /\ Returned \in Frame
      /\ Leaf(Statement) /\ Leaf(Expression) /\ Leaf(Returned)
      /\ Statement.visit = "statement" /\ Expression.visit = "expression"
  BY NamelessFrames DEF Leaf, Statement, Expression, Returned
<1>4. CASE VisitExpressionStmt
  BY <1>2, <1>3, <1>4 DEF VisitExpressionStmt, In, Top
<1>5. CASE VisitReturn
  BY <1>2, <1>3, <1>5 DEF VisitReturn, In, Top
<1>6. CASE VisitVoidReturn
  BY <1>2, <1>3, <1>6 DEF VisitVoidReturn, In, Top
<1>7. CASE EndExpression \/ (\E yes \in BOOLEAN : EndReturn(yes))
           \/ EndThenWithoutElse \/ EndElse \/ EndBody
  <2>1. /\ Kept /\ Return(<< >>)
        /\ Top.visit \notin {"function", "compound"}
    BY <1>7 DEF EndExpression, EndReturn, EndThenWithoutElse, EndElse, EndBody, In, Top
  <2>2. Expression.visit \notin {"function", "compound"}
    BY DEF Expression
  <2> QED BY <1>3, <2>1, <2>2, NestReplace
<1>8. ASSUME NEW yes \in BOOLEAN, VisitSelection(yes) PROVE SInv'
  <2> DEFINE f == Condition(yes)
  <2>1. /\ Kept /\ Top.visit = "statement" /\ Return(<<f>>) /\ Len(stack) < MaxDepth
    BY <1>8 DEF VisitSelection, In, Top
  <2>2. f \in Frame /\ f.visit \notin {"function", "compound"}
    BY NamelessFrames DEF Condition
  <2> HIDE DEF f
  <2> QED BY <2>1, <2>2, NestReplace
<1>9. CASE VisitIteration
  <2> DEFINE f == LoopCondition(created + 1)
  <2>1. /\ Kept /\ Top.visit = "statement" /\ Return(<<f>>) /\ Len(stack) < MaxDepth
        /\ created + 1 <= MaxBlocks
    BY <1>9, Numbers DEF VisitIteration, In, Top
  <2>2. f \in Frame /\ f.visit \notin {"function", "compound"}
    <3>1. created + 1 \in Block
      BY <2>1, Numbers DEF Block
    <3> QED BY <3>1, Shapes DEF Shape, LoopCondition
  <2> HIDE DEF f
  <2> QED BY <2>1, <2>2, NestReplace
<1>10. CASE BeginThen
  <2> DEFINE f == Then(created + 2, created + 3, Top.else)
  <2>1. /\ Kept /\ Top.visit = "condition" /\ Return(<<f, Statement>>) /\ CreateBlocks(3) /\ 3 \in Nat
    BY <1>10 DEF BeginThen, In, Top
  <2>2. f \in Frame
    <3>1. created + 2 \in created + 1 .. created + 3 /\ created + 3 \in created + 1 .. created + 3
      BY Numbers
    <3>2. created + 2 \in Block /\ created + 3 \in Block
      BY <2>1, <3>1, NewListed
    <3>3. Top.else \in BOOLEAN
      BY <2>1, AtTop, Kinds
    <3> QED BY <3>2, <3>3, Shapes DEF Shape
  <2>3. f.visit = "then"
    BY DEF Then
  <2>4. ~ Leaf(f) /\ ~ Leaf(Top)
    BY <2>1, <2>3 DEF Leaf
  <2> HIDE DEF f
  <2> QED BY <2>1, <2>2, <2>3, <2>4, NestReplace
<1>11. CASE BeginBody
  <2> DEFINE f == Body(Top.exprBB, created + 2)
  <2>1. /\ Kept /\ Top.visit = "loop condition" /\ Return(<<f, Statement>>)
        /\ CreateBlocks(2) /\ 2 \in Nat
    BY <1>11 DEF BeginBody, In, Top
  <2>2. f \in Frame
    <3>1. created + 2 \in created + 1 .. created + 2
      BY Numbers
    <3>2. created + 2 \in Block
      BY <2>1, <3>1, NewListed
    <3>3. Top.exprBB \in Block
      BY <2>1, AtTop, Kinds
    <3> QED BY <3>2, <3>3, Shapes DEF Shape
  <2>3. f.visit = "body"
    BY DEF Body
  <2>4. ~ Leaf(f) /\ ~ Leaf(Top)
    BY <2>1, <2>3 DEF Leaf
  <2> HIDE DEF f
  <2> QED BY <2>1, <2>2, <2>3, <2>4, NestReplace
<1>12. CASE EndThenBeginElse
  <2> DEFINE f == Else(Top.contBB)
  <2>1. Kept /\ Top.visit = "then" /\ Return(<<f, Statement>>)
    BY <1>12 DEF EndThenBeginElse, In, Top
  <2>2. f \in Frame
    <3>1. Top.contBB \in Block
      BY <2>1, AtTop, Kinds
    <3> QED BY <3>1, Shapes DEF Shape
  <2>3. f.visit = "else"
    BY DEF Else
  <2>4. ~ Leaf(f) /\ ~ Leaf(Top)
    BY <2>1, <2>3 DEF Leaf
  <2> HIDE DEF f
  <2> QED BY <2>1, <2>2, <2>3, <2>4, NestReplace
<1> QED BY <1>1, <1>4, <1>5, <1>6, <1>7, <1>8, <1>9, <1>10, <1>11, <1>12

\* A compound opens a scope, unless it is the function's body, and closes its own.
LEMMA ScopeCompounds ==
  ASSUME PInv, SInv, VisitCompound \/ NextStatement \/ EndCompound PROVE SInv'
<1> DEFINE n == Len(stack)
<1>1. /\ stack # << >> /\ Top.visit \in {"statement", "compound"} /\ Top \in Frame
      /\ n \in Nat \ {0} /\ MaxDepth \in Nat \ {0} /\ Fits(Top, n) /\ n # 1
      /\ depth \in Int
  <2>1. stack # << >> /\ Top.visit \in {"statement", "compound"}
    BY DEF VisitCompound, NextStatement, EndCompound, In, Top
  <2>2. depth \in Int
    BY ScopesFinite DEF SInv
  <2> QED BY <2>1, <2>2, TopFits, AtTop
<1>2. ~ pre_enter_scope
  <2>1. 1 \in DOMAIN stack
    BY <1>1, LenProperties DEF PInv, Typed
  <2>2. stack[1].visit = "function"
    BY <1>1 DEF PInv, Covered
  <2>3. stack[1].first => Begins(stack[1])
    BY <2>2 DEF Begins
  <2> QED BY <1>1, <2>1, <2>3 DEF PInv, Ready, SInv, Nested
<1>3. CASE VisitCompound
  <2> DEFINE c == Compound(TRUE, ~ pre_enter_scope)
             frames == <<c>>
             opens == TRUE
  <2>1. /\ Len(stack) < MaxDepth /\ Top.visit = "statement" /\ Return(frames)
        /\ pre_enter_scope' = FALSE /\ depth' = depth + 1
    BY <1>2, <1>3 DEF VisitCompound, EnterCompound, In, Top
  <2>2. c \in Frame /\ c.visit = "compound" /\ c.own /\ Opens(c) /\ ~ Leaf(c) /\ ~ Opens(Top)
    <3>1. (~ pre_enter_scope) \in BOOLEAN
      OBVIOUS
    <3>2. c \in Frame
      BY <3>1, NamelessFrames
    <3>3. c.visit = "compound" /\ c.own
      BY <1>2 DEF Compound
    <3> HIDE DEF c
    <3> QED BY <2>1, <3>2, <3>3 DEF Opens, Leaf
  <2>3. Fits(c, n)
    BY <2>1, <2>2 DEF Fits
  <2> HIDE DEF c
  <2>4. frames \in Seq(Frame) /\ DOMAIN frames = {1} /\ frames[1] = c /\ frames # << >>
    <3>1. c \in Frame
      BY <2>2
    <3> QED BY <3>1
  <2>5. n - 1 + 1 = n
    BY <1>1
  <2> HIDE DEF frames
  <2>6. opens \in BOOLEAN /\ (opens <=> (frames # << >> /\ Opens(frames[1]))) /\ opens
    BY <2>2, <2>4
  <2> HIDE DEF opens
  <2>7. depth' = depth + (IF opens THEN 1 ELSE 0) - (IF Opens(Top) THEN 1 ELSE 0)
    BY <1>1, <2>1, <2>2, <2>6
  <2>8. \A i \in DOMAIN frames : /\ frames[i].visit # "function"
                                 /\ Fits(frames[i], n - 1 + i)
                                 /\ i # 1 => ~ Opens(frames[i])
    BY <2>2, <2>3, <2>4, <2>5
  <2> QED BY <1>1, <2>1, <2>4, <2>6, <2>7, <2>8, NestStep
<1>4. CASE NextStatement
  <2> DEFINE c == Compound(FALSE, Top.own)
             frames == <<c, Statement>>
             opens == Top.own
  <2>1. /\ Top.visit = "compound" /\ Return(frames) /\ UNCHANGED <<depth, pre_enter_scope>>
    BY <1>4 DEF NextStatement, In, Top
  <2>2. Top.own \in BOOLEAN
    BY <1>1, <2>1, Kinds
  <2>3. c \in Frame /\ c.visit = "compound" /\ c.own = Top.own
    BY <2>2, NamelessFrames DEF Compound
  <2> HIDE DEF c
  <2>4. ~ Leaf(c) /\ ~ Leaf(Top) /\ (Opens(c) <=> Top.own) /\ (Opens(Top) <=> Top.own)
    BY <2>1, <2>3 DEF Opens, Leaf
  <2>5. /\ Statement \in Frame /\ Leaf(Statement) /\ ~ Opens(Statement)
        /\ Statement.visit # "function"
    BY NamelessFrames DEF Leaf, Opens, Statement
  <2>6. Fits(c, n) /\ Fits(Statement, n + 1)
    BY <1>1, <2>4, <2>5 DEF Fits
  <2>7. /\ frames \in Seq(Frame) /\ DOMAIN frames = {1, 2} /\ frames # << >>
        /\ frames[1] = c /\ frames[2] = Statement
    <3>1. c \in Frame
      BY <2>3
    <3> QED BY <2>5, <3>1
  <2>8. n - 1 + 1 = n /\ n - 1 + 2 = n + 1
    BY <1>1
  <2> HIDE DEF frames
  <2>9. opens \in BOOLEAN /\ (opens <=> (frames # << >> /\ Opens(frames[1])))
    BY <2>2, <2>4, <2>7
  <2>10. depth' = depth + (IF opens THEN 1 ELSE 0) - (IF Opens(Top) THEN 1 ELSE 0)
    <3>1. CASE Top.own
      BY <1>1, <2>1, <2>4, <3>1
    <3>2. CASE ~ Top.own
      BY <1>1, <2>1, <2>4, <3>2
    <3> QED BY <3>1, <3>2
  <2> HIDE DEF opens
  <2>11. \A i \in DOMAIN frames : /\ frames[i].visit # "function"
                                  /\ Fits(frames[i], n - 1 + i)
                                  /\ i # 1 => ~ Opens(frames[i])
    BY <2>3, <2>5, <2>6, <2>7, <2>8
  <2>12. frames[1].visit = "compound" /\ (~ Top.own => ~ frames[1].own)
    BY <2>3, <2>7
  <2> QED BY <1>1, <2>1, <2>7, <2>9, <2>10, <2>11, <2>12, NestStep
<1>5. CASE EndCompound
  <2> DEFINE frames == << >>
             opens == FALSE
  <2>1. /\ Top.visit = "compound" /\ Return(frames) /\ UNCHANGED pre_enter_scope
        /\ depth' = IF Top.own THEN depth - 1 ELSE depth
    BY <1>5 DEF EndCompound, In, Top
  <2>2. Opens(Top) <=> Top.own
    BY <2>1 DEF Opens
  <2>3. frames \in Seq(Frame) /\ DOMAIN frames = {} /\ frames = << >>
    OBVIOUS
  <2> HIDE DEF frames
  <2>4. /\ opens \in BOOLEAN /\ (opens <=> (frames # << >> /\ Opens(frames[1])))
        /\ depth' = depth + (IF opens THEN 1 ELSE 0) - (IF Opens(Top) THEN 1 ELSE 0)
    BY <1>1, <2>1, <2>2, <2>3
  <2> HIDE DEF opens
  <2> QED BY <1>1, <2>1, <2>3, <2>4, NestStep
<1> QED BY <1>3, <1>4, <1>5

\* The scope of the function serves its body, and is closed last.
LEMMA ScopeFunction ==
  ASSUME PInv, SInv, VisitFunctionBody \/ EndFunction PROVE SInv'
<1>1. stack # << >> /\ Top.visit = "function" /\ Top \in Frame /\ Len(stack) = 1
      /\ stack = <<Top>> /\ Top = stack[1] /\ DOMAIN stack = {1}
  <2>1. stack # << >> /\ Top.visit = "function"
    BY DEF VisitFunctionBody, EndFunction, In, Top
  <2>2. Len(stack) = 1 /\ Top \in Frame /\ stack \in Seq(Frame)
    BY <2>1, TopFits, AtTop DEF PInv, Typed
  <2>3. Top = stack[1]
    BY <2>2 DEF Top, Last
  <2> QED BY <2>1, <2>2, <2>3
<1>2. Scopes = {1} /\ Cardinality({1}) = 1 /\ depth = 2
  <2>1. Scopes = {1}
    BY <1>1 DEF Scopes, Opens
  <2>2. Cardinality({1}) = 1
    BY FS_Singleton
  <2> QED BY <2>1, <2>2 DEF SInv
<1>3. CASE VisitFunctionBody
  <2> DEFINE f == Function(FALSE)
             c == Compound(TRUE, ~ pre_enter_scope)
             frames == <<f, c>>
  <2>1. Top.first /\ Return(frames) /\ pre_enter_scope' = FALSE
        /\ depth' = IF pre_enter_scope THEN depth ELSE depth + 1
    BY <1>3 DEF VisitFunctionBody, EnterCompound, Top
  <2>2. pre_enter_scope
    BY <1>1, <2>1 DEF SInv, Nested
  <2>3. /\ f \in Frame /\ f.visit = "function" /\ ~ f.first
        /\ c \in Frame /\ c.visit = "compound" /\ ~ c.own
    <3>1. (~ pre_enter_scope) \in BOOLEAN
      OBVIOUS
    <3>2. f \in Frame /\ c \in Frame
      BY <3>1, NamelessFrames
    <3>3. f.visit = "function" /\ ~ f.first /\ c.visit = "compound" /\ ~ c.own
      BY <2>2 DEF Function, Compound
    <3> QED BY <3>2, <3>3
  <2> HIDE DEF f, c
  <2>4. f \in Frame /\ c \in Frame
    BY <2>3
  <2>5. /\ frames \in Seq(Frame) /\ Len(frames) = 2
        /\ frames[1] = f /\ frames[2] = c
    BY <2>4
  <2> HIDE DEF frames
  <2>6. /\ DOMAIN stack' = 1 .. 1 - 1 + 2
        /\ \A i \in 1 .. 2 : stack'[1 - 1 + i] = frames[i]
    BY <1>1, <2>1, <2>5, StackAfter DEF PInv
  <2>7. 1 \in 1 .. 2 /\ 2 \in 1 .. 2 /\ 1 - 1 + 2 = 2 /\ 1 - 1 + 1 = 1 /\ 1 .. 2 = {1, 2}
    OBVIOUS
  <2>8. stack'[1 - 1 + 1] = frames[1] /\ stack'[1 - 1 + 2] = frames[2]
    BY <2>6, <2>7
  <2>9. DOMAIN stack' = {1, 2} /\ stack'[1] = f /\ stack'[2] = c
    BY <2>5, <2>6, <2>7, <2>8
  <2>10. Scopes' = {1}
    <3>1. Scopes' = {i \in DOMAIN stack' : Opens(stack'[i])}
      BY DEF Scopes
    <3>2. Opens(f) /\ ~ Opens(c)
      BY <2>3 DEF Opens
    <3> QED BY <2>9, <3>1, <3>2
  <2>11. stack' # << >>
    BY <2>9
  <2>12. Nested'
    <3>1. ~ Leaf(f) /\ ~ Leaf(c)
      BY <2>3 DEF Leaf
    <3> QED BY <2>1, <2>3, <2>9, <2>11, <3>1 DEF Nested
  <2>13. depth' = 1 + Cardinality(Scopes)'
    BY <1>2, <2>1, <2>2, <2>10
  <2> QED BY <2>12, <2>13 DEF SInv
<1>4. CASE EndFunction
  <2> DEFINE frames == << >>
  <2>1. ~ Top.first /\ Return(frames) /\ UNCHANGED pre_enter_scope /\ depth' = depth - 1
    BY <1>4 DEF EndFunction, Top
  <2>2. frames \in Seq(Frame) /\ Len(frames) = 0
    OBVIOUS
  <2> HIDE DEF frames
  <2>3. stack' \in Seq(Frame) /\ Len(stack') = 0
    <3>1. Typed
      BY DEF PInv
    <3>2. stack' \in Seq(Frame) /\ Len(stack') = 1 - 1 + 0
      BY <1>1, <2>1, <2>2, <3>1, StackAfter
    <3> QED BY <3>2
  <2>4. stack' = << >> /\ DOMAIN stack' = {}
    BY <2>3, EmptySeq, LenProperties
  <2>5. Scopes' = {}
    BY <2>4 DEF Scopes
  <2>6. Nested'
    BY <1>1, <2>1, <2>4 DEF SInv, Nested
  <2>7. Cardinality({}) = 0
    BY FS_EmptySet
  <2>8. depth' = 1 + Cardinality(Scopes)'
    BY <1>2, <2>1, <2>5, <2>7
  <2> QED BY <2>6, <2>8 DEF SInv
<1> QED BY <1>3, <1>4

\* The function's scope is open when its visit begins.
LEMMA ScopesInitially == Init => SInv
<1> SUFFICES ASSUME Init PROVE SInv
  OBVIOUS
<1> DEFINE f == Function(TRUE)
<1>1. depth = 2 /\ pre_enter_scope = TRUE /\ stack = <<f>>
  BY DEF Init
<1>2. f.visit = "function" /\ f.first
  BY DEF Function
<1> HIDE DEF f
<1>3. DOMAIN stack = {1} /\ stack[1] = f /\ stack # << >>
  BY <1>1
<1>4. Scopes = {1} /\ Cardinality({1}) = 1
  BY <1>2, <1>3, FS_Singleton DEF Scopes, Opens
<1>5. Nested
  BY <1>1, <1>2, <1>3 DEF Nested, Leaf
<1> QED BY <1>1, <1>4, <1>5 DEF SInv

\* Every step of the visitor opens and closes scopes in pairs.
LEMMA ScopesInductive == PInv /\ SInv /\ [Next]_vars => SInv'
<1> SUFFICES ASSUME PInv, SInv, [Next]_vars PROVE SInv'
  OBVIOUS
<1>1. CASE UNCHANGED vars
  <2>1. UNCHANGED <<depth, pre_enter_scope, stack>>
    BY <1>1 DEF vars
  <2> QED BY <2>1 DEF SInv, Nested, Scopes
<1>2. CASE VisitCompound \/ NextStatement \/ EndCompound
  BY <1>2, ScopeCompounds
<1>3. CASE VisitFunctionBody \/ EndFunction
  BY <1>3, ScopeFunction
<1>4. CASE \/ Compute \/ VisitExpressionStmt \/ EndExpression \/ VisitReturn \/ VisitVoidReturn
           \/ VisitIteration \/ IndexAccess \/ BeginThen \/ BeginBody
           \/ EndThenWithoutElse \/ EndThenBeginElse \/ EndElse \/ EndBody
           \/ \E yes \in BOOLEAN : VisitSelection(yes) \/ EndReturn(yes)
  BY <1>4, ScopeVisits
<1> QED BY <1>1, <1>2, <1>3, <1>4 DEF Next

\* The open scopes are those of the open compounds in every state of the builder.
LEMMA ScopesInvariant == Spec => [](PInv /\ EInv /\ SInv)
<1>1. Init => PInv /\ EInv /\ SInv
  BY Initially, EdgesInitially, ScopesInitially
<1>2. PInv /\ EInv /\ SInv /\ [Next]_vars => (PInv /\ EInv /\ SInv)'
  BY Inductive, EdgesInductive, ScopesInductive
<1> QED BY <1>1, <1>2, PTL DEF Spec

\* However compounds nest and whichever statements return out of them, only the global
\* scope is open when the visit of a function is over.
THEOREM ScopesAreClosed == Spec => []ScopesClosed
<1>1. SInv => ScopesClosed
  <2> SUFFICES ASSUME SInv, stack = << >> PROVE depth = 1 /\ ~ pre_enter_scope
    BY DEF ScopesClosed, Done
  <2>1. Scopes = {} /\ Cardinality({}) = 0
    BY FS_EmptySet DEF Scopes
  <2> QED BY <2>1 DEF SInv, Nested
<1> QED BY <1>1, ScopesInvariant, PTL

\* Every variable stays in its range; in particular visits nest as deep as their bound
\* says, and there are never more open scopes than that.
THEOREM Typing == Spec => []TypeOK
<1>1. PInv /\ EInv /\ SInv => TypeOK
  <2> SUFFICES ASSUME PInv, EInv, SInv PROVE TypeOK
    OBVIOUS
  <2>1. created \in Block /\ BB_ \in Block /\ pre_enter_scope \in BOOLEAN
    BY InsertPoint DEF PInv, Typed
  <2>2. \A i \in DOMAIN listed : listed[i] \in 1 .. created
    BY ListedIn
  <2>3. ASSUME NEW b \in Block
        PROVE  /\ ToSet(pre[b]) \cup ToSet(succ[b]) \subseteq 1 .. created
               /\ \A i \in DOMAIN code[b] : code[b][i].op \in {"plain", "br", "ret"}
    <3>1. pre[b] \in Seq(1 .. created) /\ succ[b] \in Seq(1 .. created)
      BY DEF EInv, Recorded
    <3>2. code[b] \in Seq(Instruction)
      BY DEF PInv, Typed
    <3>3. \A i \in DOMAIN code[b] : code[b][i] \in Instruction
      BY <3>2, LenProperties, ElementOfSeq
    <3> QED BY <3>1, <3>3, Elements DEF Instruction
  <2>4. MaxDepth \in Nat \ {0} /\ Len(stack) \in Nat
    BY BoundsNat, LenProperties DEF PInv, Typed
  <2>5. Len(stack) <= MaxDepth + 2
    <3>1. CASE stack = << >>
      BY <2>4, <3>1
    <3>2. CASE stack # << >>
      BY <2>4, <3>2, TopFits DEF Fits
    <3> QED BY <3>1, <3>2
  <2>6. depth \in 1 .. MaxDepth + 2
    <3>1. Cardinality(Scopes) \in Nat /\ Cardinality(Scopes) <= Len(stack)
          /\ depth = 1 + Cardinality(Scopes)
      BY ScopesFinite DEF SInv
    <3>2. CASE Len(stack) < 2
      BY <2>4, <3>1, <3>2
    <3>3. CASE Len(stack) >= 2
      <4> DEFINE n == Len(stack)
      <4>1. n \in Nat /\ DOMAIN stack = 1 .. n
        BY LenProperties DEF PInv, Typed
      <4>2. 2 \in DOMAIN stack
        BY <3>3, <4>1
      <4>3. 2 \notin Scopes
        BY <4>2 DEF SInv, Nested, Scopes, Opens
      <4> HIDE DEF n
      <4>4. Scopes \in SUBSET ((1 .. n) \ {2})
        BY <4>1, <4>3 DEF Scopes
      <4>5. IsFiniteSet(1 .. n) /\ Cardinality(1 .. n) = n
        BY <4>1, FS_Interval
      <4>6. IsFiniteSet((1 .. n) \ {2}) /\ Cardinality((1 .. n) \ {2}) = n - 1
        BY <4>1, <4>2, <4>5, FS_RemoveElement
      <4>7. Cardinality(Scopes) <= n - 1
        BY <4>4, <4>6, FS_Subset
      <4> QED BY <2>4, <2>5, <3>1, <4>1, <4>7 DEF n
    <3> QED BY <2>4, <3>2, <3>3
  <2> QED BY <2>1, <2>2, <2>3, <2>5, <2>6 DEF TypeOK
<1> QED BY <1>1, ScopesInvariant, PTL

-------------------------------------------------------------------------------
(* Loops *)

\* The head of the loop that a visit is in.
Heads(f) == IF f.visit \in {"loop condition", "body"} THEN {f.exprBB} ELSE {}

Edge(u, v) == v \in ToSet(succ[u])

\* The edge from u to v closes a loop that is complete: of the blocks numbered v .. m, only
\* v is entered from outside, and no visit will add another entrance.
Back(u, v) ==
  /\ v # Entry
  /\ \E m \in v .. created :
       /\ u \in v .. m
       /\ \A a, b \in Block : Edge(a, b) /\ b \in v + 1 .. m => a \in v .. m
       /\ \A i \in DOMAIN stack : Named(stack[i]) \cap (v + 1 .. m) = {}

\* What is created after the head of a loop, while the loop is visited, is entered from
\* within the loop only, and so is the insert point in it.
Inside == \A i \in DOMAIN stack : \A h \in Heads(stack[i]) :
            BB_ >= h /\ \A a, b \in Block : Edge(a, b) /\ b > h => a >= h

\* The blocks that visits name are older than the loops around which they are.
Older == \A i, j \in DOMAIN stack : i < j =>
           /\ \A x \in Named(stack[i]), h \in Heads(stack[j]) : x < h
           /\ \A h \in Heads(stack[i]), x \in Named(stack[j]) : h < x

\* An edge that does not close a loop goes up in rank, once its target has been begun.
Ranked(rank) ==
  \A u, v \in Block : Edge(u, v) => \/ Back(u, v)
                                    \/ v # BB_ /\ code[v] = << >>
                                    \/ rank[u] < rank[v]

LInv == Inside /\ Older /\ \E K \in Nat : \E rank \in [Block -> 0 .. K] : Ranked(rank)

\* The ends of an edge.
LEMMA EdgeEnds ==
  ASSUME PInv, EInv, NEW a \in Block, NEW b, Edge(a, b)
  PROVE  code[a] # << >> /\ a \in 1 .. created /\ b \in 1 .. created /\ b \in Block
<1>1. succ[a] \in Seq(1 .. created) /\ succ[a] = Reverse(To(code[a]))
  BY DEF EInv, Recorded
<1>2. b \in 1 .. created /\ b \in Block
  BY <1>1, Elements, Numbers DEF Edge
<1>3. ASSUME code[a] = << >> PROVE FALSE
  <2> DEFINE e == << >>
  <2>1. e \in Seq(Block) /\ e = << >>
    OBVIOUS
  <2>2. To(code[a]) = e
    BY <1>3 DEF To, Ended
  <2> HIDE DEF e
  <2>3. Reverse(e) = e
    BY <2>1, ReverseSame
  <2>4. ToSet(succ[a]) = {}
    BY <1>1, <2>1, <2>2, <2>3, NoTargets
  <2> QED BY <2>4 DEF Edge
<1>4. a \in 1 .. created
  <2>1. ~ a > created
    BY <1>3 DEF PInv, Fresh
  <2>2. a \in Nat \ {0} /\ created \in Nat
    BY Numbers DEF Block
  <2> QED BY <2>1, <2>2
<1> QED BY <1>2, <1>3, <1>4

\* What the visits on the stack name has been created.
LEMMA NamesCreated ==
  ASSUME PInv, EInv, NEW i \in DOMAIN stack
  PROVE  /\ \A b \in Named(stack[i]) : b \in 1 .. created /\ b \in Block /\ b # Entry /\ b \in Nat
         /\ Heads(stack[i]) \subseteq Named(stack[i])
         /\ Named(stack[i]) = Pending(stack[i]) \cup Heads(stack[i])
<1>1. Settled(stack[i], ToSet(listed), pre, code, BB_)
  BY DEF EInv
<1>2. \A b \in Named(stack[i]) : b \in ToSet(listed) /\ b # Entry
  BY <1>1 DEF Settled
<1>3. ToSet(listed) \subseteq 1 .. created
  BY ListedIn DEF ToSet
<1>4. Named(stack[i]) = Pending(stack[i]) \cup Heads(stack[i])
  BY DEF Named, Heads
<1> QED BY <1>2, <1>3, <1>4, Numbers

\* A step that replaces the innermost visit, and adds the edges from the insert point to
\* the blocks of T.
LEMMA LoopStep ==
  ASSUME PInv, PInv', EInv, EInv', LInv, stack # << >>,
         NEW frames \in Seq(Frame), Return(frames),
         NEW T \in SUBSET Block,
         \A a \in Block : ToSet(succ'[a]) = ToSet(succ[a]) \cup (IF a = BB_ THEN T ELSE {}),
         created' >= created,
         \A b \in 1 .. created : b # BB_ => code'[b] = code[b],
         BB_' = BB_ => T = {} /\ created' = created,
         BB_' = BB_ \/ BB_' > created \/ BB_' \in Pending(Top),
         \A v \in T : \/ v > created \/ v \in Pending(Top)
                      \/ frames = << >> /\ v \in Heads(Top),
         \A i \in DOMAIN frames :
           /\ \A x \in Named(frames[i]) : x \in Named(Top) \/ x > created
           /\ \A h \in Heads(frames[i]) : \/ h \in Heads(Top) /\ (BB_' = BB_ \/ BB_' > created)
                                          \/ h > created /\ h = created' /\ h = BB_'
           /\ i # 1 => Named(frames[i]) = {}
  PROVE  LInv'
<1> DEFINE n == Len(stack)
<1>1. /\ stack' \in Seq(Frame) /\ Len(stack') = n - 1 + Len(frames)
      /\ n \in Nat \ {0} /\ Len(frames) \in Nat
      /\ DOMAIN stack = 1 .. n /\ DOMAIN frames = 1 .. Len(frames)
      /\ DOMAIN stack' = 1 .. n - 1 + Len(frames)
      /\ \A i \in 1 .. n - 1 : stack'[i] = stack[i]
      /\ \A i \in 1 .. Len(frames) : stack'[n - 1 + i] = frames[i]
      /\ Top = stack[n] /\ n \in DOMAIN stack
  <2>1. Typed
    BY DEF PInv
  <2>2. /\ stack' \in Seq(Frame) /\ Len(stack') = n - 1 + Len(frames)
        /\ n \in Nat \ {0} /\ Len(frames) \in Nat
        /\ DOMAIN stack = 1 .. n /\ DOMAIN frames = 1 .. Len(frames)
        /\ DOMAIN stack' = 1 .. n - 1 + Len(frames)
        /\ \A i \in 1 .. n - 1 : stack'[i] = stack[i]
        /\ \A i \in 1 .. Len(frames) : stack'[n - 1 + i] = frames[i]
        /\ Last(stack) = stack[n]
    BY <2>1, StackAfter
  <2> QED BY <2>2 DEF Top
<1> HIDE DEF n
<1>2. /\ created \in Nat \ {0} /\ created' \in Nat /\ BB_ \in Block /\ BB_ \in 1 .. created
      /\ BB_' \in Block /\ BB_' \in 1 .. created' /\ BB_ \in Nat /\ BB_' \in Nat
      /\ \A b \in Block : b \in Nat \ {0}
  BY Numbers DEF PInv, Typed, Block
<1>3. \A i \in DOMAIN stack' :
        \/ i < n /\ i \in DOMAIN stack /\ stack'[i] = stack[i]
        \/ i = n /\ 1 \in DOMAIN frames /\ stack'[i] = frames[1]
        \/ i > n /\ Named(stack'[i]) = {}
  <2> TAKE i \in DOMAIN stack'
  <2>1. i \in Nat /\ i >= 1 /\ i <= n - 1 + Len(frames)
    BY <1>1
  <2>2. CASE i < n
    BY <1>1, <2>1, <2>2
  <2>3. CASE i = n
    <3>1. 1 \in 1 .. Len(frames) /\ n - 1 + 1 = n
      BY <1>1, <2>1, <2>3
    <3> QED BY <1>1, <2>3, <3>1
  <2>4. CASE i > n
    <3>1. i - n + 1 \in 1 .. Len(frames) /\ i - n + 1 # 1 /\ n - 1 + (i - n + 1) = i
      BY <1>1, <2>1, <2>4
    <3> QED BY <1>1, <2>4, <3>1
  <2> QED BY <2>1, <2>2, <2>3, <2>4, <1>1
<1>4. /\ \A b \in Named(Top) : b \in 1 .. created /\ b \in Block /\ b # Entry /\ b \in Nat
      /\ Heads(Top) \subseteq Named(Top) /\ Pending(Top) \subseteq Named(Top)
      /\ \A b \in Pending(Top) : b # BB_ /\ code[b] = << >>
  <2>1. \A b \in Pending(Top) : b # BB_ /\ code[b] = << >>
    BY AtTop
  <2>2. /\ \A b \in Named(stack[n]) : b \in 1 .. created /\ b \in Block /\ b # Entry /\ b \in Nat
        /\ Heads(stack[n]) \subseteq Named(stack[n])
        /\ Named(stack[n]) = Pending(stack[n]) \cup Heads(stack[n])
    BY <1>1, NamesCreated
  <2> QED BY <1>1, <2>1, <2>2
<1>5. \A a, b \in Block : Edge(a, b)' <=> Edge(a, b) \/ (a = BB_ /\ b \in T)
  BY DEF Edge
<1>6. \A v \in T : v > created \/ v \in Named(Top)
  BY <1>4
<1>7. \A i \in DOMAIN stack : i # n => i < n
  BY <1>1
<1>8. \A i \in DOMAIN stack' : /\ \A x \in Named(stack'[i]) : x \in Nat /\ x <= created'
                               /\ \A h \in Heads(stack'[i]) : h \in Named(stack'[i]) /\ h \in Nat
  <2> TAKE i \in DOMAIN stack'
  <2>1. Named(stack'[i]) \subseteq ToSet(listed')
    BY DEF EInv, Settled
  <2>2. ToSet(listed') \subseteq 1 .. created'
    <3>1. listed' \in Seq(1 .. created')
      BY DEF PInv, Typed
    <3> QED BY <3>1, Elements
  <2>3. Heads(stack'[i]) \subseteq Named(stack'[i])
    BY DEF Named, Heads
  <2> QED BY <1>2, <2>1, <2>2, <2>3
<1>9. \A i \in DOMAIN stack : \A x \in Named(stack[i]) : x \in Nat /\ x <= created
  BY NamesCreated, <1>2
<1>10. Inside'
  <2> SUFFICES ASSUME NEW i \in DOMAIN stack', NEW h \in Heads(stack'[i])
               PROVE  BB_' >= h /\ \A a, b \in Block : Edge(a, b)' /\ b > h => a >= h
    BY DEF Inside
  <2>1. ASSUME BB_ >= h, \A a, b \in Block : Edge(a, b) /\ b > h => a >= h
        PROVE  \A a, b \in Block : Edge(a, b)' /\ b > h => a >= h
    BY <1>5, <2>1
  <2>2. CASE i < n /\ i \in DOMAIN stack /\ stack'[i] = stack[i]
    <3>1. BB_ >= h /\ \A a, b \in Block : Edge(a, b) /\ b > h => a >= h
      BY <2>2 DEF LInv, Inside
    <3>2. \A x \in Named(Top) : h < x
      BY <1>1, <2>2 DEF LInv, Older
    <3>3. h \in Nat /\ h <= created
      BY <1>9, <2>2, NamesCreated
    <3>4. BB_' >= h
      BY <1>2, <1>4, <3>1, <3>2, <3>3
    <3> QED BY <2>1, <3>1, <3>4
  <2>3. CASE i = n /\ 1 \in DOMAIN frames /\ stack'[i] = frames[1]
    <3>1. CASE h \in Heads(Top) /\ (BB_' = BB_ \/ BB_' > created)
      <4>1. BB_ >= h /\ \A a, b \in Block : Edge(a, b) /\ b > h => a >= h
        BY <1>1, <3>1 DEF LInv, Inside
      <4>2. h \in Nat /\ h <= created
        BY <1>1, <1>4, <1>9, <3>1
      <4>3. BB_' >= h
        BY <1>2, <3>1, <4>1, <4>2
      <4> QED BY <2>1, <4>1, <4>3
    <3>2. CASE h > created /\ h = created' /\ h = BB_'
      <4>1. ASSUME NEW a \in Block, NEW b \in Block, Edge(a, b)', b > h PROVE FALSE
        <5>1. b \in 1 .. created'
          <6>1. succ'[a] \in Seq(1 .. created')
            BY DEF EInv, Recorded
          <6> QED BY <6>1, <4>1, Elements DEF Edge
        <5> QED BY <5>1, <4>1, <3>2, <1>2
      <4>2. BB_' >= h
        BY <1>2, <3>2
      <4> QED BY <4>1, <4>2
    <3> QED BY <2>3, <3>1, <3>2
  <2>4. CASE i > n /\ Named(stack'[i]) = {}
    BY <2>4, <1>8
  <2> QED BY <1>3, <2>2, <2>3, <2>4
<1>11. Older'
  <2> SUFFICES ASSUME NEW i \in DOMAIN stack', NEW j \in DOMAIN stack', i < j
               PROVE  /\ \A x \in Named(stack'[i]), h \in Heads(stack'[j]) : x < h
                      /\ \A h \in Heads(stack'[i]), x \in Named(stack'[j]) : h < x
    BY DEF Older
  <2>1. i \in Nat /\ j \in Nat /\ n \in Nat
    BY <1>1
  <2>2. CASE j > n /\ Named(stack'[j]) = {}
    BY <1>8, <2>2
  <2>3. CASE i >= n
    <3>1. Named(stack'[j]) = {}
      BY <1>3, <2>1, <2>3
    <3> QED BY <1>8, <3>1
  <2>4. CASE i < n /\ j < n
    BY <1>3, <2>1, <2>4 DEF LInv, Older
  <2>5. CASE i < n /\ j = n
    <3>1. i \in DOMAIN stack /\ stack'[i] = stack[i] /\ stack'[j] = frames[1] /\ 1 \in DOMAIN frames
      BY <1>3, <2>1, <2>5
    <3>2. /\ \A x \in Named(stack[i]), h \in Heads(Top) : x < h
          /\ \A h \in Heads(stack[i]), x \in Named(Top) : h < x
      BY <1>1, <3>1, <2>5 DEF LInv, Older
    <3>3. \A x \in Named(stack[i]) : x \in Nat /\ x <= created
      BY <1>9, <3>1
    <3>4. Heads(stack[i]) \subseteq Named(stack[i])
      BY <3>1, NamesCreated
    <3>5. \A x \in Named(frames[1]) : x \in Named(Top) \/ (x > created /\ x \in Nat)
      BY <3>1, <1>8
    <3>6. \A h \in Heads(frames[1]) : h \in Heads(Top) \/ (h > created /\ h \in Nat)
      BY <3>1, <1>8
    <3>7. \A x \in Named(stack[i]), h \in Heads(frames[1]) : x < h
      BY <3>2, <3>3, <3>6, <1>2
    <3>8. \A h \in Heads(stack[i]), x \in Named(frames[1]) : h < x
      BY <3>2, <3>3, <3>4, <3>5, <1>2
    <3> QED BY <3>1, <3>7, <3>8
  <2> QED BY <1>3, <2>1, <2>2, <2>3, <2>4, <2>5
<1>12. ASSUME NEW u \in Block, NEW v \in Block, Back(u, v) PROVE Back(u, v)'
  <2>1. PICK m \in v .. created :
          /\ u \in v .. m
          /\ \A a, b \in Block : Edge(a, b) /\ b \in v + 1 .. m => a \in v .. m
          /\ \A i \in DOMAIN stack : Named(stack[i]) \cap (v + 1 .. m) = {}
    BY <1>12 DEF Back
  <2>2. m \in v .. created' /\ \A x \in v + 1 .. m : x \in Nat /\ ~ x > created
    BY <2>1, <1>2
  <2>3. \A x \in Named(Top) : x \notin v + 1 .. m
    BY <1>1, <2>1
  <2>4. \A a, b \in Block : Edge(a, b)' /\ b \in v + 1 .. m => a \in v .. m
    BY <1>5, <1>6, <2>1, <2>2, <2>3
  <2>5. \A i \in DOMAIN stack' : Named(stack'[i]) \cap (v + 1 .. m) = {}
    BY <1>3, <2>1, <2>2, <2>3
  <2>6. v # Entry
    BY <1>12 DEF Back
  <2> QED BY <2>1, <2>2, <2>4, <2>5, <2>6 DEF Back
<1>13. ASSUME NEW u \in Block, u = BB_, NEW v \in T, v \in Heads(Top), frames = << >>
       PROVE  Back(u, v)'
  <2>1. BB_ >= v /\ \A a, b \in Block : Edge(a, b) /\ b > v => a >= v
    BY <1>1, <1>13 DEF LInv, Inside
  <2>2. v # Entry /\ v \in Nat /\ v <= created /\ v \in Block
    BY <1>4, <1>13, <1>2
  <2>3. created \in v .. created' /\ u \in v .. created
    BY <1>2, <1>13, <2>1, <2>2
  <2>4. \A a, b \in Block : Edge(a, b)' /\ b \in v + 1 .. created => a \in v .. created
    <3> SUFFICES ASSUME NEW a \in Block, NEW b \in Block, Edge(a, b)', b \in v + 1 .. created
                 PROVE  a \in v .. created
      OBVIOUS
    <3>1. CASE Edge(a, b)
      <4>1. b > v /\ a \in 1 .. created
        BY <3>1, <2>2, EdgeEnds, <1>2
      <4>2. a >= v
        BY <4>1, <2>1, <3>1
      <4> QED BY <4>1, <4>2, <2>2, <1>2
    <3>2. CASE a = BB_
      BY <1>13, <3>2, <2>3
    <3> QED BY <1>5, <3>1, <3>2
  <2>5. \A i \in DOMAIN stack' : Named(stack'[i]) \cap (v + 1 .. created) = {}
    <3> TAKE i \in DOMAIN stack'
    <3>1. i < n /\ i \in DOMAIN stack /\ stack'[i] = stack[i]
      <4>1. DOMAIN frames = {}
        BY <1>13
      <4>2. Len(frames) = 0
        BY <1>13
      <4>3. i \in 1 .. n - 1
        BY <4>2, <1>1
      <4> QED BY <4>3, <1>1
    <3>2. \A x \in Named(stack[i]) : x < v /\ x \in Nat
      BY <1>1, <1>9, <1>13, <3>1 DEF LInv, Older
    <3> QED BY <3>1, <3>2, <2>2
  <2>6. PICK m : m = created
    OBVIOUS
  <2> QED BY <2>2, <2>3, <2>4, <2>5, <2>6 DEF Back
<1>14. PICK K \in Nat : \E rank \in [Block -> 0 .. K] : Ranked(rank)
  BY DEF LInv
<1>15. PICK rank \in [Block -> 0 .. K] : Ranked(rank)
  BY <1>14
<1>16. CASE BB_' = BB_
  <2>1. ASSUME NEW u \in Block, NEW v \in Block, Edge(u, v)'
        PROVE  Back(u, v)' \/ (v # BB_' /\ code'[v] = << >>) \/ rank[u] < rank[v]
    <3>1. Edge(u, v)
      BY <1>5, <1>16, <2>1
    <3>2. v \in 1 .. created
      BY <3>1, EdgeEnds
    <3> QED BY <1>12, <1>15, <1>16, <3>1, <3>2 DEF Ranked
  <2>2. Ranked(rank)'
    BY <2>1 DEF Ranked
  <2> QED BY <1>10, <1>11, <2>2 DEF LInv
<1>17. CASE BB_' # BB_
  <2> DEFINE N == {b \in Block : b = BB_' \/ b > created}
  <2>0. PICK next : next = [b \in Block |-> IF b \in N THEN K + 1 ELSE rank[b]]
    OBVIOUS
  <2>1. \A b \in N : code[b] = << >> /\ b # BB_
    <3> TAKE b \in N
    <3>1. CASE b > created
      BY <3>1, <1>2 DEF PInv, Fresh
    <3>2. CASE b = BB_' /\ BB_' \in Pending(Top)
      BY <3>2, <1>4
    <3> QED BY <3>1, <3>2, <1>17
  <2>2. next \in [Block -> 0 .. K + 1]
    BY <2>0
  <2>3. ASSUME NEW u \in Block, u \notin N, NEW v \in N PROVE next[u] < next[v]
    <3>1. next[u] = rank[u] /\ next[v] = K + 1 /\ rank[u] \in 0 .. K
      BY <2>0, <2>3
    <3> QED BY <3>1
  <2>4. ASSUME NEW u \in Block, NEW v \in Block, Edge(u, v)'
        PROVE  Back(u, v)' \/ (v # BB_' /\ code'[v] = << >>) \/ next[u] < next[v]
    <3>1. CASE Edge(u, v)
      <4>1. code[u] # << >> /\ v \in 1 .. created
        BY <3>1, EdgeEnds
      <4>2. u \notin N
        BY <2>1, <4>1
      <4>3. CASE v \in N
        BY <2>3, <4>2, <4>3
      <4>4. CASE v \notin N
        <5>1. next[u] = rank[u] /\ next[v] = rank[v] /\ v # BB_'
          BY <2>0, <4>2, <4>4
        <5> HIDE DEF N
        <5>2. v # BB_ /\ code[v] = << >> => code'[v] = << >>
          BY <4>1
        <5> QED BY <1>12, <1>15, <3>1, <5>1, <5>2 DEF Ranked
      <4> QED BY <4>3, <4>4
    <3>2. CASE u = BB_ /\ v \in T
      <4>1. u \notin N
        BY <2>1, <3>2
      <4>2. CASE v \in N
        BY <2>3, <4>1, <4>2
      <4>3. CASE v \notin N /\ v \in Pending(Top)
        <5>1. v # BB_' /\ code[v] = << >> /\ v # BB_ /\ v \in 1 .. created
          BY <1>4, <4>3
        <5> QED BY <5>1
      <4>4. CASE frames = << >> /\ v \in Heads(Top)
        BY <1>13, <3>2, <4>4
      <4> QED BY <3>2, <4>2, <4>3, <4>4
    <3> QED BY <1>5, <2>4, <3>1, <3>2
  <2>5. Ranked(next)'
    BY <2>4 DEF Ranked
  <2>6. K + 1 \in Nat
    OBVIOUS
  <2> QED BY <1>10, <1>11, <2>2, <2>5, <2>6 DEF LInv
<1> QED BY <1>16, <1>17

\* The elements of two lists, one after the other.
LEMMA ConcatSet ==
  ASSUME NEW S, NEW s \in Seq(S), NEW t \in Seq(S)
  PROVE  ToSet(s \o t) = ToSet(s) \cup ToSet(t)
<1> DEFINE n == Len(s)
           m == Len(t)
<1>1. /\ s \o t \in Seq(S) /\ Len(s \o t) = n + m
      /\ \A i \in 1 .. n + m : (s \o t)[i] = IF i <= n THEN s[i] ELSE t[i - n]
  BY ConcatProperties
<1>2. /\ n \in Nat /\ m \in Nat /\ DOMAIN s = 1 .. n /\ DOMAIN t = 1 .. m
      /\ DOMAIN (s \o t) = 1 .. n + m
  BY <1>1, LenProperties
<1>3. \A i \in 1 .. n : i \in 1 .. n + m /\ (s \o t)[i] = s[i]
  BY <1>1, <1>2
<1>4. \A i \in 1 .. m : n + i \in 1 .. n + m /\ (s \o t)[n + i] = t[i]
  <2> TAKE i \in 1 .. m
  <2>1. n + i \in 1 .. n + m /\ ~ n + i <= n /\ (n + i) - n = i
    BY <1>2
  <2> QED BY <1>1, <2>1
<1>5. \A i \in 1 .. n + m : \/ i \in 1 .. n /\ (s \o t)[i] = s[i]
                            \/ i - n \in 1 .. m /\ (s \o t)[i] = t[i - n]
  BY <1>1, <1>2
<1> DEFINE c == s \o t
<1> HIDE DEF n, m, c
<1>6. ASSUME NEW x \in ToSet(c) PROVE x \in ToSet(s) \cup ToSet(t)
  <2>1. PICK i \in 1 .. n + m : x = c[i]
    BY <1>2, <1>6 DEF ToSet, c
  <2>2. \/ i \in 1 .. n /\ c[i] = s[i]
        \/ i - n \in 1 .. m /\ c[i] = t[i - n]
    BY <1>5 DEF c
  <2> QED BY <1>2, <2>1, <2>2 DEF ToSet
<1>7. ASSUME NEW x \in ToSet(s) PROVE x \in ToSet(c)
  BY <1>2, <1>3, <1>7 DEF ToSet, c
<1>8. ASSUME NEW x \in ToSet(t) PROVE x \in ToSet(c)
  <2>1. PICK i \in 1 .. m : x = t[i]
    BY <1>2, <1>8 DEF ToSet
  <2>2. n + i \in 1 .. n + m /\ c[n + i] = x
    BY <1>4, <2>1 DEF c
  <2> QED BY <1>2, <2>2 DEF ToSet, c
<1> QED BY <1>6, <1>7, <1>8 DEF c

\* The edges after a branch.
LEMMA SuccSets ==
  ASSUME PInv, EInv, NEW t \in Seq(Block), succ' = SuccAfter(BB_, t)
  PROVE  \A a \in Block : ToSet(succ'[a]) = ToSet(succ[a]) \cup (IF a = BB_ THEN ToSet(t) ELSE {})
<1>1. succ \in [Block -> Seq(1 .. created)] /\ BB_ \in Block
  BY InsertPoint DEF EInv, Recorded
<1>2. succ[BB_] \in Seq(Block)
  <2>1. 1 .. created \subseteq Block
    BY Numbers
  <2> QED BY <1>1, <2>1, SeqMonotonic
<1>3. Reverse(t) \in Seq(Block) /\ ToSet(Reverse(t)) = ToSet(t)
  BY ReverseSame
<1>4. ToSet(succ[BB_] \o Reverse(t)) = ToSet(succ[BB_]) \cup ToSet(t)
  BY <1>2, <1>3, ConcatSet
<1>5. succ' = [succ EXCEPT ![BB_] = succ[BB_] \o Reverse(t)]
  BY DEF SuccAfter
<1> QED BY <1>1, <1>4, <1>5

\* A visit that names no block is not of a loop.
LEMMA NoHeads ==
  ASSUME NEW f, Nameless(f)
  PROVE  Named(f) = {} /\ Heads(f) = {}
BY NamelessSettled DEF Nameless, Named, Heads

\* Code added to a block that is open leaves the others alone.
LEMMA QuietCode ==
  ASSUME PInv, code' = code \/ Quiet(<<Plain>>) \/ Quiet(<<Ret>>) \/ Quiet(<<Plain, Ret>>)
  PROVE  \A b \in Block \ {BB_} : code'[b] = code[b]
<1>1. Typed /\ BB_ \in Block
  BY InsertPoint DEF PInv
<1>2. ASSUME NEW is \in Seq(Instruction), Clean(is), Quiet(is)
      PROVE  \A b \in Block \ {BB_} : code'[b] = code[b]
  BY <1>1, <1>2, EmittedClean DEF Quiet
<1> QED BY <1>2, Runs

\* Steps without a branch.
LEMMA LoopQuiet ==
  ASSUME PInv, PInv', EInv, EInv', LInv, stack # << >>,
         NEW frames \in Seq(Frame), Return(frames),
         UNCHANGED <<created, succ, BB_>>,
         \A b \in Block \ {BB_} : code'[b] = code[b],
         \A i \in DOMAIN frames : (frames[i] = Top /\ i = 1) \/ Nameless(frames[i])
  PROVE  LInv'
<1> DEFINE T == {}
<1>1. T \in SUBSET Block /\ \A v : v \notin T
  OBVIOUS
<1>2. \A a \in Block : ToSet(succ'[a]) = ToSet(succ[a]) \cup (IF a = BB_ THEN T ELSE {})
  OBVIOUS
<1> HIDE DEF T
<1>3. created' >= created /\ created' = created /\ \A b \in 1 .. created : b # BB_ => code'[b] = code[b]
  BY Numbers
<1>4. T = {}
  BY DEF T
<1>5. \A i \in DOMAIN frames :
           /\ \A x \in Named(frames[i]) : x \in Named(Top) \/ x > created
           /\ \A h \in Heads(frames[i]) : \/ h \in Heads(Top) /\ (BB_' = BB_ \/ BB_' > created)
                                          \/ h > created /\ h = created' /\ h = BB_'
           /\ i # 1 => Named(frames[i]) = {}
  BY NoHeads
<1> QED BY <1>1, <1>2, <1>3, <1>4, <1>5, LoopStep

\* Steps without a branch leave the loops as they were.
LEMMA LoopQuietly ==
  ASSUME PInv, PInv', EInv, EInv', LInv, NEW f, NEW g, Quietly(f, g)
  PROVE  LInv'
<1>1. PICK frames \in Seq(Frame) : Return(frames) /\ \A i \in DOMAIN frames : Nameless(frames[i])
  BY QuietFrames
<1>2. \A b \in Block \ {BB_} : code'[b] = code[b]
  BY QuietCode DEF Quietly
<1> QED BY <1>1, <1>2, LoopQuiet DEF Quietly

\* Computing instructions adds no edge.
LEMMA LoopCompute == ASSUME PInv, PInv', EInv, EInv', LInv, Compute PROVE LInv'
<1> DEFINE frames == <<Top>>
<1>1. /\ stack # << >> /\ stack' = stack /\ code' = Emitted(BB_, <<Plain>>)
      /\ UNCHANGED <<created, succ, BB_>> /\ Begins(Top)
  BY DEF Compute, In, Top, Begins
<1>2. Top \in Frame /\ Quiet(<<Plain>>) /\ Return(frames)
  BY <1>1, AtTop, Stays DEF Quiet
<1>3. frames \in Seq(Frame) /\ \A i \in DOMAIN frames : frames[i] = Top /\ i = 1
  BY <1>2
<1>4. \A b \in Block \ {BB_} : code'[b] = code[b]
  BY <1>2, QuietCode
<1> HIDE DEF frames
<1> QED BY <1>1, <1>2, <1>3, <1>4, LoopQuiet

\* The end of an if or of a branch of it, and of a loop.
LEMMA LoopEndElse == ASSUME PInv, PInv', EInv, EInv', LInv, EndElse PROVE LInv'
<1> DEFINE frames == << >>
           b == Top.contBB
<1>1. /\ stack # << >> /\ Top.visit = "else" /\ BranchUnlessTerminated(b)
      /\ BB_' = b /\ Return(frames) /\ UNCHANGED <<created, listed>>
  BY DEF EndElse, In, Top
<1>2. b \in Pending(Top) /\ b \in Named(Top)
  BY <1>1 DEF Pending, Named
<1>3. b \in Block /\ b # BB_
  BY <1>1, <1>2, TopNames, AtTop
<1>4. PICK t : t = IF Terminated(BB_) THEN << >> ELSE <<b>>
  OBVIOUS
<1>5. succ' = SuccAfter(BB_, t) /\ \A c \in Block \ {BB_} : code'[c] = code[c]
  BY <1>1, <1>3, <1>4, BranchTo
<1>6. t \in Seq(Block) /\ ToSet(t) \subseteq {b}
  BY <1>3, <1>4, OneTarget
<1>7. \A a \in Block : ToSet(succ'[a]) = ToSet(succ[a]) \cup (IF a = BB_ THEN ToSet(t) ELSE {})
  BY <1>5, <1>6, SuccSets
<1>8. frames \in Seq(Frame) /\ DOMAIN frames = {}
  OBVIOUS
<1>9. created' >= created /\ \A c \in 1 .. created : c # BB_ => code'[c] = code[c]
  BY <1>1, <1>5, Numbers
<1> DEFINE T == ToSet(t)
<1>10. T \in SUBSET Block /\ \A v \in T : v \in Pending(Top)
  BY <1>2, <1>3, <1>6
<1> HIDE DEF frames, b, T
<1> QED BY <1>1, <1>2, <1>3, <1>7, <1>8, <1>9, <1>10, LoopStep DEF T

\* Erasing the false block of an if takes no predecessor from a condition.
LEMMA LoopWithoutElse ==
  ASSUME PInv, PInv', EInv, EInv', LInv, EndThenWithoutElse PROVE LInv'
<1> DEFINE frames == << >>
           b == Top.contBB
<1>1. /\ stack # << >> /\ Top.visit = "then"
      /\ BB_' = b /\ Return(frames) /\ created' = created
  BY DEF EndThenWithoutElse, In, Top
<1>2. b \in Pending(Top) /\ b \in Named(Top)
  BY <1>1 DEF Pending, Named
<1>3. b \in Block /\ b # BB_
  BY <1>1, <1>2, TopNames, AtTop
<1>4. PICK t : t = IF Terminated(BB_) THEN << >> ELSE <<b>>
  OBVIOUS
<1>5. succ' = SuccAfter(BB_, t) /\ \A c \in Block \ {BB_} : code'[c] = code[c]
  BY <1>4, Erased
<1>6. t \in Seq(Block) /\ ToSet(t) \subseteq {b}
  BY <1>3, <1>4, OneTarget
<1>7. \A a \in Block : ToSet(succ'[a]) = ToSet(succ[a]) \cup (IF a = BB_ THEN ToSet(t) ELSE {})
  BY <1>5, <1>6, SuccSets
<1>8. frames \in Seq(Frame) /\ DOMAIN frames = {}
  OBVIOUS
<1>9. created' >= created /\ \A c \in 1 .. created : c # BB_ => code'[c] = code[c]
  BY <1>1, <1>5, Numbers
<1> DEFINE T == ToSet(t)
<1>10. T \in SUBSET Block /\ \A v \in T : v \in Pending(Top)
  BY <1>2, <1>3, <1>6
<1> HIDE DEF frames, b, T
<1> QED BY <1>1, <1>2, <1>3, <1>7, <1>8, <1>9, <1>10, LoopStep DEF T

\* The branch to the join of an if gives no condition a predecessor.
LEMMA LoopBeginElse ==
  ASSUME PInv, PInv', EInv, EInv', LInv, EndThenBeginElse PROVE LInv'
<1> DEFINE b == Top.contBB
           c == Top.falseBB
           f == Else(b)
           frames == <<f, Statement>>
<1>1. /\ stack # << >> /\ Top.visit = "then" /\ BranchUnlessTerminated(b)
      /\ BB_' = c /\ Return(frames) /\ UNCHANGED <<created, listed>>
  BY DEF EndThenBeginElse, In, Top
<1>2. b \in Pending(Top) /\ c \in Pending(Top) /\ b \in Named(Top) /\ c \in Named(Top)
  BY <1>1 DEF Pending, Named
<1>3. b \in Block /\ c \in Block /\ c # BB_
  BY <1>1, <1>2, TopNames, AtTop
<1>4. PICK t : t = IF Terminated(BB_) THEN << >> ELSE <<b>>
  OBVIOUS
<1>5. succ' = SuccAfter(BB_, t) /\ \A x \in Block \ {BB_} : code'[x] = code[x]
  BY <1>1, <1>3, <1>4, BranchTo
<1>6. t \in Seq(Block) /\ ToSet(t) \subseteq {b}
  BY <1>3, <1>4, OneTarget
<1>7. \A a \in Block : ToSet(succ'[a]) = ToSet(succ[a]) \cup (IF a = BB_ THEN ToSet(t) ELSE {})
  BY <1>5, <1>6, SuccSets
<1>8. f \in Frame /\ Named(f) = {b} /\ Heads(f) = {}
  <2>1. f.visit = "else" /\ f \in Frame /\ Pending(f) = {b}
    BY <1>3, Shapes DEF Shape, Else
  <2> QED BY <2>1 DEF Named, Heads
<1>9. Statement \in Frame /\ Named(Statement) = {} /\ Heads(Statement) = {}
  BY NamelessFrames, NoHeads
<1> HIDE DEF f, b, c
<1>10. /\ frames \in Seq(Frame) /\ DOMAIN frames = {1, 2} /\ frames[1] = f /\ frames[2] = Statement
  BY <1>8, <1>9
<1>11. created' >= created /\ \A x \in 1 .. created : x # BB_ => code'[x] = code[x]
  BY <1>1, <1>5, Numbers
<1> DEFINE T == ToSet(t)
<1>12. T \in SUBSET Block /\ \A v \in T : v \in Pending(Top)
  BY <1>2, <1>3, <1>6
<1> HIDE DEF frames, T
<1>13. \A i \in DOMAIN frames :
           /\ \A x \in Named(frames[i]) : x \in Named(Top) \/ x > created
           /\ Heads(frames[i]) = {}
           /\ i # 1 => Named(frames[i]) = {}
  BY <1>2, <1>8, <1>9, <1>10
<1> QED BY <1>1, <1>2, <1>3, <1>7, <1>10, <1>11, <1>12, <1>13, LoopStep DEF T

\* The end of a loop's body closes the loop.
LEMMA LoopEndBody == ASSUME PInv, PInv', EInv, EInv', LInv, EndBody PROVE LInv'
<1> DEFINE frames == << >>
           b == Top.exprBB
           c == Top.contBB
<1>1. /\ stack # << >> /\ Top.visit = "body" /\ BranchUnlessTerminated(b)
      /\ BB_' = c /\ Return(frames) /\ UNCHANGED <<created, listed>>
  BY DEF EndBody, In, Top
<1>2. c \in Pending(Top) /\ c \in Named(Top) /\ b \in Named(Top) /\ b \in Heads(Top)
  BY <1>1 DEF Pending, Named, Heads
<1>3. b \in Block /\ c \in Block /\ c # BB_
  BY <1>1, <1>2, TopNames, AtTop
<1>4. PICK t : t = IF Terminated(BB_) THEN << >> ELSE <<b>>
  OBVIOUS
<1>5. succ' = SuccAfter(BB_, t) /\ \A x \in Block \ {BB_} : code'[x] = code[x]
  BY <1>1, <1>3, <1>4, BranchTo
<1>6. t \in Seq(Block) /\ ToSet(t) \subseteq {b}
  BY <1>3, <1>4, OneTarget
<1>7. \A a \in Block : ToSet(succ'[a]) = ToSet(succ[a]) \cup (IF a = BB_ THEN ToSet(t) ELSE {})
  BY <1>5, <1>6, SuccSets
<1>8. frames \in Seq(Frame) /\ DOMAIN frames = {} /\ frames = << >>
  OBVIOUS
<1>9. created' >= created /\ \A x \in 1 .. created : x # BB_ => code'[x] = code[x]
  BY <1>1, <1>5, Numbers
<1> DEFINE T == ToSet(t)
<1>10. T \in SUBSET Block /\ \A v \in T : v \in Heads(Top)
  BY <1>2, <1>3, <1>6
<1> HIDE DEF frames, b, c, T
<1> QED BY <1>1, <1>2, <1>3, <1>7, <1>8, <1>9, <1>10, LoopStep DEF T

\* A loop begins.
LEMMA LoopIteration == ASSUME PInv, PInv', EInv, EInv', LInv, VisitIteration PROVE LInv'
<1> DEFINE e == created + 1
           f == LoopCondition(e)
           frames == <<f>>
<1>1. /\ stack # << >> /\ Return(frames) /\ CreateBlocks(1) /\ BranchUnlessTerminated(e) /\ BB_' = e
  BY DEF VisitIteration, In
<1>2. 1 \in Nat /\ created \in Nat /\ e \in created + 1 .. created + 1 /\ e > created /\ e >= created
  BY Numbers
<1>3. created' = e /\ e \in Block /\ e # BB_
  <2>1. created' = created + 1 /\ e \in Block
    BY <1>1, <1>2, NewListed
  <2> QED BY <2>1, Numbers
<1> HIDE DEF e
<1>4. f \in Frame /\ Named(f) = {e} /\ Heads(f) = {e}
  <2>1. f.visit = "loop condition" /\ f.exprBB = e
    BY DEF LoopCondition
  <2>2. f \in Frame /\ Pending(f) = {}
    BY <1>3, Shapes DEF Shape
  <2> HIDE DEF f
  <2> QED BY <2>1, <2>2 DEF Named, Heads
<1> HIDE DEF f
<1>5. frames \in Seq(Frame) /\ DOMAIN frames = {1} /\ frames[1] = f
  BY <1>4
<1>6. PICK t : t = IF Terminated(BB_) THEN << >> ELSE <<e>>
  OBVIOUS
<1>7. succ' = SuccAfter(BB_, t) /\ \A x \in Block \ {BB_} : code'[x] = code[x]
  BY <1>1, <1>3, <1>6, BranchTo
<1>8. t \in Seq(Block) /\ ToSet(t) \subseteq {e}
  BY <1>3, <1>6, OneTarget
<1>9. \A a \in Block : ToSet(succ'[a]) = ToSet(succ[a]) \cup (IF a = BB_ THEN ToSet(t) ELSE {})
  BY <1>7, <1>8, SuccSets
<1>10. \A x \in 1 .. created : x # BB_ => code'[x] = code[x]
  BY <1>7, Numbers
<1> DEFINE T == ToSet(t)
<1>11. T \in SUBSET Block /\ \A v \in T : v > created
  BY <1>2, <1>3, <1>8
<1> HIDE DEF frames, T
<1>12. \A i \in DOMAIN frames :
           /\ \A x \in Named(frames[i]) : x > created
           /\ \A h \in Heads(frames[i]) : h > created /\ h = created' /\ h = BB_'
           /\ i = 1
  BY <1>1, <1>2, <1>3, <1>4, <1>5
<1> QED BY <1>1, <1>2, <1>3, <1>5, <1>9, <1>10, <1>11, <1>12, LoopStep DEF T

\* A test with a branch to two new blocks.
LEMMA LoopTest ==
  ASSUME PInv, PInv', EInv, EInv', LInv, stack # << >>, Begins(Top),
         NEW frames \in Seq(Frame), Return(frames), NEW k \in Nat, CreateBlocks(k), BB_' > created,
         NEW x \in created + 1 .. created + k, NEW y \in created + 1 .. created + k, x # y,
         \/ code' = Emitted(BB_, <<Plain, CondBr(x, y)>>)
         \/ code' = [Emitted(BB_, <<Plain, CondBr(x, y)>>) EXCEPT
                       ![x] = <<Plain, Ret>>, ![y] = <<Plain>>],
         succ' = SuccAfter(BB_, <<x, y>>),
         \A i \in DOMAIN frames : /\ \A b \in Named(frames[i]) : b \in Named(Top) \/ b > created
                                  /\ Heads(frames[i]) \subseteq Heads(Top)
                                  /\ i # 1 => Named(frames[i]) = {}
  PROVE  LInv'
<1> DEFINE t == <<x, y>>
           next == Emitted(BB_, <<Plain, CondBr(x, y)>>)
<1>1. /\ created' = created + k /\ created' \in Nat
      /\ \A b \in created + 1 .. created + k : b > created /\ b \in Block
  BY NewListed
<1>2. /\ created \in Nat /\ BB_ \in Block /\ BB_ \in 1 .. created
      /\ \A b \in 1 .. created : b \in Block /\ b # x /\ b # y
  BY Numbers, <1>1
<1>3. x \in Block /\ y \in Block /\ x > created /\ y > created
  BY <1>1
<1>4. t \in Seq(Block) /\ ToSet(t) = {x, y}
  BY <1>3, TwoTargets
<1>5. \A b \in 1 .. created : b # BB_ => next[b] = code[b]
  <2> DEFINE is == <<Plain, CondBr(x, y)>>
  <2>1. is \in Seq(Instruction) /\ Clean(is)
    BY <1>3, Runs
  <2>2. Typed /\ Open(code[BB_])
    BY AtTop DEF PInv
  <2> HIDE DEF is
  <2>3. \A b \in Block \ {BB_} : Emitted(BB_, is)[b] = code[b]
    BY <1>2, <2>1, <2>2, EmittedClean
  <2> QED BY <1>2, <2>3 DEF is
<1>6. \A b \in 1 .. created : code'[b] = next[b]
  <2> DEFINE r == <<Plain, Ret>>
             p == <<Plain>>
  <2>1. code' = next \/ code' = [next EXCEPT ![x] = r, ![y] = p]
    OBVIOUS
  <2>2. DOMAIN next = Block
    BY DEF Emitted, PInv, Typed
  <2> HIDE DEF next, r, p
  <2> QED BY <1>2, <2>1, <2>2
<1> DEFINE T == ToSet(t)
<1>7. \A a \in Block : ToSet(succ'[a]) = ToSet(succ[a]) \cup (IF a = BB_ THEN T ELSE {})
  BY <1>4, SuccSets
<1> HIDE DEF next
<1>8. \A b \in 1 .. created : b # BB_ => code'[b] = code[b]
  BY <1>5, <1>6
<1>9. T \in SUBSET Block /\ \A v \in T : v > created
  BY <1>3, <1>4
<1>10. created' >= created /\ BB_' # BB_
  BY <1>1, <1>2
<1> HIDE DEF T
<1>11. \A i \in DOMAIN frames :
           /\ \A b \in Named(frames[i]) : b \in Named(Top) \/ b > created
           /\ \A h \in Heads(frames[i]) : \/ h \in Heads(Top) /\ (BB_' = BB_ \/ BB_' > created)
                                          \/ h > created /\ h = created' /\ h = BB_'
           /\ i # 1 => Named(frames[i]) = {}
  OBVIOUS
<1> QED BY <1>7, <1>8, <1>9, <1>10, <1>11, LoopStep

\* The branch of an if goes to new blocks, none of them a condition.
LEMMA LoopBeginThen == ASSUME PInv, PInv', EInv, EInv', LInv, BeginThen PROVE LInv'
<1> DEFINE x == created + 1
           f == created + 2
           c == created + 3
           else == Top.else
           y == IF else THEN f ELSE c
           then == Then(f, c, else)
           frames == <<then, Statement>>
<1>1. /\ stack # << >> /\ Top.visit = "condition" /\ CreateBlocks(3) /\ 3 \in Nat
      /\ Branch(<<Plain>>, CondBr(x, y)) /\ BB_' = x /\ Return(frames)
  BY DEF BeginThen, In, Top
<1>2. Top \in Frame /\ else \in BOOLEAN /\ Begins(Top)
  BY <1>1, AtTop, Kinds DEF Begins
<1>3. /\ x \in created + 1 .. created + 3 /\ f \in created + 1 .. created + 3
      /\ c \in created + 1 .. created + 3 /\ y \in created + 1 .. created + 3
      /\ x # y
  BY Numbers
<1> HIDE DEF x, f, c, else, y
<1>4. \A b \in {x, f, c, y} : b > created /\ b \in Block
  BY <1>1, <1>3, NewListed
<1>5. /\ code' = Emitted(BB_, <<Plain, CondBr(x, y)>>) /\ succ' = SuccAfter(BB_, <<x, y>>)
  BY <1>1, <1>4, Test
<1>6. then \in Frame /\ Named(then) = {f, c} /\ Heads(then) = {}
  <2>1. then.visit = "then"
    BY DEF Then
  <2>2. then \in Frame /\ Pending(then) = {f, c}
    BY <1>2, <1>4, Shapes DEF Shape
  <2> HIDE DEF then
  <2> QED BY <2>1, <2>2 DEF Named, Heads
<1> HIDE DEF then
<1>7. Statement \in Frame /\ Named(Statement) = {} /\ Heads(Statement) = {}
  BY NamelessFrames, NoHeads
<1>8. frames \in Seq(Frame) /\ DOMAIN frames = {1, 2} /\ frames[1] = then /\ frames[2] = Statement
  BY <1>6, <1>7
<1> HIDE DEF frames
<1>9. \A i \in DOMAIN frames : /\ \A b \in Named(frames[i]) : b \in Named(Top) \/ b > created
                               /\ Heads(frames[i]) \subseteq Heads(Top)
                               /\ i # 1 => Named(frames[i]) = {}
  BY <1>4, <1>6, <1>7, <1>8
<1>10. BB_' > created
  BY <1>1, <1>4
<1> QED BY <1>1, <1>2, <1>3, <1>5, <1>8, <1>9, <1>10, LoopTest

\* The branch of a condition goes to new blocks, none of them a condition.
LEMMA LoopBeginBody == ASSUME PInv, PInv', EInv, EInv', LInv, BeginBody PROVE LInv'
<1> DEFINE x == created + 1
           c == created + 2
           e == Top.exprBB
           body == Body(e, c)
           frames == <<body, Statement>>
<1>1. /\ stack # << >> /\ Top.visit = "loop condition" /\ CreateBlocks(2) /\ 2 \in Nat
      /\ Branch(<<Plain>>, CondBr(x, c)) /\ BB_' = x /\ Return(frames)
  BY DEF BeginBody, In, Top
<1>2. Top \in Frame /\ Begins(Top)
  BY <1>1, AtTop DEF Begins
<1>3. x \in created + 1 .. created + 2 /\ c \in created + 1 .. created + 2 /\ x # c
  BY Numbers
<1> HIDE DEF x, c
<1>4. \A b \in {x, c} : b > created /\ b \in Block
  BY <1>1, <1>3, NewListed
<1>5. /\ code' = Emitted(BB_, <<Plain, CondBr(x, c)>>) /\ succ' = SuccAfter(BB_, <<x, c>>)
  BY <1>1, <1>4, Test
<1>6. e \in Named(Top) /\ e \in Heads(Top) /\ e \in Block
  <2>1. e \in Named(Top) /\ e \in Heads(Top)
    BY <1>1 DEF Named, Heads
  <2> QED BY <1>1, <2>1, TopNames
<1> HIDE DEF e
<1>7. body \in Frame /\ Named(body) = {c, e} /\ Heads(body) = {e}
  <2>1. body.visit = "body" /\ body.exprBB = e
    BY DEF Body
  <2>2. body \in Frame /\ Pending(body) = {c}
    BY <1>4, <1>6, Shapes DEF Shape
  <2> HIDE DEF body
  <2> QED BY <2>1, <2>2 DEF Named, Heads
<1> HIDE DEF body
<1>8. Statement \in Frame /\ Named(Statement) = {} /\ Heads(Statement) = {}
  BY NamelessFrames, NoHeads
<1>9. frames \in Seq(Frame) /\ DOMAIN frames = {1, 2} /\ frames[1] = body /\ frames[2] = Statement
  BY <1>7, <1>8
<1> HIDE DEF frames
<1>10. \A i \in DOMAIN frames : /\ \A b \in Named(frames[i]) : b \in Named(Top) \/ b > created
                                /\ Heads(frames[i]) \subseteq Heads(Top)
                                /\ i # 1 => Named(frames[i]) = {}
  BY <1>4, <1>6, <1>7, <1>8, <1>9
<1>11. BB_' > created
  BY <1>1, <1>4
<1> QED BY <1>1, <1>2, <1>3, <1>5, <1>9, <1>10, <1>11, LoopTest

\* The branch of an index check goes to new blocks, none of them a condition.
LEMMA LoopIndexAccess == ASSUME PInv, PInv', EInv, EInv', LInv, IndexAccess PROVE LInv'
<1> DEFINE x == created + 1
           c == created + 2
           frames == <<Top>>
<1>1. /\ stack # << >> /\ Top.visit \in {"expression", "return", "condition", "loop condition"}
      /\ CreateBlocks(2) /\ 2 \in Nat
      /\ code' = [Emitted(BB_, <<Plain, CondBr(x, c)>>) EXCEPT ![x] = <<Plain, Ret>>, ![c] = <<Plain>>]
      /\ succ' = SuccAfter(BB_, <<x, c>>)
      /\ BB_' = c /\ stack' = stack
  BY DEF IndexAccess, In, Top
<1>2. Top \in Frame /\ Begins(Top)
  BY <1>1, AtTop DEF Begins
<1>3. x \in created + 1 .. created + 2 /\ c \in created + 1 .. created + 2 /\ x # c /\ c > created
  BY Numbers
<1> HIDE DEF x, c
<1>4. Return(frames)
  BY <1>1, Stays
<1>5. frames \in Seq(Frame) /\ DOMAIN frames = {1} /\ frames[1] = Top
  BY <1>2
<1> HIDE DEF frames
<1>6. \A i \in DOMAIN frames : /\ \A b \in Named(frames[i]) : b \in Named(Top) \/ b > created
                               /\ Heads(frames[i]) \subseteq Heads(Top)
                               /\ i # 1 => Named(frames[i]) = {}
  BY <1>5
<1>7. BB_' > created
  BY <1>1, <1>3
<1> QED BY <1>1, <1>2, <1>3, <1>4, <1>5, <1>6, <1>7, LoopTest

\* A function begins without edges.
LEMMA LoopsInitially == Init => LInv
<1> SUFFICES ASSUME Init PROVE LInv
  OBVIOUS
<1>1. PInv /\ EInv /\ code \in [Block -> Seq(Instruction)]
  BY Initially, EdgesInitially DEF PInv, Typed
<1>2. stack = <<Function(TRUE)>> /\ succ = [b \in Block |-> << >>]
  BY DEF Init
<1>3. DOMAIN stack = {1} /\ Nameless(stack[1])
  <2> DEFINE f == Function(TRUE)
  <2>1. Nameless(f) /\ stack = <<f>>
    BY <1>2, NamelessFrames
  <2> HIDE DEF f
  <2> QED BY <2>1
<1>4. \A a \in Block : ToSet(succ[a]) = {}
  BY <1>2 DEF ToSet
<1>5. \A a, b \in Block : ~ Edge(a, b)
  BY <1>4 DEF Edge
<1>6. Inside /\ Older
  BY <1>3, <1>5, NoHeads DEF Inside, Older
<1>7. Ranked([b \in Block |-> 0])
  BY <1>5 DEF Ranked
<1>8. [b \in Block |-> 0] \in [Block -> 0 .. 0] /\ 0 \in Nat
  OBVIOUS
<1> QED BY <1>6, <1>7, <1>8 DEF LInv

\* Every step of the visitor keeps loops as they have to be.
LEMMA LoopsInductive == PInv /\ EInv /\ LInv /\ [Next]_vars => LInv'
<1> SUFFICES ASSUME PInv, EInv, LInv, [Next]_vars PROVE LInv'
  OBVIOUS
<1>1. PInv' /\ EInv'
  BY Inductive, EdgesInductive
<1>2. CASE UNCHANGED vars
  <2>1. UNCHANGED <<created, code, succ, BB_, stack>>
    BY <1>2 DEF vars, blocks
  <2>2. \A u, v : Edge(u, v)' <=> Edge(u, v)
    BY <2>1 DEF Edge
  <2>3. \A u, v : Back(u, v)' <=> Back(u, v)
    BY <2>1, <2>2 DEF Back
  <2>4. \A rank : Ranked(rank)' <=> Ranked(rank)
    BY <2>1, <2>2, <2>3 DEF Ranked
  <2>5. Inside' /\ Older'
    BY <2>1, <2>2 DEF LInv, Inside, Older
  <2> QED BY <2>4, <2>5 DEF LInv
<1>3. CASE \/ VisitFunctionBody \/ NextStatement \/ VisitCompound \/ VisitExpressionStmt
           \/ EndExpression \/ VisitReturn \/ VisitVoidReturn \/ EndCompound \/ EndFunction
           \/ \E yes \in BOOLEAN : VisitSelection(yes) \/ EndReturn(yes)
  <2>1. PICK f, g : Quietly(f, g)
    BY <1>3, QuietVisits
  <2> QED BY <1>1, <2>1, LoopQuietly
<1>4. CASE Compute
  BY <1>1, <1>4, LoopCompute
<1>5. CASE VisitIteration
  BY <1>1, <1>5, LoopIteration
<1>6. CASE IndexAccess
  BY <1>1, <1>6, LoopIndexAccess
<1>7. CASE BeginThen
  BY <1>1, <1>7, LoopBeginThen
<1>8. CASE BeginBody
  BY <1>1, <1>8, LoopBeginBody
<1>9. CASE EndThenWithoutElse
  BY <1>1, <1>9, LoopWithoutElse
<1>10. CASE EndThenBeginElse
  BY <1>1, <1>10, LoopBeginElse
<1>11. CASE EndElse
  BY <1>1, <1>11, LoopEndElse
<1>12. CASE EndBody
  BY <1>1, <1>12, LoopEndBody
<1> QED BY <1>2, <1>3, <1>4, <1>5, <1>6, <1>7, <1>8, <1>9, <1>10, <1>11, <1>12 DEF Next

\* A block that something branches to has code when the function is complete.
LEMMA TargetsDone ==
  ASSUME PInv, EInv, Done, NEW u \in Block, NEW v \in Block, Edge(u, v)
  PROVE  code[v] # << >>
<1>1. u \in ToSet(pre[v]) /\ v \in 1 .. created
  BY EdgeEnds DEF Edge, EInv, Recorded
<1>2. pre[v] # << >>
  BY <1>1, NoTargets
<1>3. v \in ToSet(listed)
  BY <1>1, <1>2 DEF EInv, Unlisted
<1>4. PICK k \in DOMAIN listed : listed[k] = v
  BY <1>3 DEF ToSet
<1>5. DOMAIN stack = {} /\ Terminated(BB_)
  BY DEF Done, PInv, Covered
<1>6. Terminated(v)
  BY <1>4, <1>5 DEF PInv, Covered
<1> QED BY <1>6 DEF Terminated

\* Every loop of a complete function has one entrance: the invariant in terms of graphs.
LEMMA DoneReducible ==
  ASSUME PInv, EInv, LInv, Done
  PROVE  Reducible(Entry, 1 .. created, Edges)
<1> DEFINE N == 1 .. created
           R == ReachableFrom({Entry}, N, Edges)
<1>1. IsFiniteSet(N)
  <2>1. created \in Int /\ 1 \in Int
    BY Numbers
  <2> QED BY <2>1, FS_Interval
<1>2. R \subseteq Block
  <2>1. R \subseteq {Entry} \cup N
    BY <1>1, ReachableClosed
  <2> QED BY <2>1, Numbers DEF Entry, Block
<1>3. PICK K \in Nat : \E rank \in [Block -> 0 .. K] : Ranked(rank)
  BY DEF LInv
<1>4. PICK rank \in [Block -> 0 .. K] : Ranked(rank)
  BY <1>3
<1>5. \A u, v : <<u, v>> \in Edges <=> u \in Block /\ v \in Block /\ Edge(u, v)
  BY DEF Edges, Edge
<1> HIDE DEF R
<1>6. \A n \in R : rank[n] \in Nat
  BY <1>2
<1>7. ASSUME NEW u \in R, NEW v \in R, <<u, v>> \in Edges
      PROVE  \/ rank[u] < rank[v]
             \/ \E B : u \in B /\ EnteredAt(B, v, Entry, Edges)
  <2>1. u \in Block /\ v \in Block /\ Edge(u, v)
    BY <1>5, <1>7
  <2>2. code[v] # << >>
    BY <2>1, TargetsDone
  <2>3. CASE Back(u, v)
    <3>1. PICK m \in v .. created :
            /\ u \in v .. m
            /\ \A a, b \in Block : Edge(a, b) /\ b \in v + 1 .. m => a \in v .. m
      BY <2>3 DEF Back
    <3>2. v # Entry /\ v \in Nat \ {0} /\ m \in Nat /\ v <= m
      BY <2>1, <2>3, <3>1 DEF Back, Block
    <3> DEFINE B == v .. m
    <3>3. v \in B /\ Entry \notin B
      BY <3>2 DEF Entry
    <3>4. \A b \in B \ {v} : b \in v + 1 .. m
      BY <3>2
    <3>5. \A a, b : <<a, b>> \in Edges /\ b \in B \ {v} => a \in B
      BY <1>5, <3>1, <3>4
    <3>6. EnteredAt(B, v, Entry, Edges)
      BY <3>3, <3>5 DEF EnteredAt
    <3> QED BY <3>1, <3>6
  <2> QED BY <1>4, <2>1, <2>2, <2>3 DEF Ranked
<1> QED
  <2> HIDE DEF N
  <2>1. \A n \in ReachableFrom({Entry}, N, Edges) : rank[n] \in Nat
    BY <1>6 DEF R
  <2>2. \A u, v \in ReachableFrom({Entry}, N, Edges) :
          <<u, v>> \in Edges => \/ rank[u] < rank[v]
                                \/ \E B : u \in B /\ EnteredAt(B, v, Entry, Edges)
    BY <1>7 DEF R
  <2>3. Reducible(Entry, N, Edges)
    BY <1>1, <2>1, <2>2, ReducibleByRank
  <2> QED BY <2>3 DEF N

\* However loops, returns and array accesses nest: nothing branches to the entry block, and
\* every cycle of a complete function is entered through one block, which dominates the
\* rest (the head of a while; LoopSearch takes it for the base, LoopInvHoist puts code in
\* front of it).
THEOREM OneEntry == Spec => []LoopsHaveOneEntry
<1>1. Init => PInv /\ EInv /\ LInv
  BY Initially, EdgesInitially, LoopsInitially
<1>2. PInv /\ EInv /\ LInv /\ [Next]_vars => (PInv /\ EInv /\ LInv)'
  BY Inductive, EdgesInductive, LoopsInductive
<1>3. PInv /\ EInv /\ LInv => LoopsHaveOneEntry
  BY DoneReducible DEF LoopsHaveOneEntry, EInv
<1> QED BY <1>1, <1>2, <1>3, PTL DEF Spec

-------------------------------------------------------------------------------
(* The entry *)

\* The entry stays on the list: what is taken off it is named by a visit.
LEMMA EntryListed ==
  ASSUME PInv, EInv, Entry \in ToSet(listed), [Next]_vars
  PROVE  Entry \in ToSet(listed')
<1>1. listed \in Seq(1 .. created)
  BY DEF PInv, Typed
<1>2. ASSUME NEW k \in Nat, CreateBlocks(k) PROVE Entry \in ToSet(listed')
  BY <1>2, NewListed
<1>3. CASE VisitIteration \/ BeginThen \/ BeginBody \/ IndexAccess
  BY <1>2, <1>3 DEF VisitIteration, BeginThen, BeginBody, IndexAccess
<1>4. CASE EndThenWithoutElse
  <2>1. In({"then"}) /\ listed' = RemoveFirst(listed, Top.falseBB)
    BY <1>4 DEF EndThenWithoutElse
  <2>2. Top.falseBB \in Named(Top)
    BY <2>1 DEF In, Top, Named, Pending
  <2>3. Entry # Top.falseBB
    BY <2>1, <2>2, TopSettled DEF Settled, In
  <2>4. Once(listed)
    BY DEF PInv, Covered
  <2>5. PICK m \in DOMAIN listed : listed[m] = Entry
    BY DEF ToSet
  <2>6. \E j \in DOMAIN listed' : listed'[j] = listed[m]
    BY <1>1, <2>1, <2>3, <2>4, <2>5, Removed
  <2> QED BY <2>5, <2>6 DEF ToSet
<1>5. CASE ~ (VisitIteration \/ BeginThen \/ BeginBody \/ IndexAccess \/ EndThenWithoutElse)
  <2>1. listed' = listed
    BY <1>5 DEF Next, vars, blocks, VisitSelection, EndReturn, VisitFunctionBody, NextStatement,
                VisitCompound, EnterCompound, Compute, VisitExpressionStmt, EndExpression,
                VisitReturn, VisitVoidReturn, EndCompound, EndThenBeginElse, EndElse, EndBody,
                EndFunction
  <2> QED BY <2>1
<1> QED BY <1>3, <1>4, <1>5

\* A list of a larger set.
LEMMA WiderSeq ==
  ASSUME NEW S, NEW T, S \subseteq T, NEW s \in Seq(S)
  PROVE  s \in Seq(T)
<1>1. Len(s) \in Nat /\ \A i \in 1 .. Len(s) : s[i] \in S
  BY LenProperties, ElementOfSeq
<1>2. s \in [1 .. Len(s) -> T]
  BY <1>1, LenProperties
<1> QED BY <1>1, <1>2, SeqDef

\* What the passes are given: blocks that are listed once, and edges between them that are
\* recorded at both ends, once at the target.
FunctionMade ==
  /\ listed \in Seq(Block) /\ Once(listed)
  /\ pre \in [Block -> Seq(Block)] /\ succ \in [Block -> Seq(Block)]
  /\ \A b \in Block : Once(pre[b])
  /\ \A b, c \in Block : /\ c \in ToSet(succ[b]) <=> b \in ToSet(pre[c])
                         /\ c \in ToSet(succ[b]) => b \in ToSet(listed) /\ c \in ToSet(listed)

\* What CminusfBuilder leaves is a function as the passes need it.
LEMMA GivenToPasses ==
  ASSUME PInv, EInv
  PROVE  FunctionMade
<1>1. 1 .. created \subseteq Block
  BY Numbers
<1>2. listed \in Seq(Block) /\ Once(listed)
  <2>1. listed \in Seq(1 .. created) /\ Once(listed)
    BY DEF PInv, Typed, Covered
  <2> QED BY <1>1, <2>1, WiderSeq
<1>3. pre \in [Block -> Seq(Block)] /\ succ \in [Block -> Seq(Block)]
  <2>1. \A s \in Seq(1 .. created) : s \in Seq(Block)
    BY <1>1, WiderSeq
  <2> QED BY <2>1 DEF EInv, Recorded
<1>4. \A b \in Block : Once(pre[b])
  BY DEF EInv, Recorded
<1>5. \A b, c \in Block : c \in ToSet(succ[b]) <=> b \in ToSet(pre[c])
  BY DEF EInv, Recorded
<1>6. ASSUME NEW b \in Block, NEW c \in Block, c \in ToSet(succ[b])
      PROVE  b \in ToSet(listed) /\ c \in ToSet(listed)
  <2>1. code[b] # << >> /\ b \in 1 .. created /\ c \in 1 .. created
    BY <1>6, EdgeEnds DEF Edge
  <2>2. pre[c] # << >>
    <3>1. b \in ToSet(pre[c]) /\ pre[c] \in Seq(Block)
      BY <1>3, <1>5, <1>6
    <3> QED BY <3>1, Elements
  <2> QED BY <2>1, <2>2 DEF EInv, Unlisted
<1> QED BY <1>2, <1>3, <1>4, <1>5, <1>6 DEF FunctionMade
===============================================================================
