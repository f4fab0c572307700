---------------------------- MODULE TacExecution ----------------------------
(***************************************************************************)
(* The three-address code of one function unit, run statement by statement. *)
(* The code is what TacGenerator makes of a tree and TargetIr cuts out of   *)
(* it; running it is the meaning of the statement kinds, and is compared    *)
(* with the meaning of the tree (TacSemantics) and with the basic blocks.   *)
(***************************************************************************)
EXTENDS TacSemantics

CONSTANTS Programs,          \* the trees that are compiled
          Arguments          \* the values a parameter may have

VARIABLES unit,      \* the function that runs, its tree and its arguments
          pc,        \* the number of the next statement
          mem,       \* the variables and the temporaries, by operand
          calls,     \* the calls made so far
          value,     \* the value returned, as a sequence of at most one
          left       \* whether the function has been left

vars == <<unit, pc, mem, calls, value, left>>

Code == unit.ir.code
First == IF Code = << >> THEN 1 ELSE Code[1].no
After == First + Len(Code)          \* one past the last statement
Here == Code[pc - First + 1]

Ready == /\ pc = First
         /\ mem = InitialMemory(unit.ir, unit.args)
         /\ calls = << >> /\ value = << >> /\ left = FALSE

Init == /\ \E p \in Programs : \E u \in UnitsOf(p) :
             \E args \in [Range(u.ir.parameters) -> Arguments] : unit = Started(u, args)
        /\ Ready

Running(ops) == ~left /\ pc < After /\ Here.op \in ops

Compute == /\ Running(Assignments)
           /\ mem' = [mem EXCEPT ![Here.result] = ResultOf(mem, Here)]
           /\ calls' = calls \o CallsMade(mem, Here)
           /\ pc' = pc + 1
           /\ UNCHANGED <<unit, value, left>>

Goto == /\ Running({"GOTO"})
        /\ pc' = Here.target
        /\ UNCHANGED <<unit, mem, calls, value, left>>

IfGoto == /\ Running({"IF_GOTO"})
          /\ pc' = IF Test(mem, Here.arg1) THEN Here.target ELSE pc + 1
          /\ UNCHANGED <<unit, mem, calls, value, left>>

Return == /\ Running({"RETURN"})
          /\ left' = TRUE
          /\ value' = Returns(mem, Here.arg1, unit.ir.returnType)
          /\ UNCHANGED <<unit, pc, mem, calls>>

\* Control that reaches the end leaves the function, with 0 where a value is
\* due.
FallOff == /\ ~left /\ pc >= After
           /\ left' = TRUE
           /\ value' = DefaultValue(unit.ir.returnType)
           /\ UNCHANGED <<unit, pc, mem, calls>>

Next == Compute \/ Goto \/ IfGoto \/ Return \/ FallOff

Run == [][Next]_vars /\ WF_vars(Next)
Spec == Init /\ Run

\* The run of a unit that is given.
UnitSpec == Ready /\ Run
-----------------------------------------------------------------------------
Body(tree) == IF IsFunction(tree) THEN Last(tree.children) ELSE tree
StartOfTree ==
  LET m == InitialMemory(unit.ir, unit.args)
  IN  Start([w \in {n[1] : n \in DOMAIN m} |-> m[Word(w)]])
ExpectedValue(s) ==
  IF s.done /\ unit.ir.returnType # "void" THEN s.value
  ELSE DefaultValue(unit.ir.returnType)

\* The code means what the tree means: when the function has been left, the
\* calls were the same in the same order, and so are the value returned and
\* every variable of the program (temporaries aside).
ResultsAgree ==
  left => LET Agrees(s) ==
                /\ calls = s.calls
                /\ value = ExpectedValue(s)
                /\ \A n \in Range(VarDecls(unit.tree)) \cup Range(unit.ir.parameters) :
                     mem[n] = s.mem[n[1]]
          IN  Agrees(Do(Body(unit.tree), StartOfTree))

Blocks == SplitBasicBlocks(Code)
BlockOf(blocks, n) == CHOOSE b \in DOMAIN blocks : \E i \in DOMAIN blocks[b] : blocks[b][i].no = n
Inside(n) == n < After

\* The basic blocks are a view of the control flow: a step moves to the next
\* statement of the same block, or from the last statement of a block to the
\* first one of a block reported as its successor; control leaves the code
\* only from a block with no successor or with an invalid one.
FollowsBlocks(blocks) ==
  LET b == BlockOf(blocks, pc)
      atEnd == Last(blocks[b]).no = pc
  IN  \/ ~atEnd /\ pc' = pc + 1
      \/ /\ atEnd /\ Inside(pc')
         /\ \E c \in Successors(blocks, b) : c # Invalid /\ Leader(blocks[c]) = pc'
      \/ /\ atEnd /\ ~Inside(pc')
         /\ Successors(blocks, b) \subseteq {Invalid, b + 1}
ControlFollowsBlocks == [][pc' # pc => FollowsBlocks(Blocks)]_vars

\* A local block opens a scope of its own (docs/ALGORITHMS.md:9), so what it
\* declares is accepted although an outer block declares the same name.
LocalBlocksOpenScopes ==
  LET declared == Generate(unit.tree).declared
  IN  \A i \in DOMAIN declared : declared[i].accepted

\* The generated code of a program that ends, ends.
Terminates == <>left
=============================================================================
