--------------------------- MODULE TargetExecution ---------------------------
(***************************************************************************)
(* The lowered code of one function unit, run instruction by instruction,   *)
(* and shown to implement the three-address code it was lowered from.       *)
(***************************************************************************)
EXTENDS TacSemantics

CONSTANTS Programs,          \* the trees that are compiled
          Arguments          \* the values a parameter may have

VARIABLES unit,      \* the function that runs, its tree and its arguments
          text,      \* its lowered code
          ip,        \* the place of the next instruction
          slots,     \* the storage of every name
          calls,     \* the calls made so far
          value,     \* the value returned, as a sequence of at most one
          left       \* whether the function has been left

vars == <<unit, text, ip, slots, calls, value, left>>

Storing == {"alloca", "argument"}

\* The storage a prologue sets up, from the arguments.
Named(code, kinds) == {code[i].name : i \in {k \in DOMAIN code : code[k].kind \in kinds}}
SetUp(code, args) ==
  [n \in Named(code, Storing) |-> IF n \in Named(code, {"argument"}) THEN args[n] ELSE 0]

AfterPrologue(code) ==
  CHOOSE i \in DOMAIN code :
    code[i].kind \notin Storing /\ \A k \in 1..(i - 1) : code[k].kind \in Storing

Init == \E p \in Programs : \E u \in UnitsOf(p) :
          /\ Lowerable(u.ir)
          /\ \E target \in {"llvm", "jimple"} : text = Lower(target, u.ir)
          /\ \E args \in [Range(u.ir.parameters) -> Arguments] :
               /\ unit = Started(u, args)
               /\ slots = SetUp(text, args)
          /\ ip = AfterPrologue(text)
          /\ calls = << >> /\ value = << >> /\ left = FALSE

Here == text[ip]
Type == unit.ir.returnType
PlaceOf(l) == CHOOSE i \in DOMAIN text : text[i].kind = "label" /\ text[i].label = l
Passes(c) == Holds(c.op, ReadWord(slots, c.lhs), ReadWord(slots, c.rhs))
At(kind) == ~left /\ Here.kind = kind
Kept == UNCHANGED <<unit, text>>

PassLabel == /\ At("label")
             /\ ip' = ip + 1
             /\ Kept /\ UNCHANGED <<slots, calls, value, left>>

Execute == /\ At("operation")
           /\ slots' = [slots EXCEPT ![Here.s.result] = ResultOf(slots, Here.s)]
           /\ calls' = calls \o CallsMade(slots, Here.s)
           /\ ip' = ip + 1
           /\ Kept /\ UNCHANGED <<value, left>>

Jump == /\ At("br")
        /\ ip' = PlaceOf(Here.to)
        /\ Kept /\ UNCHANGED <<slots, calls, value, left>>

JumpOnTest == /\ At("condbr")
              /\ ip' = PlaceOf(IF Passes(Here.test) THEN Here.to ELSE Here.otherwise)
              /\ Kept /\ UNCHANGED <<slots, calls, value, left>>

JumpIfTrue == /\ At("jumpif")
              /\ ip' = IF Passes(Here.test) THEN PlaceOf(Here.to) ELSE ip + 1
              /\ Kept /\ UNCHANGED <<slots, calls, value, left>>

Leave == /\ At("ret")
         /\ left' = TRUE
         /\ value' = Returns(slots, Here.operand, Type)
         /\ Kept /\ UNCHANGED <<ip, slots, calls>>

LeaveByDefault == /\ At("default")
                  /\ left' = TRUE
                  /\ value' = DefaultValue(Type)
                  /\ Kept /\ UNCHANGED <<ip, slots, calls>>

Next == PassLabel \/ Execute \/ Jump \/ JumpOnTest \/ JumpIfTrue \/ Leave \/ LeaveByDefault

Spec == Init /\ [][Next]_vars /\ WF_vars(Next)
-----------------------------------------------------------------------------
LabelPlaces == {i \in DOMAIN text : text[i].kind = "label"}
Aims(i) == (IF i.kind \in {"br", "condbr", "jumpif"} THEN {i.to} ELSE {})
           \cup (IF i.kind = "condbr" THEN {i.otherwise} ELSE {})

\* The text is well formed: no label is printed twice, every label aimed at
\* is printed, control never runs into a label, out of the text or past an
\* instruction nothing leads to: a transfer of control stands exactly before
\* each label and at the end, the entry of Jimple aside.  Types are not looked at: a bare
\* return in a function of type int is printed as "ret void" (target_ir_emitter.cpp:624).
WellFormed ==
  LET body == {i \in DOMAIN text : text[i].kind \notin Storing}
  IN  /\ \A i, j \in LabelPlaces : text[i].label = text[j].label => i = j
      /\ \A i \in DOMAIN text : \A l \in Aims(text[i]) :
           \E k \in LabelPlaces : text[k].label = l
      /\ \A i \in body :
           text[i].kind \in Transfers <=> i = Len(text) \/ i + 1 \in LabelPlaces

Tac == INSTANCE TacExecution WITH pc <- Here.at, mem <- slots

\* The lowered code implements the three-address code: the same statements in
\* the same order on the same storage, the same calls and the same value;
\* labels and jumps between neighbouring blocks are stutters.
ImplementsTac == Tac!UnitSpec

\* The code means what the tree means, whatever it was lowered to: the calls,
\* the value returned and the variables of the program when a function has been
\* left are those of the tree (TacExecution states it of its own machine).
ResultsAgree == Tac!ResultsAgree

\* Control moves along the basic blocks and the successors reported for them.
ControlFollowsBlocks == Tac!ControlFollowsBlocks

\* A local block opens a scope of its own (docs/ALGORITHMS.md:9).
LocalBlocksOpenScopes == Tac!LocalBlocksOpenScopes

\* The lowered code of a program that ends, ends.
Terminates == <>left
=============================================================================
