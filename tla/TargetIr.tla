------------------------------ MODULE TargetIr ------------------------------
(***************************************************************************)
(* From three-address code to LLVM IR and Jimple                            *)
(* (src/intermediate/src/target_ir_emitter.cpp).                            *)
(*                                                                          *)
(* The code is cut into functions with the help of the tree it was made of: *)
(* it carries no mark where a function begins, so the emitter generates     *)
(* every function once more by itself, to count its statements, and cuts by *)
(* the counts.  The code of a function is cut into basic blocks, with the   *)
(* successors reported for a block (intermediate_code.cpp).                 *)
(*                                                                          *)
(* Then a function is lowered to a list of labels, storage declarations,    *)
(* operations and jumps.  An operation stands for the loads, the            *)
(* instruction and the store the emitter prints for one statement; the      *)
(* registers in between are fresh every time.  Every instruction remembers  *)
(* in "at" the statement it stands for.                                     *)
(***************************************************************************)
EXTENDS TacGenerator

CONSTANTS EntryFunction,     \* the name of the unit made of loose statements
          Literals           \* the words that are integers

RECURSIVE VarDecls(_)

AppendUnique(values, v) ==
  IF v = NoOperand \/ Contains(values, v) THEN values ELSE Append(values, v)
Unique(values) == FoldLeft(AppendUnique, << >>, values)

VarDecls(node) ==
  FoldLeft(LAMBDA names, child : names \o VarDecls(child),
           IF node.type = "VAR_DECL" THEN <<Word(node.value)>> ELSE << >>,
           node.children)

\* The operators are tried in this order, each from the left.
ConditionOperators == <<"<=", ">=", "==", "!=", "<", ">">>
ParseCondition(words) ==
  LET Positions(op) == {i \in DOMAIN words : words[i] = op}
      present == {k \in DOMAIN ConditionOperators : Positions(ConditionOperators[k]) # {}}
      Least(S) == CHOOSE i \in S : \A j \in S : i <= j
      At(op, i) == [lhs |-> SubSeq(words, 1, i - 1), op |-> op,
                    rhs |-> SubSeq(words, i + 1, Len(words))]
  IN  IF present = {} THEN [lhs |-> words, op |-> "!=", rhs |-> Word("0")]
      ELSE LET op == ConditionOperators[Least(present)]
           IN  At(op, Least(Positions(op)))

SplitArguments(words) ==
  SelectSeq(FoldLeft(LAMBDA args, w : IF w = "," THEN Append(args, << >>)
                                      ELSE [args EXCEPT ![Len(args)] = Append(@, w)],
                     <<NoOperand>>, words),
            LAMBDA arg : arg # NoOperand)

Operands(s) ==
  CASE s.op \in Arithmetic -> <<s.arg1, s.arg2, s.result>>
    [] s.op = "ASSIGN" -> <<s.arg1, s.result>>
    [] s.op = "CALL" -> <<s.result>> \o SplitArguments(s.arg2)
    [] s.op = "IF_GOTO" -> <<ParseCondition(s.arg1).lhs, ParseCondition(s.arg1).rhs>>
    [] s.op = "RETURN" -> <<s.arg1>>
    [] s.op = "GOTO" -> << >>

IsLiteral(operand) == Len(operand) = 1 /\ operand[1] \in Literals

ReferencedNames(code) ==
  SelectSeq(FoldLeft(LAMBDA names, s : names \o Operands(s), << >>, code),
            LAMBDA n : n # NoOperand /\ ~IsLiteral(n))

IsFunction(node) == node.type = "FUNC_DEF"
NormalizedType(type) == IF type = "void" THEN "void" ELSE "int"

ParametersOf(node) ==
  IF IsFunction(node) /\ node.children # << >>
  THEN Unique(FoldLeft(LAMBDA ps, p : IF p.type = "VAR_DECL"
                                      THEN Append(ps, Word(p.value)) ELSE ps,
                       << >>, Front(node.children)))
  ELSE << >>

DeclaredNames(node) ==
  IF IsFunction(node)
  THEN IF node.children = << >> THEN << >> ELSE VarDecls(Last(node.children))
  ELSE VarDecls(node)

LocalsOf(node, code) ==
  SelectSeq(Unique(DeclaredNames(node) \o ReferencedNames(code)),
            LAMBDA n : ~Contains(ParametersOf(node), n))

BuildUnit(node, code) ==
  [name |-> IF node = Null THEN EntryFunction ELSE node.value,
   returnType |-> IF node = Null THEN "int" ELSE NormalizedType(node.varType),
   parameters |-> ParametersOf(node),
   locals |-> LocalsOf(node, code),
   code |-> code]

FunctionSize(node) == Len(Generate(node).code)

\* The functions cut off so far and the statements they took.
CutFunction(code, done, node) ==
  [units |-> Append(done.units,
                    BuildUnit(node, SubSeq(code, done.offset + 1,
                                           done.offset + FunctionSize(node)))),
   offset |-> done.offset + FunctionSize(node)]
CutFunctions(root, code) ==
  FoldLeft(LAMBDA done, node : CutFunction(code, done, node),
           [units |-> << >>, offset |-> 0], SelectSeq(root.children, IsFunction))

\* Functions beside loose statements are refused, and so is code that does
\* not end where the last function does.
Partitions(root, code) ==
  /\ \A i \in DOMAIN root.children : IsFunction(root.children[i])
  /\ CutFunctions(root, code).offset = Len(code)

HasFunction(root) ==
  root.type = "PROGRAM" /\ \E i \in DOMAIN root.children : IsFunction(root.children[i])

Refused == << >>
BuildUnits(root, code) ==
  CASE HasFunction(root) /\ Partitions(root, code) -> CutFunctions(root, code).units
    [] HasFunction(root) /\ ~Partitions(root, code) -> Refused
    [] OTHER -> <<BuildUnit(root, code)>>
-----------------------------------------------------------------------------
Jumps == {"GOTO", "IF_GOTO"}
Ends == Jumps \cup {"RETURN"}

Numbers(code) == {code[i].no : i \in DOMAIN code}

\* A target no statement has is no leader.
Targets(code) == {code[i].target : i \in {k \in DOMAIN code : code[k].op \in Jumps}}

\* A slip: a conditional jump ends no block.
MutLeaders(code) ==
  {code[1].no} \cup (Targets(code) \cap Numbers(code))
    \cup {code[i + 1].no : i \in {k \in 1..(Len(code) - 1) : code[k].op \in Ends \ {"IF_GOTO"}}}

Leaders(code) ==
  {code[1].no} \cup (Targets(code) \cap Numbers(code))
    \cup {code[i + 1].no : i \in {k \in 1..(Len(code) - 1) : code[k].op \in Ends}}

\* A leader opens a block, any other statement joins the one that is open.
PutStatement(leaders, blocks, s) ==
  IF blocks = << >> \/ s.no \in leaders THEN Append(blocks, <<s>>)
  ELSE [blocks EXCEPT ![Len(blocks)] = Append(@, s)]
SplitAt(leaders, code) ==
  FoldLeft(LAMBDA blocks, s : PutStatement(leaders, blocks, s), << >>, code)
SplitBasicBlocks(code) ==
  IF code = << >> THEN << >> ELSE SplitAt(Leaders(code), code)

Leader(block) == block[1].no

\* The block a jump leads to; a target that begins none is invalid.
Invalid == 0
BlockAt(blocks, n) ==
  IF \E b \in DOMAIN blocks : Leader(blocks[b]) = n
  THEN CHOOSE b \in DOMAIN blocks : Leader(blocks[b]) = n
  ELSE Invalid

FallThrough(blocks, b) == IF b < Len(blocks) THEN {b + 1} ELSE {}

Successors(blocks, b) ==
  LET last == Last(blocks[b])
  IN  CASE last.op = "RETURN" -> {}
        [] last.op = "GOTO" -> {BlockAt(blocks, last.target)}
        [] last.op = "IF_GOTO" -> {BlockAt(blocks, last.target)} \cup FallThrough(blocks, b)
        [] OTHER -> FallThrough(blocks, b)
-----------------------------------------------------------------------------
(* The lowering of a function unit. *)

BlockLabel(n) == <<"bb", n>>
InvalidLabel == <<"invalid", 0>>
ExitLabel == <<"exit", 0>>

Label(l, at) == [kind |-> "label", label |-> l, at |-> at]
Alloca(n) == [kind |-> "alloca", name |-> n, at |-> 0]
StoreArgument(n) == [kind |-> "argument", name |-> n, at |-> 0]
Operation(s) == [kind |-> "operation", s |-> s, at |-> s.no]
Br(l, at) == [kind |-> "br", to |-> l, at |-> at]
CondBr(c, yes, no, at) == [kind |-> "condbr", test |-> c, to |-> yes, otherwise |-> no, at |-> at]
JumpIf(c, yes, at) == [kind |-> "jumpif", test |-> c, to |-> yes, at |-> at]
Ret(operand, at) == [kind |-> "ret", operand |-> operand, at |-> at]
RetDefault(at) == [kind |-> "default", at |-> at]

Transfers == {"br", "condbr", "ret", "default"}

StorageOrder(u) == Unique(u.parameters \o u.locals)
IsIdentifier(n) == Len(n) = 1 /\ ~IsLiteral(n)
Lowerable(u) == \A n \in Range(StorageOrder(u)) : IsIdentifier(n)

\* The place behind the last statement.
PastEnd(u) == IF u.code = << >> THEN 1 ELSE u.code[1].no + Len(u.code)

LabelOf(blocks, n) ==
  IF BlockAt(blocks, n) = Invalid THEN InvalidLabel ELSE BlockLabel(n)
NextLabel(blocks, b) ==
  IF b < Len(blocks) THEN BlockLabel(Leader(blocks[b + 1])) ELSE ExitLabel
NextAt(u, blocks, b) ==
  IF b < Len(blocks) THEN Leader(blocks[b + 1]) ELSE PastEnd(u)

\* A slip: the labels of the two outcomes swapped for LLVM.
MutLowerIf(target, u, blocks, b, s) ==
  LET c == ParseCondition(s.arg1)
      yes == LabelOf(blocks, s.target)
  IN  IF target = "llvm"
      THEN <<CondBr(c, NextLabel(blocks, b), yes, s.no)>>
      ELSE <<JumpIf(c, yes, s.no), Br(NextLabel(blocks, b), NextAt(u, blocks, b))>>
LowerIf(target, u, blocks, b, s) ==
  LET c == ParseCondition(s.arg1)
      yes == LabelOf(blocks, s.target)
  IN  IF target = "llvm"
      THEN <<CondBr(c, yes, NextLabel(blocks, b), s.no)>>
      ELSE <<JumpIf(c, yes, s.no), Br(NextLabel(blocks, b), NextAt(u, blocks, b))>>

LowerStatement(target, u, blocks, b, s) ==
  CASE s.op = "IF_GOTO" -> LowerIf(target, u, blocks, b, s)
    [] s.op = "GOTO" -> <<Br(LabelOf(blocks, s.target), s.no)>>
    [] s.op = "RETURN" -> <<Ret(s.arg1, s.no)>>
    [] OTHER -> <<Operation(s)>>

\* A block none of whose statements jumps goes on to the next block, the
\* last one leaves the function.
Terminated(block) == \E i \in DOMAIN block : block[i].op \in Ends
\* A slip: a block that does not jump is left to run into the next label.
MutClosing(u, blocks, b) ==
  IF Terminated(blocks[b]) \/ b < Len(blocks) THEN << >> ELSE <<RetDefault(PastEnd(u))>>
Closing(u, blocks, b) ==
  IF Terminated(blocks[b]) THEN << >>
  ELSE IF b < Len(blocks) THEN <<Br(NextLabel(blocks, b), NextAt(u, blocks, b))>>
  ELSE <<RetDefault(PastEnd(u))>>

LowerBlock(target, u, blocks, b) ==
  FoldLeft(LAMBDA text, s : text \o LowerStatement(target, u, blocks, b, s),
           <<Label(BlockLabel(Leader(blocks[b])), Leader(blocks[b]))>>, blocks[b])
    \o Closing(u, blocks, b)

\* LLVM keeps every name in an alloca and stores the arguments there; Jimple
\* declares the locals and uses the parameters as they are.
Prologue(target, u) ==
  LET Declarations(names) == [i \in DOMAIN names |-> Alloca(names[i])]
      Stores(names) == [i \in DOMAIN names |-> StoreArgument(names[i])]
  IN  IF target = "llvm" THEN Declarations(StorageOrder(u)) \o Stores(u.parameters)
      ELSE Stores(u.parameters) \o Declarations(u.locals)

\* LLVM leaves the entry block by a branch, Jimple runs on into the first one.
Entry(target, u) ==
  IF target = "llvm" THEN <<Br(BlockLabel(u.code[1].no), u.code[1].no)>> ELSE << >>

NeedsInvalid(u, blocks) ==
  \E i \in DOMAIN u.code : /\ u.code[i].op \in Jumps
                           /\ BlockAt(blocks, u.code[i].target) = Invalid
NeedsExit(blocks) == \E i \in DOMAIN Last(blocks) : Last(blocks)[i].op = "IF_GOTO"

Epilogue(u, blocks) ==
  LET Leaving(l) == <<Label(l, PastEnd(u)), RetDefault(PastEnd(u))>>
  IN  (IF NeedsInvalid(u, blocks) THEN Leaving(InvalidLabel) ELSE << >>)
        \o (IF NeedsExit(blocks) THEN Leaving(ExitLabel) ELSE << >>)

LowerBlocks(target, u, blocks) ==
  FoldLeft(LAMBDA text, b : text \o LowerBlock(target, u, blocks, b),
           Prologue(target, u) \o Entry(target, u), [b \in DOMAIN blocks |-> b])
    \o Epilogue(u, blocks)

\* A function without a statement just returns.
Lower(target, u) ==
  IF u.code = << >> THEN Append(Prologue(target, u), RetDefault(PastEnd(u)))
  ELSE LowerBlocks(target, u, SplitBasicBlocks(u.code))
=============================================================================
