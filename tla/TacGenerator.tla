---------------------------- MODULE TacGenerator ----------------------------
(***************************************************************************)
(* The generator of three-address code (src/intermediate/src/               *)
(* tri_addr_generator.cpp): a recursive walk over the tree that appends     *)
(* statements, hands out temporaries, back-patches the targets of jumps and *)
(* keeps the symbol table.  A walk maps a generator state to the next one.   *)
(* The target of a jump, which the code keeps as text in the result of the  *)
(* statement, is a field of its own.  An operand is a sequence of words:    *)
(* empty for none, one word for a name or a constant, and lhs, operator,    *)
(* rhs for a condition, which the code keeps as text.                       *)
(***************************************************************************)
EXTENDS SymbolTables, SequencesExt

-----------------------------------------------------------------------------
\* The tree and the functions that semantic actions build it with (ast_builder.cpp).  A node
\* has a kind, a word (a name, a constant or an operator), a type name and its children; a
\* child that is the null pointer is never appended, so the children after it move up.
Null == [type |-> "NULL", value |-> "", varType |-> "", children |-> << >>]

MakeNode(type, value, varType) ==
  [type |-> type, value |-> value, varType |-> varType, children |-> << >>]

AppendChild(parent, child) ==
  IF parent = Null \/ child = Null THEN parent
  ELSE [parent EXCEPT !.children = Append(@, child)]

AppendAll(parent, nodes) ==
  [parent EXCEPT !.children = @ \o SelectSeq(nodes, LAMBDA n : n # Null)]

MakeIdentifier(name) == MakeNode("ID", name, "")
MakeConstant(value) == MakeNode("CONSTANT", value, "")

MakeVarDecl(name, varType, initializer) ==
  AppendChild(MakeNode("VAR_DECL", name, varType), initializer)

MakeAssignment(lhs, rhs) ==
  AppendChild(AppendChild(MakeNode("ASSIGN", "=", ""), lhs), rhs)

MakeUnary(type, child, op) == AppendChild(MakeNode(type, op, ""), child)

MakeBinary(type, lhs, rhs, op) ==
  AppendChild(AppendChild(MakeNode(type, op, ""), lhs), rhs)

MakeCall(name, args) == AppendAll(MakeNode("FUNC_CALL", name, ""), args)

\* The parameters first, the body last.
MakeFunction(name, returnType, parameters, body) ==
  AppendChild(AppendAll(MakeNode("FUNC_DEF", name, returnType), parameters), body)

MakeIf(condition, thenBranch, elseBranch) ==
  AppendAll(MakeNode("IF", "if", ""), <<condition, thenBranch, elseBranch>>)

MakeWhile(condition, body) ==
  AppendAll(MakeNode("WHILE", "while", ""), <<condition, body>>)

MakeReturn(value) == AppendChild(MakeNode("RETURN", "return", ""), value)

\* The root, and any list of statements.
MakeProgram(nodes) == AppendAll(MakeNode("PROGRAM", "program", ""), nodes)

-----------------------------------------------------------------------------

RECURSIVE EmitExpr(_, _), EmitStmt(_, _)

Comparisons == {"<", "<=", ">", ">=", "==", "!="}
Arithmetic == {"+", "-", "*", "/", "%"}
NoOperand == << >>
Word(w) == <<w>>

Statement(n, op, result, arg1, arg2) ==
  [no |-> n, op |-> op, result |-> result, arg1 |-> arg1, arg2 |-> arg2, target |-> 0]

Fresh == [code |-> << >>, temps |-> 0, table |-> ResetTable, failed |-> FALSE,
          declared |-> << >>]

NextStatement(st) == Len(st.code) + 1
Emit(st, op, result, arg1, arg2) ==
  [st EXCEPT !.code = Append(@, Statement(NextStatement(st), op, result, arg1, arg2))]

EmitJump(st, op, condition) == Emit(st, op, NoOperand, condition, NoOperand)
PatchTarget(st, n, target) == [st EXCEPT !.code[n].target = target]

TempName(n) == "t" \o ToString(n)
NewTemp(st) == [st EXCEPT !.temps = @ + 1]
\* The temporary handed out last.
Temp(st) == Word(TempName(st.temps))

Placing(st, place) == [st |-> st, place |-> place]
Into(st, op, arg1, arg2) ==
  Placing(Emit(NewTemp(st), op, Temp(NewTemp(st)), arg1, arg2), Temp(NewTemp(st)))
-----------------------------------------------------------------------------
\* Expressions, one after the other from left to right.
Collect(done, r) == [st |-> r.st, places |-> Append(done.places, r.place)]
EmitExprs(nodes, st) ==
  FoldLeft(LAMBDA done, node : Collect(done, EmitExpr(node, done.st)),
           [st |-> st, places |-> << >>], nodes)

JoinArguments(places) ==
  FoldLeft(LAMBDA text, p : IF text = << >> THEN p ELSE text \o <<",">> \o p,
           << >>, places)

IsComparison(node) == node.type = "ARITH" /\ node.value \in Comparisons

Compare(node, r) ==
  Placing(r.st, r.places[1] \o <<node.value>> \o r.places[2])
NonZero(r) ==
  Placing(r.st, IF r.place = NoOperand THEN NoOperand ELSE r.place \o <<"!=", "0">>)

EmitCondition(node, st) ==
  IF IsComparison(node) /\ Len(node.children) >= 2
  THEN Compare(node, EmitExprs(SubSeq(node.children, 1, 2), st))
  ELSE NonZero(EmitExpr(node, st))

Negate(r) == Into(r.st, "-", Word("0"), r.places[1])
\* A slip: the operands swapped.
MutCombine(node, r) ==
  IF node.value \in Arithmetic
  THEN Into(r.st, node.value, r.places[2], r.places[1])
  ELSE Placing([r.st EXCEPT !.failed = TRUE], NoOperand)
Combine(node, r) ==
  IF node.value \in Arithmetic
  THEN Into(r.st, node.value, r.places[1], r.places[2])
  ELSE Placing([r.st EXCEPT !.failed = TRUE], NoOperand)   \* it throws

\* A comparison wanted as a value becomes the text of its condition, and any
\* operator with one operand a subtraction from 0.
EmitArith(node, st) ==
  CASE IsComparison(node) -> EmitCondition(node, st)
    [] ~IsComparison(node) /\ Len(node.children) = 1 ->
         Negate(EmitExprs(node.children, st))
    [] ~IsComparison(node) /\ Len(node.children) >= 2 ->
         Combine(node, EmitExprs(SubSeq(node.children, 1, 2), st))
    [] OTHER -> Placing(st, NoOperand)

Assign(lhs, r) == Emit(r.st, "ASSIGN", Word(lhs), r.place, NoOperand)
EmitAssignment(node, st) ==
  IF Len(node.children) < 2 THEN st
  ELSE Assign(node.children[1].value, EmitExpr(node.children[2], st))

Assigned(node) ==
  IF node.children = << >> THEN NoOperand ELSE Word(node.children[1].value)

EmitCall(node, r) ==
  Into(r.st, "CALL", Word(node.value), JoinArguments(r.places))

EmitExpr(node, st) ==
  CASE node.type \in {"CONSTANT", "ID"} -> Placing(st, Word(node.value))
    [] node.type = "FUNC_CALL" -> EmitCall(node, EmitExprs(node.children, st))
    [] node.type = "ASSIGN" -> Placing(EmitAssignment(node, st), Assigned(node))
    [] node.type = "ARITH" -> EmitArith(node, st)
    [] OTHER -> Placing(st, NoOperand)
-----------------------------------------------------------------------------
EmitBlock(node, st) ==
  IF node.type = "PROGRAM"
  THEN FoldLeft(LAMBDA s, child : EmitStmt(child, s), st, node.children)
  ELSE EmitStmt(node, st)

TypeName(node) == IF node.varType = "" THEN "int" ELSE node.varType

\* declared remembers, for every declaration met, whether the table took it.
Declaring(st, n, table) ==
  [st EXCEPT !.table = table,
             !.declared = Append(@, [name |-> n, level |-> Level(table),
                                     accepted |-> Accepts(st.table, n)])]

Declared(node, st) ==
  Declaring(st, node.value, DeclareVariable(st.table, node.value, TypeName(node)))
EmitDecl(node, st) ==
  IF node.children = << >> THEN Declared(node, st)
  ELSE Assign(node.value, EmitExpr(node.children[1], Declared(node, st)))

EnterFunction(node, st) ==
  [st EXCEPT !.table = EnterScope(DeclareFunction(@, node.value, TypeName(node)))]
EmitParameter(st, p) ==
  IF p.type = "VAR_DECL"
  THEN [st EXCEPT !.table = DeclareParameter(@, p.value, TypeName(p))]
  ELSE st
LeaveScope(st) == [st EXCEPT !.table = ExitScope(@)]

\* Every child but the last is a parameter, the last one is the body.
EmitFunction(node, st) ==
  LET parameters == FoldLeft(EmitParameter, EnterFunction(node, st),
                             Front(node.children))
  IN  IF node.children = << >> THEN LeaveScope(EnterFunction(node, st))
      ELSE LeaveScope(EmitBlock(Last(node.children), parameters))

\* A conditional jump to the statement after the next one and the jump that
\* is taken when the condition fails.
Branch(r) ==
  LET n == NextStatement(r.st)
  IN  PatchTarget(EmitJump(EmitJump(r.st, "IF_GOTO", r.place), "GOTO", NoOperand),
                  n, n + 2)

ElseBranch(node, st, falseJump, endJump) ==
  LET jumped == PatchTarget(EmitJump(st, "GOTO", NoOperand), falseJump, endJump + 1)
      Patched(s) == PatchTarget(s, endJump, NextStatement(s))
  IN  Patched(EmitBlock(node.children[3], jumped))

AfterThen(node, st, falseJump) ==
  IF Len(node.children) >= 3 THEN ElseBranch(node, st, falseJump, NextStatement(st))
  ELSE PatchTarget(st, falseJump, NextStatement(st))

ThenBranch(node, st) ==
  AfterThen(node, EmitBlock(node.children[2], st), Len(st.code))

EmitIf(node, st) ==
  IF Len(node.children) < 2 THEN st
  ELSE ThenBranch(node, Branch(EmitCondition(node.children[1], st)))

\* The jump back goes to the first statement of the condition.
LoopBack(st, condition) == PatchTarget(EmitJump(st, "GOTO", NoOperand),
                                       NextStatement(st), condition)
\* A slip: the exit is patched before the jump back is emitted.
MutLoopBody(node, st, condition) ==
  LET exitJump == Len(st.code)
      Patched(s) == PatchTarget(s, exitJump, NextStatement(s))
  IN  LoopBack(Patched(EmitBlock(node.children[2], st)), condition)
LoopBody(node, st, condition) ==
  LET exitJump == Len(st.code)
      Patched(s) == PatchTarget(s, exitJump, NextStatement(s))
  IN  Patched(LoopBack(EmitBlock(node.children[2], st), condition))

EmitWhile(node, st) ==
  IF Len(node.children) < 2 THEN st
  ELSE LoopBody(node, Branch(EmitCondition(node.children[1], st)), NextStatement(st))

ReturnValue(r) == Emit(r.st, "RETURN", NoOperand, r.place, NoOperand)
EmitReturn(node, st) ==
  IF node.children = << >> THEN Emit(st, "RETURN", NoOperand, NoOperand, NoOperand)
  ELSE ReturnValue(EmitExpr(node.children[1], st))

EmitStmt(node, st) ==
  CASE node.type = "PROGRAM" -> EmitBlock(node, st)
    [] node.type = "FUNC_DEF" -> EmitFunction(node, st)
    [] node.type = "VAR_DECL" -> EmitDecl(node, st)
    [] node.type = "ASSIGN" -> EmitAssignment(node, st)
    [] node.type = "IF" -> EmitIf(node, st)
    [] node.type = "WHILE" -> EmitWhile(node, st)
    [] node.type = "RETURN" -> EmitReturn(node, st)
    [] OTHER -> EmitExpr(node, st).st

\* generate forgets everything an earlier call left.
Generate(root) == IF root = Null THEN Fresh ELSE EmitBlock(root, Fresh)
=============================================================================
