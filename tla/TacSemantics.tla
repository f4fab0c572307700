---------------------------- MODULE TacSemantics ----------------------------
(***************************************************************************)
(* What a tree means, and what a statement of three-address code means, as  *)
(* operators on a memory: the common ground of the code as generated        *)
(* (TacExecution) and as lowered (TargetExecution).  It also says which     *)
(* units a program yields.                                                  *)
(***************************************************************************)
EXTENDS TargetIr, Integers

CONSTANTS NumberOf(_),       \* the integer a constant stands for
          Answer(_, _)       \* what a function answers to its arguments

(* The meaning of a tree, as a reference for the code generated from it: a  *)
(* big-step evaluation that reads and writes variables by name, evaluates   *)
(* operands from left to right and remembers every call it makes.  A call   *)
(* is answered by an operator the model leaves open.                        *)

RECURSIVE Value(_, _), Do(_, _)

\* A run that has not returned has no value.
NoValue == << >>
Start(mem) == [mem |-> mem, calls |-> << >>, done |-> FALSE, value |-> NoValue]

Holds(op, a, b) == CASE op = "<" -> a < b [] op = "<=" -> a <= b
                     [] op = ">" -> a > b [] op = ">=" -> a >= b
                     [] op = "==" -> a = b [] OTHER -> a # b
Truth(b) == IF b THEN 1 ELSE 0
Operate(op, a, b) == CASE op = "+" -> a + b [] op = "-" -> a - b [] op = "*" -> a * b
                       [] OTHER -> Truth(Holds(op, a, b))

With(s, v) == [s |-> s, v |-> v]
Gather(done, r) == [s |-> r.s, vs |-> Append(done.vs, r.v)]
Values(nodes, s) ==
  FoldLeft(LAMBDA done, n : Gather(done, Value(n, done.s)), [s |-> s, vs |-> << >>], nodes)

Called(name, r) ==
  With([r.s EXCEPT !.calls = Append(@, <<name, r.vs>>)], Answer(name, r.vs))
Stored(name, r) == With([r.s EXCEPT !.mem[name] = r.v], r.v)
Applied(op, r) ==
  With(r.s, IF Len(r.vs) = 1 THEN 0 - r.vs[1] ELSE Operate(op, r.vs[1], r.vs[2]))

Value(node, s) ==
  CASE node.type = "CONSTANT" -> With(s, NumberOf(node.value))
    [] node.type = "ID" -> With(s, s.mem[node.value])
    [] node.type = "FUNC_CALL" -> Called(node.value, Values(node.children, s))
    [] node.type = "ASSIGN" -> Stored(node.children[1].value, Value(node.children[2], s))
    [] node.type = "ARITH" -> Applied(node.value, Values(node.children, s))

Choose(node, r) ==
  IF r.v # 0 THEN Do(node.children[2], r.s)
  ELSE IF Len(node.children) = 3 THEN Do(node.children[3], r.s) ELSE r.s
Loop(node, r) == IF r.v # 0 THEN Do(node, Do(node.children[2], r.s)) ELSE r.s
Returned(r) == [r.s EXCEPT !.done = TRUE, !.value = <<r.v>>]

Do(node, s) ==
  CASE s.done -> s
    [] ~s.done /\ node.type = "PROGRAM" ->
         FoldLeft(LAMBDA t, n : Do(n, t), s, node.children)
    [] ~s.done /\ node.type = "IF" -> Choose(node, Value(node.children[1], s))
    [] ~s.done /\ node.type = "WHILE" -> Loop(node, Value(node.children[1], s))
    [] ~s.done /\ node.type = "RETURN" ->
         IF node.children = << >> THEN [s EXCEPT !.done = TRUE]
         ELSE Returned(Value(node.children[1], s))
    [] ~s.done /\ node.type = "VAR_DECL" ->
         IF node.children = << >> THEN s
         ELSE Stored(node.value, Value(node.children[1], s)).s
    [] OTHER -> Value(node, s).s

-----------------------------------------------------------------------------
(* The meaning of a statement.                                              *)

ReadWord(m, operand) ==
  IF IsLiteral(operand) THEN NumberOf(operand[1]) ELSE m[operand]

Test(m, words) ==
  LET c == ParseCondition(words)
  IN  Holds(c.op, ReadWord(m, c.lhs), ReadWord(m, c.rhs))

\* A comparison used as a value stands in an operand as its text.
Read(m, operand) ==
  IF Len(operand) = 1 THEN ReadWord(m, operand) ELSE Truth(Test(m, operand))

ArgumentValues(m, s) ==
  LET args == SplitArguments(s.arg2) IN [i \in DOMAIN args |-> Read(m, args[i])]

Assignments == Arithmetic \cup {"ASSIGN", "CALL"}

\* The value an arithmetic statement, a copy or a call computes.
ResultOf(m, s) ==
  CASE s.op \in Arithmetic -> Operate(s.op, Read(m, s.arg1), Read(m, s.arg2))
    [] s.op = "ASSIGN" -> Read(m, s.arg1)
    [] s.op = "CALL" -> Answer(s.arg1[1], ArgumentValues(m, s))

CallsMade(m, s) ==
  IF s.op = "CALL" THEN <<<<s.arg1[1], ArgumentValues(m, s)>>>> ELSE << >>

Returns(m, operand, type) ==
  IF operand = NoOperand \/ type = "void" THEN << >> ELSE <<Read(m, operand)>>
DefaultValue(type) == IF type = "void" THEN << >> ELSE <<0>>

\* Variables without a value yet hold 0.
InitialMemory(u, args) ==
  [n \in Range(u.parameters) \cup Range(u.locals) |->
     IF Contains(u.parameters, n) THEN args[n] ELSE 0]

\* The functions of a program with the trees they come from, if the emitter
\* takes the program: generate has not thrown and the code could be cut.
Trees(root) == IF HasFunction(root) THEN SelectSeq(root.children, IsFunction)
               ELSE <<root>>
UnitsOf(root) ==
  LET UnitsFrom(st) == IF st.failed THEN Refused ELSE BuildUnits(root, st.code)
      Complete(units) ==
        {[tree |-> Trees(root)[i], ir |-> units[i]] : i \in DOMAIN units}
  IN  Complete(UnitsFrom(Generate(root)))

Started(u, args) == [tree |-> u.tree, ir |-> u.ir, args |-> args]
=============================================================================
