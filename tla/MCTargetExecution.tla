-------------------------- MODULE MCTargetExecution --------------------------
(* Functions of two parameters whose bodies cover every statement kind and   *)
(* every nesting of two, with conditions and expressions of depth two; loops *)
(* count a variable up, so every program ends.  Lowered to both targets and  *)
(* run from every pair of small arguments.                                   *)
EXTENDS TargetExecution

MCNumberOf(w) == CASE w = "0" -> 0 [] w = "1" -> 1 [] w = "2" -> 2 [] w = "3" -> 3
MCLiterals == {"0", "1", "2", "3"}
MCAnswer(name, args) == FoldLeft(LAMBDA s, a : s + a, 1, args)

x == MakeIdentifier("x")
y == MakeIdentifier("y")
one == MakeConstant("1")
two == MakeConstant("2")
Ary(op, a, b) == MakeBinary("ARITH", a, b, op)

Deep == {Ary("-", x, Ary("+", y, one)), Ary("-", Ary("*", x, two), y),
         Ary("+", MakeCall("f", <<y>>), MakeCall("g", <<x, y>>)),
         MakeCall("f", <<Ary("+", x, one), MakeCall("g", << >>)>>),
         MakeUnary("ARITH", Ary("+", x, y), "-"), Ary("<", x, y)}
Conditions == {x, Ary("<", x, two), Ary("<=", two, Ary("+", x, y)),
               Ary("==", MakeCall("f", <<x>>), y), Ary("!=", x, Ary("-", y, one)),
               MakeAssignment(y, x)}

Set(v, e) == MakeAssignment(v, e)
Count == Set(x, Ary("+", x, one))
Simple == {Set(y, x), MakeReturn(y), MakeReturn(Null), MakeCall("f", <<x>>),
           MakeVarDecl("z", "int", Ary("+", x, y)), Set(x, Set(y, two))}
If(c, s) == MakeIf(c, s, Null)
Small == Ary("<", x, two)
Nested == {If(Small, s) : s \in Simple}
          \cup {MakeIf(Small, Set(y, one), s) : s \in Simple}
          \cup {MakeWhile(Small, MakeProgram(<<Count, s>>)) : s \in Simple}
Whole == {MakeProgram(<<Set(y, e), MakeReturn(y)>>) : e \in Deep}
         \cup {MakeIf(c, MakeProgram(<<Count, MakeReturn(x)>>), Set(y, one)) : c \in Conditions}
         \cup {MakeProgram(<<If(Ary("==", y, one), s), t>>) : s \in Nested, t \in {Null, MakeReturn(y)}}
         \cup {MakeProgram(<<MakeWhile(Small, MakeProgram(<<Count, s>>)), MakeReturn(y)>>) : s \in Nested}
         \cup {MakeProgram(<<MakeWhile(Ary("<", MakeCall("f", <<x>>), MakeConstant("3")), Count), s>>) : s \in Simple}
         \cup {MakeProgram(<<s, t>>) : s \in Simple, t \in Simple}

Parameters == <<MakeVarDecl("x", "int", Null), MakeVarDecl("y", "char", Null)>>
InFunction(body) == MakeFunction("h", "int", Parameters, body)
Procedure(body) == MakeFunction("p", "void", Parameters, body)

\* Two functions in one program, loose statements, and programs the emitter
\* refuses: an unknown operator, and a function beside a loose statement.
Mixed == {MakeProgram(<<Procedure(If(Small, s)), InFunction(MakeWhile(Small, Count))>>) : s \in Simple}
         \cup {MakeProgram(<<MakeVarDecl("x", "", one), MakeVarDecl("y", "", Null), s>>) : s \in Nested}
         \cup {MakeProgram(<<InFunction(Set(y, Ary("&", x, y)))>>),
               MakeProgram(<<InFunction(Count), Set(y, one)>>)}

MCPrograms == Mixed \cup {MakeProgram(<<InFunction(b)>>) : b \in Whole \cup {MakeProgram(<< >>)}}

\* A block that declares z again inside a function that has declared it.
ShadowPrograms ==
  {MakeProgram(<<InFunction(MakeProgram(<<MakeVarDecl("z", "int", one), inner, MakeReturn(x)>>))>>)
     : inner \in {If(Small, MakeProgram(<<MakeVarDecl("z", "int", two), Count>>)),
                 MakeProgram(<<MakeVarDecl("z", "int", Null), Count>>)}}
=============================================================================
