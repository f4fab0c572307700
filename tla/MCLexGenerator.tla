--------------------------- MODULE MCLexGenerator ---------------------------
(***************************************************************************)
(* Model checking of the generator of scanners, from the rules to the      *)
(* minimal automaton: specifications whose rules compete, one after the    *)
(* other in one process, compared with the words their expressions match.  *)
(***************************************************************************)
EXTENDS LexGenerator, RegexReference

Bound == 4

Rule(t, action) == [infix |-> Serialized(t), action |-> action, words |-> Words(t, Bound)]
A == Literal("a")
B == Literal("b")
Any == Union(A, B)

MCSpecifications ==
  { <<Rule(Concat(A, B), "if"), Rule(Concat(Any, Star(Any)), "name")>>,
    <<Rule(Concat(Any, Star(Any)), "name"), Rule(Concat(A, B), "if")>>,
    <<Rule(Concat(A, Star(A)), "int"), Rule(Concat(Star(A), Concat(B, Concat(A, Star(A)))), "real")>>,
    <<Rule(Star(A), "name"), Rule(Concat(Star(Any), A), "int"), Rule(B, "name")>>,
    <<Rule(Concat(Star(Any), Concat(A, Concat(Any, Any))), "if")>>,
    <<Rule(Union(Concat(A, Concat(A, B)), Concat(B, Concat(A, B))), "if"), Rule(Union(A, Epsilon), "int")>>,
    <<Rule(Concat(SetOf(<<"a", "b", "c">>), Literal("c")), "int"), Rule(Union(Literal("c"), B), "real")>>,
    <<Rule(A, "int"), Rule(A, "name"), Rule(Union(A, Concat(A, A)), "real")>>,
    <<Rule(Star(Concat(A, B)), "if"), Rule(Star(Union(B, Star(A))), "real")>> }

\* One rule each: every expression of depth two with a leaf on one side, and some deeper
\* ones; and a literal that is rejected.
Over(S, T) == {Star(t) : t \in S} \cup {Concat(s, t) : s \in S, t \in T} \cup {Union(s, t) : s \in S, t \in T}
Leaves  == {A, B, Epsilon}
Small   == Leaves \cup Over(Leaves, Leaves)
MCTrees ==
  Small \cup Over(Small, Leaves) \cup Over(Leaves, Small)
  \cup {Star(Concat(Any, Star(Concat(A, B)))), Concat(Star(Star(A)), Star(Union(Epsilon, B))),
        Concat(SetOf(<<"a", "b", "c">>), Star(SetOf(<<"b", "c">>))), Union(SetOf(<<>>), SetOf(<<"c">>))}
MCSingles == {<<Rule(t, "if")>> : t \in MCTrees}
MCRefused == {<<Rule(B, "if"), Rule(Concat(A, Literal("nul")), "int"), Rule(A, "name")>>}

\* A process with one specification, and with two.
MCPrograms == {<<s>> : s \in MCSpecifications \cup MCSingles \cup MCRefused}
              \cup {<<s, t>> : s, t \in MCSpecifications}
MCNames    == <<"if", "int", "name", "real">>
MCAlphabet == <<"a", "b", "c">>

-----------------------------------------------------------------------------
MCTexts == UNION {[1..n -> {MCAlphabet[k] : k \in DOMAIN MCAlphabet}] : n \in 0..Bound}

\* The meaning of an expression's tokens is the words that its tree matches.
ASSUME MeaningIsWords ==
  \A rule \in UNION {{s[k] : k \in DOMAIN s} : s \in UNION {{p[n] : n \in DOMAIN p} : p \in MCPrograms}} :
    \A w \in MCTexts : Matches(rule.infix, w) <=> w \in rule.words
=============================================================================
