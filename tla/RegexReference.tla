--------------------------- MODULE RegexReference ---------------------------
(***************************************************************************)
(* Regular expressions as trees, the tokens that serializeAst makes of     *)
(* them (regex_expander.cpp), and what they mean: the words they match.    *)
(***************************************************************************)
EXTENDS Integers, Sequences, FiniteSets

Literal(c)   == [kind |-> "literal", char |-> c]
Epsilon      == [kind |-> "epsilon"]
SetOf(chars) == [kind |-> "set", charset |-> chars]       \* a sequence of characters
Star(t)      == [kind |-> "star", left |-> t]
Concat(s, t) == [kind |-> "concat", left |-> s, right |-> t]
Union(s, t)  == [kind |-> "union", left |-> s, right |-> t]

RECURSIVE Alternatives(_)
Alternatives(chars) ==
  IF Len(chars) = 1 THEN chars ELSE <<Head(chars), "|">> \o Alternatives(Tail(chars))

\* serializeAst: every operation in parentheses, an empty set as the empty word.
RECURSIVE Serialized(_)
Serialized(t) ==
  CASE t.kind = "literal" -> <<t.char>>
    [] t.kind = "epsilon" -> <<"eps">>
    [] t.kind = "set"     -> IF t.charset = <<>> THEN <<"eps">>
                             ELSE <<"(">> \o Alternatives(t.charset) \o <<")">>
    [] t.kind = "concat"  -> <<"(">> \o Serialized(t.left) \o <<"&">> \o Serialized(t.right) \o <<")">>
    [] t.kind = "union"   -> <<"(">> \o Serialized(t.left) \o <<"|">> \o Serialized(t.right) \o <<")">>
    [] t.kind = "star"    -> <<"(">> \o Serialized(t.left) \o <<"*", ")">>

Joins(X, Y, k) == {w \in {x \o y : x \in X, y \in Y} : Len(w) <= k}

RECURSIVE Powers(_, _, _)
Powers(X, P, k) == LET Q == P \cup Joins(P, X, k) IN IF Q = P THEN P ELSE Powers(X, Q, k)

\* The words of at most k characters that t matches.
RECURSIVE Words(_, _)
Words(t, k) ==
  CASE t.kind = "literal" -> {w \in {<<t.char>>} : k >= 1}
    [] t.kind = "epsilon" -> {<<>>}
    [] t.kind = "set"     -> IF t.charset = <<>> THEN {<<>>} ELSE {<<t.charset[i]>> : i \in DOMAIN t.charset}
    [] t.kind = "concat"  -> Joins(Words(t.left, k), Words(t.right, k), k)
    [] t.kind = "union"   -> Words(t.left, k) \cup Words(t.right, k)
    [] t.kind = "star"    -> Powers(Words(t.left, k), {<<>>}, k)
=============================================================================
