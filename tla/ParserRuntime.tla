---------------------------- MODULE ParserRuntime ----------------------------
(***************************************************************************)
(* The parser that ParserCodeGenerator::emitParser writes (the text of     *)
(* yyparse in parse_table.cpp): a state stack and a semantic stack driven  *)
(* by the tables kAction and kGoto, with a runtime symbol table of scopes  *)
(* on the side.                                                            *)
(*                                                                         *)
(* yyparse checks nothing: it pops as many entries as a right-hand side is *)
(* long and asks kGoto for a left-hand side with at(), trusting that the   *)
(* table generator only reduces where the stack allows it.  Here a pop of  *)
(* an empty stack and a failing at() are outcomes of their own.            *)
(*                                                                         *)
(* A parser is a record: the fields of a grammar; items and next, the      *)
(* automaton (state |-> set of LR(0) items; state |-> partial function     *)
(* symbol |-> state); action and goto, the tables (partial functions per   *)
(* state); acting, the productions with a semantic action; deterministic,  *)
(* whether no two entries competed for a cell; and what the tables were    *)
(* made from: first, and looks (state |-> set of <<core item, lookahead>>).*)
(* A token is a record [type, lexeme], its type being the terminal's       *)
(* symbol.                                                                 *)
(* One step is one iteration of the loop of yyparse, except that popping   *)
(* a right-hand side takes one step per entry, as its inner loop does.     *)
(***************************************************************************)
EXTENDS GrammarReference

Lists == INSTANCE SequencesExt

CONSTANTS
  Parsers,     \* parser name |-> parser
  Sentences    \* parser name |-> the token sequences it is called with

NoLexeme == ""
OpenBrace  == "{"
CloseBrace == "}"
Identifier == "IDENTIFIER"
DeclaringSymbols == {"declaration", "parameter_declaration", "function_definition"}

VARIABLES
  input,        \* the parser's name
  tokens,       \* the input, with the end marker appended if it was missing
  states,       \* the state stack
  semantic,     \* semantic_stack: [symbol, lexeme, value]
  scopes,       \* scopes_: a stack of the sets of names declared in each scope
  index,        \* the next token, from 1
  pc,           \* "loop", "reduce", and the ends "accepted", "rejected", "threw", "undefined"
  production,   \* the production being reduced
  rhs           \* its right-hand side values popped so far

parser == Parsers[input]

vars == <<input, tokens, states, semantic, scopes, index, pc, production, rhs>>

WithEnd(sentence) ==
  IF sentence # <<>> /\ sentence[Len(sentence)].type = EndMarker THEN sentence
  ELSE Append(sentence, [type |-> EndMarker, lexeme |-> NoLexeme])

Init ==
  /\ input \in DOMAIN Parsers
  /\ \E sentence \in Sentences[input] : tokens = WithEnd(sentence)
  /\ states = <<0>> /\ semantic = <<>> /\ scopes = <<{}>>
  /\ index = 1 /\ pc = "loop" /\ production = 1 /\ rhs = <<>>

Top  == states[Len(states)]
Look == tokens[index]
\* Mutant of InLoop: the loop ends one token early.
MutInLoop == pc = "loop" /\ index < Len(tokens)

InLoop == pc = "loop" /\ index <= Len(tokens)
HasAction == Look.type \in DOMAIN parser.action[Top]
Action == parser.action[Top][Look.type]
Producer == parser.producers[production]

EnterOrExit ==
  CASE Look.type = OpenBrace -> Append(scopes, {})
    [] Look.type = CloseBrace /\ Len(scopes) > 1 -> SubSeq(scopes, 1, Len(scopes) - 1)
    [] OTHER -> scopes

\* Mutant of Shift: a token gets no entry on the semantic stack.
MutShift ==
  /\ InLoop /\ HasAction /\ Action.kind = "s"
  /\ states' = Append(states, Action.to) /\ scopes' = EnterOrExit /\ index' = index + 1
  /\ UNCHANGED <<input, tokens, semantic, pc, production, rhs>>

Shift ==
  /\ InLoop /\ HasAction /\ Action.kind = "s"
  /\ states' = Append(states, Action.to)
  /\ semantic' = Append(semantic, [symbol |-> Look.type, lexeme |-> Look.lexeme,
                                   value |-> <<[by |-> 0, lexeme |-> Look.lexeme]>>])
  /\ scopes' = EnterOrExit
  /\ index' = index + 1
  /\ UNCHANGED <<input, tokens, pc, production, rhs>>

StartReduce ==
  /\ InLoop /\ HasAction /\ Action.kind = "r"
  /\ production' = Action.to /\ rhs' = <<>> /\ pc' = "reduce"
  /\ UNCHANGED <<input, tokens, states, semantic, scopes, index>>

\* Mutant of PopRhs: the values come in reverse.
MutPopsReversed ==
  /\ pc = "reduce" /\ Len(rhs) < Len(Producer.right) /\ semantic # <<>>
  /\ rhs' = Append(rhs, semantic[Len(semantic)])
  /\ semantic' = SubSeq(semantic, 1, Len(semantic) - 1)
  /\ states' = SubSeq(states, 1, Len(states) - 1)
  /\ UNCHANGED <<input, tokens, scopes, index, pc, production>>

\* One iteration of the loop that pops the right-hand side from the back.
PopRhs ==
  /\ pc = "reduce" /\ Len(rhs) < Len(Producer.right)
  /\ IF semantic = <<>>
     THEN pc' = "undefined" /\ UNCHANGED <<states, semantic, rhs>>
     ELSE /\ rhs' = <<semantic[Len(semantic)]>> \o rhs
          /\ semantic' = SubSeq(semantic, 1, Len(semantic) - 1)
          /\ states' = SubSeq(states, 1, Len(states) - 1)
          /\ UNCHANGED pc
  /\ UNCHANGED <<input, tokens, scopes, index, production>>

\* The lexeme of a left-hand side: the first nonempty one of its right-hand side.
FirstLexeme ==
  LET named == {k \in DOMAIN rhs : rhs[k].lexeme # NoLexeme}
  IN  IF named = {} THEN NoLexeme ELSE rhs[CHOOSE k \in named : \A j \in named : k <= j].lexeme

\* Mutant of Declared: every named symbol is declared, not identifiers only.
MutDeclared ==
  IF Producer.left \in DeclaringSymbols
  THEN {rhs[k].lexeme : k \in {j \in DOMAIN rhs : rhs[j].lexeme # NoLexeme}} ELSE {}

\* observeReduction: a declaring reduction adds its identifiers to the innermost scope.
Declared ==
  IF Producer.left \in DeclaringSymbols
  THEN {rhs[k].lexeme : k \in {j \in DOMAIN rhs : rhs[j].symbol = Identifier /\ rhs[j].lexeme # NoLexeme}}
  ELSE {}

\* The values of some entries, one behind the other.
Terms(entries) == Lists!FlattenSeq([k \in DOMAIN entries |-> entries[k].value])
Applied        == [by |-> production, lexeme |-> NoLexeme]

\* Mutant of Result: the arguments of an action are counted from the end.
MutResult == Terms(Lists!Reverse(rhs)) \o <<Applied>>

\* executeAction: a semantic action computes some value from those of the right-hand side,
\* here the term that says which action was applied to which values, in postfix notation;
\* without an action the value is that of the first symbol, and the empty value for an
\* empty right-hand side.
Result ==
  CASE production \in parser.acting -> Terms(rhs) \o <<Applied>>
    [] production \notin parser.acting /\ rhs # <<>> -> rhs[1].value
    [] OTHER -> <<>>

PushLeft ==
  /\ pc = "reduce" /\ Len(rhs) = Len(Producer.right)
  /\ scopes' = [scopes EXCEPT ![Len(scopes)] = @ \cup Declared]
  /\ IF states # <<>> /\ Producer.left \in DOMAIN parser.goto[Top]
     THEN /\ states' = Append(states, parser.goto[Top][Producer.left])
          /\ semantic' = Append(semantic, [symbol |-> Producer.left, lexeme |-> FirstLexeme, value |-> Result])
          /\ pc' = "loop"
     ELSE pc' = "threw" /\ UNCHANGED <<states, semantic>>
  /\ rhs' = <<>>
  /\ UNCHANGED <<input, tokens, index, production>>

Accept ==
  /\ InLoop /\ HasAction /\ Action.kind = "acc"
  /\ pc' = "accepted"
  /\ UNCHANGED <<input, tokens, states, semantic, scopes, index, production, rhs>>

\* Mutant of Reject: the entry "err" is not noticed and the loop goes on.
MutReject ==
  /\ pc = "loop" /\ ~(InLoop /\ HasAction)
  /\ pc' = "rejected"
  /\ UNCHANGED <<input, tokens, states, semantic, scopes, index, production, rhs>>

\* No entry, the entry "err", or no token left.
Reject ==
  /\ pc = "loop"
  /\ ~(InLoop /\ HasAction /\ Action.kind \in {"s", "r", "acc"})
  /\ pc' = "rejected"
  /\ UNCHANGED <<input, tokens, states, semantic, scopes, index, production, rhs>>

Next == Shift \/ StartReduce \/ PopRhs \/ PushLeft \/ Accept \/ Reject

Spec     == Init /\ [][Next]_vars
FairSpec == Spec /\ WF_vars(Next)   \* yyparse runs until it returns
-----------------------------------------------------------------------------
ASSUME ParsersAssumption ==
  \A n \in DOMAIN Parsers : AutomatonSound(Parsers[n]) /\ TablesSound(Parsers[n])
ASSUME DeterministicAssumption ==
  \A n \in DOMAIN Parsers : Parsers[n].deterministic => TablesComplete(Parsers[n])
ASSUME SentencesAssumption ==
  \A n \in DOMAIN Parsers : \A sentence \in Sentences[n] : IsSequence(sentence)
-----------------------------------------------------------------------------
TypeOK ==
  /\ input \in DOMAIN Parsers
  /\ IsSequence(tokens) /\ index \in 1 .. Len(tokens) + 1
  /\ states \in Seq(StateSet(parser)) /\ IsSequence(semantic)
  /\ IsSequence(scopes) /\ scopes # <<>>
  /\ pc \in {"loop", "reduce", "accepted", "rejected", "threw", "undefined"}
  /\ production \in Nat \ {0}
  /\ IsSequence(rhs) /\ (pc = "loop" => rhs = <<>>)

\* The two stacks run in step: below the state k + 1 lies the symbol that leads to it from
\* the state k.  They are two vectors, pushed and popped by separate statements.
StacksAgree ==
  /\ Len(states) = Len(semantic) + 1 /\ states[1] = 0
  /\ \A k \in 1 .. Len(semantic) :
       /\ semantic[k].symbol \in DOMAIN parser.next[states[k]]
       /\ states[k + 1] = parser.next[states[k]][semantic[k].symbol]

\* While a right-hand side is being popped, the top state holds the item that has its dot
\* before what is already popped, and what is popped spells the rest of the right-hand side.
Unpopped == Len(Producer.right) - Len(rhs)
PopsOnPath ==
  pc = "reduce" =>
    /\ production \in 1 .. Len(parser.producers)
    /\ Len(rhs) <= Len(Producer.right)
    /\ [left |-> Producer.left, right |-> Producer.right, dot |-> Unpopped] \in parser.items[Top]
    /\ \A k \in 1 .. Len(rhs) : rhs[k].symbol = Producer.right[Unpopped + k]

\* yyparse never pops an empty stack and kGoto.at never throws.
NeverStuck == pc \notin {"threw", "undefined"}

IInv == TypeOK /\ StacksAgree /\ PopsOnPath /\ NeverStuck

\* When the parser accepts, it has reduced everything before the end marker to the start
\* symbol: nothing is left over on the stack.
AcceptsWhole ==
  pc = "accepted" =>
    /\ Len(semantic) = 1 /\ semantic[1].symbol = parser.start
    /\ index <= Len(tokens) /\ Look.type = EndMarker

(***************************************************************************)
(* The language.                                                           *)
(***************************************************************************)
\* The word the parser was asked about: what precedes the first end marker.
EndPlace(ts) == CHOOSE k \in DOMAIN ts : ts[k].type = EndMarker /\ \A j \in 1 .. k - 1 : ts[j].type # EndMarker
Word == [k \in 1 .. EndPlace(tokens) - 1 |-> tokens[k].type]

\* Without conflicts in its table, yyparse answers true exactly for the sentences of the
\* grammar; the reference derives them span by span and knows of no automaton.
AcceptsLanguage ==
  parser.deterministic /\ pc \in {"accepted", "rejected"} =>
    (pc = "accepted" <=> InLanguage(parser, Word))

(***************************************************************************)
(* The values.                                                             *)
(***************************************************************************)
\* The lexemes in a term.
Yield(term) == Lists!FlattenSeq([k \in DOMAIN term |-> IF term[k].by = 0 THEN <<term[k].lexeme>> ELSE <<>>])

\* A production of several symbols without an action drops all values but the first.
NoValueDropped ==
  \A k \in DOMAIN parser.producers : Len(parser.producers[k].right) > 1 => k \in parser.acting

\* Semantic actions see each token once, in input order: the values on the stack and those
\* being popped are made of the lexemes shifted so far.
ValuesInOrder ==
  NoValueDropped =>
    Yield(Terms(semantic \o rhs)) = [k \in 1 .. index - 1 |-> tokens[k].lexeme]

(***************************************************************************)
(* yyparse implements BottomUp: read from the bottom of the stack over the *)
(* values being popped to the tokens still to come, its symbols are a      *)
(* sentential form, which only reductions change.                          *)
(***************************************************************************)
Symbols(entries) == [k \in DOMAIN entries |-> entries[k].symbol]
Types(ts)        == [k \in DOMAIN ts |-> ts[k].type]
Reading(stack, popped, ts, from) ==
  Symbols(stack) \o Symbols(popped) \o Types(SubSeq(ts, from, Len(ts)))
Form    == Reading(semantic, rhs, tokens, index)
Verdict == IF pc \in {"loop", "reduce"} THEN "open" ELSE pc

Abstract == INSTANCE BottomUp WITH
  Grammars <- Parsers,
  Words    <- [n \in DOMAIN Parsers |-> {Types(WithEnd(sentence)) : sentence \in Sentences[n]}],
  form     <- Form,
  verdict  <- Verdict
ImplementsBottomUp == Abstract!Spec

\* Every call of yyparse returns.
Terminates == <>(pc \in {"accepted", "rejected"})
=============================================================================
