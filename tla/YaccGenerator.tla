---------------------------- MODULE YaccGenerator ----------------------------
(***************************************************************************)
(* SeuYaccDriver::generate (parse_table.cpp) around the automaton: the     *)
(* symbols of a specification are registered (symbol_table.cpp), they get  *)
(* the numbers that tokens have in the generated parser, and the actions   *)
(* are translated to code over the values of the right-hand side.          *)
(***************************************************************************)
EXTENDS YaccReader, CommandLine

CONSTANTS
  CharCode,     \* the number of every character that stands between quotes
  References    \* what "$$", "$1", "$<tag>1" name: [typed, tag, index], index 0 for "$$"

VARIABLES
  terminals, nonterminals, producers,   \* the global vectors
  terminalIds,                          \* the ids that the symbol table hands out
  precedence,                           \* level and associativity of a symbol
  emitted,                              \* the translated actions, of the first rules
  generating                            \* "reading", the loop of generate in work, or "done"

symbolVars == <<terminals, nonterminals, producers, terminalIds, precedence>>
vars == <<yaccVars, symbolVars, emitted, generating>>

EndMarker == <<"$">>
Quoted(s) == Len(s) >= 3 /\ s[1] = "'" /\ s[Len(s)] = "'"

EscapeCode == ("n" :> 10) @@ ("t" :> 9) @@ ("r" :> 13) @@ ("\\" :> 92) @@ ("'" :> 39) @@ ("0" :> 0)
DecodeQuotedTerminal(s) ==
  IF s[2] # "\\" THEN CharCode[s[2]]
  ELSE IF s[3] \in DOMAIN EscapeCode THEN EscapeCode[s[3]] ELSE CharCode[s[3]]

Init ==
  /\ YaccInit
  /\ terminals = <<>> /\ nonterminals = <<>> /\ producers = <<>>
  /\ terminalIds = <<>> /\ precedence = <<>> /\ emitted = <<>> /\ generating = "reading"

Read == YaccNext /\ UNCHANGED <<symbolVars, emitted, generating>>

-----------------------------------------------------------------------------
Registered(list, s) == IF s = <<>> \/ Contains(list, s) THEN list ELSE Append(list, s)

\* A quoted terminal whose last character has no backslash in front of it has the number of
\* its first character, and the others are counted from 256.
RegisteredId(ids, s) ==
  IF s = <<>> \/ s \in DOMAIN ids THEN ids
  ELSE LET counted == {t \in DOMAIN ids : t # EndMarker /\ ~(Quoted(t) /\ t[Len(t) - 1] # "\\")}
       IN  (s :> CASE Quoted(s) /\ s[Len(s) - 1] # "\\" -> CharCode[s[2]]
                   [] s = EndMarker                     -> 0
                   [] OTHER                             -> 256 + Cardinality(counted)) @@ ids

RegisterTerminals(symbols) ==
  /\ terminals' = FoldLeft(Registered, terminals, symbols)
  /\ terminalIds' = FoldLeft(RegisteredId, terminalIds, symbols)

RegisterTokens ==
  /\ reading = "done" /\ generating = "reading"
  /\ RegisterTerminals(spec.tokenOrder)
  /\ generating' = "lefts"
  /\ UNCHANGED <<yaccVars, nonterminals, producers, precedence, emitted>>

RegisterLefts ==
  /\ generating = "lefts"
  /\ nonterminals' = FoldLeft(LAMBDA list, r : Registered(list, r.left), nonterminals, spec.rules)
  /\ generating' = "rights"
  /\ UNCHANGED <<yaccVars, terminals, producers, terminalIds, precedence, emitted>>

\* Whatever no production defines is a terminal.
RegisterRights ==
  /\ generating = "rights"
  /\ RegisterTerminals(FoldLeft(LAMBDA list, r : list \o SelectSeq(r.right, LAMBDA s : ~Contains(nonterminals, s)),
                                <<>>, spec.rules))
  /\ generating' = "operators"
  /\ UNCHANGED <<yaccVars, nonterminals, producers, precedence, emitted>>

\* A later declaration of a symbol replaces an earlier one.
AddOperatorGroups ==
  /\ generating = "operators"
  /\ precedence' =
       FoldLeft(LAMBDA known, d : [s \in Range(d.symbols) |-> [level |-> d.level, rl |-> d.associativity]] @@ known,
                precedence, spec.precedenceDeclarations)
  /\ generating' = "producers"
  /\ UNCHANGED <<yaccVars, terminals, nonterminals, producers, terminalIds, emitted>>

AddProducers ==
  /\ generating = "producers"
  /\ producers' = producers \o [k \in DOMAIN spec.rules |-> [left |-> spec.rules[k].left, right |-> spec.rules[k].right]]
  /\ generating' = "actions"
  /\ UNCHANGED <<yaccVars, terminals, nonterminals, terminalIds, precedence, emitted>>

-----------------------------------------------------------------------------
\* The number of a terminal in kAction (tokenCodeForSymbol), the one that the header gives
\* it, and the symbol that the parser prints for a number (tokenSymbol).
TokenCodeForSymbol(s) ==
  CASE s = EndMarker -> 0
    [] Quoted(s)     -> DecodeQuotedTerminal(s)
    [] OTHER         -> LET named == SelectSeq(terminals, LAMBDA t : ~Quoted(t))
                        IN  256 + First({k \in DOMAIN named : named[k] = s}) - 1
\* A slip: quoted terminals get names of their own in the header.
MutTokenKinds == SelectSeq(terminals, LAMBDA t : t # EndMarker)
TokenKinds == SelectSeq(terminals, LAMBDA t : t # EndMarker /\ ~Quoted(t))
HeaderCode(s) == 256 + First({k \in DOMAIN TokenKinds : TokenKinds[k] = s}) - 1
TokenSymbol(type) == IF type = 0 THEN EndMarker ELSE TokenKinds[type - 255]

\* A slip: the type of a token goes first.
MutSemanticField(s) ==
  CASE s \in DOMAIN spec.tokenTypes       -> spec.tokenTypes[s]
    [] s \in DOMAIN spec.nonterminalTypes -> spec.nonterminalTypes[s]
    [] OTHER                              -> <<>>
\* semanticFieldForSymbol: the member of the union that holds a symbol's value.
SemanticField(s) ==
  CASE s \in DOMAIN spec.nonterminalTypes -> spec.nonterminalTypes[s]
    [] s \in DOMAIN spec.tokenTypes       -> spec.tokenTypes[s]
    [] OTHER                              -> <<>>

Copied(u)        == [copied |-> u]
Value(i, member) == [slot |-> i, member |-> member]

\* typedValueAccess and inferredValueAccess: nothing for a number beyond the right-hand side.
ValueAccess(r, ref) ==
  IF ref.index > Len(r.right) THEN <<>>
  ELSE <<Value(ref.index,
               IF ref.typed THEN ref.tag
               ELSE SemanticField(IF ref.index = 0 THEN r.left ELSE r.right[ref.index]))>>

StripOuterBraces(action) == SubSeq(action, 2, Len(action) - 1)

TranslateSemanticAction(r) ==
  FoldLeft(LAMBDA done, u :
             [mode |-> NextMode(done.mode, u),
              out  |-> done.out \o (IF done.mode = "code" /\ u \in DOMAIN References
                                    THEN ValueAccess(r, References[u]) ELSE <<Copied(u)>>)],
           [mode |-> "code", out |-> <<>>], StripOuterBraces(r.action)).out

\* The case of executeAction for a rule: without an action of its own the first value.
CaseOf(r) ==
  CASE r.action # <<>> -> TranslateSemanticAction(r)
    [] r.action = <<>> /\ r.right = <<>> -> <<>>
    [] OTHER -> <<Value(0, <<>>), Copied("="), Value(1, <<>>), Copied(";")>>

EmitAction ==
  /\ generating = "actions" /\ Len(emitted) < Len(spec.rules)
  /\ emitted' = Append(emitted, CaseOf(spec.rules[Len(emitted) + 1]))
  /\ UNCHANGED <<yaccVars, symbolVars, generating>>

EndEmission ==
  /\ generating = "actions" /\ Len(emitted) = Len(spec.rules)
  /\ generating' = "done"
  /\ UNCHANGED <<yaccVars, symbolVars, emitted>>

Stop == (reading = "threw" \/ generating = "done") /\ UNCHANGED vars

Next ==
  \/ Read
  \/ RegisterTokens \/ RegisterLefts \/ RegisterRights \/ AddOperatorGroups \/ AddProducers
  \/ EmitAction \/ EndEmission
  \/ Stop

Spec == Init /\ [][Next]_vars

-----------------------------------------------------------------------------
\* main: the generator runs and its process ends with what it returned, or no file is read.
AnyFile == CHOOSE f \in Files : TRUE   \* of no interest to a self test
MainInit == Init /\ CommandInit /\ (command # "generate" => file = AnyFile)

Generate == command = "generate" /\ Next /\ UNCHANGED testVars
Returns ==
  /\ reading = "threw" \/ generating = "done"
  /\ GenerateReturns(IF reading = "threw" THEN 1 ELSE 0) /\ UNCHANGED vars
Child == (ChildEnds \/ ChildDies) /\ UNCHANGED vars
Finished == doing = "ended" /\ UNCHANGED <<vars, testVars>>
MainNext == Generate \/ Returns \/ (Parent /\ UNCHANGED vars) \/ Child \/ Finished

MainSpec == MainInit /\ [][MainNext]_<<vars, testVars>>
\* The parent goes on when it can and a signal arrives; nothing is said of the children.
FairMain == MainSpec /\ WF_testVars(Parent /\ UNCHANGED vars) /\ WF_testVars(ChildDies /\ UNCHANGED vars)
=============================================================================
