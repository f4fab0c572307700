----------------------------- MODULE LexRuntime -----------------------------
(***************************************************************************)
(* The scanner that CodeGenerator::emitLexer writes (code_generator.cpp):  *)
(* lex_one, which finds the longest match and runs the rule's action, and  *)
(* the three loops around it, tokenize_detailed, tokenize_for_parser and   *)
(* lex_one_parser_token.                                                   *)
(*                                                                         *)
(* A scanner is a record                                                   *)
(*   start  : kStartState,                                                 *)
(*   next   : kTransitions, state |-> partial function character |-> state *)
(*   action : the rule action of each accepting state (kAcceptStates is    *)
(*            its domain).                                                 *)
(* A rule action is C++ of the user; here it is one of                     *)
(*   [kind |-> "token", type, value] : sets yylval and returns a code,     *)
(*   [kind |-> "skip"]               : returns nothing (the code is 0),    *)
(*   [kind |-> "read", until]        : calls input() up to a character.    *)
(* Bytes from 128 on have no transition, like a character that no rule     *)
(* mentions.  Text positions count the characters before them.             *)
(***************************************************************************)
EXTENDS Integers, Sequences, FiniteSets

CONSTANTS
  Scanners,    \* scanner name |-> scanner
  Sources,     \* scanner name |-> the texts it is run on
  Capacity,    \* kYYTextCapacity
  NewLine      \* the character that ends a line

ASSUME CapacityAssumption == Capacity \in Nat \ {0}
ASSUME ScannersAssumption ==
  \A n \in DOMAIN Scanners :
    LET s == Scanners[n]
    IN  /\ DOMAIN s.next \subseteq Nat
        /\ s.start \in DOMAIN s.next /\ DOMAIN s.action \subseteq DOMAIN s.next
        /\ \A q \in DOMAIN s.next : \A c \in DOMAIN s.next[q] : s.next[q][c] \in DOMAIN s.next
        /\ \A q \in DOMAIN s.action :
             /\ s.action[q].kind \in {"token", "skip", "read"}
             /\ s.action[q].kind = "token" => s.action[q].type \in Int
ASSUME SourcesAssumption ==
  \A n \in DOMAIN Scanners : \A text \in Sources[n] : text \in Seq({text[k] : k \in DOMAIN text})

NoValue == "none"      \* yylval after reset_yylval
NoState == -1
ErrorType == -1        \* the code of a character that starts no match

VARIABLES
  input,     \* the scanner's name
  mode,      \* the loop around lex_one: "detailed", "parser" or "stream"
  source,    \* yy_source
  cursor,    \* yy_cursor, yylineno and column: [pos, line, column]
  from,      \* where lex_one began: [pos, line, column]
  scan,      \* pos, scan_line and scan_column of the scanning loop
  trail,     \* the states it went through since from, of which lex_one keeps the last
  accepted,  \* last_accept_pos, ..._line, ..._column and ..._state
  yytext,    \* yytext_storage
  yylval,
  token,     \* what lex_one fills in: [type, lexeme, line, column]
  tokens,    \* the tokens collected by the loop
  values,    \* and the semantic values, collected beside them
  pc         \* "call", "scan", "act", "read", "loop", and the ends "done", "threw"

vars == <<input, mode, source, cursor, from, scan, trail, accepted, yytext, yylval, token, tokens, values, pc>>

scanner == Scanners[input]
Modes   == {"detailed", "parser", "stream"}
NoToken == [type |-> 0, lexeme |-> <<>>, line |-> 0, column |-> 0]
Origin  == [pos |-> 0, line |-> 1, column |-> 1]

At(place, q) == [pos |-> place.pos, line |-> place.line, column |-> place.column, state |-> q]
Place(mark)  == [pos |-> mark.pos, line |-> mark.line, column |-> mark.column]
AtEnd(pos)   == pos >= Len(source)
Text(a, b)   == SubSeq(source, a + 1, b)

\* advance_position, for the character at place.
Advance(place) ==
  IF source[place.pos + 1] = NewLine
  THEN [pos |-> place.pos + 1, line |-> place.line + 1, column |-> 1]
  ELSE [pos |-> place.pos + 1, line |-> place.line, column |-> place.column + 1]

\* reset_source, by the loops themselves or by begin_lexing.
Init ==
  /\ input \in DOMAIN Scanners /\ mode \in Modes /\ source \in Sources[input]
  /\ cursor = Origin /\ from = Origin
  /\ scan = Origin /\ trail = <<>> /\ accepted = At(Origin, NoState)
  /\ yytext = <<>> /\ yylval = NoValue /\ token = NoToken
  /\ tokens = <<>> /\ values = <<>> /\ pc = "call"

IsAccepting(q) == q \in DOMAIN scanner.action

\* The head of a loop: with text left lex_one begins at the cursor; a start state that
\* accepts is a match of nothing.  Only the loops of the parser clear yylval.
Begin ==
  /\ pc = "call" /\ ~AtEnd(cursor.pos)
  /\ yylval' = IF mode = "detailed" THEN yylval ELSE NoValue
  /\ from' = cursor
  /\ scan' = cursor /\ trail' = <<scanner.start>>
  /\ accepted' = At(cursor, IF IsAccepting(scanner.start) THEN scanner.start ELSE NoState)
  /\ pc' = "scan"
  /\ UNCHANGED <<input, mode, source, cursor, yytext, token, tokens, values>>

state   == trail[Len(trail)]
CanMove == ~AtEnd(scan.pos) /\ source[scan.pos + 1] \in DOMAIN scanner.next[state]
Target  == scanner.next[state][source[scan.pos + 1]]

\* Mutant: a later state that accepts nothing also moves the end of the match.
MutForgetsAccept ==
  /\ pc = "scan" /\ CanMove
  /\ scan' = Advance(scan)
  /\ trail' = Append(trail, Target)
  /\ accepted' = IF IsAccepting(Target) \/ accepted.state # NoState
                 THEN At(Advance(scan), IF IsAccepting(Target) THEN Target ELSE accepted.state)
                 ELSE accepted
  /\ UNCHANGED <<input, mode, source, cursor, from, yytext, yylval, token, tokens, values, pc>>

ScanCharacter ==
  /\ pc = "scan" /\ CanMove
  /\ scan' = Advance(scan)
  /\ trail' = Append(trail, Target)
  /\ accepted' = IF IsAccepting(Target) THEN At(Advance(scan), Target) ELSE accepted
  /\ UNCHANGED <<input, mode, source, cursor, from, yytext, yylval, token, tokens, values, pc>>

TokenOf(type, lexeme) == [type |-> type, lexeme |-> lexeme, line |-> from.line, column |-> from.column]

\* No prefix is accepted: one character becomes an error token.
ReportError ==
  /\ pc = "scan" /\ ~CanMove /\ accepted.state = NoState
  /\ 1 < Capacity
  /\ yytext' = Text(from.pos, from.pos + 1)
  /\ cursor' = Advance(cursor)
  /\ token' = TokenOf(ErrorType, yytext')
  /\ pc' = "loop"
  /\ UNCHANGED <<input, mode, source, from, scan, trail, accepted, yylval, tokens, values>>

Matched == Text(from.pos, accepted.pos)

\* Mutant: the cursor goes to the end of the scan, not of the match.
MutNoBacktrack ==
  /\ pc = "scan" /\ ~CanMove /\ accepted.state # NoState
  /\ Len(Matched) < Capacity
  /\ yytext' = Matched
  /\ cursor' = IF accepted.pos = from.pos THEN Advance(cursor)
               ELSE [pos |-> accepted.pos, line |-> scan.line, column |-> scan.column]
  /\ pc' = "act"
  /\ UNCHANGED <<input, mode, source, from, scan, trail, accepted, yylval, token, tokens, values>>

\* Mutant: a match of nothing leaves the cursor where it is.
MutStandsStill ==
  /\ pc = "scan" /\ ~CanMove /\ accepted.state # NoState
  /\ Len(Matched) < Capacity
  /\ yytext' = Matched
  /\ cursor' = Place(accepted)
  /\ pc' = "act"
  /\ UNCHANGED <<input, mode, source, from, scan, trail, accepted, yylval, token, tokens, values>>

\* Mutant: the lexeme is the text of the whole scan.
MutWholeScan ==
  /\ pc = "scan" /\ ~CanMove /\ accepted.state # NoState
  /\ Len(Matched) < Capacity
  /\ yytext' = Text(from.pos, scan.pos)
  /\ cursor' = IF accepted.pos = from.pos THEN Advance(cursor) ELSE Place(accepted)
  /\ pc' = "act"
  /\ UNCHANGED <<input, mode, source, from, scan, trail, accepted, yylval, token, tokens, values>>

\* The text of the match, and the cursor behind it; a match of nothing swallows one
\* character, so that the scanner cannot stand still.
TakeMatch ==
  /\ pc = "scan" /\ ~CanMove /\ accepted.state # NoState
  /\ Len(Matched) < Capacity
  /\ yytext' = Matched
  /\ cursor' = IF accepted.pos = from.pos THEN Advance(cursor) ELSE Place(accepted)
  /\ pc' = "act"
  /\ UNCHANGED <<input, mode, source, from, scan, trail, accepted, yylval, token, tokens, values>>

\* sync_yytext throws, and the loop around it with it.
Overflow ==
  /\ pc = "scan" /\ ~CanMove
  /\ (IF accepted.state = NoState THEN 1 ELSE Len(Matched)) >= Capacity
  /\ yytext' = IF accepted.state = NoState THEN Text(from.pos, from.pos + 1) ELSE Matched
  /\ pc' = "threw"
  /\ UNCHANGED <<input, mode, source, cursor, from, scan, trail, accepted, yylval, token, tokens, values>>

RuleAction == scanner.action[accepted.state]

\* dispatch_action.
ReturnToken ==
  /\ pc = "act" /\ RuleAction.kind = "token"
  /\ yylval' = RuleAction.value
  /\ token' = TokenOf(RuleAction.type, yytext)
  /\ pc' = "loop"
  /\ UNCHANGED <<input, mode, source, cursor, from, scan, trail, accepted, yytext, tokens, values>>

Skip ==
  /\ pc = "act" /\ RuleAction.kind = "skip"
  /\ token' = TokenOf(0, yytext)
  /\ pc' = "loop"
  /\ UNCHANGED <<input, mode, source, cursor, from, scan, trail, accepted, yytext, yylval, tokens, values>>

StartReading ==
  /\ pc = "act" /\ RuleAction.kind = "read"
  /\ pc' = "read"
  /\ UNCHANGED <<input, mode, source, cursor, from, scan, trail, accepted, yytext, yylval, token, tokens, values>>

\* One call of input() from an action, which stops at its character or at the end.
ReadInput ==
  /\ pc = "read"
  /\ cursor' = IF AtEnd(cursor.pos) THEN cursor ELSE Advance(cursor)
  /\ IF AtEnd(cursor.pos) \/ source[cursor.pos + 1] = RuleAction.until
     THEN pc' = "loop" /\ token' = TokenOf(0, yytext)
     ELSE UNCHANGED <<pc, token>>
  /\ UNCHANGED <<input, mode, source, from, scan, trail, accepted, yytext, yylval, tokens, values>>

\* Mutant: the value is collected for every match, as if none were skipped.
MutDropToken ==
  /\ pc = "loop" /\ token.type = 0
  /\ values' = IF mode = "detailed" THEN values ELSE Append(values, yylval)
  /\ pc' = "call"
  /\ UNCHANGED <<input, mode, source, cursor, from, scan, trail, accepted, yytext, yylval, token, tokens>>

\* Back in the loop: code 0 is no token.
DropToken ==
  /\ pc = "loop" /\ token.type = 0
  /\ pc' = "call"
  /\ UNCHANGED <<input, mode, source, cursor, from, scan, trail, accepted, yytext, yylval, token, tokens, values>>

CollectToken ==
  /\ pc = "loop" /\ token.type # 0
  /\ tokens' = Append(tokens, token)
  /\ values' = IF mode = "detailed" THEN values ELSE Append(values, yylval)
  /\ pc' = "call"
  /\ UNCHANGED <<input, mode, source, cursor, from, scan, trail, accepted, yytext, yylval, token>>

\* The text is used up; lex_one_parser_token clears yylval before it finds that out.
Finish ==
  /\ pc = "call" /\ AtEnd(cursor.pos)
  /\ yylval' = IF mode = "stream" THEN NoValue ELSE yylval
  /\ pc' = "done"
  /\ UNCHANGED <<input, mode, source, cursor, from, scan, trail, accepted, yytext, token, tokens, values>>

Next ==
  \/ Begin \/ ScanCharacter \/ ReportError \/ TakeMatch \/ Overflow
  \/ ReturnToken \/ Skip \/ StartReading \/ ReadInput
  \/ DropToken \/ CollectToken \/ Finish

Spec     == Init /\ [][Next]_vars
FairSpec == Spec /\ WF_vars(Next)   \* the loops run until they return

-----------------------------------------------------------------------------
Places     == [pos : 0..Len(source), line : Nat \ {0}, column : Nat \ {0}]
Characters == {source[k] : k \in DOMAIN source}
Codes      == {scanner.action[q].type : q \in {p \in DOMAIN scanner.action : scanner.action[p].kind = "token"}}
SemanticValues == {scanner.action[q].value : q \in {p \in DOMAIN scanner.action : scanner.action[p].kind = "token"}}
Tokens     == [type : Codes \cup {0, ErrorType}, lexeme : Seq(Characters), line : Nat, column : Nat]

\* Types of what lex_one and the loops around it keep; the action to run is one the
\* scanner has.
TypeOK ==
  /\ input \in DOMAIN Scanners /\ mode \in Modes /\ source \in Sources[input]
  /\ cursor \in Places /\ from \in Places /\ scan \in Places
  /\ trail \in Seq(DOMAIN scanner.next)
  /\ accepted \in [pos : 0..Len(source), line : Nat \ {0}, column : Nat \ {0},
                   state : DOMAIN scanner.action \cup {NoState}]
  /\ yytext \in Seq(Characters) /\ yylval \in SemanticValues \cup {NoValue}
  /\ token \in Tokens /\ tokens \in Seq(Tokens)
  /\ values \in Seq(SemanticValues \cup {NoValue})
  /\ pc \in {"call", "scan", "act", "read", "loop", "done", "threw"}
  /\ pc \in {"act", "read"} => accepted.state # NoState

Breaks(n) == {k \in 1..n : source[k] = NewLine}

\* A place names the line and column that its text position has: the line counts the
\* line ends before it, the column the characters since the last of them.
InStep(place) ==
  /\ place.line = Cardinality(Breaks(place.pos)) + 1
  /\ \E b \in 0..place.pos :
       /\ b = 0 \/ source[b] = NewLine
       /\ \A k \in (b + 1)..place.pos : source[k] # NewLine
       /\ place.column = place.pos - b + 1

\* The three copies of line and column - the scanner's, the scanning loop's and the one
\* of the last accepting state - stay in step with their positions, through backtracking,
\* error characters and the characters an action reads (code_generator.cpp 478-494,
\* 571-640), so that a token carries the place where its text begins.
PlacesFollowText == InStep(cursor) /\ InStep(from) /\ InStep(scan) /\ InStep(Place(accepted))

\* The scanning loop walks the transitions along the text, and remembers the last
\* accepting state it met: no prefix it has seen that is longer than the remembered one
\* is accepted, and it stops only where no transition is left (lex_one, 591-609).
LongestMatch ==
  pc \in {"scan", "act"} =>
    /\ Len(trail) = scan.pos - from.pos + 1 /\ trail[1] = scanner.start
    /\ \A k \in 1..(Len(trail) - 1) :
         /\ source[from.pos + k] \in DOMAIN scanner.next[trail[k]]
         /\ trail[k + 1] = scanner.next[trail[k]][source[from.pos + k]]
    /\ from.pos <= accepted.pos /\ accepted.pos <= scan.pos
    /\ accepted.state = IF IsAccepting(trail[accepted.pos - from.pos + 1])
                        THEN trail[accepted.pos - from.pos + 1] ELSE NoState
    /\ accepted.state = NoState => accepted.pos = from.pos
    /\ \A k \in (accepted.pos - from.pos + 2)..Len(trail) : ~IsAccepting(trail[k])
    /\ pc = "act" => ~CanMove

\* Every lex_one that comes back has moved the cursor, the match of nothing and the
\* character without a match included: the loops around it come to an end (625-632).
CallMoves == pc \in {"act", "read", "loop"} => from.pos < cursor.pos

\* No call, and no action's input(), takes the scanner back over text it has passed.
NeverBack == [][cursor.pos <= cursor'.pos /\ (cursor'.pos = cursor.pos => cursor' = cursor)]_vars

\* The transition of a run, which stays without a state once there was none.
Follow(s, q, c) == IF q # NoState /\ c \in DOMAIN s.next[q] THEN s.next[q][c] ELSE NoState

\* The states of a run over the text on its own, until it has no transition.
RunFrom(s, text) ==
  LET q[n \in 0..Len(text)] == IF n = 0 THEN s.start ELSE Follow(s, q[n - 1], text[n])
  IN  q

\* analysis(): the verdict on a whole text, run without the loops.
Analysis(text) ==
  LET last == RunFrom(scanner, text)[Len(text)]
  IN  IF last \in DOMAIN scanner.action
      THEN IF scanner.action[last].kind = "token" THEN scanner.action[last].type ELSE 0
      ELSE ErrorType

\* analysis() gives the text of a token the code that the loops gave it, although they
\* met it in the middle of a longer text: backtracking leaves nothing behind.
AnalysisAgrees == \A k \in DOMAIN tokens : Analysis(tokens[k].lexeme) = tokens[k].type

(***************************************************************************)
(* The reference: the tokens of a text, cut where the definition of the    *)
(* longest match says.  It knows neither loop nor cursor.                  *)
(***************************************************************************)
LineEnds(text, pos) == {k \in 1..pos : text[k] = NewLine}
LineAt(text, pos)   == Cardinality(LineEnds(text, pos)) + 1
ColumnAt(text, pos) ==
  pos + 1 - CHOOSE b \in LineEnds(text, pos) \cup {0} : \A k \in LineEnds(text, pos) : k <= b

\* The state of a run over the n characters behind pos, the numbers of characters with
\* which it ends in an accepting one, and the largest of them or -1.
EndOf(s, text, pos, n) == RunFrom(s, SubSeq(text, pos + 1, pos + n))[n]
Matches(s, text, pos)  == {n \in 0..(Len(text) - pos) : EndOf(s, text, pos, n) \in DOMAIN s.action}
Longest(s, text, pos)  ==
  CHOOSE n \in Matches(s, text, pos) \cup {-1} : \A m \in Matches(s, text, pos) : m <= n

\* Where an action that began to read at pos has come up to its character, or to the end.
ReadTo(text, pos, until) ==
  LET found == {k \in (pos + 1)..Len(text) : text[k] = until}
  IN  IF found = {} THEN Len(text) ELSE CHOOSE k \in found : \A j \in found : k <= j

\* What a call at pos is to return, and where the next one begins.
Call(s, text, pos) ==
  LET n    == Longest(s, text, pos)
      past == IF n > 0 THEN pos + n ELSE pos + 1
      act  == s.action[EndOf(s, text, pos, n)]
  IN  CASE n = -1                        -> [size |-> 1, type |-> ErrorType, value |-> NoValue, to |-> past]
        [] n # -1 /\ act.kind = "token"  -> [size |-> n, type |-> act.type, value |-> act.value, to |-> past]
        [] n # -1 /\ act.kind = "read"   -> [size |-> n, type |-> 0, value |-> NoValue, to |-> ReadTo(text, past, act.until)]
        [] n # -1 /\ act.kind = "skip"   -> [size |-> n, type |-> 0, value |-> NoValue, to |-> past]

\* The tokens of the last so many characters, with their values, and whether one of them
\* is longer than yytext.
Cut(s, text) ==
  LET cut[rest \in 0..Len(text)] ==
        LET pos  == Len(text) - rest
            call == Call(s, text, pos)
            more == cut[Len(text) - call.to]
            this == [type |-> call.type, lexeme |-> SubSeq(text, pos + 1, pos + call.size),
                     line |-> LineAt(text, pos), column |-> ColumnAt(text, pos)]
        IN  IF rest = 0 THEN [tokens |-> <<>>, values |-> <<>>, threw |-> FALSE]
            ELSE IF call.size >= Capacity THEN [tokens |-> <<>>, values |-> <<>>, threw |-> TRUE]
            ELSE IF call.type = 0 THEN more
            ELSE [tokens |-> <<this>> \o more.tokens, values |-> <<call.value>> \o more.values, threw |-> more.threw]
  IN  cut

\* Every loop collects exactly the tokens that longest matches, first rules and the
\* actions' own reading cut from the text, each with its value and place, and throws
\* exactly when a lexeme does not fit into yytext (571-711).
TokensExact ==
  pc \in {"done", "threw"} =>
    LET cut == Cut(scanner, source)[Len(source)]
    IN  /\ tokens = cut.tokens
        /\ values = IF mode = "detailed" THEN <<>> ELSE cut.values
        /\ (pc = "threw") = cut.threw

\* The loops return, on every text and with every scanner.
Terminates == <>(pc \in {"done", "threw"})
=============================================================================
