------------------------------ MODULE LexReader ------------------------------
(***************************************************************************)
(* The reader of .l files (lex_parser.cpp): the named definitions and the  *)
(* rules, which are put together from lines until the expression and the   *)
(* action are both complete.                                               *)
(***************************************************************************)
EXTENDS SourceText

CONSTANT Files   \* records with the text of a file

VARIABLES
  file,           \* the one that is read
  lines,          \* of the section in work, those that are still to be read
  body,           \* the rules section
  idreTable,      \* the definitions: from names to the texts of expressions
  pendingRule,    \* the lines of the rule in work
  lexRules,       \* the rules that are complete, the first of highest priority
  reading         \* "sections", "definitions", "rules", "done" or "threw"

lexVars == <<file, lines, body, idreTable, pendingRule, lexRules, reading>>
text == file.text

LexInit ==
  /\ file \in Files
  /\ lines = <<>> /\ body = <<>> /\ idreTable = <<>> /\ pendingRule = <<>> /\ lexRules = <<>>
  /\ reading = "sections"

Spaces == {" ", "\n"}
Trim(s) ==
  LET solid == {i \in DOMAIN s : s[i] \notin Spaces}
  IN  IF solid = {} THEN <<>> ELSE SubSeq(s, Min(solid), Max(solid))

-----------------------------------------------------------------------------
\* The definitions end and the rules begin at the first lone "%%"; what stands between %{
\* and %} belongs to neither.
LexDelimiter(from) == FindSectionDelimiter(text, from)
WithoutVerbatim(section) ==
  LET outside == SelectSeq([i \in DOMAIN section |-> i],
                           LAMBDA i : ~InVerbatim(section, 1, i) /\ section[i] \notin {"%{", "%}"})
  IN  [k \in DOMAIN outside |-> section[outside[k]]]

ReadSections ==
  /\ reading = "sections"
  /\ \E first \in {LexDelimiter(1)} : \E second \in {IF first = 0 THEN 0 ELSE LexDelimiter(first + 1)} :
       \/ second = 0 /\ reading' = "threw" /\ UNCHANGED <<lines, body>>
       \/ /\ second # 0 /\ reading' = "definitions"
          /\ \E section \in {SubSeq(text, 1, first - 1)} : \E kept \in {WithoutVerbatim(section)} :
               lines' = Pieces(kept, "\n")
          /\ body' = SubSeq(text, first + 1, second - 1)
  /\ UNCHANGED <<file, idreTable, pendingRule, lexRules>>

\* A "/*" cuts the line off unless it follows an odd number of quotes.
IsQuote(line, i) == line[i] = "\"" /\ (i = 1 \/ line[i - 1] # "\\")
StripInlineComment(line) ==
  LET comments == {i \in DOMAIN line : /\ line[i] = "/*"
                                       /\ Cardinality({j \in 1..(i - 1) : IsQuote(line, j)}) % 2 = 0}
  IN  IF comments = {} THEN line ELSE SubSeq(line, 1, Min(comments) - 1)

\* A line with a name and a text behind it defines the name, again if it has been before.
DefineName ==
  /\ reading = "definitions" /\ lines # <<>>
  /\ lines' = Tail(lines)
  /\ \E stripped \in {StripInlineComment(Head(lines))} : \E line \in {Trim(stripped)} :
     \E blanks \in {{i \in DOMAIN line : line[i] = " "}} :
       idreTable' =
         IF blanks = {} THEN idreTable
         ELSE (SubSeq(line, 1, Min(blanks) - 1) :> Trim(SubSeq(line, Min(blanks), Len(line)))) @@ idreTable
  /\ UNCHANGED <<file, body, pendingRule, lexRules, reading>>

EndDefinitions ==
  /\ reading = "definitions" /\ lines = <<>>
  /\ lines' = Pieces(body, "\n") /\ reading' = "rules"
  /\ UNCHANGED <<file, body, idreTable, pendingRule, lexRules>>

-----------------------------------------------------------------------------
\* Where a unit of an expression stands: outside, in a string or in a class.
Placed ==
  [place \in {"plain", "quote", "class"}, mark \in {"\"", "[", "]", "other"} |->
     CASE mark = "\"" /\ place # "class" -> IF place = "quote" THEN "plain" ELSE "quote"
       [] mark = "[" /\ place # "quote"  -> "class"
       [] mark = "]" /\ place # "quote"  -> "plain"
       [] OTHER                          -> place]
NextPlace(place, u) == Placed[place, IF u \in {"\"", "[", "]"} THEN u ELSE "other"]

\* The first blank outside of strings and classes, 0 when there is none.
RECURSIVE Separator(_, _, _)
Separator(s, i, place) ==
  CASE i > Len(s)  -> 0
    [] s[i] = "\\" -> Separator(s, i + 2, place)
    [] s[i] \in Spaces /\ place = "plain" -> i
    [] OTHER       -> Separator(s, i + 1, NextPlace(place, s[i]))

SplitRegexAndAction(s) ==
  LET at == Separator(s, 1, "plain")
  IN  IF at = 0 THEN [regex |-> Trim(s), action |-> <<>>]
      ELSE [regex |-> Trim(SubSeq(s, 1, at - 1)), action |-> Trim(SubSeq(s, at, Len(s)))]

\* A slip: the braces are counted in strings, characters and comments too.
MutIsActionBalanced(action) ==
  /\ action # <<>>
  /\ action[1] = "{" =>
       Cardinality({i \in DOMAIN action : action[i] = "{"}) = Cardinality({i \in DOMAIN action : action[i] = "}"})
\* The braces of an action that begins with one must be closed; strings, characters and
\* comments do not count.
IsActionBalanced(action) ==
  /\ action # <<>>
  /\ action[1] = "{" => DepthBehind(action, 1, "code", 0) = 0

SkipBlankLine ==
  /\ reading = "rules" /\ lines # <<>> /\ Trim(Head(lines)) = <<>>
  /\ lines' = Tail(lines)
  /\ UNCHANGED <<file, body, idreTable, pendingRule, lexRules, reading>>

\* The line is put behind the lines before; what is complete then is a rule.
ReadRuleLine ==
  /\ reading = "rules" /\ lines # <<>> /\ Trim(Head(lines)) # <<>>
  /\ lines' = Tail(lines)
  /\ \E extended \in {(IF pendingRule = <<>> THEN <<>> ELSE Append(pendingRule, "\n")) \o Head(lines)} :
     \E parts \in {SplitRegexAndAction(extended)} :
     \E complete \in {parts.regex # <<>> /\ IsActionBalanced(parts.action)} :
       /\ pendingRule' = IF complete THEN <<>> ELSE extended
       /\ lexRules' = IF complete THEN Append(lexRules, parts) ELSE lexRules
  /\ UNCHANGED <<file, body, idreTable, reading>>

EndRules ==
  /\ reading = "rules" /\ lines = <<>>
  /\ reading' = IF Trim(pendingRule) = <<>> THEN "done" ELSE "threw"
  /\ UNCHANGED <<file, lines, body, idreTable, pendingRule, lexRules>>

LexNext ==
  \/ ReadSections \/ DefineName \/ EndDefinitions
  \/ SkipBlankLine \/ ReadRuleLine \/ EndRules
=============================================================================
