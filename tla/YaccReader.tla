----------------------------- MODULE YaccReader -----------------------------
(***************************************************************************)
(* The reader of .y files (yacc_parser.cpp): the three sections, the lines *)
(* of the definitions, and the productions with their actions.  A symbol   *)
(* is the sequence of units it is written with.                            *)
(***************************************************************************)
EXTENDS SourceText

CONSTANTS
  Files,         \* records with the text of a file
  Punctuation    \* the units that no identifier contains

VARIABLES
  file,           \* the one that is read
  definitions,    \* the lines of the definitions that are still to be read
  level,          \* of the next precedence declaration
  body, pos,      \* the rules section and the place in it
  left, rule,     \* the production in work
  midrules,       \* how many actions inside of productions were met
  spec,           \* the YaccSpecification
  reading         \* "sections", "definitions", "rules", "production", "done" or "threw"

yaccVars == <<file, definitions, level, body, pos, left, rule, midrules, spec, reading>>

Symbol(u)         == <<u>>
IsIdentifier(u)   == u \notin Punctuation
EmptyRule(symbol) == [left |-> symbol, right |-> <<>>, action |-> <<>>, precedence |-> <<>>]
Midrule(symbol, n) == <<"__midrule_">> \o symbol \o <<"_", ToString(n)>>

text == file.text

YaccInit ==
  /\ file \in Files
  /\ reading = "sections" /\ definitions = <<>> /\ body = <<>> /\ pos = 1 /\ level = 1
  /\ left = <<>> /\ rule = EmptyRule(<<>>) /\ midrules = 0
  /\ spec = [startSymbol |-> <<>>, tokenOrder |-> <<>>, tokenTypes |-> <<>>, nonterminalTypes |-> <<>>,
             precedenceDeclarations |-> <<>>, semanticUnion |-> <<>>, rules |-> <<>>]

Throw(condition) ==
  /\ condition /\ reading' = "threw"
  /\ UNCHANGED <<file, definitions, level, body, pos, left, rule, midrules, spec>>

-----------------------------------------------------------------------------
\* Without what stands between %{ and the next %}.  A section never ends inside of them, so
\* that an end is always there.
RemoveRanges(section) ==
  LET kept == {i \in DOMAIN section : ~InVerbatim(section, 1, i) /\ section[i] \notin {"%{", "%}"}}
  IN  FoldLeftDomain(LAMBDA done, i : IF i \in kept THEN Append(done, section[i]) ELSE done, <<>>, section)

\* The %union declaration: where it begins, its brace, and the position behind its block.
UnionAt(section)     == First({i \in DOMAIN section : section[i] = "%union"})
UnionBrace(section)  == First({i \in UnionAt(section)..Len(section) : section[i] = "{"})
BehindUnion(section) ==
  IF UnionBrace(section) = 0 THEN 0 ELSE ParseActionBlock(section, UnionBrace(section))

ReadSections ==
  LET first  == FindSectionDelimiter(text, 1)
      second == IF first = 0 THEN 0 ELSE FindSectionDelimiter(text, first + 1)
      section == RemoveRanges(SubSeq(text, 1, first - 1))
      declared == UnionAt(section) # 0
      behind   == BehindUnion(section)
  IN  /\ reading = "sections"
      /\ \/ Throw(second = 0)
         \/ second # 0 /\ Throw(declared /\ behind = 0)
         \/ /\ second # 0 /\ (declared => behind # 0)
            /\ definitions' = Pieces(IF ~declared THEN section
                                     ELSE SubSeq(section, 1, UnionAt(section) - 1)
                                          \o SubSeq(section, behind, Len(section)), "\n")
            /\ spec' = [spec EXCEPT !.semanticUnion =
                          IF declared THEN SubSeq(section, UnionBrace(section), behind - 1) ELSE <<>>]
            /\ body' = SubSeq(text, first + 1, second - 1)
            /\ reading' = "definitions"
            /\ UNCHANGED <<file, level, pos, left, rule, midrules>>

-----------------------------------------------------------------------------
\* parseDefinitionLines: the directive, the tag and the symbols of a line.
Directive(line) == IF WordsOf(line) = <<>> THEN "" ELSE Head(WordsOf(line))[1]
IsTag(word)     == word[1] = "<" /\ word[Len(word)] = ">"
Operands(line)  == SelectSeq(Tail(WordsOf(line)), LAMBDA w : ~IsTag(w))
Tag(line) ==
  LET tags == SelectSeq(Tail(WordsOf(line)), LAMBDA w : IsTag(w))
  IN  IF tags = <<>> THEN <<>> ELSE SubSeq(tags[Len(tags)], 2, Len(tags[Len(tags)]) - 1)

\* Every symbol of the line gets the tag, if there is one.
Typed(types, line) ==
  IF Tag(line) = <<>> THEN types ELSE [s \in Range(Operands(line)) |-> Tag(line)] @@ types

Associativities == ("%left" :> "left") @@ ("%right" :> "right") @@ ("%nonassoc" :> "nonassoc")

NextLine(directives) ==
  /\ reading = "definitions" /\ definitions # <<>>
  /\ Directive(Head(definitions)) \in directives
  /\ definitions' = Tail(definitions)
  /\ UNCHANGED <<file, body, pos, left, rule, midrules, reading>>

\* A %start without a symbol leaves what an earlier one said.
ReadStart ==
  LET words == WordsOf(Head(definitions))
  IN  /\ NextLine({"%start"})
      /\ spec' = IF Len(words) > 1 THEN [spec EXCEPT !.startSymbol = words[2]] ELSE spec
      /\ UNCHANGED level

ReadPrecedence ==
  LET line == Head(definitions)
  IN  /\ NextLine(DOMAIN Associativities)
      /\ level' = level + 1
      /\ spec' = [spec EXCEPT !.precedenceDeclarations =
                    Append(@, [associativity |-> Associativities[Directive(line)],
                               level |-> level, symbols |-> Operands(line)])]

ReadTokens ==
  LET line == Head(definitions)
  IN  /\ NextLine({"%token"})
      /\ spec' = [spec EXCEPT !.tokenOrder = @ \o Operands(line), !.tokenTypes = Typed(@, line)]
      /\ UNCHANGED level

ReadTypes ==
  /\ NextLine({"%type"})
  /\ spec' = [spec EXCEPT !.nonterminalTypes = Typed(@, Head(definitions))]
  /\ UNCHANGED level

IgnoreLine ==
  /\ reading = "definitions" /\ definitions # <<>>
  /\ Directive(Head(definitions)) \notin {"%start", "%token", "%type"} \cup DOMAIN Associativities
  /\ definitions' = Tail(definitions)
  /\ UNCHANGED <<file, level, body, pos, left, rule, midrules, spec, reading>>

EndDefinitions ==
  /\ reading = "definitions" /\ definitions = <<>>
  /\ reading' = "rules"
  /\ UNCHANGED <<file, definitions, level, body, pos, left, rule, midrules, spec>>

-----------------------------------------------------------------------------
\* parseRules.  The next place that counts, and the unit there.
Here        == SkipSpaceAndComments(body, pos)
InBody(i)   == i \in DOMAIN body
At(i, unit) == InBody(i) /\ body[i] = unit

\* parseGrammarSymbol: the position behind the symbol at i; i when there is none, 0 when a
\* quote is never closed.
BehindSymbol(i) ==
  CASE ~InBody(i)                 -> i
    [] body[i] \in {"'", "\""}    -> ParseQuotedToken(body, i)
    [] OTHER                      -> IF IsIdentifier(body[i]) THEN i + 1 ELSE i

BeginRule ==
  LET colon == SkipSpaceAndComments(body, Here + 1)
  IN  /\ reading = "rules" /\ Here # 0 /\ InBody(Here)
      /\ \/ Throw(~(IsIdentifier(body[Here]) /\ At(colon, ":")))
         \/ /\ IsIdentifier(body[Here]) /\ At(colon, ":")
            /\ left' = Symbol(body[Here]) /\ rule' = EmptyRule(Symbol(body[Here]))
            /\ pos' = colon + 1 /\ reading' = "production"
            /\ UNCHANGED <<file, definitions, level, body, midrules, spec>>

\* An action in front of "|", ";" or the end of the text is the one of the production; any
\* other becomes the action of an empty production of its own, which comes first.
IsFinalAction(behind) == InBody(behind) => body[behind] \in {"|", ";"}
TakeAction ==
  LET behind == ParseActionBlock(body, Here)
      next   == IF behind = 0 THEN 0 ELSE SkipSpaceAndComments(body, behind)
      action == SubSeq(body, Here, behind - 1)
      synthetic == [EmptyRule(Midrule(left, midrules)) EXCEPT !.action = action]
  IN  /\ reading = "production" /\ At(Here, "{")
      /\ \/ Throw(next = 0)
         \/ /\ next # 0 /\ IsFinalAction(next)
            /\ rule' = [rule EXCEPT !.action = action]
            /\ pos' = behind
            /\ UNCHANGED <<file, definitions, level, body, left, midrules, spec, reading>>
         \/ /\ next # 0 /\ ~IsFinalAction(next)
            /\ spec' = [spec EXCEPT !.rules = Append(@, synthetic)]
            /\ rule' = [rule EXCEPT !.right = Append(@, synthetic.left)]
            /\ midrules' = midrules + 1 /\ pos' = behind
            /\ UNCHANGED <<file, definitions, level, body, left, reading>>

EndAlternative ==
  /\ reading = "production" /\ At(Here, "|")
  /\ spec' = [spec EXCEPT !.rules = Append(@, rule)]
  /\ rule' = EmptyRule(left) /\ pos' = Here + 1
  /\ UNCHANGED <<file, definitions, level, body, left, midrules, reading>>

EndRule ==
  /\ reading = "production" /\ At(Here, ";")
  /\ spec' = [spec EXCEPT !.rules = Append(@, rule)]
  /\ pos' = Here + 1 /\ reading' = "rules"
  /\ UNCHANGED <<file, definitions, level, body, left, rule, midrules>>

\* "%prec" in front of a blank; the symbol behind it may be missing.
IsPrec(i) == At(i, "%prec") /\ (InBody(i + 1) => body[i + 1] \in {" ", "\n"})
TakePrec ==
  LET at     == SkipSpaceAndComments(body, Here + 1)
      behind == IF at = 0 THEN 0 ELSE BehindSymbol(at)
  IN  /\ reading = "production" /\ IsPrec(Here)
      /\ \/ Throw(behind = 0)
         \/ /\ behind # 0
            /\ rule' = [rule EXCEPT !.precedence = SubSeq(body, at, behind - 1)]
            /\ pos' = behind
            /\ UNCHANGED <<file, definitions, level, body, left, midrules, spec, reading>>

TakeSymbol ==
  LET behind == BehindSymbol(Here)
  IN  /\ reading = "production" /\ InBody(Here) /\ body[Here] \notin {"{", "|", ";"} /\ ~IsPrec(Here)
      /\ \/ Throw(behind \in {0, Here})
         \/ /\ behind \notin {0, Here}
            /\ rule' = [rule EXCEPT !.right = Append(@, SubSeq(body, Here, behind - 1))]
            /\ pos' = behind
            /\ UNCHANGED <<file, definitions, level, body, left, midrules, spec, reading>>

\* A comment without end, or the end of the section inside of a production.
BreakOff == Throw(\/ reading = "rules" /\ Here = 0
                  \/ reading = "production" /\ ~InBody(Here))

\* The end of the section: the start symbol is the left side of the first production, if
\* no line named one.
EndFile ==
  /\ reading = "rules" /\ Here = Len(body) + 1
  /\ \/ Throw(spec.startSymbol = <<>> /\ spec.rules = <<>>)
     \/ /\ spec.startSymbol # <<>> \/ spec.rules # <<>>
        /\ spec' = IF spec.startSymbol # <<>> THEN spec
                   ELSE [spec EXCEPT !.startSymbol = spec.rules[1].left]
        /\ reading' = "done"
        /\ UNCHANGED <<file, definitions, level, body, pos, left, rule, midrules>>

YaccNext ==
  \/ ReadSections
  \/ ReadStart \/ ReadPrecedence \/ ReadTokens \/ ReadTypes \/ IgnoreLine \/ EndDefinitions
  \/ BeginRule \/ TakeAction \/ EndAlternative \/ EndRule \/ TakePrec \/ TakeSymbol \/ BreakOff
  \/ EndFile
=============================================================================
