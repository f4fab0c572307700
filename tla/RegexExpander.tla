---------------------------- MODULE RegexExpander ----------------------------
(***************************************************************************)
(* Extended regular expressions (regex_expander.cpp): definitions are put  *)
(* in for their names, and the text is parsed by recursive descent.  The   *)
(* calls of parseUnion that are in progress are a stack of frames, with    *)
(* the alternative and the sequence that each has collected.               *)
(***************************************************************************)
EXTENDS LexReader, RegexReference

CONSTANTS
  Code,            \* the numbers of the characters the model knows
  Spelling,        \* the characters of a unit that is more than one
  AsciiLimit,      \* the universe of "." and of negated classes ends in front of it
  ByteLimit,       \* the number of values of an unsigned char
  MaxRepeatBound

VARIABLES
  expanded,        \* the trees of the first rules
  parsing,         \* "idle", "operand", "postfix", "string", "class", "range", "done" or "threw"
  regex, at,       \* the text in work and the place in it
  frames,          \* [union, parts] of the calls, the inner one last; <<>> for no tree yet
  atom,            \* the operand in work
  class,           \* the class in work: its characters, whether it is negated, its first place
  value, top       \* of the loop over a range

parserVars == <<regex, at, frames, atom, class, value, top>>
vars == <<lexVars, expanded, parsing, parserVars>>

Letters    == {"a", "b", "c", "D", "E", "n"}
Digits     == ("0" :> 0) @@ ("1" :> 1) @@ ("2" :> 2) @@ ("3" :> 3) @@ ("9" :> 9)
Characters(s) == FoldLeft(LAMBDA done, u : done \o (IF u \in DOMAIN Spelling THEN Spelling[u] ELSE <<u>>), <<>>, s)

\* The universe: characters 1 to AsciiLimit - 1.
BuildAsciiUniverse(includeNewline) ==
  {c \in DOMAIN Code : Code[c] \in 1..(AsciiLimit - 1) /\ (c = "\n" => includeNewline)}
MakeSet(chars) ==
  SetOf([k \in 1..Cardinality(chars) |-> CHOOSE c \in chars : Cardinality({d \in chars : Code[d] <= Code[c]}) = k])

EscapeOf == ("n" :> "\n") @@ ("t" :> "\t") @@ ("r" :> "\r") @@ ("f" :> "\f") @@ ("v" :> "vt") @@ ("0" :> "nul")
DecodeEscape(c) == IF c \in DOMAIN EscapeOf THEN EscapeOf[c] ELSE c

-----------------------------------------------------------------------------
\* n copies of t, and behind them as many that may be missing.
RECURSIVE Copies(_, _)
Copies(t, n) == CASE n = 0 -> Epsilon [] n = 1 -> t [] OTHER -> Concat(Copies(t, n - 1), t)
RECURSIVE Optional(_, _, _)
Optional(done, t, n) == IF n = 0 THEN done ELSE Optional(Concat(done, Union(t, Epsilon)), t, n - 1)

-----------------------------------------------------------------------------
\* expandNamedDefinitions: a name in braces, outside of strings and classes, is replaced by
\* its text in parentheses; a name that is not defined, one that is being replaced already
\* and a brace that is never closed are errors.  [text, ok].
IsIdentifierLike(s) == s # <<>> /\ s[1] \in Letters /\ \A i \in DOMAIN s : s[i] \in Letters \cup DOMAIN Digits

RECURSIVE ExpandNamedDefinitions(_, _)
ExpandNamedDefinitions(raw, guard) ==
  LET failed == [text |-> <<>>, ok |-> FALSE]
      prefixed(s, r) == [r EXCEPT !.text = s \o @]
      inner(name) == CHOOSE r \in {ExpandNamedDefinitions(s, guard \cup {name}) : s \in {Characters(idreTable[name])}} : TRUE
      from[i \in 1..(Len(raw) + 2), place \in {"plain", "quote", "class"}] ==
        LET close == First({j \in (i + 1)..Len(raw) : raw[j] = "}"})
            name  == SubSeq(raw, i + 1, close - 1)
        IN  CASE i > Len(raw) -> [text |-> <<>>, ok |-> TRUE]
              [] raw[i] = "\\" -> prefixed(SubSeq(raw, i, Min({i + 1, Len(raw)})), from[i + 2, place])
              [] raw[i] = "{" /\ place = "plain" /\ close = 0 -> failed
              [] raw[i] = "{" /\ place = "plain" /\ IsIdentifierLike(name) ->
                   IF name \notin DOMAIN idreTable \ guard \/ ~inner(name).ok THEN failed
                   ELSE prefixed(<<"(", " ">> \o inner(name).text \o <<" ", ")">>, from[close + 1, "plain"])
              [] OTHER -> prefixed(<<raw[i]>>, from[i + 1, NextPlace(place, raw[i])])
  IN  from[1, "plain"]

-----------------------------------------------------------------------------
Peek(i)      == IF i \in DOMAIN regex THEN regex[i] ELSE "end"
SkipSpace(i) == Min({j \in i..(Len(regex) + 1) : Peek(j) \notin Spaces} \cup {Len(regex) + 1})
Here         == SkipSpace(at)
Frame        == [union |-> <<>>, parts |-> <<>>]
NoClass      == [chars |-> {}, negated |-> FALSE, first |-> TRUE]

\* A tree joined to what may not be there yet.
Joined(done, t, Op(_, _)) == IF done = <<>> THEN <<t>> ELSE <<Op(done[1], t)>>

Init ==
  /\ LexInit
  /\ expanded = <<>> /\ parsing = "idle" /\ regex = <<>> /\ at = 1 /\ frames = <<>>
  /\ atom = Epsilon /\ class = NoClass /\ value = 0 /\ top = 0

Read == LexNext /\ UNCHANGED <<expanded, parsing, parserVars>>

\* The reader or the parser has thrown.
Throw(condition) ==
  /\ condition /\ parsing' = "threw"
  /\ UNCHANGED <<lexVars, expanded, parserVars>>
Refuse == Throw(reading = "threw" /\ parsing = "idle")

\* The next rule, with its definitions put in.
ExpandRule ==
  /\ reading = "done" /\ parsing = "idle" /\ Len(expanded) < Len(lexRules)
  /\ \E raw \in {Characters(lexRules[Len(expanded) + 1].regex)} : \E e \in {ExpandNamedDefinitions(raw, {})} :
       \/ Throw(~e.ok)
       \/ /\ e.ok /\ parsing' = "operand" /\ regex' = e.text /\ at' = 1 /\ frames' = <<Frame>>
          /\ UNCHANGED <<lexVars, expanded, atom, class, value, top>>

\* To the place i, with an operand, in a mode.
Goes(i, t, next) ==
  /\ at' = i /\ atom' = t /\ parsing' = next
  /\ UNCHANGED <<lexVars, expanded, regex, value, top>>

-----------------------------------------------------------------------------
\* A character of a text with escapes: itself and the place behind it, 0 at the end.
Behind(i)      == IF Peek(i) = "\\" THEN (IF i < Len(regex) THEN i + 2 ELSE 0)
                  ELSE IF i > Len(regex) THEN 0 ELSE i + 1
CharacterAt(i) == IF Peek(i) = "\\" THEN DecodeEscape(regex[i + 1]) ELSE regex[i]

\* parsePrimary: what an operand begins with.
OpenGroup ==
  /\ parsing = "operand" /\ Peek(Here) = "("
  /\ frames' = Append(frames, Frame)
  /\ Goes(Here + 1, atom, "operand") /\ UNCHANGED class

OpenString ==
  /\ parsing = "operand" /\ Peek(Here) = "\""
  /\ Goes(Here + 1, Epsilon, "string") /\ UNCHANGED <<frames, class>>

OpenClass ==
  LET negated == Peek(Here + 1) = "^"
  IN  /\ parsing = "operand" /\ Peek(Here) = "["
      /\ class' = [NoClass EXCEPT !.negated = negated]
      /\ Goes(IF negated THEN Here + 2 ELSE Here + 1, atom, "class") /\ UNCHANGED frames

TakeAny ==
  /\ parsing = "operand" /\ Peek(Here) = "."
  /\ Goes(Here + 1, MakeSet(BuildAsciiUniverse(FALSE)), "postfix") /\ UNCHANGED <<frames, class>>

\* Every other character stands for itself, "{" and "]" too; an operator has no place here.
Operators == {"*", "+", "?", "}"}
TakeLiteral ==
  /\ parsing = "operand"
  /\ Peek(Here) \notin {"(", ")", "|", "\"", "[", ".", "end"}
  /\ \/ Throw(Peek(Here) \in Operators \/ Behind(Here) = 0)
     \/ /\ Peek(Here) \notin Operators /\ Behind(Here) # 0
        /\ Goes(Behind(Here), Literal(CharacterAt(Here)), "postfix") /\ UNCHANGED <<frames, class>>

\* parseQuotedString.
StringCharacter ==
  /\ parsing = "string" /\ Peek(at) # "\""
  /\ \/ Throw(Behind(at) = 0)
     \/ /\ Behind(at) # 0
        /\ Goes(Behind(at), Joined(IF atom = Epsilon THEN <<>> ELSE <<atom>>, Literal(CharacterAt(at)), Concat)[1], "string")
        /\ UNCHANGED <<frames, class>>
CloseString ==
  /\ parsing = "string" /\ Peek(at) = "\""
  /\ Goes(at + 1, atom, "postfix") /\ UNCHANGED <<frames, class>>

-----------------------------------------------------------------------------
\* parseCharacterClass: a "]" at the first place is a character, and a "-" in front of the
\* end is one.  A range is counted in an unsigned char until it is beyond the right end.
ClassCharacter ==
  LET behind  == Behind(at)
      isRange == Peek(behind) = "-" /\ behind + 1 <= Len(regex) /\ Peek(behind + 1) # "]"
      right   == Behind(behind + 1)
      invalid == Code[CharacterAt(at)] > Code[CharacterAt(behind + 1)]
  IN  /\ parsing = "class" /\ (Peek(at) = "]" => class.first)
      /\ \/ Throw(behind = 0)
         \/ behind # 0 /\ isRange /\ Throw(right = 0)
         \/ behind # 0 /\ isRange /\ right # 0 /\ Throw(invalid)
         \/ /\ behind # 0 /\ ~isRange
            /\ class' = [class EXCEPT !.first = FALSE, !.chars = @ \cup {CharacterAt(at)}]
            /\ Goes(behind, atom, "class") /\ UNCHANGED frames
         \/ /\ behind # 0 /\ isRange /\ right # 0 /\ ~invalid
            /\ value' = Code[CharacterAt(at)] /\ top' = Code[CharacterAt(behind + 1)]
            /\ class' = [class EXCEPT !.first = FALSE]
            /\ at' = right /\ parsing' = "range"
            /\ UNCHANGED <<lexVars, expanded, regex, frames, atom>>

\* A slip: the right end of a range is left out.
MutRangeCharacter ==
  /\ parsing = "range"
  /\ IF value < top
     THEN /\ class' = [class EXCEPT !.chars = @ \cup {c \in DOMAIN Code : Code[c] = value}]
          /\ value' = (value + 1) % ByteLimit
          /\ UNCHANGED parsing
     ELSE /\ parsing' = "class"
          /\ UNCHANGED <<class, value>>
  /\ UNCHANGED <<lexVars, expanded, regex, at, frames, atom, top>>

RangeCharacter ==
  /\ parsing = "range"
  /\ IF value <= top
     THEN /\ class' = [class EXCEPT !.chars = @ \cup {c \in DOMAIN Code : Code[c] = value}]
          /\ value' = (value + 1) % ByteLimit
          /\ UNCHANGED parsing
     ELSE /\ parsing' = "class"
          /\ UNCHANGED <<class, value>>
  /\ UNCHANGED <<lexVars, expanded, regex, at, frames, atom, top>>

\* A slip: a negated class does not match the end of a line.
MutCloseClass ==
  /\ parsing = "class" /\ Peek(at) = "]" /\ ~class.first
  /\ Goes(at + 1, MakeSet(IF class.negated THEN BuildAsciiUniverse(FALSE) \ class.chars ELSE class.chars), "postfix")
  /\ UNCHANGED <<frames, class>>

CloseClass ==
  /\ parsing = "class" /\ Peek(at) = "]" /\ ~class.first
  /\ Goes(at + 1, MakeSet(IF class.negated THEN BuildAsciiUniverse(TRUE) \ class.chars ELSE class.chars), "postfix")
  /\ UNCHANGED <<frames, class>>

-----------------------------------------------------------------------------
\* parseRepeat: the operators behind an operand.
Postfix ==
  LET c == Peek(Here)
  IN  /\ parsing = "postfix" /\ c \in {"*", "+", "?"}
      /\ Goes(Here + 1, CASE c = "*" -> Star(atom)
                          [] c = "+" -> Concat(atom, Star(atom))
                          [] c = "?" -> Union(atom, Epsilon), "postfix")
      /\ UNCHANGED <<frames, class>>

\* parseInteger: the place behind the digits at i, and their number.
BehindDigits(i) == Min({j \in i..(Len(regex) + 1) : Peek(j) \notin DOMAIN Digits})
RECURSIVE Number(_)
Number(digits) ==
  IF digits = <<>> THEN 0 ELSE Number(SubSeq(digits, 1, Len(digits) - 1)) * 10 + Digits[digits[Len(digits)]]
IntegerAt(i) == Number(SubSeq(regex, i, BehindDigits(i) - 1))

\* parseBoundedRepeat: {n}, {n,} and {n,m}.  A number that is missing, or too large for an
\* int or for the bound, is an error like every other mark than the one that is due.
BoundedRepeat ==
  LET low   == SkipSpace(Here + 1)
      comma == SkipSpace(BehindDigits(low))
      high  == SkipSpace(comma + 1)
      listed == Peek(comma) = ","
      open   == listed /\ Peek(high) = "}"
      close  == IF ~listed THEN comma ELSE IF open THEN high ELSE SkipSpace(BehindDigits(high))
      digits == Peek(low) \in DOMAIN Digits /\ (listed /\ ~open => Peek(high) \in DOMAIN Digits)
      lower  == IntegerAt(low)
      upper  == IF listed THEN IntegerAt(high) ELSE lower
      sound  == /\ digits /\ Peek(close) = "}"
                /\ lower <= MaxRepeatBound /\ (~open => lower <= upper /\ upper <= MaxRepeatBound)
  IN  /\ parsing = "postfix" /\ Peek(Here) = "{"
      /\ \/ Throw(~sound)
         \/ /\ sound
            /\ Goes(close + 1, CASE open /\ lower = 0 -> Star(atom)
                                 [] open /\ lower > 0 -> Concat(Copies(atom, lower), Star(atom))
                                 [] ~open -> Optional(Copies(atom, lower), atom, upper - lower), "postfix")
            /\ UNCHANGED <<frames, class>>

\* parseConcat: the operand joins the sequence.
EndRepeat ==
  LET f == frames[Len(frames)]
  IN  /\ parsing = "postfix" /\ Peek(Here) \notin {"*", "+", "?", "{"}
      /\ frames' = [frames EXCEPT ![Len(frames)] = [f EXCEPT !.parts = Joined(@, atom, Concat)]]
      /\ Goes(Here, atom, "operand") /\ UNCHANGED class

\* parseUnion: an alternative ends with its sequence, which must not be empty.  A group must
\* end with a ")" and the whole with the end of the text.
EndConcat ==
  LET f     == frames[Len(frames)]
      c     == Peek(Here)
      whole == Joined(f.union, f.parts[1], Union)
      outer == SubSeq(frames, 1, Len(frames) - 1)
      wrong == f.parts = <<>> \/ (c = ")" /\ outer = <<>>) \/ (c = "end" /\ outer # <<>>)
  IN  /\ parsing = "operand" /\ c \in {"end", ")", "|"}
      /\ \/ Throw(wrong)
         \/ /\ ~wrong /\ c = "|"
            /\ frames' = Append(outer, [union |-> whole, parts |-> <<>>])
            /\ Goes(Here + 1, atom, "operand") /\ UNCHANGED class
         \/ /\ ~wrong /\ c = ")"
            /\ frames' = outer
            /\ Goes(Here + 1, whole[1], "postfix") /\ UNCHANGED class
         \/ /\ ~wrong /\ c = "end"
            /\ expanded' = Append(expanded, whole[1]) /\ parsing' = "idle"
            /\ UNCHANGED <<lexVars, parserVars>>

Finish ==
  /\ reading = "done" /\ parsing = "idle" /\ Len(expanded) = Len(lexRules)
  /\ parsing' = "done"
  /\ UNCHANGED <<lexVars, expanded, parserVars>>

Next ==
  \/ Read \/ Refuse \/ ExpandRule \/ Finish
  \/ OpenGroup \/ OpenString \/ OpenClass \/ TakeAny \/ TakeLiteral
  \/ StringCharacter \/ CloseString \/ ClassCharacter \/ RangeCharacter \/ CloseClass
  \/ Postfix \/ BoundedRepeat \/ EndRepeat \/ EndConcat

Spec     == Init /\ [][Next]_vars
FairSpec == Spec /\ WF_vars(Next)   \* the driver runs until it returns
=============================================================================
