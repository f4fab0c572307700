----------------------------- MODULE SourceText -----------------------------
(***************************************************************************)
(* The texts of .y and .l files and the scanners over them.  A text is a   *)
(* sequence of units: a unit is a name, a blank, the end of a line, or a   *)
(* mark of one or two characters such as "%%" or "/*" that the readers     *)
(* look for.  A backslash is a unit, and so is what follows it.            *)
(***************************************************************************)
EXTENDS Integers, Sequences, FiniteSets, FiniteSetsExt, SequencesExt

\* The first position of a non-empty set of them.
First(positions) == IF positions = {} THEN 0 ELSE Min(positions)

-----------------------------------------------------------------------------
\* A "%%" that stands alone on its line, outside %{ and %} (findSectionDelimiter).
InVerbatim(text, from, i) ==
  \E j \in from..(i - 1) : text[j] = "%{" /\ \A k \in (j + 1)..(i - 1) : text[k] # "%}"
BeginsLine(text, from, i) ==
  \A j \in from..(i - 1) : text[j] # " " => \E k \in j..(i - 1) : text[k] = "\n"
EndsLine(text, i) ==
  \A j \in (i + 1)..Len(text) : text[j] # " " => \E k \in (i + 1)..j : text[k] = "\n"
FindSectionDelimiter(text, from) ==
  First({i \in from..Len(text) : /\ text[i] = "%%" /\ BeginsLine(text, from, i) /\ EndsLine(text, i)
                                 /\ ~InVerbatim(text, from, i)})

\* The pieces of s between the units sep.
Pieces(s, sep) ==
  LET ends == SelectSeq([i \in 1..(Len(s) + 1) |-> i], LAMBDA i : i > Len(s) \/ s[i] = sep)
  IN  [k \in DOMAIN ends |-> SubSeq(s, IF k = 1 THEN 1 ELSE ends[k - 1] + 1, ends[k] - 1)]

\* The words of a line: what stands between blanks.
WordsOf(line) == SelectSeq(Pieces(line, " "), LAMBDA w : w # <<>>)

-----------------------------------------------------------------------------
\* What a unit means depends on whether it stands in code, a string, a character or a
\* comment; a backslash in a string or a character takes the meaning from the next unit.
Opened == ("\"" :> "string") @@ ("'" :> "char") @@ ("//" :> "line") @@ ("/*" :> "block")
Closer == ("string" :> "\"") @@ ("char" :> "'") @@ ("line" :> "\n") @@ ("block" :> "*/")
Marks  == DOMAIN Opened \cup {"\n", "*/", "\\", "other"}
Modes  == {"code", "string", "char", "line", "block", "string escape", "char escape"}
Moves  ==
  [mode \in Modes, mark \in Marks |->
     CASE mode = "string escape" -> "string"
       [] mode = "char escape"   -> "char"
       [] mode = "code"          -> IF mark \in DOMAIN Opened THEN Opened[mark] ELSE "code"
       [] mode \in {"string", "char"} /\ mark = "\\" -> mode \o " escape"
       [] OTHER                  -> IF mark = Closer[mode] THEN "code" ELSE mode]
NextMode(mode, u) == Moves[mode, IF u \in Marks THEN u ELSE "other"]

\* How deep in braces a text is behind a unit of code.
Depth(depth, mode, u) ==
  depth + (IF mode = "code" /\ u = "{" THEN 1 ELSE IF mode = "code" /\ u = "}" THEN -1 ELSE 0)

RECURSIVE BehindBlock(_, _, _, _)
BehindBlock(text, i, mode, depth) ==
  IF i > Len(text) THEN 0
  ELSE LET below == Depth(depth, mode, text[i])
       IN  IF below = 0 THEN i + 1 ELSE BehindBlock(text, i + 1, NextMode(mode, text[i]), below)

RECURSIVE DepthBehind(_, _, _, _)
DepthBehind(text, i, mode, depth) ==
  IF i > Len(text) THEN depth
  ELSE DepthBehind(text, i + 1, NextMode(mode, text[i]), Depth(depth, mode, text[i]))

\* A slip: a block is read as a string is, up to the first brace that closes one.
MutParseActionBlock(text, i) ==
  First({j \in i..Len(text) : text[j] = "}"}) + 1

\* The position behind the block that a brace at i opens, 0 when it is never closed
\* (parseActionBlock).
ParseActionBlock(text, i) == BehindBlock(text, i, "code", 0)

\* The position behind the quoted token at i, 0 when the quote is never closed
\* (parseQuotedToken).
RECURSIVE BehindQuote(_, _, _)
BehindQuote(text, i, quote) ==
  CASE i > Len(text)   -> 0
    [] text[i] = "\\"  -> BehindQuote(text, i + 2, quote)
    [] text[i] = quote -> i + 1
    [] OTHER           -> BehindQuote(text, i + 1, quote)
ParseQuotedToken(text, i) == BehindQuote(text, i + 1, text[i])

\* The next position that is neither blank nor in a comment, behind the text when there is
\* none, 0 when a comment is never closed (skipSpaceAndComments).
RECURSIVE SkipSpaceAndComments(_, _)
SkipSpaceAndComments(text, i) ==
  LET next(u) == First({j \in (i + 1)..Len(text) : text[j] = u})
  IN  CASE i > Len(text)             -> i
        [] text[i] \in {" ", "\n"}   -> SkipSpaceAndComments(text, i + 1)
        [] text[i] = "//"            -> IF next("\n") = 0 THEN Len(text) + 1
                                        ELSE SkipSpaceAndComments(text, next("\n"))
        [] text[i] = "/*"            -> IF next("*/") = 0 THEN 0
                                        ELSE SkipSpaceAndComments(text, next("*/") + 1)
        [] OTHER                     -> i
=============================================================================
