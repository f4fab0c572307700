---------------------------- MODULE MCLexRuntime ----------------------------
(***************************************************************************)
(* Model checking of the generated scanner: small scanners, each for a way *)
(* to go wrong, on every short text over their characters.                 *)
(***************************************************************************)
EXTENDS LexRuntime, TLC

LOCAL INSTANCE SequencesExt      \* BoundedSeq

MCNewLine == "nl"
Tok(t, v) == [kind |-> "token", type |-> t, value |-> v]
Discard   == [kind |-> "skip"]
Comment   == [kind |-> "read", until |-> "/"]

\* A keyword that begins like an identifier, and blanks that are skipped.
Words == [start |-> 0,
  next |-> 0 :> ("i" :> 1 @@ "f" :> 3 @@ " " :> 4 @@ "nl" :> 4) @@ 1 :> ("i" :> 3 @@ "f" :> 2)
        @@ 2 :> ("i" :> 3 @@ "f" :> 3) @@ 3 :> ("i" :> 3 @@ "f" :> 3) @@ 4 :> (" " :> 4 @@ "nl" :> 4),
  action |-> 1 :> Tok(300, "id") @@ 2 :> Tok(301, "if") @@ 3 :> Tok(300, "id") @@ 4 :> Discard]

\* 1 and 1.1: behind 1. the scanner has to go back to 1.
Numbers == [start |-> 0,
  next |-> 0 :> ("1" :> 1) @@ 1 :> ("1" :> 1 @@ "." :> 2) @@ 2 :> ("1" :> 3) @@ 3 :> ("1" :> 3),
  action |-> 1 :> Tok(310, "int") @@ 3 :> Tok(311, "real")]

\* a and a-newline-newline-b: it goes back over ends of lines.
AcrossLines == [start |-> 0,
  next |-> 0 :> ("a" :> 1) @@ 1 :> ("nl" :> 2) @@ 2 :> ("nl" :> 3) @@ 3 :> ("b" :> 4) @@ 4 :> <<>>,
  action |-> 1 :> Tok(320, "a") @@ 4 :> Tok(321, "b")]

\* A slash, and a comment that an action reads to its end.
Comments == [start |-> 0,
  next |-> 0 :> ("/" :> 1 @@ "nl" :> 3) @@ 1 :> ("*" :> 2) @@ 2 :> <<>> @@ 3 :> <<>>,
  action |-> 1 :> Tok(330, "div") @@ 2 :> Comment @@ 3 :> Discard]

\* a* as a token: it matches nothing before any other character.
EmptyToken == [start |-> 0, next |-> 0 :> ("a" :> 1) @@ 1 :> ("a" :> 1),
  action |-> 0 :> Tok(340, "none") @@ 1 :> Tok(341, "as")]

\* (ab)* as something to skip: it may have to go back to nothing.
EmptySkip == [start |-> 0, next |-> 0 :> ("a" :> 1) @@ 1 :> ("b" :> 0), action |-> 0 :> Discard]

MCScanners == "words" :> Words @@ "numbers" :> Numbers @@ "across" :> AcrossLines
              @@ "comments" :> Comments @@ "emptyToken" :> EmptyToken @@ "emptySkip" :> EmptySkip
MCSources ==
  "words"      :> BoundedSeq({"i", "f", " ", "nl"}, 4) \cup {<<"i", "f", "nl", " ", "f", "i", " ", "i">>}
  @@ "numbers" :> BoundedSeq({"1", "."}, 6)
  @@ "across"  :> BoundedSeq({"a", "b", "nl"}, 4)
  @@ "comments" :> BoundedSeq({"/", "*", "nl"}, 5)
  @@ "emptyToken" :> BoundedSeq({"a", "b", "nl"}, 4)
  @@ "emptySkip"  :> BoundedSeq({"a", "b", "nl"}, 4)

=============================================================================
