------------------------------ MODULE BottomUp ------------------------------
(***************************************************************************)
(* What a shift-reduce parser is for: it takes a word back to the start    *)
(* symbol, one production at a time, and accepts only when nothing but the *)
(* start symbol stands before the end marker.  The order of the reductions *)
(* is left open, and so is whether a parser gives up.                      *)
(***************************************************************************)
EXTENDS Grammar

CONSTANTS Grammars, Words    \* name |-> grammar; name |-> the words it is tried on

VARIABLES
  input,     \* the name
  form,      \* the word, as far as it has been reduced
  verdict    \* "open", "accepted", "rejected"

vars == <<input, form, verdict>>
grammar == Grammars[input]

Init ==
  /\ input \in DOMAIN Grammars /\ form \in Words[input]
  /\ verdict = "open"

\* A production's right-hand side at position at + 1 becomes its left-hand side.
Replace(p, at) ==
  /\ SubSeq(form, at + 1, at + Len(p.right)) = p.right
  /\ form' = SubSeq(form, 1, at) \o <<p.left>> \o SubSeq(form, at + Len(p.right) + 1, Len(form))

Reduce ==
  /\ verdict = "open"
  /\ \E p \in Elements(grammar.producers) : \E at \in 0 .. Len(form) - Len(p.right) : Replace(p, at)
  /\ UNCHANGED <<input, verdict>>

\* What stands behind the first end marker does not count.
Accept ==
  /\ verdict = "open"
  /\ Len(form) >= 2 /\ form[1] = grammar.start /\ form[2] = EndMarker
  /\ verdict' = "accepted" /\ UNCHANGED <<input, form>>

Reject ==
  /\ verdict = "open"
  /\ verdict' = "rejected" /\ UNCHANGED <<input, form>>

Next == Reduce \/ Accept \/ Reject
Spec == Init /\ [][Next]_vars
=============================================================================
