--------------------------- MODULE LexicalScoping ---------------------------
(***************************************************************************)
(* What a scoped symbol table promises, with nothing of how it looks names  *)
(* up: a stack of complete environments.  Entering a scope copies the       *)
(* environment, leaving it brings the earlier one back, and a declaration   *)
(* changes what one name means in the innermost environment, at most once   *)
(* per scope.                                                               *)
(***************************************************************************)
EXTENDS Integers, Sequences

CONSTANTS Names, Meanings, NoMeaning

VARIABLES environments,   \* what every name means, per open scope
          own             \* the names declared in each open scope

scoping == <<environments, own>>

Init == environments = << >> /\ own = << >>

Open == /\ environments = << >>
        /\ environments' = <<[n \in Names |-> NoMeaning]>>
        /\ own' = <<{}>>

Clear == /\ environments' = <<[n \in Names |-> NoMeaning]>>
         /\ own' = <<{}>>

Depth == Len(environments)

Enter == /\ environments # << >>
         /\ environments' = Append(environments, environments[Depth])
         /\ own' = Append(own, {})

OpenAndEnter == /\ environments = << >>
                /\ environments' = [k \in 1..2 |-> [n \in Names |-> NoMeaning]]
                /\ own' = <<{}, {}>>

Leave == /\ Depth > 1
         /\ environments' = SubSeq(environments, 1, Depth - 1)
         /\ own' = SubSeq(own, 1, Depth - 1)

Declare(n) == /\ environments # << >> /\ Len(environments') = Depth
              /\ n \notin own[Depth]
              /\ environments'[Depth][n] \in Meanings
              /\ environments' = [environments EXCEPT ![Depth][n] = environments'[Depth][n]]
              /\ own' = [own EXCEPT ![Depth] = @ \cup {n}]

OpenAndDeclare(n) ==
  /\ environments = << >>
  /\ Len(environments') = 1 /\ environments'[1][n] \in Meanings
  /\ environments' = <<[m \in Names |-> IF m = n THEN environments'[1][n] ELSE NoMeaning]>>
  /\ own' = <<{n}>>

Next == \/ Open \/ Clear \/ Enter \/ OpenAndEnter \/ Leave
        \/ \E n \in Names : Declare(n) \/ OpenAndDeclare(n)

Spec == Init /\ [][Next]_scoping
=============================================================================
