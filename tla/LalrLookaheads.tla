--------------------------- MODULE LalrLookaheads ---------------------------
(***************************************************************************)
(* What direct LALR(1) construction promises, without queues or flags: the *)
(* facts <<state, item, lookahead>> are those reachable from the augmented *)
(* start fact, found in any order and in any portions, and the work is     *)
(* only declared done when no fact has a consequence that is missing.      *)
(***************************************************************************)
EXTENDS Grammar

CONSTANT Cores
VARIABLES input, facts, done

core == Cores[input]
vars == <<input, facts, done>>

Root(c) == <<0, StartItem(c), EndMarker>>

\* The direct consequences of one fact: inside its state, and along each edge.
Consequences(c, f) ==
  ({f[1]} \X ClosureItems(c, f[2]) \X FollowingPredicts(c.first, f[2], f[3]))
  \cup {<<c.edges[f[1]][e][2], Advance(f[2]), f[3]>> :
          e \in {d \in DOMAIN c.edges[f[1]] : DotBefore(f[2], c.edges[f[1]][d][1])}}

IsClosed(c, F) == \A f \in F : Consequences(c, f) \subseteq F

Init == input \in DOMAIN Cores /\ facts = {Root(core)} /\ done = FALSE

Learn ==
  /\ ~done
  /\ facts \subseteq facts'
  /\ facts' \subseteq facts \cup UNION {Consequences(core, f) : f \in facts}
  /\ UNCHANGED <<input, done>>

Stop ==
  /\ ~done /\ IsClosed(core, facts)
  /\ done' = TRUE
  /\ UNCHANGED <<input, facts>>

Next == Learn \/ Stop
Spec == Init /\ [][Next]_vars
=============================================================================
