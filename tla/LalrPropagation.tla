-------------------------- MODULE LalrPropagation --------------------------
(***************************************************************************)
(* The lookahead propagation of LR1Builder::buildLALRPDA (lr1_pda.cpp):    *)
(* given the LR(0) automaton, lookaheads spread from the augmented start   *)
(* item along closures inside a state and along the edges between states,  *)
(* driven by a FIFO queue of states and a flag per state that says whether *)
(* it is queued.                                                           *)
(*                                                                         *)
(* What is hard here: a state is dequeued, its flag cleared, and only then *)
(* read; its lookaheads may grow again while it is being processed (a      *)
(* self-loop) or after it was processed, so the queue alone must remember  *)
(* every state whose lookaheads have not reached their targets.  One lost  *)
(* wake-up is a parser that rejects valid programs.                        *)
(*                                                                         *)
(* The input is named by the variable input; core is its automaton, a      *)
(* record as described in Grammar.  One step is one iteration of an inner  *)
(* loop of the code.                                                       *)
(***************************************************************************)
EXTENDS GrammarReference

CONSTANT Cores   \* input |-> the LR(0) automaton it stands for

VARIABLES
  input,         \* names the automaton being annotated; never changes
  lookaheads,    \* slot (a state and one of its items) |-> set of lookaheads
  work,          \* the FIFO queue of states
  queued,        \* state |-> is it in the queue
  pc,            \* "pop", "local" (closure loop), "edges" (edge loop), "done"
  current,       \* state_index, the state being processed
  edge,          \* position in the edge loop
  pos,           \* position in the item loop
  changed        \* local_changed, then target_changed

core == Cores[input]

vars == <<input, lookaheads, work, queued, pc, current, edge, pos, changed>>

ASSUME CoresAssumption == \A n \in DOMAIN Cores : IsCore(Cores[n])

Init ==
  /\ input \in DOMAIN Cores
  /\ lookaheads = [slot \in Slots(core) |->
                     IF slot = <<0, StartItem(core)>> THEN {EndMarker} ELSE {}]
  /\ work = <<0>>
  /\ queued = [s \in States(core) |-> s = 0]
  /\ pc = "pop"
  /\ current = 0
  /\ edge = 1
  /\ pos = 1
  /\ changed = FALSE

Item == core.items[current][pos]

PopState ==
  /\ pc = "pop" /\ work # <<>>
  /\ current' = Head(work)
  /\ work' = Tail(work)
  /\ queued' = [queued EXCEPT ![Head(work)] = FALSE]
  /\ pc' = "local" /\ pos' = 1 /\ changed' = FALSE
  /\ UNCHANGED <<input, lookaheads, edge>>

\* Mutant of PropagatedPredicts: the lookaheads always pass.
MutAlwaysPasses(item) ==
  lookaheads[<<current, item>>]
  \cup UNION {FollowingPredicts(core.first, item, a) : a \in lookaheads[<<current, item>>]}

\* Every lookahead that the closure sends from the current item.
PropagatedPredicts(item) ==
  UNION {FollowingPredicts(core.first, item, a) : a \in lookaheads[<<current, item>>]}

PropagateInState ==
  /\ pc = "local" /\ pos <= Len(core.items[current])
  /\ LET targets == ClosureItems(core, Item)
         predicts == PropagatedPredicts(Item)
     IN  /\ lookaheads' = [slot \in Slots(core) |->
              IF slot[1] = current /\ slot[2] \in targets
              THEN lookaheads[slot] \cup predicts ELSE lookaheads[slot]]
         /\ changed' = (changed \/
              \E item \in targets : ~ predicts \subseteq lookaheads[<<current, item>>])
  /\ pos' = pos + 1
  /\ UNCHANGED <<input, work, queued, pc, current, edge>>

\* Mutant of RepeatPass: local_changed is not reset.
MutRepeatPass ==
  /\ pc = "local" /\ pos > Len(core.items[current]) /\ changed
  /\ pos' = 1
  /\ UNCHANGED <<input, lookaheads, work, queued, pc, current, edge, changed>>

\* while (local_changed): another pass over the items.
RepeatPass ==
  /\ pc = "local" /\ pos > Len(core.items[current]) /\ changed
  /\ pos' = 1 /\ changed' = FALSE
  /\ UNCHANGED <<input, lookaheads, work, queued, pc, current, edge>>

\* Mutant of StartEdges: a single pass over the items.
MutStartEdges ==
  /\ pc = "local" /\ pos > Len(core.items[current])
  /\ pc' = "edges" /\ edge' = 1 /\ pos' = 1 /\ changed' = FALSE
  /\ UNCHANGED <<input, lookaheads, work, queued, current>>

StartEdges ==
  /\ pc = "local" /\ pos > Len(core.items[current]) /\ ~changed
  /\ pc' = "edges" /\ edge' = 1 /\ pos' = 1
  /\ UNCHANGED <<input, lookaheads, work, queued, current, changed>>

InEdge == pc = "edges" /\ edge <= Len(core.edges[current])
Target == EdgeTarget(core, current, edge)

PropagateAcross ==
  /\ InEdge /\ pos <= Len(core.items[current])
  /\ IF DotBefore(Item, EdgeSymbol(core, current, edge))
     THEN /\ lookaheads' = [lookaheads EXCEPT ![<<Target, Advance(Item)>>] =
                              @ \cup lookaheads[<<current, Item>>]]
          /\ changed' = (changed \/
               ~ lookaheads[<<current, Item>>] \subseteq lookaheads[<<Target, Advance(Item)>>])
     ELSE UNCHANGED <<lookaheads, changed>>
  /\ pos' = pos + 1
  /\ UNCHANGED <<input, work, queued, pc, current, edge>>

\* if (target_changed && !queued[target]) enqueue it.
FinishEdge ==
  /\ InEdge /\ pos > Len(core.items[current])
  /\ IF changed /\ ~queued[Target]
     THEN /\ work' = Append(work, Target)
          /\ queued' = [queued EXCEPT ![Target] = TRUE]
     ELSE UNCHANGED <<work, queued>>
  /\ edge' = edge + 1 /\ pos' = 1 /\ changed' = FALSE
  /\ UNCHANGED <<input, lookaheads, pc, current>>

FinishState ==
  /\ pc = "edges" /\ edge > Len(core.edges[current])
  /\ pc' = "pop"
  /\ UNCHANGED <<input, lookaheads, work, queued, current, edge, pos, changed>>

\* Mutant of Finish: the loop may be left while states are waiting.
MutFinish ==
  /\ pc = "pop"
  /\ pc' = "done"
  /\ UNCHANGED <<input, lookaheads, work, queued, current, edge, pos, changed>>

Finish ==
  /\ pc = "pop" /\ work = <<>>
  /\ pc' = "done"
  /\ UNCHANGED <<input, lookaheads, work, queued, current, edge, pos, changed>>

Next ==
  \/ PopState \/ PropagateInState \/ RepeatPass \/ StartEdges
  \/ PropagateAcross \/ FinishEdge \/ FinishState \/ Finish

Spec     == Init /\ [][Next]_vars
FairSpec == Spec /\ WF_vars(Next)   \* the C++ loop runs until it returns
-----------------------------------------------------------------------------
(***************************************************************************)
(* Properties.                                                             *)
(***************************************************************************)

TypeOK ==
  /\ input \in DOMAIN Cores
  /\ lookaheads \in [Slots(core) -> SUBSET core.tokens]
  /\ work \in Seq(States(core))
  /\ queued \in [States(core) -> BOOLEAN]
  /\ pc \in {"pop", "local", "edges", "done"}
  /\ current \in States(core)
  /\ edge \in Nat \ {0} /\ pos \in Nat \ {0}
  /\ changed \in BOOLEAN

\* A state's lookaheads have reached everything they must reach.
ClosedInState(s, item) ==
  \A a \in lookaheads[<<s, item>>] : \A target \in ClosureItems(core, item) :
    FollowingPredicts(core.first, item, a) \subseteq lookaheads[<<s, target>>]
ClosedAcross(s, e, item) ==
  DotBefore(item, EdgeSymbol(core, s, e)) =>
    lookaheads[<<s, item>>] \subseteq lookaheads[<<EdgeTarget(core, s, e), Advance(item)>>]
Settled(s) ==
  \A item \in ItemsOf(core, s) :
    /\ ClosedInState(s, item)
    /\ \A e \in 1 .. Len(core.edges[s]) : ClosedAcross(s, e, item)

\* No wake-up is lost: between two states, whoever is not queued has nothing left to
\* tell its neighbours.
NoLostWakeup ==
  pc \in {"pop", "done"} => \A s \in States(core) : ~queued[s] => Settled(s)

\* NoLostWakeup is not inductive: while a state is being processed it is not queued and
\* not yet settled, and a target that has just grown is queued only at the end of the
\* loop over the items.  IInv says what the loop positions guarantee meanwhile.
Pending(s) == queued[s] \/ (InEdge /\ changed /\ s = Target)

OthersSettled ==
  \A s \in States(core) :
    ~Pending(s) /\ (s = current => pc \in {"pop", "done"}) => Settled(s)
PassProgress ==
  pc = "local" /\ ~changed =>
    \A k \in 1 .. Len(core.items[current]) : k < pos => ClosedInState(current, core.items[current][k])
EdgeProgress ==
  pc = "edges" /\ ~Pending(current) =>
    /\ \A item \in ItemsOf(core, current) : ClosedInState(current, item)
    /\ \A e \in 1 .. Len(core.edges[current]) : \A k \in 1 .. Len(core.items[current]) :
         e < edge \/ (e = edge /\ k < pos) => ClosedAcross(current, e, core.items[current][k])
FlagsQueued == \A s \in States(core) : queued[s] => s \in Elements(work)

IInv == TypeOK /\ FlagsQueued /\ OthersSettled /\ PassProgress /\ EdgeProgress

\* When the loop ends, the lookaheads are closed under every propagation.
ClosedWhenDone == pc = "done" => \A s \in States(core) : Settled(s)

\* The detailed algorithm implements the abstract exploration of facts: each step adds
\* direct consequences only, and the loop ends only on a closed set.
Facts == UNION {{<<slot[1], slot[2], a>> : a \in lookaheads[slot]} : slot \in Slots(core)}
Abstract == INSTANCE LalrLookaheads WITH facts <- Facts, done <- (pc = "done")
ImplementsExploration == Abstract!Spec

\* When the loop ends, the lookaheads are exactly those of the canonical LR(1) states
\* merged by core (lr1_pda.cpp): none missing (valid programs rejected), none too many
\* (errors detected late, conflicts reported that LALR(1) does not have).
ExactlyLalr == pc = "done" => Facts = MergedCanonical(core)

\* The loop ends: it cannot chase its own changes for ever.
Terminates == <>(pc = "done")
=============================================================================
