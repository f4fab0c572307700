---------------------------- MODULE SymbolTables ----------------------------
(***************************************************************************)
(* The semantic symbol table of the intermediate stage                      *)
(* (src/intermediate/src/symbol_table.cpp) as operators on a table: a       *)
(* stack of scope frames, the global one first, and the next free global    *)
(* offset.  A frame keeps its own counters for locals and for parameters.   *)
(***************************************************************************)
EXTENDS Integers, Sequences

CONSTANTS Names,       \* the identifiers a program declares
          Types        \* the type names it uses

\* typeWidth: the bytes a type occupies.
Width(type) == CASE type \in {"char", "bool"} -> 1
                 [] type = "short" -> 2
                 [] type \in {"double", "long long"} -> 8
                 [] OTHER -> 4

Unassigned == -1

Entries == [type : Types, level : Nat, offset : Nat \cup {Unassigned},
            isFunction : BOOLEAN, isParameter : BOOLEAN]

EmptyFrame == [symbols |-> << >>, nextLocal |-> 0, nextParameter |-> 0]

\* A table is built without any scope; reset gives it the global one.
NoScopes == [scopes |-> << >>, nextGlobal |-> 0]
ResetTable == [scopes |-> <<EmptyFrame>>, nextGlobal |-> 0]

Opened(t) == IF t.scopes = << >> THEN ResetTable ELSE t
Depth(t) == Len(t.scopes)
Level(t) == IF t.scopes = << >> THEN 0 ELSE Depth(t) - 1
Innermost(t) == t.scopes[Depth(t)]

EnterScope(t) == [Opened(t) EXCEPT !.scopes = Append(@, EmptyFrame)]

\* The global scope is never left.
ExitScope(t) == IF Depth(t) > 1
                THEN [t EXCEPT !.scopes = SubSeq(@, 1, Depth(t) - 1)]
                ELSE t

Bind(symbols, n, e) ==
  [m \in DOMAIN symbols \cup {n} |-> IF m = n THEN e ELSE symbols[m]]

\* A slip: a name declared twice overwrites its first entry.
MutAccepts(t, n) == TRUE
Accepts(t, n) == n \notin DOMAIN Innermost(Opened(t)).symbols

\* Where declare puts an entry that brings no offset: three counters, chosen
\* by the kind of the entry and by the level it lands on.
Allocates(e) == ~e.isFunction /\ e.offset < 0
ParameterSlot(e) == Allocates(e) /\ e.isParameter
GlobalSlot(t, e) == Allocates(e) /\ ~e.isParameter /\ Level(t) = 0
LocalSlot(t, e) == Allocates(e) /\ ~e.isParameter /\ Level(t) # 0

OffsetIn(t, e) == CASE ParameterSlot(e) -> Innermost(t).nextParameter
                    [] GlobalSlot(t, e) -> t.nextGlobal
                    [] LocalSlot(t, e) -> Innermost(t).nextLocal
                    [] OTHER -> e.offset
Placed(t, e) == [e EXCEPT !.level = Level(t), !.offset = OffsetIn(t, e)]

\* A slip: the parameter counter is never advanced.
MutStore(t, n, e) ==
  LET By(b) == IF b THEN Width(e.type) ELSE 0
  IN  [scopes |-> [t.scopes EXCEPT ![Depth(t)] =
                     [@ EXCEPT !.symbols = Bind(@, n, Placed(t, e)),
                               !.nextLocal = @ + By(LocalSlot(t, e))]],
       nextGlobal |-> t.nextGlobal + By(GlobalSlot(t, e))]
Store(t, n, e) ==
  LET By(b) == IF b THEN Width(e.type) ELSE 0
  IN  [scopes |-> [t.scopes EXCEPT ![Depth(t)] =
                     [symbols |-> Bind(@.symbols, n, Placed(t, e)),
                      nextLocal |-> @.nextLocal + By(LocalSlot(t, e)),
                      nextParameter |-> @.nextParameter + By(ParameterSlot(e))]],
       nextGlobal |-> t.nextGlobal + By(GlobalSlot(t, e))]

Declare(t, n, e) == IF Accepts(t, n) THEN Store(Opened(t), n, e) ELSE Opened(t)

Variable(type) == [type |-> type, level |-> 0, offset |-> Unassigned,
                   isFunction |-> FALSE, isParameter |-> FALSE]
Parameter(type) == [Variable(type) EXCEPT !.isParameter = TRUE]
Function(type) == [Variable(type) EXCEPT !.isFunction = TRUE, !.offset = 0]

DeclareVariable(t, n, type) == Declare(t, n, Variable(type))
DeclareParameter(t, n, type) == Declare(t, n, Parameter(type))

\* A function is declared in the global scope only.
DeclareFunction(t, n, type) ==
  IF Depth(Opened(t)) > 1 THEN Opened(t) ELSE Declare(t, n, Function(type))

\* lookup walks the frames from the innermost one outwards.
Holding(t, n) == {k \in 1..Depth(t) : n \in DOMAIN t.scopes[k].symbols}
Found(t, n) == Holding(t, n) # {}
Lookup(t, n) ==
  t.scopes[CHOOSE k \in Holding(t, n) : \A j \in Holding(t, n) : j <= k].symbols[n]
=============================================================================
