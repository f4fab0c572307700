---------------------------- MODULE SymbolScopes ----------------------------
(***************************************************************************)
(* A symbol table under every sequence of calls: scopes opened and left,    *)
(* variables, parameters and functions declared in any order, the table     *)
(* reset in between, and calls made before the first reset.                 *)
(***************************************************************************)
EXTENDS SymbolTables, TLC

CONSTANTS MaxDepth,      \* bound on the open scopes
          NoMeaning      \* what lookup answers for a name that is not there

VARIABLE table           \* scopes_ and nextGlobalOffset_

\* The code treats all names alike (TLC).
NameSymmetry == Permutations(Names)

Init == table = NoScopes

Reset == table' = ResetTable

Enter == Depth(table) < MaxDepth /\ table' = EnterScope(table)

Exit == table' = ExitScope(table)

AddVariable(n, type) == table' = DeclareVariable(table, n, type)

AddParameter(n, type) == table' = DeclareParameter(table, n, type)

AddFunction(n, type) == table' = DeclareFunction(table, n, type)

Next == \/ Reset \/ Enter \/ Exit
        \/ \E n \in Names, type \in Types :
             AddVariable(n, type) \/ AddParameter(n, type) \/ AddFunction(n, type)

Spec == Init /\ [][Next]_table
-----------------------------------------------------------------------------
\* The scopes are frames of entries whose every offset has been assigned.
Assigned == {e \in Entries : e.offset # Unassigned}
Frames == [symbols : UNION {[S -> Assigned] : S \in SUBSET Names},
           nextLocal : Nat, nextParameter : Nat]
TypeOK == table \in [scopes : Seq(Frames), nextGlobal : Nat]

Bytes(e) == e.offset..(e.offset + Width(e.type) - 1)
SharesCounter(d, e) == ~d.isFunction /\ ~e.isFunction /\ d.isParameter = e.isParameter

\* declare hands out storage (symbol_table.cpp:54-65): two variables of one
\* scope that draw on the same counter never share a byte, whatever was
\* declared, rejected or left in between.
StorageApart ==
  \A k \in DOMAIN table.scopes :
    LET s == table.scopes[k].symbols
    IN  \A m, n \in DOMAIN s :
          m # n /\ SharesCounter(s[m], s[n]) => Bytes(s[m]) \cap Bytes(s[n]) = {}

\* What has been handed out ends where the counter it was taken from stands
\* or before: at level 0 that is the global counter, above it the frame's own
\* (symbol_table.cpp:56-65).
Counter(f, k, e) == IF e.isParameter THEN f.nextParameter
                    ELSE IF k = 1 THEN table.nextGlobal ELSE f.nextLocal
StorageBelowCounters ==
  \A k \in DOMAIN table.scopes :
    LET f == table.scopes[k]
    IN  \A n \in DOMAIN f.symbols :
          LET e == f.symbols[n]
          IN  ~e.isFunction => e.offset + Width(e.type) <= Counter(f, k, e)

\* An entry carries the level of the scope that holds it, and a function is
\* held by the global scope alone (declareFunction, symbol_table.cpp:83-85).
LevelsAgree ==
  \A k \in DOMAIN table.scopes :
    LET s == table.scopes[k].symbols
    IN  \A n \in DOMAIN s : s[n].level = k - 1 /\ (s[n].isFunction => k = 1)

\* What lookup answers per open scope, as complete environments: leaving a
\* scope brings back exactly the meanings there were before, and a rejected
\* declaration changes none.
Visible(k, n) ==
  LET upTo == [table EXCEPT !.scopes = SubSeq(@, 1, k)]
  IN  IF Found(upTo, n) THEN Lookup(upTo, n) ELSE NoMeaning

Environments == [k \in DOMAIN table.scopes |-> [n \in Names |-> Visible(k, n)]]
Own          == [k \in DOMAIN table.scopes |-> DOMAIN table.scopes[k].symbols]

Lexical == INSTANCE LexicalScoping WITH
  Meanings <- Entries, environments <- Environments, own <- Own

\* The frames with their inside-out lookup implement lexical scoping.
ImplementsScoping == Lexical!Spec
=============================================================================
