# Verification of the SEU compiler tools

The repository is a small compiler tool chain in C++: `seuLex` turns a `.l` file
into a scanner, `seuYacc` turns a `.y` file into an LALR(1) parser, and
`intermediate` turns a syntax tree into three-address code and further into LLVM IR
and Jimple. `integration` runs the three one after the other.

Nothing in it is persisted, and nothing runs concurrently but the child processes of
a self test. What is hard here is of another kind: worklists and fixpoint loops over
data that change while they are read, tables written in an order nobody chose,
several stacks that must stay in step, positions that are patched after code has
moved, and results that are wrong only for a grammar, an input or a program larger
than any unit test.

Contents: [the system](#the-system) · [modules and the code](#modules-and-the-code)
· [runs](#runs) · [bounds](#bounds) · [fairness](#fairness) · [proofs](#proofs) ·
[what is only model-checked](#what-is-only-model-checked) · [where code and
documentation differ](#where-code-and-documentation-differ) ·
[restrictions](#restrictions-of-the-code-the-models-take-over) · [not
modelled](#not-modelled) · [plan](#plan)

## The system

| part | state | operations | what makes it correct |
|---|---|---|---|
| seuYacc, `lr1_pda.cpp` | item sets, edges, FIRST/FOLLOW maps, a queue of states with a flag each | `computeFirstSets`, `computeFollowSets`, `buildLR0Automaton`, `buildCanonicalPDA`, `buildLALRPDA` | the sets are the least solutions; every item set found once; no propagation is forgotten; the lookaheads are exactly those of LALR(1) |
| seuYacc, `lalr_converter.cpp` | groups, old-to-new map, merged items and edges | `convert` | every transition survives, to a state with the same core |
| seuYacc, `parse_table.cpp` (tables) | ACTION and GOTO rows, list of conflicts | `buildLR1Table`, `resolveConflict` | a cell is what items and rules say, whatever the order of writes |
| seuYacc, `parse_table.cpp` (text it emits) | state stack, value stack, scopes, input index | `yyparse` | accepts the language; never pops an empty stack; values and names land where the text has them |
| seuLex, `nfa_constructor.cpp`, `node.cpp`, `lex_state.cpp` | operator stack, operand stack, nodes, accepting maps | `toPostfix`, `buildNFA` | the automaton accepts what the expression means |
| seuLex, `dfa_builder.cpp`, `dfa_minimizer.cpp` | global tables of states, edges, accepting actions; blocks | `NFA2DFA`, `minimize`, `resetGlobalTables` | a word gets the action of the first rule that matches; the result is minimal |
| seuLex, `code_generator.cpp` (text it emits) | cursor, line, column, last accepting state, `yytext`, `yylval` | `lex_one` and the three loops around it | longest match, exact places, every call moves |
| intermediate, `symbol_table.cpp` | stack of frames, three kinds of offset counters | `reset`, `enterScope`, `exitScope`, `declare*`, `lookup` | lexical scoping; storage never overlaps |
| intermediate, `tri_addr_generator.cpp`, `intermediate_code.cpp` | code, next statement number, temporaries, symbol table | `generate`, `emit*`, back-patching, `splitBasicBlocks` | the code computes what the tree means |
| intermediate, `target_ir_emitter.cpp` | code cut into functions, blocks, declared storage | lowering to LLVM IR and Jimple | well formed, and does what the three-address code does |
| seuYacc, `yacc_parser.cpp` | the text, a position, the specification read so far | `parse`: sections, definitions, rules, actions | the rules are the alternatives as written, whatever quotes, comments and braces they hold; what breaks off is refused |
| seuYacc, `symbol_table.cpp`, `parse_table.cpp` (`$$`, `$k`, token numbers) | symbols with their kinds, token numbers | `generate`, `inferredValueAccess` | header, table and messages number a token alike; `$k` is the k-th thing written |
| seuLex, `lex_parser.cpp` | definitions and rules, a brace count, a quote flag | `parse` | an expression ends where it ends, and so does an action |
| seuLex, `regex_expander.cpp` | position in an expression, a stack of names | expansion of named definitions, recursive descent, serialisation | the expansion means what the expression means; what is malformed or cyclic is refused |
| `main.cpp`, `runSelfTests`, `runProcess` of both generators | the child process, a clock, the working directory | generate, self-test, usage; fork, look, sleep, kill, collect | a self test ends, says what happened and leaves no child behind |
| command line of `intermediate`, drawing, `integration` | none of their own | file I/O | not modelled (see [not modelled](#not-modelled)) |

How they meet. The reader of a `.y` file hands a grammar to the automaton builders;
their automaton (through the propagation, or through the canonical construction and
the converter) goes to the table builder; the table is written out with a fixed
`yyparse`, whose semantic actions, with `$$` and `$k` replaced, build trees. The
reader of a `.l` file hands rules to the expander, the expander words of tokens to
the NFA construction, the subset construction and the minimizer, which talk through
*global* tables that `resetGlobalTables` clears; the tables are written out with a
fixed `lex_one`. The tree is built by `ASTBuilder` calls, and one `TriAddrGenerator`
walks it, calling one `SymbolTable` and appending to one `IntermediateCode`; the
emitter generates every function once more to find out how much code it has. A self
test generates, compiles what it has generated in a child process and runs it in
another.

The hazards, each at its line with the properties that would catch it, are in
`PROJECT.json`. The worst are: a wake-up lost in the propagation
(`lr1_pda.cpp:504`), edges overwritten while states are merged
(`lalr_converter.cpp:103`), conflicts resolved in the order of writing
(`parse_table.cpp:331`), the four variables the scanner backtracks with
(`code_generator.cpp:586`), a brace or a quote that two readers of one text see
differently (`lex_parser.cpp`, `regex_expander.cpp`), global tables that outlive a
generation (`dfa_minimizer.cpp:15`), and jump targets patched across nested
statements (`tri_addr_generator.cpp:218`).

## Modules and the code

Names follow the source wherever TLA+ allows it. The map in `PROJECT.json` gives the
lines each definition stands for.

### seuYacc

* `Grammar` – productions, items, closure and goto on sets of items, and
  `FirstOfSequence`, as `lr1_pda.cpp` uses them. A symbol is a string, an item a
  record, a set of lookaheads a set.
* `FirstFollow` – the two fixpoint loops, **one production (or one symbol of it) per
  step**, with the sets updated in place and the flag `changed`.
* `LalrPropagation` – `buildLALRPDA`: queue, flags, the fixpoint inside a state, the
  edges. One step is one iteration of an inner loop. The two properties of a queue
  with flags (a state on the queue is flagged, and back) are parts of its invariant.
* `LalrLookaheads` – the abstract specification: a set of facts (state, item,
  lookahead) that grows by consequences and stops only when closed.
* `LrAutomaton` – `buildLR0Automaton` and `buildCanonicalPDA`: a queue of nodes
  expanded symbol by symbol, while nodes are appended.
* `LalrConverter` – `convert`: keys, groups, merged items, rewritten edges, with the
  overwriting of an edge that is already there.
* `TableRows`, `ParseTable` – the pure part: what a write into a row does, with
  `resolveConflict`, and what an edge or an item writes; then the loops that write
  the rows, one edge or one item per step.
* `TablePipeline` – the composition, as `generate` and `runSelfTests` call it: FIRST
  and FOLLOW, then one of the automata, then the converter or the propagation (its
  result in one step), then the tables. It extends its parts, which keep variables
  and actions of their own; `BuildAutomaton`, `ConvertAutomaton` and `BuildTable`
  are the calls that take the result of the part before.
* `ParserRuntime` – the emitted `yyparse`: shift, the pops of a reduction one by
  one, the action, GOTO, accept, reject, and the table of scopes that the emitted
  code keeps. `at()` on a missing entry is the outcome `threw`, a pop of an empty
  stack the outcome `undefined`. What an action computes is the term that says which
  action was applied to which values, in postfix notation: a sequence, so that it can
  be reasoned about; the run reads it back as a tree.
* `BottomUp` – the abstract specification of parsing: a sentential form, reduced
  production by production from a sentence towards the start symbol.
* `SourceText` – texts as both readers see them: a sequence of words, each a
  character or a run that no reader takes apart; blanks, lines, sections, and the
  operators that skip strings, characters and comments.
* `YaccReader` – `yacc_parser.cpp`: the sections, the lines of the definitions one
  per step, then the rules production by production, with the alternatives, `%prec`
  and actions in them; an action in front of something becomes a production of its
  own, put before the one that holds it.
* `YaccGenerator` – what `SeuYaccDriver` makes of a specification: terminals and
  nonterminals, token numbers as header, table and messages have them, and the
  actions with their references replaced; with `CommandLine` it makes up the process
  (`MainSpec`).
* `CommandLine` – `main` with its three commands, `runSelfTests` of both generators
  as sequences of parts, and `runProcess`: one step of the parent for each system
  call, and the child as an environment that ends in any way or not at all.
* `GrammarReference` – what the results are compared with, each as a least set closed
  under a rule: FIRST and FOLLOW by reachability, the textbook's item sets, LALR(1) as
  canonical lookaheads merged, the language of a grammar; and the grammars of the
  catalogue. The loops that grow these sets are recursive functions over the subsets
  of a set, so the proofs can speak of them.
* `GrammarLemmas` – lemmas about `Grammar` and `GrammarReference`, for the proofs: sets
  that grow until nothing is new, FIRST of sequences, closures of item sets, the spans
  of a word, and which items are alive behind a stack of symbols.

### seuLex

* `NfaConstruction` – `toPostfix` (shunting yard) and `buildNFA` (fragments), one
  token per step, rule after rule, and the merging of the rules.
* `DfaConstruction` – subset construction, choice of the action, minimisation pass
  by pass, over the global tables; `Clear` is `resetGlobalTables`.
* `LexGenerator` – `SeuLexDriver::generate`: both in sequence, for one specification
  after the other in one process. Behind it stands the reference `Verdict`: the action
  of the first rule that matches a text. What matches is said by `Meaning`, which reads
  an expression from outside in, as a relation between the places of a text; it knows
  no stack, no fragments and no automaton. TLC compares it with the words that the
  expressions' trees match (`MeaningIsWords`).
* `LexReader` – `lex_parser.cpp`: definitions and rules, line by line, with the end
  of an expression and the continuation of an action over several lines.
* `RegexExpander` – `regex_expander.cpp`, named definitions expanded first, then
  recursive descent over the expression and the infix word handed to `toPostfix`,
  rule after rule.
* `RegexReference` – expressions as trees, their serialisation by
  `regex_expander.cpp`, and the words they match by definition.
* `LexRuntime` – the emitted `lex_one`: one character per step, last accepting
  place, backtracking, the skip over empty matches, actions that read input, the
  length limit of `yytext`; and the three loops that call it. Behind it stands the
  reference `Cut`: the tokens of a text by longest matches, read from the tables and
  not from the loop.

### intermediate

* `SymbolTables` – the operations of `SymbolTable` as operators on a table;
  `SymbolScopes` – a table under every sequence of calls; `LexicalScoping` – the
  abstract specification: a stack of complete environments.
* `TacGenerator` – the constructors of trees, and the generator with its symbol
  table, temporaries and back-patching, as a fold over the tree.
* `TargetIr` – how the emitter recovers functions from the code, leaders, blocks and
  successors, and the lowering to both targets.
* `TacSemantics` – statements run on integers, and the reference: what a tree means,
  by structural recursion. `TacExecution` – three-address code run statement by
  statement.
* `TargetExecution` – both targets run instruction by instruction, as a refinement
  of `TacExecution`; the same run compares the results with the tree.

Definitions that recurse over trees or texts are written as RECURSIVE operators, in
modules that TLC alone uses (`TacSemantics`, `TacGenerator`, `TargetIr`,
`SourceText`, `LexReader`, `RegexExpander`, `RegexReference`, references in MC
modules). The modules with proofs (`LalrPropagation`, `TablePipeline` with its parts,
`ParserRuntime`, `LexRuntime`, `LexGenerator` with its parts, `SymbolScopes`,
`CommandLine`) reach none of them and use recursive functions and `CHOOSE` instead.

## Runs

| run | question | properties |
|---|---|---|
| `LalrPropagation` | does the propagation lose nothing and invent nothing? | `NoLostWakeup`, `ExactlyLalr`, `ImplementsExploration`, `Terminates` |
| `TablePipeline` | from any grammar, do the loops end with FIRST and FOLLOW, do both constructions find the textbook item sets, does merging keep the transitions, are the cells and the report of conflicts what the items and the declarations say, and are the tables what `yyparse` takes for granted? | `SetsExact`, `CollectionExact`, `EdgesKeepCore`, `CellsExact`, `TablesDone` |
| `ParserRuntime` | does the emitted parser decide the language, with values, trees and scopes right? | `NeverStuck`, `AcceptsLanguage`, `ValuesInOrder`, `RankedTree`, `ScopesFollowText`, `ImplementsBottomUp`, `Terminates` |
| `YaccFile` | is a `.y` file read as it was written, are its symbols numbered consistently and its `$k` resolved; does a self test decide and clean up? | `RulesAsWritten`, `SymbolsNumbered`, `ReferencesResolved`, `NothingLeftBehind`, `SelfTestDecides` |
| `LexFile` | is a `.l` file read as it was written, and does the expansion of an expression mean what the expression means? | `RulesAsWritten`, `ExpansionMeans`, `ReadingEnds` |
| `LexGenerator` | does the minimal automaton do what the rules say, even for a second specification in one process? | `SubsetsFaithful`, `VerdictExact`, `MinimalExact`, `Terminates` |
| `LexRuntime` | does the emitted scanner cut the text at longest matches, with exact places? | `PlacesFollowText`, `LongestMatch`, `AnalysisAgrees`, `TokensExact`, `Terminates` |
| `SymbolScopes` | is every sequence of calls lexical scoping, with disjoint storage? | `StorageApart`, `ImplementsScoping` |
| `TargetExecution` | does the code compute what the tree means, are the blocks real, and do LLVM IR and Jimple do what the three-address code does? | `WellFormed`, `ResultsAgree`, `ImplementsTac`, `ControlFollowsBlocks`, `Terminates` |
| `MergedCores` | *violation*: are states with identical cores merged? | `IdenticalCoresMerged` |
| `LocalBlocks` | *violation*: do local blocks open scopes? | `LocalBlocksOpenScopes` |
| `MidruleReferences` | *violation*: does `$k` work in an action in the middle of a rule? | `MidruleReferences` |

How the runs fit together: `CollectionExact` contains `PartsFit`, by which each part
hands over what the next one takes for granted: an LR(0) automaton is what
`LalrPropagation` assumes (`CoresAssumption`, the predicate `IsCore`), a canonical
one is what the converter assumes (`IsCanonical`), and every automaton that tables
are made of can be read (`IsReadable`). It is also proved, for every grammar. In
`TablePipeline` the propagation is one step that ends with the lookaheads of LALR(1)
by its definition, which on every such automaton is what `LalrPropagation` ends with
(`LookaheadsExact`). The last link is `Emitted`, the parser that `emitParser` writes
from the finished tables. Of it `PartsFit` says what `ParserRuntime` assumes of its
parsers, in the same operators of `GrammarReference`: `AutomatonSound` and
`TablesSound` (`ParsersAssumption`) of every parser, and `TablesComplete`
(`DeterministicAssumption`) of one for which no two entries competed for a cell. Of a
merged automaton the second is not promised, for merging can lose lookaheads
(`SplitTail`). TLC evaluates both assumptions for every parser of the run. Each property has a mutant: a plausible
slip in one modelled definition under which TLC finds the property violated in the
same run.

`CHECK_DEADLOCK FALSE` stands wherever the modelled function returns: its end is a
state without a next step. `SymbolScopes` goes on for ever, and in `YaccFile` the
end of the process is a step of its own, so that a parent waiting for a child that
cannot end would be found; both are checked for deadlock. (A self test of seuLex
whose child never ends waits for ever: the child stays, as a step of the child that
may always be taken.)

## Bounds

* *Grammars.* A catalogue written by hand, each grammar for a way to go wrong
  (nullable chains, hidden left recursion, LR(1) but not LALR(1), conflicts of both
  kinds, `%nonassoc`, dangling else, unproductive symbols, self-embedding), and
  every grammar with two nonterminals over a handful of right-hand sides, empty,
  unit, recursive and mixed ones. Two nonterminals are enough for self-loops, for
  cycles between states and for a state whose lookaheads grow while it is processed,
  which are the cases the queue and its flags exist for.
* *Sentences.* Every word up to four tokens (three or five for some grammars) with
  the end marker among the tokens, so that text behind the end occurs; for block
  grammars every text of up to six braces and declarations; for operators
  expressions of up to five tokens, which hold the two operators a precedence
  compares. Grammars that can feed themselves (`A =>+ A`, hidden left recursion) are
  left out of `Terminates`, see the restrictions.
* *Scanners.* Six tables, each for a hazard (keyword against identifier,
  backtracking over one and over several characters, over ends of lines, an action
  that reads on, a rule that matches nothing as a token and as something skipped),
  on every text up to four to six characters. `Capacity = 4` puts the limit of
  `yytext` (`1u << 20` in the code, `code_generator.cpp:437`) within these texts.
* *Expressions.* Every expression of depth two with a leaf on one side, deeper ones
  for nested stars and sets, nine specifications with competing rules, alone and in
  every pair in one process; words over three characters up to the module's `Bound`.
* *`.y` files.* Files are printed from the productions they are to say, then read:
  alternatives of up to three items, every shape an action can have (strings,
  characters and comments that hold braces, quotes and references, nested braces),
  four layouts between the items, seven heads with declarations that overlap, pairs
  of productions, and eighteen files that break off or are malformed, for each way
  the reader refuses one. A text is a sequence of words, the characters that mislead
  a reader being words of their own.
* *`.l` files.* Expressions of depth two over every kind of atom and every
  repetition, with the words of up to three characters they match computed from how
  they were built; thirteen actions, two of them with a `%%` that is not alone on its
  line; definitions in the forms the reader tells apart. Files of which something else
  becomes, each kind with a name of its own: *broken* ones (twenty-four expressions
  with something missing or wrong, a cycle of definitions, an empty one, five files
  without a `%%`, an action or its end), *misread* ones (four expressions, a
  definition and an indented rule, all complete, that the reader delimits wrongly),
  *split* ones (five actions with a `%%` alone on a line, in the first rule or behind
  another), and *endless* ones (ranges up to byte 255). `AsciiLimit = 128`, `ByteLimit = 256` and `MaxRepeatBound = 10000`
  are the code's.
* *Self tests.* `MaxLooks = 2` in place of the 600 looks of 100 ms: one look that
  finds the child running, one more, and the limit. Each child ends well or badly or
  never, every other part of the test succeeds or fails, `SIGCHLD` is handled by
  default or, inherited from the parent process, ignored.
* *Symbol table.* Two names, two widths, three open scopes: the smallest instance
  with a shadowed name, a duplicate, and a global, a function and a nested frame at
  once. The theorems about the table hold without these bounds.
* *Programs.* Bodies that nest every kind of statement in every other, loose
  statements, several functions, with arguments 0 and 1; loops count a variable up
  to a literal, so every run ends.

## Fairness

All programs here but the self test are single-threaded, and a function that has not
returned has exactly one thing to do next. `WF_vars(Next)` says that it is done;
nothing weaker would describe a running program and nothing stronger is assumed.
Every `Terminates` is `<>` of the state in which the function has returned (or has
thrown, where the code throws); `TablesDone` and `ReadingEnds` say the same of the
composition and of the reading of a file, less the ranges up to byte 255, which do
not end.

Of a self test `FairMain` assumes that the parent goes on when it can and that a
signal that was sent arrives. Of the children it assumes nothing: `SelfTestDecides`
has to hold whether they end or not where the code has a time limit, and where it
has none (seuLex) it is stated under the condition that they do end.

## Proofs

Checked by TLAPS for every value of the constants:

* `LalrPropagationProofs` – `TypeCorrect`, `NoWakeupIsLost`, `ClosedAtTheEnd`,
  `Refinement`, `NothingInvented`. `NoLostWakeup` speaks of the moments between two
  states only; inside the loops it is false. The inductive invariant therefore also
  says where the owed propagations are kept: `FlagsQueued` (a flag stands for a
  queue entry), `OthersSettled` (a state that is not pending is settled),
  `PassProgress` and `EdgeProgress` (what a quiet pass, or a loop over items, has
  already seen stays settled while nothing changes). At the end the queue is empty,
  so all states are settled (`ClosedAtTheEnd`); every recorded lookahead lies in
  every closed set (`NothingInvented`); together, the result is the least closed
  set, which is LALR(1) propagation. `LookaheadsExact` goes on to the definition of
  LALR(1): the lookaheads of an item in an LR(0) state are those that it has in some
  canonical LR(1) state that the same prefix leads to. Walking both automata with one
  prefix, the items of the canonical set are facts of every closed set, so nothing of
  the definition is missing; and the facts of all such walks are themselves closed,
  under the edges because the walk goes on, within a state because canonical item sets
  are; so nothing is there beyond it. Assumption: `CoresAssumption`.
* `TablePipelineProofs`, the loops of FIRST and FOLLOW – `Inductive`: the equations
  of FIRST hold from the end of the first loop on and those of FOLLOW from the end of
  the second. Needed for it: what a pass that has changed nothing so far has seen
  holds now (`FirstPass`, `FollowPass`), which rests on a lemma that
  `FirstOfSequence` is monotone. `LeastSolution`: the sets lie in every solution of
  the equations. Assumption: `GrammarsAssumption`.
* `TablePipelineProofs`, the converter – `ConversionKeepsEdges`: `EdgesKeepCore`
  after `convert`, whatever canonical automaton it is given. The edges of a merged
  state are written by all members of its group into one entry, so the invariant
  says that every edge was written for *some* old node of the group (`EdgesSoFar`)
  and that the members share their keys (`GroupsAlike`), hence their cores; the last
  writer therefore leads to the cores that the others meant. Assumption:
  `IsCanonical` (nodes numbered from 0, edges between nodes, and equal cores have
  equal cores behind every symbol).
* `TablePipelineProofs`, the tables – `EveryCellIsExact`: `CellsExact` after
  `buildLR1Table`, whatever grammar and automaton it is given. It is about the report
  of conflicts as well: it names exactly the cells that two entries competed for,
  except a reduction that the accept entry displaced (`Reported`). The invariant
  `FilledSoFar` says of every moment what `CellsExact` says of the end: a row decides
  the claims of the edges and items that were read so far. One write is looked at in
  isolation (`ShiftDecides`, `AcceptDecides`, `ReduceDecides`): a cell that decides
  some claims decides one claim more after `Write`, in whatever order they came. It
  is here that the error of `%nonassoc` has to be something that stays, and that the
  lowest production has to be a minimum that no later write forgets. Assumption:
  `IsReadable` (sequences of items and edges, no production of the augmented start,
  levels that are numbers).
* `TablePipelineProofs`, the construction and the whole way – `PipelineIsSound`,
  `NothingIsForgotten`, `EachPartFitsTheNext`, `MergingKeepsEdges`,
  `PipelineCellsExact`, for every grammar that goes in. Here the assumptions
  `IsCanonical` and `IsReadable` of the two theorems above are discharged, and that an
  LR(0) automaton is an `IsCore` is what the proofs of `LalrPropagation` start from.
  - The closures are loops without a bound, written as recursive functions of the
    round. They end because a round that goes on adds an item of a finite set
    (`GrowthEnds`), so what they return is closed (`ClosuresAreClosed`); no induction
    over data is needed, only that a set of rounds has a least member.
  - `BuilderInv` says that nodes are what a closure returned, that edges lead where
    the goto of their node lies (`NodesFit`, `EdgesFit`), that a node off the queue
    has all its edges, and that the node at hand lacks only those of the symbols
    still waiting (`Expanded`, `Expanding`). `NoNodeForgotten` alone is not
    inductive, for it says nothing of the queue and of the node at hand.
  - A canonical automaton is merged by cores, which is sound because nodes with
    equal cores have gotos with equal cores (`ClosureCores`, `GotoCores`): whether an
    item is added depends on what stands behind its dot, and whether *some* lookahead
    comes with it does not depend on the lookahead it came from. That FIRST of every
    such rest is not empty comes from the loops before (`FirstOfTerminals`).
  - Assumptions, all about what goes in: `GrammarsAssumption`, `TextOrderAssumption`
    and `OrderAssumption` (every symbol has a place in the order of texts),
    `DeclarationsAssumption` (levels are numbers), `ReservedAssumption` (no symbol has
    one of the generator's two names) and `ReferenceAssumption`, which says no more
    than that four constants hold the values of reference operators (TLC computes
    such a constant once and an operator at every use).
* `TablePipelineProofs`, against the references – `SetsAreExact`, `CollectionIsExact`.
  The invariants above say that FIRST and FOLLOW solve their equations and lie in
  every solution; the references collect what can be *reached*. Each contains the
  other: what can be reached is in every solution (a set closed under the rule
  contains the least one), and the sets reached are themselves a solution
  (`BelowIsExact`). For the item sets, each node of the builder is reached by gotos
  from the start node (an invariant, since nodes are appended), and an automaton
  without a forgotten node is closed under gotos; so its nodes are the least set of
  item sets that holds the start and is closed, which the reference is
  (`Lr0StatesAreLeast`, `Lr1StatesAreLeast`). No two nodes hold the same set, because
  `addNode` looks first. All references grow until nothing is new, and that this ends
  and yields the least closed set is one lemma (`GrowthEnds` in `GrammarLemmas`).
* `TablePipelineProofs`, what `yyparse` gets – `EachPartFitsTheNext`, by the invariant
  `FullInv`. It adds to the others that groups are numbered in order and the group of
  the start node comes first (`Numbered`; the emitted parser starts in state 0), that
  the converter has the edges as they were built (`Received`), and that the tables
  were filled from the nodes and edges that still stand there (`FillsFrom`).
  - Sound: an item with its dot behind a symbol came over an edge of that symbol or
    was there at the start, so each state holds what its way in requires (`Framed`),
    in the automaton as built (`NodesAreFramed`) and as merged (`MergedIsFramed`); a
    row then has its shifts and gotos from edges and its reductions from whole items
    (`RowsAreSound`).
  - Complete: an item with its dot before a nonterminal has all that FIRST of its rest
    predicts beside it (`Predicted`), since the canonical closure adds it
    (`CanonicalPredicts`) and since the lookaheads of LALR(1) are merged from canonical
    states (`WalkPredicts`, `PropagatedPredicts`). A cell with one claim holds it, so
    no entry is lacking (`RowsAreComplete`).
* `ParserRuntimeProofs` – `Inductive`, `NoUndefinedBehaviour`, `AcceptsOnlyWhole`,
  `Refinement`, `DecidesLanguage`, `ValuesStayInOrder`. The invariant `StacksAgree`
  says that the state stack is a path of the automaton that spells the symbols of the
  value stack; from it follows the
  classical argument that a complete item in the top state has its right-hand side
  on the stack, so that `PopsOnPath` holds through the pops of a reduction and GOTO
  is defined after them. `Refinement`: the stack followed by the remaining input is
  a sentential form that each step leaves alone or reduces. `DecidesLanguage` is
  stated for tables without conflicts; its invariant `LanguageInv` has two halves.
  `HasRead`: the symbols of the stack derive what was read, one after the other; so
  what is accepted is a sentence. `StaysOpen`: if the word is a sentence, some item
  that waits behind the stack derives all that is still to be read. Which items wait
  where is a least set again (`Alive`: a place on the stack, an item, and the place in
  the word where it ends), as are the `Spans` of the reference, so that a derivation is
  taken apart by leastness where a textbook would use induction over its tree
  (`AliveIsLeast`, `SpansIsLeast`, `CoverBegins`). Each waiting item lies in its state
  with the lookahead that follows it (`AliveIsInItsState`), so the table has an entry
  for the next token (`ReadyHasEntry`); since there is no other claim to that cell, the
  step taken is the one the derivation needs. `ValuesStayInOrder`: the terms on the
  stack with those popped so far hold the lexemes read (`ValuesInv`); a pop moves a
  term from one to the other, and a pushed value holds what its right-hand side held,
  unless a production of several symbols has no action (`ResultKeepsLexemes`). It needs
  that a sequence of sequences can be joined piece by piece (`FlattenConcat`), for which
  `FlattenSeq` is unrolled up to the least place where it could differ. Assumptions: `ParsersAssumption` (tables
  belong to their automaton, entries come from items), `DeterministicAssumption` (a
  parser without conflicts lacks no entry: its lookaheads are closed, and each item has
  its shift, its goto or its reduction) and `SentencesAssumption`. The first two are
  what `EachPartFitsTheNext` proves of the parsers the generator writes, the second of
  those made from an automaton whose states were not merged.
* `LexRuntimeProofs` – `TypeCorrect`, `TakesLongestMatch`, `PlacesAreExact`,
  `AnalysisAgreesAlways`, `EveryCallMoves`, `CursorNeverGoesBack`. Line and column
  are related to the text by counting line ends (`InStep`), which one character
  forward keeps (`AdvanceInStep`) and saving and restoring keeps trivially;
  `LongestMatch` is itself an invariant of the scanning loop. `AnalysisAgrees`
  compares the loop with another program over the same tables, and follows from the
  match being the longest. `TokensAreExact` compares all the tokens of a text with
  the reference `Cut`, which knows the tables and the text, but no loop, no saved place
  and no skipping. `Cut` is a recursive function that goes on with the rest of the
  text; that it exists and unfolds (`CutExists`, `CutUnfolds`) is proved by the least
  rest for which it would not. The scanning loop finds the match that the reference
  names, or finds none where there is none (`ScanFindsLongest`), and the invariant
  `Owing` says at every moment of a call what is still owed: the tokens so far,
  followed by what `Cut` makes of the text behind the cursor, are what it makes of the
  whole text. Assumptions: `ScannersAssumption`, `SourcesAssumption`,
  `CapacityAssumption`.
* `LexGeneratorProofs` – `StagesFit`, `SubsetsAreFaithful`, `BlocksFit`,
  `MinimizerIsExact`, `ScannerIsExact`, for every alphabet and every program of
  specifications. `GeneratorInv` goes through all stages: the edges, fragments and
  automata of `buildNFA` lead to nodes that exist (`NfaInv`), so that what is handed over is an
  automaton of its own nodes (`IsNfa`); of the subset construction `SetsInv` says
  that the states in front of the queue's first are finished, and the first one as
  far as the character it is at. `SubsetsFaithful` alone is not inductive, for it
  says nothing of that state. The closure under empty moves takes as many rounds in
  the model as there are nodes; that these are enough (`EclosureFacts`) is proved by
  counting: a round that adds nothing is the last one needed, and each other one
  adds a node. Of the minimizer `MinimizerInv` says that its blocks share out the
  states (`Separates`), that the blocks of the pass under way are those it has
  looked at, split by the signatures of the blocks the pass *began* with (`Passed`),
  and that no pair of states that no word tells apart was separated (`Blocks`). Such
  pairs are `Same`, which the model computes round by round; that it is the largest
  relation whose pairs have the same action and edges to pairs of the relation
  (`SameFacts`) is proved by counting, too. A pass keeps these pairs together,
  because edges to a common block give a common signature (`PassKeeps`); after a
  quiet pass the blocks themselves are such a relation, so they separate everything
  else (`QuietPass`). The keys of the buckets have an order whatever the number of
  blocks (`BeforeIsTotal`, `BeforeIsTransitive`); that it is the order of their
  texts only up to ten blocks does not matter here, for only the numbering of the
  result depends on it. `ScannerIsExact` states `VerdictExact`, the correctness of the
  whole way from the rules to the minimal automaton, in four parts. (1) `toPostfix` and
  `buildNFA` read an expression from left to right with two stacks, `Meaning` from
  outside in. What the stacked operators and the postfix expression so far will come to
  mean is a relation with a gap for the operand that is awaited (`Reads`, `Builds`);
  each token fills or widens the gap (`GapRead`, `OperandRead`, `StarRead`, `Popped`,
  `ParenthesisClosed`). (2) Each fragment on the stack of `buildNFA`, and each finished
  automaton, *spells* its relation: there is a path from its start to its accepting node
  over a stretch of the text exactly where the relation holds (`AtomSpells`,
  `ConcatSpells`, `AlternateSpells`, `RepeatSpells`, `MergedSpells`). That is only so
  because the fragments own different nodes of the arena, no edge leads from a
  fragment's nodes to others, and none leaves its accepting node, until the fragment is
  built into a larger one (`Layout`); `MeaningInv` holds both together from step to
  step. (3) The nodes a text leads to (`Here`) are the set that the state behind the
  text stands for (`StatesStand`): the closures are taken at the end of every move, and
  a character without an edge leaves nothing. (4) The priority of a rule is its place in the file, so
  the smallest one among those nodes is that of the first rule that matches
  (`PickedIsVerdict`); and the minimal automaton passes the blocks of the states
  (`BlocksPassed`). The recursive definitions (`Meaning`, `StateAfter`) are shown to have
  a solution by the smallest part for which there would be none (`SpansExist`,
  `PassesExist`). Assumptions: `AlphabetAssumption`, `NamesAssumption` (the
  actions, each once), `RulesAssumption` (sequences; no specification without
  rules, no rule without an expression or without an action, which `lex_parser.cpp`
  refuses), `ExpressionsAssumption` (operands stand at the beginning and behind `(`, `|`
  and `&`, which is how `serializeAst` writes expressions; that parentheses match is not
  assumed) and `TextsAssumption` (texts of characters; the marker of an empty move is
  none).
* `CommandLine` – `NothingIsLeftBehind`. `Whereabouts` relates the place in the self
  test to the child and the directory: a child is there only within `runProcess`, and
  the process is away from its directory only between the two calls of `chdir`, or on
  the way out of them; at the end of `main` it is back unless that call was refused.
  The statement is about `CommandSpec`; `YaccGenerator` only adds conjuncts to its
  steps and lets it stutter.
* `SymbolScopesProofs` – `TableInvariant`, `StorageTheorem`, `Refinement`. That
  storage is apart needs that everything handed out ends where its counter stands
  (`StorageBelowCounters`), and that in turn the level an entry lands on, which
  decides its counter (`LevelsAgree`). The argument is made for one frame beside the
  global counter (`Sound`), then for the table (`Coherent`), operation by operation.
  `Refinement` says that the table implements `LexicalScoping`: the innermost
  declaration of a name exists because a non-empty set of scope numbers has a
  largest element (`LargestOf`, by well-foundedness), which gives the rule of lookup
  frame by frame (`LookupRule`); with it each operation changes the environments as
  the abstract one does. Nothing is assumed: widths are positive by their definition
  (`WidthIsPositive`).

## What is only model-checked

Liveness and `ENABLED` are out of this prover's reach, and so are modules with
RECURSIVE operators and the library's theorems of induction. (Where a recursive
function is proved about, the least argument for which it would fail stands in for
the induction.) So these stay with TLC:

* every `Terminates`, `TablesDone`, `ReadingEnds` and `SelfTestDecides`;
* the trees and scopes of `ParserRuntime` (`RankedTree`, `ScopesFollowText`), which are
  stated over trees or over counts of braces and hold for some grammars only;
* both readers with what follows them (`YaccFile`, `LexFile`): the texts are taken
  apart by RECURSIVE operators;
* all of the code generator (`TargetExecution`): trees and code are related by
  structural recursion.

## Where code and documentation differ

Shown by a run:

* `MergedCores` – `lalr_converter.h:23` promises to "Merge LR(1) states with
  identical LR(0) cores", but the key (`lalr_converter.cpp:33`) has one entry per
  *item*, and items differ by lookahead: a state that holds a core with one
  lookahead stays apart from one that holds it with two.
* `LocalBlocks` – `intermediate/docs/ALGORITHMS.md:9` enters a scope at a function
  or a local block; the generator (`tri_addr_generator.cpp:158`) does so at
  functions only. A name declared again in an inner block is the same variable.

* `MidruleReferences` – `seuYacc/docs/ALGORITHMS.md:66` calls the construction for
  actions in the middle of a rule the key to their correctness and lists `$1`, `$2`,
  ... as supported; the production made for such an action has an empty right-hand
  side, and `inferredValueAccess` (`parse_table.cpp:499`) resolves against that:
  every `$k` in it is replaced by nothing.

Met while modelling, and left as the code has it, without a run of their own:

* `convert` writes the edges of merged states into one map entry, the last one
  staying (`lalr_converter.cpp:103`). Where successors were kept apart by the key
  above, lookaheads behind the other edge are out of reach.
* `emitParser`'s accept entry is written without looking at the cell
  (`parse_table.cpp:700`); when the start symbol derives itself the reduction there
  is overwritten and no conflict reported, while `docs/ALGORITHMS.md:270` has all of
  them reported. `CellsExact` says what such a cell holds and leaves the report out;
  `AcceptsLanguage` says nothing of these grammars, for it is about parsers without
  conflicts and grammars without cycles.
* An action that stands first in the first production makes the symbol of its own
  empty production the default start symbol (`yacc_parser.cpp:480`);
  `RulesAsWritten` states it that way.
* An undefined nonterminal becomes a token without a message, `%token $` shifts the
  numbers of the table against those of the header, two spellings of one quoted
  character share a number, and `'\0'` shares that of the end marker
  (`SymbolsNumbered` names these cases). With several tags on one `%token` line the
  last one counts for names behind it. A lone `%%` on a line inside of a comment or
  an action of a `.y` file ends its section; no document says otherwise.
* **A `%%` in an action.** `seuLex/docs/ALGORITHMS.md:34` promises that a `%%` inside of
  the action of a rule does not end the section (规则 action 内部的 `%%` 不会切段), without
  a condition; `docs/DEVELOPMENT_PROCESS.md:61` counts it among what was hardened.
  `findSectionDelimiter` (`lex_parser.cpp:16-53`) knows of lines and of `%{ ... %}` only:
  a `%%` with something else on its line stays in the action, but one alone on a line
  ends the rules, be it in code, nested braces or a comment of the action. The rule in
  work is then left with an open brace, and `parseLexFile` throws (line 316). The files
  of the kind *split* in `MCRegexExpander` are ten such files. `RulesAsWritten` and
  `ReadingEnds` do not call them broken: both name them as the exception, say that the
  document has them read, and check of the code what remains, that it always refuses
  such a file and never makes a scanner of the rules in front of the `%%` or of half an
  action. As the user sees an error and no wrong scanner, there is no run of its own
  for it, other than for the three divergences above, which go unnoticed. The self test
  does not meet it: in `action_delimiter.l` (`code_generator.cpp:820`) the `%%` stands
  in a string with code around it on its line.
* The reader of `.l` files and the parser of expressions track brackets by different
  rules, so that `[]"]` and `[] ]` are delimited wrongly and refused although the
  parser would take them; so are `a{2 }` and `a{1, 2}`, for the parser skips blanks
  between the braces and the reader ends the expression there; `/*` in a class of a
  definition is cut as a comment; a blank in front of a rule makes the reader take it,
  and every line behind it, for a continuation. These files are of the kind *misread*,
  the second exception that `RulesAsWritten` and `ReadingEnds` name. A rule without an
  action takes the next line for one.
* With `SIGCHLD` ignored, inherited from the process that starts the generator,
  `waitpid` finds no child and a self test fails whatever the child did; seuLex's
  self test has no time limit, seuYacc's has.
* A call of a function that the same program defines as `void` is lowered as a call
  that returns `i32` (`target_ir_emitter.cpp:571`). A bare `return;` in a function of
  type `int` is lowered to `ret void`, while the function is defined to return `i32`
  (`target_ir_emitter.cpp:624`). `WellFormed` is about labels and control and does not
  look at types, so neither contradicts it; `ImplementsTac` and `ResultsAgree` take such
  a return for one without a value.

## Restrictions of the code the models take over

* A temporary is called `tN`; a program variable of that name is overwritten
  (`tri_addr_generator.cpp:266`). The catalogue uses other names.
* `x + (x = 1)` reads `x` after the assignment, for operands are names. The
  catalogue has no such tree.
* Unary operators other than minus are not exercised.
* A character range that ends at 255 counts an unsigned char beyond its last value
  and does not end (`regex_expander.cpp:419`); modelled, with the outcome that the
  reader stays there, and the only exception of `ReadingEnds`.
* A grammar in which an empty reduction leads back to its own state makes a parser
  that does not return; the generator does not reject it. `Terminates` is stated for
  the others, which the operators `Cyclic` and `HiddenLeftRecursive` tell apart.
* A cell that `%nonassoc` turned into an error keeps it against later writes, and
  reductions that come after are recorded as conflicts (`parse_table.cpp:377`);
  `CellsExact` says what every cell holds.

## Not modelled

* The text of generated files around tables and actions, drawing of automata, the
  arguments of seuLex, and the scripts of `integration`: input and output without
  state of their own.
* The command line and the self test of `intermediate` (`main.cpp`): a list of
  demonstrations that call what `TargetExecution` and `SymbolScopes` model.
* `generated_parser.cpp` and `generated_lexer.cpp` are output of the generators and
  are stood for by `ParserRuntime` and `LexRuntime`.
* Freeing of trees and the global slot that hands the root over.

## Plan

Done, in this order: the LALR(1) core (`Grammar`, `LalrPropagation`, its abstract
specification and its proofs), the loops before it (`FirstFollow`), the two
constructions and their merging, the tables, the parser with its abstract
specification and its proofs; the scanner that is generated and the generator behind
it; the intermediate stage from the symbol table to both targets; the composition
from a grammar to its tables; the readers of both file formats with the symbols,
token numbers and actions made of them; the expander; the self tests with their
child processes; the proofs about the way from a grammar to its tables, about the
generator behind the scanner and about the self test; the proofs that the whole of it
is exact: the lookaheads, the item sets, the language of the parser and the order of its
values, the tokens of the scanner and the verdicts of its automaton.

Next:

1. `RegexExpander` composed into `LexGenerator`, and `ParserRuntime` with
   `LexRuntime`: tokens that arrive one at a time.
2. Proofs about the trees and scopes of `ParserRuntime`, and about the blocks
   and targets of `TargetExecution`, once their statements are freed of RECURSIVE
   operators.
