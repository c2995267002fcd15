# abnf-oracle in TLA+

abnf-oracle reads a grammar in ABNF (RFC 5234, 7405), checks it, decides
whether an input is in the language of a rule, and generates strings that are.
It is a sequential library with a command line on top: no threads, nothing
persisted. What makes it hard is not concurrency but *state that outlives a
call* (a memo table, a step counter, coverage, cached distances) combined with
*calls that end early* (limits), and *algorithms whose termination and
exactness are delicate* (repetition by sets of positions, left recursion,
shortest derivations, the coverage chase).

Paths below are relative to the repository root (`src/recognize.rs` is the
crate's `src/` directory).

## Inventory

| part | state it keeps | operations | hard about it |
|---|---|---|---|
| parser (`parse.rs`, `ast.rs`) | cursor, collected definitions | `Grammar::parse(_with)`: split lines, parse definitions, canonicalize | backtracking, numbers at the width of u64, repetitions of repetitions rewritten |
| printer (`display.rs`) | none | `Display` of both grammar layers | parentheses exactly where dropping them changes the parse |
| checker (`check.rs`) | the merged rule table, the arena, all errors found | `Grammar::check`: merge `=/`, lower and resolve, nullability, left recursion, `min_len` and witnesses, compatibility | hygiene of core rules, every error reported, order of finalization, saturation |
| core rules (`core_rules.rs`) | a constant table | lookup | shadowed by user rules, never the other way round |
| recognizer (`recognize.rs`) | memo table, step counter, depth, limits | `accepts`, `end_positions`, `with_options`, `without_memoization` | an error in the middle of a memoized evaluation; exact repetition counts; termination |
| generator (`generate.rs`) | options, covered and pending units, distances, cache, step and output counters, RNG | `generate`, `uncovered`, `with_options` | termination of a random walk; the coverage guarantee; staleness; failure after partial work |
| RNG (`rng.rs`) | one word | `below`, `bool` | unbiased, 0 for an empty range |
| lint (`lint.rs`) | none | `lint`, `lint_from` | reachability over the right graph |
| errors (`error.rs`) | none | the error types | which one, not its wording |
| command line (`bin/abnf-oracle.rs`) | none; `gen --out` leaves a directory | `check`, `match`, `gen`, `rules` | one exit code out of several outcomes; files that fail half-way |

How they interact. `parse` makes a `Grammar`, `check` consumes it and makes a
`CheckedGrammar`, which nothing changes afterwards; a `Recognizer` and a
`Generator` each borrow one. There are no callbacks and nothing is shared
between a recognizer and a generator but that grammar: they are the two halves
of one oracle and must agree about the language. The checker's tables carry
the promises the other two rest on: no left recursion (the recognizer ends, its
in-progress guard never fires), no reachable prose (the walks never meet it),
well-founded witnesses (the generator ends).

What makes each part correct:

* recognizer: an answer is exactly what the grammar means, or an error that
  names a limit the caller set; nothing a question leaves behind changes the
  answer to the next one; every question ends.
* generator: what it emits is accepted; every call ends; only success counts as
  coverage; in coverage mode each success covers something new.
* checker: errors are exactly the defects; an accepted grammar has one meaning;
  each table holds what its definition says.
* parser: accepts what the notation's own grammar derives, and finds its only
  meaning; the rewriting keeps the language.
* printer: printing and parsing again is the identity, and no text that is parsed
  opens fewer parentheses than its grammar printed.
* lint: a warning exactly when what it says is so.
* command line: the exit code tells *yes*, *no* and *could not tell* apart; what
  `gen --out` says is there, is there, and `match --dir` accepts it.

## Modules

| module | models | kind |
|---|---|---|
| `Grammar` | the arena `check` produces: nodes, rules, resolved references, and the graphs walks and gates use | constant module |
| `NumVal` | the arithmetic of numeric terminals in `ast.rs`: counting a range's scalars, indexing them | operators |
| `Language` | what a grammar means: the ends of a terminal as the code compares them, of a composite declaratively | constant module |
| `Oracle` | the recognizer's promise: answer exactly, give up for a limit that is set, or refuse unread | abstract specification |
| `Recognizer` | `recognize.rs` | detailed specification; implements `Oracle` |
| `RecognizerProofs` | theorems about `Recognizer`: its state and bookkeeping, and that what it answers and remembers is what the grammar means; without left recursion, that what fails is a limit, rounds are bounded, and every step is one of `Oracle` | proofs |
| `Generator` | `generate.rs`, `Coverage` included | detailed specification |
| `GeneratorProofs` | theorems about it (what it emits is accepted, its tables are fresh, what is covered, how long a witness is) and about `NumVal` | proofs |
| `Builder` | `check.rs` 73-491: merging definitions, lowering, resolving names, collecting defects | detailed specification |
| `FirstCycles` | `left_recursion`: the depth-first search of the first-graph | detailed specification |
| `Shortest` | `min_len`: Knuth's algorithm with its heap, and the witnesses | detailed specification |
| `Analyses` | `Builder::finish`: nullability, then the two above, then compatibility | composition |
| `Ordered` | lists that ascend, as ordered sets are gone through | operators |
| `Lint` | `lint.rs` on top of the checked tables | operations on `Analyses` |
| `Ast` | the elements of `ast.rs`, as the parser makes and the checker takes them | constant module |
| `Characters` | the character classes and digits of the notation (`parse.rs`) | operators |
| `Canonical` | `canonicalize` in `parse.rs` | operators |
| `Parser` | `parse.rs`: the character-level recursive descent, line by line and rule by rule | detailed specification |
| `Printer` | `display.rs` | operators |
| `SelfGrammar` | the ABNF of ABNF (RFC 5234 section 4, the errata of `SCOPE.md`) as sets of derivations: what a text may be read as | reference |
| `Syntax` | parse, print, parse again | composition |
| `CommandLine` | `bin/abnf-oracle.rs` from the loaded grammar to the exit code, and the directory between `gen --out` and `match --dir` | detailed specification |
| `CommandLineProofs` | theorems about it | proofs |
| `BuilderProofs` | theorems about `Builder` | proofs |
| `AnalysesProofs` | theorems about `FirstCycles`, `Shortest`, `Analyses` and `Lint`: left recursion, nullability, compatibility, lengths, the order they are found in, witnesses, warnings | proofs |
| `DescentProofs` | theorems about `Ast`, `Canonical` and the productions of `Parser`: trees, what canonicalization keeps, and that recursive descent finds what `SelfGrammar` derives | proofs |
| `SyntaxProofs` | theorems about `Parser` rule by rule, about `Printer`, and about `Syntax` | proofs |
| `ProofSupport` | facts that several proofs need: stacks kept as sequences, sequences that ascend or are joined, least and greatest numbers, what iterations, closures of graphs and loops compute | lemmas |
| `MCLanguage`, `MCTables` | the meaning of a grammar and the checker's tables, computed for the models | model support |
| `MCRecognizer`, `MCGenerator`, `MCDivergences`, `MCBuilder`, `MCAnalyses`, `MCSyntax`, `MCCommandLine` | the model instances | model checking |

How they fit. The arena is what ties the modules: `Grammar!WellFormed` says what
one is. `Builder!SoundArena` shows that building makes one and that every node
comes before its parts; `Analyses` starts from any one (`ArenaShape`) and shows
its tables right against their meaning; `Recognizer` and `Generator` assume
one (`GrammarAssumption`) with such tables, and are instantiated with tables
computed from the meaning (`MCTables`), never with those of the modelled
algorithms, so that a mistake in these could not make the others agree with it.

**Recognizer.** Rust recurses; the model keeps the stack. One *frame* is one
activation of `match_node`, with the locals of the function the node's kind
dispatches to: the branch or item reached, the start positions of the current
`advance` not begun yet, the ends collected so far, and of a repetition its
phase, count, frontier and result. `pc` says whether a call is about to be made
(`enter`), the innermost frame runs, a result goes back to it (`return`), or
the caller has control (`idle`). A question is `EndPositions`; `RefuseDepth` is
the depth check on entry, `RefKnown`/`RefUnknown` the memo lookup, `RunAlt`,
`RunConcat`, `RunOptional`, `RunRef` and the repetition actions (`BeginRound`,
`EndExactRound`, `EndMoreRound`, `EndStage`) the bodies of the dispatch,
`Advance` one iteration of `advance`, `Resume` a successful return and `Unwind`
an error on its way out, one frame at a time, with the marker each reference
takes back. Between questions `WithOptions` and `WithoutMemoization` change the
settings, the memo table staying as it is. (Both consume and return the
recognizer in Rust, which is the same value with one field changed.)

**Generator.** The recursion is a list `todo` of what is left to walk, each
with its reference depth, since nothing is done after a recursive call returns
but to go on. One action per kind of node visited; each visit costs a step.
Every draw of the RNG is a free choice among what `below` and `bool` can return,
so a property holds for every seed. A branch is numbered from 1; of an optional
1 takes the body and 2 skips it. `covered`, `pending`, `distance`, `stale` and
`reachable` are the fields of the same names; the breadth-first searches are
functions, since nothing observes them half done.

**Builder.** One action per way a definition can be taken (`Found`, `Extend`,
`Duplicate`, `Orphan`), then the recursion of `lower` as a list of activations,
each with the id it reserved and the parts lowered so far: `BeginRule` and
`LowerPart` reserve an id and complain of the element itself, `Place` overwrites
the placeholder and returns. `Turn` goes from merging to the user's rules, to
the core rules, to the verdict. The model extends a body one `=/` at a time
(`Combine`), where the code keeps the alternatives and combines them in the end;
flattening gives the same either way. A rule is its position in the table of all
rules, which is what `RuleId` and `rule_index` amount to.

**Analyses.** The phases of `finish` take turns. `Nullable` and `Compatibility`
are one sweep a step, each sweep reading what it writes as in the code.
`FirstCycles` takes one edge a step; its stack holds the edges left instead of
an index. `Shortest` takes one entry of the heap a step. A step count starts at
`MaxU32`, a length at `MaxU64`, as in the code, and sums and products saturate
there. The reference is `Derivable`: the lengths of shortest derivations no higher
than there are nodes, never cut off.

**Lint.** `LintPlain` and `LintFrom` ask once the tables are there. Which rules
are the user's is part of the question: any prefix of the rules that the others
do not refer into can be.

**Parser, Printer, Syntax.** A text is a sequence of characters from those the
notation tells apart (one letter does for all that are no digit of any
radix, `NONASCII` for all the parser refuses). `Parser` takes a step to
admit the text (`Gate`), one per definition or blank line (`ReadRule`, `ReadBlank`) and
one to end (`NoRule`, `Finish`); within a definition the productions are operators from
a position to what was read and the position after it, or an error: they have no
state but the cursor. The
errors that end a parse and the numbers at the width of `u64` are in them. `Canonicalize` is applied where
the code does. `Syntax` lets a parsed grammar be printed and the printed form be
the next text. `SelfGrammar` is the reference and has nothing of the parser in
it: it says of every production which substrings it derives, with no lookahead, no longest match
and no backtracking, and of every derivation which definitions it stands for.
The whitespace that `alternation` and `concatenation` give back when nothing
follows it is kept by no production after them, so whether it is given back there
cannot be told from outside once the errata apply.

**CommandLine.** The recognizer and the generator are replaced by what their own
modules show of them: an answer by the language of the rule (`Lang`), a string of those that
can be drawn from it, or a limit. What can be drawn is a constant of its own (`Generated`), since
it is not always in the language (`high_range`); that the generator panics on some grammars
(`unproductive_body`) is left out here. One
action per stage of a command (`Load`; `GateMatch`, `MatchLiteral`, `MatchFile`,
`ListDirectory`, `ReadEntry`, `EndDirectory`; `GateGen`, `MakeDirectory`, `NoExpansion`, `MeetLimit`,
`Produce`, `FailToWrite`, `EndGen`) and one for somebody else who
writes or removes a file at any moment (`Meddle`). Writing a file may fail, and may stop
in the middle. The variables after `meddled` record what really happened, for
the properties to compare the outcome with; no other action depends on them. Among them is
`origin`, of which rule each file is that `gen` wrote in full, so that what `match --dir` says can be
held against files of several rules and runs, of lower counts than the last, half written
or touched by others.

Two consequences worth knowing. `gen --count 0 --out d` exits 0 and leaves a directory
in which `match --dir d` finds no input, which it reports with 2. And a rule that matches nothing
passes the gate of `gen`, against the comment above it (`bin/abnf-oracle.rs` 413-414): it is
refused only by the first string asked for, when the directory has been made, and with
`--count 0` not at all.

**Language.** `IsMeaning` states which assignment of ends to nodes and
positions a grammar has, with repetition as "some permitted number of steps"
and no algorithm in it. `MCLanguage!Meaning` computes it by iteration from the
empty assignment for the models.

## Runs

| run | what it asks | states |
|---|---|---|
| `recognizer_exact` | is every answer exact, from every start, with and without the memo table, two questions in a row | 85,373 |
| `recognizer_limits` | what do limits leave behind, when they strike anywhere and are changed between three questions; does the recognizer implement `Oracle` | 172,881 |
| `generation` | is what every walk emits accepted, random or steered, at budgets 0 to 2 and under both limits; the coverage guarantee and its bookkeeping, over calls that succeed, fail, or leave coverage mode and come back to it | 36,644 |
| `building` | is the arena the grammar that was written, with every name meaning what its scope says; is every defect reported, and each once | 74,004 |
| `analyses` | is each table what its definition says; does the search reject exactly what the recognizer could not end on; do witnesses lead out; is each lint warning given exactly when what it says is so | 224,498 |
| `parsing` | does the parser accept what the notation's own grammar derives, with its only meaning; does canonicalization keep the language; does the printed form read back, with as few parentheses as any text | 171,077 |
| `commands` | does the exit code say what happened; is what `gen --out` reports done there and whole, and does `match --dir` pass over none of it and reject none of its rule, whatever else is in the directory | 151,029 |
| `chase_descends` | violated: the distance does not decrease along a chase | |
| `largest_spread` | violated: not every promised count can be drawn | |
| `every_cycle` | violated: not every cycle is reported, nor every rule on one | |
| `high_range` | violated: a scalar outside the range it was drawn from | |
| `unproductive_body` | violated: an alternation without a usable branch is reached | |

**Bounds and why they are enough.** `MaxCalls` bounds the questions to a
recognizer, and `calls` of each member of `Sessions` those to a generator:
three questions are enough for one to fail, one to be asked under new limits
and one to read what both left; twelve steered calls exceed the number of units
in the grammar, so full coverage is reached. A session fixes the options to
choose from and the rules to ask for: random calls, steered calls, and five of either kind
on one generator, where a steered call finds a table of distances that random calls have made stale
and the other way round. `MaxPos` is the largest position;
`Starts` includes one past the end of the input (that no start is too large, `usize::MAX` included,
is for `AnswersAreExact`, which holds for every `MaxPos`). The grammars are small but
each rule is a shape that is hard: a recursive nullable rule, an ambiguous one
that asks for the same memo key twice, a minimum the input cannot reach, a
minimum of a million over a nullable body, a maximum over a nullable body,
prose behind a reference, prose inside `*0(...)`; for the generator an
unproductive branch, units behind references, a repetition that never runs, and
recursion through a repetition. The step limits 2 and 6 and the depth limits 3
and 6 strike in every kind of frame. `MaxU64` stands for `u64::MAX` in the
repetition count's arithmetic.

`building` takes every grammar of two definitions with bodies of seven shapes,
and of three with bodies of three: names that differ in case, are undefined or
are those of core rules, references, nested alternations, inverted ranges,
prose. Three definitions are what it takes for a base, its extension and
something between them. `analyses` takes every first-graph on three rules (two
cycles that share a rule need no more), every pair of rules whose bodies are at
most one operator deep, and six grammars picked for what needs more: lengths
that saturate (at `MaxU64` = 40, in products and in sums on top), ties on every
side, mutual ruin, and a chain of rules to what cannot be matched. Lint is asked with
no start or with up to `MaxStarts` = 2 of them.

`parsing` takes some 25,000 texts, with either reading of line endings: every
short one over the characters that matter to one part of the notation
(`Lines`, `Rules`, `Shapes`, `Values`, `Quotes`), and three repetitions deep every combination of eight
bounds over four bodies (`Nested`). `MaxU64` = 20 stands for the width of numbers: two digits pass it. Bodies are compared by the words up to `WordBound` = 4, more
than the word of any count it tells apart from the next. `commands` takes three commands in a row
(make, make again over it from another rule or to a lower count, match) and one file of two that
somebody else touches; a directory of two files has one before and one after any that fails.
One of its rules matches nothing and one matches another text than the one drawn from it.

Deadlock checking is off in `recognizer_exact`, `building`, `analyses`,
`every_cycle`, `parsing` and `commands`: there a recognizer that has had its
`MaxCalls` questions and has no options to change, a grammar that is built, one
that is checked, a text that is read or read back, and a caller who has run
`MaxCommands` commands have nothing left to do. It is on everywhere else.

**Fairness.** `WF_vars(Walk)` in `Recognizer` and `Generator`: a call that has begun
keeps executing, as sequential code does. The caller is never required to ask.
The other specifications state safety only and have none.

**Each property is broken by a plausible slip**: the operators marked as slips
or variants in the modules (a subset test in place of the fixpoint test, a
marker left in the table, a depth counter not lowered on one way out, a cache
key shared by two rules, ...) are those slips; no specification uses them.

## Where the code and its words differ

1. *The chase* (`src/generate.rs` 345-364). Distances count every unit no
   earlier call has covered; the rule that takes an uncovered branch also skips
   those of the present call. A unit taken in this very call can therefore be
   chased and never taken. On `s = "x" / "(" s ")"` the second steered call
   never ends but by a limit, against "distance strictly decreases along it, so
   it ends".
2. *The largest spread* (line 403). `ceiling - min + 1` overflows when spread
   is `u64::MAX` and the repetition is unbounded from zero.
3. *Repetitions of what cannot match* (lines 385-404). `*bad` is productive
   since it matches nothing, but the count is drawn without asking whether
   `bad` can match. The walk enters it and arrives at an alternation without a
   usable branch, against the assertion on line 284. `NeverUnproductive` states
   the condition under which that cannot happen, and `ChoicesHaveBranch` proves it.
4. *Ranges above the surrogates* (`src/ast.rs` 289-300). `nth_scalar` steps
   over the surrogates to U+E000 + index even when the range begins beyond
   U+E000, so `%x1F600-1F601` is generated as U+E000 or U+E001, which the
   recognizer rejects. `GeneratorProofs!HighRangeIsLeft` shows it of every such
   range, `NthScalarInRange` that all others are right.

5. *Cycles go unreported* (`src/check.rs` 896). One depth-first search skips
   the rules it is through with, so it reports a cycle per back edge and not
   "every cycle in the first-graph, each reported once" (847). With a rule that
   leads to two others, the first back to it and the second to the first, the
   second is on a cycle and in no report. What does hold: a left-recursive
   grammar is always rejected, and in every knot of left-recursive rules one
   is named (`AcceptsExact`, `EveryKnotReported`).

## Proofs

`RecognizerProofs` proves, for every grammar, input, set of limits and number
of questions:

* `TypeCorrect`: `Spec => []TypeOK`.
* `NoProseMatched`: `Spec => []ProseNeverMatched`.
* `DepthCounted`: `Spec => []DepthIsNesting`.
* `MarkersExact`: `Spec => []MarkersAreOpenCalls`.
* `FinishedIsKept`: `Spec => MemoKept`.

and, for every grammar that has a meaning:

* `AnswersAreExact`: `Meanings /\ Spec => []AnswersExact`.
* `MemoIsExact`: `Meanings /\ Spec => []MemoExact`.

and, for every such grammar without left recursion:

* `OnlyLimitsFail`: `[]RefusalsAreLimits`.
* `RoundsAreBounded`: `[]RoundsBounded`.
* `IsAnOracle`: `Seen!Init /\ [][Seen!Next]_(Seen!vars)`, the safety half of the
  refinement `ImplementsOracle`: the first state is a first state of `Oracle`,
  and every step is one of its steps or leaves what the caller sees alone. That
  a question is not left open is its liveness half, and checked only.

`GeneratorProofs` proves, for every grammar, all sequences of calls and options, and
every draw:

* `DistancesAreFresh`: `Spec => []DistanceFresh`, and `CachesAreOwn`:
  `Spec => []CacheOwn`. The tables are functions of what is covered and of a
  rule's body, however they are computed; what is proved is that no step uses
  one that is out of date. A commit that adds nothing does not make the
  table stale, and need not: what is covered is then as it was.
* `UnproductiveNeverEntered`: `Spec => []NeverUnproductive`, and
  `ChoicesHaveBranch`: `WaysOut /\ Spec => []ChoiceHasBranch`. A walk does not
  leave a set of nodes that is `Closed`: it has the bodies of the rules that
  are not refused, the usable branches of its choices (whatever the mode
  selects is usable: `SelectUsable`), the items, the targets, and the bodies of the
  repetitions that ever run (a count of one that never runs is zero:
  `CountFacts`). The productive nodes are such a set under the condition
  `WaysOut`; divergence 3 shows that they are not without it. So are all nodes,
  which types what is left to walk (`NodesAlways`).
* `OutputIsAccepted`: `WaysOut /\ LowRanges /\ AcceptsMeaning /\ Spec =>
  [](Len(out) <= MaxPos => OutputAccepted)`, that the two halves of the oracle
  agree. The invariant (`Leads`): whatever text begins as what was emitted and
  goes on as a match of what is left to walk is a match of the rule asked for.
  Each step that replaces a node puts there what is a match of it (`Expands`:
  a branch, the items, a body, a permitted number of bodies by
  `CountPermitted`), and a terminal is emitted only as what it matches
  (`EmissionFits`: case that was varied is undone by folding, a drawn index gives a
  value of the range). So when nothing is left, what was emitted is a match.
  `Accepts` is a constant of the generator; `AcceptsMeaning` says that it holds of
  what some meaning of the grammar holds of, which is what `AnswersAreExact` proves of
  the recognizer. `LowRanges` excludes the ranges of divergence 4 and those that
  hold no scalar, which are not productive in the checker's tables. `MaxPos` is
  any number: it only bounds the positions a meaning speaks of.
* `CountsAreOffered`: `Narrow /\ Spec => []CountsOffered`, where `Narrow` keeps
  spreads below the largest u64, and divergence 2 shows that it must.
* `SuccessAloneCovers`: `Spec => OnlySuccessCovers`. The invariant (`TraceInv`): a
  walk stays among what the bodies ahead of its rule lead to (`Within`, over the
  closure `Ahead`), so what it takes is in that rule's reach, and it takes no more
  units than it makes steps.
* `SuccessesCover`: `Spec => SuccessCovers`. Every walk in coverage mode keeps a promise
  (`Promising`): an uncovered unit is already taken, or a node still to be walked is at a
  finite distance from one. A node on the way has it from the breadth-first
  search (`DistanceFacts`: a node is at a finite distance exactly if it is uncovered
  or an edge leads to such a node), so whichever branch
  or count the rule selects leaves such a node ahead, or takes the unit. When nothing
  is left to walk, the first half is what remains. That the chase need not *end*
  (divergence 1) does not touch this: it is a promise about calls that succeed.
* `WitnessesAreShortest`: `LengthsAddUp /\ Spec => WitnessShortest`. The invariant (`BudgetInv`):
  what was emitted and the lengths of what is still to be walked add up to the length
  of the rule's body (`Adds`, by running sums, so that replacing the first node by what it
  stands for changes a prefix only). `LengthsAddUp` says of the checker's tables
  what `LengthsExact` and `WitnessesBest` prove of them, where nothing saturates; the
  model instance checks it of its tables.
* Of numeric terminals, for all endpoints and indices: a range counts as
  representable exactly when it holds a scalar (`ScalarsInExact`), drawing
  by index stays in a range that begins by U+E000 and gives each scalar once
  (`NthScalarInRange`, `NthScalarOnce`), and it leaves every range that
  begins later (`HighRangeIsLeft`).

Assumed there: `GrammarAssumption`, and `GeneratorAssumption`, which types options
and tables and says what the table of lengths must say of a node's parts for a
node to be productive, and that the arena is finite. Both are evaluated on every run of the generator.

`BuilderProofs` proves, for every grammar of any length and depth, every table of
core rules and every way names can have keys:

* `BuildsSoundArena`: `Spec => []SoundArena`. The invariant (`BuilderInv`): an
  activation's node exists, its parts so far were reserved after it, and the
  next activation's node too (`Activations`); every other node is what it will
  be, with parts reserved after it and, if it is a reference, a rule there will
  be (`OthersPlaced`); every rule lowered has a node (`Rooted`); as many rules
  are lowered as the stage says (`Progress`). An arena that grows may have nodes
  that still are placeholders and references to rules not lowered yet, so
  `OthersPlaced` says shapes over all ids and over the rules there will be
  (`Growing`), and only at the verdict, when no activation is left and the rules
  are all there, does that become well-formedness of the arena. Inverted ranges and
  undefined names are placed like any node; they break nothing, because what
  is said of nodes is said while no error was collected.

* `NamesMeanWhatTheyShould`: `Spec => []Hygienic`. Two more invariants. `MergedInv`:
  of the definitions met so far, `order` lists the keys of the founders in
  their order, and the body of each is made of the definitions of its key, in
  theirs (`Says`, `MadeOf`); it is what makes a rule of the arena the
  rule of a name. `HygieneInv`: there is a boundary between the nodes of the
  user's rules and those of core rules, the activations of the stage are on
  its side of it (`CoreFrames`), and, while no error was collected, every
  reference placed means what its side of it says (`TargetsMeant`). At
  the verdict the boundary is the body of the first core rule, by which `Hygienic` tells
  them apart.
* `ArenaIsTheGrammar`: `Spec => []ReadsBack`. The invariant (`ReadInv`): while no error was
  collected there is a function that says of every node what element it was
  lowered from, such that every placed node is that element but for its
  parts, which are lowered from the element's; every activation lowers the
  next part of the one below it, and the first the body of the next rule. It need not be a
  variable of the model: each reservation extends the one there is. That a rule's
  branches are those of its definitions one after the other is `FlattenMore`, and
  that no other ascending list of them exists `ListIsOne`.
* `DefectsReported`: `Spec => []ErrorsExact`. The invariant (`DefectInv`): there is a set of
  elements, those lowered of the user's rules so far, such that what is reported is the definitions
  without a place and what is faulty of that set (`Gathered`), and whatever is in it
  has all its parts in it or is still being lowered (`Gathering`). So in the
  end it is closed under parts, and holds whatever has a place, however deep
  (`AllGathered`), save that an alternation a `=/` was added to is there in its
  branches only, which is where its defects are. That each defect
  is reported once needs more: what is yet to be lowered is at places where nothing is
  reported and nothing else is (`Ahead`): the parts an activation has left share none with the
  activations above it, nor those with the rules to come. `MadeApart` shows it of
  rules merged from many definitions. Merging reports the definitions that have no place,
  each when it is met, and the core rules add nothing.

Assumed there: `BuilderAssumption`, the shapes of the elements the parser makes
(an option has one part, a range two ends, ...). `DefectsReported` has two hypotheses
more. `SpansApart`: what is written in different places has different spans, and each
definition its own, as in every text the parser reads; without it two undefined names
could be one complaint at one place. `CoreSound`: no core rule has an inverted range or a name
that is no core rule's, as is so of the table in RFC 5234; the code would report such a defect too,
and `ErrorsExact` counts those of the user's grammar alone. `MCBuilder` evaluates both.

`AnalysesProofs` proves, for every graph
and every family of arenas, of any size:

* `SearchExact`: `SearchSpec => []AcceptsExact`, and `CyclesRejected` the same of
  the search as a stage of `Analyses`. The invariant (`SearchInv`): the gray
  rules are a path each of whose rules leads to the next; every edge taken from
  a rule leads to a black one, to the next on the path, or backwards along it,
  and in the last case a cycle was reported; so as long as nothing is reported
  the black rules are closed under edges and acyclic. A rule that turns black
  leads to black rules only, which keeps them acyclic; in the end all are black.
  Conversely a report needs a back edge, and the rules from its target on are a
  set in which every rule leads to one of the set.
* `WitnessesLeadOut`: `Spec => []WitnessLeadsOut`. The invariant (`KnuthInv`): a
  candidate on the heap is *justified* (`HeapJustified`) by the final nodes: its
  length and its steps are what one of these, or all of them for a
  concatenation, give it. Making a node final keeps that, since what is final
  keeps its cost; and a justified candidate has a final branch of its own length
  one step nearer, which is what makes `Branch` well defined and its choice lead
  out. Nothing is assumed of the order of the heap: that witnesses lead out does
  not rest on it, nor on lengths that are not cut off.

* `ReportsSound`: `Spec => []ReportsAreCycles`, and `KnotsReported`:
  `Spec => []EveryKnotReported` (`SearchTells` is both of the search alone). A report is
  the part of the gray path from the rule it came back to, turned so that its least
  rule comes first; what was reported already is not reported again. For the knots (`KnotInv`): call a rule
  *told* if it and the first rule of some report lead to each other. Every edge from a
  gray rule already followed leads to a black rule, to the next gray one, or its
  rule is told; a black rule is told or leads to black rules only; and in any
  set of black rules one is told or leads out of it. So the rules of a knot in which
  nothing is told could not all be black (`Knots`: a rule leads to itself exactly when
  there is a set no rule of which leads out altogether).
* `NullabilityExact`: `Spec => []NullableExact`. The sweeps only ever mark what has an empty
  derivation (`NullInv`); a sweep that marks nothing leaves a table closed under the
  rules for marking, which then holds every such node, since these are the least set so closed
  (`EmptiesLeast`). Sweeping backwards while reading what was just written
  marks at least what was marked and at most what one may mark, whatever its order.
* `RejectedExactly`: `Spec => []RejectedExact`. The first-graph's edges are what a walk may
  visit at the position it is at (`LeftInv` keeps that the graph searched is that
  graph), contracted to rules: a node leads back to itself exactly when a rule
  does, since a node's parts come after it in the arena and only references lead back.
* `RefusedExactly`: `Spec => []ReachExact`. What the sweeps name is met on a walk
  (`ReachInv`); at the fixpoint whoever leads to something named is named
  itself, so nobody who meets one goes without.

and, of the shortest matches and of lint:

* `LengthsExact`: `Spec => []ShortestExact`, and `FinalInOrder`: `Spec => InOrder`. One
  invariant (`OrderInv`) carries both, as in the textbook proof of the algorithm, but with
  saturation: no candidate comes before what is final (`InLine`); what is not final is a
  candidate at its cost or costs nothing yet (`Pending`), and costs no more than
  what is final gives it (`Relaxed`); behind a final cost there is a derivation of
  so many rounds as there are final nodes (`Backed`) and none shorter (`Best`). Steps are bounded by
  the same number (`Few`), which is why the largest `u32` can stand for *none yet*. That
  the order holds needs that what a node costs is no less than what it is made
  of (`saturating_add` and `saturating_mul` are monotone), and a step more where it is equal.
* `WitnessesBest`: `Spec => []WitnessBest` (`WitnessInv`): the witness was chosen among the branches
  final at the time; a branch that becomes final later does so at no lower cost, and at
  an equal length with more steps than the choice's own branch had.

* `WarnsExactly`: `LintSpec => []WarningsExact`. The invariant (`LintInv`): once compatibility is
  looked at every length is settled, so that `None` is *derives nothing* by
  `LengthsExact`; and what was answered is the answer (`Answer`) to some question that could be asked.
  A rule's warnings are those that are `Due`, in order, and the answer is these joined rule by rule
  (`FlattenFacts`). The rules the code reaches from the starts are the least set
  closed under references (`GrownIsHull`), which the property states by nodes met on walks: the two
  agree because core rules, which the code's search leaves out, never lead back to a
  user's rule. That a rule nobody mentions is warned of as unreachable, too, is by then a fact about walks:
  what is met is written somewhere in a user's rule.

Assumed there: `ArenaShape`, as the first state of `Analyses` has it: what
`BuildsSoundArena` gives, that nodes and rules are numbered from zero, and that there are
no more nodes than a `u32` counts and no literal longer than a `u64` counts.

`DescentProofs` and `SyntaxProofs` prove, for every text of the characters told apart, of any
length, and both readings of line endings:

* `ReadingIsExact`: `Spec => []ReadsExact`, the parser against the notation's own grammar.
* `CanonicalizationIsExact`: `Spec => []CanonicalExact`, for every `WordBound`.
* `PrintingReadsBack`: `Spec => []PrintsBack`, for every grammar that can be parsed, of any
  size and depth of nesting.

The trees. `Trees` are the elements by depth (`Built`); nothing is one but what is made of some
(`TreeInduction`), and functions over them are given by what they are for an element whose parts have
theirs (`TreeRecursion`). `Below(e)` is the least set with e that has the parts of all it has
(`BelowFacts`), so that `Canonicalize`, `Words` and what the printer writes, recursive functions on
it, satisfy their equations on all trees. Then, by induction: what canonicalization makes is normal
(`CanonicalizeNormal`), it leaves the normal as it is (`CanonicalizeOnce`), and it keeps the words of every
tree (`WordsKept`). The last rests on `Followed` being associative in spite of its bound, which is
what makes flattening (`SaidFlattened`) and unwrapping (`SaidUnwrap`) harmless, and on the
bounds (0, 1) and (1, 1) meaning an option and the body itself.

Recursive descent. `Finds(r, R, p, V, Ends)` is what is shown of each production: what the parser finds at
p is among the readings R that the grammar has there, and a reading that is followed by
a character of `Ends` is what the parser finds. So the parser may well read on where the grammar
could stop, as a name does in its middle, but not where what comes after could be
anything the grammar lets come after. For a number it says that the literal overflows just when its
digits come to too much (`MoreTells`: once it has, it stays so). For an element it is
shown assuming it of everything at greater positions (`Agrees`), and then for all positions from the last one
down (`DescentFinds`): of items and branches, the reading that ends where nothing follows the
whitespace that could go on (`ItemsEnd`, `BranchesEnd`) is the parser's.

The rule list. `ParserInv`: the definitions the parser has are what every reading of the text begins
with; precisely, the meanings of the readings of the whole text are those definitions followed by the
meanings of the readings of the rest. At a letter the next item is a rule and is read in one
way if the text can be read on after it (`RuleFacts`); at whitespace, a comment or a line ending it is a blank line,
and so far as the next that is none: no rule begins with whitespace, so the whitespace after a line ending
belongs to that line or is one of its own (`DeadLines`, `LineOver`); at anything else there is none.
The parser failing means there is no reading, so at the end there is one meaning or none.

Printing. That a printed text has the reading it was printed from is enough: by `ReadingIsExact` it has
one meaning, and a canonical grammar is its own (`OwnMeaning`). A piece of text *stands* at a position
(`Stands`), and what is shown of each thing written is that wherever it stands the grammar can
read it to its end as what it was written for: numbers digit by digit (`NumberBack`), leaves
(`LeafBack`), lists by taking elements onto the end (`ListsRead`), then elements from their
parts up (`ElementBack`). An element is written in three places, alone, in a sequence and under
bounds; a normal one that is written there without parentheses is of a kind that can be read
there as it stands, one with them is an element whatever it is (`EveryPlace`). Here normality is
needed: a choice in a choice would be written so as to be read as one. `GrammarBack` goes through
the lines, and `PrintInv` keeps, from printing to parsing, that the text is a printed grammar.

Parentheses. `Cost(e, where)` counts those opened in what is written for e. Canonicalization adds
none (`CanonCost`): dissolving a list into one of its kind, unwrapping a list of one and respelling
bounds put an element where it costs no more than where it was and its wrapper together. And in a
text each reading costs at most what the text opens there (`ThriftyEverywhere`, from the last
position down): an element in parentheses may need one pair more than what it encloses,
and the text has opened it (`EnclosedThrift`). Summed over the rules (`GrammarThrift`) the
printed form opens no more than any text of which it is the meaning; so none of its
pairs can be left out, alone or with others, nor replaced.

Assumed there: `ParserAssumption`, that texts are of the characters told apart (`CHAR`), and
`CharactersAssumption` and `SyntaxAssumption`, which say that a bound of numbers and one of words are numbers
and that none is not one. All are evaluated on the run.

`CommandLineProofs` proves, for every grammar, every number of commands and
files, and every interference:

* `ExitsExact`: `Spec => []ExitExact`. The invariant (`ExitInv`) says what has
  been found out before each stage is arrived at (`Passed`), and that what was met is
  what was listed and is not to be read any more, with the two flags summing
  it up (`Met`).
* `GeneratedPairs`: `Spec => []PairsWithMatch`. The invariant (`PairInv`): a `gen` at work has
  left its rule on every file up to its index, or somebody else has touched it since; and
  a `match` at work has listed every file that `gen` wrote and nobody touched, and of those it has got to it
  has read what is still there, or nothing (`Kept`). So where all that was listed is of its rule,
  and what is drawn from the rule is in its language, no input was rejected.

Assumed there: `CommandLineAssumption`, which types the constants.

Assumed by `RecognizerProofs`: `GrammarAssumption` (the arena is well formed, which is
what `BuildsSoundArena` gives) and `RecognizerAssumption` (the inputs fit, and
the start-rule gate admits only rules from whose bodies no prose is reachable, which is what
`compatibility` computes). Both are evaluated on every run.

The argument. Types alone are not inductive: that the callee of a frame is a
node, and that a return finds a frame to return to, needs to know what frames
there can be. `Inv` adds `GoodFrames` (each frame holds a composite node from
which no prose is reachable, with the branch counter inside its parts) and
`StackShape` (when a frame runs there is one, and between questions there is
none). Stack lemmas (`PushStack`, `ReplaceStack`, `PopStack`) reduce a step to
its effect on the top frame, and one lemma per group of actions
(`ClientKeepsInv`, `EnterKeepsInv`, `RunKeepsInv`, `RepeatKeepsInv`,
`ReturnKeepsInv`) gives `InvStep`. `NoProseMatched` is a conjunct of the same
invariant. `DepthCounted` needs one more: the depth counter was at most the
limit when the last frame was entered. `MarkersExact` needs `KeysOpenOnce`, that
no key is open twice, since completing or forgetting one must clear exactly one
marker; it holds because a reference with a marker is answered without a frame.
`FinishedIsKept` follows: what a frame writes on leaving is where its marker is.

Exactness. `Meanings` says that `Sem[text]` is a meaning of the grammar on the text
(`IsMeaning`: each node means what its parts make of it); nothing else is
assumed, and where the rules are left-recursive the answers that come at all
are exact for each such meaning. `ExactInv` says of every frame what it has
found by how far it got (`Sound`): an alternation the ends of the branches tried, a
concatenation what so many items reach from its start (`Reach`), a repetition
in its first phase what exactly so many rounds reach, and in its second what
between the minimum and so many more do, where the frontier need not be all that
is new but nothing new is to be had from the rest. The frames fit: each was
asked what the one below it calls (`Asked`), so a result that is what its call
means is what the frame below needs (`Due`). An error drops the claims about
frames (`Failing`), never those about the memo table, which is written only with
the result of a whole frame; that is why exactness survives limits. Leaving a
repetition needs that the two early exits change nothing: a round that reaches
just where it began settles all later ones (`AgainSettled`), and what is closed
under a round holds what any more of them reach (`AgainClosed`, `MoreIsAll`).

Without left recursion. `NoLeftRecursion` says that in every nonempty set of nodes
one leads to none of the set as what is matched first (`Foremost`: an item of a
concatenation counts once all before it can match nothing). The first-graph of
`check` has these edges and more, since a node it calls nullable may match
nothing on no input considered, and `CyclesRejected` with `AcceptsExact` says
that a grammar passes only if it has no cycle; the model instance checks the
hypothesis of its grammar (`Peeled`). From it alone: a match never ends before it
begins (`ForwardHolds`: take the last position from which some node falls back, and a
node that leads to no other such node). So on the stack every call begins where its frame did or
later, and where it begins just there it is foremost (`CallsLead`). A marker
met would be of a frame at the very same position, every call since it would be
foremost, and their nodes a set each of which leads into it: there is none
(`NoMarkerMet`). What is left are the limits. Bounded rounds need no counting of
sets: what one more round changes within the minimum lies as far ahead as
there were rounds (`SettlesFromTheLeft`), and a frontier beyond it moves on by a
position with each (`Ahead`).

Recursive functions. What a `LET` computes by a recursive function (derivations round
by round, closures of graphs, breadth-first search) is a `CHOOSE` of a function that satisfies its
equation, so the proofs show that there is one and that all such agree. `ProofSupport` does
this once for each form: iterations over numbers (`IterationExists`, `IterationUnique`),
growing a set to its hull (`HullIsGrown`, `GrownIsHull`) and loops that stop
(`LoopExists`); `ChainRests` bounds the rounds until nothing changes by the number
of nodes.

Only model-checked: liveness (every question answered, every call of the generator ending, and
the liveness half of the refinement), which is out of the prover's reach. Every invariant and
every action property that a passing run checks is a theorem.

## Not modelled

* Parsing of arguments, all output and its wording: `bin/abnf-oracle.rs` is
  modelled from the parsed command line to the exit code. A standard output that fails
  (`println!` panics) is left out.
* Entries of a directory that are no regular files. `match --dir` leaves them out of its listing without
  a word, and with them what it cannot look at (`is_file`, `bin/abnf-oracle.rs` 346); a file that
  vanishes between being listed and being looked at is for the model one that vanished before.
* Spans and `render_at` (`error.rs`), which only decorate messages. (`render_at`
  counts lines by LF alone.)
* The bit mixing of the RNG (`rng.rs`): every value it can return is considered.
* The text of the core rules (`core_rules.rs`), which is data, and `Display` of a
  `CheckedGrammar`, which prints the elements `Builder!ReadsBack` shows to be
  those of the `Grammar`.
* What names are made of: a name is a model value with a key, and
  the text of strings and prose a few characters.
* `lib.rs`, which re-exports, and the test and corpus scripts.

## State of the plan

Every component with logic of its own is modelled and checked, and every invariant and action
property is proved for all values of the constants. What stays with the model checker is liveness.
Parts that could be added are those named above as not modelled; none of them keeps state
that the modelled parts read.
