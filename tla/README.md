# Donsus, specified

Donsus is a compiler, written in C++, for a small typed language. One thread
reads a file, parses it, checks it, generates LLVM code from it, and calls the
system's linker. This directory holds TLA+ models of its phases, translated
from the source, the TLC configurations that check them on small instances, and
TLAPS proofs: about the symbol tables, on which every check depends; about the walk
of the semantic analysis, which uses them; about the lexer, about the recursion of
the parser, about where control goes in the generated code, and about the driver, on
which the files depend.

Paths are relative to the root of the repository's copy: `src/src/parser.cc` is
`src/parser.cc` of the repository.

## 1. The system

    main -> Du_Main -> DonsusParser --(donsus_lexer_next)--> lexer
                  |        |  builds
                  |        v
                  |      AST (tree, node) <----.
                  |                            | walks, and types
                  '-> DonsusSema::start_traverse -> tree::traverse
                             |  asks and fills       | per top-level node
                             v                       v
                      DonsusSymTable <-------- DonsusCodeGenerator -> object file -> Link

| component | state it keeps | operations | what makes it correct |
|---|---|---|---|
| lexer (`lexer.cc`) | position, line, column | `donsus_lexer_next`, with comments, strings, numbers, identifiers | every character is part of a token, a comment or an error; a token has the position it stands at |
| expression parser (`parser.cc`) | `cur_token`, the recursion | `donsus_expr`, `match_expressions`, calls, elements, unary, arguments | the tree has the precedences of the reference; no operand is lost; what must parse does; it ends |
| statement parser (`parser.cc`) | `cur_token`, the tree, `error_count` | `donsus_parse`, `donsus_statements` and one function per statement | every statement is in the tree or an error is reported; recovery ends |
| error reporting (`parser.cc`, `exception.*`) | `error_count` | `donsus_syntax_error`, `show_error` | counting only |
| AST (`ast/node.*`, `ast/tree.*`) | the nodes, `stack_assign`, `stack_visit` | `add_node`, `traverse`, `traverse_nodes`, `evaluate` | each node is collected, typed and checked, in an order the checks can rely on; the walk ends |
| symbol tables (`symbol_table.*`) | a tree of tables with links (`parent`) that look-ups rewrite | `add`, `add_symbol`, `add_sym_table`, `get`, `get_sym_table`, `get_sym_table_from_unqualified`, `setInst`, `setSym` | a name is looked up from the inside out; a look-up disturbs no later one; the loops end |
| semantic analysis (`sema.*`) | types on the nodes, `error_count` | `assign_type_to_node`, `donsus_sym`, the type checks | accepted programs obey the scoping, redefinition, return and type rules; a wrong one is reported and nothing crashes |
| type algebra (`type.*`, `parser_util.*`) | none | `operator==`, `from_parse`, `to_parse`, `make_type` | compatibility is symmetric; a token and its type agree |
| code generator (`codegen/*`) | blocks, insert point, `inst` and `array` of symbols | `compile`, with one `visit` for every kind of node, `Finish` | the blocks do what the statements say, or LLVM refuses them |
| driver (`runner.cc`, `main.cc`, `handle_file.cc`, `cli.h`) | `error_count`, `output.o`, `a.out` | `Du_Main`, `create_object_file`, `Link` | a program with an error reaches no file; what is run is what was compiled |
| arena (`utility/memory_alloc.*`) | `offset` | `allocate` | blocks are disjoint, aligned, inside |

What is hard here is not concurrency (a compilation has one thread; only two of
them in one directory meet, in their files) but state that is read
through something that changes it, and protocols nobody wrote down:

- a look-up in the symbol tables climbs by *assigning* `parent`, so its answers
  depend on every look-up before it;
- `evaluate` types nodes by popping a stack and checks them from a queue, and
  enters a node twice; a check must not read a type that is not final;
- each parsing function leaves a different token current, and its caller has to
  know which;
- loops that stop only at one kind of token, and error paths that consume
  nothing (does it end?);
- error paths that go on with a null handle;
- an elif, a store or a statement that one phase silently drops;
- a lexer that is run ahead and put back, where every field must be put back;
- one LLVM builder that every statement moves, and blocks that need exactly one
  terminator each;
- files of fixed names that outlive a failed, killed or parallel compilation.

The list, with the line at which each bites and the properties that cover it, is
in `PROJECT.json` under `hazards`.

## 2. Plan

In the order of what the rest depends on, all of it done:

1. **SymTable**, **Scopes**: the tables, and what they promise.
   **SymTableProofs**, **Least**: proofs of every property of theirs, the
   refinement of Scopes included.
2. **DonsusTypes**, **Sema**: the walk and the checks, on top of SymTable.
   **SemaProofs**: the walk keeps its types and uses the tables as
   they may be used; accepted programs obey the scoping rules. **SemaChecks**: what
   the walk does to the links, what it reports, and the returns of functions, so
   that all safety properties of the walk are proved.
3. **ExprParser**: precedence climbing.
4. **StmtParser**: statements, bodies and recovery, on top of the expressions:
   does a statement get lost, does parsing end.
   **ParserProofs**, of both: the recursion's discipline on any input.
5. **Lexer**: tokens, blanks, comments, positions and look-ahead.
   **LexerProofs**: positions, blanks and look-aheads of any text.
6. **Codegen**: the blocks the statements become, run against a reference
   semantics of the statements.
   **CodegenProofs**: control never leaves the code of an accepted module.
7. **Driver**, **DriverProofs**: the phases and their files, with kills and with
   compilations side by side; proofs of all its invariants.

Open, in the order of their worth: the laws of compatibility and of the conversions of DonsusTypes;
in Codegen, strings and the arrays of a function; the walk of Sema with the
generator's look-ups between its own.

## 3. Modules

### SymTable (`src/src/symbol_table.cc`, `src/Include/symbol_table.h`)

One action is one call of the public interface with the whole of its loop; the
state is the tables (`live`), their links (`parent`), their children in order
(`sym_table`, here `children`) and their symbols in order (`underlying`). A
qualified name is the sequence of its short names. `encl` is history: the tables
each one was created in; the code does not have it, properties need it. The loop
`while (parent) { if ..; parent = parent->parent; }` is `StopsAt`: the handles in
the least set that holds the start and is closed under following links, at which
it stops. It is a formula, not a recursion, so that TLAPS can use it and so that
"the loop ends" is something to check (`LoopsEnd`) and not assumed.
`sym::mod` is never initialised and yet tested against -1: it is any member of
`ModValues`. A null dereference sets `crashed`.

**Scopes** is what the tables promise, without links or loops: for every scope
and name, an answer that is a scope around the asker that declares the name; and
a look-up moves answers of the scopes inside its own only, and only outwards.
`ImplementsScopes` is the refinement (`declared` and `answer` are computed from
the tables).

**SymTableProofs** are the proofs. **Least** is what they and the lexer's share: least natural numbers, and the inductions that follow from
there being one.

### DonsusTypes and Sema (`type.*`, `sema.cc`, `ast/tree.cc`, `ast/node.*`)

`Sema` instantiates SymTable and adds the program (an AST by node numbers), the
two work containers of `evaluate`, the types on the nodes, and an agenda. The
agenda is the recursion: the calls that are still to be made, the next one first.
A handler is one action, except that each look-up it begins with (`LookUps`) is an
action of its own (`Ask`) that leaves its answer in `answers`, because what one
look-up does to the links the next one meets.
`Collect` is `traverse_nodes`; `Assign` is `assign_type_to_node` and `PopAssign`,
`Derive` the first loop of `evaluate`; `Visit` is `donsus_sym` and the second
loop. `resolved`, `assigned` and `home` are history: which table typed a name,
which nodes were typed, where a declaration was entered. `IsProgram` says what the
parser makes of a text without syntax errors: children where the handlers read
them, and no node in two places, but for the value that the definitions of
`a, b : int = v` share. Not in it: arrays, several return types, the interleaved
calls of the code generator (as in the project's own tests, which run the walk
without it).

An identifier's type and the flag of duplicates are read from whatever `get`
returned last, symbol or not (`LastRead`). A walk that is not `accepted` or
`rejected` ends in one of two other ways. `crashed`: a null table is dereferenced, a
call reads past a table's symbols, or it is of a function called like the global
table, whose empty list of return types is indexed (`TypeCall`). `thrown`: a message
cuts the line of its node out of the text, from `start_offset_ast`, and only then
counts its error; in a definition, a declaration and an operator nothing has set that
offset, so `substr` may throw, which nobody catches (`MessageThrows`). By then the
text of the message is out, but not the error in `error_count`.

**SemaProofs** and **SemaChecks** are the proofs; `Tab` in the first is the walk's tables with all that `SymTableProofs` proves of them.

### ExprParser (`parser.cc`)

The state is `cur_token` as a position in the input, the recursion (`calls`, the
innermost first, each with the line of code it is at, its `ptp` and its locals),
the result of the last call, and what the statement has collected. One action is
the code between two calls. The context (definition, printf, condition) is what
decides which token has to follow, and whether a loop calls `donsus_expr` again.
Operators are one per precedence (`<` 1, `+ -` 10, `*` 20). Inputs are token
strings; those written from a tree carry it, for the properties to compare.

### StmtParser (`parser.cc`)

On top of ExprParser, with its state: a statement's function is one more kind of
call on the stack, and `list` is the tree `donsus_parse` fills. An action is the
code between two calls; `Descend` calls a statement, `CallThen` an expression,
`Skip(n)` is n calls of `donsus_parser_next`. `BodyFn` numbers the tests of
`donsus_statements` in the order they are made, for each is made of whatever the
statement before it has left current: five before a token is passed over
(`BodyPasses`), two after. The outcome `crashed` is a null handle dereferenced,
`undefined` a function that runs off its end, or a call read as a declaration
through an unchecked cast, `thrown` a message of `donsus_variable_decl` that cuts
the text at the offset this function never stored, before the error is counted
(`VarThrows`; the other nodes messages are about have theirs); what happens then is
not followed further.
An uninitialised value (the precedence of a type's token, the type of several
variables declared without one) is any value. **ParserProofs** are the proofs
about both parsers.

### Lexer (`lexer.cc`, `Include/parser.h`, `DonsusParser::donsus_peek`)

The state is `donsus_lexer` (position, current character, line, column), the
parser's token, and the look-ahead it has taken. `Produce` is
one call of `donsus_lexer_next`: `ConsumeSpaces` first, then the case of the
switch that fits, one operator each (`PlusSigns`, `Dots`, `String`, `Number`,
`Name`, ...). `EatTo` moves position and column together; only the token of a
new line moves the line. `Peek` is `donsus_peek`: the lexer runs for real, and
what it was is put back (`Restored`). A read past the end of the text is
undefined in the code; the model stops there (`overrun`) and says nothing of
what follows.

The loop of `consume_spaces` over blanks and comments is the recursive function
`AfterSpaces`; what it is to skip is said apart from it (`BlanksEnd`). `MCLexer`
has the texts, and the lexemes of the language, which tokens are compared with.
**LexerProofs** are the proofs.

### Codegen (`codegen/codegen.cc`)

`todo` is the recursion of `compile`: the nodes that are still to be compiled,
the next one first, with the ends of the bodies between them (`Else`, `Merge`,
`FunctionEnd`). `blocks` is the module of LLVM, `insert` the builder's block,
`places`, `arrays` and `funs` what `setInst` and `setSym` leave in the symbols.
One action is one `visit`; of what an expression becomes, only its value, its
type and the call it makes are kept, because what goes wrong here is where code
lands, whether a block ends, and whether types fit. `last` is `last_if` and
`last_else`. Then `Finish` asks LLVM's verifier (`verifyModule`: every block ends
with its one terminator, operands are of the same function or global, types
fit), and an accepted module is run, an instruction at a time (`RunStore`, ...).
`Meaning` in `MCCodegen` is the reference: what the statements mean by the
language's documentation, one after the other. `Sound` says, of the program alone
and not of the generated code, which ones are translated right, and so draws
the line of what this generator can do. `Trees` are the statements programs are made
of; the proofs need of them that bodies, and the values of arrays, are sequences
(`ProgramAssumption`).

**CodegenProofs** are the proofs.

### Driver (`runner.cc`, `handle_file.cc`, `codegen.cc:106-206`)

`phase` is where `Du_Main` is, for each of several compilations that share a
directory; each file operation is an action of its own (`Open` empties
`output.o`, `Emit` writes it, `Link` makes `a.out`), and `Kill` may come between
any two. What a phase finds is chosen: errors or none, an exception, a module
that is whole, has unresolved names, or is refused. `made` and `disturbed` are
history.

## 4. Runs

| run | question | bounds, and why they are enough | result |
|---|---|---|---|
| `symtable` | Do the look-ups keep the tree usable, do their loops end, do the tables implement Scopes? | 4 tables, 5 tables and symbols together, 2 names, one of them the global table's. A link can be moved past a table only with three nested ones; four give siblings besides. | 79,927 states, all hold |
| `symtable_lexical` | Is `get` what its comment says, "this will propagate to other symbol tables"? | 3 calls | violated: after one failed look-up of a function, globals are gone from that scope |
| `sema` | Are accepted programs right, does the walk end, does it crash without a report, are the tables intact after a correct program? | 2,932 programs: up to 3 top-level statements out of 11, or a function with up to 2 out of 9 statements, with or without a parameter and a global of the name; and 14 with what look-ups do not expect: functions of one name, nested twice, in a block, or called like the global table, a value two definitions share, a call on the right of an assignment | 165,354 states, all hold |
| `sema_redefinition` | "Donsus doesn't allow redefinition of variables(ODR)" | the same programs | violated: a local variable may be defined twice |
| `expressions` | Do accepted expressions keep their tree and operands; which ones must be accepted; does the parser end? | 8,530 inputs: all trees with up to 4 operands over three precedences (5 over two), minimal and full parentheses, three statements; calls, elements and negations at every place among 4 operands; all strings of 4 tokens out of 7 and of 3 out of 14. A left and a right neighbour on both levels of nesting need 4 operands. | 101,239 states, all hold |
| `expression_precedence` | "The following table lists the precedence of operators" | the expressions with elements, calls and negations | violated: `1 + a[0] * 2` becomes `(1 + a[0]) * 2` |
| `statements` | Is every accepted program in the tree whole, are well-formed ones accepted, does every parse end, is a null handle met only after an error? | 4,954 inputs. 1,311 programs, a statement a line: every statement before and after others at the top, in every kind of body, and in bodies of two in a function, a loop and an if, with elif and else. A body's end and what it leaves current matter to the statement after it and to the body around it, so two levels and two neighbours show them. The rest: such programs with one token missing, a type replaced, or cut off. | 249,475 states, all hold |
| `statement_layout` | "Donsus is not a whitespace sensitive language" | the same programs, each on one line | violated: statements after an if on the same line are lost, or move into another body |
| `lexer` | Are tokens the longest lexemes, are blanks skipped, are lines and columns true, does a look-ahead come true, does every text end? | 5,020 texts, each with every look-ahead of up to three tokens (the longest of `parser.cc`): all texts of two characters, and longer ones, up to six, of the characters that make operators, comments, strings, numbers or words. No case looks more than two characters ahead. | 367,373 states, all hold; texts with an empty string or a star in a comment are excepted |
| `codegen` | Does a sound program do what it says; is every other one refused; does it end? | 2,304 programs. A function of a parameter, a local and a global, with up to two statements (ifs with and without else, with returning and other bodies, nested once; assignments, calls, prints) and a return; the main program with up to two statements out of 22; definitions between four types; what is used before it is there; arrays of three kinds. An insert point that is wrong shows at the next statement, so two after each other suffice. | 51,434 states, all hold: 511 programs sound, 1,450 refused, 230 thrown or undefined, 93 silently wrong, each of a kind that is listed |
| `codegen_elif` | "The elif block is executed if the if block evaluates to false and the elif expression evaluates to true" | 8 programs of the main block | violated: an elif's condition is not evaluated |
| `driver` | Can a program with an error reach a file; does a compilation run its own program? | 2 compilations, programs of up to 3 nodes, kills everywhere. Three compilations of two nodes were checked as well (17.9 million states); the proofs need no bound. | 200,802 states, all hold |

Every property of a passing run has a mutant in `PROJECT.json`: a slip in one
mapped definition (written next to it) with which TLC finds the property
violated.

A few properties are conditional, and the condition is the boundary of what the
code does: `LexicalWhileLinked` (until a look-up has moved a link),
`UsesResolveLexically` (functions of different names, at the top level, none called
`global`), `CrashIsReported` and `LinksSurvive` (`PlainFunctions`: different names,
none `global`, definitions nested at most once and declarations not at all; what they
speak of is the outcome `crashed`, not a message that is `thrown`),
`AcceptedUsesAreDeclared` (in returns and in calls that are statements),
`AcceptedTreesAreRight` (no element or negation in a left operand),
`NestedExpressionsParse` (operators bind tighter to the right),
`AcceptedProgramsAreWhole` and `ProgramsParse` (a statement a line; in bodies no
for loop, element assignment or several names in one declaration), `ParsingEnds`
(no parenthesis and no semicolon an expression waits for is missing),
`NothingElseIsSilent` (no elif, loop, definition of another type, element
assignment or print of nothing), `RunsItsOwnProgram` (the object file was written, and
nobody else touched a file since). Outside of
it the code does something else, which a violation run or a finding states.

**Fairness.** `Sema`, `ExprParser`, `StmtParser`, `Lexer` and `Codegen` have
weak fairness of the steps the compiler takes by itself: one thread runs it
and waits for nothing, so it goes on as long as it can; the programs of
`codegen` have no loops that run. SymTable has
none: it is a library, and nobody must call it. Driver has none, for a process
may be killed or wait for the linker, and it states no liveness.

**Deadlock** is not checked where a run ends on purpose: a crashed or full set of
tables, a finished walk or parse, an ended process.

## 5. Proofs

Checked by `tlapm`, for every value of the constants that the named assumptions
allow. `PROJECT.json` lists each theorem with the property it states.

### Symbol tables

Every property of the run `symtable` is a theorem, for any number of tables,
names, symbols and values (`HandleAssumption`, `NameAssumption`, `ModAssumption`,
`BoundAssumption` of SymTable).

First (`SymTableProofs`) `TypeCorrect`; `LinksAlwaysLeadOut`, that a link leads to a table
around its own, or nowhere, so that no look-up reaches a sibling's locals;
`LinksClimb`, that a call moves links outwards along links and revives none.
`LinksLeadOut` is not inductive: a climb follows links other look-ups have moved,
and one has to know that they lead out too and that "around" is transitive. The
invariant is `IInv == TypeOK /\ TreeOK /\ LinksLeadOut`, where `TreeOK` says that
the history `encl` is irreflexive and transitive. The heart is
`ClimbEndsOutside`: the tables around t are closed under following links, and a
loop stays in every closed set it starts in (the definition of `StopsAt`).

On top of these `LoopsAlwaysEnd`, that every loop over links stops, at one
table; `AnswersAlwaysDeclared`; `LexicalAsLongAsLinked`, that `get` is lexical
scoping until a look-up has moved a link; `GetKeepsGlobalsAlways`,
`GetIsAlwaysRepeatable`; and `Refinement`, `Spec => ImplementsScopes`: each step is
a step of Scopes or a stutter. The invariant is `ForestInv`: `IInv`, and that a
table's qualified name is longer than those of the tables around it
(`DeeperInside`), that tables not made yet are blank (`UnusedAreBlank`) and that the
global one has none around it (`RootIsOutermost`). The depth makes the links a
well-founded forest, before and after a step; so a set of tables has an outermost
member (`Outermost`), and every loop is reasoned about with the least
counterexample. (The library's induction theorems take an operator as a
parameter, which none of the provers can instantiate; `Least` derives what is
needed from `WFMin`.)

### Semantic analysis

For any programs the parser makes (`ProgramAssumption`: `IsProgram`), any number of
tables and any bound of them (`TableAssumption`).

`SemaProofs`: `SemaTypeCorrect`, `Spec => []TypeOK`, from `TypeInv`: a call is due only
of a node whose kind its handler is written for, with a table that is there; the
two stacks hold no function but top-level ones, and their tables are found when
`evaluate` enters them; the answers so far are those of the look-ups asked.
`WalkUsesTables`, `Spec => Tab!Spec`: every behaviour of the walk is one of the
symbol tables, with no operation called where it must not be. So what is proved of
the tables holds in the walk: `WalkKeepsTables`.

`SemaProofs` also proves three safety invariants, each from one of its own on top of
`TypeInv`, about the set of calls that are due:

- `GlobalsAlwaysUnique`: `GlobalsAreUnique`. `GlobalsInv`: everything is entered before
  the stacks are read (`PhasesInv`); each top-level variable is entered or about to
  be (`GlobalsEntered`); its check is still to come, or an error was counted, or
  its name is there once (`GlobalsChecked`). The check reads the flag of the last symbol
  of the name whether `get` calls it a symbol or not, so nothing is assumed of `mod`.
- `UsesAlwaysDeclared`: `AcceptedUsesAreDeclared`. `UsesInv`: with a statement that is
  typed everything below it is typed or due to be, through any depth of blocks,
  down to the look-ups of its names (`UsesReached`); and the four look-ups of a
  name agree with each other, though each may move a link (`UsesAnswered`).
- `NamesAlwaysLexical`: `UsesResolveLexically`. `LexInv`: every table but the global one
  is the home of one function and bears its name (`HomesApart`), nothing is
  entered twice (`EnteredOnce`) or resolved before everything is entered
  (`NoneResolved`); with unique names, `evaluate` finds a function's own table
  (`FoundHome`), calls are made with the table of the function they are in
  (`Outside`, `Placed`), and a name was resolved to that table if it declares it, and
  to the global one otherwise (`ResolvedIn`).

The last has the hypothesis `ModsShow`: no `mod` that the code left uninitialised
happens to be -1, which hides a symbol from look-ups. The run `sema` assumes as much
of `ModValues`; with -1 among them TLC finds `UsesResolveLexically` violated, a local
symbol being passed over for a global one, and the other properties still hold. No
other theorem about the walk has this hypothesis.

`SemaChecks` proves the other three, from two more invariants:

- `LinksAlwaysSurvive`: `LinksSurvive`, and `WalkCrashReported`: `CrashIsReported`, both
  from `LinksInv`. A look-up leaves the links alone if it starts next to the global
  table, and finds what it looks for if that is a function. So: every call is made
  with the global table or that of a function of the top level (`SeatsPlain`),
  though a table may lie deeper; everything is entered, and the table of a nested
  function is listed in that of the function around it, before anything is looked
  up (`AllEntered`, `NestedEntered`, `ChildrenInside`); and when the visit looks up the
  function of a call, which it does without asking whether there is one, an error
  was counted or the typing of the same call has found it (`CallsKnown`, `Visits`). A
  miss there is what cuts a link, and its null table is what `CheckCall` dereferences.
  The second property needs the first: with its links in place no look-up misses.
- `FunctionsAlwaysReturn`: `AcceptedFunctionsReturn`. The check of a function reads the
  types that its returns pushed; the property is about the types their operands end
  with. Nodes are typed again and again, so `ReturnsInv` says that what is due
  below a return of a function is still followed by its push (`PushesLast`), whence
  what was pushed last is what its operand has (`ReturnsTyped`); that the visit begins
  when no return is still to push, and from then on assigns only values
  (`VisitsOnly`), none of them below a return, by `PushesLast`; and
  that a function is still to be visited, or an error was counted, or its check
  found a return (`ReturnsChecked`).

### Lexer

For any texts, letters, digits, operators and keywords, and any depth of
look-ahead (`LexerAssumption`, `AlnumAssumption`): `LexerTypeCorrect`;
`LexerPositionsCorrect`, `LexerSpec => []PositionsAreTrue`; `LexerKeepsPeeks`, that
what `donsus_peek` says of the n-th token is what the n-th call gives;
`LexerSkipsBlanks`, that what is skipped before a token is blanks and whole
comments, all of them. Each loop stops at the first place of some sort (lemmas
`...Is`), the cases of the switch exclude each other (`ScansOneToken`), so that the
token made and the lexer after it are functions of the lexer before: this is what
makes a look-ahead come true. The invariants are `LexerInv` (inside the text, the
current character the one that is there, in the copy too), `PlacesInv` (that line
and column are true of the copy that is put back as well) and `PeekInv` (a promise
is what the calls from here will make).

### Parsers

`ParserProofs`, for any inputs (`InputAssumption`: a statement, and a string of
tokens), so also for those that are no programs: `ExprTypeCorrect` and
`ProgramTypeCorrect`, the type invariants of the two parsers; `CrashAlwaysReported`,
`ProgramSpec => []CrashIsReported`, that a null handle is dereferenced only after an
error has been reported; `ParserNeverTakesBack`, that no step unreads a token or takes
an error back.

The invariant of both is `ParserInv(bottom)`, where `bottom` is the outermost call, a
statement or `donsus_parse`. The type invariants are not inductive: a return makes the
next call on the stack the current one, so what is known of a call must be known
while it waits. `Waits` lists which function waits at which step for which other one,
and `StackOK` says that every two neighbours on the stack are in it, and that the
bottom is what it is; that nothing else is the bottom follows. A crash comes from a head
or a parameter that came back empty: `Expects` says that in the step after one, an empty
result has been reported. This holds because `donsus_function_decl` and
`donsus_variable_decl` report whatever they fail on.

There are dozens of actions, but only five ways in which a step changes the
stack (`Moves`): the innermost call goes on, calls, returns or stays, or the parse
is over. That each of them keeps the invariant is shown once (`MovesKeep`); the
actions are shown to be moves (`ExprMoves`, and one lemma per group of functions).

### Code generator

`CodegenProofs`, for any programs made of any statements (`ProgramAssumption`), the
ones that are translated wrong among them: `CodegenTypeCorrect`,
`CodegenSpec => []CodegenTypeOK`, and `AcceptedProgramsRunOn`, that a program LLVM accepts
always stands at an instruction that a visit emitted, and calls only what was
compiled. What goes wrong in a program that is not `Sound` but accepted is therefore what it
stores and prints, never where it runs.

That control stays inside needs two invariants (`CodegenInvariance`), one for each
of those who see to it:

- `CodeInv`, of the generator: branches go to blocks that are there, both ways of one to
  the same function, and a call is of a compiled function (`Instruction`); the end of
  an if's body, which is compiled after any number of other statements, has its own
  blocks (`ToCompile`). Blocks are only ever added and appended to, so what was true of
  an instruction stays true (`InstructionStays`, `EmitKeeps`, `GrowKeeps`).
- `RunInv`, of the verifier: once it has accepted the module, every block has one
  terminator, its last instruction, and branches stay in their function (`Checked`).
  So the instruction after one that is no terminator exists, a branch lands at the
  beginning of a block that is not empty, and a call is not the last instruction, so
  that the place it returns to exists. The verifier modelled looks at one way of a
  conditional branch; the other is in the same function by `CodeInv`.

### Driver

`DriverProofs` proves all invariants of the run `driver`, for any set of
compilations and any `MaxNodes` (`DriverAssumption`): `DriverTypeCorrect`,
`ErrorsReachNoFileCorrect`, `RunsItsOwnProgramCorrect`. The second needs `ErrorsInv`: a
compilation that has not opened its object file yet has touched nothing
(`Untouched`: phases `Early`), and one with errors stays there. The third needs
`Owns`: phase by phase, what the two files hold for a compilation that wrote its
object and was not disturbed, whatever the others do; another one's `Open`, `Emit`
or `Link` marks it disturbed, and no other step changes a file.

### Only model-checked

- Liveness, which is out of the prover's reach: `WalkEnds`,
  `NestedExpressionsParse`, `ParseEnds`, `ProgramsParse`, `ParsingEnds`,
  `EveryTextEnds`, `SoundProgramsExit`. (That the loops over links end is no
  liveness property here, and is proved.)
- What a recursive definition computes: that tokens are the longest lexemes, with
  the text of their strings (`TokensAreLexemes`), and the meaning of programs
  (`SoundProgramsDoWhatTheySay`, `NothingElseIsSilent`).
- Of the parsers, what is said of trees: that they are the ones the program was
  written from (`AcceptedTreesAreRight`, `AcceptedYield`, `AcceptedProgramsAreWhole`).
  The inputs of the runs carry their tree; for all inputs it would take an induction
  over data.
- `NoVariableIsRedefined` and the properties of the other violation runs do not hold.

## 6. Findings

`PROJECT.json` lists, with the lines, where the code and its documentation
disagree. The ones a run shows: look-ups that lose scopes, local variables that
may be redefined, operators after an element or a negation, statements on the
line of a closing brace, the elif that is an else. Met while modelling: parenthesised right operands that
are rejected (`2 * (3 + 4)`); `printf(a[0] + 1)` and `x = y z;`, on which the
parser never ends; `x = y = z;`, which is accepted as `x = y`; for loops in
functions, which the reference documents and the parser does not know; a missing
return type, which is undefined behaviour; comments that end at their first star
and empty strings that swallow text; void functions with one if, assignments to
globals in functions, and variables as arguments, all of which LLVM refuses;
loops without code; dropped stores; prints of nothing;
functions of one name, of which one has a function inside, functions nested
twice, functions in a top-level block and calls of a function named `global`,
where look-ups find another table or none, and the next call reads through it;
the arguments of a call on the right of an assignment in the body of a loop, which
nothing ever looks up; elements that are stored at index 0; an
object file whose failure nobody looks at.

## 7. Not modelled

- Of the code generator: arithmetic other than sums and comparisons other than `==`, strings,
  the formats of `printf` but for the empty ones, unary minus, several
  return types, arrays in functions (which generate nothing), LLVM's dominance
  check and its optimiser. The first are expressions without control; the programs
  of the run avoid the others.
- The look-ups the generator makes during the walk: Sema is checked as in the
  project's own tests, which run the walk without a generator.
- In Sema: arrays and several return types.
- The lexer's behaviour after a read past the end of the text, which is undefined.
- The linker, external and atomic, and the command lines of Windows; the header
  for macOS is empty.
- The arena of `utility/memory_alloc.*`: the tree calls `r_alloc`, which uses
  `new`; the arena is only called by its own test.
- The AST printer, the layout of error messages, terminal colours (vendored), and
  the headers of phases that do not exist yet: no state, or no use.
