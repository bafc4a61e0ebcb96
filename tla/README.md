# A verification project for the Refu compiler (refulangcore)

TLA+ models of the compiler in `src/`, checked by TLC on small instances, with
theorems proved by TLAPS for all instances. `PROJECT.json` maps every definition
that models code to the lines it stands for.

## 1. Inventory

The compiler is one process with one thread. Nothing is persisted between runs;
there are no messages and no timeouts. What is hard in it is state that is kept
in one place and used in another, later one: lists that are built in one order
and read in another, fields of a context that nested constructs overwrite,
speculative parsing that must undo exactly what it did, and recursion over
graphs that may be cyclic.

| component | state | operations | correct when |
|---|---|---|---|
| compiler driver (`compiler.c`, `front_ctx.c`, `main.c`) | `struct compiler`: fronts, modules in order of creation, modules in sorted order, the main front | `compiler_pass_args`, `compiler_process` and its phases | each phase finds what it needs from the ones before; every failure of the front end leaves a message |
| dependency sort (`compiler.c:216-309`) | marks, the sorted list, the call stack | `compiler_resolve_dependencies`, `compiler_visit_unmarked_module` | dependencies first; every module once; a cycle is reported iff there is one |
| modules (`module.c`) | AST node, front, dependencies, symbol table, types, RIR | create, determine dependencies, analyze | names are unique; an import resolves to the module of that name |
| input (`inpfile.c`, `inpstr.c`, `inplocation.c`) | text, cursor, offsets of the lines | move, skip white space, location of a pointer | every token's line and column are those of the text |
| lexer (`lexer/lexer.c`) | tokens, index, stack of marks, ownership of values | scan, next, lookahead, push, pop, rollback | every push meets one pop or rollback; a value has one owner |
| parser (`parser/`) | token position, error flag, tree under construction | one function per rule | a rule that fails leaves position, messages and ownership as it found them |
| messages (`info/`) | list of messages, stack of marks | add, push, pop, rollback, flush | a rollback removes what was added since its push |
| analyzer (`analyzer/`) | symbol tables with parents, types of nodes | first pass, type check, finalize | an identifier resolves to its innermost declaration; matches are exhaustive |
| types (`types/`) | sets of types per module, comparison context | create, compare, operations | comparison is reflexive, conversions only where allowed; equal types are shared |
| RIR (`ir/`) | `struct rir_ctx`: current function, current and next block, last assigned object; blocks and exits | `rir_process_*`, `rir_fndef_create_from_ast` | every block has an exit and is in its function; the RIR does what the source does |
| LLVM backend (`backend/`) | traversal context, maps from RIR to LLVM values | generate modules, blocks, link, write | each module is lowered before; blocks are found when connected |
| serializer, AST printer | - | print | disabled in the driver |
| command line (`compiler_args.c`), vendored `lib/argtable` | arguments | parse | - |

The driver calls everything else, phase by phase, for all fronts or all modules:
lexer and parser create modules as a side effect (`parser_acc_stmt`,
`parser_finalize_parsing`), the analyzer reads the symbol tables of a module's
dependencies, the lowering moves a module's types into its RIR and reads the RIR
of its dependencies, the backend links each module with the first one. The
hazards of each part, with the lines where they bite, are in `PROJECT.json`.

## 2. Plan

Done:

1. `DependencySort`, `BuildOrder` and their proofs.
2. `Compiler`, composing the driver with `DependencySort`.
3. `RirLowering` and `RirFunctions`: blocks and control flow.
4. `TokenStream` with its client `Speculation` and the proofs about it; on top of
   it all rules of the parser (`ParseTypes`, `ParseExpressions`, `ParseModules`,
   `Parser`), against the grammar of the headers (`Grammar`).
5. `Scopes`: symbol tables, the walks of the analyzer's first pass and of the type
   check, lookups through parents and imports; against `LexicalScoping`.
6. `TypeComparison` and `TypeChecks`: the comparison of types with the state it
   keeps between calls, and the checks that use it; against `Conversions`.
7. Match expressions, in the same two modules: when a case is useless, when a
   match covers its type, which case a value reaches.
8. `InputText` and `LexerScan`: positions, lines and columns, and the scanner of
   the lexer; against `LexicalGrammar`.
9. `RirExpressions`, `LlvmCode` and `RirValues`: the instructions and the values of
   functions without ifs, from the source to a run of what was compiled; against
   `SourceValues`.
10. `TypeStore`: the set of a module's types and the ways types get into it;
    against `TypeMeanings`.
11. `LexerScan` composed with `TokenStream`: what the scanner gives is what the
    parser's attempts read (`MCLexer`).
12. The proofs about `LexerScan`.
13. The proofs about `Compiler`, from those about the sort.
14. The proofs about `Scopes`: the current table is that of the scope around the
    visited node.
15. The proofs about `RirLowering`: the lists of the functions are closed, and the
    branches of an if go on behind it.
16. The proof that every block gets an exit, for functions like those of
    `MCRirFunctions`.
17. The proof that names mean their declarations, from the one about the walks.
18. The proof that the verdict on scopes is right (`VerdictIsRight` of
    `LexicalScoping`), from the one about names.

Left:

19. What section 7 lists of the type check and of the types.

No module with theorems reaches a RECURSIVE operator. `RirFunctions` (the
reference semantics of the source), the modules of the parser's rules and of the
RIR's expressions, which are mutually recursive, and those of the types, which
follow a type's structure, are for TLC only. `DependencySort`, `TokenStream`,
`Speculation`, `InputText`, `LexerScan`, `Compiler`, `Scopes` and `RirLowering` are
proved about.

## 3. The models

### ModuleGraph, BuildOrder, DependencySort

`ModuleGraph` holds what all graphs of modules have in common. `BuildOrder` is
the abstract promise: in one step, either some module all of whose dependencies
are placed is placed, or everything is placed and the verdict is "sorted", or the
verdict is "cycle" when there is one. `DependencySort` is the code: `scan` is the
`darray_foreach` of `compiler_resolve_dependencies()`, `stack` and `cursor` the
frames of the recursive `compiler_visit_unmarked_module()` with the position of
each frame's loop, `marks` the array of marks, `sorted` the list. `deps` may hold
a module twice (imports are not deduplicated) or the module itself.

`MCDependencySort` runs all graphs over three modules with at most two imports
each, and a family over four with the roots in the worst order. Three modules are
enough for self imports, two-cycles, three-cycles, diamonds closed from the scan
and repeated imports; the family over four adds a diamond below a chain.

### Compiler

One action per step of the driver. What is in the files is the variable `prog`,
chosen at the start and never changed. Lexing and parsing of one file either
succeed or end in a syntax error behind the modules that were already created;
analysis, lowering and generation of one module succeed or fail freely; only the
control between them is fixed, as in the code. `DependencySort` is an instance
whose variables are shared.

`MCCompiler`: two files, the standard library, up to five modules; the layouts
put `main` in the first file, in both or in none. Names collide with each other,
with "stdlib" and with "main"; imports are missing, repeated, cyclic, of oneself,
of the standard library and of the main module. Two files are enough for every
order of files and of parsing, and two further modules for every cycle through
`main`'s imports. To these come the programs of `test/analyzer/test_modules.c`
with up to seven modules, which must be sorted, or whose cycles
must be reported, as the tests expect (`AsTheTestsExpect`).

### RirLowering, RirFunctions

`RirLowering` is the lowering as a state machine: `current`, `next` and `assign`
are `ctx->current_block`, `ctx->next_block` and `ctx->last_assign_obj`; the C
recursion is the stack `work`. `RirFunctions` adds a run of the lowered function
in lockstep with a run of its source: both see the same outcomes of conditions,
and `RunsAsSource` says that they do the same calls, writes and decisions.

`MCRirFunctions` holds the functions for which the lowering is made: statements
in sequence out of calls, assignments (of values, operators, constructors,
conversions, matches), returns, `if` with `elif` and `else`, matches with two to
four cases, functions whose body is a match, and pairs of functions, because
`next` and `assign` survive from one function to the next. They are the functions
the end to end tests have: no `if`, match or conversion inside of a branch, a
return only at the end of a block, or with values and operators behind it, and an
`if` or a return somewhere behind a match.
`NestedIfs` are functions with an `if` in the `else` block of another one, for
the run `rir_nested_if`; what happens to the others is told in section 4.

### RirExpressions, LlvmCode, RirValues, SourceValues

A function without ifs, from its statements to a run of what became of them.
`RirExpressions` is `rir_process_ast_node()` with one operator per kind of
expression: which instructions are added, with which types, where a value is read
from its address and where it is converted. `LlvmCode` is the backend: the type
every RIR instruction gets in LLVM, whether it and its operands fit
(`TypeOfCode`), and what it computes on integers of a limited width (`Computes`).
`RirValues` is the state machine: a statement is lowered
(`LowerStatement`), an instruction is emitted (`EmitInstruction`), either may be
refused; what was compiled is run with an input, one instruction per action
(`Compute`, `StoreValue`, `CallFunction`, `TakeBranch`, `ReturnValue`).

What makes it hard is that the three sides agree by convention only: whether a
value is a number or an address is decided anew by each consumer, and the place of
a part in a sum is counted in four modules.

`SourceValues` reads the meaning of a function from its source, with numbers that
have no width, and keeps whether every number stayed within its type (`exact`).
`ComputesAsSource` says that a run makes the calls, with the values, and returns
the value that its source says, whenever it is exact. `RefusedForAReason` says that
a program is refused exactly if its source needs something the backend is known
not to have; `Hindered` lists these gaps.

`MCRir` has the integers of the source in 3, 4 and 5 bits, which is enough for
every overflow, truncation and change of sign between three widths; each operator
on six pairs of types and two types of results; conversions, calls, constructors,
members and matches of two objects and three sums; and the programs of
`test/end_to_end/test_end_to_end_basic.c` with smaller numbers. Every function is
run with every combination of the limits of its parameters' types and of what is
next to zero. It leaves out what section 4 tells of: matches with a single case, a
plain match behind an assigned call, match or constructor, arithmetic in the cases
of an assigned match, assignments inside of expressions.

`MCRir` puts the two halves of the RIR into one run. They share no state: a
behaviour lowers a module of `MCRirFunctions` or, where the module is empty, takes
one of the programs with values to its result.

### TokenStream, Speculation

`TokenStream` is the state every rule of the parser works on, as one record:
`tokens` and `pos` are `lex->tokens` and `lex->tok_index`, `marks` is
`lex->indices`, `owned` the tokens whose `value.owned_by_lexer` is set (a token's value, a
node of the tree or a string, is freed by the lexer as long as it is), `msgs`,
`msgNum` and `msgMarks` the list, the counter and the saved positions of
`struct info_ctx`, `err` its flag of syntax errors. Its operations map a record to
a record, so that rules can be composed of them: `NextToken`, `TakeValue`,
`PushMark`, `PopMark`, `Rollback`, `SyntaxError`, `PushMessages`, `PopMessages`,
`RollbackMessages`, `RollbackInfo`.

`Speculation` is the protocol by itself, with any client: it accepts tokens, takes
values, posts messages and nests attempts in any order. The history variables
`before` and `heard` remember what there was at each push that is still open, and
the properties say that a rollback restores it. The only condition on the client
is that it takes values of tokens it has consumed itself, under its innermost
mark (`TakeAccepted`).

Its instance is part of `MCLexer`: three texts with up to four tokens, with and
without values, two marks, two marks of messages and two messages. Two marks nest,
and two messages tell a rollback that removes the marked one from one that does
not. The theorems (section 6) do without bounds.

### ParseTypes, ParseExpressions, ParseModules, Parser

One operator per `parser_acc_*` function, named after it; it maps the state before
the call to the state after it, with the node (or `NULL`) in the field `node`, and
goes through every call, check, early return and `goto` in the order of the code.
A node keeps its kind, its location (the first and last token) and its children,
which is what the properties tell apart. A read of the token behind the last one
sets `crashed`: `lexer_lookahead()` returns `NULL` there.

`Parser` is the state machine above the rules: `parser_parse_file()` with one step
per outermost statement, and, for a goal other than a file, one call of a rule, as
the tests of the parser do it. It is parameterised by the rules: its constant
operator `Acc` gets the value `AccRule` of `ParseModules` in the configurations.

### Grammar, ParserCorrectness

`Grammar` is the language as the comments of the headers give it, and says which
sequences of tokens a symbol derives; it knows no lookahead, marks or messages. Its
head names the places where the comments are incomplete and the tests decide.
`ParserCorrectness` relates the two: what is accepted without a message is derived
(`AcceptedIsDerivable`), what is derived is accepted to its end and without one
(`DerivableIsAccepted`), operands bind as tight as they should, locations nest, and
every statement takes tokens with it. `RulesCleanUp` has three parts: a failure
without a message leaves no trace (`SilenceIsFree`, which is what lets the caller
try another rule), marks are balanced, and values have one owner.

The inputs are all sequences up to four tokens (`MaxTokens`) over the tokens of
types and of expressions, and sentences with every edit of them (`Edits`: each
beginning, each token left out, replaced by or preceded by each token of an
alphabet). Four tokens are enough for every pair of operators and for every attempt
to begin and to fail; the sentences, up to twenty tokens long, hold each construct
once with something behind it, and an edit is what makes a rule fail at each of its
steps.

To these come the inputs of `test/parser`, which must be accepted
or rejected as the tests expect, with as many messages (`AsTheTestsExpect`). All
properties are checked on all inputs by the one run `parser`.

No input is taken out. Where the parser does not keep a promise (section 4), the
property says of which texts it is not claimed, and the others are checked on them
all the same:

- `HasDisputedComparison`: `DerivableIsAccepted` is not claimed of a text with a
  comparison that may be read as the beginning of generic attributes;
- `EndsBehindDeclaration`: of a text that ends behind a function's declaration
  neither `AcceptedIsDerivable` nor what `RulesCleanUp` says of silent failures and
  of the values that were consumed;
- `HasSingleCase`: `LocationsNest` is not claimed of a function whose body is a
  single case;
- `BodylessMatches`: every match without a body leaves one mark behind, which
  `MarksAreBalanced` counts, and `SilenceIsFree` is not claimed of a text with one;
- `LosesAttempt`: if a call with generic attributes fails behind such a match in its
  arguments, tokens are lost, and `AcceptedIsDerivable`, the count of marks and the
  owner of what was consumed are not claimed.

`AcceptedIsDerivable`, `LocationsNest` and `PrecedenceIsKept` are about parses without
a message.

### Scopes, LexicalScoping

`Scopes` is the analyzer as far as symbol tables go. A program is a forest of
nodes in preorder, of the kinds that have a table, declare a name or use one;
`IsProgram` says which forests the parser makes and in which order the sort gives
their modules. Below what a type description describes there is nothing else, and
below a declaration of a function or a type there are only descriptions and
comments, which have no node here. The model leaves out a file with a main function that has modules, too,
which is refused; what stands beside the modules of other files, which is not
analyzed; and a declared type with the name of a module, which an importer does not
see (`symbol_table.c:318`). An
action is one callback of a traversal: going down into a node in the first pass
(`EnterBlock`, `EnterModule`, `EnterFndecl`, ..., which create tables and add
records, or `RefuseNode`, which posts an error), going up again (`Ascend`), and
the same two directions in the type check (`Descend`, `CheckNode`). `current` is
`ctx->current_st`, `parents` is `ctx->parent_nodes`, `tables` all symbol tables
with `outer` (`parent`), `mod` and `fndecl`. What makes it hard is that the
current table is never derived from the node: two callbacks move it, each skips
some kinds of nodes, and two kinds (`Borrowers`) use the table of their first
child.

`LexicalScoping` says from the tree alone which scope surrounds a node and which
declaration a name means. `ScopesAreLexical` compares the current table with it at
every step of both walks, and with it the function a return leaves,
`NamesMeanTheirDeclaration` every lookup of the type check and, of every symbol
whose type is written with the name of a declared one, the declaration it points
to, and `VerdictIsRight` says that exactly the programs
with well-formed scopes get through.

`MCScopes` has functions with every pair of seventeen statements below five lists of
arguments, every pair of twelve declarations around, and a library with one or two
modules that import it, directly, through another or not at all, before or behind
it in their file. A statement
nests at most three scopes; two statements are enough for a declaration before and
behind its use and for two of one name.

What the reference takes over from the code, because the code has no other
promise: names at the top level of a main file do not see imports, as the root's
table has no module (`symbol_table.c:170`, `314`); no function may have the name of
a visible function; the type of an argument is one that is known outside of the
function. The name of a variable can stand for its type, too. The symbol declared
with it then points to whatever the name of that type means where the symbol
stands, which need not be that type's declaration (`symbol_table.c:66-73`); such
symbols are in the programs, and nothing is said of where they point.

### TypeComparison, TypeChecks, Conversions

`TypeComparison` is `type_compare()` with everything it calls. The comparison keeps
its side results in one record of the thread (`g_typecmp_ctx`: flags, matched type,
whether it converted, pending warnings), so every operator takes that record and
hands the next one on. `TypeChecks` is what calls it: one action per assignment,
call, explicit conversion, return, operation; and, for matches, `EnterMatch`,
`CheckCase` and `LeaveMatch` with the record `ctx->matching_ctx`, of which there is
one however deep matches are nested. An operation or a conversion may be the operand
of the check behind it (`Expressions`), with the type it was given: with two
elementary operands that of a variable, else one of the two types as it is, also if
it is that of a literal. Behind a match it follows the index each
case gets to the case that runs (`CaseIndices`, `CaseTaken`).

`Conversions` is the reference: which type fits which (`Fits`), which warnings a
conversion is due (`Due`), and which values a pattern covers (`Covers`).
`VerdictIsRight` relates each check to it whatever came before, `ExactOperandWins`
the operand a sum's constructor takes, `AssignmentsWarn` the warnings,
`MatchesAreDecided` exhaustiveness and uselessness, `ValuesReachTheirCase` an
accepted match with what its code does.

`MCTypeChecks` has elementary types of each kind, sign and of two widths, literals,
definitions, products and sums, also in one another. Bodies have two statements,
which is enough for one check to leave something to the next, or up to four cases
with one match inside of another: one more than the largest target has parts. The
comparisons of `test/types/test_types.c` are the assumption `TypeTestsPass`.

The reference is drawn around what the code does and no comment denies: the type
of an operand that is itself a product or a sum may forget that it was converted;
a wildcard stands for one value and does not match a product; only matches of flat
sums are compared with `Covers`, because the parts of a sum inside of a product are
flattened, so that `(A,C),(B,D)` counts as exhaustive for `(A|B),(C|D)`; in
`ValuesReachTheirCase` every case but the last covers one operand, as a case gets
one index.

### TypeStore, TypeMeanings

`TypeStore` is how a module comes to have its types. `store` holds the operators
that were created (`types`, whose operands may still grow), the set of the module
(`set`, where a type is found under the name it had when it was added), and the
stack of operators under construction (`creating`, `struct type_creation_ctx`). One
action is the visit of one statement: in the first pass a declaration gets its type
and the symbols of its descriptions are looked up (`DeclareType`,
`DeclareVariable`, `DeclareFunction`, `PassPattern`), in the type check the
descriptions are visited again from below (`CheckDescription`, `CheckPattern`), and
commas and matches with several results get a type (`CheckOperation`).

What makes it hard is `Describes`: a description is not compared with a type but
gone through together with it (`ast_type_traversal.c`), with one operator and a path
of indices as its memory, and the first type of the set for which that works is
taken. The set is ordered by hashes; the model goes through it in either direction.

`TypeMeanings` reads from the text what the types are, with parts of the same
operator dissolved. `TypesSayWhatTheyMean` says that every declaration, pattern and
operation has that type, then and at every later step, and that what means the same
shares one type. It is claimed of modules in which no type is mistaken for another
in one of the ways the code is known to have; `Distinct` excludes these, and each of
its five parts is needed:

- no two types have the same name (`type_str()` writes no parentheses);
- what a description asks for begins no other type: operators are not compared and
  further operands are not noticed (the finding `type_equality`);
- nor does what its parentheses ask for begin a type of another statement;
- the types an operation goes through while it gets longer are no other statement's;
- no operation has an operand of its own operator that is another statement's, as
  that type gets longer in place (`type.c:285`).

`MCTypeStore` has modules of three statements: a declaration, a declaration or use,
and a use, over descriptions that nest each operator in the other, on either side,
with and without parentheses, and that repeat and begin one another. Three are
enough for a type that is made by one statement, changed or hidden by the next and
looked up by the third. `MCTypes` puts this and `MCTypeChecks` into one run; the two
share no state, and a behaviour is one of either.

### InputText, LexerScan, LexicalGrammar

`InputText` is the text of a file: the start of each line, the line and column of
a position, and the file's own cursor, which moves over blanks and lexemes and
counts lines. `LexerScan` is `lexer_scan()`, one action per kind of turn of its
loop. `file` is the cursor, `atEof` the flag that a lexeme which ends the text
sets, because it leaves its last character ahead.

`LexicalGrammar` reads a text as the longest lexemes it has from left to right, and
says nothing of cursors or characters ahead. `TokensAreTheText` compares kinds,
extents, lines and columns of all tokens and where a scan fails. `PositionIsKept`
is about the cursor: it stays in the text, its count of lines is the number of
newlines in front of it, and the tokens are in order behind it.

`MCLexer` has all texts up to four or five characters over four alphabets: words,
numbers and signs; symbols; words over lines; strings, escapes and comments over
lines. Each kind of lexeme appears first, last, alone, next to each other kind and
cut off. Deadlock is checked: a scan always comes to an end. The conversions of
the C library are external: they take the longest prefix that is a number.
Texts whose last line is a comment are not compared, and of numbers that run into
a float only the extent is (section 4).

`MCLexer` composes the two halves of the lexer, too: when one of the texts in
`ReadOn` is scanned, `BeginReading` gives its tokens to the stream that the attempts
of `Speculation` work on, as `front_ctx_parse()` does. Other texts end with the scan,
so that the number of attempts is not multiplied by that of the texts.

### The runs

| run | module | what it shows |
|---|---|---|
| `dependency_sort` | `MCDependencySort` | Over all graphs of up to three modules, with repeated imports and self imports, the two-mark depth first search yields a complete build order or finds a real cycle, refines the abstract BuildOrder, and ends: `TypeOK`, `DependenciesFirst`, `SortedIsComplete`, `VerdictIsRight`, `ImplementsBuildOrder`, `Resolves` |
| `compiler` | `MCCompiler` | Whatever is in the files and in whatever order they are given, every phase of a compilation meets what the phases before it have left, failures of the front end are reported; the programs of test/analyzer/test_modules.c are sorted, or their cycles reported, as these tests expect: `FrontsKeepTheirPlaces`, `ImportsAreUnambiguous`, `ImportsAreReady`, `GeneratedWasLowered`, `FrontEndFailureIsReported`, `AsTheTestsExpect` |
| `rir_functions` | `MCRir` | Within the class of functions that the lowering is made for, all blocks are connected and in their function, and the RIR does what the source does for every outcome of the conditions; a function without ifs is compiled unless it needs something the backend is known not to have, and what was compiled computes, calls and returns what the source says for every input whose numbers fit their types: `FunctionsAreClosed`, `BranchesJoinBehindTheirIf`, `RunsAsSource`, `RefusedForAReason`, `ComputesAsSource`, `RunsEnd` |
| `compiler_assert` (expected to fail) | `MCCompiler` | A main module that imports another module and calls a function of another module meets an assertion that its first dependency is the standard library; the driver adds the standard library last: `AssertionHolds` |
| `rir_nested_if` (expected to fail) | `MCRirFunctions` | With an if in the else block of another one, the taken block of the outer if is connected to the block behind the inner one: `BranchesJoinBehindTheirIf` |
| `parser` | `MCParser` | Every rule of the parser accepts the language of its grammar and builds the tree the precedence asks for, and however a parse ends, marks, ownership of values and locations are in order: on all short sequences of tokens, on every edit of longer sentences and on the inputs of the tests in src/test/parser, which end as these tests expect: `AcceptedIsDerivable`, `DerivableIsAccepted`, `RulesCleanUp`, `LocationsNest`, `PrecedenceIsKept`, `StatementsAdvance`, `AsTheTestsExpect` |
| `scopes` | `MCScopes` | Over small programs with every pair of statements or declarations, in a main file and in several modules: the current symbol table is that of the scope around the visited node in both walks, lookups find the innermost declaration, and exactly the programs with well-formed scopes are accepted: `ScopesAreLexical`, `NamesMeanTheirDeclaration`, `VerdictIsRight` |
| `types` | `MCTypes` | Over every sequence of two assignments, calls, conversions, returns and operations, and every match of up to four cases with one nested in it: types are accepted that fit, warnings are given for what is lost, accepted matches are exhaustive and send every value to a case for it. Over every module of three statements, with the set of types gone through in either direction: unless one of its types is mistaken for another in one of the known ways, every declaration, pattern and operation has the type its text says, and equal ones share it: `VerdictIsRight`, `ExactOperandWins`, `AssignmentsWarn`, `MatchesAreDecided`, `ValuesReachTheirCase`, `TypesSayWhatTheyMean` |
| `types_leaked_flag` (expected to fail) | `MCTypeChecks` | A return checked behind a call is checked with the flag of the call: a sum is returned where one of its operands was declared: `ReturnsAreNotCalls` |
| `match_nested` (expected to fail) | `MCTypeChecks` | A match in the case of another one empties the record of both, and the case around it is reported useless: `UselessMeansUseless` |
| `type_equality` (expected to fail) | `MCTypeStore` | A variable whose description says `(a, b)` gets the type `a\|b` of an earlier one: the lookup compares the operands and not the operator: `DescribedIsMeant` |
| `lexer` | `MCLexer` | Over all texts of up to five characters of four alphabets: the scanner gives the longest lexemes of the text, each at its line and column, fails at what is no lexeme, and the file's own position and line count keep up with it. Whatever the parser then does with the tokens between a push and its rollback, nested attempts included, the stream and the messages end up as they were: `TokensAreTheText`, `PositionIsKept`, `TypeOK`, `AttemptsAreSound`, `AttemptLeavesNoTrace`, `QuietAttemptIsQuiet` |

The passing runs fire every action of their specifications. Each property is
violated by a plausible bug in a definition that it depends on; those are the
definitions with a suffix, such as `AddFront_AtTail`, listed under "mutants" in
`PROJECT.json`.

## 4. Findings

- `compiler_assert`: `rir.c:464` asserts that a module's first dependency is the
  standard library; `module.c:232-241` adds it last. A main file that imports a
  module and calls a function outside of itself aborts.
- `rir_nested_if`: `ctx->next_block` is overwritten by an `if` inside of a branch.
- `types_leaked_flag`: the flag a call sets for its comparison is never reset,
  because the count that guards the reset (`type_comparisons.c:63`) only grows. A
  return behind a call is checked like an argument.
- `match_nested`: a match inside of a case empties the record of the match around
  it; the case is then reported as useless (`typecheck_matchexpr.c:74`, `277`).
- `type_equality`: when a description is looked up among the types a module has,
  the operator of a type is not compared with that of the description
  (`ast_type_traversal.c:139`), and nobody asks whether the type has operands left.
  After `type foo {a:i8 | b:u8}`, `(i8, u8)` is found in the sum; `(i8, u8)` is found
  in a function from `i8` to `u8`, and `a, b` in `a, b, c`. Which type is taken
  depends on the hashes of what else there is.

The models do what the code does in the following cases, too, for which there is
no run.

RIR: the block behind a match at the end of a function or of a branch never gets an
exit (`rir_process_match.c:212`); `ctx->last_assign_obj` stays set behind an
assigned match, constructor or call, so that a later match writes to that variable
(`rir_binaryop.c:246`); the result of a plain call is never written to the variable
it is assigned to (`rir_binaryop.c:243`; `MCRirFunctions` assigns no calls);
calls and writes behind a `return` are executed, and an `if` behind one replaces
its exit (`rir_process.c:47`).

Values: two integers are computed with in the smaller of their types
(`rir_binaryop.c:61-65`), although the type check gives the operation the larger
one (`typecheck.c:74`); a negative number that is made wider is filled up with
zeros (`llvm_conversion.c:27`), and signed numbers are divided and ordered as
unsigned ones (`llvm_operators.c:71`, `105`, with a TODO at `31`); an integer that
is assigned to a float of its size keeps its bits and not its value; strings are
compared by their addresses; a case with two symbols of one type reads the first
part for both (`rir_process_match.c:18`); a part of a sum that cannot be filled in
is only logged (`rir_call.c:183`); a parameter as operand of a unary operator, of
an explicit conversion, of a call or of a constructor meets the assertion that it
is an address (`rir_process.h:47`). In these cases no value is compared, as the
source has no other meaning to compare it with, or the program is expected to be
refused.

Parser: a match without a body is returned with the lexer's mark still pushed, and
the next rollback goes to the wrong place (`matchexpr.c:102`): in
`{a = match b f<i8>(match c}` the call that is never closed is given up, the rollback
stops at its `match` instead of `f`, and the block is accepted without a message, as
`a = match b`, `f` and `c`; a comment there says that such a match "can only appear inside
another match expression" (`matchexpr.c:101`), which nobody checks; `foo(a < b, 15)` is
rejected, because reading `< b, 15` as generic attributes posts an error although
none are expected; `parser_acc_fnimpl()` fails without a message and without giving
the declaration back if nothing is behind it (`function.c:160`); the end of the
location of a match without a header and with a single case is a variable that is
never set (`matchexpr.c:143`); a block ends at an element that fails, and the file
is accepted although a message was posted; `parser_acc_ifexpr()` accepts branches
behind an `else` (`ifexpr.c:86`); a function declaration among the statements of a
module is taken for an implementation (`module.c:78`); three rules read the token
behind the last one (`type.c:68`, `expression.c:282`, `generics.c:112`), which ends
in the outcome "crashed".

Scopes: a match on an identifier that is not declared compares with no type at all
(`typecheck_matchexpr.c:80`), the phase "crashed"; a function with the name of
another symbol of its own scope is refused without a message
(`symbol_table.c:198`); a callback that fails on the way down makes the traversal
return false, which reads as `TRAVERSAL_CB_OK` (`ast_utils.c:78`).

Types: an assignment posts all warnings that wait, if any was ever given since the
last reset: `typecmp_ctx_have_warning()` asks whether the text of the warnings is
empty, reading them does not empty it, and there is no reset any more once the count
stays above zero, so that warnings of calls, returns, operations and refused
assignments are posted by the next assignment that is accepted, at its place, whether
or not it has one of its own; an operation of a value of a defined type and a literal
can have the type of the literal (`typecheck.c:94-97`), although `is_constant` tells
"if this is a type of a constant literal" (`type_decls.h:54`): with `type count {n:i64}`
and `c` of that type, `c + 300` has the type of the literal `300`, and assigning it to
an `i8` is refused as "larger constant", where a variable of that size gives a warning;
a return compares the declared type to the
found one, not the found one to the declared; the type of a call's parameters is
whatever a comparison matched last; a match of a type that is not a sum is always
"useless"; a duplicate case in front of the last part is accepted by the type check
and refused with "Should never happen" when the cases get their indices
(`ast/matchexpr.c:142`).

Types of a module: the comma `x, c` and a match with several results append to the
type of their left operand in place (`type.c:285`), so that the declared type of `x`,
if it has no name, and every other node with that type change, and the set keeps it
under its old hash; with `x` on both sides (`f(x, x)`) the type contains itself, and
writing its name does not end. Two different types with one name (`i8,string|f32`
with and without parentheses) are both in the set, and what looks types up by name
takes the first.

Lexer: the last character of a comment that ends a file without a newline is
scanned as a token (`lexer.c:201`); in `f(1,2.5)` the integer is scanned as a float
(`lexer.c:268`); `!` as the last character of a file makes the lookup of two
characters read behind the text (the texts of the run have none).

## 5. Fairness

The process is single threaded and every loop is bounded by its input, so the
only assumption is weak fairness of the whole step relation: the program does not
stop between two instructions. No fairness between alternatives is assumed. In
`RirFunctions` the choice to run a function again (`Run`) is not fair, the steps
within a run are; the half of `MCRir` that has values has no fairness, as only its
safety is checked.

The specifications of the parser, of `Speculation`, `Scopes`, `TypeChecks`,
`TypeStore` and `LexerScan` state no fairness: what is checked of them is safety; that every
statement of a file consumes something, from which the end of the loop over a file
follows; and, of `Scopes` and `LexerScan`, that no state but the last is without a
successor.

## 6. Proofs

`DependencySort_proofs` proves, for every set of modules, every graph over it and
every order of creation, type correctness, the inductive invariant `SearchInv`,
`DependenciesFirst`, `SortedIsComplete`, `VerdictIsRight` and the refinement of
`BuildOrder`. The assumptions are `GraphsAssumption` (a graph lists modules
without repetition and their dependencies are among them) and that the sentinel
is no module. None of the safety properties is inductive by itself: that a module
with a temporary mark closes a cycle needs the stack to be a path of the graph
whose members are exactly the modules with that mark, that a finished module's
dependencies are placed needs every frame's cursor to be behind only marked
modules, and that success means completeness needs the second scan to have found
no unmarked module. These are the conjuncts of `SearchInv` and of the type
invariant.

`Speculation_proofs` proves, for every set of texts and any bounds, that the
inductive invariant `IInv` holds, and from it type correctness, `MarksAreInOrder`
(the assertion of `lexer_rollback()`), `UnreadIsOwned`, `TakenInAttempt`,
`MessagesAreInOrder`, `AttemptLeavesNoTrace` and `QuietAttemptIsQuiet`. (The run
checks the first three as one invariant, `AttemptsAreSound`.) The two
action properties need the invariant: that a rollback by position gives back what
the attempt took, and only that, holds because what was taken since a mark lies
behind it (`TakenInAttempt`), which after an inner rollback is true of the outer
mark only because the marks are in order; that a rollback of messages stops at the
right one, which the code finds by its address, holds because the messages present
at the push are still a prefix of the list and their numbers increase
(`MessagesAreInOrder`). The assumptions are that texts are sequences of tokens and
the bounds natural numbers.

`LexerScan_proofs` proves, for every text and every table of keywords, the inductive
invariant `ScanInv` and from it `PositionIsKept`. The only assumption is that a text
is a sequence of characters. The property is not inductive by itself: that the
cursor stays in the text needs the characters ahead of each kind of lexeme to be in
it (a sign has a digit behind it, `//` its second slash, a symbol of two characters
both); that tokens are in order needs every token to be behind the cursor until the
end of the text is reached, where one character is left ahead on purpose. That the
lines add up rests on counting newlines in pieces (`NewlinesAdd`), and that a move
by no characters, which the code counts as one to the end, only happens at the last
one and not on a newline (`MovedFacts`). What the lexemes are is not proved: it is
compared with `LexicalGrammar` by the run.

`Compiler_proofs` proves, for every set of files, modules and names and every
compilation that may be started with them (`IsProgram`), the inductive invariant
`DriverInv` of the driver and from it `FrontsKeepTheirPlaces`,
`ImportsAreUnambiguous`, `ImportsAreReady`, `GeneratedWasLowered` and the action
property `FrontEndFailureIsReported`. The assumptions are `ProgramsAssumption` (what
files may contain: no module is of two files, root nodes are called main, the
library's file has one module without imports) and `SentinelsAssumption`. None of the
properties is inductive by itself:

- That the first module is the library's and the last one the root of the first file
  needs the list of fronts to be the command line from its end
  (`FrontsAreTheArguments`) and every module to be of a front already parsed
  (`ModulesAreOfTheirFiles`), which also makes the list one without repetitions.
- That imports are unambiguous needs what is found by name to have that name still
  (`DependsOnRequested`) and all names to differ once the last module is passed
  (`NamesDiffer`): `compiler_module_get()` takes the first of a name
  (`FirstPosition`), and only the loop that runs after it knows that there
  is no other.
- That imports are ready is the meeting of the sort with the phases: the loops go
  along the sorted list (`StagesAlong`), and in it dependencies are first. The sort
  is not proved again. Its actions and its invariant are those of `DependencySort`
  with the driver's variables, so `FreshSearch` and `StepSearch` of
  `DependencySort_proofs` are cited through an instance of that module
  (`SortBegins`, `SortGoesOn`); they do not depend on where the graph comes from.
- That generation finds every module lowered needs the list in order of creation and
  the sorted one to have the same members (`SortedIsComplete`).
- That failures are reported needs the library to be among the modules when a main
  module asks for it.

`AssertionHolds` is not among them: the code violates it (section 4).

`Scopes_proofs` proves, for every set of programs, with any number of files, modules
and nodes, first the inductive invariant `WalkInv` of the walks and from it
`ScopesAreLexical`, then the inductive invariant `NamesInv` and from it
`NamesMeanTheirDeclaration`, then the inductive invariant `VerdictInv` and from it
`VerdictIsRight`. The only assumption is `ProgramsAssumption`, that all
programs are such as `IsProgram` says: nodes are in preorder; modules are below
files; a function's declaration, a case's pattern and a variable's symbol, and only
they, are first children; nothing but descriptions is below declarations, and nothing
but leaves and names below descriptions; modules are analyzed once, after those they import; and
what `Scopes` leaves out (section 3). TLC evaluates it for the programs of the run.

`ScopesAreLexical` is not inductive by itself:

- That the table given back on the way up is that of the scope around the node needs
  every table between the module and the next node to be linked to its surroundings
  (`LinkedUpTo`); in the second walk, which makes no tables, it also needs that walk to
  end where the first one did (`WalkedBefore`).
- That a node which borrows finds the table of its first child needs that child to have
  been visited before (`LeftTable`), and that the child left its table behind needs the
  exceptions of the callback to be those two children and no others.
- That the last of the parents is the parent of what is visited next needs nothing
  behind a node that was left to be below it (`PathIsInTree`), which is where preorder
  comes in (`GoUpPath`).
- How many symbols a table has does not matter to its links (`SameLinks`), however many
  leaves are added before one is refused (`LeavesKeepLinks`).

Nor is `NamesMeanTheirDeclaration`, as a lookup knows the tables and not the tree:

- A table must have exactly what its scope declares, as far as the analysis has come
  (`NamesAreEntered`). The code enters a variable's symbol with the variable, an
  argument twice, with its function and with the description, and the leaves of a
  description one after the other, each looked up behind those before it. One lemma
  for each kind of node says what it enters (`BlockEnters` to `TypedescEnters`).
- A name that is not found further out is asked for in the imports of the module, by
  a lookup that begins anew there. So all tables of the modules before must be there,
  and each table must know its module (`ModulesAreKnown`).
- `LookupFindsScope` then says that the lookup finds the scope the reference finds,
  provided each table on the way has the names that are known at that time
  (`Serves`). It is proved by the first module, and in it the first scope, for which
  it might fail, as there is no induction over an operator; what is needed of the
  order is that a scope is in front of what it surrounds and an import is analyzed
  before.
- In the type check all names of the module are known (`AllIsKnown`). In the first
  pass those in front are (`KnownWhenEntered`), which inside of a description changes
  from leaf to leaf (`KnownInDescription`).
- A symbol points to what a second lookup finds, for the name of the type that the
  first one found. That is the type's declaration because it is entered under its own
  name (`TypesAreEntered`) and both lookups begin at the same table (`LeafPoints`).

Least of all is `VerdictIsRight`, which speaks of the whole program where a step sees
one node. `VerdictInv` says what has been found out when the analysis has come this
far, and each action is shown to decide its part of it:

- The first pass refuses a name that is in the current table. That the two
  declarations then have one scope follows from `NamesAreEntered`; that a program
  which gets through has no such two needs the names of each table to be those of one
  declaration each (`NamesAreUnique`). Leaves are entered one by one, so that the first
  one which is refused (`FirstRefusedLeaf`) is judged in tables with those before it.
- Whether a function has the name of a visible one, and whether a name can be called,
  the code asks of the type in a record. A symbol's type is what its type's name had
  when it was entered, and that name may be another symbol's. `RecordsAreTyped` says
  that in the end the type is that of what the name stands for, in the tree (`Means`).
  It does not hold in the description of a function: its leaves see those before
  them, so that an argument can hide the type of the next one, while in the function's
  own table both have the type known outside. Nothing but names is looked up in a
  description, and no scope lies in it (`NoScopeInFunctionDescription`), which is what
  the proof needs instead (`PlainScopes`).
- Types are looked up by the first pass, before the rest of the module is known; what
  it has been at is judged as the tree judges it (`ReachedAreAccepted`). The type check
  looks the same names up again, when more is known. That it finds them still is
  `ResolvesAtEnd`: more declarations can change what a name means but not take all its
  meanings away (`AskingMore`). So the check never objects to what declares something
  (`DeclarationsPass`), and to what uses something just when it is not declared
  (`ObjectionsAreRight`).
- The check goes on behind an error. `UsesAreChecked` relates the errors to the nodes
  it has left, `Left`, those of the modules before among them, and a walk that is over
  has left all of its module (`WalkedAll`). When the last module is done all nodes were
  left, as every one is in a module that the sort lists (`ModulesAreListed`).

The walks, the lookups and the reference are recursive functions. That there
are such functions is proved as well, from a first node up to which there is none
(`ScopeAroundDef`, `FunctionAroundDef`, `AfterLeavesDef`, `LookupDef`, `ScopeOfDef`,
`MeansDef`, by `FirstPosition` and `PositionInduction` and, for those that go on in an
import, by the order of the modules). `Means` goes from a symbol to the declaration
its type's name means, which is in a module before or at a node before
(`NamedTypeComesBefore`). It stops at a name that is not declared, which is "unknown".

`RirLowering_proofs` proves, for every set of modules with any number of functions
and statements, the inductive invariant `LoweringInv` and from it
`BranchesJoinBehindTheirIf` and `ListsAreClosed`, the part of `FunctionsAreClosed`
about the lists: a function that was lowered holds each of its blocks once, begins
with its first block, ends with its end block and holds the targets of all its exits.
The hypothesis is `IsStraight`: no branch of an if has an if in it, and no operand
either. It is about the source only, with its statements and expressions
(`Plain`) and its ifs (`Ifs`) as constants, and it cannot be dropped: the run
`rir_nested_if` has an if in an else block which sends a branch to the wrong place.
Neither property is inductive by itself:

- That a branch joins behind its own if needs the block that the frame remembers to
  be `ctx->next_block` still when the branch is connected (`WorkFits`), and that
  needs the frames of one if only to be under way (`WorkIsNested`).
- That targets are listed needs to know which block will be. An exit may lead to a
  block that is listed, to one that the frame for the end of an if or of a match will
  add, or to the end block (`BlocksAreListed`). When the function ends, no such
  frame is left, and the end block is added.
- That no block is listed twice needs what is promised to be in no list, and no two
  frames to promise the same block (`PromisesAreOpen`).
- `next_block` survives a function, with a block of the function before, and the end
  of a function gives the next block an exit if it has none (`rir_function.c:312`).
  That this is never a block of another function is `NextIsKnown`: a next block
  without an exit is one of the function under way.
- Finished functions stay closed because all of their blocks were made before the
  end block of the one under way (`FinishedAreClosed`).

Nearly all actions replace the top of the stack and add blocks behind the list.
`StepKeeps` is that step once for all, from what an action adds (`IsStep`); each
action has a lemma that says what it adds. Only the three that change the next block
or the function (`BeginIf`, `BeginFunction`, `EndFunction`) are proved for
themselves.

`RirExits_proofs` proves the rest of `FunctionsAreClosed`: when no function is under
way, every block ever made has an exit. That is true of fewer functions, and its
hypothesis `IsTidy` says of which: the branches and conditions of ifs and the cases
of matches make no blocks (`Simple`), a match has two cases or more, and a match or a
conversion that leaves a new block behind is followed by an if or a return somewhere
in its function. `MCRirFunctions` assumes `IsTidy` of all its functions
(`FunctionsAreTidy`, with `Plain`, `Ifs` and `Simple` computed from them), so that TLC
evaluates the hypothesis of all these theorems for the functions of the runs. What
becomes of others is in section 4.

Every block is made without an exit, and gets it later, from a frame or from a
statement further on. The inductive invariant `OpenInv` names for each block without
an exit who will give it one: it is the first block, or the next one, which the end of
the function looks at; a frame promises to add it; a frame remembers it (`Remembered`);
or it is the current block and `CurrentWillClose`. This last case is the difficult
one. The end of the function does not know the block behind a match or a conversion,
so that something that follows has to give it an exit, and it must not become the
current one under an if or a match, whose frame has another block in mind.
`WorkIsTidy` says this of the stack: below whatever leaves the current block behind
there is no frame of an if or a match, and below whatever needs it there is something
that closes. `OpenStays` is the step once for all, from what a step puts in the place
of the top (`KeepsTidy`); the frames of ifs and matches share `InsideStays`.

Termination (`Resolves`, `RunsEnd`) is liveness under fairness and is only
model-checked. So are `RunsAsSource`, which follows a run of the source through
recursive operators; `AsTheTestsExpect`, which is about certain programs; and the
properties of the parser's rules, of the types and of the values, which are about
recursive operators.

## 7. Not modelled

Allocation failures; the text of messages and of the RIR; values in functions that
have ifs; 16 bit integers; the memory that holds a string; what `llc`, `gcc` and
LLVM's own passes do; the serializer (disabled in the source); the
command line parser (vendored); the removal of messages by number, which the parser
does not use; reading files; characters of several bytes; the values of literals.
Of the type check: member access and array references. Of the types: generic types,
types of modules, and the constant types of literals in `TypeStore` (a literal there
has the type of its kind).

Two things that a reader of the parser's model may take for slips are the code's:
an index is a single factor, so that `a[i + 1]` is rejected (`expression.c:275`),
and the conditions of a rule may look at an error flag that an earlier attempt set
(`expression.c:237`).
