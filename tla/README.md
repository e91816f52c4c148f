# A TLA+ model of the RuC compiler

RuC compiles a Russian/English dialect of C to the code of a virtual machine, or
to LLVM, MIPS or RISC-V text. This directory models its parts from the macro
preprocessor to the code generators, checks them with TLC on small instances and
proves facts about the tables, the parser and the code generators with TLAPS.
The virtual machine is not in the repository; it is modelled (`Machine`,
`SwitchRun`) from the code the encoder emits for it and from the comments of
`instructions.h`, and marked external.

## The system

The compiler is one sequential process without threads, timeouts or persistent
state. What is hard in it is *order*: tables, a tree and buffers that are updated
destructively while the parser goes down and up the nesting of a program, jumps
that are emitted before their targets exist, single fields that nested constructs
overwrite, recovery that goes on after an error with whatever the tables hold then.

| Component | State | Operations | Modules |
|---|---|---|---|
| driver (`src/main.c`, `compiler.c`) | workspace, io | compile: macro, parse, link check, encode | none |
| macro preprocessor (`libs/macro`) | macro storage, stacks of files and calls, error flags, line marks | directives, conditional blocks, loops, expansion, `#eval`, includes | `Macro`, `MacroReference`, `Computer` |
| storage of macros (`storage.c`, `utils/map.c`, `hash.c`, `strings.c`) | chains of spellings, records, strings | add, set, remove, search | `Storage`, `MacroTable` |
| lexer (`lexer.c`) | input position, one character, the string being read | `lex`, `peek` | `Lexer`, `LexicalGrammar` |
| parser (`parser.c`) | current token, `is_in_loop`, `is_in_switch`, `func_def`, the C stack | one function per nonterminal, `skip_until` | `Parser` |
| builder (`builder.c`) | context node | `build_*`: type rules, folding, declarations | `Builder`, `AST`, `Scopes` |
| syntax tree (`AST.c`, `utils/tree.c`) | one flat vector | add, insert, swap, remove, walk | `Tree`, `AST` |
| identifier table and scopes (`syntax.c`) | identifiers, representations, `cur_id`, `displ`, `lg`, `max_displ`, `ref_main`, functions | `ident_add`, `scope_*`, `func_*`, `sx_is_correct` | `Scopes`, `LexicalScope` |
| type table (`syntax.c`) | `types`, `start_type` | `type_add` and the constructors | `Types` |
| encoder (`codegen.c`, `instructions.c`) | memory, displacements, functions, chain heads | `emit_*` | `Codegen`, `SwitchRun`, `Calls`, `Emitter`, `Machine`, `Expressions` |
| LLVM generator (`llvmgen.c`) | register and label counters, the answer, labels of loops | `emit_*` | `Llvm` |
| MIPS generator (`mipsgen.c`) | register sets, displacements, labels | `emit_*` | `Mips` |
| RISC-V generator, writers, io, reporter | | | none |

`PROJECT.json` lists every component with its status, and under `hazards` what
can go wrong in each at the line where it bites. What makes each correct:

* macro preprocessor: what it writes is what the lines of the files mean; a
  failed call or block leaves nothing behind; errors are counted; line marks name
  the line that follows; the storage is a table of definitions;
* lexer: the longest lexeme at every place, whatever was peeked at;
* parser: it ends, accepts only well-nested sources, keeps its flags and scopes
  in step with the statements it is in, and reports whatever it gives up on;
* tree: what is read back is what was written, though nodes are made in one place
  and moved to another, and cells are given back;
* scopes: a name means the declaration of the innermost scope that has one; live
  variables do not overlap; the frame is large enough; a prototype and its
  definition get one number; after an error the table is still safe to use;
* types: equal types have one number, different types different ones, and adding
  a type never damages another;
* encoder: every jump leads where the source says, every call reaches the function
  it names, an expression leaves its value and nothing else;
* LLVM and MIPS: registers and labels are defined once and where they are used,
  blocks end, frames and argument slots agree.

## Modules

Data is abstracted to what the properties tell apart; the control (guards, early
returns, order, what is saved and restored) is kept. Three forms recur. Where the
state is a table, an action is an operation on it (`Scopes`, `Types`, `Storage`,
`Calls`). Where the state is the C stack of a recursive walk, the stack is a
variable and a step is the rest of a function (`Parser`, `Codegen`, `Llvm`,
`Mips`); the source or the tree is chosen while it is read, so that all of them up
to a size are covered. Where a recursive function is pure, it is an operator, and a
step is a call of it (`Lexer`, `Macro`, `Builder`, `Emitter`, `AST`). Functions that
call each other do so through one recursive operator, `Do` in `Macro` and `emit` in
`Emitter`.

**`LexicalScope`** is the abstract specification of scoping: a stack of
environments. **`Scopes`** is `syntax.c` as it is: one mutable reference per
spelling, records that remember what they hide and are never removed, and a scope
exit that undoes declarations (also, a second time, those of inner scopes). Its
actions are the callers in `parser.c` and `builder.c`; `AbandonFor` is a `for`
header with a syntax error, which returns without leaving its scope. `Reject` is
the failing path of `ident_add`, which has already changed the table. The
refinement mapping takes the environment of an inner scope from `reference`, and
those of the outer scopes from a history field `saved` of the scope records.

**`Types`**: the types table with its links, `type_add` with the search for an
equal record and the cut when one is found, and the constructors as actions. The
history `made` remembers what each number was made for.

**`Lexer`**: the lexer as a record, every function of `lexer.c` an operator on it;
the actions are `consume_token` and `peek`. Integers have `IntWidth` bits, a
floating value is a mantissa with a decimal exponent. **`LexicalGrammar`** states over
positions of the text which pieces are lexemes and what the tokens of a text are,
without reading character after character.

**`Parser`**: every function of `parser.c`. `todo` is the C stack, unfolded to the
list of what is left to do; `tk` and `ahead` are the current and the peeked token.
The source is drawn token by token from an alphabet after a fixed start. Operators
are abstracted to one per precedence class that matters, type names to `type` and
`void`, identifiers to `name` and `typename`. A semantic check of the builder is a
choice between a correct node and a reported error. `open` is a history variable:
the brackets consumed and not closed.

**`Tree`** is `tree.c` cell by cell: a node is an index into one vector, a reference
is a cell. **`AST`** is the constructors and readers of `AST.c` in the order
`parser.c` and `builder.c` call them: a node is made under the context and moved
under its parent, literals are folded by removing nodes, a structure is moved to
its holder, the value of an enumerator changes the context. Beside every node stands
the term it must be read back as.

**`Builder`** is the type rules and the folding of `builder.c`, **`Emitter`** the code
of expressions and declarations (`codegen.c`, `instructions.c`), **`Machine`** what
executes it. **`Expressions`** builds expressions in postfix order from a profile (a set
of leaves and operators), emits and runs each, and compares the result with a
definition of its value and effects over what was written.

**`Codegen`**: the statements of `codegen.c` for one function, with the code vector,
the three chain heads and what each statement saves and restores of them; a pass of a
patching loop is a step. **`SwitchRun`** extends it with a machine that executes the
code of a `switch`; value 0 stands for any other function, which is emitted and not
run. **`Calls`**: the function table, the chains of calls that precede a definition, and
functions passed as arguments.

**`Llvm`** and **`Mips`**: every `emit_*` function. An instruction is what it defines,
reads, saves and jumps to; `info.faults` of `Llvm` records what LLVM would refuse, `ok`
of `Mips` becomes false where the code asserts.

**`Macro`**: `libs/macro` over tokens; **`Computer`** is its expression evaluator with
the two stacks. **`MacroReference`** is what lines of the macro language mean, with
blocks found by counting and expressions as trees. **`MacroTable`** is what `Macro`
uses of the storage: names, numbers of arguments, and the row of texts that macros hold by number, of which
only the last is ever taken back. **`Storage`** is `storage.c` over the chained map, the hash table
in one vector and the vector of strings, and implements it; its history variable `promised` holds the text each
macro was last given, of those macros that can count on it.

The MC modules give the instances; the modules named under Proofs hold the proofs. A property is what the
runs check; what only says that a variable has its type is stated for `Scopes`, where the
proofs start from it, and left out elsewhere. Operators named
`X_Something` beside a definition `X` are plausible mistakes in `X`; each property is
violated when one of them takes its place.

How they fit: each part establishes what the next assumes. `Storage` gives `Macro` its
table; `TokensExact` gives `Parser` its tokens; `Types` justifies that `Builder` compares
types as terms; `TermsReadBack` justifies that the generators read a term and not a
vector; `NestingExact` says that `break` and `continue` reach `Codegen` only inside a
loop or switch, and that scopes are left unless an error was found, which is the
`AbandonFor` of `Scopes`; the functions `Calls` starts from are those `PrototypesLinked` lets through the
link check.

## Runs

| Run | Bounds | Shows |
|---|---|---|
| `scopes` | 5 records, 3 levels, spellings for main, a builtin and another name | refinement of `LexicalScope`, `FrameDisjoint`, `FrameFits`, `PrototypesLinked` for error-free sources; `IndicesInRange` also after redeclarations, wrapped indices and abandoned scopes (after an error exploration goes on over shorter tables, `ShortAfterError`) |
| `types` | 4 types of two basic ones | `NumbersExact`: one number per type; `RecordsStable`: the cut after a duplicate takes off the new record only, and no record leaves the chain of links |
| `lexer` | texts of 5 or 6 characters over the alphabets of numbers, literals and comments, 3 or 4 over operators and words; one or two peeks; 16 bits | the tokens, places and values of the lexical grammar; mistakes reported and nothing else; a peek tells the next token |
| `parser` | five starts with alphabets: bodies, initialisers, externals, structures, enumerations | termination but for unclosed structures and enumerations, exact flags, scopes left, broken nodes reported, balance of what is accepted |
| `ast` | seven grammars, 5 to 9 constructions | every node is read back as written, nothing waits under the context at the end, no two nodes share cells, the walk visits every node |
| `expressions` | nine profiles of leaves and operators | the value of an expression, the effects of a statement and the memory of a declaration are those of the source |
| `codegen` | 5 statements of all kinds nested 3 deep, and switches of 9 with 2 labels, run for 3 values | all jumps patched to instruction boundaries and to the right labels, heads closed, locals apart; a switch written label first, default last, with a break before each case behaves as documented |
| `calls` | 3 functions, 2 announced, 4 uses | calls reach the definition whichever comes first; the chains of different functions stay apart |
| `llvm` | three functions of 2 or 3 nodes beyond leaves, three globals | registers defined once, branches to declared labels, blocks terminated, stack pointer restored, phi predecessors right, helpers declared |
| `mips` | 3 nodes beyond leaves, 3 temporaries, functions with parameters of all kinds | labels distinct and landed on, jumps of `break` and `continue` to their loop, temporaries apart, frames, arguments where parameters are read |
| `macro` | the programs of `MCMacro`, eight families: blocks, closings, calls, macros set to nothing, bodies, expressions, includes, invocations | the output, the errors and the line marks are those of the reference; calls unwound after an error |
| `storage` | three names: one has the first bucket, one is behind two directives in their chain, two share a bucket; three texts; table lengths equal as in the code; any name undefined at any time, and set to the empty text | every read is that of `MacroTable`; a macro reads the text it was last given, and every directive is found, each with the exceptions that the code makes (below); records reused |

Bounds: two declarations of one spelling on two levels plus a third name are enough
to hide, restore and hide again; a chain needs two jumps and an enclosing statement
that saves it; the shortest `for` statement takes six tokens; recovery errors need a
construct, an unexpected token and the token it should stop at; a saved field is lost by
a construct inside a construct inside the one that saved it, three nodes; a cell
that is given back is reused by the node made next, and read by the parent made
after that; a number with base, digits, point, exponent and sign takes five characters.

Deadlock checking is off: a compilation ends, and the models stop with it (or at a
bound).

**Fairness.** `Parser` assumes weak fairness of its next step: `parse()` is a sequential
function that waits for nothing but the next token, and the source is finite. Nothing
else is assumed; the other properties are safety properties. `SwitchAsDocumented`
says of the machine that it can go on until it halts, not that it does.

## Known deviations

Where the code does not do what its documents, comments or tests say, the models have
what the code does, and the instances or the conditions named here keep to the
part for which the properties hold. None of these has a run of its own.

**Tables.** A local at displacement 1000 or more counts as a type name
(`syntax.c:504`; `syntax.h:318` says "Check if identifier is declared as type specifier"). A
function whose type has index 1000 or more gets no number (`syntax.c:437`). `int main;`
satisfies the link check (`syntax.c:385`). Const versions of different basic types get one
number (`syntax.c:134`; hence *without const* in `NumbersExact`).

**Lexer.** `skip_block_comment` overlooks the end of a comment after an even number of
stars and takes the opening star for a closing one in `/*/`, so that `/**/` goes on
(`lexer.c:104`; docs/Language.md:285 says a comment ends with `*/`); `MCLexer` leaves these
out. A literal with two digits beyond the integer limit loses digits, since the
floating value is set anew at each (`lexer.c:229`; beyond the lengths of the run). `1e5` is
an integer, though docs/Language.md calls it floating, and wraps round; the grammar
of the run does as the code. A string that is not closed at the end of file is read for ever
(`lexer.c:421`; every text of the run ends with a line break). A line break in a character
literal is accepted. An error in a token that is peeked at is reported twice.

**Parser.** A structure or enumeration without `}` makes the parser loop at the end of file
(`parser.c:993`, `parser.c:1124`; hence *unless unclosed*). "skip whole function body"
(`parser.c:2037`) stops at the first `}` of a nested block. `skip_until` never stops at a comma
(`parser.c:232`).

**Encoder.** Fall through runs into the next test (`codegen.c:1679`; docs/Language.md:1452). `default`
before a matching `case` is entered (`codegen.c:1701`), statements before the first label of a
`switch` are executed (`codegen.c:1779`). A function passed as an argument before its definition
is encoded wrongly (`codegen.c:736`). `%= <<= >>= &= ^= |=` as statements leave a cell
(`instructions.c:169`). Outside the profiles of `MCExpressions`: `||` with a left operand that is not bool
yields that operand; `1 && NULL` folds; comparison of structures compares top cells; a structure
assignment has no value; `*e` for other operands than identifiers and members; elements of type bool
or pointer; pointer or array members through an address; array assignment; values, subscripted
places, conditional assignments and non-void calls as statements leave cells; the value of `printf`; an
initialiser as an argument; division by zero while folding; a displacement that looks like an
instruction (9000 or more) is rewritten in void position (`codegen.c:1303`); nested structures with arrays
are not initialised.

**LLVM.** A `&&` or `||` used as a value in the body of a `do` overwrites the labels of the loop's
condition (`llvmgen.c:1714`; `ValuesInDo = FALSE`). Constant answers that were not folded read a stale
register (`-(x=5)`, `abs(x=5)`, `switch(x=5)`, `1 && (x=1)`); `p = q = &x`; `&s.m`; `!a` as a value; `x = a && 1`; a
logical operator nested in the right operand of another declares a label twice; the phi of `&&` names a
block that may not be its predecessor, as does a conditional expression inside an operator inside another;
two switches share a label; `continue` in `while` and `for` skips the condition and the increment;
`return` in `main` emits nothing; `bool b = a < c` is not stored; `upb` of an array parameter; arrays of mixed
bounds; non-constant elements of a structure initialiser are lost; `exit` is declared twice.

**MIPS.** A call saves `$a0` where a call nested in its arguments saves its own (`mipsgen.c:2223`). Registers
leak (constants in comparisons, `return 0`, element sizes, a float for `printf`); `a[i]++` through a freed
base; slots 8 and 9 of ten are `$s0` and `$s1`; operations in place overwrite register parameters; `1 + x`
asserts; temporaries are not saved across calls; `printf` clobbers `$t1`; `continue` in `for` skips the
increment; comparisons answer in two opposite ways; `%%` is counted as an argument; a structure that is passed
on the stack gets one word, so that two of them overlap (`mipsgen.c:3248`; `MCMips` passes none).

**Macro preprocessor.** `#undef` of an undefined name, after a first macro whose characters sum up to a
multiple of 256, removes `#define` (`storage.c:191`): the number of that macro's record is that of an entry of the
map. `DirectivesFound` excepts the one directive this can hit, and the run reaches the case. A macro with a text that
is set to the empty one (`storage.c:159-168`) keeps its old text if that is not the last string of the storage.
If it is, the string is dropped, `strings_add` refuses the empty one, and the record keeps the number of the dropped
string: the macro has no text until another is given one, which it then reads as well (`#define A r`, `#define A`,
`#define B s`: `A` reads `s`); and when one of the two is changed or undefined while that string is the last, the
other loses it. `MacroTable` and with it `Macro` have this behaviour, the run `storage` reaches it, and
`TextsApart` promises nothing to a macro set so, nor to one that shared its string once the string was
taken away, until they are given a text again; to all others it does. In `MCMacro` macros are set to the empty text
only where nothing is stored afterwards, since `MacroReference` has no such numbers. Errors in a
skipped block are forgotten (`macro/parser.c:521`). `!x` computes `x != 0` (`computer.c:280`); a unary operator
before a bracket drops numbers; division by zero is not caught; an unbalanced quote in a skipped
directive swallows the next line; the current directory is not set back after a header
(`linker.c:142`); `F((` at the end of file is read for ever;
an empty argument is printed as `(null)`; the left operand of `##` is expanded; `#undef` of a parameter gets the
expanded argument while `#ifdef` gets it raw.

## Proofs

TLAPS checks the theorems below for every value of the constants; TLC has checked each inductive
invariant on an instance too (bounds in brackets). All start from assumptions TLC evaluates in
the runs: `ScopesAssumption` (positive spellings and sizes, bounds of any kind),
`CallsAssumption` (the announced functions are functions, none of them the mark for "no function"),
`CodegenAssumption`, `ParserAssumption`, `LlvmAssumption` and `MipsAssumption` (what the sets the program is
drawn from contain).
`CONSTANTS` that bound the runs are bounds of the state space, not of the proofs: the theorems hold
for any of their values.

**The identifier table.** `ScopesProofs`:

* `TypeCorrect == Spec => []TypeOK`. `TypeOK` is not inductive: scope exit reads the
  record at which the scope began, and a record's `prev` becomes a reference.
  `TypeInv` adds `Layout`, which says where scopes begin in the table and what the
  bottom of the scope stack looks like. One lemma per group of actions shows that
  the action preserves `TypeInv`; `UndoneType` does so for the undoing of scope exit,
  through the minimum of the records undone (`MinProperty`).
* `IndicesStayInRange == Spec => []IndicesInRange`. `InRange` adds that every record a scope exit
  may undo hides something in range. The first record of the table is exempt: an enumerator
  called `main` overwrites it through a wrapped index (`parser.c:1061`), which does no harm
  because no scope of a function begins there.
* `FrameIsLargeEnough == Spec => []FrameFits`. `Frame` adds that the displacements open scopes will
  restore lie under the maximum, and that the displacement *is* the maximum while parameters
  are declared: a function as a parameter (`syntax.c:414`) sets the maximum instead of
  raising it.

Also there, `TablesImplementLexicalScope == Spec => ImplementsLexicalScope`. The heart
of `ScopeInv` is `Restorable`: undoing the records from an open scope on, inner scopes included, gives
back the environment that was saved when it was opened. So it does not matter that `scope_block_exit`
undoes the records of closed inner scopes again: the least record of a spelling decides, and it is
the scope's own. `Nested` orders the scopes, `MainMarked` keeps reference 0 for `main`,
`RecordsFinished` excludes the unfinished record of a failed `ident_add`; these hold until an error is
reported, which is the refinement's domain too. Every action maps to a declaration, an entry, an exit or a
stutter of `LexicalScope` [1 225 896 states].

The last two of this module are `LiveLocalsNeverOverlap == Spec => []FrameDisjoint` and
`LinkedPrototypesReachDefinitions == Spec => []PrototypesLinked`. `RecordsInv` adds to `ScopeInv` that the words
of the locals of a scope lie between the displacements at which it and the scope inside it began, and
that a record names the spelling it was declared with, so that the definition found
by spelling is the one a prototype waits for.

**Calls.** `CallsProofs`: `EveryCallReachesItsDefinition == Spec => []CallsReachDefinitions` and
`ChainsNeverMeet == Spec => []ChainsSeparate`. `LinkInv` says that of a function without a definition the entry is the
head of a chain through the operands of its calls, in decreasing order, and of a
function with one that the operands above `Unlinked(f)`, where the linking loop is, hold its number
and those below still form the chain; the cells of different uses are different.

**Statements.** `CodegenChains` holds the invariant and the lemmas about chains, `CodegenProofs`
the steps and `EveryJumpLands == Spec => []JumpsResolved`. The three chain heads are shared by all open
statements and saved in C locals, so `JumpsInv` finds every chain where it is:
the chain of a loop or switch starts at the encoder's variable if no statement of that kind is open
inside it, otherwise at the value the next one inside has saved (`BreakChains`, `ContinueChains`,
`CaseTests`). A `Chain` leads from its head downwards through its own operands only, and what lies above the
head has been patched. `Accounted` says that a jump is patched or owed by an open statement; when
no statement is open, nothing is owed. `Coded` and `Finished` say where branches land.
[five statements of 12 kinds nested four deep: 3 532 368 states; ten of the breaking kinds, nested five deep:
2 412 191 states]

`LiveLocalsApart == Spec => []LocalsDisjoint` is at the end of `CodegenProofs`. `LaidOut` adds that saved displacements grow inwards and
that the words of a variable lie below the displacement saved by every statement inside its owner, so
that going back to it frees no word that is alive.

**The parser.** `ParserProofs`: `ParserKnowsItsPlace == Spec => []NestingExact`,
`BrokenNodesAreReported == Spec => []BrokenReported` and
`AcceptedSourcesAreBalanced == Spec => []AcceptedIsBalanced`, for every source.

* `ParserInv` describes the values parse functions have saved on the C stack: each saved `is_in_loop`
  tells whether another loop waits below it (`Nested`); until an error is reported every saved node is
  correct (`Trusted`), no function waits that returns a broken node after recovery, and as many calls wait
  that leave a scope as scopes were entered (`Clean`). The first two theorems need each other: the headers
  of `for` return without leaving their scope when an operand is broken (`parser.c`), which keeps the count
  exact only because a broken node was reported. A step replaces the first item of the stack by others;
  `GeneralStep` says what the replacement must satisfy, and most actions are `OrdinaryStep`s, whose items
  save nothing. [the alphabets of `parser`, 4 to 6 free tokens: 240 753 states]
* `BalanceInv` adds what happens to the brackets. `Runs` gives every waiting call a contract: which
  brackets are open when it begins and when it ends, if no error is reported. Most calls leave them as they are; the
  rest of a function that has taken a bracket (`ParenClosers`, `SquareClosers`, `BraceClosers`)
  closes it, `function_name` closes two, and `expect_and_consume(')')` one. `Path` says that the contracts
  of the whole stack fit together, from the brackets open now to none. Three things make it inductive.
  A call that takes a token without looking, for example `parse_function_definition` its `{`, is
  only made at once, where the token was seen (`Immediate`). A recovery is reached with an error only
  (`Recovering`). And the operators' precedences are positive where the climbing compares them, so that no
  bracket is taken for an operator (`LevelRuns`). [the whole instance of `parser`: 1 222 164 states; TLC follows the stack item by item]

**The type table.** `TypesProofs`: `RecordsNeverChange == Spec => RecordsStable`, an action property, for any basic types,
names and number of types. `type_add` writes its record behind the table before it looks for an equal one, sets
`start_type` back to the link it has just written and cuts the table to the `start_type` saved before that.
`CutExact` shows that what is left is the table as it was: the record began where the table ended (`Appended`).
In the other case the record stays, its link cell holds the old `start_type`, and what `type_enum_add_fields` writes
behind it disturbs neither (`AddKeeps`). That the search ends and finds equal records only is left to TLC
(`NumbersExact`).

**LLVM.** `LlvmProofs`: `StackAlwaysRestored == Spec => []StackRestored`. `SlotsInv` is what makes it inductive: every place
the stack was saved in is the number of a block handed out before (`info->block_num` is never taken back) or the -1
of dynamic arrays (saved in once, while `was_dynamic` is false); a block that waits and is not the body of a function
has its place among them; and no block waits under the function around it, so that what a function saved is
forgotten only when nothing is left that would restore it. [the whole instance of `llvm`: 2 856 800 states]

**MIPS.** `MipsProofs`: `FramesLaidOut == ASSUME WordParameters PROVE Spec => []FrameLayout`. The hypothesis excludes
functions that take structures, for which the code is wrong (`mipsgen.c:3248`, see above); `MCMips` assumes it
too. `FrameKept` says of the whole stack what the frame needs: locals lie in the first `scope_displ` bytes below
`$fp` (`Laid`, stronger than `FrameLayout`, which speaks of the maximum), what every open block, switch and loop has
saved was laid out in the frame it saved with, the saved displacements grow inwards, and outside of functions no
variable is on a frame. `Work` says which items may wait where: nothing that ends a function or a
declaration at file level is on the stack inside a function but once. Most actions change
neither (`Smooth`); of the others `Course` says what the items they put on the stack must satisfy.

`JumpsHaveTargets == Spec => []JumpTargets`, for every program. Who declares a label is decided when it is drawn and
lies on the C stack until then, so `JumpsKept` gives every label that is not declared one owner.

* `Owned` is what an item of the stack will declare, `Named` what it will jump to without declaring it. `LabelsInv`: what
  is owned is below the counters, not declared, and owned once; what branches have named is declared, owned, or a label
  of a function, of a string or of the library (`Safe`). A step takes the head off the stack, which leaves its labels
  owed (`Popped`), draws, names or declares labels (`Carried...`) and puts items back that own what is owed (`AllOwn`,
  `LastOwns`).
* `FUNCEND` is named by `return` before any item is known to be there; that its function is still being emitted, and
  that exactly the functions before it are ended, is `FunctionsInv`.
* `Cases`: a `switch` draws the number of a label of its body at each test, and the bodies are emitted behind all
  tests, with switches of their own inside. The counter must be as far as the tests that are done, and the labels of
  the bodies, which count from the number it had at first, must be those the tests have drawn (`CasesBegin`,
  `CasesTest`, `SwitchJumpJumps`).
* `Threads`: `label_break` is the label of the first end of a loop or switch on the stack, what that end has
  saved the one of the next, and so on; the same of `label_continue` and loops, which skips the switches between.
* That pieces of strings have different labels is arithmetic (`StringsApart`).

[`FrameKept` and `JumpsKept`, each on the whole instance of `mips`: 2 902 315 states]

**Only model-checked.** Liveness (`EndsUnlessUnclosed`) and `SwitchAsDocumented`, whose statement is about
what the machine *can* do (`ENABLED`), are out of the prover's reach, as is what recursive definitions
compute for every input: `Lexer`, `Macro`, `Computer`, `Storage`, `Tree`, `AST`, `Builder`, `Emitter` and
`Machine` are built from them and stay with TLC. `NumbersExact` compares types as terms of any depth, an
induction over data. Of `Llvm`, `NamesDefinedOnce`, `BranchesLand` and `PhiPredecessors`, and of `Mips`,
`TempsApart` and `ArgumentsMeetParameters` are not proved; see the plan.

## Not modelled

* The RISC-V generator: the structure of `mipsgen.c` with other registers, unfinished in
  the same places; a model would repeat `Mips`.
* The driver: a fixed sequence of calls, each of which ends the program when it fails. The
  workspace: lists of files and flags. Messages and their texts; the count of errors is in
  `Lexer` and `Parser`.
* Input, output and UTF-8: buffers and formatting around the C library; a character is one
  symbol and a position a number in `Lexer`.
* The writers of the tree and the tables: formatting for debugging.
* The old preprocessor and the C++ wrapper are not built.
* The bounds of local buffers (`local_modetab[100]`), memory exhaustion and the growth of arrays.
* The fields of enumerations in `Types`; the checks of statements and declarations in `Builder`
  (a choice of the outcome in `Parser`).

## Plan

1. Proofs of `Mips.ArgumentsMeetParameters` and `TempsApart`, which need the types of the pending values.
2. Proofs of `Llvm.BranchesLand` and `NamesDefinedOnce`, by the argument over labels of `MipsProofs`.
3. Fields of enumerations and offsets of members in `Types`.
