# Verification of the neolang compiler

neolang (`src/`) compiles a small language to x86-64 assembly: `entry.c` reads a
source file, `Tokenize` turns it into tokens, `Parse` into a tree, `Check` is a stub,
`Generate` writes assembly, and `nasm` and `ld` make a program of it. This directory
holds TLA+ models of these parts, the TLC configurations that check them on small
instances, and TLAPS proofs for instances of every size.

1. [Inventory](#inventory)
2. [Modules](#modules), and how they correspond to the code
3. [Runs](#runs): what TLC checks, and the bounds
4. [Fairness](#fairness)
5. [Theorems](#theorems): what is proved, and how
6. [Disagreements](#disagreements) between code and documentation
7. [Limits of the models](#limits-of-the-models)
8. [Plan](#plan)

## Inventory

The compiler is a sequential C program. What makes it hard is state that is spread
over time: a cursor that is never moved back, static counters
read before and after a recursive call, a pointer kept across one, a mirror of a
machine's stack kept by hand, arrays whose capacity is tested here and not there,
and an allocator every other part has pointers into. Concurrency comes in at the edge:
two compilations in one directory share the files of `bin/`, the tools may fail, and a
process may be killed between any two steps.

| component | state | operations | what makes it right |
|---|---|---|---|
| Lexer (`src/src/lexer`) | source, index, line, column, the token array | `Tokenize`, `PeekChar`, `ConsumeChar` | every source is read to its end; tokens are disjoint, in order, as long as they can be, with the right positions; the array is never overrun |
| Token cursor and parser (`src/src/parser`) | `TokenIndex`; the C stack; nodes being built; `HasErrors` | `TryParseX` for 21 kinds of node, `Peek`, `TryConsumeSub`, `TryConsumeType` | accepts what the grammar derives, gives expressions the tree precedence asks for, ends, reports what it rejects, dereferences no missing token |
| Arena and errors (`src/src/util`, `Cleanup` in `entry.c`) | the block, its believed size, the fill pointer; the error stack, with messages in the arena | `_Alloc`, `_Resize`, `_RaiseError`, `RUNTIME_ERR`, `NASSERT_MSG`, `Cleanup` | objects never overlap and stay inside the block; failure to allocate ends; messages can still be printed at exit |
| Code generator (`src/src/gen`) | the text; `VarRegistry`, `ScopeRegistry`, `StackPtr`; static `WhileID`, `IfID`, `ForID`, `ExpCount` | one `GenX` per kind of node; `RegisterVar`, `FindVar`, `BeginScope`, `EndScope`, `PushStack`, `PopStack` | the text is accepted by nasm; `StackPtr` is the height of the stack when the line is executed, on every path; the program does what its source means |
| nasm, ld, the built process (external) | label tables; registers, flags, stack | the ten-odd instructions the generator writes | taken from their manuals; only what the generator uses |
| Driver (`entry.c`) | exit status; `bin/out.asm`, `bin/out.o`, `bin/out` | the phases in order, `RUNTIME_ERR` in between, `system()`, `Cleanup` | an undisturbed success leaves the program of its own text; a program is never made of a refused text; no failure is silent |
| AST output (`debug/ast_output.c`) and jWrite (`debug/jWrite.c`) | the buffer, the stack of open objects and arrays, the error code; `bin/ast.json` | one `OutputX` per kind of node; `jw_key`, `jw_object`, `jw_array`, `jw_string`, `jw_raw`, `jwEnd`, `jwClose` | begins and ends match for every tree; both arrays hold; what is written after a limit is met is a beginning of the whole |
| Checker (`checker`) | | `Check` | a stub that returns true |
| String hash (`util/hash.c`) | | `HashString` | called by nothing; not modelled |

The parts interact by calls in one direction (driver, then lexer, parser, generator)
and through two things they share: every object lives in the arena, and every
error goes to one stack, which `Cleanup` prints. `RUNTIME_ERR` and
a failed `NASSERT_MSG` leave any of them by `exit()`, which runs `Cleanup`.
There are no callbacks and no threads (the mutex in `error.c` has one user). Hazards are listed with their lines in
`PROJECT.json`; the properties below were written for them.

## Modules

| module | what it is |
|---|---|
| `Productions` | `parse.c`: every `TryParseX` as the list of its calls and tests |
| `Parser` | extends `Productions` with `parser.c`, the token cursor, and with the control flow the functions share |
| `ParserReference` | the grammar of `docs/README.md` as a derivability relation on token ranges, and the tree precedence asks for; TLC only |
| `Lexer` | `lexer.c`, `tokenize.c`: the character cursor and the loop of `Tokenize` |
| `LexerReference` | the division of a source into longest words, literals, comments and symbols, without a cursor and without recursion |
| `Arena` | `arena.c`, `error.c`, `assert.h`, and `Cleanup`: allocation, growth, errors, exit |
| `Generator` | `generator.c`, `generate.c`: each `GenX` as the list of what it writes and calls, and the registries |
| `Machine` | extends `Generator` with nasm's labels and the x86-64 process that runs the text |
| `MachineReference` | what a program means, on its tree; which programs the generator is right about; TLC only |
| `Compilation` | what `neolang file` promises its user: jobs that begin, are refused, lost or done, and the program they leave; abstract |
| `Driver` | `entry.c`: `main` and `Cleanup` as one of several processes, the files of `bin/`, and what can fail; implements `Compilation` |
| `AstOutput` | `ast_output.c` and the operations of `jWrite.c` it calls |
| `AstReference` | the JSON of a tree as a value, and its text, without recursion on trees |
| `Compiler` | `main` on one source with the lexer, parser, AST output, generator and built process in their places; its steps are `Driver`'s |
| `CompilerReference` | the references of the phases applied to what each is handed in `Compiler`, up to the exit code of the program; TLC only |
| `ParserProofs`, `LexerProofs`, `ArenaProofs`, `GeneratorProofs`, `DriverProofs`, `AstOutputProofs`, `MachineProofs`, `CompilerProofs` | theorems, proved with TLAPS; `MachineProofs` extends `GeneratorProofs`, and `CompilerProofs` extends `AstOutputProofs` and instantiates `ParserProofs` |
| `MCParser`, `MCLexer`, `MCArena`, `MCMachine`, `MCDriver`, `MCCompiler` | the token strings, texts, requests, trees and command lines TLC is given |

**Parser.** `stack` is the C stack: per call, the function, the instruction it is at,
the alternative of an ordered choice, the cursor at entry and `MinPrec`. `kids` are
the nodes a call holds. `ctl` says how the last call came back (`"node"`, `"null"`),
or that the process ended (`"exit"` for `RUNTIME_ERR`, `"crash"` for a NULL
dereference or an overrun that ends it). A function body is a sequence of
instructions: `Eat`, `Need`, `Take`, `Opt` test a token, `Try` and `Must` call,
`First` is the chain of alternatives, `ListOf`, `StatsUntil` and `Climb` are the three
loops. What the C function does when an instruction fails (returns NULL, raises
`SYNTAX_ERR` first, reads `Peek(0)->Line` for its message, skips to the next
semicolon) is part of the instruction. No instruction moves the cursor back, as
nothing in `parse.c` does.

**Lexer.** `pc` names the place in the body of `Tokenize`; each action is one turn of
one of its loops. A character is a member of a small set of classes, `"NUL"` is the
terminator. Symbols and single characters are stored in one step, literals take
as many as they have characters, so that the loops' conditions are what is checked.
Overrunning a literal's buffer, which the code does by its terminator, may do no
harm or end in state `"overrun"`.

**Arena.** A pointer is a block and an offset, so that a block moved by `realloc`
differs from the one before it. `want` holds the active calls of `_Alloc`: a failed
resize raises an error, whose message is allocated. `realloc` extends, moves or fails
at every resize. `shown` and `allocs` are history.

**Generator.** `todo` is what the active `GenX` calls still have to do, those of a
callee before the rest of its caller: the C stack without its return addresses.
`On(..)` actions replace a call by the tasks of its body; the other actions perform
one task: write a line, change the stack mirror, count, register, store, begin or
end a scope. Values that C reads when a line is written (the static counters, again
after a body; `StackPtr` for an offset) are read in that step. `Variable*` becomes
an index into the registry, kept in the `Store` task. Each line remembers `StackPtr`
as it was (`sp`), which is what `StackMirrored` compares with the machine.

**Machine.** `Assembles` is nasm's rule for labels: a label that begins with `.`
belongs to the last one that does not, no label is defined twice, every jump has a
target. Words have `Word` values, comparisons are signed, `setl`/`setg` write a byte,
division is unsigned and faults on zero, `exit` keeps a byte. Reading, storing or
popping beyond what the program itself has pushed is the outcome `"stray"`.
A text is `Accounted` if `StackPtr` changes from line to line as the line changes the
stack, and `Level` if every jump goes to a place with the `StackPtr` of the jump.

**LexerReference.** An item is what a reader finds at a place: the longest word or
number, a literal to its closing quote, a comment to its end, or one character.
`Starts` is the least set of places that holds the first and, with the start of an item,
the place behind it; the documented tokens are the items at these places that are
neither white space nor comments.

**Driver.** `at` is, per process, the call of `main` that comes next; each action is one
call with all its outcomes. A phase is one step here: it goes on, leaves by
`RUNTIME_ERR`, or is ended by a signal, and `Parse` may also return NULL, never without
an error raised, or a tree with errors on the stack. A text stands for the assembly,
the object and the program made of it; a file holds a text, nothing (`Absent`), or
something that is not the whole of one (`Torn`). `Faults` are the failures: `atexit`,
`fopen`, `fclose` (`ferror` of the source is one of the latter), a short write that
`fputs` reports to nobody, a tool that fails and leaves its output as it was, removes
it, or leaves a part of it, and a signal at any step. A tool that runs when its parent is
killed is taken to end with it. `intact` is history: the compilations alone since their
start, whose writes and tools have succeeded.

**Compilation** knows nothing of phases and files. A job is *fair* as long as no other
has run beside or after it and nothing it depends on has failed; only building changes
the program, and a fair job builds its own text. `Driver` implements it with `fair` as
`intact`, `program` as `bin/out`, and a job built between `ld` and `Cleanup`.

**AstOutput.** `todo` holds the calls left, as in `Generator`; `jw` is
`g_jWriteControl`. The operations of jWrite are functions of it, in the order of the
C statements: a key whose comma met the end of the buffer is still pushed, `jwEnd` on
the root writes its bracket though the pop has failed, and nothing is written by a call
made after an error. The buffer is counted in lexemes.

**Compiler.** `at` has `Driver`'s names. `Lex`, `Parse`, `OutputAST`, `Generate`, `Run` are the
steps of the modules; `Tokenized`, `Parsed`, `OutputDone`, `GenerateDone` are returns to
`main` and hand over what was made: `Kind` is a token's subtype, and `Seen` is a node as
the generator reads it. Tree nodes carry the place of their token, so that
names and numbers are read from the source text. `DriverAllows` maps all of it back to
`Driver`, where a phase is one step.

Models were compared with the built program, by running both on the same inputs and
comparing what they produce: the parser on 29500 token strings (accepted or not,
number of errors, tree), the lexer on 79800 texts (tokens, types, positions), the
generator on 2000 programs (assembly line by line, and the exit status of the
instructions executed). No difference is left.

## Runs

| run | what it asks | states |
|---|---|---|
| `ParserPrograms` | 21500 programs of all statements and of short expressions, truncated and disordered | 2.58M |
| `ParserGrammar` | the documented grammar against the parser: violated | |
| `LexerTexts` | 70000 texts: words and literals; comments; full arrays | 0.92M |
| `LexerPhantom`, `LexerComments` | two statements about comments: violated | |
| `ArenaAlloc` | requests of 0, 1, 3, 6 bytes in an arena of 4, messages of 1 and 2 | 314k |
| `ArenaMoves` | pointers after a resize: violated | |
| `MachineRuns` | 2200 programs, in debug and release builds, generated, assembled and run | 321k |
| `GeneratorPowers`, `GeneratorScopes` | `^`, and scopes that follow one another: violated | |
| `DriverCompilations` | three compilations of two texts by two processes, in sequence and at once, with every fault | 854k |
| `Compiler` | 6200 source texts from their characters to the exit status of the program: expressions over all operators and parentheses, statements in pairs, truncated and with a word missing, comments | 1.02M |

What the properties say, beyond `TypeOK` (one per component; it holds the cursor,
counters and indices to their ranges):

- Parser. `AcceptedIffDerivable`: on programs whose alternatives cannot share a
  first token (`ChoiceFree`; the rest is a finding) a program is accepted without an
  error exactly if the grammar derives it. `PrecedenceTree`: the tree of an expression
  is the one the precedence table asks for, operators without an entry included.
  It is checked in `Compiler` (`ParsedRight`), where trees have values too.
  `TreesWellFormed`: whatever was tried and given up, every node of a tree that is
  returned has children in the number and of the kinds `node_types.h` gives it, an operator
  lies between its operands, and no token is in the tree twice or out of order.
  `StmtProgress` and `Terminates`: no statement loop spins.
  `RejectionIsReported`: NULL is never returned without an error. `StackDepth`: at most
  two calls per token. `CrashOnlyIfUnterminated`: where a missing token can be
  dereferenced.
- Lexer. `TokensAsDocumented`: longest words and literals, nothing of a comment,
  nothing lost. `PositionsRight`, `SpansInOrder`: line and column recomputed from the
  source; tokens are disjoint pieces of it. `TokensFit`, `RejectsOnlyAtLimits`: the
  array is not overrun, and the compilation stops only for more tokens than the array
  holds or for a literal longer than its buffer. `Terminates`. The two about the
  division are for sources in which no comment ends the file and none is followed at once,
  with no character in between, by another (`CommentsApart`): the rest are the findings
  `LexerPhantom` and `LexerComments`.
- Arena. `Disjoint`, `InBlock`: see the inventory. `FailureDepth`: reporting a failed
  allocation, itself an allocation, is at most three deep. `ErrorsShown`: `Cleanup`
  can still read all messages if the arena never grew. `CrashOnlyPastLimits`: every
  store and every message that `Cleanup` prints lies in memory the process has, however
  often the arena grew in place. What can end the process is a `realloc` that failed, or that
  moved the block, after which the callers store through their old pointers (`BadStore`)
  and `PrintErrorStack` reads the old messages (`Cleanup`); and one error more than `ErrStack` holds.
- Generator. For every tree: `NamesUnique`, `ScopesNest`, and `StackMirrored`: no line is
  reached with a stack higher than the generator believed, or of another height at all,
  unless a jump is not level or a declaration has counted a slot nobody pushed. For the
  class of programs it handles (`Clean`): `CleanTexts` (nasm accepts the text, and it is
  `Accounted` and `Level`, so that the stack is exactly as high as believed),
  `ExitsRight` (the exit status is the one the tree means), `CleanEnds`.
- Driver. `OwnProgram`: a compilation that reports success and was not disturbed has left
  the program of its own text, whatever the ones before it, failed, crashed or killed
  at any step, left behind. `ProgramAccepted`: `bin/out` is never made of a text the
  generator refused, and is only damaged after an overlap or a file cut off.
  `NeverSilent`: no way to `EXIT_FAILURE` leaves the error stack empty. `Ends`: every
  compilation ends. `KeepsPromise`: the refinement of `Compilation`. Without `intact` and
  `overlap` these fail: success is also reported after nasm has failed, and `bin/out` is
  then what an earlier compilation left.
- AST output. `WriterFits`: jWrite stays in its two arrays. `AstWholeOrCut`: `bin/ast.json`
  is the text of the whole tree, or a strict beginning of it exactly if the tree is too
  deep or the text too long.
- Compiler. `DriverAllows`: every compilation, phases filled in, takes `Driver`'s steps only,
  so what is assumed of a phase there is what its module does. `HandedOnWell`: tokens
  and nodes are of the kinds and shapes the next phase assumes, on every path, errors
  within scopes included. `ExitsAsWritten`: from characters to exit status, an `exit` of an
  expression has the value of the tree the precedence table asks for. `RunsAsCompiled`:
  programs of the class `Clean` are built and do what their tree means. In its texts an
  expression that has names begins with a number: one that begins with a name is taken
  for an assignment or a call, and refused. Declarations and functions are refused in
  every text, see `ParserGrammar`, so the generator meets them in `MachineRuns` only.

`Clean` is worth a word, because `ExitsRight` rests on it. It asks that names are
defined before they are used, powers are first powers, bodies hold assignments and
exits only, and a bare scope comes before any other scope. Each condition is there
because the program without it is wrong, as a finding or a comparison with the built
program shows; redefinitions, assignments to constants and unknown names, constants
as loop variables, exits in loops and a variable count at its limit are not excluded.
`Meaning` gives no value to a program that overflows, divides by zero or compares
numbers above a byte. The programs outside the class are in the run too: the
properties without `Clean` in their name hold for them.

**Bounds.** They are chosen so that every limit of the code is met and passed.
Parser: a scope of one statement, two in the root, one argument, so that each tested
and untested array is filled. Lexer: four tokens and literals of four
characters, with texts of up to six. Arena: capacity 4 and requests up to 6 make the
first request fit, fit exactly or not, and `MaxAllocs = 5`, `MaxRaised = 3` fill
an error stack of two. Generator: three variables and one scope (overrun by nested
loops), `ExpWrap = 2` instead of 256 for `ExpCount`, words of 64 values and bytes of 8
so that overflow and truncation of the exit status happen with small literals.
Compiler: all strings of four characters and those of five that can begin an expression,
and three operators in a row, with parentheses in different places; five tokens are the
shortest with two operators inside or beside parentheses. Node stack 11 and buffer 210
are met and passed by the deepest and longest trees and by no other; two variables and
one scope. Driver: a third compilation can follow, or overlap, any two others, of
either text; each process may be killed once per step. More processes only add overlap,
which is one bit of the state, and the theorems have no bound.
`GeneratorPowers` has bytes of 256, as its finding names the status. Every action and
every disjunct of the next-state relations is taken in some run.

`Driver.TypeOK` is proved for all instances and not run besides.
Deadlock is checked in all runs; a program that has ended stutters explicitly (`Halt`,
or `Ended` in `Machine`).

## Fairness

`Parser` and `Lexer` use `WF_vars(Next)` and `Machine` uses `WF_allvars(MachNext)` for
their liveness properties: each is one thread that is never blocked, so it is never
kept from its next step for ever. The built program is a second thread that starts
when the first is done; one weak fairness condition covers both, as they never run
at the same time. `Driver` has `WF_vars(Step(p))` for each process: the kernel schedules
every process, and the tools it waits for in `system()` come back. Nothing is assumed of
`Start` and `Kill`, nor of which outcome a step has. `AstOutput` and `Compiler` have no
liveness property of their own. `Arena` has no liveness property: it only reacts to requests.

## Theorems

All theorems but a few are of the form `Spec => []P`, for every value of the constants
(the others are two refinements, an action property, that the machine keeps what holds of the
generator, and one that supposes a program without declarations, as the parser accepts no other); the
assumptions are those in the modules (`ParserAssumption`, `LexerAssumption`,
`ArenaAssumption`, `GeneratorAssumption`, `MachineAssumption`, `DriverAssumption`,
`AstOutputAssumption`, `CompilerAssumption`), which say that limits
are natural numbers, that inputs consist of the characters, tokens or nodes there
are, and that a node has the children its kind has in `node_types.h`. TLC evaluates
them in every run.

| theorem | statement |
|---|---|
| `ParserProofs!TypeCorrect` | the cursor never passes the end of the tokens; frames are well formed |
| `ParserProofs!Progress` | `StmtProgress`: every call of `TryParseStmt` consumes a token before it returns to a loop |
| `ParserProofs!DepthBound` | recursion is at most two calls per consumed token deep, plus five |
| `ParserProofs!RejectionsAreReported` | `RejectionIsReported`: `Parse` returns NULL only after an error |
| `ParserProofs!CrashesAreUnterminated` | `CrashOnlyIfUnterminated`: in a program that ends in a semicolon only the argument loops can ask for a token past the end |
| `ParserProofs!StepsAlwaysDescend` | every step of `Parse` stops it, consumes a token, or lowers the rank of a call and leaves those below it: the safety half of `Terminates` |
| `ParserProofs!TreesAreWellFormed` | `TreesWellFormed`: the trees `TryParse` functions return are of the shapes the generator reads, with their tokens in source order |
| `ParserProofs!TreesAreLow` | a tree has at most as many levels as tokens were consumed for it |
| `LexerProofs!TypeCorrect` | the character cursor passes the end by at most one |
| `LexerProofs!TokenArrayFits` | the token array is never overrun, whatever its capacity |
| `LexerProofs!SpansCorrect`, `PositionsCorrect` | tokens are disjoint and in order; line and column are right |
| `LexerProofs!DividesAsDocumented` | `TokensAsDocumented`: the tokens are exactly the items of the source, for every source, alphabet and capacity |
| `LexerProofs!RejectsForAReason` | `RejectsOnlyAtLimits` |
| `ArenaProofs!AllocationsDisjoint`, `AllocationsInBlock` | objects never overlap; they lie in the block with a byte to spare |
| `ArenaProofs!TypeCorrect` | block, sizes, objects and errors have their types |
| `ArenaProofs!FailureEnds` | reporting a failed resize recurs at most twice |
| `ArenaProofs!MessagesShown` | `ErrorsShown`: the exit handler can read all messages if the arena never grew |
| `ArenaProofs!CrashesExplained` | `CrashOnlyPastLimits` |
| `GeneratorProofs!TypeCorrect` | `ExpCount` stays in its width, and the `Variable*` of an assignment points into the registry when it is used |
| `GeneratorProofs!NamesAreUnique` | no name is registered twice |
| `GeneratorProofs!ScopesAreNested` | `EndScope` always finds an open scope that begins at or below `VarCount` |
| `GeneratorProofs!MachineGenerates` | generator and built process together are a behaviour of the generator, with the three properties above |
| `MachineProofs!StackIsMirrored` | `StackMirrored`, for every set of trees and however often the program jumps |
| `MachineProofs!WithoutDeclarations` | without declarations every text is `Accounted` |
| `DriverProofs!TypeCorrect` | the driver's state has its type |
| `DriverProofs!LeavesOwnProgram`, `OnlyAccepted`, `NoSilentFailure` | `OwnProgram`, `ProgramAccepted`, `NeverSilent`, for any number of processes, texts and compilations and every set of faults |
| `DriverProofs!Refinement` | `Spec => KeepsPromise`: the driver implements `Compilation` |
| `AstOutputProofs!WriterInBounds` | `WriterFits`, for every tree and every size of the two arrays |
| `CompilerProofs!RefinesDriver` | `DriverAllows`: a compilation with its phases filled in takes `Driver`'s steps, for every source and capacity |
| `CompilerProofs!PhasesFit` | `HandedOnWell`: each phase is given what it is written for |
| `CompilerProofs!WriterFitsAlways` | `WriterFits`, for the tree of any source |
| `CompilerProofs!AstWholeOrCutAlways` | `AstWholeOrCut`: `bin/ast.json` is the document of the tree or, where a limit is met, a strict beginning of it; for every source and capacity |

None of these properties is inductive by itself. The strengthenings:

- Parser: `FramesOK` says of every active call that it began at or before the end of
  its span (the place where the call it waits for began, or the cursor); that past the
  instructions it may reach without consuming (`Leading`) it has consumed a token; that
  it waits at an instruction that calls the function above it; and that the call at
  depth k began at a token i with k at most 2i plus a `Weight` of its function.
  The last gives the depth. `Returned` says what the caller can rely on when a call has
  come back: a node stands for at least one token, and so does a failed statement.
  Progress needs both: a statement fails only after resynchronisation, which consumes.
  Rejections rest besides on `Rooted`, that the first call is always `TryParseRoot`, and on
  `Reported`: a function that gives up without an error is never `TryParseStmt`, the
  only one `TryParseRoot` calls (`QuietLemma`).
  A crash: where a function is about to call `TryParseExpr` it has just consumed a token that
  is not a semicolon (`Ready`), and no call within an expression consumes one
  (`Unbroken`); so in a program that ends in a semicolon the cursor is before that one in all
  of an expression, and the tokens it asks for exist. The other instructions test before
  they ask, or leave.
  Descent: `Rank` gives each active call a number up to 415 from its instruction, its
  alternative and whether its callee has come back; a step that consumes nothing lowers
  that of the top call, or of the one below as the top returns. `DepthBound` bounds how many
  ranks there are, so no infinite sequence of steps exists; that conclusion itself
  is about infinite behaviours and stays with TLC.
  Trees: every active call holds as many trees, and of the kinds, as the instructions
  before the one it is at collect (`Held`, a table of `Count` and `Slot` that `HeldTable` checks
  against all bodies); they lie side by side in its span (`Row`), with the operator behind
  them where it waits for a right operand; and what has just been returned fits where its caller
  will put it (`Collected`). A call returns with the cursor behind all it consumed, so a tree that is
  added begins where the others end. That something holds of a whole tree is said for
  every depth of `Within`; how the nodes down to a depth are those of the children down to
  the depth before is proved for the least depth at which it could fail (`AllDepths`).
- Lexer: `Bounds` says that inside the body of the loop (`Within`) the cursor is not past the
  end and the array has room, and that a literal being read began at or before the cursor;
  `SpansOK(Reach)`, that tokens are in order and end before what is being read;
  `Positions`, that line and column of the cursor are right, characterised
  without recursion by the last line break before it (`IsPosition`).
- Division of the source: two arguments, joined. On the source, `Cut` says of a start
  that the items up to it lie side by side and the documented tokens before it are those
  found; `NextCut`, that the same holds behind the item at it. It needs that no other start
  lies within that item, which follows as `Starts` is the least closed set: what remains
  after leaving out the inside of the item is still closed. On `Tokenize`, `Done`
  says that the tokens stored are the documented ones before the cursor, and `At` and `Reading` that what
  has been read of an item is a part of it; the ends of words, numbers and
  comments are characterised without recursion, as the first place where something holds
  (`Find`), by a least-number principle taken from the library's `WFMin`.
- Arena: `Room`, that a byte is left behind the fill pointer; `Behind` and `Apart`, that
  objects end before it and before one another; `Pending`, that every active call of
  `_Alloc` above the first is for the message of a failed resize, and that the third fits,
  as the arena believes it has grown for the two before it. `ErrorsShown` rests on `Kept`
  besides: growing is strict, so an arena of its first size is still in its first block.
- Generator: an entry or a store is *pending* between the lookup that justifies it and
  the step that performs it. While one is, every task before it in the queue is part
  of an expression (`Ordered`), and none of those touches a name or shortens the
  registry, so the lookup is still right (`Pending`). Scopes: the ends in the queue are
  as many as the open scopes, but for a loop about to begin (`Balanced`), proved by
  counting positions; and the positions in `ScopeRegistry` are sorted and at most
  `VarCount` (`Nested`).
- Stack: every task in the queue is `Sound` (a task that counts a slot writes a line that pushes one,
  and so on), so that each line's `StackPtr` and the next one's differ by the effect of the line, or by
  more where a declaration has no value (`Accounts`). On the machine (`Mirrored`): the stack
  is at most as high as the line about to run was written for, and exactly as high if the
  text is `Accounted`; it holds along a line and, where jumps are level, across
  a jump, whatever path has led there.
- Arena, crashes: until `realloc` moves the block, all objects are in the first one (`Blocks`), and until
  it fails they end before what the block has (`Room`, `Behind`), so every object is `Readable` (`InReach`),
  the messages among them (`Kept`); a step that crashes is then a store past `ErrStack` (`NextCrash`).
- Driver: `StatusInv` and `MessageInv` tie the exit status, the step and the error stack of a
  process together (a failure has raised a message); `AloneInv`, that the intact process
  is the only one since it began; `WriterInv`, that files being written belong to a running
  process and are torn; `IntactInv`, what asm, object and program hold at each step of an
  intact compilation; `AcceptedInv`, that every file holds an accepted text unless it is
  damaged or absent. One lemma for each, by the actions of `Next`.
- Refinement: initial states map to initial states, and each action to a step of
  `Compilation` or a stutter; only `Ld` builds, and that it builds the right text for a fair
  job is `IntactInv`.
- Compiler: `Control` says where `main` can be with which status. What a phase does within
  itself changes nothing `Driver` sees, which is what `Stutter` needs to know of it; only
  the calls and returns are steps of `Driver`, one for one. For `HandedOnWell` the theorems of
  `ParserProofs` are taken over: its constants are replaced by those of `Compiler`, its
  assumption is proved of them (`ParserTaken`), and a step of the parser in its place here
  is one of the parser there (`SameParser`), started on any sequence of kinds, which is what
  `Tokenized` leaves (`KindsOfTokens`, from `KeysSpelled`: a word taken for a keyword is one).
  What Parse returns in the end is the node of `TryParseRoot` (`RootReturned`). The tree
  the generator reads is made layer by layer (`SeenIs`); a node of it at depth `e` is what
  is made of a node of the parser's tree at that depth or above (`SeenShaped`), and each
  kind of node is given the children it should have (`ViewShaped`).
- AST output: `Good`, that a writer has its type, holds its root and is within the two
  bounds; each operation keeps it, with or without an error (one lemma per operation). That a node of a tree has a writable shape is not needed.
- What is written: a tree is read at *places*, a node with the kind of value it is written as and
  a level above the nodes below it. In a `WellRead` document every place has the children its
  Output function goes on to (`Legible`) and the value `AstReference` gives it. A `Config` is a
  stack of the writer, the text still to come and the heights it will need; `Leads` says how
  a call takes one to the next, and one lemma per Output function shows that the calls of its body lead
  where the call itself does. So what is left to do always leads from where the writer is to the
  end of the document (`OnWay`, in `Whole`), until the first error, after which the buffer
  is a strict beginning of the document and a limit is passed (`Stopped`). That a limit passed is
  passed by the document too, and not only by the calls, is `x.heights` of the invariant.
  On the parser's side, the tree needs its shape, as for `HandedOnWell`, and a bound on its depth:
  `Collected` also says that what an active call holds has at most as many levels as the tokens spent on it
  (`Low`, `Slim`), less the one that is in none of its trees, where there is one (`Spent`, a table checked
  against all bodies),
  and `RootDepth` that no statement of a program is deeper than it has tokens. `TreeReadable` joins the two.

What stays with TLC: liveness (`Terminates`, `CleanEnds`, `Ends`), which needs `ENABLED` and
a well-founded measure over behaviours; for the parser the measure and its descent are
proved. Comparisons with references that recur on derivations or on what a program means
(`AcceptedIffDerivable`, `PrecedenceTree`, `ExitsRight`, `CleanTexts`, and
`ExitsAsWritten`, `RunsAsCompiled` and `ParsedRight` of `Compiler`): what a recursive operator
computes is established by induction over data, which the provers at hand cannot do.
`LexerReference` and `AstReference` were in that list and are not any more: the division of a
source can be said as a least set, and the document of a tree as a function of how many levels
are left, whose equation is all the proof uses.

## Disagreements

Each is a run TLC finds violated, on purpose; the lines quoted are in `PROJECT.json`.

- `ParserGrammar`: alternatives that give up keep the tokens they consumed, so `f();`,
  `exit x;` and `i32: var x;` are rejected and `exit f(7);` means `exit 7;`.
- `LexerPhantom`: a comment at the end of the file yields a token for the
  terminating NUL, and the program is rejected.
- `LexerComments`: of two comments that follow one another at once the second loses its
  first `$`. Of two comment lines the second opens a block comment and swallows code; of
  two block comments (`$a$$b$`) the second is read as code.
- `ArenaMoves`: after "Max arena size exceeded; resizing" every pointer handed out before
  may be dangling.
- `GeneratorPowers`: `a ^ n` is `a` to the power `n + 1` for `n` above 1, and `a * a`
  for `n` = 0; only `n` = 1 is right.
- `GeneratorScopes`: programs with two scopes in a row define `.sb` twice under one
  label, and nasm rejects them.

Met on the way, and modelled, but with no document that says otherwise: a scope opens
no scope of variables; `while` runs its body once before its condition, repeats it
when the condition *is 1*, and leaks a slot per turn; second definitions, assignments
to constants and to unknown names are dropped silently; an unknown name in an
expression pushes nothing, so the pop that follows takes something else.

## Limits of the models

- Values of tokens, names and messages are members of small sets. Literals are short
  enough for the `char[100]` and `char[20]` buffers of the generator; `vsprintf` into
  `MsgRoot` is not bounded by the model.
- Memory is not modelled as bytes. Each untested store past an array has two outcomes:
  no harm, or the end of the process. What such a store overwrites is left out: past
  `VarRegistry` lies `ScopeRegistry`, past the block the heap, whose damage `free` may
  notice later.
- The text of the generator is a sequence of instructions; comments, the two sections
  nothing is written to, their capacity and operand sizes are left out, the 32 bits of
  `push`'s immediate included. So are
  floating-point literals, which nasm would turn into their bits.
- Trees given to the generator are of the shapes the parser builds
  (`GeneratorAssumption`); `TreesAreWellFormed` proves on the parser's side that the children
  of its nodes are of those kinds.
- The statistics the arena prints, logging and colours are left out.
- A lexeme of the AST output is written whole or not at all, where jWrite may cut one.
- What nasm and ld do with a text is `Machine`; that they make files, fail or stop halfway is
  `Driver`. The two are joined in `Compiler` for tools that fail on what they are given.
  Object files have no contents.
- A compilation that cannot allocate its arena ends before `main` does anything else; it is
  not in `Driver`. `bin/ast.json`, which nothing reads, is a file of `AstOutput` and none of
  `Driver`'s.
- Not modelled: `util/hash.c` (called by nothing), what jWrite offers and nothing calls
  (pretty printing, `jw_bool`, `jw_null`, its conversion of numbers), `OutputInterval`
  (called by nothing), and `char AST[2 MiB]` as a share of the C stack.

## Plan

Done, in this order: `Parser` (the core: every later part depends on the tree),
`Lexer`, `Arena`, `Generator` with `Machine`, `Driver` with `Compilation`, `AstOutput`,
`Compiler`, and the proofs above. To do:

1. Refinement: `Parser` restricted to `ChoiceFree` programs implements a nondeterministic
   derivation.
2. `ParserReference` said as a least set, as `LexerReference` is, so that parts of
   `AcceptedIffDerivable` can be proved.
3. `Compiler` within the arena: the phases' requests in the order they make them, so that
   a growing arena meets the pointers each phase keeps.
