# TLA+ models of Resilient

Resilient (`src/resilient`) is a small language engine written in Rust. Its
parts are a lexer, a parser, a tree-walking evaluator with lexical
environments, a `live { ... }` block that retries its body and rolls the
environment back on failure, and an optional static type checker. This
directory holds TLA+ models of those parts, the TLC configurations that check
them, and `PROJECT.json`, which maps every TLA+ definition to the Rust lines it
models.

## The system and how its parts interact

Source text goes through Lexer → Parser → AST → (type checker, with
`--typecheck`) → Interpreter (`execute_file`, `main.rs` 1230-1255). The REPL
(`start_repl`, 1092-1228) runs the same pipeline for each line, keeping one
Interpreter for the whole session.

| Part | Source | Model | Status |
|---|---|---|---|
| Lexer | `main.rs` 13-259 | `Lexer` | modelled |
| AST (`enum Node`) | `main.rs` 262-311 | `ResilientAst` | partly (no prefix nodes, which the Parser never builds) |
| Parser | `main.rs` 313-710 | `Parser` | modelled |
| Recovering parser | `parser.rs` | — | not modelled: not compiled, and ill-typed |
| Environment | `main.rs` 745-784 | `Interpreter` (`env`) | modelled |
| Evaluator | `main.rs` 786-1089 | `Interpreter`, `IEEEFloat` | partly (no prefix operators, which no parsed program reaches) |
| Live-block controller | `main.rs` 888-918 | `Interpreter`, `LiveBlock` | modelled; refinement checked |
| Type checker | `typechecker.rs` | `TypeChecker` | partly (no prefix operators) |
| `execute_file` | `main.rs` 1230-1255 | `ExecuteFile` | the type-check gate |
| REPL | `main.rs` 1092-1228 | `Repl` | partly (history file I/O left out) |
| Enhanced REPL | `repl.rs` | — | not compiled; terminal I/O |
| Example generation | `main.rs` 1257-1381 | — | writes fixed files: pure I/O |
| Example programs | `examples/*.rs` | `MC_ExecuteFile` | partly: `no_params.rs` whole; the others panic the Parser early |
| `nolang` | `src/nolang` | — | a separate arithmetic demo with no state |

The engine is single-threaded and synchronous, so the hard behaviour here is
not concurrency. It is:

- the order in which a recursive evaluator hands results and errors back
  through its frames (Return markers, `?` propagation, call boundaries);
- the retry loop with its snapshot and restore;
- integer edges;
- whether two independent walks (the checker and the evaluator) agree;
- the character-level contract of the lexer.

## Modules

- **`ResilientAst`**: the AST as records tagged by `kind`, one constructor
  per `Node` variant. Absent optional children are `None`.
- **`Interpreter`**: the evaluator as a small-step machine. The Rust code is
  recursive, and the model makes its call stack explicit:
  - `ctl` is what the evaluator is doing. It is evaluating a node, handing a
    value back, propagating an `Err`, or the process has panicked.
  - `stack` holds one frame per Rust activation that waits for a sub-result:
    - a statement loop (`eval_program` / `eval_block_statement`);
    - a pending `let`, `return`, `if`, `assert` or its message;
    - the left or right side of an infix expression;
    - a callee and its arguments (`eval_expressions`);
    - a function activation, which holds the caller's environment;
    - a live block, which holds `env_snapshot` and `retry_count`.
  - Each action is one match arm of `eval`, or the continuation of one after
    a sub-call returns. `LiveRetry`, `LiveExhaust` and `LiveSucceed` are the
    three outcomes of `eval_live_block`'s loop.
  - `env` is the running Interpreter's environment. Outer links of an
    `Environment` are never written (a closure owns a clone), so the chain is
    flattened to one function with the same lookups. `get` and `set`
    are `Environment::get` and `Environment::set` on it.
  - `overflowChecks` is the build profile. It is chosen in `Init` because
    i64 `+ - *` panics on overflow in a debug build and wraps in a release
    build. i64 is modelled at width `IntWidth`. `i64::MIN / -1` panics in
    both profiles.
- **`IEEEFloat`**: Rust's `f64` at a reduced width, the way `IntWidth`
  reduces i64. `FloatPrec` significand bits and exponents up to `FloatEmax`.
  - A finite value is a sign and an integer count of the smallest
    subnormal. Signed zeros, infinities and NaN are values of their own.
  - `Round` rounds to nearest, ties to even, and overflows to infinity. It is
    closed form (a recursive `BinadeOf` finds the binade) so that TLC can
    evaluate it inside `ENABLED`.
  - `FAdd`, `FSub`, `FMul`, `FDiv`, `FEq`, `FLt` and `FromInt` (`as f64`)
    follow the IEEE rules for NaN, infinities and zero signs.
  - `Interpreter` uses it for `eval_float_infix_expression` and the mixed
    Int/Float arms of `eval_infix_expression` (`main.rs` 972-1027), and
    `is_truthy` treats `0.0` and `-0.0` as false.
- **`LiveBlock`**: the abstract live-block state machine of spec section 4.5.
  It has a stack of blocks in progress, each with its attempt number and
  restore point, and a flag saying whether a failure is propagating.
  - Its actions are Enter, Retry (restores and counts), Exhaust (leaves after
    the last attempt and keeps the failure) and Succeed.
  - `Interpreter` instantiates it with the live frames of its stack as
    `blocks`, and checks `LB!Spec` as a property.
- **`TypeChecker`**: `TypeChecker::check_node` as a recursive operator that
  threads a type environment, plus `check_program`.
- **`ExecuteFile`**: the composition of `Interpreter` and `TypeChecker` that
  `execute_file` performs.
  - `typeCheck` is the `--typecheck` flag.
  - A program the checker rejects ends at once with `TypeCheckFailed`.
  - Any other program is evaluated.
- **`Lexer`**: `Lexer::next_token` as a recursive operator over the input
  (a sequence of one-character strings) and a 0-based `position`.
  - Each call by the parser is one `NextToken` step. It appends the token with
    the span it was read from, or sets `panicked`.
  - `impl Display for Value` is modelled as well, for the literal round trip.
- **`Parser`**: the `Parser` of `main.rs` over a token sequence `toks`.
  - Position `i` stands for the parser after its i-th `next_token`:
    `current_token` is `T(i)` and `peek_token` is `T(i + 1)`. Past the end,
    `T` is `Eof`, as the Lexer returns it forever.
  - Each `parse_*` method is a recursive operator. It returns the node and
    the position of `current_token` when it returns (`R(node, pos)`), or
    `Fail` when the method panics (a `panic!` or an `unwrap` of `None`).
  - `Then` and `Unwrap` chain the calls. A panic unwinds every caller, and
    `.unwrap()` of `None` panics.
  - `parse_program`'s loop is the state machine. `ParseStatement` parses one
    statement, pushes it unless it is `None`, and advances (`StatementParsed`).
    `Finish` returns at `Eof`. `status` records a panic.
- **`Repl`**: `start_repl`, composed of the three components it drives.
  - It EXTENDS `Interpreter` and `TypeChecker`, and instantiates `Parser`
    as `P` over its own variables `ptoks`, `pcur`, `pstmts`, `pstatus`.
  - `input` is the session's lines and `ln` the next one. A line is a
    command text (`Cmd`) or code given as the tokens of the line as written
    (`Code`). The real Lexer drops the character after an identifier
    (`lexer_drop`); the REPL model leaves that out so lines reach the evaluator.
  - `mode` is where the loop is: reading, parsing a line, evaluating it,
    or exited. `typeCheckEnabled` is the `typecheck` toggle.
  - One action per arm of the loop: `ReadlineEnds` (Ctrl-C, Ctrl-D or end of
    input), `SkipLine` (empty, help, clear, examples), `ExitCommand`,
    `ToggleTypecheck` and `StartParse`.
  - `ParseStep` is a step of the line's Parser.
  - `LineParsed` is the check gate. A fresh `check_program` rejects the line,
    or the evaluation starts.
  - `EvalStep` is a step of the one Interpreter. `env` is never reset.
  - `LineAnswered` is the printing of the value or the error.
- **MC modules** (`MC_Interpreter`, `MC_Repl`, `MC_ExecuteFile`, `MC_Lexer`,
  `MC_LexerRoundTrip`, `MC_Parser`) hold the inputs: AST programs written with the
  constructors, and sets of source texts.
  - `MC_ExecuteFile` includes `examples/no_params.rs` whole as `NoParams`. Its
    string literals are stand-ins, and 42 is written as 2 to fit `IntWidth`.

## Runs

| Run | Config | Expect | What it checks |
|---|---|---|---|
| interp_core | `MC_Interpreter.cfg` | pass | `TypeOK`, `SuccessOnlyOnFirstAttempt`, `ReturnMarkerContained`, `ErrorsPropagate`, `Termination`, `DivisionByZeroFails`, `MixedOrderSound`, and `LiveBlockRefinement`: the evaluator implements `LiveBlock` |
| interp_overflow | `MC_InterpreterEdge.cfg` | violation | `NoPanic`: overflow inside a live block aborts the process |
| typecheck_agree | `MC_ExecuteFile.cfg` | violation | `WellTypedRunsAgree`: a checked program fails with "Identifier not found" (`println`) or "Type mismatch" (`"..." + int`, or a name rebound in a live body) |
| lexer_core | `MC_Lexer.cfg` | pass | `TypeOK`, `GapsSkippable`, `LexemesGreedy`, `EndOfInputSticky` over every text of up to 4 characters |
| parser_core | `MC_Parser.cfg` | pass | `TypeOK`, `PrecedenceClimbing`, `ParsesAsWritten`, `StrayTokenSkipped` |
| parser_wellformed | `MC_ParserWellFormed.cfg` | violation | `ParsesAsWritten`: `assert(x);` and `if x { ... }` panic |
| parser_unclosed | `MC_ParserUnclosed.cfg` | violation | `UnclosedBlockRejected`: `live {` at end of input is accepted |
| live_scope | `MC_InterpreterScope.cfg` | violation | `LiveBodyScoped`: a `let` in a live body is still bound after the block succeeds |
| repl_core | `MC_Repl.cfg` | pass | `ReplTypeOK`, `LinesAnswered` over every session of up to three lines |
| lexer_drop | `MC_LexerDrop.cfg` | violation | `NoCharacterDropped`: the character after an identifier is skipped |
| lexer_roundtrip | `MC_LexerRoundTrip.cfg` | violation | `LiteralRoundTrip`: printed literals do not lex back |

What the passing properties say:

- **SuccessOnlyOnFirstAttempt**: a restore makes every retry replay the failed
  attempt, so a live block never succeeds after failing. The "self-healing"
  retry can only repeat a failure.
- **ReturnMarkerContained**: a `Value::Return` is never bound to a name. It
  only reaches a statement loop, a live block or a call boundary, never the
  program's result.
- **ErrorsPropagate**: an `Err` outside every live block always reaches the
  top as the run's error result.
- **Termination**: every program finishes.
- **LiveBlockRefinement**: every evaluator step is a step of the abstract
  live-block machine.
  - Failures are absorbed only by a retry that restores that block's
    snapshot.
  - A block is left only on success or after its third attempt.
  - Nested blocks are included.
- **DivisionByZeroFails**: an Int or Float `/` whose divisor is `0`, `0.0`
  or `-0.0` fails with `DivisionByZero`, even in a float division, where
  IEEE would give an infinity or NaN. A computed `-0.0` and a NaN divisor
  are included; the NaN divisor does not fail.
- **MixedOrderSound**: `as f64` rounds an Int that is wider than the
  significand, so `5 == 4.0` is true at the model's widths, as
  `2^53 + 1 == 2^53 as f64` is in Rust. The rounding can merge two numbers but
  never reverse them: a mixed `<` or `>` that is true is true of the exact
  values, whichever side the Int is on.
- **GapsSkippable**: between tokens there is only whitespace and comment text.
- **LexemesGreedy**: a token is the longest lexeme (`==` over `=`,
  identifiers and numbers are not cut short, `//` is a comment).
- **EndOfInputSticky**: once a token ends past the input, every later call
  returns `Eof`, and no string literal holds the NUL that `read_char` yields
  past the end (an escape at the last character included).

- **LinesAnswered**: every line the REPL starts to evaluate is answered
  unless the process panics.

- **PrecedenceClimbing**: every operator chain parses into the tree that
  splits it at its rightmost weakest operator, with the ranks of spec
  section 4.2. Calls are included.
- **ParsesAsWritten**: `let`, `return`, call, `fn` and `live` statements,
  one or two of them and nested, are read back into the AST they were
  rendered from, with no panic.
- **StrayTokenSkipped**: a stray `)` or `}` between any two of those
  top-level statements, or before or after them,
  is skipped by `parse_statement`'s `None` arm, and the rest still parses as
  written.

Each of these is shown to be sensitive by a mutant in `PROJECT.json`. The
mutant is a plausible bug in the modelled code: a missing restore or
increment, an off-by-one retry limit, a Return marker not unwrapped, a
swallowed Err, an unbounded integer parse, a comment loop that ignores
newlines, or a scan loop that stops one character early, a right-associative infix
parse, parameters pushed as (name, type), a loop that skips a token, an escape
read past the end, a `None` statement that panics, or a float zero test that
misses `-0.0`, or an Int/Float arm that swaps its operands. TLC finds each
mutant's property violated.

Findings (details in `PROJECT.json`):

1. i64 overflow and `MIN / -1` panic instead of failing.
2. Retries can never heal.
3. The checker knows `println` but the evaluator does not.
4. The checker accepts operand types the evaluator rejects.
5. The lexer drops the character after every identifier.
6. `Display` does not round-trip literals.
7. The Parser panics on `assert(x)`, `if x { }` and `(x)`, because
   `parse_expression` leaves `current_token` on the last token of the
   expression. `assert(f())` parses only because the call ends in `)`.
8. A block left open at end of input is accepted without error.
9. A live block does not get its own environment (spec section 3): a `let`
   in its body is still bound after the block succeeds.
10. The checker scopes every block, while the evaluator shares one
    environment. A program that rebinds `x` as a string inside a live body
    passes the check and then fails on `x + 1`.

## Bounds and why they are enough

- **Interpreter** (`IntWidth = 4`, so i64 is -8..7). The programs cover every
  node kind the evaluator handles:
  - a live block that fails on every attempt, whose body rebinds a variable;
  - division by zero and a computed divisor inside a live block;
  - `return` from inside an if inside a live block inside a function;
  - nested live blocks;
  - closures, including one that captures a variable, one with an empty
    body, and one that calls itself;
  - a missing argument;
  - type mismatches and a call of a non-function;
  - both build profiles.

  Every action and every disjunct fires. Width 4 makes `7 + 1` and
  `-8 / -1` reachable with the same code paths as i64.
  - Floats use `FloatPrec = 2`, `FloatEmax = 3`: values from the smallest
    subnormal 1/8 to 12, with every class of value. The significand (2 bits)
    is narrower than the Int's 3 value bits, as f64's 53 bits are narrower
    than i64's 63, so `5` and `7` round when converted (to 4 and 8).
  - Each of `5` and `7` is compared with `4.0`, `6.0` and `8.0` by `<`, `>`
    and `==`, the Int on either side.
  - A float program computes `-0.0`, an infinity and a NaN, branches on
    `-0.0`, asserts `nan != nan`, and divides by five divisors: an Int zero,
    `0.0`, `-0.0`, NaN and 1/3.
- **Lexer**: every text of length ≤ 4 over 11 characters, one from each class
  `next_token` distinguishes, plus the keyword `if`. That is 16,105 inputs.
  The longest construct that matters (`//` + newline + token, a
  quote-backslash-quote string, `7.7.`) fits in four characters.
  `MaxCalls = 6` lets the parser call `next_token` again after `Eof`.

- **Parser**: three input families, 7,511 token sequences.
  - Every chain of up to three operators over `+ - * == <`, which is one
    operator of each rank and two of the same rank. Each operand is `a` or
    `a()`.
  - Every sequence of one or two statements from eight forms that
    exercise every statement parser. These are parameters, arguments,
    nested blocks, a live block inside a function, and `assert(f())`.
  - Every sequence of up to three tokens over 17 kinds, which reaches the
    panics and the `None` statements.
  - Every well-formed sequence of statements with a stray `)` or `}` put
    before, between or after its top-level statements.

  The violation runs use the same statements plus `if` and `assert(x)`, and
  every prefix of them for the unclosed block.

- **REPL**: every session of up to three lines over a pool of ten lines,
  1,111 sessions in all.
  - The commands are `typecheck`, `help`, the empty line and `exit`.
  - The code lines are `let x = 1;` and a live block dividing by zero.
  - Also `fn f(int a) { return a; }`, `f(x);` and `"a" + x;`.
  - Last, `assert(x);`, on which the Parser panics.

  Three lines are enough to define, toggle the check and use. They reach a
  line that uses an earlier binding, a failed line followed by another, and
  a closure over an earlier line's environment.
  - Bindings kept across lines are what the REPL is for, so no property
    says a line starts fresh. The lines a checked REPL line fails on are
    the checker's own over-acceptance (`println`, `"a" + 1`), which
    `typecheck_agree` already shows for whole files.

## Fairness

The evaluator is one synchronous thread that runs to completion (spec section
5). Weak fairness on the whole next-state relation
(`WF_vars(Next)`) says exactly that an enabled step is taken, which is all
`Termination` and `ErrorsPropagate` need. In the REPL only evaluation is fair (`WF(EvalStep \/ LineAnswered)`).
Nothing makes a user type the next line, and parsing needs no fairness for
the property checked. The runs set `CHECK_DEADLOCK FALSE`
because a finished evaluation, or a lexer whose caller stopped calling, really
does stop.

## Not modelled, and why

- **Prefix operators.** The `main.rs` Parser never builds a
  `PrefixExpression`, so `eval_prefix_expression` and the checker's prefix
  arm are dead code.
- **Unbounded recursion.** A closure cannot see its own name (its
  environment is cloned before the name is bound, `main.rs` 801-807), but a
  function passed itself, `fn h(int f) { return f(f); } h(h);`, recurses until
  the Rust stack overflows and the process aborts. That behaviour has no
  finite state graph, and the stack size is not in the source. It is listed
  as a hazard without a property.
- **Five of the six example programs.** Each writes `if cond {` without
  parentheses in its first functions, and the Parser panics there, as
  finding 7 shows. Nothing after that point runs.
- **`eprintln` logging.** It does not change state.
- **File reading, argument parsing, example generation and the REPL's history
  file.** These are I/O.
- **`repl.rs`.** It is not compiled.
- **`parser.rs`.** It is not compiled (`main.rs` has no `mod parser`), and it
  would not type-check. `parse_statement` wraps `Result`s in `Ok` (lines
  125-129), and the file redefines the `Node` it imports (lines 2 and 768).
  The compiler gives it no behaviour to model.
- **`nolang`.** It is a separate program with no state.

## Plan for the next sittings

1. **Lexer and Parser composed.** Parse what the Lexer produces from
   source text: the dropped `(` after `assert` and `fn name`.
2. **REPL on source text.** Feed the REPL's lines through the Lexer as well.
3. **Float lines in the REPL.** Add a float line to the REPL's pool, so that
   a binding of `-0.0` or NaN is carried from one line to the next.
