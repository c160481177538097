-------------------------------- MODULE Repl --------------------------------
(***************************************************************************)
(* start_repl (src/resilient/src/main.rs lines 1092-1228): the read-eval- *)
(* print loop, composed of the Parser, the TypeChecker and ONE            *)
(* Interpreter that lives for the whole session.                          *)
(*                                                                         *)
(* A line is either one of the REPL's commands (the trimmed text is       *)
(* matched first) or source code, given as tokens: the tokens of the     *)
(* line as written.  The real Lexer drops the character after an         *)
(* identifier (see MC_LexerDrop); this composition leaves that out so    *)
(* that the lines reach the evaluator.  Code is parsed by a fresh Parser *)
(* (the Parser module, instantiated over the variables ptoks..pstatus),  *)
(* checked, when type checking is on, by a fresh TypeChecker, and        *)
(* evaluated by the session's Interpreter, whose environment carries     *)
(* over between lines.                                                    *)
(*                                                                         *)
(* History loading and saving, prompts, colours and the printed text are  *)
(* left out: they do not change what is evaluated.                        *)
(***************************************************************************)
EXTENDS Interpreter, TypeChecker

CONSTANT Sessions   \* the sequences of lines readline may return

VARIABLES
  input,              \* the lines of this session, in order
  ln,                 \* the index of the next line readline returns
  typeCheckEnabled,   \* type_check_enabled
  mode,               \* "read", "parse", "eval" or "exit"
  ptoks, pcur, pstmts, pstatus   \* the Parser of the current line

rvars == <<vars, input, ln, typeCheckEnabled, mode, ptoks, pcur, pstmts, pstatus>>
replVars == <<input, ln, typeCheckEnabled, mode>>
parserVars == <<ptoks, pcur, pstmts, pstatus>>

P == INSTANCE Parser WITH toks <- ptoks, cur <- pcur, stmts <- pstmts,
                          status <- pstatus, TokenInputs <- {}

\* A line of input: a command text, or code as Lexer tokens.
Cmd(text) == [text |-> text, toks |-> <<>>]
Code(ts)  == [text |-> "code", toks |-> ts]

\* The texts the command match (lines 1134-1175) answers without parsing.
\* The empty line is skipped before it (line 1126).
SkippedTexts == {"", "help", "clear", "examples"}

\* Interpreter::new(), type_check_enabled = false, before the loop.
ReplInit ==
  /\ input \in Sessions
  /\ ln = 1
  /\ typeCheckEnabled = FALSE
  /\ mode = "read"
  /\ ctl = Return(Void) /\ stack = <<>> /\ env = EmptyEnv
  /\ overflowChecks \in BOOLEAN
  /\ ptoks = <<>> /\ pcur = 1 /\ pstmts = <<>> /\ pstatus = "done"

Line == input[ln]

\* readline returns Err: Ctrl-C, Ctrl-D or the end of input (lines
\* 1207-1218).  The loop breaks.  The user may do this at any prompt.
ReadlineEnds ==
  /\ mode = "read"
  /\ mode' = "exit"
  /\ UNCHANGED <<vars, input, ln, typeCheckEnabled, parserVars>>

\* An empty line, help, clear or examples: print, continue.
SkipLine ==
  /\ mode = "read" /\ ln <= Len(input) /\ Line.text \in SkippedTexts
  /\ ln' = ln + 1
  /\ UNCHANGED <<vars, input, typeCheckEnabled, mode, parserVars>>

\* "exit" | "quit" => break.
ExitCommand ==
  /\ mode = "read" /\ ln <= Len(input) /\ Line.text \in {"exit", "quit"}
  /\ ln' = ln + 1 /\ mode' = "exit"
  /\ UNCHANGED <<vars, input, typeCheckEnabled, parserVars>>

\* "typecheck" toggles the flag.
ToggleTypecheck ==
  /\ mode = "read" /\ ln <= Len(input) /\ Line.text = "typecheck"
  /\ ln' = ln + 1 /\ typeCheckEnabled' = ~typeCheckEnabled
  /\ UNCHANGED <<vars, input, mode, parserVars>>

\* Any other line: Lexer::new and Parser::new for it (lines 1180-1181).
StartParse ==
  /\ mode = "read" /\ ln <= Len(input) /\ Line.text = "code"
  /\ ln' = ln + 1 /\ mode' = "parse"
  /\ ptoks' = Line.toks /\ pcur' = 1 /\ pstmts' = <<>> /\ pstatus' = "parsing"
  /\ UNCHANGED <<vars, input, typeCheckEnabled>>

\* parse_program runs; a panic in it ends the process.
ParseStep ==
  /\ mode = "parse"
  /\ P!Next
  /\ UNCHANGED <<vars, replVars>>

\* parse_program returned: with type checking on, a fresh TypeChecker
\* checks the program and an Err skips the line (lines 1185-1193);
\* otherwise interpreter.eval(&program) starts.
LineParsed ==
  /\ mode = "parse" /\ pstatus = "done"
  /\ IF typeCheckEnabled /\ ~check_program(Prog(pstmts))
       THEN mode' = "read" /\ UNCHANGED <<ctl, stack>>
       ELSE mode' = "eval" /\ ctl' = Eval(Prog(pstmts)) /\ stack' = <<>>
  /\ UNCHANGED <<env, overflowChecks, input, ln, typeCheckEnabled, parserVars>>

\* interpreter.eval runs on the session's environment.
EvalStep ==
  /\ mode = "eval"
  /\ Next
  /\ UNCHANGED <<replVars, parserVars>>

\* eval returned Ok or Err: the value or the error is printed and the
\* loop reads the next line (lines 1196-1205).  Nothing is undone.
LineAnswered ==
  /\ mode = "eval" /\ stack = <<>> /\ ctl.tag \in {"val", "err"}
  /\ mode' = "read"
  /\ UNCHANGED <<vars, input, ln, typeCheckEnabled, parserVars>>

ReplNext ==
  \/ ReadlineEnds \/ SkipLine \/ ExitCommand \/ ToggleTypecheck
  \/ StartParse \/ ParseStep \/ LineParsed \/ EvalStep \/ LineAnswered

\* One thread, synchronous: once a line is being evaluated, an enabled
\* step of the evaluation is eventually taken.  Nothing forces the user to
\* type a next line, so reading is not fair.
ReplSpec == ReplInit /\ [][ReplNext]_rvars /\ WF_rvars(EvalStep \/ LineAnswered)

-----------------------------------------------------------------------------
(* Properties.                                                             *)

\* The process panicked: in parse_program or in eval.
Crashed == pstatus = "panic" \/ ctl.tag = "panic"

\* The Interpreter's own type invariant, and the loop's variables.
ReplTypeOK ==
  /\ TypeOK
  /\ mode \in {"read", "parse", "eval", "exit"}
  /\ ln \in 1..Len(input) + 1
  /\ typeCheckEnabled \in BOOLEAN
  /\ pstatus \in {"parsing", "done", "panic"}
  /\ mode = "eval" => pstatus = "done"

\* Every line the session's Interpreter starts to evaluate is answered:
\* its value or its error is printed and the loop reads again, unless the
\* process panicked.  Earlier lines' bindings, closures over them and live
\* blocks that fail every attempt included.
LinesAnswered == mode = "eval" ~> (mode = "read" \/ Crashed)

=============================================================================
