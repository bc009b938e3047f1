---------------------------- MODULE FirmwareRun ----------------------------
(***************************************************************************)
(* The three interpreters of Arduino sources: the page's Browser Check     *)
(* (firmwareCommands.ts), the simulation in the browser (runtime.ts) and   *)
(* the simulation of the backend (behavioral.py).  Each executes a subset  *)
(* of the language statement by statement and reports whether the program  *)
(* ran or only a part of it.                                               *)
(*                                                                         *)
(* A program is a syntax tree: expressions are abstracted to whether the   *)
(* interpreter can evaluate them.  The check cuts the text at every        *)
(* semicolon without minding braces, the backend does so in loops; Cut     *)
(* says what they see of it.                                               *)
(***************************************************************************)
EXTENDS Naturals, Sequences

CONSTANTS
    Programs,       \* records of setup and loop, sequences of statements
    Duration,       \* milliseconds to run for
    MaxStatements,  \* the interpreters' limits
    MaxIterations

VARIABLES engine, program, target, run

firmwareVars == <<engine, program, target, run>>

Engines == {"check", "runtime", "backend"}
Unknown == "unknown"
Junk == [op |-> "junk"]

-----------------------------------------------------------------------------
RECURSIVE Has(_, _)
\* the statement or one inside it is of this kind
Has(block, op) ==
    \E i \in DOMAIN block :
        \/ block[i].op = op
        \/ block[i].op \in {"if", "while"} /\ (Has(block[i].body, op) \/ Has(block[i].else, op))

\* kinds of statement whose braces an interpreter does not see
Flattens(e) == CASE e = "check" -> {"if", "while"} [] e = "backend" -> {"while"} [] e = "runtime" -> {}

RECURSIVE Cut(_, _, _)
\* The text between semicolons: a header sticks to the first statement of its
\* body, a closing brace to the statement that follows it.
Cut(block, glued, e) ==
    IF block = <<>> THEN <<>>
    ELSE LET h == Head(block) IN
         IF h.op \in Flattens(e)
         THEN Cut(h.body, TRUE, e) \o Cut(h.else, TRUE, e) \o Cut(Append(Tail(block), Junk), TRUE, e)
         ELSE <<IF glued THEN Junk ELSE h>> \o Cut(Tail(block), FALSE, e)

Statements(block) == Cut(block, FALSE, engine)

\* What a look at the source reports before anything runs.  The backend takes
\* for, while and switch for calls that it knows.
Mentions(p, op) == Has(p.setup, op) \/ Has(p.loop, op)
PreflightSource(p) == Mentions(p, "call") \/ Mentions(p, "while")
CollectUnsupported(p) == Mentions(p, "call")
Preflight(p) == IF engine = "backend" THEN CollectUnsupported(p) ELSE PreflightSource(p)

FirmwareInit ==
    /\ engine \in Engines
    /\ program \in Programs
    /\ target \in {"bound", "mismatched"}
    /\ run = [stage |-> "waits", todo |-> <<>>, cursor |-> 0, before |-> 0, statements |-> 0,
              iterations |-> 0, partial |-> FALSE, trace |-> <<>>, claim |-> "none"]

\* A target that does not fit its board is refused; otherwise setup begins.
Begin ==
    /\ run.stage = "waits"
    /\ run' = IF target = "mismatched" THEN [run EXCEPT !.stage = "done", !.claim = "refused"]
              ELSE [run EXCEPT !.stage = "setup", !.todo = Statements(program.setup), !.partial = Preflight(program)]
    /\ UNCHANGED <<engine, program, target>>

-----------------------------------------------------------------------------
Flagged(r) == [r EXCEPT !.partial = TRUE]
Stamp(cursor) == IF engine # "backend" /\ cursor > Duration THEN Duration ELSE cursor
Wrote(r, pin, value) == [r EXCEPT !.trace = Append(@, [pin |-> pin, value |-> value, at |-> Stamp(r.cursor)])]
Waited(r, ms) == [r EXCEPT !.cursor = @ + ms]
Into(r, block) == [r EXCEPT !.todo = Statements(block) \o @]

\* of a tone, the value is its duration
Evaluable(h) == h.op \in {"write", "delay", "tone"} /\ h.value # Unknown
Plain(r, h) ==
    CASE h.op = "write" -> Wrote(r, h.pin, h.value)
      [] h.op = "delay" -> Waited(r, h.ms)
      [] h.op = "tone" -> Wrote(Waited(Wrote(r, h.pin, "on"), h.ms), h.pin, "off")

\* The check executes what it can evaluate and reports everything else, but for
\* a tone of a duration that it cannot evaluate, which begins and never ends.
RunStatement(r, h) ==
    CASE Evaluable(h) -> Plain(r, h)
      [] h.op = "tone" /\ ~Evaluable(h) -> Wrote(r, h.pin, "on")
      [] OTHER -> Flagged(r)

\* The simulation in the browser reports that tone, too, and leaves it out.
ExecuteStatement(r, h) == IF Evaluable(h) THEN Plain(r, h) ELSE Flagged(r)

\* It enters the branch of a condition that it can
\* evaluate, and skips both branches, and whole loops, otherwise.
ExecuteBlock_TakesElse(r, h) ==
    IF h.op # "if" THEN ExecuteStatement(r, h)
    ELSE IF h.cond = Unknown THEN Into(Flagged(r), h.else) ELSE Into(r, IF h.cond = "true" THEN h.body ELSE h.else)
ExecuteBlock(r, h) ==
    IF h.op # "if" THEN ExecuteStatement(r, h)
    ELSE IF h.cond = Unknown THEN Flagged(r) ELSE Into(r, IF h.cond = "true" THEN h.body ELSE h.else)

\* The backend takes what it cannot evaluate for false, zero or nothing.
BackendStatement(r, h) ==
    CASE h.op = "if" -> Into(r, IF h.cond = "true" THEN h.body ELSE h.else)
      [] h.op = "write" /\ ~Evaluable(h) -> Wrote(r, h.pin, "off")
      [] h.op = "tone" /\ ~Evaluable(h) -> Plain(r, [h EXCEPT !.ms = 0])
      [] h.op # "if" /\ Evaluable(h) -> Plain(r, h)
      [] OTHER -> r

Executed(r, h) ==
    CASE engine = "check" -> RunStatement(r, h)
      [] engine = "runtime" -> ExecuteBlock(r, h)
      [] engine = "backend" -> BackendStatement(r, h)

Limited == run.statements >= MaxStatements
AtLimit_Silent(r) == r
\* the check reports a statement beyond its limit, the simulations just stop
AtLimit(r) == IF engine = "check" THEN Flagged(r) ELSE r

Step ==
    /\ run.stage \in {"setup", "loop"} /\ run.todo # <<>>
    /\ LET rest == [run EXCEPT !.todo = Tail(@)]
           counts == Head(run.todo).op # "if" \/ engine = "check"
       IN  run' = IF Limited THEN AtLimit([rest EXCEPT !.todo = IF engine = "check" THEN @ ELSE <<>>])
                  ELSE Executed(IF counts THEN [rest EXCEPT !.statements = @ + 1] ELSE rest, Head(run.todo))
    /\ UNCHANGED <<engine, program, target>>

\* the loop goes on while time is left and an iteration takes time
Goes(r) ==
    /\ r.iterations < MaxIterations
    /\ r.iterations = 0 \/ (r.cursor < Duration /\ r.cursor # r.before)
    /\ r.iterations = 0 \/ engine # "check" \/ r.statements < MaxStatements

Iterate ==
    /\ run.stage \in {"setup", "loop"} /\ run.todo = <<>>
    /\ program.loop # <<>> /\ Goes(run)
    /\ run' = [run EXCEPT !.stage = "loop", !.todo = Statements(program.loop), !.before = run.cursor, !.iterations = @ + 1]
    /\ UNCHANGED <<engine, program, target>>

Report ==
    /\ run.stage \in {"setup", "loop"} /\ run.todo = <<>>
    /\ program.loop = <<>> \/ ~Goes(run)
    /\ run' = [run EXCEPT !.stage = "done", !.claim = IF run.partial THEN "partial" ELSE "executed"]
    /\ UNCHANGED <<engine, program, target>>

FirmwareNext == Begin \/ Step \/ Iterate \/ Report

-----------------------------------------------------------------------------
Does(m, pin, value) == [m EXCEPT !.trace = Append(@, [pin |-> pin, value |-> value, at |-> m.cursor])]
Somehow(m) == Does(m, Unknown, Unknown)

RECURSIVE Meaning(_, _)
\* what a block does: its writes, at their times, and the time that passes
Meaning(block, m) ==
    IF block = <<>> THEN m
    ELSE LET h == Head(block) IN
         Meaning(Tail(block),
            CASE h.op = "write" -> Does(m, h.pin, h.value)
              [] h.op = "delay" -> IF h.value = Unknown THEN Somehow(m) ELSE Waited(m, h.ms)
              [] h.op = "tone" -> IF h.value = Unknown THEN Somehow(m)
                                  ELSE Does(Waited(Does(m, h.pin, "on"), h.ms), h.pin, "off")
              [] h.op = "if" -> IF h.cond = Unknown THEN Somehow(m)
                                ELSE Meaning(IF h.cond = "true" THEN h.body ELSE h.else, m)
              [] OTHER -> Somehow(m))

RECURSIVE Looped(_)
Looped(m) == LET next == Meaning(program.loop, m) IN
             IF next.cursor >= Duration \/ next.cursor = m.cursor THEN next ELSE Looped(next)

Reference ==
    LET setup == Meaning(program.setup, [trace |-> <<>>, cursor |-> 0])
    IN  IF program.loop = <<>> THEN setup.trace ELSE Looped(setup).trace

\* no loops inside a block, no expression beyond the interpreter
Understood ==
    \A block \in {program.setup, program.loop} :
        ~Has(block, "while") /\ \A i \in DOMAIN block : \A f \in {"value", "cond"} \cap DOMAIN block[i] : block[i][f] # Unknown
TonesUnderstood ==
    \A block \in {program.setup, program.loop} : \A i \in DOMAIN block : block[i].op = "tone" => block[i].value # Unknown
TrueOf(e) == CASE e = "backend" -> Understood [] e = "check" -> TonesUnderstood [] e = "runtime" -> TRUE

\* the event tells the write, at its time or, in the page, at the latest at the
\* run's end
Tells(event, write) ==
    /\ event.pin = write.pin /\ event.value = write.value
    /\ event.at = IF engine = "backend" \/ write.at <= Duration THEN write.at ELSE Duration

\* A run that is reported as executed wrote what the program writes, in its
\* order and at its times, up to the end or to one of the limits; the page gives
\* the run's end as the time of what comes after it.  The backend's report is
\* true of the programs that it understands, the check's of programs whose
\* tones have a duration that it can evaluate.
ExecutedIsTrue ==
    run.claim = "executed" /\ TrueOf(engine) =>
        LET sketch == Reference IN
        /\ Len(run.trace) <= Len(sketch) /\ \A i \in DOMAIN run.trace : Tells(run.trace[i], sketch[i])
        /\ run.iterations < MaxIterations /\ (engine = "check" \/ ~Limited) => Len(run.trace) = Len(sketch)

\* Partial or not, the browser's simulation never executes what stands under a
\* condition or a loop that it cannot evaluate.
SkipsWhole ==
    engine = "runtime" => \A i \in DOMAIN run.trace : run.trace[i].pin # "doubtful"

=============================================================================
