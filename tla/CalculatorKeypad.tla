-------------------------- MODULE CalculatorKeypad --------------------------
(***************************************************************************)
(* The calculator that two behavior profiles share: the logical engine     *)
(* (profiles/calculator-engine.ts) and the membrane keypad                 *)
(* (profiles/membrane-keypad.ts), which adds the key last pressed.         *)
(*                                                                         *)
(* Numbers are exact fractions <<n, d>>: the rounding of a result to ten   *)
(* digits is left out, a result too long to show is one above MaxValue.    *)
(* display and entry are texts: the keys that were typed, or a result.     *)
(***************************************************************************)
EXTENDS Integers, Sequences

CONSTANTS
    None,
    DigitOf,        \* digit key -> its value
    Operators,      \* the operator keys in use
    MaxEntry,       \* 16 in the source: characters of an entry
    MaxValue,       \* results beyond it do not fit the display
    MaxPresses      \* bound: actions applied

VARIABLES
    profile,        \* "keypad" or "engine"
    calculator,     \* CalculatorState
    lastKey,        \* of the keypad
    emitted,        \* events of the last reduction
    meant,          \* ghost: the calculation as numbers: acc, op, and cur, the number being typed
    presses

keypadVars == <<profile, calculator, lastKey, emitted, meant, presses>>

Digits == DOMAIN DigitOf
Keys == Digits \cup Operators \cup {".", "=", "C"}

Typed(keys) == [error |-> FALSE, keys |-> keys, value |-> None]
Result(v) == [error |-> FALSE, keys |-> <<>>, value |-> v]
Error == [error |-> TRUE, keys |-> <<>>, value |-> None]

-----------------------------------------------------------------------------
(* Numbers.                                                                *)
Abs(n) == IF n < 0 THEN -n ELSE n
SameNumber(a, b) == a[1] * b[2] = b[1] * a[2]

TooLong(v) == Abs(v[1]) > MaxValue * v[2]

Arithmetic(a, op, b) ==
    CASE op = "+" -> <<a[1] * b[2] + b[1] * a[2], a[2] * b[2]>>
      [] op = "-" -> <<a[1] * b[2] - b[1] * a[2], a[2] * b[2]>>
      [] op = "*" -> <<a[1] * b[1], a[2] * b[2]>>
      [] op = "/" -> IF b[1] < 0 THEN <<-(a[1] * b[2]), a[2] * Abs(b[1])>>
                     ELSE <<a[1] * b[2], a[2] * (IF b[1] = 0 THEN 1 ELSE b[1])>>

\* compute and formatNumber; None where the display says Error
Compute(a, op, b) ==
    IF op = "/" /\ b[1] = 0 THEN None
    ELSE LET v == Arithmetic(a, op, b) IN IF TooLong(v) THEN None ELSE v

HasDot(keys) == \E n \in DOMAIN keys : keys[n] = "."

\* Number(text): digits before and after the dot
NumberOf(keys) ==
    LET read[n \in 0..Len(keys)] ==
            IF n = 0 THEN [num |-> 0, den |-> 1, dot |-> FALSE]
            ELSE IF keys[n] = "." THEN [read[n - 1] EXCEPT !.dot = TRUE]
            ELSE [read[n - 1] EXCEPT !.num = 10 * @ + DigitOf[keys[n]],
                                     !.den = IF read[n - 1].dot THEN 10 * @ ELSE @]
    IN  <<read[Len(keys)].num, read[Len(keys)].den>>

Number(text) == IF text.keys = <<>> THEN text.value ELSE NumberOf(text.keys)

-----------------------------------------------------------------------------
(* The reducer.  None: the key is ignored.                                 *)
initialCalculatorState ==
    [display |-> Typed(<<"0">>), entry |-> <<>>, operand |-> None, operator |-> None, fresh |-> TRUE]
errorCalculatorState == [initialCalculatorState EXCEPT !.display = Error]

Entered(s, keys) == [s EXCEPT !.display = Typed(keys), !.entry = keys, !.fresh = FALSE]
EnteredIfShort(s, keys) == IF Len(keys) > MaxEntry THEN None ELSE Entered(s, keys)
Current(s) == IF ~s.fresh /\ s.entry # <<>> THEN Typed(s.entry) ELSE s.display

DigitKey(s, key) ==
    IF s.fresh THEN Entered(s, <<key>>)
    ELSE EnteredIfShort(s, IF s.entry = <<"0">> THEN <<key>> ELSE Append(s.entry, key))

DotKey(s) ==
    IF s.fresh THEN Entered(s, <<"0", ".">>)
    ELSE IF HasDot(s.entry) THEN None
    ELSE EnteredIfShort(s, Append(s.entry, "."))

\* the pending operation is computed, its result shown and kept as the operand of the next
Chained(s, next) ==
    LET v == Compute(s.operand, s.operator, Number(Current(s))) IN
    IF v = None THEN errorCalculatorState
    ELSE [display |-> Result(v), entry |-> <<>>, operand |-> IF next = None THEN None ELSE v,
          operator |-> next, fresh |-> TRUE]

OperatorKey_AlwaysComputes(s, key) ==
    IF s.operator # None THEN Chained(s, key)
    ELSE [display |-> Current(s), entry |-> <<>>, operand |-> Number(Current(s)), operator |-> key, fresh |-> TRUE]

OperatorKey(s, key) ==
    IF s.operator # None /\ ~s.fresh THEN Chained(s, key)
    ELSE IF s.operator # None THEN [s EXCEPT !.operator = key]
    ELSE [display |-> Current(s), entry |-> <<>>, operand |-> Number(Current(s)), operator |-> key, fresh |-> TRUE]

ErrorKey(s, key) ==
    IF key \in Digits THEN Entered(initialCalculatorState, <<key>>)
    ELSE IF key = "." THEN Entered(initialCalculatorState, <<"0", ".">>)
    ELSE s

reduceCalculatorKey(s, key) ==
    CASE key = "C" -> initialCalculatorState
      [] key # "C" /\ s.display.error -> ErrorKey(s, key)
      [] key \in Digits /\ ~s.display.error -> DigitKey(s, key)
      [] key = "." /\ ~s.display.error -> DotKey(s)
      [] key \in Operators /\ ~s.display.error -> OperatorKey(s, key)
      [] key = "=" /\ ~s.display.error -> IF s.operator = None THEN s ELSE Chained(s, None)

-----------------------------------------------------------------------------
(* What the keys mean as numbers.                                          *)
Zero == <<0, 1>>
Blank == [acc |-> Zero, op |-> None, cur |-> None, shift |-> 0, failed |-> FALSE]

\* shift: 0 before the dot, then ten to the digits after it
MeansDigit(m, d) ==
    IF m.cur = None THEN [m EXCEPT !.cur = <<d, 1>>]
    ELSE IF m.shift = 0 THEN [m EXCEPT !.cur = <<10 * @[1] + d * @[2], @[2]>>]
    ELSE [m EXCEPT !.cur = <<10 * @[1] + d, 10 * @[2]>>, !.shift = 10 * @]

MeansTotal(m, next) ==
    LET right == IF m.cur = None THEN m.acc ELSE m.cur
        v == IF m.op = None THEN right ELSE Compute(m.acc, m.op, right)
    IN  IF v = None THEN [Blank EXCEPT !.failed = TRUE] ELSE [Blank EXCEPT !.acc = v, !.op = next]

Means(m, key) ==
    IF key = "C" THEN Blank
    ELSE IF key \in Digits THEN MeansDigit(IF m.failed THEN Blank ELSE m, DigitOf[key])
    ELSE IF key = "." THEN LET b == IF m.failed THEN Blank ELSE m
                           IN  [b EXCEPT !.shift = 1, !.cur = IF @ = None THEN Zero ELSE @]
    ELSE IF m.failed THEN m
    ELSE IF key = "=" THEN IF m.op = None THEN m ELSE MeansTotal(m, None)
    ELSE IF m.op # None /\ m.cur = None THEN [m EXCEPT !.op = key] ELSE MeansTotal(m, key)

-----------------------------------------------------------------------------
(* The two profiles.                                                       *)
DisplayChanged(s) == [event |-> "displayChanged", shows |-> s.display]
KeyPressed(key) == [event |-> "keyPressed", shows |-> Typed(<<key>>)]

PressKey(key) ==
    LET next == reduceCalculatorKey(calculator, key) IN
    /\ IF next = None THEN emitted' = <<>> /\ UNCHANGED <<calculator, lastKey, meant>>
       ELSE /\ calculator' = next /\ meant' = Means(meant, key)
            /\ IF profile = "keypad"
               THEN lastKey' = key /\ emitted' = <<KeyPressed(key), DisplayChanged(next)>>
               ELSE UNCHANGED lastKey /\ emitted' = <<DisplayChanged(next)>>
    /\ UNCHANGED profile

\* calculator.clear, which the keypad does not have
ClearCalculator ==
    /\ profile = "engine"
    /\ calculator' = initialCalculatorState /\ meant' = Blank
    /\ emitted' = <<DisplayChanged(initialCalculatorState)>>
    /\ UNCHANGED <<profile, lastKey>>

KeypadInit ==
    /\ profile \in {"keypad", "engine"} /\ calculator = initialCalculatorState /\ lastKey = None
    /\ emitted = <<>> /\ meant = Blank /\ presses = 0

KeypadNext ==
    /\ presses < MaxPresses /\ presses' = presses + 1
    /\ (\E key \in Keys : PressKey(key)) \/ ClearCalculator

KeypadSpec == KeypadInit /\ [][KeypadNext]_keypadVars

-----------------------------------------------------------------------------
\* Whatever keys are pressed, the display shows the number the calculation is
\* at: the one being typed, or the total of what was entered, from left to
\* right; it shows Error exactly when the calculation failed.
DisplayIsTrue ==
    IF meant.failed THEN calculator.display.error
    ELSE /\ ~calculator.display.error
         /\ SameNumber(Number(calculator.display), IF meant.cur = None THEN meant.acc ELSE meant.cur)

\* A rule that shows the text of the event shows what the calculator shows, and
\* the summary of an untouched keypad ("display value is 0") is true.
EventsTellDisplay ==
    /\ emitted # <<>> => emitted[Len(emitted)].shows = calculator.display
    /\ lastKey = None /\ profile = "keypad" => calculator = initialCalculatorState
=============================================================================
