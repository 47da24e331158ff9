---------------------------- MODULE MCCalculator ----------------------------
(***************************************************************************)
(* Calculator for TLC, with ints of 3 bits: -4 .. 3.                       *)
(***************************************************************************)
EXTENDS Calculator

Typed(op, fields, x, y) == [op |-> op, fields |-> fields, x |-> x, y |-> y]

\* A product that overflows, a division by zero, the quotient that is not an
\* int, and an invalid command.
MCLine ==
  {Typed("MUL", 3, 3, 2), Typed("DIV", 3, 1, 0), Typed("DIV", 3, -4, -1), Typed("SUB", 2, 1, 0)}

\* parser and calculate answer every line of this width as they should, where
\* the quotient is an int.
NoInt == [error |-> 0, number |-> Nothing]
ASSUME AnswersAreRight ==
  \A op \in {"ADD", "SUB", "DIV", "MUL", "other"}, x, y \in Int32, fields \in 2 .. 3 :
    LET line == Typed(op, fields, x, y)
    IN Expected(line) \in {NoInt, Result(Calculate(Parser(NewInfo, line)))}
=============================================================================
