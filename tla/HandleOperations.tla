-------------------------- MODULE HandleOperations --------------------------
(***************************************************************************)
(* The OperationCode surface of the Handle Graph (operations.rs): how many *)
(* inputs each operation takes, and which Handle Types it accepts and      *)
(* returns.  A Handle Type is one of two symbolic types; a sequence of     *)
(* Handle Types stands for the types of an operation's ordered inputs.     *)
(***************************************************************************)
EXTENDS Integers, Sequences

HandleType == {"Sbool", "Suint256"}

Arithmetic == {"Add", "Sub"}
Comparison == {"Eq", "Lt", "Lte", "Gt", "Gte"}
Logical    == {"And", "Or", "Not"}

OperationCode == Arithmetic \cup Comparison \cup Logical \cup {"Select"}

\* The number of inputs validate_arity insists on.
ExpectedArity(op) == CASE op = "Not"    -> 1
                       [] op = "Select" -> 3
                       [] OTHER         -> 2

(***************************************************************************)
(* The type the rules of op require of input i, and of the output, when    *)
(* the inputs have the types ins.  Only Select looks at ins: both branches *)
(* and the output share the type of the when-true branch.                  *)
(***************************************************************************)
RequiredInput(op, ins, i) ==
  CASE op \in Arithmetic \cup Comparison -> "Suint256"
    [] op \in Logical                    -> "Sbool"
    [] op = "Select"                     -> IF i = 1 THEN "Sbool" ELSE ins[2]

RequiredOutput(op, ins) ==
  CASE op \in Arithmetic           -> "Suint256"
    [] op \in Comparison \cup Logical -> "Sbool"
    [] op = "Select"               -> ins[2]

InputTypesOK(op, ins) == \A i \in DOMAIN ins : ins[i] = RequiredInput(op, ins, i)

OutputTypeOK(op, ins, out) == out = RequiredOutput(op, ins)
=============================================================================
