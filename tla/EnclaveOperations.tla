-------------------------- MODULE EnclaveOperations -------------------------
(***************************************************************************)
(* The operations the local Enclave evaluates                              *)
(* (enclave-runtime/src/operation.rs).  A Private Value is a payload of    *)
(* Length bytes, most significant first, in the radix of a byte; the code  *)
(* fixes them at 32 and 256.  Arithmetic works through the bytes from the  *)
(* last to the first with a carry or a borrow.                             *)
(***************************************************************************)
EXTENDS HandleOperations

CONSTANTS
  Radix,   \* the values of a byte
  Length   \* the bytes of a payload

ASSUME PayloadAssumption == Radix \in Nat \ {0, 1} /\ Length \in Nat \ {0}

Position == 1..Length
Payload  == [Position -> 0..(Radix - 1)]

(***************************************************************************)
(* SupportedOperation: which operations the Enclave takes, for which       *)
(* output type, and the ordered inputs it expects of each.                 *)
(***************************************************************************)
SupportedOperation(op, out) ==
  \/ op \in Arithmetic /\ out = "Suint256"
  \/ op \in Comparison \cup Logical /\ out = "Sbool"
  \/ op = "Select" /\ out \in HandleType

\* Mutant: Not is taken for an operation of two inputs.
ArityOfTwo(op) == IF op = "Select" THEN 3 ELSE 2

Arity(op) == CASE op = "Not"    -> 1
               [] op = "Select" -> 3
               [] OTHER         -> 2

InputTypeTags(op, out) ==
  CASE op \in Arithmetic \cup Comparison -> <<"Suint256", "Suint256">>
    [] op \in {"And", "Or"}              -> <<"Sbool", "Sbool">>
    [] op = "Not"                        -> <<"Sbool">>
    [] op = "Select"                     -> <<"Sbool", out, out>>

(***************************************************************************)
(* Evaluation.                                                             *)
(***************************************************************************)
\* Mutant: the carry is not taken out of a byte.
AddUnreduced(lhs, rhs) == [i \in Position |-> lhs[i] + rhs[i]]

\* The carry into each byte.
Carry(lhs, rhs) ==
  LET carry[i \in Position] ==
        IF i = Length THEN 0 ELSE (lhs[i + 1] + rhs[i + 1] + carry[i + 1]) \div Radix
  IN  carry

AddSuint256(lhs, rhs) ==
  LET carry == Carry(lhs, rhs)
  IN  [i \in Position |-> (lhs[i] + rhs[i] + carry[i]) % Radix]

\* The borrow from each byte.
Borrow(lhs, rhs) ==
  LET borrow[i \in Position] ==
        IF i = Length THEN 0
                      ELSE IF lhs[i + 1] - rhs[i + 1] - borrow[i + 1] < 0 THEN 1 ELSE 0
  IN  borrow

SubSuint256(lhs, rhs) ==
  LET borrow  == Borrow(lhs, rhs)
      diff(i) == lhs[i] - rhs[i] - borrow[i]
  IN  [i \in Position |-> IF diff(i) < 0 THEN diff(i) + Radix ELSE diff(i)]

\* cmp_be_u256: the first byte that differs decides.
Less(lhs, rhs) ==
  \E i \in Position : lhs[i] < rhs[i] /\ \A j \in 1..(i - 1) : lhs[j] = rhs[j]

BoolToPayload(b) == [i \in Position |-> IF i = Length /\ b THEN 1 ELSE 0]

\* Lenient: any byte that is not zero means true.
PayloadToBool(p) == \E i \in Position : p[i] # 0

Evaluate(op, ins) ==
  CASE op = "Add" -> AddSuint256(ins[1], ins[2])
    [] op = "Sub" -> SubSuint256(ins[1], ins[2])
    [] op = "Eq"  -> BoolToPayload(ins[1] = ins[2])
    [] op = "Lt"  -> BoolToPayload(Less(ins[1], ins[2]))
    [] op = "Lte" -> BoolToPayload(Less(ins[1], ins[2]) \/ ins[1] = ins[2])
    [] op = "Gt"  -> BoolToPayload(Less(ins[2], ins[1]))
    [] op = "Gte" -> BoolToPayload(Less(ins[2], ins[1]) \/ ins[1] = ins[2])
    [] op = "And" -> BoolToPayload(PayloadToBool(ins[1]) /\ PayloadToBool(ins[2]))
    [] op = "Or"  -> BoolToPayload(PayloadToBool(ins[1]) \/ PayloadToBool(ins[2]))
    [] op = "Not" -> BoolToPayload(~PayloadToBool(ins[1]))
    [] op = "Select" -> IF PayloadToBool(ins[1]) THEN ins[2] ELSE ins[3]

(***************************************************************************)
(* The meaning of the operations, on numbers.                              *)
(***************************************************************************)
\* The number the first bytes of a payload stand for, for each count of bytes.
Prefixes(p) ==
  LET upto[i \in 0..Length] == IF i = 0 THEN 0 ELSE Radix * upto[i - 1] + p[i]
  IN  upto

\* The number a payload stands for.
Number(p) == Prefixes(p)[Length]

\* The powers of the radix: how many numbers so many bytes can stand for.
Powers == LET power[i \in 0..Length] == IF i = 0 THEN 1 ELSE Radix * power[i - 1] IN power

Modulus == Powers[Length]

Truth(b) == IF b THEN 1 ELSE 0

\* suint256 arithmetic wraps; a comparison or logical operation yields 0 or 1.
Meaning(op, x) ==
  CASE op = "Add" -> (x[1] + x[2]) % Modulus
    [] op = "Sub" -> (x[1] + Modulus - x[2]) % Modulus
    [] op = "Eq"  -> Truth(x[1] = x[2])
    [] op = "Lt"  -> Truth(x[1] < x[2])
    [] op = "Lte" -> Truth(x[1] <= x[2])
    [] op = "Gt"  -> Truth(x[1] > x[2])
    [] op = "Gte" -> Truth(x[1] >= x[2])
    [] op = "And" -> Truth(x[1] # 0 /\ x[2] # 0)
    [] op = "Or"  -> Truth(x[1] # 0 \/ x[2] # 0)
    [] op = "Not" -> Truth(x[1] = 0)
    [] op = "Select" -> IF x[1] # 0 THEN x[2] ELSE x[3]
=============================================================================
