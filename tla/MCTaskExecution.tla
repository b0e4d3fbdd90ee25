--------------------------- MODULE MCTaskExecution --------------------------
(***************************************************************************)
(* Payloads of two bits.  Two suint256 sources a and b and an sbool source *)
(* p; a Derived Handle d of any operation on them, and c derived from d.   *)
(* An approved Enclave, the same image restarted with another key, and     *)
(* another image.                                                          *)
(***************************************************************************)
EXTENDS TaskExecution, TLC

CONSTANTS a, b, p, d, c, image, other, key1, key2

MCPayload   == [1..2 -> 0..1]
MCHandleKey == {a, b, p, d, c}
MCSources   == a :> "Suint256" @@ b :> "Suint256" @@ p :> "Sbool"

Task(k, op, out, ins) ==
  [output_handle_key |-> k, operation_code |-> op, output_handle_type |-> out,
   input_handle_keys |-> ins]

NumberTask(op) == Task(d, op, "Suint256", <<a, b>>)
BoolTask(op)   == Task(d, op, "Sbool", <<a, b>>)

\* Every operation; two of the Derived Handles are inputs of another.
MCPrograms ==
  {{NumberTask("Add")}, {BoolTask("Eq")}, {BoolTask("Lte")}, {BoolTask("Gt")}, {BoolTask("Gte")},
   {NumberTask("Sub"), Task(c, "Select", "Suint256", <<p, d, a>>)},
   {BoolTask("Lt"), Task(c, "And", "Sbool", <<d, p>>)},
   {Task(d, "Not", "Sbool", <<p>>), Task(c, "Or", "Sbool", <<p, d>>)}}

\* All pairs of numbers; p is true, in the lenient encoding, for half of them.
MCSourcePayloads ==
  {a :> x @@ b :> y @@ p :> <<y[2], 0>> : x \in MCPayload, y \in MCPayload}

MCEnclave ==
  {[measurement |-> image, key_id |-> key1], [measurement |-> image, key_id |-> key2],
   [measurement |-> other, key_id |-> key1]}

\* MPC binds the id the Enclave goes by, as the tests of the runtime do.
EnclaveTaskId(t, i) == RequestIdForEnclaveTask(t)

\* MPC binds the id of the request it answers.
RequestItself(t, i) == RequestIdForTaskInput(t, i)
=============================================================================
