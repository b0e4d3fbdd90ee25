--------------------------- MODULE ChainLogDecoder --------------------------
(***************************************************************************)
(* decode_chain_log (handle-graph-core/src/chain_log_decoder.rs): the      *)
(* Chain Event a raw log of the symVM Event Surface stands for, if any.    *)
(* Handles are named on the chain by a Handle Id alone; the decoder makes  *)
(* them Handle Keys, with the chain of the log and the contract its third  *)
(* topic names.                                                            *)
(*                                                                         *)
(* An operator that returns Ok(e) or Err is here the set {e} or {}: which  *)
(* error it is decides nothing.  ABI bytes are the record of the fields    *)
(* they encode, tagged with the event whose layout they are the canonical  *)
(* encoding of; bytes that are no such encoding have any other tag.  The   *)
(* topic of an address is a word of 32 bytes: the address and the 12 bytes *)
(* before it.                                                              *)
(***************************************************************************)
EXTENDS HandleGraph

CONSTANT ChainLogs   \* the logs the chain may emit, sound or not

\* sol!: the events, by their names for the hashes of their signatures.
SymVmEvent == {"HandleImportedV1", "HandleFromPlaintextV1", "OperationRequestedV1"}

\* A log has any number of topics and any data.
IsChainLog(log) ==
  log = [chain_id |-> log.chain_id, contract_address |-> log.contract_address,
         event_ref |-> log.event_ref, topics |-> log.topics, data |-> log.data]

ASSUME ChainLogsAssumption == \A log \in ChainLogs : IsChainLog(log)

\* Discriminants are 1-based; every other byte is refused.
HandleTypeFromByte(byte) ==
  IF byte \in 1..2 THEN {<<"Suint256", "Sbool">>[byte]} ELSE {}

OperationCodeFromByte(byte) ==
  IF byte \in 1..11
    THEN {<<"Add", "Sub", "Eq", "Lt", "Lte", "Gt", "Gte", "And", "Or", "Not", "Select">>[byte]}
    ELSE {}

ExpectFourTopics(log) == Len(log.topics) = 4

\* decode_exact_event: the data are the encoding of this event, byte by byte.
ExactEvent(log) == log.data.abi = log.topics[1]

\* Mutant: a handle's contract is the one that emitted the log.
KeyAtEmitter(log, id) ==
  [chain_id |-> log.chain_id, contract_address |-> log.contract_address, handle_id |-> id]

\* The address in the third topic.  Decoding drops the bytes before it, whatever
\* they are: decode_exact_event encodes the data again, not the topics.
ContractOf(log) == log.topics[3].address

\* The key of an operation's input.
InputKey(log, id) ==
  [chain_id |-> log.chain_id, contract_address |-> ContractOf(log), handle_id |-> id]

\* The Handle Key of the handle a log names in its topics.
NamedKey(log) ==
  [chain_id |-> log.chain_id, contract_address |-> ContractOf(log), handle_id |-> log.topics[4]]

\* The envelope must be canonical, which is to say a SystemCiphertext.
DecodeImported(log) ==
  {[kind |-> "ImportedHandle", domain_id |-> log.topics[2], handle_key |-> NamedKey(log),
    handle_type |-> t, system_ciphertext |-> c, event_ref |-> log.event_ref] :
     t \in HandleTypeFromByte(log.data.handle_type),
     c \in {log.data.system_ciphertext} \cap SystemCiphertext}

DecodePlaintext(log) ==
  {[kind |-> "PlaintextHandle", domain_id |-> log.topics[2], handle_key |-> NamedKey(log),
    handle_type |-> t, public_value |-> log.data.plaintext, event_ref |-> log.event_ref] :
     t \in HandleTypeFromByte(log.data.handle_type)}

DecodeOperation(log) ==
  LET ids == log.data.input_handles
  IN  {[kind |-> "DerivedHandleOperation", domain_id |-> log.topics[2],
        handle_key |-> NamedKey(log), operation_code |-> op, output_handle_type |-> t,
        input_handle_keys |-> [i \in DOMAIN ids |-> InputKey(log, ids[i])],
        event_ref |-> log.event_ref] :
          t \in HandleTypeFromByte(log.data.output_type),
          op \in OperationCodeFromByte(log.data.operation)}

DecodeChainLog(log) ==
  IF ~ExpectFourTopics(log) \/ log.topics[1] \notin SymVmEvent \/ ~ExactEvent(log)
    THEN {}
    ELSE CASE log.topics[1] = "HandleImportedV1"      -> DecodeImported(log)
           [] log.topics[1] = "HandleFromPlaintextV1" -> DecodePlaintext(log)
           [] log.topics[1] = "OperationRequestedV1"  -> DecodeOperation(log)

DecodedEvents == UNION {DecodeChainLog(log) : log \in ChainLogs}

\* The graph is fed what the decoder yields.
ASSUME DecodedAssumption == ChainEvents = DecodedEvents

(***************************************************************************)
(* Safety.                                                                 *)
(***************************************************************************)
\* Lineage never leaves the chain and the contract of its handle.  Logs name
\* inputs by Handle Ids, which are unique within a contract only, and the graph
\* compares their domains and types, which handles of two contracts may share:
\* decoded under any other contract, say the one that emitted the log, an
\* operation could be accepted over the wrong handles.
LineageWithinContract ==
  \A k \in DOMAIN records : \A i \in Inputs(records[k]) :
    i.chain_id = k.chain_id /\ i.contract_address = k.contract_address
=============================================================================
