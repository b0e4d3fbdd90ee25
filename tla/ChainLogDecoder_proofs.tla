----------------------- MODULE ChainLogDecoder_proofs -----------------------
(***************************************************************************)
(* Lineage stays within the contract of its handle, in every graph that is *)
(* fed what decode_chain_log yields, for any logs.                         *)
(***************************************************************************)
EXTENDS ChainLogDecoder, HandleGraph_proofs

SameContract(i, k) == i.chain_id = k.chain_id /\ i.contract_address = k.contract_address

\* The decoder makes the keys of an operation and of its inputs alike.
LEMMA DecodedOperation ==
  ASSUME NEW e \in DecodedEvents, e \in DerivedHandleOperation
  PROVE  \A i \in DOMAIN e.input_handle_keys :
           SameContract(e.input_handle_keys[i], e.handle_key)
<1>1. PICK log \in ChainLogs : e \in DecodeChainLog(log)
  BY DEF DecodedEvents
<1>2. e.kind = "DerivedHandleOperation"
  BY DEF DerivedHandleOperation
<1>3. e \notin DecodeImported(log) /\ e \notin DecodePlaintext(log)
  BY <1>2 DEF DecodeImported, DecodePlaintext
<1>4. e \in DecodeOperation(log)
  <2>1. \/ e \in DecodeImported(log)
        \/ e \in DecodePlaintext(log)
        \/ e \in DecodeOperation(log)
    BY <1>1 DEF DecodeChainLog, SymVmEvent
  <2>. QED
    BY <2>1, <1>3
<1>5. PICK ids :
        /\ e.handle_key = NamedKey(log)
        /\ e.input_handle_keys = [i \in DOMAIN ids |-> InputKey(log, ids[i])]
  <2>. DEFINE ids == log.data.input_handles
  <2>1. PICK t \in HandleTypeFromByte(log.data.output_type),
             op \in OperationCodeFromByte(log.data.operation) :
          e = [kind |-> "DerivedHandleOperation", domain_id |-> log.topics[2],
               handle_key |-> NamedKey(log), operation_code |-> op,
               output_handle_type |-> t,
               input_handle_keys |-> [i \in DOMAIN ids |-> InputKey(log, ids[i])],
               event_ref |-> log.event_ref]
    BY <1>4 DEF DecodeOperation
  <2>. QED
    BY <2>1
<1>6. SUFFICES ASSUME NEW i \in DOMAIN e.input_handle_keys
               PROVE  SameContract(e.input_handle_keys[i], e.handle_key)
  OBVIOUS
<1>7. e.input_handle_keys[i] = InputKey(log, ids[i])
  BY <1>5, <1>6
<1>. QED
  BY <1>5, <1>7 DEF SameContract, InputKey, NamedKey, ContractOf

\* A record an event adds has its inputs in the contract of its key.
LEMMA NewRecordInContract ==
  ASSUME NEW e \in ChainEvents, NEW i \in Inputs(NewRecord(records, e))
  PROVE  SameContract(i, e.handle_key)
<1>1. IsDerived(NewRecord(records, e))
  BY DEF Inputs, LineageInputs, IsDerived
<1>2. /\ e \in DerivedHandleOperation
      /\ NewRecord(records, e).lineage = Derived(e.operation_code, e.input_handle_keys)
  BY <1>1, NewRecordFacts
<1>3. \E j \in DOMAIN e.input_handle_keys : i = e.input_handle_keys[j]
  BY <1>2 DEF Inputs, LineageInputs, Derived
<1>. QED
  BY <1>2, <1>3, DecodedOperation, DecodedAssumption

\* Whatever logs the chain emits and in whichever order their events are
\* ingested, discarded and resolved, lineage stays within one contract.
THEOREM LineageStaysInContract == GraphSpec => []LineageWithinContract
<1>1. GraphInit => LineageWithinContract
  BY DEF GraphInit, LineageWithinContract
<1>2. TypeOK /\ LineageWithinContract /\ [GraphNext]_graphVars => LineageWithinContract'
  <2>. SUFFICES ASSUME TypeOK, LineageWithinContract, [GraphNext]_graphVars,
                       NEW k \in DOMAIN records', NEW i \in Inputs(records'[k])
                PROVE  SameContract(i, k)
    BY DEF LineageWithinContract, SameContract
  <2>1. RecordsKept /\ OneNewRecord
    BY GraphStep
  <2>2. CASE k \in DOMAIN records
    <3>1. records'[k].lineage = records[k].lineage
      BY <2>1, <2>2, KeptFields DEF RecordsKept, TypeOK
    <3>. QED
      BY <2>2, <3>1 DEF Inputs, LineageWithinContract, SameContract
  <2>3. CASE k \notin DOMAIN records
    <3>1. PICK e \in ChainEvents :
            k = e.handle_key /\ records'[k] = NewRecord(records, e)
      BY <2>1, <2>3 DEF OneNewRecord
    <3>. QED
      BY <3>1, NewRecordInContract
  <2>. QED
    BY <2>2, <2>3
<1>. QED
  BY <1>1, <1>2, GraphTypeCorrect, PTL DEF GraphSpec
=============================================================================
