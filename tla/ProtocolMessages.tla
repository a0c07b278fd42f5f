-------------------------- MODULE ProtocolMessages --------------------------
(* The messages of the protocol and consensus packages: transactions, queries,
   contracts' data, blocks and their proofs.
   For each message its reader, the scheme with the getters of its fields, then
   its builder, the writes of its Write method. *)
EXTENDS Membuffers

TransactionsBlockHeader == [name |-> "TransactionsBlockHeader", fields |-> <<
  <<"ProtocolVersion", TypeUint32>>, <<"VirtualChainId", TypeUint32>>,
  <<"BlockHeight", TypeUint64>>, <<"PrevBlockHashPtr", TypeBytes>>,
  <<"Timestamp", TypeUint64>>, <<"TransactionsMerkleRootHash", TypeBytes>>,
  <<"MetadataHash", TypeBytes>>, <<"NumSignedTransactions", TypeUint32>>,
  <<"BlockProposerAddress", TypeBytes>>, <<"ReferenceTime", TypeUint32>>>>]

TransactionsBlockHeaderBuilder == [fields |-> <<
  <<"ProtocolVersion", TypeUint32>>, <<"VirtualChainId", TypeUint32>>,
  <<"BlockHeight", TypeUint64>>, <<"PrevBlockHashPtr", TypeBytes>>,
  <<"Timestamp", TypeUint64>>, <<"TransactionsMerkleRootHash", TypeBytes>>,
  <<"MetadataHash", TypeBytes>>, <<"NumSignedTransactions", TypeUint32>>,
  <<"BlockProposerAddress", TypeBytes>>, <<"ReferenceTime", TypeUint32>>>>]

ResultsBlockHeader == [name |-> "ResultsBlockHeader", fields |-> <<
  <<"ProtocolVersion", TypeUint32>>, <<"VirtualChainId", TypeUint32>>,
  <<"BlockHeight", TypeUint64>>, <<"PrevBlockHashPtr", TypeBytes>>,
  <<"Timestamp", TypeUint64>>, <<"ReceiptsMerkleRootHash", TypeBytes>>,
  <<"StateDiffHash", TypeBytes>>, <<"TransactionsBlockHashPtr", TypeBytes>>,
  <<"PreExecutionStateMerkleRootHash", TypeBytes>>,
  <<"NumTransactionReceipts", TypeUint32>>,
  <<"NumContractStateDiffs", TypeUint32>>,
  <<"BlockProposerAddress", TypeBytes>>, <<"ReferenceTime", TypeUint32>>>>]

ResultsBlockHeaderBuilder == [fields |-> <<
  <<"ProtocolVersion", TypeUint32>>, <<"VirtualChainId", TypeUint32>>,
  <<"BlockHeight", TypeUint64>>, <<"PrevBlockHashPtr", TypeBytes>>,
  <<"Timestamp", TypeUint64>>, <<"ReceiptsMerkleRootHash", TypeBytes>>,
  <<"StateDiffHash", TypeBytes>>, <<"TransactionsBlockHashPtr", TypeBytes>>,
  <<"PreExecutionStateMerkleRootHash", TypeBytes>>,
  <<"NumTransactionReceipts", TypeUint32>>,
  <<"NumContractStateDiffs", TypeUint32>>,
  <<"BlockProposerAddress", TypeBytes>>, <<"ReferenceTime", TypeUint32>>>>]

TransactionsBlockMetadata == [name |-> "TransactionsBlockMetadata", fields |-> <<>>]

TransactionsBlockMetadataBuilder == [fields |-> <<>>]

BenchmarkConsensusBlockRef == [name |-> "BenchmarkConsensusBlockRef", fields |-> <<
  <<"PlaceholderType", TypeUint16>>, <<"BlockHeight", TypeUint64>>,
  <<"PlaceholderView", TypeUint64>>, <<"BlockHash", TypeBytes>>>>]

BenchmarkConsensusBlockRefBuilder == [fields |-> <<
  <<"PlaceholderType", TypeUint16>>, <<"BlockHeight", TypeUint64>>,
  <<"PlaceholderView", TypeUint64>>, <<"BlockHash", TypeBytes>>>>]

BenchmarkConsensusSenderSignature == [
  name |-> "BenchmarkConsensusSenderSignature", fields |-> <<
  <<"SenderNodeAddress", TypeBytes>>, <<"Signature", TypeBytes>>>>]

BenchmarkConsensusSenderSignatureBuilder == [fields |-> <<
  <<"SenderNodeAddress", TypeBytes>>, <<"Signature", TypeBytes>>>>]

BenchmarkConsensusBlockProof == [name |-> "BenchmarkConsensusBlockProof", fields |-> <<
  <<"BlockRef", TypeMessage("BenchmarkConsensusBlockRef")>>,
  <<"Nodes", ArrayOf(TypeMessage("BenchmarkConsensusSenderSignature"))>>,
  <<"Placeholder", TypeBytes>>>>]

BenchmarkConsensusBlockProofBuilder == [fields |-> <<
  <<"BlockRef", TypeMessage("BenchmarkConsensusBlockRef")>>,
  <<"Nodes", ArrayOf(TypeMessage("BenchmarkConsensusSenderSignature"))>>,
  <<"Placeholder", TypeBytes>>>>]

TransactionsBlockProof == [name |-> "TransactionsBlockProof", fields |-> <<
  <<"ResultsBlockHash", TypeBytes>>, <<"Type", TypeUnion(<<
       <<"BenchmarkConsensus", TypeMessage("BenchmarkConsensusBlockProof")>>,
       <<"LeanHelix", TypeBytes>>>>)>>>>]

TransactionsBlockProofBuilder == [fields |-> <<
  <<"ResultsBlockHash", TypeBytes>>, <<"Type", TypeUnion(<<
       <<"BenchmarkConsensus", TypeMessage("BenchmarkConsensusBlockProof")>>,
       <<"LeanHelix", TypeBytes>>>>)>>>>]

ResultsBlockProof == [name |-> "ResultsBlockProof", fields |-> <<
  <<"TransactionsBlockHash", TypeBytes>>, <<"Type", TypeUnion(<<
       <<"BenchmarkConsensus", TypeMessage("BenchmarkConsensusBlockProof")>>,
       <<"LeanHelix", TypeBytes>>>>)>>>>]

ResultsBlockProofBuilder == [fields |-> <<
  <<"TransactionsBlockHash", TypeBytes>>, <<"Type", TypeUnion(<<
       <<"BenchmarkConsensus", TypeMessage("BenchmarkConsensusBlockProof")>>,
       <<"LeanHelix", TypeBytes>>>>)>>>>]

EdDSA01Signer == [name |-> "EdDSA01Signer", fields |-> <<
  <<"NetworkType", TypeUint16>>, <<"SignerPublicKey", TypeBytes>>>>]

EdDSA01SignerBuilder == [fields |-> <<
  <<"NetworkType", TypeUint16>>, <<"SignerPublicKey", TypeBytes>>>>]

SmartContractCaller == [name |-> "SmartContractCaller", fields |-> <<
  <<"ContractName", TypeString>>>>]

SmartContractCallerBuilder == [fields |-> <<
  <<"ContractName", TypeString>>>>]

Signer == [name |-> "Signer", fields |-> <<
  <<"Scheme", TypeUnion(<<
       <<"Eddsa", TypeMessage("EdDSA01Signer")>>,
       <<"SmartContractCaller", TypeMessage("SmartContractCaller")>>>>)>>>>]

SignerBuilder == [fields |-> <<
  <<"Scheme", TypeUnion(<<
       <<"Eddsa", TypeMessage("EdDSA01Signer")>>,
       <<"SmartContractCaller", TypeMessage("SmartContractCaller")>>>>)>>>>]

Transaction == [name |-> "Transaction", fields |-> <<
  <<"ProtocolVersion", TypeUint32>>, <<"VirtualChainId", TypeUint32>>,
  <<"Timestamp", TypeUint64>>, <<"Signer", TypeMessage("Signer")>>,
  <<"ContractName", TypeString>>, <<"MethodName", TypeString>>,
  <<"InputArgumentArray", TypeBytes>>>>]

\* Mutant: two fields of one type are written in the wrong order.
TransactionBuilderSwapped == [fields |-> <<
  <<"ProtocolVersion", TypeUint32>>, <<"VirtualChainId", TypeUint32>>,
  <<"Timestamp", TypeUint64>>, <<"Signer", TypeMessage("Signer")>>,
  <<"MethodName", TypeString>>, <<"ContractName", TypeString>>,
  <<"InputArgumentArray", TypeBytes>>>>]

TransactionBuilder == [fields |-> <<
  <<"ProtocolVersion", TypeUint32>>, <<"VirtualChainId", TypeUint32>>,
  <<"Timestamp", TypeUint64>>, <<"Signer", TypeMessage("Signer")>>,
  <<"ContractName", TypeString>>, <<"MethodName", TypeString>>,
  <<"InputArgumentArray", TypeBytes>>>>]

SignedTransaction == [name |-> "SignedTransaction", fields |-> <<
  <<"Transaction", TypeMessage("Transaction")>>, <<"Signature", TypeBytes>>>>]

SignedTransactionBuilder == [fields |-> <<
  <<"Transaction", TypeMessage("Transaction")>>,
  <<"Signature", TypeBytes>>>>]

TransactionReceipt == [name |-> "TransactionReceipt", fields |-> <<
  <<"Txhash", TypeBytes>>, <<"ExecutionResult", TypeUint16>>,
  <<"OutputArgumentArray", TypeBytes>>, <<"OutputEventsArray", TypeBytes>>>>]

TransactionReceiptBuilder == [fields |-> <<
  <<"Txhash", TypeBytes>>, <<"ExecutionResult", TypeUint16>>,
  <<"OutputArgumentArray", TypeBytes>>, <<"OutputEventsArray", TypeBytes>>>>]

Query == [name |-> "Query", fields |-> <<
  <<"ProtocolVersion", TypeUint32>>, <<"VirtualChainId", TypeUint32>>,
  <<"Timestamp", TypeUint64>>, <<"Signer", TypeMessage("Signer")>>,
  <<"ContractName", TypeString>>, <<"MethodName", TypeString>>,
  <<"InputArgumentArray", TypeBytes>>>>]

QueryBuilder == [fields |-> <<
  <<"ProtocolVersion", TypeUint32>>, <<"VirtualChainId", TypeUint32>>,
  <<"Timestamp", TypeUint64>>, <<"Signer", TypeMessage("Signer")>>,
  <<"ContractName", TypeString>>, <<"MethodName", TypeString>>,
  <<"InputArgumentArray", TypeBytes>>>>]

SignedQuery == [name |-> "SignedQuery", fields |-> <<
  <<"Query", TypeMessage("Query")>>, <<"Signature", TypeBytes>>>>]

SignedQueryBuilder == [fields |-> <<
  <<"Query", TypeMessage("Query")>>, <<"Signature", TypeBytes>>>>]

QueryResult == [name |-> "QueryResult", fields |-> <<
  <<"ExecutionResult", TypeUint16>>, <<"OutputArgumentArray", TypeBytes>>,
  <<"OutputEventsArray", TypeBytes>>>>]

\* Mutant: the last field is not written.
QueryResultBuilderShort == [fields |-> <<
  <<"ExecutionResult", TypeUint16>>, <<"OutputArgumentArray", TypeBytes>>>>]

QueryResultBuilder == [fields |-> <<
  <<"ExecutionResult", TypeUint16>>, <<"OutputArgumentArray", TypeBytes>>,
  <<"OutputEventsArray", TypeBytes>>>>]

StateRecord == [name |-> "StateRecord", fields |-> <<
  <<"Key", TypeBytes>>, <<"Value", TypeBytes>>>>]

StateRecordBuilder == [fields |-> <<
  <<"Key", TypeBytes>>, <<"Value", TypeBytes>>>>]

ContractStateDiff == [name |-> "ContractStateDiff", fields |-> <<
  <<"ContractName", TypeString>>,
  <<"StateDiffs", ArrayOf(TypeMessage("StateRecord"))>>>>]

ContractStateDiffBuilder == [fields |-> <<
  <<"ContractName", TypeString>>,
  <<"StateDiffs", ArrayOf(TypeMessage("StateRecord"))>>>>]

Argument == [name |-> "Argument", fields |-> <<
  <<"Type", TypeUnion(<<
       <<"Uint32Value", TypeUint32>>, <<"Uint64Value", TypeUint64>>,
       <<"StringValue", TypeString>>, <<"BytesValue", TypeBytes>>,
       <<"BoolValue", TypeBool>>, <<"Uint256Value", TypeUint256>>,
       <<"Bytes20Value", TypeBytes20>>, <<"Bytes32Value", TypeBytes32>>,
       <<"Uint32ArrayValue", ArrayOf(TypeUint32)>>,
       <<"Uint64ArrayValue", ArrayOf(TypeUint64)>>,
       <<"StringArrayValue", ArrayOf(TypeString)>>,
       <<"BytesArrayValue", ArrayOf(TypeBytes)>>,
       <<"BoolArrayValue", ArrayOf(TypeBool)>>,
       <<"Uint256ArrayValue", ArrayOf(TypeUint256)>>,
       <<"Bytes20ArrayValue", ArrayOf(TypeBytes20)>>,
       <<"Bytes32ArrayValue", ArrayOf(TypeBytes32)>>>>)>>>>]

ArgumentBuilder == [fields |-> <<
  <<"Type", TypeUnion(<<
       <<"Uint32Value", TypeUint32>>, <<"Uint64Value", TypeUint64>>,
       <<"StringValue", TypeString>>, <<"BytesValue", TypeBytes>>,
       <<"BoolValue", TypeBool>>, <<"Uint256Value", TypeUint256>>,
       <<"Bytes20Value", TypeBytes20>>, <<"Bytes32Value", TypeBytes32>>,
       <<"Uint32ArrayValue", ArrayOf(TypeUint32)>>,
       <<"Uint64ArrayValue", ArrayOf(TypeUint64)>>,
       <<"StringArrayValue", ArrayOf(TypeString)>>,
       <<"BytesArrayValue", ArrayOf(TypeBytes)>>,
       <<"BoolArrayValue", ArrayOf(TypeBool)>>,
       <<"Uint256ArrayValue", ArrayOf(TypeUint256)>>,
       <<"Bytes20ArrayValue", ArrayOf(TypeBytes20)>>,
       <<"Bytes32ArrayValue", ArrayOf(TypeBytes32)>>>>)>>>>]

ArgumentArray == [name |-> "ArgumentArray", fields |-> <<
  <<"Arguments", ArrayOf(TypeMessage("Argument"))>>>>]

ArgumentArrayBuilder == [fields |-> <<
  <<"Arguments", ArrayOf(TypeMessage("Argument"))>>>>]

Event == [name |-> "Event", fields |-> <<
  <<"ContractName", TypeString>>, <<"EventName", TypeString>>,
  <<"OutputArgumentArray", TypeBytes>>>>]

EventBuilder == [fields |-> <<
  <<"ContractName", TypeString>>, <<"EventName", TypeString>>,
  <<"OutputArgumentArray", TypeBytes>>>>]

EventsArray == [name |-> "EventsArray", fields |-> <<
  <<"Events", ArrayOf(TypeMessage("Event"))>>>>]

EventsArrayBuilder == [fields |-> <<
  <<"Events", ArrayOf(TypeMessage("Event"))>>>>]

ReceiptProof == [name |-> "ReceiptProof", fields |-> <<
  <<"Header", TypeMessage("ResultsBlockHeader")>>,
  <<"BlockProof", TypeMessage("ResultsBlockProof")>>,
  <<"ReceiptProof", TypeBytes>>>>]

ReceiptProofBuilder == [fields |-> <<
  <<"Header", TypeMessage("ResultsBlockHeader")>>,
  <<"BlockProof", TypeMessage("ResultsBlockProof")>>,
  <<"ReceiptProof", TypeBytes>>>>]
=============================================================================
