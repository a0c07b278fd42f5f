--------------------------- MODULE ClientMessages ---------------------------
(* What a client and the public api send to one another.
   For each message its reader, the scheme with the getters of its fields, then
   its builder, the writes of its Write method. *)
EXTENDS ProtocolMessages

RequestResult == [name |-> "RequestResult", fields |-> <<
  <<"RequestStatus", TypeUint16>>, <<"BlockHeight", TypeUint64>>,
  <<"BlockTimestamp", TypeUint64>>>>]

RequestResultBuilder == [fields |-> <<
  <<"RequestStatus", TypeUint16>>, <<"BlockHeight", TypeUint64>>,
  <<"BlockTimestamp", TypeUint64>>>>]

TransactionRef == [name |-> "TransactionRef", fields |-> <<
  <<"ProtocolVersion", TypeUint32>>, <<"VirtualChainId", TypeUint32>>,
  <<"TransactionTimestamp", TypeUint64>>, <<"Txhash", TypeBytes>>>>]

TransactionRefBuilder == [fields |-> <<
  <<"ProtocolVersion", TypeUint32>>, <<"VirtualChainId", TypeUint32>>,
  <<"TransactionTimestamp", TypeUint64>>, <<"Txhash", TypeBytes>>>>]

SendTransactionRequest == [name |-> "SendTransactionRequest", fields |-> <<
  <<"SignedTransaction", TypeMessage("SignedTransaction")>>>>]

SendTransactionRequestBuilder == [fields |-> <<
  <<"SignedTransaction", TypeMessage("SignedTransaction")>>>>]

SendTransactionResponse == [name |-> "SendTransactionResponse", fields |-> <<
  <<"RequestResult", TypeMessage("RequestResult")>>,
  <<"TransactionStatus", TypeUint16>>,
  <<"TransactionReceipt", TypeMessage("TransactionReceipt")>>>>]

SendTransactionResponseBuilder == [fields |-> <<
  <<"RequestResult", TypeMessage("RequestResult")>>,
  <<"TransactionStatus", TypeUint16>>,
  <<"TransactionReceipt", TypeMessage("TransactionReceipt")>>>>]

RunQueryRequest == [name |-> "RunQueryRequest", fields |-> <<
  <<"SignedQuery", TypeMessage("SignedQuery")>>>>]

RunQueryRequestBuilder == [fields |-> <<
  <<"SignedQuery", TypeMessage("SignedQuery")>>>>]

RunQueryResponse == [name |-> "RunQueryResponse", fields |-> <<
  <<"RequestResult", TypeMessage("RequestResult")>>,
  <<"QueryResult", TypeMessage("QueryResult")>>>>]

RunQueryResponseBuilder == [fields |-> <<
  <<"RequestResult", TypeMessage("RequestResult")>>,
  <<"QueryResult", TypeMessage("QueryResult")>>>>]

GetTransactionStatusRequest == [name |-> "GetTransactionStatusRequest", fields |-> <<
  <<"TransactionRef", TypeMessage("TransactionRef")>>>>]

GetTransactionStatusRequestBuilder == [fields |-> <<
  <<"TransactionRef", TypeMessage("TransactionRef")>>>>]

GetTransactionStatusResponse == [name |-> "GetTransactionStatusResponse", fields |-> <<
  <<"RequestResult", TypeMessage("RequestResult")>>,
  <<"TransactionStatus", TypeUint16>>,
  <<"TransactionReceipt", TypeMessage("TransactionReceipt")>>>>]

GetTransactionStatusResponseBuilder == [fields |-> <<
  <<"RequestResult", TypeMessage("RequestResult")>>,
  <<"TransactionStatus", TypeUint16>>,
  <<"TransactionReceipt", TypeMessage("TransactionReceipt")>>>>]

GetTransactionReceiptProofRequest == [
  name |-> "GetTransactionReceiptProofRequest", fields |-> <<
  <<"TransactionRef", TypeMessage("TransactionRef")>>>>]

GetTransactionReceiptProofRequestBuilder == [fields |-> <<
  <<"TransactionRef", TypeMessage("TransactionRef")>>>>]

GetTransactionReceiptProofResponse == [
  name |-> "GetTransactionReceiptProofResponse", fields |-> <<
  <<"RequestResult", TypeMessage("RequestResult")>>,
  <<"TransactionStatus", TypeUint16>>,
  <<"TransactionReceipt", TypeMessage("TransactionReceipt")>>,
  <<"PackedProof", TypeBytes>>>>]

GetTransactionReceiptProofResponseBuilder == [fields |-> <<
  <<"RequestResult", TypeMessage("RequestResult")>>,
  <<"TransactionStatus", TypeUint16>>,
  <<"TransactionReceipt", TypeMessage("TransactionReceipt")>>,
  <<"PackedProof", TypeBytes>>>>]

GetBlockRequest == [name |-> "GetBlockRequest", fields |-> <<
  <<"ProtocolVersion", TypeUint32>>, <<"VirtualChainId", TypeUint32>>,
  <<"BlockHeight", TypeUint64>>>>]

GetBlockRequestBuilder == [fields |-> <<
  <<"ProtocolVersion", TypeUint32>>, <<"VirtualChainId", TypeUint32>>,
  <<"BlockHeight", TypeUint64>>>>]

GetBlockResponse == [name |-> "GetBlockResponse", fields |-> <<
  <<"RequestResult", TypeMessage("RequestResult")>>,
  <<"TransactionsBlockHeader", TypeMessage("TransactionsBlockHeader")>>,
  <<"TransactionsBlockMetadata", TypeMessage("TransactionsBlockMetadata")>>,
  <<"SignedTransactions", ArrayOf(TypeMessage("SignedTransaction"))>>,
  <<"TransactionsBlockProof", TypeMessage("TransactionsBlockProof")>>,
  <<"ResultsBlockHeader", TypeMessage("ResultsBlockHeader")>>,
  <<"TransactionReceipts", ArrayOf(TypeMessage("TransactionReceipt"))>>,
  <<"ContractStateDiffs", ArrayOf(TypeMessage("ContractStateDiff"))>>,
  <<"ResultsBlockProof", TypeMessage("ResultsBlockProof")>>>>]

GetBlockResponseBuilder == [fields |-> <<
  <<"RequestResult", TypeMessage("RequestResult")>>,
  <<"TransactionsBlockHeader", TypeMessage("TransactionsBlockHeader")>>,
  <<"TransactionsBlockMetadata", TypeMessage("TransactionsBlockMetadata")>>,
  <<"SignedTransactions", ArrayOf(TypeMessage("SignedTransaction"))>>,
  <<"TransactionsBlockProof", TypeMessage("TransactionsBlockProof")>>,
  <<"ResultsBlockHeader", TypeMessage("ResultsBlockHeader")>>,
  <<"TransactionReceipts", ArrayOf(TypeMessage("TransactionReceipt"))>>,
  <<"ContractStateDiffs", ArrayOf(TypeMessage("ContractStateDiff"))>>,
  <<"ResultsBlockProof", TypeMessage("ResultsBlockProof")>>>>]
=============================================================================
