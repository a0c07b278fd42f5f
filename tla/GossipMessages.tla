--------------------------- MODULE GossipMessages ---------------------------
(* What nodes gossip, and the calls to the vault.
   For each message its reader, the scheme with the getters of its fields, then
   its builder, the writes of its Write method. *)
EXTENDS Membuffers

Header == [name |-> "Header", fields |-> <<
  <<"ProtocolVersion", TypeUint32>>, <<"VirtualChainId", TypeUint32>>,
  <<"RecipientNodeAddresses", ArrayOf(TypeBytes)>>,
  <<"RecipientMode", TypeUint16>>, <<"Topic", TypeUnion(<<
       <<"TransactionRelay", TypeUint16>>, <<"BlockSync", TypeUint16>>,
       <<"LeanHelix", TypeUint16>>, <<"BenchmarkConsensus", TypeUint16>>>>)>>>>]

HeaderBuilder == [fields |-> <<
  <<"ProtocolVersion", TypeUint32>>, <<"VirtualChainId", TypeUint32>>,
  <<"RecipientNodeAddresses", ArrayOf(TypeBytes)>>,
  <<"RecipientMode", TypeUint16>>, <<"Topic", TypeUnion(<<
       <<"TransactionRelay", TypeUint16>>, <<"BlockSync", TypeUint16>>,
       <<"LeanHelix", TypeUint16>>, <<"BenchmarkConsensus", TypeUint16>>>>)>>>>]

SenderSignature == [name |-> "SenderSignature", fields |-> <<
  <<"SenderNodeAddress", TypeBytes>>, <<"Signature", TypeBytes>>>>]

SenderSignatureBuilder == [fields |-> <<
  <<"SenderNodeAddress", TypeBytes>>, <<"Signature", TypeBytes>>>>]

TempKillMeBenchmarkConsensus == [name |-> "TempKillMeBenchmarkConsensus", fields |-> <<>>]

TempKillMeBenchmarkConsensusBuilder == [fields |-> <<>>]

BenchmarkConsensusStatus == [name |-> "BenchmarkConsensusStatus", fields |-> <<
  <<"LastCommittedBlockHeight", TypeUint64>>>>]

BenchmarkConsensusStatusBuilder == [fields |-> <<
  <<"LastCommittedBlockHeight", TypeUint64>>>>]

BlockSyncRange == [name |-> "BlockSyncRange", fields |-> <<
  <<"BlockType", TypeUint16>>, <<"FirstBlockHeight", TypeUint64>>,
  <<"LastBlockHeight", TypeUint64>>,
  <<"LastCommittedBlockHeight", TypeUint64>>, <<"BlocksOrder", TypeUint16>>>>]

BlockSyncRangeBuilder == [fields |-> <<
  <<"BlockType", TypeUint16>>, <<"FirstBlockHeight", TypeUint64>>,
  <<"LastBlockHeight", TypeUint64>>,
  <<"LastCommittedBlockHeight", TypeUint64>>, <<"BlocksOrder", TypeUint16>>>>]

TempKillMeTransactionRelay == [name |-> "TempKillMeTransactionRelay", fields |-> <<>>]

TempKillMeTransactionRelayBuilder == [fields |-> <<>>]

NodeSignInput == [name |-> "NodeSignInput", fields |-> <<
  <<"Data", TypeBytes>>>>]

NodeSignInputBuilder == [fields |-> <<
  <<"Data", TypeBytes>>>>]

NodeSignOutput == [name |-> "NodeSignOutput", fields |-> <<
  <<"Signature", TypeBytes>>>>]

NodeSignOutputBuilder == [fields |-> <<
  <<"Signature", TypeBytes>>>>]
=============================================================================
