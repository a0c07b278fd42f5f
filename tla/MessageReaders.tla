--------------------------- MODULE MessageReaders ---------------------------
(***************************************************************************)
(* Readers.  A place is what a getter gives: a value in a buffer, with its *)
(* type, its cells (without the header) and the cells before it.  A path   *)
(* leads from a place to one inside it: the field of a message, the        *)
(* element of an array, the alternative of a union, by number.  A place    *)
(* shares the buffer it is in.                                             *)
(*                                                                         *)
(* What a message reads as is given by its leaves, a function on paths:    *)
(* the number or the bytes there, the length of an array, the index of a   *)
(* union, and of a message whether it is empty.                            *)
(***************************************************************************)
EXTENDS ClientMessages, GossipMessages

\* Every message with its reader and its builder.
Messages == <<
  <<Transaction, TransactionBuilder>>,
  <<SignedTransaction, SignedTransactionBuilder>>,
  <<TransactionReceipt, TransactionReceiptBuilder>>,
  <<Signer, SignerBuilder>>,
  <<EdDSA01Signer, EdDSA01SignerBuilder>>,
  <<SmartContractCaller, SmartContractCallerBuilder>>,
  <<Query, QueryBuilder>>,
  <<SignedQuery, SignedQueryBuilder>>,
  <<QueryResult, QueryResultBuilder>>,
  <<Argument, ArgumentBuilder>>,
  <<ArgumentArray, ArgumentArrayBuilder>>,
  <<StateRecord, StateRecordBuilder>>,
  <<ContractStateDiff, ContractStateDiffBuilder>>,
  <<Event, EventBuilder>>,
  <<EventsArray, EventsArrayBuilder>>,
  <<TransactionsBlockHeader, TransactionsBlockHeaderBuilder>>,
  <<ResultsBlockHeader, ResultsBlockHeaderBuilder>>,
  <<TransactionsBlockMetadata, TransactionsBlockMetadataBuilder>>,
  <<TransactionsBlockProof, TransactionsBlockProofBuilder>>,
  <<ResultsBlockProof, ResultsBlockProofBuilder>>,
  <<BenchmarkConsensusBlockProof, BenchmarkConsensusBlockProofBuilder>>,
  <<BenchmarkConsensusSenderSignature, BenchmarkConsensusSenderSignatureBuilder>>,
  <<BenchmarkConsensusBlockRef, BenchmarkConsensusBlockRefBuilder>>,
  <<ReceiptProof, ReceiptProofBuilder>>,
  <<RequestResult, RequestResultBuilder>>,
  <<TransactionRef, TransactionRefBuilder>>,
  <<SendTransactionRequest, SendTransactionRequestBuilder>>,
  <<SendTransactionResponse, SendTransactionResponseBuilder>>,
  <<RunQueryRequest, RunQueryRequestBuilder>>,
  <<RunQueryResponse, RunQueryResponseBuilder>>,
  <<GetTransactionStatusRequest, GetTransactionStatusRequestBuilder>>,
  <<GetTransactionStatusResponse, GetTransactionStatusResponseBuilder>>,
  <<GetTransactionReceiptProofRequest, GetTransactionReceiptProofRequestBuilder>>,
  <<GetTransactionReceiptProofResponse, GetTransactionReceiptProofResponseBuilder>>,
  <<GetBlockRequest, GetBlockRequestBuilder>>,
  <<GetBlockResponse, GetBlockResponseBuilder>>,
  <<Header, HeaderBuilder>>,
  <<SenderSignature, SenderSignatureBuilder>>,
  <<BenchmarkConsensusStatus, BenchmarkConsensusStatusBuilder>>,
  <<BlockSyncRange, BlockSyncRangeBuilder>>,
  <<TempKillMeTransactionRelay, TempKillMeTransactionRelayBuilder>>,
  <<TempKillMeBenchmarkConsensus, TempKillMeBenchmarkConsensusBuilder>>,
  <<NodeSignInput, NodeSignInputBuilder>>,
  <<NodeSignOutput, NodeSignOutputBuilder>>>>

\* They are found by their names.
Message == AntiFunction([m \in Range(Messages) |-> m[1].name])

Name == DOMAIN Message

ReaderOf(name) == Message[name][1]
BuilderOf(name) == Message[name][2]

---------------------------------------------------------------------------
(* Getters.                                                                *)

Root(name, cells) == [type |-> TypeMessage(name), cells |-> cells, at |-> 0]

\* The type of a message's field, an array's element, a union's alternative.
PartType(place, j) ==
  CASE place.type.kind = "message" -> ReaderOf(place.type.of).fields[j][2]
    [] place.type.kind = "array" -> place.type.of
    [] place.type.kind = "union" -> place.type.of[First(place.cells, "index") + 1][2]

\* Where the n-th part of a place ends: it is found by walking over the parts before.
End(place, n) ==
  LET end[j \in 0 .. n] ==
        IF j = 0 THEN IF place.type.kind = "union" THEN 1 ELSE 0
        ELSE LET start == end[j - 1]
             IN  start + SizeOf(PartType(place, j), From(place.cells, start))
  IN  end[n]

\* The cells of a part, its header included: RawXWithHeader().
PartWithHeader(place, j) == SubSeq(place.cells, End(place, j - 1) + 1, End(place, j))

Part(place, j) ==
  LET type == PartType(place, j)
      cells == PartWithHeader(place, j)
      at == place.at + End(place, j - 1)
  IN  IF type.kind \in {"content", "message", "array"}
      THEN [type |-> type, cells |-> Inside(cells), at |-> at + 1]
      ELSE [type |-> type, cells |-> cells, at |-> at]

Walk(place, path) ==
  LET reached[k \in 0 .. Len(path)] ==
        IF k = 0 THEN place ELSE Part(reached[k - 1], path[k])
  IN  reached[Len(path)]

\* The elements an iterator finds.
Count(place) ==
  CHOOSE n \in 0 .. Len(place.cells) :
    /\ End(place, n) >= Len(place.cells)
    /\ \A k \in 0 .. n - 1 : End(place, k) < Len(place.cells)

Observe(place) ==
  CASE place.type.kind = "scalar" -> First(place.cells, place.type.of)
    [] place.type.kind = "content" -> place.cells
    [] place.type.kind = "message" -> place.cells = <<>>
    [] place.type.kind = "array" -> Count(place)
    [] place.type.kind = "union" -> First(place.cells, "index")

\* Mutant: the raw buffer has its header (RawXWithHeader for RawX).
RawWithHeader(place) == WithHeader(place.cells)

\* Raw() of a message's reader.
Raw(place) == place.cells

---------------------------------------------------------------------------
(* Meaning.                                                                *)

Single(x) == [path \in {<<>>} |-> x]

Join(x, parts) ==
  [path \in {<<>>} \cup UNION {{<<j>> \o p : p \in DOMAIN parts[j]} : j \in DOMAIN parts} |->
     IF path = <<>> THEN x ELSE parts[Head(path)][Tail(path)]]

\* The leaves below a path.
Below(leaves, path) ==
  [p \in {From(q, Len(path)) : q \in {r \in DOMAIN leaves : IsPrefix(path, r)}} |->
     leaves[path \o p]]

MeaningOfOne(type, v) == IF type.kind = "message" THEN v.leaves ELSE Single(v)

MeaningOf(type, v) ==
  IF type.kind = "array" THEN Join(Len(v), [k \in DOMAIN v |-> MeaningOfOne(type.of, v[k])])
  ELSE MeaningOfOne(type, v)

MeaningOfField(field, w) ==
  LET v == w[field[1]]
      chosen == field[2].of[v + 1]
  IN  IF field[2].kind = "union" THEN Join(v, <<MeaningOf(chosen[2], w[chosen[1]])>>)
      ELSE MeaningOf(field[2], v)

\* What a reader should return of a builder's record: the values are found by the
\* names of the reader's fields, and not by the positions they were written at.
Meaning(reader, w) ==
  Join(reader.fields = <<>>,
       [i \in DOMAIN reader.fields |-> MeaningOfField(reader.fields[i], w)])

\* What a nested builder puts, and what it means.
Built(name, w) ==
  [cells |-> Write(BuilderOf(name), w), leaves |-> Meaning(ReaderOf(name), w)]
=============================================================================
