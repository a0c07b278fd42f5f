------------------------------ MODULE PublicApi ------------------------------
(***************************************************************************)
(* The PublicApi of one node over its TransactionPool and BlockStorage: a  *)
(* client sends a transaction and waits for its result, or asks for its    *)
(* status, again and again.  Other clients, of this node or another and of *)
(* this transaction or another, are steps of the TransactionPool.          *)
(*                                                                         *)
(* A call is more than one step.  SendTransaction has the pool add the     *)
(* transaction and only then waits, while the pool may already be telling  *)
(* PublicApi the result; GetTransactionStatus asks the pool and then, of   *)
(* what it does not know, BlockStorage.  The pool tells the results of the *)
(* transactions it marks with its own node as the gateway.                 *)
(***************************************************************************)
EXTENDS TransactionPool

CONSTANTS
  Gateway,      \* the node the client calls
  Sent,         \* the transaction it calls for
  QueryGrace,   \* BLOCK_STORAGE_TRANSACTION_RECEIPT_QUERY_TIMESTAMP_GRACE
  SyncWarning   \* PUBLIC_API_NODE_SYNC_WARNING_TIME

ASSUME CallAssumption ==
  /\ Gateway \in Node
  /\ Sent \in Tx
  /\ {QueryGrace, SyncWarning} \subseteq Nat

VARIABLES
  call,   \* where the client's call is, or its answer
  since   \* the height BlockStorage had when a query came in

apiVars == <<vars, call, since>>

Running == {"PRE_ORDER", "ADDED", "WAITING", "ASK_STORAGE"}

TransactionStatus ==
  {"COMMITTED", "PENDING", "NO_RECORD_FOUND",
   "DUPLICATE_TRANSACTION_ALREADY_COMMITTED", "DUPLICATE_TRANSACTION_ALREADY_PENDING",
   "REJECTED_NODE_OUT_OF_SYNC", "REJECTED_TIMESTAMP_WINDOW_EXCEEDED",
   "REJECTED_TIMESTAMP_AHEAD_OF_NODE_TIME", "REJECTED_PRE_ORDER", "REJECTED_CONGESTION"}

\* Answers with the status of the request instead.
RequestStatus == {"TIMED_OUT", "OUT_OF_SYNC"}

ApiInit == Init /\ call = "NO_CALL" /\ since = 0

---------------------------------------------------------------------------
(* SendTransaction.                                                        *)

\* The first time or again, whatever the last call's answer was.
SendTransaction ==
  /\ call \notin Running
  /\ call' = Verdict(Gateway, Sent)
  /\ since' = 0
  /\ IF Verdict(Gateway, Sent) = "PRE_ORDER"
     THEN CheckNewTransaction(Gateway, Sent)
     ELSE UNCHANGED vars

\* AddNewTransaction returns.
Added ==
  /\ call = "PRE_ORDER"
  /\ \E full \in BOOLEAN :
       /\ AddNewTransaction(Gateway, Sent, full)
       /\ call' = IF full THEN "REJECTED_CONGESTION" ELSE "ADDED"
  /\ UNCHANGED since

Refused ==
  /\ call = "PRE_ORDER"
  /\ RefuseNewTransaction(Gateway, Sent)
  /\ call' = "REJECTED_PRE_ORDER"
  /\ UNCHANGED since

\* Block and wait.
Wait ==
  /\ call = "ADDED"
  /\ call' = "WAITING"
  /\ UNCHANGED <<vars, since>>

TimeOut ==
  /\ call = "WAITING"
  /\ call' = "TIMED_OUT"
  /\ UNCHANGED <<vars, since>>

\* Mutant: unblocks every context, whatever transaction it waits for.
HandleAll(n, status) ==
  /\ call' = IF n = Gateway /\ call = "WAITING" THEN status ELSE call
  /\ UNCHANGED since

\* Mutant: tells of committed transactions only.
HandleResults(n, status) ==
  /\ call' = IF /\ n = Gateway /\ call = "WAITING" /\ status = "COMMITTED"
                /\ pending[n][Sent] = n /\ pending'[n][Sent] = NoNode
             THEN status ELSE call
  /\ UNCHANGED since

\* HandleTransactionResults and HandleTransactionError: what the pool lets go
\* of and its node is the gateway of.  Nobody who is not waiting hears of it.
Handle(n, status) ==
  /\ call' = IF /\ n = Gateway /\ call = "WAITING"
                /\ pending[n][Sent] = n /\ pending'[n][Sent] = NoNode
             THEN status ELSE call
  /\ UNCHANGED since

---------------------------------------------------------------------------
(* GetTransactionStatus.                                                   *)

\* GetCommittedTransactionReceipt of the pool.
AskPool ==
  /\ call \notin Running
  /\ call' = CASE Sent \in Pending(Gateway) -> "PENDING"
               [] Sent \in committed[Gateway] \ Pending(Gateway) -> "COMMITTED"
               [] OTHER -> "ASK_STORAGE"
  /\ since' = stored[Gateway]
  /\ UNCHANGED vars

\* Mutant: forgets how long the transaction may wait for its block.
RelevantAtOnce(block) ==
  block.time \in Timestamp[Sent] - QueryGrace .. Timestamp[Sent] + QueryGrace

\* The blocks where the transaction could be found.
Relevant(block) ==
  block.time \in Timestamp[Sent] - QueryGrace .. Timestamp[Sent] + Window + QueryGrace

Holding == {i \in 1 .. stored[Gateway] : Sent \in chain[i].txs}

\* GetTransactionReceipt of BlockStorage.
AskStorage ==
  /\ call = "ASK_STORAGE"
  /\ call' = CASE \E i \in Holding : Relevant(chain[i]) -> "COMMITTED"
               [] OTHER -> IF now > TimeAt(stored[Gateway]) + SyncWarning
                           THEN "OUT_OF_SYNC" ELSE "NO_RECORD_FOUND"
  /\ UNCHANGED <<vars, since>>

---------------------------------------------------------------------------
Idle == UNCHANGED <<call, since>>

\* The same steps for other clients.
OtherClient(n, t, full) ==
  \/ CheckNewTransaction(n, t)
  \/ /\ call = "PRE_ORDER" => <<n, t>> # <<Gateway, Sent>>
     /\ AddNewTransaction(n, t, full) \/ RefuseNewTransaction(n, t)

ApiRestart(n) ==
  /\ Restart(n)
  /\ call' = IF n = Gateway THEN "NO_CALL" ELSE call
  /\ since' = IF n = Gateway THEN 0 ELSE since

ClearAndTell(n) == ClearExpired(n) /\ Handle(n, "REJECTED_TIMESTAMP_WINDOW_EXCEEDED")
OrderAndTell(n) == GetTransactionsForOrdering(n) /\ Handle(n, "REJECTED_PRE_ORDER")
CommitAndTell(n) == CommitTransactionsReceipts(n) /\ Handle(n, "COMMITTED")

ApiNext ==
  \/ SendTransaction \/ Added \/ Refused \/ Wait \/ TimeOut
  \/ AskPool \/ AskStorage
  \/ \E n \in Node, t \in Tx, full \in BOOLEAN :
       \/ OtherClient(n, t, full) /\ Idle
       \/ \E gateway \in Node : OnForwardedTransactions(n, gateway, t, full) /\ Idle
  \/ \E n \in Node :
       \/ ClearAndTell(n)
       \/ OrderAndTell(n)
       \/ CommitAndTell(n)
       \/ ValidateTransactionsForOrdering(n) /\ Idle
       \/ StoreBlock(n) /\ Idle
       \/ ForgetCommitted(n) /\ Idle
       \/ ApiRestart(n)
  \/ (CommitProposal \/ GiveUpProposal \/ Tick) /\ Idle

\* Time goes on and the pool's timer fires; PublicApi's own time out is not
\* relied on.
ApiFairness == WF_apiVars(Tick /\ Idle) /\ WF_apiVars(ClearAndTell(Gateway))

ApiSpec == ApiInit /\ [][ApiNext]_apiVars /\ ApiFairness

---------------------------------------------------------------------------
(* Properties.                                                             *)

\* The pool's variables have their types, and so has the call.
ApiTypeOK ==
  /\ TypeOK
  /\ call \in {"NO_CALL"} \cup Running \cup TransactionStatus \cup RequestStatus
  /\ since \in Nat

\* A client told that its transaction is committed, by the result it waited for,
\* as a duplicate or by a query, finds it in its gateway's BlockStorage.
CommittedIsStored ==
  call \in {"COMMITTED", "DUPLICATE_TRANSACTION_ALREADY_COMMITTED"} => Holding # {}

NoReceipt == call \in {"NO_RECORD_FOUND", "OUT_OF_SYNC"}

\* The block was stamped so long before the transaction that no query looks there: a
\* block may be FutureGrace older than its transactions, a query allows QueryGrace.
Overlooked(block) == block.time < Timestamp[Sent] - QueryGrace

\* A query answered without a receipt was for a transaction that BlockStorage did
\* not hold when the call came in, or only in a block it overlooks, however the
\* pool's and BlockStorage's steps fall between its two halves.
QueryFinds == NoReceipt => \A i \in Holding : i > since \/ Overlooked(chain[i])

\* Of all the blocks where the transaction could be found none is left out: a query
\* answered without a receipt was for a transaction that BlockStorage did not hold.
ReceiptFound == NoReceipt => \A i \in Holding : i > since

\* A client that waits for a transaction its node's pool holds as the gateway is
\* answered even if the transaction never gets into a block and PublicApi does
\* not time out.
GatewayAnswers ==
  call = "WAITING" /\ pending[Gateway][Sent] = Gateway ~> call # "WAITING"
=============================================================================
