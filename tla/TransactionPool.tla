--------------------------- MODULE TransactionPool ---------------------------
(***************************************************************************)
(* The transaction pools of a virtual chain's nodes: pending transactions  *)
(* spread by gossip until a block takes them, and committed ones kept for  *)
(* a time window so that none is executed twice.                           *)
(*                                                                         *)
(* Two clocks decide.  The pending pool and the checks of new transactions *)
(* go by the current time, proposals and the committed pool by the times   *)
(* of blocks.  A transaction's timestamp is the client's: it may be ahead  *)
(* of the block that takes it by FutureGrace.                              *)
(*                                                                         *)
(* Consensus is what it promises: a proposal of GetTransactionsForOrdering *)
(* that a quorum approved with ValidateTransactionsForOrdering becomes the *)
(* next block of the chain, or is given up.  Every node's BlockStorage     *)
(* holds a prefix of the chain and hands it to its pool block by block.    *)
(***************************************************************************)
EXTENDS Integers, Sequences, FiniteSets

CONSTANTS
  Node,
  Tx,           \* transactions, by txhash
  Timestamp,    \* the timestamp a client gave each transaction
  Window,       \* TRANSACTION_EXPIRATION_WINDOW
  FutureGrace,  \* TRANSACTION_POOL_FUTURE_TIMESTAMP_GRACE_TIMEOUT
  IgnoreAge,    \* CommitTransactionsReceipts ignores blocks older than this
  SyncReject,   \* TRANSACTION_POOL_NODE_SYNC_REJECT_TIME
  Jitter,       \* CONSENSUS_CONTEXT_SYSTEM_TIMESTAMP_ALLOWED_JITTER
  BlockSize,    \* transactions a block has room for
  Quorum,       \* approvals a block needs
  NoNode,       \* no gateway: not in the pending pool
  MaxTime,      \* bound: the last moment
  MaxHeight     \* bound: the last block

ASSUME TimesAssumption ==
  /\ Timestamp \in [Tx -> Int]
  /\ {Window, FutureGrace, IgnoreAge, SyncReject, Jitter} \subseteq Nat

ASSUME SizesAssumption ==
  /\ {BlockSize, Quorum, MaxTime, MaxHeight} \subseteq Nat
  /\ NoNode \notin Node

VARIABLES
  now,        \* the current time
  chain,      \* the committed blocks: [time, txs]
  proposal,   \* the block in consensus: a set with at most one
  stored,     \* height of each node's BlockStorage
  last,       \* last_committed_block of each pool
  pending,    \* pending pool: the gateway of each transaction, or NoNode
  committed,  \* committed pool
  checking,   \* AddNewTransaction calls that wait for the virtual machine
  forwarded   \* batches gossiped so far: <<gateway, transaction>>

vars == <<now, chain, proposal, stored, last, pending, committed, checking,
          forwarded>>

BlockPair == [time : Int, txs : SUBSET Tx]

---------------------------------------------------------------------------
(* Checks.                                                                 *)

Expired(t, time) == Timestamp[t] < time - Window
Ahead(t, time) == Timestamp[t] > time + FutureGrace

Pending(n) == {t \in Tx : pending[n][t] # NoNode}

\* The empty genesis block is of the moment before the first one.
TimeAt(height) == IF height = 0 THEN -1 ELSE chain[height].time
LastTime(n) == TimeAt(last[n])

\* What AddNewTransaction answers before it calls the virtual machine.
Verdict(n, t) ==
  CASE now > LastTime(n) + SyncReject -> "REJECTED_NODE_OUT_OF_SYNC"
    [] Expired(t, now) -> "REJECTED_TIMESTAMP_WINDOW_EXCEEDED"
    [] Ahead(t, now) -> "REJECTED_TIMESTAMP_AHEAD_OF_NODE_TIME"
    [] t \in Pending(n) -> "DUPLICATE_TRANSACTION_ALREADY_PENDING"
    [] t \in committed[n] -> "DUPLICATE_TRANSACTION_ALREADY_COMMITTED"
    [] OTHER -> "PRE_ORDER"

\* Mutant: trusts the pending pool to hold nothing that is committed.
OrderableAgain(n, t, time) == ~Expired(t, time) /\ ~Ahead(t, time)

\* The checks of a transaction for a block of that time.
Orderable(n, t, time) == ~Expired(t, time) /\ ~Ahead(t, time) /\ t \notin committed[n]

---------------------------------------------------------------------------
(* Operations.                                                             *)

Init ==
  /\ now = 0
  /\ chain = <<>>
  /\ proposal = {}
  /\ stored = [n \in Node |-> 0]
  /\ last = [n \in Node |-> 0]
  /\ pending = [n \in Node |-> [t \in Tx |-> NoNode]]
  /\ committed = [n \in Node |-> {}]
  /\ checking = {}
  /\ forwarded = {}

\* AddNewTransaction up to the call of TransactionSetPreOrder.
CheckNewTransaction(n, t) ==
  /\ Verdict(n, t) = "PRE_ORDER"
  /\ checking' = checking \cup {<<n, t>>}
  /\ UNCHANGED <<now, chain, proposal, stored, last, pending, committed, forwarded>>

\* The pool keeps one copy, with the gateway that added it first.  Its size is
\* in bytes and it holds more than Tx: it may be full at any time.
Keep(n, t, gateway, full) ==
  pending' = IF full \/ t \in Pending(n) THEN pending
             ELSE [pending EXCEPT ![n][t] = gateway]

\* The virtual machine approves: add to the pool and broadcast.
AddNewTransaction(n, t, full) ==
  /\ <<n, t>> \in checking
  /\ checking' = checking \ {<<n, t>>}
  /\ Keep(n, t, n, full)
  /\ forwarded' = IF full THEN forwarded ELSE forwarded \cup {<<n, t>>}
  /\ UNCHANGED <<now, chain, proposal, stored, last, committed>>

\* The virtual machine refuses.
RefuseNewTransaction(n, t) ==
  /\ <<n, t>> \in checking
  /\ checking' = checking \ {<<n, t>>}
  /\ UNCHANGED <<now, chain, proposal, stored, last, pending, committed, forwarded>>

\* A batch arrives, late, again or never.
OnForwardedTransactions(n, gateway, t, full) ==
  /\ <<gateway, t>> \in forwarded
  /\ gateway # n
  /\ Keep(n, t, gateway, full)
  /\ UNCHANGED <<now, chain, proposal, stored, last, committed, checking, forwarded>>

Drop(n, txs) ==
  pending' = [pending EXCEPT ![n] = [t \in Tx |-> IF t \in txs THEN NoNode ELSE @[t]]]

\* The timer of the pending pool.
ExpiredPending(n) == {t \in Pending(n) : Expired(t, now)}

ClearExpired(n) ==
  /\ ExpiredPending(n) # {}
  /\ Drop(n, ExpiredPending(n))
  /\ UNCHANGED <<now, chain, proposal, stored, last, committed, checking, forwarded>>

\* The leader's proposal, dropped what failed the checks; refused is what the
\* virtual machine's pre order checks refuse.
ProposedTime(n) == IF now > LastTime(n) THEN now ELSE LastTime(n) + 1

GetTransactionsForOrdering(n) ==
  /\ proposal = {}
  /\ last[n] = Len(chain)
  /\ Len(chain) < MaxHeight
  /\ \E refused \in SUBSET Pending(n) :
       LET valid == {t \in Pending(n) \ refused : Orderable(n, t, ProposedTime(n))}
       IN  \E txs \in SUBSET valid, dropped \in SUBSET (Pending(n) \ valid) :
             /\ Cardinality(txs) <= BlockSize
             /\ Cardinality(txs) < BlockSize =>
                  txs = valid /\ dropped = Pending(n) \ valid
             /\ proposal' = {[time |-> ProposedTime(n), txs |-> txs, approved |-> {n}]}
             /\ Drop(n, dropped)
  /\ UNCHANGED <<now, chain, stored, last, committed, checking, forwarded>>

\* A validator whose pool follows the chain approves what passes its checks.
ValidateTransactionsForOrdering(n) ==
  \E p \in proposal :
    /\ n \notin p.approved
    /\ last[n] = Len(chain)
    /\ p.time - now \in -Jitter .. Jitter
    /\ \A t \in p.txs : Orderable(n, t, p.time)
    /\ proposal' = {[p EXCEPT !.approved = @ \cup {n}]}
    /\ UNCHANGED <<now, chain, stored, last, pending, committed, checking, forwarded>>

\* Consensus on the proposal, however late.
CommitProposal ==
  \E p \in proposal :
    /\ Cardinality(p.approved) >= Quorum
    /\ chain' = Append(chain, [time |-> p.time, txs |-> p.txs])
    /\ proposal' = {}
    /\ UNCHANGED <<now, stored, last, pending, committed, checking, forwarded>>

\* No consensus: another leader will propose.
GiveUpProposal ==
  /\ proposal # {}
  /\ proposal' = {}
  /\ UNCHANGED <<now, chain, stored, last, pending, committed, checking, forwarded>>

\* Mutant: counts a block stored out of order as committed.
StoreBlockAhead(n) ==
  /\ stored' = [stored EXCEPT ![n] = @ + 1]
  /\ UNCHANGED <<now, chain, proposal, last, pending, committed, checking, forwarded>>

\* A node's BlockStorage gets the next block, by consensus or block sync.
StoreBlock(n) ==
  /\ stored[n] < Len(chain)
  /\ stored' = [stored EXCEPT ![n] = @ + 1]
  /\ UNCHANGED <<now, chain, proposal, last, pending, committed, checking, forwarded>>

\* Mutant: a transaction is expired when its block is.
IgnoredEarly(block) == block.time < now - Window

\* BlockStorage hands over the next block; its transactions are ignored when
\* the block is too old.
Ignored(block) == block.time < now - IgnoreAge

CommitTransactionsReceipts(n) ==
  /\ last[n] < stored[n]
  /\ last' = [last EXCEPT ![n] = @ + 1]
  /\ LET block == chain[last[n] + 1]
         txs == IF Ignored(block) THEN {} ELSE block.txs
     IN  /\ committed' = [committed EXCEPT ![n] = @ \cup txs]
         /\ Drop(n, txs)
  /\ UNCHANGED <<now, chain, proposal, stored, checking, forwarded>>

\* The committed pool lets go of what is expired by the last block's time.
ForgetCommitted(n) ==
  /\ \E t \in committed[n] : Expired(t, LastTime(n))
  /\ committed' = [committed EXCEPT ![n] = {t \in @ : ~Expired(t, LastTime(n))}]
  /\ UNCHANGED <<now, chain, proposal, stored, last, pending, checking, forwarded>>

\* The pools are not persistent, BlockStorage is.
Restart(n) ==
  /\ last' = [last EXCEPT ![n] = 0]
  /\ pending' = [pending EXCEPT ![n] = [t \in Tx |-> NoNode]]
  /\ committed' = [committed EXCEPT ![n] = {}]
  /\ checking' = {c \in checking : c[1] # n}
  /\ UNCHANGED <<now, chain, proposal, stored, forwarded>>

Tick ==
  /\ now < MaxTime
  /\ now' = now + 1
  /\ UNCHANGED <<chain, proposal, stored, last, pending, committed, checking, forwarded>>

Next ==
  \/ \E n \in Node, t \in Tx :
       \/ CheckNewTransaction(n, t)
       \/ RefuseNewTransaction(n, t)
       \/ \E full \in BOOLEAN :
            \/ AddNewTransaction(n, t, full)
            \/ \E gateway \in Node : OnForwardedTransactions(n, gateway, t, full)
  \/ \E n \in Node :
       \/ ClearExpired(n)
       \/ GetTransactionsForOrdering(n)
       \/ ValidateTransactionsForOrdering(n)
       \/ StoreBlock(n)
       \/ CommitTransactionsReceipts(n)
       \/ ForgetCommitted(n)
       \/ Restart(n)
  \/ CommitProposal
  \/ GiveUpProposal
  \/ Tick

Spec == Init /\ [][Next]_vars

---------------------------------------------------------------------------
(* Properties.                                                             *)

\* Every variable has its type, and a pool follows its BlockStorage, which
\* follows the chain.
TypeOK ==
  /\ now \in Int
  /\ chain \in Seq(BlockPair)
  /\ proposal \in SUBSET [time : Int, txs : SUBSET Tx, approved : SUBSET Node]
  /\ stored \in [Node -> 0 .. Len(chain)]
  /\ last \in [Node -> Nat]
  /\ \A n \in Node : last[n] <= stored[n]
  /\ pending \in [Node -> [Tx -> Node \cup {NoNode}]]
  /\ committed \in [Node -> SUBSET Tx]
  /\ checking \subseteq Node \X Tx
  /\ forwarded \subseteq Node \X Tx

\* A transaction is executed once (send-transaction.md): no two blocks hold the
\* same one, whatever is forwarded late, proposed again or forgotten at a
\* restart.
OnlyOnce ==
  \A i, j \in DOMAIN chain : i # j => chain[i].txs \cap chain[j].txs = {}

\* A transaction that a block could still take is in the committed pool of every
\* node whose pool has got past its block: what a pool forgot or ignored is
\* expired for every later block.
RemembersLive ==
  \A n \in Node : \A i \in 1 .. last[n] : \A t \in chain[i].txs :
    t \in committed[n] \/ Expired(t, LastTime(n)) \/ Expired(t, now)
=============================================================================
