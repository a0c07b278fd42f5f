--------------------------- MODULE PublicApiProof ---------------------------
(***************************************************************************)
(* Proofs about TransactionPool and the PublicApi over it, for every       *)
(* number of nodes, transactions, blocks and moments: their types; that no *)
(* transaction is executed twice as long as the pool ignores only blocks   *)
(* so old that what they hold is expired; that what the client calls is a  *)
(* part of the transaction pools and keeps what is proved of them; that a  *)
(* transaction reported as committed is in the gateway's BlockStorage; and *)
(* that a query finds what is there.                                       *)
(*                                                                         *)
(* The argument about the pools: a pool that follows the chain remembers   *)
(* whatever is not expired (RemembersLive), the clock and the block times  *)
(* only grow, and a proposal is later than both the last block and the     *)
(* leader's clock; so a transaction of an earlier block is either          *)
(* remembered or expired for it.                                           *)
(*                                                                         *)
(* About the client: the committed pools hold nothing but transactions of  *)
(* blocks that BlockStorage handed over (FromBlocks), and every block is   *)
(* near in time to the transactions it holds (Near), so that the window a  *)
(* query searches misses none of them.                                     *)
(***************************************************************************)
EXTENDS PublicApi, TLAPS

\* What CommitTransactionsReceipts may ignore.
OldEnough == IgnoreAge >= Window + FutureGrace

\* Block times grow.
Ordered == \A i \in 1 .. Len(chain) : TimeAt(i - 1) < TimeAt(i)

\* No block holds a transaction further ahead of it than the grace.
InGrace == \A i \in 1 .. Len(chain) : \A t \in chain[i].txs : ~Ahead(t, chain[i].time)

\* A proposal is later than the chain, and holds nothing the chain holds.
Fresh ==
  \A p \in proposal :
    /\ p.time > TimeAt(Len(chain))
    /\ \A t \in p.txs : ~Ahead(t, p.time)
    /\ \A i \in 1 .. Len(chain) : p.txs \cap chain[i].txs = {}

PoolInv ==
  /\ TypeOK
  /\ Ordered
  /\ InGrace
  /\ Fresh
  /\ RemembersLive
  /\ OnlyOnce

---------------------------------------------------------------------------
(* Types.                                                                  *)

LEMMA InitTypes == Init => TypeOK
  BY DEF Init, TypeOK, BlockPair

\* Times are numbers.
LEMMA Times ==
  ASSUME TypeOK
  PROVE  /\ now \in Int
         /\ Window \in Nat /\ FutureGrace \in Nat /\ IgnoreAge \in Nat
         /\ \A t \in Tx : Timestamp[t] \in Int
         /\ Len(chain) \in Nat
         /\ \A i \in 1 .. Len(chain) : chain[i].time \in Int /\ chain[i].txs \subseteq Tx
         /\ \A i \in 0 .. Len(chain) : TimeAt(i) \in Int
         /\ \A n \in Node : /\ last[n] \in 0 .. Len(chain)
                            /\ stored[n] \in 0 .. Len(chain)
                            /\ LastTime(n) \in Int
                            /\ ProposedTime(n) \in Int
  <1>1. /\ now \in Int
        /\ Window \in Nat /\ FutureGrace \in Nat /\ IgnoreAge \in Nat
        /\ \A t \in Tx : Timestamp[t] \in Int
        /\ Len(chain) \in Nat
    BY TimesAssumption DEF TypeOK
  <1>2. \A i \in 1 .. Len(chain) : chain[i].time \in Int /\ chain[i].txs \subseteq Tx
    <2>1. \A i \in 1 .. Len(chain) : chain[i] \in BlockPair
      BY DEF TypeOK
    <2> QED
      BY <2>1 DEF BlockPair
  <1>3. \A i \in 0 .. Len(chain) : TimeAt(i) \in Int
    BY <1>1, <1>2 DEF TimeAt
  <1>4. \A n \in Node : last[n] \in 0 .. Len(chain) /\ stored[n] \in 0 .. Len(chain)
    BY <1>1 DEF TypeOK
  <1>5. \A n \in Node : LastTime(n) \in Int
    BY <1>3, <1>4 DEF LastTime
  <1>6. \A n \in Node : ProposedTime(n) \in Int
    BY <1>1, <1>5 DEF ProposedTime
  <1> QED
    BY <1>1, <1>2, <1>3, <1>4, <1>5, <1>6

LEMMA NextTypes ==
  ASSUME TypeOK, [Next]_vars
  PROVE  TypeOK'
  <1> USE DEF TypeOK
  <1>1. ASSUME NEW n \in Node, NEW t \in Tx, CheckNewTransaction(n, t)
        PROVE  TypeOK'
    BY <1>1 DEF CheckNewTransaction
  <1>2. ASSUME NEW n \in Node, NEW t \in Tx, RefuseNewTransaction(n, t)
        PROVE  TypeOK'
    BY <1>2 DEF RefuseNewTransaction
  <1>3. ASSUME NEW n \in Node, NEW t \in Tx, NEW full \in BOOLEAN,
               AddNewTransaction(n, t, full)
        PROVE  TypeOK'
    BY <1>3 DEF AddNewTransaction, Keep
  <1>4. ASSUME NEW n \in Node, NEW t \in Tx, NEW full \in BOOLEAN, NEW gateway \in Node,
               OnForwardedTransactions(n, gateway, t, full)
        PROVE  TypeOK'
    BY <1>4 DEF OnForwardedTransactions, Keep
  <1>5. ASSUME NEW n \in Node, ClearExpired(n)
        PROVE  TypeOK'
    BY <1>5 DEF ClearExpired, Drop
  <1>6. ASSUME NEW n \in Node, GetTransactionsForOrdering(n)
        PROVE  TypeOK'
    <2>1. PICK refused \in SUBSET Pending(n), txs \in SUBSET Tx, dropped \in SUBSET Tx :
            /\ proposal' = {[time |-> ProposedTime(n), txs |-> txs, approved |-> {n}]}
            /\ Drop(n, dropped)
      BY <1>6 DEF GetTransactionsForOrdering, Pending
    <2>2. ProposedTime(n) \in Int
      BY Times
    <2>3. proposal' \in SUBSET [time : Int, txs : SUBSET Tx, approved : SUBSET Node]
      BY <2>1, <2>2
    <2>4. pending' \in [Node -> [Tx -> Node \cup {NoNode}]]
      BY <2>1 DEF Drop
    <2> QED
      BY <1>6, <2>3, <2>4 DEF GetTransactionsForOrdering
  <1>7. ASSUME NEW n \in Node, ValidateTransactionsForOrdering(n)
        PROVE  TypeOK'
    <2>1. PICK p \in proposal : proposal' = {[p EXCEPT !.approved = @ \cup {n}]}
      BY <1>7 DEF ValidateTransactionsForOrdering
    <2>2. [p EXCEPT !.approved = @ \cup {n}] \in [time : Int, txs : SUBSET Tx, approved : SUBSET Node]
      OBVIOUS
    <2> QED
      BY <1>7, <2>1, <2>2 DEF ValidateTransactionsForOrdering
  <1>8. ASSUME NEW n \in Node, StoreBlock(n)
        PROVE  TypeOK'
    <2>0. /\ Len(chain) \in Nat
          /\ \A m \in Node : last[m] \in Nat /\ stored[m] \in Nat /\ last[m] <= stored[m]
      <3> HIDE DEF TypeOK
      <3>1. Len(chain) \in Nat /\ \A m \in Node : stored[m] \in 0 .. Len(chain)
        BY Times
      <3>2. \A m \in Node : last[m] \in Nat /\ last[m] <= stored[m]
        BY DEF TypeOK
      <3> QED
        BY <3>1, <3>2
    <2>1. stored' = [stored EXCEPT ![n] = @ + 1] /\ stored[n] < Len(chain)
      BY <1>8 DEF StoreBlock
    <2>2. stored' \in [Node -> 0 .. Len(chain)]
      <3>1. stored[n] + 1 \in 0 .. Len(chain)
        BY <2>0, <2>1
      <3> QED
        BY <2>1, <3>1
    <2>3. \A m \in Node : last[m] <= stored'[m]
      <3>1. \A m \in Node : stored'[m] = stored[m] \/ stored'[m] = stored[m] + 1
        BY <2>1
      <3>2. ASSUME NEW m \in Node
            PROVE  last[m] <= stored'[m]
        <4>1. last[m] \in Nat /\ stored[m] \in Nat /\ last[m] <= stored[m]
          BY <2>0
        <4>2. stored'[m] = stored[m] \/ stored'[m] = stored[m] + 1
          BY <3>1
        <4> HIDE DEF TypeOK
        <4> QED
          BY <4>1, <4>2
      <3> QED
        BY <3>2
    <2> QED
      BY <1>8, <2>2, <2>3 DEF StoreBlock
  <1>9. ASSUME NEW n \in Node, CommitTransactionsReceipts(n)
        PROVE  TypeOK'
    <2>1. last[n] + 1 \in 1 .. Len(chain)
      BY <1>9, Times DEF CommitTransactionsReceipts
    <2>2. chain[last[n] + 1].txs \subseteq Tx
      BY <2>1, Times
    <2> DEFINE txs == IF Ignored(chain[last[n] + 1]) THEN {} ELSE chain[last[n] + 1].txs
    <2>3. /\ txs \subseteq Tx
          /\ committed' = [committed EXCEPT ![n] = @ \cup txs]
          /\ Drop(n, txs)
      BY <1>9, <2>2 DEF CommitTransactionsReceipts
    <2> HIDE DEF txs
    <2>4. /\ committed' \in [Node -> SUBSET Tx]
          /\ pending' \in [Node -> [Tx -> Node \cup {NoNode}]]
      BY <2>3 DEF Drop
    <2>5. /\ last' \in [Node -> Nat]
          /\ \A m \in Node : last'[m] <= stored'[m]
      BY <1>9 DEF CommitTransactionsReceipts
    <2> QED
      BY <1>9, <2>4, <2>5 DEF CommitTransactionsReceipts
  <1>10. ASSUME NEW n \in Node, ForgetCommitted(n)
         PROVE  TypeOK'
    BY <1>10 DEF ForgetCommitted
  <1>11. ASSUME NEW n \in Node, Restart(n)
         PROVE  TypeOK'
    BY <1>11 DEF Restart
  <1>12. ASSUME CommitProposal
         PROVE  TypeOK'
    <2>1. PICK p \in proposal : chain' = Append(chain, [time |-> p.time, txs |-> p.txs])
      BY <1>12 DEF CommitProposal
    <2>2. chain' \in Seq(BlockPair) /\ Len(chain') = Len(chain) + 1
      BY <2>1 DEF BlockPair
    <2>3. stored \in [Node -> 0 .. Len(chain')]
      BY <2>2, Times
    <2> QED
      BY <1>12, <2>2, <2>3 DEF CommitProposal
  <1>13. ASSUME GiveUpProposal
         PROVE  TypeOK'
    BY <1>13 DEF GiveUpProposal
  <1>14. ASSUME Tick
         PROVE  TypeOK'
    BY <1>14 DEF Tick
  <1>15. CASE UNCHANGED vars
    BY <1>15 DEF vars
  <1>16. CASE Next
    <2> HIDE DEF TypeOK
    <2> QED
      BY <1>16, <1>1, <1>2, <1>3, <1>4, <1>5, <1>6, <1>7, <1>8, <1>9, <1>10, <1>11,
         <1>12, <1>13, <1>14 DEF Next
  <1> QED
    BY <1>15, <1>16

\* The variables keep their types, and every pool follows its BlockStorage, which
\* follows the chain (CommitBlock, CommitTransactionsReceipts).
THEOREM PoolTypeCorrect == Spec => []TypeOK
  <1>1. Init => TypeOK
    BY InitTypes
  <1>2. TypeOK /\ [Next]_vars => TypeOK'
    BY NextTypes
  <1> QED
    BY <1>1, <1>2, PTL DEF Spec

---------------------------------------------------------------------------
(* No transaction twice.                                                   *)

LEMMA InitPool == Init => PoolInv
  <1> SUFFICES ASSUME Init PROVE PoolInv
    OBVIOUS
  <1>1. Len(chain) = 0 /\ DOMAIN chain = {}
    BY DEF Init
  <1> QED
    BY <1>1, InitTypes DEF Init, PoolInv, Ordered, InGrace, Fresh, RemembersLive, OnlyOnce

\* What follows the chain remembers it: a transaction of the chain that passes
\* the checks of a proposal is in no block.
LEMMA ProposesFresh ==
  ASSUME OldEnough, PoolInv, NEW n \in Node, last[n] = Len(chain),
         NEW t \in Tx, Orderable(n, t, ProposedTime(n)),
         NEW i \in 1 .. Len(chain)
  PROVE  t \notin chain[i].txs
  <1> SUFFICES ASSUME t \in chain[i].txs PROVE FALSE
    OBVIOUS
  <1>1. Timestamp[t] \in Int /\ now \in Int /\ LastTime(n) \in Int /\ Window \in Nat
    BY Times DEF PoolInv
  <1>2. ProposedTime(n) \in Int /\ ProposedTime(n) >= now /\ ProposedTime(n) > LastTime(n)
    BY <1>1 DEF ProposedTime
  <1>3. Expired(t, LastTime(n)) \/ Expired(t, now)
    BY DEF PoolInv, RemembersLive, Orderable
  <1>4. Expired(t, ProposedTime(n))
    BY <1>1, <1>2, <1>3 DEF Expired
  <1> QED
    BY <1>4 DEF Orderable

LEMMA ProposeKeeps ==
  ASSUME OldEnough, PoolInv, TypeOK', NEW n \in Node, GetTransactionsForOrdering(n)
  PROVE  PoolInv'
  <1>1. UNCHANGED <<now, chain, last, committed>>
    BY DEF GetTransactionsForOrdering
  <1>2. last[n] = Len(chain)
    BY DEF GetTransactionsForOrdering
  <1>3. PICK txs \in SUBSET Tx :
          /\ proposal' = {[time |-> ProposedTime(n), txs |-> txs, approved |-> {n}]}
          /\ \A t \in txs : Orderable(n, t, ProposedTime(n))
    BY DEF GetTransactionsForOrdering, Pending
  <1>4. ProposedTime(n) > TimeAt(Len(chain))
    BY <1>2, Times DEF ProposedTime, LastTime, PoolInv
  <1>5. \A i \in 1 .. Len(chain) : txs \cap chain[i].txs = {}
    BY <1>2, <1>3, ProposesFresh
  <1>6. Fresh'
    BY <1>1, <1>3, <1>4, <1>5 DEF Fresh, TimeAt, Orderable, Ahead
  <1> QED
    BY <1>1, <1>6 DEF PoolInv, Ordered, InGrace, RemembersLive, OnlyOnce, TimeAt, LastTime,
                      Ahead, Expired

LEMMA CommitProposalKeeps ==
  ASSUME PoolInv, TypeOK', CommitProposal
  PROVE  PoolInv'
  <1>1. UNCHANGED <<now, last, committed>> /\ proposal' = {}
    BY DEF CommitProposal
  <1>2. PICK p \in proposal : chain' = Append(chain, [time |-> p.time, txs |-> p.txs])
    BY DEF CommitProposal
  <1>3. /\ Len(chain) \in Nat
        /\ Len(chain') = Len(chain) + 1
        /\ \A i \in 1 .. Len(chain) : chain'[i] = chain[i]
        /\ chain'[Len(chain) + 1] = [time |-> p.time, txs |-> p.txs]
        /\ DOMAIN chain = 1 .. Len(chain) /\ DOMAIN chain' = 1 .. Len(chain')
    BY <1>2 DEF PoolInv, TypeOK, BlockPair
  <1>4. \A i \in 0 .. Len(chain) : TimeAt(i)' = TimeAt(i)
    BY <1>3 DEF TimeAt
  <1>5. Ordered'
    <2>1. \A i \in 1 .. Len(chain) : TimeAt(i - 1)' < TimeAt(i)'
      BY <1>3, <1>4 DEF PoolInv, Ordered
    <2>2. PICK h \in Nat : h = Len(chain)
      BY <1>3
    <2>3. TimeAt(h + 1)' = p.time
      BY <1>3, <2>2 DEF TimeAt
    <2>4. TimeAt(h + 1 - 1)' = TimeAt(h)
      BY <1>4, <2>2
    <2>5. TimeAt(h) < p.time
      BY <2>2, Times DEF PoolInv, TypeOK, Fresh
    <2>6. \A i \in 1 .. h + 1 : TimeAt(i - 1)' < TimeAt(i)'
      BY <2>1, <2>2, <2>3, <2>4, <2>5
    <2> QED
      BY <1>3, <2>2, <2>6 DEF Ordered
  <1>6. InGrace'
    BY <1>3 DEF PoolInv, InGrace, Fresh, Ahead
  <1>7. OnlyOnce'
    BY <1>3 DEF PoolInv, OnlyOnce, Fresh
  <1>8. RemembersLive'
    <2>1. \A n \in Node : last[n] \in 0 .. Len(chain) /\ LastTime(n)' = LastTime(n)
      BY <1>1, <1>4, Times DEF LastTime, PoolInv
    <2> QED
      BY <1>1, <1>3, <2>1 DEF PoolInv, RemembersLive, Expired
  <1>9. Fresh'
    BY <1>1 DEF Fresh
  <1> QED
    BY <1>5, <1>6, <1>7, <1>8, <1>9 DEF PoolInv

\* The steps that leave the chain alone, and the proposal but for who approves.
LEMMA RestKeeps ==
  ASSUME PoolInv, TypeOK', RemembersLive', chain' = chain,
         \A q \in proposal' : \E p \in proposal : q.time = p.time /\ q.txs = p.txs
  PROVE  PoolInv'
  <1>1. Fresh'
    BY DEF PoolInv, Fresh, TimeAt, Ahead
  <1> QED
    BY <1>1 DEF PoolInv, Ordered, InGrace, OnlyOnce, TimeAt, Ahead

\* A block handed to the pool is remembered, or too old to hold anything live.
LEMMA ReceiptsRemembered ==
  ASSUME OldEnough, PoolInv, NEW n \in Node, CommitTransactionsReceipts(n)
  PROVE  RemembersLive'
  <1> DEFINE h == last[n] + 1
  <1>1. /\ h \in 1 .. Len(chain)
        /\ last' = [last EXCEPT ![n] = h]
        /\ UNCHANGED <<now, chain>>
    BY Times DEF CommitTransactionsReceipts, PoolInv
  <1>2. committed' = [committed EXCEPT ![n] = @ \cup
          (IF Ignored(chain[h]) THEN {} ELSE chain[h].txs)]
    BY DEF CommitTransactionsReceipts
  <1>3. TypeOK /\ now \in Int /\ Window \in Nat /\ FutureGrace \in Nat /\ IgnoreAge \in Nat
    BY Times DEF PoolInv
  <1>4. LastTime(n)' = TimeAt(h) /\ LastTime(n) = TimeAt(h - 1)
    BY <1>1, <1>3 DEF LastTime, TimeAt, TypeOK
  <1>5. TimeAt(h) \in Int /\ TimeAt(h - 1) \in Int /\ TimeAt(h - 1) < TimeAt(h)
    BY <1>1, Times DEF PoolInv, Ordered
  <1> SUFFICES ASSUME NEW m \in Node, NEW i \in 1 .. last'[m], NEW t \in chain[i].txs
               PROVE  t \in committed'[m] \/ Expired(t, LastTime(m)') \/ Expired(t, now)
    BY <1>1 DEF RemembersLive, Expired
  <1>6. CASE m # n
    <2>1. last'[m] = last[m] /\ committed'[m] = committed[m] /\ LastTime(m)' = LastTime(m)
      BY <1>1, <1>2, <1>3, <1>6 DEF TypeOK, LastTime, TimeAt
    <2> QED
      BY <2>1 DEF PoolInv, RemembersLive
  <1>7. CASE m = n /\ i = h
    <2>1. t \in Tx /\ Timestamp[t] \in Int /\ chain[h].time \in Int
      BY <1>1, <1>7, <1>3, Times
    <2>2. CASE Ignored(chain[h])
      <3>1. Timestamp[t] <= chain[h].time + FutureGrace
        BY <1>1, <1>3, <1>7, <2>1 DEF PoolInv, InGrace, Ahead
      <3>2. chain[h].time < now - IgnoreAge
        BY <2>2 DEF Ignored
      <3> QED
        BY <1>3, <2>1, <3>1, <3>2 DEF Expired, OldEnough
    <2>3. CASE ~Ignored(chain[h])
      BY <1>2, <1>3, <1>7, <2>3 DEF TypeOK
    <2> QED
      BY <2>2, <2>3
  <1>8. CASE m = n /\ i # h
    <2>1. i \in 1 .. last[n]
      BY <1>1, <1>3, <1>8 DEF TypeOK
    <2>2. t \in committed[n] \/ Expired(t, LastTime(n)) \/ Expired(t, now)
      BY <1>8, <2>1 DEF PoolInv, RemembersLive
    <2>3. committed[n] \subseteq committed'[n]
      BY <1>2, <1>3 DEF TypeOK
    <2>4. t \in Tx /\ Timestamp[t] \in Int
      BY <2>1, <1>3, <1>1, Times
    <2>5. Expired(t, LastTime(n)) => Expired(t, LastTime(n)')
      BY <1>3, <1>4, <1>5, <2>4 DEF Expired
    <2> QED
      BY <1>8, <2>2, <2>3, <2>5
  <1> QED
    BY <1>6, <1>7, <1>8

LEMMA NextKeeps ==
  ASSUME OldEnough, PoolInv, [Next]_vars
  PROVE  PoolInv'
  <1>1. TypeOK'
    BY NextTypes DEF PoolInv
  <1> DEFINE Rest == UNCHANGED <<now, chain, last, committed>>
  <1>2. ASSUME Rest, UNCHANGED proposal \/ proposal' = {}
        PROVE  PoolInv'
    <2>1. RemembersLive'
      BY <1>2 DEF PoolInv, RemembersLive, Expired, LastTime, TimeAt
    <2> QED
      BY <1>1, <1>2, <2>1, RestKeeps
  <1>3. ASSUME \/ \E n \in Node, t \in Tx :
                    \/ CheckNewTransaction(n, t)
                    \/ RefuseNewTransaction(n, t)
                    \/ \E full \in BOOLEAN :
                         \/ AddNewTransaction(n, t, full)
                         \/ \E gateway \in Node : OnForwardedTransactions(n, gateway, t, full)
               \/ \E n \in Node : ClearExpired(n) \/ StoreBlock(n)
               \/ GiveUpProposal
        PROVE  PoolInv'
    BY <1>2, <1>3 DEF CheckNewTransaction, RefuseNewTransaction, AddNewTransaction,
       OnForwardedTransactions, ClearExpired, StoreBlock, GiveUpProposal
  <1>4. ASSUME NEW n \in Node, ValidateTransactionsForOrdering(n)
        PROVE  PoolInv'
    <2>1. Rest
      BY <1>4 DEF ValidateTransactionsForOrdering
    <2>2. RemembersLive'
      BY <2>1 DEF PoolInv, RemembersLive, Expired, LastTime, TimeAt
    <2>3. PICK p \in proposal : proposal' = {[p EXCEPT !.approved = @ \cup {n}]}
      BY <1>4 DEF ValidateTransactionsForOrdering
    <2>4. p \in [time : Int, txs : SUBSET Tx, approved : SUBSET Node]
      BY DEF PoolInv, TypeOK
    <2> QED
      BY <1>1, <2>1, <2>2, <2>3, <2>4, RestKeeps
  <1>5. ASSUME NEW n \in Node, CommitTransactionsReceipts(n)
        PROVE  PoolInv'
    <2>1. UNCHANGED <<chain, proposal>>
      BY <1>5 DEF CommitTransactionsReceipts
    <2> QED
      BY <1>1, <1>5, <2>1, ReceiptsRemembered, RestKeeps
  <1>6. ASSUME NEW n \in Node, ForgetCommitted(n)
        PROVE  PoolInv'
    <2>1. UNCHANGED <<now, chain, last, proposal>>
      BY <1>6 DEF ForgetCommitted
    <2>2. \A m \in Node : \A t \in committed[m] :
            t \in committed'[m] \/ Expired(t, LastTime(m))
      BY <1>6 DEF ForgetCommitted, PoolInv, TypeOK
    <2>3. RemembersLive'
      BY <2>1, <2>2 DEF PoolInv, RemembersLive, Expired, LastTime, TimeAt
    <2> QED
      BY <1>1, <2>1, <2>3, RestKeeps
  <1>7. ASSUME NEW n \in Node, Restart(n)
        PROVE  PoolInv'
    <2>1. UNCHANGED <<now, chain, proposal>>
      BY <1>7 DEF Restart
    <2>2. /\ last'[n] = 0
          /\ \A m \in Node : m # n => last'[m] = last[m] /\ committed'[m] = committed[m]
      BY <1>7 DEF Restart, PoolInv, TypeOK
    <2>3. RemembersLive'
      BY <2>1, <2>2 DEF PoolInv, RemembersLive, Expired, LastTime, TimeAt
    <2> QED
      BY <1>1, <2>1, <2>3, RestKeeps
  <1>8. ASSUME Tick
        PROVE  PoolInv'
    <2>1. UNCHANGED <<chain, proposal, last, committed>> /\ now' = now + 1
      BY <1>8 DEF Tick
    <2>2. \A t \in Tx : Expired(t, now) => Expired(t, now')
      BY <2>1, Times DEF Expired, PoolInv
    <2>3. \A n \in Node : \A i \in 1 .. last[n] : chain[i].txs \subseteq Tx
      BY Times DEF PoolInv
    <2>4. RemembersLive'
      BY <2>1, <2>2, <2>3 DEF PoolInv, RemembersLive, Expired, LastTime, TimeAt
    <2> QED
      BY <1>1, <2>1, <2>4, RestKeeps
  <1>9. CASE UNCHANGED vars
    BY <1>2, <1>9 DEF vars
  <1>10. CASE Next
    BY <1>10, <1>1, <1>2, <1>3, <1>4, <1>5, <1>6, <1>7, <1>8, ProposeKeeps,
       CommitProposalKeeps DEF Next
  <1> QED
    BY <1>9, <1>10

\* What a pool forgets or ignores is expired for every later block, if it ignores
\* no block younger than the window and the grace together.
THEOREM PoolRemembers == ASSUME OldEnough PROVE Spec => []RemembersLive
  <1>1. Init => PoolInv
    BY InitPool
  <1>2. PoolInv /\ [Next]_vars => PoolInv'
    BY NextKeeps
  <1>3. PoolInv => RemembersLive
    BY DEF PoolInv
  <1> QED
    BY <1>1, <1>2, <1>3, PTL DEF Spec

\* No transaction is executed twice, whatever is forwarded late, proposed again or
\* lost with a pool's restart, if the pool ignores no block younger than the
\* window and the grace together.
THEOREM ExecutedOnce == ASSUME OldEnough PROVE Spec => []OnlyOnce
  <1>1. Init => PoolInv
    BY InitPool
  <1>2. PoolInv /\ [Next]_vars => PoolInv'
    BY NextKeeps
  <1>3. PoolInv => OnlyOnce
    BY DEF PoolInv
  <1> QED
    BY <1>1, <1>2, <1>3, PTL DEF Spec

---------------------------------------------------------------------------
(* The client and its gateway.                                             *)

\* A block of that time may hold the transaction.
Fits(t, time) == ~Expired(t, time) /\ ~Ahead(t, time)

\* Blocks and proposals hold what fits their time.
Near ==
  /\ \A i \in 1 .. Len(chain) : \A t \in chain[i].txs : Fits(t, chain[i].time)
  /\ \A p \in proposal : \A t \in p.txs : Fits(t, p.time)

\* The committed pool knows of blocks only.
FromBlocks ==
  \A n \in Node : \A t \in committed[n] : \E i \in 1 .. last[n] : t \in chain[i].txs

\* A query allows for as old a block as the pools do.
WideEnough == QueryGrace >= FutureGrace

TellsCommitted == {"COMMITTED", "DUPLICATE_TRANSACTION_ALREADY_COMMITTED"}
TellsNothing == {"NO_RECORD_FOUND", "OUT_OF_SYNC"}

ApiInv ==
  /\ ApiTypeOK
  /\ Near
  /\ FromBlocks
  /\ since <= stored[Gateway]
  /\ CommittedIsStored

---------------------------------------------------------------------------
(* PublicApi over the pool: a call's steps are steps of the pool.          *)

LEMMA ApiStepIsPoolStep == [ApiNext]_apiVars => [Next]_vars
<1> SUFFICES ASSUME [ApiNext]_apiVars PROVE [Next]_vars
  OBVIOUS
<1>. USE CallAssumption
<1>1. CASE UNCHANGED apiVars
  BY <1>1 DEF apiVars
<1>2. CASE SendTransaction \/ Added \/ Refused \/ Wait \/ TimeOut \/ AskPool \/ AskStorage
  BY <1>2 DEF SendTransaction, Added, Refused, Wait, TimeOut, AskPool, AskStorage, Next
<1>3. ASSUME NEW n \in Node, NEW t \in Tx, NEW full \in BOOLEAN, OtherClient(n, t, full)
      PROVE  [Next]_vars
  BY <1>3 DEF OtherClient, Next
<1>4. ASSUME NEW n \in Node, NEW t \in Tx, NEW full \in BOOLEAN, NEW gateway \in Node,
             OnForwardedTransactions(n, gateway, t, full)
      PROVE  [Next]_vars
  BY <1>4 DEF Next
<1>5. ASSUME NEW n \in Node,
             ClearAndTell(n) \/ OrderAndTell(n) \/ CommitAndTell(n)
               \/ ValidateTransactionsForOrdering(n) \/ StoreBlock(n)
               \/ ForgetCommitted(n) \/ ApiRestart(n)
      PROVE  [Next]_vars
  BY <1>5 DEF ClearAndTell, OrderAndTell, CommitAndTell, ApiRestart, Next
<1>6. CASE CommitProposal \/ GiveUpProposal \/ Tick
  BY <1>6 DEF Next
<1>. QED
  BY <1>1, <1>2, <1>3, <1>4, <1>5, <1>6 DEF ApiNext

\* What the client calls does not take the pool beyond its specification: the
\* theorems about TransactionPool are about the node with its clients.
THEOREM ApiImplementsPool == ApiSpec => Spec
<1>1. ApiInit => Init
  BY DEF ApiInit
<1>. QED
  BY <1>1, ApiStepIsPoolStep, PTL DEF ApiSpec, Spec

\* No transaction is in two blocks when clients send it again and again.
THEOREM ApiExecutesOnce == ASSUME OldEnough PROVE ApiSpec => []OnlyOnce
<1>1. Spec => []OnlyOnce
  BY ExecutedOnce
<1>. QED
  BY <1>1, ApiImplementsPool, PTL

---------------------------------------------------------------------------
(* The pool's part.                                                        *)

\* How the chain and the BlockStorages grow.
LEMMA Grows ==
  ASSUME TypeOK, [Next]_vars
  PROVE  /\ \A i \in 1 .. Len(chain) : i \in 1 .. Len(chain') /\ chain'[i] = chain[i]
         /\ \A n \in Node : stored'[n] = stored[n] \/ stored'[n] = stored[n] + 1
<1>1. chain \in Seq(BlockPair)
  BY DEF TypeOK
<1>2. ASSUME CommitProposal
      PROVE  \A i \in 1 .. Len(chain) : i \in 1 .. Len(chain') /\ chain'[i] = chain[i]
  BY <1>1, <1>2 DEF CommitProposal
<1>3. CASE CommitProposal
  BY <1>2, <1>3 DEF CommitProposal
<1>4. ASSUME NEW n \in Node, StoreBlock(n)
      PROVE  /\ chain' = chain
             /\ \A a \in Node : stored'[a] = stored[a] \/ stored'[a] = stored[a] + 1
  BY <1>4 DEF StoreBlock, TypeOK
<1>5. CASE UNCHANGED <<chain, stored>>
  BY <1>5
<1>. QED
  BY <1>3, <1>4, <1>5
  DEF Next, vars, CheckNewTransaction, RefuseNewTransaction, AddNewTransaction,
      OnForwardedTransactions, ClearExpired, GetTransactionsForOrdering,
      ValidateTransactionsForOrdering, CommitTransactionsReceipts, ForgetCommitted,
      Restart, GiveUpProposal, Tick

LEMMA NearStep ==
  ASSUME TypeOK, Near, [Next]_vars
  PROVE  Near'
<1>. USE DEF Fits, Expired, Ahead
<1>1. ASSUME NEW n \in Node, GetTransactionsForOrdering(n)
      PROVE  Near'
  BY <1>1 DEF GetTransactionsForOrdering, Near, Orderable
<1>2. ASSUME NEW n \in Node, ValidateTransactionsForOrdering(n)
      PROVE  Near'
  <2>1. PICK p \in proposal : proposal' = {[p EXCEPT !.approved = @ \cup {n}]}
    BY <1>2 DEF ValidateTransactionsForOrdering
  <2>2. chain' = chain
    BY <1>2 DEF ValidateTransactionsForOrdering
  <2>3. p \in [time : Int, txs : SUBSET Tx, approved : SUBSET Node]
    BY DEF TypeOK
  <2>4. \A q \in proposal' : q.time = p.time /\ q.txs = p.txs
    BY <2>1, <2>3
  <2>. QED
    BY <2>2, <2>4 DEF Near
<1>3. CASE CommitProposal
  <2>1. PICK p \in proposal : chain' = Append(chain, [time |-> p.time, txs |-> p.txs])
    BY <1>3 DEF CommitProposal
  <2>2. proposal' = {}
    BY <1>3 DEF CommitProposal
  <2>3. chain \in Seq(BlockPair)
    BY DEF TypeOK
  <2>4. /\ Len(chain') = Len(chain) + 1
        /\ \A i \in 1 .. Len(chain) : chain'[i] = chain[i]
        /\ chain'[Len(chain) + 1] = [time |-> p.time, txs |-> p.txs]
    BY <2>1, <2>3
  <2>5. ASSUME NEW i \in 1 .. Len(chain') PROVE i \in 1 .. Len(chain) \/ i = Len(chain) + 1
    BY <2>3, <2>4
  <2>. QED
    BY <2>2, <2>4, <2>5 DEF Near
<1>4. CASE UNCHANGED chain /\ (UNCHANGED proposal \/ proposal' = {})
  BY <1>4 DEF Near
<1>. QED
  BY <1>1, <1>2, <1>3, <1>4
  DEF Next, vars, CheckNewTransaction, RefuseNewTransaction, AddNewTransaction,
      OnForwardedTransactions, ClearExpired, StoreBlock, CommitTransactionsReceipts,
      ForgetCommitted, Restart, GiveUpProposal, Tick

LEMMA FromBlocksStep ==
  ASSUME TypeOK, FromBlocks, [Next]_vars
  PROVE  FromBlocks'
<1>1. /\ \A i \in 1 .. Len(chain) : chain'[i] = chain[i]
      /\ \A n \in Node : \A i \in 1 .. last[n] : i \in 1 .. Len(chain)
  BY Grows, Times
<1>2. ASSUME NEW n \in Node, CommitTransactionsReceipts(n)
      PROVE  FromBlocks'
  <2> DEFINE h == last[n] + 1
  <2>1. /\ chain' = chain
        /\ last' = [last EXCEPT ![n] = h]
        /\ \E txs \in SUBSET chain[h].txs :
             committed' = [committed EXCEPT ![n] = @ \cup txs]
    BY <1>2 DEF CommitTransactionsReceipts
  <2>2. last[n] \in Nat
    BY DEF TypeOK
  <2>3. /\ last'[n] = h /\ h \in 1 .. h
        /\ \A t \in committed'[n] : t \in committed[n] \/ t \in chain[h].txs
        /\ \A a \in Node \ {n} : last'[a] = last[a] /\ committed'[a] = committed[a]
    BY <2>1, <2>2 DEF TypeOK
  <2>4. \A i \in 1 .. last[n] : i \in 1 .. h
    BY <2>2
  <2> HIDE DEF h
  <2>. QED
    BY <2>1, <2>3, <2>4 DEF FromBlocks
<1>3. ASSUME NEW n \in Node, ForgetCommitted(n)
      PROVE  FromBlocks'
  <2>1. chain' = chain /\ last' = last
    BY <1>3 DEF ForgetCommitted
  <2>2. \A a \in Node : committed'[a] \subseteq committed[a]
    BY <1>3 DEF ForgetCommitted, TypeOK
  <2>. QED
    BY <2>1, <2>2 DEF FromBlocks
<1>4. ASSUME NEW n \in Node, Restart(n)
      PROVE  FromBlocks'
  <2>1. /\ chain' = chain /\ committed'[n] = {}
        /\ \A a \in Node \ {n} : last'[a] = last[a] /\ committed'[a] = committed[a]
    BY <1>4 DEF Restart, TypeOK
  <2>. QED
    BY <2>1 DEF FromBlocks
<1>5. CASE UNCHANGED <<last, committed>>
  BY <1>1, <1>5 DEF FromBlocks
<1>. QED
  BY <1>2, <1>3, <1>4, <1>5
  DEF Next, vars, CheckNewTransaction, RefuseNewTransaction, AddNewTransaction,
      OnForwardedTransactions, ClearExpired, GetTransactionsForOrdering,
      ValidateTransactionsForOrdering, StoreBlock, CommitProposal, GiveUpProposal, Tick

---------------------------------------------------------------------------
(* The calls.                                                              *)

CallType == {"NO_CALL"} \cup Running \cup TransactionStatus \cup RequestStatus

\* What BlockStorage holds it keeps, and what comes is above what was there.
LEMMA HoldingGrows ==
  ASSUME TypeOK, TypeOK', [Next]_vars
  PROVE  /\ Holding \subseteq Holding'
         /\ \A i \in Holding : chain'[i] = chain[i]
         /\ \A i \in Holding' : i \in Holding \/ i > stored[Gateway]
         /\ stored[Gateway] <= stored'[Gateway]
<1>1. /\ stored[Gateway] \in 0 .. Len(chain)
      /\ stored'[Gateway] = stored[Gateway] \/ stored'[Gateway] = stored[Gateway] + 1
  BY CallAssumption, Times, Grows
<1>2. \A i \in 1 .. stored[Gateway] : i \in 1 .. stored'[Gateway] /\ chain'[i] = chain[i]
  BY <1>1, Grows, Times
<1>3. \A i \in 1 .. stored'[Gateway] : i \in 1 .. stored[Gateway] \/ i > stored[Gateway]
  BY <1>1, Times
<1>. QED
  BY <1>1, <1>2, <1>3, Times DEF Holding

\* The committed pool of the gateway is behind its BlockStorage.
LEMMA PoolHolds ==
  ASSUME TypeOK, FromBlocks, Sent \in committed[Gateway]
  PROVE  Holding # {}
<1>1. PICK i \in 1 .. last[Gateway] : Sent \in chain[i].txs
  BY CallAssumption DEF FromBlocks
<1>2. /\ last[Gateway] \in Nat /\ stored[Gateway] \in 0 .. Len(chain)
      /\ last[Gateway] <= stored[Gateway]
  BY CallAssumption, Times DEF TypeOK
<1>3. i \in 1 .. stored[Gateway]
  BY <1>2, Times
<1>. QED
  BY <1>1, <1>3 DEF Holding

\* A block with the transaction is searched or it is too old, and a wide window has
\* them all.
LEMMA RelevantOrOverlooked ==
  ASSUME TypeOK, Near, NEW i \in Holding
  PROVE  /\ Relevant(chain[i]) \/ Overlooked(chain[i])
         /\ WideEnough => ~Overlooked(chain[i])
<1>1. /\ i \in 1 .. Len(chain) /\ Sent \in chain[i].txs
  BY CallAssumption, Times DEF Holding
<1>2. Fits(Sent, chain[i].time)
  BY <1>1 DEF Near
<1>3. /\ chain[i].time \in Int /\ Timestamp[Sent] \in Int
      /\ Window \in Nat /\ FutureGrace \in Nat /\ QueryGrace \in Nat
  BY <1>1, CallAssumption, Times
<1>4. Timestamp[Sent] >= chain[i].time - Window /\ Timestamp[Sent] <= chain[i].time + FutureGrace
  BY <1>2, <1>3 DEF Fits, Expired, Ahead
<1>5. Relevant(chain[i]) \/ Overlooked(chain[i])
  BY <1>3, <1>4 DEF Relevant, Overlooked
<1>6. WideEnough => ~Overlooked(chain[i])
  BY <1>3, <1>4 DEF WideEnough, Overlooked
<1>. QED
  BY <1>5, <1>6

\* Every step of a call: it goes on, or it is answered with what the pool and
\* BlockStorage know at that moment.
CallStep ==
  /\ call' \in CallType
  /\ since' \in {since, 0, stored[Gateway]}
  /\ \/ UNCHANGED <<call, since>>
     \/ call' \notin TellsCommitted \cup TellsNothing
     \/ call' \in TellsCommitted /\ Holding' # {}
     \/ call' \in TellsNothing /\ \A i \in Holding' : Overlooked(chain'[i])

LEMMA HandleStep ==
  ASSUME ApiInv, NEW n \in Node, NEW status \in CallType \ TellsNothing, Handle(n, status),
         (n = Gateway /\ pending[n][Sent] = n /\ pending'[n][Sent] = NoNode)
            => (status \in TellsCommitted => Holding' # {})
  PROVE  CallStep
BY DEF Handle, CallStep, ApiInv, ApiTypeOK, CallType, TellsCommitted, TellsNothing

LEMMA CommitAndTellStep ==
  ASSUME ApiInv, NEW n \in Node, CommitAndTell(n)
  PROVE  CallStep
<1> DEFINE h == last[n] + 1
<1>1. /\ CommitTransactionsReceipts(n) /\ Handle(n, "COMMITTED")
  BY DEF CommitAndTell
<1>2. TypeOK
  BY DEF ApiInv, ApiTypeOK
<1>3. ASSUME n = Gateway, pending[n][Sent] = n, pending'[n][Sent] = NoNode
      PROVE  Holding' # {}
  <2>1. PICK txs \in SUBSET chain[h].txs : Drop(n, txs)
    BY <1>1 DEF CommitTransactionsReceipts
  <2>2. pending'[n][Sent] = IF Sent \in txs THEN NoNode ELSE pending[n][Sent]
    BY <1>2, <2>1, CallAssumption DEF Drop, TypeOK
  <2>3. Sent \in chain[h].txs
    BY <1>3, <2>2, SizesAssumption
  <2>4. last[n] < stored[n] /\ last[n] \in Nat /\ stored[n] \in Nat
    BY <1>1, <1>2, Times DEF CommitTransactionsReceipts
  <2>5. h \in 1 .. stored[n]
    BY <2>4
  <2>6. chain' = chain /\ stored' = stored
    BY <1>1 DEF CommitTransactionsReceipts
  <2>. QED
    BY <1>3, <2>3, <2>5, <2>6 DEF Holding
<1>4. "COMMITTED" \in CallType \ TellsNothing
  BY DEF CallType, TransactionStatus, TellsNothing
<1>. QED
  BY <1>1, <1>3, <1>4, HandleStep

LEMMA SendTransactionStep ==
  ASSUME ApiInv, SendTransaction
  PROVE  CallStep
<1>1. TypeOK /\ FromBlocks
  BY DEF ApiInv, ApiTypeOK
<1>2. call' = Verdict(Gateway, Sent) /\ since' = 0
  BY DEF SendTransaction
<1>3. UNCHANGED <<chain, stored>>
  BY DEF SendTransaction, CheckNewTransaction, vars
<1>4. /\ Verdict(Gateway, Sent) \in CallType
      /\ Verdict(Gateway, Sent) \notin TellsNothing
      /\ Verdict(Gateway, Sent) \in TellsCommitted => Sent \in committed[Gateway]
  BY DEF Verdict, CallType, Running, TransactionStatus, TellsNothing, TellsCommitted
<1>5. Verdict(Gateway, Sent) \in TellsCommitted => Holding' # {}
  BY <1>1, <1>3, <1>4, PoolHolds DEF Holding
<1>. QED
  BY <1>2, <1>4, <1>5 DEF CallStep

LEMMA AskPoolStep ==
  ASSUME ApiInv, AskPool
  PROVE  CallStep
<1>1. TypeOK /\ FromBlocks
  BY DEF ApiInv, ApiTypeOK
<1>2. UNCHANGED <<chain, stored>> /\ since' = stored[Gateway]
  BY DEF AskPool, vars
<1>3. \/ call' \in {"PENDING", "ASK_STORAGE"}
      \/ call' = "COMMITTED" /\ Sent \in committed[Gateway]
  BY DEF AskPool
<1>4. Sent \in committed[Gateway] => Holding' # {}
  BY <1>1, <1>2, PoolHolds DEF Holding
<1>. QED
  BY <1>2, <1>3, <1>4
  DEF CallStep, CallType, Running, TransactionStatus, TellsCommitted, TellsNothing

LEMMA AskStorageStep ==
  ASSUME ApiInv, AskStorage
  PROVE  CallStep
<1>1. TypeOK /\ Near
  BY DEF ApiInv, ApiTypeOK
<1>2. UNCHANGED <<chain, stored, since>>
  BY DEF AskStorage, vars
<1>3. \/ call' = "COMMITTED" /\ \E i \in Holding : Relevant(chain[i])
      \/ call' \in TellsNothing /\ ~\E i \in Holding : Relevant(chain[i])
  BY DEF AskStorage, TellsNothing
<1>4. Holding' = Holding
  BY <1>2 DEF Holding
<1>5. (~\E i \in Holding : Relevant(chain[i])) => \A i \in Holding : Overlooked(chain[i])
  BY <1>1, RelevantOrOverlooked
<1>. QED
  BY <1>2, <1>3, <1>4, <1>5
  DEF CallStep, CallType, RequestStatus, TransactionStatus, TellsCommitted, TellsNothing

LEMMA ApiStep ==
  ASSUME ApiInv, [ApiNext]_apiVars
  PROVE  CallStep
<1>1. call \in CallType
  BY DEF ApiInv, ApiTypeOK, CallType
<1>2. CASE UNCHANGED <<call, since>>
  BY <1>1, <1>2 DEF CallStep
<1>3. CASE SendTransaction
  BY <1>3, SendTransactionStep
<1>4. CASE AskPool
  BY <1>4, AskPoolStep
<1>5. CASE AskStorage
  BY <1>5, AskStorageStep
<1>6. CASE Added \/ Refused \/ Wait \/ TimeOut
  <2>1. /\ call' \in {"REJECTED_CONGESTION", "ADDED", "REJECTED_PRE_ORDER", "WAITING", "TIMED_OUT"}
        /\ since' = since
    BY <1>6 DEF Added, Refused, Wait, TimeOut
  <2>. QED
    BY <2>1 DEF CallStep, CallType, Running, RequestStatus, TransactionStatus,
                TellsCommitted, TellsNothing
<1>7. ASSUME NEW n \in Node, CommitAndTell(n)
      PROVE  CallStep
  BY <1>7, CommitAndTellStep
<1>8. ASSUME NEW n \in Node, ClearAndTell(n) \/ OrderAndTell(n)
      PROVE  CallStep
  <2>1. /\ {"REJECTED_TIMESTAMP_WINDOW_EXCEEDED", "REJECTED_PRE_ORDER"}
             \subseteq CallType \ (TellsNothing \cup TellsCommitted)
    BY DEF CallType, TransactionStatus, TellsNothing, TellsCommitted
  <2>2. \E status \in CallType \ (TellsNothing \cup TellsCommitted) : Handle(n, status)
    BY <1>8, <2>1 DEF ClearAndTell, OrderAndTell
  <2>. QED
    BY <2>2, HandleStep
<1>9. ASSUME NEW n \in Node, ApiRestart(n)
      PROVE  CallStep
  BY <1>1, <1>9 DEF ApiRestart, CallStep, CallType, Running, TellsCommitted, TellsNothing
<1>. QED
  BY <1>2, <1>3, <1>4, <1>5, <1>6, <1>7, <1>8, <1>9 DEF ApiNext, apiVars, Idle

LEMMA ApiInvStep ==
  ASSUME ApiInv, [ApiNext]_apiVars
  PROVE  ApiInv' /\ (QueryFinds => QueryFinds')
<1>1. TypeOK /\ [Next]_vars
  BY ApiStepIsPoolStep DEF ApiInv, ApiTypeOK
<1>2. TypeOK' /\ Near' /\ FromBlocks'
  BY <1>1, NextTypes, NearStep, FromBlocksStep DEF ApiInv
<1>3. CallStep
  BY ApiStep
<1>4. /\ Holding \subseteq Holding'
      /\ \A i \in Holding : chain'[i] = chain[i]
      /\ \A i \in Holding' : i \in Holding \/ i > stored[Gateway]
      /\ stored[Gateway] <= stored'[Gateway]
  BY <1>1, <1>2, HoldingGrows
<1>5. /\ stored[Gateway] \in Nat /\ stored'[Gateway] \in Nat /\ since \in Nat
      /\ \A i \in Holding' : i \in Nat
  <2>1. /\ stored[Gateway] \in 0 .. Len(chain) /\ Len(chain) \in Nat
        /\ stored'[Gateway] \in 0 .. Len(chain') /\ Len(chain') \in Nat
    BY <1>1, <1>2, CallAssumption DEF TypeOK
  <2>. QED
    BY <2>1 DEF ApiInv, ApiTypeOK, Holding
<1>6. since' \in Nat /\ since' <= stored'[Gateway]
  BY <1>3, <1>4, <1>5 DEF CallStep, ApiInv
<1>7. ApiTypeOK'
  BY <1>2, <1>3, <1>6 DEF CallStep, CallType, ApiTypeOK
<1>8. CommittedIsStored'
  BY <1>3, <1>4 DEF CallStep, ApiInv, CommittedIsStored, TellsCommitted, TellsNothing
<1>9. ASSUME QueryFinds PROVE QueryFinds'
  <2>1. SUFFICES ASSUME call' \in TellsNothing, NEW i \in Holding'
                 PROVE  i > since' \/ Overlooked(chain'[i])
    BY DEF QueryFinds, NoReceipt, TellsNothing, Overlooked
  <2>2. CASE UNCHANGED <<call, since>>
    <3>1. CASE i \in Holding
      <4>1. chain'[i] = chain[i]
        BY <1>4, <3>1
      <4> QED
        BY <1>9, <2>1, <2>2, <3>1, <4>1 DEF QueryFinds, NoReceipt, TellsNothing
    <3>2. CASE i > stored[Gateway]
      BY <1>5, <2>2, <3>2 DEF ApiInv
    <3>. QED
      BY <1>4, <3>1, <3>2
  <2>3. CASE \A j \in Holding' : Overlooked(chain'[j])
    BY <2>1, <2>3
  <2>. QED
    BY <1>3, <2>1, <2>2, <2>3 DEF CallStep, TellsCommitted, TellsNothing
<1>. QED
  BY <1>2, <1>6, <1>7, <1>8, <1>9 DEF ApiInv

LEMMA ApiInitInv == ApiInit => ApiInv /\ QueryFinds
<1> SUFFICES ASSUME ApiInit PROVE ApiInv /\ QueryFinds
  OBVIOUS
<1>1. TypeOK
  BY InitTypes DEF ApiInit
<1>2. /\ Len(chain) = 0 /\ proposal = {} /\ stored[Gateway] = 0
      /\ \A n \in Node : committed[n] = {}
  BY CallAssumption DEF ApiInit, Init
<1>. QED
  BY <1>1, <1>2
  DEF ApiInit, ApiInv, ApiTypeOK, Near, FromBlocks, CommittedIsStored, QueryFinds, NoReceipt

\* The state of pools and calls keeps its types.
THEOREM ApiTypeCorrect == ApiSpec => []ApiTypeOK
<1>1. ApiInv => ApiTypeOK
  BY DEF ApiInv
<1>. QED
  BY <1>1, ApiInitInv, ApiInvStep, PTL DEF ApiSpec

\* Whoever is told that a transaction is committed finds it in BlockStorage.
THEOREM CommittedAreStored == ApiSpec => []CommittedIsStored
<1>1. ApiInv => CommittedIsStored
  BY DEF ApiInv
<1>. QED
  BY <1>1, ApiInitInv, ApiInvStep, PTL DEF ApiSpec

LEMMA QueryInvariance == ApiSpec => [](ApiInv /\ QueryFinds)
<1>1. ApiInit => ApiInv /\ QueryFinds
  BY ApiInitInv
<1>2. ApiInv /\ QueryFinds /\ [ApiNext]_apiVars => (ApiInv /\ QueryFinds)'
  BY ApiInvStep
<1>. QED
  BY <1>1, <1>2, PTL DEF ApiSpec

\* Whatever the graces, a query misses a transaction BlockStorage had when it was
\* asked only when it overlooks the block as too old.
THEOREM QueriesFind == ApiSpec => []QueryFinds
BY QueryInvariance, PTL

\* The repair: a query misses none if it searches from as long before the timestamp as
\* the clock of the block may be behind it.
THEOREM WideQueriesFindAll == ASSUME WideEnough PROVE ApiSpec => []ReceiptFound
<1>1. ApiInv /\ QueryFinds => ReceiptFound
  BY RelevantOrOverlooked DEF ApiInv, ApiTypeOK, QueryFinds, ReceiptFound
<1>. QED
  BY <1>1, QueryInvariance, PTL

=============================================================================
