------------------------- MODULE BenchmarkConsensus -------------------------
(***************************************************************************)
(* Benchmark consensus over block sync.  One node leads for good: it       *)
(* announces its last committed block, waits until a quorum of the others  *)
(* is synchronized to it, and commits the next block by itself.  A node    *)
(* that misses a block has to rely on InterNodeSync to catch up.           *)
(*                                                                         *)
(* The consensus algorithm keeps its own last committed block, which a     *)
(* restart loses and BlockStorage brings back; BlockStorage is persistent. *)
(*                                                                         *)
(* Between the leader and another node at most one COMMIT and one          *)
(* COMMITTED are on their way: a newer one replaces it.                    *)
(***************************************************************************)
EXTENDS InterNodeSync

CONSTANTS
  Leader,
  Quorum,     \* other nodes that must be synchronized before the next block
  Genesis,    \* the fake empty block at height 0
  MaxHeight,  \* bound: the last block
  MaxSyncing  \* bound: nodes that synchronize at the same time

ASSUME LeaderAssumption ==
  /\ Leader \in Node /\ IsFiniteSet(Node)
  /\ Quorum \in 0 .. Cardinality(Node \ {Leader})
  /\ {MaxHeight, MaxSyncing} \subseteq Nat
  /\ Genesis \notin Block

VARIABLES
  lastCommitted,   \* height the consensus algorithm of each node is at
  synced,          \* nodes that confirmed the leader's last committed block
  commit,          \* the COMMIT on its way to each node
  committed        \* the COMMITTED on its way from each node: a set with at most one

vars == <<syncVars, lastCommitted, synced, commit, committed>>

Others == Node \ {Leader}

Commit == [height : Nat, block : Block \cup {Genesis}]

Init ==
  /\ SyncInit
  /\ lastCommitted = [n \in Node |-> 0]
  /\ synced = {}
  /\ commit = [n \in Others |-> {}]
  /\ committed = [n \in Others |-> {}]

---------------------------------------------------------------------------
(* Leader.                                                                 *)

BlockAt(n, h) == IF h = 0 THEN Genesis ELSE chain[n][h]

Announcement == [height |-> lastCommitted[Leader], block |-> BlockAt(Leader, lastCommitted[Leader])]

\* Replies are missing, or its proposals fail because BlockStorage is ahead of it.
Stuck == Cardinality(synced) < Quorum \/ lastCommitted[Leader] < Height(Leader)

\* To all nodes: at the start of a round, and once again when the leader is stuck.
BroadcastCommit ==
  /\ Stuck
  /\ commit' = [n \in Others |-> {Announcement}]
  /\ UNCHANGED <<syncVars, lastCommitted, synced, committed>>

\* Mutant: any confirmation counts.
OnAnyCommittedReceived(n) ==
  /\ committed[n] # {}
  /\ committed' = [committed EXCEPT ![n] = {}]
  /\ synced' = synced \cup {n}
  /\ UNCHANGED <<syncVars, lastCommitted, commit>>

\* COMMITTED: nodes synchronized to future or past heights are ignored.
OnCommittedReceived(n) ==
  /\ committed[n] # {}
  /\ committed' = [committed EXCEPT ![n] = {}]
  /\ synced' = synced \cup {m \in {n} : lastCommitted[Leader] \in committed[n]}
  /\ UNCHANGED <<syncVars, lastCommitted, commit>>

\* A quorum is synchronized: propose a block and commit it locally, or fail when
\* BlockStorage has another one at that height, then announce it.
ProposeBlock ==
  /\ Cardinality(synced) >= Quorum
  /\ lastCommitted[Leader] < MaxHeight
  /\ \E b \in Block :
       LET h == lastCommitted[Leader] + 1
       IN  /\ CommitBlock(Leader, h, b)
           /\ lastCommitted' = [lastCommitted EXCEPT ![Leader] = h]
           /\ synced' = {}
           /\ commit' = [n \in Others |-> {[height |-> h, block |-> b]}]
  /\ UNCHANGED <<session, offers, response, faults, committed>>

---------------------------------------------------------------------------
(* The other nodes.                                                        *)

\* The next block is committed, or BlockStorage fails because it still waits for
\* the block before it.
CommitNextBlock(n, c) ==
  /\ c.height = lastCommitted[n] + 1
  /\ \/ /\ CommitBlock(n, c.height, c.block)
        /\ lastCommitted' = [lastCommitted EXCEPT ![n] = c.height]
        /\ committed' = [committed EXCEPT ![n] = {c.height}]
     \/ /\ ~Accepts(n, c.height, c.block)
        /\ UNCHANGED <<chain, lastCommitted, committed>>

\* Mutant: no reply to a block that is not the next one.
OnNextCommitReceived(n) ==
  \E c \in commit[n] :
    /\ commit' = [commit EXCEPT ![n] = {}]
    /\ \/ CommitNextBlock(n, c)
       \/ /\ c.height # lastCommitted[n] + 1
          /\ UNCHANGED <<chain, lastCommitted, committed>>
    /\ UNCHANGED <<session, offers, response, faults, synced>>

\* COMMIT: commit the block if it is the next one, and reply with the height
\* reached; reply to any other one as well.
OnCommitReceived(n) ==
  \E c \in commit[n] :
    /\ commit' = [commit EXCEPT ![n] = {}]
    /\ \/ CommitNextBlock(n, c)
       \/ /\ c.height # lastCommitted[n] + 1
          /\ committed' = [committed EXCEPT ![n] = {lastCommitted[n]}]
          /\ UNCHANGED <<chain, lastCommitted>>
    /\ UNCHANGED <<session, offers, response, faults, synced>>

---------------------------------------------------------------------------
(* Block sync, as the consensus algorithm sees it.                         *)

\* Mutant: told of the height to come.
HandleBlockConsensusAhead(n, h) ==
  /\ lastCommitted' = [lastCommitted EXCEPT ![n] = h + 1]
  /\ synced' = IF n = Leader THEN {} ELSE synced

\* HandleBlockConsensus: the algorithm is told that BlockStorage is at height h.
HandleBlockConsensus(n, h) ==
  /\ lastCommitted' = [lastCommitted EXCEPT ![n] = h]
  /\ synced' = IF n = Leader /\ h # lastCommitted[n] THEN {} ELSE synced

\* No commit for too long.  A process that would find and tell nothing is left out.
OutOfSync(n) ==
  /\ Cardinality({m \in Node : session[m] # NoSession}) < MaxSyncing
  /\ lastCommitted[n] < Height(n) \/ \E m \in Node : Height(n) < Height(m)

\* Pre-synchronization tells it of the last persistent block (UPDATE_ONLY), a
\* synchronized block is verified and told (VERIFY_AND_UPDATE) before it is stored.
Synchronize(n) ==
  /\ \/ /\ OutOfSync(n)
        /\ BroadcastAvailabilityRequest(n)
        /\ HandleBlockConsensus(n, Height(n))
     \/ /\ ValidateSyncedBlock(n)
        /\ HandleBlockConsensus(n, response[n].first)
     \/ /\ \/ \E m \in Node : HandleBlockAvailabilityRequest(m, n) \/ HandleBlockSyncRequest(m, n)
           \/ HandleBlockAvailabilityResponse(n)
           \/ DiscardSyncedBlock(n)
           \/ CommitSyncedBlock(n)
           \/ GiveUpStalledSession(n)
        /\ UNCHANGED <<lastCommitted, synced>>
  /\ UNCHANGED <<commit, committed>>

---------------------------------------------------------------------------
(* Faults.                                                                 *)

DisturbSession(n) ==
  /\ LoseSyncMessage(n) \/ GiveUpSession(n)
  /\ UNCHANGED <<lastCommitted, synced, commit, committed>>

LoseMessage(n) ==
  /\ Fault
  /\ \/ commit[n] # {} /\ commit' = [commit EXCEPT ![n] = {}] /\ UNCHANGED committed
     \/ committed[n] # {} /\ committed' = [committed EXCEPT ![n] = {}] /\ UNCHANGED commit
  /\ UNCHANGED <<chain, session, offers, response, lastCommitted, synced>>

\* The algorithm starts from the genesis block, BlockStorage from its database.
Restart(n) ==
  /\ Fault
  /\ lastCommitted' = [lastCommitted EXCEPT ![n] = 0]
  /\ synced' = IF n = Leader THEN {} ELSE synced
  /\ session' = [session EXCEPT ![n] = NoSession]
  /\ offers' = [offers EXCEPT ![n] = {}]
  /\ response' = [response EXCEPT ![n] = NoResponse]
  /\ UNCHANGED <<chain, commit, committed>>

---------------------------------------------------------------------------
Next ==
  \/ BroadcastCommit
  \/ ProposeBlock
  \/ \E n \in Others : OnCommittedReceived(n) \/ OnCommitReceived(n) \/ LoseMessage(n)
  \/ \E n \in Node : Synchronize(n) \/ DisturbSession(n) \/ Restart(n)

\* Messages that are not lost arrive, the leader goes on and the sync loop is
\* endless.
Fairness ==
  /\ WF_vars(BroadcastCommit)
  /\ WF_vars(ProposeBlock)
  /\ \A n \in Others : WF_vars(OnCommittedReceived(n)) /\ WF_vars(OnCommitReceived(n))
  /\ \A n \in Node : WF_vars(Synchronize(n))

Spec == Init /\ [][Next]_vars
FairSpec == Spec /\ Fairness

---------------------------------------------------------------------------
(* Properties.                                                             *)

\* Told of a synchronized block that is not stored yet.
AboutToStore(n) ==
  response[n].valid /\ lastCommitted[n] = response[n].first /\ response[n].first = Height(n) + 1

\* Every variable has its type, and the algorithm is ahead of BlockStorage by the
\* block that block sync is about to store, never by another.
TypeOK ==
  /\ chain \in [Node -> Seq(Block)]
  /\ session \in [Node -> Session]
  /\ offers \in [Node -> SUBSET Offer]
  /\ response \in [Node -> Response]
  /\ faults \in 0 .. MaxFaults
  /\ lastCommitted \in [Node -> Nat]
  /\ \A n \in Node : lastCommitted[n] > Height(n) => AboutToStore(n)
  /\ synced \subseteq Others
  /\ commit \in [Others -> SUBSET Commit]
  /\ committed \in [Others -> SUBSET Nat]

\* Every BlockStorage holds a prefix of the leader's, by COMMIT, by block sync from
\* any source and by both at once.
Prefix ==
  \A n \in Node : Height(n) <= Height(Leader) /\ chain[n] = SubSeq(chain[Leader], 1, Height(n))

\* A node the leader counts as synchronized stored its last committed block or lacks
\* this one only: a node confirms a block that block sync is still storing, and may
\* lose it in a crash.  So the leader is at most two blocks ahead of what a quorum
\* of the others stored, also after it lost count in a restart.
QuorumFollows ==
  /\ \A n \in synced : Height(n) + 1 >= lastCommitted[Leader]
  /\ Cardinality({n \in Others : Height(n) + 2 >= Height(Leader)}) >= Quorum

\* Every node gets every block, although messages are lost, processes restart and
\* sessions break off.
Progress == <>\A n \in Node : Height(n) = MaxHeight

Ledger == INSTANCE SingleLedger WITH ledger <- chain[Leader], stored <- chain

\* The leader's chain is the ledger: it decides each block and the others learn
\* them one by one.
ImplementsLedger == Ledger!Spec
=============================================================================
