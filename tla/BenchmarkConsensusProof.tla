----------------------- MODULE BenchmarkConsensusProof -----------------------
(***************************************************************************)
(* Proofs about BenchmarkConsensus with its block sync, for every number   *)
(* of nodes, blocks and faults, and any batch and chunk: its types, that   *)
(* every BlockStorage holds a prefix of the leader's, that a quorum is at  *)
(* most two blocks behind, and that it implements SingleLedger.            *)
(*                                                                         *)
(* The argument: whatever is on its way holds blocks of the leader's       *)
(* chain, at their heights; a block that is validated but not stored is    *)
(* the next one, and the last that may be confirmed; the leader itself is  *)
(* never told of one, for nobody is ahead of it; the leader's chain only   *)
(* grows, and so do the others'.                                           *)
(***************************************************************************)
EXTENDS BenchmarkConsensus, FiniteSetTheorems, TLAPS

\* The leader's blocks from height first on.
FromLeader(first, blocks) ==
  \A i \in 1 .. Len(blocks) :
    /\ first + i - 1 \in 1 .. Height(Leader)
    /\ blocks[i] = chain[Leader][first + i - 1]

\* A session asks for blocks its source has.
SessionOK(n) ==
  /\ session[n] # NoSession => 1 <= session[n].next /\ session[n].next <= session[n].last
  /\ session[n].source # NoNode => /\ session[n].last <= Height(session[n].source)
                                   /\ session[n].asked \subseteq {session[n].source}
  /\ session[n].asked \subseteq Node
  /\ offers[n] # {} => session[n] # NoSession /\ session[n].source = NoNode
  /\ \A o \in offers[n] : session[n].next <= o.last /\ o.last <= Height(o.source)

SessionInv == \A n \in Node : SessionOK(n)

\* A response holds blocks of the leader, and the next block once it is validated.
ResponseOK(n) ==
  /\ FromLeader(response[n].first, response[n].blocks)
  /\ response[n] # NoResponse => response[n].source # NoNode /\ response[n].blocks # <<>>
  /\ response[n].valid => response[n].first \in 1 .. Height(n) + 1

\* COMMITs and block sync responses hold blocks of the leader.
MessagesInv ==
  /\ \A n \in Others : \A c \in commit[n] :
       c.height \in 0 .. Height(Leader) /\ c.block = BlockAt(Leader, c.height)
  /\ \A n \in Node : ResponseOK(n)

\* What a node confirmed it has, or it is the next block.
ConfirmedInv ==
  /\ \A n \in Others : \A h \in committed[n] : h <= Height(n) + 1
  /\ \A n \in synced : lastCommitted[Leader] <= Height(n) + 1

\* The second part of QuorumFollows.
QuorumClose == Cardinality({n \in Others : Height(n) + 2 >= Height(Leader)}) >= Quorum

\* A part of TypeOK.
TellsStored(n) == lastCommitted[n] > Height(n) => AboutToStore(n)

BenchmarkInv ==
  /\ TypeOK
  /\ Prefix
  /\ SessionInv
  /\ MessagesInv
  /\ ConfirmedInv
  /\ QuorumClose

---------------------------------------------------------------------------
(* What happens to the chains.                                             *)

\* A node that is behind gets the leader's next block.
Learns(n) ==
  /\ n \in Others
  /\ Height(n) < Height(Leader)
  /\ chain' = [chain EXCEPT ![n] = Append(@, chain[Leader][Height(n) + 1])]

\* Every step but the leader's proposal.
Follows == chain' = chain \/ \E n \in Others : Learns(n)

\* The leader's proposal.
Decides == \E b \in Block : chain' = [chain EXCEPT ![Leader] = Append(@, b)]

\* The chains are sequences of blocks, of a natural length.
LEMMA Heights ==
  ASSUME TypeOK
  PROVE  /\ Leader \in Node
         /\ \A n \in Node : chain[n] \in Seq(Block) /\ Height(n) \in Nat
         /\ \A n \in Node : \A i \in 1 .. Height(n) : chain[n][i] \in Block
  BY LeaderAssumption DEF TypeOK, Height

\* The chains only grow, and the leader's only by a proposal.
LEMMA ChainsGrow ==
  ASSUME TypeOK, Follows \/ Decides
  PROVE  /\ chain' \in [Node -> Seq(Block)]
         /\ \A n \in Node : /\ Height(n)' \in Nat /\ Height(n) <= Height(n)'
                            /\ \A i \in 1 .. Height(n) : chain'[n][i] = chain[n][i]
         /\ Height(Leader)' <= Height(Leader) + 1
         /\ Follows => chain'[Leader] = chain[Leader]
  <1>1. CASE chain' = chain
    BY <1>1, Heights DEF TypeOK, Height
  <1>2. ASSUME NEW m \in Node, NEW b \in Block,
               chain' = [chain EXCEPT ![m] = Append(@, b)]
        PROVE  /\ chain' \in [Node -> Seq(Block)]
               /\ \A n \in Node : /\ Height(n)' \in Nat /\ Height(n) <= Height(n)'
                                  /\ \A i \in 1 .. Height(n) : chain'[n][i] = chain[n][i]
               /\ Height(Leader)' <= Height(Leader) + 1
               /\ m # Leader => chain'[Leader] = chain[Leader]
    <2>1. chain' \in [Node -> Seq(Block)]
      BY <1>2, Heights DEF TypeOK
    <2>2. \A n \in Node : chain'[n] = IF n = m THEN Append(chain[n], b) ELSE chain[n]
      BY <1>2 DEF TypeOK
    <2>3. ASSUME NEW n \in Node
          PROVE  /\ Height(n)' = IF n = m THEN Height(n) + 1 ELSE Height(n)
                 /\ \A i \in 1 .. Height(n) : chain'[n][i] = chain[n][i]
      <3>1. chain[n] \in Seq(Block)
        BY Heights
      <3>2. CASE n = m
        <4>1. chain'[n] = Append(chain[n], b)
          BY <2>2, <3>2
        <4>2. /\ Len(chain'[n]) = Len(chain[n]) + 1
              /\ \A i \in 1 .. Len(chain[n]) : chain'[n][i] = chain[n][i]
          BY <3>1, <4>1
        <4> QED
          BY <3>2, <4>2 DEF Height
      <3>3. CASE n # m
        BY <2>2, <3>3 DEF Height
      <3> QED
        BY <3>2, <3>3
    <2> QED
      BY <2>1, <2>2, <2>3, Heights
  <1>3. CASE \E n \in Others : Learns(n)
    <2>1. PICK n \in Others : Learns(n)
      BY <1>3
    <2>2. chain[Leader][Height(n) + 1] \in Block
      BY <2>1, Heights DEF Learns, Others
    <2> QED
      BY <1>2, <2>1, <2>2 DEF Learns, Others
  <1>4. CASE Decides
    <2>1. PICK b \in Block : chain' = [chain EXCEPT ![Leader] = Append(@, b)]
      BY <1>4 DEF Decides
    <2>2. ~Follows \/ chain' = chain \/ \E n \in Others : Learns(n)
      BY DEF Follows
    <2> QED
      BY <1>1, <1>2, <1>3, <2>1, <2>2, Heights
  <1> QED
    BY <1>1, <1>3, <1>4 DEF Follows

\* A chain that follows the leader's keeps to it.
LEMMA PrefixKept ==
  ASSUME TypeOK, Prefix, Follows \/ Decides
  PROVE  Prefix'
  <1> USE DEF Height
  <1>1. \A n \in Node : \A i \in 1 .. Height(n) : chain[n][i] = chain[Leader][i]
    BY Heights DEF Prefix
  <1>2. ASSUME NEW n \in Node
        PROVE  /\ Height(n)' <= Height(Leader)'
               /\ \A i \in 1 .. Height(n)' : chain'[n][i] = chain'[Leader][i]
    <2>1. CASE chain' = chain
      BY <1>1, <2>1, Heights DEF Prefix
    <2>2. CASE Decides
      <3>1. PICK b \in Block : chain' = [chain EXCEPT ![Leader] = Append(@, b)]
        BY <2>2 DEF Decides
      <3>2. CASE n = Leader
        BY <3>2, ChainsGrow
      <3>3. CASE n # Leader
        <4>1. chain'[n] = chain[n]
          BY <3>1, <3>3 DEF TypeOK
        <4> QED
          BY <1>1, <4>1, ChainsGrow, Heights DEF Prefix
      <3> QED
        BY <3>2, <3>3
    <2>3. ASSUME NEW m \in Others, Learns(m)
          PROVE  /\ Height(n)' <= Height(Leader)'
                 /\ \A i \in 1 .. Height(n)' : chain'[n][i] = chain'[Leader][i]
      <3>1. chain'[Leader] = chain[Leader]
        BY <2>3, ChainsGrow DEF Follows
      <3>2. CASE n # m
        <4>1. chain'[n] = chain[n]
          BY <2>3, <3>2 DEF Learns, TypeOK
        <4> QED
          BY <1>1, <3>1, <4>1, Heights DEF Prefix
      <3>3. CASE n = m
        <4>1. chain'[n] = Append(chain[n], chain[Leader][Height(n) + 1])
          BY <2>3, <3>3 DEF Learns, TypeOK
        <4>2. /\ Height(n)' = Height(n) + 1
              /\ chain'[n][Height(n) + 1] = chain[Leader][Height(n) + 1]
              /\ \A i \in 1 .. Height(n) : chain'[n][i] = chain[n][i]
          BY <4>1, Heights
        <4> QED
          BY <1>1, <2>3, <3>1, <3>3, <4>2, Heights DEF Learns
      <3> QED
        BY <3>2, <3>3
    <2> QED
      BY <2>1, <2>2, <2>3 DEF Follows
  <1>3. ASSUME NEW n \in Node
        PROVE  chain'[n] = SubSeq(chain'[Leader], 1, Height(n)')
    <2>1. chain'[n] \in Seq(Block) /\ chain'[Leader] \in Seq(Block)
      BY ChainsGrow, Heights
    <2>2. SubSeq(chain'[Leader], 1, Height(n)') = [i \in 1 .. Height(n)' |-> chain'[Leader][i]]
      BY <1>2, <2>1
    <2>3. chain'[n] = [i \in 1 .. Height(n)' |-> chain'[n][i]]
      BY <2>1
    <2> QED
      BY <1>2, <2>2, <2>3
  <1> QED
    BY <1>2, <1>3 DEF Prefix

---------------------------------------------------------------------------
(* What a step that changes only some of the variables keeps.              *)

\* What the leader's chain holds it goes on holding.
LEMMA LeaderKeeps ==
  ASSUME TypeOK, Follows \/ Decides
  PROVE  /\ \A h \in 0 .. Height(Leader) :
              h \in 0 .. Height(Leader)' /\ BlockAt(Leader, h)' = BlockAt(Leader, h)
         /\ \A first, blocks : FromLeader(first, blocks) => FromLeader(first, blocks)'
  <1>1. /\ Height(Leader) \in Nat /\ Height(Leader)' \in Nat
        /\ Height(Leader) <= Height(Leader)'
        /\ \A i \in 1 .. Height(Leader) : chain'[Leader][i] = chain[Leader][i]
    BY ChainsGrow, Heights
  <1>2. \A h \in 0 .. Height(Leader) :
          h \in 0 .. Height(Leader)' /\ BlockAt(Leader, h)' = BlockAt(Leader, h)
    BY <1>1 DEF BlockAt
  <1>3. ASSUME NEW first, NEW blocks, FromLeader(first, blocks)
        PROVE  FromLeader(first, blocks)'
    <2>1. \A i \in 1 .. Len(blocks) :
            /\ first + i - 1 \in 1 .. Height(Leader)'
            /\ blocks[i] = chain'[Leader][first + i - 1]
      BY <1>1, <1>3 DEF FromLeader
    <2> QED
      BY <2>1 DEF FromLeader
  <1> QED
    BY <1>2, <1>3

\* A session that is over, or goes on with the range and the source it has.
GoesOn(n) ==
  \/ session'[n] = NoSession /\ offers'[n] = {}
  \/ /\ session'[n].next = session[n].next
     /\ session'[n].last = session[n].last
     /\ session'[n].source = session[n].source
     /\ session'[n].asked \subseteq session[n].asked
     /\ session[n] = NoSession => session'[n] = NoSession
     /\ offers'[n] \subseteq offers[n]

\* Its source still has the blocks.
LEMMA SessionKept ==
  ASSUME TypeOK, SessionInv, Follows \/ Decides, NEW n \in Node, GoesOn(n)
  PROVE  SessionOK(n)'
  <1>1. CASE session'[n] = NoSession /\ offers'[n] = {}
    BY <1>1 DEF SessionOK, NoSession
  <1>2. CASE /\ session'[n].next = session[n].next
             /\ session'[n].last = session[n].last
             /\ session'[n].source = session[n].source
             /\ session'[n].asked \subseteq session[n].asked
             /\ session[n] = NoSession => session'[n] = NoSession
             /\ offers'[n] \subseteq offers[n]
    <2>1. session[n] \in Session /\ offers[n] \subseteq Offer
      BY DEF TypeOK
    <2>2. SessionOK(n)
      BY DEF SessionInv
    <2>3. session[n].source # NoNode => session[n].last <= Len(chain'[session[n].source])
      <3>1. session[n].last \in Nat /\ session[n].source \in Node \cup {NoNode}
        BY <2>1 DEF Session
      <3> QED
        BY <2>2, <3>1, ChainsGrow, Heights DEF SessionOK, Height
    <2>4. \A o \in offers[n] : o.last <= Height(o.source)'
      <3>1. \A o \in offers[n] : o.last \in Nat /\ o.source \in Node
        BY <2>1 DEF Offer
      <3> QED
        BY <2>2, <3>1, ChainsGrow, Heights DEF SessionOK
    <2>5. session'[n] = NoSession => session[n].next = 0
      BY <1>2 DEF NoSession
    <2>6. session'[n] = NoSession <=> session[n] = NoSession
      BY <1>2, <2>2, <2>5 DEF SessionOK
    <2>7. /\ session[n] # NoSession => 1 <= session[n].next /\ session[n].next <= session[n].last
          /\ session[n].source # NoNode => session[n].asked \subseteq {session[n].source}
          /\ session[n].asked \subseteq Node
          /\ offers[n] # {} => session[n] # NoSession /\ session[n].source = NoNode
          /\ \A o \in offers[n] : session[n].next <= o.last
      BY <2>2 DEF SessionOK
    <2> QED
      BY <1>2, <2>3, <2>4, <2>6, <2>7 DEF SessionOK, Height
  <1> QED
    BY <1>1, <1>2 DEF GoesOn

LEMMA SessionsKept ==
  ASSUME TypeOK, SessionInv, Follows \/ Decides, UNCHANGED <<session, offers>>
  PROVE  SessionInv'
  <1>1. \A n \in Node : GoesOn(n)
    BY DEF GoesOn
  <1> QED
    BY <1>1, SessionKept DEF SessionInv

\* Messages that stay, if any do, go on holding the leader's blocks.
LEMMA CommitsKept ==
  ASSUME TypeOK, MessagesInv, Follows \/ Decides,
         NEW n \in Others, commit'[n] \subseteq commit[n]
  PROVE  \A c \in commit'[n] :
           c.height \in 0 .. Height(Leader)' /\ c.block = BlockAt(Leader, c.height)'
  BY LeaderKeeps DEF MessagesInv

LEMMA ResponseKept ==
  ASSUME TypeOK, MessagesInv, Follows \/ Decides,
         NEW n \in Node, response'[n] = response[n] \/ response'[n] = NoResponse
  PROVE  ResponseOK(n)'
  <1>1. CASE response'[n] = response[n]
    <2>1. ResponseOK(n)
      BY DEF MessagesInv
    <2>2. \A i \in 1 .. Len(response[n].blocks) :
            /\ response[n].first + i - 1 \in 1 .. Height(Leader)'
            /\ response[n].blocks[i] = chain'[Leader][response[n].first + i - 1]
      BY <2>1, LeaderKeeps DEF FromLeader, ResponseOK
    <2>3. response[n].valid => response[n].first \in 1 .. Height(n)' + 1
      <3>1. Height(n) \in Nat /\ Height(n)' \in Nat /\ Height(n) <= Height(n)'
        BY ChainsGrow, Heights
      <3> QED
        BY <2>1, <3>1 DEF ResponseOK
    <2> QED
      BY <1>1, <2>1, <2>2, <2>3 DEF FromLeader, ResponseOK
  <1>2. CASE response'[n] = NoResponse
    <2>1. Len(response'[n].blocks) = 0 /\ ~response'[n].valid
      BY <1>2 DEF NoResponse
    <2> QED
      BY <1>2, <2>1 DEF FromLeader, ResponseOK
  <1> QED
    BY <1>1, <1>2

\* What is confirmed stays stored.
LEMMA ConfirmedKept ==
  ASSUME TypeOK, ConfirmedInv, Follows \/ Decides,
         \A n \in Others : committed'[n] \subseteq committed[n],
         synced' = {} \/ (synced' \subseteq synced /\ lastCommitted'[Leader] = lastCommitted[Leader])
  PROVE  ConfirmedInv'
  <1>1. ASSUME NEW n \in Others, NEW h \in committed'[n]
        PROVE  h <= Height(n)' + 1
    <2>1. h \in Nat /\ h <= Height(n) + 1 /\ n \in Node
      BY DEF TypeOK, ConfirmedInv, Others
    <2> QED
      BY <2>1, ChainsGrow, Heights
  <1>2. ASSUME NEW n \in synced'
        PROVE  lastCommitted'[Leader] <= Height(n)' + 1
    <2>1. n \in synced /\ n \in Node /\ lastCommitted'[Leader] = lastCommitted[Leader]
      BY DEF TypeOK, Others
    <2>2. lastCommitted[Leader] \in Nat /\ lastCommitted[Leader] <= Height(n) + 1
      BY <2>1, LeaderAssumption DEF TypeOK, ConfirmedInv
    <2> QED
      BY <2>1, <2>2, ChainsGrow, Heights
  <1> QED
    BY <1>1, <1>2 DEF ConfirmedInv

\* An algorithm that is told nothing, and whose validated block stays, if there is one.
LEMMA TellsStoredKept ==
  ASSUME TypeOK, Follows \/ Decides, NEW n \in Node,
         lastCommitted'[n] = lastCommitted[n],
         response'[n] = response[n] \/ ~response[n].valid
  PROVE  TellsStored(n)'
  <1>1. /\ Height(n) \in Nat /\ Height(n)' \in Nat /\ Height(n) <= Height(n)'
        /\ lastCommitted[n] \in Nat
    BY ChainsGrow, Heights DEF TypeOK
  <1>2. lastCommitted[n] > Height(n) => AboutToStore(n)
    BY DEF TypeOK
  <1>3. CASE lastCommitted[n] <= Height(n)'
    BY <1>1, <1>3 DEF TellsStored
  <1>4. CASE lastCommitted[n] > Height(n)'
    <2>1. /\ response[n].valid /\ lastCommitted[n] = response[n].first
          /\ response[n].first = Height(n) + 1
      BY <1>1, <1>2, <1>4 DEF AboutToStore
    <2>2. response[n].first = Height(n)' + 1 /\ response'[n] = response[n]
      BY <1>1, <1>4, <2>1
    <2> QED
      BY <2>1, <2>2 DEF TellsStored, AboutToStore
  <1> QED
    BY <1>1, <1>3, <1>4

\* Nobody is ahead of the leader, so it validates no block.
LEMMA LeaderStored ==
  ASSUME BenchmarkInv
  PROVE  lastCommitted[Leader] \in Nat /\ lastCommitted[Leader] <= Height(Leader)
  <1> DEFINE r == response[Leader]
  <1>1. /\ Leader \in Node /\ Height(Leader) \in Nat /\ lastCommitted[Leader] \in Nat
        /\ r \in Response /\ ResponseOK(Leader)
    BY Heights DEF BenchmarkInv, TypeOK, MessagesInv
  <1>2. ASSUME r.valid
        PROVE  r.first <= Height(Leader)
    <2>1. r # NoResponse
      BY <1>2 DEF NoResponse
    <2>2. r.blocks # <<>> /\ FromLeader(r.first, r.blocks)
      BY <1>1, <2>1 DEF ResponseOK
    <2> HIDE DEF r
    <2>3. r.first \in Nat /\ r.blocks \in Seq(Block)
      BY <1>1 DEF Response
    <2>4. 1 \in 1 .. Len(r.blocks) /\ r.first + 1 - 1 = r.first
      BY <2>2, <2>3
    <2> QED
      BY <1>1, <2>2, <2>3, <2>4 DEF FromLeader
  <1>3. lastCommitted[Leader] > Height(Leader) => AboutToStore(Leader)
    BY <1>1 DEF BenchmarkInv, TypeOK
  <1>4. AboutToStore(Leader) => r.valid /\ r.first = Height(Leader) + 1
    BY DEF AboutToStore
  <1> HIDE DEF r
  <1> QED
    BY <1>1, <1>2, <1>3, <1>4

\* Only the leader's proposal leaves a quorum further behind.
LEMMA QuorumKept ==
  ASSUME TypeOK, QuorumClose, Follows
  PROVE  QuorumClose'
  <1> DEFINE F == {n \in Others : Height(n) + 2 >= Height(Leader)}
             G == {n \in Others : Height(n)' + 2 >= Height(Leader)'}
  <1>1. IsFiniteSet(Others)
    BY LeaderAssumption, FS_Subset DEF Others
  <1>2. IsFiniteSet(G) /\ G \subseteq Others
    BY <1>1, FS_Subset
  <1>3. Height(Leader)' = Height(Leader)
    BY ChainsGrow DEF Height
  <1>4. F \subseteq G
    BY <1>3, ChainsGrow, Heights DEF Others
  <1>5. Cardinality(F) <= Cardinality(G) /\ Cardinality(F) \in Nat /\ Cardinality(G) \in Nat
    BY <1>2, <1>4, FS_Subset, FS_CardinalityType
  <1>6. Quorum <= Cardinality(F)
    BY DEF QuorumClose
  <1>7. Quorum \in Nat
    BY LeaderAssumption, <1>1, FS_CardinalityType DEF Others
  <1> QED
    BY <1>5, <1>6, <1>7 DEF QuorumClose

---------------------------------------------------------------------------
(* The handlers.  What they have to keep:                                  *)

Kept == TypeOK /\ SessionInv /\ MessagesInv /\ ConfirmedInv

\* What follows from the parts when the chains do not change.
LEMMA Unmoved ==
  ASSUME chain' = chain
  PROVE  Follows
  BY DEF Follows

LEMMA KeptByBroadcastCommit ==
  ASSUME BenchmarkInv, BroadcastCommit
  PROVE  Follows /\ Kept'
  <1> USE DEF BenchmarkInv, BroadcastCommit, syncVars
  <1>1. Follows
    BY Unmoved
  <1>2. /\ Announcement \in Commit
        /\ Announcement.height \in 0 .. Height(Leader)
        /\ Announcement.block = BlockAt(Leader, Announcement.height)
    <2>1. /\ lastCommitted[Leader] \in 0 .. Height(Leader)
          /\ \A h \in 1 .. Height(Leader) : chain[Leader][h] \in Block
      BY LeaderStored, Heights DEF TypeOK
    <2> QED
      BY <2>1, Heights DEF Announcement, BlockAt, Commit
  <1>3. TypeOK'
    BY <1>2 DEF TypeOK, Height, AboutToStore
  <1>4. SessionInv'
    BY <1>1, SessionsKept
  <1>5. MessagesInv'
    <2>1. ASSUME NEW n \in Others, NEW c \in commit'[n]
          PROVE  c.height \in 0 .. Height(Leader)' /\ c.block = BlockAt(Leader, c.height)'
      BY <1>1, <1>2, LeaderKeeps
    <2> QED
      BY <1>1, <2>1, ResponseKept DEF MessagesInv
  <1>6. ConfirmedInv'
    BY <1>1, ConfirmedKept
  <1> QED
    BY <1>1, <1>3, <1>4, <1>5, <1>6 DEF Kept

LEMMA KeptByOnCommittedReceived ==
  ASSUME BenchmarkInv, NEW n \in Others, OnCommittedReceived(n)
  PROVE  Follows /\ Kept'
  <1> USE DEF BenchmarkInv, OnCommittedReceived, syncVars
  <1>1. Follows
    BY Unmoved
  <1>2. TypeOK'
    BY DEF TypeOK, Height, AboutToStore
  <1>3. SessionInv'
    BY <1>1, SessionsKept
  <1>4. MessagesInv'
    BY <1>1, CommitsKept, ResponseKept DEF MessagesInv
  <1>5. \A m \in Node : Height(m)' = Height(m)
    BY DEF Height
  <1>6. ConfirmedInv'
    <2>1. \A m \in Others : committed'[m] \subseteq committed[m]
      BY DEF TypeOK
    <2>2. \A m \in Others : \A h \in committed'[m] : h <= Height(m)' + 1
      BY <1>5, <2>1 DEF ConfirmedInv, Others
    <2>3. ASSUME NEW m \in synced' PROVE lastCommitted'[Leader] <= Height(m)' + 1
      <3>1. CASE m \in synced
        BY <1>5, <3>1 DEF ConfirmedInv, TypeOK, Others
      <3>2. CASE m = n /\ lastCommitted[Leader] \in committed[n]
        BY <1>5, <3>2 DEF ConfirmedInv, Others
      <3> QED
        BY <3>1, <3>2
    <2> QED
      BY <2>2, <2>3 DEF ConfirmedInv
  <1> QED
    BY <1>1, <1>2, <1>3, <1>4, <1>6 DEF Kept

LEMMA KeptByOnCommitReceived ==
  ASSUME BenchmarkInv, NEW n \in Others, OnCommitReceived(n)
  PROVE  Follows /\ Kept'
  <1> USE DEF BenchmarkInv
  <1>0. n \in Node /\ n # Leader /\ Leader \in Node
    BY LeaderAssumption DEF Others
  <1>1. PICK c \in commit[n] :
          /\ commit' = [commit EXCEPT ![n] = {}]
          /\ \/ CommitNextBlock(n, c)
             \/ /\ c.height # lastCommitted[n] + 1
                /\ committed' = [committed EXCEPT ![n] = {lastCommitted[n]}]
                /\ UNCHANGED <<chain, lastCommitted>>
          /\ UNCHANGED <<session, offers, response, faults, synced>>
    BY DEF OnCommitReceived
  <1>2. c.height \in 0 .. Height(Leader) /\ c.block = BlockAt(Leader, c.height)
    BY DEF MessagesInv
  <1>3. \/ /\ CommitBlock(n, c.height, c.block)
           /\ lastCommitted' = [lastCommitted EXCEPT ![n] = c.height]
           /\ committed' = [committed EXCEPT ![n] = {c.height}]
        \/ /\ UNCHANGED <<chain, lastCommitted>>
           /\ \/ committed' = committed
              \/ committed' = [committed EXCEPT ![n] = {lastCommitted[n]}]
    BY <1>1 DEF CommitNextBlock
  <1>4. Follows
    <2>1. CASE chain' = chain
      BY <2>1, Unmoved
    <2>2. CASE chain' # chain
      <3>1. /\ c.height = Height(n) + 1
            /\ chain' = [chain EXCEPT ![n] = Append(@, c.block)]
        BY <1>3, <2>2 DEF CommitBlock
      <3>2. Height(n) < Height(Leader) /\ c.block = chain[Leader][Height(n) + 1]
        BY <1>0, <1>2, <3>1, Heights DEF BlockAt
      <3> QED
        BY <3>1, <3>2 DEF Follows, Learns
    <2> QED
      BY <2>1, <2>2
  <1>5. \A m \in Node : /\ Height(m) \in Nat /\ Height(m)' \in Nat
                        /\ Height(m) <= Height(m)'
                        /\ lastCommitted[m] \in Nat
    BY <1>4, ChainsGrow, Heights DEF TypeOK
  <1>6. CommitBlock(n, c.height, c.block) => c.height <= Height(n)'
    <2>1. CASE c.height = Height(n) + 1 /\ CommitBlock(n, c.height, c.block)
      <3>1. chain'[n] = Append(chain[n], c.block)
        BY <1>0, <2>1 DEF CommitBlock, TypeOK
      <3>2. Len(chain'[n]) = Len(chain[n]) + 1
        BY <1>0, <3>1, Heights
      <3> QED
        BY <2>1, <3>2 DEF Height
    <2>2. CASE c.height # Height(n) + 1 /\ CommitBlock(n, c.height, c.block)
      <3>1. c.height <= Height(n)
        BY <1>0, <1>2, <1>5, <2>2 DEF CommitBlock, Accepts
      <3> QED
        BY <1>0, <1>2, <1>5, <3>1
    <2> QED
      BY <2>1, <2>2
  <1>7. /\ lastCommitted' \in [Node -> Nat]
        /\ lastCommitted'[Leader] = lastCommitted[Leader]
        /\ \A m \in Node : TellsStored(m)'
    <2>1. lastCommitted' \in [Node -> Nat] /\ \A m \in Node \ {n} : lastCommitted'[m] = lastCommitted[m]
      <3>1. c.height \in Nat /\ lastCommitted \in [Node -> Nat]
        BY <1>0, <1>2, <1>5 DEF TypeOK
      <3> QED
        BY <1>3, <3>1
    <2>2. TellsStored(n)'
      <3>1. CASE lastCommitted' = lastCommitted
        BY <1>0, <1>1, <1>4, <3>1, TellsStoredKept
      <3>2. CASE CommitBlock(n, c.height, c.block) /\ lastCommitted'[n] = c.height
        BY <1>0, <1>2, <1>5, <1>6, <3>2 DEF TellsStored
      <3> QED
        BY <1>0, <1>3, <3>1, <3>2 DEF TypeOK
    <2>3. \A m \in Node \ {n} : TellsStored(m)'
      BY <1>1, <1>4, <2>1, TellsStoredKept
    <2> QED
      BY <1>0, <2>1, <2>2, <2>3
  <1>8. /\ committed' \in [Others -> SUBSET Nat]
        /\ \A m \in Others \ {n} : committed'[m] = committed[m]
        /\ \A h \in committed'[n] : h <= Height(n)' + 1
    <2>1. CASE committed' = committed
      <3>1. \A h \in committed[n] : h \in Nat /\ h <= Height(n) + 1
        BY DEF TypeOK, ConfirmedInv
      <3> QED
        BY <1>0, <1>5, <2>1, <3>1 DEF TypeOK
    <2>2. CASE committed' = [committed EXCEPT ![n] = {lastCommitted[n]}]
      <3>1. lastCommitted[n] <= Height(n) + 1
        <4>1. lastCommitted[n] > Height(n) => lastCommitted[n] = Height(n) + 1
          <5>1. lastCommitted[n] > Height(n) => AboutToStore(n)
            BY <1>0 DEF TypeOK
          <5> QED
            BY <5>1 DEF AboutToStore
        <4> QED
          BY <1>0, <1>5, <4>1
      <3> QED
        BY <1>0, <1>5, <2>2, <3>1 DEF TypeOK
    <2>3. CASE /\ CommitBlock(n, c.height, c.block)
               /\ committed' = [committed EXCEPT ![n] = {c.height}]
      <3>1. committed'[n] = {c.height}
        BY <2>3 DEF TypeOK
      <3>2. c.height <= Height(n)' + 1
        BY <1>0, <1>2, <1>5, <1>6, <2>3
      <3> QED
        BY <1>2, <2>3, <3>1, <3>2 DEF TypeOK
    <2> QED
      BY <1>3, <2>1, <2>2, <2>3
  <1>9. TypeOK'
    <2>1. commit' \in [Others -> SUBSET Commit]
      BY <1>1 DEF TypeOK
    <2> QED
      BY <1>1, <1>4, <1>7, <1>8, <2>1, ChainsGrow DEF TypeOK, TellsStored
  <1>10. SessionInv'
    BY <1>1, <1>4, SessionsKept
  <1>11. MessagesInv'
    <2>1. \A m \in Others : commit'[m] \subseteq commit[m]
      BY <1>1 DEF TypeOK
    <2> QED
      BY <1>1, <1>4, <2>1, CommitsKept, ResponseKept DEF MessagesInv
  <1>12. ConfirmedInv'
    <2>1. ASSUME NEW m \in Others, NEW h \in committed'[m] PROVE h <= Height(m)' + 1
      <3>1. CASE m = n
        BY <1>8, <2>1, <3>1
      <3>2. CASE m # n
        <4>1. h \in Nat /\ h <= Height(m) + 1 /\ m \in Node
          BY <1>8, <2>1, <3>2 DEF TypeOK, ConfirmedInv, Others
        <4> QED
          BY <1>5, <4>1
      <3> QED
        BY <3>1, <3>2
    <2>2. ASSUME NEW m \in synced' PROVE lastCommitted'[Leader] <= Height(m)' + 1
      <3>1. m \in synced /\ m \in Node
        BY <1>1 DEF TypeOK, Others
      <3>2. lastCommitted[Leader] <= Height(m) + 1
        BY <3>1 DEF ConfirmedInv
      <3> QED
        BY <1>0, <1>5, <1>7, <3>1, <3>2
    <2> QED
      BY <2>1, <2>2 DEF ConfirmedInv
  <1> QED
    BY <1>4, <1>9, <1>10, <1>11, <1>12 DEF Kept

LEMMA KeptByLoseMessage ==
  ASSUME BenchmarkInv, NEW n \in Others, LoseMessage(n)
  PROVE  Follows /\ Kept'
  <1> USE DEF BenchmarkInv, LoseMessage
  <1>1. Follows
    BY Unmoved
  <1>2. faults' \in 0 .. MaxFaults
    BY SyncAssumption DEF Fault, TypeOK
  <1>3. /\ commit' \in [Others -> SUBSET Commit] /\ committed' \in [Others -> SUBSET Nat]
        /\ \A m \in Others : commit'[m] \subseteq commit[m] /\ committed'[m] \subseteq committed[m]
    BY DEF TypeOK
  <1>4. TypeOK'
    BY <1>2, <1>3 DEF TypeOK, Height, AboutToStore
  <1>5. SessionInv'
    BY <1>1, SessionsKept
  <1>6. MessagesInv'
    BY <1>1, <1>3, CommitsKept, ResponseKept DEF MessagesInv
  <1>7. ConfirmedInv'
    BY <1>1, <1>3, ConfirmedKept
  <1> QED
    BY <1>1, <1>4, <1>5, <1>6, <1>7 DEF Kept

LEMMA KeptByRestart ==
  ASSUME BenchmarkInv, NEW n \in Node, Restart(n)
  PROVE  Follows /\ Kept'
  <1> USE DEF BenchmarkInv, Restart
  <1>1. Follows
    BY Unmoved
  <1>2. NoSession \in Session /\ NoResponse \in Response
    BY DEF NoSession, Session, NoResponse, Response
  <1>3. TypeOK'
    <2>1. faults' \in 0 .. MaxFaults
      BY SyncAssumption DEF Fault, TypeOK
    <2>2. /\ session' \in [Node -> Session] /\ offers' \in [Node -> SUBSET Offer]
          /\ response' \in [Node -> Response]
      BY <1>2 DEF TypeOK
    <2>3. lastCommitted' \in [Node -> Nat]
      BY DEF TypeOK
    <2>4. ASSUME NEW m \in Node PROVE TellsStored(m)'
      <3>1. CASE m = n
        <4>1. lastCommitted'[m] = 0 /\ Height(m)' \in Nat
          BY <1>1, <3>1, ChainsGrow DEF TypeOK
        <4> QED
          BY <4>1 DEF TellsStored
      <3>2. CASE m # n
        <4>1. lastCommitted'[m] = lastCommitted[m] /\ response'[m] = response[m]
          BY <3>2 DEF TypeOK
        <4> QED
          BY <1>1, <4>1, TellsStoredKept
      <3> QED
        BY <3>1, <3>2
    <2> QED
      BY <2>1, <2>2, <2>3, <2>4 DEF TypeOK, TellsStored
  <1>4. SessionInv'
    <2>1. ASSUME NEW m \in Node
          PROVE  /\ session'[m] = IF m = n THEN NoSession ELSE session[m]
                 /\ offers'[m] = IF m = n THEN {} ELSE offers[m]
      BY DEF TypeOK
    <2>2. \A m \in Node : GoesOn(m)
      BY <2>1 DEF GoesOn
    <2> QED
      BY <1>1, <2>2, SessionKept DEF SessionInv
  <1>5. MessagesInv'
    <2>1. \A m \in Node : response'[m] = response[m] \/ response'[m] = NoResponse
      BY DEF TypeOK
    <2> QED
      BY <1>1, <2>1, CommitsKept, ResponseKept DEF MessagesInv
  <1>6. ConfirmedInv'
    <2>1. synced' = {} \/ (synced' \subseteq synced /\ lastCommitted'[Leader] = lastCommitted[Leader])
      BY LeaderAssumption DEF TypeOK
    <2> QED
      BY <1>1, <2>1, ConfirmedKept
  <1> QED
    BY <1>1, <1>3, <1>4, <1>5, <1>6 DEF Kept

LEMMA KeptByDisturbSession ==
  ASSUME BenchmarkInv, NEW n \in Node, DisturbSession(n)
  PROVE  Follows /\ Kept'
  <1> USE DEF BenchmarkInv, DisturbSession
  <1>1. Follows
    BY Unmoved DEF LoseSyncMessage, GiveUpSession
  <1>2. /\ faults' \in 0 .. MaxFaults
        /\ NoSession \in Session /\ NoResponse \in Response
    BY SyncAssumption
       DEF LoseSyncMessage, GiveUpSession, Fault, TypeOK, NoSession, Session, NoResponse, Response
  <1>3. session' \in [Node -> Session] /\ \A m \in Node : GoesOn(m)
    <2>1. CASE EndSession(n)
      BY <1>2, <2>1 DEF EndSession, TypeOK, GoesOn
    <2>2. ASSUME NEW a \in session[n].asked, UNCHANGED offers,
                 session' = [session EXCEPT ![n].asked = @ \ {a}]
          PROVE  session' \in [Node -> Session] /\ \A m \in Node : GoesOn(m)
      <3>1. session[n] \in Session
        BY DEF TypeOK
      <3>2. session'[n] = [session[n] EXCEPT !.asked = @ \ {a}]
        BY <2>2 DEF TypeOK
      <3>3. session'[n] \in Session /\ GoesOn(n)
        BY <2>2, <3>1, <3>2 DEF Session, GoesOn, NoSession
      <3>4. \A m \in Node \ {n} : session'[m] = session[m]
        BY <2>2 DEF TypeOK
      <3> QED
        BY <2>2, <3>3, <3>4 DEF TypeOK, GoesOn
    <2>3. CASE session' = session /\ \E o \in offers[n] : offers' = [offers EXCEPT ![n] = @ \ {o}]
      BY <2>3 DEF TypeOK, GoesOn
    <2>4. CASE UNCHANGED <<session, offers>>
      BY <2>4 DEF TypeOK, GoesOn
    <2> QED
      BY <2>1, <2>2, <2>3, <2>4 DEF LoseSyncMessage, GiveUpSession
  <1>4. /\ offers' \in [Node -> SUBSET Offer]
        /\ response' \in [Node -> Response]
        /\ \A m \in Node : \/ response'[m] = response[m]
                           \/ response'[m] = NoResponse /\ ~response[m].valid
    BY <1>2 DEF LoseSyncMessage, GiveUpSession, EndSession, TypeOK, Pending
  <1>5. TypeOK'
    <2>1. \A m \in Node : TellsStored(m)'
      BY <1>1, <1>4, TellsStoredKept
    <2>2. UNCHANGED <<chain, lastCommitted, synced, commit, committed>>
      BY DEF LoseSyncMessage, GiveUpSession
    <2> QED
      BY <1>2, <1>3, <1>4, <2>1, <2>2 DEF TypeOK, TellsStored
  <1>6. SessionInv'
    BY <1>1, <1>3, SessionKept DEF SessionInv
  <1>7. MessagesInv'
    BY <1>1, <1>4, CommitsKept, ResponseKept DEF MessagesInv
  <1>8. ConfirmedInv'
    BY <1>1, ConfirmedKept
  <1> QED
    BY <1>1, <1>5, <1>6, <1>7, <1>8 DEF Kept

---------------------------------------------------------------------------
(* Block sync.                                                             *)

\* What a step of block sync does to the algorithms.
ToldKept ==
  /\ lastCommitted' \in [Node -> Nat]
  /\ \A m \in Node : TellsStored(m)'
  /\ synced' \subseteq Others
  /\ ConfirmedInv'

\* It changes the session and the response of no other node.
OnlyOf(n) ==
  /\ session' = [session EXCEPT ![n] = session'[n]]
  /\ offers' = [offers EXCEPT ![n] = offers'[n]]
  /\ response' = [response EXCEPT ![n] = response'[n]]
  /\ UNCHANGED faults

\* The algorithm is told of a height that is stored or about to be, and the leader
\* starts to count anew when that is another one.
LEMMA KeptByHandleBlockConsensus ==
  ASSUME BenchmarkInv, Follows, NEW n \in Node, NEW h \in Nat, OnlyOf(n),
         HandleBlockConsensus(n, h), TellsStored(n)', UNCHANGED committed
  PROVE  ToldKept
  <1> USE DEF BenchmarkInv, HandleBlockConsensus
  <1>1. lastCommitted' \in [Node -> Nat] /\ synced' \subseteq Others
    BY DEF TypeOK
  <1>2. ASSUME NEW m \in Node PROVE TellsStored(m)'
    <2>1. CASE m = n
      BY <2>1
    <2>2. CASE m # n
      <3>1. lastCommitted'[m] = lastCommitted[m] /\ response'[m] = response[m]
        BY <2>2 DEF TypeOK, OnlyOf
      <3> QED
        BY <3>1, TellsStoredKept
    <2> QED
      BY <2>1, <2>2
  <1>3. synced' = {} \/ (synced' \subseteq synced /\ lastCommitted'[Leader] = lastCommitted[Leader])
    BY LeaderAssumption DEF TypeOK
  <1>4. ConfirmedInv'
    BY <1>3, ConfirmedKept
  <1> QED
    BY <1>1, <1>2, <1>4 DEF ToldKept

\* The same when it is told nothing.
LEMMA KeptByNoConsensus ==
  ASSUME BenchmarkInv, Follows, NEW n \in Node, OnlyOf(n),
         UNCHANGED <<lastCommitted, synced, committed>>,
         response'[n] = response[n] \/ ~response[n].valid \/ TellsStored(n)'
  PROVE  ToldKept
  <1> USE DEF BenchmarkInv
  <1>1. ASSUME NEW m \in Node PROVE TellsStored(m)'
    <2>1. CASE m = n
      BY <2>1, TellsStoredKept
    <2>2. CASE m # n
      <3>1. response'[m] = response[m]
        BY <2>2 DEF TypeOK, OnlyOf
      <3> QED
        BY <3>1, TellsStoredKept
    <2> QED
      BY <2>1, <2>2
  <1>2. ConfirmedInv'
    BY ConfirmedKept
  <1> QED
    BY <1>1, <1>2 DEF TypeOK, ToldKept

\* What a step of block sync has to show of the session and the response of its
\* node.
SyncKept(n) ==
  /\ session'[n] \in Session /\ offers'[n] \subseteq Offer /\ response'[n] \in Response
  /\ SessionOK(n)'
  /\ ResponseOK(n)'

LEMMA KeptBySync ==
  ASSUME BenchmarkInv, Follows, NEW n \in Node, SyncKept(n), OnlyOf(n),
         UNCHANGED <<commit, committed>>, ToldKept
  PROVE  Kept'
  <1> USE DEF BenchmarkInv
  <1>1. \A m \in Node \ {n} : /\ session'[m] = session[m]
                              /\ offers'[m] = offers[m]
                              /\ response'[m] = response[m]
    BY DEF TypeOK, OnlyOf
  <1>2. /\ session' \in [Node -> Session]
        /\ offers' \in [Node -> SUBSET Offer]
        /\ response' \in [Node -> Response]
    <2>1. session'[n] \in Session /\ offers'[n] \in SUBSET Offer /\ response'[n] \in Response
      BY DEF SyncKept
    <2> QED
      BY <2>1 DEF OnlyOf, TypeOK
  <1>3. TypeOK'
    BY <1>2, ChainsGrow DEF TypeOK, OnlyOf, ToldKept, TellsStored
  <1>4. SessionInv'
    <2>1. ASSUME NEW m \in Node PROVE SessionOK(m)'
      <3>1. CASE m = n
        BY <3>1 DEF SyncKept
      <3>2. CASE m # n
        BY <1>1, <3>2, SessionKept DEF GoesOn
      <3> QED
        BY <3>1, <3>2
    <2> QED
      BY <2>1 DEF SessionInv
  <1>5. MessagesInv'
    <2>1. ASSUME NEW m \in Node
          PROVE  ResponseOK(m)'
      <3>1. CASE m = n
        BY <3>1 DEF SyncKept
      <3>2. CASE m # n
        BY <1>1, <3>2, ResponseKept
      <3> QED
        BY <3>1, <3>2
    <2>2. \A m \in Others : commit'[m] \subseteq commit[m]
      OBVIOUS
    <2> QED
      BY <2>1, <2>2, CommitsKept DEF MessagesInv
  <1> QED
    BY <1>3, <1>4, <1>5 DEF Kept, ToldKept

\* A step that only follows the chains and neither takes blocks nor asks for them
\* keeps the response.
LEMMA SameResponse ==
  ASSUME BenchmarkInv, NEW n \in Node, UNCHANGED chain, response'[n] = response[n]
  PROVE  response'[n] \in Response /\ ResponseOK(n)'
  <1>1. Follows
    BY Unmoved
  <1> QED
    BY <1>1, ResponseKept DEF BenchmarkInv, TypeOK

LEMMA SyncByBroadcastAvailabilityRequest ==
  ASSUME BenchmarkInv, NEW n \in Node, BroadcastAvailabilityRequest(n)
  PROVE  SyncKept(n) /\ OnlyOf(n)
  <1> USE DEF BenchmarkInv, BroadcastAvailabilityRequest
  <1>1. session'[n] = [next |-> Height(n) + 1, last |-> Height(n) + Batch,
                       source |-> NoNode, asked |-> Node \ {n}]
    BY DEF TypeOK
  <1>2. Height(n) \in Nat /\ Batch \in Nat /\ Batch >= 1
    BY Heights, SyncAssumption
  <1>3. offers'[n] = {}
    BY DEF SessionInv, SessionOK
  <1>4. session'[n] \in Session
    BY <1>1, <1>2 DEF Session
  <1>5. SessionOK(n)'
    BY <1>1, <1>2, <1>3 DEF SessionOK
  <1>6. OnlyOf(n)
    BY <1>1, <1>3 DEF OnlyOf, TypeOK
  <1> QED
    BY <1>3, <1>4, <1>5, <1>6, SameResponse DEF SyncKept

LEMMA SyncByHandleBlockAvailabilityRequest ==
  ASSUME BenchmarkInv, NEW n \in Node, NEW m \in Node, HandleBlockAvailabilityRequest(m, n)
  PROVE  SyncKept(n) /\ OnlyOf(n)
  <1> USE DEF BenchmarkInv, HandleBlockAvailabilityRequest, Asking
  <1> DEFINE o == [source |-> m, last |-> Least(session[n].last, Height(m))]
  <1>1. session[n] \in Session /\ offers[n] \subseteq Offer /\ SessionOK(n)
    BY DEF TypeOK, SessionInv
  <1>2. session'[n] = [session[n] EXCEPT !.asked = @ \ {m}]
    BY DEF TypeOK
  <1>3. /\ session'[n] \in Session /\ session'[n] # NoSession
        /\ session'[n].next = session[n].next /\ session'[n].last = session[n].last
        /\ session'[n].source = NoNode
        /\ session'[n].asked \subseteq session[n].asked
    BY <1>1, <1>2 DEF Session, SessionOK, NoSession
  <1>4. offers'[n] = offers[n] \/ (offers'[n] = offers[n] \cup {o} /\ session[n].next <= Height(m))
    BY <1>1, Heights DEF TypeOK, Session
  <1>5. /\ o \in Offer /\ o.last <= Height(o.source)
        /\ session[n].next <= Height(m) => session[n].next <= o.last
    BY <1>1, Heights DEF Offer, Session, Least, SessionOK
  <1>6. /\ offers'[n] \subseteq Offer
        /\ \A x \in offers'[n] : session[n].next <= x.last /\ x.last <= Height(x.source)
    <2> HIDE DEF o
    <2> QED
      BY <1>1, <1>4, <1>5 DEF SessionOK
  <1>7. \A x \in offers'[n] : Height(x.source)' = Height(x.source)
    BY DEF Height
  <1>8. SessionOK(n)'
    BY <1>1, <1>3, <1>6, <1>7 DEF SessionOK
  <1>9. OnlyOf(n)
    BY <1>2, <1>4 DEF OnlyOf, TypeOK
  <1> QED
    BY <1>3, <1>6, <1>8, <1>9, SameResponse DEF SyncKept

LEMMA SyncByHandleBlockAvailabilityResponse ==
  ASSUME BenchmarkInv, NEW n \in Node, HandleBlockAvailabilityResponse(n)
  PROVE  SyncKept(n) /\ OnlyOf(n)
  <1> USE DEF BenchmarkInv, HandleBlockAvailabilityResponse, Asking
  <1>1. PICK o \in offers[n] : session' = [session EXCEPT ![n] =
          [@ EXCEPT !.source = o.source, !.last = o.last, !.asked = {o.source}]]
    OBVIOUS
  <1>2. session[n] \in Session /\ o \in Offer /\ SessionOK(n)
    BY DEF TypeOK, SessionInv
  <1>3. session'[n] = [session[n] EXCEPT !.source = o.source, !.last = o.last,
                                         !.asked = {o.source}]
    BY <1>1 DEF TypeOK
  <1>4. /\ session'[n] \in Session /\ session'[n].next = session[n].next
        /\ session'[n].last = o.last /\ session'[n].source = o.source
        /\ session'[n].asked = {o.source}
    <2> HIDE DEF BenchmarkInv, HandleBlockAvailabilityResponse
    <2>1. session'[n] = [next |-> session[n].next, last |-> o.last, source |-> o.source,
                         asked |-> {o.source}]
      BY <1>2, <1>3 DEF Session
    <2>2. session[n].next \in Nat /\ o.last \in Nat /\ o.source \in Node
      BY <1>2 DEF Session, Offer
    <2> QED
      BY <2>1, <2>2 DEF Session
  <1>5. offers'[n] = {}
    BY DEF TypeOK
  <1>6. /\ session[n].next >= 1 /\ session[n].next <= o.last /\ o.last <= Height(o.source)
        /\ o.source \in Node
    BY <1>2 DEF SessionOK, Offer
  <1>7. SessionOK(n)'
    BY <1>4, <1>5, <1>6 DEF SessionOK, Height
  <1>8. OnlyOf(n)
    BY <1>1, <1>3, <1>5 DEF OnlyOf, TypeOK
  <1> QED
    BY <1>4, <1>5, <1>7, <1>8, SameResponse DEF SyncKept

LEMMA SyncByGiveUpStalledSession ==
  ASSUME BenchmarkInv, NEW n \in Node, GiveUpStalledSession(n)
  PROVE  SyncKept(n) /\ OnlyOf(n)
  <1> USE DEF BenchmarkInv, GiveUpStalledSession, EndSession
  <1>1. session'[n] = NoSession /\ offers'[n] = {}
    BY DEF TypeOK
  <1>2. NoSession \in Session /\ SessionOK(n)'
    BY <1>1 DEF Session, NoSession, SessionOK
  <1>3. OnlyOf(n)
    BY <1>1 DEF OnlyOf, TypeOK
  <1> QED
    BY <1>1, <1>2, <1>3, SameResponse DEF SyncKept

\* A source has the leader's blocks of the range.
LEMMA SyncByHandleBlockSyncRequest ==
  ASSUME BenchmarkInv, NEW n \in Node, NEW m \in Node, HandleBlockSyncRequest(m, n)
  PROVE  SyncKept(n) /\ OnlyOf(n)
  <1> USE DEF BenchmarkInv, HandleBlockSyncRequest, Syncing
  <1> DEFINE s == session[n]
             last == Least(s.next + Chunk - 1, s.last)
             blocks == SubSeq(chain[m], s.next, last)
  <1>1. s \in Session /\ offers[n] \subseteq Offer /\ SessionOK(n)
    BY DEF TypeOK, SessionInv
  <1>2. s.source = m /\ s # NoSession /\ offers[n] = {}
    BY <1>1 DEF SessionOK, NoSession
  <1>3. /\ s.next \in Nat /\ last \in Nat /\ 1 <= s.next /\ s.next <= last
        /\ last <= Height(m) /\ s.last <= Height(m) /\ s.next <= s.last
    BY <1>1, <1>2, SyncAssumption, Heights DEF Session, SessionOK, Least
  <1>4. session'[n] = [s EXCEPT !.asked = {}]
    BY DEF TypeOK
  <1>5. /\ session'[n] \in Session /\ session'[n].next = s.next /\ session'[n].last = s.last
        /\ session'[n].source = m /\ session'[n].asked = {}
    BY <1>1, <1>2, <1>4 DEF Session
  <1>6. SessionOK(n)'
    BY <1>2, <1>3, <1>5 DEF SessionOK, Height
  <1>7. response'[n] = [source |-> m, first |-> s.next, blocks |-> blocks, valid |-> FALSE]
    BY DEF TypeOK
  <1>8. /\ blocks \in Seq(Block) /\ Len(blocks) = last - s.next + 1
        /\ \A i \in 1 .. Len(blocks) : blocks[i] = chain[m][s.next + i - 1]
    <2>1. chain[m] \in Seq(Block) /\ Height(m) = Len(chain[m])
      BY Heights DEF Height
    <2> HIDE DEF s, last
    <2> QED
      BY <1>3, <2>1
  <1>9. ASSUME NEW i \in 1 .. Len(blocks)
        PROVE  /\ s.next + i - 1 \in 1 .. Height(Leader)
               /\ blocks[i] = chain[Leader][s.next + i - 1]
    <2> HIDE DEF s, last, blocks
    <2>1. s.next + i - 1 \in 1 .. Height(m)
      BY <1>3, <1>8, Heights
    <2>2. Height(m) <= Height(Leader) /\ chain[m] = SubSeq(chain[Leader], 1, Height(m))
      BY DEF Prefix
    <2>3. chain[Leader] \in Seq(Block) /\ Height(Leader) = Len(chain[Leader]) /\ Height(m) \in Nat
      BY Heights DEF Height
    <2>4. \A j \in 1 .. Height(m) : chain[m][j] = chain[Leader][j]
      BY <2>2, <2>3
    <2>5. blocks[i] = chain[m][s.next + i - 1]
      BY <1>8
    <2> QED
      BY <2>1, <2>2, <2>3, <2>4, <2>5
  <1>10. FromLeader(response[n].first, response[n].blocks)'
    <2>1. chain' = chain /\ Height(Leader)' = Height(Leader)
      BY DEF Height
    <2> HIDE DEF blocks, s, HandleBlockSyncRequest
    <2> QED
      BY <1>7, <1>9, <2>1 DEF FromLeader
  <1>11. /\ response'[n] \in Response
         /\ response'[n].source # NoNode
         /\ response'[n].blocks # <<>>
         /\ ~response'[n].valid
    <2> HIDE DEF s, last, blocks, HandleBlockSyncRequest
    <2> QED
      BY <1>3, <1>7, <1>8, SyncAssumption DEF Response
  <1>12. OnlyOf(n)
    BY <1>4, <1>7 DEF OnlyOf, TypeOK
  <1> QED
    BY <1>1, <1>5, <1>6, <1>10, <1>11, <1>12 DEF SyncKept, ResponseOK

\* The first block of a response is the leader's.
LEMMA FirstBlock ==
  ASSUME BenchmarkInv, NEW n \in Node, response[n] # NoResponse
  PROVE  /\ response[n].first \in 1 .. Height(Leader)
         /\ Head(response[n].blocks) = chain[Leader][response[n].first]
  <1> DEFINE r == response[n]
  <1>1. r \in Response /\ r.blocks # <<>> /\ FromLeader(r.first, r.blocks)
    BY DEF BenchmarkInv, TypeOK, MessagesInv, ResponseOK
  <1> HIDE DEF r
  <1>2. /\ r.first \in Nat /\ 1 \in 1 .. Len(r.blocks) /\ Head(r.blocks) = r.blocks[1]
        /\ r.first + 1 - 1 = r.first
    BY <1>1 DEF Response
  <1>3. r.first \in 1 .. Height(Leader) /\ Head(r.blocks) = chain[Leader][r.first]
    BY <1>1, <1>2 DEF FromLeader
  <1> QED
    BY <1>3 DEF r

\* It is taken off; the rest of the response stays, and the session goes on to the
\* next block.
LEMMA SyncByAdvance ==
  ASSUME BenchmarkInv, Follows, NEW n \in Node, Advance(n), response[n] # NoResponse
  PROVE  SyncKept(n) /\ OnlyOf(n)
  <1> DEFINE r == response[n]
             s == session[n]
  <1>1. /\ r \in Response /\ r # NoResponse /\ r.source # NoNode /\ r.blocks # <<>>
        /\ FromLeader(r.first, r.blocks)
        /\ s \in Session /\ offers[n] \subseteq Offer /\ SessionOK(n)
    BY DEF BenchmarkInv, TypeOK, MessagesInv, ResponseOK, SessionInv
  <1>2. /\ r.first \in Nat /\ r.source \in Node /\ r.blocks \in Seq(Block)
        /\ Len(r.blocks) \in Nat /\ Len(r.blocks) >= 1
    <2> HIDE DEF r
    <2> QED
      BY <1>1 DEF Response
  <1>3. r.first \in 1 .. Height(Leader)
    BY FirstBlock
  <1>4. Follows
    OBVIOUS
  <1>5. session' = [session EXCEPT ![n] = Requested(n, r)] /\ UNCHANGED <<offers, faults>>
    BY DEF Advance
  <1>6. /\ session'[n] = Requested(n, r)
        /\ Len(r.blocks) = 1 => response'[n] = NoResponse
        /\ Len(r.blocks) # 1 =>
             response'[n] = [source |-> r.source, first |-> r.first + 1,
                            blocks |-> Tail(r.blocks), valid |-> FALSE]
    <2> DEFINE rest == IF Len(r.blocks) = 1 THEN NoResponse
                       ELSE [source |-> r.source, first |-> r.first + 1,
                             blocks |-> Tail(r.blocks), valid |-> FALSE]
    <2>1. response' = [response EXCEPT ![n] = rest]
      BY DEF Advance
    <2>2. response'[n] = rest
      BY <2>1 DEF BenchmarkInv, TypeOK
    <2>3. session'[n] = Requested(n, r)
      BY <1>5 DEF BenchmarkInv, TypeOK
    <2> QED
      BY <2>2, <2>3
  <1>7. OnlyOf(n)
    BY DEF Advance, OnlyOf, BenchmarkInv, TypeOK
  <1>8. session'[n] \in Session /\ SessionOK(n)'
    <2>1. CASE GoesOn(n)
      <3>1. SessionOK(n)'
        BY <1>4, <2>1, SessionKept DEF BenchmarkInv
      <3>2. session'[n] = s \/ session'[n] = NoSession \/ session'[n].next = s.next + 1
        BY <1>1, <1>6 DEF Requested, Session
      <3>3. s.next # s.next + 1 /\ NoSession \in Session
        BY <1>1 DEF Session, NoSession
      <3> QED
        BY <1>1, <2>1, <3>1, <3>2, <3>3 DEF GoesOn
    <2>2. CASE ~GoesOn(n)
      <3>1. s.source = r.source => offers[n] = {}
        BY <1>1 DEF SessionOK
      <3>2. s.source = r.source /\ s.next = r.first /\ r.first # s.last
        BY <1>5, <1>6, <2>2, <3>1 DEF GoesOn, Requested
      <3>3. /\ session'[n].next = s.next + 1 /\ session'[n].last = s.last
            /\ session'[n].source = s.source
            /\ session'[n].asked = IF Len(r.blocks) = 1 THEN {s.source} ELSE s.asked
            /\ session'[n] \in Session
        <4>1. session'[n] = [next |-> s.next + 1, last |-> s.last, source |-> s.source,
                             asked |-> IF Len(r.blocks) = 1 THEN {s.source} ELSE s.asked]
          <5> HIDE DEF r
          <5> QED
            BY <1>1, <1>6, <3>2 DEF Requested, Session
        <4>2. s.next \in Nat /\ s.last \in Nat /\ s.source \in Node /\ s.asked \subseteq Node
          BY <1>1, <1>2, <3>2 DEF Session
        <4> HIDE DEF s, r
        <4> QED
          BY <4>1, <4>2 DEF Session
      <3>4. /\ s.next >= 1 /\ s.next + 1 <= s.last /\ s.source \in Node
            /\ s.asked \subseteq {s.source} /\ s.last <= Height(s.source)
            /\ s.next \in Nat /\ s.last \in Nat
        <4>1. s # NoSession /\ s.next \in Nat /\ s.last \in Nat /\ s.next >= 1
          BY <1>1, <1>3, <3>2 DEF NoSession, Session
        <4> QED
          BY <1>1, <1>2, <3>2, <4>1 DEF SessionOK
      <3>5. Height(s.source) <= Len(chain'[s.source])
        BY <1>4, <3>4, ChainsGrow DEF Height, BenchmarkInv
      <3>6. Height(s.source) \in Nat /\ Len(chain'[s.source]) \in Nat
        BY <1>4, <3>4, ChainsGrow, Heights DEF BenchmarkInv
      <3>7. s.last <= Len(chain'[s.source])
        <4> HIDE DEF s
        <4> QED
          BY <3>4, <3>5, <3>6
      <3>8. offers'[n] = {}
        BY <1>5, <3>1, <3>2
      <3> HIDE DEF s, r
      <3> QED
        BY <3>3, <3>4, <3>7, <3>8, SyncAssumption DEF SessionOK, Height
    <2> QED
      BY <2>1, <2>2
  <1>9. /\ response'[n] \in Response
        /\ ResponseOK(n)'
    <2>1. CASE Len(r.blocks) = 1
      <3>1. response'[n] = NoResponse
        BY <1>6, <2>1
      <3>2. Len(response'[n].blocks) = 0 /\ ~response'[n].valid /\ NoResponse \in Response
        BY <3>1 DEF NoResponse, Response
      <3> QED
        BY <3>1, <3>2 DEF FromLeader, ResponseOK
    <2>2. CASE Len(r.blocks) # 1
      <3>1. response'[n] = [source |-> r.source, first |-> r.first + 1,
                            blocks |-> Tail(r.blocks), valid |-> FALSE]
        BY <1>6, <2>2
      <3>2. /\ Tail(r.blocks) \in Seq(Block) /\ Len(Tail(r.blocks)) = Len(r.blocks) - 1
            /\ \A i \in 1 .. Len(r.blocks) - 1 : Tail(r.blocks)[i] = r.blocks[i + 1]
        <4> HIDE DEF r
        <4> QED
          BY <1>2
      <3>3. \A i \in 1 .. Len(r.blocks) : /\ r.first + i - 1 \in 1 .. Height(Leader)'
                                           /\ r.blocks[i] = chain'[Leader][r.first + i - 1]
        <4>1. ASSUME NEW first, NEW blocks, FromLeader(first, blocks)
              PROVE  \A i \in 1 .. Len(blocks) :
                       /\ first + i - 1 \in 1 .. Height(Leader)'
                       /\ blocks[i] = chain'[Leader][first + i - 1]
          <5>1. FromLeader(first, blocks)'
            BY <1>4, <4>1, LeaderKeeps DEF BenchmarkInv
          <5> QED
            BY <5>1 DEF FromLeader
        <4> QED
          BY <1>1, <4>1
      <3>4. ASSUME NEW i \in 1 .. Len(Tail(r.blocks))
            PROVE  /\ r.first + 1 + i - 1 \in 1 .. Height(Leader)'
                   /\ Tail(r.blocks)[i] = chain'[Leader][r.first + 1 + i - 1]
        <4> HIDE DEF r
        <4>1. i + 1 \in 1 .. Len(r.blocks) /\ r.first + 1 + i - 1 = r.first + (i + 1) - 1
          BY <1>2, <3>2
        <4> QED
          BY <1>2, <3>2, <3>3, <4>1
      <3> HIDE DEF r
      <3>5. /\ response'[n].first = r.first + 1 /\ response'[n].blocks = Tail(r.blocks)
            /\ response'[n].source = r.source /\ ~response'[n].valid
        BY <3>1
      <3>6. response'[n] \in Response
        BY <1>2, <3>1, <3>2 DEF Response
      <3>7. response'[n].blocks # <<>>
        <4>1. Len(response'[n].blocks) # 0
          BY <1>2, <2>2, <3>2, <3>5
        <4> QED
          BY <4>1
      <3> QED
        BY <1>1, <3>4, <3>5, <3>6, <3>7 DEF FromLeader, ResponseOK
    <2> QED
      BY <2>1, <2>2
  <1>10. offers'[n] \subseteq Offer
    BY <1>1, <1>5
  <1> QED
    BY <1>4, <1>7, <1>8, <1>9, <1>10 DEF SyncKept

\* It was validated, and is stored unless it already is.
LEMMA SyncByCommitSyncedBlock ==
  ASSUME BenchmarkInv, NEW n \in Node, CommitSyncedBlock(n)
  PROVE  /\ Follows /\ SyncKept(n) /\ OnlyOf(n)
         /\ lastCommitted' = lastCommitted => TellsStored(n)'
  <1> DEFINE h == response[n].first
             b == Head(response[n].blocks)
  <1>1. response[n].valid /\ response[n] # NoResponse /\ CommitBlock(n, h, b) /\ Advance(n)
    BY DEF CommitSyncedBlock, NoResponse
  <1>2. h \in 1 .. Height(Leader) /\ b = chain[Leader][h]
    BY <1>1, FirstBlock
  <1>3. /\ Height(n) \in Nat /\ Height(Leader) \in Nat /\ lastCommitted[n] \in Nat
        /\ chain[n] \in Seq(Block)
    BY Heights DEF BenchmarkInv, TypeOK
  <1>4. /\ h = Height(n) + 1 => chain' = [chain EXCEPT ![n] = Append(@, b)]
        /\ h # Height(n) + 1 => chain' = chain
    BY <1>1 DEF CommitBlock
  <1>5. Follows
    <2>1. CASE h = Height(n) + 1
      <3>1. Height(n) < Height(Leader)
        <4> HIDE DEF h
        <4> QED
          BY <1>2, <1>3, <2>1
      <3>2. n \in Others
        BY <1>3, <3>1 DEF Others
      <3> QED
        BY <1>2, <1>4, <2>1, <3>1, <3>2 DEF Follows, Learns
    <2>2. CASE h # Height(n) + 1
      BY <1>4, <2>2, Unmoved
    <2> QED
      BY <2>1, <2>2
  <1>6. SyncKept(n) /\ OnlyOf(n)
    BY <1>1, <1>5, SyncByAdvance
  <1>7. ASSUME lastCommitted' = lastCommitted
        PROVE  TellsStored(n)'
    <2>1. Height(n)' \in Nat /\ Height(n) <= Height(n)'
      BY <1>5, ChainsGrow DEF BenchmarkInv
    <2>2. h = Height(n) + 1 => Height(n)' = Height(n) + 1
      <3>1. SUFFICES ASSUME h = Height(n) + 1
                     PROVE  Height(n)' = Height(n) + 1
        OBVIOUS
      <3>2. chain'[n] = Append(chain[n], b)
        BY <1>4, <3>1 DEF BenchmarkInv, TypeOK
      <3> QED
        BY <1>3, <3>2 DEF Height
    <2>3. lastCommitted[n] > Height(n) => lastCommitted[n] = h /\ h = Height(n) + 1
      BY DEF BenchmarkInv, TypeOK, AboutToStore
    <2> HIDE DEF h
    <2>4. lastCommitted[n] <= Height(n)'
      BY <1>3, <2>1, <2>2, <2>3
    <2> QED
      BY <1>3, <1>7, <2>1, <2>4 DEF TellsStored
  <1> QED
    BY <1>5, <1>6, <1>7

\* The next block is marked, and the algorithm told of its height.
LEMMA SyncByValidateSyncedBlock ==
  ASSUME BenchmarkInv, NEW n \in Node, ValidateSyncedBlock(n),
         HandleBlockConsensus(n, response[n].first)
  PROVE  /\ Follows /\ SyncKept(n) /\ OnlyOf(n) /\ TellsStored(n)'
         /\ response[n].first \in Nat
  <1> DEFINE r == response[n]
  <1>1. /\ r \in Response /\ ResponseOK(n) /\ session[n] \in Session /\ offers[n] \subseteq Offer
        /\ Height(n) \in Nat /\ r # NoResponse /\ r.first = Height(n) + 1
    BY Heights DEF BenchmarkInv, TypeOK, MessagesInv, ValidateSyncedBlock, Pending,
                   ValidateBlockForCommit
  <1>2. UNCHANGED <<chain, session, offers, faults>> /\ Follows /\ Height(n)' = Height(n)
    BY Unmoved DEF ValidateSyncedBlock, Height
  <1>3. response' = [response EXCEPT ![n] = [r EXCEPT !.valid = TRUE]]
    BY DEF ValidateSyncedBlock
  <1>4. response'[n] = [r EXCEPT !.valid = TRUE]
    BY <1>3 DEF BenchmarkInv, TypeOK
  <1>5. /\ response'[n] \in Response /\ response'[n].first = r.first
        /\ response'[n].source = r.source /\ response'[n].blocks = r.blocks
        /\ response'[n].valid
    <2> HIDE DEF r
    <2> QED
      BY <1>1, <1>4 DEF Response
  <1>6. OnlyOf(n)
    BY <1>2, <1>3, <1>4 DEF OnlyOf, BenchmarkInv, TypeOK
  <1>7. SessionOK(n)'
    BY <1>2, SessionKept DEF BenchmarkInv, GoesOn
  <1>8. ResponseOK(n)'
    <2>1. FromLeader(response[n].first, response[n].blocks)'
      <3>1. \A i \in 1 .. Len(r.blocks) : /\ r.first + i - 1 \in 1 .. Height(Leader)
                                           /\ r.blocks[i] = chain[Leader][r.first + i - 1]
        BY <1>1 DEF ResponseOK, FromLeader
      <3> HIDE DEF r
      <3> QED
        BY <1>2, <1>5, <3>1 DEF FromLeader, Height
    <2>2. r.source # NoNode /\ r.blocks # <<>>
      BY <1>1 DEF ResponseOK
    <2> QED
      BY <1>1, <1>2, <1>5, <2>1, <2>2 DEF ResponseOK
  <1>9. TellsStored(n)'
    <2>1. lastCommitted'[n] = r.first
      BY DEF HandleBlockConsensus, BenchmarkInv, TypeOK
    <2> QED
      BY <1>1, <1>2, <1>5, <2>1 DEF TellsStored, AboutToStore
  <1>10. r.first \in Nat
    BY <1>1 DEF Response
  <1> QED
    BY <1>1, <1>2, <1>5, <1>6, <1>7, <1>8, <1>9, <1>10 DEF SyncKept

LEMMA KeptBySynchronize ==
  ASSUME BenchmarkInv, NEW n \in Node, Synchronize(n)
  PROVE  Follows /\ Kept'
  <1>1. CASE /\ BroadcastAvailabilityRequest(n)
             /\ HandleBlockConsensus(n, Height(n))
             /\ UNCHANGED <<commit, committed>>
    <2>1. Follows /\ Height(n)' = Height(n) /\ Height(n) \in Nat
      BY <1>1, Unmoved, Heights DEF BroadcastAvailabilityRequest, Height, BenchmarkInv
    <2>2. SyncKept(n) /\ OnlyOf(n)
      BY <1>1, SyncByBroadcastAvailabilityRequest
    <2>3. TellsStored(n)'
      <3>1. lastCommitted'[n] = Height(n)
        BY <1>1 DEF HandleBlockConsensus, BenchmarkInv, TypeOK
      <3> QED
        BY <2>1, <3>1 DEF TellsStored
    <2> QED
      BY <1>1, <2>1, <2>2, <2>3, KeptByHandleBlockConsensus, KeptBySync
  <1>2. CASE /\ ValidateSyncedBlock(n)
             /\ HandleBlockConsensus(n, response[n].first)
             /\ UNCHANGED <<commit, committed>>
    BY <1>2, SyncByValidateSyncedBlock, KeptByHandleBlockConsensus, KeptBySync
  <1>3. ASSUME Follows, SyncKept(n), OnlyOf(n),
               response'[n] = response[n] \/ ~response[n].valid \/ TellsStored(n)',
               UNCHANGED <<lastCommitted, synced, commit, committed>>
        PROVE  Follows /\ Kept'
    BY <1>3, KeptByNoConsensus, KeptBySync
  <1>4. ASSUME NEW m \in Node, HandleBlockAvailabilityRequest(m, n)
        PROVE  SyncKept(n) /\ OnlyOf(n) /\ UNCHANGED <<chain, response>>
    BY <1>4, SyncByHandleBlockAvailabilityRequest DEF HandleBlockAvailabilityRequest
  <1>5. ASSUME NEW m \in Node, HandleBlockSyncRequest(m, n)
        PROVE  SyncKept(n) /\ OnlyOf(n) /\ UNCHANGED chain /\ ~response[n].valid
    BY <1>5, SyncByHandleBlockSyncRequest DEF HandleBlockSyncRequest
  <1>6. HandleBlockAvailabilityResponse(n) =>
          SyncKept(n) /\ OnlyOf(n) /\ UNCHANGED <<chain, response>>
    BY SyncByHandleBlockAvailabilityResponse DEF HandleBlockAvailabilityResponse
  <1>7. GiveUpStalledSession(n) => SyncKept(n) /\ OnlyOf(n) /\ UNCHANGED <<chain, response>>
    BY SyncByGiveUpStalledSession DEF GiveUpStalledSession
  <1>8. DiscardSyncedBlock(n) => Follows /\ SyncKept(n) /\ OnlyOf(n) /\ ~response[n].valid
    BY Unmoved, SyncByAdvance DEF DiscardSyncedBlock, Pending
  <1>9. CommitSyncedBlock(n) /\ lastCommitted' = lastCommitted =>
          Follows /\ SyncKept(n) /\ OnlyOf(n) /\ TellsStored(n)'
    BY SyncByCommitSyncedBlock
  <1> QED
    BY <1>1, <1>2, <1>3, <1>4, <1>5, <1>6, <1>7, <1>8, <1>9, Unmoved DEF Synchronize

---------------------------------------------------------------------------
(* The leader's proposal.                                                  *)

\* A quorum that confirmed the last block is at most two behind the new one.
LEMMA KeptByProposeBlock ==
  ASSUME BenchmarkInv, ProposeBlock
  PROVE  (Follows \/ Decides) /\ Kept' /\ QuorumClose'
  <1> USE DEF BenchmarkInv
  <1> DEFINE h == lastCommitted[Leader] + 1
  <1>1. PICK b \in Block :
          /\ CommitBlock(Leader, h, b)
          /\ lastCommitted' = [lastCommitted EXCEPT ![Leader] = h]
          /\ synced' = {}
          /\ commit' = [n \in Others |-> {[height |-> h, block |-> b]}]
    BY DEF ProposeBlock
  <1>2. UNCHANGED <<session, offers, response, faults, committed>>
    BY DEF ProposeBlock
  <1>3. /\ Leader \in Node /\ lastCommitted[Leader] \in Nat
        /\ lastCommitted[Leader] <= Height(Leader)
        /\ Height(Leader) \in Nat /\ h \in Nat
    BY LeaderStored, Heights DEF TypeOK
  <1>4. \/ h = Height(Leader) + 1 /\ chain' = [chain EXCEPT ![Leader] = Append(@, b)]
        \/ h <= Height(Leader) /\ chain' = chain /\ chain[Leader][h] = b
    BY <1>1, <1>3 DEF CommitBlock, Accepts
  <1>5. Follows \/ Decides
    BY <1>4 DEF Follows, Decides
  <1>6. h \in 1 .. Height(Leader)' /\ chain'[Leader][h] = b
    <2>1. CASE h = Height(Leader) + 1 /\ chain' = [chain EXCEPT ![Leader] = Append(@, b)]
      <3>1. chain'[Leader] = Append(chain[Leader], b) /\ chain[Leader] \in Seq(Block)
        BY <1>3, <2>1, Heights DEF TypeOK
      <3>2. /\ Len(chain'[Leader]) = Len(chain[Leader]) + 1
            /\ chain'[Leader][Len(chain[Leader]) + 1] = b
        BY <3>1
      <3> QED
        BY <1>3, <2>1, <3>2 DEF Height
    <2>2. CASE h <= Height(Leader) /\ chain' = chain /\ chain[Leader][h] = b
      BY <1>3, <2>2 DEF Height
    <2> QED
      BY <1>4, <2>1, <2>2
  <1> HIDE DEF h
  <1>7. TypeOK'
    <2>1. commit' \in [Others -> SUBSET Commit]
      BY <1>1, <1>3 DEF Commit
    <2>2. \A m \in Node : lastCommitted'[m] = IF m = Leader THEN h ELSE lastCommitted[m]
      BY <1>1 DEF TypeOK
    <2>3. ASSUME NEW m \in Node PROVE TellsStored(m)'
      <3>1. CASE m = Leader
        <4>1. Height(Leader)' \in Nat
          BY <1>3, <1>5, ChainsGrow
        <4> QED
          BY <1>3, <1>6, <2>2, <3>1, <4>1 DEF TellsStored
      <3>2. CASE m # Leader
        BY <1>2, <1>5, <2>2, <3>2, TellsStoredKept
      <3> QED
        BY <3>1, <3>2
    <2>4. lastCommitted' \in [Node -> Nat]
      BY <1>1, <1>3 DEF TypeOK
    <2> QED
      BY <1>1, <1>2, <1>5, <2>1, <2>3, <2>4, ChainsGrow DEF TypeOK, TellsStored
  <1>8. SessionInv'
    BY <1>2, <1>5, SessionsKept
  <1>9. MessagesInv'
    <2>1. ASSUME NEW m \in Others, NEW c \in commit'[m]
          PROVE  c.height \in 0 .. Height(Leader)' /\ c.block = BlockAt(Leader, c.height)'
      <3>1. c = [height |-> h, block |-> b]
        BY <1>1, <2>1
      <3> QED
        BY <1>6, <3>1 DEF BlockAt
    <2> QED
      BY <1>2, <1>5, <2>1, ResponseKept DEF MessagesInv
  <1>10. ConfirmedInv'
    BY <1>1, <1>2, <1>5, ConfirmedKept
  <1>11. QuorumClose'
    <2>1. CASE chain' = chain
      BY <2>1, Unmoved, QuorumKept
    <2>2. CASE h = Height(Leader) + 1 /\ chain' = [chain EXCEPT ![Leader] = Append(@, b)]
      <3> DEFINE G == {n \in Others : Height(n)' + 2 >= Height(Leader)'}
      <3>1. synced \subseteq G
        <4>1. ASSUME NEW m \in synced PROVE m \in Others /\ Height(m)' + 2 >= Height(Leader)'
          <5>1. m \in Others /\ m \in Node /\ lastCommitted[Leader] <= Height(m) + 1
            BY DEF TypeOK, ConfirmedInv, Others
          <5>2. Height(Leader) <= Height(m) + 1
            BY <1>3, <2>2, <5>1 DEF h
          <5>3. /\ Height(m) \in Nat /\ Height(m)' \in Nat /\ Height(m) <= Height(m)'
                /\ Height(Leader)' \in Nat /\ Height(Leader)' <= Height(Leader) + 1
            BY <1>3, <1>5, <5>1, ChainsGrow, Heights
          <5> QED
            BY <1>3, <5>1, <5>2, <5>3
        <4> QED
          BY <4>1
      <3>2. IsFiniteSet(G)
        <4>1. IsFiniteSet(Others)
          BY LeaderAssumption, FS_Subset DEF Others
        <4> QED
          BY <4>1, FS_Subset
      <3>3. /\ Cardinality(synced) <= Cardinality(G)
            /\ Cardinality(synced) \in Nat /\ Cardinality(G) \in Nat
        BY <3>1, <3>2, FS_Subset, FS_CardinalityType
      <3>4. Quorum <= Cardinality(synced)
        BY DEF ProposeBlock
      <3>5. Quorum \in Nat
        BY LeaderAssumption, FS_Subset, FS_CardinalityType
      <3>6. Cardinality(G) >= Quorum
        BY <3>3, <3>4, <3>5
      <3> QED
        BY <3>6 DEF QuorumClose
    <2> QED
      BY <1>4, <2>1, <2>2
  <1> QED
    BY <1>5, <1>7, <1>8, <1>9, <1>10, <1>11 DEF Kept

---------------------------------------------------------------------------
(* The theorems.                                                           *)

LEMMA InitHolds ==
  ASSUME Init
  PROVE  BenchmarkInv
  <1> USE DEF Init, SyncInit
  <1>1. \A n \in Node : chain[n] = <<>> /\ Height(n) = 0
    BY DEF Height
  <1>2. TypeOK
    <2>1. /\ NoSession \in Session /\ NoResponse \in Response
          /\ chain \in [Node -> Seq(Block)]
      BY DEF NoSession, Session, NoResponse, Response
    <2>2. faults \in 0 .. MaxFaults
      BY SyncAssumption
    <2> QED
      BY <1>1, <2>1, <2>2 DEF TypeOK
  <1>3. Prefix
    <2>1. SubSeq(<<>>, 1, 0) = <<>>
      OBVIOUS
    <2> QED
      BY <1>1, <2>1, LeaderAssumption DEF Prefix
  <1>4. SessionInv
    BY DEF SessionInv, SessionOK, NoSession
  <1>5. MessagesInv
    BY DEF MessagesInv, ResponseOK, FromLeader, NoResponse
  <1>6. ConfirmedInv
    BY DEF ConfirmedInv
  <1>7. QuorumClose
    <2>1. {n \in Others : Height(n) + 2 >= Height(Leader)} = Others
      BY <1>1, LeaderAssumption DEF Others
    <2>2. Cardinality(Others) \in Nat
      BY LeaderAssumption, FS_Subset, FS_CardinalityType DEF Others
    <2>3. Quorum \in 0 .. Cardinality(Others)
      BY LeaderAssumption DEF Others
    <2>4. Cardinality({n \in Others : Height(n) + 2 >= Height(Leader)}) = Cardinality(Others)
      BY <2>1
    <2> HIDE DEF Init
    <2> QED
      BY <2>2, <2>3, <2>4 DEF QuorumClose
  <1> QED
    BY <1>2, <1>3, <1>4, <1>5, <1>6, <1>7 DEF BenchmarkInv

\* Every step keeps the invariant, and does to the chains what the ledger allows.
LEMMA StepKeeps ==
  ASSUME BenchmarkInv, Next
  PROVE  BenchmarkInv' /\ (Follows \/ Decides)
  <1>1. ASSUME Follows, Kept'
        PROVE  BenchmarkInv'
    BY <1>1, PrefixKept, QuorumKept DEF BenchmarkInv, Kept
  <1>2. CASE ProposeBlock
    <2>1. (Follows \/ Decides) /\ Kept' /\ QuorumClose'
      BY <1>2, KeptByProposeBlock
    <2> QED
      BY <2>1, PrefixKept DEF BenchmarkInv, Kept
  <1>3. CASE BroadcastCommit
    BY <1>1, <1>3, KeptByBroadcastCommit
  <1>4. ASSUME NEW n \in Others, OnCommittedReceived(n) \/ OnCommitReceived(n) \/ LoseMessage(n)
        PROVE  Follows /\ Kept'
    BY <1>4, KeptByOnCommittedReceived, KeptByOnCommitReceived, KeptByLoseMessage
  <1>5. ASSUME NEW n \in Node, Synchronize(n) \/ DisturbSession(n) \/ Restart(n)
        PROVE  Follows /\ Kept'
    BY <1>5, KeptBySynchronize, KeptByDisturbSession, KeptByRestart
  <1> QED
    BY <1>1, <1>2, <1>3, <1>4, <1>5 DEF Next

LEMMA StutterKeeps ==
  ASSUME BenchmarkInv, UNCHANGED vars
  PROVE  BenchmarkInv'
  <1>1. Follows
    BY Unmoved DEF vars, syncVars
  <1>2. TypeOK' /\ MessagesInv' /\ ConfirmedInv'
    BY DEF vars, syncVars, BenchmarkInv, TypeOK, MessagesInv, ConfirmedInv, ResponseOK,
           FromLeader, Height, BlockAt, AboutToStore
  <1>3. SessionInv'
    BY <1>1, SessionsKept DEF vars, syncVars, BenchmarkInv
  <1> QED
    BY <1>1, <1>2, <1>3, PrefixKept, QuorumKept DEF BenchmarkInv

LEMMA Invariance == Spec => []BenchmarkInv
  <1>1. Init => BenchmarkInv
    BY InitHolds
  <1>2. BenchmarkInv /\ [Next]_vars => BenchmarkInv'
    BY StepKeeps, StutterKeeps
  <1> QED
    BY <1>1, <1>2, PTL DEF Spec

\* The variables of BenchmarkConsensus and of its block sync keep their types, and a
\* consensus algorithm that is ahead of its BlockStorage was told of the very block
\* that is stored next.
THEOREM BenchmarkTypeCorrect == Spec => []TypeOK
  BY Invariance, PTL DEF BenchmarkInv

\* Whatever mix of COMMITs and block sync brings the blocks, from whatever source,
\* every BlockStorage holds a prefix of the leader's.
THEOREM StoragesArePrefixes == Spec => []Prefix
  BY Invariance, PTL DEF BenchmarkInv

\* What the leader counts as confirmed is stored or is the node's next block, and a
\* quorum of the other nodes is never more than two blocks behind the leader, also
\* when COMMITs are answered while block sync is storing a block, and when a node
\* crashes before it does.
THEOREM QuorumIsClose == Spec => []QuorumFollows
  <1>1. BenchmarkInv => QuorumFollows
    <2>1. SUFFICES ASSUME BenchmarkInv, NEW n \in synced
                   PROVE  Height(n) + 1 >= lastCommitted[Leader]
      BY DEF QuorumFollows, QuorumClose, BenchmarkInv
    <2>2. n \in Node /\ Height(n) \in Nat /\ lastCommitted[Leader] \in Nat
      BY <2>1, Heights, LeaderStored DEF BenchmarkInv, TypeOK, Others
    <2> QED
      BY <2>1, <2>2 DEF BenchmarkInv, ConfirmedInv
  <1> QED
    BY <1>1, Invariance, PTL

\* The leader's chain is the ledger of SingleLedger: a proposal decides its next block,
\* and in every other step at most one node learns one.
THEOREM BenchmarkImplementsLedger == Spec => ImplementsLedger
  <1>1. Init => Ledger!Init
    BY LeaderAssumption DEF Init, SyncInit, Ledger!Init
  <1>2. ASSUME BenchmarkInv, [Next]_vars
        PROVE  [Ledger!Next]_Ledger!vars
    <2>1. CASE chain' = chain
      BY <2>1 DEF Ledger!vars
    <2>2. ASSUME NEW n \in Others, Learns(n)
          PROVE  Ledger!Next
      <3>1. n \in Node /\ n # Leader
        BY DEF Others
      <3>2. chain'[Leader] = chain[Leader]
        BY <1>2, <2>2, <3>1, LeaderAssumption DEF Learns, BenchmarkInv, TypeOK
      <3>3. Ledger!Learn(n)
        BY <2>2, <3>2 DEF Learns, Height, Ledger!Learn
      <3> QED
        BY <3>1, <3>3 DEF Ledger!Next
    <2>3. CASE Decides
      <3>1. PICK b \in Block : chain' = [chain EXCEPT ![Leader] = Append(@, b)]
        BY <2>3 DEF Decides
      <3>2. chain'[Leader] = Append(chain[Leader], b)
        BY <1>2, <3>1, LeaderAssumption DEF BenchmarkInv, TypeOK
      <3>3. Ledger!Decide(Leader)
        BY <3>1, <3>2 DEF Ledger!Decide
      <3> QED
        BY <3>3, LeaderAssumption DEF Ledger!Next
    <2>4. CASE UNCHANGED vars
      BY <2>1, <2>4 DEF vars, syncVars
    <2> QED
      BY <1>2, <2>1, <2>2, <2>3, <2>4, StepKeeps DEF Follows
  <1> QED
    BY <1>1, <1>2, Invariance, PTL DEF Spec, ImplementsLedger, Ledger!Spec

=============================================================================
