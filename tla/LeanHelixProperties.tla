------------------------- MODULE LeanHelixProperties -------------------------
(***************************************************************************)
(* What Lean Helix must keep, and what its text claims and does not keep.  *)
(***************************************************************************)
EXTENDS LeanHelix

\* Type invariant: the state variables of lean-helix.md "State" and
\* "Messages Log" hold values of their kinds.
TypeOK ==
  /\ height \in [Node -> Nat \ {0}]
  /\ view \in [Node -> Nat]
  /\ log \in [Node -> SUBSET (Header \cup ViewChange)]
  /\ candidate \in [Node -> [block : Hash, hash : Hash]]
  /\ prepared \in [Node -> BOOLEAN]
  /\ preparedProof \in [Node -> Proof]
  /\ newViewTriggered \in [Node -> BOOLEAN]
  /\ chain \in [Node -> Seq(Committed)]
  /\ panicked \in SUBSET Node
  /\ validated \in [Node -> SUBSET Validated]
  /\ msgs \in SUBSET Message

\* The hashes the network holds a PRE_PREPARE for, in a view of a term.
Proposals(h, v) ==
  {m.hash : m \in {x \in msgs : x.type = "PRE_PREPARE" /\ x.height = h
                                /\ x.view = v}}
  \cup {m.pp.hash : m \in {x \in msgs : x.type = "NEW_VIEW" /\ x.height = h
                                        /\ x.view = v}}

\* The senders of a type of message for a block in a view of a term.
SendersOf(type, h, v, b) ==
  Senders({m \in msgs : /\ m.type = type
                        /\ m.height = h
                        /\ m.view = v
                        /\ m.hash = b})

\* 2f+1 nodes sent a COMMIT for the block.
Chosen(h, v, b) == Cardinality(SendersOf("COMMIT", h, v, b)) >= 2 * F + 1

\* No two nodes store different blocks under one height ("there can be only a
\* single valid fork", inter-node-sync.md), whatever their quorums, views and
\* the way the block reached them (own commit or block sync).
Agreement ==
  \A a, b \in Node :
    \A h \in 1 .. Len(chain[a]) :
      h <= Len(chain[b]) => chain[a][h].hash = chain[b][h].hash

\* Once 2f+1 COMMITs for a block exist, no node prepares another block in a
\* later view: every view change carries the block over (OnPrepared,
\* OnTimeOut, LocalNewView and OnNewViewReceived together).
ChosenBlockStays ==
  \A m, c \in msgs :
    /\ m.type = "PREPARE"
    /\ c.type = "COMMIT"
    /\ c.height = m.height
    /\ c.view < m.view
    /\ Chosen(c.height, c.view, c.hash)
    => m.hash = c.hash

\* A view of a term has one proposal: its leader never starts it twice, in
\* OnNewConsensusRound or LocalNewView, although VIEW_CHANGEs keep arriving
\* and NewViewTriggered is cleared by timeouts.
OneProposalPerView ==
  \A h \in 1 .. MaxHeight : \A v \in 0 .. MaxView :
    Cardinality(Proposals(h, v)) <= 1

\* "an honest sender may only send one valid message type per {Block_height,
\* View}" (Received Messages Cache).
OneMessagePerView ==
  \A m, x \in msgs :
    /\ m.type = x.type
    /\ m.height = x.height
    /\ m.view = x.view
    /\ m.sender = x.sender
    => m = x

\* A node that sent a COMMIT and then a VIEW_CHANGE in the same term proves in
\* the VIEW_CHANGE the block it committed to, or one prepared in a later view,
\* with a proof that ValidatePreparedProof accepts (OnPrepared, OnTimeOut and
\* the tails that replace Candidate_block_hash in between).
CommitterProvesIt ==
  \A c, m \in msgs :
    /\ c.type = "COMMIT"
    /\ m.type = "VIEW_CHANGE"
    /\ m.sender = c.sender
    /\ m.height = c.height
    /\ c.view < m.view
    => /\ ValidPreparedProof(m.proof, m.height, m.view)
       /\ m.proof.view >= c.view
       /\ m.proof.view = c.view => m.proof.hash = c.hash

\* The term a node runs is the one its BlockStorage misses next, or the last
\* it stored (when block sync was faster than the term); it is two heights
\* ahead only while block sync holds the one block in between, validated and
\* not committed yet.  A node that CommitBlock stopped runs no term.
TermFollowsStorage ==
  \A n \in Node \ panicked :
    \/ height[n] \in {Len(chain[n]), Len(chain[n]) + 1}
    \/ /\ height[n] = Len(chain[n]) + 2
       /\ \E s \in validated[n] : s.height = Len(chain[n]) + 1

\* A node leaves a term for the next one and a view for a later one only, and
\* its BlockStorage only grows, by one block at a time.
OnlyForward ==
  [][\A n \in Node :
       /\ \/ height'[n] = height[n] /\ view'[n] >= view[n]
          \/ height'[n] > height[n] /\ view'[n] = 0
       /\ \/ chain'[n] = chain[n]
          \/ /\ Len(chain'[n]) = Len(chain[n]) + 1
             /\ SubSeq(chain'[n], 1, Len(chain[n])) = chain[n]]_vars

\* With no timeout every node that is up stores every block, one that gossip
\* does not reach too: what it cannot commit itself it gets from block sync.
\* (Where gossip reaches more than 2f+1 nodes, NoPanic may fail first.)
Progress == \A n \in Live : <>(Len(chain[n]) = MaxHeight)

\* CommitBlock panics only when the block really differs from the stored one: a
\* claim the algorithm does not keep.
NoPanic == panicked = {}

=============================================================================
