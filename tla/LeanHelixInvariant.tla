------------------------- MODULE LeanHelixInvariant -------------------------
(***************************************************************************)
(* The inductive invariant behind Agreement when PRE_PREPAREs are timely.  *)
(* It records why a view change is safe: a node's COMMIT leaves a proof in *)
(* its state, the proof goes into every later VIEW_CHANGE, and a NEW_VIEW  *)
(* takes the block of the highest one.                                     *)
(***************************************************************************)
EXTENDS LeanHelixProperties

\* Node n has reached view v of term h.
Reached(n, h, v) == height[n] > h \/ (height[n] = h /\ view[n] >= v)

\* Node n sent no COMMIT for another block than b in view v of term h, and
\* will not.
NoOtherVote(n, h, v, b) ==
  /\ Reached(n, h, v + 1)
  /\ \A m \in msgs :
       m.type = "COMMIT" /\ m.sender = n /\ m.height = h /\ m.view = v
         => m.hash = b

\* No block but b has been chosen before view v of term h, or ever will be.
SafeAt(h, v, b) ==
  \A c \in 0 .. (v - 1) :
    \E Q \in SUBSET Node :
      /\ Cardinality(Q) >= 2 * F + 1
      /\ \A n \in Q : NoOtherVote(n, h, c, b)

\* Every PREPARE signature a proof cites was sent.
ProofSent(p) == \A s \in p.signatures : s.type = "PREPARE" => s \in msgs

\* A VIEW_CHANGE, wherever it is, tells what its sender committed to before.
ChangeOK(x) ==
  /\ x.view >= 1
  /\ ProofSent(x.proof)
  /\ Reached(x.sender, x.height, x.view)
  /\ \A c \in msgs :
       /\ c.type = "COMMIT"
       /\ c.sender = x.sender
       /\ c.height = x.height
       /\ c.view < x.view
       => x.proof.view >= c.view

\* A log holds messages of the running term that were sent.
EntryOK(n, m) ==
  /\ m.height = height[n]
  /\ m.type \in {"PREPARE", "COMMIT"} => m \in msgs
  /\ m.type = "PRE_PREPARE" => /\ m.hash \in Proposals(m.height, m.view)
                               /\ m.view <= view[n]
  /\ m.type = "VIEW_CHANGE" => ChangeOK(m)

LogInv == \A n \in Node : \A m \in log[n] : EntryOK(n, m)

ChangeInv ==
  \A m \in msgs :
    /\ m.type = "VIEW_CHANGE" => ChangeOK(m)
    /\ m.type = "NEW_VIEW" => \A x \in m.proof : ChangeOK(x)

\* A leader that made a proposal cannot make another one for the same view.
ProposerOK(m) ==
  /\ m.type = "PRE_PREPARE" =>
       /\ m.view = 0
       /\ m.sender = Leader(0)
       /\ \/ height[m.sender] > m.height
          \/ /\ height[m.sender] = m.height
             /\ Logged(log[m.sender], "PRE_PREPARE", 0, m.sender)
  /\ m.type = "NEW_VIEW" =>
       /\ m.view >= 1
       /\ m.sender = Leader(m.view)
       /\ \/ Reached(m.sender, m.height, m.view + 1)
          \/ /\ height[m.sender] = m.height
             /\ view[m.sender] = m.view
             /\ newViewTriggered[m.sender]

ProposerInv == \A m \in msgs : ProposerOK(m)

ProposalInv ==
  \A m \in msgs :
    m.type \in {"PRE_PREPARE", "NEW_VIEW"} =>
      \A b, d \in Proposals(m.height, m.view) : b = d

PrepareInv ==
  \A m \in msgs :
    m.type = "PREPARE" => /\ m.hash \in Proposals(m.height, m.view)
                          /\ SafeAt(m.height, m.view, m.hash)

\* A node that sent a COMMIT keeps a proof of that view or a later one as long
\* as it runs the term.
CommitOK(m) ==
  /\ \E p \in msgs : /\ p.type = "PREPARE"
                     /\ p.height = m.height
                     /\ p.view = m.view
                     /\ p.hash = m.hash
  /\ \/ height[m.sender] > m.height
     \/ /\ height[m.sender] = m.height
        /\ view[m.sender] >= m.view
        /\ prepared[m.sender]
        /\ preparedProof[m.sender].view >= m.view

CommitInv == \A m \in msgs : m.type = "COMMIT" => CommitOK(m)

ProofInv ==
  \A n \in Node : /\ preparedProof[n].view <= view[n]
                  /\ ProofSent(preparedProof[n])

\* A stored block was chosen in some view.
ChainInv ==
  \A n \in Node : \A h \in 1 .. Len(chain[n]) :
    \E c \in msgs : /\ c.type = "COMMIT"
                    /\ c.height = h
                    /\ c.hash = chain[n][h].hash
                    /\ Chosen(h, c.view, c.hash)

\* Together the parts make every later proposal carry a chosen block over,
\* whatever is lost or reordered.
AgreementInv ==
  /\ LogInv
  /\ ChangeInv
  /\ ProposerInv
  /\ ProposalInv
  /\ PrepareInv
  /\ CommitInv
  /\ ProofInv
  /\ ChainInv

\* A block that inter node sync is about to commit is stored somewhere, and no
\* height is left out.
SyncInv ==
  \A n \in Node : \A s \in validated[n] :
    /\ s.height <= Len(chain[n]) + 1
    /\ \E p \in Node : s.height <= Len(chain[p]) /\ chain[p][s.height] = s.block

-----------------------------------------------------------------------------
(* Why a proof is accepted.                                                *)

\* No leader sends a PREPARE for its own proposal: it has logged the proposal.
\* No other node's PRE_PREPARE is logged.
LeaderInv ==
  /\ \A m \in msgs :
       /\ m.type = "PREPARE" => m.sender # Leader(m.view)
       /\ m.type = "NEW_VIEW" =>
            \/ Reached(m.sender, m.height, m.view + 1)
            \/ Logged(log[m.sender], "PRE_PREPARE", m.view, m.sender)
  /\ \A n \in Node : \A m \in log[n] :
       m.type = "PRE_PREPARE" => m.sender = Leader(m.view)

\* The candidate of a node is the block proposed in the view it is in, if it
\* has seen the proposal.
CandidateInv ==
  \A n \in Node : \A m \in log[n] :
    m.type = "PRE_PREPARE" /\ m.view = view[n] => m.hash = candidate[n].hash

\* A proof is valid in every later view of the term, kept or sent.
ValidInv ==
  /\ \A n \in Node : ValidPreparedProof(preparedProof[n], height[n], view[n] + 1)
  /\ \A m \in msgs :
       m.type = "VIEW_CHANGE" => ValidPreparedProof(m.proof, m.height, m.view)

EvidenceInv == LeaderInv /\ CandidateInv /\ ValidInv

\* The inductive invariant.
SafetyInv == AgreementInv /\ SyncInv /\ EvidenceInv
=============================================================================
