------------------------------ MODULE LeanHelix ------------------------------
(***************************************************************************)
(* The Lean Helix consensus algorithm of one virtual chain, together with  *)
(* the two operations of BlockStorage it calls or is called by.            *)
(*                                                                         *)
(* Every node runs one term (block height) at a time.  Inside a term the   *)
(* leader of view 0 proposes a block (PRE_PREPARE), the others answer      *)
(* PREPARE, prepared nodes answer COMMIT, and 2f+1 COMMITs commit the      *)
(* block.  A timeout moves a node to the next view with a VIEW_CHANGE to   *)
(* the next leader, who starts the view with a NEW_VIEW.                   *)
(*                                                                         *)
(* One action per handler of lean-helix.md; the handlers' tails (Check if  *)
(* Prepared, OnPrepared, Check if Committed_locally, OnCommittedLocally,   *)
(* LocalNewView, Init my_state) are operators the actions end with.        *)
(*                                                                         *)
(* Sent messages stay in msgs: a message may be delivered late, out of     *)
(* order, more than once or never, and one of a future height waits there  *)
(* (the Received Messages Cache).  Nodes may stop, none sends what the     *)
(* algorithm does not tell it to send.                                     *)
(***************************************************************************)
EXTENDS Integers, Sequences, FiniteSets

CONSTANTS
  Node,              \* the committee: all nodes take part in every term
  Live,              \* the nodes that are up
  Connected,         \* the live nodes that gossip delivers messages to
  OrderedCommittee,  \* the sequence that rotates the leadership
  F,                 \* f_byzantine
  Block,             \* contents a block pair may have
  NoBlock,           \* "{}": no candidate block
  MaxView,           \* bound: no timeout beyond this view
  MaxHeight          \* bound: no term beyond this height

ASSUME QuorumAssumption ==
  /\ IsFiniteSet(Node)
  /\ F \in Nat \ {0}
  /\ Cardinality(Node) < 2 * (2 * F + 1)
  /\ Live \subseteq Node
  /\ Connected \subseteq Live

ASSUME CommitteeAssumption ==
  /\ OrderedCommittee \in Seq(Node)
  /\ Len(OrderedCommittee) > 0

ASSUME BoundsAssumption == MaxView \in Nat /\ MaxHeight \in Nat

ASSUME BlockAssumption == NoBlock \notin Block

VARIABLES
  height,            \* my_state.Block_height, the running term
  view,              \* my_state.view
  log,               \* Messages Log of the running term
  candidate,         \* Candidate_block and Candidate_block_hash
  prepared,          \* my_state.Prepared
  preparedProof,     \* my_state.Prepared_proof
  newViewTriggered,  \* my_state.NewViewTriggered
  chain,             \* BlockStorage: the committed blocks, by height
  panicked,          \* nodes that BlockStorage.CommitBlock stopped
  validated,         \* the block that inter node sync holds between its calls
                     \* of ValidateBlockForCommit and CommitBlock, if any
  msgs               \* every message sent so far

vars == <<height, view, log, candidate, prepared, preparedProof,
          newViewTriggered, chain, panicked, validated, msgs>>

-----------------------------------------------------------------------------
(* Messages and proofs.  A block is named by its hash.                     *)

Hash == Block \cup {NoBlock}

Header == [type : {"PRE_PREPARE", "PREPARE", "COMMIT"}, height : Nat,
           view : Nat, sender : Node, hash : Hash]

\* Prepared_proof: the signatures cited are those of the PP and the PREPAREs.
Proof == [height : Nat, view : Nat \cup {-1}, hash : Hash,
          signatures : SUBSET Header]

NoProof == [height |-> 0, view |-> -1, hash |-> NoBlock, signatures |-> {}]

ViewChange == [type : {"VIEW_CHANGE"}, height : Nat, view : Nat,
               sender : Node, proof : Proof, block : Hash]

\* pp is the encapsulated New View PRE_PREPARE, block the block pair it carries.
NewView == [type : {"NEW_VIEW"}, height : Nat, view : Nat, sender : Node,
            proof : SUBSET ViewChange, pp : Header, block : Hash]

Message == Header \cup ViewChange \cup NewView

\* A committed block with its LeanHelixBlockProof.
Committed == [hash : Hash, view : Nat, commits : SUBSET Header]

\* The same with the height it is stored under.
Validated == [height : Nat \ {0}, block : Committed]

\* Mutant: the view signed is one behind.
MakeHeaderOffByOne(type, n, h, v, b) ==
  [type |-> type, height |-> h, view |-> v - 1, sender |-> n, hash |-> b]

MakeHeader(type, n, h, v, b) ==
  [type |-> type, height |-> h, view |-> v, sender |-> n, hash |-> b]

Leader(v) == OrderedCommittee[(v % Len(OrderedCommittee)) + 1]

-----------------------------------------------------------------------------
(* The Messages Log, accessed by (View, Sender, Message_type).             *)

Senders(M) == {m.sender : m \in M}

Of(L, type, v) == {m \in L : m.type = type /\ m.view = v}

Put(L, m) ==
  {x \in L : <<x.type, x.view, x.sender>> # <<m.type, m.view, m.sender>>}
    \cup {m}

Logged(L, type, v, n) == \E m \in Of(L, type, v) : m.sender = n

\* The senders of the logged messages of this type, view and block hash.
Voters(L, type, v, b) == Senders({m \in Of(L, type, v) : m.hash = b})

\* Mutant: one PREPARE too many is asked for.
IsPreparedOffByOne(L, v) ==
  \E pp \in Of(L, "PRE_PREPARE", v) :
    Cardinality(Voters(L, "PREPARE", v, pp.hash)) = 2 * F + 1

\* "exactly (trigger once) 2xf PREPARE messages"
IsPrepared(L, v) ==
  \E pp \in Of(L, "PRE_PREPARE", v) :
    Cardinality(Voters(L, "PREPARE", v, pp.hash)) = 2 * F

CommittedHashes(L, v) ==
  {b \in Hash :
     /\ \E pp \in Of(L, "PRE_PREPARE", v) : pp.hash = b
     /\ Cardinality(Voters(L, "COMMIT", v, b)) >= 2 * F + 1}

IsCommitted(L, v) == CommittedHashes(L, v) # {}

\* Block_hash of the logged PRE_PREPARE of view v, empty when there is none.
\* There may be two: a leader that proposed after a timeout logged its own.
LoggedHashes(L, v) ==
  IF Of(L, "PRE_PREPARE", v) = {}
  THEN {NoBlock}
  ELSE {pp.hash : pp \in Of(L, "PRE_PREPARE", v)}

-----------------------------------------------------------------------------
(* The tails the handlers share.  Each names the variables it sets: n is   *)
(* the node, L its log with the message and the answer already in, v the   *)
(* view of the message, w the new my_state.view, c the new candidate and   *)
(* out the messages the handler has broadcast.                             *)

NoCandidate == [block |-> NoBlock, hash |-> NoBlock]

\* Mutant: a block that is already there is appended once more.
CommitBlockAgain(n, h, blk) ==
  /\ chain' = [chain EXCEPT ![n] = Append(@, blk)]
  /\ UNCHANGED panicked

\* Mutant: the given block becomes the last one, whether it was there or not.
CommitBlockUnchecked(n, h, blk) ==
  /\ chain' = [chain EXCEPT ![n] = Append(SubSeq(@, 1, h - 1), blk)]
  /\ UNCHANGED panicked

\* BlockStorage.CommitBlock: discard a block that is already there, panic when
\* it differs from ours or skips a height.  A panicked node takes no step any
\* more, so what its interrupted handler leaves in the other variables is
\* immaterial.
CommitBlock(n, h, blk) ==
  LET next == h = Len(chain[n]) + 1
      same == h <= Len(chain[n]) /\ chain[n][h] = blk
  IN /\ chain' = IF next THEN [chain EXCEPT ![n] = Append(@, blk)] ELSE chain
     /\ panicked' = IF next \/ same THEN panicked ELSE panicked \cup {n}

\* Mutant: the next round is one too far.
InitNextRoundSkips(n, h, c) ==
  /\ height' = [height EXCEPT ![n] = h + 2]
  /\ view' = [view EXCEPT ![n] = 0]
  /\ log' = [log EXCEPT ![n] = {}]
  /\ candidate' = [candidate EXCEPT ![n] = [c EXCEPT !.block = NoBlock]]
  /\ preparedProof' = [preparedProof EXCEPT ![n] = NoProof]

\* Mutant: the view is not reset.
InitNextRoundKeepsView(n, h, c) ==
  /\ height' = [height EXCEPT ![n] = h + 1]
  /\ UNCHANGED view
  /\ log' = [log EXCEPT ![n] = {}]
  /\ candidate' = [candidate EXCEPT ![n] = [c EXCEPT !.block = NoBlock]]
  /\ preparedProof' = [preparedProof EXCEPT ![n] = NoProof]

\* "Init my_state for the next round" after block h, and the cleared log.
\* Neither Prepared nor NewViewTriggered nor Candidate_block_hash is reset.
InitNextRound(n, h, c) ==
  /\ height' = [height EXCEPT ![n] = h + 1]
  /\ view' = [view EXCEPT ![n] = 0]
  /\ log' = [log EXCEPT ![n] = {}]
  /\ candidate' = [candidate EXCEPT ![n] = [c EXCEPT !.block = NoBlock]]
  /\ preparedProof' = [preparedProof EXCEPT ![n] = NoProof]

\* The block proof cites the COMMITs of view v under the node's own view w.
OnCommittedLocally(n, L, v, w, c) ==
  \E b \in CommittedHashes(L, v) :
    /\ CommitBlock(n, height[n],
                   [hash |-> b, view |-> w, commits |-> Of(L, "COMMIT", v)])
    /\ InitNextRound(n, height[n], c)

\* The handler ends within the term.
StayInRound(n, L, w, c) ==
  /\ view' = [view EXCEPT ![n] = w]
  /\ log' = [log EXCEPT ![n] = L]
  /\ candidate' = [candidate EXCEPT ![n] = c]
  /\ UNCHANGED <<height, chain, panicked>>

\* Mutant: the Prepared_proof is not saved.
OnPreparedUnsaved(n, L, v, w, c, out) ==
  \E b \in LoggedHashes(L, w) :
    LET commit == MakeHeader("COMMIT", n, height[n], w, b)
        L2 == Put(L, commit)
    IN /\ msgs' = msgs \cup out \cup {commit}
       /\ prepared' = [prepared EXCEPT ![n] = TRUE]
       /\ IF IsCommitted(L2, v)
          THEN OnCommittedLocally(n, L2, v, w, c)
          ELSE StayInRound(n, L2, w, c) /\ UNCHANGED preparedProof

\* The COMMIT and the proof carry the node's view w, the PREPAREs they stand
\* for are those of view v.
OnPrepared(n, L, v, w, c, out) ==
  \E b \in LoggedHashes(L, w) :
    LET commit == MakeHeader("COMMIT", n, height[n], w, b)
        L2 == Put(L, commit)
        proof == [height |-> height[n], view |-> w, hash |-> c.hash,
                  signatures |-> Of(L, "PRE_PREPARE", v)
                                   \cup Of(L, "PREPARE", v)]
    IN /\ msgs' = msgs \cup out \cup {commit}
       /\ prepared' = [prepared EXCEPT ![n] = TRUE]
       /\ IF IsCommitted(L2, v)
          THEN OnCommittedLocally(n, L2, v, w, c)
          ELSE /\ StayInRound(n, L2, w, c)
               /\ preparedProof' = [preparedProof EXCEPT ![n] = proof]

CheckIfPrepared(n, L, v, w, c, out) ==
  IF IsPrepared(L, v)
  THEN OnPrepared(n, L, v, w, c, out)
  ELSE /\ msgs' = msgs \cup out
       /\ StayInRound(n, L, w, c)
       /\ UNCHANGED <<prepared, preparedProof>>

\* A PRE_PREPARE, alone or inside a NEW_VIEW, passed every check: answer
\* PREPARE in view w, log both, adopt the block.
AcceptPrePrepare(n, pp, w) ==
  LET prepare == MakeHeader("PREPARE", n, height[n], w, pp.hash)
  IN CheckIfPrepared(n, Put(Put(log[n], pp), prepare), pp.view, w,
                     [block |-> pp.hash, hash |-> pp.hash], {prepare})

\* ValidatePreparedProof(v) by a node in term h; an empty proof is valid.
ValidPreparedProof(p, h, v) ==
  p # NoProof =>
    /\ p.height = h
    /\ p.view < v
    /\ \A s \in p.signatures :
         s.height = p.height /\ s.view = p.view /\ s.hash = p.hash
    /\ \E pp \in p.signatures :
         /\ pp.type = "PRE_PREPARE"
         /\ Cardinality(Senders({s \in p.signatures : s.type = "PREPARE"})
                          \ {pp.sender}) >= 2 * F

\* Mutant: the comparison is the wrong way round.
HighestSwapped(M) == {m \in M : \A x \in M : x.proof.view >= m.proof.view}

\* The VIEW_CHANGEs with the highest Prepared_proof.View; all of them when
\* none carries a proof.
Highest(M) == {m \in M : \A x \in M : x.proof.view <= m.proof.view}

\* Mutant: NewViewTriggered is not looked at.
StartsNewViewAgain(n, L, v) ==
  Cardinality(Senders(Of(L, "VIEW_CHANGE", v))) >= 2 * F + 1

\* "Check if new view"
StartsNewView(n, L, v) ==
  /\ Cardinality(Senders(Of(L, "VIEW_CHANGE", v))) >= 2 * F + 1
  /\ ~newViewTriggered[n]

\* The leader of view v has 2f+1 VIEW_CHANGEs in L: it enters the view with the
\* highest prepared block, or with a new one when there is none.
LocalNewView(n, L, v) ==
  LET changes == Of(L, "VIEW_CHANGE", v)
      candidates == UNION {IF m.proof = NoProof
                           THEN {[block |-> b, hash |-> b] : b \in Block}
                           ELSE {[block |-> m.block, hash |-> m.proof.hash]} :
                             m \in Highest(changes)}
  IN \E c \in candidates :
       LET pp == MakeHeader("PRE_PREPARE", n, height[n], v, c.hash)
           proof == {[m EXCEPT !.block = NoBlock] : m \in changes}
       IN /\ view' = [view EXCEPT ![n] = v]
          /\ newViewTriggered' = [newViewTriggered EXCEPT ![n] = TRUE]
          /\ candidate' = [candidate EXCEPT ![n] = c]
          /\ log' = [log EXCEPT ![n] = Put(L, pp)]
          /\ msgs' = msgs \cup
               {[type |-> "NEW_VIEW", height |-> height[n], view |-> v,
                 sender |-> n, proof |-> proof, pp |-> pp, block |-> c.block]}
          /\ UNCHANGED <<height, prepared, preparedProof, chain, panicked>>

-----------------------------------------------------------------------------
(* The handlers.                                                           *)

Init ==
  /\ height = [n \in Node |-> 1]
  /\ view = [n \in Node |-> 0]
  /\ log = [n \in Node |-> {}]
  /\ candidate = [n \in Node |-> NoCandidate]
  /\ prepared = [n \in Node |-> FALSE]
  /\ preparedProof = [n \in Node |-> NoProof]
  /\ newViewTriggered = [n \in Node |-> FALSE]
  /\ chain = [n \in Node |-> <<>>]
  /\ panicked = {}
  /\ validated = [n \in Node |-> {}]
  /\ msgs = {}

Running(n) == n \notin panicked /\ height[n] <= MaxHeight

\* Mutant: the round's block pair may come twice.
ProposedNever(n) == FALSE

\* Node n has proposed the block pair of its round.
Proposed(n) ==
  \E m \in msgs :
    m.type = "PRE_PREPARE" /\ m.height = height[n] /\ m.sender = n

\* OnNewConsensusRound, leader only: the block pair requested from
\* ConsensusContext is ready.  It is requested once a round; the answer may
\* come after timeouts, and is then proposed in the view the leader is in, or
\* never.  An answer of an earlier round is of another height and refused.
ProposeBlock(n) ==
  /\ Running(n)
  /\ n = Leader(0)
  /\ ~Proposed(n)
  /\ \E b \in Block :
       LET pp == MakeHeader("PRE_PREPARE", n, height[n], view[n], b)
       IN /\ msgs' = msgs \cup {pp}
          /\ log' = [log EXCEPT ![n] = Put(@, pp)]
          /\ candidate' = [candidate EXCEPT ![n] = [block |-> b, hash |-> b]]
  /\ UNCHANGED <<height, view, prepared, preparedProof, newViewTriggered,
                 chain, panicked, validated>>

\* The view checked is the message's: the node itself may be in a later view.
OnPrePrepareReceived(n) ==
  \E m \in msgs :
    /\ Running(n)
    /\ m.type = "PRE_PREPARE"
    /\ m.height = height[n]
    /\ m.view = 0
    /\ m.sender = Leader(m.view)
    /\ ~Logged(log[n], "PRE_PREPARE", m.view, m.sender)
    /\ AcceptPrePrepare(n, m, view[n])
    /\ UNCHANGED <<newViewTriggered, validated>>

OnPrepareReceived(n) ==
  \E m \in msgs :
    /\ Running(n)
    /\ m.type = "PREPARE"
    /\ m.height = height[n]
    /\ m.view >= view[n]
    /\ m.sender # Leader(m.view)
    /\ ~Logged(log[n], "PREPARE", m.view, m.sender)
    /\ CheckIfPrepared(n, Put(log[n], m), m.view, view[n], candidate[n], {})
    /\ UNCHANGED <<newViewTriggered, validated>>

\* COMMITs of earlier and of later views are accepted.
OnCommitReceived(n) ==
  \E m \in msgs :
    /\ Running(n)
    /\ m.type = "COMMIT"
    /\ m.height = height[n]
    /\ ~Logged(log[n], "COMMIT", m.view, m.sender)
    /\ LET L == Put(log[n], m)
       IN IF IsCommitted(L, m.view)
          THEN OnCommittedLocally(n, L, m.view, view[n], candidate[n])
          ELSE /\ StayInRound(n, L, view[n], candidate[n])
               /\ UNCHANGED preparedProof
    /\ UNCHANGED <<prepared, newViewTriggered, validated, msgs>>

\* Mutant: the proof is left out.
ChangeProofForgotten(n) == NoProof

\* The Prepared_proof a VIEW_CHANGE carries.
ChangeProof(n) == IF prepared[n] THEN preparedProof[n] ELSE NoProof

\* The leader of the new view logs its VIEW_CHANGE and sends none.
OnTimeOut(n) ==
  /\ Running(n)
  /\ view[n] < MaxView
  /\ LET v == view[n] + 1
         change == [type |-> "VIEW_CHANGE", height |-> height[n], view |-> v,
                    sender |-> n,
                    proof |-> ChangeProof(n),
                    block |-> IF prepared[n] THEN candidate[n].block
                                             ELSE NoBlock]
     IN /\ view' = [view EXCEPT ![n] = v]
        /\ log' = [log EXCEPT ![n] = Put(@, change)]
        /\ msgs' = IF n = Leader(v) THEN msgs ELSE msgs \cup {change}
  /\ newViewTriggered' = [newViewTriggered EXCEPT ![n] = FALSE]
  /\ UNCHANGED <<height, candidate, prepared, preparedProof, chain, panicked,
                 validated>>

OnViewChangeReceived(n) ==
  \E m \in msgs :
    /\ Running(n)
    /\ m.type = "VIEW_CHANGE"
    /\ m.height = height[n]
    /\ m.view >= view[n]
    /\ ~Logged(log[n], "VIEW_CHANGE", m.view, m.sender)
    /\ n = Leader(m.view)
    /\ ValidPreparedProof(m.proof, height[n], m.view)
    /\ m.proof.hash = m.block
    /\ LET L == Put(log[n], m)
       IN IF StartsNewView(n, L, m.view)
          THEN LocalNewView(n, L, m.view)
          ELSE /\ log' = [log EXCEPT ![n] = L]
               /\ UNCHANGED <<height, view, candidate, prepared, preparedProof,
                              newViewTriggered, chain, panicked, msgs>>
    /\ UNCHANGED validated

ValidNewViewProof(m) ==
  /\ Cardinality(Senders(m.proof)) >= 2 * F + 1
  /\ \A x \in m.proof :
       /\ x.height = m.height
       /\ x.view = m.view
       /\ ValidPreparedProof(x.proof, m.height, m.view)

OnNewViewReceived(n) ==
  \E m \in msgs :
    /\ Running(n)
    /\ m.type = "NEW_VIEW"
    /\ m.height = height[n]
    /\ m.view >= view[n]
    /\ m.sender = Leader(m.view)
    /\ ~Logged(log[n], "PRE_PREPARE", m.view, m.sender)
    /\ ValidNewViewProof(m)
    /\ m.pp = MakeHeader("PRE_PREPARE", m.sender, m.height, m.view, m.block)
    /\ \E x \in Highest(m.proof) :
         x.proof = NoProof \/ m.pp.hash = x.proof.hash
    /\ AcceptPrePrepare(n, m.pp, m.view)
    /\ UNCHANGED <<newViewTriggered, validated>>

\* VerifyBlockConsensus, "verify the block proof": 2f+1 members signed the
\* COMMIT of this block under the height and view the proof names.
ValidBlockProof(blk, h) ==
  /\ Cardinality(Senders(blk.commits)) >= 2 * F + 1
  /\ \A s \in blk.commits :
       s.height = h /\ s.view = blk.view /\ s.hash = blk.hash

\* Acknowledge...BlockConsensus of block h: a term the node is running for this
\* very height goes on.
Acknowledge(n, h) ==
  IF h <= height[n]
  THEN UNCHANGED <<height, view, log, candidate, preparedProof>>
  ELSE InitNextRound(n, h, candidate[n])

\* Inter node sync has got its next block from node p and passes it to the
\* consensus algorithm (VERIFY_AND_UPDATE), which takes it for committed.
ValidateBlockForCommit(n, p) ==
  /\ n \notin panicked
  /\ validated[n] = {}
  /\ Len(chain[p]) > Len(chain[n])
  /\ LET h == Len(chain[n]) + 1
         blk == chain[p][h]
     IN /\ ValidBlockProof(blk, h)
        /\ Acknowledge(n, h)
        /\ validated' = [validated EXCEPT ![n] = {[height |-> h, block |-> blk]}]
  /\ UNCHANGED <<prepared, newViewTriggered, chain, panicked, msgs>>

\* Then it stores the block.  The term may have stored it in between.
CommitSyncedBlock(n) ==
  /\ n \notin panicked
  /\ \E s \in validated[n] : CommitBlock(n, s.height, s.block)
  /\ validated' = [validated EXCEPT ![n] = {}]
  /\ UNCHANGED <<height, view, log, candidate, prepared, preparedProof,
                 newViewTriggered, msgs>>

\* OnInit after a crash: everything persistent is read back, Prepared and
\* NewViewTriggered are not among it, nor is a block not stored yet.
Restart(n) ==
  /\ n \notin panicked
  /\ prepared' = [prepared EXCEPT ![n] = FALSE]
  /\ newViewTriggered' = [newViewTriggered EXCEPT ![n] = FALSE]
  /\ validated' = [validated EXCEPT ![n] = {}]
  /\ UNCHANGED <<height, view, log, candidate, preparedProof, chain, panicked,
                 msgs>>

-----------------------------------------------------------------------------
(* The specifications.                                                     *)

\* A block is proposed or a PRE_PREPARE handled, in whatever view the node is.
Proposing ==
  \/ \E n \in Live : ProposeBlock(n)
  \/ \E n \in Connected : OnPrePrepareReceived(n)

\* All other steps.
OtherStep ==
  \/ \E n \in Live : OnTimeOut(n) \/ CommitSyncedBlock(n)
  \/ \E n, p \in Live : ValidateBlockForCommit(n, p)
  \/ \E n \in Connected : \/ OnPrepareReceived(n)
                          \/ OnCommitReceived(n)
                          \/ OnViewChangeReceived(n)
                          \/ OnNewViewReceived(n)

Next == Proposing \/ OtherStep

Spec == Init /\ [][Next]_vars

\* ConsensusContext answers the leader before it times out and the network
\* delivers a PRE_PREPARE before its receiver times out, or they never do.
TimelyProposing ==
  \/ \E n \in Live : view[n] = 0 /\ ProposeBlock(n)
  \/ \E n \in Connected : view[n] = 0 /\ OnPrePrepareReceived(n)

TimelyNext == TimelyProposing \/ OtherStep

TimelySpec == Init /\ [][TimelyNext]_vars

\* Nodes may also crash and restart.
RestartNext == Next \/ \E n \in Live : Restart(n)

RestartSpec == Init /\ [][RestartNext]_vars

\* What a node that is up does on end: it completes its calls, handles the
\* messages that reach it, and runs block sync whenever it is behind.
NodeStep(n) ==
  \/ ProposeBlock(n)
  \/ \E p \in Live : ValidateBlockForCommit(n, p)
  \/ CommitSyncedBlock(n)
  \/ /\ n \in Connected
     /\ \/ OnPrePrepareReceived(n)
        \/ OnPrepareReceived(n)
        \/ OnCommitReceived(n)
        \/ OnViewChangeReceived(n)
        \/ OnNewViewReceived(n)

\* A node that can take such a step takes one: it takes finitely many of each
\* kind in a term, so none of them waits for ever.
Fairness == \A n \in Live : WF_vars(NodeStep(n))

FairSpec == Spec /\ Fairness
=============================================================================
