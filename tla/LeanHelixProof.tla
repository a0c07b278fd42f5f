--------------------------- MODULE LeanHelixProof ---------------------------
(***************************************************************************)
(* Proofs about Lean Helix, for every committee, block, view and height:   *)
(* its types, and what a step of one node must do for AgreementInv to hold *)
(* after it, the part of the proof of Agreement that is the same for every *)
(* handler.                                                                *)
(***************************************************************************)
EXTENDS LeanHelixInvariant, FiniteSetTheorems, TLAPS

LogEntry == Header \cup ViewChange

Candidate == [block : Hash, hash : Hash]

-----------------------------------------------------------------------------
(* Types of messages, logs and proofs.                                     *)

\* A message of a PRE_PREPARE, PREPARE or COMMIT type is a header, one of the
\* other types is what its type says.
LEMMA MessageKinds ==
  ASSUME NEW m \in Message
  PROVE  /\ m.type \in {"PRE_PREPARE", "PREPARE", "COMMIT"} => m \in Header
         /\ m.type = "VIEW_CHANGE" => m \in ViewChange
         /\ m.type = "NEW_VIEW" => m \in NewView
  BY DEF Message, Header, ViewChange, NewView

\* The same for the entries of a log.
LEMMA EntryKinds ==
  ASSUME NEW m \in LogEntry
  PROVE  /\ m.type \in {"PRE_PREPARE", "PREPARE", "COMMIT"} => m \in Header
         /\ m.type = "VIEW_CHANGE" => m \in ViewChange
  BY DEF LogEntry, Header, ViewChange

\* Signing gives a header.
LEMMA MakeHeaderType ==
  ASSUME NEW type \in {"PRE_PREPARE", "PREPARE", "COMMIT"}, NEW n \in Node,
         NEW h \in Nat, NEW v \in Nat, NEW b \in Hash
  PROVE  MakeHeader(type, n, h, v, b) \in Header
  BY DEF MakeHeader, Header

\* Logging keeps a log a log.
LEMMA PutType ==
  ASSUME NEW L \in SUBSET LogEntry, NEW m \in LogEntry
  PROVE  Put(L, m) \in SUBSET LogEntry
  BY DEF Put

\* The logged messages of a header type are headers.
LEMMA OfType ==
  ASSUME NEW L \in SUBSET LogEntry, NEW v \in Nat,
         NEW type \in {"PRE_PREPARE", "PREPARE", "COMMIT"}
  PROVE  Of(L, type, v) \in SUBSET Header
  BY EntryKinds DEF Of

\* The hashes looked up in a log are hashes.
LEMMA LoggedHashType ==
  ASSUME NEW L \in SUBSET LogEntry, NEW v \in Nat
  PROVE  LoggedHashes(L, v) \subseteq Hash
<1>1. CASE Of(L, "PRE_PREPARE", v) = {}
  BY <1>1 DEF LoggedHashes, Hash
<1>2. CASE Of(L, "PRE_PREPARE", v) # {}
  <2>1. Of(L, "PRE_PREPARE", v) \subseteq Header
    BY OfType
  <2>. QED
    BY <2>1, <1>2 DEF LoggedHashes, Header
<1>. QED
  BY <1>1, <1>2

\* The leader of a view is a node of the committee.
LEMMA LeaderType ==
  ASSUME NEW v \in Nat
  PROVE  Leader(v) \in Node
  BY CommitteeAssumption DEF Leader

LEMMA NoProofType == NoProof \in Proof
  BY DEF NoProof, Proof, Hash

-----------------------------------------------------------------------------
(* Types kept by the tails of the handlers.                                *)

\* The part of the type invariant a tail is responsible for.
TailType ==
  /\ height' \in [Node -> Nat \ {0}]
  /\ view' \in [Node -> Nat]
  /\ log' \in [Node -> SUBSET LogEntry]
  /\ candidate' \in [Node -> Candidate]
  /\ chain' \in [Node -> Seq(Committed)]
  /\ panicked' \in SUBSET Node

\* Leaving the handler within the term keeps the types.
LEMMA StayInRoundType ==
  ASSUME TypeOK, NEW n \in Node, NEW L \in SUBSET LogEntry, NEW w \in Nat,
         NEW c \in Candidate, StayInRound(n, L, w, c)
  PROVE  TailType
  BY DEF TypeOK, StayInRound, TailType, LogEntry, Candidate

\* Storing a block keeps the types.
LEMMA CommitBlockType ==
  ASSUME TypeOK, NEW n \in Node, NEW h \in Nat, NEW blk \in Committed,
         CommitBlock(n, h, blk)
  PROVE  chain' \in [Node -> Seq(Committed)] /\ panicked' \in SUBSET Node
<1>1. Append(chain[n], blk) \in Seq(Committed)
  BY DEF TypeOK
<1>. QED
  BY <1>1 DEF TypeOK, CommitBlock

\* The next round starts with values of the right kinds.
LEMMA InitNextRoundType ==
  ASSUME TypeOK, NEW n \in Node, NEW h \in Nat, NEW c \in Candidate,
         InitNextRound(n, h, c)
  PROVE  /\ height' \in [Node -> Nat \ {0}]
         /\ view' \in [Node -> Nat]
         /\ log' \in [Node -> SUBSET LogEntry]
         /\ candidate' \in [Node -> Candidate]
         /\ preparedProof' \in [Node -> Proof]
<1>1. [c EXCEPT !.block = NoBlock] \in Candidate
  BY DEF Candidate, Hash
<1>. QED
  BY <1>1, NoProofType DEF TypeOK, InitNextRound, LogEntry, Candidate

\* Committing a block of the log keeps the types.
LEMMA OnCommittedLocallyType ==
  ASSUME TypeOK, NEW n \in Node, NEW L \in SUBSET LogEntry, NEW v \in Nat,
         NEW w \in Nat, NEW c \in Candidate, OnCommittedLocally(n, L, v, w, c)
  PROVE  TailType /\ preparedProof' \in [Node -> Proof]
<1>1. PICK b \in CommittedHashes(L, v) :
        /\ CommitBlock(n, height[n], [hash |-> b, view |-> w,
                                      commits |-> Of(L, "COMMIT", v)])
        /\ InitNextRound(n, height[n], c)
  BY DEF OnCommittedLocally
<1>2. [hash |-> b, view |-> w, commits |-> Of(L, "COMMIT", v)] \in Committed
  BY OfType DEF CommittedHashes, Committed
<1>3. height[n] \in Nat
  BY DEF TypeOK
<1>4. chain' \in [Node -> Seq(Committed)] /\ panicked' \in SUBSET Node
  BY <1>1, <1>2, <1>3, CommitBlockType
<1>. QED
  BY <1>1, <1>3, <1>4, InitNextRoundType DEF TailType

\* OnPrepared sends and stores messages and proofs of the right kinds.
LEMMA OnPreparedType ==
  ASSUME TypeOK, NEW n \in Node, NEW L \in SUBSET LogEntry, NEW v \in Nat,
         NEW w \in Nat, NEW c \in Candidate, NEW out \in SUBSET Header,
         OnPrepared(n, L, v, w, c, out)
  PROVE  /\ TailType
         /\ preparedProof' \in [Node -> Proof]
         /\ prepared' \in [Node -> BOOLEAN]
         /\ msgs' \in SUBSET Message
<1> DEFINE Prepares(b) == MakeHeader("COMMIT", n, height[n], w, b)
           proof == [height |-> height[n], view |-> w, hash |-> c.hash,
                     signatures |-> Of(L, "PRE_PREPARE", v)
                                      \cup Of(L, "PREPARE", v)]
<1>0. PICK b \in LoggedHashes(L, w) :
        /\ msgs' = msgs \cup out \cup {Prepares(b)}
        /\ prepared' = [prepared EXCEPT ![n] = TRUE]
        /\ IF IsCommitted(Put(L, Prepares(b)), v)
           THEN OnCommittedLocally(n, Put(L, Prepares(b)), v, w, c)
           ELSE /\ StayInRound(n, Put(L, Prepares(b)), w, c)
                /\ preparedProof' = [preparedProof EXCEPT ![n] = proof]
  BY DEF OnPrepared
<1> DEFINE commit == Prepares(b)
<1>1. height[n] \in Nat
  BY DEF TypeOK
<1>2. commit \in Header
  BY <1>1, LoggedHashType, MakeHeaderType
<1>3. proof \in Proof
  BY <1>1, OfType DEF Proof, Candidate
<1>4. Put(L, commit) \in SUBSET LogEntry
  BY <1>2, PutType DEF LogEntry
<1>5. msgs' \in SUBSET Message /\ prepared' \in [Node -> BOOLEAN]
  BY <1>0, <1>2 DEF TypeOK, Message
<1>6. CASE IsCommitted(Put(L, commit), v)
  <2>1. OnCommittedLocally(n, Put(L, commit), v, w, c)
    BY <1>0, <1>6
  <2>. QED
    BY <2>1, <1>4, <1>5, OnCommittedLocallyType
<1>7. CASE ~IsCommitted(Put(L, commit), v)
  <2>1. /\ StayInRound(n, Put(L, commit), w, c)
        /\ preparedProof' = [preparedProof EXCEPT ![n] = proof]
    BY <1>0, <1>7
  <2>2. preparedProof' \in [Node -> Proof]
    BY <2>1, <1>3 DEF TypeOK
  <2>. QED
    BY <2>1, <2>2, <1>4, <1>5, StayInRoundType
<1>. QED
  BY <1>6, <1>7

\* "Check if Prepared" keeps the types on both branches.
LEMMA CheckIfPreparedType ==
  ASSUME TypeOK, NEW n \in Node, NEW L \in SUBSET LogEntry, NEW v \in Nat,
         NEW w \in Nat, NEW c \in Candidate, NEW out \in SUBSET Header,
         CheckIfPrepared(n, L, v, w, c, out),
         UNCHANGED <<newViewTriggered, validated>>
  PROVE  TypeOK'
<1>1. CASE IsPrepared(L, v)
  <2>1. OnPrepared(n, L, v, w, c, out)
    BY <1>1 DEF CheckIfPrepared
  <2>. QED
    BY <2>1, OnPreparedType DEF TypeOK, TailType, LogEntry, Candidate
<1>2. CASE ~IsPrepared(L, v)
  <2>1. /\ msgs' = msgs \cup out
        /\ StayInRound(n, L, w, c)
        /\ UNCHANGED <<prepared, preparedProof>>
    BY <1>2 DEF CheckIfPrepared
  <2>2. msgs' \in SUBSET Message
    BY <2>1 DEF TypeOK, Message
  <2>3. TailType
    BY <2>1, StayInRoundType
  <2>. QED
    BY <2>1, <2>2, <2>3 DEF TypeOK, TailType, LogEntry, Candidate
<1>. QED
  BY <1>1, <1>2

\* Accepting a PRE_PREPARE keeps the types.
LEMMA AcceptPrePrepareType ==
  ASSUME TypeOK, NEW n \in Node, NEW pp \in Header, NEW w \in Nat,
         AcceptPrePrepare(n, pp, w), UNCHANGED <<newViewTriggered, validated>>
  PROVE  TypeOK'
<1> DEFINE prepare == MakeHeader("PREPARE", n, height[n], w, pp.hash)
<1>1. height[n] \in Nat /\ log[n] \in SUBSET LogEntry
  BY DEF TypeOK, LogEntry
<1>2. pp.view \in Nat /\ pp.hash \in Hash
  BY DEF Header
<1>3. prepare \in Header
  BY <1>1, <1>2, MakeHeaderType
<1>4. Put(Put(log[n], pp), prepare) \in SUBSET LogEntry
  BY <1>1, <1>3, PutType DEF LogEntry
<1>5. [block |-> pp.hash, hash |-> pp.hash] \in Candidate
  BY <1>2 DEF Candidate
<1>6. CheckIfPrepared(n, Put(Put(log[n], pp), prepare), pp.view, w,
                      [block |-> pp.hash, hash |-> pp.hash], {prepare})
  BY DEF AcceptPrePrepare
<1>. QED
  BY <1>2, <1>3, <1>4, <1>5, <1>6, CheckIfPreparedType

\* Starting a view keeps the types.
LEMMA LocalNewViewType ==
  ASSUME TypeOK, NEW n \in Node, NEW L \in SUBSET LogEntry, NEW v \in Nat,
         LocalNewView(n, L, v), UNCHANGED validated
  PROVE  TypeOK'
<1> DEFINE changes == Of(L, "VIEW_CHANGE", v)
           candidates == UNION {IF m.proof = NoProof
                                THEN {[block |-> b, hash |-> b] : b \in Block}
                                ELSE {[block |-> m.block,
                                       hash |-> m.proof.hash]} :
                                  m \in Highest(changes)}
           proof == {[m EXCEPT !.block = NoBlock] : m \in changes}
<1>1. changes \in SUBSET ViewChange
  BY EntryKinds DEF Of
<1>2. PICK c \in candidates :
        LET pp == MakeHeader("PRE_PREPARE", n, height[n], v, c.hash)
        IN /\ view' = [view EXCEPT ![n] = v]
           /\ newViewTriggered' = [newViewTriggered EXCEPT ![n] = TRUE]
           /\ candidate' = [candidate EXCEPT ![n] = c]
           /\ log' = [log EXCEPT ![n] = Put(L, pp)]
           /\ msgs' = msgs \cup
                {[type |-> "NEW_VIEW", height |-> height[n], view |-> v,
                  sender |-> n, proof |-> proof, pp |-> pp, block |-> c.block]}
           /\ UNCHANGED <<height, prepared, preparedProof, chain, panicked>>
  BY DEF LocalNewView
<1> DEFINE pp == MakeHeader("PRE_PREPARE", n, height[n], v, c.hash)
           nv == [type |-> "NEW_VIEW", height |-> height[n], view |-> v,
                  sender |-> n, proof |-> proof, pp |-> pp, block |-> c.block]
<1>3. c \in Candidate
  <2>1. PICK m \in Highest(changes) :
          c \in IF m.proof = NoProof
                THEN {[block |-> b, hash |-> b] : b \in Block}
                ELSE {[block |-> m.block, hash |-> m.proof.hash]}
    OBVIOUS
  <2>2. m \in ViewChange
    BY <2>1, <1>1 DEF Highest
  <2>. QED
    BY <2>1, <2>2 DEF ViewChange, Proof, Candidate, Hash
<1>4. height[n] \in Nat
  BY DEF TypeOK
<1>5. pp \in Header
  BY <1>3, <1>4, MakeHeaderType DEF Candidate
<1>6. proof \in SUBSET ViewChange
  BY <1>1 DEF ViewChange, Hash
<1>7. nv \in NewView
  BY <1>3, <1>4, <1>5, <1>6 DEF NewView, Candidate
<1>8. Put(L, pp) \in SUBSET LogEntry
  BY <1>5, PutType DEF LogEntry
<1>. QED
  BY <1>2, <1>3, <1>5, <1>7, <1>8 DEF TypeOK, Message, LogEntry, Candidate

-----------------------------------------------------------------------------
(* Every handler keeps the type invariant.                                 *)

LEMMA InitType == Init => TypeOK
<1> SUFFICES ASSUME Init PROVE TypeOK
  OBVIOUS
<1>1. NoCandidate \in [block : Hash, hash : Hash]
  BY DEF NoCandidate, Hash
<1>2. <<>> \in Seq(Committed)
  OBVIOUS
<1>. QED
  BY <1>1, <1>2, NoProofType DEF Init, TypeOK

LEMMA ProposeBlockType ==
  ASSUME TypeOK, NEW n \in Node, ProposeBlock(n)
  PROVE  TypeOK'
<1>1. PICK b \in Block :
        LET pp == MakeHeader("PRE_PREPARE", n, height[n], view[n], b)
        IN /\ msgs' = msgs \cup {pp}
           /\ log' = [log EXCEPT ![n] = Put(@, pp)]
           /\ candidate' = [candidate EXCEPT ![n] = [block |-> b, hash |-> b]]
  BY DEF ProposeBlock
<1> DEFINE pp == MakeHeader("PRE_PREPARE", n, height[n], view[n], b)
<1>2. height[n] \in Nat /\ view[n] \in Nat /\ log[n] \in SUBSET LogEntry
  BY DEF TypeOK, LogEntry
<1>3. pp \in Header
  BY <1>2, MakeHeaderType DEF Hash
<1>4. Put(log[n], pp) \in SUBSET LogEntry
  BY <1>2, <1>3, PutType DEF LogEntry
<1>5. UNCHANGED <<height, view, prepared, preparedProof, newViewTriggered,
                  chain, panicked, validated>>
  BY DEF ProposeBlock
<1>. QED
  BY <1>1, <1>3, <1>4, <1>5 DEF TypeOK, Message, LogEntry, Hash

LEMMA OnPrePrepareReceivedType ==
  ASSUME TypeOK, NEW n \in Node, OnPrePrepareReceived(n)
  PROVE  TypeOK'
<1>1. PICK m \in msgs : /\ m.type = "PRE_PREPARE"
                        /\ AcceptPrePrepare(n, m, view[n])
                        /\ UNCHANGED <<newViewTriggered, validated>>
  BY DEF OnPrePrepareReceived
<1>2. m \in Header /\ view[n] \in Nat
  BY <1>1, MessageKinds DEF TypeOK
<1>. QED
  BY <1>1, <1>2, AcceptPrePrepareType

LEMMA OnPrepareReceivedType ==
  ASSUME TypeOK, NEW n \in Node, OnPrepareReceived(n)
  PROVE  TypeOK'
<1>1. PICK m \in msgs :
        /\ m.type = "PREPARE"
        /\ CheckIfPrepared(n, Put(log[n], m), m.view, view[n], candidate[n], {})
        /\ UNCHANGED <<newViewTriggered, validated>>
  BY DEF OnPrepareReceived
<1>2. m \in Header
  BY <1>1, MessageKinds DEF TypeOK
<1>3. /\ view[n] \in Nat
      /\ log[n] \in SUBSET LogEntry
      /\ candidate[n] \in Candidate
  BY DEF TypeOK, LogEntry, Candidate
<1>4. m.view \in Nat
  BY <1>2 DEF Header
<1>5. Put(log[n], m) \in SUBSET LogEntry
  BY <1>2, <1>3, PutType DEF LogEntry
<1>. QED
  BY <1>1, <1>3, <1>4, <1>5, CheckIfPreparedType

LEMMA OnCommitReceivedType ==
  ASSUME TypeOK, NEW n \in Node, OnCommitReceived(n)
  PROVE  TypeOK'
<1>1. PICK m \in msgs :
        /\ m.type = "COMMIT"
        /\ LET L == Put(log[n], m)
           IN IF IsCommitted(L, m.view)
              THEN OnCommittedLocally(n, L, m.view, view[n], candidate[n])
              ELSE /\ StayInRound(n, L, view[n], candidate[n])
                   /\ UNCHANGED preparedProof
        /\ UNCHANGED <<prepared, newViewTriggered, validated, msgs>>
  BY DEF OnCommitReceived
<1> DEFINE L == Put(log[n], m)
<1>2. m \in Header
  BY <1>1, MessageKinds DEF TypeOK
<1>3. /\ view[n] \in Nat
      /\ log[n] \in SUBSET LogEntry
      /\ candidate[n] \in Candidate
  BY DEF TypeOK, LogEntry, Candidate
<1>4. m.view \in Nat
  BY <1>2 DEF Header
<1>5. L \in SUBSET LogEntry
  BY <1>2, <1>3, PutType DEF LogEntry
<1>6. TailType /\ preparedProof' \in [Node -> Proof]
  <2>1. CASE IsCommitted(L, m.view)
    <3>1. OnCommittedLocally(n, L, m.view, view[n], candidate[n])
      BY <1>1, <2>1
    <3>. QED
      BY <3>1, <1>3, <1>4, <1>5, OnCommittedLocallyType
  <2>2. CASE ~IsCommitted(L, m.view)
    <3>1. StayInRound(n, L, view[n], candidate[n]) /\ UNCHANGED preparedProof
      BY <1>1, <2>2
    <3>2. TailType
      BY <3>1, <1>3, <1>5, StayInRoundType
    <3>. QED
      BY <3>1, <3>2 DEF TypeOK
  <2>. QED
    BY <2>1, <2>2
<1>. QED
  BY <1>1, <1>6 DEF TypeOK, TailType, LogEntry, Candidate

LEMMA OnTimeOutType ==
  ASSUME TypeOK, NEW n \in Node, OnTimeOut(n)
  PROVE  TypeOK'
<1> DEFINE v == view[n] + 1
           change == [type |-> "VIEW_CHANGE", height |-> height[n], view |-> v,
                      sender |-> n, proof |-> ChangeProof(n),
                      block |-> IF prepared[n] THEN candidate[n].block
                                               ELSE NoBlock]
<1>1. /\ v \in Nat
      /\ height[n] \in Nat
      /\ candidate[n].block \in Hash
      /\ log[n] \in SUBSET LogEntry
  BY DEF TypeOK, LogEntry
<1>2. ChangeProof(n) \in Proof
  BY NoProofType DEF TypeOK, ChangeProof
<1>3. change \in ViewChange
  BY <1>1, <1>2 DEF ViewChange, Hash
<1>4. Put(log[n], change) \in SUBSET LogEntry
  BY <1>1, <1>3, PutType DEF LogEntry
<1>5. /\ view' = [view EXCEPT ![n] = v]
      /\ log' = [log EXCEPT ![n] = Put(@, change)]
      /\ msgs' = IF n = Leader(v) THEN msgs ELSE msgs \cup {change}
      /\ newViewTriggered' = [newViewTriggered EXCEPT ![n] = FALSE]
      /\ UNCHANGED <<height, candidate, prepared, preparedProof, chain,
                     panicked, validated>>
  BY DEF OnTimeOut
<1>6. msgs' \in SUBSET Message
  BY <1>3, <1>5 DEF TypeOK, Message
<1>. QED
  BY <1>1, <1>4, <1>5, <1>6 DEF TypeOK, LogEntry

LEMMA OnViewChangeReceivedType ==
  ASSUME TypeOK, NEW n \in Node, OnViewChangeReceived(n)
  PROVE  TypeOK'
<1>1. PICK m \in msgs :
        /\ m.type = "VIEW_CHANGE"
        /\ LET L == Put(log[n], m)
           IN IF StartsNewView(n, L, m.view)
              THEN LocalNewView(n, L, m.view)
              ELSE /\ log' = [log EXCEPT ![n] = L]
                   /\ UNCHANGED <<height, view, candidate, prepared,
                                  preparedProof, newViewTriggered, chain,
                                  panicked, msgs>>
        /\ UNCHANGED validated
  BY DEF OnViewChangeReceived
<1> DEFINE L == Put(log[n], m)
<1>2. m \in ViewChange
  BY <1>1, MessageKinds DEF TypeOK
<1>3. m.view \in Nat
  BY <1>2 DEF ViewChange
<1>4. L \in SUBSET LogEntry
  BY <1>2, PutType DEF TypeOK, LogEntry
<1>5. CASE StartsNewView(n, L, m.view)
  <2>1. LocalNewView(n, L, m.view)
    BY <1>1, <1>5
  <2>. QED
    BY <2>1, <1>1, <1>3, <1>4, LocalNewViewType
<1>6. CASE ~StartsNewView(n, L, m.view)
  BY <1>1, <1>4, <1>6 DEF TypeOK, LogEntry
<1>. QED
  BY <1>5, <1>6

LEMMA OnNewViewReceivedType ==
  ASSUME TypeOK, NEW n \in Node, OnNewViewReceived(n)
  PROVE  TypeOK'
<1>1. PICK m \in msgs : /\ m.type = "NEW_VIEW"
                        /\ AcceptPrePrepare(n, m.pp, m.view)
                        /\ UNCHANGED <<newViewTriggered, validated>>
  BY DEF OnNewViewReceived
<1>2. m \in NewView
  BY <1>1, MessageKinds DEF TypeOK
<1>3. m.pp \in Header /\ m.view \in Nat
  BY <1>2 DEF NewView
<1>. QED
  BY <1>1, <1>3, AcceptPrePrepareType

LEMMA ValidateBlockForCommitType ==
  ASSUME TypeOK, NEW n \in Node, NEW p \in Node, ValidateBlockForCommit(n, p)
  PROVE  TypeOK'
<1> DEFINE h == Len(chain[n]) + 1
           blk == chain[p][h]
<1>1. /\ Len(chain[p]) > Len(chain[n])
      /\ Acknowledge(n, h)
      /\ validated' = [validated EXCEPT ![n] = {[height |-> h, block |-> blk]}]
      /\ UNCHANGED <<prepared, newViewTriggered, chain, panicked, msgs>>
  BY DEF ValidateBlockForCommit
<1>2. chain[n] \in Seq(Committed) /\ chain[p] \in Seq(Committed)
  BY DEF TypeOK
<1>3. h \in Nat \ {0} /\ blk \in Committed
  BY <1>1, <1>2
<1>4. validated' \in [Node -> SUBSET Validated]
  BY <1>1, <1>3 DEF TypeOK, Validated
<1>5. candidate[n] \in Candidate
  BY DEF TypeOK, Candidate
<1>6. CASE h <= height[n]
  BY <1>1, <1>4, <1>6 DEF TypeOK, Acknowledge
<1>7. CASE ~(h <= height[n])
  <2>1. InitNextRound(n, h, candidate[n])
    BY <1>1, <1>7 DEF Acknowledge
  <2>. QED
    BY <2>1, <1>1, <1>3, <1>4, <1>5, InitNextRoundType
       DEF TypeOK, LogEntry, Candidate
<1>. QED
  BY <1>6, <1>7

LEMMA CommitSyncedBlockType ==
  ASSUME TypeOK, NEW n \in Node, CommitSyncedBlock(n)
  PROVE  TypeOK'
<1>1. PICK s \in validated[n] : CommitBlock(n, s.height, s.block)
  BY DEF CommitSyncedBlock
<1>2. s \in Validated
  BY DEF TypeOK
<1>3. chain' \in [Node -> Seq(Committed)] /\ panicked' \in SUBSET Node
  BY <1>1, <1>2, CommitBlockType DEF Validated
<1>. QED
  BY <1>3 DEF CommitSyncedBlock, TypeOK

LEMMA RestartType ==
  ASSUME TypeOK, NEW n \in Node, Restart(n)
  PROVE  TypeOK'
  BY DEF TypeOK, Restart

\* A step of any of the specifications keeps the types.
LEMMA StepType == TypeOK /\ [RestartNext]_vars => TypeOK'
<1> SUFFICES ASSUME TypeOK, [RestartNext]_vars PROVE TypeOK'
  OBVIOUS
<1> USE QuorumAssumption
<1>1. ASSUME NEW n \in Live, OnPrePrepareReceived(n) PROVE TypeOK'
  BY <1>1, OnPrePrepareReceivedType
<1>2. ASSUME NEW n \in Live, ProposeBlock(n) PROVE TypeOK'
  BY <1>2, ProposeBlockType
<1>3. ASSUME NEW n \in Live, OnPrepareReceived(n) PROVE TypeOK'
  BY <1>3, OnPrepareReceivedType
<1>4. ASSUME NEW n \in Live, OnCommitReceived(n) PROVE TypeOK'
  BY <1>4, OnCommitReceivedType
<1>5. ASSUME NEW n \in Live, OnViewChangeReceived(n) PROVE TypeOK'
  BY <1>5, OnViewChangeReceivedType
<1>6. ASSUME NEW n \in Live, OnNewViewReceived(n) PROVE TypeOK'
  BY <1>6, OnNewViewReceivedType
<1>7. ASSUME NEW n \in Live, OnTimeOut(n) PROVE TypeOK'
  BY <1>7, OnTimeOutType
<1>8. ASSUME NEW n \in Live, NEW p \in Live, ValidateBlockForCommit(n, p)
      PROVE  TypeOK'
  BY <1>8, ValidateBlockForCommitType
<1>11. ASSUME NEW n \in Live, CommitSyncedBlock(n) PROVE TypeOK'
  BY <1>11, CommitSyncedBlockType
<1>9. ASSUME NEW n \in Live, Restart(n) PROVE TypeOK'
  BY <1>9, RestartType
<1>10. CASE UNCHANGED vars
  BY <1>10 DEF TypeOK, vars
<1>. QED
  BY <1>1, <1>2, <1>3, <1>4, <1>5, <1>6, <1>7, <1>8, <1>9, <1>10, <1>11
     DEF RestartNext, Next, Proposing, OtherStep

\* Type correctness of the algorithm with crashes and restarts: whatever is
\* lost, late or restarted, the state of lean-helix.md keeps its kinds.
THEOREM RestartTypeCorrect == RestartSpec => []TypeOK
  BY InitType, StepType, PTL DEF RestartSpec

\* Type correctness without restarts.
THEOREM TypeCorrect == Spec => []TypeOK
<1>1. TypeOK /\ [Next]_vars => TypeOK'
  BY StepType DEF RestartNext
<1>. QED
  BY <1>1, InitType, PTL DEF Spec

\* Type correctness when PRE_PREPAREs are timely.
THEOREM TimelyTypeCorrect == TimelySpec => []TypeOK
<1>1. TypeOK /\ [TimelyNext]_vars => TypeOK'
  BY StepType DEF RestartNext, Next, Proposing, TimelyNext, TimelyProposing
<1>. QED
  BY <1>1, InitType, PTL DEF TimelySpec

-----------------------------------------------------------------------------
(* What a step of node n may do to the invariant's parts.                  *)

OthersKeep(n) ==
  \A a \in Node \ {n} :
    /\ height'[a] = height[a]
    /\ view'[a] = view[a]
    /\ log'[a] = log[a]
    /\ prepared'[a] = prepared[a]
    /\ preparedProof'[a] = preparedProof[a]
    /\ newViewTriggered'[a] = newViewTriggered[a]
    /\ chain'[a] = chain[a]

Continues(n) ==
  /\ height'[n] = height[n]
  /\ view'[n] >= view[n]
  /\ prepared[n] => prepared'[n]
  /\ preparedProof'[n].view >= preparedProof[n].view
  /\ Logged(log[n], "PRE_PREPARE", 0, n) => Logged(log'[n], "PRE_PREPARE", 0, n)
  /\ newViewTriggered[n] /\ view'[n] = view[n] => newViewTriggered'[n]

Advances(n) == height'[n] > height[n] \/ Continues(n)

Signs(n) ==
  /\ msgs \subseteq msgs'
  /\ \A m \in msgs' \ msgs : /\ m.sender = n
                             /\ m.height = height[n]
                             /\ m.type = "COMMIT" => m.view >= view[n]

\* What the three say about all nodes.
Grows ==
  /\ msgs \subseteq msgs'
  /\ \A a \in Node : \/ height'[a] > height[a]
                     \/ height'[a] = height[a] /\ view'[a] >= view[a]
  /\ \A m \in msgs' \ msgs :
       m.type = "COMMIT" => /\ m.height = height[m.sender]
                            /\ m.view >= view[m.sender]

LEMMA GrowsFrom ==
  ASSUME TypeOK, TypeOK', NEW n \in Node,
         OthersKeep(n), Advances(n), Signs(n)
  PROVE  Grows
<1>1. \A a \in Node : \/ height'[a] > height[a]
                      \/ height'[a] = height[a] /\ view'[a] >= view[a]
  BY DEF OthersKeep, Advances, Continues, TypeOK
<1>2. ASSUME NEW m \in msgs' \ msgs, m.type = "COMMIT"
      PROVE  m.height = height[m.sender] /\ m.view >= view[m.sender]
  <2>1. m.sender = n /\ m.height = height[n] /\ m.view >= view[n]
    BY <1>2 DEF Signs
  <2>. QED
    BY <2>1
<1>. QED
  BY <1>1, <1>2 DEF Signs, Grows

\* A node never leaves a view it has reached.
LEMMA ReachedStable ==
  ASSUME TypeOK, TypeOK', Grows, NEW a \in Node, NEW h \in Int, NEW v \in Int,
         Reached(a, h, v)
  PROVE  Reached(a, h, v)'
<1>1. /\ height[a] \in Int /\ height'[a] \in Int
      /\ view[a] \in Int /\ view'[a] \in Int
  BY DEF TypeOK
<1>. QED
  BY <1>1 DEF Grows, Reached

\* A vote not given by a node that has left the view is never given.
LEMMA NoOtherVoteStable ==
  ASSUME TypeOK, TypeOK', Grows, NEW a \in Node, NEW h \in Int, NEW v \in Int,
         NEW b, NoOtherVote(a, h, v, b)
  PROVE  NoOtherVote(a, h, v, b)'
<1>1. Reached(a, h, v + 1)'
  BY ReachedStable DEF NoOtherVote
<1>2. ASSUME NEW m \in msgs', m.type = "COMMIT", m.sender = a, m.height = h,
             m.view = v
      PROVE  m.hash = b
  <2>1. CASE m \in msgs
    BY <1>2, <2>1 DEF NoOtherVote
  <2>2. CASE m \notin msgs
    <3>1. height[a] = h /\ v >= view[a]
      BY <1>2, <2>2 DEF Grows
    <3>2. view[a] >= v + 1
      BY <3>1 DEF NoOtherVote, Reached, TypeOK
    <3>. QED
      BY <3>1, <3>2 DEF TypeOK
  <2>. QED
    BY <2>1, <2>2
<1>. QED
  BY <1>1, <1>2 DEF NoOtherVote

\* What is safe stays safe.
LEMMA SafeAtStable ==
  ASSUME TypeOK, TypeOK', Grows, NEW h \in Int, NEW v \in Int, NEW b,
         SafeAt(h, v, b)
  PROVE  SafeAt(h, v, b)'
<1> SUFFICES ASSUME NEW c \in 0 .. (v - 1)
             PROVE  \E Q \in SUBSET Node :
                      /\ Cardinality(Q) >= 2 * F + 1
                      /\ \A a \in Q : NoOtherVote(a, h, c, b)'
  BY DEF SafeAt
<1>1. PICK Q \in SUBSET Node : /\ Cardinality(Q) >= 2 * F + 1
                               /\ \A a \in Q : NoOtherVote(a, h, c, b)
  BY DEF SafeAt
<1>2. \A a \in Q : NoOtherVote(a, h, c, b)'
  BY <1>1, NoOtherVoteStable
<1>. QED
  BY <1>1, <1>2

LEMMA ChangeOKStable ==
  ASSUME TypeOK, TypeOK', Grows, NEW x \in ViewChange, ChangeOK(x)
  PROVE  ChangeOK(x)'
<1>1. x.sender \in Node /\ x.height \in Nat /\ x.view \in Nat
  BY DEF ViewChange
<1>2. Reached(x.sender, x.height, x.view)'
  BY <1>1, ReachedStable DEF ChangeOK
<1>3. ProofSent(x.proof)'
  BY DEF ChangeOK, ProofSent, Grows
<1>4. ASSUME NEW c \in msgs', c.type = "COMMIT", c.sender = x.sender,
             c.height = x.height, c.view < x.view
      PROVE  x.proof.view >= c.view
  <2>1. CASE c \in msgs
    BY <1>4, <2>1 DEF ChangeOK
  <2>2. CASE c \notin msgs
    <3>1. height[x.sender] = x.height /\ c.view >= view[x.sender]
      BY <1>4, <2>2 DEF Grows
    <3>2. view[x.sender] >= x.view
      BY <1>1, <3>1 DEF ChangeOK, Reached, TypeOK
    <3>3. c \in Header
      BY <1>4, MessageKinds DEF TypeOK
    <3>4. c.view \in Nat
      BY <3>3 DEF Header
    <3>. QED
      BY <1>1, <1>4, <3>1, <3>2, <3>4 DEF TypeOK
  <2>. QED
    BY <2>1, <2>2
<1>. QED
  BY <1>2, <1>3, <1>4 DEF ChangeOK

LEMMA ProposalsGrow ==
  ASSUME msgs \subseteq msgs', NEW h, NEW v
  PROVE  Proposals(h, v) \subseteq Proposals(h, v)'
  BY DEF Proposals

-----------------------------------------------------------------------------
(* Quorums and proposals.                                                  *)

\* What is chosen stays chosen.
LEMMA ChosenStable ==
  ASSUME TypeOK', msgs \subseteq msgs', NEW h, NEW v, NEW b, Chosen(h, v, b)
  PROVE  Chosen(h, v, b)'
<1>1. SendersOf("COMMIT", h, v, b) \subseteq SendersOf("COMMIT", h, v, b)'
  BY DEF SendersOf, Senders
<1>2. SendersOf("COMMIT", h, v, b)' \subseteq Node
  BY MessageKinds DEF TypeOK, SendersOf, Senders, Header
<1>3. IsFiniteSet(SendersOf("COMMIT", h, v, b)')
  BY <1>2, FS_Subset, QuorumAssumption
<1>4. /\ Cardinality(SendersOf("COMMIT", h, v, b))
           <= Cardinality(SendersOf("COMMIT", h, v, b)')
      /\ Cardinality(SendersOf("COMMIT", h, v, b)) \in Nat
      /\ Cardinality(SendersOf("COMMIT", h, v, b)') \in Nat
  BY <1>1, <1>3, FS_Subset, FS_CardinalityType
<1>. QED
  BY <1>4, QuorumAssumption DEF Chosen

\* A view of a term has one proposal.
LEMMA UniqueProposal ==
  ASSUME ProposalInv, NEW h, NEW v, NEW b \in Proposals(h, v),
         NEW d \in Proposals(h, v)
  PROVE  b = d
<1>1. \E m \in msgs : /\ m.type \in {"PRE_PREPARE", "NEW_VIEW"}
                      /\ m.height = h
                      /\ m.view = v
  BY DEF Proposals
<1>. QED
  BY <1>1 DEF ProposalInv

-----------------------------------------------------------------------------
(* The parts of AgreementInv after a step of node n.                          *)

LEMMA LogStep ==
  ASSUME TypeOK, TypeOK', LogInv, Grows, NEW n \in Node, OthersKeep(n),
         \A m \in log'[n] : EntryOK(n, m)'
  PROVE  LogInv'
<1> SUFFICES ASSUME NEW a \in Node, NEW m \in log'[a]
             PROVE  EntryOK(a, m)'
  BY DEF LogInv
<1>1. CASE a = n
  BY <1>1
<1>2. CASE a # n
  <2>1. height'[a] = height[a] /\ view'[a] = view[a] /\ m \in log[a]
    BY <1>2 DEF OthersKeep
  <2>2. EntryOK(a, m)
    BY <2>1 DEF LogInv
  <2>3. m.height = height'[a]
    BY <2>1, <2>2 DEF EntryOK
  <2>4. m.type \in {"PREPARE", "COMMIT"} => m \in msgs'
    BY <2>2 DEF EntryOK, Grows
  <2>5. m.type = "PRE_PREPARE" => /\ m.hash \in Proposals(m.height, m.view)'
                                  /\ m.view <= view'[a]
    BY <2>1, <2>2, ProposalsGrow DEF EntryOK, Grows
  <2>6. ASSUME m.type = "VIEW_CHANGE" PROVE ChangeOK(m)'
    <3>1. m \in ViewChange
      BY <2>1, <2>6, EntryKinds DEF TypeOK, LogEntry
    <3>. QED
      BY <2>2, <2>6, <3>1, ChangeOKStable DEF EntryOK
  <2>. QED
    BY <2>3, <2>4, <2>5, <2>6 DEF EntryOK
<1>. QED
  BY <1>1, <1>2

LEMMA ChangeStep ==
  ASSUME TypeOK, TypeOK', ChangeInv, Grows,
         \A m \in msgs' \ msgs :
           /\ m.type = "VIEW_CHANGE" => ChangeOK(m)'
           /\ m.type = "NEW_VIEW" => \A x \in m.proof : ChangeOK(x)'
  PROVE  ChangeInv'
<1> SUFFICES ASSUME NEW m \in msgs'
             PROVE  /\ m.type = "VIEW_CHANGE" => ChangeOK(m)'
                    /\ m.type = "NEW_VIEW" => \A x \in m.proof : ChangeOK(x)'
  BY DEF ChangeInv
<1>1. CASE m \in msgs
  <2>1. ASSUME m.type = "VIEW_CHANGE" PROVE ChangeOK(m)'
    <3>1. m \in ViewChange
      BY <1>1, <2>1, MessageKinds DEF TypeOK
    <3>. QED
      BY <1>1, <2>1, <3>1, ChangeOKStable DEF ChangeInv
  <2>2. ASSUME m.type = "NEW_VIEW", NEW x \in m.proof PROVE ChangeOK(x)'
    <3>1. m \in NewView
      BY <1>1, <2>2, MessageKinds DEF TypeOK
    <3>2. x \in ViewChange
      BY <2>2, <3>1 DEF NewView
    <3>. QED
      BY <1>1, <2>2, <3>2, ChangeOKStable DEF ChangeInv
  <2>. QED
    BY <2>1, <2>2
<1>2. CASE m \notin msgs
  BY <1>2
<1>. QED
  BY <1>1, <1>2

LEMMA ProposerStep ==
  ASSUME TypeOK, TypeOK', ProposerInv, Grows, NEW n \in Node, OthersKeep(n),
         Advances(n), \A m \in msgs' \ msgs : ProposerOK(m)'
  PROVE  ProposerInv'
<1> SUFFICES ASSUME NEW m \in msgs, ProposerOK(m)
             PROVE  ProposerOK(m)'
  BY DEF ProposerInv
<1>1. m.type \in {"PRE_PREPARE", "NEW_VIEW"} =>
        m.sender \in Node /\ m.height \in Nat /\ m.view \in Nat
  BY MessageKinds DEF TypeOK, Header, NewView
<1>2. \/ height'[m.sender] > height[m.sender]
      \/ height'[m.sender] = height[m.sender]
         /\ (Logged(log[m.sender], "PRE_PREPARE", 0, m.sender)
                => Logged(log'[m.sender], "PRE_PREPARE", 0, m.sender))
         /\ view'[m.sender] >= view[m.sender]
         /\ (newViewTriggered[m.sender] /\ view'[m.sender] = view[m.sender]
                => newViewTriggered'[m.sender])
      \/ m.sender \notin Node
  <2>1. CASE m.sender \in Node \ {n}
    BY <2>1 DEF OthersKeep, TypeOK
  <2>2. CASE m.sender = n
    BY <2>2 DEF Advances, Continues
  <2>. QED
    BY <2>1, <2>2
<1>3. ASSUME m.type = "PRE_PREPARE"
      PROVE  \/ height'[m.sender] > m.height
             \/ /\ height'[m.sender] = m.height
                /\ Logged(log'[m.sender], "PRE_PREPARE", 0, m.sender)
  BY <1>1, <1>2, <1>3 DEF ProposerOK, TypeOK
<1>4. ASSUME m.type = "NEW_VIEW"
      PROVE  \/ Reached(m.sender, m.height, m.view + 1)'
             \/ /\ height'[m.sender] = m.height
                /\ view'[m.sender] = m.view
                /\ newViewTriggered'[m.sender]
  <2>1. m.sender \in Node /\ m.height \in Nat /\ m.view \in Nat
    BY <1>1, <1>4
  <2>2. CASE Reached(m.sender, m.height, m.view + 1)
    BY <2>1, <2>2, ReachedStable
  <2>3. CASE /\ height[m.sender] = m.height
             /\ view[m.sender] = m.view
             /\ newViewTriggered[m.sender]
    BY <1>2, <2>1, <2>3 DEF Reached, TypeOK
  <2>. QED
    BY <1>4, <2>2, <2>3 DEF ProposerOK
<1>. QED
  BY <1>3, <1>4 DEF ProposerOK

LEMMA ProposalStep ==
  ASSUME ProposalInv, msgs \subseteq msgs',
         \A m \in msgs' \ msgs :
           m.type \in {"PRE_PREPARE", "NEW_VIEW"} =>
             \A b, d \in Proposals(m.height, m.view)' : b = d
  PROVE  ProposalInv'
<1> SUFFICES ASSUME NEW m \in msgs', m.type \in {"PRE_PREPARE", "NEW_VIEW"},
                    NEW b \in Proposals(m.height, m.view)',
                    NEW d \in Proposals(m.height, m.view)'
             PROVE  b = d
  BY DEF ProposalInv
<1>1. CASE \E x \in msgs' \ msgs : /\ x.type \in {"PRE_PREPARE", "NEW_VIEW"}
                                   /\ x.height = m.height
                                   /\ x.view = m.view
  BY <1>1
<1>2. CASE ~\E x \in msgs' \ msgs : /\ x.type \in {"PRE_PREPARE", "NEW_VIEW"}
                                    /\ x.height = m.height
                                    /\ x.view = m.view
  <2>1. m \in msgs
    BY <1>2
  <2>2. Proposals(m.height, m.view)' \subseteq Proposals(m.height, m.view)
    BY <1>2 DEF Proposals
  <2>. QED
    BY <2>1, <2>2 DEF ProposalInv
<1>. QED
  BY <1>1, <1>2

LEMMA PrepareStep ==
  ASSUME TypeOK, TypeOK', PrepareInv, Grows,
         \A m \in msgs' \ msgs :
           m.type = "PREPARE" => /\ m.hash \in Proposals(m.height, m.view)'
                                 /\ SafeAt(m.height, m.view, m.hash)'
  PROVE  PrepareInv'
<1> SUFFICES ASSUME NEW m \in msgs, m.type = "PREPARE"
             PROVE  /\ m.hash \in Proposals(m.height, m.view)'
                    /\ SafeAt(m.height, m.view, m.hash)'
  BY DEF PrepareInv
<1>1. m.hash \in Proposals(m.height, m.view) /\ SafeAt(m.height, m.view, m.hash)
  BY DEF PrepareInv
<1>2. m.height \in Int /\ m.view \in Int
  BY MessageKinds DEF TypeOK, Header
<1>. QED
  BY <1>1, <1>2, SafeAtStable, ProposalsGrow DEF Grows

LEMMA CommitStep ==
  ASSUME TypeOK, TypeOK', CommitInv, Grows, NEW n \in Node, OthersKeep(n),
         Advances(n), \A m \in msgs' \ msgs : m.type = "COMMIT" => CommitOK(m)'
  PROVE  CommitInv'
<1> SUFFICES ASSUME NEW m \in msgs, m.type = "COMMIT"
             PROVE  CommitOK(m)'
  BY DEF CommitInv
<1>1. CommitOK(m)
  BY DEF CommitInv
<1>2. m.sender \in Node /\ m.height \in Nat /\ m.view \in Nat
  BY MessageKinds DEF TypeOK, Header
<1>3. \E p \in msgs' : /\ p.type = "PREPARE"
                       /\ p.height = m.height
                       /\ p.view = m.view
                       /\ p.hash = m.hash
  BY <1>1 DEF CommitOK, Grows
<1>4. /\ preparedProof[m.sender].view \in Int
      /\ preparedProof'[m.sender].view \in Int
      /\ height[m.sender] \in Int /\ height'[m.sender] \in Int
      /\ view[m.sender] \in Int /\ view'[m.sender] \in Int
  <2>1. preparedProof[m.sender] \in Proof /\ preparedProof'[m.sender] \in Proof
    BY <1>2 DEF TypeOK
  <2>2. \A p \in Proof : p.view \in Int
    BY DEF Proof
  <2>. QED
    BY <1>2, <2>1, <2>2 DEF TypeOK
<1>5. \/ height'[m.sender] > height[m.sender]
      \/ /\ height'[m.sender] = height[m.sender]
         /\ view'[m.sender] >= view[m.sender]
         /\ prepared[m.sender] => prepared'[m.sender]
         /\ preparedProof'[m.sender].view >= preparedProof[m.sender].view
  <2>1. CASE m.sender = n
    BY <2>1 DEF Advances, Continues
  <2>2. CASE m.sender # n
    BY <1>2, <1>4, <2>2 DEF OthersKeep, TypeOK
  <2>. QED
    BY <2>1, <2>2
<1>6. CASE height'[m.sender] > m.height
  BY <1>3, <1>6 DEF CommitOK
<1>7. CASE ~(height'[m.sender] > m.height)
  <2>1. /\ height[m.sender] = m.height
        /\ height'[m.sender] = height[m.sender]
    BY <1>1, <1>2, <1>4, <1>5, <1>7 DEF CommitOK
  <2>2. /\ view[m.sender] >= m.view
        /\ preparedProof[m.sender].view >= m.view
    BY <1>1, <1>2, <1>4, <2>1 DEF CommitOK
  <2>3. /\ view'[m.sender] >= view[m.sender]
        /\ preparedProof'[m.sender].view >= preparedProof[m.sender].view
    BY <1>4, <1>5, <2>1
  <2>4. ~(height'[m.sender] > height[m.sender]) /\ ~(height[m.sender] > m.height)
    BY <1>2, <1>4, <2>1
  <2>5. prepared'[m.sender]
    BY <1>1, <1>5, <2>4 DEF CommitOK
  <2>6. view'[m.sender] >= m.view /\ preparedProof'[m.sender].view >= m.view
    BY <1>2, <1>4, <2>2, <2>3
  <2>. QED
    BY <1>3, <2>1, <2>5, <2>6 DEF CommitOK
<1>. QED
  BY <1>6, <1>7

LEMMA ProofStep ==
  ASSUME ProofInv, Grows, NEW n \in Node, OthersKeep(n),
         preparedProof'[n].view <= view'[n], ProofSent(preparedProof[n])'
  PROVE  ProofInv'
<1> SUFFICES ASSUME NEW a \in Node
             PROVE  /\ preparedProof'[a].view <= view'[a]
                    /\ ProofSent(preparedProof[a])'
  BY DEF ProofInv
<1>1. CASE a = n
  BY <1>1
<1>2. CASE a # n
  BY <1>2 DEF ProofInv, OthersKeep, ProofSent, Grows
<1>. QED
  BY <1>1, <1>2

\* Every block in node n's BlockStorage was in some BlockStorage before the
\* step or is chosen after it.
Sourced(n) ==
  \A h \in 1 .. Len(chain'[n]) :
    \/ \E p \in Node : h \in 1 .. Len(chain[p]) /\ chain'[n][h] = chain[p][h]
    \/ \E c \in msgs' : /\ c.type = "COMMIT"
                        /\ c.height = h
                        /\ c.hash = chain'[n][h].hash
                        /\ Chosen(h, c.view, c.hash)'

LEMMA ChainStep ==
  ASSUME TypeOK', ChainInv, Grows, NEW n \in Node, OthersKeep(n), Sourced(n)
  PROVE  ChainInv'
<1> SUFFICES ASSUME NEW a \in Node, NEW h \in 1 .. Len(chain'[a])
             PROVE  \E c \in msgs' : /\ c.type = "COMMIT"
                                    /\ c.height = h
                                    /\ c.hash = chain'[a][h].hash
                                    /\ Chosen(h, c.view, c.hash)'
  BY DEF ChainInv
<1>1. CASE \E p \in Node : h \in 1 .. Len(chain[p]) /\ chain'[a][h] = chain[p][h]
  <2>1. PICK p \in Node : h \in 1 .. Len(chain[p]) /\ chain'[a][h] = chain[p][h]
    BY <1>1
  <2>2. PICK c \in msgs : /\ c.type = "COMMIT"
                          /\ c.height = h
                          /\ c.hash = chain[p][h].hash
                          /\ Chosen(h, c.view, c.hash)
    BY <2>1 DEF ChainInv
  <2>3. c \in msgs' /\ Chosen(h, c.view, c.hash)'
    BY <2>2, ChosenStable DEF Grows
  <2>. QED
    BY <2>1, <2>2, <2>3
<1>2. CASE a # n
  BY <1>1, <1>2 DEF OthersKeep
<1>. QED
  BY <1>1, <1>2 DEF Sourced

-----------------------------------------------------------------------------
(* Together.                                                               *)

\* What a node may send.
SentOK(m) ==
  /\ m.type = "VIEW_CHANGE" => ChangeOK(m)'
  /\ m.type = "NEW_VIEW" => \A x \in m.proof : ChangeOK(x)'
  /\ ProposerOK(m)'
  /\ m.type \in {"PRE_PREPARE", "NEW_VIEW"} =>
       \A b, d \in Proposals(m.height, m.view)' : b = d
  /\ m.type = "PREPARE" => /\ m.hash \in Proposals(m.height, m.view)'
                           /\ SafeAt(m.height, m.view, m.hash)'
  /\ m.type = "COMMIT" => CommitOK(m)'

\* A step of node n that only moves it forward, sends what it may, logs what
\* was sent and stores what was chosen keeps AgreementInv.
LEMMA SafetyStep ==
  ASSUME TypeOK, TypeOK', AgreementInv, NEW n \in Node,
         OthersKeep(n), Advances(n), Signs(n), Sourced(n),
         \A m \in msgs' \ msgs : SentOK(m),
         \A m \in log'[n] : EntryOK(n, m)',
         preparedProof'[n].view <= view'[n], ProofSent(preparedProof[n])'
  PROVE  AgreementInv'
<1>1. Grows
  BY GrowsFrom
<1>2. LogInv'
  BY <1>1, LogStep DEF AgreementInv
<1>3. ChangeInv'
  BY <1>1, ChangeStep DEF AgreementInv, SentOK
<1>4. ProposerInv'
  BY <1>1, ProposerStep DEF AgreementInv, SentOK
<1>5. ProposalInv'
  BY <1>1, ProposalStep DEF AgreementInv, SentOK, Grows
<1>6. PrepareInv'
  BY <1>1, PrepareStep DEF AgreementInv, SentOK
<1>7. CommitInv'
  BY <1>1, CommitStep DEF AgreementInv, SentOK
<1>8. ProofInv'
  BY <1>1, ProofStep DEF AgreementInv
<1>9. ChainInv'
  BY <1>1, ChainStep DEF AgreementInv
<1>. QED
  BY <1>2, <1>3, <1>4, <1>5, <1>6, <1>7, <1>8, <1>9 DEF AgreementInv

=============================================================================
