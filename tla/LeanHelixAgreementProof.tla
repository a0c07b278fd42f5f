---------------------- MODULE LeanHelixAgreementProof -----------------------
(***************************************************************************)
(* Proof of Agreement and ChosenBlockStays for TimelySpec: for every       *)
(* committee and rotation, every f such that two quorums of 2f+1 share a   *)
(* node, all blocks, and any number of views, terms, lost, late, reordered *)
(* or repeated messages and stopped nodes.                                 *)
(*                                                                         *)
(* Then that the proof a committed node sends is accepted, that every node *)
(* goes forward through terms and views with its BlockStorage (in every    *)
(* behaviour of Spec), that nothing but real blocks is proposed, proved    *)
(* and stored, and that Lean Helix with timely PRE_PREPAREs implements the *)
(* single ledger.                                                          *)
(***************************************************************************)
EXTENDS LeanHelixLedger, LeanHelixProof

-----------------------------------------------------------------------------
(* Logs.                                                                   *)

\* Logging a message hides no other sender's, type's or view's message.
LEMMA PutLogged ==
  ASSUME NEW L, NEW x, NEW type, NEW v, NEW a, Logged(L, type, v, a)
  PROVE  Logged(Put(L, x), type, v, a)
<1>1. PICK m \in L : m.type = type /\ m.view = v /\ m.sender = a
  BY DEF Logged, Of
<1>2. CASE <<m.type, m.view, m.sender>> # <<x.type, x.view, x.sender>>
  BY <1>1, <1>2 DEF Logged, Of, Put
<1>3. CASE <<m.type, m.view, m.sender>> = <<x.type, x.view, x.sender>>
  BY <1>1, <1>3 DEF Logged, Of, Put
<1>. QED
  BY <1>2, <1>3

\* A message just put in a log is logged.
LEMMA PutIsLogged ==
  ASSUME NEW L, NEW x
  PROVE  Logged(Put(L, x), x.type, x.view, x.sender)
  BY DEF Logged, Of, Put

\* The voters of a log are nodes, so they can be counted.
LEMMA VotersFinite ==
  ASSUME NEW L \in SUBSET LogEntry, NEW type \in {"PREPARE", "COMMIT"},
         NEW v \in Nat, NEW b
  PROVE  /\ Voters(L, type, v, b) \subseteq Node
         /\ IsFiniteSet(Voters(L, type, v, b))
         /\ Cardinality(Voters(L, type, v, b)) \in Nat
<1>1. Voters(L, type, v, b) \subseteq Node
  BY OfType DEF Voters, Senders, Header
<1>. QED
  BY <1>1, FS_Subset, FS_CardinalityType, QuorumAssumption

\* A set that counts more than none has a member.
LEMMA SomeMember ==
  ASSUME NEW S \in SUBSET Node, NEW k \in Nat \ {0}, Cardinality(S) >= k
  PROVE  S # {}
  BY FS_EmptySet

-----------------------------------------------------------------------------
(* Committing locally.                                                     *)

\* Entries a step's new log may hold: of the term, sent, and not ahead of w.
Entries(n, L, w, sent) ==
  \A m \in L :
    /\ m.height = height[n]
    /\ m.type \in {"PREPARE", "COMMIT"} => m \in sent
    /\ m.type = "PRE_PREPARE" => /\ m.hash \in Proposals(m.height, m.view)
                                 /\ m.view <= w
    /\ m.type = "VIEW_CHANGE" => ChangeOK(m)

\* Such entries are in order after the step.
LEMMA EntriesOK ==
  ASSUME TypeOK, TypeOK', Grows, NEW n \in Node, NEW L \in SUBSET LogEntry,
         NEW w, Entries(n, L, w, msgs'), height'[n] = height[n], view'[n] = w
  PROVE  \A m \in L : EntryOK(n, m)'
<1> SUFFICES ASSUME NEW m \in L PROVE EntryOK(n, m)'
  OBVIOUS
<1>1. /\ m.height = height'[n]
      /\ m.type \in {"PREPARE", "COMMIT"} => m \in msgs'
  BY DEF Entries
<1>2. m.type = "PRE_PREPARE" => /\ m.hash \in Proposals(m.height, m.view)'
                                /\ m.view <= view'[n]
  BY ProposalsGrow DEF Entries, Grows
<1>3. ASSUME m.type = "VIEW_CHANGE" PROVE ChangeOK(m)'
  <2>1. m \in ViewChange
    BY <1>3, EntryKinds
  <2>. QED
    BY <1>3, <2>1, ChangeOKStable DEF Entries
<1>. QED
  BY <1>1, <1>2, <1>3 DEF EntryOK

\* A node's own log is made of such entries.
LEMMA OwnEntries ==
  ASSUME AgreementInv, NEW n \in Node
  PROVE  Entries(n, log[n], view[n], msgs)
  BY DEF AgreementInv, LogInv, EntryOK, Entries

\* A block with 2f+1 COMMITs in a log is chosen.
LEMMA CommittedIsChosen ==
  ASSUME TypeOK', NEW n \in Node, NEW h, h = height[n],
         NEW L \in SUBSET LogEntry, NEW v \in Nat, NEW w,
         Entries(n, L, w, msgs'), NEW b \in CommittedHashes(L, v)
  PROVE  \E c \in msgs' : /\ c.type = "COMMIT"
                          /\ c.height = h
                          /\ c.hash = b
                          /\ Chosen(h, c.view, c.hash)'
<1>1. Voters(L, "COMMIT", v, b) \subseteq SendersOf("COMMIT", h, v, b)'
  BY DEF Entries, Voters, Of, Senders, SendersOf
<1>2. SendersOf("COMMIT", h, v, b)' \subseteq Node
  BY MessageKinds DEF TypeOK, SendersOf, Senders, Header
<1>3. /\ Cardinality(Voters(L, "COMMIT", v, b)) >= 2 * F + 1
      /\ Cardinality(Voters(L, "COMMIT", v, b)) \in Nat
  BY VotersFinite DEF CommittedHashes
<1>4. IsFiniteSet(SendersOf("COMMIT", h, v, b)')
  BY <1>2, FS_Subset, QuorumAssumption
<1>5. /\ Cardinality(Voters(L, "COMMIT", v, b))
           <= Cardinality(SendersOf("COMMIT", h, v, b)')
      /\ Cardinality(SendersOf("COMMIT", h, v, b)') \in Nat
  BY <1>1, <1>4, FS_Subset, FS_CardinalityType
<1>6. Chosen(h, v, b)'
  BY <1>3, <1>5, QuorumAssumption DEF Chosen
<1>7. SendersOf("COMMIT", h, v, b)' # {}
  <2>1. 2 * F + 1 \in Nat \ {0}
    BY QuorumAssumption
  <2>. QED
    BY <1>2, <1>3, <1>5, <2>1, SomeMember
<1>8. PICK c \in msgs' : /\ c.type = "COMMIT"
                         /\ c.height = h
                         /\ c.view = v
                         /\ c.hash = b
  BY <1>7 DEF SendersOf, Senders
<1>. QED
  BY <1>6, <1>8

\* OnCommittedLocally moves the node to the next term with an empty log, no
\* proof, and stores a chosen block or none.
LEMMA OnCommittedLocallySafe ==
  ASSUME TypeOK, TypeOK', NEW n \in Node, NEW L \in SUBSET LogEntry,
         NEW v \in Nat, NEW w \in Nat, NEW c \in Candidate,
         OnCommittedLocally(n, L, v, w, c), Entries(n, L, w, msgs')
  PROVE  /\ height' = [height EXCEPT ![n] = height[n] + 1]
         /\ view' = [view EXCEPT ![n] = 0]
         /\ log' = [log EXCEPT ![n] = {}]
         /\ preparedProof' = [preparedProof EXCEPT ![n] = NoProof]
         /\ \A a \in Node \ {n} : chain'[a] = chain[a]
         /\ Sourced(n)
<1>1. PICK b \in CommittedHashes(L, v) :
        /\ CommitBlock(n, height[n], [hash |-> b, view |-> w,
                                      commits |-> Of(L, "COMMIT", v)])
        /\ InitNextRound(n, height[n], c)
  BY DEF OnCommittedLocally
<1> DEFINE blk == [hash |-> b, view |-> w, commits |-> Of(L, "COMMIT", v)]
<1>2. chain' = IF height[n] = Len(chain[n]) + 1
               THEN [chain EXCEPT ![n] = Append(chain[n], blk)] ELSE chain
  BY <1>1 DEF CommitBlock
<1>3. chain[n] \in Seq(Committed) /\ blk \in Committed /\ chain \in [Node -> Seq(Committed)]
  BY OfType DEF TypeOK, CommittedHashes, Committed
<1>4. Sourced(n)
  <2> SUFFICES ASSUME NEW h \in 1 .. Len(chain'[n]),
                      ~\E p \in Node : /\ h \in 1 .. Len(chain[p])
                                       /\ chain'[n][h] = chain[p][h]
               PROVE  \E m \in msgs' : /\ m.type = "COMMIT"
                                       /\ m.height = h
                                       /\ m.hash = chain'[n][h].hash
                                       /\ Chosen(h, m.view, m.hash)'
    BY DEF Sourced
  <2>1. CASE height[n] = Len(chain[n]) + 1
    <3>1. chain'[n] = Append(chain[n], blk)
      BY <1>2, <1>3, <2>1
    <3>2. h = height[n] /\ chain'[n][h] = blk
      BY <1>3, <2>1, <3>1
    <3>3. \E m \in msgs' : /\ m.type = "COMMIT"
                          /\ m.height = h
                          /\ m.hash = b
                          /\ Chosen(h, m.view, m.hash)'
      BY <3>2, CommittedIsChosen
    <3>. QED
      BY <3>2, <3>3
  <2>2. CASE height[n] # Len(chain[n]) + 1
    BY <1>2, <2>2
  <2>. QED
    BY <2>1, <2>2
<1>. QED
  BY <1>1, <1>2, <1>3, <1>4 DEF InitNextRound

-----------------------------------------------------------------------------
(* "Check if Prepared".                                                    *)

\* The PREPAREs a handler sends: the node's own, for a proposal of the term
\* that is safe.
Answers(n, out) ==
  \A m \in out : /\ m.type = "PREPARE"
                 /\ m.sender = n
                 /\ m.height = height[n]
                 /\ m.hash \in Proposals(m.height, m.view)
                 /\ SafeAt(m.height, m.view, m.hash)

\* Such PREPAREs are in order after the step.
LEMMA AnswersOK ==
  ASSUME TypeOK, TypeOK', Grows, NEW n \in Node, NEW out \in SUBSET Header,
         Answers(n, out)
  PROVE  \A m \in out : SentOK(m)
<1> SUFFICES ASSUME NEW m \in out PROVE SentOK(m)
  OBVIOUS
<1>1. m.height \in Int /\ m.view \in Int
  BY DEF Header
<1>2. SafeAt(m.height, m.view, m.hash)'
  BY <1>1, SafeAtStable DEF Answers
<1>3. m.hash \in Proposals(m.height, m.view)'
  BY ProposalsGrow DEF Answers, Grows
<1>4. m.type = "PREPARE"
  BY DEF Answers
<1>. QED
  BY <1>2, <1>3, <1>4 DEF SentOK, ProposerOK

\* A prepared view has a PREPARE for the logged proposal.
LEMMA PreparedHash ==
  ASSUME AgreementInv, NEW n \in Node, NEW h, h = height[n],
         NEW L \in SUBSET LogEntry, NEW v \in Nat, NEW b \in LoggedHashes(L, v),
         NEW sent, Entries(n, L, v, sent), IsPrepared(L, v)
  PROVE  \E p \in sent : /\ p.type = "PREPARE"
                         /\ p.height = h
                         /\ p.view = v
                         /\ p.hash = b
<1>1. PICK pp \in Of(L, "PRE_PREPARE", v) :
        Cardinality(Voters(L, "PREPARE", v, pp.hash)) = 2 * F
  BY DEF IsPrepared
<1>2. Voters(L, "PREPARE", v, pp.hash) # {}
  <2>1. 2 * F \in Nat \ {0}
    BY QuorumAssumption
  <2>2. Cardinality(Voters(L, "PREPARE", v, pp.hash)) >= 2 * F
    BY <1>1, <2>1
  <2>. QED
    BY <2>1, <2>2, VotersFinite, SomeMember
<1>3. PICK p \in L : p.type = "PREPARE" /\ p.view = v /\ p.hash = pp.hash
  BY <1>2 DEF Voters, Senders, Of
<1>4. p \in sent /\ p.height = h
  BY <1>3 DEF Entries
<1>5. \A x \in Of(L, "PRE_PREPARE", v) : x.hash \in Proposals(h, v)
  BY DEF Entries, Of
<1>6. b \in Proposals(h, v)
  BY <1>1, <1>5 DEF LoggedHashes
<1>7. b = pp.hash
  BY <1>1, <1>5, <1>6, UniqueProposal DEF AgreementInv
<1>. QED
  BY <1>3, <1>4, <1>7

\* What "Check if Prepared" may be called with by node n, which is or moves to
\* view w: L is in order but for the PREPAREs the handler has sent, and only
\* the view w can be prepared.
Ready(n, L, v, w, out) ==
  /\ view[n] <= w
  /\ Entries(n, L, w, msgs \cup out)
  /\ Answers(n, out)
  /\ IsPrepared(L, v) => v = w
  /\ Logged(log[n], "PRE_PREPARE", 0, n) => Logged(L, "PRE_PREPARE", 0, n)

LEMMA NotPreparedSafe ==
  ASSUME TypeOK, TypeOK', AgreementInv, NEW n \in Node, NEW L \in SUBSET LogEntry,
         NEW v \in Nat, NEW w \in Nat, NEW c \in Candidate,
         NEW out \in SUBSET Header, Ready(n, L, v, w, out),
         msgs' = msgs \cup out, StayInRound(n, L, w, c),
         UNCHANGED <<prepared, preparedProof, newViewTriggered>>
  PROVE  AgreementInv'
<1>1. /\ height' = height /\ chain' = chain
      /\ view' = [view EXCEPT ![n] = w]
      /\ log' = [log EXCEPT ![n] = L]
  BY DEF StayInRound
<1>2. /\ view'[n] = w /\ log'[n] = L /\ view[n] \in Nat
      /\ \A a \in Node \ {n} : view'[a] = view[a] /\ log'[a] = log[a]
  BY <1>1 DEF TypeOK
<1>3. preparedProof[n].view \in Int
  BY DEF TypeOK, Proof
<1>4. preparedProof[n].view <= view[n] /\ ProofSent(preparedProof[n])
  BY DEF AgreementInv, ProofInv
<1>5. OthersKeep(n)
  BY <1>1, <1>2 DEF OthersKeep
<1>6. Advances(n)
  BY <1>1, <1>2, <1>3 DEF Advances, Continues, Ready
<1>7. Signs(n)
  BY DEF Signs, Ready, Answers
<1>8. Grows
  BY <1>5, <1>6, <1>7, GrowsFrom
<1>9. \A m \in msgs' \ msgs : SentOK(m)
  BY <1>8, AnswersOK DEF Ready
<1>10. \A m \in L : EntryOK(n, m)'
  <2>1. Entries(n, L, w, msgs')
    BY DEF Ready
  <2>. QED
    BY <1>1, <1>2, <1>8, <2>1, EntriesOK
<1>11. preparedProof'[n].view <= view'[n]
  BY <1>2, <1>3, <1>4 DEF Ready
<1>12. ProofSent(preparedProof[n])'
  BY <1>4 DEF ProofSent
<1>13. Sourced(n)
  BY <1>1 DEF Sourced
<1>. QED
  BY <1>2, <1>5, <1>6, <1>7, <1>9, <1>10, <1>11, <1>12, <1>13, SafetyStep

\* OnPrepared: the COMMIT is for a proposal somebody prepared, and the proof
\* of it stays with the node unless the node has left the term.
LEMMA OnPreparedSafe ==
  ASSUME TypeOK, TypeOK', AgreementInv, NEW n \in Node, NEW L \in SUBSET LogEntry,
         NEW w \in Nat, NEW c \in Candidate, NEW out \in SUBSET Header,
         Ready(n, L, w, w, out), IsPrepared(L, w), OnPrepared(n, L, w, w, c, out),
         UNCHANGED newViewTriggered
  PROVE  AgreementInv'
<1> DEFINE Prepares(b) == MakeHeader("COMMIT", n, height[n], w, b)
           proof == [height |-> height[n], view |-> w, hash |-> c.hash,
                     signatures |-> Of(L, "PRE_PREPARE", w)
                                      \cup Of(L, "PREPARE", w)]
<1>0. PICK b \in LoggedHashes(L, w) :
        /\ msgs' = msgs \cup out \cup {Prepares(b)}
        /\ prepared' = [prepared EXCEPT ![n] = TRUE]
        /\ IF IsCommitted(Put(L, Prepares(b)), w)
           THEN OnCommittedLocally(n, Put(L, Prepares(b)), w, w, c)
           ELSE /\ StayInRound(n, Put(L, Prepares(b)), w, c)
                /\ preparedProof' = [preparedProof EXCEPT ![n] = proof]
  BY DEF OnPrepared
<1> DEFINE commit == Prepares(b)
           L2 == Put(L, commit)
<1>1. /\ msgs' = msgs \cup out \cup {commit}
      /\ prepared' = [prepared EXCEPT ![n] = TRUE]
  BY <1>0
<1>2. /\ commit.type = "COMMIT" /\ commit.sender = n
      /\ commit.height = height[n] /\ commit.view = w
      /\ commit.hash = b
  BY DEF MakeHeader
<1>3. commit \in LogEntry
  <2>1. height[n] \in Nat
    BY DEF TypeOK
  <2>2. commit \in Header
    BY <1>0, <2>1, LoggedHashType, MakeHeaderType
  <2>. QED
    BY <2>2 DEF LogEntry
<1>4. L2 \in SUBSET LogEntry
  BY <1>3, PutType
<1>5. Entries(n, L2, w, msgs')
  <2>1. \A m \in L2 : m \in L \/ m = commit
    BY DEF Put
  <2>. QED
    BY <1>1, <1>2, <2>1 DEF Ready, Entries
<1>6. \E p \in msgs' : /\ p.type = "PREPARE"
                      /\ p.height = commit.height
                      /\ p.view = commit.view
                      /\ p.hash = commit.hash
  <2>1. Entries(n, L, w, msgs')
    BY <1>1 DEF Ready, Entries
  <2>. QED
    BY <1>2, <2>1, PreparedHash
<1>7. Signs(n)
  BY <1>1, <1>2 DEF Signs, Ready, Answers
<1>8. height[n] \in Nat /\ view[n] \in Nat /\ preparedProof[n].view \in Int
  BY DEF TypeOK, Proof
<1>9. /\ preparedProof[n].view <= view[n]
      /\ view[n] <= w
  BY DEF AgreementInv, ProofInv, Ready
<1>10. \A a \in Node \ {n} : prepared'[a] = prepared[a]
  BY <1>1 DEF TypeOK
<1>11. prepared'[n]
  BY <1>1 DEF TypeOK
\* Either way the step goes on, it only has to leave the state in order.
<1>12. ASSUME OthersKeep(n), Advances(n), Sourced(n),
              \/ height'[n] > height[n]
              \/ /\ height'[n] = height[n]
                 /\ view'[n] >= w
                 /\ preparedProof'[n].view >= w,
              \A m \in log'[n] : EntryOK(n, m)',
              preparedProof'[n].view <= view'[n], ProofSent(preparedProof[n])'
       PROVE  AgreementInv'
  <2>1. Grows
    BY <1>7, <1>12, GrowsFrom
  <2>2. \A m \in out : SentOK(m)
    BY <2>1, AnswersOK DEF Ready
  <2>3. PICK x : x = commit
    OBVIOUS
  <2>4. x.height = height[n] /\ x.type = "COMMIT" /\ x.sender = n /\ x.view = w
    BY <1>2, <2>3
  <2>5. \/ height'[n] > x.height
        \/ /\ height'[n] = x.height
           /\ view'[n] >= x.view
           /\ prepared'[n]
           /\ preparedProof'[n].view >= x.view
    BY <1>11, <1>12, <2>4
  <2>6. CommitOK(x)'
    BY <1>6, <2>3, <2>4, <2>5 DEF CommitOK
  <2>7. SentOK(x)
    BY <2>4, <2>6 DEF SentOK, ProposerOK
  <2>. QED
    BY <1>1, <1>7, <1>12, <2>2, <2>3, <2>7, SafetyStep
<1>13. CASE IsCommitted(L2, w)
  <2>1. OnCommittedLocally(n, L2, w, w, c)
    BY <1>0, <1>13
  <2>2. /\ height' = [height EXCEPT ![n] = height[n] + 1]
        /\ view' = [view EXCEPT ![n] = 0]
        /\ log' = [log EXCEPT ![n] = {}]
        /\ preparedProof' = [preparedProof EXCEPT ![n] = NoProof]
        /\ \A a \in Node \ {n} : chain'[a] = chain[a]
        /\ Sourced(n)
    BY <1>4, <1>5, <2>1, OnCommittedLocallySafe
  <2>3. /\ height'[n] > height[n]
        /\ view'[n] = 0 /\ log'[n] = {} /\ preparedProof'[n] = NoProof
    BY <1>8, <2>2 DEF TypeOK
  <2>4. OthersKeep(n)
    BY <1>10, <2>2 DEF OthersKeep, TypeOK
  <2>5. ProofSent(preparedProof[n])' /\ preparedProof'[n].view <= view'[n]
    BY <2>3 DEF ProofSent, NoProof
  <2>. QED
    BY <1>12, <2>2, <2>3, <2>4, <2>5 DEF Advances
<1>14. CASE ~IsCommitted(L2, w)
  <2>1. /\ StayInRound(n, L2, w, c)
        /\ preparedProof' = [preparedProof EXCEPT ![n] = proof]
    BY <1>0, <1>14
  <2>2. /\ height' = height /\ chain' = chain
        /\ view'[n] = w /\ log'[n] = L2 /\ preparedProof'[n] = proof
        /\ \A a \in Node \ {n} : /\ view'[a] = view[a]
                                 /\ log'[a] = log[a]
                                 /\ preparedProof'[a] = preparedProof[a]
    BY <2>1 DEF StayInRound, TypeOK
  <2>3. proof.view = w
    OBVIOUS
  <2>4. OthersKeep(n)
    BY <1>10, <2>2 DEF OthersKeep
  <2>5. Logged(log[n], "PRE_PREPARE", 0, n) => Logged(L2, "PRE_PREPARE", 0, n)
    BY PutLogged DEF Ready
  <2>6. view'[n] >= view[n] /\ preparedProof'[n].view >= preparedProof[n].view
    BY <1>8, <1>9, <2>2, <2>3
  <2>7. Advances(n)
    BY <1>11, <2>2, <2>5, <2>6 DEF Advances, Continues
  <2>8. Sourced(n)
    BY <2>2 DEF Sourced
  <2>9. \A m \in log'[n] : EntryOK(n, m)'
    <3>1. Grows
      BY <1>7, <2>4, <2>7, GrowsFrom
    <3>. QED
      BY <1>4, <1>5, <2>2, <3>1, EntriesOK
  <2>10. ProofSent(preparedProof[n])'
    BY <1>1, <2>2 DEF ProofSent, Of, Ready, Entries
  <2>. QED
    BY <1>12, <2>2, <2>3, <2>4, <2>7, <2>8, <2>9, <2>10
<1>. QED
  BY <1>13, <1>14

LEMMA CheckIfPreparedSafe ==
  ASSUME TypeOK, TypeOK', AgreementInv, NEW n \in Node, NEW L \in SUBSET LogEntry,
         NEW v \in Nat, NEW w \in Nat, NEW c \in Candidate,
         NEW out \in SUBSET Header, Ready(n, L, v, w, out),
         CheckIfPrepared(n, L, v, w, c, out), UNCHANGED newViewTriggered
  PROVE  AgreementInv'
<1>1. CASE IsPrepared(L, v)
  <2>1. v = w
    BY <1>1 DEF Ready
  <2>. QED
    BY <1>1, <2>1, OnPreparedSafe DEF CheckIfPrepared
<1>2. CASE ~IsPrepared(L, v)
  <2>1. /\ msgs' = msgs \cup out
        /\ StayInRound(n, L, w, c)
        /\ UNCHANGED <<prepared, preparedProof>>
    BY <1>2 DEF CheckIfPrepared
  <2>. QED
    BY <2>1, NotPreparedSafe
<1>. QED
  BY <1>1, <1>2

-----------------------------------------------------------------------------
(* Accepting a proposal.                                                   *)

\* The log with a proposal of the term and the answer to it is in order.
LEMMA AcceptReady ==
  ASSUME TypeOK, AgreementInv, NEW n \in Node, NEW pp \in Header,
         NEW w \in Nat, pp.type = "PRE_PREPARE", pp.height = height[n],
         pp.view = w, view[n] <= w, pp.hash \in Proposals(pp.height, w),
         SafeAt(pp.height, w, pp.hash)
  PROVE  LET prepare == MakeHeader("PREPARE", n, height[n], w, pp.hash)
         IN  Ready(n, Put(Put(log[n], pp), prepare), w, w, {prepare})
<1> DEFINE prepare == MakeHeader("PREPARE", n, height[n], w, pp.hash)
           L == Put(Put(log[n], pp), prepare)
<1>1. /\ prepare.type = "PREPARE" /\ prepare.sender = n
      /\ prepare.height = height[n] /\ prepare.view = w
      /\ prepare.hash = pp.hash
  BY DEF MakeHeader
<1>2. Entries(n, L, w, msgs \cup {prepare})
  <2>1. Entries(n, log[n], view[n], msgs)
    BY OwnEntries
  <2>2. ASSUME NEW m \in L
        PROVE  m \in log[n] \/ m = pp \/ m = prepare
    BY DEF Put
  <2>3. ASSUME NEW m \in log[n], m.type = "PRE_PREPARE" PROVE m.view <= w
    <3>1. m.view \in Nat
      BY <2>3, EntryKinds DEF TypeOK, LogEntry, Header
    <3>2. m.view <= view[n]
      BY <2>1, <2>3 DEF Entries
    <3>. QED
      BY <3>1, <3>2 DEF TypeOK
  <2>. QED
    BY <1>1, <2>1, <2>2, <2>3 DEF Entries
<1>3. Answers(n, {prepare})
  BY <1>1 DEF Answers
<1>4. Logged(log[n], "PRE_PREPARE", 0, n) => Logged(L, "PRE_PREPARE", 0, n)
  BY PutLogged
<1>. QED
  BY <1>2, <1>3, <1>4 DEF Ready

LEMMA AcceptPrePrepareSafe ==
  ASSUME TypeOK, TypeOK', AgreementInv, NEW n \in Node, NEW pp \in Header,
         NEW w \in Nat, pp.type = "PRE_PREPARE", pp.height = height[n],
         pp.view = w, view[n] <= w, pp.hash \in Proposals(pp.height, w),
         SafeAt(pp.height, w, pp.hash), AcceptPrePrepare(n, pp, w),
         UNCHANGED newViewTriggered
  PROVE  AgreementInv'
<1> DEFINE prepare == MakeHeader("PREPARE", n, height[n], w, pp.hash)
           L == Put(Put(log[n], pp), prepare)
           c == [block |-> pp.hash, hash |-> pp.hash]
<1>1. CheckIfPrepared(n, L, w, w, c, {prepare})
  BY DEF AcceptPrePrepare
<1>2. pp.hash \in Hash /\ c \in Candidate
  BY DEF Header, Candidate
<1>3. prepare \in Header
  <2>1. height[n] \in Nat
    BY DEF TypeOK
  <2>. QED
    BY <1>2, <2>1, MakeHeaderType
<1>4. L \in SUBSET LogEntry
  BY <1>3, PutType DEF TypeOK, LogEntry
<1>5. Ready(n, L, w, w, {prepare})
  BY AcceptReady
<1> HIDE DEF L, c, prepare
<1>. QED
  BY <1>1, <1>2, <1>3, <1>4, <1>5, CheckIfPreparedSafe

\* A PREPARE is only sent in a view that has a proposal, so a COMMIT too.
LEMMA CommitProposed ==
  ASSUME AgreementInv, NEW c \in msgs, c.type = "COMMIT"
  PROVE  /\ c.hash \in Proposals(c.height, c.view)
         /\ SafeAt(c.height, c.view, c.hash)
<1>1. PICK p \in msgs : /\ p.type = "PREPARE"
                        /\ p.height = c.height
                        /\ p.view = c.view
                        /\ p.hash = c.hash
  BY DEF AgreementInv, CommitInv, CommitOK
<1>. QED
  BY <1>1 DEF AgreementInv, PrepareInv

\* A valid proof that is not empty names a block that was prepared.
LEMMA ProofPrepared ==
  ASSUME AgreementInv, NEW p \in Proof, NEW h, NEW v, ProofSent(p),
         ValidPreparedProof(p, h, v), p # NoProof
  PROVE  /\ p.hash \in Proposals(h, p.view)
         /\ SafeAt(h, p.view, p.hash)
<1>1. /\ p.height = h
      /\ \A s \in p.signatures :
           s.height = p.height /\ s.view = p.view /\ s.hash = p.hash
  BY DEF ValidPreparedProof
<1>2. PICK pp \in p.signatures :
        Cardinality(Senders({s \in p.signatures : s.type = "PREPARE"})
                      \ {pp.sender}) >= 2 * F
  BY DEF ValidPreparedProof
<1> DEFINE S == Senders({s \in p.signatures : s.type = "PREPARE"}) \ {pp.sender}
<1>3. S \subseteq Node
  BY DEF Senders, Proof, Header
<1>4. S # {}
  <2>1. 2 * F \in Nat \ {0}
    BY QuorumAssumption
  <2>. QED
    BY <1>2, <1>3, <2>1, SomeMember
<1>5. PICK s \in p.signatures : s.type = "PREPARE"
  BY <1>4 DEF Senders
<1>6. s \in msgs /\ s.height = h /\ s.view = p.view /\ s.hash = p.hash
  BY <1>1, <1>5 DEF ProofSent
<1>. QED
  BY <1>5, <1>6 DEF AgreementInv, PrepareInv

\* The heart of the matter: a NEW_VIEW that passes the checks proposes a block
\* no other block can have been chosen against.  Its 2f+1 VIEW_CHANGEs come
\* from nodes that left all earlier views; above the highest proof none of
\* them committed, in its view only the proof's block was prepared, and below
\* it the proof's own PREPAREs were safe.
LEMMA NewViewSafe ==
  ASSUME TypeOK, AgreementInv, NEW m \in msgs, m.type = "NEW_VIEW",
         ValidNewViewProof(m),
         \E x \in Highest(m.proof) : x.proof = NoProof \/ m.pp.hash = x.proof.hash
  PROVE  SafeAt(m.height, m.view, m.pp.hash)
<1>1. m \in NewView
  BY MessageKinds DEF TypeOK
<1>2. PICK x \in m.proof :
        /\ \A y \in m.proof : y.proof.view <= x.proof.view
        /\ x.proof = NoProof \/ m.pp.hash = x.proof.hash
  BY DEF Highest
<1>3. \A y \in m.proof : /\ y \in ViewChange
                         /\ y.sender \in Node
                         /\ y.proof \in Proof
                         /\ y.proof.view \in Int
  <2>1. \A y \in ViewChange : y.sender \in Node /\ y.proof \in Proof
    BY DEF ViewChange
  <2>2. \A p \in Proof : p.view \in Int
    BY DEF Proof
  <2>. QED
    BY <1>1, <2>1, <2>2 DEF NewView
<1>4. \A y \in m.proof : /\ y.height = m.height
                         /\ y.view = m.view
                         /\ ValidPreparedProof(y.proof, m.height, m.view)
                         /\ ChangeOK(y)
  BY DEF ValidNewViewProof, AgreementInv, ChangeInv
<1>5. m.view \in Nat /\ m.height \in Nat
  BY <1>1 DEF NewView
<1> DEFINE Q == Senders(m.proof)
<1>6. Q \in SUBSET Node /\ Cardinality(Q) >= 2 * F + 1
  BY <1>3 DEF Senders, ValidNewViewProof
<1>7. ASSUME NEW a \in Q, NEW c \in 0 .. (m.view - 1) PROVE Reached(a, m.height, c + 1)
  <2>1. PICK y \in m.proof : y.sender = a
    BY DEF Senders
  <2>2. Reached(a, m.height, m.view)
    BY <1>4, <2>1 DEF ChangeOK
  <2>3. a \in Node
    BY <1>6
  <2>. QED
    BY <1>5, <2>2, <2>3 DEF Reached, TypeOK
<1> SUFFICES ASSUME NEW c \in 0 .. (m.view - 1)
             PROVE  \E R \in SUBSET Node :
                      /\ Cardinality(R) >= 2 * F + 1
                      /\ \A a \in R : NoOtherVote(a, m.height, c, m.pp.hash)
  BY DEF SafeAt
<1>8. CASE c > x.proof.view
  <2> SUFFICES ASSUME NEW a \in Q, NEW k \in msgs, k.type = "COMMIT",
                      k.sender = a, k.height = m.height, k.view = c
               PROVE  FALSE
    BY <1>6, <1>7 DEF NoOtherVote
  <2>1. PICK y \in m.proof : y.sender = a
    BY DEF Senders
  <2>2. y.proof.view >= c
    <3>1. k.view < y.view
      BY <1>4, <1>5, <2>1
    <3>. QED
      BY <1>4, <2>1, <3>1 DEF ChangeOK
  <2>. QED
    BY <1>2, <1>3, <1>8, <2>1, <2>2
<1>9. CASE ~(c > x.proof.view)
  <2>1. x.proof # NoProof /\ x.proof.view \in Nat
    BY <1>3, <1>9 DEF NoProof
  <2>2. m.pp.hash = x.proof.hash
    BY <1>2, <2>1
  <2>3. /\ m.pp.hash \in Proposals(m.height, x.proof.view)
        /\ SafeAt(m.height, x.proof.view, m.pp.hash)
    BY <1>3, <1>4, <2>1, <2>2, ProofPrepared DEF ChangeOK
  <2>4. CASE c = x.proof.view
    <3> SUFFICES ASSUME NEW a \in Q, NEW k \in msgs, k.type = "COMMIT",
                        k.sender = a, k.height = m.height, k.view = c
                 PROVE  k.hash = m.pp.hash
      BY <1>6, <1>7 DEF NoOtherVote
    <3>1. k.hash \in Proposals(m.height, c)
      BY CommitProposed
    <3>. QED
      BY <2>3, <2>4, <3>1, UniqueProposal DEF AgreementInv
  <2>5. CASE c # x.proof.view
    <3>1. c \in 0 .. (x.proof.view - 1)
      BY <1>9, <2>1, <2>5
    <3>. QED
      BY <2>3, <3>1 DEF SafeAt
  <2>. QED
    BY <2>4, <2>5
<1>. QED
  BY <1>8, <1>9

-----------------------------------------------------------------------------
(* How a step moves the node that takes it.                                *)

\* TermFollowsStorage, for one node.
Follows(n) ==
  \/ height[n] \in {Len(chain[n]), Len(chain[n]) + 1}
  \/ /\ height[n] = Len(chain[n]) + 2
     /\ \E s \in validated[n] : s.height = Len(chain[n]) + 1

\* Block sync holds at most one block, and the term has been told of it.
Holds(n) ==
  \A s \in validated[n] : s.height <= height[n] /\ \A t \in validated[n] : t = s

FollowInv ==
  /\ \A n \in Node \ panicked : Follows(n)
  /\ \A n \in Node : Holds(n)

\* Forward through terms and views, at most one block further, and in the order
\* of FollowInv.
Moves(n) ==
  /\ \A a \in Node \ {n} : /\ height'[a] = height[a]
                           /\ view'[a] = view[a]
                           /\ chain'[a] = chain[a]
                           /\ validated'[a] = validated[a]
  /\ panicked \subseteq panicked'
  /\ \/ height'[n] = height[n] /\ view'[n] >= view[n]
     \/ height'[n] > height[n] /\ view'[n] = 0
  /\ \/ chain'[n] = chain[n]
     \/ \E blk \in Committed : chain'[n] = Append(chain[n], blk)
  /\ n \in panicked' \/ Follows(n)'
  /\ Holds(n)'

\* What CommitBlock does to the chain of its node.
LEMMA CommitBlockMoves ==
  ASSUME TypeOK, NEW n \in Node, NEW h \in Nat, NEW blk \in Committed, CommitBlock(n, h, blk)
  PROVE  /\ \A a \in Node \ {n} : chain'[a] = chain[a]
         /\ h = Len(chain[n]) + 1 => /\ chain'[n] = Append(chain[n], blk)
                                     /\ Len(chain'[n]) = Len(chain[n]) + 1
         /\ h # Len(chain[n]) + 1 => chain'[n] = chain[n]
         /\ h > Len(chain[n]) + 1 => n \in panicked'
         /\ panicked \subseteq panicked'
<1>1. chain[n] \in Seq(Committed)
  BY DEF TypeOK
<1>2. CASE h = Len(chain[n]) + 1
  <2>1. chain' = [chain EXCEPT ![n] = Append(@, blk)] /\ panicked' = panicked
    BY <1>2 DEF CommitBlock
  <2>2. chain'[n] = Append(chain[n], blk)
    BY <2>1 DEF TypeOK
  <2>3. Len(chain'[n]) = Len(chain[n]) + 1
    BY <1>1, <2>2
  <2>. QED
    BY <1>1, <1>2, <2>1, <2>2, <2>3 DEF TypeOK
<1>3. CASE h # Len(chain[n]) + 1
  <2>1. /\ chain' = chain
        /\ panicked' = IF h <= Len(chain[n]) /\ chain[n][h] = blk
                       THEN panicked ELSE panicked \cup {n}
    BY <1>3 DEF CommitBlock
  <2>2. h > Len(chain[n]) + 1 => ~(h <= Len(chain[n]))
    BY <1>1
  <2>. QED
    BY <1>3, <2>1, <2>2
<1>. QED
  BY <1>2, <1>3

LEMMA OnCommittedLocallyMoves ==
  ASSUME TypeOK, FollowInv, NEW n \in Node \ panicked, NEW L \in SUBSET LogEntry,
         NEW v \in Nat, NEW w \in Nat, NEW c \in Candidate,
         OnCommittedLocally(n, L, v, w, c), UNCHANGED validated
  PROVE  Moves(n)
<1>1. PICK b \in CommittedHashes(L, v) :
        /\ CommitBlock(n, height[n],
                       [hash |-> b, view |-> w, commits |-> Of(L, "COMMIT", v)])
        /\ InitNextRound(n, height[n], c)
  BY DEF OnCommittedLocally
<1> DEFINE blk == [hash |-> b, view |-> w, commits |-> Of(L, "COMMIT", v)]
<1>2. blk \in Committed
  BY OfType DEF Committed, CommittedHashes
<1>3. height[n] \in Nat /\ Len(chain[n]) \in Nat
  BY DEF TypeOK
<1>4. \/ height[n] \in {Len(chain[n]), Len(chain[n]) + 1}
      \/ height[n] = Len(chain[n]) + 2
  BY DEF FollowInv, Follows
<1>5. /\ height'[n] = height[n] + 1 /\ view'[n] = 0
      /\ \A a \in Node \ {n} : height'[a] = height[a] /\ view'[a] = view[a]
  BY <1>1 DEF InitNextRound, TypeOK
<1>6. /\ \A a \in Node \ {n} : chain'[a] = chain[a]
      /\ height[n] = Len(chain[n]) + 1 => /\ chain'[n] = Append(chain[n], blk)
                                          /\ Len(chain'[n]) = Len(chain[n]) + 1
      /\ height[n] # Len(chain[n]) + 1 => chain'[n] = chain[n]
      /\ height[n] > Len(chain[n]) + 1 => n \in panicked'
      /\ panicked \subseteq panicked'
  BY <1>1, <1>2, <1>3, CommitBlockMoves
<1> HIDE DEF blk
<1>7. n \in panicked' \/ height'[n] \in {Len(chain'[n]), Len(chain'[n]) + 1}
  BY <1>3, <1>4, <1>5, <1>6
<1>8. Holds(n)'
  <2>1. \A s \in validated[n] : s.height \in Nat
    BY DEF TypeOK, Validated
  <2>. QED
    BY <1>3, <1>5, <2>1 DEF FollowInv, Holds
<1>. QED
  BY <1>2, <1>3, <1>5, <1>6, <1>7, <1>8 DEF Moves, Follows

\* The steps that change neither term nor chain.
LEMMA StaysMoves ==
  ASSUME TypeOK, FollowInv, NEW n \in Node \ panicked,
         UNCHANGED <<height, chain, panicked, validated>>,
         NEW w \in Nat, w >= view[n], view' = [view EXCEPT ![n] = w]
  PROVE  Moves(n)
<1>1. view'[n] = w /\ \A a \in Node \ {n} : view'[a] = view[a]
  BY DEF TypeOK
<1>2. Follows(n)' /\ Holds(n)'
  BY DEF FollowInv, Follows, Holds
<1>. QED
  BY <1>1, <1>2 DEF Moves

LEMMA StayInRoundMoves ==
  ASSUME TypeOK, FollowInv, NEW n \in Node \ panicked, NEW w \in Nat, w >= view[n],
         NEW L, NEW c, StayInRound(n, L, w, c), UNCHANGED validated
  PROVE  Moves(n)
  BY StaysMoves DEF StayInRound

LEMMA CheckIfPreparedMoves ==
  ASSUME TypeOK, FollowInv, NEW n \in Node \ panicked, NEW L \in SUBSET LogEntry,
         NEW v \in Nat, NEW w \in Nat, w >= view[n], NEW c \in Candidate, NEW out,
         CheckIfPrepared(n, L, v, w, c, out), UNCHANGED validated
  PROVE  Moves(n)
<1>1. CASE ~IsPrepared(L, v)
  BY <1>1, StayInRoundMoves DEF CheckIfPrepared
<1>2. CASE IsPrepared(L, v)
  <2> DEFINE WithCommit(b) == Put(L, MakeHeader("COMMIT", n, height[n], w, b))
  <2>1. PICK b \in LoggedHashes(L, w) :
          \/ OnCommittedLocally(n, WithCommit(b), v, w, c)
          \/ StayInRound(n, WithCommit(b), w, c)
    BY <1>2 DEF CheckIfPrepared, OnPrepared
  <2>2. WithCommit(b) \in SUBSET LogEntry
    <3>1. b \in Hash /\ height[n] \in Nat
      BY LoggedHashType DEF TypeOK
    <3>. QED
      BY <3>1, MakeHeaderType, PutType DEF LogEntry
  <2> HIDE DEF WithCommit
  <2>. QED
    BY <2>1, <2>2, OnCommittedLocallyMoves, StayInRoundMoves
<1>. QED
  BY <1>1, <1>2

LEMMA AcceptPrePrepareMoves ==
  ASSUME TypeOK, FollowInv, NEW n \in Node \ panicked, NEW pp \in Header, NEW w \in Nat,
         w >= view[n], AcceptPrePrepare(n, pp, w), UNCHANGED validated
  PROVE  Moves(n)
<1> DEFINE prepare == MakeHeader("PREPARE", n, height[n], w, pp.hash)
           L == Put(Put(log[n], pp), prepare)
           c == [block |-> pp.hash, hash |-> pp.hash]
<1>1. pp.hash \in Hash /\ pp.view \in Nat /\ c \in Candidate
  BY DEF Header, Candidate
<1>2. prepare \in LogEntry /\ pp \in LogEntry /\ log[n] \in SUBSET LogEntry
  BY <1>1, MakeHeaderType DEF LogEntry, TypeOK
<1>3. L \in SUBSET LogEntry
  BY <1>2, PutType
<1>4. CheckIfPrepared(n, L, pp.view, w, c, {prepare})
  BY DEF AcceptPrePrepare
<1> HIDE DEF L, c, prepare
<1>. QED
  BY <1>1, <1>3, <1>4, CheckIfPreparedMoves

\* Between the two calls of block sync the term may be two ahead of the storage.
LEMMA ValidateBlockForCommitMoves ==
  ASSUME TypeOK, FollowInv, NEW n \in Node, NEW p \in Node, ValidateBlockForCommit(n, p)
  PROVE  /\ Moves(n)
         /\ UNCHANGED chain
         /\ \E s : /\ validated'[n] = {s}
                   /\ s.height = Len(chain[n]) + 1 /\ s.height <= Len(chain[p])
                   /\ s.block = chain[p][s.height]
<1> DEFINE h == Len(chain[n]) + 1
           s == [height |-> h, block |-> chain[p][h]]
<1>1. /\ n \notin panicked /\ Len(chain[p]) > Len(chain[n])
      /\ Acknowledge(n, h)
      /\ validated' = [validated EXCEPT ![n] = {s}]
      /\ UNCHANGED <<chain, panicked>>
      /\ validated[n] = {}
  BY DEF ValidateBlockForCommit
<1>2. Len(chain[n]) \in Nat /\ Len(chain[p]) \in Nat /\ height[n] \in Nat /\ view[n] \in Nat
  BY DEF TypeOK
<1>3. s.height = h /\ s.block = chain[p][h]
  OBVIOUS
<1>4. /\ validated'[n] = {s}
      /\ \A a \in Node \ {n} : validated'[a] = validated[a]
  BY <1>1 DEF TypeOK
<1>5. height[n] \in {Len(chain[n]), Len(chain[n]) + 1}
  BY <1>1 DEF FollowInv, Follows
<1>6. /\ \A a \in Node \ {n} : height'[a] = height[a] /\ view'[a] = view[a]
      /\ \/ height[n] = h /\ height'[n] = h /\ view'[n] = view[n]
         \/ height[n] < h /\ height'[n] = h + 1 /\ view'[n] = 0
  BY <1>1, <1>2, <1>5 DEF Acknowledge, InitNextRound, TypeOK
<1> HIDE DEF s
<1>7. Holds(n)' /\ Follows(n)'
  BY <1>1, <1>2, <1>3, <1>4, <1>6 DEF Holds, Follows
<1>8. Moves(n)
  BY <1>1, <1>2, <1>4, <1>6, <1>7 DEF Moves
<1>. QED
  BY <1>1, <1>2, <1>3, <1>4, <1>8

LEMMA CommitSyncedBlockMoves ==
  ASSUME TypeOK, FollowInv, NEW n \in Node, CommitSyncedBlock(n)
  PROVE  /\ Moves(n)
         /\ validated'[n] = {}
         /\ \/ chain'[n] = chain[n]
            \/ \E s \in validated[n] : /\ s.height = Len(chain[n]) + 1
                                       /\ chain'[n] = Append(chain[n], s.block)
<1>1. PICK s \in validated[n] : CommitBlock(n, s.height, s.block)
  BY DEF CommitSyncedBlock
<1>2. /\ n \notin panicked
      /\ validated' = [validated EXCEPT ![n] = {}]
      /\ UNCHANGED <<height, view>>
  BY DEF CommitSyncedBlock
<1>3. s.height \in Nat /\ s.block \in Committed
  BY DEF TypeOK, Validated
<1>4. Len(chain[n]) \in Nat /\ height[n] \in Nat /\ view[n] \in Nat
  BY DEF TypeOK
<1>5. /\ validated'[n] = {}
      /\ \A a \in Node \ {n} : validated'[a] = validated[a]
  BY <1>2 DEF TypeOK
<1>6. /\ \A a \in Node \ {n} : chain'[a] = chain[a]
      /\ s.height = Len(chain[n]) + 1 => /\ chain'[n] = Append(chain[n], s.block)
                                         /\ Len(chain'[n]) = Len(chain[n]) + 1
      /\ s.height # Len(chain[n]) + 1 => chain'[n] = chain[n]
      /\ panicked \subseteq panicked'
  BY <1>1, <1>3, CommitBlockMoves
<1>7. s.height <= height[n] /\ \A t \in validated[n] : t = s
  BY DEF FollowInv, Holds
<1>8. Follows(n)
  BY <1>2 DEF FollowInv
<1>9. height'[n] \in {Len(chain'[n]), Len(chain'[n]) + 1}
  BY <1>2, <1>3, <1>4, <1>6, <1>7, <1>8 DEF Follows
<1>10. Holds(n)'
  BY <1>5 DEF Holds
<1>. QED
  BY <1>2, <1>3, <1>4, <1>5, <1>6, <1>9, <1>10 DEF Moves, Follows

LEMMA StepMoves ==
  ASSUME TypeOK, FollowInv, NEW n \in Node,
         \/ ProposeBlock(n) \/ OnPrePrepareReceived(n) \/ OnPrepareReceived(n)
         \/ OnCommitReceived(n) \/ OnViewChangeReceived(n) \/ OnNewViewReceived(n)
         \/ OnTimeOut(n)
  PROVE  Moves(n) /\ UNCHANGED validated
<1>1. /\ view[n] \in Nat /\ log[n] \in SUBSET LogEntry /\ candidate[n] \in Candidate
      /\ [view EXCEPT ![n] = view[n]] = view
  BY DEF TypeOK, LogEntry, Candidate
<1>2. n \in Node \ panicked /\ UNCHANGED validated
  BY DEF ProposeBlock, OnPrePrepareReceived, OnPrepareReceived, OnCommitReceived,
         OnViewChangeReceived, OnNewViewReceived, OnTimeOut, Running
<1>3. CASE ProposeBlock(n)
  <2>1. UNCHANGED <<height, chain, view, panicked>>
    BY <1>3 DEF ProposeBlock
  <2>. QED
    BY <1>1, <1>2, <2>1, StaysMoves
<1>4. CASE OnPrePrepareReceived(n)
  <2>1. PICK m \in msgs : m.type = "PRE_PREPARE" /\ AcceptPrePrepare(n, m, view[n])
    BY <1>4 DEF OnPrePrepareReceived
  <2>2. m \in Header
    BY <2>1, MessageKinds DEF TypeOK
  <2>. QED
    BY <1>1, <1>2, <2>1, <2>2, AcceptPrePrepareMoves
<1>5. CASE OnPrepareReceived(n)
  <2>1. PICK m \in msgs :
          /\ m.type = "PREPARE"
          /\ CheckIfPrepared(n, Put(log[n], m), m.view, view[n], candidate[n], {})
    BY <1>5 DEF OnPrepareReceived
  <2>2. m \in Header /\ m \in LogEntry /\ m.view \in Nat
    BY <2>1, MessageKinds DEF TypeOK, LogEntry, Header
  <2>3. Put(log[n], m) \in SUBSET LogEntry
    BY <1>1, <2>2, PutType
  <2>. QED
    BY <1>1, <1>2, <2>1, <2>2, <2>3, CheckIfPreparedMoves
<1>6. CASE OnCommitReceived(n)
  <2>1. PICK m \in msgs :
          /\ m.type = "COMMIT"
          /\ \/ OnCommittedLocally(n, Put(log[n], m), m.view, view[n], candidate[n])
             \/ StayInRound(n, Put(log[n], m), view[n], candidate[n])
    BY <1>6 DEF OnCommitReceived
  <2>2. m \in Header /\ m \in LogEntry /\ m.view \in Nat
    BY <2>1, MessageKinds DEF TypeOK, LogEntry, Header
  <2>3. Put(log[n], m) \in SUBSET LogEntry
    BY <1>1, <2>2, PutType
  <2>. QED
    BY <1>1, <1>2, <2>1, <2>2, <2>3, OnCommittedLocallyMoves, StayInRoundMoves
<1>7. CASE OnViewChangeReceived(n)
  <2>1. PICK m \in msgs :
          /\ m.type = "VIEW_CHANGE"
          /\ m.view >= view[n]
          /\ \/ LocalNewView(n, Put(log[n], m), m.view)
             \/ UNCHANGED <<height, view, chain, panicked>>
    BY <1>7 DEF OnViewChangeReceived
  <2>2. m.view \in Nat
    BY <2>1, MessageKinds DEF TypeOK, ViewChange
  <2>3. CASE LocalNewView(n, Put(log[n], m), m.view)
    <3>1. /\ view' = [view EXCEPT ![n] = m.view]
          /\ UNCHANGED <<height, chain, panicked>>
      BY <2>3 DEF LocalNewView
    <3>. QED
      BY <1>2, <2>1, <2>2, <3>1, StaysMoves
  <2>4. CASE UNCHANGED <<height, view, chain, panicked>>
    BY <1>1, <1>2, <2>4, StaysMoves
  <2>. QED
    BY <2>1, <2>3, <2>4
<1>8. CASE OnNewViewReceived(n)
  <2>1. PICK m \in msgs : /\ m.type = "NEW_VIEW" /\ m.view >= view[n]
                          /\ AcceptPrePrepare(n, m.pp, m.view)
    BY <1>8 DEF OnNewViewReceived
  <2>2. m.pp \in Header /\ m.view \in Nat
    BY <2>1, MessageKinds DEF TypeOK, NewView
  <2>. QED
    BY <1>2, <2>1, <2>2, AcceptPrePrepareMoves
<1>9. CASE OnTimeOut(n)
  <2>1. /\ view' = [view EXCEPT ![n] = view[n] + 1]
        /\ UNCHANGED <<height, chain, panicked>>
    BY <1>9 DEF OnTimeOut
  <2>2. view[n] + 1 \in Nat /\ view[n] + 1 >= view[n]
    BY <1>1
  <2>. QED
    BY <1>2, <2>1, <2>2, StaysMoves
<1>. QED
  BY <1>2, <1>3, <1>4, <1>5, <1>6, <1>7, <1>8, <1>9

\* A step of Next is a move of a node that is up.
LEMMA NextMoves ==
  ASSUME TypeOK, FollowInv, [Next]_vars
  PROVE  UNCHANGED vars \/ \E n \in Live : Moves(n)
<1> USE QuorumAssumption
<1>1. ASSUME NEW n \in Live,
             \/ ProposeBlock(n) \/ OnPrePrepareReceived(n) \/ OnPrepareReceived(n)
             \/ OnCommitReceived(n) \/ OnViewChangeReceived(n) \/ OnNewViewReceived(n)
             \/ OnTimeOut(n)
      PROVE  Moves(n)
  BY <1>1, StepMoves
<1>2. ASSUME NEW n \in Live, NEW p \in Live, ValidateBlockForCommit(n, p)
      PROVE  Moves(n)
  BY <1>2, ValidateBlockForCommitMoves
<1>3. ASSUME NEW n \in Live, CommitSyncedBlock(n) PROVE Moves(n)
  BY <1>3, CommitSyncedBlockMoves
<1>. QED
  BY <1>1, <1>2, <1>3 DEF Next, Proposing, OtherStep

LEMMA FollowsStep ==
  ASSUME TypeOK, FollowInv, [Next]_vars
  PROVE  FollowInv'
<1>1. CASE UNCHANGED vars
  BY <1>1 DEF vars, FollowInv, Follows, Holds
<1>2. ASSUME NEW n \in Node, Moves(n) PROVE FollowInv'
  <2>1. ASSUME NEW a \in Node, a # n
        PROVE  /\ a \notin panicked' => Follows(a)'
               /\ Holds(a)'
    BY <1>2, <2>1 DEF Moves, FollowInv, Follows, Holds
  <2>2. (n \notin panicked' => Follows(n)') /\ Holds(n)'
    BY <1>2 DEF Moves
  <2>. QED
    BY <2>1, <2>2 DEF FollowInv
<1>. QED
  BY <1>1, <1>2, NextMoves, QuorumAssumption

\* A block that block sync holds is stored where it came from.
LEMMA SyncStep ==
  ASSUME TypeOK, TypeOK', FollowInv, SyncInv, [Next]_vars
  PROVE  SyncInv'
<1> USE QuorumAssumption
<1>1. CASE UNCHANGED vars
  BY <1>1 DEF vars, SyncInv
<1>2. ASSUME NEW n \in Node, Moves(n),
             NEW a \in Node, NEW s \in validated[a]
      PROVE  /\ s.height <= Len(chain'[a]) + 1
             /\ \E p \in Node : /\ s.height <= Len(chain'[p])
                                /\ chain'[p][s.height] = s.block
  <2>1. \A b \in Node : chain[b] \in Seq(Committed)
    BY DEF TypeOK
  <2>2. s.height \in Nat \ {0}
    BY DEF TypeOK, Validated
  <2>3. ASSUME NEW b \in Node
        PROVE  /\ Len(chain'[b]) >= Len(chain[b])
               /\ \A h \in 1 .. Len(chain[b]) : chain'[b][h] = chain[b][h]
    BY <1>2, <2>1 DEF Moves
  <2>4. s.height <= Len(chain[a]) + 1
    BY DEF SyncInv
  <2>5. PICK p \in Node : s.height <= Len(chain[p]) /\ chain[p][s.height] = s.block
    BY DEF SyncInv
  <2>6. /\ Len(chain[a]) \in Nat /\ Len(chain'[a]) \in Nat
        /\ Len(chain[p]) \in Nat /\ Len(chain'[p]) \in Nat
    <3>1. /\ chain \in [Node -> Seq(Committed)]
          /\ chain' \in [Node -> Seq(Committed)]
      BY DEF TypeOK
    <3>. QED
      BY <3>1
  <2>7. s.height <= Len(chain'[a]) + 1 /\ s.height <= Len(chain'[p])
    <3>1. Len(chain[a]) <= Len(chain'[a]) /\ Len(chain[p]) <= Len(chain'[p])
      BY <2>3, <2>6
    <3>2. s.height <= Len(chain[p])
      BY <2>5
    <3>3. \A h, i, j \in Nat :
            i <= j => (h <= i => h <= j) /\ (h <= i + 1 => h <= j + 1)
      OBVIOUS
    <3>4. s.height \in Nat
      BY <2>2
    <3>. QED
      BY <2>4, <2>6, <3>1, <3>2, <3>3, <3>4, Zenon
  <2>8. chain'[p][s.height] = s.block
    BY <2>2, <2>3, <2>5, <2>6
  <2>. QED
    BY <2>7, <2>8
<1>3. ASSUME NEW n \in Node, Moves(n), UNCHANGED validated
      PROVE  SyncInv'
  BY <1>2, <1>3 DEF SyncInv
<1>4. ASSUME NEW n \in Live, CommitSyncedBlock(n) PROVE SyncInv'
  <2>1. Moves(n) /\ validated'[n] = {}
    BY <1>4, CommitSyncedBlockMoves
  <2>2. \A a \in Node \ {n} : validated'[a] = validated[a]
    BY <2>1 DEF Moves
  <2>. QED
    BY <1>2, <2>1, <2>2 DEF SyncInv
<1>5. ASSUME NEW n \in Live, NEW p \in Live, ValidateBlockForCommit(n, p) PROVE SyncInv'
  <2>1. PICK s : /\ validated'[n] = {s}
                 /\ s.height = Len(chain[n]) + 1 /\ s.height <= Len(chain[p])
                 /\ s.block = chain[p][s.height]
    BY <1>5, ValidateBlockForCommitMoves
  <2>2. Moves(n) /\ UNCHANGED chain
    BY <1>5, ValidateBlockForCommitMoves
  <2>3. \A a \in Node \ {n} : validated'[a] = validated[a]
    BY <2>2 DEF Moves
  <2>4. /\ s.height <= Len(chain[n]) + 1
        /\ \E q \in Node : s.height <= Len(chain[q]) /\ chain[q][s.height] = s.block
    <3>1. Len(chain[n]) + 1 <= Len(chain[n]) + 1
      BY DEF TypeOK
    <3>. QED
      BY <2>1, <3>1
  <2>. QED
    BY <1>2, <2>1, <2>2, <2>3, <2>4 DEF SyncInv
<1>6. ASSUME NEW n \in Live,
             \/ ProposeBlock(n) \/ OnPrePrepareReceived(n) \/ OnPrepareReceived(n)
             \/ OnCommitReceived(n) \/ OnViewChangeReceived(n) \/ OnNewViewReceived(n)
             \/ OnTimeOut(n)
      PROVE  SyncInv'
  BY <1>3, <1>6, StepMoves
<1>. QED
  BY <1>1, <1>4, <1>5, <1>6 DEF Next, Proposing, OtherStep

LEMMA InitFollows == Init => FollowInv /\ SyncInv
  BY DEF Init, FollowInv, Follows, Holds, SyncInv

LEMMA FollowsCorrect == Spec => [](FollowInv /\ SyncInv)
<1>1. TypeOK /\ TypeOK' /\ FollowInv /\ SyncInv /\ [Next]_vars => FollowInv' /\ SyncInv'
  BY FollowsStep, SyncStep
<1>. QED
  BY <1>1, InitFollows, TypeCorrect, PTL DEF Spec

\* The term a node runs is the first block its BlockStorage misses or the last one it
\* has; it is two ahead of the storage only between the two calls of block sync, while
\* the block in between is validated and not stored yet.
THEOREM TermsFollowStorage == Spec => []TermFollowsStorage
<1>1. FollowInv => TermFollowsStorage
  BY DEF FollowInv, Follows, TermFollowsStorage
<1>. QED
  BY <1>1, FollowsCorrect, PTL

\* Terms, views within a term and BlockStorages only go forward, whatever arrives
\* late, again or never.
THEOREM NodesGoForward == Spec => OnlyForward
<1> DEFINE A == \A n \in Node :
              /\ \/ height'[n] = height[n] /\ view'[n] >= view[n]
                 \/ height'[n] > height[n] /\ view'[n] = 0
              /\ \/ chain'[n] = chain[n]
                 \/ /\ Len(chain'[n]) = Len(chain[n]) + 1
                    /\ SubSeq(chain'[n], 1, Len(chain[n])) = chain[n]
<1>1. ASSUME TypeOK, FollowInv, [Next]_vars
      PROVE  [A]_vars
  <2>1. UNCHANGED vars \/ \E n \in Live : Moves(n)
    BY <1>1, NextMoves
  <2>2. ASSUME NEW m \in Live, Moves(m), NEW n \in Node
        PROVE  /\ \/ height'[n] = height[n] /\ view'[n] >= view[n]
                  \/ height'[n] > height[n] /\ view'[n] = 0
               /\ \/ chain'[n] = chain[n]
                  \/ /\ Len(chain'[n]) = Len(chain[n]) + 1
                     /\ SubSeq(chain'[n], 1, Len(chain[n])) = chain[n]
    <3>1. chain[n] \in Seq(Committed) /\ view[n] \in Nat
      BY <1>1 DEF TypeOK
    <3>2. ASSUME NEW blk \in Committed, chain'[n] = Append(chain[n], blk)
          PROVE  /\ Len(chain'[n]) = Len(chain[n]) + 1
                 /\ SubSeq(chain'[n], 1, Len(chain[n])) = chain[n]
      BY <3>1, <3>2
    <3>. QED
      BY <2>2, <3>1, <3>2 DEF Moves
  <2>. QED
    BY <2>1, <2>2
<1>. QED
  BY <1>1, FollowsCorrect, TypeCorrect, PTL DEF Spec, OnlyForward

-----------------------------------------------------------------------------
(* Every handler keeps the invariant.                                      *)

LEMMA InitSafe == Init => AgreementInv
<1> SUFFICES ASSUME Init PROVE AgreementInv
  OBVIOUS
<1>1. msgs = {} /\ \A n \in Node : log[n] = {} /\ chain[n] = <<>>
  BY DEF Init
<1>2. ProofInv
  BY DEF Init, ProofInv, ProofSent, NoProof
<1>. QED
  BY <1>1, <1>2 DEF AgreementInv, LogInv, ChangeInv, ProposerInv, ProposalInv,
     PrepareInv, CommitInv, ChainInv

LEMMA ProposeBlockSafe ==
  ASSUME TypeOK, TypeOK', AgreementInv, NEW n \in Node, view[n] = 0, ProposeBlock(n)
  PROVE  AgreementInv'
<1>1. PICK b \in Block :
        LET pp == MakeHeader("PRE_PREPARE", n, height[n], view[n], b)
        IN /\ msgs' = msgs \cup {pp}
           /\ log' = [log EXCEPT ![n] = Put(@, pp)]
           /\ candidate' = [candidate EXCEPT ![n] = [block |-> b, hash |-> b]]
  BY DEF ProposeBlock
<1>2. PICK pp : pp = MakeHeader("PRE_PREPARE", n, height[n], 0, b)
  OBVIOUS
<1>3. /\ pp.type = "PRE_PREPARE" /\ pp.sender = n /\ pp.height = height[n]
      /\ pp.view = 0 /\ pp.hash = b
  BY <1>2 DEF MakeHeader
<1>4. /\ UNCHANGED <<height, view, prepared, preparedProof, newViewTriggered,
                     chain, panicked>>
      /\ view[n] = 0 /\ n = Leader(0) /\ ~Proposed(n)
  BY DEF ProposeBlock
<1>5. msgs' = msgs \cup {pp}
  BY <1>1, <1>2
<1>6. /\ log'[n] = Put(log[n], pp)
      /\ \A a \in Node \ {n} : log'[a] = log[a]
  BY <1>1, <1>2 DEF TypeOK
<1>7. preparedProof[n].view \in Int /\ view[n] \in Int
  BY DEF TypeOK, Proof
<1>8. OthersKeep(n)
  BY <1>4, <1>6 DEF OthersKeep
<1>9. Advances(n)
  BY <1>4, <1>6, <1>7, PutLogged DEF Advances, Continues
<1>10. Signs(n)
  BY <1>3, <1>5 DEF Signs
<1>11. Grows
  BY <1>8, <1>9, <1>10, GrowsFrom
<1>12. ProposerOK(pp)'
  BY <1>3, <1>4, <1>6, PutIsLogged DEF ProposerOK
\* The round had no proposal yet: only its leader could have made it.
<1>13. Proposals(pp.height, 0) = {}
  <2>1. ASSUME NEW m \in msgs, m.type \in {"PRE_PREPARE", "NEW_VIEW"},
               m.height = height[n], m.view = 0
        PROVE  FALSE
    <3>1. ProposerOK(m)
      BY DEF AgreementInv, ProposerInv
    <3>2. m.type = "PRE_PREPARE"
      BY <2>1, <3>1 DEF ProposerOK
    <3>3. m.sender = n
      BY <1>4, <3>1, <3>2 DEF ProposerOK
    <3>. QED
      BY <1>4, <2>1, <3>2, <3>3 DEF Proposed
  <2>. QED
    BY <1>3, <2>1 DEF Proposals
<1>14. Proposals(pp.height, 0)' = {b}
  BY <1>3, <1>5, <1>13 DEF Proposals
<1>15. SentOK(pp)
  BY <1>3, <1>12, <1>14 DEF SentOK
<1>16. \A m \in log'[n] : EntryOK(n, m)'
  <2>1. EntryOK(n, pp)'
    BY <1>3, <1>4, <1>14 DEF EntryOK
  <2>2. log[n] \in SUBSET LogEntry
    BY DEF TypeOK, LogEntry
  <2>3. \A m \in log[n] : EntryOK(n, m)'
    <3>1. Entries(n, log[n], view[n], msgs')
      BY <1>5, OwnEntries DEF Entries
    <3>. QED
      BY <1>4, <1>11, <2>2, <3>1, EntriesOK
  <2>. QED
    BY <1>6, <2>1, <2>3 DEF Put
<1>17. preparedProof'[n].view <= view'[n] /\ ProofSent(preparedProof[n])'
  BY <1>4, <1>5 DEF AgreementInv, ProofInv, ProofSent
<1>18. Sourced(n)
  BY <1>4 DEF Sourced
<1>. QED
  BY <1>5, <1>8, <1>9, <1>10, <1>15, <1>16, <1>17, <1>18, SafetyStep

LEMMA TimelyPrePrepareSafe ==
  ASSUME TypeOK, TypeOK', AgreementInv, NEW n \in Node, view[n] = 0,
         OnPrePrepareReceived(n)
  PROVE  AgreementInv'
<1>1. PICK m \in msgs : /\ m.type = "PRE_PREPARE"
                        /\ m.height = height[n]
                        /\ m.view = 0
                        /\ AcceptPrePrepare(n, m, 0)
                        /\ UNCHANGED newViewTriggered
  BY DEF OnPrePrepareReceived
<1>2. m \in Header
  BY <1>1, MessageKinds DEF TypeOK
<1>3. m.hash \in Proposals(m.height, 0)
  BY <1>1 DEF Proposals
<1>4. SafeAt(m.height, 0, m.hash)
  BY DEF SafeAt
<1>. QED
  BY <1>1, <1>2, <1>3, <1>4, AcceptPrePrepareSafe

\* A PREPARE, logged, completes only the view the node is in: no proposal of a
\* later view is in its log.
LEMMA PrepareReady ==
  ASSUME TypeOK, AgreementInv, NEW n \in Node, NEW m \in msgs, m.type = "PREPARE",
         m.height = height[n], m.view >= view[n]
  PROVE  Ready(n, Put(log[n], m), m.view, view[n], {})
<1> DEFINE L == Put(log[n], m)
<1>1. m \in Header /\ m.view \in Nat /\ view[n] \in Nat
  BY MessageKinds DEF TypeOK, Header
<1>2. Entries(n, L, view[n], msgs \cup {})
  BY OwnEntries DEF Entries, Put
<1>3. IsPrepared(L, m.view) => m.view = view[n]
  <2> SUFFICES ASSUME NEW pp \in Of(L, "PRE_PREPARE", m.view)
               PROVE  m.view = view[n]
    BY DEF IsPrepared
  <2>1. pp.view <= view[n] /\ pp.view = m.view
    BY <1>2 DEF Of, Entries
  <2>. QED
    BY <1>1, <2>1
<1>. QED
  BY <1>1, <1>2, <1>3, PutLogged DEF Ready, Answers

LEMMA OnPrepareReceivedSafe ==
  ASSUME TypeOK, TypeOK', AgreementInv, NEW n \in Node, OnPrepareReceived(n)
  PROVE  AgreementInv'
<1>1. PICK m \in msgs :
        /\ m.type = "PREPARE"
        /\ m.height = height[n]
        /\ m.view >= view[n]
        /\ CheckIfPrepared(n, Put(log[n], m), m.view, view[n], candidate[n], {})
        /\ UNCHANGED newViewTriggered
  BY DEF OnPrepareReceived
<1> DEFINE L == Put(log[n], m)
<1>2. m \in Header /\ m.view \in Nat
  BY <1>1, MessageKinds DEF TypeOK, Header
<1>3. view[n] \in Nat /\ candidate[n] \in Candidate
  BY DEF TypeOK, Candidate
<1>4. L \in SUBSET LogEntry
  BY <1>2, PutType DEF TypeOK, LogEntry
<1>5. Ready(n, L, m.view, view[n], {})
  BY <1>1, PrepareReady
<1> HIDE DEF L
<1>. QED
  BY <1>1, <1>2, <1>3, <1>4, <1>5, CheckIfPreparedSafe DEF L

LEMMA OnNewViewReceivedSafe ==
  ASSUME TypeOK, TypeOK', AgreementInv, NEW n \in Node, OnNewViewReceived(n)
  PROVE  AgreementInv'
<1>1. PICK m \in msgs :
        /\ m.type = "NEW_VIEW"
        /\ m.height = height[n]
        /\ m.view >= view[n]
        /\ ValidNewViewProof(m)
        /\ m.pp = MakeHeader("PRE_PREPARE", m.sender, m.height, m.view, m.block)
        /\ \E x \in Highest(m.proof) :
             x.proof = NoProof \/ m.pp.hash = x.proof.hash
        /\ AcceptPrePrepare(n, m.pp, m.view)
        /\ UNCHANGED newViewTriggered
  BY DEF OnNewViewReceived
<1>2. m.pp \in Header /\ m.view \in Nat
  BY <1>1, MessageKinds DEF TypeOK, NewView
<1>3. /\ m.pp.type = "PRE_PREPARE" /\ m.pp.height = height[n]
      /\ m.pp.view = m.view /\ m.pp.height = m.height
  BY <1>1 DEF MakeHeader
<1>4. m.pp.hash \in Proposals(m.pp.height, m.view)
  BY <1>1, <1>3 DEF Proposals
<1>5. SafeAt(m.pp.height, m.view, m.pp.hash)
  BY <1>1, <1>3, NewViewSafe
<1>6. view[n] <= m.view
  BY <1>1, <1>2 DEF TypeOK
<1>. QED
  BY <1>1, <1>2, <1>3, <1>4, <1>5, <1>6, AcceptPrePrepareSafe

LEMMA OnCommitReceivedSafe ==
  ASSUME TypeOK, TypeOK', AgreementInv, NEW n \in Node, OnCommitReceived(n)
  PROVE  AgreementInv'
<1>1. PICK m \in msgs :
        /\ m.type = "COMMIT"
        /\ m.height = height[n]
        /\ LET L == Put(log[n], m)
           IN IF IsCommitted(L, m.view)
              THEN OnCommittedLocally(n, L, m.view, view[n], candidate[n])
              ELSE /\ StayInRound(n, L, view[n], candidate[n])
                   /\ UNCHANGED preparedProof
        /\ UNCHANGED <<prepared, newViewTriggered, msgs>>
  BY DEF OnCommitReceived
<1>2. PICK L : L = Put(log[n], m)
  OBVIOUS
<1>3. m \in Header /\ m.view \in Nat
  BY <1>1, MessageKinds DEF TypeOK, Header
<1>4. view[n] \in Nat /\ candidate[n] \in Candidate /\ height[n] \in Nat
  BY DEF TypeOK, Candidate
<1>5. L \in SUBSET LogEntry
  BY <1>2, <1>3, PutType DEF TypeOK, LogEntry
<1>6. Entries(n, L, view[n], msgs')
  BY <1>1, <1>2, OwnEntries DEF Entries, Put
<1>7. Signs(n)
  BY <1>1 DEF Signs
<1>8. CASE IsCommitted(L, m.view)
  <2>1. OnCommittedLocally(n, L, m.view, view[n], candidate[n])
    BY <1>1, <1>2, <1>8
  <2>2. /\ height' = [height EXCEPT ![n] = height[n] + 1]
        /\ view' = [view EXCEPT ![n] = 0]
        /\ log' = [log EXCEPT ![n] = {}]
        /\ preparedProof' = [preparedProof EXCEPT ![n] = NoProof]
        /\ \A a \in Node \ {n} : chain'[a] = chain[a]
        /\ Sourced(n)
    BY <1>3, <1>4, <1>5, <1>6, <2>1, OnCommittedLocallySafe
  <2>3. /\ height'[n] > height[n]
        /\ view'[n] = 0 /\ log'[n] = {} /\ preparedProof'[n] = NoProof
    BY <1>4, <2>2 DEF TypeOK
  <2>4. OthersKeep(n)
    BY <1>1, <2>2 DEF OthersKeep, TypeOK
  <2>5. ProofSent(preparedProof[n])' /\ preparedProof'[n].view <= view'[n]
    BY <2>3 DEF ProofSent, NoProof
  <2>6. Advances(n)
    BY <2>3 DEF Advances
  <2>. QED
    BY <1>1, <1>7, <2>2, <2>3, <2>4, <2>5, <2>6, SafetyStep
<1>9. CASE ~IsCommitted(L, m.view)
  <2>1. /\ StayInRound(n, L, view[n], candidate[n])
        /\ UNCHANGED <<prepared, preparedProof, newViewTriggered>>
    BY <1>1, <1>2, <1>9
  <2>2. Ready(n, L, view[n], view[n], {})
    <3>1. Logged(log[n], "PRE_PREPARE", 0, n) => Logged(L, "PRE_PREPARE", 0, n)
      BY <1>2, PutLogged
    <3>. QED
      BY <1>1, <1>4, <1>6, <3>1 DEF Ready, Answers
  <2>3. msgs' = msgs \cup {}
    BY <1>1
  <2>. QED
    BY <1>4, <1>5, <2>1, <2>2, <2>3, NotPreparedSafe
<1>. QED
  BY <1>8, <1>9

\* A VIEW_CHANGE tells the latest view its sender committed in: the node still
\* has the proof.
LEMMA OnTimeOutSafe ==
  ASSUME TypeOK, TypeOK', AgreementInv, NEW n \in Node, OnTimeOut(n)
  PROVE  AgreementInv'
<1> DEFINE v == view[n] + 1
<1>1. PICK x : x = [type |-> "VIEW_CHANGE", height |-> height[n], view |-> v,
                    sender |-> n, proof |-> ChangeProof(n),
                    block |-> IF prepared[n] THEN candidate[n].block
                                             ELSE NoBlock]
  OBVIOUS
<1>2. /\ x.type = "VIEW_CHANGE" /\ x.height = height[n] /\ x.view = v
      /\ x.sender = n /\ x.proof = ChangeProof(n)
  BY <1>1
<1>3. /\ view' = [view EXCEPT ![n] = v]
      /\ log' = [log EXCEPT ![n] = Put(log[n], x)]
      /\ msgs' \subseteq msgs \cup {x}
      /\ msgs \subseteq msgs'
      /\ newViewTriggered' = [newViewTriggered EXCEPT ![n] = FALSE]
      /\ UNCHANGED <<height, candidate, prepared, preparedProof, chain, panicked>>
  BY <1>1 DEF OnTimeOut
<1>4. /\ view'[n] = v /\ log'[n] = Put(log[n], x)
      /\ \A a \in Node \ {n} : /\ view'[a] = view[a]
                               /\ log'[a] = log[a]
                               /\ newViewTriggered'[a] = newViewTriggered[a]
  BY <1>3 DEF TypeOK
<1>5. view[n] \in Nat /\ preparedProof[n].view \in Int /\ height[n] \in Nat
  BY DEF TypeOK, Proof
<1>6. preparedProof[n].view <= view[n] /\ ProofSent(preparedProof[n])
  BY DEF AgreementInv, ProofInv
<1>7. OthersKeep(n)
  BY <1>3, <1>4 DEF OthersKeep
<1>8. Advances(n)
  <2>1. view'[n] >= view[n] /\ view'[n] # view[n]
    BY <1>4, <1>5
  <2>. QED
    BY <1>3, <1>4, <1>5, <2>1, PutLogged DEF Advances, Continues
<1>9. Signs(n)
  BY <1>2, <1>3 DEF Signs
<1>10. Grows
  BY <1>7, <1>8, <1>9, GrowsFrom
<1>11. ChangeOK(x)'
  <2>1. ProofSent(x.proof)'
    BY <1>2, <1>3, <1>6 DEF ChangeProof, ProofSent, NoProof
  <2>2. Reached(x.sender, x.height, x.view)'
    BY <1>2, <1>3, <1>4, <1>5 DEF Reached
  <2>3. ASSUME NEW c \in msgs', c.type = "COMMIT", c.sender = n,
               c.height = height[n], c.view < v
        PROVE  x.proof.view >= c.view
    <3>1. c \in msgs
      BY <1>2, <1>3, <2>3
    <3>2. CommitOK(c)
      BY <2>3, <3>1 DEF AgreementInv, CommitInv
    <3>3. ~(height[n] > c.height)
      BY <1>5, <2>3
    <3>4. prepared[n] /\ preparedProof[n].view >= c.view
      BY <2>3, <3>2, <3>3 DEF CommitOK
    <3>. QED
      BY <1>2, <3>4 DEF ChangeProof
  <2>4. x.view >= 1
    BY <1>2, <1>5
  <2>. QED
    BY <1>2, <2>1, <2>2, <2>3, <2>4 DEF ChangeOK
<1>12. \A m \in msgs' \ msgs : SentOK(m)
  BY <1>2, <1>3, <1>11 DEF SentOK, ProposerOK
<1>13. \A m \in log'[n] : EntryOK(n, m)'
  <2>1. EntryOK(n, x)'
    BY <1>2, <1>3, <1>11 DEF EntryOK
  <2>2. ASSUME NEW m \in log[n] PROVE EntryOK(n, m)'
    <3>1. m \in LogEntry
      BY DEF TypeOK, LogEntry
    <3>2. EntryOK(n, m)
      BY DEF AgreementInv, LogInv
    <3>3. m.type = "VIEW_CHANGE" => ChangeOK(m)'
      BY <1>10, <3>1, <3>2, EntryKinds, ChangeOKStable DEF EntryOK
    <3>4. m.type = "PRE_PREPARE" => m.view <= view'[n]
      BY <1>4, <1>5, <3>1, <3>2, EntryKinds DEF EntryOK, Header
    <3>5. m.type = "PRE_PREPARE" => m.hash \in Proposals(m.height, m.view)'
      BY <1>3, <3>2, ProposalsGrow DEF EntryOK
    <3>. QED
      BY <1>3, <3>2, <3>3, <3>4, <3>5 DEF EntryOK
  <2>. QED
    BY <1>4, <2>1, <2>2 DEF Put
<1>14. preparedProof'[n].view <= view'[n]
  BY <1>3, <1>4, <1>5, <1>6
<1>15. ProofSent(preparedProof[n])'
  BY <1>3, <1>6 DEF ProofSent
<1>16. Sourced(n)
  BY <1>3 DEF Sourced
<1>. QED
  BY <1>7, <1>8, <1>9, <1>12, <1>13, <1>14, <1>15, <1>16, SafetyStep

\* A leader starts a view once: after it NewViewTriggered stays set as long as
\* the node is in the view.
LEMMA LocalNewViewSafe ==
  ASSUME TypeOK, TypeOK', AgreementInv, NEW n \in Node, NEW L \in SUBSET LogEntry,
         NEW v \in Nat, v >= 1, view[n] <= v, n = Leader(v),
         ~newViewTriggered[n], Entries(n, L, view[n], msgs),
         Logged(log[n], "PRE_PREPARE", 0, n) => Logged(L, "PRE_PREPARE", 0, n),
         LocalNewView(n, L, v)
  PROVE  AgreementInv'
<1> DEFINE changes == Of(L, "VIEW_CHANGE", v)
           proof == {[m EXCEPT !.block = NoBlock] : m \in changes}
<1>1. PICK c, pp, nv :
        /\ pp = MakeHeader("PRE_PREPARE", n, height[n], v, c.hash)
        /\ nv = [type |-> "NEW_VIEW", height |-> height[n], view |-> v,
                 sender |-> n, proof |-> proof, pp |-> pp, block |-> c.block]
        /\ view' = [view EXCEPT ![n] = v]
        /\ newViewTriggered' = [newViewTriggered EXCEPT ![n] = TRUE]
        /\ log' = [log EXCEPT ![n] = Put(L, pp)]
        /\ msgs' = msgs \cup {nv}
        /\ UNCHANGED <<height, prepared, preparedProof, chain, panicked>>
  BY DEF LocalNewView
<1>2. /\ pp.type = "PRE_PREPARE" /\ pp.sender = n /\ pp.height = height[n]
      /\ pp.view = v /\ pp.hash = c.hash
  BY <1>1 DEF MakeHeader
<1>3. /\ nv.type = "NEW_VIEW" /\ nv.sender = n /\ nv.height = height[n]
      /\ nv.view = v /\ nv.proof = proof /\ nv.pp = pp
  BY <1>1
<1>4. /\ view'[n] = v /\ log'[n] = Put(L, pp) /\ newViewTriggered'[n]
      /\ \A a \in Node \ {n} : /\ view'[a] = view[a]
                               /\ log'[a] = log[a]
                               /\ newViewTriggered'[a] = newViewTriggered[a]
  BY <1>1 DEF TypeOK
<1>5. view[n] \in Nat /\ preparedProof[n].view \in Int /\ height[n] \in Nat
  BY DEF TypeOK, Proof
<1>6. OthersKeep(n)
  BY <1>1, <1>4 DEF OthersKeep
<1>7. Advances(n)
  BY <1>1, <1>4, <1>5, PutLogged DEF Advances, Continues
<1>8. Signs(n)
  BY <1>1, <1>3 DEF Signs
<1>9. Grows
  BY <1>6, <1>7, <1>8, GrowsFrom
<1>10. ASSUME NEW x \in proof PROVE ChangeOK(x)'
  <2>1. PICK y \in changes : x = [y EXCEPT !.block = NoBlock]
    OBVIOUS
  <2>2. y \in L /\ y.type = "VIEW_CHANGE"
    BY <2>1 DEF Of
  <2>3. y \in ViewChange /\ ChangeOK(y)
    BY <2>2, EntryKinds DEF Entries
  <2>4. /\ x.sender = y.sender /\ x.height = y.height /\ x.view = y.view
        /\ x.proof = y.proof
    BY <2>1, <2>3 DEF ViewChange
  <2>5. x \in ViewChange
    BY <2>1, <2>3 DEF ViewChange, Hash
  <2>6. ChangeOK(x)
    BY <2>3, <2>4 DEF ChangeOK
  <2>. QED
    BY <1>9, <2>5, <2>6, ChangeOKStable
<1>11. ProposerOK(nv)'
  BY <1>1, <1>3, <1>4 DEF ProposerOK
\* The view had no proposal yet: its leader has not triggered it.
<1>12. Proposals(nv.height, v) = {}
  <2>1. ASSUME NEW m \in msgs, m.type \in {"PRE_PREPARE", "NEW_VIEW"},
               m.height = height[n], m.view = v
        PROVE  FALSE
    <3>1. ProposerOK(m)
      BY DEF AgreementInv, ProposerInv
    <3>2. m.type = "NEW_VIEW"
      BY <2>1, <3>1 DEF ProposerOK
    <3>3. m.sender = n
      BY <2>1, <3>1, <3>2 DEF ProposerOK
    <3>4. Reached(n, m.height, v + 1) \/ newViewTriggered[n]
      BY <2>1, <3>1, <3>2, <3>3 DEF ProposerOK
    <3>5. ~Reached(n, m.height, v + 1)
      BY <1>5, <2>1 DEF Reached
    <3>. QED
      BY <3>4, <3>5
  <2>. QED
    BY <1>3, <2>1 DEF Proposals
<1>13. Proposals(nv.height, v)' = {pp.hash}
  <2>1. \A m \in msgs : m.height = nv.height /\ m.view = v
                          => m.type \notin {"PRE_PREPARE", "NEW_VIEW"}
    BY <1>12 DEF Proposals
  <2>2. {m \in msgs' : m.type = "PRE_PREPARE" /\ m.height = nv.height
                         /\ m.view = v} = {}
    BY <1>1, <1>3, <2>1
  <2>3. {m \in msgs' : m.type = "NEW_VIEW" /\ m.height = nv.height
                         /\ m.view = v} = {nv}
    BY <1>1, <1>3, <2>1
  <2>. QED
    BY <1>3, <2>2, <2>3 DEF Proposals
<1>14. SentOK(nv)
  BY <1>3, <1>10, <1>11, <1>13 DEF SentOK
<1>15. \A m \in log'[n] : EntryOK(n, m)'
  <2>1. EntryOK(n, pp)'
    BY <1>1, <1>2, <1>3, <1>4, <1>13 DEF EntryOK
  <2>2. Entries(n, L, v, msgs')
    <3>1. ASSUME NEW m \in L, m.type = "PRE_PREPARE" PROVE m.view <= v
      <4>1. m.view \in Nat
        BY <3>1, EntryKinds DEF Header
      <4>2. m.view <= view[n]
        BY <3>1 DEF Entries
      <4>. QED
        BY <1>5, <4>1, <4>2
    <3>. QED
      BY <1>1, <3>1 DEF Entries
  <2>3. \A m \in L : EntryOK(n, m)'
    BY <1>1, <1>4, <1>9, <2>2, EntriesOK
  <2>. QED
    BY <1>4, <2>1, <2>3 DEF Put
<1>16. preparedProof'[n].view <= view'[n]
  BY <1>1, <1>4, <1>5 DEF AgreementInv, ProofInv
<1>17. ProofSent(preparedProof[n])'
  BY <1>1 DEF AgreementInv, ProofInv, ProofSent
<1>18. Sourced(n)
  BY <1>1 DEF Sourced
<1>. QED
  BY <1>1, <1>6, <1>7, <1>8, <1>14, <1>15, <1>16, <1>17, <1>18, SafetyStep

LEMMA OnViewChangeReceivedSafe ==
  ASSUME TypeOK, TypeOK', AgreementInv, NEW n \in Node, OnViewChangeReceived(n)
  PROVE  AgreementInv'
<1>1. PICK m \in msgs :
        /\ m.type = "VIEW_CHANGE"
        /\ m.height = height[n]
        /\ m.view >= view[n]
        /\ n = Leader(m.view)
        /\ LET L == Put(log[n], m)
           IN IF StartsNewView(n, L, m.view)
              THEN LocalNewView(n, L, m.view)
              ELSE /\ log' = [log EXCEPT ![n] = L]
                   /\ UNCHANGED <<height, view, candidate, prepared,
                                  preparedProof, newViewTriggered, chain,
                                  panicked, msgs>>
  BY DEF OnViewChangeReceived
<1>2. PICK L : L = Put(log[n], m)
  OBVIOUS
<1>3. m \in ViewChange /\ m.view \in Nat
  BY <1>1, MessageKinds DEF TypeOK, ViewChange
<1>4. ChangeOK(m)
  BY <1>1 DEF AgreementInv, ChangeInv
<1>5. L \in SUBSET LogEntry
  BY <1>2, <1>3, PutType DEF TypeOK, LogEntry
<1>6. Entries(n, L, view[n], msgs)
  BY <1>1, <1>2, <1>4, OwnEntries DEF Entries, Put
<1>7. Logged(log[n], "PRE_PREPARE", 0, n) => Logged(L, "PRE_PREPARE", 0, n)
  BY <1>2, PutLogged
<1>8. view[n] \in Nat /\ m.view >= 1
  BY <1>4 DEF ChangeOK, TypeOK
<1>9. CASE StartsNewView(n, L, m.view)
  <2>1. LocalNewView(n, L, m.view) /\ ~newViewTriggered[n]
    BY <1>1, <1>2, <1>9 DEF StartsNewView
  <2>2. view[n] <= m.view
    BY <1>1, <1>3, <1>8
  <2>. QED
    BY <1>1, <1>3, <1>5, <1>6, <1>7, <1>8, <2>1, <2>2, LocalNewViewSafe
<1>10. CASE ~StartsNewView(n, L, m.view)
  <2>1. /\ log' = [log EXCEPT ![n] = L]
        /\ UNCHANGED <<height, view, candidate, prepared, preparedProof,
                       newViewTriggered, chain, panicked, msgs>>
    BY <1>1, <1>2, <1>10
  <2>2. Ready(n, L, view[n], view[n], {})
    BY <1>6, <1>7, <1>8 DEF Ready, Answers
  <2>3. StayInRound(n, L, view[n], candidate[n]) /\ msgs' = msgs \cup {}
    BY <2>1 DEF StayInRound, TypeOK
  <2>4. candidate[n] \in Candidate
    BY DEF TypeOK, Candidate
  <2>. QED
    BY <1>5, <1>8, <2>1, <2>2, <2>3, <2>4, NotPreparedSafe
<1>. QED
  BY <1>9, <1>10

LEMMA ValidateBlockForCommitSafe ==
  ASSUME TypeOK, TypeOK', AgreementInv, NEW n \in Node, NEW p \in Node,
         ValidateBlockForCommit(n, p)
  PROVE  AgreementInv'
<1> DEFINE h == Len(chain[n]) + 1
<1>1. /\ Acknowledge(n, h)
      /\ UNCHANGED <<prepared, newViewTriggered, chain, msgs>>
  BY DEF ValidateBlockForCommit
<1>2. /\ chain[n] \in Seq(Committed) /\ height[n] \in Nat /\ view[n] \in Nat
      /\ preparedProof[n].view \in Int
  BY DEF TypeOK, Proof
<1>3. Sourced(n)
  BY <1>1 DEF Sourced
<1>4. Signs(n)
  BY <1>1 DEF Signs
<1>5. CASE h <= height[n]
  <2>1. UNCHANGED <<height, view, log, preparedProof, prepared,
                    newViewTriggered, chain, msgs>>
    BY <1>1, <1>5 DEF Acknowledge
  <2>2. OthersKeep(n)
    BY <2>1 DEF OthersKeep
  <2>3. Advances(n)
    BY <1>2, <2>1 DEF Advances, Continues
  <2>4. Grows
    BY <1>4, <2>2, <2>3, GrowsFrom
  <2>5. \A m \in log'[n] : EntryOK(n, m)'
    <3>1. Entries(n, log[n], view[n], msgs')
      BY <2>1, OwnEntries
    <3>2. log[n] \in SUBSET LogEntry
      BY DEF TypeOK, LogEntry
    <3>. QED
      BY <2>1, <2>4, <3>1, <3>2, EntriesOK
  <2>6. preparedProof'[n].view <= view'[n] /\ ProofSent(preparedProof[n])'
    BY <2>1 DEF AgreementInv, ProofInv, ProofSent
  <2>. QED
    BY <1>3, <1>4, <2>1, <2>2, <2>3, <2>5, <2>6, SafetyStep
<1>6. CASE ~(h <= height[n])
  <2>1. InitNextRound(n, h, candidate[n])
    BY <1>1, <1>6 DEF Acknowledge
  <2>2. /\ height'[n] = h + 1 /\ view'[n] = 0 /\ log'[n] = {}
        /\ preparedProof'[n] = NoProof
        /\ \A a \in Node \ {n} : /\ height'[a] = height[a]
                                 /\ view'[a] = view[a]
                                 /\ log'[a] = log[a]
                                 /\ preparedProof'[a] = preparedProof[a]
    BY <2>1 DEF InitNextRound, TypeOK
  <2>3. OthersKeep(n)
    BY <1>1, <2>2 DEF OthersKeep
  <2>4. Advances(n)
    BY <1>2, <1>6, <2>2 DEF Advances
  <2>5. preparedProof'[n].view <= view'[n] /\ ProofSent(preparedProof[n])'
    BY <2>2 DEF ProofSent, NoProof
  <2>. QED
    BY <1>1, <1>3, <1>4, <2>2, <2>3, <2>4, <2>5, SafetyStep
<1>. QED
  BY <1>5, <1>6

\* The block committed was stored elsewhere when it was validated, and still is.
LEMMA CommitSyncedBlockSafe ==
  ASSUME TypeOK, TypeOK', AgreementInv, FollowInv, SyncInv, NEW n \in Node,
         CommitSyncedBlock(n)
  PROVE  AgreementInv'
<1>1. UNCHANGED <<height, view, log, prepared, preparedProof, newViewTriggered, msgs>>
  BY DEF CommitSyncedBlock
<1>2. /\ \A a \in Node \ {n} : chain'[a] = chain[a]
      /\ \/ chain'[n] = chain[n]
         \/ \E s \in validated[n] : /\ s.height = Len(chain[n]) + 1
                                    /\ chain'[n] = Append(chain[n], s.block)
  BY CommitSyncedBlockMoves DEF Moves
<1>3. OthersKeep(n)
  BY <1>1, <1>2 DEF OthersKeep
<1>4. Advances(n)
  <2>1. view[n] \in Nat /\ preparedProof[n] \in Proof
    BY DEF TypeOK
  <2>2. view[n] >= view[n] /\ preparedProof[n].view >= preparedProof[n].view
    BY <2>1 DEF Proof
  <2>. QED
    BY <1>1, <2>2 DEF Advances, Continues
<1>5. Signs(n)
  BY <1>1 DEF Signs
<1>6. Sourced(n)
  <2>1. CASE chain'[n] = chain[n]
    BY <2>1 DEF Sourced
  <2>2. ASSUME NEW s \in validated[n], s.height = Len(chain[n]) + 1,
               chain'[n] = Append(chain[n], s.block)
        PROVE  Sourced(n)
    <3>1. PICK p \in Node : s.height <= Len(chain[p]) /\ chain[p][s.height] = s.block
      BY DEF SyncInv
    <3>2. chain[n] \in Seq(Committed) /\ chain[p] \in Seq(Committed)
      BY DEF TypeOK
    <3> SUFFICES ASSUME NEW i \in 1 .. Len(chain'[n])
                 PROVE  \E q \in Node : /\ i \in 1 .. Len(chain[q])
                                        /\ chain'[n][i] = chain[q][i]
      BY DEF Sourced
    <3>3. CASE i = s.height
      BY <2>2, <3>1, <3>2, <3>3
    <3>4. CASE i # s.height
      BY <2>2, <3>2, <3>4
    <3>. QED
      BY <3>3, <3>4
  <2>. QED
    BY <1>2, <2>1, <2>2
<1>7. \A m \in log'[n] : EntryOK(n, m)'
  <2>1. Entries(n, log[n], view[n], msgs')
    BY <1>1, OwnEntries
  <2>2. log[n] \in SUBSET LogEntry
    BY DEF TypeOK, LogEntry
  <2>3. Grows
    BY <1>3, <1>4, <1>5, GrowsFrom
  <2>. QED
    BY <1>1, <2>1, <2>2, <2>3, EntriesOK
<1>8. preparedProof'[n].view <= view'[n] /\ ProofSent(preparedProof[n])'
  BY <1>1 DEF AgreementInv, ProofInv, ProofSent
<1>. QED
  BY <1>1, <1>3, <1>4, <1>5, <1>6, <1>7, <1>8, SafetyStep

-----------------------------------------------------------------------------
(* Proofs stay valid.                                                      *)

\* A log in which every proposal comes from the leader of its view and that of
\* view w is the candidate.
Backed(L, w, c) ==
  \A m \in L : m.type = "PRE_PREPARE" =>
                 m.sender = Leader(m.view) /\ (m.view = w => m.hash = c.hash)

\* What a step has to show of the node that takes it for EvidenceInv.
Evident(n) ==
  /\ \A a \in Node \ {n} : /\ height'[a] = height[a]
                           /\ view'[a] = view[a]
                           /\ log'[a] = log[a]
                           /\ candidate'[a] = candidate[a]
                           /\ preparedProof'[a] = preparedProof[a]
  /\ \/ height'[n] > height[n]
     \/ /\ height'[n] = height[n]
        /\ view'[n] >= view[n]
        /\ \A v : Logged(log[n], "PRE_PREPARE", v, n)
                    => Logged(log'[n], "PRE_PREPARE", v, n)
  /\ Backed(log'[n], view'[n], candidate'[n])
  /\ ValidPreparedProof(preparedProof'[n], height'[n], view'[n] + 1)
  /\ msgs \subseteq msgs'
  /\ \A m \in msgs' \ msgs :
       /\ m.type = "PREPARE" => m.sender # Leader(m.view)
       /\ m.type = "VIEW_CHANGE" => ValidPreparedProof(m.proof, m.height, m.view)
       /\ m.type = "NEW_VIEW" =>
            m.sender = n /\ Logged(log'[n], "PRE_PREPARE", m.view, n)

LEMMA EvidenceStep ==
  ASSUME TypeOK, TypeOK', AgreementInv, EvidenceInv, NEW n \in Node, Evident(n)
  PROVE  EvidenceInv'
<1>1. ASSUME NEW m \in msgs' PROVE m.type = "PREPARE" => m.sender # Leader(m.view)
  BY DEF Evident, EvidenceInv, LeaderInv
<1>2. ASSUME NEW m \in msgs', m.type = "NEW_VIEW"
      PROVE  \/ Reached(m.sender, m.height, m.view + 1)'
             \/ Logged(log'[m.sender], "PRE_PREPARE", m.view, m.sender)
  <2>1. CASE m \notin msgs
    BY <1>2, <2>1 DEF Evident
  <2>2. CASE m \in msgs
    <3>1. m.sender \in Node /\ m.height \in Nat /\ m.view \in Nat
      BY <1>2, MessageKinds DEF TypeOK, NewView
    <3>2. /\ height[m.sender] \in Nat /\ height'[m.sender] \in Nat
          /\ view[m.sender] \in Nat /\ view'[m.sender] \in Nat
      BY <3>1 DEF TypeOK
    <3>3. \/ Reached(m.sender, m.height, m.view + 1)
          \/ height[m.sender] = m.height /\ Logged(log[m.sender], "PRE_PREPARE", m.view, m.sender)
      BY <1>2, <2>2 DEF EvidenceInv, LeaderInv, AgreementInv, ProposerInv, ProposerOK
    <3>4. \/ height'[m.sender] > height[m.sender]
          \/ /\ height'[m.sender] = height[m.sender]
             /\ view'[m.sender] >= view[m.sender]
             /\ Logged(log[m.sender], "PRE_PREPARE", m.view, m.sender)
                  => Logged(log'[m.sender], "PRE_PREPARE", m.view, m.sender)
      <4>1. CASE m.sender = n
        BY <4>1 DEF Evident
      <4>2. CASE m.sender # n
        BY <3>1, <3>2, <4>2 DEF Evident
      <4>. QED
        BY <4>1, <4>2
    <3>. QED
      BY <3>1, <3>2, <3>3, <3>4 DEF Reached
  <2>. QED
    BY <2>1, <2>2
<1>3. ASSUME NEW a \in Node
      PROVE  /\ Backed(log'[a], view'[a], candidate'[a])
             /\ ValidPreparedProof(preparedProof'[a], height'[a], view'[a] + 1)
  <2>1. CASE a = n
    BY <2>1 DEF Evident
  <2>2. CASE a # n
    <3>1. Backed(log[a], view[a], candidate[a])
      BY DEF EvidenceInv, LeaderInv, CandidateInv, Backed
    <3>2. ValidPreparedProof(preparedProof[a], height[a], view[a] + 1)
      BY DEF EvidenceInv, ValidInv
    <3>. QED
      BY <2>2, <3>1, <3>2 DEF Evident
  <2>. QED
    BY <2>1, <2>2
<1>4. ASSUME NEW m \in msgs', m.type = "VIEW_CHANGE"
      PROVE  ValidPreparedProof(m.proof, m.height, m.view)
  BY <1>4 DEF Evident, EvidenceInv, ValidInv
<1>5. LeaderInv'
  BY <1>1, <1>2, <1>3 DEF LeaderInv, Backed
<1>6. CandidateInv'
  BY <1>3 DEF CandidateInv, Backed
<1>7. ValidInv'
  <2>1. \A a \in Node : ValidPreparedProof(preparedProof[a], height[a], view[a] + 1)'
    BY <1>3 DEF ValidPreparedProof
  <2>2. \A m \in msgs' : m.type = "VIEW_CHANGE" =>
                           ValidPreparedProof(m.proof, m.height, m.view)'
    BY <1>4 DEF ValidPreparedProof
  <2>. QED
    BY <2>1, <2>2 DEF ValidInv
<1>. QED
  BY <1>5, <1>6, <1>7 DEF EvidenceInv

\* A log stays backed, and a proposal put in it is the candidate when the view
\* has no other.
LEMMA PutBacked ==
  ASSUME NEW L, NEW m, NEW w, NEW c, Backed(L, w, c),
         m.type = "PRE_PREPARE" =>
           m.sender = Leader(m.view) /\ (m.view = w => m.hash = c.hash)
  PROVE  Backed(Put(L, m), w, c)
  BY DEF Backed, Put

\* A node's own log.
LEMMA OwnBacked ==
  ASSUME EvidenceInv, NEW n \in Node
  PROVE  Backed(log[n], view[n], candidate[n])
  BY DEF EvidenceInv, LeaderInv, CandidateInv, Backed

\* The proposal of a view is the candidate of a node that has just adopted it.
LEMMA AdoptedBacked ==
  ASSUME TypeOK, AgreementInv, EvidenceInv, NEW n \in Node, NEW w \in Nat,
         NEW L \in SUBSET LogEntry, NEW c, NEW h \in Nat,
         \A m \in L : m.type = "PRE_PREPARE" =>
                        m.sender = Leader(m.view) /\ m.hash \in Proposals(h, m.view)',
         ProposalInv', c.hash \in Proposals(h, w)'
  PROVE  Backed(L, w, c)
<1> SUFFICES ASSUME NEW m \in L, m.type = "PRE_PREPARE", m.view = w
             PROVE  m.hash = c.hash
  BY DEF Backed
<1>1. m.hash \in Proposals(h, w)'
  OBVIOUS
<1>2. PICK x \in msgs' : /\ x.type \in {"PRE_PREPARE", "NEW_VIEW"}
                         /\ x.height = h
                         /\ x.view = w
  BY <1>1 DEF Proposals
<1>3. \A b, d \in Proposals(x.height, x.view)' : b = d
  BY <1>2 DEF ProposalInv
<1>. QED
  BY <1>1, <1>2, <1>3

LEMMA StayInRoundEvident ==
  ASSUME TypeOK, NEW n \in Node, NEW L, NEW w \in Nat, w >= view[n], NEW c,
         StayInRound(n, L, w, c), Backed(L, w, c), NEW p,
         \A v : Logged(log[n], "PRE_PREPARE", v, n) => Logged(L, "PRE_PREPARE", v, n),
         preparedProof' = [preparedProof EXCEPT ![n] = p],
         ValidPreparedProof(p, height[n], w + 1), msgs \subseteq msgs',
         \A m \in msgs' \ msgs : /\ m.type = "PREPARE" => m.sender # Leader(m.view)
                                 /\ m.type \notin {"VIEW_CHANGE", "NEW_VIEW"}
  PROVE  Evident(n)
<1>1. /\ height' = height /\ view'[n] = w /\ log'[n] = L /\ candidate'[n] = c
      /\ preparedProof'[n] = p
      /\ \A a \in Node \ {n} : /\ view'[a] = view[a]
                               /\ log'[a] = log[a]
                               /\ candidate'[a] = candidate[a]
                               /\ preparedProof'[a] = preparedProof[a]
  BY DEF StayInRound, TypeOK
<1>. QED
  BY <1>1 DEF Evident

LEMMA InitNextRoundEvident ==
  ASSUME TypeOK, NEW n \in Node, NEW h \in Nat, h >= height[n], NEW c,
         InitNextRound(n, h, c), msgs \subseteq msgs',
         \A m \in msgs' \ msgs : /\ m.type = "PREPARE" => m.sender # Leader(m.view)
                                 /\ m.type \notin {"VIEW_CHANGE", "NEW_VIEW"}
  PROVE  Evident(n)
<1>1. /\ height'[n] = h + 1 /\ view'[n] = 0 /\ log'[n] = {}
      /\ preparedProof'[n] = NoProof
      /\ \A a \in Node \ {n} : /\ height'[a] = height[a]
                               /\ view'[a] = view[a]
                               /\ log'[a] = log[a]
                               /\ candidate'[a] = candidate[a]
                               /\ preparedProof'[a] = preparedProof[a]
  BY DEF InitNextRound, TypeOK
<1>2. height'[n] > height[n]
  BY <1>1 DEF TypeOK
<1>. QED
  BY <1>1, <1>2 DEF Evident, Backed, ValidPreparedProof

\* The proof a prepared node builds: 2f PREPAREs of other nodes than the leader
\* for the one proposal of the view.
LEMMA BuiltProofValid ==
  ASSUME AgreementInv, EvidenceInv, NEW n \in Node, NEW h, h = height[n],
         NEW L \in SUBSET LogEntry, NEW w \in Nat, NEW c, NEW out \in SUBSET Header,
         Entries(n, L, w, msgs \cup out), Answers(n, out), Backed(L, w, c),
         \A m \in out : m.sender # Leader(m.view), IsPrepared(L, w)
  PROVE  ValidPreparedProof([height |-> h, view |-> w, hash |-> c.hash,
                             signatures |-> Of(L, "PRE_PREPARE", w)
                                              \cup Of(L, "PREPARE", w)], h, w + 1)
<1> DEFINE S == Of(L, "PRE_PREPARE", w) \cup Of(L, "PREPARE", w)
           p == [height |-> h, view |-> w, hash |-> c.hash, signatures |-> S]
<1>1. PICK pp \in Of(L, "PRE_PREPARE", w) :
        Cardinality(Voters(L, "PREPARE", w, pp.hash)) = 2 * F
  BY DEF IsPrepared
<1>2. /\ pp \in L /\ pp.type = "PRE_PREPARE" /\ pp.view = w /\ pp.height = h
      /\ pp.hash = c.hash /\ pp.sender = Leader(w)
      /\ pp.hash \in Proposals(h, w)
  BY <1>1 DEF Of, Backed, Entries
<1>3. ASSUME NEW s \in Of(L, "PREPARE", w)
      PROVE  s.height = h /\ s.view = w /\ s.hash = c.hash /\ s.sender # Leader(w)
  <2>1. s \in L /\ s.type = "PREPARE" /\ s.view = w /\ s.height = h /\ s \in msgs \cup out
    BY <1>3 DEF Of, Entries
  <2>2. s.hash \in Proposals(h, w)
    BY <2>1 DEF AgreementInv, PrepareInv, Answers
  <2>3. s.sender # Leader(w)
    BY <2>1 DEF EvidenceInv, LeaderInv
  <2>. QED
    BY <1>2, <2>1, <2>2, <2>3, UniqueProposal DEF AgreementInv
<1>4. ASSUME NEW s \in Of(L, "PRE_PREPARE", w)
      PROVE  s.height = h /\ s.view = w /\ s.hash = c.hash
  BY <1>4 DEF Of, Backed, Entries
<1>5. Voters(L, "PREPARE", w, pp.hash)
        \subseteq Senders({s \in S : s.type = "PREPARE"}) \ {pp.sender}
  <2>1. ASSUME NEW s \in Of(L, "PREPARE", w)
        PROVE  s \in S /\ s.type = "PREPARE" /\ s.sender # pp.sender
    BY <1>2, <1>3 DEF Of
  <2>. QED
    BY <2>1 DEF Voters, Senders
<1>6. Senders({s \in S : s.type = "PREPARE"}) \ {pp.sender} \subseteq Node
  <2>1. Of(L, "PREPARE", w) \subseteq Header /\ Of(L, "PRE_PREPARE", w) \subseteq Header
    BY OfType
  <2>. QED
    BY <2>1 DEF Senders, Header
<1>7. Cardinality(Senders({s \in S : s.type = "PREPARE"}) \ {pp.sender}) >= 2 * F
  <2> DEFINE T == Senders({s \in S : s.type = "PREPARE"}) \ {pp.sender}
             V == Voters(L, "PREPARE", w, pp.hash)
  <2>1. V \subseteq T /\ T \subseteq Node /\ Cardinality(V) = 2 * F
    BY <1>1, <1>5, <1>6
  <2> HIDE DEF T, V
  <2>2. IsFiniteSet(T)
    BY <2>1, FS_Subset, QuorumAssumption
  <2>3. Cardinality(V) <= Cardinality(T) /\ Cardinality(T) \in Nat
    BY <2>1, <2>2, FS_Subset, FS_CardinalityType
  <2>4. Cardinality(T) >= 2 * F
    BY <2>1, <2>3, QuorumAssumption
  <2>. QED
    BY <2>4 DEF T
<1>8. /\ p.height = h /\ p.view = w /\ p.hash = c.hash /\ p.signatures = S
      /\ pp \in S
  BY <1>1
<1> HIDE DEF p, S
<1>9. \A s \in S : s.height = p.height /\ s.view = p.view /\ s.hash = p.hash
  BY <1>3, <1>4, <1>8 DEF S
<1>10. p.view < w + 1
  BY <1>8
<1>11. ValidPreparedProof(p, h, w + 1)
  BY <1>2, <1>7, <1>8, <1>9, <1>10 DEF ValidPreparedProof
<1>. QED
  BY <1>11 DEF p, S

LEMMA CheckIfPreparedEvident ==
  ASSUME TypeOK, AgreementInv, EvidenceInv, NEW n \in Node,
         NEW L \in SUBSET LogEntry, NEW v \in Nat, NEW w \in Nat, NEW c,
         NEW out \in SUBSET Header, Ready(n, L, v, w, out), Backed(L, w, c),
         \A m \in out : m.sender # Leader(m.view),
         \A u : Logged(log[n], "PRE_PREPARE", u, n) => Logged(L, "PRE_PREPARE", u, n),
         CheckIfPrepared(n, L, v, w, c, out)
  PROVE  Evident(n)
<1>1. \A m \in out : m.type = "PREPARE"
  BY DEF Ready, Answers
<1>2. w >= view[n]
  BY DEF Ready, TypeOK
<1>3. CASE ~IsPrepared(L, v)
  <2>1. /\ msgs' = msgs \cup out /\ StayInRound(n, L, w, c)
        /\ preparedProof' = [preparedProof EXCEPT ![n] = preparedProof[n]]
    BY <1>3 DEF CheckIfPrepared, TypeOK
  <2>2. ValidPreparedProof(preparedProof[n], height[n], w + 1)
    <3>1. ValidPreparedProof(preparedProof[n], height[n], view[n] + 1)
      BY DEF EvidenceInv, ValidInv
    <3>2. preparedProof[n].view \in Int /\ view[n] \in Nat
      BY DEF TypeOK, Proof
    <3>3. preparedProof[n].view < view[n] + 1 => preparedProof[n].view < w + 1
      BY <1>2, <3>2
    <3>. QED
      BY <3>1, <3>3 DEF ValidPreparedProof
  <2>. QED
    BY <1>1, <1>2, <2>1, <2>2, StayInRoundEvident
<1>4. CASE IsPrepared(L, v)
  <2> DEFINE Prepares(b) == MakeHeader("COMMIT", n, height[n], w, b)
             proof == [height |-> height[n], view |-> w, hash |-> c.hash,
                       signatures |-> Of(L, "PRE_PREPARE", v) \cup Of(L, "PREPARE", v)]
  <2>1. v = w
    BY <1>4 DEF Ready
  <2>2. PICK b \in LoggedHashes(L, w) :
          /\ msgs' = msgs \cup out \cup {Prepares(b)}
          /\ \/ OnCommittedLocally(n, Put(L, Prepares(b)), v, w, c)
             \/ /\ StayInRound(n, Put(L, Prepares(b)), w, c)
                /\ preparedProof' = [preparedProof EXCEPT ![n] = proof]
    BY <1>4 DEF CheckIfPrepared, OnPrepared
  <2>3. Prepares(b).type = "COMMIT"
    BY DEF MakeHeader
  <2>4. ValidPreparedProof(proof, height[n], w + 1)
    BY <1>4, <2>1, BuiltProofValid DEF Ready
  <2> HIDE DEF Prepares, proof
  <2>5. /\ msgs \subseteq msgs'
        /\ \A m \in msgs' \ msgs : /\ m.type = "PREPARE" => m.sender # Leader(m.view)
                                   /\ m.type \notin {"VIEW_CHANGE", "NEW_VIEW"}
    BY <1>1, <2>2, <2>3
  <2>6. CASE OnCommittedLocally(n, Put(L, Prepares(b)), v, w, c)
    <3>1. InitNextRound(n, height[n], c)
      BY <2>6 DEF OnCommittedLocally
    <3>2. height[n] \in Nat /\ height[n] >= height[n]
      BY DEF TypeOK
    <3>. QED
      BY <2>5, <3>1, <3>2, InitNextRoundEvident
  <2>7. CASE /\ StayInRound(n, Put(L, Prepares(b)), w, c)
             /\ preparedProof' = [preparedProof EXCEPT ![n] = proof]
    <3>1. Backed(Put(L, Prepares(b)), w, c)
      BY <2>3, PutBacked
    <3>2. \A u : Logged(log[n], "PRE_PREPARE", u, n)
                   => Logged(Put(L, Prepares(b)), "PRE_PREPARE", u, n)
      BY PutLogged
    <3>. QED
      BY <1>2, <2>4, <2>5, <2>7, <3>1, <3>2, StayInRoundEvident
  <2>. QED
    BY <2>2, <2>6, <2>7
<1>. QED
  BY <1>3, <1>4

LEMMA AcceptPrePrepareEvident ==
  ASSUME TypeOK, AgreementInv, AgreementInv', EvidenceInv, NEW n \in Node,
         NEW pp \in Header, NEW w \in Nat, pp.type = "PRE_PREPARE",
         pp.height = height[n], pp.view = w, view[n] <= w,
         pp.sender = Leader(w), n # Leader(w),
         pp.hash \in Proposals(pp.height, w), SafeAt(pp.height, w, pp.hash),
         AcceptPrePrepare(n, pp, w), msgs \subseteq msgs'
  PROVE  Evident(n)
<1> DEFINE prepare == MakeHeader("PREPARE", n, height[n], w, pp.hash)
           L1 == Put(log[n], pp)
           L == Put(L1, prepare)
           c == [block |-> pp.hash, hash |-> pp.hash]
<1>1. CheckIfPrepared(n, L, w, w, c, {prepare})
  BY DEF AcceptPrePrepare
<1>2. /\ prepare.type = "PREPARE" /\ prepare.sender = n
      /\ prepare.height = height[n] /\ prepare.view = w
      /\ prepare.hash = pp.hash
  BY DEF MakeHeader
<1>3. prepare \in Header
  <2>1. height[n] \in Nat /\ pp.hash \in Hash
    BY DEF TypeOK, Header
  <2>. QED
    BY <2>1, MakeHeaderType
<1>4. L1 \in SUBSET LogEntry
  BY PutType DEF TypeOK, LogEntry
<1>5. L \in SUBSET LogEntry
  BY <1>3, <1>4, PutType DEF LogEntry
<1>6. Ready(n, L, w, w, {prepare})
  BY AcceptReady
<1>7. c.hash = pp.hash
  OBVIOUS
<1> HIDE DEF c, prepare, L
<1>8. Backed(L1, w, c)
  <2>1. \A m \in log[n] : m.type = "PRE_PREPARE" => m.sender = Leader(m.view)
    BY OwnBacked DEF Backed
  <2>2. \A m \in log[n] :
          /\ m.height = height[n]
          /\ m.type = "PRE_PREPARE" => m.hash \in Proposals(m.height, m.view)
    BY OwnEntries DEF Entries
  <2>3. \A m \in L1 : m \in log[n] \/ m = pp
    BY DEF Put
  <2>4. \A m \in L1 : m.type = "PRE_PREPARE" => m.sender = Leader(m.view)
    BY <2>1, <2>3
  <2>0. PICK h \in Nat : h = height[n]
    BY DEF TypeOK
  <2>5. ASSUME NEW m \in L1, m.type = "PRE_PREPARE"
        PROVE  m.hash \in Proposals(h, m.view)'
    <3>1. m.hash \in Proposals(h, m.view)
      BY <2>0, <2>2, <2>3, <2>5
    <3>. QED
      BY <3>1, ProposalsGrow
  <2>6. c.hash \in Proposals(h, w)'
    <3>1. c.hash \in Proposals(h, w)
      BY <1>7, <2>0
    <3>. QED
      BY <3>1, ProposalsGrow
  <2>7. ProposalInv'
    BY DEF AgreementInv
  <2> HIDE DEF L1
  <2>. QED
    BY <1>4, <2>4, <2>5, <2>6, <2>7, AdoptedBacked
<1>9. Backed(L, w, c)
  BY <1>2, <1>8, PutBacked DEF L
<1>10. \A u : Logged(log[n], "PRE_PREPARE", u, n) => Logged(L, "PRE_PREPARE", u, n)
  BY PutLogged DEF L
<1>11. \A m \in {prepare} : m.sender # Leader(m.view)
  BY <1>2
<1>. QED
  BY <1>1, <1>3, <1>5, <1>6, <1>9, <1>10, <1>11, CheckIfPreparedEvident

-----------------------------------------------------------------------------
(* Every handler keeps proofs valid.                                       *)

LEMMA InitEvident == Init => EvidenceInv
  BY DEF Init, EvidenceInv, LeaderInv, CandidateInv, ValidInv, ValidPreparedProof

\* The last proof of a node is still valid for the view after its own.
LEMMA OwnProofValid ==
  ASSUME TypeOK, EvidenceInv, NEW n \in Node, NEW w \in Nat, w >= view[n]
  PROVE  ValidPreparedProof(preparedProof[n], height[n], w + 1)
<1>1. ValidPreparedProof(preparedProof[n], height[n], view[n] + 1)
  BY DEF EvidenceInv, ValidInv
<1>2. preparedProof[n].view \in Int /\ view[n] \in Nat
  BY DEF TypeOK, Proof
<1>3. preparedProof[n].view < view[n] + 1 => preparedProof[n].view < w + 1
  BY <1>2
<1>. QED
  BY <1>1, <1>3 DEF ValidPreparedProof

LEMMA ProposeBlockEvident ==
  ASSUME TypeOK, AgreementInv, AgreementInv', EvidenceInv, NEW n \in Node,
         view[n] = 0, ProposeBlock(n)
  PROVE  Evident(n)
<1>0. PICK b \in Block :
        LET pp == MakeHeader("PRE_PREPARE", n, height[n], view[n], b)
        IN  /\ msgs' = msgs \cup {pp}
            /\ log' = [log EXCEPT ![n] = Put(@, pp)]
            /\ candidate' = [candidate EXCEPT ![n] = [block |-> b, hash |-> b]]
  BY DEF ProposeBlock
<1> DEFINE pp == MakeHeader("PRE_PREPARE", n, height[n], view[n], b)
<1>1. /\ pp = MakeHeader("PRE_PREPARE", n, height[n], view[n], b)
      /\ msgs' = msgs \cup {pp}
      /\ log' = [log EXCEPT ![n] = Put(@, pp)]
      /\ candidate' = [candidate EXCEPT ![n] = [block |-> b, hash |-> b]]
  BY <1>0
<1> HIDE DEF pp
<1>2. /\ pp.type = "PRE_PREPARE" /\ pp.sender = n /\ pp.height = height[n]
      /\ pp.view = 0 /\ pp.hash = b
  BY <1>1 DEF MakeHeader
<1>3. UNCHANGED <<height, view, preparedProof>> /\ n = Leader(0)
  BY DEF ProposeBlock
<1>4. /\ log'[n] = Put(log[n], pp) /\ candidate'[n].hash = b
      /\ \A a \in Node \ {n} : log'[a] = log[a] /\ candidate'[a] = candidate[a]
  BY <1>1 DEF TypeOK
<1>5. Put(log[n], pp) \in SUBSET LogEntry
  <2>1. pp \in LogEntry
    BY <1>1, MakeHeaderType DEF TypeOK, Hash, LogEntry
  <2>. QED
    BY <2>1, PutType DEF TypeOK, LogEntry
<1>6. Backed(Put(log[n], pp), 0, candidate'[n])
  <2>1. \A m \in log[n] : m.type = "PRE_PREPARE" => m.sender = Leader(m.view)
    BY OwnBacked DEF Backed
  <2>0. PICK h \in Nat : h = height[n]
    BY DEF TypeOK
  <2>2. ASSUME NEW m \in log[n], m.type = "PRE_PREPARE"
        PROVE  m.hash \in Proposals(h, m.view)'
    <3>1. m.hash \in Proposals(h, m.view)
      BY <2>0, <2>2, OwnEntries DEF Entries
    <3>. QED
      BY <1>1, <3>1, ProposalsGrow
  <2>3. b \in Proposals(h, 0)'
    BY <1>1, <1>2, <2>0 DEF Proposals
  <2>4. \A m \in Put(log[n], pp) : m \in log[n] \/ m = pp
    BY DEF Put
  <2>5. ProposalInv'
    BY DEF AgreementInv
  <2>6. \A m \in Put(log[n], pp) : m.type = "PRE_PREPARE" => m.sender = Leader(m.view)
    BY <1>2, <1>3, <2>1, <2>4
  <2>7. \A m \in Put(log[n], pp) :
          m.type = "PRE_PREPARE" => m.hash \in Proposals(h, m.view)'
    BY <1>2, <2>2, <2>3, <2>4
  <2>8. PICK L, c : L = Put(log[n], pp) /\ c = candidate'[n]
    OBVIOUS
  <2>9. c.hash \in Proposals(h, 0)'
    BY <1>4, <2>3, <2>8
  <2>10. Backed(L, 0, c)
    BY <1>5, <2>5, <2>6, <2>7, <2>8, <2>9, AdoptedBacked
  <2>. QED
    BY <2>8, <2>10
<1>7. ValidPreparedProof(preparedProof[n], height[n], view[n] + 1)
  BY DEF EvidenceInv, ValidInv
<1>8. \A v : Logged(log[n], "PRE_PREPARE", v, n) => Logged(log'[n], "PRE_PREPARE", v, n)
  BY <1>4, PutLogged
<1>. QED
  BY <1>1, <1>2, <1>3, <1>4, <1>6, <1>7, <1>8 DEF Evident

\* The receiver is not the leader: a leader logs the proposal it sends.
LEMMA OnPrePrepareReceivedEvident ==
  ASSUME TypeOK, AgreementInv, AgreementInv', EvidenceInv, NEW n \in Node,
         view[n] = 0, OnPrePrepareReceived(n), msgs \subseteq msgs'
  PROVE  Evident(n)
<1>1. PICK m \in msgs : /\ m.type = "PRE_PREPARE"
                        /\ m.height = height[n]
                        /\ m.view = 0
                        /\ m.sender = Leader(0)
                        /\ ~Logged(log[n], "PRE_PREPARE", 0, m.sender)
                        /\ AcceptPrePrepare(n, m, 0)
  BY DEF OnPrePrepareReceived
<1>2. m \in Header
  BY <1>1, MessageKinds DEF TypeOK
<1>3. m.hash \in Proposals(m.height, 0)
  BY <1>1 DEF Proposals
<1>4. SafeAt(m.height, 0, m.hash)
  BY DEF SafeAt
<1>5. n # Leader(0)
  <2>1. ~(height[n] > m.height)
    BY <1>1 DEF TypeOK
  <2>. QED
    BY <1>1, <2>1 DEF AgreementInv, ProposerInv, ProposerOK
<1>. QED
  BY <1>1, <1>2, <1>3, <1>4, <1>5, AcceptPrePrepareEvident

LEMMA OnNewViewReceivedEvident ==
  ASSUME TypeOK, AgreementInv, AgreementInv', EvidenceInv, NEW n \in Node,
         OnNewViewReceived(n), msgs \subseteq msgs'
  PROVE  Evident(n)
<1>1. PICK m \in msgs :
        /\ m.type = "NEW_VIEW"
        /\ m.height = height[n]
        /\ m.view >= view[n]
        /\ m.sender = Leader(m.view)
        /\ ~Logged(log[n], "PRE_PREPARE", m.view, m.sender)
        /\ ValidNewViewProof(m)
        /\ m.pp = MakeHeader("PRE_PREPARE", m.sender, m.height, m.view, m.block)
        /\ \E x \in Highest(m.proof) :
             x.proof = NoProof \/ m.pp.hash = x.proof.hash
        /\ AcceptPrePrepare(n, m.pp, m.view)
  BY DEF OnNewViewReceived
<1>2. m.pp \in Header /\ m.view \in Nat
  BY <1>1, MessageKinds DEF TypeOK, NewView
<1>3. /\ m.pp.type = "PRE_PREPARE" /\ m.pp.height = height[n]
      /\ m.pp.view = m.view /\ m.pp.height = m.height /\ m.pp.sender = m.sender
  BY <1>1 DEF MakeHeader
<1>4. m.pp.hash \in Proposals(m.pp.height, m.view)
  BY <1>1, <1>3 DEF Proposals
<1>5. SafeAt(m.pp.height, m.view, m.pp.hash)
  BY <1>1, <1>3, NewViewSafe
<1>6. view[n] <= m.view
  BY <1>1, <1>2 DEF TypeOK
<1>7. n # Leader(m.view)
  <2>1. ~Reached(n, m.height, m.view + 1)
    BY <1>1, <1>2, <1>6 DEF Reached, TypeOK
  <2>. QED
    BY <1>1, <2>1 DEF EvidenceInv, LeaderInv
<1>. QED
  BY <1>1, <1>2, <1>3, <1>4, <1>5, <1>6, <1>7, AcceptPrePrepareEvident

LEMMA OnPrepareReceivedEvident ==
  ASSUME TypeOK, AgreementInv, EvidenceInv, NEW n \in Node, OnPrepareReceived(n)
  PROVE  Evident(n)
<1>1. PICK m \in msgs :
        /\ m.type = "PREPARE"
        /\ m.height = height[n]
        /\ m.view >= view[n]
        /\ CheckIfPrepared(n, Put(log[n], m), m.view, view[n], candidate[n], {})
  BY DEF OnPrepareReceived
<1> DEFINE L == Put(log[n], m)
<1>2. m \in Header /\ m.view \in Nat /\ view[n] \in Nat
  BY <1>1, MessageKinds DEF TypeOK, Header
<1>3. L \in SUBSET LogEntry
  BY <1>2, PutType DEF TypeOK, LogEntry
<1>4. Ready(n, L, m.view, view[n], {})
  BY <1>1, PrepareReady
<1>5. Backed(L, view[n], candidate[n])
  BY <1>1, OwnBacked, PutBacked
<1>6. \A u : Logged(log[n], "PRE_PREPARE", u, n) => Logged(L, "PRE_PREPARE", u, n)
  BY PutLogged
<1> HIDE DEF L
<1>. QED
  BY <1>1, <1>2, <1>3, <1>4, <1>5, <1>6, CheckIfPreparedEvident DEF L

LEMMA OnCommitReceivedEvident ==
  ASSUME TypeOK, EvidenceInv, NEW n \in Node, OnCommitReceived(n)
  PROVE  Evident(n)
<1>1. PICK m \in msgs :
        /\ m.type = "COMMIT"
        /\ \/ OnCommittedLocally(n, Put(log[n], m), m.view, view[n], candidate[n])
           \/ /\ StayInRound(n, Put(log[n], m), view[n], candidate[n])
              /\ UNCHANGED preparedProof
        /\ UNCHANGED msgs
  BY DEF OnCommitReceived
<1>2. view[n] \in Nat /\ height[n] \in Nat
  BY DEF TypeOK
<1>3. CASE OnCommittedLocally(n, Put(log[n], m), m.view, view[n], candidate[n])
  <2>1. InitNextRound(n, height[n], candidate[n]) /\ height[n] >= height[n]
    BY <1>2, <1>3 DEF OnCommittedLocally
  <2>. QED
    BY <1>1, <1>2, <2>1, InitNextRoundEvident
<1>4. CASE /\ StayInRound(n, Put(log[n], m), view[n], candidate[n])
           /\ UNCHANGED preparedProof
  <2>1. Backed(Put(log[n], m), view[n], candidate[n])
    BY <1>1, OwnBacked, PutBacked
  <2>2. \A u : Logged(log[n], "PRE_PREPARE", u, n)
                 => Logged(Put(log[n], m), "PRE_PREPARE", u, n)
    BY PutLogged
  <2>3. preparedProof' = [preparedProof EXCEPT ![n] = preparedProof[n]]
    BY <1>4 DEF TypeOK
  <2>4. ValidPreparedProof(preparedProof[n], height[n], view[n] + 1) /\ view[n] >= view[n]
    BY <1>2 DEF EvidenceInv, ValidInv
  <2>. QED
    BY <1>1, <1>2, <1>4, <2>1, <2>2, <2>3, <2>4, StayInRoundEvident
<1>. QED
  BY <1>1, <1>3, <1>4

\* No proposal of the next view is in the log yet.
LEMMA OnTimeOutEvident ==
  ASSUME TypeOK, AgreementInv, EvidenceInv, NEW n \in Node, OnTimeOut(n)
  PROVE  Evident(n)
<1> DEFINE v == view[n] + 1
           x == [type |-> "VIEW_CHANGE", height |-> height[n], view |-> v,
                 sender |-> n, proof |-> ChangeProof(n),
                 block |-> IF prepared[n] THEN candidate[n].block ELSE NoBlock]
<1>1. /\ x.type = "VIEW_CHANGE" /\ x.height = height[n] /\ x.view = v
      /\ x.sender = n /\ x.proof = ChangeProof(n)
  OBVIOUS
<1>2. /\ view' = [view EXCEPT ![n] = v]
      /\ log' = [log EXCEPT ![n] = Put(log[n], x)]
      /\ msgs' \subseteq msgs \cup {x} /\ msgs \subseteq msgs'
      /\ UNCHANGED <<height, candidate, preparedProof>>
  BY DEF OnTimeOut
<1> HIDE DEF x
<1>3. /\ view'[n] = v /\ log'[n] = Put(log[n], x)
      /\ \A a \in Node \ {n} : view'[a] = view[a] /\ log'[a] = log[a]
  BY <1>2 DEF TypeOK
<1>4. view[n] \in Nat /\ v \in Nat
  BY DEF TypeOK
<1>5. Backed(log'[n], v, candidate'[n])
  <2>1. ASSUME NEW m \in log[n], m.type = "PRE_PREPARE"
        PROVE  m.sender = Leader(m.view) /\ m.view # v
    <3>1. m.view \in Nat
      BY <2>1, EntryKinds DEF TypeOK, LogEntry, Header
    <3>2. m.view <= view[n]
      BY <2>1 DEF AgreementInv, LogInv, EntryOK
    <3>. QED
      BY <1>4, <2>1, <3>1, <3>2, OwnBacked DEF Backed
  <2>2. Backed(log[n], v, candidate'[n])
    BY <2>1 DEF Backed
  <2>. QED
    BY <1>1, <1>3, <2>2, PutBacked
<1>6. ValidPreparedProof(preparedProof[n], height[n], v + 1)
  BY <1>4, OwnProofValid
<1>7. ValidPreparedProof(x.proof, height[n], v)
  <2>1. ValidPreparedProof(preparedProof[n], height[n], v)
    BY DEF EvidenceInv, ValidInv
  <2>2. ValidPreparedProof(NoProof, height[n], v)
    BY DEF ValidPreparedProof
  <2>. QED
    BY <1>1, <2>1, <2>2 DEF ChangeProof
<1>8. \A u : Logged(log[n], "PRE_PREPARE", u, n) => Logged(log'[n], "PRE_PREPARE", u, n)
  BY <1>3, PutLogged
<1>9. view'[n] >= view[n]
  BY <1>3, <1>4
<1>10. ValidPreparedProof(preparedProof'[n], height'[n], view'[n] + 1)
  BY <1>2, <1>3, <1>6
<1>11. Backed(log'[n], view'[n], candidate'[n])
  BY <1>3, <1>5
<1> HIDE DEF v
<1>. QED
  BY <1>1, <1>2, <1>3, <1>7, <1>8, <1>9, <1>10, <1>11 DEF Evident

LEMMA LocalNewViewEvident ==
  ASSUME TypeOK, AgreementInv, AgreementInv', EvidenceInv, NEW n \in Node,
         NEW L \in SUBSET LogEntry, NEW v \in Nat, view[n] <= v, n = Leader(v),
         Entries(n, L, view[n], msgs), Backed(L, view[n], candidate[n]),
         \A u : Logged(log[n], "PRE_PREPARE", u, n) => Logged(L, "PRE_PREPARE", u, n),
         LocalNewView(n, L, v)
  PROVE  Evident(n)
<1> DEFINE PrePrepare(b) == MakeHeader("PRE_PREPARE", n, height[n], v, b)
           Start(c, proof) == [type |-> "NEW_VIEW", height |-> height[n], view |-> v,
                               sender |-> n, proof |-> proof, pp |-> PrePrepare(c.hash),
                               block |-> c.block]
<1>1. PICK c, proof :
        /\ view' = [view EXCEPT ![n] = v]
        /\ candidate' = [candidate EXCEPT ![n] = c]
        /\ log' = [log EXCEPT ![n] = Put(L, PrePrepare(c.hash))]
        /\ msgs' = msgs \cup {Start(c, proof)}
        /\ UNCHANGED <<height, preparedProof>>
  BY DEF LocalNewView
<1>2. PICK pp, nv : pp = PrePrepare(c.hash) /\ nv = Start(c, proof)
  OBVIOUS
<1>3. /\ pp.type = "PRE_PREPARE" /\ pp.sender = n /\ pp.height = height[n]
      /\ pp.view = v /\ pp.hash = c.hash
      /\ nv.type = "NEW_VIEW" /\ nv.sender = n /\ nv.height = height[n]
      /\ nv.view = v /\ nv.pp = pp
  BY <1>2 DEF MakeHeader
<1>4. /\ view'[n] = v /\ candidate'[n] = c /\ log'[n] = Put(L, pp)
      /\ msgs' = msgs \cup {nv}
      /\ \A a \in Node \ {n} : /\ view'[a] = view[a]
                               /\ candidate'[a] = candidate[a]
                               /\ log'[a] = log[a]
  BY <1>1, <1>2 DEF TypeOK
<1> HIDE DEF PrePrepare, Start
<1>5. Backed(log'[n], v, c)
  <2>1. ASSUME NEW m \in log'[n], m.type = "PRE_PREPARE"
        PROVE  m.sender = Leader(m.view) /\ (m.view = v => m.hash = c.hash)
    <3>1. m \in L \/ m = pp
      BY <1>4 DEF Put
    <3>2. m.sender = Leader(m.view)
      BY <1>3, <2>1, <3>1 DEF Backed
    <3>3. PICK h \in Nat : h = height[n]
      BY DEF TypeOK
    <3>4. m.hash \in Proposals(h, m.view)'
      <4>1. EntryOK(n, m)'
        BY DEF AgreementInv, LogInv
      <4>2. m.height = h /\ m.hash \in Proposals(m.height, m.view)'
        BY <1>1, <2>1, <3>3, <4>1 DEF EntryOK
      <4>. QED
        BY <4>2
    <3>5. c.hash \in Proposals(h, v)'
      BY <1>3, <1>4, <3>3 DEF Proposals
    <3>6. \A b, d \in Proposals(h, v)' : b = d
      <4>1. nv \in msgs' /\ ProposalInv'
        BY <1>4 DEF AgreementInv
      <4>2. \A b, d \in Proposals(nv.height, nv.view)' : b = d
        BY <1>3, <4>1 DEF ProposalInv
      <4>. QED
        BY <1>3, <3>3, <4>2
    <3>. QED
      BY <3>2, <3>4, <3>5, <3>6
  <2>. QED
    BY <2>1 DEF Backed
<1>6. ValidPreparedProof(preparedProof[n], height[n], v + 1)
  <2>1. v >= view[n]
    BY DEF TypeOK
  <2>. QED
    BY <2>1, OwnProofValid
<1>7. Logged(log'[n], "PRE_PREPARE", nv.view, n)
  BY <1>3, <1>4, PutIsLogged
<1>8. \A u : Logged(log[n], "PRE_PREPARE", u, n) => Logged(log'[n], "PRE_PREPARE", u, n)
  BY <1>4, PutLogged
<1>9. view'[n] >= view[n]
  BY <1>4 DEF TypeOK
<1>. QED
  BY <1>1, <1>3, <1>4, <1>5, <1>6, <1>7, <1>8, <1>9 DEF Evident

LEMMA OnViewChangeReceivedEvident ==
  ASSUME TypeOK, AgreementInv, AgreementInv', EvidenceInv, NEW n \in Node,
         OnViewChangeReceived(n)
  PROVE  Evident(n)
<1>1. PICK m \in msgs :
        /\ m.type = "VIEW_CHANGE"
        /\ m.height = height[n]
        /\ m.view >= view[n]
        /\ n = Leader(m.view)
        /\ \/ LocalNewView(n, Put(log[n], m), m.view)
           \/ /\ log' = [log EXCEPT ![n] = Put(log[n], m)]
              /\ UNCHANGED <<height, view, candidate, preparedProof, msgs>>
  BY DEF OnViewChangeReceived
<1>2. PICK L : L = Put(log[n], m)
  OBVIOUS
<1>3. m \in ViewChange /\ m.view \in Nat /\ view[n] \in Nat
  BY <1>1, MessageKinds DEF TypeOK, ViewChange
<1>4. ChangeOK(m)
  BY <1>1 DEF AgreementInv, ChangeInv
<1>5. L \in SUBSET LogEntry
  BY <1>2, <1>3, PutType DEF TypeOK, LogEntry
<1>6. Entries(n, L, view[n], msgs)
  BY <1>1, <1>2, <1>4, OwnEntries DEF Entries, Put
<1>7. \A u : Logged(log[n], "PRE_PREPARE", u, n) => Logged(L, "PRE_PREPARE", u, n)
  BY <1>2, PutLogged
<1>8. Backed(L, view[n], candidate[n])
  BY <1>1, <1>2, OwnBacked, PutBacked
<1>9. CASE LocalNewView(n, Put(log[n], m), m.view)
  <2>1. view[n] <= m.view
    BY <1>1, <1>3
  <2>. QED
    BY <1>1, <1>2, <1>3, <1>5, <1>6, <1>7, <1>8, <1>9, <2>1, LocalNewViewEvident
<1>10. CASE /\ log' = [log EXCEPT ![n] = Put(log[n], m)]
            /\ UNCHANGED <<height, view, candidate, preparedProof, msgs>>
  <2>1. log'[n] = L /\ \A a \in Node \ {n} : log'[a] = log[a]
    BY <1>2, <1>10 DEF TypeOK
  <2>2. ValidPreparedProof(preparedProof[n], height[n], view[n] + 1)
    BY DEF EvidenceInv, ValidInv
  <2>3. view'[n] >= view[n]
    BY <1>3, <1>10
  <2>. QED
    BY <1>7, <1>8, <1>10, <2>1, <2>2, <2>3 DEF Evident
<1>. QED
  BY <1>1, <1>9, <1>10

\* A step that leaves the node in its term as it is.
LEMMA IdleEvident ==
  ASSUME TypeOK, EvidenceInv, NEW n \in Node,
         UNCHANGED <<height, view, log, candidate, preparedProof, msgs>>
  PROVE  Evident(n)
<1>1. view'[n] >= view[n]
  BY DEF TypeOK
<1>2. ValidPreparedProof(preparedProof[n], height[n], view[n] + 1)
  BY DEF EvidenceInv, ValidInv
<1>. QED
  BY <1>1, <1>2, OwnBacked DEF Evident

LEMMA ValidateBlockForCommitEvident ==
  ASSUME TypeOK, EvidenceInv, NEW n \in Node, NEW p \in Node, ValidateBlockForCommit(n, p)
  PROVE  Evident(n)
<1> DEFINE h == Len(chain[n]) + 1
<1>1. Acknowledge(n, h) /\ UNCHANGED msgs
  BY DEF ValidateBlockForCommit
<1>2. h \in Nat /\ height[n] \in Nat
  BY DEF TypeOK
<1>3. CASE h <= height[n]
  BY <1>1, <1>3, IdleEvident DEF Acknowledge
<1>4. CASE ~(h <= height[n])
  <2>1. InitNextRound(n, h, candidate[n]) /\ h >= height[n]
    BY <1>1, <1>2, <1>4 DEF Acknowledge
  <2>. QED
    BY <1>1, <1>2, <2>1, InitNextRoundEvident
<1>. QED
  BY <1>3, <1>4

\* What is sent stays sent.
LEMMA MessagesStay ==
  ASSUME [Next]_vars
  PROVE  msgs \subseteq msgs'
<1>1. ASSUME NEW n, NEW L, NEW v, NEW w, NEW c, NEW out, CheckIfPrepared(n, L, v, w, c, out)
      PROVE  msgs \subseteq msgs'
  BY <1>1 DEF CheckIfPrepared, OnPrepared
<1>2. ASSUME NEW n, NEW L, NEW v, LocalNewView(n, L, v) PROVE msgs \subseteq msgs'
  BY <1>2 DEF LocalNewView
<1>3. ASSUME NEW n, ProposeBlock(n) PROVE msgs \subseteq msgs'
  BY <1>3 DEF ProposeBlock
<1>4. ASSUME NEW n, OnPrePrepareReceived(n) PROVE msgs \subseteq msgs'
  BY <1>1, <1>4 DEF OnPrePrepareReceived, AcceptPrePrepare
<1>5. ASSUME NEW n, OnPrepareReceived(n) PROVE msgs \subseteq msgs'
  BY <1>1, <1>5 DEF OnPrepareReceived
<1>6. ASSUME NEW n, OnNewViewReceived(n) PROVE msgs \subseteq msgs'
  BY <1>1, <1>6 DEF OnNewViewReceived, AcceptPrePrepare
<1>7. ASSUME NEW n, OnViewChangeReceived(n) PROVE msgs \subseteq msgs'
  BY <1>2, <1>7 DEF OnViewChangeReceived
<1>8. ASSUME NEW n, OnTimeOut(n) PROVE msgs \subseteq msgs'
  BY <1>8 DEF OnTimeOut
<1>9. ASSUME NEW n, OnCommitReceived(n) PROVE msgs \subseteq msgs'
  BY <1>9 DEF OnCommitReceived
<1>10. ASSUME NEW n, NEW p, ValidateBlockForCommit(n, p) PROVE msgs \subseteq msgs'
  BY <1>10 DEF ValidateBlockForCommit
<1>11. ASSUME NEW n, CommitSyncedBlock(n) PROVE msgs \subseteq msgs'
  BY <1>11 DEF CommitSyncedBlock
<1>. QED
  BY <1>3, <1>4, <1>5, <1>6, <1>7, <1>8, <1>9, <1>10, <1>11
     DEF Next, Proposing, OtherStep, vars

LEMMA TimelyStepEvident ==
  ASSUME TypeOK, TypeOK', AgreementInv, AgreementInv', EvidenceInv, [TimelyNext]_vars
  PROVE  EvidenceInv'
<1> USE QuorumAssumption
<1>1. ASSUME NEW n \in Node, Evident(n) PROVE EvidenceInv'
  BY <1>1, EvidenceStep
<1>2. msgs \subseteq msgs'
  <2>1. [Next]_vars
    BY DEF TimelyNext, TimelyProposing, Next, Proposing
  <2>. QED
    BY <2>1, MessagesStay
<1>3. ASSUME NEW n \in Live, view[n] = 0, ProposeBlock(n) PROVE Evident(n)
  BY <1>3, ProposeBlockEvident
<1>4. ASSUME NEW n \in Live, view[n] = 0, OnPrePrepareReceived(n) PROVE Evident(n)
  BY <1>2, <1>4, OnPrePrepareReceivedEvident
<1>5. ASSUME NEW n \in Live, OnPrepareReceived(n) PROVE Evident(n)
  BY <1>5, OnPrepareReceivedEvident
<1>6. ASSUME NEW n \in Live, OnCommitReceived(n) PROVE Evident(n)
  BY <1>6, OnCommitReceivedEvident
<1>7. ASSUME NEW n \in Live, OnViewChangeReceived(n) PROVE Evident(n)
  BY <1>7, OnViewChangeReceivedEvident
<1>8. ASSUME NEW n \in Live, OnNewViewReceived(n) PROVE Evident(n)
  BY <1>2, <1>8, OnNewViewReceivedEvident
<1>9. ASSUME NEW n \in Live, OnTimeOut(n) PROVE Evident(n)
  BY <1>9, OnTimeOutEvident
<1>10. ASSUME NEW n \in Live, NEW p \in Live, ValidateBlockForCommit(n, p) PROVE Evident(n)
  BY <1>10, ValidateBlockForCommitEvident
<1>11. ASSUME NEW n \in Live, CommitSyncedBlock(n) PROVE Evident(n)
  BY <1>11, IdleEvident DEF CommitSyncedBlock
<1>12. CASE UNCHANGED vars
  BY <1>12 DEF vars, EvidenceInv, LeaderInv, CandidateInv, ValidInv, Reached
<1>. QED
  BY <1>1, <1>3, <1>4, <1>5, <1>6, <1>7, <1>8, <1>9, <1>10, <1>11, <1>12
     DEF TimelyNext, TimelyProposing, OtherStep

-----------------------------------------------------------------------------
(* The theorems.                                                           *)

LEMMA TimelyStepSafe ==
  ASSUME TypeOK, TypeOK', FollowInv, SyncInv, AgreementInv, [TimelyNext]_vars
  PROVE  AgreementInv'
<1> USE QuorumAssumption
<1>1. ASSUME NEW n \in Live, view[n] = 0, OnPrePrepareReceived(n) PROVE AgreementInv'
  BY <1>1, TimelyPrePrepareSafe
<1>2. ASSUME NEW n \in Live, view[n] = 0, ProposeBlock(n) PROVE AgreementInv'
  BY <1>2, ProposeBlockSafe
<1>3. ASSUME NEW n \in Live, OnPrepareReceived(n) PROVE AgreementInv'
  BY <1>3, OnPrepareReceivedSafe
<1>4. ASSUME NEW n \in Live, OnCommitReceived(n) PROVE AgreementInv'
  BY <1>4, OnCommitReceivedSafe
<1>5. ASSUME NEW n \in Live, OnViewChangeReceived(n) PROVE AgreementInv'
  BY <1>5, OnViewChangeReceivedSafe
<1>6. ASSUME NEW n \in Live, OnNewViewReceived(n) PROVE AgreementInv'
  BY <1>6, OnNewViewReceivedSafe
<1>7. ASSUME NEW n \in Live, OnTimeOut(n) PROVE AgreementInv'
  BY <1>7, OnTimeOutSafe
<1>8. ASSUME NEW n \in Live, NEW p \in Live, ValidateBlockForCommit(n, p)
      PROVE  AgreementInv'
  BY <1>8, ValidateBlockForCommitSafe
<1>10. ASSUME NEW n \in Live, CommitSyncedBlock(n) PROVE AgreementInv'
  BY <1>10, CommitSyncedBlockSafe
<1>9. CASE UNCHANGED vars
  <2>1. UNCHANGED <<height, view, log, prepared, preparedProof,
                    newViewTriggered, chain, msgs>>
    BY <1>9 DEF vars
  <2>2. \A x : ChangeOK(x)' = ChangeOK(x)
    BY <2>1 DEF ChangeOK, ProofSent, Reached
  <2>3. \A h, v : Proposals(h, v)' = Proposals(h, v)
    BY <2>1 DEF Proposals
  <2>4. \A h, v, b : SafeAt(h, v, b)' = SafeAt(h, v, b)
    BY <2>1 DEF SafeAt, NoOtherVote, Reached
  <2>5. LogInv'
    BY <2>1, <2>2, <2>3 DEF AgreementInv, LogInv, EntryOK
  <2>6. ChangeInv'
    BY <2>1, <2>2 DEF AgreementInv, ChangeInv
  <2>7. ProposerInv'
    BY <2>1 DEF AgreementInv, ProposerInv, ProposerOK, Reached
  <2>8. ProposalInv' /\ PrepareInv'
    BY <2>1, <2>3, <2>4 DEF AgreementInv, ProposalInv, PrepareInv
  <2>9. CommitInv'
    BY <2>1 DEF AgreementInv, CommitInv, CommitOK
  <2>10. ProofInv'
    BY <2>1 DEF AgreementInv, ProofInv, ProofSent
  <2>11. ChainInv'
    <3>1. \A h, v, b : Chosen(h, v, b)' = Chosen(h, v, b)
      BY <2>1 DEF Chosen, SendersOf
    <3>. QED
      BY <2>1, <3>1 DEF AgreementInv, ChainInv
  <2>. QED
    BY <2>5, <2>6, <2>7, <2>8, <2>9, <2>10, <2>11 DEF AgreementInv
<1>. QED
  BY <1>1, <1>2, <1>3, <1>4, <1>5, <1>6, <1>7, <1>8, <1>9, <1>10
     DEF TimelyNext, TimelyProposing, OtherStep

\* A timely behaviour is a behaviour.
LEMMA TimelyIsSpec == TimelySpec => Spec
<1>1. [TimelyNext]_vars => [Next]_vars
  BY DEF TimelyNext, TimelyProposing, Next, Proposing
<1>. QED
  BY <1>1, PTL DEF TimelySpec, Spec

\* The inductive invariant holds of every behaviour in which PRE_PREPAREs are
\* timely: logs, VIEW_CHANGEs, proposals, PREPAREs, COMMITs, proofs, stored blocks
\* and blocks in block sync of all nodes stay in order together.
THEOREM TimelySafety == TimelySpec => []SafetyInv
<1>1. ASSUME TypeOK, TypeOK', FollowInv, SyncInv, AgreementInv, EvidenceInv, [TimelyNext]_vars
      PROVE  AgreementInv' /\ EvidenceInv'
  BY <1>1, TimelyStepSafe, TimelyStepEvident
<1>2. TimelySpec => [](AgreementInv /\ EvidenceInv)
  BY <1>1, InitSafe, InitEvident, TimelyTypeCorrect, TimelyIsSpec, FollowsCorrect, PTL
     DEF TimelySpec
<1>3. AgreementInv /\ EvidenceInv /\ SyncInv => SafetyInv
  BY DEF SafetyInv
<1>. QED
  BY <1>2, <1>3, TimelyIsSpec, FollowsCorrect, PTL

\* A node that voted for a block no other than which is safe did not vote for
\* another one.
LEMMA ChosenIsSafe ==
  ASSUME TypeOK, NEW h, NEW v \in Nat, NEW c \in 0 .. (v - 1), NEW b, NEW d,
         SafeAt(h, v, b), Chosen(h, c, d)
  PROVE  b = d
<1>1. PICK Q \in SUBSET Node :
        /\ Cardinality(Q) >= 2 * F + 1
        /\ \A a \in Q : NoOtherVote(a, h, c, b)
  BY DEF SafeAt
<1> DEFINE S == SendersOf("COMMIT", h, c, d)
<1>2. S \subseteq Node
  BY MessageKinds DEF TypeOK, SendersOf, Senders, Header
<1>3. Cardinality(S) >= 2 * F + 1
  BY DEF Chosen
<1>4. /\ Cardinality(S) \in Nat /\ Cardinality(Q) \in Nat
      /\ Cardinality(Node) \in Nat
  BY <1>1, <1>2, FS_Subset, FS_CardinalityType, QuorumAssumption
<1>5. Cardinality(S) + Cardinality(Q) > Cardinality(Node)
  BY <1>1, <1>3, <1>4, QuorumAssumption
<1>6. S \cap Q # {}
  BY <1>1, <1>2, <1>5, FS_MajoritiesIntersect, QuorumAssumption
<1>7. PICK m \in msgs : /\ m.type = "COMMIT"
                        /\ m.height = h
                        /\ m.view = c
                        /\ m.hash = d
                        /\ m.sender \in Q
  BY <1>6 DEF SendersOf, Senders
<1>. QED
  BY <1>1, <1>7 DEF NoOtherVote

LEMMA SafetyImpliesAgreement == TypeOK /\ AgreementInv => Agreement
<1> SUFFICES ASSUME TypeOK, AgreementInv, NEW a \in Node, NEW b \in Node,
                    NEW h \in 1 .. Len(chain[a]), h <= Len(chain[b])
             PROVE  chain[a][h].hash = chain[b][h].hash
  BY DEF Agreement
<1>1. h \in 1 .. Len(chain[b])
  BY DEF TypeOK
<1>2. PICK x \in msgs : /\ x.type = "COMMIT"
                        /\ x.height = h
                        /\ x.hash = chain[a][h].hash
                        /\ Chosen(h, x.view, x.hash)
  BY DEF AgreementInv, ChainInv
<1>3. PICK y \in msgs : /\ y.type = "COMMIT"
                        /\ y.height = h
                        /\ y.hash = chain[b][h].hash
                        /\ Chosen(h, y.view, y.hash)
  BY <1>1 DEF AgreementInv, ChainInv
<1>4. x.view \in Nat /\ y.view \in Nat
  BY <1>2, <1>3, MessageKinds DEF TypeOK, Header
<1>5. /\ x.hash \in Proposals(h, x.view) /\ SafeAt(h, x.view, x.hash)
      /\ y.hash \in Proposals(h, y.view) /\ SafeAt(h, y.view, y.hash)
  BY <1>2, <1>3, CommitProposed
<1>6. CASE x.view = y.view
  BY <1>2, <1>3, <1>5, <1>6, UniqueProposal DEF AgreementInv
<1>7. CASE x.view < y.view
  <2>1. x.view \in 0 .. (y.view - 1)
    BY <1>4, <1>7
  <2>. QED
    BY <1>2, <1>3, <1>4, <1>5, <2>1, ChosenIsSafe
<1>8. CASE y.view < x.view
  <2>1. y.view \in 0 .. (x.view - 1)
    BY <1>4, <1>8
  <2>. QED
    BY <1>2, <1>3, <1>4, <1>5, <2>1, ChosenIsSafe
<1>. QED
  BY <1>4, <1>6, <1>7, <1>8

LEMMA SafetyImpliesChosenBlockStays ==
  TypeOK /\ AgreementInv => ChosenBlockStays
<1> SUFFICES ASSUME TypeOK, AgreementInv, NEW m \in msgs, NEW c \in msgs,
                    m.type = "PREPARE", c.type = "COMMIT", c.height = m.height,
                    c.view < m.view, Chosen(c.height, c.view, c.hash)
             PROVE  m.hash = c.hash
  BY DEF ChosenBlockStays
<1>1. m.view \in Nat /\ c.view \in Nat
  BY MessageKinds DEF TypeOK, Header
<1>2. SafeAt(m.height, m.view, m.hash)
  BY DEF AgreementInv, PrepareInv
<1>3. c.view \in 0 .. (m.view - 1)
  BY <1>1
<1>. QED
  BY <1>1, <1>2, <1>3, ChosenIsSafe

\* When PRE_PREPAREs are timely no two BlockStorages hold different blocks
\* under one height, whatever else is lost, late, reordered or repeated and
\* however many nodes stop.
THEOREM TimelyAgreement == TimelySpec => []Agreement
<1>1. TypeOK /\ SafetyInv => Agreement
  BY SafetyImpliesAgreement DEF SafetyInv
<1>. QED
  BY <1>1, TimelySafety, TimelyTypeCorrect, PTL

\* When PRE_PREPAREs are timely a chosen block is the only one that is prepared
\* in any later view.
THEOREM TimelyChosenBlockStays == TimelySpec => []ChosenBlockStays
<1>1. TypeOK /\ SafetyInv => ChosenBlockStays
  BY SafetyImpliesChosenBlockStays DEF SafetyInv
<1>. QED
  BY <1>1, TimelySafety, TimelyTypeCorrect, PTL

LEMMA SafetyImpliesOneProposal ==
  TypeOK /\ SafetyInv => OneProposalPerView /\ CommitterProvesIt
<1> SUFFICES ASSUME TypeOK, AgreementInv, EvidenceInv
             PROVE  OneProposalPerView /\ CommitterProvesIt
  BY DEF SafetyInv
<1>1. ASSUME NEW h, NEW v
      PROVE  Cardinality(Proposals(h, v)) <= 1
  <2>1. CASE Proposals(h, v) = {}
    BY <2>1, FS_EmptySet
  <2>2. ASSUME NEW b \in Proposals(h, v)
        PROVE  Cardinality(Proposals(h, v)) <= 1
    <3>1. \A d \in Proposals(h, v) : d = b
      BY <2>2, UniqueProposal DEF AgreementInv
    <3>2. Proposals(h, v) = {b}
      BY <2>2, <3>1
    <3>3. Cardinality({b}) = 1
      BY FS_Singleton
    <3>. QED
      BY <3>2, <3>3
  <2>. QED
    BY <2>1, <2>2
<1>2. OneProposalPerView
  BY <1>1 DEF OneProposalPerView
<1>3. CommitterProvesIt
  <2> SUFFICES ASSUME NEW c \in msgs, NEW m \in msgs, c.type = "COMMIT",
                      m.type = "VIEW_CHANGE", m.sender = c.sender,
                      m.height = c.height, c.view < m.view
               PROVE  /\ ValidPreparedProof(m.proof, m.height, m.view)
                      /\ m.proof.view >= c.view
                      /\ m.proof.view = c.view => m.proof.hash = c.hash
    BY DEF CommitterProvesIt
  <2>1. ValidPreparedProof(m.proof, m.height, m.view)
    BY DEF EvidenceInv, ValidInv
  <2>2. ChangeOK(m)
    BY DEF AgreementInv, ChangeInv
  <2>3. m.proof.view >= c.view
    BY <2>2 DEF ChangeOK
  <2>4. ASSUME m.proof.view = c.view PROVE m.proof.hash = c.hash
    <3>1. m.proof \in Proof /\ c.view \in Nat
      BY MessageKinds DEF TypeOK, ViewChange, Header
    <3>2. m.proof # NoProof
      BY <2>4, <3>1 DEF NoProof
    <3>3. m.proof.hash \in Proposals(m.height, m.proof.view)
      BY <2>1, <2>2, <3>1, <3>2, ProofPrepared DEF ChangeOK
    <3>4. c.hash \in Proposals(c.height, c.view)
      BY CommitProposed
    <3>. QED
      BY <2>4, <3>3, <3>4, UniqueProposal DEF AgreementInv
  <2>. QED
    BY <2>1, <2>3, <2>4
<1>. QED
  BY <1>2, <1>3

\* When PRE_PREPAREs are timely a view of a term has one proposal: its leader never
\* starts it twice, however many VIEW_CHANGEs keep arriving.
THEOREM TimelyOneProposal == TimelySpec => []OneProposalPerView
  BY TimelySafety, TimelyTypeCorrect, SafetyImpliesOneProposal, PTL

\* When PRE_PREPAREs are timely a node that committed to a block proves it, or a block of
\* a later view, in every VIEW_CHANGE it sends afterwards, with a proof that is valid.
THEOREM TimelyCommitterProves == TimelySpec => []CommitterProvesIt
  BY TimelySafety, TimelyTypeCorrect, SafetyImpliesOneProposal, PTL

-----------------------------------------------------------------------------
(* One message of a type in a view.                                        *)

Like(m, x) == /\ m.type = x.type
              /\ m.height = x.height
              /\ m.view = x.view
              /\ m.sender = x.sender

\* VIEW_CHANGEs and NEW_VIEWs, which are not determined by the proposal.
OneChange ==
  \A m, x \in msgs : m.type \in {"VIEW_CHANGE", "NEW_VIEW"} /\ Like(m, x) => m = x

\* At most one of them is sent in a step, and none like it was sent before.
SendsNew ==
  \E nm : /\ \A m \in msgs' \ msgs : m.type \in {"VIEW_CHANGE", "NEW_VIEW"} => m = nm
          /\ nm \in msgs' \ msgs => \A x \in msgs : ~Like(nm, x)

LEMMA CheckIfPreparedSends ==
  ASSUME NEW n, NEW L, NEW v, NEW w, NEW c, NEW out, CheckIfPrepared(n, L, v, w, c, out),
         \A m \in out : m.type \notin {"VIEW_CHANGE", "NEW_VIEW"}
  PROVE  SendsNew
<1>1. PICK commit : /\ commit.type = "COMMIT"
                    /\ msgs' \subseteq msgs \cup out \cup {commit}
  <2>1. \A b : MakeHeader("COMMIT", n, height[n], w, b).type = "COMMIT"
    BY DEF MakeHeader
  <2>2. ASSUME msgs' = msgs \cup out
        PROVE  \E commit : commit.type = "COMMIT" /\ msgs' \subseteq msgs \cup out \cup {commit}
    BY <2>1, <2>2
  <2>3. \/ msgs' = msgs \cup out
        \/ \E b : msgs' = msgs \cup out \cup {MakeHeader("COMMIT", n, height[n], w, b)}
    BY DEF CheckIfPrepared, OnPrepared
  <2>. QED
    BY <2>1, <2>2, <2>3
<1>. QED
  BY <1>1 DEF SendsNew

LEMMA AcceptPrePrepareSends ==
  ASSUME NEW n, NEW pp, NEW w, AcceptPrePrepare(n, pp, w)
  PROVE  SendsNew
<1>1. MakeHeader("PREPARE", n, height[n], w, pp.hash).type = "PREPARE"
  BY DEF MakeHeader
<1>. QED
  BY <1>1, CheckIfPreparedSends DEF AcceptPrePrepare

\* A node that times out enters the view of its VIEW_CHANGE for the first time.
LEMMA OnTimeOutSends ==
  ASSUME TypeOK, AgreementInv, NEW n \in Node, OnTimeOut(n)
  PROVE  SendsNew
<1> DEFINE change == [type |-> "VIEW_CHANGE", height |-> height[n], view |-> view[n] + 1,
                      sender |-> n, proof |-> ChangeProof(n),
                      block |-> IF prepared[n] THEN candidate[n].block ELSE NoBlock]
<1>1. msgs' \subseteq msgs \cup {change}
  BY DEF OnTimeOut
<1>2. /\ change.type = "VIEW_CHANGE" /\ change.height = height[n]
      /\ change.view = view[n] + 1 /\ change.sender = n
  OBVIOUS
<1> HIDE DEF change
<1>3. ASSUME NEW x \in msgs, Like(change, x) PROVE FALSE
  <2>1. Reached(n, height[n], view[n] + 1)
    BY <1>2, <1>3 DEF Like, AgreementInv, ChangeInv, ChangeOK
  <2>2. height[n] \in Nat /\ view[n] \in Nat
    BY DEF TypeOK
  <2>. QED
    BY <2>1, <2>2 DEF Reached
<1>. QED
  BY <1>1, <1>3 DEF SendsNew

\* A leader that starts a view has not started it before.
LEMMA LocalNewViewSends ==
  ASSUME TypeOK, AgreementInv, NEW n \in Node, NEW L, NEW v \in Nat, view[n] <= v,
         ~newViewTriggered[n], LocalNewView(n, L, v)
  PROVE  SendsNew
<1>1. PICK nv : /\ msgs' = msgs \cup {nv}
                /\ nv.type = "NEW_VIEW" /\ nv.height = height[n]
                /\ nv.view = v /\ nv.sender = n
  <2>1. PICK nv : \E c, pp, proof :
          /\ msgs' = msgs \cup {nv}
          /\ nv = [type |-> "NEW_VIEW", height |-> height[n], view |-> v,
                   sender |-> n, proof |-> proof, pp |-> pp, block |-> c.block]
    BY DEF LocalNewView
  <2>2. /\ nv.type = "NEW_VIEW" /\ nv.height = height[n]
        /\ nv.view = v /\ nv.sender = n
    BY <2>1
  <2>. QED
    BY <2>1, <2>2
<1>2. ASSUME NEW x \in msgs, Like(nv, x) PROVE FALSE
  <2>1. Reached(n, height[n], v + 1)
    BY <1>1, <1>2 DEF Like, AgreementInv, ProposerInv, ProposerOK
  <2>2. height[n] \in Nat /\ view[n] \in Nat
    BY DEF TypeOK
  <2>. QED
    BY <2>1, <2>2 DEF Reached
<1>. QED
  BY <1>1, <1>2 DEF SendsNew

LEMMA OneChangeStep ==
  ASSUME TypeOK, AgreementInv, OneChange, [TimelyNext]_vars
  PROVE  OneChange'
<1>1. SUFFICES SendsNew
  <2>1. ASSUME SendsNew, NEW m \in msgs', NEW x \in msgs',
               m.type \in {"VIEW_CHANGE", "NEW_VIEW"}, Like(m, x)
        PROVE  m = x
    <3>1. x.type \in {"VIEW_CHANGE", "NEW_VIEW"} /\ Like(x, m)
      BY <2>1 DEF Like
    <3>. QED
      BY <2>1, <3>1 DEF SendsNew, OneChange
  <2>. QED
    BY <2>1 DEF OneChange, Like
<1>2. msgs' = msgs => SendsNew
  BY DEF SendsNew
<1>3. ASSUME NEW n \in Node, ProposeBlock(n) PROVE SendsNew
  <2>1. PICK b \in Block :
          msgs' = msgs \cup {MakeHeader("PRE_PREPARE", n, height[n], view[n], b)}
    BY <1>3 DEF ProposeBlock
  <2>2. MakeHeader("PRE_PREPARE", n, height[n], view[n], b).type = "PRE_PREPARE"
    BY DEF MakeHeader
  <2>. QED
    BY <2>1, <2>2 DEF SendsNew
<1>4. ASSUME NEW n \in Node, OnPrePrepareReceived(n) \/ OnNewViewReceived(n) PROVE SendsNew
  BY <1>4, AcceptPrePrepareSends DEF OnPrePrepareReceived, OnNewViewReceived
<1>5. ASSUME NEW n \in Node, OnPrepareReceived(n) PROVE SendsNew
  BY <1>5, CheckIfPreparedSends DEF OnPrepareReceived
<1>6. ASSUME NEW n \in Node,
             \/ OnCommitReceived(n)
             \/ \E p \in Live : ValidateBlockForCommit(n, p)
             \/ CommitSyncedBlock(n)
      PROVE  SendsNew
  BY <1>2, <1>6 DEF OnCommitReceived, ValidateBlockForCommit, CommitSyncedBlock
<1>7. ASSUME NEW n \in Node, OnViewChangeReceived(n) PROVE SendsNew
  <2>1. PICK m \in msgs :
          /\ m.type = "VIEW_CHANGE" /\ m.view >= view[n]
          /\ \/ LocalNewView(n, Put(log[n], m), m.view) /\ ~newViewTriggered[n]
             \/ UNCHANGED msgs
    BY <1>7 DEF OnViewChangeReceived, StartsNewView
  <2>2. m.view \in Nat /\ view[n] \in Nat
    BY <2>1, MessageKinds DEF TypeOK, ViewChange
  <2>. QED
    BY <1>2, <2>1, <2>2, LocalNewViewSends
<1>8. ASSUME NEW n \in Node, OnTimeOut(n) PROVE SendsNew
  BY <1>8, OnTimeOutSends
<1>9. CASE UNCHANGED vars
  BY <1>2, <1>9 DEF vars
<1>. QED
  BY <1>3, <1>4, <1>5, <1>6, <1>7, <1>8, <1>9, QuorumAssumption
     DEF TimelyNext, TimelyProposing, OtherStep

\* The other messages are determined by the one proposal of their view.
LEMMA OneMessage ==
  TypeOK /\ AgreementInv /\ OneChange => OneMessagePerView
<1> SUFFICES ASSUME TypeOK, AgreementInv, OneChange, NEW m \in msgs, NEW x \in msgs, Like(m, x)
             PROVE  m = x
  BY DEF OneMessagePerView, Like
<1>1. CASE m.type \in {"VIEW_CHANGE", "NEW_VIEW"}
  BY <1>1 DEF OneChange
<1>2. CASE m.type \in {"PRE_PREPARE", "PREPARE", "COMMIT"}
  <2>1. m \in Header /\ x \in Header /\ x.type = m.type
    BY <1>2, MessageKinds DEF TypeOK, Like
  <2>2. ASSUME NEW y \in msgs, y \in Header PROVE y.hash \in Proposals(y.height, y.view)
    <3>1. CASE y.type = "PRE_PREPARE"
      BY <3>1 DEF Proposals
    <3>2. CASE y.type = "PREPARE"
      BY <3>2 DEF AgreementInv, PrepareInv
    <3>3. CASE y.type = "COMMIT"
      BY <3>3, CommitProposed
    <3>. QED
      BY <2>2, <3>1, <3>2, <3>3 DEF Header
  <2>3. m.hash = x.hash
    BY <2>1, <2>2, UniqueProposal DEF Like, AgreementInv
  <2>. QED
    BY <2>1, <2>3 DEF Header, Like
<1>3. m.type \in {"PRE_PREPARE", "PREPARE", "COMMIT", "VIEW_CHANGE", "NEW_VIEW"}
  BY DEF TypeOK, Message, Header, ViewChange, NewView
<1>. QED
  BY <1>1, <1>2, <1>3

\* When PRE_PREPAREs are timely a node sends at most one message of a type in a view,
\* as the Received Messages Cache expects of it.
THEOREM TimelyOneMessage == TimelySpec => []OneMessagePerView
<1>1. Init => OneChange
  BY DEF Init, OneChange
<1>2. TypeOK /\ SafetyInv /\ OneChange /\ [TimelyNext]_vars => OneChange'
  BY OneChangeStep DEF SafetyInv
<1>3. TypeOK /\ SafetyInv /\ OneChange => OneMessagePerView
  BY OneMessage DEF SafetyInv
<1>. QED
  BY <1>1, <1>2, <1>3, TimelySafety, TimelyTypeCorrect, PTL DEF TimelySpec

---------------------------------------------------------------------------
(* Nothing but blocks is proposed and stored.                              *)

\* What a message, sent or logged, is about is a block.
AboutBlock(m) ==
  /\ m.type = "PRE_PREPARE" => m.hash \in Block
  /\ m.type = "VIEW_CHANGE" => m.proof = NoProof \/ m.proof.hash \in Block
  /\ m.type = "NEW_VIEW" => m.pp.hash \in Block

AllAbout(L) == \A m \in L : AboutBlock(m)

\* A node that logged a proposal has a candidate.
HasCandidate(L, c) == (\E pp \in L : pp.type = "PRE_PREPARE") => c.hash \in Block

BlockInv ==
  /\ AllAbout(msgs)
  /\ \A n \in Node : /\ AllAbout(log[n])
                     /\ HasCandidate(log[n], candidate[n])
                     /\ preparedProof[n] = NoProof \/ preparedProof[n].hash \in Block
                     /\ \A h \in 1 .. Len(chain[n]) : chain[n][h].hash \in Block

\* What a step has to show of the node that takes it.
BlocksOf(n) ==
  /\ AllAbout(msgs')
  /\ \A a \in Node \ {n} : /\ log'[a] = log[a]
                           /\ candidate'[a] = candidate[a]
                           /\ preparedProof'[a] = preparedProof[a]
                           /\ chain'[a] = chain[a]
  /\ AllAbout(log'[n])
  /\ HasCandidate(log'[n], candidate'[n])
  /\ preparedProof'[n] = NoProof \/ preparedProof'[n].hash \in Block
  /\ \A h \in 1 .. Len(chain'[n]) : chain'[n][h].hash \in Block

LEMMA BlockStep ==
  ASSUME BlockInv, NEW n \in Node, BlocksOf(n)
  PROVE  BlockInv'
<1>1. AllAbout(msgs)'
  BY DEF BlocksOf, AllAbout, AboutBlock
<1>2. ASSUME NEW a \in Node
      PROVE  (/\ AllAbout(log[a])
              /\ HasCandidate(log[a], candidate[a])
              /\ preparedProof[a] = NoProof \/ preparedProof[a].hash \in Block
              /\ \A h \in 1 .. Len(chain[a]) : chain[a][h].hash \in Block)'
  <2>1. CASE a = n
    BY <2>1 DEF BlocksOf, AllAbout, AboutBlock, HasCandidate
  <2>2. CASE a # n
    BY <2>2 DEF BlocksOf, BlockInv, AllAbout, AboutBlock, HasCandidate
  <2>. QED
    BY <2>1, <2>2
<1>. QED
  BY <1>1, <1>2 DEF BlockInv

\* Headers other than PRE_PREPAREs say nothing of their own.
LEMMA AnswersAbout ==
  ASSUME NEW type \in {"PREPARE", "COMMIT"}, NEW n, NEW h, NEW v, NEW b
  PROVE  LET m == MakeHeader(type, n, h, v, b)
         IN  AboutBlock(m) /\ m.type # "PRE_PREPARE"
  BY DEF MakeHeader, AboutBlock

LEMMA PutAbout ==
  ASSUME NEW L, AllAbout(L), NEW m, AboutBlock(m), NEW c, HasCandidate(L, c),
         m.type = "PRE_PREPARE" => c.hash \in Block
  PROVE  AllAbout(Put(L, m)) /\ HasCandidate(Put(L, m), c)
  BY DEF Put, AllAbout, HasCandidate

LEMMA StayInRoundAbout ==
  ASSUME TypeOK, BlockInv, NEW n \in Node, NEW L, NEW w, NEW c, StayInRound(n, L, w, c),
         AllAbout(msgs'), AllAbout(L), HasCandidate(L, c), NEW p,
         preparedProof' = [preparedProof EXCEPT ![n] = p],
         p = NoProof \/ p.hash \in Block
  PROVE  BlocksOf(n)
<1>1. /\ log'[n] = L /\ candidate'[n] = c /\ preparedProof'[n] = p /\ chain' = chain
      /\ \A a \in Node \ {n} : /\ log'[a] = log[a]
                               /\ candidate'[a] = candidate[a]
                               /\ preparedProof'[a] = preparedProof[a]
  BY DEF StayInRound, TypeOK
<1>. QED
  BY <1>1 DEF BlocksOf, BlockInv

LEMMA InitNextRoundAbout ==
  ASSUME TypeOK, NEW n \in Node, NEW h, NEW c, InitNextRound(n, h, c)
  PROVE  /\ AllAbout(log'[n]) /\ HasCandidate(log'[n], candidate'[n])
         /\ preparedProof'[n] = NoProof
         /\ \A a \in Node \ {n} : /\ log'[a] = log[a]
                                  /\ candidate'[a] = candidate[a]
                                  /\ preparedProof'[a] = preparedProof[a]
<1>1. /\ log'[n] = {} /\ preparedProof'[n] = NoProof
      /\ \A a \in Node \ {n} : /\ log'[a] = log[a]
                               /\ candidate'[a] = candidate[a]
                               /\ preparedProof'[a] = preparedProof[a]
  BY DEF InitNextRound, TypeOK
<1>. QED
  BY <1>1 DEF AllAbout, HasCandidate

\* A stored block is one.
LEMMA CommitBlockAbout ==
  ASSUME TypeOK, BlockInv, NEW n \in Node, NEW h \in Nat, NEW blk \in Committed,
         blk.hash \in Block, CommitBlock(n, h, blk)
  PROVE  /\ \A a \in Node \ {n} : chain'[a] = chain[a]
         /\ \A i \in 1 .. Len(chain'[n]) : chain'[n][i].hash \in Block
<1>1. /\ chain[n] \in Seq(Committed)
      /\ \A i \in 1 .. Len(chain[n]) : chain[n][i].hash \in Block
  BY DEF TypeOK, BlockInv
<1>2. ASSUME chain'[n] = Append(chain[n], blk)
      PROVE  \A i \in 1 .. Len(chain'[n]) : chain'[n][i].hash \in Block
  <2>1. /\ Len(chain'[n]) = Len(chain[n]) + 1
        /\ chain'[n][Len(chain[n]) + 1] = blk
        /\ \A i \in 1 .. Len(chain[n]) : chain'[n][i] = chain[n][i]
    BY <1>1, <1>2
  <2>. QED
    BY <1>1, <2>1
<1>. QED
  BY <1>1, <1>2, CommitBlockMoves

LEMMA OnCommittedLocallyAbout ==
  ASSUME TypeOK, BlockInv, NEW n \in Node, NEW L \in SUBSET LogEntry,
         NEW v \in Nat, NEW w \in Nat, NEW c, OnCommittedLocally(n, L, v, w, c),
         AllAbout(msgs'), AllAbout(L)
  PROVE  BlocksOf(n)
<1>1. PICK b \in CommittedHashes(L, v) :
        /\ CommitBlock(n, height[n],
                       [hash |-> b, view |-> w, commits |-> Of(L, "COMMIT", v)])
        /\ InitNextRound(n, height[n], c)
  BY DEF OnCommittedLocally
<1> DEFINE blk == [hash |-> b, view |-> w, commits |-> Of(L, "COMMIT", v)]
<1>2. blk \in Committed /\ height[n] \in Nat
  BY OfType DEF Committed, CommittedHashes, TypeOK
<1>3. b \in Block
  BY DEF CommittedHashes, Of, AllAbout, AboutBlock
<1>4. blk.hash \in Block
  BY <1>3
<1> HIDE DEF blk
<1>5. /\ \A a \in Node \ {n} : chain'[a] = chain[a]
      /\ \A i \in 1 .. Len(chain'[n]) : chain'[n][i].hash \in Block
  BY <1>1, <1>2, <1>4, CommitBlockAbout DEF blk
<1>. QED
  BY <1>1, <1>5, InitNextRoundAbout DEF BlocksOf

LEMMA CheckIfPreparedAbout ==
  ASSUME TypeOK, BlockInv, NEW n \in Node, NEW L \in SUBSET LogEntry,
         NEW v \in Nat, NEW w \in Nat, NEW c, NEW out, CheckIfPrepared(n, L, v, w, c, out),
         AllAbout(out), AllAbout(L), HasCandidate(L, c)
  PROVE  BlocksOf(n)
<1>1. CASE ~IsPrepared(L, v)
  <2>1. /\ msgs' = msgs \cup out /\ StayInRound(n, L, w, c)
        /\ preparedProof' = [preparedProof EXCEPT ![n] = preparedProof[n]]
    BY <1>1 DEF CheckIfPrepared, TypeOK
  <2>2. AllAbout(msgs') /\ (preparedProof[n] = NoProof \/ preparedProof[n].hash \in Block)
    BY <2>1 DEF BlockInv, AllAbout
  <2>. QED
    BY <2>1, <2>2, StayInRoundAbout
<1>2. CASE IsPrepared(L, v)
  <2> DEFINE Prepares(b) == MakeHeader("COMMIT", n, height[n], w, b)
             proof == [height |-> height[n], view |-> w, hash |-> c.hash,
                       signatures |-> Of(L, "PRE_PREPARE", v) \cup Of(L, "PREPARE", v)]
  <2>0. PICK b \in LoggedHashes(L, w) :
          /\ msgs' = msgs \cup out \cup {Prepares(b)}
          /\ \/ OnCommittedLocally(n, Put(L, Prepares(b)), v, w, c)
             \/ /\ StayInRound(n, Put(L, Prepares(b)), w, c)
                /\ preparedProof' = [preparedProof EXCEPT ![n] = proof]
    BY <1>2 DEF CheckIfPrepared, OnPrepared
  <2> DEFINE commit == Prepares(b)
             L2 == Put(L, commit)
  <2>1. AboutBlock(commit) /\ commit.type # "PRE_PREPARE"
    BY AnswersAbout
  <2>2. L2 \in SUBSET LogEntry
    BY <2>0, LoggedHashType, MakeHeaderType, PutType DEF LogEntry, TypeOK
  <2>3. AllAbout(L2) /\ HasCandidate(L2, c)
    <3> HIDE DEF commit
    <3>. QED
      BY <2>1, PutAbout
  <2>4. proof.hash \in Block
    BY <1>2 DEF IsPrepared, Of, HasCandidate
  <2>5. /\ msgs' = msgs \cup out \cup {commit}
        /\ \/ OnCommittedLocally(n, L2, v, w, c)
           \/ /\ StayInRound(n, L2, w, c)
              /\ preparedProof' = [preparedProof EXCEPT ![n] = proof]
    BY <2>0
  <2> HIDE DEF commit, L2, proof
  <2>6. AllAbout(msgs')
    BY <2>1, <2>5 DEF BlockInv, AllAbout
  <2>. QED
    BY <2>2, <2>3, <2>4, <2>5, <2>6, OnCommittedLocallyAbout, StayInRoundAbout
<1>. QED
  BY <1>1, <1>2

LEMMA AcceptPrePrepareAbout ==
  ASSUME TypeOK, BlockInv, NEW n \in Node, NEW pp \in Header, NEW w \in Nat,
         pp.hash \in Block, AcceptPrePrepare(n, pp, w)
  PROVE  BlocksOf(n)
<1> DEFINE prepare == MakeHeader("PREPARE", n, height[n], w, pp.hash)
           c == [block |-> pp.hash, hash |-> pp.hash]
           L1 == Put(log[n], pp)
           L == Put(L1, prepare)
<1>1. pp.view \in Nat /\ pp \in LogEntry /\ prepare \in LogEntry
      /\ log[n] \in SUBSET LogEntry
  BY MakeHeaderType DEF Header, LogEntry, TypeOK
<1>2. L \in SUBSET LogEntry
  BY <1>1, PutType
<1>3. c.hash \in Block
  OBVIOUS
<1>4. AboutBlock(prepare) /\ prepare.type # "PRE_PREPARE"
  BY AnswersAbout
<1>5. AboutBlock(pp)
  <2>1. pp.type \in {"PRE_PREPARE", "PREPARE", "COMMIT"}
    BY DEF Header
  <2>. QED
    BY <2>1 DEF AboutBlock
<1>6. CheckIfPrepared(n, L, pp.view, w, c, {prepare})
  BY DEF AcceptPrePrepare
<1> HIDE DEF c, prepare, L
<1>7. AllAbout(log[n]) /\ HasCandidate(log[n], c)
  BY <1>3 DEF BlockInv, HasCandidate
<1>8. AllAbout(L1) /\ HasCandidate(L1, c)
  BY <1>3, <1>5, <1>7, PutAbout
<1>9. AllAbout(L) /\ HasCandidate(L, c) /\ AllAbout({prepare})
  BY <1>4, <1>8, PutAbout DEF L, AllAbout
<1>. QED
  BY <1>1, <1>2, <1>6, <1>9, CheckIfPreparedAbout

\* A new view starts with a block of a VIEW_CHANGE or with a new one.
LEMMA LocalNewViewAbout ==
  ASSUME TypeOK, BlockInv, NEW n \in Node, NEW L, NEW v, AllAbout(L), LocalNewView(n, L, v)
  PROVE  BlocksOf(n)
<1> DEFINE changes == Of(L, "VIEW_CHANGE", v)
<1>1. PICK c, pp, nv :
        /\ c.hash \in Block
        /\ pp = MakeHeader("PRE_PREPARE", n, height[n], v, c.hash)
        /\ nv.type = "NEW_VIEW" /\ nv.pp = pp
        /\ candidate' = [candidate EXCEPT ![n] = c]
        /\ log' = [log EXCEPT ![n] = Put(L, pp)]
        /\ msgs' = msgs \cup {nv}
        /\ UNCHANGED <<preparedProof, chain>>
  <2> DEFINE candidates == UNION {IF m.proof = NoProof
                                  THEN {[block |-> b, hash |-> b] : b \in Block}
                                  ELSE {[block |-> m.block, hash |-> m.proof.hash]} :
                                    m \in Highest(changes)}
             pp(c) == MakeHeader("PRE_PREPARE", n, height[n], v, c.hash)
             nv(c) == [type |-> "NEW_VIEW", height |-> height[n], view |-> v,
                       sender |-> n, proof |-> {[m EXCEPT !.block = NoBlock] : m \in changes},
                       pp |-> pp(c), block |-> c.block]
  <2>1. PICK c \in candidates :
          /\ candidate' = [candidate EXCEPT ![n] = c]
          /\ log' = [log EXCEPT ![n] = Put(L, pp(c))]
          /\ msgs' = msgs \cup {nv(c)}
          /\ UNCHANGED <<preparedProof, chain>>
    BY DEF LocalNewView
  <2>2. c.hash \in Block
    <3>1. PICK m \in Highest(changes) :
            c \in IF m.proof = NoProof
                  THEN {[block |-> b, hash |-> b] : b \in Block}
                  ELSE {[block |-> m.block, hash |-> m.proof.hash]}
      OBVIOUS
    <3>2. AboutBlock(m) /\ m.type = "VIEW_CHANGE"
      BY DEF Highest, Of, AllAbout
    <3>. QED
      BY <3>1, <3>2 DEF AboutBlock
  <2>3. nv(c).type = "NEW_VIEW" /\ nv(c).pp = pp(c)
    OBVIOUS
  <2> HIDE DEF candidates, nv
  <2>. QED
    BY <2>1, <2>2, <2>3
<1>2. /\ candidate'[n] = c /\ log'[n] = Put(L, pp)
      /\ \A a \in Node \ {n} : candidate'[a] = candidate[a] /\ log'[a] = log[a]
  BY <1>1 DEF TypeOK
<1>3. pp.type = "PRE_PREPARE" /\ pp.hash \in Block
  BY <1>1 DEF MakeHeader
<1>4. AboutBlock(pp) /\ AboutBlock(nv)
  BY <1>1, <1>3 DEF AboutBlock
<1>5. AllAbout(Put(L, pp)) /\ HasCandidate(Put(L, pp), c)
  BY <1>1, <1>4 DEF Put, AllAbout, HasCandidate
<1>6. AllAbout(msgs')
  BY <1>1, <1>4 DEF AllAbout, BlockInv
<1>. QED
  BY <1>1, <1>2, <1>5, <1>6 DEF BlocksOf, BlockInv

\* A handler that only logs.
LEMMA LogAbout ==
  ASSUME TypeOK, BlockInv, NEW n \in Node, NEW m, AboutBlock(m),
         m.type = "PRE_PREPARE" => candidate'[n].hash \in Block,
         log' = [log EXCEPT ![n] = Put(@, m)],
         AllAbout(msgs'), UNCHANGED <<preparedProof, chain>>,
         \A a \in Node \ {n} : candidate'[a] = candidate[a],
         candidate'[n] = candidate[n] \/ candidate'[n].hash \in Block
  PROVE  BlocksOf(n)
<1>1. log'[n] = Put(log[n], m) /\ \A a \in Node \ {n} : log'[a] = log[a]
  BY DEF TypeOK
<1>2. AllAbout(log[n]) /\ HasCandidate(log[n], candidate'[n])
  BY DEF BlockInv, HasCandidate
<1>3. AllAbout(log'[n]) /\ HasCandidate(log'[n], candidate'[n])
  BY <1>1, <1>2, PutAbout
<1>. QED
  BY <1>1, <1>3 DEF BlocksOf, BlockInv

LEMMA StepAbout ==
  ASSUME TypeOK, SyncInv, BlockInv, NEW n \in Node,
         \/ ProposeBlock(n) \/ OnPrePrepareReceived(n) \/ OnPrepareReceived(n)
         \/ OnCommitReceived(n) \/ OnViewChangeReceived(n) \/ OnNewViewReceived(n)
         \/ OnTimeOut(n) \/ CommitSyncedBlock(n)
         \/ \E p \in Node : ValidateBlockForCommit(n, p)
  PROVE  BlocksOf(n)
<1>1. /\ view[n] \in Nat /\ log[n] \in SUBSET LogEntry /\ candidate[n] \in Candidate
      /\ AllAbout(msgs) /\ AllAbout(log[n]) /\ HasCandidate(log[n], candidate[n])
      /\ preparedProof[n] = NoProof \/ preparedProof[n].hash \in Block
  BY DEF TypeOK, LogEntry, Candidate, BlockInv
<1>2. CASE ProposeBlock(n)
  <2>1. PICK b \in Block :
          LET pp == MakeHeader("PRE_PREPARE", n, height[n], view[n], b)
          IN  /\ msgs' = msgs \cup {pp}
              /\ log' = [log EXCEPT ![n] = Put(@, pp)]
              /\ candidate' = [candidate EXCEPT ![n] = [block |-> b, hash |-> b]]
              /\ UNCHANGED <<preparedProof, chain>>
    BY <1>2 DEF ProposeBlock
  <2> DEFINE pp == MakeHeader("PRE_PREPARE", n, height[n], view[n], b)
  <2>2. AboutBlock(pp) /\ candidate'[n].hash \in Block
        /\ \A a \in Node \ {n} : candidate'[a] = candidate[a]
    BY <2>1 DEF MakeHeader, AboutBlock, TypeOK
  <2>3. AllAbout(msgs')
    BY <1>1, <2>1, <2>2 DEF AllAbout
  <2>. QED
    BY <2>1, <2>2, <2>3, LogAbout
<1>3. CASE OnPrePrepareReceived(n)
  <2>1. PICK m \in msgs : m.type = "PRE_PREPARE" /\ AcceptPrePrepare(n, m, view[n])
    BY <1>3 DEF OnPrePrepareReceived
  <2>2. m \in Header /\ m.hash \in Block
    BY <1>1, <2>1, MessageKinds DEF TypeOK, AllAbout, AboutBlock
  <2>. QED
    BY <1>1, <2>1, <2>2, AcceptPrePrepareAbout
<1>4. CASE OnPrepareReceived(n)
  <2>1. PICK m \in msgs :
          /\ m.type = "PREPARE"
          /\ CheckIfPrepared(n, Put(log[n], m), m.view, view[n], candidate[n], {})
    BY <1>4 DEF OnPrepareReceived
  <2>2. m \in Header /\ m \in LogEntry /\ m.view \in Nat /\ AboutBlock(m)
    BY <1>1, <2>1, MessageKinds DEF TypeOK, LogEntry, Header, AllAbout
  <2>3. /\ Put(log[n], m) \in SUBSET LogEntry /\ AllAbout(Put(log[n], m)) /\ AllAbout({})
        /\ HasCandidate(Put(log[n], m), candidate[n])
    <3>1. AllAbout({})
      BY DEF AllAbout
    <3>2. m.type # "PRE_PREPARE"
      BY <2>1
    <3>. QED
      BY <1>1, <2>2, <3>1, <3>2, PutType, PutAbout
  <2>. QED
    BY <1>1, <2>1, <2>2, <2>3, CheckIfPreparedAbout
<1>5. CASE OnCommitReceived(n)
  <2>1. PICK m \in msgs :
          /\ m.type = "COMMIT"
          /\ \/ OnCommittedLocally(n, Put(log[n], m), m.view, view[n], candidate[n])
             \/ /\ StayInRound(n, Put(log[n], m), view[n], candidate[n])
                /\ UNCHANGED preparedProof
          /\ UNCHANGED msgs
    BY <1>5 DEF OnCommitReceived
  <2>2. m \in Header /\ m \in LogEntry /\ m.view \in Nat /\ AboutBlock(m)
    BY <1>1, <2>1, MessageKinds DEF TypeOK, LogEntry, Header, AllAbout
  <2>3. /\ Put(log[n], m) \in SUBSET LogEntry /\ AllAbout(Put(log[n], m))
        /\ HasCandidate(Put(log[n], m), candidate[n])
    <3>1. m.type # "PRE_PREPARE"
      BY <2>1
    <3>. QED
      BY <1>1, <2>2, <3>1, PutType, PutAbout
  <2>4. AllAbout(msgs')
    BY <1>1, <2>1
  <2>5. UNCHANGED preparedProof =>
          preparedProof' = [preparedProof EXCEPT ![n] = preparedProof[n]]
    BY DEF TypeOK
  <2>. QED
    BY <1>1, <2>1, <2>2, <2>3, <2>4, <2>5, OnCommittedLocallyAbout, StayInRoundAbout
<1>6. CASE OnViewChangeReceived(n)
  <2>1. PICK m \in msgs :
          /\ m.type = "VIEW_CHANGE"
          /\ \/ LocalNewView(n, Put(log[n], m), m.view)
             \/ /\ log' = [log EXCEPT ![n] = Put(log[n], m)]
                /\ UNCHANGED <<candidate, preparedProof, chain, msgs>>
    BY <1>6 DEF OnViewChangeReceived
  <2>2. AboutBlock(m)
    BY <1>1 DEF AllAbout
  <2>3. m.type # "PRE_PREPARE"
    BY <2>1
  <2>4. AllAbout(Put(log[n], m))
    BY <1>1, <2>2, <2>3, PutAbout
  <2>5. CASE LocalNewView(n, Put(log[n], m), m.view)
    BY <2>4, <2>5, LocalNewViewAbout
  <2>6. CASE /\ log' = [log EXCEPT ![n] = Put(log[n], m)]
             /\ UNCHANGED <<candidate, preparedProof, chain, msgs>>
    BY <1>1, <2>2, <2>3, <2>6, LogAbout
  <2>. QED
    BY <2>1, <2>5, <2>6
<1>7. CASE OnNewViewReceived(n)
  <2>1. PICK m \in msgs : m.type = "NEW_VIEW" /\ AcceptPrePrepare(n, m.pp, m.view)
    BY <1>7 DEF OnNewViewReceived
  <2>2. m.pp \in Header /\ m.view \in Nat /\ m.pp.hash \in Block
    BY <1>1, <2>1, MessageKinds DEF TypeOK, NewView, AllAbout, AboutBlock
  <2>. QED
    BY <2>1, <2>2, AcceptPrePrepareAbout
<1>8. CASE OnTimeOut(n)
  <2> DEFINE change == [type |-> "VIEW_CHANGE", height |-> height[n], view |-> view[n] + 1,
                        sender |-> n, proof |-> ChangeProof(n),
                        block |-> IF prepared[n] THEN candidate[n].block ELSE NoBlock]
  <2>1. /\ change.type = "VIEW_CHANGE" /\ change.proof = ChangeProof(n)
        /\ log' = [log EXCEPT ![n] = Put(@, change)]
        /\ msgs' = msgs \/ msgs' = msgs \cup {change}
        /\ UNCHANGED <<candidate, preparedProof, chain>>
    BY <1>8 DEF OnTimeOut
  <2> HIDE DEF change
  <2>2. AboutBlock(change) /\ change.type # "PRE_PREPARE"
    BY <1>1, <2>1 DEF ChangeProof, AboutBlock
  <2>3. AllAbout(msgs')
    BY <1>1, <2>1, <2>2 DEF AllAbout
  <2>. QED
    BY <2>1, <2>2, <2>3, LogAbout
<1>9. ASSUME NEW p \in Node, ValidateBlockForCommit(n, p)
      PROVE  BlocksOf(n)
  <2>1. Acknowledge(n, Len(chain[n]) + 1) /\ UNCHANGED <<chain, msgs>>
    BY <1>9 DEF ValidateBlockForCommit
  <2>2. CASE UNCHANGED <<log, candidate, preparedProof>>
    BY <1>1, <2>1, <2>2 DEF BlocksOf, BlockInv
  <2>3. CASE InitNextRound(n, Len(chain[n]) + 1, candidate[n])
    BY <1>1, <2>1, <2>3, InitNextRoundAbout DEF BlocksOf, BlockInv
  <2>. QED
    BY <2>1, <2>2, <2>3 DEF Acknowledge
<1>10. CASE CommitSyncedBlock(n)
  <2>1. PICK s \in validated[n] : CommitBlock(n, s.height, s.block)
    BY <1>10 DEF CommitSyncedBlock
  <2>2. s.height \in Nat /\ s.block \in Committed /\ s.block.hash \in Block
    <3>1. s.height \in Nat \ {0} /\ s.block \in Committed
      BY DEF TypeOK, Validated
    <3>2. PICK p \in Node : s.height <= Len(chain[p]) /\ chain[p][s.height] = s.block
      BY DEF SyncInv
    <3>3. Len(chain[p]) \in Nat
      BY DEF TypeOK
    <3>4. s.height \in 1 .. Len(chain[p])
      BY <3>1, <3>2, <3>3
    <3>. QED
      BY <3>1, <3>2, <3>4 DEF BlockInv
  <2>3. /\ \A a \in Node \ {n} : chain'[a] = chain[a]
        /\ \A i \in 1 .. Len(chain'[n]) : chain'[n][i].hash \in Block
    BY <2>1, <2>2, CommitBlockAbout
  <2>4. UNCHANGED <<log, candidate, preparedProof, msgs>>
    BY <1>10 DEF CommitSyncedBlock
  <2>. QED
    BY <1>1, <2>3, <2>4 DEF BlocksOf, BlockInv
<1>. QED
  BY <1>2, <1>3, <1>4, <1>5, <1>6, <1>7, <1>8, <1>9, <1>10

LEMMA BlockInvStep ==
  ASSUME TypeOK, SyncInv, BlockInv, [Next]_vars
  PROVE  BlockInv'
<1>1. CASE UNCHANGED vars
  BY <1>1 DEF vars, BlockInv, AllAbout, AboutBlock, HasCandidate
<1>2. CASE \E n \in Live : BlocksOf(n)
  BY <1>2, BlockStep, QuorumAssumption
<1>. QED
  BY <1>1, <1>2, StepAbout, QuorumAssumption DEF Next, Proposing, OtherStep

LEMMA InitAbout == Init => BlockInv
  BY DEF Init, BlockInv, AllAbout, HasCandidate

---------------------------------------------------------------------------
(* The single ledger.                                                      *)

\* Some BlockStorage is as long as any.
HasLongest == \E n \in Node : \A p \in Node : Len(chain[p]) <= Len(chain[n])

HashesIn(s) == [h \in 1 .. Len(s) |-> s[h].hash]

\* With agreement any longest chain is the ledger.
LEMMA LongestIs ==
  ASSUME NEW ch \in [Node -> Seq(Committed)],
         \A a, b \in Node : \A h \in 1 .. Len(ch[a]) :
           h <= Len(ch[b]) => ch[a][h].hash = ch[b][h].hash,
         NEW n \in Node, \A p \in Node : Len(ch[p]) <= Len(ch[n])
  PROVE  LET l == CHOOSE m \in Node : \A p \in Node : Len(ch[p]) <= Len(ch[m])
         IN  HashesIn(ch[l]) = HashesIn(ch[n])
<1> DEFINE l == CHOOSE m \in Node : \A p \in Node : Len(ch[p]) <= Len(ch[m])
<1>1. l \in Node /\ \A p \in Node : Len(ch[p]) <= Len(ch[l])
  OBVIOUS
<1> HIDE DEF l
<1>2. ch[l] \in Seq(Committed) /\ ch[n] \in Seq(Committed)
  BY <1>1
<1>3. Len(ch[l]) = Len(ch[n])
  BY <1>1, <1>2
<1>4. \A h \in 1 .. Len(ch[l]) : ch[l][h].hash = ch[n][h].hash
  BY <1>1, <1>2, <1>3
<1>5. HashesIn(ch[l]) = HashesIn(ch[n])
  BY <1>3, <1>4 DEF HashesIn
<1>. QED
  BY <1>5 DEF l

LEMMA HashesAppend ==
  ASSUME NEW s \in Seq(Committed), NEW blk \in Committed
  PROVE  HashesIn(Append(s, blk)) = Append(HashesIn(s), blk.hash)
<1> DEFINE A == HashesIn(Append(s, blk))
           B == Append(HashesIn(s), blk.hash)
<1>1. blk.hash \in Hash /\ \A h \in 1 .. Len(s) : s[h].hash \in Hash
  <2>1. \A h \in 1 .. Len(s) : s[h] \in Committed
    OBVIOUS
  <2>. QED
    BY <2>1 DEF Committed
<1>2. HashesIn(s) \in Seq(Hash) /\ Len(HashesIn(s)) = Len(s)
  BY <1>1 DEF HashesIn
<1>3. /\ B \in Seq(Hash) /\ Len(B) = Len(s) + 1 /\ B[Len(s) + 1] = blk.hash
      /\ \A h \in 1 .. Len(s) : B[h] = HashesIn(s)[h]
  BY <1>1, <1>2
<1>4. /\ Len(Append(s, blk)) = Len(s) + 1 /\ Append(s, blk)[Len(s) + 1] = blk
      /\ \A h \in 1 .. Len(s) : Append(s, blk)[h] = s[h]
  OBVIOUS
<1>5. A = [h \in 1 .. Len(s) + 1 |-> Append(s, blk)[h].hash]
  BY <1>4 DEF HashesIn
<1>6. B = [h \in 1 .. Len(s) + 1 |-> B[h]]
  BY <1>3
<1>7. \A h \in 1 .. Len(s) + 1 : Append(s, blk)[h].hash = B[h]
  BY <1>3, <1>4 DEF HashesIn
<1>. QED
  BY <1>5, <1>6, <1>7

\* A step lets one node store the block after its last one: the next of the ledger,
\* or a new one when it has the whole ledger.
LEMMA LedgerStep ==
  ASSUME TypeOK, TypeOK', Agreement, Agreement', BlockInv', HasLongest,
         NEW n \in Node, Moves(n)
  PROVE  HasLongest' /\ [Ledger!Next]_(Ledger!vars)
<1>1. PICK l \in Node : \A p \in Node : Len(chain[p]) <= Len(chain[l])
  BY DEF HasLongest
<1>2. \A a \in Node : /\ chain[a] \in Seq(Committed) /\ chain'[a] \in Seq(Committed)
                      /\ Len(chain[a]) \in Nat /\ Len(chain'[a]) \in Nat
  <2>1. /\ chain \in [Node -> Seq(Committed)]
        /\ chain' \in [Node -> Seq(Committed)]
    BY DEF TypeOK
  <2>. QED
    BY <2>1
<1>3. CASE chain'[n] = chain[n]
  <2>1. chain' = chain
    BY <1>3 DEF Moves, TypeOK
  <2>. QED
    BY <2>1 DEF HasLongest, Ledger!vars, Hashes, Longest
<1>4. CASE \E blk \in Committed : chain'[n] = Append(chain[n], blk)
  <2>1. PICK blk \in Committed : chain'[n] = Append(chain[n], blk)
    BY <1>4
  <2>2. /\ Len(chain'[n]) = Len(chain[n]) + 1 /\ chain'[n][Len(chain[n]) + 1] = blk
        /\ \A a \in Node \ {n} : chain'[a] = chain[a]
    BY <1>2, <2>1 DEF Moves
  <2>3. blk.hash \in Block
    <3>1. Len(chain[n]) + 1 \in 1 .. Len(chain'[n])
      BY <1>2, <2>2
    <3>2. \A h \in 1 .. Len(chain'[n]) : chain'[n][h].hash \in Block
      BY DEF BlockInv
    <3>. QED
      BY <2>2, <3>1, <3>2
  <2>4. \A a \in Node : Hashes(a) = HashesIn(chain[a]) /\ Hashes(a)' = HashesIn(chain'[a])
    BY DEF Hashes, HashesIn
  <2>5. /\ Hashes(n)' = Append(Hashes(n), blk.hash)
        /\ \A a \in Node \ {n} : Hashes(a)' = Hashes(a)
    BY <1>2, <2>1, <2>2, <2>4, HashesAppend
  <2>6. [a \in Node |-> Hashes(a)]' = [[a \in Node |-> Hashes(a)] EXCEPT ![n] = Hashes(n)']
    BY <2>5
  <2>7. Hashes(Longest) = Hashes(l)
    <3>1. chain \in [Node -> Seq(Committed)]
      BY DEF TypeOK
    <3>2. \A a, b \in Node : \A h \in 1 .. Len(chain[a]) :
            h <= Len(chain[b]) => chain[a][h].hash = chain[b][h].hash
      BY DEF Agreement
    <3>. QED
      BY <1>1, <3>1, <3>2, LongestIs DEF Longest, Hashes, HashesIn
  <2>8. ASSUME NEW m \in Node, \A p \in Node : Len(chain'[p]) <= Len(chain'[m])
        PROVE  Hashes(Longest)' = Hashes(m)'
    <3>1. chain' \in [Node -> Seq(Committed)]
      BY DEF TypeOK
    <3>2. \A a, b \in Node : \A h \in 1 .. Len(chain'[a]) :
            h <= Len(chain'[b]) => chain'[a][h].hash = chain'[b][h].hash
      BY DEF Agreement
    <3>. QED
      BY <2>8, <3>1, <3>2, LongestIs DEF Longest, Hashes, HashesIn
  <2>9. CASE Len(chain[n]) < Len(chain[l])
    <3>1. l # n /\ chain'[l] = chain[l]
      BY <1>2, <2>2, <2>9
    <3>2. \A p \in Node : Len(chain'[p]) <= Len(chain'[l])
      BY <1>1, <1>2, <2>2, <2>9, <3>1
    <3>3. Hashes(Longest)' = Hashes(Longest)
      BY <2>5, <2>7, <2>8, <3>1, <3>2
    <3>4. blk.hash = Hashes(l)[Len(chain[n]) + 1]
      <4>1. Len(chain[n]) + 1 \in 1 .. Len(chain'[n]) /\ Len(chain[n]) + 1 <= Len(chain'[l])
        BY <1>2, <2>2, <2>9, <3>1
      <4>2. chain'[n][Len(chain[n]) + 1].hash = chain'[l][Len(chain[n]) + 1].hash
        BY <4>1 DEF Agreement
      <4>3. Len(chain[n]) + 1 \in 1 .. Len(chain[l])
        BY <1>2, <2>9
      <4>. QED
        BY <2>2, <3>1, <4>2, <4>3 DEF Hashes
    <3>5. Len(Hashes(n)) = Len(chain[n]) /\ Len(Hashes(l)) = Len(chain[l])
      BY <1>2 DEF Hashes
    <3>6. Ledger!Learn(n)
      BY <2>5, <2>6, <2>7, <2>9, <3>3, <3>4, <3>5 DEF Ledger!Learn
    <3>. QED
      BY <3>2, <3>6 DEF HasLongest, Ledger!Next
  <2>10. CASE ~(Len(chain[n]) < Len(chain[l]))
    <3>1. \A p \in Node : Len(chain[p]) <= Len(chain[n])
      BY <1>1, <1>2, <2>10
    <3>2. Hashes(Longest) = Hashes(n)
      <4>1. chain \in [Node -> Seq(Committed)]
        BY DEF TypeOK
      <4>2. \A a, b \in Node : \A h \in 1 .. Len(chain[a]) :
              h <= Len(chain[b]) => chain[a][h].hash = chain[b][h].hash
        BY DEF Agreement
      <4>. QED
        BY <3>1, <4>1, <4>2, LongestIs DEF Longest, Hashes, HashesIn
    <3>3. \A p \in Node : Len(chain'[p]) <= Len(chain'[n])
      BY <1>2, <2>2, <3>1
    <3>4. Hashes(Longest)' = Append(Hashes(Longest), blk.hash)
      BY <2>5, <2>8, <3>2, <3>3
    <3>5. Hashes(n)' = Hashes(Longest)'
      BY <2>8, <3>3
    <3>6. Ledger!Decide(n)
      BY <2>3, <2>6, <3>2, <3>4, <3>5 DEF Ledger!Decide
    <3>. QED
      BY <3>3, <3>6 DEF HasLongest, Ledger!Next
  <2>. QED
    BY <2>9, <2>10
<1>. QED
  BY <1>3, <1>4 DEF Moves

\* When PRE_PREPAREs are timely, every commit and every synced block extends one ledger
\* or copies its next block: Lean Helix with block sync implements SingleLedger.
THEOREM TimelyImplementsLedger == TimelySpec => ImplementsLedger
<1>1. Init => HasLongest /\ Ledger!Init
  <2> SUFFICES ASSUME Init PROVE HasLongest /\ Ledger!Init
    OBVIOUS
  <2>1. PICK n \in Node : n = OrderedCommittee[1]
    BY CommitteeAssumption
  <2>2. \A a \in Node : chain[a] = <<>> /\ Len(chain[a]) = 0 /\ Hashes(a) = <<>>
    BY DEF Init, Hashes
  <2>3. HasLongest
    BY <2>2 DEF HasLongest
  <2>4. Longest \in Node
    BY <2>3 DEF HasLongest, Longest
  <2>. QED
    BY <2>2, <2>3, <2>4 DEF Ledger!Init
<1>2. ASSUME TypeOK, TypeOK', Agreement, Agreement', FollowInv, SyncInv, BlockInv,
             HasLongest, [TimelyNext]_vars
      PROVE  BlockInv' /\ HasLongest' /\ [Ledger!Next]_(Ledger!vars)
  <2>1. [Next]_vars
    BY <1>2 DEF TimelyNext, TimelyProposing, Next, Proposing
  <2>2. BlockInv'
    BY <1>2, <2>1, BlockInvStep
  <2>3. CASE UNCHANGED vars
    <3>1. chain' = chain
      BY <2>3 DEF vars
    <3>2. HasLongest' /\ UNCHANGED Ledger!vars
      BY <1>2, <3>1 DEF HasLongest, Ledger!vars, Hashes, Longest
    <3>. QED
      BY <2>2, <3>2
  <2>4. CASE \E n \in Live : Moves(n)
    BY <1>2, <2>2, <2>4, LedgerStep, QuorumAssumption
  <2>. QED
    BY <1>2, <2>1, <2>2, <2>3, <2>4, NextMoves
<1>. QED
  BY <1>1, <1>2, InitAbout, FollowsCorrect, TimelyIsSpec, TimelyTypeCorrect,
     TimelyAgreement, PTL DEF TimelySpec, ImplementsLedger, Ledger!Spec

=============================================================================
