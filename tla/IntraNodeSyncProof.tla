------------------------- MODULE IntraNodeSyncProof -------------------------
(***************************************************************************)
(* The safety properties of IntraNodeSync hold for any services, readers,  *)
(* keys, snapshot history and number of blocks and restarts.               *)
(***************************************************************************)
EXTENDS IntraNodeSync, TLAPS

USE DEF LastCommitted

LEMMA ApplyType ==
  ASSUME NEW diff \in StateDiff, NEW state \in State
  PROVE  Apply(diff, state) \in State
<1>1. \A k \in DOMAIN diff : diff[k] \in Content
  BY DEF StateDiff
<1> QED BY <1>1 DEF Apply, State

\* The heights kept after one more commit are the new one and some of the old.
LEMMA KeptStep ==
  ASSUME NEW h \in Nat, NEW i \in Kept(h + 1), i # h + 1
  PROVE  i \in Kept(h)
BY ConfigAssumption DEF Kept

LEMMA KeptLast == ASSUME NEW h \in Nat PROVE h \in Kept(h)
BY ConfigAssumption DEF Kept

LEMMA UpdateStateType ==
  ASSUME SyncTypeOK, NEW diff \in StateDiff, UpdateState(diff),
         LastCommitted(StateStorage)' = LastCommitted(StateStorage) + 1
  PROVE  snapshot' \in [Kept(LastCommitted(StateStorage)') -> State]
<1> DEFINE h == LastCommitted(StateStorage)
<1>0. h \in Nat
  BY ServiceAssumption DEF SyncTypeOK
<1>1. snapshot[h] \in State
  BY <1>0, KeptLast DEF SyncTypeOK
<1>2. \A i \in Kept(h + 1) : i # h + 1 => snapshot[i] \in State
  BY <1>0, KeptStep DEF SyncTypeOK
<1> QED BY <1>1, <1>2, ApplyType DEF UpdateState

\* What one call of a service's commit method does.
LEMMA CommitInServiceEffect ==
  ASSUME SyncTypeOK, NEW s \in Service, NEW h \in 1 .. Len(blocks),
         CommitInService(s, h)
  PROVE  /\ committed' \in [Service -> Seq(StateDiff)]
         /\ \A t \in Service : t # s => committed'[t] = committed[t]
         /\ \/ committed' = committed
            \/ h = Len(committed[s]) + 1
               /\ committed'[s] = Append(committed[s], blocks[h])
         /\ snapshot' \in [Kept(LastCommitted(StateStorage)') -> State]
<1>0. blocks[h] \in StateDiff /\ committed[s] \in Seq(StateDiff)
  BY DEF SyncTypeOK
<1>1. CASE h = LastCommitted(s) + 1
  <2>1. committed' = [committed EXCEPT ![s] = Append(@, blocks[h])]
    BY <1>1 DEF CommitInService
  <2>2. /\ committed' \in [Service -> Seq(StateDiff)]
        /\ committed'[s] = Append(committed[s], blocks[h])
        /\ Len(committed'[s]) = Len(committed[s]) + 1
        /\ \A t \in Service : t # s => committed'[t] = committed[t]
    BY <1>0, <2>1 DEF SyncTypeOK
  <2>3. snapshot' \in [Kept(LastCommitted(StateStorage)') -> State]
    <3>1. CASE s = StateStorage
      <4>1. UpdateState(blocks[h])
        BY <1>1, <3>1 DEF CommitInService
      <4>2. LastCommitted(StateStorage)' = LastCommitted(StateStorage) + 1
        BY <2>2, <3>1
      <4> QED BY <1>0, <4>1, <4>2, UpdateStateType
    <3>2. CASE s # StateStorage
      BY <1>1, <2>2, <3>2, ServiceAssumption DEF CommitInService, SyncTypeOK
    <3> QED BY <3>1, <3>2
  <2> QED BY <1>1, <2>2, <2>3
<1>2. CASE h # LastCommitted(s) + 1
  BY <1>2 DEF CommitInService, SyncTypeOK
<1> QED BY <1>1, <1>2

LEMMA AnswerType ==
  ASSUME SyncTypeOK, NEW r \in Reader, NEW h \in Nat, Answer(r, h)
  PROVE  call' \in [Reader -> Call]
<1>1. EmptyState \in State
  BY DEF EmptyState, State, Content
<1>2. h \in Kept(LastCommitted(StateStorage)) => snapshot[h] \in State
  BY DEF SyncTypeOK
<1>3. \A v \in State :
        /\ [phase |-> "answered", height |-> h, values |-> v] \in Call
        /\ [phase |-> "failed", height |-> h, values |-> v] \in Call
  BY DEF Call, Phase
<1> QED BY <1>1, <1>2, <1>3 DEF Answer, Reply, SyncTypeOK

-----------------------------------------------------------------------------

LEMMA InitType == Init => SyncTypeOK
<1> SUFFICES ASSUME Init PROVE SyncTypeOK
  OBVIOUS
<1>1. EmptyState \in State
  BY DEF EmptyState, State, Content
<1>2. NoCall \in Call
  BY <1>1 DEF NoCall, Call, Phase
<1>3. snapshot \in [Kept(LastCommitted(StateStorage)) -> State]
  BY <1>1, ServiceAssumption DEF Init
<1>4. 0 \in 0 .. MaxRestarts
  BY ConfigAssumption
<1> QED BY <1>2, <1>3, <1>4 DEF Init, SyncTypeOK

LEMMA StepType == SyncTypeOK /\ [Next]_vars => SyncTypeOK'
<1> SUFFICES ASSUME SyncTypeOK, [Next]_vars PROVE SyncTypeOK'
  OBVIOUS
<1>0. EmptyState \in State /\ NoCall \in Call
  BY DEF EmptyState, State, Content, NoCall, Call, Phase
<1>1. ASSUME NEW diff \in StateDiff, CommitBlock(diff) PROVE SyncTypeOK'
  BY <1>1 DEF CommitBlock, SyncTypeOK
<1>2. ASSUME NEW s \in Service, Check(s) \/ Wait(s) PROVE SyncTypeOK'
  BY <1>2 DEF Check, Wait, SyncTypeOK
<1>3. ASSUME NEW s \in Service, Push(s) PROVE SyncTypeOK'
  <2>1. next[s] \in 1 .. Len(blocks)
    BY <1>3 DEF Push, SyncTypeOK
  <2>2. /\ committed' \in [Service -> Seq(StateDiff)]
        /\ snapshot' \in [Kept(LastCommitted(StateStorage)') -> State]
    BY <1>3, <2>1, CommitInServiceEffect DEF Push
  <2>3. next' \in [Service -> Nat \ {0}]
    <3>1. Len(committed'[s]) \in Nat
      BY <2>2
    <3> QED BY <1>3, <3>1 DEF Push, SyncTypeOK
  <2> QED BY <1>3, <2>2, <2>3 DEF Push, SyncTypeOK
<1>4. ASSUME NEW r \in Reader, NEW h \in 0 .. MaxHeight, ReadKeys(r, h)
      PROVE  SyncTypeOK'
  <2>0. h \in Nat
    BY ConfigAssumption
  <2>1. call' \in [Reader -> Call]
    <3>1. CASE Answer(r, h)
      BY <2>0, <3>1, AnswerType
    <3>2. CASE ~Answer(r, h)
      <4>1. \E p \in {"failed", "waiting"} :
              call' = [call EXCEPT ![r] = [phase |-> p, height |-> h,
                                           values |-> EmptyState]]
        BY <1>4, <3>2 DEF ReadKeys, Reply
      <4>2. \A p \in {"failed", "waiting"} :
              [phase |-> p, height |-> h, values |-> EmptyState] \in Call
        BY <1>0, <2>0 DEF Call, Phase
      <4> QED BY <4>1, <4>2 DEF SyncTypeOK
    <3> QED BY <3>1, <3>2
  <2> QED BY <1>4, <2>1 DEF ReadKeys, SyncTypeOK
<1>5. ASSUME NEW r \in Reader, StopWaiting(r) PROVE SyncTypeOK'
  <2>1. call[r].height \in Nat
    BY DEF SyncTypeOK, Call
  <2>2. call' \in [Reader -> Call]
    BY <1>5, <2>1, AnswerType DEF StopWaiting
  <2> QED BY <1>5, <2>2 DEF StopWaiting, SyncTypeOK
<1>6. ASSUME NEW r \in Reader, TimeOut(r) PROVE SyncTypeOK'
  <2>1. call' \in [Reader -> Call]
    BY <1>0, <1>6 DEF TimeOut, Reply, SyncTypeOK, Call, Phase
  <2> QED BY <1>6, <2>1 DEF TimeOut, SyncTypeOK
<1>7. CASE Restart
  <2>1. committed' \in [Service -> Seq(StateDiff)]
    BY <1>7 DEF Restart, SyncTypeOK
  <2>2. snapshot' \in [Kept(LastCommitted(StateStorage)') -> State]
    <3>1. CASE StateStorage \in Persistent
      BY <1>7, <3>1, ServiceAssumption DEF Restart, SyncTypeOK
    <3>2. CASE StateStorage \notin Persistent
      <4>1. LastCommitted(StateStorage)' = 0
        BY <1>7, <3>2, ServiceAssumption DEF Restart
      <4> QED BY <1>0, <1>7, <3>2, <4>1 DEF Restart
    <3> QED BY <3>1, <3>2
  <2>3. restarts' \in 0 .. MaxRestarts
    BY <1>7, ConfigAssumption DEF Restart, SyncTypeOK
  <2> QED BY <1>0, <1>7, <2>1, <2>2, <2>3 DEF Restart, SyncTypeOK
<1>8. CASE UNCHANGED vars
  BY <1>8 DEF vars, SyncTypeOK
<1> QED BY <1>1, <1>2, <1>3, <1>4, <1>5, <1>6, <1>7, <1>8 DEF Next

\* The state of BlockStorage, its flows, the services and the readers keeps
\* its types.
THEOREM SyncTypeCorrect == Spec => []SyncTypeOK
BY InitType, StepType, PTL DEF Spec

-----------------------------------------------------------------------------
(* Order and sleep.  A flow never remembers a height beyond the service's  *)
(* next one: that is why it cannot find nothing to push too early.  What   *)
(* it has found stays so until it waits only if CommitBlock's wake-up is   *)
(* kept.                                                                   *)

NextNotTooHigh == \A s \in Service : next[s] <= LastCommitted(s) + 1

ChecksHold ==
  \A s \in Service :
    flow[s] \in {"checked", "waiting"} => LastCommitted(s) = Len(blocks)

OrderInv == SyncTypeOK /\ InOrder /\ NextNotTooHigh /\ (WakeUpKept => ChecksHold)

LEMMA InitOrder == Init => OrderInv
<1> SUFFICES ASSUME Init PROVE OrderInv
  OBVIOUS
<1>1. SyncTypeOK
  BY InitType
<1>2. InOrder /\ NextNotTooHigh /\ ChecksHold
  BY DEF Init, InOrder, NextNotTooHigh, ChecksHold
<1> QED BY <1>1, <1>2 DEF OrderInv

LEMMA StepOrder == OrderInv /\ [Next]_vars => OrderInv'
<1> SUFFICES ASSUME OrderInv, [Next]_vars PROVE OrderInv'
  OBVIOUS
<1> USE DEF OrderInv
<1>0. SyncTypeOK'
  BY StepType
<1>1. ASSUME NEW diff \in StateDiff, CommitBlock(diff)
      PROVE  InOrder' /\ NextNotTooHigh' /\ (WakeUpKept => ChecksHold')
  <2>1. InOrder'
    BY <1>1 DEF CommitBlock, InOrder, SyncTypeOK
  <2>2. NextNotTooHigh'
    BY <1>1 DEF CommitBlock, NextNotTooHigh
  <2>3. ASSUME WakeUpKept PROVE ChecksHold'
    <3>1. \A s \in Service : flow'[s] = "running"
      BY <1>1, <2>3 DEF CommitBlock
    <3> QED BY <3>1 DEF ChecksHold
  <2> QED BY <2>1, <2>2, <2>3
<1>2. ASSUME NEW s \in Service, Check(s)
      PROVE  InOrder' /\ NextNotTooHigh' /\ (WakeUpKept => ChecksHold')
  <2>1. LastCommitted(s) = Len(blocks)
    <3>1. /\ next[s] \in Nat
          /\ Len(blocks) \in Nat
          /\ Len(committed[s]) \in Nat
      BY DEF SyncTypeOK
    <3> QED BY <1>2, <3>1 DEF Check, InOrder, NextNotTooHigh
  <2>2. InOrder' /\ NextNotTooHigh'
    BY <1>2 DEF Check, InOrder, NextNotTooHigh
  <2>3. WakeUpKept => ChecksHold'
    BY <1>2, <2>1 DEF Check, ChecksHold, SyncTypeOK
  <2> QED BY <2>2, <2>3
<1>6. ASSUME NEW s \in Service, Wait(s)
      PROVE  InOrder' /\ NextNotTooHigh' /\ (WakeUpKept => ChecksHold')
  <2>1. InOrder' /\ NextNotTooHigh'
    BY <1>6 DEF Wait, InOrder, NextNotTooHigh
  <2>2. WakeUpKept => ChecksHold'
    BY <1>6 DEF Wait, ChecksHold, SyncTypeOK
  <2> QED BY <2>1, <2>2
<1>3. ASSUME NEW s \in Service, Push(s)
      PROVE  InOrder' /\ NextNotTooHigh' /\ (WakeUpKept => ChecksHold')
  <2>0. next[s] \in 1 .. Len(blocks)
    BY <1>3 DEF Push, SyncTypeOK
  <2>1. /\ \A t \in Service : t # s => committed'[t] = committed[t]
        /\ \/ committed' = committed
           \/ next[s] = Len(committed[s]) + 1
              /\ committed'[s] = Append(committed[s], blocks[next[s]])
    BY <1>3, <2>0, CommitInServiceEffect DEF Push
  <2>2. InOrder'
    <3> SUFFICES ASSUME NEW t \in Service
                 PROVE  /\ Len(committed'[t]) <= Len(blocks')
                        /\ \A h \in 1 .. Len(committed'[t]) :
                             committed'[t][h] = blocks'[h]
      BY DEF InOrder
    <3>0. blocks' = blocks
      BY <1>3 DEF Push
    <3>1. CASE committed'[t] = committed[t]
      BY <3>0, <3>1 DEF InOrder
    <3>2. CASE t = s /\ next[s] = Len(committed[s]) + 1
               /\ committed'[s] = Append(committed[s], blocks[next[s]])
      <4>1. committed[s] \in Seq(StateDiff) /\ blocks[next[s]] \in StateDiff
        BY <2>0 DEF SyncTypeOK
      <4>2. Len(committed'[s]) = next[s]
        BY <3>2, <4>1
      <4>3. \A h \in 1 .. Len(committed'[s]) : committed'[s][h] = blocks[h]
        BY <3>2, <4>1, <4>2 DEF InOrder
      <4> QED BY <2>0, <3>0, <3>2, <4>2, <4>3
    <3> QED BY <2>1, <3>1, <3>2
  <2>3. NextNotTooHigh'
    <3>1. next' = [next EXCEPT ![s] = Len(committed'[s]) + 1]
      BY <1>3 DEF Push
    <3>2. Len(committed'[s]) \in Nat
      BY <1>0 DEF SyncTypeOK
    <3> QED BY <2>1, <3>1, <3>2 DEF NextNotTooHigh, SyncTypeOK
  <2>4. WakeUpKept => ChecksHold'
    BY <1>3, <2>1 DEF Push, ChecksHold
  <2> QED BY <2>2, <2>3, <2>4
<1>4. CASE UNCHANGED <<blocks, flow, next, committed>>
  BY <1>0, <1>4 DEF InOrder, NextNotTooHigh, ChecksHold
<1>5. CASE Restart
  <2>1. InOrder'
    BY <1>5 DEF Restart, InOrder, SyncTypeOK
  <2>2. NextNotTooHigh' /\ ChecksHold'
    <3>1. \A s \in Service : Len(committed'[s]) \in Nat
      BY <1>0 DEF SyncTypeOK
    <3> QED BY <1>5, <3>1 DEF Restart, NextNotTooHigh, ChecksHold
  <2> QED BY <1>0, <2>1, <2>2
<1> QED
  BY <1>0, <1>1, <1>2, <1>3, <1>4, <1>5, <1>6
  DEF Next, vars, ReadKeys, StopWaiting, TimeOut

\* Whatever restarts, every service has a prefix of the chain.
THEOREM ServicesInOrder == Spec => []InOrder
<1>1. OrderInv => InOrder
  BY DEF OrderInv
<1> QED BY InitOrder, StepOrder, <1>1, PTL DEF Spec

\* If a wake-up between a flow's check and its wait is kept, no block committed
\* in between is slept through: a flow that waits has nothing left to push.
THEOREM FlowsSleepInSync == ASSUME WakeUpKept PROVE Spec => []SleepsOnlyInSync
<1>1. OrderInv => SleepsOnlyInSync
  BY DEF OrderInv, ChecksHold, SleepsOnlyInSync
<1> QED BY InitOrder, StepOrder, <1>1, PTL DEF Spec

-----------------------------------------------------------------------------
(* Reads.  Every kept snapshot is the state its height had, and committing *)
(* more blocks does not change what the value at a height is.              *)

SnapshotsExact ==
  \A i \in Kept(LastCommitted(StateStorage)), k \in Key :
    HasValueAt(k, snapshot[i][k], i)

AnswersInPast ==
  \A r \in Reader : call[r].phase = "answered" => call[r].height <= Len(blocks)

ReadInv == OrderInv /\ SnapshotsExact /\ AnswersInPast /\ ReadsExact

LEMMA ValueStays ==
  ASSUME NEW k, NEW v, NEW h \in Nat, HasValueAt(k, v, h),
         \A i \in 1 .. h : blocks'[i] = blocks[i]
  PROVE  HasValueAt(k, v, h)'
<1>1. Writers(k, h)' = Writers(k, h)
  BY DEF Writers
<1>2. \A i \in Writers(k, h) : blocks'[i] = blocks[i]
  BY DEF Writers
<1> QED BY <1>1, <1>2 DEF HasValueAt

\* Applying the diff of the next block to an exact state gives an exact state.
LEMMA ApplyExact ==
  ASSUME NEW k \in Key, NEW h \in Nat, NEW state,
         HasValueAt(k, state[k], h)
  PROVE  HasValueAt(k, Apply(blocks[h + 1], state)[k], h + 1)
<1>1. CASE k \in DOMAIN blocks[h + 1]
  <2>1. h + 1 \in Writers(k, h + 1)
    BY <1>1 DEF Writers
  <2>2. \A j \in Writers(k, h + 1) : j <= h + 1
    BY DEF Writers
  <2>3. Apply(blocks[h + 1], state)[k] = blocks[h + 1][k]
    BY <1>1 DEF Apply
  <2> QED BY <2>1, <2>2, <2>3 DEF HasValueAt
<1>2. CASE k \notin DOMAIN blocks[h + 1]
  <2>1. Writers(k, h + 1) = Writers(k, h)
    <3>1. 1 .. h + 1 = (1 .. h) \cup {h + 1}
      OBVIOUS
    <3> QED BY <1>2, <3>1 DEF Writers
  <2>2. Apply(blocks[h + 1], state)[k] = state[k]
    BY <1>2 DEF Apply
  <2> QED BY <2>1, <2>2 DEF HasValueAt
<1> QED BY <1>1, <1>2

\* A service that had nothing yet: every key is null.
LEMMA EmptyExact == \A k \in Key : HasValueAt(k, EmptyState[k], 0)
BY DEF HasValueAt, Writers, EmptyState

LEMMA InitRead == Init => ReadInv
<1> SUFFICES ASSUME Init PROVE ReadInv
  OBVIOUS
<1>1. OrderInv
  BY InitOrder
<1>2. Kept(0) = {0}
  BY ConfigAssumption DEF Kept
<1>3. SnapshotsExact
  BY <1>2, EmptyExact, ServiceAssumption DEF Init, SnapshotsExact
<1>4. AnswersInPast /\ ReadsExact
  BY DEF Init, NoCall, AnswersInPast, ReadsExact
<1> QED BY <1>1, <1>3, <1>4 DEF ReadInv

\* While nothing is added to blocks but at the end, the snapshots and the
\* answers that stay remain exact.
LEMMA ReadsStay ==
  ASSUME ReadInv, call' = call,
         Len(blocks') \in Nat, Len(blocks) <= Len(blocks'),
         \A i \in 1 .. Len(blocks) : blocks'[i] = blocks[i]
  PROVE  AnswersInPast' /\ ReadsExact'
<1> SUFFICES ASSUME NEW r \in Reader, call[r].phase = "answered"
             PROVE  /\ call[r].height <= Len(blocks')
                    /\ \A k \in Key :
                         HasValueAt(k, call[r].values[k], call[r].height)'
  BY DEF AnswersInPast, ReadsExact
<1>1. call[r].height \in Nat /\ Len(blocks) \in Nat
  BY DEF ReadInv, OrderInv, SyncTypeOK, Call
<1>2. call[r].height <= Len(blocks)
  BY DEF ReadInv, AnswersInPast
<1>3. \A i \in 1 .. call[r].height : blocks'[i] = blocks[i]
  BY <1>1, <1>2
<1>4. \A k \in Key : HasValueAt(k, call[r].values[k], call[r].height)
  BY DEF ReadInv, ReadsExact
<1> QED BY <1>1, <1>2, <1>3, <1>4, ValueStays

LEMMA SnapshotsStay ==
  ASSUME ReadInv, UNCHANGED <<committed, snapshot>>,
         \A i \in 1 .. Len(blocks) : blocks'[i] = blocks[i]
  PROVE  SnapshotsExact'
<1> SUFFICES ASSUME NEW i \in Kept(LastCommitted(StateStorage)), NEW k \in Key
             PROVE  HasValueAt(k, snapshot[i][k], i)'
  BY DEF SnapshotsExact
<1>1. /\ LastCommitted(StateStorage) <= Len(blocks)
      /\ LastCommitted(StateStorage) \in Nat
      /\ Len(blocks) \in Nat
  BY ServiceAssumption DEF ReadInv, OrderInv, InOrder, SyncTypeOK
<1>2. i \in Nat /\ i <= Len(blocks)
  BY <1>1 DEF Kept
<1>3. \A j \in 1 .. i : blocks'[j] = blocks[j]
  BY <1>1, <1>2
<1>4. HasValueAt(k, snapshot[i][k], i)
  BY DEF ReadInv, SnapshotsExact
<1> QED BY <1>2, <1>3, <1>4, ValueStays

\* An answer given now is exact.
LEMMA AnswerExact ==
  ASSUME ReadInv, NEW r \in Reader, NEW h \in Nat, Answer(r, h),
         h <= LastCommitted(StateStorage), UNCHANGED blocks
  PROVE  AnswersInPast' /\ ReadsExact'
<1>1. call' = [call EXCEPT ![r] = call'[r]] /\ call'[r].height = h
  BY DEF Answer, Reply, ReadInv, OrderInv, SyncTypeOK
<1>2. h <= Len(blocks)
  BY ServiceAssumption DEF ReadInv, OrderInv, InOrder, SyncTypeOK
<1>3. call'[r].phase = "answered" =>
        \A k \in Key : HasValueAt(k, call'[r].values[k], h)
  <2>1. CASE h \in Kept(LastCommitted(StateStorage))
    <3>1. call'[r].values = snapshot[h]
      BY <2>1 DEF Answer, Reply, ReadInv, OrderInv, SyncTypeOK
    <3> QED BY <2>1, <3>1 DEF ReadInv, SnapshotsExact
  <2>2. CASE h \notin Kept(LastCommitted(StateStorage))
    BY <2>2 DEF Answer, Reply, ReadInv, OrderInv, SyncTypeOK
  <2> QED BY <2>1, <2>2
<1>4. \A t \in Reader : t # r => call'[t] = call[t]
  BY DEF Answer, Reply, ReadInv, OrderInv, SyncTypeOK
<1>5. AnswersInPast'
  BY <1>1, <1>2, <1>4 DEF AnswersInPast, ReadInv
<1>6. ReadsExact'
  <2> SUFFICES ASSUME NEW t \in Reader, call'[t].phase = "answered",
                      NEW k \in Key
               PROVE  HasValueAt(k, call[t].values[k], call[t].height)'
    BY DEF ReadsExact
  <2>1. HasValueAt(k, call'[t].values[k], call'[t].height)
    BY <1>1, <1>3, <1>4 DEF ReadInv, ReadsExact
  <2> QED BY <2>1 DEF HasValueAt, Writers
<1> QED BY <1>5, <1>6

\* Any other reply answers nothing.
LEMMA ReplyExact ==
  ASSUME ReadInv, NEW r \in Reader, NEW p \in {"waiting", "failed"}, NEW h,
         Reply(r, p, h, EmptyState), UNCHANGED blocks
  PROVE  AnswersInPast' /\ ReadsExact'
<1>1. /\ call'[r].phase # "answered"
      /\ \A t \in Reader : t # r => call'[t] = call[t]
  BY DEF Reply, ReadInv, OrderInv, SyncTypeOK
<1>2. AnswersInPast'
  BY <1>1 DEF AnswersInPast, ReadInv
<1>3. ReadsExact'
  BY <1>1 DEF ReadsExact, ReadInv, HasValueAt, Writers
<1> QED BY <1>2, <1>3

LEMMA UpdateStateExact ==
  ASSUME ReadInv, UNCHANGED blocks,
         LastCommitted(StateStorage) < Len(blocks),
         UpdateState(blocks[LastCommitted(StateStorage) + 1]),
         LastCommitted(StateStorage)' = LastCommitted(StateStorage) + 1
  PROVE  SnapshotsExact'
<1> DEFINE h == LastCommitted(StateStorage)
<1>0. h \in Nat
  BY ServiceAssumption DEF ReadInv, OrderInv, SyncTypeOK
<1> SUFFICES ASSUME NEW i \in Kept(h + 1), NEW k \in Key
             PROVE  HasValueAt(k, snapshot[i][k], i)'
  BY DEF SnapshotsExact
<1>1. HasValueAt(k, snapshot'[i][k], i)
  <2>1. CASE i = h + 1
    <3>1. HasValueAt(k, snapshot[h][k], h)
      BY <1>0, KeptLast DEF ReadInv, SnapshotsExact
    <3>2. snapshot'[i] = Apply(blocks[h + 1], snapshot[h])
      BY <2>1 DEF UpdateState
    <3> HIDE DEF h
    <3> QED BY <1>0, <2>1, <3>1, <3>2, ApplyExact
  <2>2. CASE i # h + 1
    <3>1. i \in Kept(h)
      BY <1>0, <2>2, KeptStep
    <3>2. snapshot'[i] = snapshot[i]
      BY <2>2 DEF UpdateState
    <3> QED BY <3>1, <3>2 DEF ReadInv, SnapshotsExact
  <2> QED BY <2>1, <2>2
<1> QED BY <1>1 DEF HasValueAt, Writers

LEMMA StepRead == ReadInv /\ [Next]_vars => ReadInv'
<1> SUFFICES ASSUME ReadInv, [Next]_vars PROVE ReadInv'
  OBVIOUS
<1>0. OrderInv'
  BY StepOrder DEF ReadInv
<1>a. Len(blocks) \in Nat
  BY DEF ReadInv, OrderInv, SyncTypeOK
<1>1. ASSUME NEW diff \in StateDiff, CommitBlock(diff)
      PROVE  SnapshotsExact' /\ AnswersInPast' /\ ReadsExact'
  <2>1. /\ Len(blocks') \in Nat /\ Len(blocks) <= Len(blocks')
        /\ \A i \in 1 .. Len(blocks) : blocks'[i] = blocks[i]
    BY <1>1 DEF CommitBlock, ReadInv, OrderInv, SyncTypeOK
  <2>2. call' = call /\ UNCHANGED <<committed, snapshot>>
    BY <1>1 DEF CommitBlock
  <2> QED BY <2>1, <2>2, ReadsStay, SnapshotsStay
<1>2. ASSUME NEW s \in Service, Push(s)
      PROVE  SnapshotsExact' /\ AnswersInPast' /\ ReadsExact'
  <2>0. blocks' = blocks /\ call' = call
    BY <1>2 DEF Push
  <2>1. AnswersInPast' /\ ReadsExact'
    BY <1>a, <2>0, ReadsStay
  <2>2. SnapshotsExact'
    <3>1. CASE s = StateStorage /\ next[s] = LastCommitted(s) + 1
      <4>1. UpdateState(blocks[LastCommitted(StateStorage) + 1])
        BY <1>2, <3>1 DEF Push, CommitInService
      <4>2. LastCommitted(StateStorage)' = LastCommitted(StateStorage) + 1
        <5>1. committed' = [committed EXCEPT ![s] = Append(@, blocks[next[s]])]
          BY <1>2, <3>1 DEF Push, CommitInService
        <5>2. committed[s] \in Seq(StateDiff)
          BY DEF ReadInv, OrderInv, SyncTypeOK
        <5> QED BY <3>1, <5>1, <5>2 DEF ReadInv, OrderInv, SyncTypeOK
      <4>3. LastCommitted(StateStorage) < Len(blocks)
        <5>1. Len(committed[s]) \in Nat
          BY DEF ReadInv, OrderInv, SyncTypeOK
        <5> QED BY <1>2, <1>a, <3>1, <5>1 DEF Push
      <4> QED BY <2>0, <4>1, <4>2, <4>3, UpdateStateExact
    <3>2. CASE ~(s = StateStorage /\ next[s] = LastCommitted(s) + 1)
      <4>1. /\ snapshot' = snapshot
            /\ committed'[StateStorage] = committed[StateStorage]
        BY <1>2, <3>2, ServiceAssumption
        DEF Push, CommitInService, ReadInv, OrderInv, SyncTypeOK
      <4> QED BY <2>0, <4>1
              DEF ReadInv, SnapshotsExact, HasValueAt, Writers
    <3> QED BY <3>1, <3>2
  <2> QED BY <2>1, <2>2
<1>3. ASSUME NEW r \in Reader, NEW h \in 0 .. MaxHeight, ReadKeys(r, h)
      PROVE  SnapshotsExact' /\ AnswersInPast' /\ ReadsExact'
  <2>1. UNCHANGED <<blocks, committed, snapshot>>
    BY <1>3 DEF ReadKeys
  <2>2. SnapshotsExact'
    BY <2>1, SnapshotsStay
  <2>3. h \in Nat
    BY ConfigAssumption
  <2>4. CASE h <= LastCommitted(StateStorage) /\ Answer(r, h)
    BY <2>1, <2>2, <2>3, <2>4, AnswerExact
  <2>5. CASE \E p \in {"waiting", "failed"} : Reply(r, p, h, EmptyState)
    BY <2>1, <2>2, <2>5, ReplyExact
  <2> QED BY <1>3, <2>4, <2>5 DEF ReadKeys
<1>4. ASSUME NEW r \in Reader, StopWaiting(r)
      PROVE  SnapshotsExact' /\ AnswersInPast' /\ ReadsExact'
  <2>1. UNCHANGED <<blocks, committed, snapshot>>
    BY <1>4 DEF StopWaiting
  <2>2. call[r].height \in Nat
    BY DEF ReadInv, OrderInv, SyncTypeOK, Call
  <2>3. AnswersInPast' /\ ReadsExact'
    BY <1>4, <2>1, <2>2, AnswerExact DEF StopWaiting
  <2> QED BY <2>1, <2>3, SnapshotsStay
<1>5. ASSUME NEW r \in Reader, TimeOut(r)
      PROVE  SnapshotsExact' /\ AnswersInPast' /\ ReadsExact'
  <2>1. UNCHANGED <<blocks, committed, snapshot>>
    BY <1>5 DEF TimeOut
  <2>2. AnswersInPast' /\ ReadsExact'
    BY <1>5, <2>1, ReplyExact DEF TimeOut
  <2> QED BY <2>1, <2>2, SnapshotsStay
<1>6. ASSUME Restart
      PROVE  SnapshotsExact' /\ AnswersInPast' /\ ReadsExact'
  <2>1. blocks' = blocks /\ call' = [r \in Reader |-> NoCall]
    BY <1>6 DEF Restart
  <2>2. AnswersInPast' /\ ReadsExact'
    BY <2>1 DEF NoCall, AnswersInPast, ReadsExact
  <2>3. SnapshotsExact'
    <3>1. CASE StateStorage \in Persistent
      <4>1. /\ snapshot' = snapshot
            /\ committed'[StateStorage] = committed[StateStorage]
        BY <1>6, <3>1, ServiceAssumption DEF Restart
      <4> QED BY <2>1, <4>1 DEF ReadInv, SnapshotsExact, HasValueAt, Writers
    <3>2. CASE StateStorage \notin Persistent
      <4>1. /\ snapshot' = [i \in Kept(0) |-> EmptyState]
            /\ LastCommitted(StateStorage)' = 0
        BY <1>6, <3>2, ServiceAssumption DEF Restart
      <4>2. Kept(0) = {0}
        BY ConfigAssumption DEF Kept
      <4>3. \A k \in Key : HasValueAt(k, EmptyState[k], 0)'
        BY <2>1, EmptyExact DEF HasValueAt, Writers, EmptyState
      <4> QED BY <4>1, <4>2, <4>3 DEF SnapshotsExact, EmptyState
    <3> QED BY <3>1, <3>2
  <2> QED BY <2>2, <2>3
<1>7. ASSUME UNCHANGED <<blocks, committed, snapshot, call>>
      PROVE  SnapshotsExact' /\ AnswersInPast' /\ ReadsExact'
  BY <1>a, <1>7, ReadsStay, SnapshotsStay
<1>8. SnapshotsExact' /\ AnswersInPast' /\ ReadsExact'
  <2>1. ASSUME NEW s \in Service, Check(s) \/ Wait(s)
        PROVE  UNCHANGED <<blocks, committed, snapshot, call>>
    BY <2>1 DEF Check, Wait
  <2> QED BY <1>1, <1>2, <1>3, <1>4, <1>5, <1>6, <1>7, <2>1 DEF Next, vars
<1> QED BY <1>0, <1>8 DEF ReadInv

\* A read that is answered has the values of exactly the height asked for.
THEOREM ReadsAreExact == Spec => []ReadsExact
<1>1. ReadInv => ReadsExact
  BY DEF ReadInv
<1> QED BY InitRead, StepRead, <1>1, PTL DEF Spec
=============================================================================
