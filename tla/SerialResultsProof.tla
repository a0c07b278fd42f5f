--------------------------- MODULE SerialResultsProof ---------------------------
(***************************************************************************)
(* Proof that what the virtual machines compute is what the transactions   *)
(* do when they are performed serially, for every contract code, however   *)
(* deep its calls nest, and that a query is answered of one height.        *)
(*                                                                         *)
(* The argument: the reference evaluates a method to its end, and an       *)
(* execution keeps, for every method on its stack, what the reference says *)
(* it will end with (Explained).  Each SDK call leaves that as it is, so   *)
(* the transaction ends as the serial one does (Follows).  A deployment    *)
(* that succeeds has written that the contract is there (DeployTracks).    *)
(***************************************************************************)
EXTENDS SerialExecutionProof

---------------------------------------------------------------------------
(* Run, and the transactions of Serial, are what their equations say.      *)

\* Run up to n.
RunUpTo(g, n) ==
  g = [k \in 0 .. n |-> IF k = 0 THEN [x \in Point |-> Unfinished]
                        ELSE [x \in Point |-> RunOn(g[k - 1], x)]]

LEMMA RunUpToExists == \A n \in Nat : \E g : RunUpTo(g, n)
<1> DEFINE S == {n \in Nat : \E g : RunUpTo(g, n)}
           none == [x \in Point |-> Unfinished]
<1>1. 0 \in S
  <2> DEFINE g == [k \in 0 .. 0 |-> none]
  <2>1. \A k \in 0 .. 0 : k = 0
    OBVIOUS
  <2>2. g = [k \in 0 .. 0 |-> IF k = 0 THEN none ELSE [x \in Point |-> RunOn(g[k - 1], x)]]
    BY <2>1
  <2>. HIDE DEF g
  <2>3. RunUpTo(g, 0)
    BY <2>2 DEF RunUpTo
  <2> QED
    BY <2>3
<1>2. ASSUME NEW n \in Nat, n \in S
      PROVE  n + 1 \in S
  <2>1. PICK g : RunUpTo(g, n)
    BY <1>2
  <2> DEFINE last == [x \in Point |-> RunOn(g[n], x)]
  <2>2. PICK h : h = [k \in 0 .. n + 1 |-> IF k <= n THEN g[k] ELSE last]
    OBVIOUS
  <2>3. \A k \in 0 .. n : h[k] = g[k]
    BY <2>2
  <2>4. h[n + 1] = last
    BY <2>2
  <2>. HIDE DEF last
  <2>5. ASSUME NEW k \in 0 .. n + 1
        PROVE  h[k] = IF k = 0 THEN none ELSE [x \in Point |-> RunOn(h[k - 1], x)]
    <3>1. CASE k \in 0 .. n
      <4>1. g[k] = IF k = 0 THEN none ELSE [x \in Point |-> RunOn(g[k - 1], x)]
        BY <2>1, <3>1 DEF RunUpTo
      <4>2. k # 0 => h[k - 1] = g[k - 1]
        BY <2>3, <3>1
      <4> QED
        BY <2>3, <3>1, <4>1, <4>2
    <3>2. CASE k = n + 1
      <4>1. h[k - 1] = g[n] /\ k # 0
        BY <2>3, <3>2
      <4> QED
        BY <2>4, <3>2, <4>1 DEF last
    <3> QED
      BY <3>1, <3>2
  <2>6. RunUpTo(h, n + 1)
    BY <2>2, <2>5 DEF RunUpTo
  <2> QED
    BY <2>6
<1>. HIDE DEF S
<1>3. \A n \in Nat : n \in S
  BY <1>1, <1>2, NatSetInduction
<1> QED
  BY <1>3 DEF S

LEMMA RunUpToUnique ==
  ASSUME NEW n \in Nat, NEW g, RunUpTo(g, n), NEW m \in Nat, NEW h, RunUpTo(h, m)
  PROVE  \A k \in Nat : k <= n /\ k <= m => g[k] = h[k]
<1> DEFINE S == {k \in Nat : k <= n /\ k <= m => g[k] = h[k]}
<1>1. 0 \in S
  BY DEF RunUpTo
<1>2. ASSUME NEW k \in Nat, k \in S
      PROVE  k + 1 \in S
  <2>1. SUFFICES ASSUME k + 1 <= n, k + 1 <= m PROVE g[k + 1] = h[k + 1]
    OBVIOUS
  <2>2. k + 1 \in 0 .. n /\ k + 1 \in 0 .. m /\ k + 1 # 0 /\ (k + 1) - 1 = k /\ k <= n /\ k <= m
    BY <2>1
  <2>3. g[k + 1] = [x \in Point |-> RunOn(g[k], x)] /\ h[k + 1] = [x \in Point |-> RunOn(h[k], x)]
    BY <2>2 DEF RunUpTo
  <2>4. g[k] = h[k]
    BY <1>2, <2>2
  <2> QED
    BY <2>3, <2>4
<1>. HIDE DEF S
<1>3. \A k \in Nat : k \in S
  BY <1>1, <1>2, NatSetInduction
<1> QED
  BY <1>3 DEF S

LEMMA RunIs ==
  /\ Run[0] = [x \in Point |-> Unfinished]
  /\ \A n \in Nat : Run[n + 1] = [x \in Point |-> RunOn(Run[n], x)]
<1> DEFINE none == [x \in Point |-> Unfinished]
           Part(n) == CHOOSE g : RunUpTo(g, n)
<1>1. PICK f : f = [n \in Nat |-> Part(n)[n]]
  OBVIOUS
<1>2. \A n \in Nat : RunUpTo(Part(n), n)
  BY RunUpToExists
<1>. HIDE DEF Part
<1>3. ASSUME NEW n \in Nat
      PROVE  f[n] = IF n = 0 THEN none ELSE [x \in Point |-> RunOn(f[n - 1], x)]
  <2>1. n \in 0 .. n /\ f[n] = Part(n)[n]
    BY <1>1
  <2>2. Part(n)[n] = IF n = 0 THEN none ELSE [x \in Point |-> RunOn(Part(n)[n - 1], x)]
    BY <1>2, <2>1 DEF RunUpTo
  <2>3. ASSUME n # 0
        PROVE  Part(n)[n - 1] = f[n - 1]
    <3>1. n - 1 \in Nat /\ n - 1 <= n /\ n - 1 <= n - 1
      BY <2>3
    <3>2. Part(n)[n - 1] = Part(n - 1)[n - 1]
      BY <1>2, <3>1, RunUpToUnique
    <3> QED
      BY <1>1, <3>1, <3>2
  <2> QED
    BY <2>1, <2>2, <2>3
<1>4. f = [fuel \in Nat |-> IF fuel = 0 THEN none ELSE [x \in Point |-> RunOn(f[fuel - 1], x)]]
  BY <1>1, <1>3
<1>5. Run = [fuel \in Nat |-> IF fuel = 0 THEN none ELSE [x \in Point |-> RunOn(Run[fuel - 1], x)]]
  BY <1>4, Zenon DEF Run
<1>6. Run[0] = none
  BY <1>5
<1>7. ASSUME NEW n \in Nat
      PROVE  Run[n + 1] = [x \in Point |-> RunOn(Run[n], x)]
  <2>1. n + 1 \in Nat /\ n + 1 # 0 /\ (n + 1) - 1 = n
    OBVIOUS
  <2> QED
    BY <1>5, <2>1
<1> QED
  BY <1>6, <1>7

\* Serial's transactions up to n.
Nothing(state) == [end |-> "PERFORMED", state |-> state, receipts |-> <<>>]

SerialUpTo(g, n, state, txs, access) ==
  g = [i \in 0 .. n |-> IF i = 0 THEN Nothing(state) ELSE Then(g[i - 1], txs[i], access)]

LEMMA SerialUpToExists ==
  ASSUME NEW state, NEW txs, NEW access
  PROVE  \A n \in Nat : \E g : SerialUpTo(g, n, state, txs, access)
<1> DEFINE Is(g, n) == SerialUpTo(g, n, state, txs, access)
           S == {n \in Nat : \E g : Is(g, n)}
<1>1. 0 \in S
  <2>1. PICK g : g = [i \in 0 .. 0 |-> Nothing(state)]
    OBVIOUS
  <2>2. \A i \in 0 .. 0 : i = 0
    OBVIOUS
  <2>3. Is(g, 0)
    BY <2>1, <2>2 DEF SerialUpTo
  <2> QED
    BY <2>3
<1>2. ASSUME NEW n \in Nat, n \in S
      PROVE  n + 1 \in S
  <2>1. PICK g : Is(g, n)
    BY <1>2
  <2>2. PICK last : last = Then(g[n], txs[n + 1], access)
    OBVIOUS
  <2>3. PICK h : h = [k \in 0 .. n + 1 |-> IF k <= n THEN g[k] ELSE last]
    OBVIOUS
  <2>4. (\A k \in 0 .. n : h[k] = g[k]) /\ h[n + 1] = last
    BY <2>3
  <2>5. ASSUME NEW k \in 0 .. n + 1
        PROVE  h[k] = IF k = 0 THEN Nothing(state) ELSE Then(h[k - 1], txs[k], access)
    <3>1. CASE k \in 0 .. n
      <4>1. g[k] = IF k = 0 THEN Nothing(state) ELSE Then(g[k - 1], txs[k], access)
        BY <2>1, <3>1 DEF SerialUpTo
      <4>2. k # 0 => h[k - 1] = g[k - 1]
        BY <2>4, <3>1
      <4> QED
        BY <2>4, <3>1, <4>1, <4>2
    <3>2. CASE k = n + 1
      <4>1. h[k - 1] = g[n] /\ k # 0
        BY <2>4, <3>2
      <4> QED
        BY <2>2, <2>4, <3>2, <4>1
    <3> QED
      BY <3>1, <3>2
  <2>6. Is(h, n + 1)
    BY <2>3, <2>5 DEF SerialUpTo
  <2> QED
    BY <2>6
<1>. HIDE DEF S, Is
<1>3. \A n \in Nat : n \in S
  BY <1>1, <1>2, NatSetInduction
<1> QED
  BY <1>3 DEF S, Is

LEMMA SerialIs ==
  ASSUME NEW state, NEW txs \in Seq(Call), NEW access
  PROVE  \E up : /\ Serial(state, txs, access) = up[Len(txs)]
                 /\ up[0] = Nothing(state)
                 /\ \A i \in Nat : i < Len(txs) => up[i + 1] = Then(up[i], txs[i + 1], access)
<1>1. PICK n \in Nat : n = Len(txs)
  OBVIOUS
<1> DEFINE up == CHOOSE g : SerialUpTo(g, n, state, txs, access)
<1>2. SerialUpTo(up, n, state, txs, access)
  BY SerialUpToExists
<1>3. Serial(state, txs, access) = up[n]
  BY <1>1, Zenon DEF Serial, SerialUpTo, Nothing
<1>. HIDE DEF up
<1>4. up[0] = Nothing(state)
  BY <1>2 DEF SerialUpTo
<1>5. ASSUME NEW i \in Nat, i < n
      PROVE  up[i + 1] = Then(up[i], txs[i + 1], access)
  <2>1. i + 1 \in 0 .. n /\ i + 1 # 0 /\ (i + 1) - 1 = i
    BY <1>5
  <2> QED
    BY <1>2, <2>1 DEF SerialUpTo
<1> QED
  BY <1>1, <1>3, <1>4, <1>5

\* The transactions of a serial execution that is finished.
PerformsTo(n, up, txs, access) ==
  \A i \in Nat : i < n =>
    LET t == Transact(up[i].state, txs[i + 1], access)
    IN  t # Unfinished
        /\ up[i + 1] = [end |-> "PERFORMED", state |-> t.state,
                        receipts |-> Append(up[i].receipts, t.receipt)]

Performs(up, txs, access) == PerformsTo(Len(txs), up, txs, access)

\* What is unfinished stays so.
LEMMA UpToFinished ==
  ASSUME NEW n \in Nat, NEW up, NEW txs, NEW access,
         \A i \in Nat : i < n => up[i + 1] = Then(up[i], txs[i + 1], access),
         up[n] # Unfinished
  PROVE  PerformsTo(n, up, txs, access)
<1> DEFINE S == {k \in Nat : k <= n => up[n - k] # Unfinished}
<1>1. 0 \in S
  OBVIOUS
<1>2. ASSUME NEW k \in Nat, k \in S
      PROVE  k + 1 \in S
  <2>1. SUFFICES ASSUME k + 1 <= n PROVE up[n - (k + 1)] # Unfinished
    OBVIOUS
  <2>2. PICK i \in Nat : i = n - (k + 1)
    BY <2>1
  <2>3. i < n /\ i + 1 = n - k /\ k <= n
    BY <2>1, <2>2
  <2>4. up[i + 1] # Unfinished
    BY <1>2, <2>3
  <2>5. up[i + 1] = Then(up[i], txs[i + 1], access)
    BY <2>3
  <2>6. up[i] # Unfinished
    BY <2>4, <2>5 DEF Then
  <2> QED
    BY <2>2, <2>6
<1>. HIDE DEF S
<1>3. \A k \in Nat : k \in S
  BY <1>1, <1>2, NatSetInduction
<1>4. ASSUME NEW i \in Nat, i <= n
      PROVE  up[i] # Unfinished
  <2>1. PICK k \in Nat : k = n - i
    BY <1>4
  <2>2. k <= n /\ n - k = i
    BY <1>4, <2>1
  <2>3. k \in S
    BY <1>3
  <2> QED
    BY <2>2, <2>3 DEF S
<1>5. ASSUME NEW i \in Nat, i < n
      PROVE  LET t == Transact(up[i].state, txs[i + 1], access)
             IN  t # Unfinished
                 /\ up[i + 1] = [end |-> "PERFORMED", state |-> t.state,
                                 receipts |-> Append(up[i].receipts, t.receipt)]
  <2>1. up[i + 1] = Then(up[i], txs[i + 1], access) /\ up[i + 1] # Unfinished
    <3>1. i + 1 \in Nat /\ i + 1 <= n
      BY <1>5
    <3> QED
      BY <1>4, <1>5, <3>1
  <2> QED
    BY <2>1 DEF Then
<1> QED
  BY <1>5 DEF PerformsTo

---------------------------------------------------------------------------
(* What the running code is and comes to.                                  *)

Emitter == Service \cup {Deployments}

At(f, access, state, events) ==
  [frame |-> f, access |-> access, state |-> state, events |-> events]

LEMMA AtType ==
  ASSUME NEW f \in Frame, NEW access \in {"READ_ONLY", "READ_WRITE"}, NEW state \in State,
         NEW events \in Seq(Emitter)
  PROVE  /\ At(f, access, state, events) \in Point
         /\ At(f, access, state, events).frame = f
         /\ At(f, access, state, events).access = access
         /\ At(f, access, state, events).state = state
         /\ At(f, access, state, events).events = events
BY DEF At, Point, Emitter

LEMMA PointParts ==
  ASSUME NEW x \in Point
  PROVE  /\ x.frame \in Frame /\ x.access \in {"READ_ONLY", "READ_WRITE"} /\ x.state \in State
         /\ x.events \in Seq(Emitter)
         /\ x = At(x.frame, x.access, x.state, x.events)
BY DEF At, Point, Emitter

LEMMA OpType ==
  ASSUME NEW f \in Frame
  PROVE  /\ f.acc \in Value /\ f.service \in Emitter
         /\ f.rest # <<>> =>
              /\ Head(f.rest).op \in {"READ", "WRITE", "REQUIRE", "CALL", "EMIT"}
              /\ Head(f.rest).op \in {"READ", "WRITE"} => <<f.service, Head(f.rest).key>> \in Var
              /\ Head(f.rest).op = "WRITE" =>
                   (f.acc + Head(f.rest).add) % Values \in Value
              /\ Head(f.rest).op = "CALL" => Head(f.rest).call \in Call
<1>1. f.acc \in Value /\ f.service \in Emitter
  BY DEF Frame, Emitter
<1>2. ASSUME f.rest # <<>>
      PROVE  \/ f.service \in Service /\ Head(f.rest) \in Op(Key)
             \/ f.service = Deployments /\ Head(f.rest) \in Op(Service)
  BY <1>2 DEF Frame
<1>3. ASSUME NEW K, NEW op \in Op(K)
      PROVE  /\ op.op \in {"READ", "WRITE", "REQUIRE", "CALL", "EMIT"}
             /\ op.op \in {"READ", "WRITE"} => op.key \in K
             /\ op.op = "WRITE" => op.add \in Nat
             /\ op.op = "CALL" => op.call \in Call
  BY DEF Op
<1>4. ASSUME NEW n \in Nat, NEW m \in Nat
      PROVE  (n + m) % Values \in Value
  <2>1. Values \in Nat /\ Values > 0
    BY ContractAssumption
  <2>2. PICK s \in Nat : s = n + m
    OBVIOUS
  <2>3. s % Values \in 0 .. Values - 1
    BY <2>1
  <2> QED
    BY <2>2, <2>3 DEF Value
<1>5. f.acc \in Nat
  BY <1>1, ContractAssumption DEF Value
<1> QED
  BY <1>1, <1>2, <1>3, <1>4, <1>5 DEF Var

LEMMA AfterType ==
  ASSUME NEW f \in Frame, f.rest # <<>>, NEW acc \in Value
  PROVE  After(f, acc) \in Frame
BY FrameParts DEF After

LEMMA EnterIs ==
  ASSUME NEW call \in Call, NEW access \in {"READ_ONLY", "READ_WRITE"}, NEW state \in State,
         NEW events \in Seq(Emitter)
  PROVE  /\ [service |-> call[1], rest |-> Body(call), acc |-> 0] \in Frame
         /\ Enter(call, access, state, events) =
              At([service |-> call[1], rest |-> Body(call), acc |-> 0], access, state, events)
         /\ Enter(call, access, state, events) \in Point
BY BodyType, AtType DEF Enter, At

LEMMA GoOnIs ==
  ASSUME NEW x \in Point, x.frame.rest # <<>>, NEW state \in State, NEW events \in Seq(Emitter),
         NEW acc \in Value
  PROVE  /\ GoOn(x, state, events, acc) = At(After(x.frame, acc), x.access, state, events)
         /\ GoOn(x, state, events, acc) \in Point
BY PointParts, AfterType, AtType DEF GoOn, After, At

LEMMA ReturnedType ==
  ASSUME NEW state \in State, NEW events \in Seq(Emitter), NEW acc \in Value
  PROVE  /\ Returned(state, events, acc) \in End
         /\ Returned(state, events, acc).end = "RETURNED"
         /\ Returned(state, events, acc).state = state
         /\ Returned(state, events, acc).events = events
         /\ Returned(state, events, acc).acc = acc
BY DEF Returned, End, Emitter

LEMMA EndParts ==
  ASSUME NEW r \in End
  PROVE  /\ r.end \in {"RETURNED", "FAILED", "UNFINISHED"}
         /\ r.end = "RETURNED" => /\ r.state \in State /\ r.events \in Seq(Emitter)
                                  /\ r.acc \in Value
         /\ r.end = "FAILED" => r = FailedCode
         /\ r.end = "UNFINISHED" => r = Unfinished
BY DEF End, FailedCode, Unfinished, Emitter

LEMMA FailedEnd ==
  /\ FailedCode \in End /\ Unfinished \in End
  /\ FailedCode.end = "FAILED" /\ Unfinished.end = "UNFINISHED"
BY DEF End, FailedCode, Unfinished

\* RunOn, SDK call by SDK call.
LEMMA RunOnIs ==
  ASSUME NEW run, NEW x \in Point
  PROVE  LET f == x.frame
             op == Head(f.rest)
         IN
         /\ f.rest = <<>> => RunOn(run, x) = Returned(x.state, x.events, f.acc)
         /\ f.rest # <<>> /\ op.op = "READ" =>
              RunOn(run, x) = run[GoOn(x, x.state, x.events, x.state[<<f.service, op.key>>])]
         /\ f.rest # <<>> /\ op.op = "WRITE" =>
              RunOn(run, x) =
                IF x.access = "READ_ONLY" THEN FailedCode
                ELSE run[GoOn(x, [x.state EXCEPT ![<<f.service, op.key>>] = (f.acc + op.add) % Values],
                              x.events, (f.acc + op.add) % Values)]
         /\ f.rest # <<>> /\ op.op = "REQUIRE" =>
              RunOn(run, x) = IF f.acc = op.value THEN run[GoOn(x, x.state, x.events, f.acc)]
                              ELSE FailedCode
         /\ f.rest # <<>> /\ op.op = "CALL" =>
              RunOn(run, x) =
                IF ~(Exists(x.state, op.call[1]) /\ Permitted(f.service, op.call, x.access))
                THEN FailedCode
                ELSE LET called == run[Enter(op.call, x.access, x.state, x.events)]
                     IN  IF called.end # "RETURNED" THEN called
                         ELSE run[GoOn(x, called.state, called.events, called.acc)]
         /\ f.rest # <<>> /\ op.op = "EMIT" =>
              RunOn(run, x) = IF x.events = <<>> THEN run[GoOn(x, x.state, <<f.service>>, f.acc)]
                              ELSE FailedCode
<1> DEFINE f == x.frame
           op == Head(f.rest)
<1>1. f.rest = <<>> => RunOn(run, x) = Returned(x.state, x.events, f.acc)
  BY DEF RunOn
<1>2. ASSUME f.rest # <<>>, op.op = "READ"
      PROVE  RunOn(run, x) = run[GoOn(x, x.state, x.events, x.state[<<f.service, op.key>>])]
  BY <1>2 DEF RunOn
<1>3. ASSUME f.rest # <<>>, op.op = "WRITE"
      PROVE  RunOn(run, x) =
                IF x.access = "READ_ONLY" THEN FailedCode
                ELSE run[GoOn(x, [x.state EXCEPT ![<<f.service, op.key>>] = (f.acc + op.add) % Values],
                              x.events, (f.acc + op.add) % Values)]
  BY <1>3 DEF RunOn
<1>4. ASSUME f.rest # <<>>, op.op = "REQUIRE"
      PROVE  RunOn(run, x) = IF f.acc = op.value THEN run[GoOn(x, x.state, x.events, f.acc)]
                              ELSE FailedCode
  BY <1>4 DEF RunOn
<1>5. ASSUME f.rest # <<>>, op.op = "CALL"
      PROVE  RunOn(run, x) =
                IF ~(Exists(x.state, op.call[1]) /\ Permitted(f.service, op.call, x.access))
                THEN FailedCode
                ELSE LET called == run[Enter(op.call, x.access, x.state, x.events)]
                     IN  IF called.end # "RETURNED" THEN called
                         ELSE run[GoOn(x, called.state, called.events, called.acc)]
  BY <1>5 DEF RunOn
<1>6. ASSUME f.rest # <<>>, op.op = "EMIT"
      PROVE  RunOn(run, x) = IF x.events = <<>> THEN run[GoOn(x, x.state, <<f.service>>, f.acc)]
                              ELSE FailedCode
  BY <1>6 DEF RunOn
<1> QED
  BY <1>1, <1>2, <1>3, <1>4, <1>5, <1>6

LEMMA WrittenState ==
  ASSUME NEW state \in State, NEW v, NEW x \in Value
  PROVE  [state EXCEPT ![v] = x] \in State
BY DEF State

LEMMA RunOnType ==
  ASSUME NEW run \in [Point -> End], NEW x \in Point
  PROVE  RunOn(run, x) \in End
<1> DEFINE f == x.frame
           op == Head(f.rest)
<1>1. /\ f \in Frame /\ x.access \in {"READ_ONLY", "READ_WRITE"} /\ x.state \in State
      /\ x.events \in Seq(Emitter) /\ f.acc \in Value /\ f.service \in Emitter
  BY PointParts, OpType
<1>2. ASSUME f.rest # <<>>, NEW state \in State, NEW events \in Seq(Emitter), NEW acc \in Value
      PROVE  run[GoOn(x, state, events, acc)] \in End
  BY <1>2, GoOnIs
<1>3. CASE f.rest = <<>>
  <2>1. RunOn(run, x) = Returned(x.state, x.events, f.acc)
    BY <1>3, RunOnIs
  <2>. HIDE DEF f
  <2> QED
    BY <1>1, <2>1, ReturnedType
<1>4. CASE f.rest # <<>> /\ op.op = "READ"
  <2>1. x.state[<<f.service, op.key>>] \in Value
    BY <1>1, <1>4, OpType DEF State
  <2> QED
    BY <1>1, <1>2, <1>4, <2>1, RunOnIs
<1>5. CASE f.rest # <<>> /\ op.op = "WRITE"
  <2>1. PICK sum \in Value : sum = (f.acc + op.add) % Values
    BY <1>1, <1>5, OpType
  <2>2. PICK state \in State : state = [x.state EXCEPT ![<<f.service, op.key>>] = sum]
    BY <1>1, WrittenState
  <2>3. RunOn(run, x) = IF x.access = "READ_ONLY" THEN FailedCode
                        ELSE run[GoOn(x, state, x.events, sum)]
    BY <1>5, <2>1, <2>2, RunOnIs
  <2> QED
    BY <1>1, <1>2, <1>5, <2>3, FailedEnd
<1>6. CASE f.rest # <<>> /\ op.op = "REQUIRE"
  BY <1>1, <1>2, <1>6, RunOnIs, FailedEnd
<1>7. CASE f.rest # <<>> /\ op.op = "CALL"
  <2>1. op.call \in Call
    BY <1>1, <1>7, OpType
  <2>2. PICK called \in End : called = run[Enter(op.call, x.access, x.state, x.events)]
    BY <1>1, <2>1, EnterIs
  <2>3. called.end = "RETURNED" => run[GoOn(x, called.state, called.events, called.acc)] \in End
    BY <1>2, <1>7, EndParts
  <2>4. RunOn(run, x) =
          IF ~(Exists(x.state, op.call[1]) /\ Permitted(f.service, op.call, x.access))
          THEN FailedCode
          ELSE IF called.end # "RETURNED" THEN called
          ELSE run[GoOn(x, called.state, called.events, called.acc)]
    BY <1>7, <2>2, RunOnIs
  <2> QED
    BY <2>3, <2>4, FailedEnd
<1>8. CASE f.rest # <<>> /\ op.op = "EMIT"
  <2>1. <<f.service>> \in Seq(Emitter)
    BY <1>1
  <2> QED
    BY <1>1, <1>2, <1>8, <2>1, RunOnIs, FailedEnd
<1>9. f.rest # <<>> => op.op \in {"READ", "WRITE", "REQUIRE", "CALL", "EMIT"}
  BY <1>1, OpType
<1> QED
  BY <1>3, <1>4, <1>5, <1>6, <1>7, <1>8, <1>9

LEMMA RunType == \A n \in Nat : Run[n] \in [Point -> End]
<1> DEFINE S == {n \in Nat : Run[n] \in [Point -> End]}
<1>1. 0 \in S
  BY RunIs, FailedEnd
<1>2. ASSUME NEW n \in Nat, n \in S
      PROVE  n + 1 \in S
  <2>1. Run[n] \in [Point -> End]
    BY <1>2
  <2>2. \A x \in Point : RunOn(Run[n], x) \in End
    BY <2>1, RunOnType
  <2>3. Run[n + 1] \in [Point -> End]
    BY <2>2, RunIs
  <2> QED
    BY <2>3
<1>. HIDE DEF S
<1>3. \A n \in Nat : n \in S
  BY <1>1, <1>2, NatSetInduction
<1> QED
  BY <1>3 DEF S

---------------------------------------------------------------------------
(* The reference's evaluation of an execution's stack: what each method on *)
(* it will end with.                                                       *)

EvalsTo(x, r) == r \in End /\ r.end # "UNFINISHED" /\ \E n \in Nat : Run[n][x] = r

LEMMA EvalsNext ==
  ASSUME NEW x \in Point, NEW r, EvalsTo(x, r)
  PROVE  LET f == x.frame
             op == Head(f.rest)
         IN
         /\ f.rest = <<>> => r = Returned(x.state, x.events, f.acc)
         /\ f.rest # <<>> /\ op.op = "READ" =>
              EvalsTo(GoOn(x, x.state, x.events, x.state[<<f.service, op.key>>]), r)
         /\ f.rest # <<>> /\ op.op = "WRITE" =>
              IF x.access = "READ_ONLY" THEN r = FailedCode
              ELSE EvalsTo(GoOn(x, [x.state EXCEPT ![<<f.service, op.key>>] = (f.acc + op.add) % Values],
                                x.events, (f.acc + op.add) % Values), r)
         /\ f.rest # <<>> /\ op.op = "REQUIRE" =>
              IF f.acc = op.value THEN EvalsTo(GoOn(x, x.state, x.events, f.acc), r)
              ELSE r = FailedCode
         /\ f.rest # <<>> /\ op.op = "CALL" =>
              IF ~(Exists(x.state, op.call[1]) /\ Permitted(f.service, op.call, x.access))
              THEN r = FailedCode
              ELSE \E called :
                     /\ EvalsTo(Enter(op.call, x.access, x.state, x.events), called)
                     /\ IF called.end # "RETURNED" THEN r = called
                        ELSE EvalsTo(GoOn(x, called.state, called.events, called.acc), r)
         /\ f.rest # <<>> /\ op.op = "EMIT" =>
              IF x.events = <<>> THEN EvalsTo(GoOn(x, x.state, <<f.service>>, f.acc), r)
              ELSE r = FailedCode
<1> DEFINE f == x.frame
           op == Head(f.rest)
<1>1. PICK k \in Nat : Run[k][x] = r
  BY DEF EvalsTo
<1>2. r \in End /\ r.end # "UNFINISHED"
  BY DEF EvalsTo
<1>3. k # 0
  BY <1>1, <1>2, RunIs, FailedEnd
<1>4. PICK n \in Nat : k = n + 1
  <2>1. k - 1 \in Nat /\ k = (k - 1) + 1
    BY <1>3
  <2> QED
    BY <2>1
<1>5. r = RunOn(Run[n], x)
  BY <1>1, <1>4, RunIs
<1>6. PICK run : run = Run[n]
  OBVIOUS
<1>7. ASSUME NEW y, NEW q, q = run[y], q.end # "UNFINISHED", y \in Point
      PROVE  EvalsTo(y, q)
  <2>1. q \in End
    BY <1>6, <1>7, RunType
  <2> QED
    BY <1>6, <1>7, <2>1 DEF EvalsTo
<1>8. r = RunOn(run, x)
  BY <1>5, <1>6
<1>9. ASSUME NEW y, y \in Point, r = run[y]
      PROVE  EvalsTo(y, r)
  BY <1>2, <1>7, <1>9
<1>10. /\ f \in Frame /\ x.access \in {"READ_ONLY", "READ_WRITE"} /\ x.state \in State
       /\ x.events \in Seq(Emitter) /\ f.acc \in Value /\ f.service \in Emitter
  BY PointParts, OpType
<1>11. ASSUME f.rest # <<>>, NEW state \in State, NEW events \in Seq(Emitter), NEW acc \in Value
       PROVE  GoOn(x, state, events, acc) \in Point
  BY <1>11, GoOnIs
<1>12. f.rest = <<>> => r = Returned(x.state, x.events, f.acc)
  BY <1>8, RunOnIs
<1>13. ASSUME f.rest # <<>>, op.op = "READ"
       PROVE  EvalsTo(GoOn(x, x.state, x.events, x.state[<<f.service, op.key>>]), r)
  <2>1. x.state[<<f.service, op.key>>] \in Value
    BY <1>10, <1>13, OpType DEF State
  <2>2. r = run[GoOn(x, x.state, x.events, x.state[<<f.service, op.key>>])]
    BY <1>8, <1>13, RunOnIs
  <2> QED
    BY <1>9, <1>10, <1>11, <1>13, <2>1, <2>2
<1>14. ASSUME f.rest # <<>>, op.op = "WRITE"
       PROVE  IF x.access = "READ_ONLY" THEN r = FailedCode
              ELSE EvalsTo(GoOn(x, [x.state EXCEPT ![<<f.service, op.key>>] = (f.acc + op.add) % Values],
                                x.events, (f.acc + op.add) % Values), r)
  <2>1. PICK sum \in Value : sum = (f.acc + op.add) % Values
    BY <1>10, <1>14, OpType
  <2>2. PICK state \in State : state = [x.state EXCEPT ![<<f.service, op.key>>] = sum]
    BY <1>10, WrittenState
  <2>3. r = IF x.access = "READ_ONLY" THEN FailedCode ELSE run[GoOn(x, state, x.events, sum)]
    BY <1>8, <1>14, <2>1, <2>2, RunOnIs
  <2>4. IF x.access = "READ_ONLY" THEN r = FailedCode
        ELSE EvalsTo(GoOn(x, state, x.events, sum), r)
    BY <1>9, <1>10, <1>11, <1>14, <2>3
  <2> QED
    BY <2>1, <2>2, <2>4
<1>15. ASSUME f.rest # <<>>, op.op = "REQUIRE"
       PROVE  IF f.acc = op.value THEN EvalsTo(GoOn(x, x.state, x.events, f.acc), r)
              ELSE r = FailedCode
  <2>1. r = IF f.acc = op.value THEN run[GoOn(x, x.state, x.events, f.acc)] ELSE FailedCode
    BY <1>8, <1>15, RunOnIs
  <2> QED
    BY <1>9, <1>10, <1>11, <1>15, <2>1
<1>16. ASSUME f.rest # <<>>, op.op = "CALL"
       PROVE  IF ~(Exists(x.state, op.call[1]) /\ Permitted(f.service, op.call, x.access))
              THEN r = FailedCode
              ELSE \E called :
                     /\ EvalsTo(Enter(op.call, x.access, x.state, x.events), called)
                     /\ IF called.end # "RETURNED" THEN r = called
                        ELSE EvalsTo(GoOn(x, called.state, called.events, called.acc), r)
  <2>1. op.call \in Call
    BY <1>10, <1>16, OpType
  <2>2. PICK y \in Point : y = Enter(op.call, x.access, x.state, x.events)
    BY <1>10, <2>1, EnterIs
  <2>3. PICK called \in End : called = run[y]
    BY <1>6, RunType
  <2>4. r = IF ~(Exists(x.state, op.call[1]) /\ Permitted(f.service, op.call, x.access))
            THEN FailedCode
            ELSE IF called.end # "RETURNED" THEN called
            ELSE run[GoOn(x, called.state, called.events, called.acc)]
    BY <1>8, <1>16, <2>2, <2>3, RunOnIs
  <2>5. CASE Exists(x.state, op.call[1]) /\ Permitted(f.service, op.call, x.access)
    <3>1. called.end # "UNFINISHED"
      BY <1>2, <2>4, <2>5
    <3>2. EvalsTo(y, called)
      BY <1>7, <2>3, <3>1
    <3>3. called.end = "RETURNED" => EvalsTo(GoOn(x, called.state, called.events, called.acc), r)
      <4>1. SUFFICES ASSUME called.end = "RETURNED"
                     PROVE  EvalsTo(GoOn(x, called.state, called.events, called.acc), r)
        OBVIOUS
      <4>2. GoOn(x, called.state, called.events, called.acc) \in Point
        BY <1>11, <1>16, <4>1, EndParts
      <4> QED
        BY <1>9, <2>4, <2>5, <4>1, <4>2
    <3>4. called.end # "RETURNED" => r = called
      BY <2>4, <2>5
    <3> QED
      BY <2>2, <2>5, <3>2, <3>3, <3>4
  <2> QED
    BY <2>4, <2>5
<1>17. ASSUME f.rest # <<>>, op.op = "EMIT"
       PROVE  IF x.events = <<>> THEN EvalsTo(GoOn(x, x.state, <<f.service>>, f.acc), r)
              ELSE r = FailedCode
  <2>1. <<f.service>> \in Seq(Emitter)
    BY <1>10
  <2>2. r = IF x.events = <<>> THEN run[GoOn(x, x.state, <<f.service>>, f.acc)] ELSE FailedCode
    BY <1>8, <1>17, RunOnIs
  <2> QED
    BY <1>9, <1>10, <1>11, <1>17, <2>1, <2>2
<1> QED
  BY <1>12, <1>13, <1>14, <1>15, <1>16, <1>17

\* Where the running code of a context is.
Place(c, base) == At(Top(c), c.access, Seen(c, base), c.events)

\* A method goes on with what the one it called ended with.
Resumes(f, access, inner, outer) ==
  IF inner.end = "RETURNED"
  THEN EvalsTo(At([service |-> f.service, rest |-> f.rest, acc |-> inner.acc],
                  access, inner.state, inner.events), outer)
  ELSE outer = inner

\* The method at the bottom of the stack will end with o.
Explained(c, base, o) ==
  \E res \in [1 .. Len(c.stack) -> End] :
    /\ res[1] = o
    /\ EvalsTo(Place(c, base), res[Len(c.stack)])
    /\ \A j \in 1 .. Len(c.stack) - 1 : Resumes(c.stack[j], c.access, res[j + 1], res[j])

LEMMA AccessEvents ==
  ASSUME NEW c \in Context
  PROVE  c.access \in {"READ_ONLY", "READ_WRITE"} /\ c.events \in Seq(Emitter)
BY DEF Context, Emitter

LEMMA StackLen ==
  ASSUME NEW c \in Context, c.stack # <<>>
  PROVE  /\ Len(c.stack) \in Nat /\ Len(c.stack) \in 1 .. Len(c.stack) /\ 1 \in 1 .. Len(c.stack)
         /\ c.stack \in Seq(Frame) /\ \A j \in 1 .. Len(c.stack) : c.stack[j] \in Frame
<1>1. c.stack \in Seq(Frame)
  BY ContextFields
<1>2. PICK n \in Nat : n = Len(c.stack)
  BY <1>1
<1>3. n # 0
  BY <1>1, <1>2
<1>4. n \in 1 .. n /\ 1 \in 1 .. n
  BY <1>3
<1> QED
  BY <1>1, <1>2, <1>4, ElementOfSeq

LEMMA PlaceIs ==
  ASSUME NEW c \in Context, c.stack # <<>>, NEW base \in State
  PROVE  /\ Place(c, base) \in Point /\ Place(c, base).frame = Top(c)
         /\ Place(c, base).access = c.access /\ Place(c, base).state = Seen(c, base)
         /\ Place(c, base).events = c.events
<1>1. /\ Top(c) \in Frame /\ c.access \in {"READ_ONLY", "READ_WRITE"}
      /\ Seen(c, base) \in State /\ c.events \in Seq(Emitter)
  BY TopType, SeenType, AccessEvents
<1> QED
  BY <1>1, AtType DEF Place

\* The method that runs goes on.
LEMMA ExplainedOn ==
  ASSUME NEW c \in Context, c.stack # <<>>, NEW base, NEW o, Explained(c, base, o),
         NEW d \in Context, Len(d.stack) = Len(c.stack), d.access = c.access,
         \A j \in 1 .. Len(c.stack) - 1 : d.stack[j] = c.stack[j],
         \A r : EvalsTo(Place(c, base), r) => EvalsTo(Place(d, base), r)
  PROVE  Explained(d, base, o)
BY DEF Explained

\* What fails at the top fails down to the bottom.
LEMMA ExplainedFailed ==
  ASSUME NEW c \in Context, c.stack # <<>>, NEW base, NEW o, Explained(c, base, o),
         \A r : EvalsTo(Place(c, base), r) => r = FailedCode
  PROVE  o = FailedCode
<1>1. PICK res \in [1 .. Len(c.stack) -> End] :
        /\ res[1] = o
        /\ EvalsTo(Place(c, base), res[Len(c.stack)])
        /\ \A j \in 1 .. Len(c.stack) - 1 : Resumes(c.stack[j], c.access, res[j + 1], res[j])
  BY DEF Explained
<1>2. PICK n \in Nat : n = Len(c.stack) /\ n \in 1 .. n
  BY StackLen
<1> DEFINE S == {k \in Nat : k < n => res[n - k] = FailedCode}
<1>3. 0 \in S
  BY <1>1, <1>2
<1>4. ASSUME NEW k \in Nat, k \in S
      PROVE  k + 1 \in S
  <2>1. SUFFICES ASSUME k + 1 < n PROVE res[n - (k + 1)] = FailedCode
    OBVIOUS
  <2>2. PICK j \in Nat : j = n - (k + 1)
    BY <2>1
  <2>3. j \in 1 .. n - 1 /\ j + 1 = n - k /\ k < n
    BY <2>1, <2>2
  <2>4. Resumes(c.stack[j], c.access, res[j + 1], res[j]) /\ res[j + 1] = FailedCode
    BY <1>1, <1>2, <1>4, <2>3
  <2>5. res[j] = FailedCode
    BY <2>4, FailedEnd DEF Resumes
  <2> QED
    BY <2>2, <2>5
<1>. HIDE DEF S
<1>5. \A k \in Nat : k \in S
  BY <1>3, <1>4, NatSetInduction
<1>6. n - 1 \in Nat /\ n - 1 < n /\ n - (n - 1) = 1
  BY <1>2
<1>7. n - 1 \in S
  BY <1>5, <1>6
<1>8. res[n - (n - 1)] = FailedCode
  BY <1>6, <1>7 DEF S
<1> QED
  BY <1>1, <1>6, <1>8

Kept(c, d) == d.deploying = c.deploying /\ d.batch = c.batch /\ d.receipts = c.receipts

\* A method calls another.
LEMMA ExplainedCall ==
  ASSUME NEW c \in Context, c.stack # <<>>, NEW base, NEW o, Explained(c, base, o),
         NEW d \in Context, d.stack # <<>>, Len(d.stack) = Len(c.stack) + 1, d.access = c.access,
         NEW f, d.stack[Len(c.stack)] = f,
         \A j \in 1 .. Len(c.stack) - 1 : d.stack[j] = c.stack[j],
         \A r : EvalsTo(Place(c, base), r) =>
           \E called : EvalsTo(Place(d, base), called) /\ Resumes(f, c.access, called, r)
  PROVE  Explained(d, base, o)
<1>1. PICK res \in [1 .. Len(c.stack) -> End] :
        /\ res[1] = o
        /\ EvalsTo(Place(c, base), res[Len(c.stack)])
        /\ \A j \in 1 .. Len(c.stack) - 1 : Resumes(c.stack[j], c.access, res[j + 1], res[j])
  BY DEF Explained
<1>2. PICK n \in Nat : n = Len(c.stack) /\ n \in 1 .. n /\ 1 \in 1 .. n
  BY StackLen
<1>3. PICK called : EvalsTo(Place(d, base), called) /\ Resumes(f, c.access, called, res[n])
  BY <1>1, <1>2
<1>4. PICK more : more = [j \in 1 .. n + 1 |-> IF j <= n THEN res[j] ELSE called]
  OBVIOUS
<1>5. called \in End
  BY <1>3 DEF EvalsTo
<1>6. more \in [1 .. n + 1 -> End] /\ more[n + 1] = called /\ \A j \in 1 .. n : more[j] = res[j]
  BY <1>1, <1>2, <1>4, <1>5
<1>7. ASSUME NEW j \in 1 .. (n + 1) - 1
      PROVE  Resumes(d.stack[j], d.access, more[j + 1], more[j])
  <2>1. j \in 1 .. n /\ more[j] = res[j]
    BY <1>6
  <2>2. CASE j = n
    BY <1>2, <1>3, <1>6, <2>1, <2>2
  <2>3. CASE j # n
    <3>1. j \in 1 .. n - 1 /\ j + 1 \in 1 .. n
      BY <2>1, <2>3
    <3>2. more[j + 1] = res[j + 1] /\ d.stack[j] = c.stack[j]
      BY <1>2, <1>6, <3>1
    <3> QED
      BY <1>1, <1>2, <2>1, <3>1, <3>2
  <2> QED
    BY <2>2, <2>3
<1>8. Len(d.stack) = n + 1
  BY <1>2
<1> QED
  BY <1>1, <1>2, <1>3, <1>6, <1>7, <1>8 DEF Explained

\* A method returns to another.
LEMMA ExplainedPop ==
  ASSUME NEW c \in Context, c.stack # <<>>, Top(c).rest = <<>>, Len(c.stack) # 1,
         NEW base \in State, NEW o, Explained(c, base, o), NEW d, d = Pop(c)
  PROVE  d \in Context /\ d.stack # <<>> /\ Kept(c, d) /\ Explained(d, base, o)
<1>1. PICK res \in [1 .. Len(c.stack) -> End] :
        /\ res[1] = o
        /\ EvalsTo(Place(c, base), res[Len(c.stack)])
        /\ \A j \in 1 .. Len(c.stack) - 1 : Resumes(c.stack[j], c.access, res[j + 1], res[j])
  BY DEF Explained
<1>2. PICK n \in Nat : n = Len(c.stack) /\ n \in 1 .. n /\ 1 \in 1 .. n
  BY StackLen
<1>3. /\ d \in Context /\ SameRest(c, d) /\ SameJob(c, d) /\ d.stack # <<>>
      /\ n > 1 /\ Len(d.stack) = n - 1
      /\ Top(d) = [service |-> c.stack[n - 1].service, rest |-> c.stack[n - 1].rest,
                   acc |-> Top(c).acc]
      /\ \A i \in 1 .. n - 2 : d.stack[i] = c.stack[i]
  BY <1>2, PopStack
<1>4. n - 1 \in 1 .. n - 1 /\ (n - 1) + 1 = n /\ (n - 1) - 1 = n - 2
  BY <1>3
<1>5. res[n] = Returned(Seen(c, base), c.events, Top(c).acc)
  <2>1. PICK x \in Point : /\ x = Place(c, base) /\ x.frame = Top(c) /\ x.state = Seen(c, base)
                           /\ x.events = c.events
    BY PlaceIs
  <2>2. EvalsTo(x, res[n])
    BY <1>1, <1>2, <2>1
  <2>3. res[n] = Returned(x.state, x.events, x.frame.acc)
    BY <2>1, <2>2, EvalsNext
  <2> QED
    BY <2>1, <2>3
<1>6. PICK r : r = res[n]
  OBVIOUS
<1>7. r.end = "RETURNED" /\ r.state = Seen(c, base) /\ r.events = c.events /\ r.acc = Top(c).acc
  BY <1>5, <1>6 DEF Returned
<1>8. Resumes(c.stack[n - 1], c.access, r, res[n - 1])
  BY <1>1, <1>2, <1>4, <1>6
<1>9. Place(d, base) = At([service |-> c.stack[n - 1].service, rest |-> c.stack[n - 1].rest,
                           acc |-> r.acc], c.access, r.state, r.events)
  BY <1>3, <1>7, SameSeen DEF Place, SameRest, SameJob
<1>10. EvalsTo(Place(d, base), res[n - 1])
  BY <1>7, <1>8, <1>9 DEF Resumes
<1>11. PICK fewer : fewer = [j \in 1 .. n - 1 |-> res[j]]
  OBVIOUS
<1>12. fewer \in [1 .. n - 1 -> End] /\ \A j \in 1 .. n - 1 : fewer[j] = res[j]
  BY <1>2, <1>11
<1>13. ASSUME NEW j \in 1 .. n - 2
       PROVE  Resumes(d.stack[j], d.access, fewer[j + 1], fewer[j])
  <2>1. j \in 1 .. n - 1 /\ j + 1 \in 1 .. n - 1
    OBVIOUS
  <2> QED
    BY <1>1, <1>2, <1>3, <1>12, <2>1 DEF SameJob
<1>14. 1 \in 1 .. n - 1
  BY <1>3
<1>15. Explained(d, base, o)
  <2>1. PICK m \in Nat : m = n - 1 /\ m = Len(d.stack) /\ m - 1 = n - 2
    BY <1>3
  <2>2. /\ fewer \in [1 .. m -> End] /\ fewer[1] = o
        /\ EvalsTo(Place(d, base), fewer[m])
        /\ \A j \in 1 .. m - 1 : Resumes(d.stack[j], d.access, fewer[j + 1], fewer[j])
    BY <1>1, <1>4, <1>10, <1>12, <1>13, <1>14, <2>1
  <2> QED
    BY <2>1, <2>2 DEF Explained
<1> QED
  BY <1>3, <1>15 DEF SameRest, Kept

\* An SDK call does to the stack what the reference says, or fails where it fails.
LEMMA ExplainedRuns ==
  ASSUME NEW c, ContextOK(c), c.stack # <<>>, Top(c).rest # <<>>, NEW base \in State,
         NEW o, Explained(c, base, o), NEW d, d = Stepped(c, base)
  PROVE  \/ d \in Context /\ d.stack # <<>> /\ Kept(c, d) /\ Explained(d, base, o)
         \/ d = Failed(c) /\ o = FailedCode
<1> DEFINE Goal == \/ d \in Context /\ d.stack # <<>> /\ Kept(c, d) /\ Explained(d, base, o)
                   \/ d = Failed(c) /\ o = FailedCode
<1>1. PICK x \in Point : /\ x = Place(c, base) /\ x.frame = Top(c) /\ x.access = c.access
                         /\ x.state = Seen(c, base) /\ x.events = c.events
  BY PlaceIs DEF ContextOK
<1> DEFINE f == x.frame
           op == Head(f.rest)
<1>2. f \in Frame
  BY PointParts
<1>3. ASSUME NEW state, NEW events, NEW acc
      PROVE  GoOn(x, state, events, acc) = At(After(f, acc), x.access, state, events)
  BY DEF GoOn, At, After
<1>4. /\ c \in Context /\ f = Top(c) /\ op = NextOp(c) /\ f.rest # <<>>
      /\ f.acc \in Value /\ f.service \in Emitter /\ x.state \in State /\ x.events \in Seq(Emitter)
      /\ op.op \in {"READ", "WRITE", "REQUIRE", "CALL", "EMIT"}
  BY <1>1, <1>2, OpType, PointParts DEF ContextOK, NextOp
<1>5. ASSUME d = Failed(c), \A r : EvalsTo(x, r) => r = FailedCode
      PROVE  Goal
  BY <1>1, <1>4, <1>5, ExplainedFailed
<1>6. ASSUME NEW acc \in Value, NEW k, k = Continue(c, acc)
      PROVE  /\ k \in Context /\ Kept(c, k) /\ k.access = c.access
             /\ k.stack # <<>> /\ Len(k.stack) = Len(c.stack) /\ Top(k) = After(f, acc)
             /\ \A i \in 1 .. Len(c.stack) - 1 : k.stack[i] = c.stack[i]
             /\ Seen(k, base) = x.state /\ k.events = x.events
             /\ Place(k, base) = GoOn(x, x.state, x.events, acc)
  <2>1. /\ k \in Context /\ SameRest(c, k) /\ SameJob(c, k)
        /\ k.stack # <<>> /\ Len(k.stack) = Len(c.stack)
        /\ Top(k) = [service |-> Top(c).service, rest |-> Tail(Top(c).rest), acc |-> acc]
        /\ \A i \in 1 .. Len(c.stack) - 1 : k.stack[i] = c.stack[i]
    BY <1>4, <1>6, ContinueStack
  <2>2. Top(k) = After(f, acc) /\ Seen(k, base) = x.state
    BY <1>1, <1>4, <2>1, SameSeen DEF After
  <2>3. k.access = c.access /\ k.events = x.events /\ Kept(c, k)
    BY <1>1, <2>1 DEF SameJob, SameRest, Kept
  <2>4. GoOn(x, x.state, x.events, acc) = At(After(f, acc), x.access, x.state, x.events)
    BY <1>3
  <2> QED
    BY <1>1, <2>1, <2>2, <2>3, <2>4 DEF Place
<1>7. ASSUME NEW acc \in Value, d = Continue(c, acc),
             \A r : EvalsTo(x, r) => EvalsTo(GoOn(x, x.state, x.events, acc), r)
      PROVE  Goal
  <2>1. /\ d \in Context /\ Kept(c, d) /\ d.access = c.access
        /\ d.stack # <<>> /\ Len(d.stack) = Len(c.stack)
        /\ \A i \in 1 .. Len(c.stack) - 1 : d.stack[i] = c.stack[i]
        /\ Place(d, base) = GoOn(x, x.state, x.events, acc)
    BY <1>6, <1>7
  <2>2. \A r : EvalsTo(Place(c, base), r) => EvalsTo(Place(d, base), r)
    BY <1>1, <1>7, <2>1
  <2>3. Explained(d, base, o)
    BY <1>4, <2>1, <2>2, ExplainedOn
  <2> QED
    BY <2>1, <2>3
<1>8. CASE op.op = "READ"
  <2>1. PICK acc : acc = x.state[<<f.service, op.key>>]
    OBVIOUS
  <2>2. acc \in Value
    BY <1>2, <1>4, <1>8, <2>1, OpType DEF State
  <2>3. d = Continue(c, acc)
    BY <1>1, <1>4, <1>8, <2>1 DEF Stepped, HasRead
  <2>4. ASSUME NEW r, EvalsTo(x, r)
        PROVE  EvalsTo(GoOn(x, x.state, x.events, acc), r)
    BY <1>4, <1>8, <2>1, <2>4, EvalsNext
  <2> QED
    BY <1>7, <2>2, <2>3, <2>4
<1>9. CASE op.op = "REQUIRE"
  <2>1. ASSUME NEW r, EvalsTo(x, r)
        PROVE  IF f.acc = op.value THEN EvalsTo(GoOn(x, x.state, x.events, f.acc), r)
               ELSE r = FailedCode
    BY <1>4, <1>9, <2>1, EvalsNext
  <2>2. d = IF f.acc = op.value THEN Continue(c, f.acc) ELSE Failed(c)
    BY <1>1, <1>4, <1>9 DEF Stepped, HasRequired
  <2>3. CASE f.acc = op.value
    BY <1>4, <1>7, <2>1, <2>2, <2>3
  <2>4. CASE f.acc # op.value
    BY <1>5, <2>1, <2>2, <2>4
  <2> QED
    BY <2>3, <2>4
<1>10. CASE op.op = "WRITE"
  <2>1. PICK v : v = <<f.service, op.key>>
    OBVIOUS
  <2>2. PICK sum \in Value : sum = (f.acc + op.add) % Values
    BY <1>2, <1>4, <1>10, OpType
  <2>3. PICK state \in State : state = [x.state EXCEPT ![v] = sum]
    BY <1>4, WrittenState
  <2>4. ASSUME NEW r, EvalsTo(x, r)
        PROVE  IF x.access = "READ_ONLY" THEN r = FailedCode
               ELSE EvalsTo(GoOn(x, state, x.events, sum), r)
    BY <1>4, <1>10, <2>1, <2>2, <2>3, <2>4, EvalsNext
  <2>5. d = HasWritten(c)
    BY <1>4, <1>10 DEF Stepped
  <2>6. CASE x.access = "READ_ONLY"
    BY <1>1, <1>5, <2>4, <2>5, <2>6 DEF HasWritten
  <2>7. CASE x.access # "READ_ONLY"
    <3>1. Sum(c) = sum
      BY <1>4, <2>2 DEF Sum
    <3>2. /\ d \in Context /\ d.stack # <<>> /\ Len(d.stack) = Len(c.stack)
          /\ d.batch = c.batch /\ d.events = c.events /\ d.receipts = c.receipts
          /\ d.deploying = c.deploying /\ SameJob(c, d)
          /\ Top(d) = [service |-> Top(c).service, rest |-> Tail(Top(c).rest), acc |-> Sum(c)]
          /\ \A i \in 1 .. Len(c.stack) - 1 : d.stack[i] = c.stack[i]
          /\ Seen(d, base) = [Seen(c, base) EXCEPT ![v] = Sum(c)]
      BY <1>1, <1>4, <1>10, <2>1, <2>5, <2>7, WriteSeen
    <3>3. Top(d) = After(f, sum) /\ Seen(d, base) = state
      BY <1>1, <1>4, <2>3, <3>1, <3>2 DEF After
    <3>4. GoOn(x, state, x.events, sum) = At(After(f, sum), x.access, state, x.events)
      BY <1>3
    <3>5. Place(d, base) = GoOn(x, state, x.events, sum) /\ d.access = c.access
      BY <1>1, <3>2, <3>3, <3>4 DEF Place, SameJob
    <3>6. \A r : EvalsTo(Place(c, base), r) => EvalsTo(Place(d, base), r)
      BY <1>1, <2>4, <2>7, <3>5
    <3>7. Explained(d, base, o)
      BY <1>4, <3>2, <3>5, <3>6, ExplainedOn
    <3> QED
      BY <3>2, <3>7 DEF Kept
  <2> QED
    BY <2>6, <2>7
<1>11. CASE op.op = "EMIT"
  <2>1. ASSUME NEW r, EvalsTo(x, r)
        PROVE  IF x.events = <<>> THEN EvalsTo(GoOn(x, x.state, <<f.service>>, f.acc), r)
               ELSE r = FailedCode
    BY <1>4, <1>11, <2>1, EvalsNext
  <2>2. d = HasEmitted(c)
    BY <1>4, <1>11 DEF Stepped
  <2>3. CASE x.events # <<>>
    BY <1>1, <1>5, <2>1, <2>2, <2>3 DEF HasEmitted
  <2>4. CASE x.events = <<>>
    <3>1. PICK k : k = Continue(c, f.acc)
      OBVIOUS
    <3>2. /\ k \in Context /\ Kept(c, k) /\ k.access = c.access
          /\ k.stack # <<>> /\ Len(k.stack) = Len(c.stack) /\ Top(k) = After(f, f.acc)
          /\ \A i \in 1 .. Len(c.stack) - 1 : k.stack[i] = c.stack[i]
          /\ Seen(k, base) = x.state
      BY <1>4, <1>6, <3>1
    <3>3. d = [k EXCEPT !.events = <<f.service>>]
      BY <1>1, <1>4, <2>2, <2>4, <3>1 DEF HasEmitted
    <3>4. <<f.service>> \in Seq(Emitter)
      BY <1>4
    <3>5. /\ d \in Context /\ d.stack = k.stack /\ d.access = k.access /\ d.events = <<f.service>>
          /\ d.transaction = k.transaction /\ d.batch = k.batch
          /\ d.receipts = k.receipts /\ d.deploying = k.deploying
      BY <3>2, <3>3, <3>4 DEF Context, Emitter
    <3>6. Top(d) = Top(k) /\ Seen(d, base) = Seen(k, base) /\ Kept(c, d)
      BY <3>2, <3>5 DEF Top, Seen, Transients, Kept
    <3>7. GoOn(x, x.state, <<f.service>>, f.acc) = At(After(f, f.acc), x.access, x.state, <<f.service>>)
      BY <1>3
    <3>8. Place(d, base) = GoOn(x, x.state, <<f.service>>, f.acc)
      BY <1>1, <3>2, <3>5, <3>6, <3>7 DEF Place
    <3>9. \A r : EvalsTo(Place(c, base), r) => EvalsTo(Place(d, base), r)
      BY <1>1, <2>1, <2>4, <3>8
    <3>10. Explained(d, base, o)
      BY <1>4, <3>2, <3>5, <3>9, ExplainedOn
    <3> QED
      BY <3>2, <3>5, <3>6, <3>10
  <2> QED
    BY <2>3, <2>4
<1>12. CASE op.op = "CALL"
  <2> DEFINE call == op.call
             permitted == Exists(x.state, call[1]) /\ Permitted(f.service, call, x.access)
             entered == [service |-> call[1], rest |-> Body(call), acc |-> 0]
  <2>1. call \in Call
    BY <1>2, <1>4, <1>12, OpType
  <2>2. d = IF permitted THEN Push(Continue(c, 0), call) ELSE Failed(c)
    BY <1>1, <1>4, <1>12 DEF Stepped, HasCalled
  <2>3. ASSUME NEW r, EvalsTo(x, r)
        PROVE  IF ~permitted THEN r = FailedCode
               ELSE \E called :
                     /\ EvalsTo(Enter(call, x.access, x.state, x.events), called)
                     /\ IF called.end # "RETURNED" THEN r = called
                        ELSE EvalsTo(GoOn(x, called.state, called.events, called.acc), r)
    BY <1>4, <1>12, <2>3, EvalsNext
  <2>. HIDE DEF permitted, call
  <2>4. CASE ~permitted
    BY <1>5, <2>2, <2>3, <2>4
  <2>5. CASE permitted
    <3>1. PICK k : k = Continue(c, 0)
      OBVIOUS
    <3>2. /\ k \in Context /\ Kept(c, k) /\ k.access = c.access
          /\ k.stack # <<>> /\ Len(k.stack) = Len(c.stack) /\ Top(k) = After(f, 0)
          /\ \A i \in 1 .. Len(c.stack) - 1 : k.stack[i] = c.stack[i]
          /\ Seen(k, base) = x.state /\ k.events = x.events
      BY <1>6, <3>1, ValueZero
    <3>3. d = Push(k, call)
      BY <2>2, <2>5, <3>1
    <3>4. /\ d \in Context /\ SameRest(k, d) /\ SameJob(k, d)
          /\ d.stack # <<>> /\ Len(d.stack) = Len(k.stack) + 1
          /\ Top(d) = entered
          /\ \A i \in 1 .. Len(k.stack) : d.stack[i] = k.stack[i]
      BY <2>1, <3>2, <3>3, PushStack
    <3>5. /\ Seen(d, base) = x.state /\ d.events = x.events /\ d.access = x.access
      BY <1>1, <3>2, <3>4, SameSeen DEF SameRest, SameJob
    <3>6. Kept(c, d)
      BY <3>2, <3>4 DEF SameRest, Kept
    <3>7. Place(d, base) = Enter(call, x.access, x.state, x.events)
      BY <3>4, <3>5 DEF Place, Enter, At
    <3>8. ASSUME NEW called, called \in End, called.end = "RETURNED"
          PROVE  GoOn(x, called.state, called.events, called.acc) =
                   At([service |-> After(f, 0).service, rest |-> After(f, 0).rest,
                       acc |-> called.acc], c.access, called.state, called.events)
      BY <1>1, <1>2, AfterParts DEF GoOn, At
    <3>9. ASSUME NEW r, EvalsTo(x, r)
          PROVE  \E called : EvalsTo(Place(d, base), called)
                             /\ Resumes(After(f, 0), c.access, called, r)
      <4>1. PICK called :
                     /\ EvalsTo(Enter(call, x.access, x.state, x.events), called)
                     /\ IF called.end # "RETURNED" THEN r = called
                        ELSE EvalsTo(GoOn(x, called.state, called.events, called.acc), r)
        BY <2>3, <2>5, <3>9
      <4>2. called \in End
        BY <4>1 DEF EvalsTo
      <4>3. Resumes(After(f, 0), c.access, called, r)
        BY <3>8, <4>1, <4>2 DEF Resumes
      <4> QED
        BY <3>7, <4>1, <4>3
    <3>10. /\ d.stack[Len(c.stack)] = After(f, 0)
           /\ \A i \in 1 .. Len(c.stack) - 1 : d.stack[i] = c.stack[i]
      <4>1. PICK n \in Nat : n = Len(c.stack) /\ n \in 1 .. n
        BY <1>4, StackLen
      <4>2. \A i \in 1 .. n - 1 : i \in 1 .. n
        BY <4>1
      <4>3. k.stack[n] = After(f, 0)
        BY <3>2, <4>1 DEF Top
      <4> QED
        BY <3>2, <3>4, <4>1, <4>2, <4>3
    <3>11. Explained(d, base, o)
      BY <1>1, <1>4, <3>2, <3>4, <3>5, <3>9, <3>10, ExplainedCall
    <3> QED
      BY <3>4, <3>6, <3>11
  <2> QED
    BY <2>4, <2>5
<1> QED
  BY <1>4, <1>8, <1>9, <1>10, <1>11, <1>12

---------------------------------------------------------------------------
(* What has been deployed stays so.                                        *)

\* A deployment is by deployService(s), which has written or has still to write.
DeployTracks(c, base) ==
  LET s == c.txs[Len(c.receipts) + 1][1]
      bottom == c.stack[1]
  IN  c.deploying =>
        /\ c.stack # <<>> /\ s \in Service /\ bottom.service = Deployments
        /\ \/ Len(c.stack) = 1 /\ bottom.rest \in {AtRead(s), AtRequire(s), AtWrite(s)}
           \/ bottom.rest \in {AtCall(s), <<>>} /\ Seen(c, base)[Processor(s)] # 0

\* Nothing else is written to a contract's deployment than that it is deployed.
LEMMA WrittenDeployed ==
  ASSUME NEW c \in Context, c.stack # <<>>, Top(c).rest # <<>>, NextOp(c).op = "WRITE",
         c.access # "READ_ONLY", NEW base \in State, InitFits(c, base), NEW d, d = HasWritten(c),
         NEW s \in Service,
         \/ Seen(c, base)[Processor(s)] # 0
         \/ <<Top(c).service, NextOp(c).key>> = Processor(s)
  PROVE  Seen(d, base)[Processor(s)] # 0
<1>1. PICK v : v = <<Top(c).service, NextOp(c).key>>
  OBVIOUS
<1>2. v \in Var /\ Seen(d, base) = [Seen(c, base) EXCEPT ![v] = Sum(c)]
  BY <1>1, WriteSeen
<1>3. Seen(c, base) \in State /\ Processor(s) \in Var
  BY SeenType, Counters
<1>4. CASE v # Processor(s)
  BY <1>1, <1>2, <1>3, <1>4 DEF State
<1>5. CASE v = Processor(s)
  <2>1. TopFits(Top(c), Seen(c, base)) /\ Top(c).service = Deployments
    BY <1>1, <1>5 DEF InitFits, Processor
  <2>2. ~ Suspended(Top(c))
    BY <2>1, ContractAssumption DEF Suspended, Plain
  <2>3. ASSUME NEW t \in Service
        PROVE  ~ Initializing(Top(c), Seen(c, base), t)
    BY <2>1, ContractAssumption DEF Initializing
  <2>4. PICK t \in Service : Deploying(Top(c), Seen(c, base), t)
    BY <2>1, <2>2, <2>3 DEF TopFits
  <2>5. Top(c).acc = 0 /\ NextOp(c).add = 1
    BY <2>4, DeployingOp DEF NextOp
  <2>6. Sum(c) = 1
    <3>1. 0 + 1 = 1
      OBVIOUS
    <3> QED
      BY <2>5, <3>1, OneOf DEF Sum
  <2> QED
    BY <1>2, <1>3, <1>5, <2>6 DEF State
<1> QED
  BY <1>4, <1>5

\* What the stack's bottom is after a step that leaves the stack with as many methods
\* or more.
LEMMA TracksOn ==
  ASSUME NEW c \in Context, c.stack # <<>>, NEW base, DeployTracks(c, base),
         NEW d, d.deploying = c.deploying, d.txs = c.txs, d.receipts = c.receipts,
         d.stack # <<>>, Len(c.stack) # 1, d.stack[1].service = c.stack[1].service,
         d.stack[1].rest = c.stack[1].rest,
         \A s \in Service : Seen(c, base)[Processor(s)] # 0 => Seen(d, base)[Processor(s)] # 0
  PROVE  DeployTracks(d, base)
BY DEF DeployTracks

\* Of deployService alone on the stack.
LEMMA TracksAlone ==
  ASSUME NEW c \in Context, c.stack # <<>>, Len(c.stack) = 1, Top(c).rest # <<>>,
         NEW base, DeployTracks(c, base),
         NEW d, d.deploying = c.deploying, d.txs = c.txs, d.receipts = c.receipts,
         d.stack # <<>>, d.stack[1].service = Top(c).service, d.stack[1].rest = Tail(Top(c).rest),
         Len(d.stack) = 1 \/ NextOp(c).op = "CALL",
         \A s \in Service :
           Seen(c, base)[Processor(s)] # 0
             \/ (NextOp(c).op = "WRITE" /\ <<Top(c).service, NextOp(c).key>> = Processor(s))
           => Seen(d, base)[Processor(s)] # 0
  PROVE  DeployTracks(d, base)
<1>1. SUFFICES ASSUME c.deploying PROVE DeployTracks(d, base)
  BY DEF DeployTracks
<1>2. PICK s : s = c.txs[Len(c.receipts) + 1][1]
  OBVIOUS
<1>3. Top(c) = c.stack[1]
  BY DEF Top
<1>4. /\ s \in Service /\ Top(c).service = Deployments
      /\ \/ Top(c).rest \in {AtRead(s), AtRequire(s), AtWrite(s)}
         \/ Top(c).rest = AtCall(s) /\ Seen(c, base)[Processor(s)] # 0
  BY <1>1, <1>2, <1>3 DEF DeployTracks
<1>5. CASE Top(c).rest = AtRead(s)
  <2>1. Tail(Top(c).rest) = AtRequire(s) /\ NextOp(c).op # "CALL"
    BY <1>4, <1>5, DeployParts DEF NextOp
  <2> QED
    BY <1>2, <1>4, <2>1 DEF DeployTracks
<1>6. CASE Top(c).rest = AtRequire(s)
  <2>1. Tail(Top(c).rest) = AtWrite(s) /\ NextOp(c).op # "CALL"
    BY <1>4, <1>6, DeployParts DEF NextOp
  <2> QED
    BY <1>2, <1>4, <2>1 DEF DeployTracks
<1>7. CASE Top(c).rest = AtWrite(s)
  <2>1. Tail(Top(c).rest) = AtCall(s) /\ NextOp(c).op = "WRITE" /\ NextOp(c).key = s
    BY <1>4, <1>7, DeployParts DEF NextOp
  <2>2. <<Top(c).service, NextOp(c).key>> = Processor(s)
    BY <1>4, <2>1 DEF Processor
  <2>3. Seen(d, base)[Processor(s)] # 0
    BY <1>4, <2>1, <2>2
  <2> QED
    BY <1>2, <1>4, <2>1, <2>3 DEF DeployTracks
<1>8. CASE Top(c).rest = AtCall(s) /\ Seen(c, base)[Processor(s)] # 0
  <2>1. Tail(Top(c).rest) = <<>>
    BY <1>4, <1>8, DeployParts
  <2> QED
    BY <1>2, <1>4, <1>8, <2>1 DEF DeployTracks
<1> QED
  BY <1>4, <1>5, <1>6, <1>7, <1>8

LEMMA TracksGoes ==
  ASSUME NEW c \in Context, c.stack # <<>>, Top(c).rest # <<>>, NEW base, DeployTracks(c, base),
         NEW d, d.deploying = c.deploying, d.txs = c.txs, d.receipts = c.receipts,
         d.stack # <<>>, d.stack[Len(c.stack)].service = Top(c).service,
         d.stack[Len(c.stack)].rest = Tail(Top(c).rest),
         \A i \in 1 .. Len(c.stack) - 1 : d.stack[i] = c.stack[i],
         Len(d.stack) = Len(c.stack) \/ NextOp(c).op = "CALL",
         \A s \in Service :
           Seen(c, base)[Processor(s)] # 0
             \/ (NextOp(c).op = "WRITE" /\ <<Top(c).service, NextOp(c).key>> = Processor(s))
           => Seen(d, base)[Processor(s)] # 0
  PROVE  DeployTracks(d, base)
<1>1. PICK n : n = Len(c.stack) /\ n \in Nat /\ n \in 1 .. n /\ 1 \in 1 .. n
  <2>1. Len(c.stack) \in Nat /\ Len(c.stack) \in 1 .. Len(c.stack) /\ 1 \in 1 .. Len(c.stack)
    BY StackLen
  <2> QED
    BY <2>1
<1>2. CASE n = 1
  <2>1. /\ Len(c.stack) = 1
        /\ d.stack[1].service = Top(c).service /\ d.stack[1].rest = Tail(Top(c).rest)
        /\ Len(d.stack) = 1 \/ NextOp(c).op = "CALL"
    BY <1>1, <1>2
  <2> QED
    BY <2>1, TracksAlone
<1>3. CASE n # 1
  <2>1. \A k \in Nat : 1 \in 1 .. k /\ k # 1 => 1 \in 1 .. k - 1
    OBVIOUS
  <2>2. d.stack[1] = c.stack[1]
    BY <1>1, <1>3, <2>1
  <2> QED
    BY <1>1, <1>3, <2>2, TracksOn
<1> QED
  BY <1>2, <1>3

LEMMA NotDeploying ==
  ASSUME NEW d, ~d.deploying, NEW base
  PROVE  DeployTracks(d, base)
BY DEF DeployTracks

LEMMA BegunTracks ==
  ASSUME NEW c, ContextOK(c), ~Executed(c), c.stack = <<>>, NEW base \in State,
         DeployTracks(c, base)
  PROVE  DeployTracks(Begun(c, base), base)
<1> DEFINE call == c.txs[Len(c.receipts) + 1]
<1>1. /\ c \in Context /\ call \in Call /\ ~c.deploying
      /\ call[1] # Deployments => call[1] \in Service /\ Processor(call[1]) \in Call
  BY NextCall DEF ContextOK, DeployTracks
<1>. HIDE DEF call
<1>2. ASSUME NEW result PROVE ~ Fail(c, result).deploying
  BY <1>1, FailFields
<1>3. ~ Failed(c).deploying
  BY <1>2 DEF Failed
<1>4. ~ Push(c, call).deploying
  <2>1. PICK p : p = Push(c, call)
    OBVIOUS
  <2>2. SameRest(c, p)
    BY <1>1, <2>1, PushStack
  <2> QED
    BY <1>1, <2>1, <2>2 DEF SameRest
<1>5. ASSUME call[1] # Deployments
      PROVE  DeployTracks([Push(c, Processor(call[1])) EXCEPT !.deploying = TRUE], base)
  <2>1. PICK p : p = Push(c, Processor(call[1]))
    OBVIOUS
  <2>2. PICK k \in Call : k = Processor(call[1])
    BY <1>1, <1>5
  <2>3. /\ p \in Context /\ SameRest(c, p) /\ SameJob(c, p) /\ p.stack # <<>>
        /\ Len(p.stack) = Len(c.stack) + 1
        /\ Top(p) = [service |-> k[1], rest |-> Body(k), acc |-> 0]
    <3>1. p = Push(c, k)
      BY <2>1, <2>2
    <3> QED
      BY <1>1, <3>1, PushStack
  <2>4. PICK d : d = [p EXCEPT !.deploying = TRUE]
    OBVIOUS
  <2>5. d.stack = p.stack /\ d.txs = p.txs /\ d.receipts = p.receipts
    BY <2>3, <2>4 DEF Context
  <2>6. Len(d.stack) = 1
    BY <2>3, <2>5
  <2>7. d.stack[1] = Top(p) /\ d.txs = c.txs /\ d.receipts = c.receipts
    BY <2>3, <2>5, <2>6 DEF Top, SameRest, SameJob
  <2>8. d.stack[1].service = Deployments /\ d.stack[1].rest = AtRead(call[1])
    <3>1. k[1] = Deployments /\ Body(k) = AtRead(call[1])
      BY <1>1, <1>5, <2>2, DeployParts DEF Processor
    <3> QED
      BY <2>3, <2>7, <3>1
  <2>9. DeployTracks(d, base)
    BY <1>1, <1>5, <2>3, <2>5, <2>6, <2>7, <2>8 DEF DeployTracks, call
  <2> QED
    BY <2>1, <2>4, <2>9
<1> QED
  BY <1>2, <1>3, <1>4, <1>5, NotDeploying DEF Begun, call

LEMMA ReturnedTracks ==
  ASSUME NEW c \in Context, c.stack # <<>>, Top(c).rest = <<>>, NEW base \in State,
         DeployTracks(c, base)
  PROVE  DeployTracks(HasReturned(c), base)
<1>1. CASE Len(c.stack) = 1
  <2>1. ~ Succeed(c, Top(c).acc).deploying
    BY SucceedFields
  <2> QED
    BY <1>1, <2>1, NotDeploying DEF HasReturned
<1>2. CASE Len(c.stack) # 1
  <2>1. PICK d : d = Pop(c)
    OBVIOUS
  <2>2. PICK n \in Nat : n = Len(c.stack)
    BY StackLen
  <2>3. /\ d \in Context /\ SameRest(c, d) /\ SameJob(c, d) /\ d.stack # <<>>
        /\ n > 1 /\ Len(d.stack) = n - 1
        /\ Top(d) = [service |-> c.stack[n - 1].service, rest |-> c.stack[n - 1].rest,
                     acc |-> Top(c).acc]
        /\ \A i \in 1 .. n - 2 : d.stack[i] = c.stack[i]
    BY <1>2, <2>1, <2>2, PopStack
  <2>4. d.stack[1].service = c.stack[1].service /\ d.stack[1].rest = c.stack[1].rest
    <3>1. CASE n = 2
      <4>1. n - 1 = 1
        BY <3>1
      <4>2. Top(d) = d.stack[1]
        BY <2>3, <4>1 DEF Top
      <4> QED
        BY <2>3, <4>1, <4>2
    <3>2. CASE n # 2
      <4>1. 1 \in 1 .. n - 2
        BY <2>3, <3>2
      <4> QED
        BY <2>3, <4>1
    <3> QED
      BY <3>1, <3>2
  <2>5. /\ d.deploying = c.deploying /\ d.txs = c.txs /\ d.receipts = c.receipts
        /\ Seen(d, base) = Seen(c, base)
    BY <2>3, SameSeen DEF SameRest, SameJob
  <2>6. DeployTracks(d, base)
    BY <1>2, <2>3, <2>4, <2>5, TracksOn
  <2> QED
    BY <1>2, <2>1, <2>6 DEF HasReturned
<1> QED
  BY <1>1, <1>2

LEMMA RunTracks ==
  ASSUME NEW c, ContextOK(c), c.stack # <<>>, Top(c).rest # <<>>, NEW base \in State,
         InitFits(c, base), DeployTracks(c, base), NEW d, d = Stepped(c, base)
  PROVE  DeployTracks(d, base)
<1>1. c \in Context /\ Top(c).acc \in Value
  BY TopType DEF ContextOK
<1>2. ASSUME d = Failed(c)
      PROVE  DeployTracks(d, base)
  <2>1. ~d.deploying
    BY <1>1, <1>2, FailFields DEF Failed
  <2> QED
    BY <2>1, NotDeploying
<1>3. ASSUME NEW acc \in Value, NEW k, k = Continue(c, acc)
      PROVE  /\ k \in Context /\ SameRest(c, k) /\ SameJob(c, k) /\ k.stack # <<>>
             /\ Len(k.stack) = Len(c.stack)
             /\ k.stack[Len(c.stack)].service = Top(c).service
             /\ k.stack[Len(c.stack)].rest = Tail(Top(c).rest)
             /\ \A i \in 1 .. Len(c.stack) - 1 : k.stack[i] = c.stack[i]
             /\ k.deploying = c.deploying /\ k.txs = c.txs /\ k.receipts = c.receipts
             /\ Seen(k, base) = Seen(c, base)
  <2>1. /\ k \in Context /\ SameRest(c, k) /\ SameJob(c, k)
        /\ k.stack # <<>> /\ Len(k.stack) = Len(c.stack)
        /\ Top(k) = [service |-> Top(c).service, rest |-> Tail(Top(c).rest), acc |-> acc]
        /\ \A i \in 1 .. Len(c.stack) - 1 : k.stack[i] = c.stack[i]
    BY <1>1, <1>3, ContinueStack
  <2>2. PICK f : f = k.stack[Len(c.stack)]
    OBVIOUS
  <2>3. f = [service |-> Top(c).service, rest |-> Tail(Top(c).rest), acc |-> acc]
    BY <2>1, <2>2 DEF Top
  <2>4. f.service = Top(c).service /\ f.rest = Tail(Top(c).rest)
    BY <2>3
  <2>5. /\ k.deploying = c.deploying /\ k.txs = c.txs /\ k.receipts = c.receipts
        /\ Seen(k, base) = Seen(c, base)
    BY <2>1, SameSeen DEF SameRest, SameJob
  <2> QED
    BY <2>1, <2>2, <2>4, <2>5
<1>4. ASSUME NEW acc \in Value, d = Continue(c, acc), NextOp(c).op # "WRITE"
      PROVE  DeployTracks(d, base)
  BY <1>1, <1>3, <1>4, TracksGoes
<1>5. CASE NextOp(c).op = "READ"
  <2>1. Seen(c, base)[<<Top(c).service, NextOp(c).key>>] \in Value
    BY <1>1, <1>5, TopType, SeenType
  <2> QED
    BY <1>4, <1>5, <2>1 DEF Stepped, HasRead
<1>6. CASE NextOp(c).op = "REQUIRE"
  BY <1>1, <1>2, <1>4, <1>6 DEF Stepped, HasRequired
<1>7. CASE NextOp(c).op = "WRITE"
  <2>1. d = HasWritten(c)
    BY <1>7 DEF Stepped
  <2>2. CASE c.access = "READ_ONLY"
    BY <1>2, <2>1, <2>2 DEF HasWritten
  <2>3. CASE c.access # "READ_ONLY"
    <3>1. PICK v : v = <<Top(c).service, NextOp(c).key>>
      OBVIOUS
    <3>2. /\ d.stack # <<>> /\ Len(d.stack) = Len(c.stack)
          /\ d.receipts = c.receipts /\ d.deploying = c.deploying /\ SameJob(c, d)
          /\ Top(d) = [service |-> Top(c).service, rest |-> Tail(Top(c).rest), acc |-> Sum(c)]
          /\ \A i \in 1 .. Len(c.stack) - 1 : d.stack[i] = c.stack[i]
      BY <1>1, <1>7, <2>1, <2>3, <3>1, WriteSeen
    <3>3. /\ d.stack[Len(c.stack)].service = Top(c).service
          /\ d.stack[Len(c.stack)].rest = Tail(Top(c).rest) /\ d.txs = c.txs
      <4>1. PICK f : f = d.stack[Len(c.stack)]
        OBVIOUS
      <4>2. f = [service |-> Top(c).service, rest |-> Tail(Top(c).rest), acc |-> Sum(c)]
        BY <3>2, <4>1 DEF Top
      <4>3. f.service = Top(c).service /\ f.rest = Tail(Top(c).rest)
        BY <4>2
      <4> QED
        BY <3>2, <4>1, <4>3 DEF SameJob
    <3>4. ASSUME NEW s \in Service,
                 \/ Seen(c, base)[Processor(s)] # 0
                 \/ <<Top(c).service, NextOp(c).key>> = Processor(s)
          PROVE  Seen(d, base)[Processor(s)] # 0
      BY <1>1, <1>7, <2>1, <2>3, <3>4, WrittenDeployed
    <3> QED
      BY <1>1, <3>2, <3>3, <3>4, TracksGoes
  <2> QED
    BY <2>2, <2>3
<1>8. CASE NextOp(c).op = "CALL"
  <2>1. \/ d = Failed(c)
        \/ d = Push(Continue(c, 0), NextOp(c).call)
    BY <1>8 DEF Stepped, HasCalled
  <2>2. CASE d = Push(Continue(c, 0), NextOp(c).call)
    <3>1. PICK k : k = Continue(c, 0)
      OBVIOUS
    <3>2. PICK call \in Call : call = NextOp(c).call
      BY <1>1, <1>8, TopType
    <3>3. /\ k \in Context /\ k.stack # <<>>
          /\ Len(k.stack) = Len(c.stack)
          /\ k.stack[Len(c.stack)].service = Top(c).service
          /\ k.stack[Len(c.stack)].rest = Tail(Top(c).rest)
          /\ \A i \in 1 .. Len(c.stack) - 1 : k.stack[i] = c.stack[i]
          /\ k.deploying = c.deploying /\ k.txs = c.txs /\ k.receipts = c.receipts
          /\ Seen(k, base) = Seen(c, base)
      BY <1>3, <3>1, ValueZero
    <3>4. /\ SameRest(k, d) /\ SameJob(k, d) /\ d.stack # <<>>
          /\ \A i \in 1 .. Len(k.stack) : d.stack[i] = k.stack[i]
      BY <2>2, <3>1, <3>2, <3>3, PushStack
    <3>5. /\ d.deploying = c.deploying /\ d.txs = c.txs /\ d.receipts = c.receipts
          /\ Seen(d, base) = Seen(c, base)
      BY <3>3, <3>4, SameSeen DEF SameRest, SameJob
    <3>6. /\ d.stack[Len(c.stack)] = k.stack[Len(c.stack)]
          /\ \A i \in 1 .. Len(c.stack) - 1 : d.stack[i] = c.stack[i]
      <4>1. PICK n \in Nat : n = Len(c.stack) /\ n \in 1 .. n
        BY <1>1, StackLen
      <4>2. \A i \in 1 .. n - 1 : i \in 1 .. n
        BY <4>1
      <4> QED
        BY <3>3, <3>4, <4>1, <4>2
    <3> QED
      BY <1>1, <1>8, <3>3, <3>4, <3>5, <3>6, TracksGoes
  <2> QED
    BY <1>2, <2>1, <2>2
<1>9. CASE NextOp(c).op = "EMIT"
  <2>1. d = HasEmitted(c)
    BY <1>9 DEF Stepped
  <2>2. CASE c.events # <<>>
    BY <1>2, <2>1, <2>2 DEF HasEmitted
  <2>3. CASE c.events = <<>>
    <3>1. PICK k : k = Continue(c, Top(c).acc)
      OBVIOUS
    <3>2. d = [k EXCEPT !.events = <<Top(c).service>>]
      BY <2>1, <2>3, <3>1 DEF HasEmitted
    <3>3. k \in Context
      BY <1>1, <1>3, <3>1
    <3>4. /\ d.stack = k.stack /\ d.txs = k.txs /\ d.receipts = k.receipts
          /\ d.deploying = k.deploying /\ d.transaction = k.transaction /\ d.batch = k.batch
      BY <3>2, <3>3 DEF Context
    <3>5. Seen(d, base) = Seen(k, base)
      BY <3>4 DEF Seen, Transients
    <3>6. /\ k.stack # <<>> /\ Len(k.stack) = Len(c.stack)
          /\ k.stack[Len(c.stack)].service = Top(c).service
          /\ k.stack[Len(c.stack)].rest = Tail(Top(c).rest)
          /\ \A i \in 1 .. Len(c.stack) - 1 : k.stack[i] = c.stack[i]
          /\ k.deploying = c.deploying /\ k.txs = c.txs /\ k.receipts = c.receipts
          /\ Seen(k, base) = Seen(c, base)
      BY <1>1, <1>3, <3>1
    <3> QED
      BY <1>1, <1>9, <3>4, <3>5, <3>6, TracksGoes
  <2> QED
    BY <2>2, <2>3
<1>10. NextOp(c).op \in {"READ", "WRITE", "REQUIRE", "CALL", "EMIT"}
  BY <1>1, TopType
<1> QED
  BY <1>5, <1>6, <1>7, <1>8, <1>9, <1>10

---------------------------------------------------------------------------
(* An execution is at the transaction, and in its code at the point, that  *)
(* the serial one is at.                                                   *)

Deployed(state, call) == call[1] = Deployments \/ state[Processor(call[1])] # 0

\* What becomes of a transaction after an auto deploy that ends so.
AfterDeploy(state, r, call, access) ==
  CASE r.end = "RETURNED" -> Invoke(r.state, call, access)
    [] r.end = "FAILED" -> NotDeployed(state)
    [] r.end = "UNFINISHED" -> Unfinished

Follows(c, base, up) ==
  LET k == Len(c.receipts)
      state == Over(c.batch, base)
      call == c.txs[k + 1]
      t == Transact(up[k].state, call, c.access)
  IN
  /\ up[k].receipts = AllTold(c.receipts)
  /\ c.stack = <<>> =>
       /\ ~c.deploying /\ c.events = <<>>
       /\ \/ up[k].state = state
          \/ ~Executed(c) /\ Deployed(state, call) /\ t = Invoke(state, call, c.access)
  /\ c.stack # <<>> /\ ~c.deploying =>
       \E o : t = Invoked(state, o) /\ Explained(c, base, o)
  /\ c.stack # <<>> /\ c.deploying =>
       \E o : t = AfterDeploy(state, o, call, c.access) /\ Explained(c, base, o)

\* A receipt told after others.
LEMMA AppendTold ==
  ASSUME NEW rs \in Seq(Receipt), NEW r
  PROVE  AllTold(Append(rs, r)) = Append(AllTold(rs), Told(r))
<1>1. PICK n \in Nat : n = Len(rs) /\ DOMAIN rs = 1 .. n
  OBVIOUS
<1>2. PICK more : more = Append(rs, r)
  OBVIOUS
<1>3. /\ DOMAIN more = 1 .. n + 1
      /\ \A i \in 1 .. n : more[i] = rs[i]
      /\ more[n + 1] = r
  BY <1>1, <1>2
<1>4. AllTold(more) = [i \in 1 .. n + 1 |-> Told(more[i])]
  BY <1>3 DEF AllTold
<1>5. PICK told : told = AllTold(rs)
  OBVIOUS
<1>6. told = [i \in 1 .. n |-> Told(rs[i])]
  BY <1>1, <1>5 DEF AllTold
<1>7. told \in Seq({Told(rs[i]) : i \in 1 .. n}) /\ Len(told) = n
  BY <1>6
<1>8. PICK S : told \in Seq(S) /\ Told(r) \in S
  <2>1. told \in Seq({Told(rs[i]) : i \in 1 .. n} \cup {Told(r)})
    BY <1>6
  <2> QED
    BY <2>1
<1>9. PICK longer : longer = Append(told, Told(r))
  OBVIOUS
<1>10. /\ longer \in Seq(S) /\ Len(longer) = n + 1
       /\ \A i \in 1 .. n : longer[i] = told[i]
       /\ longer[n + 1] = Told(r)
  BY <1>7, <1>8, <1>9
<1>11. longer = [i \in 1 .. n + 1 |-> longer[i]]
  BY <1>10
<1>12. ASSUME NEW i \in 1 .. n + 1
       PROVE  Told(more[i]) = longer[i]
  <2>1. CASE i \in 1 .. n
    BY <1>3, <1>6, <1>10, <2>1
  <2>2. CASE i = n + 1
    BY <1>3, <1>10, <2>2
  <2> QED
    BY <2>1, <2>2
<1> QED
  BY <1>2, <1>4, <1>5, <1>9, <1>11, <1>12

LEMMA ToldParts ==
  ASSUME NEW result, NEW output, NEW events
  PROVE  Told([result |-> result, output |-> output, events |-> events])
           = [result |-> result, output |-> output,
              events |-> IF result = "SUCCESS" THEN events ELSE <<>>]
BY DEF Told

LEMMA PerformedParts ==
  ASSUME NEW state, NEW result, NEW output, NEW events
  PROVE  /\ Performed(state, result, output, events).state = state
         /\ Performed(state, result, output, events).receipt =
              [result |-> result, output |-> output, events |-> events]
BY DEF Performed

\* The next transaction.
LEMMA NextUp ==
  ASSUME NEW c, ContextOK(c), ~Executed(c), NEW up, Performs(up, c.txs, c.access),
         up[Len(c.receipts)].receipts = AllTold(c.receipts)
  PROVE  LET k == Len(c.receipts)
             t == Transact(up[k].state, c.txs[k + 1], c.access)
         IN  /\ t # Unfinished
             /\ up[k + 1].state = t.state
             /\ \A r : up[k + 1].receipts = AllTold(Append(c.receipts, r)) \/ Told(r) # t.receipt
             /\ \A r : Len(Append(c.receipts, r)) = k + 1
<1>1. PICK k \in Nat : k = Len(c.receipts)
  BY DEF ContextOK, Context
<1>2. k < Len(c.txs) /\ c.receipts \in Seq(Receipt)
  <2>1. c.txs \in Seq(Call) /\ c.receipts \in Seq(Receipt)
    BY DEF ContextOK, Context
  <2>2. PICK m \in Nat : m = Len(c.txs)
    BY <2>1
  <2>3. k <= m /\ k # m
    BY <1>1, <2>2 DEF ContextOK, Executed
  <2> QED
    BY <2>1, <2>2, <2>3
<1>3. PICK t : t = Transact(up[k].state, c.txs[k + 1], c.access)
  OBVIOUS
<1>4. /\ t # Unfinished
      /\ up[k + 1] = [end |-> "PERFORMED", state |-> t.state,
                      receipts |-> Append(up[k].receipts, t.receipt)]
  BY <1>2, <1>3 DEF Performs, PerformsTo
<1>5. /\ up[k + 1].state = t.state
      /\ \A r : up[k + 1].receipts = AllTold(Append(c.receipts, r)) \/ Told(r) # t.receipt
  BY <1>1, <1>2, <1>4, AppendTold
<1>6. \A r : Len(Append(c.receipts, r)) = k + 1
  BY <1>1, <1>2
<1> QED
  BY <1>1, <1>3, <1>4, <1>5, <1>6

\* It fails.
LEMMA FailFollows ==
  ASSUME NEW c, ContextOK(c), ~Executed(c), NEW base, NEW up, Performs(up, c.txs, c.access),
         up[Len(c.receipts)].receipts = AllTold(c.receipts),
         NEW result, result # "SUCCESS",
         Transact(up[Len(c.receipts)].state, c.txs[Len(c.receipts) + 1], c.access)
           = Performed(Over(c.batch, base), result, 0, <<>>),
         NEW d, d = Fail(c, result)
  PROVE  Follows(d, base, up)
<1>1. PICK k : k = Len(c.receipts)
  OBVIOUS
<1>2. PICK t : t = Transact(up[k].state, c.txs[k + 1], c.access)
  OBVIOUS
<1>3. /\ up[k + 1].state = t.state
      /\ \A r : up[k + 1].receipts = AllTold(Append(c.receipts, r)) \/ Told(r) # t.receipt
      /\ \A r : Len(Append(c.receipts, r)) = k + 1
  BY <1>1, <1>2, NextUp
<1>4. /\ t.state = Over(c.batch, base)
      /\ t.receipt = [result |-> result, output |-> 0, events |-> <<>>]
  BY <1>1, <1>2, PerformedParts
<1>5. /\ d.stack = <<>> /\ ~d.deploying /\ d.events = <<>> /\ d.batch = c.batch
      /\ d.receipts = Append(c.receipts, [result |-> result, output |-> 0,
                                          events |-> FailedEvents(c)])
  BY FailFields DEF ContextOK
<1>6. Len(d.receipts) = k + 1 /\ up[k + 1].receipts = AllTold(d.receipts)
  BY <1>3, <1>4, <1>5, ToldParts
<1> QED
  BY <1>3, <1>4, <1>5, <1>6 DEF Follows

\* It is successful.
LEMMA SucceedFollows ==
  ASSUME NEW c, ContextOK(c), ~Executed(c), ~c.deploying, NEW base, NEW up,
         Performs(up, c.txs, c.access), up[Len(c.receipts)].receipts = AllTold(c.receipts),
         NEW output,
         Transact(up[Len(c.receipts)].state, c.txs[Len(c.receipts) + 1], c.access)
           = Performed(Seen(c, base), "SUCCESS", output, c.events),
         NEW d, d = Succeed(c, output)
  PROVE  Follows(d, base, up)
<1>1. PICK k : k = Len(c.receipts)
  OBVIOUS
<1>2. PICK t : t = Transact(up[k].state, c.txs[k + 1], c.access)
  OBVIOUS
<1>3. /\ up[k + 1].state = t.state
      /\ \A r : up[k + 1].receipts = AllTold(Append(c.receipts, r)) \/ Told(r) # t.receipt
      /\ \A r : Len(Append(c.receipts, r)) = k + 1
  BY <1>1, <1>2, NextUp
<1>4. /\ t.state = Seen(c, base)
      /\ t.receipt = [result |-> "SUCCESS", output |-> output, events |-> c.events]
  BY <1>1, <1>2, PerformedParts
<1>5. /\ d.stack = <<>> /\ ~d.deploying /\ d.events = <<>> /\ d.batch = Transients(c)
      /\ d.receipts = Append(c.receipts, t.receipt)
  <2>1. c \in Context
    BY DEF ContextOK
  <2>2. /\ d.stack = <<>> /\ ~d.deploying /\ d.events = <<>> /\ d.batch = Transients(c)
        /\ d.receipts = IF c.deploying THEN c.receipts
                        ELSE Append(c.receipts, [result |-> "SUCCESS", output |-> output,
                                                 events |-> c.events])
    BY <2>1, SucceedFields
  <2> QED
    BY <1>4, <2>2
<1>6. /\ Len(d.receipts) = k + 1 /\ Over(d.batch, base) = Seen(c, base)
      /\ up[k + 1].receipts = AllTold(d.receipts)
  BY <1>3, <1>4, <1>5, ToldParts DEF Seen
<1> QED
  BY <1>3, <1>4, <1>5, <1>6 DEF Follows

\* The auto deploy is.
LEMMA DeployFollows ==
  ASSUME NEW c, ContextOK(c), ~Executed(c), c.deploying, NEW base, NEW up,
         up[Len(c.receipts)].receipts = AllTold(c.receipts), NEW output,
         Transact(up[Len(c.receipts)].state, c.txs[Len(c.receipts) + 1], c.access)
           = Invoke(Seen(c, base), c.txs[Len(c.receipts) + 1], c.access),
         Deployed(Seen(c, base), c.txs[Len(c.receipts) + 1]),
         NEW d, d = Succeed(c, output)
  PROVE  Follows(d, base, up)
<1>1. /\ d.stack = <<>> /\ ~d.deploying /\ d.events = <<>> /\ d.batch = Transients(c)
      /\ d.receipts = c.receipts /\ d.access = c.access /\ d.txs = c.txs
  BY SucceedFields DEF ContextOK, SameJob
<1>2. Over(d.batch, base) = Seen(c, base) /\ ~Executed(d)
  BY <1>1 DEF Seen, Executed
<1> QED
  BY <1>1, <1>2 DEF Follows

\* A method alone on the stack.
LEMMA ExplainedBottom ==
  ASSUME NEW c, Len(c.stack) = 1, NEW base, NEW o, EvalsTo(Place(c, base), o)
  PROVE  Explained(c, base, o)
<1>1. PICK res : res = [j \in 1 .. 1 |-> o]
  OBVIOUS
<1>2. o \in End
  BY DEF EvalsTo
<1>3. res \in [1 .. 1 -> End] /\ res[1] = o /\ 1 .. 1 - 1 = {}
  BY <1>1, <1>2
<1> QED
  BY <1>3 DEF Explained

LEMMA ExplainedEnd ==
  ASSUME NEW c \in Context, c.stack # <<>>, Len(c.stack) = 1, Top(c).rest = <<>>,
         NEW base \in State, NEW o, Explained(c, base, o)
  PROVE  o = Returned(Seen(c, base), c.events, Top(c).acc)
<1>1. EvalsTo(Place(c, base), o)
  BY DEF Explained
<1>2. PICK x \in Point : /\ x = Place(c, base) /\ x.frame = Top(c) /\ x.state = Seen(c, base)
                         /\ x.events = c.events
  BY PlaceIs
<1>3. EvalsTo(x, o)
  BY <1>1, <1>2
<1>4. o = Returned(x.state, x.events, x.frame.acc)
  BY <1>2, <1>3, EvalsNext
<1> QED
  BY <1>2, <1>4

LEMMA InvokedParts ==
  ASSUME NEW state
  PROVE  /\ Invoked(state, FailedCode) = Performed(state, "ERROR_SMART_CONTRACT", 0, <<>>)
         /\ \A r \in End : Invoked(state, r) # Unfinished => r.end # "UNFINISHED"
         /\ \A s, events, acc :
              Invoked(state, Returned(s, events, acc)) = Performed(s, "SUCCESS", acc, events)
         /\ \A call, access :
              /\ AfterDeploy(state, FailedCode, call, access) = NotDeployed(state)
              /\ \A r \in End : AfterDeploy(state, r, call, access) # Unfinished
                                  => r.end # "UNFINISHED"
              /\ \A s, events, acc :
                   AfterDeploy(state, Returned(s, events, acc), call, access)
                     = Invoke(s, call, access)
<1>1. FailedCode.end = "FAILED"
  BY FailedEnd
<1>2. ASSUME NEW s, NEW events, NEW acc, NEW r, r = Returned(s, events, acc)
      PROVE  r.end = "RETURNED" /\ r.state = s /\ r.events = events /\ r.acc = acc
  BY <1>2 DEF Returned
<1>3. ASSUME NEW r, r.end = "UNFINISHED"
      PROVE  /\ Invoked(state, r) = Unfinished
             /\ \A call, access : AfterDeploy(state, r, call, access) = Unfinished
  BY <1>3 DEF Invoked, AfterDeploy
<1>4. ASSUME NEW r, r.end = "FAILED"
      PROVE  /\ Invoked(state, r) = Performed(state, "ERROR_SMART_CONTRACT", 0, <<>>)
             /\ \A call, access : AfterDeploy(state, r, call, access) = NotDeployed(state)
  BY <1>4 DEF Invoked, AfterDeploy
<1>5. ASSUME NEW r, r.end = "RETURNED"
      PROVE  /\ Invoked(state, r) = Performed(r.state, "SUCCESS", r.acc, r.events)
             /\ \A call, access : AfterDeploy(state, r, call, access) = Invoke(r.state, call, access)
  BY <1>5 DEF Invoked, AfterDeploy
<1>6. ASSUME NEW s, NEW events, NEW acc
      PROVE  /\ Invoked(state, Returned(s, events, acc)) = Performed(s, "SUCCESS", acc, events)
             /\ \A call, access : AfterDeploy(state, Returned(s, events, acc), call, access)
                                    = Invoke(s, call, access)
  <2>1. PICK r : r = Returned(s, events, acc)
    OBVIOUS
  <2>2. r.end = "RETURNED" /\ r.state = s /\ r.events = events /\ r.acc = acc
    BY <1>2, <2>1
  <2>3. /\ Invoked(state, r) = Performed(s, "SUCCESS", acc, events)
        /\ \A call, access : AfterDeploy(state, r, call, access) = Invoke(s, call, access)
    BY <1>5, <2>2
  <2> QED
    BY <2>1, <2>3
<1> QED
  BY <1>1, <1>3, <1>4, <1>6

\* Transact, by what is deployed.
LEMMA TransactIs ==
  ASSUME NEW state, NEW call, NEW access
  PROVE  /\ Deployed(state, call) => Transact(state, call, access) = Invoke(state, call, access)
         /\ ~Deployed(state, call) /\ ~(call[1] \in Native /\ access = "READ_WRITE") =>
              Transact(state, call, access) = NotDeployed(state)
         /\ ~Deployed(state, call) /\ call[1] \in Native /\ access = "READ_WRITE" =>
              Transact(state, call, access) =
                AfterDeploy(state, Run[Fuel][Enter(Processor(call[1]), access, state, <<>>)],
                            call, access)
BY DEF Deployed, Transact, AfterDeploy

\* A method is entered with an empty stack.
LEMMA BegunExplained ==
  ASSUME NEW c \in Context, c.stack = <<>>, c.events = <<>>, NEW base \in State, NEW call \in Call,
         NEW d, Len(d.stack) = 1, Top(d) = [service |-> call[1], rest |-> Body(call), acc |-> 0],
         d.access = c.access, d.events = c.events, Seen(d, base) = Seen(c, base),
         NEW o, o = Run[Fuel][Enter(call, c.access, Seen(c, base), <<>>)], o.end # "UNFINISHED"
  PROVE  Explained(d, base, o)
<1>1. PICK x : x = Enter(call, c.access, Seen(c, base), <<>>)
  OBVIOUS
<1>2. /\ c.access \in {"READ_ONLY", "READ_WRITE"} /\ Seen(c, base) \in State
      /\ <<>> \in Seq(Emitter)
  BY AccessEvents, SeenType
<1>3. /\ x \in Point
      /\ x = At([service |-> call[1], rest |-> Body(call), acc |-> 0], c.access, Seen(c, base), <<>>)
  BY <1>1, <1>2, EnterIs
<1>4. Place(d, base) = x
  BY <1>3 DEF Place
<1>5. Run[Fuel] \in [Point -> End] /\ Fuel \in Nat
  BY RunType, FuelAssumption
<1>6. o \in End /\ Run[Fuel][x] = o
  BY <1>1, <1>3, <1>5
<1>7. EvalsTo(x, o)
  BY <1>5, <1>6 DEF EvalsTo
<1> QED
  BY <1>4, <1>7, ExplainedBottom

LEMMA BegunFollows ==
  ASSUME NEW c, ContextOK(c), ~Executed(c), c.stack = <<>>, NEW base \in State,
         InitFits(c, base), NEW up, Performs(up, c.txs, c.access), Follows(c, base, up)
  PROVE  Follows(Begun(c, base), base, up)
<1>1. PICK k : k = Len(c.receipts)
  OBVIOUS
<1>2. PICK call : call = c.txs[k + 1]
  OBVIOUS
<1>3. PICK state : state = Over(c.batch, base)
  OBVIOUS
<1>4. PICK t : t = Transact(up[k].state, call, c.access)
  OBVIOUS
<1>5. /\ c \in Context /\ call \in Call
      /\ call[1] # Deployments => Processor(call[1]) \in Call
  BY <1>1, <1>2, NextCall DEF ContextOK
<1>6. Seen(c, base) = state
  BY <1>3, <1>5, SeenBatch DEF InitFits
<1>7. /\ up[k].receipts = AllTold(c.receipts) /\ ~c.deploying /\ c.events = <<>>
      /\ up[k].state = state \/ (Deployed(state, call) /\ t = Invoke(state, call, c.access))
  BY <1>1, <1>2, <1>3, <1>4 DEF Follows
<1>8. t # Unfinished
  BY <1>1, <1>2, <1>4, <1>7, NextUp
<1>9. ASSUME NEW result, result # "SUCCESS", t = Performed(state, result, 0, <<>>)
      PROVE  Follows(Fail(c, result), base, up)
  BY <1>1, <1>2, <1>3, <1>4, <1>7, <1>9, FailFollows
<1>10. ASSUME NEW m \in Call, NEW p, p = Push(c, m)
       PROVE  /\ p \in Context /\ SameRest(c, p) /\ SameJob(c, p) /\ p.stack # <<>>
              /\ Len(p.stack) = 1 /\ Seen(p, base) = state
              /\ Top(p) = [service |-> m[1], rest |-> Body(m), acc |-> 0]
  <2>1. /\ p \in Context /\ SameRest(c, p) /\ SameJob(c, p) /\ p.stack # <<>>
        /\ Len(p.stack) = Len(c.stack) + 1
        /\ Top(p) = [service |-> m[1], rest |-> Body(m), acc |-> 0]
    BY <1>5, <1>10, PushStack
  <2>2. Len(c.stack) = 0
    OBVIOUS
  <2> QED
    BY <1>6, <2>1, <2>2, SameSeen
<1>11. CASE Deployed(state, call) /\ Permitted("sender", call, c.access)
  <2>1. PICK p : p = Push(c, call)
    OBVIOUS
  <2>2. Begun(c, base) = p
    BY <1>1, <1>2, <1>6, <1>11, <2>1 DEF Begun, Deployed
  <2>3. /\ p \in Context /\ SameRest(c, p) /\ SameJob(c, p) /\ p.stack # <<>>
        /\ Len(p.stack) = 1 /\ Seen(p, base) = state
        /\ Top(p) = [service |-> call[1], rest |-> Body(call), acc |-> 0]
    BY <1>5, <1>10, <2>1
  <2>4. PICK o : o = Run[Fuel][Enter(call, c.access, state, <<>>)]
    OBVIOUS
  <2>5. t = Invoked(state, o)
    BY <1>4, <1>7, <1>11, <2>4, TransactIs DEF Invoke
  <2>6. o \in End
    <3>1. c.access \in {"READ_ONLY", "READ_WRITE"} /\ state \in State /\ <<>> \in Seq(Emitter)
      BY <1>5, <1>6, AccessEvents, SeenType
    <3>2. Enter(call, c.access, state, <<>>) \in Point
      BY <1>5, <3>1, EnterIs
    <3> QED
      BY <2>4, <3>2, RunType, FuelAssumption
  <2>7. o.end # "UNFINISHED"
    BY <1>8, <2>5, <2>6, InvokedParts
  <2>8. Explained(p, base, o)
    BY <1>5, <1>6, <1>7, <2>3, <2>4, <2>7, BegunExplained DEF SameRest, SameJob
  <2>9. Follows(p, base, up)
    BY <1>1, <1>2, <1>3, <1>4, <1>7, <2>3, <2>5, <2>8 DEF Follows, SameRest, SameJob
  <2> QED
    BY <2>2, <2>9
<1>12. CASE Deployed(state, call) /\ ~Permitted("sender", call, c.access)
  <2>1. Begun(c, base) = Fail(c, "ERROR_SMART_CONTRACT")
    BY <1>1, <1>2, <1>6, <1>7, <1>12 DEF Begun, Deployed, Failed
  <2>2. t = Performed(state, "ERROR_SMART_CONTRACT", 0, <<>>)
    BY <1>4, <1>7, <1>12, TransactIs, InvokedParts DEF Invoke
  <2> QED
    BY <1>9, <2>1, <2>2
<1>13. CASE ~Deployed(state, call) /\ call[1] \in Native /\ c.access = "READ_WRITE"
  <2>1. PICK m \in Call : m = Processor(call[1])
    BY <1>5, <1>13 DEF Deployed
  <2>2. PICK p : p = Push(c, m)
    OBVIOUS
  <2>3. PICK d : d = [p EXCEPT !.deploying = TRUE]
    OBVIOUS
  <2>4. Begun(c, base) = d
    BY <1>1, <1>2, <1>6, <1>13, <2>1, <2>2, <2>3 DEF Begun, Deployed
  <2>5. /\ p \in Context /\ SameRest(c, p) /\ SameJob(c, p) /\ p.stack # <<>>
        /\ Len(p.stack) = 1 /\ Seen(p, base) = state
        /\ Top(p) = [service |-> m[1], rest |-> Body(m), acc |-> 0]
    BY <1>10, <2>2
  <2>6. /\ d.deploying /\ d.stack = p.stack /\ d.txs = p.txs /\ d.receipts = p.receipts
        /\ d.transaction = p.transaction /\ d.batch = p.batch /\ d.events = p.events
        /\ d.access = p.access
    BY <2>3, <2>5 DEF Context
  <2>7. Top(d) = Top(p) /\ Seen(d, base) = Seen(p, base)
    BY <2>6 DEF Top, Seen, Transients
  <2>8. PICK o : o = Run[Fuel][Enter(m, c.access, state, <<>>)]
    OBVIOUS
  <2>9. t = AfterDeploy(state, o, call, c.access)
    BY <1>4, <1>7, <1>13, <2>1, <2>8, TransactIs
  <2>10. o \in End
    <3>1. c.access \in {"READ_ONLY", "READ_WRITE"} /\ state \in State /\ <<>> \in Seq(Emitter)
      BY <1>5, <1>6, AccessEvents, SeenType
    <3>2. Enter(m, c.access, state, <<>>) \in Point
      BY <3>1, EnterIs
    <3> QED
      BY <2>8, <3>2, RunType, FuelAssumption
  <2>11. o.end # "UNFINISHED"
    BY <1>8, <2>9, <2>10, InvokedParts
  <2>12. Explained(d, base, o)
    <3>1. /\ Len(d.stack) = 1 /\ d.access = c.access /\ d.events = c.events
          /\ Seen(d, base) = Seen(c, base)
          /\ Top(d) = [service |-> m[1], rest |-> Body(m), acc |-> 0]
      BY <1>6, <2>5, <2>6, <2>7 DEF SameRest, SameJob
    <3> QED
      BY <1>5, <1>6, <1>7, <2>8, <2>11, <3>1, BegunExplained
  <2>13. Follows(d, base, up)
    <3>1. /\ d.receipts = c.receipts /\ d.batch = c.batch /\ d.txs = c.txs /\ d.access = c.access
          /\ d.stack # <<>>
      BY <2>5, <2>6 DEF SameRest, SameJob
    <3> QED
      BY <1>1, <1>2, <1>3, <1>4, <1>7, <2>6, <2>9, <2>12, <3>1 DEF Follows
  <2> QED
    BY <2>4, <2>13
<1>14. CASE ~Deployed(state, call) /\ ~(call[1] \in Native /\ c.access = "READ_WRITE")
  <2>1. Begun(c, base) = Fail(c, "ERROR_CONTRACT_NOT_DEPLOYED")
    BY <1>1, <1>2, <1>6, <1>14 DEF Begun, Deployed
  <2>2. t = Performed(state, "ERROR_CONTRACT_NOT_DEPLOYED", 0, <<>>)
    BY <1>4, <1>7, <1>14, TransactIs DEF NotDeployed
  <2> QED
    BY <1>9, <2>1, <2>2
<1> QED
  BY <1>11, <1>12, <1>13, <1>14

LEMMA ReturnedFollows ==
  ASSUME NEW c, ContextOK(c), c.stack # <<>>, Top(c).rest = <<>>, NEW base \in State,
         DeployTracks(c, base), NEW up, Performs(up, c.txs, c.access), Follows(c, base, up)
  PROVE  Follows(HasReturned(c), base, up)
<1>1. PICK k : k = Len(c.receipts)
  OBVIOUS
<1>2. PICK call : call = c.txs[k + 1]
  OBVIOUS
<1>3. PICK state : state = Over(c.batch, base)
  OBVIOUS
<1>4. PICK t : t = Transact(up[k].state, call, c.access)
  OBVIOUS
<1>5. c \in Context /\ ~Executed(c) /\ call \in Call
  BY <1>1, <1>2, NextCall DEF ContextOK
<1>6. PICK o : /\ Explained(c, base, o)
               /\ ~c.deploying => t = Invoked(state, o)
               /\ c.deploying => t = AfterDeploy(state, o, call, c.access)
  BY <1>1, <1>2, <1>3, <1>4 DEF Follows
<1>7. up[k].receipts = AllTold(c.receipts)
  BY <1>1 DEF Follows
<1>8. CASE Len(c.stack) # 1
  <2>1. PICK d : d = Pop(c)
    OBVIOUS
  <2>2. d \in Context /\ d.stack # <<>> /\ Kept(c, d) /\ Explained(d, base, o)
    BY <1>5, <1>6, <1>8, <2>1, ExplainedPop
  <2>3. SameJob(c, d)
    BY <1>5, <1>8, <2>1, PopStack
  <2>4. Follows(d, base, up)
    BY <1>1, <1>2, <1>3, <1>4, <1>6, <1>7, <2>2, <2>3 DEF Follows, Kept, SameJob
  <2> QED
    BY <1>8, <2>1, <2>4 DEF HasReturned
<1>9. CASE Len(c.stack) = 1
  <2>1. o = Returned(Seen(c, base), c.events, Top(c).acc)
    BY <1>5, <1>6, <1>9, ExplainedEnd
  <2>2. HasReturned(c) = Succeed(c, Top(c).acc)
    BY <1>9 DEF HasReturned
  <2>3. CASE ~c.deploying
    <3>1. t = Performed(Seen(c, base), "SUCCESS", Top(c).acc, c.events)
      BY <1>6, <2>1, <2>3, InvokedParts
    <3> QED
      BY <1>1, <1>2, <1>4, <1>5, <1>7, <2>2, <2>3, <3>1, SucceedFollows
  <2>4. CASE c.deploying
    <3>1. t = Invoke(Seen(c, base), call, c.access)
      <4>1. t = AfterDeploy(state, o, call, c.access)
        BY <1>6, <2>4
      <4>2. \A s, events, acc :
              AfterDeploy(state, Returned(s, events, acc), call, c.access)
                = Invoke(s, call, c.access)
        BY InvokedParts
      <4> QED
        BY <2>1, <4>1, <4>2
    <3>2. call[1] \in Service /\ Seen(c, base)[Processor(call[1])] # 0
      <4>1. c.stack[1] = Top(c)
        BY <1>9 DEF Top
      <4> QED
        BY <1>1, <1>2, <2>4, <4>1, DeployParts DEF DeployTracks
    <3>3. Deployed(Seen(c, base), call)
      BY <3>2 DEF Deployed
    <3> QED
      BY <1>1, <1>2, <1>4, <1>5, <1>7, <2>2, <2>4, <3>1, <3>3, DeployFollows
  <2> QED
    BY <2>3, <2>4
<1> QED
  BY <1>8, <1>9

LEMMA RunFollows ==
  ASSUME NEW c, ContextOK(c), c.stack # <<>>, Top(c).rest # <<>>, NEW base \in State,
         NEW up, Performs(up, c.txs, c.access), Follows(c, base, up),
         NEW d, d = Stepped(c, base), SameJob(c, d)
  PROVE  Follows(d, base, up)
<1>1. PICK k : k = Len(c.receipts)
  OBVIOUS
<1>2. PICK call : call = c.txs[k + 1]
  OBVIOUS
<1>3. PICK state : state = Over(c.batch, base)
  OBVIOUS
<1>4. PICK t : t = Transact(up[k].state, call, c.access)
  OBVIOUS
<1>5. ~Executed(c)
  BY DEF ContextOK
<1>6. PICK o : /\ Explained(c, base, o)
               /\ ~c.deploying => t = Invoked(state, o)
               /\ c.deploying => t = AfterDeploy(state, o, call, c.access)
  BY <1>1, <1>2, <1>3, <1>4 DEF Follows
<1>7. up[k].receipts = AllTold(c.receipts)
  BY <1>1 DEF Follows
<1>8. \/ d \in Context /\ d.stack # <<>> /\ Kept(c, d) /\ Explained(d, base, o)
      \/ d = Failed(c) /\ o = FailedCode
  BY <1>6, ExplainedRuns
<1>9. CASE d.stack # <<>> /\ Kept(c, d) /\ Explained(d, base, o)
  BY <1>1, <1>2, <1>3, <1>4, <1>6, <1>7, <1>9 DEF Follows, Kept, SameJob
<1>10. CASE d = Failed(c) /\ o = FailedCode
  <2>1. PICK result : /\ d = Fail(c, result) /\ result # "SUCCESS"
                      /\ t = Performed(state, result, 0, <<>>)
    BY <1>6, <1>10, InvokedParts DEF Failed, NotDeployed
  <2> QED
    BY <1>1, <1>2, <1>3, <1>4, <1>5, <1>7, <2>1, FailFollows
<1> QED
  BY <1>8, <1>9, <1>10

\* An execution follows the serial one.
LEMMA ReachFollows ==
  ASSUME NEW access \in {"READ_ONLY", "READ_WRITE"}, NEW height \in Nat, NEW txs \in Seq(Call),
         NEW base \in State, Consistent(base), NEW up, Performs(up, txs, access),
         up[0] = Nothing(base), NEW d \in Reach(Fresh(access, height, txs), base)
  PROVE  Follows(d, base, up)
<1> DEFINE first == Fresh(access, height, txs)
           S == {c \in Reach(first, base) : DeployTracks(c, base) /\ Follows(c, base, up)}
<1>1. first \in Contexts /\ first \in Reach(first, base)
  BY FreshType, ReachFirst
<1>2. first \in S
  <2>1. /\ first.stack = <<>> /\ ~first.deploying /\ first.events = <<>> /\ first.batch = Empty
        /\ first.receipts = <<>>
    BY DEF Fresh, Allocate
  <2>. HIDE DEF first
  <2>2. Len(first.receipts) = 0 /\ Over(first.batch, base) = base
    BY <2>1, OverEmpty
  <2>3. up[0].receipts = AllTold(first.receipts) /\ up[0].state = base
    BY <2>1 DEF Nothing, AllTold
  <2>4. Follows(first, base, up)
    BY <2>1, <2>2, <2>3 DEF Follows
  <2>5. DeployTracks(first, base)
    BY <2>1, NotDeploying
  <2> QED
    BY <1>1, <2>4, <2>5
<1>3. ASSUME NEW c \in S, Active(c)
      PROVE  Stepped(c, base) \in S
  <2>1. /\ c \in Reach(first, base) /\ DeployTracks(c, base) /\ Follows(c, base, up)
        /\ InitFits(c, base) /\ Stepped(c, base) \in Reach(first, base)
    BY <1>3, ReachFits, ReachStep
  <2>2. /\ ContextOK(c) /\ c \in Context /\ SameJob(first, c)
        /\ SameJob(c, Stepped(c, base))
    BY <1>1, <1>3, <2>1, ReachSameJob, SteppedOK
  <2>3. c.txs = txs /\ c.access = access
    <3>1. first.txs = txs /\ first.access = access
      BY DEF Fresh, Allocate
    <3> QED
      BY <2>2, <3>1 DEF SameJob
  <2>4. Performs(up, c.txs, c.access)
    BY <2>3
  <2>. HIDE DEF first
  <2>5. CASE c.stack = <<>>
    <3>1. ~Executed(c) /\ Stepped(c, base) = Begun(c, base)
      BY <1>3, <2>5 DEF Active, Stepped
    <3>2. DeployTracks(Begun(c, base), base)
      BY <2>1, <2>2, <2>5, <3>1, BegunTracks
    <3>3. Follows(Begun(c, base), base, up)
      BY <2>1, <2>2, <2>4, <2>5, <3>1, BegunFollows
    <3> QED
      BY <2>1, <3>1, <3>2, <3>3
  <2>6. CASE c.stack # <<>> /\ Top(c).rest = <<>>
    <3>1. Stepped(c, base) = HasReturned(c)
      BY <2>6 DEF Stepped
    <3>2. DeployTracks(HasReturned(c), base)
      BY <2>1, <2>2, <2>6, ReturnedTracks
    <3>3. Follows(HasReturned(c), base, up)
      BY <2>1, <2>2, <2>4, <2>6, ReturnedFollows
    <3> QED
      BY <2>1, <3>1, <3>2, <3>3
  <2>7. CASE c.stack # <<>> /\ Top(c).rest # <<>>
    <3>1. DeployTracks(Stepped(c, base), base)
      BY <2>1, <2>2, <2>7, RunTracks
    <3>2. Follows(Stepped(c, base), base, up)
      BY <2>1, <2>2, <2>4, <2>7, RunFollows
    <3> QED
      BY <2>1, <3>1, <3>2
  <2> QED
    BY <2>5, <2>6, <2>7
<1>4. S \in SUBSET Contexts
  BY ReachClosed
<1>5. Closed(S, base)
  BY <1>3 DEF Closed
<1>6. d \in S
  BY <1>2, <1>4, <1>5, ReachIn
<1> QED
  BY <1>6

\* What has been executed is what the reference performs.
LEMMA SerialExecuted ==
  ASSUME NEW access \in {"READ_ONLY", "READ_WRITE"}, NEW height \in Nat, NEW txs \in Seq(Call),
         NEW base \in State, Consistent(base),
         NEW d \in Reach(Fresh(access, height, txs), base), Executed(d),
         Serial(base, txs, access) # Unfinished
  PROVE  /\ Serial(base, txs, access).receipts = AllTold(d.receipts)
         /\ Serial(base, txs, access).state = Over(d.batch, base)
<1>1. PICK up : /\ Serial(base, txs, access) = up[Len(txs)]
                /\ up[0] = Nothing(base)
                /\ \A i \in Nat : i < Len(txs) => up[i + 1] = Then(up[i], txs[i + 1], access)
  BY SerialIs
<1>2. Len(txs) \in Nat
  OBVIOUS
<1>3. Performs(up, txs, access)
  <2>1. PICK n \in Nat : n = Len(txs)
    BY <1>2
  <2>2. up[n] # Unfinished
    BY <1>1, <2>1
  <2>3. \A i \in Nat : i < n => up[i + 1] = Then(up[i], txs[i + 1], access)
    BY <1>1, <2>1
  <2>4. PerformsTo(n, up, txs, access)
    BY <2>2, <2>3, UpToFinished
  <2> QED
    BY <2>1, <2>4 DEF Performs
<1>4. Follows(d, base, up)
  BY <1>1, <1>3, ReachFollows
<1>5. ContextOK(d) /\ d.txs = txs
  <2>1. Fresh(access, height, txs) \in Contexts /\ Fresh(access, height, txs).txs = txs
    BY FreshType DEF Fresh, Allocate
  <2> QED
    BY <2>1, ReachSameJob DEF SameJob
<1>6. d.stack = <<>> /\ Len(d.receipts) = Len(txs)
  BY <1>5 DEF ContextOK, Executed
<1>7. up[Len(txs)].receipts = AllTold(d.receipts) /\ up[Len(txs)].state = Over(d.batch, base)
  BY <1>4, <1>6 DEF Follows
<1> QED
  BY <1>1, <1>7

---------------------------------------------------------------------------
(* Blocks and answers are serial.                                          *)

LEMMA BlocksSerial ==
  ASSUME TypeInv, Replays
  PROVE  SerialResults
<1>1. SUFFICES ASSUME NEW h \in DOMAIN chain,
                      Serial(StateAt(h - 1), chain[h].txs, "READ_WRITE") # Unfinished
               PROVE  /\ AllTold(chain[h].receipts)
                           = Serial(StateAt(h - 1), chain[h].txs, "READ_WRITE").receipts
                      /\ StateAt(h) = Serial(StateAt(h - 1), chain[h].txs, "READ_WRITE").state
  BY DEF SerialResults
<1>2. PICK n \in Nat : n = Len(chain) /\ DOMAIN chain = 1 .. n
  BY TypeFacts
<1>3. h \in 1 .. n /\ h - 1 \in 0 .. n /\ h - 1 \in Nat
  BY <1>2
<1>4. PICK base : base = StateIn(chain, h - 1)
  OBVIOUS
<1>5. base \in State /\ Consistent(base) /\ StateAt(h - 1) = base /\ StateAt(h) = StateIn(chain, h)
  BY <1>2, <1>3, <1>4, TypeFacts, StateInType, AllConsistent, StateAtIs
<1>6. chain[h].txs \in Seq(Call)
  <2>1. chain[h] \in BlockOf
    BY <1>2, <1>3, TypeFacts, ElementOfSeq
  <2> QED
    BY <2>1 DEF BlockOf
<1>7. PICK d \in Outcomes(h - 1, chain[h].txs, base) :
             chain[h].receipts = d.receipts /\ StateIn(chain, h) = Over(d.batch, base)
  BY <1>2, <1>3, <1>4 DEF Replays, BlockReplays
<1>8. d \in Reach(Fresh("READ_WRITE", h - 1, chain[h].txs), base) /\ Executed(d)
  BY <1>7 DEF Outcomes, Active
<1> QED
  BY <1>1, <1>3, <1>5, <1>6, <1>7, <1>8, SerialExecuted

LEMMA AnswersSerial ==
  ASSUME TypeInv, Replays
  PROVE  QueriesOneHeight
<1>1. SUFFICES ASSUME NEW n \in Gateway, NEW c, c = context[<<n, "QUERY">>], Executed(c),
                      Serial(StateAt(c.height), c.txs, "READ_ONLY") # Unfinished
               PROVE  AllTold(c.receipts) = Serial(StateAt(c.height), c.txs, "READ_ONLY").receipts
  BY DEF QueriesOneHeight
<1>2. PICK e : e = <<n, "QUERY">>
  OBVIOUS
<1>3. e \in Node \X Slot /\ e[2] = "QUERY" /\ c = context[e]
  BY <1>1, <1>2, ContractAssumption DEF Slot
<1>4. PICK base : base = StateIn(chain, c.height)
  OBVIOUS
<1>5. /\ ContextOK(c) /\ c \in Context /\ c.height \in 0 .. Len(chain) /\ c.height \in Nat
      /\ base \in State /\ StateAt(c.height) = base /\ Consistent(base)
  BY <1>3, <1>4, TypeFacts, StateInType, AllConsistent, StateAtIs
<1>6. ContextReplays("QUERY", c, base)
  BY <1>3, <1>4 DEF Replays
<1>7. PICK d : d = Bare(c)
  OBVIOUS
<1>8. d \in Reach(Fresh("READ_ONLY", c.height, c.txs), base)
  BY <1>6, <1>7 DEF ContextReplays
<1>9. d.receipts = c.receipts /\ Executed(d) /\ c.txs \in Seq(Call)
  BY <1>1, <1>5, <1>7, BareType, BareParts DEF Executed, Context
<1> QED
  BY <1>1, <1>5, <1>8, <1>9, SerialExecuted

\* A block's receipts, less the events of failed transactions, and the state it makes
\* are those of its transactions performed serially, each in one go
\* (ProcessTransactionSet, send-transaction.md): caching in the transient states,
\* rolling a failed transaction back, nesting calls and reading while StateStorage
\* goes on do not show.
THEOREM BlocksAreSerial == Spec => []SerialResults
<1>1. Init => TypeInv /\ Replays
  BY TypeInit, ReplaysInit
<1>2. TypeInv /\ Replays /\ [Next]_vars => (TypeInv /\ Replays)'
  BY TypeStep, ReplaysStep
<1>3. TypeInv /\ Replays => SerialResults
  BY BlocksSerial
<1> QED
  BY <1>1, <1>2, <1>3, PTL DEF Spec

\* The answer to a query is that of the one height it refers to (ProcessQuery), however
\* many blocks are committed between its reads.
THEOREM QueriesSeeOneHeight == Spec => []QueriesOneHeight
<1>1. Init => TypeInv /\ Replays
  BY TypeInit, ReplaysInit
<1>2. TypeInv /\ Replays /\ [Next]_vars => (TypeInv /\ Replays)'
  BY TypeStep, ReplaysStep
<1>3. TypeInv /\ Replays => QueriesOneHeight
  BY AnswersSerial
<1> QED
  BY <1>1, <1>2, <1>3, PTL DEF Spec

=============================================================================
