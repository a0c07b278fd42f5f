------------------------- MODULE SerialExecutionProof -------------------------
(***************************************************************************)
(* Proofs about the virtual machines: what one step makes of an execution, *)
(* the types, the states that StateStorage gives out, that executing is    *)
(* deterministic, and that what is committed and answered is what one      *)
(* execution, on one state, comes to.                                      *)
(***************************************************************************)
EXTENDS SerialExecution, SequenceTheorems, WellFoundedInduction, NaturalsInduction, TLAPS

---------------------------------------------------------------------------
(* Transient states over states.                                           *)

\* A transient state maps some variables to values.
LEMMA TransientIntro ==
  ASSUME NEW S \in SUBSET Var, NEW f \in [S -> Value]
  PROVE  f \in Transient
BY DEF Transient

LEMMA TransientElim ==
  ASSUME NEW t \in Transient
  PROVE  /\ DOMAIN t \subseteq Var
         /\ \A v \in DOMAIN t : t[v] \in Value
         /\ t \in [DOMAIN t -> Value]
BY DEF Transient

LEMMA EmptyTransient == Empty \in Transient /\ DOMAIN Empty = {}
<1>1. Empty \in [{} -> Value] /\ {} \in SUBSET Var /\ DOMAIN Empty = {}
  BY DEF Empty
<1> QED
  BY <1>1, TransientIntro

LEMMA ValueZero == 0 \in Value
BY ContractAssumption DEF Value

LEMMA OverTransient ==
  ASSUME NEW top \in Transient, NEW bottom \in Transient
  PROVE  Over(top, bottom) \in Transient
<1> DEFINE S == DOMAIN top \cup DOMAIN bottom
<1>1. S \in SUBSET Var
  BY TransientElim
<1>2. Over(top, bottom) \in [S -> Value]
  BY TransientElim DEF Over
<1> QED
  BY <1>1, <1>2, TransientIntro

LEMMA OverState ==
  ASSUME NEW top \in Transient, NEW base \in State
  PROVE  /\ Over(top, base) \in State
         /\ \A v \in Var :
              Over(top, base)[v] = IF v \in DOMAIN top THEN top[v] ELSE base[v]
<1>1. DOMAIN base = Var /\ DOMAIN top \cup DOMAIN base = Var
  BY TransientElim DEF State
<1> QED
  BY <1>1, TransientElim DEF Over, State

\* A layer more is a layer of layers.
LEMMA OverOver ==
  ASSUME NEW t1 \in Transient, NEW t2 \in Transient, NEW base \in State
  PROVE  Over(Over(t1, t2), base) = Over(t1, Over(t2, base))
<1>1. Over(t1, t2) \in Transient /\ Over(t2, base) \in State
  BY OverTransient, OverState
<1>2. Over(Over(t1, t2), base) \in State /\ Over(t1, Over(t2, base)) \in State
  BY <1>1, OverState
<1>3. ASSUME NEW v \in Var
      PROVE  Over(Over(t1, t2), base)[v] = Over(t1, Over(t2, base))[v]
  <2>1. Over(Over(t1, t2), base)[v] =
           IF v \in DOMAIN t1 \cup DOMAIN t2 THEN Over(t1, t2)[v] ELSE base[v]
    <3>1. DOMAIN Over(t1, t2) = DOMAIN t1 \cup DOMAIN t2
      BY DEF Over
    <3> QED
      BY <1>1, <3>1, OverState
  <2>2. v \in DOMAIN t1 \cup DOMAIN t2 =>
          Over(t1, t2)[v] = IF v \in DOMAIN t1 THEN t1[v] ELSE t2[v]
    BY DEF Over
  <2>3. Over(t1, Over(t2, base))[v] = IF v \in DOMAIN t1 THEN t1[v] ELSE Over(t2, base)[v]
    BY <1>1, OverState
  <2>4. Over(t2, base)[v] = IF v \in DOMAIN t2 THEN t2[v] ELSE base[v]
    BY OverState
  <2> QED
    BY <2>1, <2>2, <2>3, <2>4
<1> QED
  BY <1>2, <1>3 DEF State

LEMMA OverEmpty ==
  ASSUME NEW base \in State
  PROVE  Over(Empty, base) = base
BY EmptyTransient, OverState DEF State

LEMMA OverEmptyTransient ==
  ASSUME NEW t \in Transient
  PROVE  Over(Empty, t) = t
BY EmptyTransient, TransientElim DEF Over

---------------------------------------------------------------------------
(* One step of an execution on the state below it: the actions of Execute, *)
(* as what they make of the context.                                       *)

\* The state the running code sees.
Seen(c, base) == Over(Transients(c), base)

Begun(c, base) ==
  LET call == c.txs[Len(c.receipts) + 1]
  IN  IF call[1] = Deployments \/ Seen(c, base)[Processor(call[1])] # 0
      THEN IF Permitted("sender", call, c.access) THEN Push(c, call) ELSE Failed(c)
      ELSE IF c.access = "READ_WRITE" /\ call[1] \in Native
      THEN [Push(c, Processor(call[1])) EXCEPT !.deploying = TRUE]
      ELSE Fail(c, "ERROR_CONTRACT_NOT_DEPLOYED")

HasRead(c, base) == Continue(c, Seen(c, base)[<<Top(c).service, NextOp(c).key>>])

Sum(c) == (Top(c).acc + NextOp(c).add) % Values

HasWritten(c) ==
  IF c.access = "READ_ONLY" THEN Failed(c)
  ELSE [Continue(c, Sum(c)) EXCEPT
          !.transaction = Over([x \in {<<Top(c).service, NextOp(c).key>>} |-> Sum(c)], c.transaction)]

HasRequired(c) ==
  IF Top(c).acc = NextOp(c).value THEN Continue(c, Top(c).acc) ELSE Failed(c)

HasCalled(c, base) ==
  LET call == NextOp(c).call
  IN  IF Exists(Seen(c, base), call[1]) /\ Permitted(Top(c).service, call, c.access)
      THEN Push(Continue(c, 0), call) ELSE Failed(c)

HasEmitted(c) ==
  IF c.events # <<>> THEN Failed(c)
  ELSE [Continue(c, Top(c).acc) EXCEPT !.events = <<Top(c).service>>]

HasReturned(c) == IF Len(c.stack) = 1 THEN Succeed(c, Top(c).acc) ELSE Pop(c)

Stepped(c, base) ==
  IF c.stack = <<>> THEN Begun(c, base)
  ELSE IF Top(c).rest = <<>> THEN HasReturned(c)
  ELSE IF NextOp(c).op = "READ" THEN HasRead(c, base)
  ELSE IF NextOp(c).op = "WRITE" THEN HasWritten(c)
  ELSE IF NextOp(c).op = "REQUIRE" THEN HasRequired(c)
  ELSE IF NextOp(c).op = "CALL" THEN HasCalled(c, base)
  ELSE HasEmitted(c)

\* There is something to do.
Active(c) == c.stack = <<>> => ~Executed(c)

\* Code runs for one transaction at a time.
ContextOK(c) ==
  /\ c \in Context
  /\ Len(c.receipts) <= Len(c.txs)
  /\ c.stack # <<>> => ~Executed(c)

\* It is the same execution.
SameJob(c, d) ==
  /\ d.access = c.access /\ d.height = c.height
  /\ d.txs = c.txs /\ d.expected = c.expected

LEMMA NewContext ==
  ASSUME NEW access \in {"READ_ONLY", "READ_WRITE"}, NEW height \in Nat,
         NEW txs \in Seq(Call), NEW expected \in Results \cup {NoResults}
  PROVE  ContextOK(Allocate(access, height, txs, expected))
BY EmptyTransient DEF Allocate, ContextOK, Context

LEMMA NoContextOK == ContextOK(NoContext) /\ Executed(NoContext)
<1>1. <<>> \in Seq(Call)
  OBVIOUS
<1>2. ContextOK(NoContext)
  BY <1>1, NewContext DEF NoContext
<1> QED
  BY <1>2 DEF NoContext, Allocate, Executed

\* The code of every method is SDK calls.
LEMMA BodyType ==
  ASSUME NEW call \in Call
  PROVE  [service |-> call[1], rest |-> Body(call), acc |-> 0] \in Frame
<1>1. CASE call[1] = Deployments
  <2>1. call[2] \in Service
    BY <1>1, ContractAssumption DEF Call
  <2>2. /\ [op |-> "READ", key |-> call[2]] \in Op(Service)
        /\ [op |-> "REQUIRE", value |-> 0] \in Op(Service)
        /\ [op |-> "WRITE", key |-> call[2], add |-> 1] \in Op(Service)
        /\ [op |-> "CALL", call |-> <<call[2], "_init">>] \in Op(Service)
    BY <2>1, ValueZero, ContractAssumption DEF Op, Call
  <2>3. Body(call) \in Seq(Op(Service))
    BY <1>1, <2>2 DEF Body, DeployService
  <2> QED
    BY <1>1, <2>3, ValueZero DEF Frame
<1>2. CASE call[1] # Deployments
  <2>1. call \in Service \X Method
    BY <1>2, ContractAssumption DEF Call
  <2>2. Body(call) \in Seq(Op(Key))
    BY <1>2, <2>1, ContractAssumption DEF Body
  <2> QED
    BY <2>1, <2>2, ValueZero DEF Frame
<1> QED
  BY <1>1, <1>2

\* The frame on top and the SDK call it makes next.
LEMMA TopType ==
  ASSUME NEW c \in Context, c.stack # <<>>
  PROVE  /\ Len(c.stack) \in 1 .. Len(c.stack)
         /\ Top(c) \in Frame
         /\ Top(c).acc \in Value
         /\ Top(c).service \in Service \cup {Deployments}
         /\ Top(c).rest # <<>> =>
              /\ NextOp(c).op \in {"READ", "WRITE", "REQUIRE", "CALL", "EMIT"}
              /\ NextOp(c).op \in {"READ", "WRITE"} => <<Top(c).service, NextOp(c).key>> \in Var
              /\ NextOp(c).op = "WRITE" => NextOp(c).add \in Nat
              /\ NextOp(c).op = "REQUIRE" => NextOp(c).value \in Value
              /\ NextOp(c).op = "CALL" => NextOp(c).call \in Call
<1>1. Len(c.stack) \in 1 .. Len(c.stack) /\ Top(c) \in Frame
  BY DEF Context, Top
<1>2. Top(c).acc \in Value /\ Top(c).service \in Service \cup {Deployments}
  BY <1>1 DEF Frame
<1>3. ASSUME Top(c).rest # <<>>
      PROVE  \/ Top(c).service \in Service /\ NextOp(c) \in Op(Key)
             \/ Top(c).service = Deployments /\ NextOp(c) \in Op(Service)
  BY <1>1, <1>3 DEF Frame, NextOp
<1>4. ASSUME NEW K, NEW op \in Op(K)
      PROVE  /\ op.op \in {"READ", "WRITE", "REQUIRE", "CALL", "EMIT"}
             /\ op.op \in {"READ", "WRITE"} => op.key \in K
             /\ op.op = "WRITE" => op.add \in Nat
             /\ op.op = "REQUIRE" => op.value \in Value
             /\ op.op = "CALL" => op.call \in Call
  BY DEF Op
<1> QED
  BY <1>1, <1>2, <1>3, <1>4 DEF Var

LEMMA FrameParts ==
  ASSUME NEW f \in Frame, NEW acc \in Value
  PROVE  /\ [service |-> f.service, rest |-> f.rest, acc |-> acc] \in Frame
         /\ f.rest # <<>> => [service |-> f.service, rest |-> Tail(f.rest), acc |-> acc] \in Frame
BY DEF Frame

LEMMA ContinueType ==
  ASSUME NEW c \in Context, c.stack # <<>>, Top(c).rest # <<>>, NEW acc \in Value
  PROVE  /\ Continue(c, acc) \in Context
         /\ Len(Continue(c, acc).stack) = Len(c.stack)
         /\ Continue(c, acc) = [c EXCEPT !.stack = Continue(c, acc).stack]
         /\ Continue(c, acc).stack # <<>>
<1> DEFINE f == [service |-> Top(c).service, rest |-> Tail(Top(c).rest), acc |-> acc]
           stack == [c.stack EXCEPT ![Len(c.stack)] = f]
<1>1. f \in Frame
  BY TopType, FrameParts
<1>2. stack \in Seq(Frame) /\ Len(stack) = Len(c.stack) /\ stack # <<>>
  BY <1>1, TopType DEF Context
<1>3. Continue(c, acc) = [c EXCEPT !.stack = stack]
  BY DEF Continue
<1>. HIDE DEF stack
<1>4. [c EXCEPT !.stack = stack] \in Context /\ [c EXCEPT !.stack = stack].stack = stack
  BY <1>2 DEF Context
<1> QED
  BY <1>2, <1>3, <1>4


LEMMA AppendTo ==
  ASSUME NEW S, NEW s \in Seq(S), NEW x \in S
  PROVE  /\ Append(s, x) \in Seq(S) /\ Append(s, x) # <<>>
         /\ Len(Append(s, x)) = Len(s) + 1
         /\ Append(s, x)[Len(s) + 1] = x
         /\ \A i \in 1 .. Len(s) : Append(s, x)[i] = s[i]
OBVIOUS

LEMMA EmptyIsZero ==
  ASSUME NEW S, NEW s \in Seq(S)
  PROVE  Len(s) \in Nat /\ (s = <<>> <=> Len(s) = 0)
OBVIOUS

LEMMA LongSeq ==
  ASSUME NEW S, NEW s \in Seq(S), s # <<>>, Len(s) # 1
  PROVE  Len(s) > 1
<1>1. ASSUME NEW n \in Nat
      PROVE  n > 1 \/ n = 1 \/ n = 0
  OBVIOUS
<1>2. Len(s) \in Nat
  BY EmptyIsZero
<1>3. Len(s) # 0
  BY EmptyIsZero
<1> QED
  BY <1>1, <1>2, <1>3

LEMMA PopSeq ==
  ASSUME NEW S, NEW s \in Seq(S), Len(s) > 1, NEW x \in S,
         NEW t, t = Append(SubSeq(s, 1, Len(s) - 2), x)
  PROVE  /\ t \in Seq(S) /\ t # <<>>
         /\ Len(t) = Len(s) - 1
         /\ t[Len(s) - 1] = x
         /\ \A i \in 1 .. Len(s) - 2 : t[i] = s[i]
<1>1. PICK n : n = Len(s) - 2
  OBVIOUS
<1>2. n \in 0 .. Len(s) /\ n + 1 = Len(s) - 1
  BY <1>1
<1>3. PICK u : u = SubSeq(s, 1, n)
  OBVIOUS
<1>4. u \in Seq(S) /\ Len(u) = n /\ \A i \in 1 .. n : u[i] = s[i]
  <2>1. \A i \in 1 .. n : s[i] \in S
    BY <1>2
  <2> QED
    BY <1>2, <1>3, <2>1, SubSeqProperties
<1>5. t = Append(u, x)
  BY <1>1, <1>3
<1> QED
  BY <1>1, <1>2, <1>4, <1>5, AppendTo

LEMMA ContextFields ==
  ASSUME NEW c \in Context
  PROVE  /\ c.stack \in Seq(Frame) /\ Len(c.stack) \in Nat
         /\ c.receipts \in Seq(Receipt) /\ Len(c.receipts) \in Nat
         /\ c.txs \in Seq(Call) /\ Len(c.txs) \in Nat
         /\ c.events \in Seq(Service \cup {Deployments})
         /\ c.transaction \in Transient /\ c.batch \in Transient
         /\ c.height \in Nat
<1>1. /\ c.stack \in Seq(Frame)
      /\ c.receipts \in Seq(Receipt)
      /\ c.txs \in Seq(Call)
      /\ c.events \in Seq(Service \cup {Deployments})
      /\ c.transaction \in Transient /\ c.batch \in Transient
      /\ c.height \in Nat
  BY DEF Context
<1> QED
  BY <1>1

LEMMA PushType ==
  ASSUME NEW c \in Context, NEW call \in Call
  PROVE  /\ Push(c, call) \in Context
         /\ Push(c, call) = [c EXCEPT !.stack = Push(c, call).stack]
         /\ Push(c, call).stack # <<>>
<1> DEFINE f == [service |-> call[1], rest |-> Body(call), acc |-> 0]
           stack == Append(c.stack, f)
<1>1. stack \in Seq(Frame) /\ stack # <<>>
  BY BodyType, ContextFields, AppendTo
<1>2. Push(c, call) = [c EXCEPT !.stack = stack]
  BY DEF Push
<1>. HIDE DEF stack
<1>3. [c EXCEPT !.stack = stack] \in Context /\ [c EXCEPT !.stack = stack].stack = stack
  BY <1>1 DEF Context
<1> QED
  BY <1>1, <1>2, <1>3

LEMMA PopType ==
  ASSUME NEW c \in Context, c.stack # <<>>, Len(c.stack) # 1
  PROVE  /\ Pop(c) \in Context
         /\ Pop(c) = [c EXCEPT !.stack = Pop(c).stack]
         /\ Pop(c).stack # <<>>
<1> DEFINE caller == c.stack[Len(c.stack) - 1]
           f == [service |-> caller.service, rest |-> caller.rest, acc |-> Top(c).acc]
           stack == Append(SubSeq(c.stack, 1, Len(c.stack) - 2), f)
<1>1. c.stack \in Seq(Frame) /\ Len(c.stack) > 1
  <2>1. c.stack \in Seq(Frame)
    BY ContextFields
  <2> QED
    BY <2>1, LongSeq
<1>2. caller \in Frame /\ Top(c).acc \in Value
  <2>1. PICK n \in Nat : n = Len(c.stack)
    BY <1>1
  <2>2. n - 1 \in 1 .. n
    BY <1>1, <2>1
  <2>3. caller \in Frame
    BY <1>1, <2>1, <2>2
  <2> QED
    BY <2>3, TopType
<1>3. f \in Frame
  BY <1>2, FrameParts
<1>4. Pop(c) = [c EXCEPT !.stack = stack]
  BY DEF Pop
<1>. HIDE DEF f
<1>5. stack \in Seq(Frame) /\ stack # <<>>
  BY <1>1, <1>3, PopSeq
<1>. HIDE DEF stack
<1>6. [c EXCEPT !.stack = stack] \in Context /\ [c EXCEPT !.stack = stack].stack = stack
  BY <1>5 DEF Context
<1> QED
  BY <1>4, <1>5, <1>6

LEMMA FailType ==
  ASSUME NEW c, ContextOK(c), ~Executed(c),
         NEW result \in {"ERROR_SMART_CONTRACT", "ERROR_CONTRACT_NOT_DEPLOYED"}
  PROVE  /\ ContextOK(Fail(c, result)) /\ SameJob(c, Fail(c, result))
         /\ Fail(c, result).stack = <<>>
<1> DEFINE r == [result |-> result, output |-> 0, events |-> FailedEvents(c)]
           receipts == Append(c.receipts, r)
<1>1. r \in Receipt
  <2>1. FailedEvents(c) \in Seq(Service \cup {Deployments})
    BY DEF FailedEvents, ContextOK, Context
  <2> QED
    BY <2>1, ValueZero DEF Receipt
<1>2. receipts \in Seq(Receipt) /\ Len(receipts) <= Len(c.txs)
  BY <1>1 DEF ContextOK, Context, Executed
<1>3. Fail(c, result) = [c EXCEPT !.receipts = receipts, !.deploying = FALSE, !.stack = <<>>,
                                  !.events = <<>>, !.transaction = Empty]
  BY DEF Fail
<1>. HIDE DEF receipts
<1>4. c \in Context /\ <<>> \in Seq(Frame) /\ <<>> \in Seq(Service \cup {Deployments})
      /\ c.batch \in Transient
  BY ContextFields DEF ContextOK
<1>5. Fail(c, result) = [c EXCEPT !.receipts = receipts, !.deploying = FALSE, !.stack = <<>>,
                                  !.events = <<>>, !.transaction = Empty, !.batch = c.batch]
  BY <1>3, <1>4 DEF Context
<1>6. PICK d : d = Fail(c, result)
  OBVIOUS
<1>7. d = [c EXCEPT !.receipts = receipts, !.deploying = FALSE, !.stack = <<>>,
                    !.events = <<>>, !.transaction = Empty, !.batch = c.batch]
  BY <1>5, <1>6
<1>8. /\ d \in Context /\ SameJob(c, d)
      /\ d.receipts = receipts /\ d.stack = <<>>
  BY <1>2, <1>4, <1>7, EmptyTransient DEF Context, SameJob
<1> QED
  BY <1>2, <1>6, <1>8 DEF ContextOK, SameJob

LEMMA FailedType ==
  ASSUME NEW c, ContextOK(c), ~Executed(c)
  PROVE  ContextOK(Failed(c)) /\ SameJob(c, Failed(c)) /\ Failed(c).stack = <<>>
BY FailType DEF Failed

LEMMA TransientsType ==
  ASSUME NEW c \in Context
  PROVE  Transients(c) \in Transient
BY OverTransient DEF Transients, Context

LEMMA SucceedType ==
  ASSUME NEW c, ContextOK(c), ~Executed(c), NEW output \in Value
  PROVE  /\ ContextOK(Succeed(c, output)) /\ SameJob(c, Succeed(c, output))
         /\ Succeed(c, output).stack = <<>>
<1> DEFINE r == [result |-> "SUCCESS", output |-> output, events |-> c.events]
           receipts == IF c.deploying THEN c.receipts ELSE Append(c.receipts, r)
<1>1. r \in Receipt
  BY DEF Receipt, ContextOK, Context
<1>2. receipts \in Seq(Receipt) /\ Len(receipts) <= Len(c.txs)
  BY <1>1 DEF ContextOK, Context, Executed
<1>3. Succeed(c, output) = [c EXCEPT !.receipts = receipts, !.deploying = FALSE, !.stack = <<>>,
                              !.events = <<>>, !.transaction = Empty, !.batch = Transients(c)]
  BY DEF Succeed
<1>4. Transients(c) \in Transient
  BY TransientsType DEF ContextOK
<1>. HIDE DEF receipts
<1>5. c \in Context /\ <<>> \in Seq(Frame) /\ <<>> \in Seq(Service \cup {Deployments})
  BY DEF ContextOK
<1>6. PICK d : d = Succeed(c, output)
  OBVIOUS
<1>7. d = [c EXCEPT !.receipts = receipts, !.deploying = FALSE, !.stack = <<>>,
                    !.events = <<>>, !.transaction = Empty, !.batch = Transients(c)]
  BY <1>3, <1>6
<1>8. /\ d \in Context /\ SameJob(c, d)
      /\ d.receipts = receipts /\ d.stack = <<>>
  BY <1>2, <1>4, <1>5, <1>7, EmptyTransient DEF Context, SameJob
<1> QED
  BY <1>2, <1>6, <1>8 DEF ContextOK, SameJob

\* A context with another stack, or with other writes.
LEMMA StackedOK ==
  ASSUME NEW c, ContextOK(c), ~Executed(c),
         NEW d \in Context, d.receipts = c.receipts, SameJob(c, d)
  PROVE  ContextOK(d)
BY DEF ContextOK, Executed, SameJob

LEMMA SeenType ==
  ASSUME NEW c \in Context, NEW base \in State
  PROVE  /\ Seen(c, base) \in State
         /\ \A v \in Var : /\ Seen(c, base)[v] \in Value
                          /\ Seen(c, base)[v] = IF v \in DOMAIN Transients(c)
                                                 THEN Transients(c)[v] ELSE base[v]
BY TransientsType, OverState DEF Seen, State

LEMMA SumType ==
  ASSUME NEW c \in Context, c.stack # <<>>, Top(c).rest # <<>>, NextOp(c).op = "WRITE"
  PROVE  Sum(c) \in Value
<1>0. Top(c).acc \in Value /\ NextOp(c).add \in Nat
  BY TopType
<1>1. Top(c).acc \in Nat /\ NextOp(c).add \in Nat /\ Values \in Nat /\ Values > 0
  BY <1>0, ContractAssumption DEF Value
<1>2. ASSUME NEW x \in Nat
      PROVE  x % Values \in 0 .. Values - 1
  BY <1>1
<1> QED
  BY <1>1, <1>2 DEF Sum, Value

\* The call of the next transaction.
LEMMA NextCall ==
  ASSUME NEW c, ContextOK(c), ~Executed(c)
  PROVE  /\ c.txs[Len(c.receipts) + 1] \in Call
         /\ c.txs[Len(c.receipts) + 1][1] # Deployments =>
               /\ c.txs[Len(c.receipts) + 1][1] \in Service
               /\ Processor(c.txs[Len(c.receipts) + 1][1]) \in Var
               /\ Processor(c.txs[Len(c.receipts) + 1][1]) \in Call
<1>1. c.txs[Len(c.receipts) + 1] \in Call
  BY DEF ContextOK, Context, Executed
<1> QED
  BY <1>1 DEF Call, Var, Processor

\* A step is one of the same execution.
LEMMA BegunOK ==
  ASSUME NEW c, ContextOK(c), ~Executed(c), NEW base
  PROVE  ContextOK(Begun(c, base)) /\ SameJob(c, Begun(c, base))
<1> DEFINE call == c.txs[Len(c.receipts) + 1]
<1>1. c \in Context
  BY DEF ContextOK
<1>2. ASSUME NEW k \in Call, NEW p, p = Push(c, k)
      PROVE  p.receipts = c.receipts /\ ContextOK(p) /\ SameJob(c, p)
  <2>1. p \in Context /\ p = [c EXCEPT !.stack = p.stack]
    BY <1>1, <1>2, PushType
  <2>2. p.receipts = c.receipts /\ SameJob(c, p)
    BY <1>1, <2>1 DEF Context, SameJob
  <2> QED
    BY <2>1, <2>2, StackedOK
<1>3. ASSUME NEW k \in Call, NEW d, d = [Push(c, k) EXCEPT !.deploying = TRUE]
      PROVE  ContextOK(d) /\ SameJob(c, d)
  <2>1. PICK p : p = Push(c, k)
    OBVIOUS
  <2>2. /\ p \in Context /\ p.receipts = c.receipts /\ SameJob(c, p)
    BY <1>2, <2>1 DEF ContextOK
  <2>3. d = [p EXCEPT !.deploying = TRUE]
    BY <1>3, <2>1
  <2>4. d \in Context /\ d.receipts = c.receipts /\ SameJob(c, d)
    BY <2>2, <2>3 DEF Context, SameJob
  <2> QED
    BY <2>4, StackedOK
<1>4. /\ ContextOK(Failed(c)) /\ SameJob(c, Failed(c))
      /\ ContextOK(Fail(c, "ERROR_CONTRACT_NOT_DEPLOYED"))
      /\ SameJob(c, Fail(c, "ERROR_CONTRACT_NOT_DEPLOYED"))
  BY FailedType, FailType
<1>5. call \in Call /\ (call[1] # Deployments => Processor(call[1]) \in Call)
  BY NextCall
<1> QED
  BY <1>2, <1>3, <1>4, <1>5 DEF Begun

LEMMA ContinueOK ==
  ASSUME NEW c, ContextOK(c), c.stack # <<>>, Top(c).rest # <<>>, NEW acc \in Value,
         NEW d, d = Continue(c, acc)
  PROVE  ContextOK(d) /\ SameJob(c, d) /\ d.receipts = c.receipts
<1>1. c \in Context /\ ~Executed(c)
  BY DEF ContextOK
<1>2. d \in Context /\ d = [c EXCEPT !.stack = d.stack]
  BY <1>1, ContinueType
<1>3. d.receipts = c.receipts /\ SameJob(c, d)
  BY <1>1, <1>2 DEF Context, SameJob
<1> QED
  BY <1>1, <1>2, <1>3, StackedOK

LEMMA HasWrittenOK ==
  ASSUME NEW c, ContextOK(c), c.stack # <<>>, Top(c).rest # <<>>, NextOp(c).op = "WRITE",
         c.access # "READ_ONLY"
  PROVE  ContextOK(HasWritten(c)) /\ SameJob(c, HasWritten(c))
<1> DEFINE k == Continue(c, Sum(c))
           v == <<Top(c).service, NextOp(c).key>>
           t == Over([x \in {v} |-> Sum(c)], c.transaction)
<1>1. c \in Context /\ ~Executed(c) /\ Sum(c) \in Value /\ v \in Var
  BY SumType, TopType DEF ContextOK
<1>2. ContextOK(k) /\ SameJob(c, k) /\ k.receipts = c.receipts
  BY <1>1, ContinueOK
<1>3. t \in Transient
  <2>1. {v} \in SUBSET Var /\ [x \in {v} |-> Sum(c)] \in [{v} -> Value]
    BY <1>1
  <2>2. [x \in {v} |-> Sum(c)] \in Transient
    BY <2>1, TransientIntro
  <2> QED
    BY <1>1, <2>2, OverTransient, ContextFields
<1>4. HasWritten(c) = [k EXCEPT !.transaction = t]
  BY DEF HasWritten
<1>. HIDE DEF k, t
<1>5. PICK d : d = [k EXCEPT !.transaction = t]
  OBVIOUS
<1>6. d \in Context /\ d.receipts = c.receipts /\ SameJob(c, d)
  BY <1>2, <1>3, <1>5 DEF ContextOK, Context, SameJob
<1> QED
  BY <1>1, <1>4, <1>5, <1>6, StackedOK

LEMMA HasEmittedOK ==
  ASSUME NEW c, ContextOK(c), c.stack # <<>>, Top(c).rest # <<>>
  PROVE  ContextOK(HasEmitted(c)) /\ SameJob(c, HasEmitted(c))
<1> DEFINE k == Continue(c, Top(c).acc)
           events == <<Top(c).service>>
<1>1. /\ c \in Context /\ ~Executed(c) /\ Top(c).acc \in Value
      /\ Top(c).service \in Service \cup {Deployments}
  BY TopType DEF ContextOK
<1>2. ContextOK(k) /\ SameJob(c, k) /\ k.receipts = c.receipts
  BY <1>1, ContinueOK
<1>3. events \in Seq(Service \cup {Deployments})
  BY <1>1
<1>4. HasEmitted(c) = IF c.events # <<>> THEN Failed(c) ELSE [k EXCEPT !.events = events]
  BY DEF HasEmitted
<1>. HIDE DEF k, events
<1>5. PICK d : d = [k EXCEPT !.events = events]
  OBVIOUS
<1>6. d \in Context /\ d.receipts = c.receipts /\ SameJob(c, d)
  BY <1>2, <1>3, <1>5 DEF ContextOK, Context, SameJob
<1> QED
  BY <1>1, <1>4, <1>5, <1>6, StackedOK, FailedType

LEMMA HasCalledOK ==
  ASSUME NEW c, ContextOK(c), c.stack # <<>>, Top(c).rest # <<>>, NextOp(c).op = "CALL", NEW base
  PROVE  ContextOK(HasCalled(c, base)) /\ SameJob(c, HasCalled(c, base))
<1>1. c \in Context /\ ~Executed(c) /\ NextOp(c).call \in Call
  BY TopType DEF ContextOK
<1>2. PICK k : k = Continue(c, 0)
  OBVIOUS
<1>3. ContextOK(k) /\ SameJob(c, k) /\ k.receipts = c.receipts
  BY <1>2, ContinueOK, ValueZero
<1>4. PICK p : p = Push(k, NextOp(c).call)
  OBVIOUS
<1>5. p \in Context /\ p = [k EXCEPT !.stack = p.stack]
  BY <1>1, <1>3, <1>4, PushType DEF ContextOK
<1>6. p.receipts = c.receipts /\ SameJob(c, p)
  BY <1>3, <1>5 DEF ContextOK, Context, SameJob
<1>7. ContextOK(p)
  BY <1>1, <1>5, <1>6, StackedOK
<1>8. HasCalled(c, base) \in {p, Failed(c)}
  BY <1>2, <1>4 DEF HasCalled
<1> QED
  BY <1>1, <1>6, <1>7, <1>8, FailedType

LEMMA HasReturnedOK ==
  ASSUME NEW c, ContextOK(c), c.stack # <<>>
  PROVE  ContextOK(HasReturned(c)) /\ SameJob(c, HasReturned(c))
<1>1. c \in Context /\ ~Executed(c) /\ Top(c).acc \in Value
  BY TopType DEF ContextOK
<1>2. CASE Len(c.stack) = 1
  BY <1>1, <1>2, SucceedType DEF HasReturned
<1>3. CASE Len(c.stack) # 1
  <2>1. PICK d : d = Pop(c)
    OBVIOUS
  <2>2. d \in Context /\ d = [c EXCEPT !.stack = d.stack]
    BY <1>1, <1>3, <2>1, PopType
  <2>3. d.receipts = c.receipts /\ SameJob(c, d)
    BY <1>1, <2>2 DEF Context, SameJob
  <2> QED
    BY <1>1, <1>3, <2>1, <2>2, <2>3, StackedOK DEF HasReturned
<1> QED
  BY <1>2, <1>3

LEMMA SteppedOK ==
  ASSUME NEW c, ContextOK(c), Active(c), NEW base \in State
  PROVE  ContextOK(Stepped(c, base)) /\ SameJob(c, Stepped(c, base))
<1>1. c \in Context /\ ~Executed(c)
  BY DEF ContextOK, Active
<1>2. CASE c.stack = <<>>
  BY <1>1, <1>2, BegunOK DEF Stepped
<1>3. CASE c.stack # <<>> /\ Top(c).rest = <<>>
  BY <1>3, HasReturnedOK DEF Stepped
<1>4. CASE c.stack # <<>> /\ Top(c).rest # <<>>
  <2>1. Top(c).acc \in Value /\ NextOp(c).op \in {"READ", "WRITE", "REQUIRE", "CALL", "EMIT"}
    BY <1>1, <1>4, TopType
  <2>2. CASE NextOp(c).op = "READ"
    <3>1. Seen(c, base)[<<Top(c).service, NextOp(c).key>>] \in Value
      BY <1>1, <1>4, <2>2, TopType, SeenType
    <3> QED
      BY <1>4, <2>2, <3>1, ContinueOK DEF Stepped, HasRead
  <2>3. CASE NextOp(c).op = "WRITE"
    <3>1. CASE c.access = "READ_ONLY"
      BY <1>1, <1>4, <2>3, <3>1, FailedType DEF Stepped, HasWritten
    <3>2. CASE c.access # "READ_ONLY"
      BY <1>4, <2>3, <3>2, HasWrittenOK DEF Stepped
    <3> QED
      BY <3>1, <3>2
  <2>4. CASE NextOp(c).op = "REQUIRE"
    BY <1>1, <1>4, <2>1, <2>4, FailedType, ContinueOK DEF Stepped, HasRequired
  <2>5. CASE NextOp(c).op = "CALL"
    BY <1>4, <2>5, HasCalledOK DEF Stepped
  <2>6. CASE NextOp(c).op = "EMIT"
    BY <1>4, <2>6, HasEmittedOK DEF Stepped
  <2> QED
    BY <2>1, <2>2, <2>3, <2>4, <2>5, <2>6
<1> QED
  BY <1>2, <1>3, <1>4

---------------------------------------------------------------------------
(* What each step does to the stack and to the state the code sees.        *)

\* All but the stack.
SameRest(c, d) ==
  /\ d.receipts = c.receipts /\ d.deploying = c.deploying
  /\ d.transaction = c.transaction /\ d.events = c.events /\ d.batch = c.batch

LEMMA RestOfStack ==
  ASSUME NEW c \in Context, NEW d \in Context, d = [c EXCEPT !.stack = d.stack]
  PROVE  SameRest(c, d) /\ SameJob(c, d)
BY DEF Context, SameRest, SameJob

LEMMA SameSeen ==
  ASSUME NEW c, NEW d, SameRest(c, d), NEW base
  PROVE  Transients(d) = Transients(c) /\ Seen(d, base) = Seen(c, base)
BY DEF SameRest, Transients, Seen

LEMMA ContinueStack ==
  ASSUME NEW c \in Context, c.stack # <<>>, Top(c).rest # <<>>, NEW acc \in Value,
         NEW d, d = Continue(c, acc)
  PROVE  /\ d \in Context /\ SameRest(c, d) /\ SameJob(c, d)
         /\ d.stack # <<>> /\ Len(d.stack) = Len(c.stack)
         /\ Top(d) = [service |-> Top(c).service, rest |-> Tail(Top(c).rest), acc |-> acc]
         /\ \A i \in 1 .. Len(c.stack) - 1 : d.stack[i] = c.stack[i]
<1> DEFINE f == [service |-> Top(c).service, rest |-> Tail(Top(c).rest), acc |-> acc]
<1>1. d \in Context /\ d = [c EXCEPT !.stack = d.stack] /\ d.stack # <<>> /\ Len(d.stack) = Len(c.stack)
  BY ContinueType
<1>2. SameRest(c, d) /\ SameJob(c, d)
  BY <1>1, RestOfStack
<1>3. d.stack = [c.stack EXCEPT ![Len(c.stack)] = f]
  BY DEF Continue, Context
<1>4. c.stack \in Seq(Frame) /\ Len(c.stack) \in 1 .. Len(c.stack) /\ DOMAIN c.stack = 1 .. Len(c.stack)
  BY ContextFields, TopType
<1>. HIDE DEF f
<1>5. d.stack[Len(c.stack)] = f
  BY <1>3, <1>4
<1>6. \A i \in 1 .. Len(c.stack) - 1 : d.stack[i] = c.stack[i]
  BY <1>3, <1>4
<1>7. Top(d) = f
  BY <1>1, <1>5 DEF Top
<1> QED
  BY <1>1, <1>2, <1>6, <1>7 DEF f

LEMMA PushStack ==
  ASSUME NEW c \in Context, NEW call \in Call, NEW d, d = Push(c, call)
  PROVE  /\ d \in Context /\ SameRest(c, d) /\ SameJob(c, d)
         /\ d.stack # <<>> /\ Len(d.stack) = Len(c.stack) + 1
         /\ Top(d) = [service |-> call[1], rest |-> Body(call), acc |-> 0]
         /\ \A i \in 1 .. Len(c.stack) : d.stack[i] = c.stack[i]
<1> DEFINE f == [service |-> call[1], rest |-> Body(call), acc |-> 0]
<1>1. d \in Context /\ d = [c EXCEPT !.stack = d.stack] /\ d.stack # <<>>
  BY PushType
<1>2. SameRest(c, d) /\ SameJob(c, d)
  BY <1>1, RestOfStack
<1>3. d.stack = Append(c.stack, f)
  BY DEF Push, Context
<1>4. c.stack \in Seq(Frame) /\ f \in Frame
  BY ContextFields, BodyType
<1>. HIDE DEF f
<1>5. /\ Len(d.stack) = Len(c.stack) + 1 /\ d.stack[Len(c.stack) + 1] = f
      /\ \A i \in 1 .. Len(c.stack) : d.stack[i] = c.stack[i]
  BY <1>3, <1>4, AppendTo
<1>6. Top(d) = f
  BY <1>5 DEF Top
<1> QED
  BY <1>1, <1>2, <1>5, <1>6 DEF f

LEMMA PopStack ==
  ASSUME NEW c \in Context, c.stack # <<>>, Len(c.stack) # 1, NEW d, d = Pop(c)
  PROVE  /\ d \in Context /\ SameRest(c, d) /\ SameJob(c, d)
         /\ d.stack # <<>> /\ Len(c.stack) > 1 /\ Len(d.stack) = Len(c.stack) - 1
         /\ Top(d) = [service |-> c.stack[Len(c.stack) - 1].service,
                      rest |-> c.stack[Len(c.stack) - 1].rest, acc |-> Top(c).acc]
         /\ \A i \in 1 .. Len(c.stack) - 2 : d.stack[i] = c.stack[i]
<1> DEFINE caller == c.stack[Len(c.stack) - 1]
           f == [service |-> caller.service, rest |-> caller.rest, acc |-> Top(c).acc]
<1>1. d \in Context /\ d = [c EXCEPT !.stack = d.stack] /\ d.stack # <<>>
  BY PopType
<1>2. SameRest(c, d) /\ SameJob(c, d)
  BY <1>1, RestOfStack
<1>3. d.stack = Append(SubSeq(c.stack, 1, Len(c.stack) - 2), f)
  BY DEF Pop, Context
<1>4. c.stack \in Seq(Frame)
  BY ContextFields
<1>5. Len(c.stack) > 1
  BY <1>4, LongSeq
<1>6. f \in Frame
  <2>1. PICK n \in Nat : n = Len(c.stack)
    BY <1>4
  <2>2. n - 1 \in 1 .. n
    BY <1>5, <2>1
  <2>3. caller \in Frame
    BY <1>4, <2>1, <2>2
  <2> QED
    BY <2>3, TopType, FrameParts
<1>. HIDE DEF f
<1>7. /\ Len(d.stack) = Len(c.stack) - 1 /\ d.stack[Len(c.stack) - 1] = f
      /\ \A i \in 1 .. Len(c.stack) - 2 : d.stack[i] = c.stack[i]
  BY <1>3, <1>4, <1>5, <1>6, PopSeq
<1>8. Top(d) = f
  BY <1>7 DEF Top
<1> QED
  BY <1>1, <1>2, <1>5, <1>7, <1>8 DEF f

\* A failed transaction leaves the batch as it was, a successful one its writes on top.
LEMMA FailFields ==
  ASSUME NEW c \in Context, NEW result, NEW d, d = Fail(c, result)
  PROVE  /\ d.stack = <<>> /\ ~d.deploying /\ d.events = <<>>
         /\ d.transaction = Empty /\ d.batch = c.batch
         /\ d.receipts = Append(c.receipts, [result |-> result, output |-> 0,
                                             events |-> FailedEvents(c)])
         /\ SameJob(c, d)
BY DEF Fail, Context, SameJob

LEMMA SucceedFields ==
  ASSUME NEW c \in Context, NEW output, NEW d, d = Succeed(c, output)
  PROVE  /\ d.stack = <<>> /\ ~d.deploying /\ d.events = <<>>
         /\ d.transaction = Empty /\ d.batch = Transients(c)
         /\ d.receipts = IF c.deploying THEN c.receipts
                         ELSE Append(c.receipts, [result |-> "SUCCESS", output |-> output,
                                                  events |-> c.events])
         /\ SameJob(c, d)
BY DEF Succeed, Context, SameJob

\* With nothing in the transaction's transient state, code sees the batch.
LEMMA SeenBatch ==
  ASSUME NEW c \in Context, NEW base \in State, c.transaction = Empty
  PROVE  Transients(c) = c.batch /\ Seen(c, base) = Over(c.batch, base)
BY ContextFields, OverEmptyTransient DEF Transients, Seen

\* A write changes the one variable.
LEMMA WriteSeen ==
  ASSUME NEW c \in Context, c.stack # <<>>, Top(c).rest # <<>>, NextOp(c).op = "WRITE",
         c.access # "READ_ONLY", NEW base \in State, NEW d, d = HasWritten(c), NEW v,
         v = <<Top(c).service, NextOp(c).key>>
  PROVE  /\ d \in Context /\ d.stack # <<>> /\ Len(d.stack) = Len(c.stack)
         /\ d.batch = c.batch /\ d.events = c.events /\ d.receipts = c.receipts
         /\ d.deploying = c.deploying /\ SameJob(c, d)
         /\ Top(d) = [service |-> Top(c).service, rest |-> Tail(Top(c).rest), acc |-> Sum(c)]
         /\ \A i \in 1 .. Len(c.stack) - 1 : d.stack[i] = c.stack[i]
         /\ v \in Var
         /\ Seen(d, base) = [Seen(c, base) EXCEPT ![v] = Sum(c)]
<1> DEFINE one == [x \in {v} |-> Sum(c)]
           t == Over(one, c.transaction)
<1>1. Sum(c) \in Value /\ v \in Var
  BY SumType, TopType
<1>2. PICK k : k = Continue(c, Sum(c))
  OBVIOUS
<1>3. /\ k \in Context /\ SameRest(c, k) /\ SameJob(c, k)
      /\ k.stack # <<>> /\ Len(k.stack) = Len(c.stack)
      /\ Top(k) = [service |-> Top(c).service, rest |-> Tail(Top(c).rest), acc |-> Sum(c)]
      /\ \A i \in 1 .. Len(c.stack) - 1 : k.stack[i] = c.stack[i]
  BY <1>1, <1>2, ContinueStack
<1>4. one \in Transient /\ c.transaction \in Transient /\ t \in Transient
  <2>1. {v} \in SUBSET Var /\ one \in [{v} -> Value]
    BY <1>1
  <2>2. one \in Transient
    BY <2>1, TransientIntro
  <2> QED
    BY <2>2, OverTransient, ContextFields
<1>5. d = [k EXCEPT !.transaction = t]
  BY <1>2 DEF HasWritten
<1>6. DOMAIN one = {v} /\ one[v] = Sum(c)
  OBVIOUS
<1>. HIDE DEF one, t
<1>7. /\ d \in Context /\ d.stack = k.stack /\ d.transaction = t /\ d.batch = k.batch
      /\ d.events = k.events /\ d.receipts = k.receipts /\ d.deploying = k.deploying
      /\ SameJob(k, d)
  BY <1>3, <1>4, <1>5 DEF Context, SameJob
<1>8. Top(d) = Top(k)
  BY <1>7 DEF Top
<1>9. Seen(d, base) = [Seen(c, base) EXCEPT ![v] = Sum(c)]
  <2>1. c.batch \in Transient /\ d.batch = c.batch
    BY <1>3, <1>7, ContextFields DEF SameRest
  <2>2. Transients(c) \in Transient /\ Over(c.batch, base) \in State
    BY <2>1, TransientsType, OverState
  <2>3. Seen(c, base) = Over(c.transaction, Over(c.batch, base))
    BY <1>4, <2>1, OverOver DEF Seen, Transients
  <2>4. Seen(d, base) = Over(t, Over(c.batch, base))
    BY <1>4, <1>7, <2>1, OverOver DEF Seen, Transients
  <2>5. Over(t, Over(c.batch, base)) = Over(one, Seen(c, base))
    BY <1>4, <2>2, <2>3, OverOver DEF t
  <2>6. Seen(c, base) \in State
    BY SeenType
  <2>7. /\ Over(one, Seen(c, base)) \in State
        /\ \A x \in Var : Over(one, Seen(c, base))[x] = IF x \in {v} THEN one[x] ELSE Seen(c, base)[x]
    BY <1>4, <1>6, <2>6, OverState
  <2>8. Over(one, Seen(c, base)) = [Seen(c, base) EXCEPT ![v] = Sum(c)]
    BY <1>1, <1>6, <2>6, <2>7 DEF State
  <2> QED
    BY <2>4, <2>5, <2>8
<1> QED
  BY <1>1, <1>3, <1>7, <1>8, <1>9 DEF SameRest, SameJob

---------------------------------------------------------------------------
(* Induction on the naturals, as a fact about sets.                        *)

LEMMA NatSetInduction ==
  ASSUME NEW S, 0 \in S, \A n \in Nat : n \in S => n + 1 \in S
  PROVE  \A n \in Nat : n \in S
<1> DEFINE R == OpToRel(<, Nat)
           T == Nat \ S
<1>1. SUFFICES ASSUME T # {} PROVE FALSE
  OBVIOUS
<1>2. IsWellFoundedOn(R, Nat)
  BY NatLessThanWellFounded
<1>3. ASSUME NEW x \in Nat, NEW y \in Nat, y < x
      PROVE  <<y, x>> \in R
  BY <1>3 DEF OpToRel
<1>. HIDE DEF R
<1>4. T \subseteq Nat
  OBVIOUS
<1>5. PICK x \in T : \A y \in T : ~ (<<y, x>> \in R)
  BY <1>1, <1>2, <1>4, WFMin
<1>6. x \in Nat /\ x \notin S
  OBVIOUS
<1>7. x # 0
  BY <1>6
<1>8. x - 1 \in Nat /\ x - 1 < x /\ (x - 1) + 1 = x
  BY <1>6, <1>7
<1>9. x - 1 \in S
  BY <1>3, <1>5, <1>6, <1>8
<1> QED
  BY <1>6, <1>8, <1>9

\* A set of numbers up to n has a greatest one.
LEMMA Greatest ==
  ASSUME NEW n \in Nat, NEW T \in SUBSET (1 .. n), T # {}
  PROVE  \E h \in T : \A other \in T : other <= h
<1> DEFINE Has(m) == \A U \in SUBSET (1 .. m) :
                       U # {} => \E h \in U : \A other \in U : other <= h
           S == {m \in Nat : Has(m)}
<1>1. 0 \in S
  <2>1. 1 .. 0 = {}
    OBVIOUS
  <2> QED
    BY <2>1
<1>2. ASSUME NEW m \in Nat, m \in S
      PROVE  m + 1 \in S
  <2>1. SUFFICES ASSUME NEW U \in SUBSET (1 .. m + 1), U # {}
                 PROVE  \E h \in U : \A other \in U : other <= h
    OBVIOUS
  <2>2. CASE m + 1 \in U
    <3>1. \A other \in U : other <= m + 1
      OBVIOUS
    <3> QED
      BY <2>2, <3>1
  <2>3. CASE m + 1 \notin U
    <3>1. U \in SUBSET (1 .. m)
      BY <2>3
    <3> QED
      BY <1>2, <2>1, <3>1
  <2> QED
    BY <2>2, <2>3
<1>. HIDE DEF S
<1>3. n \in S
  BY <1>1, <1>2, NatSetInduction
<1> QED
  BY <1>3 DEF S

---------------------------------------------------------------------------
(* The states that StateStorage gives out.                                 *)

BlockOf == [txs : Seq(Call), receipts : Seq(Receipt), diff : Transient]

\* Who changed v up to a height of a chain.
Writers(ch, height, v) == {h \in 1 .. height : v \in DOMAIN ch[h].diff}

LastWriter(ch, height, v) ==
  CHOOSE h \in Writers(ch, height, v) : \A other \in Writers(ch, height, v) : other <= h

LastValue(ch, height, v) ==
  IF Writers(ch, height, v) = {} THEN 0 ELSE ch[LastWriter(ch, height, v)].diff[v]

StateIn(ch, height) == [v \in Var |-> LastValue(ch, height, v)]

LEMMA StateAtIs ==
  ASSUME NEW height
  PROVE  StateAt(height) = StateIn(chain, height) /\ StateAt(height)' = StateIn(chain', height)
BY DEF StateAt, StateIn, LastValue, LastWriter, Writers

LEMMA LastWriterIs ==
  ASSUME NEW ch, NEW height \in Nat, NEW v, Writers(ch, height, v) # {}
  PROVE  /\ LastWriter(ch, height, v) \in Writers(ch, height, v)
         /\ \A other \in Writers(ch, height, v) : other <= LastWriter(ch, height, v)
<1>1. Writers(ch, height, v) \in SUBSET (1 .. height)
  BY DEF Writers
<1>2. \E h \in Writers(ch, height, v) : \A other \in Writers(ch, height, v) : other <= h
  BY <1>1, Greatest
<1> QED
  BY <1>2 DEF LastWriter

LEMMA BlockType ==
  ASSUME NEW ch \in Seq(BlockOf), NEW height \in Nat, height <= Len(ch), NEW h \in 1 .. height
  PROVE  h \in 1 .. Len(ch) /\ ch[h] \in BlockOf /\ ch[h].diff \in Transient
<1>1. Len(ch) \in Nat
  OBVIOUS
<1>2. h \in 1 .. Len(ch)
  BY <1>1
<1>3. ch[h] \in BlockOf
  BY <1>2, ElementOfSeq
<1> QED
  BY <1>2, <1>3 DEF BlockOf

LEMMA StateInType ==
  ASSUME NEW ch \in Seq(BlockOf), NEW height \in Nat, height <= Len(ch)
  PROVE  StateIn(ch, height) \in State
<1>1. ASSUME NEW v \in Var
      PROVE  LastValue(ch, height, v) \in Value
  <2>1. CASE Writers(ch, height, v) = {}
    BY <2>1, ValueZero DEF LastValue
  <2>2. CASE Writers(ch, height, v) # {}
    <3>1. PICK h : h = LastWriter(ch, height, v) /\ h \in Writers(ch, height, v)
      BY <2>2, LastWriterIs
    <3>2. h \in 1 .. height /\ v \in DOMAIN ch[h].diff
      BY <3>1 DEF Writers
    <3>3. ch[h].diff \in Transient
      BY <3>2, BlockType
    <3> QED
      BY <2>2, <3>1, <3>2, <3>3, TransientElim DEF LastValue
  <2> QED
    BY <2>1, <2>2
<1> QED
  BY <1>1 DEF State, StateIn

\* The blocks to come change no state below them.
LEMMA StateInStable ==
  ASSUME NEW ch \in Seq(BlockOf), NEW block \in BlockOf, NEW height \in Nat, height <= Len(ch)
  PROVE  StateIn(Append(ch, block), height) = StateIn(ch, height)
<1>0. PICK longer : longer = Append(ch, block)
  OBVIOUS
<1>1. \A h \in 1 .. height : longer[h] = ch[h]
  BY <1>0, BlockType, AppendTo
<1>2. ASSUME NEW v \in Var
      PROVE  LastValue(longer, height, v) = LastValue(ch, height, v)
  <2>1. Writers(longer, height, v) = Writers(ch, height, v)
    BY <1>1 DEF Writers
  <2>2. LastWriter(longer, height, v) = LastWriter(ch, height, v)
    BY <2>1 DEF LastWriter
  <2>3. CASE Writers(ch, height, v) = {}
    BY <2>1, <2>3 DEF LastValue
  <2>4. CASE Writers(ch, height, v) # {}
    <3>1. PICK h : h = LastWriter(ch, height, v) /\ h \in Writers(ch, height, v)
      BY <2>4, LastWriterIs
    <3>2. h \in 1 .. height
      BY <3>1 DEF Writers
    <3> QED
      BY <1>1, <2>1, <2>2, <2>4, <3>1, <3>2 DEF LastValue
  <2> QED
    BY <2>3, <2>4
<1> QED
  BY <1>0, <1>2 DEF StateIn

\* A block's diff over the state below it is the state at its height.
LEMMA StateInNext ==
  ASSUME NEW ch \in Seq(BlockOf), NEW block \in BlockOf
  PROVE  StateIn(Append(ch, block), Len(ch) + 1) = Over(block.diff, StateIn(ch, Len(ch)))
<1>0. PICK m \in Nat : m = Len(ch)
  OBVIOUS
<1>1. PICK longer : longer = Append(ch, block)
  OBVIOUS
<1>2. /\ \A h \in 1 .. m : longer[h] = ch[h]
      /\ longer[m + 1] = block
  <2>1. longer[Len(ch) + 1] = block /\ \A h \in 1 .. Len(ch) : longer[h] = ch[h]
    BY <1>1, AppendTo
  <2> QED
    BY <1>0, <2>1
<1>3. StateIn(ch, m) \in State /\ block.diff \in Transient
  <2>1. m <= m
    OBVIOUS
  <2>2. m <= Len(ch)
    BY <1>0, <2>1
  <2> QED
    BY <2>2, StateInType DEF BlockOf
<1>4. ASSUME NEW v \in Var
      PROVE  LastValue(longer, m + 1, v) =
               IF v \in DOMAIN block.diff THEN block.diff[v] ELSE LastValue(ch, m, v)
  <2>1. m + 1 \in 1 .. m + 1
    OBVIOUS
  <2>11. \A h \in 1 .. m + 1 : h \in 1 .. m \/ h = m + 1
    OBVIOUS
  <2>2. CASE v \in DOMAIN block.diff
    <3>1. m + 1 \in Writers(longer, m + 1, v)
      BY <1>2, <2>1, <2>2 DEF Writers
    <3>2. PICK h : h = LastWriter(longer, m + 1, v)
      OBVIOUS
    <3>3. h \in Writers(longer, m + 1, v) /\ \A other \in Writers(longer, m + 1, v) : other <= h
      BY <3>1, <3>2, LastWriterIs
    <3>4. h \in 1 .. m + 1 /\ m + 1 <= h
      BY <3>1, <3>3 DEF Writers
    <3>5. h = m + 1
      BY <3>4
    <3> QED
      BY <1>2, <2>2, <3>1, <3>2, <3>5 DEF LastValue
  <2>3. CASE v \notin DOMAIN block.diff
    <3>1. Writers(longer, m + 1, v) = Writers(ch, m, v)
      <4>1. ASSUME NEW h \in 1 .. m + 1, v \in DOMAIN longer[h].diff
            PROVE  h \in 1 .. m
        BY <1>2, <2>11, <2>3, <4>1
      <4>2. ASSUME NEW h \in 1 .. m
            PROVE  h \in 1 .. m + 1
        OBVIOUS
      <4> QED
        BY <1>2, <4>1, <4>2 DEF Writers
    <3>2. LastWriter(longer, m + 1, v) = LastWriter(ch, m, v)
      BY <3>1 DEF LastWriter
    <3>3. CASE Writers(ch, m, v) = {}
      BY <2>3, <3>1, <3>3 DEF LastValue
    <3>4. CASE Writers(ch, m, v) # {}
      <4>1. PICK h : h = LastWriter(ch, m, v) /\ h \in Writers(ch, m, v)
        BY <3>4, LastWriterIs
      <4>2. h \in 1 .. m
        BY <4>1 DEF Writers
      <4> QED
        BY <1>2, <2>3, <3>1, <3>2, <3>4, <4>1, <4>2 DEF LastValue
    <3> QED
      BY <3>3, <3>4
  <2> QED
    BY <2>2, <2>3
<1>5. /\ Over(block.diff, StateIn(ch, m)) \in State
      /\ \A v \in Var : Over(block.diff, StateIn(ch, m))[v] =
                       IF v \in DOMAIN block.diff THEN block.diff[v] ELSE LastValue(ch, m, v)
  BY <1>3, OverState DEF StateIn
<1>6. StateIn(longer, m + 1) = Over(block.diff, StateIn(ch, m))
  BY <1>4, <1>5 DEF State, StateIn
<1> QED
  BY <1>0, <1>1, <1>6

---------------------------------------------------------------------------
(* Every step of an execution is Stepped, or it is left without a result.  *)

\* VMTypeOK, and what else is known of each context by itself.
TypeInv ==
  /\ VMTypeOK
  /\ \A e \in Node \X Slot : ContextOK(context[e]) /\ context[e].height <= Len(chain)

LEMMA TypeFacts ==
  ASSUME TypeInv
  PROVE  /\ chain \in Seq(BlockOf) /\ Len(chain) \in Nat
         /\ \A e \in Node \X Slot :
              /\ ContextOK(context[e]) /\ context[e] \in Context
              /\ context[e].height \in Nat /\ context[e].height <= Len(chain)
              /\ StateAt(context[e].height) = StateIn(chain, context[e].height)
              /\ StateAt(context[e].height) \in State
<1>1. chain \in Seq(BlockOf)
  BY DEF TypeInv, VMTypeOK, BlockOf
<1>2. Len(chain) \in Nat
  BY <1>1
<1>3. ASSUME NEW e \in Node \X Slot
      PROVE  /\ ContextOK(context[e]) /\ context[e] \in Context
             /\ context[e].height \in Nat /\ context[e].height <= Len(chain)
  BY ContextFields DEF TypeInv, ContextOK
<1> QED
  BY <1>1, <1>2, <1>3, StateAtIs, StateInType

LEMMA LookupSeen ==
  ASSUME NEW n, NEW c \in Context, StateAt(c.height) \in State, NEW v \in Var
  PROVE  Lookup(n, c, v) = Seen(c, StateAt(c.height))[v]
BY SeenType DEF Lookup

Sole(e, d) ==
  /\ context' = [context EXCEPT ![e] = d]
  /\ UNCHANGED <<chain, stored, proposal, refused>>

LEMMA ExecuteIs ==
  ASSUME TypeInv, NEW e \in Node \X Slot, Execute(e)
  PROVE  \/ Sole(e, NoContext)
         \/ Active(context[e]) /\ Sole(e, Stepped(context[e], StateAt(context[e].height)))
<1> DEFINE c == context[e]
           base == StateAt(c.height)
<1>1. c \in Context /\ ContextOK(c) /\ base \in State
  BY TypeFacts
<1>2. \A d : Step(e, d) => Sole(e, d)
  BY DEF Step, Sole
<1>3. ASSUME NEW v \in Var
      PROVE  Lookup(e[1], c, v) = Seen(c, base)[v]
  BY <1>1, LookupSeen
<1>. HIDE DEF c, base
<1>4. CASE StartTransaction(e)
  <2> DEFINE call == c.txs[Len(c.receipts) + 1]
  <2>1. ~Executed(c) /\ c.stack = <<>>
    BY <1>4 DEF StartTransaction, c
  <2>2. call[1] # Deployments => Processor(call[1]) \in Var
    BY <1>1, <2>1, NextCall
  <2>3. (\A s \in {call[1]} \ {Deployments} : Lookup(e[1], c, Processor(s)) # 0)
          <=> (call[1] = Deployments \/ Seen(c, base)[Processor(call[1])] # 0)
    BY <1>3, <2>2
  <2>4. Step(e, Begun(c, base))
    BY <1>4, <2>3 DEF StartTransaction, Begun, c
  <2> QED
    BY <1>2, <2>1, <2>4 DEF Active, Stepped, c, base
<1>5. CASE StateRead(e)
  <2>1. c.stack # <<>> /\ Top(c).rest # <<>> /\ NextOp(c).op = "READ"
    BY <1>5 DEF StateRead, Running, c
  <2>2. <<Top(c).service, NextOp(c).key>> \in Var
    BY <1>1, <2>1, TopType
  <2>3. Step(e, HasRead(c, base))
    BY <1>3, <1>5, <2>2 DEF StateRead, HasRead, c
  <2> QED
    BY <1>2, <2>1, <2>3 DEF Active, Stepped, c, base
<1>6. CASE StateWrite(e)
  <2>1. c.stack # <<>> /\ Top(c).rest # <<>> /\ NextOp(c).op = "WRITE"
    BY <1>6 DEF StateWrite, Running, c
  <2>2. Step(e, HasWritten(c))
    BY <1>6 DEF StateWrite, HasWritten, Sum, c
  <2> QED
    BY <1>2, <2>1, <2>2 DEF Active, Stepped, c, base
<1>7. CASE Require(e)
  <2>1. c.stack # <<>> /\ Top(c).rest # <<>> /\ NextOp(c).op = "REQUIRE"
    BY <1>7 DEF Require, Running, c
  <2>2. Step(e, HasRequired(c))
    BY <1>7 DEF Require, HasRequired, c
  <2> QED
    BY <1>2, <2>1, <2>2 DEF Active, Stepped, c, base
<1>8. CASE CallMethod(e)
  <2>1. c.stack # <<>> /\ Top(c).rest # <<>> /\ NextOp(c).op = "CALL"
    BY <1>8 DEF CallMethod, Running, c
  <2>2. NextOp(c).call \in Call
    BY <1>1, <2>1, TopType
  <2>3. NextOp(c).call[1] \in Registry \/ Processor(NextOp(c).call[1]) \in Var
    BY <2>2 DEF Call, Registry, Processor, Var
  <2>4. Step(e, HasCalled(c, base))
    BY <1>3, <1>8, <2>3 DEF CallMethod, HasCalled, Exists, c
  <2> QED
    BY <1>2, <2>1, <2>4 DEF Active, Stepped, c, base
<1>9. CASE EmitEvent(e)
  <2>1. c.stack # <<>> /\ Top(c).rest # <<>> /\ NextOp(c).op = "EMIT"
    BY <1>9 DEF EmitEvent, Running, c
  <2>2. Step(e, HasEmitted(c))
    BY <1>9 DEF EmitEvent, HasEmitted, c
  <2> QED
    BY <1>2, <2>1, <2>2 DEF Active, Stepped, c, base
<1>10. CASE Return(e)
  <2>1. c.stack # <<>> /\ Top(c).rest = <<>>
    BY <1>10 DEF Return, c
  <2>2. Step(e, HasReturned(c))
    BY <1>10 DEF Return, HasReturned, c
  <2> QED
    BY <1>2, <2>1, <2>2 DEF Active, Stepped, c, base
<1>11. CASE ReadFails(e)
  BY <1>2, <1>11 DEF ReadFails
<1> QED
  BY <1>4, <1>5, <1>6, <1>7, <1>8, <1>9, <1>10, <1>11 DEF Execute

---------------------------------------------------------------------------
(* Types.                                                                  *)

LEMMA DiffType ==
  ASSUME NEW c \in Context
  PROVE  Diff(c) \in Transient
<1> DEFINE S == {x \in DOMAIN c.batch : c.batch[x] # StateAt(c.height)[x]}
<1>1. c.batch \in Transient
  BY ContextFields
<1>2. S \in SUBSET Var
  BY <1>1, TransientElim
<1>3. Diff(c) \in [S -> Value]
  BY <1>1, TransientElim DEF Diff
<1> QED
  BY <1>2, <1>3, TransientIntro

LEMMA ResultsType ==
  ASSUME TypeInv, NEW e \in Node \X Slot
  PROVE  ResultsOf(context[e]) \in Results
<1>1. context[e] \in Context /\ StateAt(context[e].height) \in [Var -> Value]
  BY TypeFacts DEF State
<1>2. context[e].receipts \in Seq(Receipt) /\ Diff(context[e]) \in Transient
  BY <1>1, ContextFields, DiffType
<1> QED
  BY <1>1, <1>2 DEF ResultsOf, Results

\* One context is replaced, and the chain is as long or longer.
LEMMA OneContext ==
  ASSUME TypeInv, NEW e \in Node \X Slot, NEW d, ContextOK(d), d.height <= Len(chain),
         chain' = chain, context' = [context EXCEPT ![e] = d]
  PROVE  /\ context' \in [Node \X Slot -> Context]
         /\ \A x \in Node \X Slot : ContextOK(context'[x]) /\ context'[x].height <= Len(chain')
<1>1. context \in [Node \X Slot -> Context] /\ d \in Context
  BY DEF TypeInv, VMTypeOK, ContextOK
<1>2. \A x \in Node \X Slot : context'[x] = IF x = e THEN d ELSE context[x]
  BY <1>1
<1> QED
  BY <1>1, <1>2 DEF TypeInv

LEMMA TypeInit ==
  ASSUME Init
  PROVE  TypeInv
<1>1. ContextOK(NoContext) /\ NoContext \in Context /\ NoContext.height = 0
  BY NoContextOK DEF ContextOK, NoContext, Allocate
<1>2. Len(chain) = 0 /\ chain \in Seq([txs : Seq(Call), receipts : Seq(Receipt), diff : Transient])
  BY DEF Init
<1>3. stored \in [Node -> 0 .. Len(chain)]
  BY <1>2 DEF Init
<1>4. /\ context \in [Node \X Slot -> Context]
      /\ \A e \in Node \X Slot : context[e] = NoContext
  BY <1>1 DEF Init
<1>5. proposal = {} /\ refused = {}
  BY DEF Init
<1>6. VMTypeOK
  BY <1>2, <1>3, <1>4, <1>5 DEF VMTypeOK
<1> QED
  BY <1>1, <1>2, <1>4, <1>6 DEF TypeInv

LEMMA TypeStep ==
  ASSUME TypeInv, [Next]_vars
  PROVE  TypeInv'
<1> DEFINE Blocks == Seq([txs : Seq(Call), receipts : Seq(Receipt), diff : Transient])
           Proposals == SUBSET [txs : Seq(Call), results : Results, approved : SUBSET Node]
           ContextsOK == /\ context' \in [Node \X Slot -> Context]
                         /\ \A e \in Node \X Slot :
                              ContextOK(context'[e]) /\ context'[e].height <= Len(chain')
<1>1. /\ chain \in Blocks /\ Len(chain) \in Nat
      /\ stored \in [Node -> 0 .. Len(chain)]
      /\ proposal \in Proposals
      /\ context \in [Node \X Slot -> Context]
      /\ refused \subseteq Node
      /\ \A e \in Node \X Slot : ContextOK(context[e]) /\ context[e].height <= Len(chain)
  BY TypeFacts DEF TypeInv, VMTypeOK
<1>2. ASSUME chain' \in Blocks, stored' \in [Node -> 0 .. Len(chain')],
             proposal' \in Proposals, refused' \subseteq Node, ContextsOK
      PROVE  TypeInv'
  BY <1>2 DEF TypeInv, VMTypeOK
<1>3. ASSUME NEW e \in Node \X Slot, NEW d, ContextOK(d), d.height <= Len(chain), Sole(e, d)
      PROVE  TypeInv'
  <2>1. ContextsOK
    BY <1>3, OneContext DEF Sole
  <2> QED
    BY <1>1, <1>2, <1>3, <2>1 DEF Sole
<1>4. ContextOK(NoContext) /\ NoContext.height <= Len(chain)
  BY <1>1, NoContextOK DEF NoContext, Allocate
<1>. HIDE DEF Blocks, Proposals, ContextsOK
<1>5. ASSUME UNCHANGED vars
      PROVE  TypeInv'
  <2>1. ContextsOK
    BY <1>1, <1>5 DEF vars, ContextsOK
  <2> QED
    BY <1>1, <1>2, <1>5, <2>1 DEF vars
<1>6. ASSUME NEW n \in Node, CommitStateDiff(n)
      PROVE  TypeInv'
  <2>1. UNCHANGED <<chain, proposal, context, refused>>
    BY <1>6 DEF CommitStateDiff
  <2>2. stored[n] + 1 \in 0 .. Len(chain)
    BY <1>1, <1>6 DEF CommitStateDiff
  <2>3. stored' \in [Node -> 0 .. Len(chain')]
    BY <1>1, <1>6, <2>1, <2>2 DEF CommitStateDiff
  <2>4. ContextsOK
    BY <1>1, <2>1 DEF ContextsOK
  <2> QED
    BY <1>1, <1>2, <2>1, <2>3, <2>4
<1>7. ASSUME NEW n \in Node, ProposeResults(n)
      PROVE  TypeInv'
  <2> DEFINE e == <<n, "BLOCK">>
             c == context[e]
             p == [txs |-> c.txs, results |-> ResultsOf(c), approved |-> {n}]
  <2>1. e \in Node \X Slot /\ UNCHANGED <<chain, stored, refused>>
    BY <1>7 DEF ProposeResults, Slot
  <2>2. context' = [context EXCEPT ![e] = NoContext]
    BY <1>7 DEF ProposeResults
  <2>3. ContextsOK
    BY <1>4, <2>1, <2>2, OneContext DEF ContextsOK
  <2>4. ResultsOf(c) \in Results /\ c.txs \in Seq(Call)
    BY <1>1, <2>1, ResultsType, ContextFields
  <2>5. proposal' = proposal \/ proposal' = {p}
    BY <1>7 DEF ProposeResults, Block
  <2>. HIDE DEF c
  <2>6. p \in [txs : Seq(Call), results : Results, approved : SUBSET Node]
    BY <2>4
  <2>. HIDE DEF p
  <2>7. proposal' \in Proposals
    BY <1>1, <2>5, <2>6 DEF Proposals
  <2> QED
    BY <1>1, <1>2, <2>1, <2>3, <2>7
<1>8. ASSUME NEW n \in Node, ValidateResultsBlock(n)
      PROVE  TypeInv'
  <2> DEFINE e == <<n, "BLOCK">>
  <2>1. PICK p \in proposal : \/ /\ context' = [context EXCEPT ![e] =
                                       Allocate("READ_WRITE", Len(chain), p.txs, p.results)]
                                 /\ UNCHANGED refused
                              \/ refused' = refused \cup {n} /\ UNCHANGED context
    BY <1>8 DEF ValidateResultsBlock
  <2>2. e \in Node \X Slot /\ UNCHANGED <<chain, stored, proposal>>
    BY <1>8 DEF ValidateResultsBlock, Slot
  <2>3. p.txs \in Seq(Call) /\ p.results \in Results
    BY <1>1 DEF Proposals
  <2>4. PICK d : d = Allocate("READ_WRITE", Len(chain), p.txs, p.results)
    OBVIOUS
  <2>5. ContextOK(d) /\ d.height = Len(chain)
    BY <1>1, <2>3, <2>4, NewContext DEF Allocate
  <2>6. ContextsOK
    <3>1. CASE context' = [context EXCEPT ![e] = d]
      <4>1. d.height <= Len(chain)
        BY <1>1, <2>5
      <4> QED
        BY <2>2, <2>5, <3>1, <4>1, OneContext DEF ContextsOK
    <3>2. CASE UNCHANGED context
      BY <1>1, <2>2, <3>2 DEF ContextsOK
    <3> QED
      BY <2>1, <2>4, <3>1, <3>2
  <2>7. refused' \subseteq Node
    BY <1>1, <2>1
  <2> QED
    BY <1>1, <1>2, <2>2, <2>6, <2>7
<1>9. ASSUME NEW n \in Node, CompareResults(n)
      PROVE  TypeInv'
  <2> DEFINE e == <<n, "BLOCK">>
  <2>1. e \in Node \X Slot /\ UNCHANGED <<chain, stored>>
    BY <1>9 DEF CompareResults, Slot
  <2>2. context' = [context EXCEPT ![e] = NoContext]
    BY <1>9 DEF CompareResults
  <2>3. ContextsOK
    BY <1>4, <2>1, <2>2, OneContext DEF ContextsOK
  <2>4. refused' \subseteq Node
    BY <1>1, <1>9 DEF CompareResults
  <2>5. ASSUME NEW q \in proposal'
        PROVE  q \in [txs : Seq(Call), results : Results, approved : SUBSET Node]
    <3>1. PICK p \in proposal : q = [p EXCEPT !.approved = p.approved \cup {n}] \/ q = [p EXCEPT !.approved = p.approved]
      BY <1>9 DEF CompareResults
    <3>2. p \in [txs : Seq(Call), results : Results, approved : SUBSET Node]
      BY <1>1 DEF Proposals
    <3> QED
      BY <3>1, <3>2
  <2>6. proposal' \in Proposals
    BY <2>5 DEF Proposals
  <2> QED
    BY <1>1, <1>2, <2>1, <2>3, <2>4, <2>6
<1>10. ASSUME NEW n \in Leader, RequestNewResultsBlock(n)
       PROVE  TypeInv'
  <2>1. PICK txs \in TransactionSet :
          Step(<<n, "BLOCK">>, Allocate("READ_WRITE", Len(chain), txs, NoResults))
    BY <1>10 DEF RequestNewResultsBlock
  <2>2. PICK d : d = Allocate("READ_WRITE", Len(chain), txs, NoResults)
    OBVIOUS
  <2>3. ContextOK(d) /\ d.height = Len(chain)
    BY <1>1, <2>2, NewContext, ContractAssumption DEF Allocate
  <2>4. d.height <= Len(chain)
    BY <1>1, <2>3
  <2>5. <<n, "BLOCK">> \in Node \X Slot /\ Sole(<<n, "BLOCK">>, d)
    BY <2>1, <2>2, ContractAssumption DEF Slot, Step, Sole
  <2> QED
    BY <1>3, <2>3, <2>4, <2>5
<1>11. ASSUME NEW n \in Gateway, ProcessQuery(n)
       PROVE  TypeInv'
  <2>1. PICK call \in Query :
          Step(<<n, "QUERY">>, Allocate("READ_ONLY", stored[n], <<call>>, NoResults))
    BY <1>11 DEF ProcessQuery
  <2>2. n \in Node /\ <<call>> \in Seq(Call)
    BY ContractAssumption
  <2>3. stored[n] \in Nat /\ stored[n] <= Len(chain)
    BY <1>1, <2>2
  <2>4. PICK d : d = Allocate("READ_ONLY", stored[n], <<call>>, NoResults)
    OBVIOUS
  <2>5. ContextOK(d) /\ d.height = stored[n]
    BY <2>2, <2>3, <2>4, NewContext DEF Allocate
  <2>6. <<n, "QUERY">> \in Node \X Slot /\ Sole(<<n, "QUERY">>, d)
    BY <2>1, <2>2, <2>4 DEF Slot, Step, Sole
  <2> QED
    BY <1>3, <2>3, <2>5, <2>6
<1>12. ASSUME NEW e \in Node \X Slot, Execute(e)
       PROVE  TypeInv'
  <2>1. CASE Sole(e, NoContext)
    BY <1>3, <1>4, <2>1
  <2>2. CASE Active(context[e]) /\ Sole(e, Stepped(context[e], StateAt(context[e].height)))
    <3>1. PICK d : d = Stepped(context[e], StateAt(context[e].height))
      OBVIOUS
    <3>2. ContextOK(d) /\ d.height = context[e].height
      BY <2>2, <3>1, TypeFacts, SteppedOK DEF SameJob
    <3> QED
      BY <1>1, <1>3, <2>2, <3>1, <3>2
  <2> QED
    BY <1>12, <2>1, <2>2, ExecuteIs
<1>13. ASSUME CommitProposal
       PROVE  TypeInv'
  <2>1. PICK p \in proposal : chain' = Append(chain, [txs |-> p.txs,
                              receipts |-> p.results.receipts, diff |-> p.results.diff])
    BY <1>13 DEF CommitProposal
  <2>2. proposal' = {} /\ UNCHANGED <<stored, context, refused>>
    BY <1>13 DEF CommitProposal
  <2>3. PICK b : b = [txs |-> p.txs, receipts |-> p.results.receipts, diff |-> p.results.diff]
    OBVIOUS
  <2>4. b \in [txs : Seq(Call), receipts : Seq(Receipt), diff : Transient]
    BY <1>1, <2>3 DEF Proposals, Results
  <2>5. chain' \in Blocks /\ Len(chain') = Len(chain) + 1
    BY <1>1, <2>1, <2>3, <2>4, AppendTo DEF Blocks
  <2>6. stored' \in [Node -> 0 .. Len(chain')]
    <3>1. 0 .. Len(chain) \subseteq 0 .. Len(chain) + 1
      BY <1>1
    <3> QED
      BY <1>1, <2>2, <2>5, <3>1
  <2>7. ContextsOK
    <3>1. ASSUME NEW e \in Node \X Slot
          PROVE  context[e].height <= Len(chain) + 1
      <4>1. context[e].height \in Nat
        BY TypeFacts
      <4> QED
        BY <1>1, <4>1
    <3> QED
      BY <1>1, <2>2, <2>5, <3>1 DEF ContextsOK
  <2>8. proposal' \in Proposals
    BY <2>2 DEF Proposals
  <2> QED
    BY <1>1, <1>2, <2>2, <2>5, <2>6, <2>7, <2>8
<1>14. ASSUME GiveUpProposal
       PROVE  TypeInv'
  <2>1. proposal' = {} /\ UNCHANGED <<chain, stored, context, refused>>
    BY <1>14 DEF GiveUpProposal
  <2>2. ContextsOK /\ proposal' \in Proposals
    BY <1>1, <2>1 DEF ContextsOK, Proposals
  <2> QED
    BY <1>1, <1>2, <2>1, <2>2
<1> QED
  BY <1>5, <1>6, <1>7, <1>8, <1>9, <1>10, <1>11, <1>12, <1>13, <1>14 DEF Next

\* Every variable has its type, a running method belongs to a transaction still to be
\* done, and an execution is on a state of the chain (CommitStateDiff, ProcessCall).
THEOREM VMTypesCorrect == Spec => []VMTypeOK
<1>1. Init => TypeInv
  BY TypeInit
<1>2. TypeInv /\ [Next]_vars => TypeInv'
  BY TypeStep
<1>3. TypeInv => VMTypeOK
  BY DEF TypeInv
<1> QED
  BY <1>1, <1>2, <1>3, PTL DEF Spec

---------------------------------------------------------------------------
(* What the results are compared with has no influence on them.            *)

Bare(c) == [c EXCEPT !.expected = NoResults]

LEMMA BareType ==
  ASSUME NEW c, ContextOK(c)
  PROVE  /\ ContextOK(Bare(c)) /\ Bare(c) \in Context /\ Bare(c).expected = NoResults
         /\ Bare(c).access = c.access /\ Bare(c).height = c.height /\ Bare(c).txs = c.txs
         /\ Bare(c).receipts = c.receipts /\ Bare(c).deploying = c.deploying
         /\ Bare(c).stack = c.stack /\ Bare(c).transaction = c.transaction
         /\ Bare(c).events = c.events /\ Bare(c).batch = c.batch
<1>1. c \in Context
  BY DEF ContextOK
<1>2. Bare(c) \in Context
  BY <1>1 DEF Bare, Context
<1>3. /\ Bare(c).expected = NoResults
      /\ Bare(c).access = c.access /\ Bare(c).height = c.height /\ Bare(c).txs = c.txs
      /\ Bare(c).receipts = c.receipts /\ Bare(c).deploying = c.deploying
      /\ Bare(c).stack = c.stack /\ Bare(c).transaction = c.transaction
      /\ Bare(c).events = c.events /\ Bare(c).batch = c.batch
  BY <1>1 DEF Bare, Context
<1> QED
  BY <1>2, <1>3 DEF ContextOK, Executed

LEMMA BareParts ==
  ASSUME NEW c, ContextOK(c), NEW base
  PROVE  /\ Top(Bare(c)) = Top(c) /\ NextOp(Bare(c)) = NextOp(c)
         /\ Executed(Bare(c)) <=> Executed(c)
         /\ Active(Bare(c)) <=> Active(c)
         /\ Transients(Bare(c)) = Transients(c)
         /\ Seen(Bare(c), base) = Seen(c, base)
BY BareType DEF Top, NextOp, Executed, Active, Transients, Seen

LEMMA BareSteps ==
  ASSUME NEW c, ContextOK(c)
  PROVE  /\ \A acc : Continue(Bare(c), acc) = Bare(Continue(c, acc))
         /\ \A call : Push(Bare(c), call) = Bare(Push(c, call))
         /\ \A result : Fail(Bare(c), result) = Bare(Fail(c, result))
         /\ \A output : Succeed(Bare(c), output) = Bare(Succeed(c, output))
         /\ Pop(Bare(c)) = Bare(Pop(c))
         /\ Failed(Bare(c)) = Bare(Failed(c))
<1>1. c \in Context
  BY DEF ContextOK
<1>2. PICK b : b = Bare(c)
  OBVIOUS
<1>3. /\ b.deploying = c.deploying /\ b.receipts = c.receipts /\ b.stack = c.stack
      /\ b.events = c.events /\ Top(b) = Top(c) /\ Transients(b) = Transients(c)
  BY <1>2, BareType, BareParts
<1>4. ASSUME NEW s
      PROVE  [b EXCEPT !.stack = s] = [[c EXCEPT !.stack = s] EXCEPT !.expected = NoResults]
  BY <1>1, <1>2 DEF Bare, Context
<1>5. ASSUME NEW r
      PROVE  [b EXCEPT !.receipts = r, !.deploying = FALSE, !.stack = <<>>,
                       !.events = <<>>, !.transaction = Empty] =
             [[c EXCEPT !.receipts = r, !.deploying = FALSE, !.stack = <<>>,
                       !.events = <<>>, !.transaction = Empty] EXCEPT !.expected = NoResults]
  BY <1>1, <1>2 DEF Bare, Context
<1>6. ASSUME NEW r, NEW t
      PROVE  [b EXCEPT !.receipts = r, !.deploying = FALSE, !.stack = <<>>,
                       !.events = <<>>, !.transaction = Empty, !.batch = t] =
             [[c EXCEPT !.receipts = r, !.deploying = FALSE, !.stack = <<>>,
                       !.events = <<>>, !.transaction = Empty, !.batch = t] EXCEPT !.expected = NoResults]
  BY <1>1, <1>2 DEF Bare, Context
<1>7. \A acc : Continue(b, acc) = Bare(Continue(c, acc))
  BY <1>3, <1>4 DEF Continue, Bare
<1>8. \A call : Push(b, call) = Bare(Push(c, call))
  BY <1>3, <1>4 DEF Push, Bare
<1>9. Pop(b) = Bare(Pop(c))
  BY <1>3, <1>4 DEF Pop, Bare
<1>10. \A result : Fail(b, result) = Bare(Fail(c, result))
  BY <1>3, <1>5 DEF Fail, FailedEvents, Bare
<1>11. \A output : Succeed(b, output) = Bare(Succeed(c, output))
  BY <1>3, <1>6 DEF Succeed, Bare
<1>12. Failed(b) = Bare(Failed(c))
  BY <1>3, <1>10 DEF Failed
<1> QED
  BY <1>2, <1>7, <1>8, <1>9, <1>10, <1>11, <1>12

LEMMA BareStepped ==
  ASSUME NEW c, ContextOK(c), Active(c), NEW base \in State
  PROVE  Stepped(Bare(c), base) = Bare(Stepped(c, base))
<1>1. c \in Context /\ ~Executed(c)
  BY DEF ContextOK, Active
<1>2. PICK b : b = Bare(c)
  OBVIOUS
<1>3. /\ b.txs = c.txs /\ b.receipts = c.receipts /\ b.access = c.access /\ b.stack = c.stack
      /\ b.events = c.events /\ b.transaction = c.transaction
      /\ Top(b) = Top(c) /\ NextOp(b) = NextOp(c) /\ Seen(b, base) = Seen(c, base)
  BY <1>2, BareType, BareParts
<1>4. /\ \A acc : Continue(b, acc) = Bare(Continue(c, acc))
      /\ \A call : Push(b, call) = Bare(Push(c, call))
      /\ \A result : Fail(b, result) = Bare(Fail(c, result))
      /\ \A output : Succeed(b, output) = Bare(Succeed(c, output))
      /\ Pop(b) = Bare(Pop(c))
      /\ Failed(b) = Bare(Failed(c))
  BY <1>2, BareSteps
<1>5. CASE c.stack = <<>>
  <2> DEFINE call == c.txs[Len(c.receipts) + 1]
  <2>1. ASSUME call[1] # Deployments
        PROVE  [Push(b, Processor(call[1])) EXCEPT !.deploying = TRUE]
                 = Bare([Push(c, Processor(call[1])) EXCEPT !.deploying = TRUE])
    <3>1. PICK p : p = Push(c, Processor(call[1]))
      OBVIOUS
    <3>2. p \in Context /\ Push(b, Processor(call[1])) = [p EXCEPT !.expected = NoResults]
      BY <1>1, <1>4, <2>1, <3>1, NextCall, PushType DEF Bare
    <3>3. [[p EXCEPT !.expected = NoResults] EXCEPT !.deploying = TRUE]
            = [[p EXCEPT !.deploying = TRUE] EXCEPT !.expected = NoResults]
      BY <3>2 DEF Context
    <3> QED
      BY <3>1, <3>2, <3>3 DEF Bare
  <2>2. Begun(b, base) = Bare(Begun(c, base))
    BY <1>3, <1>4, <2>1 DEF Begun
  <2> QED
    BY <1>2, <1>3, <1>5, <2>2 DEF Stepped
<1>6. CASE c.stack # <<>> /\ Top(c).rest = <<>>
  <2>1. HasReturned(b) = Bare(HasReturned(c))
    BY <1>3, <1>4 DEF HasReturned
  <2> QED
    BY <1>2, <1>3, <1>6, <2>1 DEF Stepped
<1>7. CASE c.stack # <<>> /\ Top(c).rest # <<>>
  <2>1. ASSUME NEW acc \in Value
        PROVE  Continue(c, acc) \in Context /\ ContextOK(Continue(c, acc))
    BY <1>1, <1>7, ContinueType, ContinueOK
  <2>2. HasRead(b, base) = Bare(HasRead(c, base))
    BY <1>3, <1>4 DEF HasRead
  <2>3. CASE NextOp(c).op = "WRITE"
    <3>1. PICK k : k = Continue(c, Sum(c))
      OBVIOUS
    <3>2. k \in Context
      BY <1>1, <1>7, <2>1, <2>3, <3>1, SumType
    <3>3. Sum(b) = Sum(c) /\ Continue(b, Sum(b)) = [k EXCEPT !.expected = NoResults]
      BY <1>3, <1>4, <3>1 DEF Sum, Bare
    <3>4. ASSUME NEW t
          PROVE  [[k EXCEPT !.expected = NoResults] EXCEPT !.transaction = t]
                   = [[k EXCEPT !.transaction = t] EXCEPT !.expected = NoResults]
      BY <3>2 DEF Context
    <3>5. HasWritten(b) = Bare(HasWritten(c))
      BY <1>3, <1>4, <3>1, <3>3, <3>4 DEF HasWritten, Bare
    <3> QED
      BY <1>2, <1>3, <1>7, <2>3, <3>5 DEF Stepped
  <2>4. HasRequired(b) = Bare(HasRequired(c))
    BY <1>3, <1>4 DEF HasRequired
  <2>5. HasCalled(b, base) = Bare(HasCalled(c, base))
    <3>1. ContextOK(Continue(c, 0))
      BY <2>1, ValueZero
    <3>2. Continue(b, 0) = Bare(Continue(c, 0))
      BY <1>4
    <3>3. \A call : Push(Continue(b, 0), call) = Bare(Push(Continue(c, 0), call))
      BY <3>1, <3>2, BareSteps
    <3> QED
      BY <1>3, <1>4, <3>3 DEF HasCalled
  <2>6. HasEmitted(b) = Bare(HasEmitted(c))
    <3>1. PICK k : k = Continue(c, Top(c).acc)
      OBVIOUS
    <3>2. k \in Context /\ Continue(b, Top(b).acc) = [k EXCEPT !.expected = NoResults]
      BY <1>1, <1>3, <1>4, <1>7, <2>1, <3>1, TopType DEF Bare
    <3>3. ASSUME NEW t
          PROVE  [[k EXCEPT !.expected = NoResults] EXCEPT !.events = t]
                   = [[k EXCEPT !.events = t] EXCEPT !.expected = NoResults]
      BY <3>2 DEF Context
    <3> QED
      BY <1>3, <1>4, <3>1, <3>2, <3>3 DEF HasEmitted, Bare
  <2> QED
    BY <1>2, <1>3, <1>7, <2>2, <2>3, <2>4, <2>5, <2>6 DEF Stepped
<1> QED
  BY <1>5, <1>6, <1>7

---------------------------------------------------------------------------
(* The contexts that an execution goes through, as the least set that has  *)
(* the first and with each one the next.                                   *)

Contexts == {c \in Context : ContextOK(c)}

Closed(S, base) == \A c \in S : Active(c) => Stepped(c, base) \in S

Reach(first, base) ==
  {c \in Contexts : \A S \in SUBSET Contexts : first \in S /\ Closed(S, base) => c \in S}

LEMMA ReachFirst ==
  ASSUME NEW c \in Contexts, NEW base
  PROVE  c \in Reach(c, base)
BY DEF Reach

LEMMA ReachIn ==
  ASSUME NEW c, NEW base, NEW d \in Reach(c, base), NEW S \in SUBSET Contexts,
         c \in S, Closed(S, base)
  PROVE  d \in S
BY DEF Reach

LEMMA SteppedIn ==
  ASSUME NEW c \in Contexts, Active(c), NEW base \in State
  PROVE  Stepped(c, base) \in Contexts
BY SteppedOK DEF Contexts, ContextOK

LEMMA ReachStep ==
  ASSUME NEW c, NEW base \in State, NEW d \in Reach(c, base), Active(d)
  PROVE  Stepped(d, base) \in Reach(c, base)
<1>1. d \in Contexts /\ Stepped(d, base) \in Contexts
  BY SteppedIn DEF Reach
<1>2. ASSUME NEW S \in SUBSET Contexts, c \in S, Closed(S, base)
      PROVE  Stepped(d, base) \in S
  BY <1>2, ReachIn DEF Closed
<1> QED
  BY <1>1, <1>2 DEF Reach

LEMMA ReachClosed ==
  ASSUME NEW c, NEW base \in State
  PROVE  Reach(c, base) \in SUBSET Contexts /\ Closed(Reach(c, base), base)
BY ReachStep DEF Closed, Reach

\* It has one way to go.
LEMMA ReachNext ==
  ASSUME NEW c \in Contexts, Active(c), NEW base \in State, NEW d \in Reach(c, base), d # c
  PROVE  d \in Reach(Stepped(c, base), base)
<1> DEFINE next == Stepped(c, base)
           S == {c} \cup Reach(next, base)
<1>1. next \in Contexts
  BY SteppedIn
<1>2. next \in Reach(next, base)
  BY <1>1, ReachFirst
<1>3. S \in SUBSET Contexts /\ Closed(S, base)
  BY <1>2, ReachClosed DEF Closed
<1>4. d \in S
  BY <1>3, ReachIn
<1> QED
  BY <1>4

LEMMA ReachEnd ==
  ASSUME NEW c \in Contexts, ~Active(c), NEW base, NEW d \in Reach(c, base)
  PROVE  d = c
<1>1. {c} \in SUBSET Contexts /\ Closed({c}, base)
  BY DEF Closed
<1> QED
  BY <1>1, ReachIn

\* Two executions of the same transactions on the same state end the same.
LEMMA Deterministic ==
  ASSUME NEW c \in Contexts, NEW base \in State,
         NEW d1 \in Reach(c, base), ~Active(d1),
         NEW d2 \in Reach(c, base), ~Active(d2)
  PROVE  d1 = d2
<1> DEFINE S == {d \in Contexts : d1 \in Reach(d, base)}
<1>1. S \in SUBSET Contexts /\ c \in S
  OBVIOUS
<1>2. ASSUME NEW d \in S, Active(d)
      PROVE  Stepped(d, base) \in S
  BY <1>2, ReachNext, SteppedIn
<1>3. Closed(S, base)
  BY <1>2 DEF Closed
<1>4. d2 \in S
  BY <1>1, <1>3, ReachIn
<1>5. d1 \in Reach(d2, base) /\ d2 \in Contexts
  BY <1>4
<1> QED
  BY <1>5, ReachEnd

\* What does not change.
LEMMA ReachSameJob ==
  ASSUME NEW c \in Contexts, NEW base \in State, NEW d \in Reach(c, base)
  PROVE  SameJob(c, d) /\ ContextOK(d) /\ d \in Context
<1> DEFINE S == {x \in Contexts : SameJob(c, x)}
<1>1. S \in SUBSET Contexts /\ c \in S
  BY DEF SameJob
<1>2. Closed(S, base)
  BY SteppedOK, SteppedIn DEF Closed, Contexts, SameJob
<1>3. d \in S
  BY <1>1, <1>2, ReachIn
<1> QED
  BY <1>3 DEF Contexts

---------------------------------------------------------------------------
(* Blocks, proposals and contexts are what one execution comes to, on the  *)
(* state below it.                                                         *)

Fresh(access, height, txs) == Allocate(access, height, txs, NoResults)

Outcomes(height, txs, base) ==
  {d \in Reach(Fresh("READ_WRITE", height, txs), base) : ~Active(d)}

ResultsOn(d, base) ==
  [receipts |-> d.receipts,
   diff |-> [v \in {x \in DOMAIN d.batch : d.batch[x] # base[x]} |-> d.batch[v]],
   root |-> base]

ContextReplays(slot, c, base) ==
  /\ Bare(c) \in Reach(Fresh(c.access, c.height, c.txs), base)
  /\ slot = "BLOCK" => c = NoContext \/ c.access = "READ_WRITE"
  /\ slot # "BLOCK" => c.access = "READ_ONLY"
  /\ c.expected # NoResults =>
       \E d \in Outcomes(c.height, c.txs, base) : c.expected = ResultsOn(d, base)

ProposalReplays(p, height, base) ==
  \E d \in Outcomes(height, p.txs, base) : p.results = ResultsOn(d, base)

BlockReplays(ch, h) ==
  \E d \in Outcomes(h - 1, ch[h].txs, StateIn(ch, h - 1)) :
    ch[h].receipts = d.receipts /\ StateIn(ch, h) = Over(d.batch, StateIn(ch, h - 1))

Replays ==
  /\ \A e \in Node \X Slot :
       ContextReplays(e[2], context[e], StateIn(chain, context[e].height))
  /\ \A p \in proposal : ProposalReplays(p, Len(chain), StateIn(chain, Len(chain)))
  /\ \A h \in 1 .. Len(chain) : BlockReplays(chain, h)
  /\ refused = {}

LEMMA FreshType ==
  ASSUME NEW access \in {"READ_ONLY", "READ_WRITE"}, NEW height \in Nat, NEW txs \in Seq(Call),
         NEW expected \in Results \cup {NoResults}, NEW base
  PROVE  /\ Fresh(access, height, txs) \in Contexts
         /\ Bare(Allocate(access, height, txs, expected)) \in Reach(Fresh(access, height, txs), base)
         /\ Allocate(access, height, txs, expected).access = access
         /\ Allocate(access, height, txs, expected).height = height
         /\ Allocate(access, height, txs, expected).txs = txs
         /\ Allocate(access, height, txs, expected).expected = expected
<1>1. Fresh(access, height, txs) \in Contexts
  BY NewContext DEF Fresh, Contexts, ContextOK
<1>2. Bare(Allocate(access, height, txs, expected)) = Fresh(access, height, txs)
  <2>1. PICK a : a = Allocate(access, height, txs, expected)
    OBVIOUS
  <2>2. PICK f : f = Fresh(access, height, txs)
    OBVIOUS
  <2>3. a \in Context /\ f \in Context
    BY <1>1, <2>1, <2>2, NewContext DEF Contexts, ContextOK
  <2>4. /\ f.access = a.access /\ f.height = a.height /\ f.txs = a.txs
        /\ f.receipts = a.receipts /\ f.deploying = a.deploying /\ f.stack = a.stack
        /\ f.transaction = a.transaction /\ f.events = a.events /\ f.batch = a.batch
        /\ f.expected = NoResults
    BY <2>1, <2>2 DEF Allocate, Fresh
  <2>5. Bare(a) = f
    BY <2>3, <2>4 DEF Bare, Context
  <2> QED
    BY <2>1, <2>2, <2>5
<1> QED
  BY <1>1, <1>2, ReachFirst DEF Allocate

LEMMA QueryFresh ==
  ASSUME NEW height \in Nat, NEW txs \in Seq(Call), NEW base, NEW slot, slot # "BLOCK",
         NEW a, a = Allocate("READ_ONLY", height, txs, NoResults)
  PROVE  ContextReplays(slot, a, base) /\ a.height = height
<1>1. a \in Context /\ ContextOK(a)
  BY NewContext DEF ContextOK
<1>2. a.access = "READ_ONLY" /\ a.height = height /\ a.txs = txs /\ a.expected = NoResults
  BY DEF Allocate
<1>3. Bare(a) = a
  BY <1>1, <1>2 DEF Bare, Context
<1>4. Fresh(a.access, a.height, a.txs) = a
  BY <1>2 DEF Fresh
<1>5. a \in Reach(a, base)
  BY <1>1, ReachFirst DEF Contexts
<1> QED
  BY <1>2, <1>3, <1>4, <1>5 DEF ContextReplays

LEMMA ResultsOfIs ==
  ASSUME TypeInv, NEW e \in Node \X Slot
  PROVE  ResultsOf(context[e]) = ResultsOn(Bare(context[e]), StateIn(chain, context[e].height))
<1>1. ContextOK(context[e]) /\ StateAt(context[e].height) = StateIn(chain, context[e].height)
  BY TypeFacts
<1> QED
  BY <1>1, BareType DEF ResultsOf, ResultsOn, Diff

\* What has been executed is an outcome.
LEMMA ExecutedOutcome ==
  ASSUME TypeInv, Replays, NEW n \in Node, Block(n) # NoContext, Executed(Block(n))
  PROVE  Bare(Block(n)) \in Outcomes(Block(n).height, Block(n).txs, StateIn(chain, Block(n).height))
<1> DEFINE e == <<n, "BLOCK">>
           c == context[e]
<1>1. e \in Node \X Slot /\ e[2] = "BLOCK" /\ Block(n) = c
  BY DEF Slot, Block
<1>2. ContextReplays(e[2], c, StateIn(chain, c.height)) /\ ContextOK(c)
  BY <1>1, TypeFacts DEF Replays
<1>. HIDE DEF e, c
<1>3. Bare(c) \in Reach(Fresh("READ_WRITE", c.height, c.txs), StateIn(chain, c.height))
  BY <1>1, <1>2 DEF ContextReplays
<1>4. ~Active(Bare(c))
  BY <1>1, <1>2, BareParts DEF ContextOK, Active
<1> QED
  BY <1>1, <1>3, <1>4 DEF Outcomes

\* There is but one.
LEMMA OneOutcome ==
  ASSUME NEW height \in Nat, NEW txs \in Seq(Call), NEW base \in State,
         NEW d1 \in Outcomes(height, txs, base), NEW d2 \in Outcomes(height, txs, base)
  PROVE  d1 = d2
BY FreshType, Deterministic DEF Outcomes

\* A diff has the same effect as the batch that it leaves the unchanged out of.
LEMMA DiffEffect ==
  ASSUME NEW d \in Context, NEW base \in State
  PROVE  Over(ResultsOn(d, base).diff, base) = Over(d.batch, base)
<1> DEFINE S == {x \in DOMAIN d.batch : d.batch[x] # base[x]}
           diff == [v \in S |-> d.batch[v]]
<1>1. d.batch \in Transient
  BY ContextFields
<1>2. diff \in Transient
  <2>1. S \in SUBSET Var /\ diff \in [S -> Value]
    BY <1>1, TransientElim
  <2> QED
    BY <2>1, TransientIntro
<1>3. Over(diff, base) \in State /\ Over(d.batch, base) \in State
  BY <1>1, <1>2, OverState
<1>4. ASSUME NEW v \in Var
      PROVE  Over(diff, base)[v] = Over(d.batch, base)[v]
  <2>1. Over(diff, base)[v] = IF v \in DOMAIN diff THEN diff[v] ELSE base[v]
    BY <1>2, OverState
  <2>2. Over(d.batch, base)[v] = IF v \in DOMAIN d.batch THEN d.batch[v] ELSE base[v]
    BY <1>1, OverState
  <2>3. /\ v \in DOMAIN diff <=> (v \in DOMAIN d.batch /\ d.batch[v] # base[v])
        /\ v \in DOMAIN diff => diff[v] = d.batch[v]
    OBVIOUS
  <2>. HIDE DEF diff
  <2> QED
    BY <2>1, <2>2, <2>3
<1>5. Over(diff, base) = Over(d.batch, base)
  BY <1>3, <1>4 DEF State
<1> QED
  BY <1>5 DEF ResultsOn

LEMMA NoContextReplays ==
  ASSUME NEW slot, NEW base
  PROVE  ContextReplays(slot, NoContext, base)
<1>1. <<>> \in Seq(Call) /\ 0 \in Nat
  OBVIOUS
<1>2. ContextReplays("QUERY", NoContext, base)
  BY <1>1, QueryFresh DEF NoContext
<1> QED
  BY <1>2 DEF ContextReplays

LEMMA ReplaysInit ==
  ASSUME Init
  PROVE  Replays
<1>1. /\ \A e \in Node \X Slot : context[e] = NoContext
      /\ Len(chain) = 0 /\ proposal = {} /\ refused = {}
  BY DEF Init
<1>2. ASSUME NEW slot, NEW base
      PROVE  ContextReplays(slot, NoContext, base)
  BY NoContextReplays
<1>3. 1 .. Len(chain) = {}
  BY <1>1
<1> QED
  BY <1>1, <1>2, <1>3 DEF Replays

LEMMA ReplaysStep ==
  ASSUME TypeInv, Replays, [Next]_vars
  PROVE  Replays'
<1>1. /\ chain \in Seq(BlockOf) /\ Len(chain) \in Nat
      /\ \A e \in Node \X Slot :
           /\ ContextOK(context[e]) /\ context[e] \in Context
           /\ context[e].height \in Nat /\ context[e].height <= Len(chain)
           /\ ContextReplays(e[2], context[e], StateIn(chain, context[e].height))
           /\ StateIn(chain, context[e].height) \in State
      /\ context \in [Node \X Slot -> Context]
      /\ \A p \in proposal : ProposalReplays(p, Len(chain), StateIn(chain, Len(chain)))
      /\ refused = {}
  BY TypeFacts, StateInType DEF Replays, TypeInv, VMTypeOK
<1>2. ASSUME NEW slot, NEW base
      PROVE  ContextReplays(slot, NoContext, base)
  BY NoContextReplays
<1>3. ASSUME NEW e \in Node \X Slot, NEW d,
             ContextReplays(e[2], d, StateIn(chain, d.height)),
             context' = [context EXCEPT ![e] = d], chain' = chain, refused' = refused,
             \A p \in proposal' : ProposalReplays(p, Len(chain), StateIn(chain, Len(chain)))
      PROVE  Replays'
  <2>1. \A x \in Node \X Slot : context'[x] = IF x = e THEN d ELSE context[x]
    BY <1>1, <1>3
  <2> QED
    BY <1>1, <1>3, <2>1 DEF Replays
<1>4. ASSUME NEW e \in Node \X Slot, NEW d,
             ContextReplays(e[2], d, StateIn(chain, d.height)), Sole(e, d)
      PROVE  Replays'
  BY <1>1, <1>3, <1>4 DEF Sole
<1>5. ASSUME UNCHANGED <<chain, proposal, context, refused>>
      PROVE  Replays'
  BY <1>5 DEF Replays
<1>6. ASSUME NEW n \in Node, ProposeResults(n)
      PROVE  Replays'
  <2> DEFINE e == <<n, "BLOCK">>
             c == context[e]
  <2>1. e \in Node \X Slot /\ UNCHANGED <<chain, stored, refused>> /\ Block(n) = c
    BY <1>6 DEF ProposeResults, Slot, Block
  <2>2. context' = [context EXCEPT ![e] = NoContext]
    BY <1>6 DEF ProposeResults
  <2>. HIDE DEF e, c
  <2>3. Bare(c) \in Outcomes(c.height, c.txs, StateIn(chain, c.height))
    BY <1>6, <2>1, ExecutedOutcome DEF ProposeResults
  <2>4. ResultsOf(c) = ResultsOn(Bare(c), StateIn(chain, c.height))
    BY <2>1, ResultsOfIs DEF c
  <2>5. ASSUME NEW p \in proposal'
        PROVE  ProposalReplays(p, Len(chain), StateIn(chain, Len(chain)))
    <3>1. CASE p \in proposal
      BY <1>1, <3>1
    <3>2. CASE p \notin proposal
      <4>1. c.height = Len(chain) /\ p = [txs |-> c.txs, results |-> ResultsOf(c), approved |-> {n}]
        BY <1>6, <2>1, <2>5, <3>2 DEF ProposeResults
      <4>2. p.txs = c.txs /\ p.results = ResultsOn(Bare(c), StateIn(chain, Len(chain)))
        BY <2>4, <4>1
      <4> QED
        BY <2>3, <4>1, <4>2 DEF ProposalReplays
    <3> QED
      BY <3>1, <3>2
  <2> QED
    BY <1>2, <1>3, <2>1, <2>2, <2>5
<1>7. ASSUME NEW n \in Node, ValidateResultsBlock(n)
      PROVE  Replays'
  <2> DEFINE e == <<n, "BLOCK">>
  <2>1. PICK p \in proposal :
          IF p.results.root = StateAt(Len(chain))
          THEN /\ context' = [context EXCEPT ![e] =
                    Allocate("READ_WRITE", Len(chain), p.txs, p.results)]
               /\ UNCHANGED refused
          ELSE refused' = refused \cup {n} /\ UNCHANGED context
    BY <1>7 DEF ValidateResultsBlock
  <2>2. e \in Node \X Slot /\ e[2] = "BLOCK" /\ UNCHANGED <<chain, stored, proposal>>
    BY <1>7 DEF ValidateResultsBlock, Slot
  <2>3. PICK d \in Outcomes(Len(chain), p.txs, StateIn(chain, Len(chain))) :
               p.results = ResultsOn(d, StateIn(chain, Len(chain)))
    BY <1>1 DEF ProposalReplays
  <2>4. p.results.root = StateAt(Len(chain))
    BY <2>3, StateAtIs DEF ResultsOn
  <2>5. p.txs \in Seq(Call) /\ p.results \in Results
    BY DEF TypeInv, VMTypeOK
  <2>6. PICK a : a = Allocate("READ_WRITE", Len(chain), p.txs, p.results)
    OBVIOUS
  <2>7. /\ Bare(a) \in Reach(Fresh("READ_WRITE", Len(chain), p.txs), StateIn(chain, Len(chain)))
        /\ a.access = "READ_WRITE" /\ a.height = Len(chain)
        /\ a.txs = p.txs /\ a.expected = p.results
    BY <1>1, <2>5, <2>6, FreshType
  <2>8. ContextReplays(e[2], a, StateIn(chain, a.height))
    BY <2>3, <2>7 DEF ContextReplays
  <2>9. context' = [context EXCEPT ![e] = a] /\ refused' = refused
    BY <2>1, <2>4, <2>6
  <2> QED
    BY <1>1, <1>3, <2>2, <2>8, <2>9
<1>8. ASSUME NEW n \in Node, CompareResults(n)
      PROVE  Replays'
  <2> DEFINE e == <<n, "BLOCK">>
             c == context[e]
             base == StateIn(chain, c.height)
  <2>1. e \in Node \X Slot /\ e[2] = "BLOCK" /\ UNCHANGED <<chain, stored>> /\ Block(n) = c
    BY <1>8 DEF CompareResults, Slot, Block
  <2>2. context' = [context EXCEPT ![e] = NoContext]
    BY <1>8 DEF CompareResults
  <2>3. /\ ContextReplays(e[2], c, base) /\ base \in State /\ c \in Context
        /\ c.height \in Nat
    BY <1>1, <2>1
  <2>4. ResultsOf(c) = ResultsOn(Bare(c), base)
    BY <2>1, ResultsOfIs
  <2>5. c.expected # NoResults /\ Executed(c)
    BY <1>8, <2>1 DEF CompareResults
  <2>6. c # NoContext
    BY <2>5 DEF NoContext, Allocate
  <2>7. Bare(c) \in Outcomes(c.height, c.txs, base)
    BY <2>1, <2>5, <2>6, ExecutedOutcome
  <2>8. PICK d \in Outcomes(c.height, c.txs, base) : c.expected = ResultsOn(d, base)
    BY <2>3, <2>5 DEF ContextReplays
  <2>9. c.txs \in Seq(Call)
    BY <2>3, ContextFields
  <2>10. ResultsOf(c) = c.expected
    BY <2>3, <2>4, <2>7, <2>8, <2>9, OneOutcome
  <2>11. refused' = refused
    BY <1>8, <2>1, <2>10 DEF CompareResults
  <2>12. ASSUME NEW q \in proposal'
         PROVE  ProposalReplays(q, Len(chain), StateIn(chain, Len(chain)))
    <3>1. PICK p \in proposal : q = [p EXCEPT !.approved = p.approved \cup {n}]
                                 \/ q = [p EXCEPT !.approved = p.approved]
      BY <1>8 DEF CompareResults
    <3>2. p \in [txs : Seq(Call), results : Results, approved : SUBSET Node]
      BY DEF TypeInv, VMTypeOK
    <3>3. q.txs = p.txs /\ q.results = p.results
      BY <3>1, <3>2
    <3> QED
      BY <1>1, <3>3 DEF ProposalReplays
  <2> QED
    BY <1>2, <1>3, <2>1, <2>2, <2>11, <2>12
<1>9. ASSUME NEW n \in Leader, RequestNewResultsBlock(n)
      PROVE  Replays'
  <2>1. PICK txs \in TransactionSet :
          Step(<<n, "BLOCK">>, Allocate("READ_WRITE", Len(chain), txs, NoResults))
    BY <1>9 DEF RequestNewResultsBlock
  <2>2. PICK a : a = Allocate("READ_WRITE", Len(chain), txs, NoResults)
    OBVIOUS
  <2>3. txs \in Seq(Call) /\ <<n, "BLOCK">> \in Node \X Slot /\ Sole(<<n, "BLOCK">>, a)
    BY <2>1, <2>2, ContractAssumption DEF Slot, Step, Sole
  <2>4. /\ Bare(a) \in Reach(Fresh("READ_WRITE", Len(chain), txs), StateIn(chain, Len(chain)))
        /\ a.access = "READ_WRITE" /\ a.height = Len(chain)
        /\ a.txs = txs /\ a.expected = NoResults
    BY <1>1, <2>2, <2>3, FreshType
  <2>5. ContextReplays("BLOCK", a, StateIn(chain, a.height))
    BY <2>4 DEF ContextReplays
  <2> QED
    BY <1>4, <2>3, <2>5
<1>10. ASSUME NEW n \in Gateway, ProcessQuery(n)
       PROVE  Replays'
  <2>1. PICK call \in Query :
          Step(<<n, "QUERY">>, Allocate("READ_ONLY", stored[n], <<call>>, NoResults))
    BY <1>10 DEF ProcessQuery
  <2>2. PICK a : a = Allocate("READ_ONLY", stored[n], <<call>>, NoResults)
    OBVIOUS
  <2>3. <<n, "QUERY">> \in Node \X Slot /\ Sole(<<n, "QUERY">>, a)
    BY <2>1, <2>2, ContractAssumption DEF Slot, Step, Sole
  <2>4. stored[n] \in Nat /\ <<call>> \in Seq(Call)
    <3>1. stored[n] \in 0 .. Len(chain)
      BY ContractAssumption DEF TypeInv, VMTypeOK
    <3>2. call \in Call
      BY ContractAssumption
    <3> QED
      BY <1>1, <3>1, <3>2
  <2>5. ContextReplays("QUERY", a, StateIn(chain, a.height))
    <3>1. ASSUME NEW base PROVE ContextReplays("QUERY", a, base)
      BY <2>2, <2>4, QueryFresh
    <3> QED
      BY <3>1
  <2> QED
    BY <1>4, <2>3, <2>5
<1>11. ASSUME NEW e \in Node \X Slot, Execute(e)
       PROVE  Replays'
  <2> DEFINE c == context[e]
             base == StateIn(chain, c.height)
  <2>1. CASE Sole(e, NoContext)
    BY <1>2, <1>4, <2>1
  <2>2. CASE Active(c) /\ Sole(e, Stepped(c, StateAt(c.height)))
    <3>1. /\ ContextReplays(e[2], c, base) /\ ContextOK(c) /\ base \in State
          /\ StateAt(c.height) = base
      BY <1>1, TypeFacts
    <3>2. PICK d : d = Stepped(c, base)
      OBVIOUS
    <3>3. ContextOK(d) /\ SameJob(c, d)
      BY <2>2, <3>1, <3>2, SteppedOK
    <3>4. Bare(d) = Stepped(Bare(c), base) /\ Active(Bare(c))
      BY <2>2, <3>1, <3>2, BareStepped, BareParts
    <3>5. Bare(d) \in Reach(Fresh(c.access, c.height, c.txs), base)
      BY <3>1, <3>4, ReachStep DEF ContextReplays
    <3>6. c # NoContext
      BY <2>2 DEF Active, NoContext, Allocate, Executed
    <3>. HIDE DEF c, base
    <3>7. ContextReplays(e[2], d, base)
      BY <3>1, <3>3, <3>5, <3>6 DEF ContextReplays, SameJob
    <3>8. d.height = c.height /\ Sole(e, d)
      BY <2>2, <3>1, <3>2, <3>3 DEF SameJob
    <3> QED
      BY <1>4, <3>7, <3>8 DEF base
  <2> QED
    BY <1>11, <2>1, <2>2, ExecuteIs
<1>12. ASSUME CommitProposal
       PROVE  Replays'
  <2>1. PICK p \in proposal : chain' = Append(chain, [txs |-> p.txs,
                              receipts |-> p.results.receipts, diff |-> p.results.diff])
    BY <1>12 DEF CommitProposal
  <2>2. proposal' = {} /\ UNCHANGED <<stored, context, refused>>
    BY <1>12 DEF CommitProposal
  <2>3. PICK b : b = [txs |-> p.txs, receipts |-> p.results.receipts, diff |-> p.results.diff]
    OBVIOUS
  <2>4. /\ b \in BlockOf /\ p.txs \in Seq(Call)
        /\ b.txs = p.txs /\ b.receipts = p.results.receipts /\ b.diff = p.results.diff
    BY <2>3 DEF TypeInv, VMTypeOK, BlockOf, Results
  <2>5. PICK m \in Nat : m = Len(chain)
    BY <1>1
  <2>6. /\ chain' = Append(chain, b) /\ Len(chain') = m + 1
        /\ chain'[m + 1] = b /\ \A h \in 1 .. m : chain'[h] = chain[h]
    <3>1. chain' = Append(chain, b)
      BY <2>1, <2>3
    <3>2. /\ Len(chain') = Len(chain) + 1 /\ chain'[Len(chain) + 1] = b
          /\ \A h \in 1 .. Len(chain) : chain'[h] = chain[h]
      BY <1>1, <2>4, <3>1, AppendTo
    <3> QED
      BY <2>5, <3>1, <3>2
  <2>7. ASSUME NEW h \in Nat, h <= m
        PROVE  StateIn(chain', h) = StateIn(chain, h)
    <3>1. h <= Len(chain)
      BY <2>5, <2>7
    <3> QED
      BY <1>1, <2>4, <2>6, <3>1, StateInStable
  <2>8. StateIn(chain', m + 1) = Over(b.diff, StateIn(chain, m)) /\ StateIn(chain, m) \in State
    <3>1. StateIn(Append(chain, b), Len(chain) + 1) = Over(b.diff, StateIn(chain, Len(chain)))
      BY <1>1, <2>4, StateInNext
    <3>2. m <= m
      OBVIOUS
    <3>3. StateIn(chain, m) \in State
      BY <1>1, <2>5, <3>2, StateInType
    <3> QED
      BY <2>5, <2>6, <3>1, <3>3
  <2>9. ASSUME NEW e \in Node \X Slot
        PROVE  ContextReplays(e[2], context'[e], StateIn(chain', context'[e].height))
    BY <1>1, <2>2, <2>5, <2>7
  <2>10. PICK d \in Outcomes(m, p.txs, StateIn(chain, m)) :
                p.results = ResultsOn(d, StateIn(chain, m))
    BY <1>1, <2>5 DEF ProposalReplays
  <2>11. d \in Context
    BY <2>4, <2>5, <2>8, FreshType, ReachSameJob DEF Outcomes
  <2>12. BlockReplays(chain', m + 1)
    <3>1. m + 1 - 1 = m
      OBVIOUS
    <3>2. StateIn(chain', m) = StateIn(chain, m)
      BY <2>7
    <3>3. b.receipts = d.receipts
      BY <2>4, <2>10 DEF ResultsOn
    <3>4. StateIn(chain', m + 1) = Over(d.batch, StateIn(chain, m))
      BY <2>4, <2>8, <2>10, <2>11, DiffEffect
    <3> QED
      BY <2>4, <2>6, <2>10, <3>1, <3>2, <3>3, <3>4 DEF BlockReplays
  <2>13. ASSUME NEW h \in 1 .. m
         PROVE  BlockReplays(chain', h)
    <3>1. /\ h \in Nat /\ h <= m /\ h - 1 \in Nat /\ h - 1 <= m
      OBVIOUS
    <3>2. StateIn(chain', h) = StateIn(chain, h) /\ StateIn(chain', h - 1) = StateIn(chain, h - 1)
      BY <2>7, <3>1
    <3>3. BlockReplays(chain, h)
      BY <2>5 DEF Replays
    <3> QED
      BY <2>6, <3>2, <3>3 DEF BlockReplays
  <2>14. \A h \in 1 .. Len(chain') : h \in 1 .. m \/ h = m + 1
    BY <2>6
  <2> QED
    BY <1>1, <2>2, <2>9, <2>12, <2>13, <2>14 DEF Replays
<1>13. ASSUME GiveUpProposal
       PROVE  Replays'
  BY <1>13 DEF GiveUpProposal, Replays
<1>14. ASSUME NEW n \in Node, CommitStateDiff(n)
       PROVE  Replays'
  BY <1>5, <1>14 DEF CommitStateDiff
<1>15. ASSUME UNCHANGED vars
       PROVE  Replays'
  BY <1>5, <1>15 DEF vars
<1> QED
  BY <1>6, <1>7, <1>8, <1>9, <1>10, <1>11, <1>12, <1>13, <1>14, <1>15 DEF Next

\* A block has the receipts, and makes the state, of an execution of its transactions in
\* one go on the state below it, and no node refuses it (CreateResultsBlock,
\* ValidateResultsBlock): where and when it was executed, and with what commits and
\* failed reads in between, makes no difference.
THEOREM ValidationAgrees == Spec => []ValidatesEverywhere
<1>1. Init => TypeInv /\ Replays
  BY TypeInit, ReplaysInit
<1>2. TypeInv /\ Replays /\ [Next]_vars => (TypeInv /\ Replays)'
  BY TypeStep, ReplaysStep
<1>3. Replays => ValidatesEverywhere
  BY DEF Replays, ValidatesEverywhere
<1> QED
  BY <1>1, <1>2, <1>3, PTL DEF Spec

---------------------------------------------------------------------------
(* A contract's _init runs once, in the deployment that succeeds.          *)

\* The count of _init says what _Deployments says.
Consistent(state) ==
  \A s \in Service : state[<<s, Initialized>>] = state[Processor(s)]

\* s is entered and its _init has still to count.
MidDeploy(state, s) ==
  /\ state[<<s, Initialized>>] = 0 /\ state[Processor(s)] = 1
  /\ \A other \in Service \ {s} : state[<<other, Initialized>>] = state[Processor(other)]

\* Code of a contract that neither sets the count nor calls its own _init.
Plain(f) ==
  f.service \in Service /\ \A i \in 1 .. Len(f.rest) : InitOnly(f.service, f.rest[i])

Suspended(f) == Plain(f) \/ (f.service = Deployments /\ f.rest = <<>>)

ReadOp(s) == [op |-> "READ", key |-> s]
RequireOp == [op |-> "REQUIRE", value |-> 0]
WriteOp(s) == [op |-> "WRITE", key |-> s, add |-> 1]
CallOp(s) == [op |-> "CALL", call |-> <<s, "_init">>]

\* What deployService(s) has still to do.
AtRead(s) == <<ReadOp(s), RequireOp, WriteOp(s), CallOp(s)>>
AtRequire(s) == <<RequireOp, WriteOp(s), CallOp(s)>>
AtWrite(s) == <<WriteOp(s), CallOp(s)>>
AtCall(s) == <<CallOp(s)>>

\* deployService(s) and the _init it calls, at each point.
Deploying(f, state, s) ==
  /\ f.service = Deployments
  /\ \/ f.rest = AtRead(s) /\ Consistent(state)
     \/ /\ f.rest = AtRequire(s) /\ Consistent(state)
        /\ f.acc = state[Processor(s)]
     \/ /\ f.rest = AtWrite(s) /\ Consistent(state)
        /\ f.acc = 0 /\ state[Processor(s)] = 0
     \/ f.rest = AtCall(s) /\ MidDeploy(state, s)

Initializing(f, state, s) ==
  /\ f.service = s /\ MidDeploy(state, s)
  /\ \/ f.rest = Code[<<s, "_init">>].body
     \/ f.rest = Tail(Code[<<s, "_init">>].body) /\ f.acc = state[<<s, Initialized>>]

TopFits(f, state) ==
  \/ Suspended(f) /\ Consistent(state)
  \/ \E s \in Service : Deploying(f, state, s) \/ Initializing(f, state, s)

InitFits(c, base) ==
  /\ Consistent(Over(c.batch, base))
  /\ c.stack = <<>> => c.transaction = Empty
  /\ c.stack # <<>> => TopFits(Top(c), Seen(c, base))
  /\ \A i \in 1 .. Len(c.stack) - 1 : Suspended(c.stack[i])

LEMMA InitBody ==
  ASSUME NEW s \in Service, NEW body, body = Code[<<s, "_init">>].body
  PROVE  /\ Initialized \in Key /\ ~Code[<<s, "_init">>].external
         /\ body \in Seq(Op(Key)) /\ body # <<>> /\ Tail(body) # <<>>
         /\ Head(body) = [op |-> "READ", key |-> Initialized]
         /\ Head(Tail(body)) = [op |-> "WRITE", key |-> Initialized, add |-> 1]
         /\ Tail(body) \in Seq(Op(Key)) /\ Tail(Tail(body)) \in Seq(Op(Key))
         /\ \A i \in 1 .. Len(Tail(Tail(body))) : InitOnly(s, Tail(Tail(body))[i])
<1>1. /\ Initialized \in Key /\ ~Code[<<s, "_init">>].external
      /\ Len(body) >= 2 /\ body[1] = [op |-> "READ", key |-> Initialized]
      /\ body[2] = [op |-> "WRITE", key |-> Initialized, add |-> 1]
      /\ \A i \in 3 .. Len(body) : InitOnly(s, body[i])
  BY InitAssumption
<1>2. body \in Seq(Op(Key))
  BY ContractAssumption
<1>3. body # <<>> /\ Head(body) = body[1]
  BY <1>1, <1>2
<1>4. PICK t : t = Tail(body)
  OBVIOUS
<1>5. /\ t \in Seq(Op(Key)) /\ Len(t) = Len(body) - 1
      /\ \A i \in 1 .. Len(t) : t[i] = body[i + 1]
  BY <1>2, <1>3, <1>4, HeadTailProperties
<1>6. t # <<>> /\ Head(t) = body[2]
  <2>1. Len(body) \in Nat /\ Len(t) \in Nat /\ Len(<<>>) = 0
    BY <1>2, <1>5
  <2>2. 1 \in 1 .. Len(t) /\ Len(t) # 0 /\ 1 + 1 = 2
    BY <1>1, <1>5, <2>1
  <2>3. t # <<>> /\ t[1] = body[2]
    BY <1>5, <2>1, <2>2
  <2> QED
    BY <1>5, <2>3
<1>7. PICK u : u = Tail(t)
  OBVIOUS
<1>8. /\ u \in Seq(Op(Key)) /\ Len(u) = Len(t) - 1
      /\ \A i \in 1 .. Len(u) : u[i] = t[i + 1]
  BY <1>5, <1>6, <1>7, HeadTailProperties
<1>9. ASSUME NEW i \in 1 .. Len(u)
      PROVE  InitOnly(s, u[i])
  <2>1. PICK n \in Nat : n = Len(body)
    BY <1>2
  <2>2. /\ Len(u) = n - 2 /\ i + 1 \in 1 .. Len(t) /\ i + 2 \in 3 .. n
    BY <1>1, <1>5, <1>8, <2>1
  <2>3. i + 1 + 1 = i + 2
    OBVIOUS
  <2>4. u[i] = body[i + 2]
    BY <1>5, <1>8, <2>2, <2>3
  <2> QED
    BY <1>1, <2>1, <2>2, <2>4
<1> QED
  BY <1>1, <1>2, <1>3, <1>4, <1>5, <1>6, <1>7, <1>8, <1>9

LEMMA BodyPlain ==
  ASSUME NEW s \in Service, NEW m \in Method, m # "_init", NEW acc
  PROVE  Plain([service |-> s, rest |-> Code[<<s, m>>].body, acc |-> acc])
<1>1. Code[<<s, m>>].body \in Seq(Op(Key))
  BY ContractAssumption
<1>2. \A i \in DOMAIN Code[<<s, m>>].body : InitOnly(s, Code[<<s, m>>].body[i])
  BY InitAssumption
<1>3. DOMAIN Code[<<s, m>>].body = 1 .. Len(Code[<<s, m>>].body)
  BY <1>1
<1> QED
  BY <1>2, <1>3 DEF Plain

LEMMA PlainGoesOn ==
  ASSUME NEW f \in Frame, Plain(f), f.rest # <<>>, NEW acc
  PROVE  /\ InitOnly(f.service, Head(f.rest))
         /\ Plain([service |-> f.service, rest |-> Tail(f.rest), acc |-> acc])
<1>1. PICK S : f.rest \in Seq(S)
  BY DEF Frame
<1>2. f.service \in Service /\ \A i \in 1 .. Len(f.rest) : InitOnly(f.service, f.rest[i])
  BY DEF Plain
<1>3. Head(f.rest) = f.rest[1] /\ 1 \in 1 .. Len(f.rest)
  BY <1>1
<1>4. PICK t : t = Tail(f.rest)
  OBVIOUS
<1>5. /\ Len(t) = Len(f.rest) - 1 /\ \A i \in 1 .. Len(t) : t[i] = f.rest[i + 1]
  BY <1>1, <1>4, HeadTailProperties
<1>6. ASSUME NEW i \in 1 .. Len(t)
      PROVE  InitOnly(f.service, t[i])
  <2>1. Len(f.rest) \in Nat
    BY <1>1
  <2>2. i + 1 \in 1 .. Len(f.rest)
    BY <1>5, <2>1
  <2> QED
    BY <1>2, <1>5, <2>2
<1> QED
  BY <1>2, <1>3, <1>4, <1>6 DEF Plain

\* The variables that count are no others.
LEMMA Counters ==
  ASSUME NEW s \in Service, NEW t \in Service
  PROVE  /\ <<s, Initialized>> \in Var /\ Processor(s) \in Var
         /\ <<s, Initialized>> # Processor(t)
         /\ s # t => <<s, Initialized>> # <<t, Initialized>> /\ Processor(s) # Processor(t)
BY InitAssumption, ContractAssumption DEF Var, Processor

LEMMA PlainWrite ==
  ASSUME NEW state \in State, Consistent(state), NEW s \in Service, NEW k \in Key,
         k # Initialized, NEW x
  PROVE  Consistent([state EXCEPT ![<<s, k>>] = x])
<1>1. ASSUME NEW t \in Service
      PROVE  <<t, Initialized>> # <<s, k>> /\ Processor(t) # <<s, k>>
  BY ContractAssumption DEF Processor
<1>2. DOMAIN state = Var
  BY DEF State
<1>3. PICK d : d = [state EXCEPT ![<<s, k>>] = x]
  OBVIOUS
<1>4. ASSUME NEW t \in Service
      PROVE  /\ d[<<t, Initialized>>] = state[<<t, Initialized>>]
             /\ d[Processor(t)] = state[Processor(t)]
  BY <1>1, <1>2, <1>3, Counters
<1> QED
  BY <1>3, <1>4 DEF Consistent

LEMMA DeployWrite ==
  ASSUME NEW state \in State, Consistent(state), NEW s \in Service, state[Processor(s)] = 0
  PROVE  MidDeploy([state EXCEPT ![Processor(s)] = 1], s)
<1>1. ASSUME NEW t \in Service
      PROVE  /\ <<t, Initialized>> \in Var /\ Processor(t) \in Var
             /\ <<t, Initialized>> # Processor(s)
             /\ t # s => Processor(t) # Processor(s)
  BY Counters
<1>2. DOMAIN state = Var
  BY DEF State
<1>3. PICK d : d = [state EXCEPT ![Processor(s)] = 1]
  OBVIOUS
<1>4. ASSUME NEW t \in Service
      PROVE  /\ d[<<t, Initialized>>] = state[<<t, Initialized>>]
             /\ d[Processor(t)] = IF t = s THEN 1 ELSE state[Processor(t)]
  BY <1>1, <1>2, <1>3
<1> QED
  BY <1>3, <1>4 DEF MidDeploy, Consistent

LEMMA InitWrite ==
  ASSUME NEW state \in State, NEW s \in Service, MidDeploy(state, s)
  PROVE  Consistent([state EXCEPT ![<<s, Initialized>>] = 1])
<1>1. ASSUME NEW t \in Service
      PROVE  /\ <<t, Initialized>> \in Var /\ Processor(t) \in Var
             /\ Processor(t) # <<s, Initialized>>
             /\ t # s => <<t, Initialized>> # <<s, Initialized>>
  BY Counters
<1>2. DOMAIN state = Var
  BY DEF State
<1>3. PICK d : d = [state EXCEPT ![<<s, Initialized>>] = 1]
  OBVIOUS
<1>4. ASSUME NEW t \in Service
      PROVE  /\ d[Processor(t)] = state[Processor(t)]
             /\ d[<<t, Initialized>>] = IF t = s THEN 1 ELSE state[<<t, Initialized>>]
  BY <1>1, <1>2, <1>3
<1> QED
  BY <1>3, <1>4 DEF MidDeploy, Consistent

LEMMA DeployParts ==
  ASSUME NEW s \in Service
  PROVE  /\ Body(Processor(s)) = AtRead(s)
         /\ AtRead(s) # <<>> /\ Head(AtRead(s)) = ReadOp(s) /\ Tail(AtRead(s)) = AtRequire(s)
         /\ AtRequire(s) # <<>> /\ Head(AtRequire(s)) = RequireOp /\ Tail(AtRequire(s)) = AtWrite(s)
         /\ AtWrite(s) # <<>> /\ Head(AtWrite(s)) = WriteOp(s) /\ Tail(AtWrite(s)) = AtCall(s)
         /\ AtCall(s) # <<>> /\ Head(AtCall(s)) = CallOp(s) /\ Tail(AtCall(s)) = <<>>
         /\ ReadOp(s).op = "READ" /\ ReadOp(s).key = s
         /\ RequireOp.op = "REQUIRE" /\ RequireOp.value = 0
         /\ WriteOp(s).op = "WRITE" /\ WriteOp(s).key = s /\ WriteOp(s).add = 1
         /\ CallOp(s).op = "CALL" /\ CallOp(s).call = <<s, "_init">>
<1>1. Body(Processor(s)) = AtRead(s)
  BY DEF Body, Processor, DeployService, ReadOp, RequireOp, WriteOp, CallOp, AtRead
<1>2. /\ ReadOp(s).op = "READ" /\ ReadOp(s).key = s
      /\ RequireOp.op = "REQUIRE" /\ RequireOp.value = 0
      /\ WriteOp(s).op = "WRITE" /\ WriteOp(s).key = s /\ WriteOp(s).add = 1
      /\ CallOp(s).op = "CALL" /\ CallOp(s).call = <<s, "_init">>
  BY DEF ReadOp, RequireOp, WriteOp, CallOp
<1>3. AtRead(s) # <<>> /\ Head(AtRead(s)) = ReadOp(s) /\ Tail(AtRead(s)) = AtRequire(s)
  BY DEF AtRead, AtRequire
<1>4. AtRequire(s) # <<>> /\ Head(AtRequire(s)) = RequireOp /\ Tail(AtRequire(s)) = AtWrite(s)
  BY DEF AtRequire, AtWrite
<1>5. AtWrite(s) # <<>> /\ Head(AtWrite(s)) = WriteOp(s) /\ Tail(AtWrite(s)) = AtCall(s)
  BY DEF AtWrite, AtCall
<1>6. AtCall(s) # <<>> /\ Head(AtCall(s)) = CallOp(s) /\ Tail(AtCall(s)) = <<>>
  BY DEF AtCall
<1> QED
  BY <1>1, <1>2, <1>3, <1>4, <1>5, <1>6

LEMMA OneOf == 1 % Values = 1
<1>1. Values \in Int /\ Values >= 2
  BY ContractAssumption
<1> QED
  BY <1>1

\* The frame after a step of its own.
After(f, acc) == [service |-> f.service, rest |-> Tail(f.rest), acc |-> acc]

LEMMA AfterParts ==
  ASSUME NEW f, NEW acc
  PROVE  After(f, acc).service = f.service /\ After(f, acc).rest = Tail(f.rest) /\ After(f, acc).acc = acc
BY DEF After

LEMMA PlainAfter ==
  ASSUME NEW f \in Frame, Suspended(f), f.rest # <<>>
  PROVE  /\ f.service \in Service /\ InitOnly(f.service, Head(f.rest))
         /\ \A acc : Suspended(After(f, acc))
BY PlainGoesOn DEF Suspended, After, Plain

\* Where a method can be if its next SDK call is of a kind.
LEMMA DeployingOp ==
  ASSUME NEW f, NEW state, NEW s \in Service, Deploying(f, state, s)
  PROVE  /\ f.rest # <<>> /\ f.service = Deployments
         /\ Head(f.rest).op = "READ" =>
              /\ Head(f.rest).key = s /\ Consistent(state)
              /\ Tail(f.rest) = AtRequire(s)
         /\ Head(f.rest).op = "REQUIRE" =>
              /\ Head(f.rest).value = 0 /\ Consistent(state) /\ f.acc = state[Processor(s)]
              /\ Tail(f.rest) = AtWrite(s)
         /\ Head(f.rest).op = "WRITE" =>
              /\ Head(f.rest).key = s /\ Head(f.rest).add = 1 /\ Consistent(state)
              /\ f.acc = 0 /\ state[Processor(s)] = 0 /\ Tail(f.rest) = AtCall(s)
         /\ Head(f.rest).op = "CALL" =>
              /\ Head(f.rest).call = <<s, "_init">> /\ MidDeploy(state, s)
              /\ Tail(f.rest) = <<>>
         /\ Head(f.rest).op # "EMIT"
<1>1. CASE f.rest = AtRead(s) /\ Consistent(state)
  BY <1>1, DeployParts DEF Deploying
<1>2. CASE /\ f.rest = AtRequire(s) /\ Consistent(state)
           /\ f.acc = state[Processor(s)]
  BY <1>2, DeployParts DEF Deploying
<1>3. CASE /\ f.rest = AtWrite(s) /\ Consistent(state)
           /\ f.acc = 0 /\ state[Processor(s)] = 0
  BY <1>3, DeployParts DEF Deploying
<1>4. CASE f.rest = AtCall(s) /\ MidDeploy(state, s)
  BY <1>4, DeployParts DEF Deploying
<1> QED
  BY <1>1, <1>2, <1>3, <1>4 DEF Deploying

LEMMA InitializingOp ==
  ASSUME NEW f, NEW state, NEW s \in Service, Initializing(f, state, s)
  PROVE  /\ f.rest # <<>> /\ f.service = s /\ MidDeploy(state, s)
         /\ \/ /\ Head(f.rest).op = "READ" /\ Head(f.rest).key = Initialized
               /\ Tail(f.rest) = Tail(Code[<<s, "_init">>].body)
            \/ /\ Head(f.rest).op = "WRITE" /\ Head(f.rest).key = Initialized
               /\ Head(f.rest).add = 1 /\ f.acc = 0
               /\ \A acc : Suspended(After(f, acc))
<1> DEFINE body == Code[<<s, "_init">>].body
<1>1. /\ body # <<>> /\ Tail(body) # <<>>
      /\ Head(body) = [op |-> "READ", key |-> Initialized]
      /\ Head(Tail(body)) = [op |-> "WRITE", key |-> Initialized, add |-> 1]
      /\ \A i \in 1 .. Len(Tail(Tail(body))) : InitOnly(s, Tail(Tail(body))[i])
  BY InitBody
<1>. HIDE DEF body
<1>2. CASE f.rest = body
  BY <1>1, <1>2 DEF Initializing, body
<1>3. CASE f.rest = Tail(body) /\ f.acc = state[<<s, Initialized>>]
  <2>1. f.service = s /\ MidDeploy(state, s) /\ f.acc = 0
    BY <1>3 DEF Initializing, MidDeploy
  <2>2. \A acc : Suspended(After(f, acc))
    BY <1>1, <1>3, <2>1 DEF Suspended, Plain, After
  <2> QED
    BY <1>1, <1>3, <2>1, <2>2
<1> QED
  BY <1>2, <1>3 DEF Initializing, body

LEMMA FitsRead ==
  ASSUME NEW f \in Frame, f.rest # <<>>, Head(f.rest).op = "READ", NEW state, TopFits(f, state)
  PROVE  TopFits(After(f, state[<<f.service, Head(f.rest).key>>]), state)
<1> DEFINE a == After(f, state[<<f.service, Head(f.rest).key>>])
<1>1. CASE Suspended(f) /\ Consistent(state)
  BY <1>1, PlainAfter DEF TopFits
<1>2. ASSUME NEW s \in Service, Deploying(f, state, s)
      PROVE  TopFits(a, state)
  <2>1. /\ f.service = Deployments /\ Head(f.rest).key = s /\ Consistent(state)
        /\ Tail(f.rest) = AtRequire(s)
    BY <1>2, DeployingOp
  <2>2. /\ a.service = Deployments /\ a.rest = AtRequire(s)
        /\ a.acc = state[Processor(s)]
    BY <2>1, AfterParts DEF Processor
  <2> QED
    BY <2>1, <2>2 DEF TopFits, Deploying
<1>3. ASSUME NEW s \in Service, Initializing(f, state, s)
      PROVE  TopFits(a, state)
  <2>1. /\ f.service = s /\ MidDeploy(state, s) /\ Head(f.rest).key = Initialized
        /\ Tail(f.rest) = Tail(Code[<<s, "_init">>].body)
    BY <1>3, InitializingOp
  <2>2. /\ a.service = s /\ a.rest = Tail(Code[<<s, "_init">>].body)
        /\ a.acc = state[<<s, Initialized>>]
    BY <2>1, AfterParts
  <2> QED
    BY <2>1, <2>2 DEF TopFits, Initializing
<1> QED
  BY <1>1, <1>2, <1>3 DEF TopFits

LEMMA FitsRequire ==
  ASSUME NEW f \in Frame, f.rest # <<>>, Head(f.rest).op = "REQUIRE", NEW state, TopFits(f, state),
         f.acc = Head(f.rest).value
  PROVE  TopFits(After(f, f.acc), state)
<1>1. CASE Suspended(f) /\ Consistent(state)
  BY <1>1, PlainAfter DEF TopFits
<1>2. ASSUME NEW s \in Service, Deploying(f, state, s)
      PROVE  TopFits(After(f, f.acc), state)
  <2>1. /\ f.service = Deployments /\ f.acc = 0 /\ state[Processor(s)] = 0 /\ Consistent(state)
        /\ Tail(f.rest) = AtWrite(s)
    BY <1>2, DeployingOp
  <2>2. PICK a : a = After(f, f.acc)
    OBVIOUS
  <2>3. a.service = Deployments /\ a.rest = AtWrite(s) /\ a.acc = 0
    BY <2>1, <2>2, AfterParts
  <2>4. Deploying(a, state, s)
    BY <2>1, <2>3 DEF Deploying
  <2> QED
    BY <2>2, <2>4 DEF TopFits
<1>3. ASSUME NEW s \in Service, Initializing(f, state, s)
      PROVE  FALSE
  BY <1>3, InitializingOp
<1> QED
  BY <1>1, <1>2, <1>3 DEF TopFits

LEMMA FitsEmit ==
  ASSUME NEW f \in Frame, f.rest # <<>>, Head(f.rest).op = "EMIT", NEW state, TopFits(f, state)
  PROVE  TopFits(After(f, f.acc), state)
<1>1. CASE Suspended(f) /\ Consistent(state)
  BY <1>1, PlainAfter DEF TopFits
<1>2. ASSUME NEW s \in Service, Deploying(f, state, s)
      PROVE  FALSE
  BY <1>2, DeployingOp
<1>3. ASSUME NEW s \in Service, Initializing(f, state, s)
      PROVE  FALSE
  BY <1>3, InitializingOp
<1> QED
  BY <1>1, <1>2, <1>3 DEF TopFits

LEMMA FitsWrite ==
  ASSUME NEW f \in Frame, f.rest # <<>>, Head(f.rest).op = "WRITE", Head(f.rest).key \in Key \/ f.service = Deployments,
         NEW state \in State, TopFits(f, state),
         NEW sum, sum = (f.acc + Head(f.rest).add) % Values,
         NEW v, v = <<f.service, Head(f.rest).key>>
  PROVE  TopFits(After(f, sum), [state EXCEPT ![v] = sum])
<1>0. (0 + 1) % Values = 1
  <2>1. 0 + 1 = 1
    OBVIOUS
  <2> QED
    BY <2>1, OneOf
<1>1. CASE Suspended(f) /\ Consistent(state)
  <2>1. f.service \in Service /\ Head(f.rest).key # Initialized
    BY <1>1, PlainAfter DEF InitOnly
  <2>2. Head(f.rest).key \in Key
    BY <2>1, ContractAssumption
  <2>3. Consistent([state EXCEPT ![v] = sum])
    BY <1>1, <2>1, <2>2, PlainWrite
  <2> QED
    BY <1>1, <2>3, PlainAfter DEF TopFits
<1>2. ASSUME NEW s \in Service, Deploying(f, state, s)
      PROVE  TopFits(After(f, sum), [state EXCEPT ![v] = sum])
  <2>1. /\ f.service = Deployments /\ Head(f.rest).key = s /\ Head(f.rest).add = 1 /\ f.acc = 0
        /\ Consistent(state) /\ state[Processor(s)] = 0 /\ Tail(f.rest) = AtCall(s)
    BY <1>2, DeployingOp
  <2>2. sum = 1 /\ v = Processor(s)
    BY <1>0, <2>1 DEF Processor
  <2>3. MidDeploy([state EXCEPT ![v] = sum], s)
    BY <2>1, <2>2, DeployWrite
  <2>4. After(f, sum).service = Deployments /\ After(f, sum).rest = AtCall(s)
    BY <2>1, AfterParts
  <2> QED
    BY <2>3, <2>4 DEF TopFits, Deploying
<1>3. ASSUME NEW s \in Service, Initializing(f, state, s)
      PROVE  TopFits(After(f, sum), [state EXCEPT ![v] = sum])
  <2>1. /\ f.service = s /\ Head(f.rest).key = Initialized /\ Head(f.rest).add = 1 /\ f.acc = 0
        /\ MidDeploy(state, s) /\ \A acc : Suspended(After(f, acc))
    BY <1>3, InitializingOp
  <2>2. sum = 1 /\ v = <<s, Initialized>>
    BY <1>0, <2>1
  <2>3. Consistent([state EXCEPT ![v] = sum])
    BY <2>1, <2>2, InitWrite
  <2> QED
    BY <2>1, <2>3 DEF TopFits
<1> QED
  BY <1>1, <1>2, <1>3 DEF TopFits

\* Where a method can be when it is entered.
LEMMA EnterFits ==
  ASSUME NEW call \in Call, NEW state, Consistent(state),
         call[1] # Deployments => call[2] # "_init"
  PROVE  TopFits([service |-> call[1], rest |-> Body(call), acc |-> 0], state)
<1> DEFINE g == [service |-> call[1], rest |-> Body(call), acc |-> 0]
<1>1. CASE call[1] = Deployments
  <2>1. PICK s \in Service : call = Processor(s)
    BY <1>1, ContractAssumption DEF Call, Processor
  <2>2. g.service = Deployments /\ g.rest = AtRead(s)
    BY <1>1, <2>1, DeployParts
  <2>3. Deploying(g, state, s)
    BY <2>2 DEF Deploying
  <2> QED
    BY <2>3 DEF TopFits
<1>2. CASE call[1] # Deployments
  <2>1. PICK s \in Service, m \in Method : call = <<s, m>>
    BY <1>2 DEF Call
  <2>2. Plain([service |-> s, rest |-> Code[<<s, m>>].body, acc |-> 0])
    BY <1>2, <2>1, BodyPlain
  <2>3. g = [service |-> s, rest |-> Code[<<s, m>>].body, acc |-> 0]
    BY <1>2, <2>1 DEF Body
  <2> QED
    BY <2>2, <2>3 DEF TopFits, Suspended
<1> QED
  BY <1>1, <1>2

\* "_init" is internal.
LEMMA CalledByNoOther ==
  ASSUME NEW call \in Call, NEW caller, NEW access, Permitted(caller, call, access),
         call[1] # Deployments, call[2] = "_init"
  PROVE  call = <<call[1], "_init">> /\ caller \in {call[1], Deployments}
<1>1. PICK s \in Service, m \in Method : call = <<s, m>>
  BY DEF Call
<1>2. call = <<s, "_init">> /\ ~Code[<<s, "_init">>].external
  BY <1>1, InitBody
<1> QED
  BY <1>2 DEF Permitted

\* Only deployService gets an _init to run.
LEMMA FitsCall ==
  ASSUME NEW f \in Frame, f.rest # <<>>, Head(f.rest).op = "CALL", NEW state, TopFits(f, state),
         NEW call \in Call, call = Head(f.rest).call, NEW access,
         Permitted(f.service, call, access)
  PROVE  /\ Suspended(After(f, 0))
         /\ TopFits([service |-> call[1], rest |-> Body(call), acc |-> 0], state)
<1> DEFINE g == [service |-> call[1], rest |-> Body(call), acc |-> 0]
<1>1. CASE Suspended(f) /\ Consistent(state)
  <2>1. f.service \in Service /\ call # <<f.service, "_init">> /\ Suspended(After(f, 0))
    BY <1>1, PlainAfter DEF InitOnly
  <2>2. call[1] # Deployments => call[2] # "_init"
    BY <2>1, CalledByNoOther, ContractAssumption
  <2> QED
    BY <1>1, <2>1, <2>2, EnterFits
<1>2. ASSUME NEW s \in Service, Deploying(f, state, s)
      PROVE  Suspended(After(f, 0)) /\ TopFits(g, state)
  <2>1. /\ f.service = Deployments /\ call = <<s, "_init">> /\ MidDeploy(state, s)
        /\ Tail(f.rest) = <<>>
    BY <1>2, DeployingOp
  <2>2. g.service = s /\ g.rest = Code[<<s, "_init">>].body
    <3>1. call[1] = s /\ s # Deployments
      BY <2>1, ContractAssumption
    <3>2. Body(call) = Code[<<s, "_init">>].body
      BY <2>1, <3>1 DEF Body
    <3> QED
      BY <3>1, <3>2
  <2>3. Initializing(g, state, s)
    BY <2>1, <2>2 DEF Initializing
  <2>4. Suspended(After(f, 0))
    BY <2>1, AfterParts DEF Suspended
  <2> QED
    BY <2>3, <2>4 DEF TopFits
<1>3. ASSUME NEW s \in Service, Initializing(f, state, s)
      PROVE  FALSE
  BY <1>3, InitializingOp
<1> QED
  BY <1>1, <1>2, <1>3 DEF TopFits

\* What returns has deployed all there is to deploy.
LEMMA FitsReturn ==
  ASSUME NEW f, f.rest = <<>>, NEW state, TopFits(f, state)
  PROVE  Suspended(f) /\ Consistent(state)
BY DeployingOp, InitializingOp DEF TopFits

\* What a context keeps of InitFits when the method that runs goes on.
LEMMA GoesOnFits ==
  ASSUME NEW c, NEW base, InitFits(c, base),
         NEW d, d.stack # <<>>, Len(d.stack) = Len(c.stack), d.batch = c.batch,
         \A i \in 1 .. Len(c.stack) - 1 : d.stack[i] = c.stack[i],
         TopFits(Top(d), Seen(d, base))
  PROVE  InitFits(d, base)
BY DEF InitFits

LEMMA FailFits ==
  ASSUME NEW c \in Context, NEW base, InitFits(c, base), NEW result, NEW d, d = Fail(c, result)
  PROVE  InitFits(d, base)
<1>1. d.stack = <<>> /\ d.transaction = Empty /\ d.batch = c.batch
  BY FailFields
<1>2. Len(d.stack) = 0
  BY <1>1
<1> QED
  BY <1>1, <1>2 DEF InitFits

LEMMA FailedFits ==
  ASSUME NEW c \in Context, NEW base, InitFits(c, base)
  PROVE  InitFits(Failed(c), base)
BY FailFits DEF Failed

LEMMA BegunFits ==
  ASSUME NEW c, ContextOK(c), ~Executed(c), c.stack = <<>>, NEW base \in State, InitFits(c, base)
  PROVE  InitFits(Begun(c, base), base)
<1> DEFINE call == c.txs[Len(c.receipts) + 1]
<1>1. /\ c \in Context /\ call \in Call
      /\ call[1] # Deployments => Processor(call[1]) \in Call
  BY NextCall DEF ContextOK
<1>. HIDE DEF call
<1>2. Seen(c, base) = Over(c.batch, base) /\ Consistent(Seen(c, base))
  BY <1>1, SeenBatch DEF InitFits
<1>3. ASSUME NEW k \in Call, k[1] # Deployments => k[2] # "_init", NEW p, p = Push(c, k)
      PROVE  InitFits(p, base) /\ p \in Context
  <2>1. /\ p \in Context /\ SameRest(c, p) /\ p.stack # <<>> /\ Len(p.stack) = Len(c.stack) + 1
        /\ Top(p) = [service |-> k[1], rest |-> Body(k), acc |-> 0]
    <3>1. p = Push(c, k) /\ c \in Context
      BY <1>1, <1>3
    <3> QED
      BY <3>1, PushStack
  <2>2. TopFits(Top(p), Seen(p, base))
    <3>1. Seen(p, base) = Seen(c, base)
      BY <2>1, SameSeen
    <3>2. TopFits([service |-> k[1], rest |-> Body(k), acc |-> 0], Seen(c, base))
      BY <1>2, <1>3, EnterFits
    <3> QED
      BY <2>1, <3>1, <3>2
  <2>3. Len(p.stack) - 1 = 0
    BY <2>1
  <2> QED
    BY <2>1, <2>2, <2>3 DEF InitFits, SameRest
<1>4. ASSUME Permitted("sender", call, c.access)
      PROVE  InitFits(Push(c, call), base)
  <2>1. call[1] \in Service \cup {Deployments}
    BY <1>1 DEF Call
  <2>2. "sender" \notin {call[1], Deployments}
    BY <2>1, ContractAssumption
  <2>3. call[1] # Deployments => call[2] # "_init"
    BY <1>1, <1>4, <2>2, CalledByNoOther
  <2>4. PICK p : p = Push(c, call)
    OBVIOUS
  <2>5. InitFits(p, base)
    BY <1>1, <1>3, <2>3, <2>4
  <2> QED
    BY <2>4, <2>5
<1>5. ASSUME call[1] # Deployments
      PROVE  InitFits([Push(c, Processor(call[1])) EXCEPT !.deploying = TRUE], base)
  <2>1. PICK p : p = Push(c, Processor(call[1]))
    OBVIOUS
  <2>2. Processor(call[1])[1] = Deployments
    BY DEF Processor
  <2>3. InitFits(p, base) /\ p \in Context
    BY <1>1, <1>3, <1>5, <2>1, <2>2
  <2>4. PICK d : d = [p EXCEPT !.deploying = TRUE]
    OBVIOUS
  <2>5. d.stack = p.stack /\ d.transaction = p.transaction /\ d.batch = p.batch
    BY <2>3, <2>4 DEF Context
  <2>6. Top(d) = Top(p) /\ Seen(d, base) = Seen(p, base)
    BY <2>5 DEF Top, Seen, Transients
  <2>7. InitFits(d, base)
    BY <2>3, <2>5, <2>6 DEF InitFits
  <2> QED
    BY <2>1, <2>4, <2>7
<1> QED
  BY <1>1, <1>3, <1>4, <1>5, FailFits, FailedFits DEF Begun, call

LEMMA ReturnedFits ==
  ASSUME NEW c \in Context, c.stack # <<>>, Top(c).rest = <<>>, NEW base \in State, InitFits(c, base)
  PROVE  InitFits(HasReturned(c), base)
<1>1. Consistent(Seen(c, base))
  BY FitsReturn DEF InitFits
<1>2. CASE Len(c.stack) = 1
  <2>1. PICK d : d = Succeed(c, Top(c).acc)
    OBVIOUS
  <2>2. d.stack = <<>> /\ d.transaction = Empty /\ d.batch = Transients(c)
    BY <2>1, SucceedFields
  <2>3. Len(d.stack) = 0
    BY <2>2
  <2>4. InitFits(d, base)
    BY <1>1, <2>2, <2>3 DEF InitFits, Seen
  <2> QED
    BY <1>2, <2>1, <2>4 DEF HasReturned
<1>3. CASE Len(c.stack) # 1
  <2> DEFINE n == Len(c.stack)
             caller == c.stack[n - 1]
  <2>1. PICK d : d = Pop(c)
    OBVIOUS
  <2>2. /\ d \in Context /\ SameRest(c, d) /\ d.stack # <<>> /\ n > 1 /\ Len(d.stack) = n - 1
        /\ Top(d) = [service |-> caller.service, rest |-> caller.rest, acc |-> Top(c).acc]
        /\ \A i \in 1 .. n - 2 : d.stack[i] = c.stack[i]
    BY <1>3, <2>1, PopStack
  <2>3. n \in Nat
    BY ContextFields
  <2>. HIDE DEF n
  <2>4. n - 1 \in 1 .. n - 1 /\ \A i \in 1 .. n - 2 : i \in 1 .. n - 1
    BY <2>2, <2>3
  <2>5. \A i \in 1 .. n - 1 : Suspended(c.stack[i])
    BY DEF InitFits, n
  <2>6. Suspended(caller)
    BY <2>4, <2>5
  <2>. HIDE DEF caller
  <2>7. Suspended(Top(d))
    BY <2>2, <2>6 DEF Suspended, Plain
  <2>8. (n - 1) - 1 = n - 2
    BY <2>3
  <2>9. \A i \in 1 .. Len(d.stack) - 1 : Suspended(d.stack[i])
    BY <2>2, <2>4, <2>5, <2>8
  <2>10. InitFits(d, base)
    BY <1>1, <2>2, <2>7, <2>9, SameSeen DEF InitFits, TopFits, SameRest
  <2> QED
    BY <1>3, <2>1, <2>10 DEF HasReturned, n
<1> QED
  BY <1>2, <1>3

\* A method that runs is where it can be, and so is what it goes on to.
LEMMA RunFits ==
  ASSUME NEW c, ContextOK(c), c.stack # <<>>, Top(c).rest # <<>>, NEW base \in State,
         InitFits(c, base)
  PROVE  InitFits(Stepped(c, base), base)
<1> DEFINE f == Top(c)
           op == NextOp(c)
           state == Seen(c, base)
<1>1. /\ c \in Context /\ f \in Frame /\ f.rest # <<>> /\ op = Head(f.rest)
      /\ f.acc \in Value /\ state \in State /\ TopFits(f, state)
      /\ InitFits(Failed(c), base)
  BY TopType, SeenType, FailedFits DEF ContextOK, NextOp, InitFits
<1>. HIDE DEF f, op, state
<1>2. ASSUME NEW acc \in Value, NEW d, d = Continue(c, acc)
      PROVE  /\ d \in Context /\ SameRest(c, d) /\ d.stack # <<>> /\ Len(d.stack) = Len(c.stack)
             /\ Top(d) = After(f, acc) /\ Seen(d, base) = state /\ d.batch = c.batch
             /\ \A i \in 1 .. Len(c.stack) - 1 : d.stack[i] = c.stack[i]
  BY <1>1, <1>2, ContinueStack, SameSeen DEF After, f, state, SameRest
<1>3. ASSUME NEW acc \in Value, TopFits(After(f, acc), state)
      PROVE  InitFits(Continue(c, acc), base)
  <2>1. PICK d : d = Continue(c, acc)
    OBVIOUS
  <2>2. InitFits(d, base)
    BY <1>2, <1>3, <2>1, GoesOnFits
  <2> QED
    BY <2>1, <2>2
<1>4. CASE op.op = "READ"
  <2>1. state[<<f.service, op.key>>] \in Value
    BY <1>4, TopType, SeenType, ContextFields DEF ContextOK, f, op, state
  <2>2. TopFits(After(f, state[<<f.service, op.key>>]), state)
    BY <1>1, <1>4, FitsRead
  <2>3. InitFits(HasRead(c, base), base)
    BY <1>3, <2>1, <2>2 DEF HasRead, f, op, state
  <2> QED
    BY <1>4, <2>3 DEF Stepped, op
<1>5. CASE op.op = "WRITE"
  <2>1. CASE c.access = "READ_ONLY"
    BY <1>1, <1>5, <2>1 DEF Stepped, HasWritten, op
  <2>2. CASE c.access # "READ_ONLY"
    <3>1. PICK d : d = HasWritten(c)
      OBVIOUS
    <3>2. PICK v : v = <<f.service, op.key>>
      OBVIOUS
    <3>3. PICK sum : sum = Sum(c)
      OBVIOUS
    <3>4. sum = (f.acc + op.add) % Values
      BY <3>3 DEF Sum, f, op
    <3>5. /\ d \in Context /\ d.stack # <<>> /\ Len(d.stack) = Len(c.stack) /\ d.batch = c.batch
          /\ Top(d) = After(f, sum) /\ Seen(d, base) = [state EXCEPT ![v] = sum]
          /\ \A i \in 1 .. Len(c.stack) - 1 : d.stack[i] = c.stack[i]
      BY <1>1, <1>5, <2>2, <3>1, <3>2, <3>3, WriteSeen DEF After, f, op, state
    <3>6. op.key \in Key \/ f.service = Deployments
      BY <1>1, <1>5, TopType DEF f, op, Var
    <3>7. TopFits(After(f, sum), [state EXCEPT ![v] = sum])
      BY <1>1, <1>5, <3>2, <3>4, <3>6, FitsWrite
    <3>8. InitFits(d, base)
      BY <3>5, <3>7, GoesOnFits
    <3> QED
      BY <1>5, <3>1, <3>8 DEF Stepped, op
  <2> QED
    BY <2>1, <2>2
<1>6. CASE op.op = "REQUIRE"
  <2>1. CASE f.acc = op.value
    <3>1. TopFits(After(f, f.acc), state)
      BY <1>1, <1>6, <2>1, FitsRequire
    <3>2. InitFits(Continue(c, f.acc), base)
      BY <1>1, <1>3, <3>1
    <3> QED
      BY <1>6, <2>1, <3>2 DEF Stepped, HasRequired, op, f
  <2>2. CASE f.acc # op.value
    BY <1>1, <1>6, <2>2 DEF Stepped, HasRequired, op, f
  <2> QED
    BY <2>1, <2>2
<1>7. CASE op.op = "CALL"
  <2> DEFINE call == op.call
             permitted == Exists(state, call[1]) /\ Permitted(f.service, call, c.access)
  <2>1. CASE ~permitted
    BY <1>1, <1>7, <2>1 DEF Stepped, HasCalled, op, f, state
  <2>2. CASE permitted
    <3>1. call \in Call
      BY <1>1, <1>7, TopType DEF f, op
    <3>. HIDE DEF call
    <3>2. /\ Suspended(After(f, 0))
          /\ TopFits([service |-> call[1], rest |-> Body(call), acc |-> 0], state)
      BY <1>1, <1>7, <2>2, <3>1, FitsCall DEF call
    <3>3. PICK k : k = Continue(c, 0)
      OBVIOUS
    <3>4. /\ k \in Context /\ k.stack # <<>> /\ Len(k.stack) = Len(c.stack) /\ SameRest(c, k)
          /\ Top(k) = After(f, 0) /\ Seen(k, base) = state /\ k.batch = c.batch
          /\ \A i \in 1 .. Len(c.stack) - 1 : k.stack[i] = c.stack[i]
      BY <1>2, <3>3, ValueZero
    <3>5. PICK d : d = Push(k, call)
      OBVIOUS
    <3>6. /\ d.stack # <<>> /\ Len(d.stack) = Len(c.stack) + 1 /\ SameRest(k, d)
          /\ Top(d) = [service |-> call[1], rest |-> Body(call), acc |-> 0]
          /\ \A i \in 1 .. Len(c.stack) : d.stack[i] = k.stack[i]
      BY <3>1, <3>4, <3>5, PushStack
    <3>7. Seen(d, base) = state /\ d.batch = c.batch
      BY <3>4, <3>6, SameSeen DEF SameRest
    <3>8. TopFits(Top(d), Seen(d, base))
      BY <3>2, <3>6, <3>7
    <3>9. ASSUME NEW i \in 1 .. Len(d.stack) - 1
          PROVE  Suspended(d.stack[i])
      <4>1. PICK n \in Nat : n = Len(c.stack)
        BY <1>1, ContextFields
      <4>2. i \in 1 .. n /\ Len(c.stack) = n /\ (i # n => i \in 1 .. n - 1)
        BY <3>6, <4>1
      <4>3. d.stack[i] = k.stack[i]
        BY <3>6, <4>2
      <4>4. CASE i = n
        BY <3>2, <3>4, <4>2, <4>3, <4>4 DEF Top
      <4>5. CASE i # n
        <5>1. k.stack[i] = c.stack[i] /\ Suspended(c.stack[i])
          BY <3>4, <4>2, <4>5 DEF InitFits
        <5> QED
          BY <4>3, <5>1
      <4> QED
        BY <4>4, <4>5
    <3>10. InitFits(d, base)
      BY <3>6, <3>7, <3>8, <3>9 DEF InitFits
    <3> QED
      BY <1>7, <2>2, <3>3, <3>5, <3>10 DEF Stepped, HasCalled, op, f, state, call
  <2> QED
    BY <2>1, <2>2
<1>8. CASE op.op = "EMIT"
  <2>1. CASE c.events # <<>>
    BY <1>1, <1>8, <2>1 DEF Stepped, HasEmitted, op
  <2>2. CASE c.events = <<>>
    <3>1. PICK k : k = Continue(c, f.acc)
      OBVIOUS
    <3>2. /\ k \in Context /\ k.stack # <<>> /\ Len(k.stack) = Len(c.stack)
          /\ Top(k) = After(f, f.acc) /\ Seen(k, base) = state /\ k.batch = c.batch
          /\ \A i \in 1 .. Len(c.stack) - 1 : k.stack[i] = c.stack[i]
      BY <1>1, <1>2, <3>1
    <3>3. PICK d : d = [k EXCEPT !.events = <<f.service>>]
      OBVIOUS
    <3>4. d.stack = k.stack /\ d.transaction = k.transaction /\ d.batch = k.batch
      BY <3>2, <3>3 DEF Context
    <3>5. Top(d) = After(f, f.acc) /\ Seen(d, base) = state
      BY <3>2, <3>4 DEF Top, Seen, Transients
    <3>6. TopFits(After(f, f.acc), state)
      BY <1>1, <1>8, FitsEmit
    <3>7. InitFits(d, base)
      BY <3>2, <3>4, <3>5, <3>6, GoesOnFits
    <3> QED
      BY <1>8, <2>2, <3>1, <3>3, <3>7 DEF Stepped, HasEmitted, op, f
  <2> QED
    BY <2>1, <2>2
<1>9. op.op \in {"READ", "WRITE", "REQUIRE", "CALL", "EMIT"}
  BY <1>1, TopType DEF f, op
<1> QED
  BY <1>4, <1>5, <1>6, <1>7, <1>8, <1>9

\* An execution keeps what it began with.
LEMMA ReachFits ==
  ASSUME NEW access \in {"READ_ONLY", "READ_WRITE"}, NEW height \in Nat, NEW txs \in Seq(Call),
         NEW base \in State, Consistent(base), NEW d \in Reach(Fresh(access, height, txs), base)
  PROVE  InitFits(d, base)
<1> DEFINE first == Fresh(access, height, txs)
           S == {c \in Contexts : InitFits(c, base)}
<1>1. first \in Contexts
  BY FreshType
<1>2. first \in S
  <2>1. first.stack = <<>> /\ first.transaction = Empty /\ first.batch = Empty
    BY DEF Fresh, Allocate
  <2>. HIDE DEF first
  <2>2. Len(first.stack) = 0
    BY <2>1
  <2>3. Over(first.batch, base) = base
    BY <2>1, OverEmpty
  <2> QED
    BY <1>1, <2>1, <2>2, <2>3 DEF InitFits
<1>3. ASSUME NEW c \in S, Active(c)
      PROVE  Stepped(c, base) \in S
  <2>1. Stepped(c, base) \in Contexts /\ ContextOK(c) /\ c \in Context /\ InitFits(c, base)
    BY <1>3, SteppedIn DEF Contexts
  <2>2. CASE c.stack = <<>>
    BY <1>3, <2>1, <2>2, BegunFits DEF Active, Stepped
  <2>3. CASE c.stack # <<>> /\ Top(c).rest = <<>>
    BY <2>1, <2>3, ReturnedFits DEF Stepped
  <2>4. CASE c.stack # <<>> /\ Top(c).rest # <<>>
    BY <2>1, <2>4, RunFits
  <2> QED
    BY <2>1, <2>2, <2>3, <2>4
<1>4. Closed(S, base)
  BY <1>3 DEF Closed
<1>5. d \in S
  BY <1>2, <1>4, ReachIn
<1> QED
  BY <1>5

LEMMA OutcomeConsistent ==
  ASSUME NEW height \in Nat, NEW txs \in Seq(Call), NEW base \in State, Consistent(base),
         NEW d \in Outcomes(height, txs, base)
  PROVE  Consistent(Over(d.batch, base))
BY ReachFits DEF Outcomes, InitFits

LEMMA AllConsistent ==
  ASSUME TypeInv, Replays
  PROVE  \A h \in 0 .. Len(chain) : Consistent(StateIn(chain, h))
<1>1. PICK n \in Nat : n = Len(chain)
  BY TypeFacts
<1> DEFINE S == {h \in Nat : h <= n => Consistent(StateIn(chain, h))}
<1>2. 0 \in S
  <2>1. ASSUME NEW v \in Var
        PROVE  StateIn(chain, 0)[v] = 0
    <3>1. Writers(chain, 0, v) = {}
      BY DEF Writers
    <3> QED
      BY <3>1 DEF StateIn, LastValue
  <2>2. Consistent(StateIn(chain, 0))
    BY <2>1, Counters DEF Consistent
  <2> QED
    BY <2>2
<1>3. ASSUME NEW h \in Nat, h \in S
      PROVE  h + 1 \in S
  <2>1. SUFFICES ASSUME h + 1 <= n PROVE Consistent(StateIn(chain, h + 1))
    OBVIOUS
  <2>2. h <= n /\ h + 1 \in 1 .. n /\ (h + 1) - 1 = h
    BY <2>1
  <2>3. Consistent(StateIn(chain, h)) /\ StateIn(chain, h) \in State
    BY <1>1, <1>3, <2>2, TypeFacts, StateInType
  <2>4. chain[h + 1].txs \in Seq(Call)
    <3>1. chain \in Seq(BlockOf) /\ h + 1 \in 1 .. Len(chain)
      BY <1>1, <2>2, TypeFacts
    <3>2. chain[h + 1] \in BlockOf
      BY <3>1, ElementOfSeq
    <3> QED
      BY <3>2 DEF BlockOf
  <2>5. PICK d \in Outcomes(h, chain[h + 1].txs, StateIn(chain, h)) :
               StateIn(chain, h + 1) = Over(d.batch, StateIn(chain, h))
    BY <1>1, <2>2 DEF Replays, BlockReplays
  <2> QED
    BY <2>3, <2>4, <2>5, OutcomeConsistent
<1>. HIDE DEF S
<1>4. \A h \in Nat : h \in S
  BY <1>2, <1>3, NatSetInduction
<1> QED
  BY <1>1, <1>4 DEF S

\* A contract's _init has run exactly once if it is deployed and never if it is not
\* (deployService, ProcessTransactionSet's auto deploy): no transaction calls it, no
\* contract but _Deployments does, and a failed deployment leaves nothing behind.
THEOREM InitRunsOnce == Spec => []InitializedOnce
<1>1. Init => TypeInv /\ Replays
  BY TypeInit, ReplaysInit
<1>2. TypeInv /\ Replays /\ [Next]_vars => (TypeInv /\ Replays)'
  BY TypeStep, ReplaysStep
<1>3. TypeInv /\ Replays => InitializedOnce
  <2>1. SUFFICES ASSUME TypeInv, Replays, NEW h \in 0 .. Len(chain), NEW s \in Service
                 PROVE  StateAt(h)[<<s, Initialized>>] = StateAt(h)[Processor(s)]
    BY DEF InitializedOnce
  <2>2. Consistent(StateIn(chain, h))
    BY <2>1, AllConsistent
  <2>3. StateAt(h) = StateIn(chain, h)
    BY StateAtIs
  <2> QED
    BY <2>2, <2>3 DEF Consistent
<1> QED
  BY <1>1, <1>2, <1>3, PTL DEF Spec

=============================================================================
