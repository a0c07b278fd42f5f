---------------------------- MODULE VirtualMachine ----------------------------
(***************************************************************************)
(* The virtual machines of a virtual chain's nodes: a leader executes the  *)
(* transactions of its block, the others execute them again to validate    *)
(* it, and clients query contracts outside consensus.                      *)
(*                                                                         *)
(* An execution is many steps.  Contract code calls back for every state   *)
(* variable and every other contract, and what is not in the transient     *)
(* states is read from StateStorage at the height before the block, while  *)
(* StateStorage commits blocks and lets go of old snapshots.               *)
(*                                                                         *)
(* A contract is its methods, a method the SDK calls it makes.  A method   *)
(* has a register, acc: what it read last, what it writes, what it gives   *)
(* back.  An SDK call that fails fails the method, and with it the         *)
(* transaction; a read that StateStorage fails leaves the whole execution  *)
(* without a result.                                                       *)
(***************************************************************************)
EXTENDS Integers, Sequences, FiniteSets

CONSTANTS
  Node,
  Leader,          \* nodes that become leaders
  Gateway,         \* nodes that clients query
  Service,         \* contracts other than _Deployments
  Native,          \* the contracts in the native processor's registry
  Deployments,     \* the system contract _Deployments
  Method,
  Key,             \* the state variables of a contract
  Values,          \* number of values; 0 is the null value
  Code,            \* [external, readWrite, body] of every method
  TransactionSet,  \* what a leader may find in its pool, in order
  Query,           \* the calls clients make
  FailedEmit,      \* whether a failed transaction's events are persisted
  History,         \* STATE_STORAGE_HISTORY_SNAPSHOT_NUM
  Quorum,          \* approvals a block needs
  MaxHeight        \* bound: the last block

Call == Service \X Method \cup {Deployments} \X Service
Var == Service \X Key \cup {Deployments} \X Service
Value == 0 .. Values - 1

\* The SDK calls of a contract with these state variables.
Op(keys) == [op : {"READ"}, key : keys]
              \cup [op : {"WRITE"}, key : keys, add : Nat]
              \cup [op : {"REQUIRE"}, value : Value]
              \cup [op : {"CALL"}, call : Call]
              \cup [op : {"EMIT"}]

\* The contracts every node has in its code base.
Registry == Native \cup {Deployments}

ASSUME ContractAssumption ==
  /\ Leader \subseteq Node /\ Gateway \subseteq Node
  /\ Native \subseteq Service
  /\ Deployments \notin Service /\ "sender" \notin Service \cup {Deployments}
  /\ "_init" \in Method
  /\ Values \in Nat \ {0, 1}
  /\ Code \in [Service \X Method ->
               [external : BOOLEAN, readWrite : BOOLEAN, body : Seq(Op(Key))]]
  /\ TransactionSet \subseteq Seq(Call) /\ Query \subseteq Call
  /\ FailedEmit \in BOOLEAN

ASSUME SizesAssumption == {History, Quorum, MaxHeight} \subseteq Nat

VARIABLES
  chain,     \* the committed blocks: [txs, receipts, diff]
  stored,    \* last_committed_block of each StateStorage
  proposal,  \* the block in consensus: a set with at most one
  context,   \* the execution of a block and the query of each node
  refused    \* nodes that refused a proposal

vars == <<chain, stored, proposal, context, refused>>

---------------------------------------------------------------------------
(* StateStorage.                                                           *)

Transient == UNION {[S -> Value] : S \in SUBSET Var}
Empty == [v \in {} |-> 0]

\* The variables of top, and those of bottom below it.
Over(top, bottom) ==
  [v \in DOMAIN top \cup DOMAIN bottom |-> IF v \in DOMAIN top THEN top[v] ELSE bottom[v]]

\* A variable has the value the last block that changed it gave it.
StateAt(height) ==
  [v \in Var |->
     LET writers == {h \in 1 .. height : v \in DOMAIN chain[h].diff}
     IN  IF writers = {} THEN 0
         ELSE chain[CHOOSE h \in writers : \A other \in writers : other <= h].diff[v]]

\* Neither a height to come nor one that has left the snapshot history.
Available(n, height) == height \in stored[n] - History .. stored[n]

\* Mutant: does not check the block height.
CommitStateDiffUnchecked(n) ==
  /\ stored' = [stored EXCEPT ![n] = @ + 1]
  /\ UNCHANGED <<chain, proposal, context, refused>>

CommitStateDiff(n) ==
  /\ stored[n] < Len(chain)
  /\ stored' = [stored EXCEPT ![n] = @ + 1]
  /\ UNCHANGED <<chain, proposal, context, refused>>

---------------------------------------------------------------------------
(* Execution contexts.                                                     *)

Receipt == [result : {"SUCCESS", "ERROR_SMART_CONTRACT", "ERROR_CONTRACT_NOT_DEPLOYED"},
            output : Value, events : Seq(Service \cup {Deployments})]

Frame == [service : Service, rest : Seq(Op(Key)), acc : Value]
           \cup [service : {Deployments}, rest : Seq(Op(Service)), acc : Value]

\* What a leader proposes for the transactions, and nothing to compare with.
Results == [receipts : Seq(Receipt), diff : Transient, root : [Var -> Value]]
NoResults == [receipts |-> <<>>]

Context == [access : {"READ_ONLY", "READ_WRITE"},
            height : Nat,               \* of the state below the execution
            txs : Seq(Call),
            receipts : Seq(Receipt),    \* of the transactions executed so far
            deploying : BOOLEAN,        \* the running call is an auto deploy
            stack : Seq(Frame),         \* the service stack, its top last
            transaction : Transient,    \* transaction transient state
            events : Seq(Service \cup {Deployments}),   \* who emitted them
            batch : Transient,          \* batch transient state
            expected : Results \cup {NoResults}]

Allocate(access, height, txs, expected) ==
  [access |-> access, height |-> height, txs |-> txs, receipts |-> <<>>, deploying |-> FALSE,
   stack |-> <<>>, transaction |-> Empty, events |-> <<>>, batch |-> Empty,
   expected |-> expected]

NoContext == Allocate("READ_ONLY", 0, <<>>, NoResults)

Slot == {"BLOCK", "QUERY"}

Executed(c) == Len(c.receipts) = Len(c.txs)

\* What the transient states hold of the state.
Transients(c) == Over(c.transaction, c.batch)

\* Mutant: reads the state of the last committed block.
LookupLatest(n, c, v) ==
  IF v \in DOMAIN Transients(c) THEN Transients(c)[v] ELSE StateAt(stored[n])[v]

\* State.Read: StateStorage is asked for what the transient states do not hold.
Lookup(n, c, v) ==
  IF v \in DOMAIN Transients(c) THEN Transients(c)[v] ELSE StateAt(c.height)[v]

Top(c) == c.stack[Len(c.stack)]

\* The SDK call the running method makes next.
NextOp(c) == Head(Top(c).rest)

Running(c, op) ==
  /\ c.stack # <<>>
  /\ Top(c).rest # <<>>
  /\ NextOp(c).op = op

\* Where getInfo finds the processor of a service.
Processor(s) == <<Deployments, s>>

\* The next transaction's service, the variable an SDK call reads, or where the
\* code of a contract that is not native is found.
NextRead(c) ==
  CASE c.stack = <<>> -> {Processor(s) : s \in {c.txs[Len(c.receipts) + 1][1]} \ {Deployments}}
    [] Running(c, "READ") -> {<<Top(c).service, NextOp(c).key>>}
    [] Running(c, "CALL") -> {Processor(s) : s \in {NextOp(c).call[1]} \ Registry}
    [] OTHER -> {}

CanRead(n, c) == NextRead(c) \subseteq DOMAIN Transients(c) \/ Available(n, c.height)

---------------------------------------------------------------------------
(* ProcessCall.                                                            *)

\* deployService(s), whose getInfo, writes and _init are SDK calls as well.
DeployService(s) ==
  <<[op |-> "READ", key |-> s], [op |-> "REQUIRE", value |-> 0],
    [op |-> "WRITE", key |-> s, add |-> 1], [op |-> "CALL", call |-> <<s, "_init">>]>>

Body(call) == IF call[1] = Deployments THEN DeployService(call[2]) ELSE Code[call].body

\* Mutant: anyone may call an internal method.
PermittedToAll(caller, call, access) ==
  call[1] = Deployments \/ Code[call].readWrite => access = "READ_WRITE"

\* Internal methods are for the same contract and for system contracts, ReadWrite
\* methods for a write context.  The caller of a transaction's method is its
\* sender, no contract.
Permitted(caller, call, access) ==
  IF call[1] = Deployments THEN access = "READ_WRITE"
  ELSE /\ Code[call].external \/ caller \in {call[1], Deployments}
       /\ Code[call].readWrite => access = "READ_WRITE"

Push(c, call) ==
  [c EXCEPT !.stack = Append(c.stack, [service |-> call[1], rest |-> Body(call), acc |-> 0])]

\* What a failed transaction's receipt tells: either statement of the description.
FailedEvents(c) == IF FailedEmit THEN c.events ELSE <<>>

\* Mutant: a failed transaction's writes stay in the batch.
FailKeeping(c, result) ==
  [c EXCEPT !.receipts = Append(c.receipts,
              [result |-> result, output |-> 0, events |-> FailedEvents(c)]),
            !.deploying = FALSE, !.stack = <<>>, !.events = <<>>,
            !.transaction = Empty, !.batch = Transients(c)]

\* The transaction fails: its transient state is gone.
Fail(c, result) ==
  [c EXCEPT !.receipts = Append(c.receipts,
              [result |-> result, output |-> 0, events |-> FailedEvents(c)]),
            !.deploying = FALSE, !.stack = <<>>, !.events = <<>>, !.transaction = Empty]

Failed(c) == Fail(c, IF c.deploying THEN "ERROR_CONTRACT_NOT_DEPLOYED" ELSE "ERROR_SMART_CONTRACT")

\* The method the transaction called, or its auto deploy, was successful.
Succeed(c, output) ==
  [c EXCEPT !.receipts =
              IF c.deploying THEN c.receipts
              ELSE Append(c.receipts, [result |-> "SUCCESS", output |-> output, events |-> c.events]),
            !.deploying = FALSE, !.stack = <<>>, !.events = <<>>,
            !.transaction = Empty, !.batch = Transients(c)]

\* The method that runs goes on with another value in its register.
Continue(c, acc) ==
  [c EXCEPT !.stack = [c.stack EXCEPT ![Len(c.stack)] =
     [service |-> Top(c).service, rest |-> Tail(Top(c).rest), acc |-> acc]]]

\* It is done: the one that called it goes on with its output.
Pop(c) ==
  LET caller == c.stack[Len(c.stack) - 1]
  IN  [c EXCEPT !.stack = Append(SubSeq(c.stack, 1, Len(c.stack) - 2),
         [service |-> caller.service, rest |-> caller.rest, acc |-> Top(c).acc])]

---------------------------------------------------------------------------
(* The steps of an execution; e is <<node, slot>>.                         *)

Step(e, c) ==
  /\ context' = [context EXCEPT ![e] = c]
  /\ UNCHANGED <<chain, stored, proposal, refused>>

\* The service of the next transaction is looked up and called, or deployed.
StartTransaction(e) ==
  LET c == context[e]
      call == c.txs[Len(c.receipts) + 1]
      deployed == \A s \in {call[1]} \ {Deployments} : Lookup(e[1], c, Processor(s)) # 0
  IN  /\ ~Executed(c)
      /\ c.stack = <<>>
      /\ CanRead(e[1], c)
      /\ \/ /\ deployed
            /\ Step(e, IF Permitted("sender", call, c.access) THEN Push(c, call) ELSE Failed(c))
         \/ /\ ~deployed
            /\ c.access = "READ_WRITE" /\ call[1] \in Native
            /\ Step(e, [Push(c, Processor(call[1])) EXCEPT !.deploying = TRUE])
         \/ /\ ~deployed
            /\ c.access = "READ_ONLY" \/ call[1] \notin Native
            /\ Step(e, Fail(c, "ERROR_CONTRACT_NOT_DEPLOYED"))

StateRead(e) ==
  LET c == context[e]
      v == <<Top(c).service, NextOp(c).key>>
  IN  /\ Running(c, "READ")
      /\ CanRead(e[1], c)
      /\ Step(e, Continue(c, Lookup(e[1], c, v)))

StateWrite(e) ==
  LET c == context[e]
      v == <<Top(c).service, NextOp(c).key>>
      value == (Top(c).acc + NextOp(c).add) % Values
  IN  /\ Running(c, "WRITE")
      /\ Step(e, IF c.access = "READ_ONLY" THEN Failed(c)
                 ELSE [Continue(c, value) EXCEPT
                         !.transaction = Over([x \in {v} |-> value], c.transaction)])

\* Code of the contract's own: it fails unless it finds the value.
Require(e) ==
  LET c == context[e]
  IN  /\ Running(c, "REQUIRE")
      /\ Step(e, IF Top(c).acc = NextOp(c).value THEN Continue(c, Top(c).acc) ELSE Failed(c))

\* Service.CallMethod: native code is there without deployment, other code is found
\* where deployService wrote it.
CallMethod(e) ==
  LET c == context[e]
      call == NextOp(c).call
  IN  /\ Running(c, "CALL")
      /\ CanRead(e[1], c)
      /\ Step(e, IF /\ call[1] \in Registry \/ Lookup(e[1], c, Processor(call[1])) # 0
                    /\ Permitted(Top(c).service, call, c.access)
                 THEN Push(Continue(c, 0), call) ELSE Failed(c))

\* A second event fails the transaction.
EmitEvent(e) ==
  LET c == context[e]
  IN  /\ Running(c, "EMIT")
      /\ Step(e, IF c.events # <<>> THEN Failed(c)
                 ELSE [Continue(c, Top(c).acc) EXCEPT !.events = <<Top(c).service>>])

\* A method returns to the one that called it, or to the virtual machine.
Return(e) ==
  LET c == context[e]
  IN  /\ c.stack # <<>>
      /\ Top(c).rest = <<>>
      /\ Step(e, IF Len(c.stack) = 1 THEN Succeed(c, Top(c).acc) ELSE Pop(c))

\* ReadKeys fails: the height is not committed in time, or gone.
ReadFails(e) ==
  LET c == context[e]
  IN  /\ IF Executed(c) THEN e[2] = "BLOCK" /\ ~Available(e[1], c.height)
         ELSE ~CanRead(e[1], c)
      /\ Step(e, NoContext)

---------------------------------------------------------------------------
(* ConsensusContext and PublicApi.                                         *)

\* The changes between the batch transient state and the original state.
Diff(c) ==
  [v \in {x \in DOMAIN c.batch : c.batch[x] # StateAt(c.height)[x]} |-> c.batch[v]]

ResultsOf(c) == [receipts |-> c.receipts, diff |-> Diff(c), root |-> StateAt(c.height)]

Block(n) == context[<<n, "BLOCK">>]

\* The leader has its transactions executed.
RequestNewResultsBlock(n) ==
  /\ Block(n) = NoContext
  /\ Len(chain) < MaxHeight
  /\ proposal = {}
  /\ \E txs \in TransactionSet :
       Step(<<n, "BLOCK">>, Allocate("READ_WRITE", Len(chain), txs, NoResults))

\* A proposal that consensus has no use for any more is dropped.
ProposeResults(n) ==
  LET c == Block(n)
  IN  /\ c # NoContext /\ c.expected = NoResults /\ Executed(c)
      /\ Available(n, c.height)
      /\ proposal' = IF proposal # {} \/ c.height # Len(chain) THEN proposal
                     ELSE {[txs |-> c.txs, results |-> ResultsOf(c), approved |-> {n}]}
      /\ context' = [context EXCEPT ![<<n, "BLOCK">>] = NoContext]
      /\ UNCHANGED <<chain, stored, refused>>

\* ValidateResultsBlock checks the merkle root of the state before it executes.
ValidateResultsBlock(n) ==
  \E p \in proposal :
    /\ Block(n) = NoContext
    /\ n \notin p.approved \cup refused
    /\ Available(n, Len(chain))
    /\ IF p.results.root = StateAt(Len(chain))
       THEN /\ context' = [context EXCEPT ![<<n, "BLOCK">>] =
                 Allocate("READ_WRITE", Len(chain), p.txs, p.results)]
            /\ UNCHANGED refused
       ELSE refused' = refused \cup {n} /\ UNCHANGED context
    /\ UNCHANGED <<chain, stored, proposal>>

CompareResults(n) ==
  LET c == Block(n)
      same == ResultsOf(c) = c.expected
  IN  /\ c.expected # NoResults /\ Executed(c)
      /\ Available(n, c.height)
      /\ proposal' = {[p EXCEPT !.approved =
                         IF same /\ c.height = Len(chain) /\ p.results = c.expected
                         THEN @ \cup {n} ELSE @] : p \in proposal}
      /\ refused' = IF same THEN refused ELSE refused \cup {n}
      /\ context' = [context EXCEPT ![<<n, "BLOCK">>] = NoContext]
      /\ UNCHANGED <<chain, stored>>

\* Consensus on the proposal.
CommitProposal ==
  \E p \in proposal :
    /\ Cardinality(p.approved) >= Quorum
    /\ chain' = Append(chain, [txs |-> p.txs, receipts |-> p.results.receipts,
                               diff |-> p.results.diff])
    /\ proposal' = {}
    /\ UNCHANGED <<stored, context, refused>>

\* No consensus: another leader will propose.
GiveUpProposal ==
  /\ proposal # {}
  /\ proposal' = {}
  /\ UNCHANGED <<chain, stored, context, refused>>

\* A client's query, at the last block of the node's StateStorage; its answer stays
\* in the context until the next one.
ProcessQuery(n) ==
  LET c == context[<<n, "QUERY">>]
  IN  /\ Executed(c)
      /\ \E call \in Query :
           Step(<<n, "QUERY">>, Allocate("READ_ONLY", stored[n], <<call>>, NoResults))

---------------------------------------------------------------------------
Init ==
  /\ chain = <<>>
  /\ stored = [n \in Node |-> 0]
  /\ proposal = {}
  /\ context = [e \in Node \X Slot |-> NoContext]
  /\ refused = {}

Execute(e) ==
  \/ StartTransaction(e)
  \/ StateRead(e) \/ StateWrite(e) \/ Require(e) \/ CallMethod(e) \/ EmitEvent(e)
  \/ Return(e)
  \/ ReadFails(e)

Next ==
  \/ \E n \in Node :
       \/ CommitStateDiff(n)
       \/ ProposeResults(n)
       \/ ValidateResultsBlock(n)
       \/ CompareResults(n)
  \/ \E n \in Leader : RequestNewResultsBlock(n)
  \/ \E n \in Gateway : ProcessQuery(n)
  \/ \E e \in Node \X Slot : Execute(e)
  \/ CommitProposal
  \/ GiveUpProposal

Spec == Init /\ [][Next]_vars

---------------------------------------------------------------------------
\* Every variable has its type, and StateStorage follows the chain.
VMTypeOK ==
  /\ chain \in Seq([txs : Seq(Call), receipts : Seq(Receipt), diff : Transient])
  /\ stored \in [Node -> 0 .. Len(chain)]
  /\ proposal \in SUBSET [txs : Seq(Call), results : Results, approved : SUBSET Node]
  /\ context \in [Node \X Slot -> Context]
  /\ refused \subseteq Node
=============================================================================
