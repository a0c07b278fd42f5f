--------------------------- MODULE SerialExecution ---------------------------
(* What the virtual machines are to compute: transactions performed serially
   (send-transaction.md), each in one go on the state the ones before it left,
   and none at all that fails. *)
EXTENDS VirtualMachine

CONSTANTS
  Initialized,   \* a state variable that counts how often "_init" has run
  Fuel           \* bound: the SDK calls the reference makes, one in another

ASSUME FuelAssumption == Fuel \in Nat

\* "_init" is internal and begins with adding one to the count.  It is run for
\* others to be deployed: a contract neither calls its own nor sets the count.
InitOnly(s, op) ==
  /\ op.op = "WRITE" => op.key # Initialized
  /\ op.op = "CALL" => op.call # <<s, "_init">>

ASSUME InitAssumption ==
  /\ Initialized \in Key
  /\ \A s \in Service :
       LET init == Code[<<s, "_init">>]
       IN  /\ ~init.external
           /\ Len(init.body) >= 2
           /\ init.body[1] = [op |-> "READ", key |-> Initialized]
           /\ init.body[2] = [op |-> "WRITE", key |-> Initialized, add |-> 1]
           /\ \A i \in 3 .. Len(init.body) : InitOnly(s, init.body[i])
  /\ \A s \in Service, m \in Method \ {"_init"} :
       \A i \in DOMAIN Code[<<s, m>>].body : InitOnly(s, Code[<<s, m>>].body[i])

---------------------------------------------------------------------------
(* Running code.                                                           *)

State == [Var -> Value]

\* A method at some point, and the state and the events it has come to.
Point == [frame : Frame, access : {"READ_ONLY", "READ_WRITE"}, state : State,
          events : Seq(Service \cup {Deployments})]

\* How it ends.
Returned(state, events, acc) ==
  [end |-> "RETURNED", state |-> state, events |-> events, acc |-> acc]
FailedCode == [end |-> "FAILED"]
Unfinished == [end |-> "UNFINISHED"]

End == [end : {"RETURNED"}, state : State, events : Seq(Service \cup {Deployments}), acc : Value]
         \cup {FailedCode, Unfinished}

Enter(call, access, state, events) ==
  [frame |-> [service |-> call[1], rest |-> Body(call), acc |-> 0],
   access |-> access, state |-> state, events |-> events]

Exists(state, s) == s \in Registry \/ state[Processor(s)] # 0

\* After the next SDK call.
GoOn(x, state, events, acc) ==
  [frame |-> [service |-> x.frame.service, rest |-> Tail(x.frame.rest), acc |-> acc],
   access |-> x.access, state |-> state, events |-> events]

\* A method makes its SDK calls one after the other, and so do those it calls,
\* as far as run runs code.
RunOn(run, x) ==
  LET f == x.frame
      op == Head(f.rest)
      v == <<f.service, op.key>>
      sum == (f.acc + op.add) % Values
      called == run[Enter(op.call, x.access, x.state, x.events)]
  IN  CASE f.rest = <<>> -> Returned(x.state, x.events, f.acc)
        [] f.rest # <<>> /\ op.op = "READ" -> run[GoOn(x, x.state, x.events, x.state[v])]
        [] f.rest # <<>> /\ op.op = "WRITE" ->
             IF x.access = "READ_ONLY" THEN FailedCode
             ELSE run[GoOn(x, [x.state EXCEPT ![v] = sum], x.events, sum)]
        [] f.rest # <<>> /\ op.op = "REQUIRE" ->
             IF f.acc = op.value THEN run[GoOn(x, x.state, x.events, f.acc)] ELSE FailedCode
        [] f.rest # <<>> /\ op.op = "CALL" ->
             IF ~(Exists(x.state, op.call[1]) /\ Permitted(f.service, op.call, x.access))
             THEN FailedCode
             ELSE IF called.end # "RETURNED" THEN called
             ELSE run[GoOn(x, called.state, called.events, called.acc)]
        [] f.rest # <<>> /\ op.op = "EMIT" ->
             IF x.events = <<>> THEN run[GoOn(x, x.state, <<f.service>>, f.acc)] ELSE FailedCode

\* As far as some SDK calls, one in another.
Run[fuel \in Nat] ==
  IF fuel = 0 THEN [x \in Point |-> Unfinished]
  ELSE [x \in Point |-> RunOn(Run[fuel - 1], x)]

---------------------------------------------------------------------------
(* Transactions and blocks.                                                *)

Performed(state, result, output, events) ==
  [end |-> "PERFORMED", state |-> state,
   receipt |-> [result |-> result, output |-> output, events |-> events]]

\* What becomes of a method called on a state, and of a failed one.
Invoked(state, r) ==
  CASE r.end = "RETURNED" -> Performed(r.state, "SUCCESS", r.acc, r.events)
    [] r.end = "FAILED" -> Performed(state, "ERROR_SMART_CONTRACT", 0, <<>>)
    [] r.end = "UNFINISHED" -> Unfinished

Invoke(state, call, access) ==
  IF Permitted("sender", call, access)
  THEN Invoked(state, Run[Fuel][Enter(call, access, state, <<>>)])
  ELSE Invoked(state, FailedCode)

NotDeployed(state) == Performed(state, "ERROR_CONTRACT_NOT_DEPLOYED", 0, <<>>)

\* One transaction: native contracts are deployed by their first one.
Transact(state, call, access) ==
  LET deployed == Run[Fuel][Enter(Processor(call[1]), access, state, <<>>)]
  IN  IF call[1] = Deployments \/ state[Processor(call[1])] # 0
      THEN Invoke(state, call, access)
      ELSE IF ~(call[1] \in Native /\ access = "READ_WRITE") THEN NotDeployed(state)
      ELSE CASE deployed.end = "RETURNED" -> Invoke(deployed.state, call, access)
             [] deployed.end = "FAILED" -> NotDeployed(state)
             [] deployed.end = "UNFINISHED" -> Unfinished

\* The next transaction on what the ones before it left.
Then(before, call, access) ==
  LET t == Transact(before.state, call, access)
  IN  IF before = Unfinished \/ t = Unfinished THEN Unfinished
      ELSE [end |-> "PERFORMED", state |-> t.state,
            receipts |-> Append(before.receipts, t.receipt)]

Serial(state, txs, access) ==
  LET upTo[i \in 0 .. Len(txs)] ==
        IF i = 0 THEN [end |-> "PERFORMED", state |-> state, receipts |-> <<>>]
        ELSE Then(upTo[i - 1], txs[i], access)
  IN  upTo[Len(txs)]

---------------------------------------------------------------------------
(* Properties.                                                             *)

\* What receipts tell of the transactions, less the events of those that failed:
\* virtual-machine.md persists them (line 40) and adds only a successful
\* transaction's to its receipt (98-100), and no property takes a side.
Told(r) == [r EXCEPT !.events = IF r.result = "SUCCESS" THEN r.events ELSE <<>>]

AllTold(receipts) == [i \in DOMAIN receipts |-> Told(receipts[i])]

\* Every block's results, outputs, events of successful transactions and state
\* diff are what its transactions do when they are performed serially, whatever was
\* cached, rolled back, nested and read while StateStorage went on, and whether a
\* failed transaction's events are persisted or not.
SerialResults ==
  \A h \in DOMAIN chain :
    LET serial == Serial(StateAt(h - 1), chain[h].txs, "READ_WRITE")
    IN  serial # Unfinished =>
          AllTold(chain[h].receipts) = serial.receipts /\ StateAt(h) = serial.state

\* No node that follows the algorithm refuses what another one that does proposed:
\* executing is deterministic, early, late or at a node that is behind.
ValidatesEverywhere == refused = {}

\* The answer to a query is that of the one height it refers to, however many
\* blocks are committed between its reads.
QueriesOneHeight ==
  \A n \in Gateway :
    LET c == context[<<n, "QUERY">>]
        serial == Serial(StateAt(c.height), c.txs, "READ_ONLY")
    IN  Executed(c) /\ serial # Unfinished => AllTold(c.receipts) = serial.receipts

\* A contract's _init has run exactly once if the contract is deployed, and else
\* never: no transaction and no contract but _Deployments gets it to run, and a
\* deployment that failed leaves no trace.
InitializedOnce ==
  \A h \in 0 .. Len(chain), s \in Service :
    StateAt(h)[<<s, Initialized>>] = StateAt(h)[Processor(s)]
=============================================================================
