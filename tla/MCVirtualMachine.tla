--------------------------- MODULE MCVirtualMachine ---------------------------
(* A native contract, a deployed one that calls it, and two nodes.           *)
EXTENDS SerialExecution

CONSTANTS n1, n2, token, swap, count

Nodes == {n1, n2}
Keys == {count, Initialized}
Methods == {"_init", "add", "use", "reset"}

Read(k) == [op |-> "READ", key |-> k]
Write(k, d) == [op |-> "WRITE", key |-> k, add |-> d]
Calls(s, m) == [op |-> "CALL", call |-> <<s, m>>]
Emit == [op |-> "EMIT"]
Is(v) == [op |-> "REQUIRE", value |-> v]

Internal(body) == [external |-> FALSE, readWrite |-> TRUE, body |-> body]
External(body) == [external |-> TRUE, readWrite |-> TRUE, body |-> body]
ReadOnly(body) == [external |-> TRUE, readWrite |-> FALSE, body |-> body]

Increment(k) == <<Read(k), Write(k, 1)>>

\* The token counts and tells; the swap counts, has the token count and wants to be
\* its first user.  Both have a method that calls the token's _init.
Codes == [c \in {token, swap} \X Methods |->
  CASE c[2] = "_init" -> Internal(Increment(Initialized))
    [] c = <<token, "add">> -> External(Increment(count) \o <<Emit>>)
    [] c = <<swap, "add">> -> ReadOnly(<<Read(count), Calls(token, "use")>>)
    [] c = <<token, "use">> -> ReadOnly(<<Read(Initialized), Is(1), Read(count)>>)
    [] c = <<swap, "use">> ->
         External(Increment(count) \o <<Calls(token, "add"), Is(1), Read(count)>>)
    [] c = <<token, "reset">> -> ReadOnly(<<Emit, Write(count, 2), Calls(token, "add")>>)
    [] c = <<swap, "reset">> -> External(<<Calls(token, "_init")>>)]

TransactionSets == {
  <<<<token, "add">>, <<token, "reset">>>>,
  <<<<Deployments, swap>>, <<swap, "use">>>>,
  <<<<token, "reset">>, <<swap, "reset">>>>}

Queries == {<<swap, "add">>, <<token, "reset">>}

\* The reference has enough Fuel to finish every block and query, whatever is deployed.
ASSUME FuelSuffices ==
  \A deployed \in SUBSET {Processor(s) : s \in {token, swap}} :
    LET state == [v \in Var |-> IF v \in deployed THEN 1 ELSE 0]
    IN  /\ \A txs \in TransactionSets : Serial(state, txs, "READ_WRITE") # Unfinished
        /\ \A call \in Queries : Serial(state, <<call>>, "READ_ONLY") # Unfinished
=============================================================================
