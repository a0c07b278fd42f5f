---------------------------- MODULE SingleLedger ----------------------------
(***************************************************************************)
(* What consensus and block sync promise together: the virtual chain has   *)
(* one ledger, and every node's BlockStorage holds a prefix of it.         *)
(***************************************************************************)
EXTENDS Naturals, Sequences

CONSTANTS Node, Block

VARIABLES
  ledger,   \* the blocks decided so far
  stored    \* the blocks in each node's BlockStorage

vars == <<ledger, stored>>

Init ==
  /\ ledger = <<>>
  /\ stored = [n \in Node |-> <<>>]

\* A node that stores the whole ledger commits the next block under consensus.
Decide(n) ==
  /\ stored[n] = ledger
  /\ \E b \in Block : ledger' = Append(ledger, b)
  /\ stored' = [stored EXCEPT ![n] = ledger']

\* A node that is behind stores the next block of the ledger.
Learn(n) ==
  /\ Len(stored[n]) < Len(ledger)
  /\ stored' = [stored EXCEPT ![n] = Append(@, ledger[Len(@) + 1])]
  /\ UNCHANGED ledger

Next == \E n \in Node : Decide(n) \/ Learn(n)

Spec == Init /\ [][Next]_vars
=============================================================================
