--------------------------- MODULE LeanHelixLedger ---------------------------
(***************************************************************************)
(* Lean Helix with block sync implements the single ledger: the ledger is  *)
(* the longest chain in any BlockStorage.                                  *)
(***************************************************************************)
EXTENDS LeanHelixInvariant

Hashes(n) == [h \in 1 .. Len(chain[n]) |-> chain[n][h].hash]

Longest == CHOOSE n \in Node : \A p \in Node : Len(chain[p]) <= Len(chain[n])

Ledger == INSTANCE SingleLedger
            WITH ledger <- Hashes(Longest),
                 stored <- [n \in Node |-> Hashes(n)]

\* Every commit and every synced block extends the one ledger or copies its
\* next block (BlockStorage.CommitBlock as called by OnCommittedLocally and by
\* inter node sync).
ImplementsLedger == Ledger!Spec
=============================================================================
