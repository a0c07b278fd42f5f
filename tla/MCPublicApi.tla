----------------------------- MODULE MCPublicApi -----------------------------
(* Two nodes and a transaction stamped one moment after the first.          *)
EXTENDS PublicApi, TLC

CONSTANTS n1, n2, t1

Nodes == {n1, n2}
Transactions == {t1}
Timestamps == t1 :> 1
=============================================================================
