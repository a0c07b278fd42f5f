----------------------------- MODULE MCLeanHelix -----------------------------
(* Four nodes, f = 1: n1, n2, n3 and n4 lead views 0, 1, 2 and 3.           *)
EXTENDS LeanHelixLedger, TLC

CONSTANTS n1, n2, n3, n4

Committee == {n1, n2, n3, n4}
Rotation == <<n1, n2, n3, n4>>

\* Block contents are interchangeable.
BlockSymmetry == Permutations(Block)

\* Two different quorums: view 0 runs among n1, n2 and n3, view 1 among n2, n3
\* and n4; what is sent to the fourth node is lost.  n4 times out at once, and
\* the COMMITs of view 0 reach n1 alone: would n2 or n3 commit there, view 1
\* could not complete.
TwoQuorums ==
  /\ view[n4] = 0 => msgs = {}
  /\ \A m \in log[n4] : m.view > 0
  /\ \A m \in log[n1] : m.view = 0
  /\ view[n1] = 0
  /\ \A n \in {n2, n3} : Senders(Of(log[n], "COMMIT", 0)) \subseteq {n}
  /\ \A n \in {n1, n2, n3} : validated[n] = {}

\* n4 takes no part in view 0 and times out at once; n1 times out too and gets
\* no message at all.  No COMMIT arrives.
DeafLeader ==
  /\ view[n4] = 0 => msgs = {}
  /\ \A m \in log[n4] : m.view > 0
  /\ \A m \in log[n1] : m.sender = n1
  /\ \A n \in Node : \A m \in log[n] : m.type = "COMMIT" => m.sender = n

\* Behaviours of one kind or of the other.
TwoViews == TwoQuorums \/ DeafLeader
=============================================================================
