---------------------------- MODULE LeanHelixFork ----------------------------
(***************************************************************************)
(* One directed behaviour of LeanHelix that forks the chain: every node    *)
(* follows the algorithm, none stops, every message is eventually handled, *)
(* and the PRE_PREPARE of view 0 arrives late at n2, n3 and n4.  A         *)
(* breadth-first search does not reach that depth with four nodes and four *)
(* views, so the module walks along Schedule: step i is the handler of     *)
(* node Schedule[i].node and logs the message Schedule[i] names.           *)
(***************************************************************************)
EXTENDS MCLeanHelix

VARIABLE step   \* the next step of Schedule

Gets(n, type, v, s) == [node |-> n, type |-> type, view |-> v, sender |-> s]

Schedule == <<
  \* n1 proposes, its PRE_PREPARE is delayed; n2, n3 and n4 time out.
  Gets(n1, "PRE_PREPARE", 0, n1),
  Gets(n2, "VIEW_CHANGE", 1, n2),
  Gets(n3, "VIEW_CHANGE", 1, n3),
  Gets(n4, "VIEW_CHANGE", 1, n4),
  \* n2 starts view 1 with another block, the others prepare it.
  Gets(n2, "VIEW_CHANGE", 1, n3),
  Gets(n2, "VIEW_CHANGE", 1, n4),
  Gets(n1, "PRE_PREPARE", 1, n2),
  Gets(n3, "PRE_PREPARE", 1, n2),
  Gets(n4, "PRE_PREPARE", 1, n2),
  \* In view 1, n3 gets the late PRE_PREPARE: its candidate changes.
  Gets(n3, "PRE_PREPARE", 0, n1),
  \* n2, n3 and n4 are prepared in view 1 and send COMMIT: a quorum.
  Gets(n3, "PREPARE", 1, n1),
  Gets(n3, "PREPARE", 1, n4),
  Gets(n4, "PREPARE", 1, n1),
  Gets(n2, "PREPARE", 1, n1),
  Gets(n2, "PREPARE", 1, n4),
  \* Before the COMMITs arrive they time out; n3 starts view 2 from its own
  \* VIEW_CHANGE, whose proof names the candidate.
  Gets(n3, "VIEW_CHANGE", 2, n3),
  Gets(n2, "VIEW_CHANGE", 2, n2),
  Gets(n4, "VIEW_CHANGE", 2, n4),
  Gets(n3, "VIEW_CHANGE", 2, n2),
  Gets(n3, "VIEW_CHANGE", 2, n4),
  \* n2 and n4 get the late PRE_PREPARE and answer it with PREPAREs of view 2,
  \* which give n3 a valid proof of view 2.
  Gets(n2, "PRE_PREPARE", 0, n1),
  Gets(n4, "PRE_PREPARE", 0, n1),
  Gets(n3, "PREPARE", 2, n2),
  Gets(n3, "PREPARE", 2, n4),
  \* View 3 takes the block of that proof.
  Gets(n1, "VIEW_CHANGE", 2, n1),
  Gets(n1, "VIEW_CHANGE", 3, n1),
  Gets(n3, "VIEW_CHANGE", 3, n3),
  Gets(n4, "VIEW_CHANGE", 3, n4),
  Gets(n4, "VIEW_CHANGE", 3, n1),
  Gets(n4, "VIEW_CHANGE", 3, n3),
  Gets(n1, "PRE_PREPARE", 3, n4),
  Gets(n3, "PRE_PREPARE", 3, n4),
  Gets(n1, "PREPARE", 3, n3),
  Gets(n3, "PREPARE", 3, n1),
  Gets(n4, "PREPARE", 3, n1),
  Gets(n4, "PREPARE", 3, n3),
  \* n1 commits it in view 3, n2 commits the block of view 1.
  Gets(n1, "COMMIT", 3, n3),
  Gets(n1, "COMMIT", 3, n4),
  Gets(n2, "COMMIT", 1, n3),
  Gets(n2, "COMMIT", 1, n4) >>

\* The step logs the message, or commits and so clears the log.
Logs(g) ==
  LET n == g.node
      entry == {m \in log'[n] \ log[n] : m.type = g.type /\ m.view = g.view
                                         /\ m.sender = g.sender}
  IN entry # {} \/ (g.type = "COMMIT" /\ height'[n] > height[n])

ForkInit == Init /\ step = 1

ForkNext ==
  /\ step <= Len(Schedule)
  /\ step' = step + 1
  /\ Next
  /\ Logs(Schedule[step])

ForkSpec == ForkInit /\ [][ForkNext]_<<vars, step>>
=============================================================================
