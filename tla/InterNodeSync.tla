---------------------------- MODULE InterNodeSync ----------------------------
(***************************************************************************)
(* BlockStorage synchronizing itself from the BlockStorages of other nodes *)
(* in sessions: a node that has not committed for too long broadcasts an   *)
(* availability request, takes one of the responders as its source and     *)
(* asks it for a batch of blocks, one chunk at a time.  While the session  *)
(* runs, consensus may commit blocks at either end, messages are late or   *)
(* lost, and nodes restart.                                                *)
(*                                                                         *)
(* A synchronized block takes two calls: ValidateBlockForCommit, which     *)
(* tells the consensus algorithm, and CommitBlock, which stores it.        *)
(* Anything may happen in between.                                         *)
(*                                                                         *)
(* At most one block sync response is on its way to a node: a newer one    *)
(* replaces it, but not while a block of it is between the two calls.      *)
(***************************************************************************)
EXTENDS Integers, Sequences, FiniteSets

CONSTANTS
  Node,
  Block,      \* contents of a block pair
  Batch,      \* BLOCK_SYNC_NUM_BLOCKS_IN_BATCH
  Chunk,      \* BLOCK_SYNC_NUM_BLOCKS_IN_CHUNK
  NoNode,     \* no source
  MaxFaults   \* bound: losses, early timeouts and restarts

ASSUME SyncAssumption ==
  /\ {Batch, Chunk} \subseteq Nat \ {0}
  /\ NoNode \notin Node
  /\ MaxFaults \in Nat

VARIABLES
  chain,     \* the block database of each BlockStorage
  session,   \* its synchronization process
  offers,    \* availability responses on their way to it
  response,  \* the block sync response on its way to it, or what is left of it
  faults     \* faults so far

syncVars == <<chain, session, offers, response, faults>>

Height(n) == Len(chain[n])
Least(a, b) == IF a < b THEN a ELSE b

\* The range still to come, who provides it, and to whom a request is on its way.
Session == [next : Nat, last : Nat, source : Node \cup {NoNode}, asked : SUBSET Node]
NoSession == [next |-> 0, last |-> 0, source |-> NoNode, asked |-> {}]

Offer == [source : Node, last : Nat]

\* The blocks still to be taken; valid once the first of them is validated.
Response == [source : Node \cup {NoNode}, first : Nat, blocks : Seq(Block), valid : BOOLEAN]
NoResponse == [source |-> NoNode, first |-> 0, blocks |-> <<>>, valid |-> FALSE]

Asking(n) == session[n] # NoSession /\ session[n].source = NoNode
Syncing(n) == session[n].source # NoNode

SyncInit ==
  /\ chain = [n \in Node |-> <<>>]
  /\ session = [n \in Node |-> NoSession]
  /\ offers = [n \in Node |-> {}]
  /\ response = [n \in Node |-> NoResponse]
  /\ faults = 0

---------------------------------------------------------------------------
(* Messages and handlers.                                                  *)

\* No commit for too long: broadcast an availability request for one batch.
BroadcastAvailabilityRequest(n) ==
  /\ session[n] = NoSession
  /\ session' = [session EXCEPT ![n] =
       [next |-> Height(n) + 1, last |-> Height(n) + Batch, source |-> NoNode,
        asked |-> Node \ {n}]]
  /\ UNCHANGED <<chain, offers, response, faults>>

\* A node that has some of the blocks answers with those it has.
HandleBlockAvailabilityRequest(m, n) ==
  /\ Asking(n)
  /\ m \in session[n].asked
  /\ session' = [session EXCEPT ![n].asked = @ \ {m}]
  /\ offers' = IF Height(m) < session[n].next THEN offers
               ELSE [offers EXCEPT ![n] = @ \cup
                      {[source |-> m, last |-> Least(session[n].last, Height(m))]}]
  /\ UNCHANGED <<chain, response, faults>>

\* A source is chosen among the responses, not one that cannot fulfill the batch
\* if another can, and asked for the first chunk.
Fulfills(n, o) == o.last = session[n].last

HandleBlockAvailabilityResponse(n) ==
  /\ Asking(n)
  /\ \E o \in offers[n] :
       /\ (\E p \in offers[n] : Fulfills(n, p)) => Fulfills(n, o)
       /\ session' = [session EXCEPT ![n] =
            [@ EXCEPT !.source = o.source, !.last = o.last, !.asked = {o.source}]]
  /\ offers' = [offers EXCEPT ![n] = {}]
  /\ UNCHANGED <<chain, response, faults>>

\* The source answers a request with a chunk of the range.
HandleBlockSyncRequest(m, n) ==
  /\ Syncing(n)
  /\ ~response[n].valid
  /\ m \in session[n].asked
  /\ session' = [session EXCEPT ![n].asked = {}]
  /\ response' = [response EXCEPT ![n] =
       [source |-> m, first |-> session[n].next,
        blocks |-> SubSeq(chain[m], session[n].next,
                          Least(session[n].next + Chunk - 1, session[n].last)),
        valid |-> FALSE]]
  /\ UNCHANGED <<chain, offers, faults>>

---------------------------------------------------------------------------
(* The blocks of a response, one after the other.                          *)

\* CommitBlock: the next block is stored, one that exists is discarded when it is
\* the same; the call fails otherwise.
Accepts(n, h, b) == h \in 1 .. Height(n) + 1 /\ (h <= Height(n) => chain[n][h] = b)

\* Mutant: a new block takes the place of the one it finds.
CommitBlockAnew(n, h, b) ==
  /\ h \in 1 .. Height(n) + 1
  /\ chain' = [chain EXCEPT ![n] = Append(SubSeq(@, 1, h - 1), b)]

CommitBlock(n, h, b) ==
  /\ Accepts(n, h, b)
  /\ chain' = IF h = Height(n) + 1 THEN [chain EXCEPT ![n] = Append(@, b)] ELSE chain

\* ValidateBlockForCommit: a block that is not the next one is discarded.
ValidateBlockForCommit(n, height) == height = Height(n) + 1

\* After the last block of a chunk of this session the next chunk is requested,
\* or the session is over.
Requested(n, r) ==
  LET s == session[n]
  IN  IF s.source # r.source \/ s.next # r.first THEN s
      ELSE IF r.first = s.last THEN NoSession
      ELSE [s EXCEPT !.next = @ + 1, !.asked = IF Len(r.blocks) = 1 THEN {s.source} ELSE @]

\* The first block of the response is done with.
Advance(n) ==
  LET r == response[n]
  IN  /\ response' = [response EXCEPT ![n] =
           IF Len(r.blocks) = 1 THEN NoResponse
           ELSE [source |-> r.source, first |-> r.first + 1, blocks |-> Tail(r.blocks),
                 valid |-> FALSE]]
      /\ session' = [session EXCEPT ![n] = Requested(n, r)]
      /\ UNCHANGED <<offers, faults>>

Pending(n) == response[n] # NoResponse /\ ~response[n].valid

DiscardSyncedBlock(n) ==
  /\ Pending(n)
  /\ ~ValidateBlockForCommit(n, response[n].first)
  /\ Advance(n)
  /\ UNCHANGED chain

\* The consensus algorithm is told in the same step, see the module above.
ValidateSyncedBlock(n) ==
  /\ Pending(n)
  /\ ValidateBlockForCommit(n, response[n].first)
  /\ response' = [response EXCEPT ![n].valid = TRUE]
  /\ UNCHANGED <<chain, session, offers, faults>>

CommitSyncedBlock(n) ==
  /\ response[n].valid
  /\ CommitBlock(n, response[n].first, Head(response[n].blocks))
  /\ Advance(n)

EndSession(n) ==
  /\ session' = [session EXCEPT ![n] = NoSession]
  /\ offers' = [offers EXCEPT ![n] = {}]

\* Nothing of the session is on its way any more: after the interval without a
\* commit another process takes its place.
GiveUpStalledSession(n) ==
  /\ session[n] # NoSession
  /\ session[n].asked = {}
  /\ offers[n] = {}
  /\ Syncing(n) => response[n].source # session[n].source
                   \/ response[n].first # session[n].next
  /\ EndSession(n)
  /\ UNCHANGED <<chain, response, faults>>

---------------------------------------------------------------------------
(* Faults.                                                                 *)

Fault == faults < MaxFaults /\ faults' = faults + 1

\* The interval passes while messages are still on their way.
GiveUpSession(n) ==
  /\ Fault
  /\ session[n] # NoSession
  /\ EndSession(n)
  /\ UNCHANGED <<chain, response>>

LoseSyncMessage(n) ==
  /\ Fault
  /\ \/ \E m \in session[n].asked : session' = [session EXCEPT ![n].asked = @ \ {m}]
        /\ UNCHANGED <<offers, response>>
     \/ \E o \in offers[n] : offers' = [offers EXCEPT ![n] = @ \ {o}]
        /\ UNCHANGED <<session, response>>
     \/ /\ Pending(n)
        /\ response' = [response EXCEPT ![n] = NoResponse]
        /\ UNCHANGED <<session, offers>>
  /\ UNCHANGED chain
=============================================================================
