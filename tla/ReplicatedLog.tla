--------------------------- MODULE ReplicatedLog ---------------------------
(***************************************************************************)
(* What raft/ promises the state machines above it: one log, which only    *)
(* grows and holds each proposal at most once, and at every node a state   *)
(* machine that is given a growing prefix of it.                           *)
(***************************************************************************)
EXTENDS Naturals, Sequences, Functions

CONSTANTS Node, Data

VARIABLES proposed,   \* the proposals clients have made
          log,        \* the committed proposals
          machine     \* what the state machine of each node has been given

vars == <<proposed, log, machine>>

Init ==
  /\ proposed = {}
  /\ log = <<>>
  /\ machine = [n \in Node |-> <<>>]

MakesProposal == \E d \in Data \ proposed : proposed' = proposed \cup {d}

Propose ==
  /\ MakesProposal
  /\ UNCHANGED <<log, machine>>

\* The log grows, and the state machine of the node that makes it grow is given
\* all of it.  A node that needs no other node commits a proposal as it is made.
Commit ==
  /\ MakesProposal \/ UNCHANGED proposed
  /\ Len(log) < Len(log')
  /\ SubSeq(log', 1, Len(log)) = log
  /\ Range(log') \subseteq proposed'
  /\ IsInjective(log')
  /\ \E n \in Node : machine' = [machine EXCEPT ![n] = log']

\* A state machine catches up with a part of the log.
Learn ==
  /\ machine' # machine
  /\ \E n \in Node, k \in 1..Len(log) :
       /\ Len(machine[n]) < k
       /\ machine' = [machine EXCEPT ![n] = SubSeq(log, 1, k)]
  /\ UNCHANGED <<proposed, log>>

Next == Propose \/ Commit \/ Learn

Spec == Init /\ [][Next]_vars
=============================================================================
