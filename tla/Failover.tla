------------------------------ MODULE Failover ------------------------------
(***************************************************************************)
(* What a read of the chain promises its caller, whatever retries it takes *)
(* (defiRpcCall and fetchObject in rpcClient.ts): the nodes are asked in   *)
(* the configured order, the first usable answer is the read's answer, and *)
(* it comes to nothing only after every node has failed, which a healthy   *)
(* one does not.                                                           *)
(***************************************************************************)
EXTENDS Integers

CONSTANTS
  Nodes,    \* the nodes are 1..Nodes, in the configured order
  Nothing   \* null

VARIABLES
  healthy,  \* nodes that answer whatever they are asked
  node,     \* the node being asked; 0 when no read is under way
  answer    \* the node whose answer the last read gave, or Nothing

vars == <<healthy, node, answer>>

Init ==
  /\ healthy \in SUBSET (1..Nodes)
  /\ node = 0
  /\ answer = Nothing

Start ==
  /\ node = 0
  /\ node' = 1
  /\ UNCHANGED <<healthy, answer>>

Answers ==
  /\ node # 0
  /\ answer' = node
  /\ node' = 0
  /\ UNCHANGED healthy

Fails ==
  /\ node \notin healthy \cup {0}
  /\ IF node < Nodes
       THEN node' = node + 1 /\ UNCHANGED answer
       ELSE node' = 0 /\ answer' = Nothing
  /\ UNCHANGED healthy

Next == Start \/ Answers \/ Fails

Spec == Init /\ [][Next]_vars
=============================================================================
