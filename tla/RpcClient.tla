----------------------------- MODULE RpcClient -----------------------------
(***************************************************************************)
(* lib/http.ts and positions/sources/native/rpcClient.ts: how the API      *)
(* reads an object from the chain.  fetchObject asks one node after the    *)
(* other; each question is a fetchJson with its own attempts, time limit   *)
(* and waits.  Several callers read at the same time; a step is one reply  *)
(* or the end of one wait.                                                 *)
(***************************************************************************)
EXTENDS Integers

CONSTANTS
  Callers,
  Nodes,    \* defiRpcUrls, without duplicates: 1..Nodes
  Retries,  \* fetchJson's retries: attempts after the first
  Nothing   \* null

ASSUME NodesAssumption == Nodes \in Nat \ {0}
ASSUME RetriesAssumption == Retries \in Nat
ASSUME NothingAssumption == Nothing \notin 1..Nodes

VARIABLES
  healthy,   \* nodes that answer whatever they are asked
  node,      \* node[c]: the node c's read is at, 0 when none is under way
  attempt,   \* attempt[c]: fetchJson's attempt
  sleeping,  \* callers that wait before the next attempt
  answer,    \* answer[c]: the node that answered c's last read
  retried,   \* retried[c]: "retry" outcomes recorded in this fetchJson
  settled,   \* settled[c]: "success" and "error" outcomes recorded for this read
  refused    \* refused[c]: nodes whose status said not to retry, in this read

rpcVars == <<healthy, node, attempt, sleeping, answer, retried, settled, refused>>

RpcTypeOK ==
  /\ healthy \subseteq 1..Nodes
  /\ node \in [Callers -> 0..Nodes]
  /\ attempt \in [Callers -> 0..Retries]
  /\ sleeping \subseteq Callers
  /\ answer \in [Callers -> (1..Nodes) \cup {Nothing}]
  /\ retried \in [Callers -> Nat]
  /\ settled \in [Callers -> Nat]
  /\ refused \in [Callers -> SUBSET (1..Nodes)]

RpcInit ==
  /\ healthy \in SUBSET (1..Nodes)
  /\ node = [c \in Callers |-> 0]
  /\ attempt = [c \in Callers |-> 0]
  /\ sleeping = {}
  /\ answer = [c \in Callers |-> Nothing]
  /\ retried = [c \in Callers |-> 0]
  /\ settled = [c \in Callers |-> 0]
  /\ refused = [c \in Callers |-> {}]

Asking(c) == node[c] # 0 /\ c \notin sleeping

\* A read begins with the first node.
Ask(c) ==
  /\ node[c] = 0
  /\ node' = [node EXCEPT ![c] = 1]
  /\ attempt' = [attempt EXCEPT ![c] = 0]
  /\ retried' = [retried EXCEPT ![c] = 0]
  /\ settled' = [settled EXCEPT ![c] = 0]
  /\ refused' = [refused EXCEPT ![c] = {}]
  /\ UNCHANGED <<healthy, sleeping, answer>>

\* fetchJson is over, for good or ill: one outcome is recorded.
Record(c) == settled' = [settled EXCEPT ![c] = @ + 1]

\* Faulty: the last node's failure leaves the answer of the read before.
NextNodeKeeping(c) ==
  /\ attempt' = [attempt EXCEPT ![c] = 0]
  /\ retried' = [retried EXCEPT ![c] = 0]
  /\ node' = [node EXCEPT ![c] = IF node[c] < Nodes THEN node[c] + 1 ELSE 0]
  /\ UNCHANGED <<healthy, sleeping, answer>>

\* `continue` to the next node, or `return null` behind the last.
NextNode(c) ==
  /\ attempt' = [attempt EXCEPT ![c] = 0]
  /\ retried' = [retried EXCEPT ![c] = 0]
  /\ IF node[c] < Nodes
       THEN node' = [node EXCEPT ![c] = @ + 1] /\ UNCHANGED answer
       ELSE /\ node' = [node EXCEPT ![c] = 0]
            /\ answer' = [answer EXCEPT ![c] = Nothing]
  /\ UNCHANGED <<healthy, sleeping>>

\* The node sends the object.
Content(c) ==
  /\ Asking(c)
  /\ Record(c)
  /\ answer' = [answer EXCEPT ![c] = node[c]]
  /\ node' = [node EXCEPT ![c] = 0]
  /\ UNCHANGED <<healthy, attempt, sleeping, retried, refused>>

\* A JSON-RPC error, no such object or one without content: fetchJson
\* succeeded, the read goes on.
Useless(c) ==
  /\ Asking(c)
  /\ node[c] \notin healthy
  /\ Record(c)
  /\ NextNode(c)
  /\ UNCHANGED refused

\* A status that is not retryable: thrown, caught, recorded and thrown on.
Refused(c) ==
  /\ Asking(c)
  /\ node[c] \notin healthy
  /\ Record(c)
  /\ NextNode(c)
  /\ refused' = [refused EXCEPT ![c] = @ \cup {node[c]}]

\* Faulty: what is thrown in the last attempt counts as a retry before it is
\* an error.
TransientCounted(c) ==
  /\ Asking(c)
  /\ node[c] \notin healthy
  /\ IF attempt[c] < Retries
       THEN /\ sleeping' = sleeping \cup {c}
            /\ retried' = [retried EXCEPT ![c] = @ + 1]
            /\ UNCHANGED <<healthy, node, attempt, answer, settled>>
       ELSE /\ settled' = [settled EXCEPT ![c] = @ + 2]
            /\ NextNode(c)
  /\ UNCHANGED refused

\* A retryable status (408, 425, 429, 5xx), a lost connection, the time limit
\* or a body that does not parse.  The last attempt's retryable status is
\* thrown inside the try and lands in the catch, which ends the loop.
Transient(c) ==
  /\ Asking(c)
  /\ node[c] \notin healthy
  /\ IF attempt[c] < Retries
       THEN /\ sleeping' = sleeping \cup {c}
            /\ retried' = [retried EXCEPT ![c] = @ + 1]
            /\ UNCHANGED <<healthy, node, attempt, answer, settled>>
       ELSE Record(c) /\ NextNode(c)
  /\ UNCHANGED refused

\* Retry-After, capped, or the backoff has passed.
Wake(c) ==
  /\ c \in sleeping
  /\ sleeping' = sleeping \ {c}
  /\ attempt' = [attempt EXCEPT ![c] = @ + 1]
  /\ UNCHANGED <<healthy, node, answer, retried, settled, refused>>

Reply(c) == Content(c) \/ Useless(c) \/ Refused(c) \/ Transient(c)

RpcStep(c) == Reply(c) \/ Wake(c)

RpcNext == \E c \in Callers : Ask(c) \/ RpcStep(c)

RpcSpec == RpcInit /\ [][RpcNext]_rpcVars

-----------------------------------------------------------------------------
\* The metrics account for every request once: as many retries as attempts
\* went before, and one success or error for every node done with
\* (recordOutcome, five places in fetchJson).
EveryRequestRecorded ==
  \A c \in Callers :
    node[c] # 0 =>
      /\ retried[c] = attempt[c] + (IF c \in sleeping THEN 1 ELSE 0)
      /\ settled[c] = node[c] - 1

\* A node that refused is not asked again in the same read, "so callers can
\* distinguish definitive failures from transient ones".
RefusalIsFinal == \A c \in Callers : node[c] \notin refused[c]

\* Every request is accounted for, and a refusal ends its node's turn.
ReadsAccounted == EveryRequestRecorded /\ RefusalIsFinal

Promise(c) ==
  INSTANCE Failover WITH node <- node[c], answer <- answer[c]

\* Every caller's reads, retries and waits included, are what Failover
\* promises.
KeepsPromise ==
  /\ \A c \in Callers : Promise(c)!Init
  /\ [][\A c \in Callers : [Promise(c)!Next]_(Promise(c)!vars)]_rpcVars
=============================================================================
