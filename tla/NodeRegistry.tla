------------------------------ MODULE NodeRegistry ------------------------------
(***************************************************************************)
(* Device nodes and the commands the gateway has them execute:             *)
(* src/src/gateway/node-registry.ts, with the connect and close handlers   *)
(* of server.ts that register a node and drop it.                          *)
(*                                                                         *)
(* A node that connects again replaces its connection; the close event of  *)
(* the old one comes later.  Messages to and from a node are in order, and *)
(* the node's side is external: it executes a command until it answers or  *)
(* is told to stop.  Left out: ticks, notices, payloads.                   *)
(***************************************************************************)
CONSTANTS
  Nodes,
  Conns,    \* connections of node hosts, each used once
  Invokes,  \* calls of invoke()
  HostOf,   \* node of each connection
  Nobody    \* not a node nor a connection

ASSUME NodesAssumption ==
  HostOf \in [Conns -> Nodes] /\ Nobody \notin Nodes \union Conns

VARIABLES
  socket,    \* state of each connection: "new", "open", "closed"
  connOf,    \* nodesById
  nodeOf,    \* nodesByConn
  invoke,    \* pendingInvokes, and what each call came to
  device     \* connection over which the node was asked for each command it executes

nodesVars == <<socket, connOf, nodeOf, invoke, device>>

NodesInit ==
  /\ socket = [c \in Conns |-> "new"]
  /\ connOf = [n \in Nodes |-> Nobody]
  /\ nodeOf = [c \in Conns |-> Nobody]
  /\ invoke = [i \in Invokes |-> [state |-> "none", node |-> Nobody, conn |-> Nobody]]
  /\ device = [i \in Invokes |-> Nobody]

Pending(i) == invoke[i].state = "pending"

(* Each pending invoke of the node fails: resolvePendingInvoke()           *)
FailOf(n) == [i \in Invokes |-> IF Pending(i) /\ invoke[i].node = n
                                THEN [invoke[i] EXCEPT !.state = "failed"] ELSE invoke[i]]

(* Mutant: what waits for the old connection goes on waiting.              *)
RegisterKeepsInvokes(c) ==
  /\ socket[c] = "new"
  /\ socket' = [socket EXCEPT ![c] = "open"]
  /\ LET n == HostOf[c] IN
       /\ connOf' = [connOf EXCEPT ![n] = c]
       /\ nodeOf' = [d \in Conns |-> IF d = c THEN n ELSE IF d = connOf[n] THEN Nobody ELSE nodeOf[d]]
  /\ UNCHANGED <<invoke, device>>

(* register(), when a node host has connected                              *)
Register(c) ==
  /\ socket[c] = "new"
  /\ socket' = [socket EXCEPT ![c] = "open"]
  /\ LET n == HostOf[c] IN
       /\ connOf' = [connOf EXCEPT ![n] = c]
       /\ nodeOf' = [d \in Conns |-> IF d = c THEN n ELSE IF d = connOf[n] THEN Nobody ELSE nodeOf[d]]
       /\ invoke' = IF connOf[n] = Nobody THEN invoke ELSE FailOf(n)
  /\ UNCHANGED device

(* The close event of a connection: unregister() knows a node by the       *)
(* connection, so that the end of a replaced one drops nothing.            *)
Close(c) ==
  /\ socket[c] = "open"
  /\ socket' = [socket EXCEPT ![c] = "closed"]
  /\ LET n == nodeOf[c] IN
       IF n = Nobody THEN UNCHANGED <<connOf, nodeOf, invoke>>
       ELSE /\ nodeOf' = [nodeOf EXCEPT ![c] = Nobody]
            /\ connOf' = [connOf EXCEPT ![n] = Nobody]
            /\ invoke' = FailOf(n)
  /\ UNCHANGED device

-----------------------------------------------------------------------------
(* invoke().  A send may fail, and under backpressure it is reported as    *)
(* failed although the node gets the request.                              *)
Invoke(i, n) ==
  /\ invoke[i].state = "none"
  /\ IF connOf[n] = Nobody
     THEN invoke' = [invoke EXCEPT ![i].state = "failed"] /\ UNCHANGED device
     ELSE \E sent, arrives \in BOOLEAN :
            /\ sent => arrives
            /\ invoke' = [invoke EXCEPT ![i] = [state |-> IF sent THEN "pending" ELSE "failed",
                                                node |-> n, conn |-> connOf[n]]]
            /\ device' = IF arrives THEN [device EXCEPT ![i] = connOf[n]] ELSE device
  /\ UNCHANGED <<socket, connOf, nodeOf>>

(* The timeout of the call; the node is not told.                          *)
InvokeTimeout(i) ==
  /\ Pending(i)
  /\ invoke' = [invoke EXCEPT ![i].state = "failed"]
  /\ UNCHANGED <<socket, connOf, nodeOf, device>>

(* cancelInvoke(): the node is told over the connection it has now.        *)
CancelInvoke(i) ==
  /\ Pending(i)
  /\ invoke' = [invoke EXCEPT ![i].state = "cancelled"]
  /\ device' = IF connOf[invoke[i].node] # Nobody /\ device[i] = connOf[invoke[i].node]
               THEN [device EXCEPT ![i] = Nobody] ELSE device
  /\ UNCHANGED <<socket, connOf, nodeOf>>

(* node.invoke.result of the node that executed the command, over any      *)
(* connection of its own: an answer that comes late is ignored.            *)
Answer(i, c) ==
  /\ device[i] # Nobody /\ HostOf[device[i]] = HostOf[c]
  /\ socket[c] = "open"
  /\ invoke' = IF Pending(i) /\ invoke[i].node = HostOf[c]
               THEN [invoke EXCEPT ![i].state = "answered"] ELSE invoke
  /\ device' = [device EXCEPT ![i] = Nobody]
  /\ UNCHANGED <<socket, connOf, nodeOf>>

(* destroy(), when the gateway stops                                       *)
Destroy ==
  /\ invoke' = [i \in Invokes |-> IF Pending(i) THEN [invoke[i] EXCEPT !.state = "failed"]
                                  ELSE invoke[i]]
  /\ connOf' = [n \in Nodes |-> Nobody] /\ nodeOf' = [c \in Conns |-> Nobody]
  /\ UNCHANGED <<socket, device>>

NodesNext ==
  \/ \E c \in Conns : Register(c) \/ Close(c)
  \/ \E i \in Invokes :
       \/ \E n \in Nodes : Invoke(i, n)
       \/ InvokeTimeout(i) \/ CancelInvoke(i)
       \/ \E c \in Conns : Answer(i, c)
  \/ Destroy

NodesSpec == NodesInit /\ [][NodesNext]_nodesVars
-----------------------------------------------------------------------------
InvokeRecords ==
  [state : {"none", "pending", "answered", "failed", "cancelled"},
   node : Nodes \union {Nobody}, conn : Conns \union {Nobody}]

NodesTypeOK ==
  /\ socket \in [Conns -> {"new", "open", "closed"}]
  /\ connOf \in [Nodes -> Conns \union {Nobody}]
  /\ nodeOf \in [Conns -> Nodes \union {Nobody}]
  /\ invoke \in [Invokes -> InvokeRecords]
  /\ device \in [Invokes -> Conns \union {Nobody}]

(* "Reject pending invokes for the old connection: they'll never complete",*)
(* node-registry.ts:142: what is waited for was sent over an open          *)
(* connection that is still the node's, however connections replace each   *)
(* other and whenever their close events come.                             *)
InvokesReachable ==
  \A i \in Invokes : Pending(i) =>
    LET c == invoke[i].conn
    IN  c \in Conns /\ socket[c] = "open" /\ connOf[invoke[i].node] = c /\ nodeOf[c] = invoke[i].node
=============================================================================
