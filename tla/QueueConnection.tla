-------------------------- MODULE QueueConnection --------------------------
(***************************************************************************)
(* QueueProvider's connection to RabbitMQ, shared by the consumer, which   *)
(* takes it once at bootstrap, and the readiness probe, which takes it at  *)
(* every request: whoever finds it down opens another one in its place.    *)
(*                                                                         *)
(* A connection is an AmqpConnectionManager with its ChannelWrapper        *)
(* (external): once opened it keeps trying to connect until it is closed,  *)
(* and the consumers registered on its channel come back with it.          *)
(* getConnection, connect and isHealthy await nothing that takes time, so  *)
(* each is one step.  The HTTP server starts after the bootstrap and stops *)
(* before onApplicationShutdown: probes run in between.                    *)
(***************************************************************************)
EXTENDS Naturals

CONSTANTS
  Connections, \* bound: connections the process may open
  MaxOutages,  \* bound: outages of the broker and losses of one connection
  NoConnection \* the undefined fields of QueueProvider

ASSUME NoConnectionAssumption == NoConnection \notin Connections
ASSUME BoundAssumption == MaxOutages \in Nat

VARIABLES
  brokerUp,   \* RabbitMQ accepts connections
  opened,     \* connections opened so far
  closed,     \* those closed again
  up,         \* those connected: isConnected()
  connection, \* the connection and channelWrapper fields, set and unset together
  consumer,   \* the connection the consumer is registered on
  readiness,  \* the last answer of the probe about the queue
  stopping,   \* "no", "channel" (its close awaited), "connection", "stopped"
  outages

vars == <<brokerUp, opened, closed, up, connection, consumer, readiness, stopping, outages>>

Fields == Connections \cup {NoConnection}

(***************************************************************************)
(* The broker and the connection managers (external)                       *)
(***************************************************************************)
BrokerFails ==
  /\ brokerUp
  /\ outages < MaxOutages
  /\ outages' = outages + 1
  /\ brokerUp' = FALSE
  /\ up' = {}
  /\ UNCHANGED <<opened, closed, connection, consumer, readiness, stopping>>

BrokerReturns ==
  /\ ~brokerUp
  /\ brokerUp' = TRUE
  /\ UNCHANGED <<opened, closed, up, connection, consumer, readiness, stopping, outages>>

\* One connection breaks while the broker goes on
ConnectionBreaks(c) ==
  /\ c \in up
  /\ outages < MaxOutages
  /\ outages' = outages + 1
  /\ up' = up \ {c}
  /\ UNCHANGED <<brokerUp, opened, closed, connection, consumer, readiness, stopping>>

\* An attempt of the manager of c to connect succeeds
Connects(c) ==
  /\ brokerUp
  /\ c \in opened \ (closed \cup up)
  /\ up' = up \cup {c}
  /\ UNCHANGED <<brokerUp, opened, closed, connection, consumer, readiness, stopping, outages>>

(***************************************************************************)
(* QueueProvider and its users                                             *)
(***************************************************************************)
\* Mutant: connect closes the connection it replaces
Replaced_Closed == {connection} \ {NoConnection}

\* Mutant: it does so even if there is none
Replaced_Unguarded == {connection}

\* Connections connect closes
Replaced == {}

\* Connections differ in their names only, so the next one to be opened is fixed
NextConnection == CHOOSE c \in Connections : c \notin opened

\* connect: a new connection, not connected yet, takes the fields
Connect(c) ==
  /\ c \in Connections \ opened
  /\ c = NextConnection
  /\ opened' = opened \cup {c}
  /\ connection' = c
  /\ closed' = closed \cup Replaced
  /\ up' = up \ Replaced

\* getConnection hands out the connection it has only while that is connected
Usable == connection \in up

\* subscribeToEvents, once, at bootstrap
SubscribeToEvents(c) ==
  /\ consumer = NoConnection
  /\ stopping = "no"
  /\ \/ /\ Usable
        /\ consumer' = connection
        /\ UNCHANGED <<opened, closed, up, connection>>
     \/ /\ ~Usable
        /\ Connect(c)
        /\ consumer' = c
  /\ UNCHANGED <<brokerUp, readiness, stopping, outages>>

\* GET /health/ready: isHealthy gets the connection and reports on it
Probe(c) ==
  /\ consumer # NoConnection
  /\ stopping = "no"
  /\ \/ /\ Usable
        /\ UNCHANGED <<opened, closed, up, connection>>
     \/ /\ ~Usable
        /\ Connect(c)
  /\ readiness' = (connection' \in up')
  /\ UNCHANGED <<brokerUp, consumer, stopping, outages>>

\* Mutant: disconnect leaves the channel open
ConsumerLeft_StillOpen == consumer

\* The consumer left when the channel in the provider's fields is closed
ConsumerLeft == IF consumer = connection THEN NoConnection ELSE consumer

\* disconnect: the channel is closed first, the consumer with it
CloseChannel ==
  /\ stopping = "no"
  /\ consumer # NoConnection
  /\ stopping' = "channel"
  /\ consumer' = ConsumerLeft
  /\ UNCHANGED <<brokerUp, opened, closed, up, connection, readiness, outages>>

\* then the connection
CloseConnection ==
  /\ stopping = "channel"
  /\ stopping' = "connection"
  /\ closed' = closed \cup {connection}
  /\ up' = up \ {connection}
  /\ UNCHANGED <<brokerUp, opened, connection, consumer, readiness, outages>>

ClearFields ==
  /\ stopping = "connection"
  /\ stopping' = "stopped"
  /\ connection' = NoConnection
  /\ UNCHANGED <<brokerUp, opened, closed, up, consumer, readiness, outages>>

(***************************************************************************)
(* Specification                                                           *)
(***************************************************************************)
Init ==
  /\ brokerUp \in BOOLEAN
  /\ opened = {}
  /\ closed = {}
  /\ up = {}
  /\ connection = NoConnection
  /\ consumer = NoConnection
  /\ readiness = FALSE
  /\ stopping = "no"
  /\ outages = 0

Next ==
  \/ BrokerFails
  \/ BrokerReturns
  \/ CloseChannel
  \/ CloseConnection
  \/ ClearFields
  \/ \E c \in Connections :
       ConnectionBreaks(c) \/ Connects(c) \/ SubscribeToEvents(c) \/ Probe(c)

Spec == Init /\ [][Next]_vars

(***************************************************************************)
(* Properties                                                              *)
(***************************************************************************)
TypeOK ==
  /\ brokerUp \in BOOLEAN
  /\ opened \subseteq Connections
  /\ closed \subseteq opened
  /\ up \subseteq opened \ closed
  /\ connection \in opened \cup {NoConnection}
  /\ consumer \in opened \cup {NoConnection}
  /\ readiness \in BOOLEAN
  /\ stopping \in {"no", "channel", "connection", "stopped"}
  /\ outages \in Nat

\* Once outages and restarts cease, the consumer's connection comes back and stays,
\* although the probe has replaced the provider's fields meanwhile (getConnection).
ConsumerResumes == <>[](consumer # NoConnection /\ stopping = "no" => consumer \in up)
=============================================================================
