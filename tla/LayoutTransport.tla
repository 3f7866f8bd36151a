--------------------------- MODULE LayoutTransport ---------------------------
(***************************************************************************)
(* The daemon transports of the layout managers of one host                *)
(* (packages/runtime/src/layout-transport.ts): the graphql-transport-ws    *)
(* handshake, the reconnect loop and stop.                                 *)
(*                                                                         *)
(* Every layout manager owns one transport, which is started once; the     *)
(* host that makes and stops managers is ControlPlane.  The sockets are    *)
(* the browser's: one that is being closed, by either side, delivers no    *)
(* more frames and reports its close later.  The backoff only delays a     *)
(* reconnect, so that the delay is left out.                               *)
(***************************************************************************)
EXTENDS Naturals

CONSTANTS
  Managers,   \* the layout managers the host may make
  Sockets,    \* the sockets that may be opened
  None,       \* no manager, no socket
  MaxDrops    \* bound: connections lost to the network or the daemon

ASSUME NoneAssumption == None \notin Managers /\ None \notin Sockets
ASSUME MaxDropsAssumption == MaxDrops \in Nat

VARIABLES
  transport,   \* the fields of each manager's transport
  socket,      \* the sockets: whose they are and how far they got
  drops        \* how many connections were lost

transportVars == <<transport, socket, drops>>

SocketStates == {"unused", "connecting", "open", "acked", "ending", "closed"}

\* stopped, socket, acked: the fields.  waiting: a reconnect timer is set.
\* status: the last one reported, which the manager keeps as currentStatus.
TransportRecord == [stopped: BOOLEAN, socket: Sockets \cup {None}, acked: BOOLEAN,
                    waiting: BOOLEAN, status: {"connecting", "connected", "disconnected"}]
SocketRecord == [owner: Managers \cup {None}, state: SocketStates]

\* The transport of a manager that the host has not made: nothing runs.
NoTransport == [stopped |-> TRUE, socket |-> None, acked |-> FALSE,
                waiting |-> FALSE, status |-> "connecting"]

TransportInit ==
  /\ transport = [m \in Managers |-> NoTransport]
  /\ socket = [s \in Sockets |-> [owner |-> None, state |-> "unused"]]
  /\ drops = 0

\* A mutant of Connected: a new socket does not reset acked.
Connected_KeepsAcked(m, s) ==
  [transport[m] EXCEPT !.stopped = FALSE, !.socket = s, !.waiting = FALSE,
                       !.status = "connecting"]

\* The transport of m once connect() has made socket s.
Connected(m, s) ==
  [stopped |-> FALSE, socket |-> s, acked |-> FALSE, waiting |-> FALSE,
   status |-> "connecting"]

Connect(m, s) ==
  /\ socket[s].state = "unused"
  /\ socket' = [socket EXCEPT ![s] = [owner |-> m, state |-> "connecting"]]
  /\ transport' = [transport EXCEPT ![m] = Connected(m, s)]
  /\ UNCHANGED drops

\* start() throws in its first connect(), where the socket or the report of the
\* status fails: it is no longer stopped, and nothing will ever connect it.
ConnectThrows(m) ==
  /\ transport' = [transport EXCEPT ![m].stopped = FALSE]
  /\ UNCHANGED <<socket, drops>>

\* The transport has made a socket and has not been stopped: its loop runs.
Looping(m) == ~transport[m].stopped /\ transport[m].socket # None

Live(s) == socket[s].state \in {"connecting", "open", "acked"}

\* A mutant of StopTransport: the loop is not told.
StopTransport_KeepsTrying(m) ==
  /\ transport' = [transport EXCEPT ![m].socket = None]
  /\ socket' = [s \in Sockets |->
                  IF s = transport[m].socket /\ Live(s)
                    THEN [socket[s] EXCEPT !.state = "ending"] ELSE socket[s]]
  /\ UNCHANGED drops

\* stop(): a timer that is set finds stopped; a socket that is gone already
\* keeps the state it has.
StopTransport(m) ==
  /\ transport' = [transport EXCEPT ![m].stopped = TRUE, ![m].socket = None]
  /\ socket' = [s \in Sockets |->
                  IF s = transport[m].socket /\ Live(s)
                    THEN [socket[s] EXCEPT !.state = "ending"] ELSE socket[s]]
  /\ UNCHANGED drops

-----------------------------------------------------------------------------
\* onopen sends connection_init.
Open(s) ==
  /\ socket[s].state = "connecting"
  /\ socket' = [socket EXCEPT ![s].state = "open"]
  /\ UNCHANGED <<transport, drops>>

\* connection_ack arrives and the messages are subscribed to.
Ack(s) ==
  /\ socket[s].state = "open"
  /\ socket' = [socket EXCEPT ![s].state = "acked"]
  /\ transport' = [transport EXCEPT ![socket[s].owner].acked = TRUE,
                                    ![socket[s].owner].status = "connected"]
  /\ UNCHANGED drops

\* The network, or the daemon, ends the connection.
Drop(s) ==
  /\ Live(s)
  /\ drops < MaxDrops
  /\ drops' = drops + 1
  /\ socket' = [socket EXCEPT ![s].state = "ending"]
  /\ UNCHANGED transport

\* A mutant of Closed: only a connection that had been acknowledged is retried.
Closed_RetriesOnceUp(s) ==
  /\ socket[s].state = "ending"
  /\ socket' = [socket EXCEPT ![s].state = "closed"]
  /\ LET m == socket[s].owner IN
       transport' = [transport EXCEPT ![m].status = "disconnected",
                       ![m].waiting = @ \/ (~transport[m].stopped /\ transport[m].acked)]
  /\ UNCHANGED drops

\* onclose reports it and, unless stopped, sets the timer.
Closed(s) ==
  /\ socket[s].state = "ending"
  /\ socket' = [socket EXCEPT ![s].state = "closed"]
  /\ LET m == socket[s].owner IN
       transport' = [transport EXCEPT ![m].status = "disconnected",
                       ![m].waiting = @ \/ ~transport[m].stopped]
  /\ UNCHANGED drops

\* The timer runs connect(), which returns at once when stopped.
Retry(m) ==
  /\ transport[m].waiting
  /\ IF transport[m].stopped
       THEN /\ transport' = [transport EXCEPT ![m].waiting = FALSE]
            /\ UNCHANGED <<socket, drops>>
       ELSE \E s \in Sockets : Connect(m, s)

TransportStep ==
  \/ \E s \in Sockets : Open(s) \/ Ack(s) \/ Drop(s) \/ Closed(s)
  \/ \E m \in Managers : Retry(m)

\* The browser delivers the events of its sockets and timers, and the daemon is
\* there: a connection that is not dropped opens and is acknowledged.  Where one
\* socket could be made the next one can: connect() does not throw in the timer.
TransportFairness ==
  /\ \A s \in Sockets : WF_transportVars(Open(s) \/ Ack(s) \/ Closed(s))
  /\ \A m \in Managers : WF_transportVars(Retry(m))

-----------------------------------------------------------------------------
TransportTypeOK ==
  /\ transport \in [Managers -> TransportRecord]
  /\ socket \in [Sockets -> SocketRecord]
  /\ drops \in Nat

\* send() does not throw.
Sendable(m) == transport[m].socket # None /\ transport[m].acked

\* The status that a manager and its channels go by, and the answer of send(),
\* are about the socket that carries them: `connected` is only said of a socket
\* that was acknowledged and whose close is not reported yet, an acknowledged
\* socket is never taken for a lost one, and send() never hands a message to a
\* socket before its own handshake is over.
TransportStatusTrue ==
  /\ \A m \in Managers : transport[m].status = "connected" =>
       \E s \in Sockets : socket[s].owner = m /\ socket[s].state \in {"acked", "ending"}
  /\ \A s \in Sockets : socket[s].state = "acked" =>
       transport[socket[s].owner].status = "connected" /\ Sendable(socket[s].owner)
  /\ \A m \in Managers : Sendable(m) =>
       socket[transport[m].socket].state \notin {"unused", "connecting", "open"}

\* Every transport that was started and is not stopped gets its connection back,
\* however often it is lost and wherever in the handshake.
Reconnects ==
  \A m \in Managers :
    Looping(m) ~> (transport[m].stopped \/ transport[m].status = "connected")

=============================================================================
