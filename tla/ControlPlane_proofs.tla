------------------------- MODULE ControlPlane_proofs -------------------------
(***************************************************************************)
(* Theorems about ControlPlane and LayoutTransport for any managers,       *)
(* sockets, calls and number of lost connections.                          *)
(*                                                                         *)
(* LoopInv says that a transport has one loop: a socket that is not closed *)
(* or a timer that is set, never two.  PlaneInv says what an orderly host  *)
(* finds: the await of every call tells what the plane holds.              *)
(***************************************************************************)
EXTENDS ControlPlane, TLAPS

Closing(s) == socket[s].state \notin {"unused", "closed"}

LoopInv ==
  /\ \A s \in Sockets : socket[s].state # "unused" => socket[s].owner \in made
  /\ \A s, t \in Sockets :
       Closing(s) /\ Closing(t) /\ socket[s].owner = socket[t].owner => s = t
  /\ \A s \in Sockets : Closing(s) => ~transport[socket[s].owner].waiting
  /\ \A m \in Managers : m \notin made => transport[m] = NoTransport
  /\ \A s \in Sockets : Live(s) =>
       /\ ~transport[socket[s].owner].stopped
       /\ transport[socket[s].owner].socket = s
  /\ \A m \in Managers : transport[m].waiting => transport[m].stopped \/ Looping(m)
  /\ \A s \in Sockets : Closing(s) =>
       transport[socket[s].owner].stopped \/ Looping(socket[s].owner)

PlaneInv ==
  /\ \A m \in Managers : Looping(m) => m = manager /\ status = "running"
  /\ status = "running" => manager # None /\ Looping(manager)
  /\ status \in {"idle", "stopped"} => manager = None
  /\ \A c \in Calls : call[c] = "doStart" =>
       /\ status = "starting"
       /\ \A d \in Calls : InFlight(d) => d = c
  /\ \A c \in Calls : call[c] \in {"clear", "doStop"} => status \in {"stopping", "stopped"}
  /\ \A c \in Calls : call[c] = "doStop" => manager = None


-----------------------------------------------------------------------------
(***************************************************************************)
(* Types.                                                                  *)
(***************************************************************************)
LEMMA InitTypeOK == Init => TypeOK
BY DEF Init, TransportInit, TypeOK, TransportTypeOK, TransportRecord, SocketRecord,
       SocketStates, NoTransport, Statuses, Awaits

LEMMA ConnectTypeOK ==
  ASSUME TypeOK, NEW m \in Managers, NEW s \in Sockets, Connect(m, s)
  PROVE  TransportTypeOK'
BY DEF TypeOK, TransportTypeOK, TransportRecord, SocketRecord, SocketStates, Connect, Connected

LEMMA ThrowTypeOK ==
  ASSUME TypeOK, NEW m \in Managers, ConnectThrows(m)
  PROVE  TransportTypeOK'
BY DEF TypeOK, TransportTypeOK, TransportRecord, ConnectThrows

LEMMA StopTypeOK ==
  ASSUME TypeOK, manager # None, StopTransport(manager)
  PROVE  TransportTypeOK'
<1>1. manager \in Managers /\ drops' \in Nat
  BY DEF TypeOK, TransportTypeOK, StopTransport
<1>2. transport' \in [Managers -> TransportRecord]
  BY <1>1 DEF TypeOK, TransportTypeOK, TransportRecord, StopTransport
<1>3. socket' \in [Sockets -> SocketRecord]
  BY <1>1 DEF TypeOK, TransportTypeOK, TransportRecord, SocketRecord, SocketStates, StopTransport, Live
<1> QED BY <1>1, <1>2, <1>3 DEF TransportTypeOK

LEMMA TransportTypeStep == TypeOK /\ LoopInv /\ TransportStep => TransportTypeOK'
<1> SUFFICES ASSUME TypeOK, LoopInv, TransportStep PROVE TransportTypeOK'
  OBVIOUS
<1>1. CASE \E s \in Sockets : Open(s) \/ Drop(s)
  BY <1>1 DEF TypeOK, TransportTypeOK, TransportRecord, SocketRecord, SocketStates,
              Open, Drop, Live
<1>2. CASE \E s \in Sockets : Ack(s)
  <2> PICK s \in Sockets : Ack(s)
    BY <1>2
  <2>1. socket[s].owner \in Managers
    BY DEF Ack, LoopInv, TypeOK
  <2>2. transport' \in [Managers -> TransportRecord]
    BY <2>1 DEF TypeOK, TransportTypeOK, TransportRecord, Ack
  <2>3. socket' \in [Sockets -> SocketRecord]
    BY DEF TypeOK, TransportTypeOK, SocketRecord, SocketStates, Ack
  <2> QED
    BY <2>2, <2>3 DEF TypeOK, TransportTypeOK, Ack
<1>3. CASE \E s \in Sockets : Closed(s)
  <2> PICK s \in Sockets : Closed(s)
    BY <1>3
  <2> DEFINE m == socket[s].owner
             w == transport[m].waiting \/ ~transport[m].stopped
  <2>1. m \in Managers
    BY DEF Closed, LoopInv, TypeOK
  <2>2. w \in BOOLEAN
    OBVIOUS
  <2>3. transport' = [transport EXCEPT ![m].status = "disconnected", ![m].waiting = w]
    BY DEF Closed
  <2>4. transport' \in [Managers -> TransportRecord]
    <3> HIDE DEF w
    <3> QED BY <2>1, <2>2, <2>3 DEF TypeOK, TransportTypeOK, TransportRecord
  <2> QED
    BY <2>4 DEF TypeOK, TransportTypeOK, SocketRecord, SocketStates, Closed
<1>4. CASE \E m \in Managers : Retry(m)
  <2> PICK m \in Managers : Retry(m)
    BY <1>4
  <2>1. CASE transport[m].stopped
    <3>1. /\ transport' = [transport EXCEPT ![m].waiting = FALSE]
          /\ socket' = socket /\ drops' = drops
      BY <2>1 DEF Retry
    <3> QED BY <3>1 DEF TypeOK, TransportTypeOK, TransportRecord
  <2>2. CASE ~transport[m].stopped
    BY <2>2, ConnectTypeOK DEF Retry
  <2> QED BY <2>1, <2>2
<1> QED BY <1>1, <1>2, <1>3, <1>4 DEF TransportStep

LEMMA NextTypeOK == TypeOK /\ LoopInv /\ [Next]_vars => TypeOK'
<1> SUFFICES ASSUME TypeOK, LoopInv, [Next]_vars PROVE TypeOK'
  OBVIOUS
<1>1. CASE TransportStep /\ UNCHANGED planeVars
  BY <1>1, TransportTypeStep DEF TypeOK, planeVars
<1>2. ASSUME NEW c \in Calls, Start(c) \/ StartFails(c) \/ Cleared(c) \/ StopReturns(c) \/ StopFails(c)
      PROVE  TypeOK'
  BY <1>2 DEF TypeOK, TransportTypeOK, transportVars, Start, StartFails, Cleared, StopReturns,
              StopFails, Goes, Statuses, Awaits
<1>3. ASSUME NEW c \in Calls, StartReturns(c)
      PROVE  TypeOK'
  BY <1>3, ConnectTypeOK DEF TypeOK, StartReturns, Goes, Statuses, Awaits
<1>6. ASSUME NEW c \in Calls, StartThrows(c)
      PROVE  TypeOK'
  BY <1>6, ThrowTypeOK DEF TypeOK, StartThrows, Goes, Statuses, Awaits
<1>4. ASSUME NEW c \in Calls, Stop(c)
      PROVE  TypeOK'
  <2>1. CASE manager = None
    BY <1>4, <2>1 DEF TypeOK, TransportTypeOK, transportVars, Stop, Goes, Statuses, Awaits
  <2>2. CASE manager # None
    <3>1. TransportTypeOK'
      BY <1>4, <2>2, StopTypeOK DEF Stop, StopManager
    <3> QED BY <1>4, <2>2, <3>1 DEF TypeOK, Stop, StopManager, Goes, Statuses, Awaits
  <2> QED BY <2>1, <2>2
<1>5. CASE UNCHANGED vars
  BY <1>5 DEF TypeOK, TransportTypeOK, vars, transportVars, planeVars
<1> QED BY <1>1, <1>2, <1>3, <1>4, <1>5, <1>6 DEF Next, Settles

-----------------------------------------------------------------------------
(***************************************************************************)
(* One loop per transport, and statuses that are true.                     *)
(***************************************************************************)
TransportInv == LoopInv /\ TransportStatusTrue

LEMMA InitTransportInv == Init => TransportInv
BY NoneAssumption
   DEF Init, TransportInit, TransportInv, LoopInv, TransportStatusTrue, NoTransport,
       Closing, Live, Looping, Sendable

LEMMA TransportUnchanged ==
  ASSUME TransportInv, UNCHANGED <<transportVars, made>>
  PROVE  TransportInv'
BY DEF TransportInv, LoopInv, TransportStatusTrue, transportVars, Closing, Live, Looping, Sendable

\* A manager that has no socket left, or never had one, may connect.
LEMMA ConnectTransportInv ==
  ASSUME TypeOK, TransportInv, NEW m \in Managers, NEW s \in Sockets, Connect(m, s),
         \A t \in Sockets : Closing(t) => socket[t].owner # m,
         made' = made \cup {m}
  PROVE  TransportInv'
<1>1. /\ transport' = [transport EXCEPT ![m] = Connected(m, s)]
      /\ socket' = [socket EXCEPT ![s] = [owner |-> m, state |-> "connecting"]]
      /\ socket[s].state = "unused"
  BY DEF Connect
<1>2. /\ transport'[m] = Connected(m, s)
      /\ \A n \in Managers : n # m => transport'[n] = transport[n]
      /\ socket'[s] = [owner |-> m, state |-> "connecting"]
      /\ \A t \in Sockets : t # s => socket'[t] = socket[t]
  BY <1>1 DEF TypeOK, TransportTypeOK
<1>3. \A t \in Sockets : socket[t].state # "unused" => socket[t].owner \in Managers
  BY DEF TransportInv, LoopInv, TypeOK
<1>4. LoopInv'
  BY <1>1, <1>2, <1>3, NoneAssumption
     DEF TransportInv, LoopInv, Connected, Closing, Live, Looping
<1>5. \A n \in Managers \ {m} : Sendable(n) => transport[n].socket # s
  BY <1>1 DEF TransportInv, TransportStatusTrue
<1>6. \A n \in Managers : transport[n].socket \in Sockets \cup {None}
  BY DEF TypeOK, TransportTypeOK, TransportRecord
<1>7. TransportStatusTrue'
  <2>1. \A n \in Managers : (transport[n].status = "connected")' =>
          \E t \in Sockets : (socket[t].owner = n /\ socket[t].state \in {"acked", "ending"})'
    BY <1>1, <1>2 DEF TransportInv, TransportStatusTrue, Connected
  <2>2. ASSUME NEW t \in Sockets, (socket[t].state = "acked")'
        PROVE  (transport[socket[t].owner].status = "connected" /\ Sendable(socket[t].owner))'
    <3>1. t # s /\ socket[t].owner \in Managers \ {m}
      BY <1>2, <1>3, <2>2 DEF Closing
    <3> QED BY <1>2, <2>2, <3>1 DEF TransportInv, TransportStatusTrue, Sendable
  <2>3. \A n \in Managers : Sendable(n)' =>
          (socket[transport[n].socket].state \notin {"unused", "connecting", "open"})'
    BY <1>2, <1>5, <1>6 DEF TransportInv, TransportStatusTrue, Sendable, Connected
  <2> QED BY <2>1, <2>2, <2>3 DEF TransportStatusTrue
<1> QED BY <1>4, <1>7 DEF TransportInv

\* A start that throws: the transport is no longer stopped but does not loop.
LEMMA ThrowTransportInv ==
  ASSUME TypeOK, TransportInv, NEW m \in Managers \ made, ConnectThrows(m),
         made' = made \cup {m}
  PROVE  TransportInv'
<1>1. /\ UNCHANGED socket
      /\ transport'[m] = [NoTransport EXCEPT !.stopped = FALSE]
      /\ \A n \in Managers : n # m => transport'[n] = transport[n]
  BY DEF ConnectThrows, TransportInv, LoopInv, TypeOK, TransportTypeOK
<1>2. \A s \in Sockets : socket[s].state # "unused" => socket[s].owner \in Managers \ {m}
  BY DEF TransportInv, LoopInv, TypeOK
<1>3. LoopInv'
  <2>1. ~transport'[m].waiting
    BY <1>1 DEF NoTransport
  <2>2. \A s \in Sockets : Closing(s) \/ Live(s) =>
          /\ socket[s].owner \in Managers
          /\ transport'[socket[s].owner] = transport[socket[s].owner]
    BY <1>1, <1>2 DEF Closing, Live
  <2>3. /\ \A s \in Sockets : (socket[s].state # "unused" => socket[s].owner \in made)'
        /\ \A n \in Managers : n \notin made' => transport'[n] = NoTransport
    BY <1>1 DEF TransportInv, LoopInv
  <2>4. /\ \A s, t \in Sockets :
             (Closing(s) /\ Closing(t) /\ socket[s].owner = socket[t].owner => s = t)'
        /\ \A s \in Sockets : (Closing(s) => ~transport[socket[s].owner].waiting)'
    BY <1>1, <2>2 DEF TransportInv, LoopInv, Closing
  <2>5. \A s \in Sockets : Live(s)' =>
          /\ ~transport'[socket'[s].owner].stopped
          /\ transport'[socket'[s].owner].socket = s
    BY <1>1, <2>2 DEF TransportInv, LoopInv, Live
  <2>6. \A n \in Managers : transport'[n].waiting => transport'[n].stopped \/ Looping(n)'
    BY <1>1, <2>1 DEF TransportInv, LoopInv, Looping
  <2>7. \A s \in Sockets : Closing(s)' =>
          transport'[socket'[s].owner].stopped \/ Looping(socket[s].owner)'
    BY <1>1, <2>2 DEF TransportInv, LoopInv, Closing, Looping
  <2> QED BY <2>3, <2>4, <2>5, <2>6, <2>7 DEF LoopInv, Closing, Live, Looping
<1>4. transport'[m].status = "connecting" /\ transport'[m].socket = None
  <2>1. m \in Managers /\ transport'[m] = [stopped |-> FALSE, socket |-> None, acked |-> FALSE,
                                          waiting |-> FALSE, status |-> "connecting"]
    BY <1>1 DEF NoTransport
  <2> QED BY <2>1
<1>5. TransportStatusTrue'
  <2>1. \A n \in Managers : (transport[n].status = "connected")' =>
          \E t \in Sockets : (socket[t].owner = n /\ socket[t].state \in {"acked", "ending"})'
    <3>1. \A n \in Managers : (transport[n].status = "connected")' =>
            n # m /\ transport[n].status = "connected"
      BY <1>1, <1>4
    <3> QED BY <1>1, <3>1 DEF TransportInv, TransportStatusTrue
  <2>2. \A t \in Sockets : (socket[t].state = "acked")' =>
          (transport[socket[t].owner].status = "connected" /\ Sendable(socket[t].owner))'
    BY <1>1, <1>2 DEF TransportInv, TransportStatusTrue, Sendable
  <2>3. \A n \in Managers : Sendable(n)' =>
          (socket[transport[n].socket].state \notin {"unused", "connecting", "open"})'
    BY <1>1, <1>4 DEF TransportInv, TransportStatusTrue, Sendable
  <2> QED BY <2>1, <2>2, <2>3 DEF TransportStatusTrue
<1> QED BY <1>3, <1>5 DEF TransportInv

LEMMA StopTransportInv ==
  ASSUME TypeOK, TransportInv, NEW m \in made, StopTransport(m), made' = made
  PROVE  TransportInv'
<1>1. /\ \A n \in Managers : n # m => transport'[n] = transport[n]
      /\ transport'[m].stopped /\ transport'[m].socket = None
      /\ transport'[m].waiting = transport[m].waiting
      /\ transport'[m].status = transport[m].status
  BY DEF StopTransport, TypeOK, TransportTypeOK, TransportRecord
<1>2. \A t \in Sockets :
        /\ socket'[t].owner = socket[t].owner
        /\ t = transport[m].socket /\ Live(t) => socket'[t].state = "ending"
        /\ ~(t = transport[m].socket /\ Live(t)) => socket'[t] = socket[t]
  BY DEF StopTransport, TypeOK, TransportTypeOK, SocketRecord
<1>3. \A t \in Sockets : Live(t) /\ socket[t].owner = m => t = transport[m].socket
  BY DEF TransportInv, LoopInv
<1>4. \A t \in Sockets : socket[t].state # "unused" => socket[t].owner \in Managers
  BY DEF TransportInv, LoopInv, TypeOK
<1>5. LoopInv'
  BY <1>1, <1>2, <1>3, <1>4 DEF TransportInv, LoopInv, Closing, Live, Looping, TypeOK
<1>6. TransportStatusTrue'
  <2>1. \A n \in Managers : (transport[n].status = "connected")' =>
          \E t \in Sockets : (socket[t].owner = n /\ socket[t].state \in {"acked", "ending"})'
    BY <1>1, <1>2 DEF TransportInv, TransportStatusTrue
  <2>2. \A t \in Sockets : (socket[t].state = "acked")' =>
          (transport[socket[t].owner].status = "connected" /\ Sendable(socket[t].owner))'
    BY <1>1, <1>2, <1>3, <1>4 DEF TransportInv, TransportStatusTrue, Sendable, Live
  <2>3. ASSUME NEW n \in Managers, Sendable(n)'
        PROVE  (socket[transport[n].socket].state \notin {"unused", "connecting", "open"})'
    <3>1. n # m /\ Sendable(n) /\ transport'[n].socket = transport[n].socket
      BY <1>1, <2>3 DEF Sendable
    <3>2. transport[n].socket \in Sockets
      BY <3>1 DEF Sendable, TypeOK, TransportTypeOK, TransportRecord
    <3> QED BY <1>2, <3>1, <3>2 DEF TransportInv, TransportStatusTrue
  <2> QED BY <2>1, <2>2, <2>3 DEF TransportStatusTrue
<1> QED BY <1>5, <1>6 DEF TransportInv

\* A frame, a loss or a close event of socket s.
LEMMA SocketTransportInv ==
  ASSUME TypeOK, TransportInv, NEW s \in Sockets,
         Open(s) \/ Ack(s) \/ Drop(s) \/ Closed(s), made' = made
  PROVE  TransportInv'
<1> DEFINE m == socket[s].owner
<1>1. m \in Managers /\ Closing(s)
  BY DEF Open, Ack, Drop, Closed, Live, Closing, TransportInv, LoopInv, TypeOK
<1>2. /\ \A t \in Sockets : t # s => socket'[t] = socket[t]
      /\ socket'[s].owner = m
      /\ \A n \in Managers : n # m => transport'[n] = transport[n]
      /\ transport'[m].stopped = transport[m].stopped
      /\ transport'[m].socket = transport[m].socket
  BY <1>1 DEF Open, Ack, Drop, Closed, TypeOK, TransportTypeOK, TransportRecord, SocketRecord
<1>3. \A t \in Sockets : Closing(t) /\ socket[t].owner = m => t = s
  BY <1>1 DEF TransportInv, LoopInv
<1>4. m \in made
  BY <1>1 DEF TransportInv, LoopInv, Closing
<1>5. \A t \in Sockets : socket[t].state # "unused" => socket[t].owner \in Managers
  BY DEF TransportInv, LoopInv, TypeOK
<1>6. \A n \in Managers : transport[n].socket \in Sockets \cup {None}
  BY DEF TypeOK, TransportTypeOK, TransportRecord
<1>7. CASE Open(s) \/ Drop(s)
  <2>1. /\ transport' = transport
        /\ \/ socket[s].state = "connecting" /\ socket'[s].state = "open"
           \/ Live(s) /\ socket'[s].state = "ending"
    BY <1>7 DEF Open, Drop, TypeOK, TransportTypeOK, SocketRecord
  <2>2. LoopInv'
    BY <1>1, <1>2, <1>4, <2>1 DEF TransportInv, LoopInv, Closing, Live, Looping
  <2>3. TransportStatusTrue'
    BY <1>2, <1>6, <2>1, NoneAssumption DEF TransportInv, TransportStatusTrue, Sendable, Live
  <2> QED BY <2>2, <2>3 DEF TransportInv
<1>8. CASE Ack(s)
  <2>1. /\ socket[s].state = "open" /\ socket'[s].state = "acked"
        /\ transport'[m].acked /\ transport'[m].status = "connected"
        /\ transport'[m].waiting = transport[m].waiting
    BY <1>1, <1>8 DEF Ack, TypeOK, TransportTypeOK, TransportRecord, SocketRecord
  <2>2. LoopInv'
    BY <1>1, <1>2, <1>4, <1>5, <2>1 DEF TransportInv, LoopInv, Closing, Live, Looping
  <2>3. transport[m].socket = s
    BY <2>1 DEF TransportInv, LoopInv, Live
  <2>4. TransportStatusTrue'
    BY <1>1, <1>2, <1>5, <1>6, <2>1, <2>3, NoneAssumption
       DEF TransportInv, TransportStatusTrue, Sendable
  <2> QED BY <2>2, <2>4 DEF TransportInv
<1>9. CASE Closed(s)
  <2>1. /\ socket[s].state = "ending" /\ socket'[s].state = "closed"
        /\ transport'[m].acked = transport[m].acked
        /\ transport'[m].status = "disconnected"
    BY <1>1, <1>9 DEF Closed, TypeOK, TransportTypeOK, TransportRecord, SocketRecord
  <2>2. LoopInv'
    BY <1>1, <1>2, <1>3, <1>4, <1>5, <2>1 DEF TransportInv, LoopInv, Closing, Live, Looping
  <2>3. TransportStatusTrue'
    BY <1>1, <1>2, <1>3, <1>5, <1>6, <2>1, NoneAssumption
       DEF TransportInv, TransportStatusTrue, Sendable, Closing
  <2> QED BY <2>2, <2>3 DEF TransportInv
<1> QED BY <1>7, <1>8, <1>9

\* The reconnect timer.
LEMMA RetryTransportInv ==
  ASSUME TypeOK, TransportInv, NEW m \in Managers, Retry(m), made' = made
  PROVE  TransportInv'
<1>1. transport[m].waiting
  BY DEF Retry
<1>2. m \in made
  BY <1>1 DEF TransportInv, LoopInv, NoTransport
<1>3. CASE transport[m].stopped
  <2>1. /\ transport' = [transport EXCEPT ![m].waiting = FALSE]
        /\ socket' = socket
    BY <1>3 DEF Retry
  <2>2. /\ \A n \in Managers : n # m => transport'[n] = transport[n]
        /\ transport'[m].stopped = transport[m].stopped
        /\ transport'[m].socket = transport[m].socket
        /\ transport'[m].acked = transport[m].acked
        /\ transport'[m].status = transport[m].status
        /\ ~transport'[m].waiting
    BY <2>1 DEF TypeOK, TransportTypeOK, TransportRecord
  <2>3. \A t \in Sockets : socket[t].state # "unused" => socket[t].owner \in Managers
    BY DEF TransportInv, LoopInv, TypeOK
  <2>4. LoopInv'
    BY <1>2, <2>1, <2>2, <2>3 DEF TransportInv, LoopInv, Closing, Live, Looping
  <2>5. TransportStatusTrue'
    BY <2>1, <2>2, <2>3 DEF TransportInv, TransportStatusTrue, Sendable
  <2> QED BY <2>4, <2>5 DEF TransportInv
<1>4. CASE ~transport[m].stopped
  <2>1. PICK s \in Sockets : Connect(m, s)
    BY <1>4 DEF Retry
  <2>2. \A t \in Sockets : Closing(t) => socket[t].owner # m
    BY <1>1 DEF TransportInv, LoopInv
  <2> QED BY <1>2, <2>1, <2>2, ConnectTransportInv
<1> QED BY <1>3, <1>4

LEMMA NextTransportInv == TypeOK /\ TransportInv /\ [Next]_vars => TransportInv'
<1> SUFFICES ASSUME TypeOK, TransportInv, [Next]_vars PROVE TransportInv'
  OBVIOUS
<1>1. CASE TransportStep /\ UNCHANGED planeVars
  <2>1. made' = made
    BY <1>1 DEF planeVars
  <2>2. ASSUME NEW s \in Sockets, Open(s) \/ Ack(s) \/ Drop(s) \/ Closed(s)
        PROVE  TransportInv'
    BY <2>1, <2>2, SocketTransportInv
  <2>3. ASSUME NEW m \in Managers, Retry(m)
        PROVE  TransportInv'
    BY <2>1, <2>3, RetryTransportInv
  <2> QED BY <1>1, <2>2, <2>3 DEF TransportStep
<1>2. ASSUME NEW c \in Calls, Start(c) \/ StartFails(c) \/ Cleared(c) \/ StopReturns(c) \/ StopFails(c)
      PROVE  TransportInv'
  BY <1>2, TransportUnchanged DEF Start, StartFails, Cleared, StopReturns, StopFails
<1>3. ASSUME NEW c \in Calls, StartReturns(c)
      PROVE  TransportInv'
  <2>1. PICK m \in Managers \ made, s \in Sockets : Connect(m, s) /\ made' = made \cup {m}
    BY <1>3 DEF StartReturns
  <2>2. \A t \in Sockets : Closing(t) => socket[t].owner # m
    BY DEF TransportInv, LoopInv, Closing
  <2> QED BY <2>1, <2>2, ConnectTransportInv
<1>6. ASSUME NEW c \in Calls, StartThrows(c)
      PROVE  TransportInv'
  BY <1>6, ThrowTransportInv DEF StartThrows
<1>4. ASSUME NEW c \in Calls, Stop(c)
      PROVE  TransportInv'
  <2>1. CASE manager = None
    BY <1>4, <2>1, TransportUnchanged DEF Stop
  <2>2. CASE manager # None
    <3>1. manager \in made
      BY <2>2 DEF TypeOK
    <3>2. StopTransport(manager) /\ made' = made
      BY <1>4, <2>2 DEF Stop, StopManager
    <3> QED BY <3>1, <3>2, StopTransportInv
  <2> QED BY <2>1, <2>2
<1>5. CASE UNCHANGED vars
  BY <1>5, TransportUnchanged DEF vars, transportVars, planeVars
<1> QED BY <1>1, <1>2, <1>3, <1>4, <1>5, <1>6 DEF Next, Settles

LEMMA TransportInductive == Spec => [](TypeOK /\ TransportInv)
<1>1. Init => TypeOK /\ TransportInv
  BY InitTypeOK, InitTransportInv
<1>2. TypeOK /\ TransportInv /\ [Next]_vars => (TypeOK /\ TransportInv)'
  BY NextTypeOK, NextTransportInv DEF TransportInv
<1> QED BY <1>1, <1>2, PTL DEF Spec

\* The variables keep their types; a manager the plane holds is one it made.
THEOREM PlaneTypesHold == Spec => []TypeOK
BY TransportInductive, PTL

\* What a manager says of its connection and what send() answers is about the
\* socket that carries it, for any number of losses, retries and stops, however
\* the calls of the host overlap (layout-transport.ts:73-135).
THEOREM StatusesAreTrue == Spec => []TransportStatusTrue
<1>1. TransportInv => TransportStatusTrue
  BY DEF TransportInv
<1> QED BY <1>1, TransportInductive, PTL

-----------------------------------------------------------------------------
(***************************************************************************)
(* The plane of an orderly host.                                           *)
(***************************************************************************)
OrderlyInv == orderly => PlaneInv

LEMMA InitOrderly == Init => OrderlyInv
BY NoneAssumption
   DEF Init, TransportInit, OrderlyInv, PlaneInv, NoTransport, InFlight, Looping

\* No step of a transport stops or revives one.
LEMMA StoppedKept ==
  ASSUME TypeOK, TransportInv, TransportStep
  PROVE  \A m \in Managers : transport'[m].stopped = transport[m].stopped
<1>1. ASSUME NEW s \in Sockets, Open(s) \/ Ack(s) \/ Drop(s) \/ Closed(s)
      PROVE  \A m \in Managers : transport'[m].stopped = transport[m].stopped
  <2>1. socket[s].owner \in Managers
    BY <1>1 DEF Open, Ack, Drop, Closed, Live, TransportInv, LoopInv, TypeOK
  <2> QED BY <1>1, <2>1 DEF Open, Ack, Drop, Closed, TypeOK, TransportTypeOK, TransportRecord
<1>2. ASSUME NEW n \in Managers, Retry(n)
      PROVE  \A m \in Managers : transport'[m].stopped = transport[m].stopped
  <2>1. CASE transport[n].stopped
    <3>1. transport' = [transport EXCEPT ![n].waiting = FALSE]
      BY <1>2, <2>1 DEF Retry
    <3> QED BY <3>1 DEF TypeOK, TransportTypeOK, TransportRecord
  <2>2. CASE ~transport[n].stopped
    <3>1. \E s \in Sockets : Connect(n, s)
      BY <1>2, <2>2 DEF Retry
    <3>2. transport' = [transport EXCEPT ![n] = Connected(n, transport'[n].socket)]
      BY <3>1 DEF Connect, Connected, TypeOK, TransportTypeOK
    <3>3. transport'[n].stopped = FALSE
      BY <3>1 DEF Connect, Connected, TypeOK, TransportTypeOK
    <3> QED BY <2>2, <3>2, <3>3 DEF TypeOK, TransportTypeOK, TransportRecord
  <2> QED BY <2>1, <2>2
<1> QED BY <1>1, <1>2 DEF TransportStep

\* Nor does one start or end a loop.
LEMMA LoopingKept ==
  ASSUME TypeOK, TransportInv, TransportStep
  PROVE  \A m \in Managers : Looping(m)' <=> Looping(m)
<1>1. \A m \in Managers : transport'[m].stopped = transport[m].stopped
  BY StoppedKept
<1>2. ASSUME NEW s \in Sockets, Open(s) \/ Ack(s) \/ Drop(s) \/ Closed(s)
      PROVE  \A m \in Managers : transport'[m].socket = transport[m].socket
  <2>1. socket[s].owner \in Managers
    BY <1>2 DEF Open, Ack, Drop, Closed, Live, TransportInv, LoopInv, TypeOK
  <2> QED BY <1>2, <2>1 DEF Open, Ack, Drop, Closed, TypeOK, TransportTypeOK, TransportRecord
<1>3. ASSUME NEW n \in Managers, Retry(n)
      PROVE  \A m \in Managers : Looping(m)' <=> Looping(m)
  <2>1. CASE transport[n].stopped
    <3>1. transport' = [transport EXCEPT ![n].waiting = FALSE]
      BY <1>3, <2>1 DEF Retry
    <3>2. \A m \in Managers : transport'[m].socket = transport[m].socket
      BY <3>1 DEF TypeOK, TransportTypeOK, TransportRecord
    <3> QED BY <1>1, <3>2 DEF Looping
  <2>2. CASE ~transport[n].stopped
    <3>1. Looping(n)
      BY <1>3, <2>2 DEF Retry, TransportInv, LoopInv
    <3>2. PICK s \in Sockets : Connect(n, s)
      BY <1>3, <2>2 DEF Retry
    <3>3. /\ transport'[n].stopped = FALSE /\ transport'[n].socket = s
          /\ \A m \in Managers : m # n => transport'[m] = transport[m]
      BY <3>2 DEF Connect, Connected, TypeOK, TransportTypeOK
    <3> QED BY <3>1, <3>3, NoneAssumption DEF Looping
  <2> QED BY <2>1, <2>2
<1>4. ASSUME NEW s \in Sockets, Open(s) \/ Ack(s) \/ Drop(s) \/ Closed(s)
      PROVE  \A m \in Managers : Looping(m)' <=> Looping(m)
  <2>1. \A m \in Managers : transport'[m].socket = transport[m].socket
    BY <1>2, <1>4
  <2> QED BY <1>1, <2>1 DEF Looping
<1> QED BY <1>3, <1>4 DEF TransportStep

LEMMA NextOrderly == TypeOK /\ TransportInv /\ OrderlyInv /\ [Next]_vars => OrderlyInv'
<1> SUFFICES ASSUME TypeOK, TransportInv, OrderlyInv, [Next]_vars, orderly'
             PROVE  PlaneInv'
  BY DEF OrderlyInv
<1>1. CASE TransportStep /\ UNCHANGED planeVars
  <2>1. orderly /\ UNCHANGED <<status, manager, made, call>>
    BY <1>1 DEF planeVars
  <2>2. manager # None => manager \in Managers
    BY DEF TypeOK
  <2>3. \A m \in Managers : Looping(m)' <=> Looping(m)
    BY <1>1, LoopingKept
  <2>4. PlaneInv
    BY <2>1 DEF OrderlyInv
  <2>5. \A m \in Managers : Looping(m)' => m = manager /\ status = "running"
    BY <2>3, <2>4 DEF PlaneInv
  <2>6. status = "running" => manager # None /\ Looping(manager)'
    BY <2>1, <2>2, <2>3, <2>4 DEF PlaneInv, Looping
  <2> QED BY <2>1, <2>4, <2>5, <2>6 DEF PlaneInv, InFlight, Looping
<1>2. ASSUME NEW c \in Calls, Start(c)
      PROVE  PlaneInv'
  <2>1. /\ orderly /\ status # "running" /\ \A d \in Calls : call[d] = "none"
        /\ status' = "starting" /\ manager' = manager /\ transport' = transport
        /\ call'[c] = "doStart" /\ \A d \in Calls : d # c => call'[d] = "none"
    BY <1>2 DEF Start, Goes, InFlight, TypeOK, transportVars
  <2>2. \A m \in Managers : ~Looping(m)'
    BY <2>1 DEF OrderlyInv, PlaneInv, Looping
  <2> QED BY <2>1, <2>2 DEF PlaneInv, InFlight
<1>3. ASSUME NEW c \in Calls, StartReturns(c)
      PROVE  PlaneInv'
  <2>1. PICK m \in Managers \ made, s \in Sockets : Connect(m, s) /\ manager' = m
    BY <1>3 DEF StartReturns
  <2>2. /\ orderly /\ call[c] = "doStart" /\ status' = "running"
        /\ \A d \in Calls : call'[d] = IF d = c THEN "none" ELSE call[d]
    BY <1>3 DEF StartReturns, Goes, TypeOK
  <2>3. \A d \in Calls : call'[d] = "none"
    BY <2>2 DEF OrderlyInv, PlaneInv, InFlight
  <2>4. /\ transport'[m].stopped = FALSE /\ transport'[m].socket = s
        /\ \A n \in Managers : n # m => transport'[n] = transport[n]
    BY <2>1 DEF Connect, Connected, TypeOK, TransportTypeOK
  <2>5. \A n \in Managers : ~Looping(n)
    BY <2>2 DEF OrderlyInv, PlaneInv
  <2>6. Looping(m)' /\ \A n \in Managers : n # m => ~Looping(n)'
    BY <2>4, <2>5, NoneAssumption DEF Looping
  <2> QED BY <2>1, <2>2, <2>3, <2>6, NoneAssumption DEF PlaneInv, Looping
<1>4. ASSUME NEW c \in Calls, StartFails(c) \/ StartThrows(c)
      PROVE  PlaneInv'
  <2>1. /\ orderly /\ call[c] = "doStart" /\ status' = "error"
        /\ \A d \in Calls : call'[d] = IF d = c THEN "none" ELSE call[d]
    BY <1>4 DEF StartFails, StartThrows, Goes, TypeOK
  <2>2. \A d \in Calls : call'[d] = "none"
    BY <2>1 DEF OrderlyInv, PlaneInv, InFlight
  <2>3. \A n \in Managers : ~Looping(n)
    BY <2>1 DEF OrderlyInv, PlaneInv
  <2>4. \A n \in Managers : ~Looping(n)'
    <3>1. CASE StartFails(c)
      BY <2>3, <3>1 DEF StartFails, transportVars, Looping
    <3>2. CASE StartThrows(c)
      <4>1. PICK m \in Managers \ made : ConnectThrows(m)
        BY <3>2 DEF StartThrows
      <4>2. /\ transport'[m].socket = None
            /\ \A n \in Managers : n # m => transport'[n] = transport[n]
        BY <4>1 DEF ConnectThrows, TransportInv, LoopInv, NoTransport, TypeOK, TransportTypeOK
      <4> QED BY <2>3, <4>2 DEF Looping
    <3> QED BY <1>4, <3>1, <3>2
  <2> QED BY <2>1, <2>2, <2>4 DEF PlaneInv, Looping
<1>5. ASSUME NEW c \in Calls, Stop(c)
      PROVE  PlaneInv'
  <2>1. /\ orderly /\ status' = "stopping" /\ manager' = manager
        /\ \A d \in Calls : call[d] # "doStart"
        /\ \A d \in Calls : d # c => call'[d] = call[d]
    BY <1>5 DEF Stop, StopManager, Goes, TypeOK
  <2>2. CASE manager = None
    <3>1. call'[c] = "doStop" /\ transport' = transport
      BY <1>5, <2>2 DEF Stop, Goes, TypeOK, transportVars
    <3>2. \A n \in Managers : ~Looping(n)'
      BY <2>1, <2>2, <3>1, NoneAssumption DEF OrderlyInv, PlaneInv, Looping
    <3> QED BY <2>1, <2>2, <3>1, <3>2 DEF OrderlyInv, PlaneInv, InFlight
  <2>3. CASE manager # None
    <3>1. call'[c] = "clear" /\ StopTransport(manager)
      BY <1>5, <2>3 DEF Stop, StopManager, Goes, TypeOK
    <3>2. /\ manager \in Managers /\ transport'[manager].stopped
          /\ \A n \in Managers : n # manager => transport'[n] = transport[n]
      BY <2>3, <3>1 DEF StopTransport, TypeOK, TransportTypeOK, TransportRecord
    <3>3. \A n \in Managers : ~Looping(n)'
      BY <2>1, <3>2 DEF OrderlyInv, PlaneInv, Looping
    <3> QED BY <2>1, <2>3, <3>1, <3>3 DEF OrderlyInv, PlaneInv, InFlight
  <2> QED BY <2>2, <2>3
<1>6. ASSUME NEW c \in Calls, Cleared(c)
      PROVE  PlaneInv'
  <2>1. /\ orderly /\ call[c] = "clear" /\ status' = status /\ manager' = None
        /\ transport' = transport
        /\ \A d \in Calls : call'[d] = IF d = c THEN "doStop" ELSE call[d]
    BY <1>6 DEF Cleared, Goes, TypeOK, transportVars
  <2>2. status \in {"stopping", "stopped"}
    BY <2>1 DEF OrderlyInv, PlaneInv
  <2>3. \A n \in Managers : ~Looping(n)'
    BY <2>1, <2>2 DEF OrderlyInv, PlaneInv, Looping
  <2> QED BY <2>1, <2>2, <2>3 DEF OrderlyInv, PlaneInv, InFlight
<1>7. ASSUME NEW c \in Calls, StopReturns(c) \/ StopFails(c)
      PROVE  PlaneInv'
  <2>1. /\ orderly /\ call[c] = "doStop" /\ manager' = manager
        /\ status' \in {status, "stopped"} /\ transport' = transport
        /\ \A d \in Calls : call'[d] = IF d = c THEN "none" ELSE call[d]
    BY <1>7 DEF StopReturns, StopFails, Goes, TypeOK, transportVars
  <2>2. manager = None /\ status \in {"stopping", "stopped"}
    BY <2>1 DEF OrderlyInv, PlaneInv
  <2>3. \A n \in Managers : ~Looping(n)'
    BY <2>1, <2>2 DEF OrderlyInv, PlaneInv, Looping
  <2> QED BY <2>1, <2>2, <2>3 DEF OrderlyInv, PlaneInv, InFlight
<1>8. CASE UNCHANGED vars
  BY <1>8 DEF vars, transportVars, planeVars, OrderlyInv, PlaneInv, InFlight, Looping
<1> QED BY <1>1, <1>2, <1>3, <1>4, <1>5, <1>6, <1>7, <1>8 DEF Next, Settles

LEMMA OrderlyInductive == Spec => [](TypeOK /\ TransportInv /\ OrderlyInv)
BY TransportInductive, InitOrderly, NextOrderly, PTL DEF Spec

\* A host that awaits its starts has at most one connection, and none that it
\* could not stop (daemon-channel.ts:5, base-control-plane.ts:140-181).
THEOREM OneConnectionAtMost == Spec => []OneConnection
<1>1. TypeOK /\ TransportInv /\ OrderlyInv => OneConnection
  <2> SUFFICES ASSUME TypeOK, TransportInv, OrderlyInv, orderly
               PROVE  /\ \A s, t \in Sockets : Live(s) /\ Live(t) => s = t
                      /\ \A m \in Managers : Looping(m) => m = manager
                      /\ \A s \in Sockets : Live(s) => socket[s].owner = manager
    BY DEF OneConnection
  <2>1. \A s \in Sockets : Live(s) => socket[s].owner \in Managers /\ Looping(socket[s].owner)
    BY NoneAssumption DEF TransportInv, LoopInv, TypeOK, Live, Looping
  <2>2. \A m \in Managers : Looping(m) => m = manager
    BY DEF OrderlyInv, PlaneInv
  <2>3. \A s \in Sockets : Live(s) => Closing(s)
    BY DEF Live, Closing
  <2> QED BY <2>1, <2>2, <2>3 DEF TransportInv, LoopInv
<1> QED BY <1>1, OrderlyInductive, PTL

\* For such a host the status is true: running is said exactly while a transport
\* loops, no other status hides a live connection - not even the error that is
\* left by a start that threw after the manager was set - and a plane that is
\* stopped holds no manager (base-control-plane.ts:140-181).
THEOREM PlaneStatusIsTrue == Spec => []PlaneStatusTrue
<1>1. TypeOK /\ TransportInv /\ OrderlyInv => PlaneStatusTrue
  <2> SUFFICES ASSUME TypeOK, TransportInv, OrderlyInv, orderly
               PROVE  /\ status = "running" <=> \E m \in Managers : Looping(m)
                      /\ status # "running" => \A s \in Sockets : ~Live(s)
                      /\ status \in {"idle", "stopped"} => manager = None
    BY DEF PlaneStatusTrue
  <2>1. \A s \in Sockets : Live(s) => socket[s].owner \in Managers /\ Looping(socket[s].owner)
    BY NoneAssumption DEF TransportInv, LoopInv, TypeOK, Live, Looping
  <2>2. manager # None => manager \in Managers
    BY DEF TypeOK
  <2> QED BY <2>1, <2>2 DEF OrderlyInv, PlaneInv
<1> QED BY <1>1, OrderlyInductive, PTL

-----------------------------------------------------------------------------
(***************************************************************************)
(* The reconnect loop: it never dies, and a stopped one never comes back,  *)
(* whatever host calls start() and stop().                                 *)
(***************************************************************************)
\* A transport that loops has a socket that is not finished, or a timer.
AliveInv ==
  \A m \in made : Looping(m) =>
    transport[m].waiting \/ \E s \in Sockets : socket[s].owner = m /\ Closing(s)

\* The transports a step does not touch, and those whose sockets stay unfinished.
LEMMA AliveKept ==
  ASSUME AliveInv, NEW m \in made, Looping(m),
         transport'[m].waiting = transport[m].waiting,
         \A s \in Sockets : Closing(s) /\ socket[s].owner = m =>
                              Closing(s)' /\ socket'[s].owner = m
  PROVE  transport'[m].waiting \/ \E s \in Sockets : socket'[s].owner = m /\ Closing(s)'
BY DEF AliveInv

\* A transport that connects has its new socket; the sockets of the others stay.
LEMMA ConnectAlive ==
  ASSUME TypeOK, AliveInv, NEW m \in Managers, NEW s \in Sockets, Connect(m, s),
         made' \subseteq made \cup {m}
  PROVE  AliveInv'
<1>1. /\ socket'[s].owner = m /\ Closing(s)'
      /\ \A t \in Sockets : t # s => socket'[t] = socket[t]
      /\ \A n \in Managers : n # m => transport'[n] = transport[n]
  BY DEF Connect, TypeOK, TransportTypeOK, Closing
<1>2. ~Closing(s)
  BY DEF Connect, Closing
<1>3. ASSUME NEW n \in made', Looping(n)'
      PROVE  transport'[n].waiting \/ \E t \in Sockets : socket'[t].owner = n /\ Closing(t)'
  <2>1. CASE n = m
    BY <1>1, <2>1
  <2>2. CASE n # m
    <3>1. n \in made /\ n \in Managers
      BY <2>2 DEF TypeOK
    <3>2. \A t \in Sockets : Closing(t) => Closing(t)' /\ socket'[t].owner = socket[t].owner
      BY <1>1, <1>2 DEF Closing
    <3>3. Looping(n)
      BY <1>1, <1>3, <2>2, <3>1 DEF Looping
    <3>4. transport'[n].waiting = transport[n].waiting
      BY <1>1, <2>2, <3>1
    <3> QED BY <3>1, <3>2, <3>3, <3>4, AliveKept
  <2> QED BY <2>1, <2>2
<1> QED BY <1>3 DEF AliveInv

\* The events of a socket: until its close is reported it is unfinished, and the
\* report of the close sets the timer of a transport that is not stopped.
LEMMA SocketAlive ==
  ASSUME TypeOK, TransportInv, AliveInv, NEW s \in Sockets,
         Open(s) \/ Ack(s) \/ Drop(s) \/ Closed(s), made' = made
  PROVE  AliveInv'
<1>1. /\ transport \in [Managers -> TransportRecord] /\ socket \in [Sockets -> SocketRecord]
      /\ made \subseteq Managers
  BY DEF TypeOK, TransportTypeOK
<1>2. Closing(s) /\ socket[s].owner \in Managers
  BY <1>1 DEF Open, Ack, Drop, Closed, Live, Closing, TransportInv, LoopInv
<1>3. /\ \A t \in Sockets : socket'[t].owner = socket[t].owner
      /\ \A t \in Sockets : t # s => socket'[t] = socket[t]
  BY <1>1 DEF Open, Ack, Drop, Closed, SocketRecord
<1>4. \A m \in Managers : /\ transport'[m].stopped = transport[m].stopped
                           /\ transport'[m].socket = transport[m].socket
  BY <1>1, <1>2 DEF Open, Ack, Drop, Closed, TransportRecord
<1>7. \A m \in Managers : Looping(m)' => Looping(m)
  BY <1>4 DEF Looping
<1>5. CASE Open(s) \/ Ack(s) \/ Drop(s)
  <2>1. Closing(s)' /\ \A m \in Managers : transport'[m].waiting = transport[m].waiting
    <3>1. CASE Open(s) \/ Drop(s)
      BY <1>1, <3>1 DEF Open, Drop, Closing, SocketRecord
    <3>2. CASE Ack(s)
      BY <1>1, <1>2, <3>2 DEF Ack, Closing, TransportRecord, SocketRecord
    <3> QED BY <1>5, <3>1, <3>2
  <2>2. \A t \in Sockets : Closing(t) => Closing(t)'
    BY <1>3, <2>1 DEF Closing
  <2>3. ASSUME NEW m \in made', Looping(m)'
        PROVE  transport'[m].waiting \/ \E t \in Sockets : socket'[t].owner = m /\ Closing(t)'
    <3>1. m \in made /\ m \in Managers
      BY <1>1
    <3>2. Looping(m) /\ transport'[m].waiting = transport[m].waiting
      BY <1>7, <2>1, <2>3, <3>1
    <3> QED BY <1>3, <2>2, <3>1, <3>2, AliveKept
  <2> QED BY <2>3 DEF AliveInv
<1>6. CASE Closed(s)
  <2> DEFINE o == socket[s].owner
  <2>1. /\ ~transport[o].stopped => transport'[o].waiting
        /\ \A m \in Managers : m # o => transport'[m] = transport[m]
    BY <1>1, <1>2, <1>6 DEF Closed, TransportRecord
  <2>2. ASSUME NEW m \in made', Looping(m)'
        PROVE  transport'[m].waiting \/ \E t \in Sockets : socket'[t].owner = m /\ Closing(t)'
    <3>1. CASE m = o
      BY <1>2, <1>4, <2>1, <2>2, <3>1 DEF Looping
    <3>2. CASE m # o
      <4>1. \A t \in Sockets : Closing(t) /\ socket[t].owner = m =>
              Closing(t)' /\ socket'[t].owner = m
        BY <1>3, <3>2 DEF Closing
      <4>2. m \in made /\ m \in Managers
        BY <1>1
      <4>3. Looping(m) /\ transport'[m].waiting = transport[m].waiting
        BY <1>7, <2>1, <2>2, <3>2, <4>2
      <4> QED BY <4>1, <4>2, <4>3, AliveKept
    <3> QED BY <3>1, <3>2
  <2> QED BY <2>2 DEF AliveInv
<1> QED BY <1>5, <1>6

LEMMA NextAlive == TypeOK /\ TransportInv /\ AliveInv /\ [Next]_vars => AliveInv'
<1> SUFFICES ASSUME TypeOK, TransportInv, AliveInv, [Next]_vars PROVE AliveInv'
  OBVIOUS
<1>1. /\ transport \in [Managers -> TransportRecord] /\ socket \in [Sockets -> SocketRecord]
      /\ made \subseteq Managers
  BY DEF TypeOK, TransportTypeOK
<1>2. CASE UNCHANGED <<transportVars, made>>
  BY <1>2 DEF transportVars, AliveInv, Closing, Looping
<1>3. CASE TransportStep /\ UNCHANGED planeVars
  <2>1. made' = made
    BY <1>3 DEF planeVars
  <2>2. ASSUME NEW s \in Sockets, Open(s) \/ Ack(s) \/ Drop(s) \/ Closed(s) PROVE AliveInv'
    BY <2>1, <2>2, SocketAlive
  <2>3. ASSUME NEW m \in Managers, Retry(m) PROVE AliveInv'
    <3>1. CASE ~transport[m].stopped
      BY <2>1, <2>3, <3>1, ConnectAlive DEF Retry
    <3>2. CASE transport[m].stopped
      <4>1. /\ UNCHANGED socket
            /\ transport'[m].stopped
            /\ \A n \in Managers : n # m => transport'[n] = transport[n]
        BY <1>1, <2>3, <3>2 DEF Retry, TransportRecord
      <4> QED BY <1>1, <2>1, <4>1 DEF AliveInv, Closing, Looping
    <3> QED BY <3>1, <3>2
  <2> QED BY <1>3, <2>2, <2>3 DEF TransportStep
<1>4. ASSUME NEW c \in Calls, StartReturns(c) PROVE AliveInv'
  <2>1. PICK m \in Managers \ made, s \in Sockets : Connect(m, s) /\ made' = made \cup {m}
    BY <1>4 DEF StartReturns
  <2> QED BY <2>1, ConnectAlive
<1>5. ASSUME NEW c \in Calls, Stop(c), manager # None PROVE AliveInv'
  <2>1. manager \in Managers /\ StopTransport(manager) /\ made' = made
    BY <1>1, <1>5 DEF Stop, StopManager, TypeOK
  <2>2. /\ transport'[manager].stopped
        /\ \A n \in Managers : n # manager => transport'[n] = transport[n]
    BY <1>1, <2>1 DEF StopTransport, TransportRecord
  <2>3. \A s \in Sockets : Closing(s) => Closing(s)' /\ socket'[s].owner = socket[s].owner
    BY <1>1, <2>1 DEF StopTransport, Closing, Live, SocketRecord
  <2> QED BY <1>1, <2>1, <2>2, <2>3 DEF AliveInv, Looping
<1>8. ASSUME NEW c \in Calls, StartThrows(c) PROVE AliveInv'
  <2>1. PICK m \in Managers \ made : ConnectThrows(m) /\ made' = made \cup {m}
    BY <1>8 DEF StartThrows
  <2>2. /\ transport'[m].socket = None /\ UNCHANGED socket
        /\ \A n \in Managers : n # m => transport'[n] = transport[n]
    BY <1>1, <2>1 DEF ConnectThrows, TransportInv, LoopInv, NoTransport
  <2> QED BY <1>1, <2>1, <2>2 DEF AliveInv, Closing, Looping
<1>6. ASSUME NEW c \in Calls,
             \/ Start(c) \/ StartFails(c) \/ Cleared(c) \/ StopReturns(c) \/ StopFails(c)
             \/ Stop(c) /\ manager = None
      PROVE  UNCHANGED <<transportVars, made>>
  BY <1>6 DEF Start, StartFails, Cleared, StopReturns, StopFails, Stop
<1>7. CASE UNCHANGED vars
  BY <1>2, <1>7 DEF vars, planeVars
<1> QED BY <1>2, <1>3, <1>4, <1>5, <1>6, <1>7, <1>8 DEF Next, Settles

\* Every transport a host has made has exactly one reconnect loop from its first
\* socket to its stop, and no live socket before or after, for any overlap of starts, stops, drops
\* and late closes: neither a lost connection nor a close reported late can end
\* the loop or start a second one.
THEOREM OneLoopPerTransport == Spec => []OneLoopEach
<1>1. Init => AliveInv
  BY DEF Init, AliveInv
<1>2. TypeOK /\ TransportInv /\ AliveInv => OneLoopEach
  <2> SUFFICES ASSUME TypeOK, TransportInv, AliveInv PROVE OneLoopEach
    OBVIOUS
  <2> DEFINE unfinished(m) == {s \in Sockets : /\ socket[s].owner = m
                                             /\ socket[s].state \notin {"unused", "closed"}}
  <2>1. ASSUME NEW m \in made
        PROVE  /\ \A s, t \in unfinished(m) : s = t
               /\ unfinished(m) # {} => ~transport[m].waiting
               /\ ~Looping(m) => \A s \in unfinished(m) : ~Live(s)
    BY NoneAssumption DEF TransportInv, LoopInv, Closing, Looping
  <2>2. ASSUME NEW m \in made, Looping(m), unfinished(m) = {}
        PROVE  transport[m].waiting
    BY <2>2 DEF AliveInv, Closing
  <2>3. \A m \in made :
          /\ \A s, t \in unfinished(m) : s = t
          /\ Looping(m) => (transport[m].waiting <=> unfinished(m) = {})
          /\ ~Looping(m) => \A s \in unfinished(m) : ~Live(s)
    BY <2>1, <2>2
  <2> QED BY <2>3 DEF OneLoopEach
<1>3. Spec => []AliveInv
  BY <1>1, NextAlive, TransportInductive, PTL DEF Spec
<1> QED BY <1>2, <1>3, TransportInductive, PTL

\* A step that opens no socket and restarts no transport.
Final(m) ==
  transport[m].stopped =>
    /\ transport'[m].stopped
    /\ \A s \in Sockets : socket'[s].owner = m => socket[s].owner = m

LEMMA ConnectFinal ==
  ASSUME TypeOK, NEW n \in Managers, NEW s \in Sockets, Connect(n, s),
         NEW m \in Managers, m # n
  PROVE  Final(m)
BY DEF Connect, TypeOK, TransportTypeOK, Final

\* The step that follows a stop() finds the transport stopped, whichever it is.
LEMMA NextFinal ==
  ASSUME TypeOK, TransportInv, [Next]_vars, NEW m \in made
  PROVE  Final(m)
<1>1. /\ transport \in [Managers -> TransportRecord] /\ socket \in [Sockets -> SocketRecord]
      /\ m \in Managers
  BY DEF TypeOK, TransportTypeOK
<1>2. CASE UNCHANGED transportVars
  BY <1>2 DEF transportVars, Final
<1>3. CASE TransportStep
  <2>1. transport'[m].stopped = transport[m].stopped
    BY <1>1, <1>3, StoppedKept
  <2>2. ASSUME NEW s \in Sockets, Open(s) \/ Ack(s) \/ Drop(s) \/ Closed(s) PROVE Final(m)
    <3>1. \A t \in Sockets : socket'[t].owner = socket[t].owner
      BY <1>1, <2>2 DEF Open, Ack, Drop, Closed, SocketRecord
    <3> QED BY <2>1, <3>1 DEF Final
  <2>3. ASSUME NEW n \in Managers, Retry(n) PROVE Final(m)
    <3>1. CASE transport[n].stopped
      BY <2>1, <2>3, <3>1 DEF Retry, Final
    <3>2. CASE ~transport[n].stopped
      <4>1. \E s \in Sockets : Connect(n, s)
        BY <2>3, <3>2 DEF Retry
      <4>2. CASE n = m
        BY <3>2, <4>2 DEF Final
      <4>3. CASE n # m
        BY <1>1, <4>1, <4>3, ConnectFinal
      <4> QED BY <4>2, <4>3
    <3> QED BY <3>1, <3>2
  <2> QED BY <1>3, <2>2, <2>3 DEF TransportStep
<1>4. ASSUME NEW c \in Calls, StartReturns(c) PROVE Final(m)
  BY <1>1, <1>4, ConnectFinal DEF StartReturns
<1>8. ASSUME NEW c \in Calls, StartThrows(c) PROVE Final(m)
  <2>1. PICK n \in Managers \ made : ConnectThrows(n)
    BY <1>8 DEF StartThrows
  <2>2. UNCHANGED socket /\ transport'[m] = transport[m]
    BY <1>1, <2>1 DEF ConnectThrows
  <2> QED BY <2>2 DEF Final
<1>5. ASSUME NEW c \in Calls, Stop(c), manager # None PROVE Final(m)
  <2>1. manager \in Managers /\ StopTransport(manager)
    BY <1>5 DEF Stop, StopManager, TypeOK
  <2>2. /\ transport[m].stopped => transport'[m].stopped
        /\ \A s \in Sockets : socket'[s].owner = socket[s].owner
    BY <1>1, <2>1 DEF StopTransport, TransportRecord, SocketRecord
  <2> QED BY <2>2 DEF Final
<1>6. ASSUME NEW c \in Calls,
             \/ Start(c) \/ StartFails(c) \/ Cleared(c) \/ StopReturns(c) \/ StopFails(c)
             \/ Stop(c) /\ manager = None
      PROVE  UNCHANGED transportVars
  BY <1>6 DEF Start, StartFails, Cleared, StopReturns, StopFails, Stop
<1>7. CASE UNCHANGED vars
  BY <1>2, <1>7 DEF vars
<1> QED BY <1>2, <1>3, <1>4, <1>5, <1>6, <1>7, <1>8 DEF Next, Settles

\* Once stop() has been called on it a transport never runs again and opens no
\* socket, although its timer may still fire and its socket still report.
THEOREM StopIsFinal == Spec => StoppedForGood
<1>1. TypeOK /\ TransportInv /\ [Next]_vars => [\A m \in made : Final(m)]_vars
  BY NextFinal
<1> QED BY <1>1, TransportInductive, PTL DEF Spec, StoppedForGood, Final

=============================================================================
