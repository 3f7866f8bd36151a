---------------------------- MODULE ControlPlane ----------------------------
(***************************************************************************)
(* The control plane of a host (packages/runtime/src/base-control-plane.ts) *)
(* over the transports of LayoutTransport: start() and stop() and the      *)
(* layout managers they make and tear down.                                *)
(*                                                                         *)
(* doStart and doStop are the concrete plane's; they and the teardown of   *)
(* the slots are awaited, and one action runs from await to await.  The    *)
(* host may call start() and stop() at any time.  The code orders nothing  *)
(* between a start() and another call, so that what it promises is stated  *)
(* for a host that is orderly: it calls start() when the plane does not    *)
(* run and nothing is in flight, and waits for it to settle.               *)
(***************************************************************************)
EXTENDS LayoutTransport

CONSTANT Calls   \* calls of start() and stop() in flight at a time

VARIABLES
  status,     \* _status
  manager,    \* _layoutManager
  made,       \* the managers made so far
  call,       \* the await each call is suspended at
  orderly     \* the host has been orderly so far

planeVars == <<status, manager, made, call, orderly>>
vars == <<transportVars, planeVars>>

Statuses == {"idle", "starting", "running", "stopping", "stopped", "error"}
Awaits == {"none", "doStart", "clear", "doStop"}

InFlight(c) == call[c] # "none"

Init ==
  /\ TransportInit
  /\ status = "idle"
  /\ manager = None
  /\ made = {}
  /\ call = [c \in Calls |-> "none"]
  /\ orderly = TRUE

Goes(c, await) == call' = [call EXCEPT ![c] = await]

-----------------------------------------------------------------------------
\* A mutant of Start: the manager is wired before the daemon is there.
Start_WiresFirst(c) ==
  /\ ~InFlight(c)
  /\ made # Managers
  /\ status' = "starting"
  /\ manager' \in Managers \ made
  /\ Goes(c, "doStart")
  /\ orderly' = (orderly /\ status # "running" /\ \A d \in Calls : ~InFlight(d))
  /\ UNCHANGED <<transportVars, made>>

\* start() up to doStart.
Start(c) ==
  /\ ~InFlight(c)
  /\ made # Managers
  /\ status' = "starting"
  /\ Goes(c, "doStart")
  /\ orderly' = (orderly /\ status # "running" /\ \A d \in Calls : ~InFlight(d))
  /\ UNCHANGED <<transportVars, manager, made>>

\* doStart has returned: a new manager with a new transport is started.
StartReturns(c) ==
  /\ call[c] = "doStart"
  /\ \E m \in Managers \ made, s \in Sockets :
       /\ made' = made \cup {m}
       /\ manager' = m
       /\ Connect(m, s)
  /\ status' = "running"
  /\ Goes(c, "none")
  /\ UNCHANGED orderly

\* The transport of the new manager throws when it is started: the plane keeps
\* the manager.
StartThrows(c) ==
  /\ call[c] = "doStart"
  /\ \E m \in Managers \ made :
       /\ made' = made \cup {m}
       /\ manager' = m
       /\ ConnectThrows(m)
  /\ status' = "error"
  /\ Goes(c, "none")
  /\ UNCHANGED orderly

\* doStart, or createTransport, throws: no manager is made.
StartFails(c) ==
  /\ call[c] = "doStart"
  /\ status' = "error"
  /\ Goes(c, "none")
  /\ UNCHANGED <<transportVars, manager, made, orderly>>

\* A mutant of StopManager: the manager is dropped without being stopped.
StopManager_Drops(c) ==
  /\ manager' = None
  /\ Goes(c, "doStop")
  /\ UNCHANGED <<transportVars, made>>

\* LayoutManager.stop() closes the transport and then clears the slots.
StopManager(c) ==
  /\ StopTransport(manager)
  /\ Goes(c, "clear")
  /\ UNCHANGED <<manager, made>>

\* stop(), unless there is nothing to stop.
Stop(c) ==
  /\ ~InFlight(c)
  /\ status \notin {"idle", "stopped"}
  /\ status' = "stopping"
  /\ IF manager # None
       THEN StopManager(c)
       ELSE /\ Goes(c, "doStop")
            /\ UNCHANGED <<transportVars, manager, made>>
  /\ orderly' = (orderly /\ \A d \in Calls : call[d] # "doStart")

\* The slots are cleared: the manager is let go.
Cleared(c) ==
  /\ call[c] = "clear"
  /\ manager' = None
  /\ Goes(c, "doStop")
  /\ UNCHANGED <<transportVars, status, made, orderly>>

StopReturns(c) ==
  /\ call[c] = "doStop"
  /\ status' = "stopped"
  /\ Goes(c, "none")
  /\ UNCHANGED <<transportVars, manager, made, orderly>>

\* doStop throws: the status stays as it is and stop() may be called again.
StopFails(c) ==
  /\ call[c] = "doStop"
  /\ Goes(c, "none")
  /\ UNCHANGED <<transportVars, status, manager, made, orderly>>

Settles(c) ==
  \/ StartReturns(c) \/ StartThrows(c) \/ StartFails(c)
  \/ Cleared(c) \/ StopReturns(c) \/ StopFails(c)

Next ==
  \/ TransportStep /\ UNCHANGED planeVars
  \/ \E c \in Calls : Start(c) \/ Stop(c) \/ Settles(c)

\* Nothing is assumed of the host, nor of doStart and doStop.
Spec == Init /\ [][Next]_vars /\ TransportFairness

-----------------------------------------------------------------------------
TypeOK ==
  /\ TransportTypeOK
  /\ status \in Statuses
  /\ made \subseteq Managers
  /\ manager \in made \cup {None}
  /\ call \in [Calls -> Awaits]
  /\ orderly \in BOOLEAN

\* The host of the control plane "owns exactly one physical connection"
\* (daemon-channel.ts:5): there is at most one socket that is not closed or
\* closing, it is the current manager's, and so is every loop that may open
\* another - through failed starts, failed stops, lost connections and
\* overlapping stops, as long as no start() overlaps anything.
OneConnection ==
  orderly =>
    /\ \A s, t \in Sockets : Live(s) /\ Live(t) => s = t
    /\ \A m \in Managers : Looping(m) => m = manager
    /\ \A s \in Sockets : Live(s) => socket[s].owner = manager

\* The status of the plane is true: it is running exactly when the transport of
\* some manager loops, no connection is alive in any other status - not even
\* after the start of a transport threw half-way, whose manager the plane keeps
\* (base-control-plane.ts:145-160) - and a plane that is stopped keeps nothing.
PlaneStatusTrue ==
  orderly =>
    /\ status = "running" <=> \E m \in Managers : Looping(m)
    /\ status # "running" => \A s \in Sockets : ~Live(s)
    /\ status \in {"idle", "stopped"} => manager = None

\* A transport has one loop and keeps it: from its first socket to its stop,
\* either one of its sockets has yet to report its close or one timer is set,
\* never both, never two and never neither; before and after, no socket of its
\* own is alive.  This is for every host, also one whose starts and stops overlap.
OneLoopEach ==
  LET unfinished(m) == {s \in Sockets : /\ socket[s].owner = m
                                        /\ socket[s].state \notin {"unused", "closed"}} IN
  \A m \in made :
    /\ \A s, t \in unfinished(m) : s = t
    /\ Looping(m) => (transport[m].waiting <=> unfinished(m) = {})
    /\ ~Looping(m) => \A s \in unfinished(m) : ~Live(s)

\* stop() is final for its transport, although it cannot cancel a timer that is
\* set nor the close that is still to be reported: no later step starts the
\* transport again or opens a socket for it (layout-transport.ts:116-120).
StoppedForGood ==
  [][\A m \in made : transport[m].stopped =>
       /\ transport'[m].stopped
       /\ \A s \in Sockets : socket'[s].owner = m => socket[s].owner = m]_vars

=============================================================================
