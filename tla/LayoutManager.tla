---------------------------- MODULE LayoutManager ----------------------------
(***************************************************************************)
(* The host's slot composition: LayoutManager in                           *)
(* packages/runtime/src/layout-manager.ts (ADR-055, 058, 060, 066, 068).   *)
(*                                                                         *)
(* The daemon places experiences at slot addresses.  The manager records   *)
(* the placement in a desired map and converges each address on it.  Every *)
(* operation on an address - bind, clear, provide, release, degrade - goes *)
(* through that address's queue and may wait at an await point: an         *)
(* island's unmount, an adaptor's mount, a send to the daemon.  Placements *)
(* themselves, the callbacks of mounted islands and stop() run at once,    *)
(* between any two of those points.                                        *)
(***************************************************************************)
EXTENDS Naturals, Sequences, FiniteSets

CONSTANTS
  Experiences,      \* experience ids
  Addresses,        \* slot addresses
  Elements,         \* DOM elements that experiences contribute as slots
  Provides,         \* the addresses each experience may contribute
  Targets,          \* the addresses the registry's rules place each one at
  LateCallbacks,    \* whether an island still calls back once it is torn down
  MaxPlacements,    \* bound: placements received from the daemon
  MaxCallbacks,     \* bound: provide, release and error callbacks
  MaxStops,         \* bound: calls of stop()
  None

ASSUME RoutesAssumption ==
  /\ Provides \in [Experiences -> SUBSET Addresses]
  /\ Targets \in [Experiences -> SUBSET Addresses]
ASSUME NoneAssumption == None \notin Experiences \cup Addresses \cup Elements
ASSUME BoundsAssumption ==
  /\ MaxPlacements \in Nat /\ MaxCallbacks \in Nat /\ MaxStops \in Nat
  /\ LateCallbacks \in BOOLEAN

MAX_SLOT_ESCALATIONS == 3

HostElement == "host"   \* an element the host created for the address

ASSUME HostElementAssumption == HostElement # None

(***************************************************************************)
(* State.                                                                  *)
(***************************************************************************)
VARIABLES
  desired,      \* this.desired: address -> experience
  addressOf,    \* this.desiredAddressByExperience
  slots,        \* this.slots
  queue,        \* operations waiting in this.slotOperations, per address
  running,      \* the operation under way at each address
  phase,        \* whether the manager is started, stopping or stopped
  toStop,       \* addresses stop() has still to clear, the current one included
  stopAwaits,   \* the address whose clearing stop() awaits
  live,         \* islands mounted in the DOM at each address (history)
  released,     \* <<experience, address>> of slot objects that left the map
                \* while they still named their experience (history)
  contributed,  \* <<experience, address>> of every provideSlot call (history)
  skipped,      \* addresses where a placement was taken for bound while the
                \* binding was being torn down (history)
  placements, callbacks, stops   \* counters for the bounds

slotVars   == <<slots, queue, running, live, released>>
wantedVars == <<desired, addressOf>>
stopVars   == <<phase, toStop, stopAwaits, stops>>
vars == <<slotVars, wantedVars, stopVars, skipped, contributed, placements,
          callbacks>>

Optional(S) == S \cup {None}

\* An ActiveSlot; NoSlot stands for an address without an entry in the map.
SlotRecord ==
  [element: Optional(Elements \cup {HostElement}), exp: Optional(Experiences),
   mounted: BOOLEAN, owner: Optional(Experiences), provided: SUBSET Addresses,
   state: {"none", "pending", "ready", "error"},
   escalations: 0 .. MAX_SLOT_ESCALATIONS + 1]

NoSlot ==
  [element |-> None, exp |-> None, mounted |-> FALSE, owner |-> None,
   provided |-> {}, state |-> "none", escalations |-> 0]

HostSlot == [NoSlot EXCEPT !.element = HostElement]

ProvidedSlot(el, e) == [NoSlot EXCEPT !.element = el, !.owner = e]

Present(slot) == slot.element # None

Operation ==
  [op: {"reconcile", "unplace", "register", "release", "error", "clear"},
   exp: Optional(Experiences), element: Optional(Elements)]

Op(o, e, el) == [op |-> o, exp |-> e, element |-> el]

\* Where an operation awaits, what it does then, and the experience (and the
\* element) it does it with.  `self` marks a teardown that releases its own
\* slot; `op` is the operation that is under way.
Activity ==
  [at: {"idle", "clearing", "releasing", "mounting", "degrading", "signalling"},
   op: {"none", "reconcile", "unplace", "register", "release", "error", "clear"},
   then: {"done", "bind", "provide"},
   exp: Optional(Experiences), element: Optional(Elements), self: BOOLEAN]

Idle == [at |-> "idle", op |-> "none", then |-> "done", exp |-> None,
         element |-> None, self |-> FALSE]

Busy(o, at, then, e, el) ==
  [at |-> at, op |-> o, then |-> then, exp |-> e, element |-> el, self |-> FALSE]

Init ==
  /\ desired = [a \in Addresses |-> None]
  /\ addressOf = [e \in Experiences |-> None]
  /\ slots = [a \in Addresses |-> NoSlot]
  /\ queue = [a \in Addresses |-> <<>>]
  /\ running = [a \in Addresses |-> Idle]
  /\ phase = "started" /\ toStop = {} /\ stopAwaits = None /\ stops = 0
  /\ live = [a \in Addresses |-> 0]
  /\ released = {} /\ skipped = {} /\ contributed = {}
  /\ placements = 0 /\ callbacks = 0

-----------------------------------------------------------------------------
(***************************************************************************)
(* Placement.  Runs without an await up to the enqueueing of the bind.     *)
(***************************************************************************)

Enqueue(q, a, op) == [q EXCEPT ![a] = Append(@, op)]

\* The fast path: the experience is bound here and did not fail.
TakenForBound(a, e) == slots[a].exp = e /\ slots[a].state # "error"

\* A teardown is under way after which nothing will bind e here again.
TearingDown(a, e) ==
  /\ running[a].at = "clearing"
  /\ \/ running[a].then = "done"
     \/ running[a].then = "bind" /\ running[a].exp # e

\* e is wanted at another address than a.
Moves(e, a) ==
  addressOf[e] \notin {None, a} /\ desired[addressOf[e]] = e

\* The desired map without the entry e moves away from.
Pruned(e, a) ==
  IF Moves(e, a) THEN [desired EXCEPT ![addressOf[e]] = None] ELSE desired

\* The reverse index after the placement: whatever e displaces is forgotten.
\* A mutant: the displaced experience keeps its entry.
Reindexed_KeepsDisplaced(e, a) == [addressOf EXCEPT ![e] = a]

Reindexed(e, a) ==
  LET displaced == desired[a] IN
  [f \in Experiences |->
     IF f = e THEN a
     ELSE IF f = displaced /\ addressOf[f] = a THEN None
     ELSE addressOf[f]]

Place(e, a) ==
  LET unplaced == IF Moves(e, a)
                    THEN Enqueue(queue, addressOf[e], Op("unplace", e, None))
                    ELSE queue
  IN
  /\ phase = "started"
  /\ a \in Targets[e]
  /\ placements < MaxPlacements
  /\ placements' = placements + 1
  /\ desired' = [Pruned(e, a) EXCEPT ![a] = e]
  /\ addressOf' = Reindexed(e, a)
  /\ \/ /\ TakenForBound(a, e)
        /\ queue' = unplaced
        /\ skipped' = IF TearingDown(a, e) THEN skipped \cup {a} ELSE skipped
     \/ /\ ~TakenForBound(a, e)
        /\ queue' = Enqueue(unplaced, a, Op("reconcile", None, None))
        /\ skipped' = skipped \ {a}
  /\ UNCHANGED <<slots, running, live, released, contributed, stopVars,
                 callbacks>>

(***************************************************************************)
(* Callbacks of mounted islands (AdaptorHelpers).                          *)
(***************************************************************************)

\* The slot object an instance of e closed over at a still names e: it is the
\* entry of the map, or one that was released with its experience.
Occupies(e, a) == slots[a].exp = e

CallingBack ==
  /\ callbacks < MaxCallbacks
  /\ callbacks' = callbacks + 1
  /\ UNCHANGED <<slots, running, live, released, wantedVars, stopVars,
                 skipped, placements>>

\* provideSlot(childId, element) from the occupant of a.
ProvideSlot(e, a, x, el) ==
  /\ callbacks < MaxCallbacks
  /\ callbacks' = callbacks + 1
  /\ x \in Provides[e]
  /\ Occupies(e, a)
  /\ ~LateCallbacks => running[a].at \in {"idle", "mounting", "signalling"}
  /\ slots' = [slots EXCEPT ![a].provided = @ \cup {x}]
  /\ queue' = Enqueue(queue, x, Op("register", e, el))
  /\ contributed' = contributed \cup {<<e, x>>}
  /\ UNCHANGED <<running, live, released, wantedVars, stopVars, skipped,
                 placements>>

\* The same call from an island whose slot object was released: the object
\* still carries the experience id, so the stale check lets it through.
LateProvideSlot(e, a, x, el) ==
  /\ LateCallbacks
  /\ x \in Provides[e]
  /\ <<e, a>> \in released
  /\ queue' = Enqueue(queue, x, Op("register", e, el))
  /\ contributed' = contributed \cup {<<e, x>>}
  /\ CallingBack

\* provideSlot(childId, null): never checked against the occupant, so that an
\* island that was torn down can still release what it once contributed.
ReleaseSlot(e, x) ==
  /\ <<e, x>> \in contributed
  /\ queue' = Enqueue(queue, x, Op("release", e, None))
  /\ contributed' = contributed
  /\ CallingBack

\* reportError from the occupant of a, which may be gone when it is handled.
ReportError(e, a) ==
  /\ Occupies(e, a) \/ (LateCallbacks /\ <<e, a>> \in released)
  /\ queue' = Enqueue(queue, a, Op("error", e, None))
  /\ contributed' = contributed
  /\ CallingBack

(***************************************************************************)
(* The steps of an operation, up to its next await point.  q is the queue  *)
(* once the operation has been taken off.                                  *)
(***************************************************************************)

\* A mutant: the unmount handle is called again after it was dropped.
Unmounting_Again(a) == [live EXCEPT ![a] = @ - 1]

Unmounting(a) == [live EXCEPT ![a] = IF slots[a].mounted THEN @ - 1 ELSE @]

\* A mutant of StartClear: the contributed addresses are not released.
StartClear_KeepsProvided(a, o, then, e, el, q) ==
  /\ running' = [running EXCEPT ![a] = Busy(o, "clearing", then, e, el)]
  /\ slots' = [slots EXCEPT ![a].provided = {}]
  /\ queue' = q
  /\ live' = Unmounting(a)
  /\ UNCHANGED released

\* clearSlotNow enqueues a release for each address the slot's experience
\* contributed, and awaits the island's unmount.
StartClear(a, o, then, e, el, q) ==
  LET slot == slots[a] IN
  /\ running' = [running EXCEPT ![a] =
                   [Busy(o, "clearing", then, e, el) EXCEPT !.self =
                      a \in slot.provided /\ slot.exp # None
                                          /\ slot.owner = slot.exp]]
  /\ slots' = [slots EXCEPT ![a].provided = {}]
  /\ queue' = [b \in Addresses |->
                 IF slot.exp # None /\ b \in slot.provided \ {a}
                   THEN Append(q[b], Op("release", slot.exp, None))
                   ELSE q[b]]
  /\ live' = Unmounting(a)
  /\ UNCHANGED released

\* A mutant of Cleared: the unmount function is kept once it has been called.
Cleared_KeepsHandle(a) ==
  IF ~Present(slots[a]) \/ running[a].self THEN NoSlot
  ELSE [slots[a] EXCEPT !.exp = None]

\* What clearSlotNow leaves in the map.
Cleared(a) ==
  IF ~Present(slots[a]) \/ running[a].self THEN NoSlot
  ELSE [slots[a] EXCEPT !.mounted = FALSE, !.exp = None]

\* A mutant of StartRelease: the entry is dropped without its unmount.
StartRelease_NoUnmount(a, o, then, e, el, q) ==
  /\ running' = [running EXCEPT ![a] = Busy(o, "releasing", then, e, el)]
  /\ queue' = q
  /\ UNCHANGED <<slots, live, released>>

StartRelease(a, o, then, e, el, q) ==
  /\ running' = [running EXCEPT ![a] = Busy(o, "releasing", then, e, el)]
  /\ queue' = q
  /\ live' = Unmounting(a)
  /\ UNCHANGED <<slots, released>>

\* A mutant of SetProvided: the provision does not re-bind what is desired.
SetProvided_NoReconcile(a, e, el) ==
  /\ slots' = [slots EXCEPT ![a] = ProvidedSlot(el, e)]
  /\ running' = [running EXCEPT ![a] = Idle]

\* The registered element replaces the entry; reconcileSlotNow then binds the
\* desired experience, if there is one, starting with a clear.
SetProvided(a, e, el) ==
  /\ slots' = [slots EXCEPT ![a] = ProvidedSlot(el, e)]
  /\ running' = [running EXCEPT ![a] =
                   IF desired[a] = None THEN Idle
                   ELSE Busy("register", "clearing", "bind", desired[a], None)]

\* handleSlotError once the island is gone.
Degrade(a, o, e) ==
  LET failures == slots[a].escalations + 1 IN
  /\ slots' = [slots EXCEPT ![a].mounted = FALSE, ![a].state = "error",
                 ![a].escalations = IF failures > MAX_SLOT_ESCALATIONS
                                      THEN MAX_SLOT_ESCALATIONS + 1
                                      ELSE failures]
  /\ running' = [running EXCEPT ![a] =
                   IF failures <= MAX_SLOT_ESCALATIONS
                     THEN Busy(o, "signalling", "done", e, None) ELSE Idle]

Nothing(a, q) ==
  /\ queue' = q
  /\ UNCHANGED <<slots, running, live, released>>

-----------------------------------------------------------------------------
(***************************************************************************)
(* The operations, taken off an address's queue one at a time.             *)
(***************************************************************************)

Takes(a, o) == running[a] = Idle /\ queue[a] # <<>> /\ Head(queue[a]).op = o

Rest(a) == [queue EXCEPT ![a] = Tail(@)]

Untouched ==
  UNCHANGED <<wantedVars, stopVars, skipped, contributed, placements, callbacks>>

\* A mutant of Reconcile: an address that failed re-binds what failed there.
Reconcile_RetriesFailed(a) ==
  /\ Takes(a, "reconcile")
  /\ IF desired[a] = None \/ TakenForBound(a, desired[a])
       THEN Nothing(a, Rest(a))
       ELSE StartClear(a, "reconcile", "bind",
                       IF slots[a].state = "error" /\ slots[a].exp # None
                         THEN slots[a].exp ELSE desired[a], None, Rest(a))
  /\ Untouched

\* reconcileSlotNow
Reconcile(a) ==
  /\ Takes(a, "reconcile")
  /\ IF desired[a] = None \/ TakenForBound(a, desired[a])
       THEN Nothing(a, Rest(a))
       ELSE StartClear(a, "reconcile", "bind", desired[a], None, Rest(a))
  /\ Untouched

\* The operation mountExperience enqueues at the address it moves from.
Unplace(a) ==
  /\ Takes(a, "unplace")
  /\ IF desired[a] # None \/ slots[a].exp # Head(queue[a]).exp
       THEN Nothing(a, Rest(a))
       ELSE StartClear(a, "unplace", "done", None, None, Rest(a))
  /\ Untouched

\* registerProvidedSlot
Register(a) ==
  /\ Takes(a, "register")
  /\ LET e  == Head(queue[a]).exp
         el == Head(queue[a]).element
         previous == slots[a]
     IN
     \/ /\ previous.owner = e /\ previous.element = el
        /\ Nothing(a, Rest(a))
     \/ /\ previous.owner # None
        /\ ~(previous.owner = e /\ previous.element = el)
        /\ StartRelease(a, "register", "provide", e, el, Rest(a))
     \/ /\ Present(previous) /\ previous.owner = None
        /\ StartClear(a, "register", "provide", e, el, Rest(a))
     \/ /\ ~Present(previous)
        /\ SetProvided(a, e, el)
        /\ queue' = Rest(a)
        /\ UNCHANGED <<live, released>>
  /\ Untouched

\* A mutant of Release: whoever asks may release the entry.
Release_Anyone(a) ==
  /\ Takes(a, "release")
  /\ IF ~Present(slots[a]) \/ slots[a].owner = None
       THEN Nothing(a, Rest(a))
       ELSE StartRelease(a, "release", "done", Head(queue[a]).exp, None, Rest(a))
  /\ Untouched

\* releaseProvidedSlot: only the owner of the entry may release it.
Release(a) ==
  /\ Takes(a, "release")
  /\ IF ~Present(slots[a]) \/ slots[a].owner # Head(queue[a]).exp
       THEN Nothing(a, Rest(a))
       ELSE StartRelease(a, "release", "done", Head(queue[a]).exp, None, Rest(a))
  /\ Untouched

\* handleSlotError for a reported error, with its stale-reporter guard.
HandleError(a) ==
  /\ Takes(a, "error")
  /\ LET e == Head(queue[a]).exp IN
     \/ /\ slots[a].exp # e
        /\ Nothing(a, Rest(a))
     \/ /\ slots[a].exp = e /\ slots[a].mounted
        /\ running' = [running EXCEPT ![a] =
                         Busy("error", "degrading", "done", e, None)]
        /\ live' = Unmounting(a)
        /\ queue' = Rest(a)
        /\ UNCHANGED <<slots, released>>
     \/ /\ slots[a].exp = e /\ ~slots[a].mounted
        /\ Degrade(a, "error", e)
        /\ queue' = Rest(a)
        /\ UNCHANGED <<live, released>>
  /\ Untouched

\* A mutant of ClearForStop: it waits for the entry to be there.
ClearForStop_Waits(a) ==
  /\ Takes(a, "clear")
  /\ Present(slots[a])
  /\ StartClear(a, "clear", "done", None, None, Rest(a))
  /\ Untouched

\* The clearing of one address by stop().
ClearForStop(a) ==
  /\ Takes(a, "clear")
  /\ IF Present(slots[a])
       THEN StartClear(a, "clear", "done", None, None, Rest(a))
       ELSE Nothing(a, Rest(a))
  /\ Untouched

(***************************************************************************)
(* The await points.                                                       *)
(***************************************************************************)

\* A mutant of the await in clearSlotNow: it also awaits the releases that are
\* queued at other addresses.
AwaitsOtherQueues(a) ==
  \A b \in Addresses \ {a} :
    \A k \in DOMAIN queue[b] : queue[b][k].op # "release"

UnmountSettled_AwaitsReleases(a) ==
  running[a].at = "clearing" /\ AwaitsOtherQueues(a)

UnmountSettled(a) == running[a].at = "clearing"

\* The unmount of clearSlotNow settled (a failing one is reported, no more).
FinishClear(a) ==
  LET act  == running[a]
      slot == Cleared(a)
  IN
  /\ UnmountSettled(a)
  /\ \/ /\ act.then = "done"
        /\ slots' = [slots EXCEPT ![a] = slot]
        /\ running' = [running EXCEPT ![a] = Idle]
     \/ /\ act.then = "bind"
        /\ slots' = [slots EXCEPT ![a] =
                       [(IF Present(slot) THEN slot ELSE HostSlot)
                          EXCEPT !.exp = act.exp, !.state = "pending"]]
        /\ running' = [running EXCEPT ![a] =
                         Busy(act.op, "mounting", "done", act.exp, None)]
     \/ /\ act.then = "provide"
        /\ SetProvided(a, act.exp, act.element)
  /\ UNCHANGED <<queue, live, released>>
  /\ Untouched

\* The unmount of releaseProvidedSlotNow settled.
FinishRelease(a) ==
  LET act == running[a] IN
  /\ act.at = "releasing"
  /\ released' = IF slots[a].exp = None THEN released
                 ELSE released \cup {<<slots[a].exp, a>>}
  /\ \/ /\ act.then = "done"
        /\ slots' = [slots EXCEPT ![a] = NoSlot]
        /\ running' = [running EXCEPT ![a] = Idle]
     \/ /\ act.then = "provide"
        /\ SetProvided(a, act.exp, act.element)
  /\ UNCHANGED <<queue, live>>
  /\ Untouched

\* The adaptor mounted the island and returned how to unmount it, as every
\* adaptor of the package does (an unmount is optional in the adaptor's type; a
\* host's adaptor that returns none is left out).  The slot object it was given
\* is the map's entry unless stop() has emptied the map meanwhile.
MountSucceeds(a) ==
  /\ running[a].at = "mounting"
  /\ live' = [live EXCEPT ![a] = @ + 1]
  /\ slots' = IF Present(slots[a])
                THEN [slots EXCEPT ![a].mounted = TRUE, ![a].state = "ready",
                                   ![a].escalations = 0]
                ELSE slots
  /\ running' = [running EXCEPT ![a] = Idle]
  /\ UNCHANGED <<queue, released>>
  /\ Untouched

MountFails(a) ==
  /\ running[a].at = "mounting"
  /\ IF slots[a].exp = running[a].exp
       THEN Degrade(a, running[a].op, running[a].exp)
       ELSE /\ running' = [running EXCEPT ![a] = Idle]
            /\ UNCHANGED slots
  /\ UNCHANGED <<queue, live, released>>
  /\ Untouched

\* The failed island's unmount settled.
FinishDegrade(a) ==
  /\ running[a].at = "degrading"
  /\ IF Present(slots[a])
       THEN Degrade(a, running[a].op, running[a].exp)
       ELSE /\ running' = [running EXCEPT ![a] = Idle]
            /\ UNCHANGED slots
  /\ UNCHANGED <<queue, live, released>>
  /\ Untouched

\* The SLOT_ERROR action was sent, or could not be.
SignalSettles(a) ==
  /\ running[a].at = "signalling"
  /\ running' = [running EXCEPT ![a] = Idle]
  /\ UNCHANGED <<slots, queue, live, released>>
  /\ Untouched

(***************************************************************************)
(* stop() and a later start().                                             *)
(***************************************************************************)

UnchangedByStop ==
  UNCHANGED <<running, live, skipped, contributed, placements, callbacks>>

Stop ==
  /\ phase = "started"
  /\ stops < MaxStops
  /\ stops' = stops + 1
  /\ phase' = "stopping"
  /\ toStop' = {a \in Addresses : Present(slots[a])}
  /\ UNCHANGED <<slots, queue, released, stopAwaits, wantedVars>>
  /\ UnchangedByStop

StopClears(a) ==
  /\ phase = "stopping" /\ stopAwaits = None
  /\ a \in toStop
  /\ stopAwaits' = a
  /\ queue' = Enqueue(queue, a, Op("clear", None, None))
  /\ UNCHANGED <<slots, released, phase, toStop, stops, wantedVars>>
  /\ UnchangedByStop

\* The clearing that stop() awaits has ended.
StopResumes(a) ==
  /\ stopAwaits = a
  /\ running[a].op # "clear"
  /\ \A k \in DOMAIN queue[a] : queue[a][k].op # "clear"
  /\ stopAwaits' = None
  /\ toStop' = toStop \ {a}
  /\ UNCHANGED <<slots, queue, released, phase, stops, wantedVars>>
  /\ UnchangedByStop

StopFinishes ==
  /\ phase = "stopping" /\ toStop = {}
  /\ phase' = "stopped"
  /\ slots' = [a \in Addresses |-> NoSlot]
  /\ desired' = [a \in Addresses |-> None]
  /\ addressOf' = [e \in Experiences |-> None]
  /\ released' = released \cup
       {<<slots[a].exp, a>> : a \in {b \in Addresses : slots[b].exp # None}}
  /\ UNCHANGED <<queue, toStop, stopAwaits, stops>>
  /\ UnchangedByStop

Start ==
  /\ phase = "stopped"
  /\ phase' = "started"
  /\ UNCHANGED <<slots, queue, released, toStop, stopAwaits, stops, wantedVars>>
  /\ UnchangedByStop

-----------------------------------------------------------------------------
Operate(a) ==
  \/ Reconcile(a) \/ Unplace(a) \/ Register(a) \/ Release(a)
  \/ HandleError(a) \/ ClearForStop(a)
  \/ FinishClear(a) \/ FinishRelease(a)
  \/ MountSucceeds(a) \/ MountFails(a)
  \/ FinishDegrade(a) \/ SignalSettles(a)

StopStep ==
  \/ \E a \in Addresses : StopClears(a) \/ StopResumes(a)
  \/ StopFinishes

Environment ==
  \/ \E e \in Experiences, a \in Addresses :
       \/ Place(e, a)
       \/ ReportError(e, a)
       \/ ReleaseSlot(e, a)
       \/ \E x \in Addresses, el \in Elements :
            ProvideSlot(e, a, x, el) \/ LateProvideSlot(e, a, x, el)
  \/ Stop
  \/ Start

Next ==
  \/ \E a \in Addresses : Operate(a)
  \/ StopStep
  \/ Environment

\* Mounts, unmounts and sends are assumed to settle; the queue runs the next
\* operation of an address as soon as the one before has settled.
Fairness ==
  /\ \A a \in Addresses : WF_vars(Operate(a))
  /\ WF_vars(StopStep)

Spec == Init /\ [][Next]_vars
FairSpec == Spec /\ Fairness

-----------------------------------------------------------------------------
(***************************************************************************)
(* Properties.                                                             *)
(***************************************************************************)

\* The types of the variables.
TypeOK ==
  /\ desired \in [Addresses -> Optional(Experiences)]
  /\ addressOf \in [Experiences -> Optional(Addresses)]
  /\ slots \in [Addresses -> SlotRecord]
  /\ queue \in [Addresses -> Seq(Operation)]
  /\ running \in [Addresses -> Activity]
  /\ phase \in {"started", "stopping", "stopped"}
  /\ toStop \in SUBSET Addresses
  /\ stopAwaits \in Optional(Addresses)
  /\ live \in [Addresses -> Nat]
  /\ released \in SUBSET (Experiences \X Addresses)
  /\ skipped \in SUBSET Addresses
  /\ contributed \in SUBSET (Experiences \X Addresses)
  /\ placements \in Nat /\ callbacks \in Nat /\ stops \in Nat

\* The two maps of placements agree: an experience is desired at exactly the
\* address the reverse index gives it, so an id never occupies two addresses
\* of the desired composition (ADR-066), however placements displace and chase
\* each other.
IndexConsistent ==
  \A e \in Experiences, a \in Addresses :
    addressOf[e] = a <=> desired[a] = e

\* Serialization leaks no island: an address shows at most one, and it is the
\* one whose unmount the slot holds, except while that unmount is under way
\* (ADR-066: a superseded mount is torn down by the queue, never leaked).
NoIslandLeaks ==
  \A a \in Addresses :
    live[a] = IF /\ slots[a].mounted
                 /\ running[a].at \notin {"clearing", "releasing", "degrading"}
                THEN 1 ELSE 0

Quiet(a) == running[a] = Idle /\ queue[a] = <<>>

\* When nothing is under way at an address that has an element, it shows the
\* experience the daemon wants there, in whatever order placements, provisions
\* and failures came, and also after a stop and a new start - unless the replay
\* fast path took it for bound while its binding was being torn down, the only
\* way a placement gets lost.
ConvergedUnlessSkipped ==
  phase = "started" => \A a \in Addresses :
    Quiet(a) /\ desired[a] # None /\ Present(slots[a]) /\ a \notin skipped
      => slots[a].exp = desired[a]

\* ADR-066: the client converges on the desired composition map.
Converged ==
  \A a \in Addresses :
    Quiet(a) /\ desired[a] # None /\ Present(slots[a])
      => slots[a].exp = desired[a]

\* ADR-066: re-placing an experience clears its old binding, so an experience
\* occupies at most one address.  Placements lost to the fast path are left
\* to Converged.
OneAddressPerExperience ==
  skipped = {} /\ (\A a \in Addresses : Quiet(a)) =>
    \A a, b \in Addresses :
      slots[a].exp # None /\ slots[a].exp = slots[b].exp => a = b

\* ADR-058: clearing or replacing an experience releases the slots it provided,
\* so the host never routes into elements of an experience that is gone.
ProvidersPresent ==
  (\A a \in Addresses : Quiet(a)) =>
    \A x \in Addresses :
      slots[x].owner # None => \E a \in Addresses : slots[a].exp = slots[x].owner

\* stop() completes once the mounts, unmounts and sends under way settle,
\* whatever callbacks come in meanwhile.
StopCompletes == phase = "stopping" ~> phase = "stopped"

\* A clearing in a queue belongs to the stop() that awaits it, and to none
\* before: stop() waits for it to end, whatever is queued at the address
\* meanwhile, so that no clearing is left to tear down what a later start()
\* mounts there.
NoClearOutlivesStop ==
  \A a \in Addresses :
    running[a].op = "clear" \/ (\E k \in DOMAIN queue[a] : queue[a][k].op = "clear")
      => phase = "stopping" /\ stopAwaits = a

\* ADR-068: a stale provider instance releases only what it still owns.  When
\* a requested release takes an entry out of the map, the entry belongs to the
\* instance that asked, though registrations and teardowns came in between.
ReleasedByOwner ==
  [][\A x \in Addresses :
       running[x].at = "releasing" /\ running[x].op = "release"
         /\ slots[x].owner # None /\ slots'[x].owner = None
         => slots[x].owner = running[x].exp]_vars

\* The layout manager implements the abstract placement.
Placement == INSTANCE SlotPlacement WITH
  wanted <- desired,
  intent <- [a \in Addresses |->
               IF running[a].at = "clearing" /\ running[a].then = "bind"
                 THEN running[a].exp ELSE None],
  shown  <- [a \in Addresses |-> slots[a].exp]

\* An address never shows an experience that was not wanted there when its
\* bind started, whatever is placed, provided, released or fails meanwhile.
ImplementsPlacement == Placement!Spec

\* The islands at an address: being mounted, on screen, or both at once.
IslandAt(a) ==
  LET mounting == running[a].at = "mounting" IN
  CASE ~mounting /\ live[a] = 0 -> [at |-> "empty"]
    []  mounting /\ live[a] = 0 -> [at |-> "mounting", exp |-> slots[a].exp]
    [] ~mounting /\ live[a] = 1 -> [at |-> "mounted", exp |-> slots[a].exp]
    [] OTHER -> [at |-> "overlapping"]

\* The layout manager keeps its promise to the adaptors for as long as it is
\* not stopped: what is mounted at an address is unmounted, once, before anything
\* is mounted there again, though operations are queued, displaced and overtaken
\* by callbacks while it is being mounted or torn down.
Islands == INSTANCE IslandCycle WITH
  island <- [a \in Addresses |-> IF stops = 0 THEN IslandAt(a) ELSE [at |-> "empty"]]

ImplementsIslands == Islands!Spec

\* Every queue drains: no operation waits for another address's queue, however
\* provisions nest or form cycles.
QueuesDrain == \A a \in Addresses : []<>(Quiet(a))

=============================================================================
