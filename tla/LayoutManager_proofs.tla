------------------------ MODULE LayoutManager_proofs ------------------------
(***************************************************************************)
(* Theorems about LayoutManager for any experiences, addresses, routes and *)
(* bounds.                                                                 *)
(***************************************************************************)
EXTENDS LayoutManager, TLAPS

(***************************************************************************)
(* The two maps of placements.  Only a placement and the end of stop()     *)
(* touch them, so their agreement is inductive beside their types.         *)
(***************************************************************************)
MapsTyped ==
  /\ desired \in [Addresses -> Optional(Experiences)]
  /\ addressOf \in [Experiences -> Optional(Addresses)]

PlacementInv == MapsTyped /\ IndexConsistent

\* None is neither an experience nor an address.
LEMMA NoneDistinct == None \notin Experiences /\ None \notin Addresses
BY NoneAssumption

\* Init establishes the agreement: both maps are empty.
LEMMA InitPlacement == Init => PlacementInv
BY NoneDistinct DEF Init, PlacementInv, MapsTyped, IndexConsistent, Optional

\* A step of an address's queue leaves both maps alone.
LEMMA OperateKeepsWanted ==
  ASSUME NEW a \in Addresses, Operate(a)
  PROVE  UNCHANGED wantedVars
BY DEF Operate, Reconcile, Unplace, Register, Release, HandleError,
       ClearForStop, FinishClear, FinishRelease, MountSucceeds, MountFails,
       FinishDegrade, SignalSettles, Untouched

\* A step that leaves both maps alone keeps the agreement.
LEMMA UnchangedPlacement ==
  PlacementInv /\ UNCHANGED wantedVars => PlacementInv'
BY DEF PlacementInv, MapsTyped, IndexConsistent, wantedVars

\* A placement keeps the agreement: the address e leaves forgets e, and the
\* experience that e displaces is forgotten in both maps.
LEMMA PlacePlacement ==
  ASSUME PlacementInv, NEW e \in Experiences, NEW a \in Addresses, Place(e, a)
  PROVE  PlacementInv'
<1>1. MapsTyped'
  <2>1. Pruned(e, a) \in [Addresses -> Optional(Experiences)]
    BY DEF Pruned, Moves, PlacementInv, MapsTyped, Optional
  <2>2. Reindexed(e, a) \in [Experiences -> Optional(Addresses)]
    BY DEF Reindexed, PlacementInv, MapsTyped, Optional
  <2> QED
    BY <2>1, <2>2 DEF Place, MapsTyped, Optional
<1>2. ASSUME NEW f \in Experiences, NEW b \in Addresses
      PROVE  addressOf'[f] = b <=> desired'[b] = f
  <2>1. addressOf[f] = b <=> desired[b] = f
    BY DEF PlacementInv, IndexConsistent
  <2>2. addressOf'[f] = IF f = e THEN a
                        ELSE IF f = desired[a] /\ addressOf[f] = a THEN None
                        ELSE addressOf[f]
    BY DEF Place, Reindexed
  <2>3. addressOf[f] = a <=> desired[a] = f
    BY DEF PlacementInv, IndexConsistent
  <2>4. desired'[b] = IF b = a THEN e ELSE Pruned(e, a)[b]
    <3>1. Pruned(e, a) \in [Addresses -> Optional(Experiences)]
      BY DEF Pruned, Moves, PlacementInv, MapsTyped, Optional
    <3> QED
      BY <3>1 DEF Place
  <2>5. CASE b = a
    BY <2>2, <2>3, <2>4, <2>5, NoneDistinct
  <2>6. CASE b # a
    <3>1. addressOf[e] = b <=> desired[b] = e
      BY DEF PlacementInv, IndexConsistent
    <3>2. Pruned(e, a)[b] = IF desired[b] = e THEN None ELSE desired[b]
      BY <3>1, <2>6, NoneDistinct
      DEF Pruned, Moves, PlacementInv, MapsTyped, Optional
    <3>3. CASE f = e
      BY <3>2, <3>3, <2>2, <2>4, <2>6, NoneDistinct
    <3>4. CASE f # e
      BY <3>2, <3>4, <2>1, <2>2, <2>3, <2>4, <2>6, NoneDistinct
    <3> QED
      BY <3>3, <3>4
  <2> QED
    BY <2>5, <2>6
<1> QED
  BY <1>1, <1>2 DEF PlacementInv, IndexConsistent

\* Every step keeps the agreement.
LEMMA NextPlacement == PlacementInv /\ [Next]_vars => PlacementInv'
<1> SUFFICES ASSUME PlacementInv, [Next]_vars
             PROVE  PlacementInv'
  OBVIOUS
<1>1. CASE \E a \in Addresses : Operate(a)
  BY <1>1, OperateKeepsWanted, UnchangedPlacement
<1>2. CASE StopStep
  <2>1. CASE \E a \in Addresses : StopClears(a) \/ StopResumes(a)
    <3>1. UNCHANGED wantedVars
      BY <2>1 DEF StopClears, StopResumes, wantedVars
    <3> QED
      BY <3>1, UnchangedPlacement
  <2>2. CASE StopFinishes
    BY <2>2, NoneDistinct
    DEF StopFinishes, PlacementInv, MapsTyped, IndexConsistent, Optional
  <2> QED
    BY <1>2, <2>1, <2>2 DEF StopStep
<1>3. CASE Environment
  <2>1. ASSUME NEW e \in Experiences, NEW a \in Addresses, Place(e, a)
        PROVE  PlacementInv'
    BY <2>1, PlacePlacement
  <2>2. ASSUME NEW e \in Experiences, NEW a \in Addresses,
               \/ ReportError(e, a) \/ ReleaseSlot(e, a)
               \/ \E x \in Addresses, el \in Elements :
                    ProvideSlot(e, a, x, el) \/ LateProvideSlot(e, a, x, el)
        PROVE  PlacementInv'
    <3>1. UNCHANGED wantedVars
      BY <2>2
      DEF ReportError, ReleaseSlot, ProvideSlot, LateProvideSlot, CallingBack
    <3> QED
      BY <3>1, UnchangedPlacement
  <2>3. CASE Stop \/ Start
    <3>1. UNCHANGED wantedVars
      BY <2>3 DEF Stop, Start
    <3> QED
      BY <3>1, UnchangedPlacement
  <2> QED
    BY <1>3, <2>1, <2>2, <2>3 DEF Environment
<1>4. CASE UNCHANGED vars
  BY <1>4, UnchangedPlacement DEF vars
<1> QED
  BY <1>1, <1>2, <1>3, <1>4 DEF Next

\* ADR-066: an experience is wanted at no more than one address, and the
\* reverse index finds it, whatever is placed, displaced, moved or stopped.
THEOREM PlacementIndexConsistent == Spec => []IndexConsistent
<1>1. Init => PlacementInv
  BY InitPlacement
<1>2. PlacementInv /\ [Next]_vars => PlacementInv'
  BY NextPlacement
<1>3. PlacementInv => IndexConsistent
  BY DEF PlacementInv
<1> QED
  BY <1>1, <1>2, <1>3, PTL DEF Spec

-----------------------------------------------------------------------------
(***************************************************************************)
(* Types.  An island is counted before its unmount is called, so `live`    *)
(* never goes below zero.                                                  *)
(***************************************************************************)
Unmounts == {"clearing", "releasing", "degrading"}

IslandInv ==
  \A a \in Addresses : slots[a].mounted =>
    /\ Present(slots[a])
    /\ running[a].at \notin Unmounts => live[a] > 0

\* The variables that an operation of an address changes.
OperationTypes ==
  /\ slots \in [Addresses -> SlotRecord]
  /\ queue \in [Addresses -> Seq(Operation)]
  /\ running \in [Addresses -> Activity]
  /\ live \in [Addresses -> Nat]
  /\ released \in SUBSET (Experiences \X Addresses)

LEMMA RecordsTyped ==
  /\ NoSlot \in SlotRecord /\ HostSlot \in SlotRecord /\ Idle \in Activity
  /\ \A el \in Optional(Elements), e \in Optional(Experiences) : ProvidedSlot(el, e) \in SlotRecord
  /\ \A o \in {"reconcile", "unplace", "register", "release", "error", "clear"},
        e \in Optional(Experiences), el \in Optional(Elements) : Op(o, e, el) \in Operation
<1>1. 0 \in 0 .. MAX_SLOT_ESCALATIONS + 1
  BY DEF MAX_SLOT_ESCALATIONS
<1> QED
  BY <1>1 DEF NoSlot, HostSlot, ProvidedSlot, SlotRecord, Idle, Activity, Optional, Op, Operation

LEMMA BusyTyped ==
  ASSUME NEW o \in {"none"} \cup {"reconcile", "unplace", "register", "release", "error", "clear"},
         NEW at \in {"clearing", "releasing", "mounting", "degrading", "signalling"},
         NEW then \in {"done", "bind", "provide"},
         NEW e \in Optional(Experiences), NEW el \in Optional(Elements)
  PROVE  /\ Busy(o, at, then, e, el) \in Activity
         /\ \A s \in BOOLEAN : [Busy(o, at, then, e, el) EXCEPT !.self = s] \in Activity
BY DEF Busy, Activity

\* The operation that is taken off a queue is an operation, and so is the rest.
LEMMA TakenTyped ==
  ASSUME OperationTypes, NEW a \in Addresses, NEW o, Takes(a, o)
  PROVE  /\ Head(queue[a]) \in Operation
         /\ Rest(a) \in [Addresses -> Seq(Operation)]
         /\ running[a] = Idle /\ running[a].at = "idle"
         /\ Head(queue[a]).exp \in Optional(Experiences)
         /\ Head(queue[a]).element \in Optional(Elements)
<1>1. queue[a] \in Seq(Operation) /\ queue[a] # <<>>
  BY DEF OperationTypes, Takes
<1>2. Head(queue[a]) \in Operation /\ Tail(queue[a]) \in Seq(Operation)
  BY <1>1
<1>3. Rest(a) \in [Addresses -> Seq(Operation)]
  BY <1>2 DEF OperationTypes, Rest
<1>4. running[a] = Idle /\ Idle.at = "idle"
  BY DEF Takes, Idle
<1> QED BY <1>2, <1>3, <1>4 DEF Operation

\* The island of a slot is counted: its unmount leaves a number.
LEMMA UnmountingTyped ==
  ASSUME OperationTypes, IslandInv, NEW a \in Addresses, running[a].at \notin Unmounts
  PROVE  /\ Unmounting(a) \in [Addresses -> Nat]
         /\ \A b \in Addresses \ {a} : Unmounting(a)[b] = live[b]
<1>1. live \in [Addresses -> Nat] /\ (slots[a].mounted => live[a] > 0)
  BY DEF OperationTypes, IslandInv
<1>2. (IF slots[a].mounted THEN live[a] - 1 ELSE live[a]) \in Nat
  BY <1>1
<1> QED BY <1>1, <1>2 DEF Unmounting

LEMMA NothingTyped ==
  ASSUME OperationTypes, IslandInv, NEW a \in Addresses,
         NEW q \in [Addresses -> Seq(Operation)], Nothing(a, q)
  PROVE  OperationTypes' /\ IslandInv'
BY DEF OperationTypes, IslandInv, Nothing

LEMMA StartClearTyped ==
  ASSUME OperationTypes, IslandInv, NEW a \in Addresses, running[a].at \notin Unmounts,
         NEW o \in {"reconcile", "unplace", "register", "release", "error", "clear"},
         NEW then \in {"done", "bind", "provide"},
         NEW e \in Optional(Experiences), NEW el \in Optional(Elements),
         NEW q \in [Addresses -> Seq(Operation)], StartClear(a, o, then, e, el, q)
  PROVE  OperationTypes' /\ IslandInv'
<1>1. slots' \in [Addresses -> SlotRecord]
  <2>1. slots[a] \in SlotRecord
    BY DEF OperationTypes
  <2>2. [slots[a] EXCEPT !.provided = {}] \in SlotRecord
    BY <2>1 DEF SlotRecord
  <2> QED BY <2>2 DEF StartClear, OperationTypes
<1>2. queue' \in [Addresses -> Seq(Operation)]
  <2>1. Op("release", slots[a].exp, None) \in Operation
    BY RecordsTyped DEF OperationTypes, SlotRecord, Optional
  <2>2. \A b \in Addresses : Append(q[b], Op("release", slots[a].exp, None)) \in Seq(Operation)
    BY <2>1
  <2> QED BY <2>2 DEF StartClear
<1>3. running' \in [Addresses -> Activity] /\ running'[a].at = "clearing"
      /\ \A b \in Addresses \ {a} : running'[b] = running[b]
  <2> DEFINE s == a \in slots[a].provided /\ slots[a].exp # None /\ slots[a].owner = slots[a].exp
  <2>1. running' = [running EXCEPT ![a] = [Busy(o, "clearing", then, e, el) EXCEPT !.self = s]]
    BY DEF StartClear
  <2>2. [Busy(o, "clearing", then, e, el) EXCEPT !.self = s] \in Activity
    BY BusyTyped
  <2>3. [Busy(o, "clearing", then, e, el) EXCEPT !.self = s].at = "clearing"
    BY DEF Busy
  <2> HIDE DEF s
  <2> QED BY <2>1, <2>2, <2>3 DEF OperationTypes
<1>4. /\ live' \in [Addresses -> Nat] /\ \A b \in Addresses \ {a} : live'[b] = live[b]
      /\ released' = released
  BY UnmountingTyped DEF StartClear
<1>5. \A b \in Addresses : slots'[b].mounted = slots[b].mounted
                           /\ slots'[b].element = slots[b].element
  BY DEF StartClear, OperationTypes, SlotRecord
<1> QED BY <1>1, <1>2, <1>3, <1>4, <1>5 DEF OperationTypes, IslandInv, Present, Unmounts

LEMMA StartReleaseTyped ==
  ASSUME OperationTypes, IslandInv, NEW a \in Addresses, running[a].at \notin Unmounts,
         NEW o \in {"reconcile", "unplace", "register", "release", "error", "clear"},
         NEW then \in {"done", "bind", "provide"},
         NEW e \in Optional(Experiences), NEW el \in Optional(Elements),
         NEW q \in [Addresses -> Seq(Operation)], StartRelease(a, o, then, e, el, q)
  PROVE  OperationTypes' /\ IslandInv'
<1>1. Busy(o, "releasing", then, e, el) \in Activity /\ Busy(o, "releasing", then, e, el).at = "releasing"
  BY BusyTyped DEF Busy
<1>2. running' \in [Addresses -> Activity] /\ running'[a].at = "releasing"
      /\ \A b \in Addresses \ {a} : running'[b] = running[b]
  BY <1>1 DEF StartRelease, OperationTypes
<1> QED BY <1>2, UnmountingTyped DEF StartRelease, OperationTypes, IslandInv, Unmounts

LEMMA SetProvidedTyped ==
  ASSUME OperationTypes, IslandInv, MapsTyped, NEW a \in Addresses,
         NEW e \in Optional(Experiences), NEW el \in Optional(Elements), SetProvided(a, e, el),
         UNCHANGED live
  PROVE  /\ slots' \in [Addresses -> SlotRecord] /\ running' \in [Addresses -> Activity]
         /\ IslandInv'
<1>1. slots' \in [Addresses -> SlotRecord] /\ ~slots'[a].mounted
      /\ \A b \in Addresses \ {a} : slots'[b] = slots[b]
  BY RecordsTyped DEF SetProvided, OperationTypes, ProvidedSlot, NoSlot
<1>2. desired[a] \in Optional(Experiences)
  BY DEF MapsTyped
<1>3. running' \in [Addresses -> Activity] /\ \A b \in Addresses \ {a} : running'[b] = running[b]
  <2>1. Busy("register", "clearing", "bind", desired[a], None) \in Activity
    BY <1>2, BusyTyped DEF Optional
  <2> QED BY <2>1, RecordsTyped DEF SetProvided, OperationTypes
<1> QED BY <1>1, <1>3 DEF IslandInv

LEMMA DegradeTyped ==
  ASSUME OperationTypes, IslandInv, NEW a \in Addresses,
         NEW o \in {"none"} \cup {"reconcile", "unplace", "register", "release", "error", "clear"},
         NEW e \in Optional(Experiences), Degrade(a, o, e), UNCHANGED live
  PROVE  /\ slots' \in [Addresses -> SlotRecord] /\ running' \in [Addresses -> Activity]
         /\ IslandInv'
<1> DEFINE failures == slots[a].escalations + 1
           counted == IF failures > MAX_SLOT_ESCALATIONS THEN MAX_SLOT_ESCALATIONS + 1 ELSE failures
           s == [slots[a] EXCEPT !.mounted = FALSE, !.state = "error", !.escalations = counted]
<1>1. slots[a] \in SlotRecord
  BY DEF OperationTypes
<1>2. counted \in 0 .. MAX_SLOT_ESCALATIONS + 1
  BY <1>1 DEF SlotRecord, MAX_SLOT_ESCALATIONS
<1>3. s \in SlotRecord /\ ~s.mounted
  <2> HIDE DEF counted
  <2> QED BY <1>1, <1>2 DEF SlotRecord
<1>4. slots' = [slots EXCEPT ![a] = s]
  BY <1>1 DEF Degrade, OperationTypes
<1>5. slots' \in [Addresses -> SlotRecord] /\ ~slots'[a].mounted
      /\ \A b \in Addresses \ {a} : slots'[b] = slots[b]
  <2> HIDE DEF s
  <2> QED BY <1>3, <1>4 DEF OperationTypes
<1>6. running' \in [Addresses -> Activity] /\ \A b \in Addresses \ {a} : running'[b] = running[b]
  <2>1. Busy(o, "signalling", "done", e, None) \in Activity
    BY BusyTyped DEF Optional
  <2> QED BY <2>1, RecordsTyped DEF Degrade, OperationTypes
<1> QED BY <1>5, <1>6 DEF IslandInv

\* The operations that are taken off a queue.
LEMMA TakesTyped ==
  ASSUME OperationTypes, IslandInv, MapsTyped, NEW a \in Addresses,
         Reconcile(a) \/ Unplace(a) \/ Register(a) \/ Release(a) \/ HandleError(a) \/ ClearForStop(a)
  PROVE  OperationTypes' /\ IslandInv'
<1> DEFINE ops == {"reconcile", "unplace", "register", "release", "error", "clear"}
<1>1. PICK o \in ops : Takes(a, o)
  BY DEF Reconcile, Unplace, Register, Release, HandleError, ClearForStop
<1>2. /\ Rest(a) \in [Addresses -> Seq(Operation)]
      /\ Head(queue[a]).exp \in Optional(Experiences)
      /\ Head(queue[a]).element \in Optional(Elements)
      /\ running[a].at \notin Unmounts
  BY <1>1, TakenTyped DEF Unmounts
<1>3. None \in Optional(Experiences) /\ None \in Optional(Elements)
      /\ desired[a] \in Optional(Experiences)
  BY DEF Optional, MapsTyped
<1> USE <1>2, <1>3
<1>4. CASE Reconcile(a)
  <2>1. \/ Nothing(a, Rest(a))
        \/ StartClear(a, "reconcile", "bind", desired[a], None, Rest(a))
    BY <1>4 DEF Reconcile
  <2> QED BY <2>1, NothingTyped, StartClearTyped
<1>5. CASE Unplace(a)
  <2>1. Nothing(a, Rest(a)) \/ StartClear(a, "unplace", "done", None, None, Rest(a))
    BY <1>5 DEF Unplace
  <2> QED BY <2>1, NothingTyped, StartClearTyped
<1>6. CASE Register(a)
  <2> DEFINE e == Head(queue[a]).exp
             el == Head(queue[a]).element
  <2>1. \/ Nothing(a, Rest(a))
        \/ StartRelease(a, "register", "provide", e, el, Rest(a))
        \/ StartClear(a, "register", "provide", e, el, Rest(a))
        \/ SetProvided(a, e, el) /\ queue' = Rest(a) /\ UNCHANGED <<live, released>>
    BY <1>6 DEF Register
  <2>2. e \in Optional(Experiences) /\ el \in Optional(Elements)
    OBVIOUS
  <2> HIDE DEF e, el
  <2>3. CASE Nothing(a, Rest(a))
    BY <2>3, NothingTyped
  <2>4. CASE StartRelease(a, "register", "provide", e, el, Rest(a))
    BY <2>2, <2>4, StartReleaseTyped
  <2>5. CASE StartClear(a, "register", "provide", e, el, Rest(a))
    BY <2>2, <2>5, StartClearTyped
  <2>6. CASE SetProvided(a, e, el) /\ queue' = Rest(a) /\ UNCHANGED <<live, released>>
    BY <2>2, <2>6, SetProvidedTyped DEF OperationTypes
  <2> QED BY <2>1, <2>3, <2>4, <2>5, <2>6
<1>7. CASE Release(a)
  <2>1. Nothing(a, Rest(a)) \/ StartRelease(a, "release", "done", Head(queue[a]).exp, None, Rest(a))
    BY <1>7 DEF Release
  <2> QED BY <2>1, NothingTyped, StartReleaseTyped
<1>8. CASE HandleError(a)
  <2> DEFINE e == Head(queue[a]).exp
  <2>1. \/ Nothing(a, Rest(a))
        \/ /\ running' = [running EXCEPT ![a] = Busy("error", "degrading", "done", e, None)]
           /\ live' = Unmounting(a) /\ queue' = Rest(a) /\ UNCHANGED <<slots, released>>
        \/ Degrade(a, "error", e) /\ queue' = Rest(a) /\ UNCHANGED <<live, released>>
    BY <1>8 DEF HandleError
  <2>2. CASE /\ running' = [running EXCEPT ![a] = Busy("error", "degrading", "done", e, None)]
             /\ live' = Unmounting(a) /\ queue' = Rest(a) /\ UNCHANGED <<slots, released>>
    <3>1. Busy("error", "degrading", "done", e, None) \in Activity
          /\ Busy("error", "degrading", "done", e, None).at = "degrading"
      BY BusyTyped DEF Busy
    <3>2. running' \in [Addresses -> Activity] /\ running'[a].at = "degrading"
          /\ \A b \in Addresses \ {a} : running'[b] = running[b]
      BY <2>2, <3>1 DEF OperationTypes
    <3> QED BY <2>2, <3>2, UnmountingTyped DEF OperationTypes, IslandInv, Unmounts
  <2>3. CASE Degrade(a, "error", e) /\ queue' = Rest(a) /\ UNCHANGED <<live, released>>
    BY <2>3, DegradeTyped DEF OperationTypes
  <2>4. CASE Nothing(a, Rest(a))
    BY <2>4, NothingTyped
  <2> QED BY <2>1, <2>2, <2>3, <2>4
<1>9. CASE ClearForStop(a)
  <2>1. Nothing(a, Rest(a)) \/ StartClear(a, "clear", "done", None, None, Rest(a))
    BY <1>9 DEF ClearForStop
  <2> QED BY <2>1, NothingTyped, StartClearTyped
<1> QED BY <1>4, <1>5, <1>6, <1>7, <1>8, <1>9

\* The steps after an await.
LEMMA FinishesTyped ==
  ASSUME OperationTypes, IslandInv, MapsTyped, NEW a \in Addresses,
         \/ FinishClear(a) \/ FinishRelease(a) \/ MountSucceeds(a) \/ MountFails(a)
         \/ FinishDegrade(a) \/ SignalSettles(a)
  PROVE  OperationTypes' /\ IslandInv'
<1>1. /\ running[a] \in Activity /\ slots[a] \in SlotRecord
      /\ running[a].exp \in Optional(Experiences) /\ running[a].element \in Optional(Elements)
      /\ running[a].op \in {"none"} \cup {"reconcile", "unplace", "register", "release", "error", "clear"}
  BY DEF OperationTypes, Activity
<1>2. ASSUME running' = [running EXCEPT ![a] = Idle]
      PROVE  running' \in [Addresses -> Activity]
             /\ \A b \in Addresses \ {a} : running'[b] = running[b]
  BY <1>2, RecordsTyped DEF OperationTypes
<1>3. CASE FinishClear(a)
  <2>1. Cleared(a) \in SlotRecord /\ ~Cleared(a).mounted
    <3>1. [slots[a] EXCEPT !.mounted = FALSE, !.exp = None] \in SlotRecord
          /\ ~[slots[a] EXCEPT !.mounted = FALSE, !.exp = None].mounted
      BY <1>1 DEF SlotRecord, Optional
    <3>2. NoSlot \in SlotRecord /\ ~NoSlot.mounted
      BY RecordsTyped DEF NoSlot
    <3> QED BY <3>1, <3>2 DEF Cleared
  <2>2. CASE slots' = [slots EXCEPT ![a] = Cleared(a)] /\ running' = [running EXCEPT ![a] = Idle]
    <3>1. slots' \in [Addresses -> SlotRecord] /\ ~slots'[a].mounted
          /\ \A b \in Addresses \ {a} : slots'[b] = slots[b]
      BY <2>1, <2>2 DEF OperationTypes
    <3> QED BY <1>2, <1>3, <2>2, <3>1 DEF FinishClear, OperationTypes, IslandInv
  <2>3. CASE running[a].then = "bind"
    <3> DEFINE base == IF Present(Cleared(a)) THEN Cleared(a) ELSE HostSlot
               s == [base EXCEPT !.exp = running[a].exp, !.state = "pending"]
    <3>1. base \in SlotRecord /\ ~base.mounted
      BY <2>1, RecordsTyped DEF HostSlot, NoSlot
    <3>2. s \in SlotRecord /\ ~s.mounted
      <4> HIDE DEF base
      <4> QED BY <1>1, <3>1 DEF SlotRecord
    <3>3. slots' = [slots EXCEPT ![a] = s]
          /\ running' = [running EXCEPT ![a] = Busy(running[a].op, "mounting", "done", running[a].exp, None)]
      BY <1>3, <2>3 DEF FinishClear
    <3>4. Busy(running[a].op, "mounting", "done", running[a].exp, None) \in Activity
      BY <1>1 DEF Busy, Activity, Optional
    <3>5. slots' \in [Addresses -> SlotRecord] /\ ~slots'[a].mounted
          /\ \A b \in Addresses \ {a} : slots'[b] = slots[b]
      <4> HIDE DEF s
      <4> QED BY <3>2, <3>3 DEF OperationTypes
    <3>6. running' \in [Addresses -> Activity] /\ \A b \in Addresses \ {a} : running'[b] = running[b]
      BY <3>3, <3>4 DEF OperationTypes
    <3> QED BY <1>3, <3>5, <3>6 DEF FinishClear, OperationTypes, IslandInv
  <2>4. CASE SetProvided(a, running[a].exp, running[a].element)
    BY <1>1, <1>3, <2>4, SetProvidedTyped DEF FinishClear, OperationTypes
  <2> QED BY <1>3, <2>2, <2>3, <2>4 DEF FinishClear
<1>4. CASE FinishRelease(a)
  <2>1. released' \in SUBSET (Experiences \X Addresses)
    BY <1>1, <1>4 DEF FinishRelease, OperationTypes, SlotRecord, Optional
  <2>2. CASE slots' = [slots EXCEPT ![a] = NoSlot] /\ running' = [running EXCEPT ![a] = Idle]
    <3>1. slots' \in [Addresses -> SlotRecord] /\ ~slots'[a].mounted
          /\ \A b \in Addresses \ {a} : slots'[b] = slots[b]
      BY <2>2, RecordsTyped DEF OperationTypes, NoSlot
    <3> QED BY <1>2, <1>4, <2>1, <2>2, <3>1 DEF FinishRelease, OperationTypes, IslandInv
  <2>3. CASE SetProvided(a, running[a].exp, running[a].element)
    BY <1>1, <1>4, <2>1, <2>3, SetProvidedTyped DEF FinishRelease, OperationTypes
  <2> QED BY <1>4, <2>2, <2>3 DEF FinishRelease
<1>5. CASE MountSucceeds(a)
  <2>1. live' \in [Addresses -> Nat] /\ live'[a] > 0
        /\ \A b \in Addresses \ {a} : live'[b] = live[b]
    BY <1>5 DEF MountSucceeds, OperationTypes
  <2>2. slots' \in [Addresses -> SlotRecord] /\ \A b \in Addresses \ {a} : slots'[b] = slots[b]
    <3> DEFINE s == [slots[a] EXCEPT !.mounted = TRUE, !.state = "ready", !.escalations = 0]
    <3>1. s \in SlotRecord
      <4>1. 0 \in 0 .. MAX_SLOT_ESCALATIONS + 1
        BY DEF MAX_SLOT_ESCALATIONS
      <4> QED BY <1>1, <4>1 DEF SlotRecord
    <3>2. slots' = [slots EXCEPT ![a] = s] \/ slots' = slots
      BY <1>5 DEF MountSucceeds, OperationTypes
    <3> HIDE DEF s
    <3> QED BY <3>1, <3>2 DEF OperationTypes
  <2>3. slots'[a].mounted => Present(slots'[a])
    <3>1. CASE Present(slots[a])
      <4>1. slots'[a] = [slots[a] EXCEPT !.mounted = TRUE, !.state = "ready", !.escalations = 0]
        BY <1>5, <3>1 DEF MountSucceeds, OperationTypes
      <4>2. slots'[a].element = slots[a].element
        BY <1>1, <4>1 DEF SlotRecord
      <4> QED BY <3>1, <4>2 DEF Present
    <3>2. CASE ~Present(slots[a])
      BY <1>5, <3>2 DEF MountSucceeds, IslandInv
    <3> QED BY <3>1, <3>2
  <2> QED BY <1>2, <1>5, <2>1, <2>2, <2>3 DEF MountSucceeds, OperationTypes, IslandInv
<1>6. ASSUME UNCHANGED <<slots, live, queue, released>>, running' = [running EXCEPT ![a] = Idle],
             running[a].at \notin Unmounts \/ ~slots[a].mounted
      PROVE  OperationTypes' /\ IslandInv'
  BY <1>2, <1>6 DEF OperationTypes, IslandInv
<1>7. CASE MountFails(a)
  <2>1. running[a].at \notin Unmounts
    BY <1>7 DEF MountFails, Unmounts
  <2>2. CASE Degrade(a, running[a].op, running[a].exp)
    BY <1>1, <1>7, <2>2, DegradeTyped DEF MountFails, OperationTypes
  <2> QED BY <1>6, <1>7, <2>1, <2>2 DEF MountFails
<1>8. CASE FinishDegrade(a)
  <2>1. CASE Present(slots[a])
    BY <1>1, <1>8, <2>1, DegradeTyped DEF FinishDegrade, OperationTypes
  <2>2. CASE ~Present(slots[a])
    BY <1>6, <1>8, <2>2 DEF FinishDegrade, IslandInv
  <2> QED BY <2>1, <2>2
<1>9. CASE SignalSettles(a)
  BY <1>6, <1>9 DEF SignalSettles, Unmounts
<1> QED BY <1>3, <1>4, <1>5, <1>7, <1>8, <1>9

\* What the environment and stop() do.
LEMMA EnqueueTyped ==
  ASSUME NEW q \in [Addresses -> Seq(Operation)], NEW a \in Addresses, NEW op \in Operation
  PROVE  Enqueue(q, a, op) \in [Addresses -> Seq(Operation)]
<1>1. Append(q[a], op) \in Seq(Operation)
  OBVIOUS
<1> QED BY <1>1 DEF Enqueue

TypeInv == TypeOK /\ IslandInv

LEMMA QueuedTyped ==
  ASSUME TypeInv, queue' \in [Addresses -> Seq(Operation)],
         UNCHANGED <<slots, running, live, released>>
  PROVE  OperationTypes' /\ IslandInv'
BY DEF TypeInv, TypeOK, OperationTypes, IslandInv

LEMMA EnvironmentTyped ==
  ASSUME TypeInv, PlacementInv', Environment
  PROVE  TypeInv'
<1>1. /\ queue \in [Addresses -> Seq(Operation)] /\ None \in Optional(Experiences)
      /\ None \in Optional(Elements)
      /\ \A e \in Experiences : e \in Optional(Experiences)
      /\ \A el \in Elements : el \in Optional(Elements)
  BY DEF TypeInv, TypeOK, Optional
<1>2. ASSUME NEW e \in Experiences, NEW a \in Addresses, Place(e, a) PROVE TypeInv'
  <2>1. Op("unplace", e, None) \in Operation /\ Op("reconcile", None, None) \in Operation
    BY <1>1, RecordsTyped
  <2> DEFINE unplaced == IF Moves(e, a) THEN Enqueue(queue, addressOf[e], Op("unplace", e, None))
                                        ELSE queue
  <2>2. unplaced \in [Addresses -> Seq(Operation)]
    <3>1. Moves(e, a) => addressOf[e] \in Addresses
      BY DEF Moves, TypeInv, TypeOK, Optional
    <3> QED BY <1>1, <2>1, <3>1, EnqueueTyped
  <2>3. queue' = unplaced \/ queue' = Enqueue(unplaced, a, Op("reconcile", None, None))
    BY <1>2 DEF Place
  <2>4. queue' \in [Addresses -> Seq(Operation)]
    <3> HIDE DEF unplaced
    <3> QED BY <2>1, <2>2, <2>3, EnqueueTyped
  <2>5. OperationTypes' /\ IslandInv'
    BY <1>2, <2>4, QueuedTyped DEF Place
  <2>6. skipped' \in SUBSET Addresses /\ placements' \in Nat
    BY <1>2 DEF Place, TypeInv, TypeOK
  <2>7. UNCHANGED <<contributed, stopVars, callbacks>>
    BY <1>2 DEF Place
  <2> QED
    BY <2>5, <2>6, <2>7 DEF TypeInv, TypeOK, OperationTypes, PlacementInv, MapsTyped, stopVars
<1>3. ASSUME NEW e \in Experiences, NEW a \in Addresses, ReportError(e, a) PROVE TypeInv'
  <2>1. queue' \in [Addresses -> Seq(Operation)]
    BY <1>1, <1>3, RecordsTyped, EnqueueTyped DEF ReportError
  <2>2. OperationTypes' /\ IslandInv'
    BY <1>3, <2>1, QueuedTyped DEF ReportError, CallingBack
  <2> QED
    BY <1>3, <2>2 DEF ReportError, CallingBack, TypeInv, TypeOK, OperationTypes, wantedVars, stopVars
<1>4. ASSUME NEW e \in Experiences, NEW a \in Addresses, ReleaseSlot(e, a) PROVE TypeInv'
  <2>1. queue' \in [Addresses -> Seq(Operation)]
    BY <1>1, <1>4, RecordsTyped, EnqueueTyped DEF ReleaseSlot
  <2>2. OperationTypes' /\ IslandInv'
    BY <1>4, <2>1, QueuedTyped DEF ReleaseSlot, CallingBack
  <2> QED
    BY <1>4, <2>2 DEF ReleaseSlot, CallingBack, TypeInv, TypeOK, OperationTypes, wantedVars, stopVars
<1>5. ASSUME NEW e \in Experiences, NEW a \in Addresses, NEW x \in Addresses, NEW el \in Elements,
             LateProvideSlot(e, a, x, el)
      PROVE  TypeInv'
  <2>1. queue' \in [Addresses -> Seq(Operation)]
    BY <1>1, <1>5, RecordsTyped, EnqueueTyped DEF LateProvideSlot
  <2>2. OperationTypes' /\ IslandInv'
    BY <1>5, <2>1, QueuedTyped DEF LateProvideSlot, CallingBack
  <2> QED
    BY <1>5, <2>2 DEF LateProvideSlot, CallingBack, TypeInv, TypeOK, OperationTypes, wantedVars, stopVars
<1>6. ASSUME NEW e \in Experiences, NEW a \in Addresses, NEW x \in Addresses, NEW el \in Elements,
             ProvideSlot(e, a, x, el)
      PROVE  TypeInv'
  <2>1. queue' \in [Addresses -> Seq(Operation)]
    BY <1>1, <1>6, RecordsTyped, EnqueueTyped DEF ProvideSlot
  <2> DEFINE s == [slots[a] EXCEPT !.provided = @ \cup {x}]
  <2>2. s \in SlotRecord /\ s.mounted = slots[a].mounted /\ s.element = slots[a].element
    <3>1. slots[a] \in SlotRecord
      BY DEF TypeInv, TypeOK
    <3>2. slots[a].provided \cup {x} \in SUBSET Addresses
      BY <3>1 DEF SlotRecord
    <3> QED BY <3>1, <3>2 DEF SlotRecord
  <2>3. slots' = [slots EXCEPT ![a] = s]
    BY <1>6 DEF ProvideSlot, TypeInv, TypeOK
  <2>4. /\ slots' \in [Addresses -> SlotRecord]
        /\ \A b \in Addresses : slots'[b].mounted = slots[b].mounted /\ slots'[b].element = slots[b].element
    <3> HIDE DEF s
    <3> QED BY <2>2, <2>3 DEF TypeInv, TypeOK
  <2>5. IslandInv'
    BY <1>6, <2>4 DEF ProvideSlot, TypeInv, IslandInv, Present
  <2>6. contributed' \in SUBSET (Experiences \X Addresses) /\ callbacks' \in Nat
    BY <1>6 DEF ProvideSlot, CallingBack, TypeInv, TypeOK
  <2>7. UNCHANGED <<running, live, released, wantedVars, stopVars, skipped, placements>>
    BY <1>6 DEF ProvideSlot
  <2> HIDE DEF s
  <2> QED
    BY <2>1, <2>4, <2>5, <2>6, <2>7 DEF TypeInv, TypeOK, wantedVars, stopVars
<1>7. CASE Stop
  BY <1>7 DEF Stop, UnchangedByStop, TypeInv, TypeOK, IslandInv, wantedVars
<1>8. CASE Start
  BY <1>8 DEF Start, UnchangedByStop, TypeInv, TypeOK, IslandInv, wantedVars
<1> QED BY <1>2, <1>3, <1>4, <1>5, <1>6, <1>7, <1>8 DEF Environment

LEMMA StopStepTyped ==
  ASSUME TypeInv, PlacementInv', StopStep
  PROVE  TypeInv'
<1>1. ASSUME NEW a \in Addresses, StopClears(a) PROVE TypeInv'
  <2>1. queue' \in [Addresses -> Seq(Operation)]
    BY <1>1, RecordsTyped, EnqueueTyped DEF StopClears, TypeInv, TypeOK, Optional
  <2> QED
    BY <1>1, <2>1 DEF StopClears, UnchangedByStop, TypeInv, TypeOK, IslandInv, wantedVars, Optional
<1>2. ASSUME NEW a \in Addresses, StopResumes(a) PROVE TypeInv'
  BY <1>2 DEF StopResumes, UnchangedByStop, TypeInv, TypeOK, IslandInv, wantedVars, Optional
<1>3. CASE StopFinishes
  <2>1. slots' \in [Addresses -> SlotRecord] /\ \A a \in Addresses : ~slots'[a].mounted
    BY <1>3, RecordsTyped DEF StopFinishes, NoSlot
  <2>2. released' \in SUBSET (Experiences \X Addresses)
    BY <1>3 DEF StopFinishes, TypeInv, TypeOK, SlotRecord, Optional
  <2> QED
    BY <1>3, <2>1, <2>2 DEF StopFinishes, UnchangedByStop, TypeInv, TypeOK, IslandInv, PlacementInv,
       MapsTyped
<1> QED BY <1>1, <1>2, <1>3 DEF StopStep

LEMMA InitTyped == Init => TypeInv
<1> SUFFICES ASSUME Init PROVE TypeInv
  OBVIOUS
<1>1. MapsTyped
  BY InitPlacement DEF PlacementInv
<1>2. /\ slots \in [Addresses -> SlotRecord] /\ running \in [Addresses -> Activity]
      /\ queue \in [Addresses -> Seq(Operation)]
  BY RecordsTyped DEF Init
<1> QED BY <1>1, <1>2 DEF Init, TypeInv, TypeOK, IslandInv, MapsTyped, Optional, NoSlot

LEMMA NextTyped == TypeInv /\ PlacementInv' /\ [Next]_vars => TypeInv'
<1> SUFFICES ASSUME TypeInv, PlacementInv', [Next]_vars PROVE TypeInv'
  OBVIOUS
<1>1. ASSUME NEW a \in Addresses, Operate(a) PROVE TypeInv'
  <2>1. OperationTypes' /\ IslandInv'
    BY <1>1, TakesTyped, FinishesTyped DEF Operate, TypeInv, TypeOK, OperationTypes, MapsTyped
  <2>2. Untouched
    BY <1>1 DEF Operate, Reconcile, Unplace, Register, Release, HandleError, ClearForStop,
       FinishClear, FinishRelease, MountSucceeds, MountFails, FinishDegrade, SignalSettles
  <2> QED
    BY <2>1, <2>2 DEF Untouched, TypeInv, TypeOK, OperationTypes, wantedVars, stopVars
<1>2. CASE UNCHANGED vars
  BY <1>2 DEF vars, slotVars, wantedVars, stopVars, TypeInv, TypeOK, IslandInv
<1> QED BY <1>1, <1>2, EnvironmentTyped, StopStepTyped DEF Next

\* The types of the slots, the queues, the maps and the histories; the counters
\* of failures and of islands stay in their ranges.
THEOREM LayoutTypesHold == Spec => []TypeOK
<1>1. Init => TypeInv /\ PlacementInv
  BY InitTyped, InitPlacement
<1>2. TypeInv /\ PlacementInv /\ [Next]_vars => TypeInv' /\ PlacementInv'
  BY NextTyped, NextPlacement
<1>3. TypeInv => TypeOK
  BY DEF TypeInv
<1> QED BY <1>1, <1>2, <1>3, PTL DEF Spec

-----------------------------------------------------------------------------
(***************************************************************************)
(* What an operation does to the slot of its address, and what it awaits   *)
(* next.                                                                   *)
(***************************************************************************)
Unmounted(a) == live'[a] = IF slots[a].mounted THEN live[a] - 1 ELSE live[a]

SameSlot(a) ==
  /\ slots'[a].exp = slots[a].exp
  /\ slots'[a].mounted = slots[a].mounted
  /\ slots'[a].element = slots[a].element

Rests(a) ==
  /\ running[a] = Idle \/ running[a].at = "signalling"
  /\ running'[a] = Idle /\ slots'[a] = slots[a] /\ live'[a] = live[a]

BeginsClear(a) ==
  /\ running[a] = Idle
  /\ running'[a].at = "clearing"
  /\ running'[a].then = "bind" => running'[a].exp = desired[a] /\ desired[a] # None
  /\ running'[a].then = "done" => desired[a] = None \/ running'[a].op = "clear"
  /\ SameSlot(a) /\ Unmounted(a)

BeginsRelease(a) ==
  /\ running[a] = Idle
  /\ running'[a].at = "releasing"
  /\ slots'[a] = slots[a] /\ Unmounted(a)

BeginsDegrade(a) ==
  /\ running[a] = Idle
  /\ running'[a].at = "degrading"
  /\ slots'[a] = slots[a] /\ Unmounted(a)

Provided(a) ==
  /\ \/ running[a] = Idle /\ ~Present(slots[a])
     \/ running[a].at \in {"clearing", "releasing"} /\ running[a].then = "provide"
  /\ slots'[a].exp = None /\ ~slots'[a].mounted /\ live'[a] = live[a]
  /\ IF desired[a] = None THEN running'[a] = Idle
     ELSE /\ running'[a].at = "clearing" /\ running'[a].then = "bind"
          /\ running'[a].exp = desired[a]

Empties(a) ==
  /\ running[a].then = "done"
  /\ \/ running[a].at = "clearing" /\ (Present(slots'[a]) => Present(slots[a]))
     \/ running[a].at = "releasing" /\ ~Present(slots'[a])
  /\ slots'[a].exp = None /\ ~slots'[a].mounted
  /\ running'[a] = Idle /\ live'[a] = live[a]

BeginsMount(a) ==
  /\ running[a].at = "clearing" /\ running[a].then = "bind"
  /\ slots'[a].exp = running[a].exp /\ ~slots'[a].mounted /\ Present(slots'[a])
  /\ running'[a].at = "mounting" /\ live'[a] = live[a]

Mounted(a) ==
  /\ running[a].at = "mounting" /\ running'[a] = Idle
  /\ live'[a] = live[a] + 1
  /\ slots'[a].exp = slots[a].exp /\ slots'[a].element = slots[a].element
  /\ IF Present(slots[a]) THEN slots'[a].mounted ELSE slots'[a] = slots[a]

Failed(a) ==
  /\ running[a].at \in {"mounting", "degrading"} \/ (running[a] = Idle /\ ~slots[a].mounted)
  /\ slots'[a].exp = slots[a].exp /\ slots'[a].element = slots[a].element
  /\ ~slots'[a].mounted
  /\ running'[a].at \in {"idle", "signalling"} /\ live'[a] = live[a]

Dropped(a) ==
  /\ running[a].at = "mounting" \/ (running[a].at = "degrading" /\ ~Present(slots[a]))
  /\ running'[a] = Idle /\ slots'[a] = slots[a] /\ live'[a] = live[a]

Effect(a) ==
  \/ Rests(a) \/ BeginsClear(a) \/ BeginsRelease(a) \/ BeginsDegrade(a) \/ Provided(a)
  \/ Empties(a) \/ BeginsMount(a) \/ Mounted(a) \/ Failed(a) \/ Dropped(a)

LEMMA StartClearEffect ==
  ASSUME OperationTypes, NEW a \in Addresses, running[a] = Idle, NEW o, NEW then, NEW e, NEW el, NEW q,
         StartClear(a, o, then, e, el, q),
         then = "bind" => e = desired[a] /\ desired[a] # None,
         then = "done" => desired[a] = None \/ o = "clear"
  PROVE  BeginsClear(a)
<1>1. /\ running'[a].at = "clearing" /\ running'[a].then = then /\ running'[a].exp = e
      /\ running'[a].op = o
  BY DEF StartClear, OperationTypes, Busy
<1>2. slots[a] \in SlotRecord /\ slots'[a] = [slots[a] EXCEPT !.provided = {}]
  BY DEF StartClear, OperationTypes
<1>3. SameSlot(a)
  BY <1>2 DEF SameSlot, SlotRecord
<1>4. Unmounted(a)
  BY DEF StartClear, OperationTypes, Unmounting, Unmounted
<1> QED BY <1>1, <1>3, <1>4 DEF BeginsClear

LEMMA SetProvidedEffect ==
  ASSUME OperationTypes, NEW a \in Addresses, NEW e, NEW el, SetProvided(a, e, el), UNCHANGED live,
         \/ running[a] = Idle /\ ~Present(slots[a])
         \/ running[a].at \in {"clearing", "releasing"} /\ running[a].then = "provide"
  PROVE  Provided(a)
<1>1. slots'[a].exp = None /\ ~slots'[a].mounted
  BY DEF SetProvided, OperationTypes, ProvidedSlot, NoSlot
<1>2. IF desired[a] = None THEN running'[a] = Idle
      ELSE /\ running'[a].at = "clearing" /\ running'[a].then = "bind"
           /\ running'[a].exp = desired[a]
  BY DEF SetProvided, OperationTypes, Busy
<1> QED BY <1>1, <1>2 DEF Provided

LEMMA DegradeEffect ==
  ASSUME OperationTypes, NEW a \in Addresses, NEW o, NEW e, Degrade(a, o, e), UNCHANGED live,
         running[a].at \in {"mounting", "degrading"} \/ (running[a] = Idle /\ ~slots[a].mounted)
  PROVE  Failed(a)
<1> DEFINE failures == slots[a].escalations + 1
           counted == IF failures > MAX_SLOT_ESCALATIONS THEN MAX_SLOT_ESCALATIONS + 1 ELSE failures
           s == [slots[a] EXCEPT !.mounted = FALSE, !.state = "error", !.escalations = counted]
<1>1. slots[a] \in SlotRecord /\ slots'[a] = s
  BY DEF Degrade, OperationTypes
<1>2. s.exp = slots[a].exp /\ s.element = slots[a].element /\ ~s.mounted
  <2> HIDE DEF counted
  <2> QED BY <1>1 DEF SlotRecord
<1>3. running'[a].at \in {"idle", "signalling"}
  BY DEF Degrade, OperationTypes, Busy, Idle
<1> HIDE DEF s
<1> QED BY <1>1, <1>2, <1>3 DEF Failed

LEMMA OperateEffect ==
  ASSUME OperationTypes, NEW a \in Addresses, Operate(a)
  PROVE  Effect(a)
<1>1. ASSUME NEW q, Nothing(a, q), running[a] = Idle PROVE Rests(a)
  BY <1>1 DEF Nothing, Rests
<1>2. CASE Reconcile(a)
  <2>1. \/ Nothing(a, Rest(a))
        \/ StartClear(a, "reconcile", "bind", desired[a], None, Rest(a)) /\ desired[a] # None
    BY <1>2 DEF Reconcile
  <2> QED BY <1>1, <1>2, <2>1, StartClearEffect DEF Reconcile, Takes, Effect
<1>3. CASE Unplace(a)
  <2>1. \/ Nothing(a, Rest(a))
        \/ StartClear(a, "unplace", "done", None, None, Rest(a)) /\ desired[a] = None
    BY <1>3 DEF Unplace
  <2> QED BY <1>1, <1>3, <2>1, StartClearEffect DEF Unplace, Takes, Effect
<1>4. CASE Register(a)
  <2> DEFINE e == Head(queue[a]).exp
             el == Head(queue[a]).element
  <2>1. \/ Nothing(a, Rest(a))
        \/ StartRelease(a, "register", "provide", e, el, Rest(a))
        \/ StartClear(a, "register", "provide", e, el, Rest(a))
        \/ SetProvided(a, e, el) /\ UNCHANGED live /\ ~Present(slots[a])
    BY <1>4 DEF Register
  <2>2. running[a] = Idle
    BY <1>4 DEF Register, Takes
  <2> HIDE DEF e, el
  <2>3. CASE StartRelease(a, "register", "provide", e, el, Rest(a))
    BY <2>2, <2>3 DEF StartRelease, OperationTypes, Busy, Unmounting, Unmounted, BeginsRelease, Effect
  <2> QED BY <1>1, <2>1, <2>2, <2>3, StartClearEffect, SetProvidedEffect DEF Effect
<1>5. CASE Release(a)
  <2>1. \/ Nothing(a, Rest(a))
        \/ StartRelease(a, "release", "done", Head(queue[a]).exp, None, Rest(a))
    BY <1>5 DEF Release
  <2>2. running[a] = Idle
    BY <1>5 DEF Release, Takes
  <2>3. CASE StartRelease(a, "release", "done", Head(queue[a]).exp, None, Rest(a))
    BY <2>2, <2>3 DEF StartRelease, OperationTypes, Busy, Unmounting, Unmounted, BeginsRelease, Effect
  <2> QED BY <1>1, <2>1, <2>2, <2>3 DEF Effect
<1>6. CASE HandleError(a)
  <2> DEFINE e == Head(queue[a]).exp
  <2>1. \/ Nothing(a, Rest(a))
        \/ /\ running' = [running EXCEPT ![a] = Busy("error", "degrading", "done", e, None)]
           /\ live' = Unmounting(a) /\ UNCHANGED slots
        \/ Degrade(a, "error", e) /\ UNCHANGED live /\ ~slots[a].mounted
    BY <1>6 DEF HandleError
  <2>2. running[a] = Idle
    BY <1>6 DEF HandleError, Takes
  <2>3. CASE /\ running' = [running EXCEPT ![a] = Busy("error", "degrading", "done", e, None)]
             /\ live' = Unmounting(a) /\ UNCHANGED slots
    BY <2>2, <2>3 DEF OperationTypes, Busy, Unmounting, Unmounted, BeginsDegrade, Effect
  <2> QED BY <1>1, <2>1, <2>2, <2>3, DegradeEffect DEF Effect
<1>7. CASE ClearForStop(a)
  <2>1. \/ Nothing(a, Rest(a))
        \/ StartClear(a, "clear", "done", None, None, Rest(a))
    BY <1>7 DEF ClearForStop
  <2> QED BY <1>1, <1>7, <2>1, StartClearEffect DEF ClearForStop, Takes, Effect
<1>8. CASE FinishClear(a)
  <2>1. running[a].at = "clearing" /\ UNCHANGED live
    BY <1>8 DEF FinishClear, UnmountSettled
  <2>2. /\ Cleared(a).exp = None /\ ~Cleared(a).mounted
        /\ Present(Cleared(a)) => Present(slots[a])
    BY DEF Cleared, OperationTypes, SlotRecord, NoSlot, Present
  <2>3. CASE running[a].then = "done" /\ slots' = [slots EXCEPT ![a] = Cleared(a)]
             /\ running' = [running EXCEPT ![a] = Idle]
    BY <2>1, <2>2, <2>3 DEF OperationTypes, Empties, Effect
  <2>4. CASE running[a].then = "bind"
    <3> DEFINE base == IF Present(Cleared(a)) THEN Cleared(a) ELSE HostSlot
               s == [base EXCEPT !.exp = running[a].exp, !.state = "pending"]
    <3>1. slots'[a] = s /\ running'[a] = Busy(running[a].op, "mounting", "done", running[a].exp, None)
      BY <1>8, <2>4 DEF FinishClear, OperationTypes
    <3>2. base \in SlotRecord /\ ~base.mounted /\ Present(base)
      <4>1. Cleared(a) \in SlotRecord
        BY RecordsTyped DEF Cleared, OperationTypes, SlotRecord, Optional
      <4>2. HostSlot \in SlotRecord /\ Present(HostSlot) /\ ~HostSlot.mounted
        BY RecordsTyped, HostElementAssumption DEF HostSlot, NoSlot, Present
      <4> QED BY <2>2, <4>1, <4>2
    <3>3. s.exp = running[a].exp /\ ~s.mounted /\ Present(s)
      <4> HIDE DEF base
      <4> QED BY <3>2 DEF SlotRecord, Present
    <3> HIDE DEF s
    <3> QED BY <2>1, <2>4, <3>1, <3>3 DEF Busy, BeginsMount, Effect
  <2>5. CASE running[a].then = "provide" /\ SetProvided(a, running[a].exp, running[a].element)
    BY <2>1, <2>5, SetProvidedEffect DEF Effect
  <2> QED BY <1>8, <2>3, <2>4, <2>5 DEF FinishClear
<1>9. CASE FinishRelease(a)
  <2>1. running[a].at = "releasing" /\ UNCHANGED live
    BY <1>9 DEF FinishRelease
  <2>2. CASE running[a].then = "done" /\ slots' = [slots EXCEPT ![a] = NoSlot]
             /\ running' = [running EXCEPT ![a] = Idle]
    BY <2>1, <2>2 DEF OperationTypes, NoSlot, Present, Empties, Effect
  <2>3. CASE running[a].then = "provide" /\ SetProvided(a, running[a].exp, running[a].element)
    BY <2>1, <2>3, SetProvidedEffect DEF Effect
  <2> QED BY <1>9, <2>2, <2>3 DEF FinishRelease
<1>10. CASE MountSucceeds(a)
  <2>1. slots[a] \in SlotRecord
    BY DEF OperationTypes
  <2>2. CASE Present(slots[a])
    <3>1. slots'[a] = [slots[a] EXCEPT !.mounted = TRUE, !.state = "ready", !.escalations = 0]
      BY <1>10, <2>2 DEF MountSucceeds, OperationTypes
    <3>2. slots'[a].exp = slots[a].exp /\ slots'[a].mounted /\ slots'[a].element = slots[a].element
      BY <2>1, <3>1 DEF SlotRecord
    <3> QED BY <1>10, <3>2 DEF MountSucceeds, OperationTypes, Mounted, Effect
  <2>3. CASE ~Present(slots[a])
    BY <1>10, <2>3 DEF MountSucceeds, OperationTypes, Mounted, Effect
  <2> QED BY <2>2, <2>3
<1>11. CASE MountFails(a)
  BY <1>11, DegradeEffect DEF MountFails, OperationTypes, Dropped, Effect
<1>12. CASE FinishDegrade(a)
  BY <1>12, DegradeEffect DEF FinishDegrade, OperationTypes, Dropped, Effect
<1>13. CASE SignalSettles(a)
  BY <1>13 DEF SignalSettles, OperationTypes, Rests, Effect
<1> QED
  BY <1>2, <1>3, <1>4, <1>5, <1>6, <1>7, <1>8, <1>9, <1>10, <1>11, <1>12, <1>13 DEF Operate

\* An operation changes nothing at the other addresses but their queues.
LEMMA OperateOthers ==
  ASSUME NEW a \in Addresses, OperationTypes, Operate(a), NEW b \in Addresses \ {a}
  PROVE  slots'[b] = slots[b] /\ running'[b] = running[b] /\ live'[b] = live[b]
BY DEF OperationTypes, Operate, Reconcile, Unplace, Register, Release, HandleError, ClearForStop,
   FinishClear, FinishRelease, MountSucceeds, MountFails, FinishDegrade, SignalSettles,
   Nothing, StartClear, StartRelease, SetProvided, Degrade, Unmounting

-----------------------------------------------------------------------------
(***************************************************************************)
(* Islands.  stop() empties the map while mounts may be under way, so that *)
(* what these theorems say of `live` is for a manager that is not stopped. *)
(***************************************************************************)
Counted(a) ==
  live[a] = IF slots[a].mounted /\ running[a].at \notin {"clearing", "releasing", "degrading"}
              THEN 1 ELSE 0

Leakless ==
  /\ phase = "started"
  /\ NoIslandLeaks
  /\ \A a \in Addresses : running[a].at = "mounting" =>
       ~slots[a].mounted /\ Present(slots[a])

LeakInv == stops = 0 => Leakless

LEMMA InitLeak == Init => LeakInv
BY DEF Init, LeakInv, Leakless, NoIslandLeaks, NoSlot, Idle

\* No operation leaves an island behind, or unmounts one twice.
LEMMA EffectLeak ==
  ASSUME TypeInv, Leakless, NEW a \in Addresses, Effect(a)
  PROVE  /\ Counted(a)'
         /\ running'[a].at = "mounting" => ~slots'[a].mounted /\ Present(slots'[a])
<1>1. /\ Counted(a) /\ live[a] \in Nat
      /\ slots[a].mounted => Present(slots[a])
      /\ running[a].at = "mounting" => ~slots[a].mounted /\ Present(slots[a])
      /\ running[a] = Idle => running[a].at = "idle"
  BY DEF TypeInv, TypeOK, IslandInv, Leakless, NoIslandLeaks, Counted, Idle
<1> USE <1>1
<1>2. CASE Rests(a)
  BY <1>2 DEF Rests, Counted, Idle
<1>3. CASE BeginsClear(a)
  BY <1>3 DEF BeginsClear, SameSlot, Unmounted, Counted
<1>4. CASE BeginsRelease(a) \/ BeginsDegrade(a)
  BY <1>4 DEF BeginsRelease, BeginsDegrade, Unmounted, Counted
<1>5. CASE Provided(a)
  BY <1>5 DEF Provided, Counted, Idle
<1>6. CASE Empties(a)
  BY <1>6 DEF Empties, Counted, Idle
<1>7. CASE BeginsMount(a)
  BY <1>7 DEF BeginsMount, Counted
<1>8. CASE Mounted(a)
  BY <1>8 DEF Mounted, Counted, Idle
<1>9. CASE Failed(a)
  BY <1>9 DEF Failed, Counted
<1>10. CASE Dropped(a)
  BY <1>10 DEF Dropped, Counted, Idle
<1> QED BY <1>2, <1>3, <1>4, <1>5, <1>6, <1>7, <1>8, <1>9, <1>10 DEF Effect

\* Only stop() counts.
LEMMA StopsGrow ==
  ASSUME [Next]_vars
  PROVE  stops' \in {stops, stops + 1}
<1>1. ASSUME NEW a \in Addresses, Operate(a) PROVE stops' = stops
  <2>1. Untouched
    BY <1>1 DEF Operate, Reconcile, Unplace, Register, Release, HandleError, ClearForStop,
       FinishClear, FinishRelease, MountSucceeds, MountFails, FinishDegrade, SignalSettles
  <2> QED BY <2>1 DEF Untouched, stopVars
<1>2. CASE StopStep
  BY <1>2 DEF StopStep, StopClears, StopResumes, StopFinishes
<1>3. ASSUME NEW e \in Experiences, NEW a \in Addresses,
             \/ Place(e, a) \/ ReportError(e, a) \/ ReleaseSlot(e, a)
             \/ \E x \in Addresses, el \in Elements :
                  ProvideSlot(e, a, x, el) \/ LateProvideSlot(e, a, x, el)
      PROVE  stops' = stops
  BY <1>3 DEF Place, ReportError, ReleaseSlot, ProvideSlot, LateProvideSlot, CallingBack, stopVars
<1>4. CASE Stop \/ Start
  BY <1>4 DEF Stop, Start
<1>5. CASE UNCHANGED vars
  BY <1>5 DEF vars, stopVars
<1> QED BY <1>1, <1>2, <1>3, <1>4, <1>5 DEF Next, Environment

LEMMA NextLeak ==
  ASSUME TypeInv, LeakInv, [Next]_vars
  PROVE  LeakInv'
<1> SUFFICES ASSUME stops' = 0 PROVE Leakless'
  BY DEF LeakInv
<1>0. stops = 0 /\ Leakless
  <2>1. stops \in Nat /\ stops' \in {stops, stops + 1}
    BY StopsGrow DEF TypeInv, TypeOK
  <2> QED BY <2>1 DEF LeakInv
<1> USE <1>0
<1>1. ASSUME NEW a \in Addresses, Operate(a) PROVE Leakless'
  <2>1. OperationTypes
    BY DEF TypeInv, TypeOK, OperationTypes
  <2>2. Untouched
    BY <1>1 DEF Operate, Reconcile, Unplace, Register, Release, HandleError, ClearForStop,
       FinishClear, FinishRelease, MountSucceeds, MountFails, FinishDegrade, SignalSettles
  <2>3. ASSUME NEW b \in Addresses
        PROVE  /\ Counted(b)'
               /\ running'[b].at = "mounting" => ~slots'[b].mounted /\ Present(slots'[b])
    <3>1. CASE b = a
      BY <1>1, <2>1, <3>1, OperateEffect, EffectLeak
    <3>2. CASE b # a
      BY <1>1, <2>1, <3>2, OperateOthers DEF Leakless, NoIslandLeaks, Counted
    <3> QED BY <3>1, <3>2
  <2> QED BY <2>2, <2>3 DEF Leakless, NoIslandLeaks, Counted, Untouched, stopVars
<1>2. CASE StopStep
  BY <1>2 DEF StopStep, StopClears, StopResumes, StopFinishes, UnchangedByStop, Leakless, NoIslandLeaks
<1>3. CASE UNCHANGED vars
  BY <1>3 DEF vars, slotVars, stopVars, Leakless, NoIslandLeaks
<1>4. ASSUME NEW e \in Experiences, NEW a \in Addresses, NEW x \in Addresses, NEW el \in Elements,
             ProvideSlot(e, a, x, el)
      PROVE  Leakless'
  <2>1. \A b \in Addresses : slots'[b].mounted = slots[b].mounted /\ slots'[b].element = slots[b].element
    BY <1>4 DEF ProvideSlot, TypeInv, TypeOK, SlotRecord
  <2> QED BY <1>4, <2>1 DEF ProvideSlot, stopVars, Leakless, NoIslandLeaks, Present
<1>5. CASE Environment /\ UNCHANGED <<slots, running, live, phase, stops>>
  BY <1>5 DEF Leakless, NoIslandLeaks
<1>6. ~Stop /\ ~Start
  BY <1>0 DEF Stop, Start, Leakless
<1>7. ASSUME NEW e \in Experiences, NEW a \in Addresses,
             \/ Place(e, a) \/ ReportError(e, a) \/ ReleaseSlot(e, a)
             \/ \E x \in Addresses, el \in Elements : LateProvideSlot(e, a, x, el)
      PROVE  UNCHANGED <<slots, running, live, phase, stops>>
  BY <1>7 DEF Place, ReportError, ReleaseSlot, LateProvideSlot, CallingBack, stopVars
<1> QED BY <1>1, <1>2, <1>3, <1>4, <1>5, <1>6, <1>7 DEF Next, Environment

\* ADR-066: the queue of an address leaks no island - until the manager is
\* stopped, an address shows at most one, the one whose unmount its slot holds.
THEOREM NoIslandLeaksUnlessStopped == Spec => [](stops = 0 => NoIslandLeaks)
<1>1. Init => TypeInv /\ PlacementInv /\ LeakInv
  BY InitTyped, InitPlacement, InitLeak
<1>2. TypeInv /\ PlacementInv /\ LeakInv /\ [Next]_vars => TypeInv' /\ PlacementInv' /\ LeakInv'
  BY NextTyped, NextPlacement, NextLeak
<1>3. LeakInv => (stops = 0 => NoIslandLeaks)
  BY DEF LeakInv, Leakless
<1> QED BY <1>1, <1>2, <1>3, PTL DEF Spec

-----------------------------------------------------------------------------
(***************************************************************************)
(* Convergence.  Under a started manager an address with a desired         *)
(* experience shows it, or something is under way that will bind it.       *)
(***************************************************************************)
Waits(b, o) == \E k \in 1 .. Len(queue[b]) : queue[b][k].op = o

Heading(a) ==
  \/ Waits(a, "reconcile")
  \/ /\ running[a].at = "clearing"
     /\ \/ running[a].then = "bind" /\ running[a].exp = desired[a]
        \/ running[a].then = "provide"
  \/ running[a].at = "releasing"
  \/ running[a].at # "clearing" /\ slots[a].exp = desired[a]
  \/ ~(running[a].at = "clearing" /\ running[a].then = "bind") /\ ~Present(slots[a])

\* A clearing for stop() belongs to the stop() under way.
StopInv ==
  /\ \A a \in Addresses : Waits(a, "clear") \/ running[a].op = "clear" =>
       phase = "stopping" /\ stopAwaits = a
  /\ stopAwaits # None => phase = "stopping" /\ stopAwaits \in toStop
  /\ phase = "stopped" => \A a \in Addresses : desired[a] = None

ConvergeInv ==
  /\ StopInv
  /\ phase = "started" => \A a \in Addresses :
       desired[a] # None /\ a \notin skipped => Heading(a)

LEMMA InitConverge == Init => ConvergeInv
BY DEF Init, ConvergeInv, StopInv, Waits, Idle

\* Taking an operation off a queue leaves the others.
LEMMA RestWaits ==
  ASSUME OperationTypes, NEW a \in Addresses, NEW t, Takes(a, t), NEW b \in Addresses
  PROVE  /\ Len(queue[b]) \in Nat
         /\ \A o : (\E k \in 1 .. Len(Rest(a)[b]) : Rest(a)[b][k].op = o) => Waits(b, o)
         /\ \A o : Waits(b, o) =>
              \/ \E k \in 1 .. Len(Rest(a)[b]) : Rest(a)[b][k].op = o
              \/ b = a /\ t = o
<1>1. queue[a] \in Seq(Operation) /\ queue[b] \in Seq(Operation) /\ queue[a] # <<>>
      /\ Head(queue[a]).op = t
  BY DEF OperationTypes, Takes
<1>2. /\ Rest(a)[b] = IF b = a THEN Tail(queue[a]) ELSE queue[b]
      /\ Len(queue[b]) \in Nat
  BY <1>1 DEF Rest, OperationTypes
<1>3. CASE b # a
  BY <1>2, <1>3 DEF Waits
<1>4. CASE b = a
  <2>1. Len(queue[a]) \in Nat \ {0} /\ queue[a][1].op = t
    BY <1>1
  <2>2. /\ Len(Tail(queue[a])) = Len(queue[a]) - 1
        /\ \A k \in 1 .. (Len(queue[a]) - 1) : Tail(queue[a])[k] = queue[a][k + 1]
    BY <1>1
  <2>3. ASSUME NEW o, \E k \in 1 .. Len(Rest(a)[b]) : Rest(a)[b][k].op = o PROVE Waits(b, o)
    <3> PICK k \in 1 .. Len(Rest(a)[b]) : Rest(a)[b][k].op = o
      BY <2>3
    <3> QED BY <1>2, <1>4, <2>1, <2>2 DEF Waits
  <2>4. ASSUME NEW o, Waits(b, o), t # o
        PROVE  \E k \in 1 .. Len(Rest(a)[b]) : Rest(a)[b][k].op = o
    <3> PICK k \in 1 .. Len(queue[a]) : queue[a][k].op = o
      BY <1>4, <2>4 DEF Waits
    <3>1. k # 1
      BY <2>1, <2>4
    <3>2. k - 1 \in 1 .. Len(Tail(queue[a])) /\ Tail(queue[a])[k - 1] = queue[a][k]
      BY <2>1, <2>2, <3>1
    <3> QED BY <1>2, <1>4, <3>2
  <2> QED BY <1>2, <1>4, <2>3, <2>4
<1> QED BY <1>2, <1>3, <1>4

\* The queue of b once a has taken an operation of kind t off its own: with a
\* release appended, at most.
LEMMA TakesWaits ==
  ASSUME OperationTypes, NEW a \in Addresses, NEW t, Takes(a, t), NEW b \in Addresses,
         NEW e, queue'[b] = Rest(a)[b] \/ queue'[b] = Append(Rest(a)[b], Op("release", e, None))
  PROVE  /\ Waits(b, "clear")' => Waits(b, "clear")
         /\ Waits(b, "reconcile") => Waits(b, "reconcile")' \/ (b = a /\ t = "reconcile")
<1> DEFINE q == Rest(a)[b]
<1>1. q \in Seq(Operation)
  BY TakenTyped
<1>2. Op("release", e, None).op = "release"
  BY DEF Op
<1>3. ASSUME NEW o \in {"clear", "reconcile"}
      PROVE  Waits(b, o)' <=> \E k \in 1 .. Len(q) : q[k].op = o
  <2>1. CASE queue'[b] = q
    BY <2>1 DEF Waits
  <2>2. CASE queue'[b] = Append(q, Op("release", e, None))
    <3>1. /\ Len(q) \in Nat /\ Len(queue'[b]) = Len(q) + 1
          /\ queue'[b][Len(q) + 1] = Op("release", e, None)
          /\ \A k \in 1 .. Len(q) : queue'[b][k] = q[k]
      BY <1>1, <2>2
    <3> HIDE DEF q
    <3>2. \A k \in 1 .. Len(q) + 1 : k \in 1 .. Len(q) \/ k = Len(q) + 1
      BY <3>1
    <3>3. 1 .. Len(q) \subseteq 1 .. Len(q) + 1
      BY <3>1
    <3> QED BY <1>2, <1>3, <3>1, <3>2, <3>3 DEF Waits
  <2> QED BY <2>1, <2>2
<1> QED BY <1>3, RestWaits

\* An operation adds nothing but releases to the queues, and takes off a
\* reconcile only as one.
LEMMA OperateWaits ==
  ASSUME TypeInv, NEW a \in Addresses, Operate(a), NEW b \in Addresses
  PROVE  /\ Waits(b, "clear")' => Waits(b, "clear")
         /\ Waits(b, "reconcile") => Waits(b, "reconcile")' \/ (b = a /\ Reconcile(a))
<1>1. OperationTypes
  BY DEF TypeInv, TypeOK, OperationTypes
<1>2. ASSUME NEW o, NEW then, NEW e, NEW el, StartClear(a, o, then, e, el, Rest(a))
      PROVE  queue'[b] = Rest(a)[b] \/ queue'[b] = Append(Rest(a)[b], Op("release", slots[a].exp, None))
  BY <1>2 DEF StartClear
<1>3. ASSUME NEW o, NEW then, NEW e, NEW el, StartRelease(a, o, then, e, el, Rest(a))
      PROVE  queue'[b] = Rest(a)[b]
  BY <1>3 DEF StartRelease
<1>4. ASSUME Nothing(a, Rest(a)) PROVE queue'[b] = Rest(a)[b]
  BY <1>4 DEF Nothing
<1> DEFINE Next1 == queue'[b] = Rest(a)[b]
                    \/ queue'[b] = Append(Rest(a)[b], Op("release", slots[a].exp, None))
<1>5. CASE Reconcile(a)
  <2>1. Takes(a, "reconcile") /\ Next1
    BY <1>2, <1>4, <1>5 DEF Reconcile
  <2> QED BY <1>1, <1>5, <2>1, TakesWaits
<1>6. CASE Unplace(a)
  <2>1. Takes(a, "unplace") /\ Next1
    BY <1>2, <1>4, <1>6 DEF Unplace
  <2> QED BY <1>1, <2>1, TakesWaits
<1>7. CASE Register(a)
  <2>1. Takes(a, "register") /\ Next1
    BY <1>2, <1>3, <1>4, <1>7 DEF Register
  <2> QED BY <1>1, <2>1, TakesWaits
<1>8. CASE Release(a)
  <2>1. Takes(a, "release") /\ Next1
    BY <1>3, <1>4, <1>8 DEF Release
  <2> QED BY <1>1, <2>1, TakesWaits
<1>9. CASE HandleError(a)
  <2>1. Takes(a, "error") /\ Next1
    BY <1>4, <1>9 DEF HandleError
  <2> QED BY <1>1, <2>1, TakesWaits
<1>10. CASE ClearForStop(a)
  <2>1. Takes(a, "clear") /\ Next1
    BY <1>2, <1>4, <1>10 DEF ClearForStop
  <2> QED BY <1>1, <2>1, TakesWaits
<1>11. CASE FinishClear(a) \/ FinishRelease(a) \/ MountSucceeds(a) \/ MountFails(a)
             \/ FinishDegrade(a) \/ SignalSettles(a)
  <2>1. queue' = queue
    BY <1>11 DEF FinishClear, FinishRelease, MountSucceeds, MountFails, FinishDegrade, SignalSettles
  <2> QED BY <2>1 DEF Waits
<1> QED BY <1>5, <1>6, <1>7, <1>8, <1>9, <1>10, <1>11 DEF Operate

\* Only stop() clears an address for good.
LEMMA OperateClears ==
  ASSUME TypeInv, NEW a \in Addresses, Operate(a), running'[a].op = "clear"
  PROVE  running[a].op = "clear" \/ Waits(a, "clear")
<1>1. OperationTypes
  BY DEF TypeInv, TypeOK, OperationTypes
<1>2. CASE ClearForStop(a)
  <2>1. queue[a] \in Seq(Operation) /\ queue[a] # <<>> /\ Head(queue[a]).op = "clear"
    BY <1>1, <1>2 DEF ClearForStop, Takes, OperationTypes
  <2>2. 1 \in 1 .. Len(queue[a]) /\ queue[a][1].op = "clear"
    BY <2>1
  <2> QED BY <2>2 DEF Waits
<1>3. ASSUME NEW o, NEW then, NEW e, NEW el, NEW q, o # "clear",
             StartClear(a, o, then, e, el, q) \/ StartRelease(a, o, then, e, el, q)
      PROVE  running'[a].op # "clear"
  BY <1>1, <1>3 DEF StartClear, StartRelease, OperationTypes, Busy
<1>4. ASSUME NEW q, Nothing(a, q) PROVE running[a].op = "clear"
  BY <1>4 DEF Nothing
<1>5. ASSUME NEW e, NEW el, SetProvided(a, e, el) PROVE FALSE
  BY <1>1, <1>5 DEF SetProvided, OperationTypes, Busy, Idle
<1>6. ASSUME NEW o, NEW e, Degrade(a, o, e) PROVE o = "clear"
  BY <1>1, <1>6 DEF Degrade, OperationTypes, Busy, Idle
<1>7. (~Reconcile(a) /\ ~Unplace(a)) \/ running[a].op = "clear"
  BY <1>3, <1>4 DEF Reconcile, Unplace
<1>8. ~Register(a) \/ running[a].op = "clear"
  BY <1>3, <1>4, <1>5 DEF Register
<1>9. ~Release(a) \/ running[a].op = "clear"
  BY <1>3, <1>4 DEF Release
<1>10. CASE HandleError(a)
  <2> DEFINE e == Head(queue[a]).exp
  <2>1. \/ Nothing(a, Rest(a))
        \/ running' = [running EXCEPT ![a] = Busy("error", "degrading", "done", e, None)]
        \/ Degrade(a, "error", e)
    BY <1>10 DEF HandleError
  <2>2. running' # [running EXCEPT ![a] = Busy("error", "degrading", "done", e, None)]
    BY <1>1 DEF OperationTypes, Busy
  <2>3. ~Degrade(a, "error", e)
    BY <1>6
  <2> QED BY <1>4, <2>1, <2>2, <2>3
<1>11. ASSUME running' = [running EXCEPT ![a] = Idle] PROVE FALSE
  BY <1>1, <1>11 DEF OperationTypes, Idle
<1>12. CASE FinishClear(a)
  <2>1. CASE running' = [running EXCEPT ![a] = Busy(running[a].op, "mounting", "done", running[a].exp, None)]
    BY <1>1, <2>1 DEF OperationTypes, Busy
  <2> QED BY <1>5, <1>11, <1>12, <2>1 DEF FinishClear
<1>13. CASE FinishRelease(a)
  BY <1>5, <1>11, <1>13 DEF FinishRelease
<1>14. CASE MountSucceeds(a) \/ MountFails(a) \/ FinishDegrade(a) \/ SignalSettles(a)
  BY <1>6, <1>11, <1>14 DEF MountSucceeds, MountFails, FinishDegrade, SignalSettles
<1> QED BY <1>2, <1>7, <1>8, <1>9, <1>10, <1>12, <1>13, <1>14 DEF Operate

LEMMA OperateConverge ==
  ASSUME TypeInv, ConvergeInv, NEW a \in Addresses, Operate(a)
  PROVE  ConvergeInv'
<1>1. OperationTypes
  BY DEF TypeInv, TypeOK, OperationTypes
<1>2. Untouched
  BY DEF Operate, Reconcile, Unplace, Register, Release, HandleError, ClearForStop,
     FinishClear, FinishRelease, MountSucceeds, MountFails, FinishDegrade, SignalSettles
<1>3. UNCHANGED <<desired, phase, toStop, stopAwaits, skipped>>
  BY <1>2 DEF Untouched, wantedVars, stopVars
<1>4. StopInv'
  <2>1. \A b \in Addresses : Waits(b, "clear")' \/ running'[b].op = "clear" =>
          Waits(b, "clear") \/ running[b].op = "clear"
    BY <1>1, OperateWaits, OperateClears, OperateOthers
  <2> QED BY <1>3, <2>1 DEF ConvergeInv, StopInv
<1>5. ASSUME phase = "started", NEW b \in Addresses, desired[b] # None, b \notin skipped
      PROVE  Heading(b)'
  <2>1. Heading(b)
    BY <1>5 DEF ConvergeInv
  <2>2. CASE b # a
    BY <1>1, <1>3, <2>1, <2>2, OperateOthers, OperateWaits DEF Heading
  <2>3. CASE b = a
    <3> SUFFICES ASSUME ~Waits(a, "reconcile")' PROVE Heading(a)'
      BY <2>3 DEF Heading
    <3>1. CASE Reconcile(a) /\ TakenForBound(a, desired[a])
      <4>1. slots'[a] = slots[a] /\ slots[a].exp = desired[a] /\ running'[a] = Idle
        BY <1>5, <2>3, <3>1 DEF Reconcile, Nothing, Takes, TakenForBound
      <4> QED BY <1>3, <4>1 DEF Heading, Idle
    <3>2. CASE Reconcile(a) /\ ~TakenForBound(a, desired[a])
      <4>1. running'[a].at = "clearing" /\ running'[a].then = "bind" /\ running'[a].exp = desired[a]
        BY <1>1, <1>5, <2>3, <3>2 DEF Reconcile, StartClear, OperationTypes, Busy
      <4> QED BY <1>3, <4>1 DEF Heading
    <3>3. CASE ~Reconcile(a)
      <4>1. ~Waits(a, "reconcile")
        BY <3>3, OperateWaits
      <4>2. \/ /\ running[a].at = "clearing"
               /\ \/ running[a].then = "bind" /\ running[a].exp = desired[a]
                  \/ running[a].then = "provide"
            \/ running[a].at = "releasing"
            \/ running[a].at # "clearing" /\ slots[a].exp = desired[a]
            \/ ~(running[a].at = "clearing" /\ running[a].then = "bind") /\ ~Present(slots[a])
        BY <2>1, <2>3, <4>1 DEF Heading
      <4>3. desired'[a] = desired[a] /\ desired[a] # None
        BY <1>3, <1>5, <2>3
      <4>4. running[a] = Idle => running[a].at = "idle"
        BY DEF Idle
      <4> USE <4>2, <4>3, <4>4
      <4>5. CASE Rests(a)
        BY <4>5 DEF Rests, Heading, Idle
      <4>6. CASE BeginsClear(a)
        <5>1. running'[a].op # "clear"
          BY <1>4, <1>3, <1>5 DEF StopInv
        <5>2. running'[a].then \in {"done", "bind", "provide"}
          BY <1>1, TakesTyped, FinishesTyped
          DEF Operate, TypeInv, TypeOK, MapsTyped, OperationTypes, Activity
        <5> QED BY <4>6, <5>1, <5>2 DEF BeginsClear, Heading
      <4>7. CASE BeginsRelease(a)
        BY <4>7 DEF BeginsRelease, Heading
      <4>8. CASE BeginsDegrade(a)
        BY <4>8 DEF BeginsDegrade, Heading
      <4>9. CASE Provided(a)
        BY <4>9 DEF Provided, Heading
      <4>10. CASE Empties(a)
        BY <4>10 DEF Empties, Heading, Idle
      <4>11. CASE BeginsMount(a)
        BY <4>11 DEF BeginsMount, Heading
      <4>12. CASE Mounted(a)
        BY <4>12 DEF Mounted, Heading, Idle, Present
      <4>13. CASE Failed(a)
        BY <4>13 DEF Failed, Heading, Present
      <4>14. CASE Dropped(a)
        BY <4>14 DEF Dropped, Heading, Idle
      <4> QED
        BY <1>1, OperateEffect, <4>5, <4>6, <4>7, <4>8, <4>9, <4>10, <4>11, <4>12, <4>13, <4>14
        DEF Effect
    <3> QED BY <3>1, <3>2, <3>3
  <2> QED BY <2>2, <2>3
<1> QED BY <1>3, <1>4, <1>5 DEF ConvergeInv

WaitsIn(q, b, o) == \E k \in 1 .. Len(q[b]) : q[b][k].op = o

\* What an enqueued operation adds to a queue.
LEMMA EnqueueWaits ==
  ASSUME NEW q \in [Addresses -> Seq(Operation)], NEW a \in Addresses, NEW op \in Operation,
         NEW b \in Addresses, NEW o
  PROVE  WaitsIn(Enqueue(q, a, op), b, o) <=> WaitsIn(q, b, o) \/ (b = a /\ op.op = o)
<1> DEFINE r == Enqueue(q, a, op)
<1>1. r[b] = IF b = a THEN Append(q[a], op) ELSE q[b]
  BY DEF Enqueue
<1>2. CASE b # a
  BY <1>1, <1>2 DEF WaitsIn
<1>3. CASE b = a
  <2>1. /\ Len(q[b]) \in Nat /\ Len(r[b]) = Len(q[b]) + 1
        /\ r[b][Len(q[b]) + 1] = op
        /\ \A k \in 1 .. Len(q[b]) : r[b][k] = q[b][k]
    BY <1>1, <1>3
  <2> HIDE DEF r
  <2>2. /\ \A k \in 1 .. Len(q[b]) + 1 : k \in 1 .. Len(q[b]) \/ k = Len(q[b]) + 1
        /\ 1 .. Len(q[b]) \subseteq 1 .. Len(q[b]) + 1
        /\ Len(q[b]) + 1 \in 1 .. Len(q[b]) + 1
    BY <2>1
  <2> DEFINE n == Len(q[b])
  <2>3. ASSUME WaitsIn(q, b, o) PROVE WaitsIn(r, b, o)
    BY <2>1, <2>2, <2>3 DEF WaitsIn
  <2>4. ASSUME op.op = o PROVE WaitsIn(r, b, o)
    BY <2>1, <2>2, <2>4 DEF WaitsIn
  <2>5. ASSUME WaitsIn(r, b, o) PROVE WaitsIn(q, b, o) \/ op.op = o
    <3>1. PICK k \in 1 .. n + 1 : r[b][k].op = o
      BY <2>1, <2>5 DEF WaitsIn
    <3>2. CASE k \in 1 .. n
      BY <2>1, <3>1, <3>2 DEF WaitsIn
    <3>3. CASE k = n + 1
      BY <2>1, <3>1, <3>3
    <3> QED BY <2>2, <3>2, <3>3
  <2> QED BY <1>3, <2>3, <2>4, <2>5 DEF r
<1> QED BY <1>2, <1>3

LEMMA WaitsQueue ==
  \A b, o : (Waits(b, o) <=> WaitsIn(queue, b, o)) /\ (Waits(b, o)' <=> WaitsIn(queue', b, o))
BY DEF Waits, WaitsIn

\* A step that only adds to the queues, and no clearing, keeps the addresses
\* on their way.
LEMMA QueuedConverge ==
  ASSUME ConvergeInv,
         \A b \in Addresses, o \in {"clear", "reconcile"} : Waits(b, o) => Waits(b, o)',
         \A b \in Addresses : Waits(b, "clear")' => Waits(b, "clear"),
         UNCHANGED <<desired, running, phase, toStop, stopAwaits, skipped>>,
         \A b \in Addresses : /\ slots'[b].exp = slots[b].exp
                              /\ slots'[b].element = slots[b].element
  PROVE  ConvergeInv'
<1>1. StopInv'
  BY DEF ConvergeInv, StopInv
<1>2. \A b \in Addresses : Heading(b) => Heading(b)'
  BY DEF Heading, Present
<1> QED BY <1>1, <1>2 DEF ConvergeInv

\* The callbacks of islands.
LEMMA CallbackConverge ==
  ASSUME TypeInv, ConvergeInv, NEW e \in Experiences, NEW a \in Addresses,
         \/ ReportError(e, a) \/ ReleaseSlot(e, a)
         \/ \E x \in Addresses, el \in Elements :
              ProvideSlot(e, a, x, el) \/ LateProvideSlot(e, a, x, el)
  PROVE  ConvergeInv'
<1>1. /\ queue \in [Addresses -> Seq(Operation)]
      /\ \A b \in Addresses : slots[b] \in SlotRecord
      /\ slots \in [Addresses -> SlotRecord]
  BY DEF TypeInv, TypeOK
<1>2. PICK b \in Addresses, op \in Operation :
        op.op \in {"register", "release", "error"} /\ queue' = Enqueue(queue, b, op)
  <2>1. \A el \in Elements : Op("register", e, el) \in Operation
    BY RecordsTyped DEF Optional
  <2>2. Op("release", e, None) \in Operation /\ Op("error", e, None) \in Operation
    BY RecordsTyped DEF Optional
  <2>3. \A el : Op("register", e, el).op = "register"
    BY DEF Op
  <2>4. Op("release", e, None).op = "release" /\ Op("error", e, None).op = "error"
    BY DEF Op
  <2>5. CASE ReportError(e, a)
    BY <2>2, <2>4, <2>5 DEF ReportError
  <2>6. CASE ReleaseSlot(e, a)
    BY <2>2, <2>4, <2>6 DEF ReleaseSlot
  <2>7. ASSUME NEW x \in Addresses, NEW el \in Elements,
               ProvideSlot(e, a, x, el) \/ LateProvideSlot(e, a, x, el)
        PROVE  queue' = Enqueue(queue, x, Op("register", e, el))
    BY <2>7 DEF ProvideSlot, LateProvideSlot
  <2> QED BY <2>1, <2>3, <2>5, <2>6, <2>7
<1>3. \A c \in Addresses, o \in {"clear", "reconcile"} : Waits(c, o)' <=> Waits(c, o)
  <2> SUFFICES ASSUME NEW c \in Addresses, NEW o \in {"clear", "reconcile"}
               PROVE  Waits(c, o)' <=> Waits(c, o)
    OBVIOUS
  <2>1. WaitsIn(Enqueue(queue, b, op), c, o) <=> WaitsIn(queue, c, o)
    BY <1>1, <1>2, EnqueueWaits
  <2> QED BY <1>2, <2>1, WaitsQueue
<1>4. \A c \in Addresses : slots'[c].exp = slots[c].exp /\ slots'[c].element = slots[c].element
  <2>1. ASSUME NEW x \in Addresses, NEW el \in Elements, ProvideSlot(e, a, x, el),
               NEW c \in Addresses
        PROVE  slots'[c].exp = slots[c].exp /\ slots'[c].element = slots[c].element
    <3>1. slots' = [slots EXCEPT ![a] = [slots[a] EXCEPT !.provided = @ \cup {x}]]
      BY <1>1, <2>1 DEF ProvideSlot
    <3>2. slots[a] \in SlotRecord
      BY <1>1
    <3> QED BY <1>1, <3>1, <3>2 DEF SlotRecord
  <2> QED BY <2>1 DEF ReportError, ReleaseSlot, LateProvideSlot, CallingBack
<1>5. UNCHANGED <<desired, running, phase, toStop, stopAwaits, skipped>>
  BY DEF ReportError, ReleaseSlot, ProvideSlot, LateProvideSlot, CallingBack, wantedVars, stopVars
<1> QED BY <1>3, <1>4, <1>5, QueuedConverge

\* A placement queues a reconcile, finds the experience bound or on its way,
\* or is recorded as skipped.
LEMMA PlaceConverge ==
  ASSUME TypeInv, PlacementInv, ConvergeInv, NEW e \in Experiences, NEW a \in Addresses, Place(e, a)
  PROVE  ConvergeInv'
<1> DEFINE unplaced == IF Moves(e, a) THEN Enqueue(queue, addressOf[e], Op("unplace", e, None))
                                      ELSE queue
           reconcile == Op("reconcile", None, None)
<1>1. /\ UNCHANGED <<slots, running, phase, toStop, stopAwaits>> /\ phase = "started"
      /\ \/ TakenForBound(a, e) /\ queue' = unplaced
         \/ ~TakenForBound(a, e) /\ queue' = Enqueue(unplaced, a, reconcile)
  BY DEF Place, stopVars
<1>2. unplaced \in [Addresses -> Seq(Operation)]
      /\ \A b \in Addresses, o \in {"clear", "reconcile"} : WaitsIn(unplaced, b, o) <=> Waits(b, o)
  <2>1. queue \in [Addresses -> Seq(Operation)]
    BY DEF TypeInv, TypeOK
  <2>2. CASE Moves(e, a)
    <3>1. addressOf[e] \in Addresses /\ Op("unplace", e, None) \in Operation
          /\ Op("unplace", e, None).op = "unplace"
      BY <2>2, RecordsTyped DEF Moves, PlacementInv, MapsTyped, Optional, Op
    <3>2. unplaced = Enqueue(queue, addressOf[e], Op("unplace", e, None))
      BY <2>2
    <3> HIDE DEF unplaced
    <3>3. \A b \in Addresses, o \in {"clear", "reconcile"} :
            WaitsIn(unplaced, b, o) <=> WaitsIn(queue, b, o)
      BY <2>1, <3>1, <3>2, EnqueueWaits
    <3>4. unplaced \in [Addresses -> Seq(Operation)]
      BY <2>1, <3>1, <3>2, EnqueueTyped
    <3> QED BY <3>3, <3>4, WaitsQueue
  <2> QED BY <2>1, <2>2, WaitsQueue
<1>3. reconcile \in Operation /\ reconcile.op = "reconcile"
  BY RecordsTyped DEF Op, Optional
<1>4. \A b \in Addresses, o \in {"clear", "reconcile"} :
        Waits(b, o)' <=> Waits(b, o) \/ (b = a /\ o = "reconcile" /\ ~TakenForBound(a, e))
  <2> SUFFICES ASSUME NEW b \in Addresses, NEW o \in {"clear", "reconcile"}
               PROVE  Waits(b, o)' <=> Waits(b, o) \/ (b = a /\ o = "reconcile" /\ ~TakenForBound(a, e))
    OBVIOUS
  <2>1. Waits(b, o)' <=> WaitsIn(queue', b, o)
    BY WaitsQueue
  <2> HIDE DEF unplaced, reconcile
  <2> QED BY <1>1, <1>2, <1>3, <2>1, EnqueueWaits
<1>5. StopInv'
  BY <1>1, <1>4 DEF ConvergeInv, StopInv
<1>6. /\ desired'[a] = e
      /\ \A b \in Addresses \ {a} : desired'[b] \in {None, desired[b]}
  <2>1. Pruned(e, a) \in [Addresses -> Optional(Experiences)]
        /\ \A b \in Addresses : Pruned(e, a)[b] \in {None, desired[b]}
    BY DEF Pruned, Moves, PlacementInv, MapsTyped, Optional
  <2> QED BY <2>1 DEF Place
<1>7. ASSUME NEW b \in Addresses, desired'[b] # None, b \notin skipped'
      PROVE  Heading(b)'
  <2>1. CASE b # a
    <3>1. b \notin skipped
      BY <1>7, <2>1 DEF Place
    <3>2. desired'[b] = desired[b] /\ Heading(b)
      BY <1>1, <1>6, <1>7, <2>1, <3>1 DEF ConvergeInv
    <3> QED BY <1>1, <1>4, <3>2 DEF Heading
  <2>2. CASE b = a /\ ~TakenForBound(a, e)
    BY <1>4, <2>2 DEF Heading
  <2>3. CASE b = a /\ TakenForBound(a, e)
    <3>1. ~TearingDown(a, e) /\ slots[a].exp = e
      BY <1>7, <2>3 DEF Place, TakenForBound
    <3>2. running[a].then \in {"done", "bind", "provide"}
      BY DEF TypeInv, TypeOK, Activity
    <3> QED BY <1>1, <1>6, <2>3, <3>1, <3>2 DEF TearingDown, Heading
  <2> QED BY <2>1, <2>2, <2>3
<1> QED BY <1>1, <1>5, <1>7 DEF ConvergeInv

LEMMA StopConverge ==
  ASSUME TypeInv, ConvergeInv, StopStep \/ Stop \/ Start
  PROVE  ConvergeInv'
<1>1. ASSUME NEW a \in Addresses, StopClears(a) PROVE ConvergeInv'
  <2>1. queue \in [Addresses -> Seq(Operation)] /\ Op("clear", None, None) \in Operation
        /\ Op("clear", None, None).op = "clear"
    BY RecordsTyped DEF TypeInv, TypeOK, Op, Optional
  <2>2. \A b \in Addresses : Waits(b, "clear")' <=> Waits(b, "clear") \/ b = a
    <3>1. queue' = Enqueue(queue, a, Op("clear", None, None))
      BY <1>1 DEF StopClears
    <3> QED BY <2>1, <3>1, EnqueueWaits, WaitsQueue
  <2>3. a # None
    BY NoneDistinct
  <2> QED BY <1>1, <2>2, <2>3, NoneDistinct DEF StopClears, UnchangedByStop, ConvergeInv, StopInv
<1>2. ASSUME NEW a \in Addresses, StopResumes(a) PROVE ConvergeInv'
  <2>1. ~Waits(a, "clear") /\ running[a].op # "clear" /\ queue' = queue /\ running' = running
    <3>1. Len(queue[a]) \in Nat /\ DOMAIN queue[a] = 1 .. Len(queue[a])
      BY DEF TypeInv, TypeOK
    <3> QED BY <1>2, <3>1 DEF StopResumes, UnchangedByStop, Waits
  <2>2. \A b \in Addresses : ~Waits(b, "clear") /\ running[b].op # "clear"
    BY <1>2, <2>1 DEF StopResumes, ConvergeInv, StopInv
  <2>3. phase = "stopping" /\ phase' = phase
    BY <1>2, NoneDistinct DEF StopResumes, ConvergeInv, StopInv
  <2> QED BY <1>2, <2>1, <2>2, <2>3 DEF StopResumes, ConvergeInv, StopInv, Waits
<1>3. CASE StopFinishes
  <2>1. stopAwaits = None
    BY <1>3 DEF StopFinishes, ConvergeInv, StopInv
  <2>2. \A b \in Addresses : ~Waits(b, "clear") /\ running[b].op # "clear"
    BY <2>1, NoneDistinct DEF ConvergeInv, StopInv
  <2> QED BY <1>3, <2>1, <2>2 DEF StopFinishes, UnchangedByStop, ConvergeInv, StopInv, Waits
<1>4. CASE Stop
  BY <1>4 DEF Stop, UnchangedByStop, wantedVars, ConvergeInv, StopInv, Waits
<1>5. CASE Start
  BY <1>5 DEF Start, UnchangedByStop, wantedVars, ConvergeInv, StopInv, Waits
<1> QED BY <1>1, <1>2, <1>3, <1>4, <1>5 DEF StopStep

LEMMA NextConverge ==
  TypeInv /\ PlacementInv /\ ConvergeInv /\ [Next]_vars => ConvergeInv'
<1> SUFFICES ASSUME TypeInv, PlacementInv, ConvergeInv, [Next]_vars PROVE ConvergeInv'
  OBVIOUS
<1>1. CASE UNCHANGED vars
  BY <1>1 DEF vars, slotVars, wantedVars, stopVars, ConvergeInv, StopInv, Heading, Waits
<1> QED
  BY <1>1, OperateConverge, PlaceConverge, CallbackConverge, StopConverge DEF Next, Environment

LEMMA ConvergedFromInv == TypeInv /\ ConvergeInv => ConvergedUnlessSkipped
<1> SUFFICES ASSUME TypeInv, ConvergeInv, phase = "started", NEW a \in Addresses, Quiet(a),
                    desired[a] # None, Present(slots[a]), a \notin skipped
             PROVE  slots[a].exp = desired[a]
  BY DEF ConvergedUnlessSkipped
<1>1. Heading(a)
  BY DEF ConvergeInv
<1>2. ~Waits(a, "reconcile")
  BY DEF Quiet, Waits
<1>3. running[a].at = "idle"
  BY DEF Quiet, Idle
<1> QED BY <1>1, <1>2, <1>3 DEF Heading

\* ADR-066: the client converges on the desired composition.  Once nothing is
\* under way at an address it shows what the daemon wants there, in whatever
\* order placements, provisions, failures and stops came, unless the replay
\* fast path took the placement for bound while its binding was torn down.
THEOREM ConvergesUnlessSkipped == Spec => []ConvergedUnlessSkipped
<1>1. Init => TypeInv /\ PlacementInv /\ ConvergeInv
  BY InitTyped, InitPlacement, InitConverge
<1>2. TypeInv /\ PlacementInv /\ ConvergeInv /\ [Next]_vars
        => TypeInv' /\ PlacementInv' /\ ConvergeInv'
  BY NextTyped, NextPlacement, NextConverge
<1>3. TypeInv /\ ConvergeInv => ConvergedUnlessSkipped
  BY ConvergedFromInv
<1> QED BY <1>1, <1>2, <1>3, PTL DEF Spec

\* stop() leaves no clearing behind, however its steps interleave with the
\* operations and callbacks of the islands and however often it is called.
THEOREM StopLeavesNoClearing == Spec => []NoClearOutlivesStop
<1>1. Init => TypeInv /\ PlacementInv /\ ConvergeInv
  BY InitTyped, InitPlacement, InitConverge
<1>2. TypeInv /\ PlacementInv /\ ConvergeInv /\ [Next]_vars
        => TypeInv' /\ PlacementInv' /\ ConvergeInv'
  BY NextTyped, NextPlacement, NextConverge
<1>3. TypeInv /\ ConvergeInv => NoClearOutlivesStop
  <2>1. TypeInv => \A a \in Addresses : DOMAIN queue[a] = 1 .. Len(queue[a])
    BY DEF TypeInv, TypeOK
  <2> QED BY <2>1 DEF ConvergeInv, StopInv, Waits, NoClearOutlivesStop
<1> QED BY <1>1, <1>2, <1>3, PTL DEF Spec

-----------------------------------------------------------------------------
(***************************************************************************)
(* Ownership.  A requested release checks the owner before its unmount;    *)
(* until that settles nothing else of the address may set an owner.        *)
(***************************************************************************)
OwnedRelease(a) ==
  running[a].at = "releasing" /\ running[a].op = "release" /\ slots[a].owner # None
    => slots[a].owner = running[a].exp

OwnerInv == \A a \in Addresses : OwnedRelease(a)

LEMMA OperateOwned ==
  ASSUME TypeInv, NEW a \in Addresses, Operate(a)
  PROVE  OwnedRelease(a)'
<1>1. OperationTypes
  BY DEF TypeInv, TypeOK, OperationTypes
<1>2. SUFFICES ASSUME running'[a].at = "releasing" PROVE OwnedRelease(a)'
  BY DEF OwnedRelease
<1>3. ASSUME NEW o, NEW then, NEW e, NEW el, NEW q, StartClear(a, o, then, e, el, q)
      PROVE  running'[a].at = "clearing"
  BY <1>1, <1>3 DEF StartClear, OperationTypes, Busy
<1>4. ASSUME NEW q, Nothing(a, q), running[a] = Idle PROVE running'[a].at = "idle"
  BY <1>4 DEF Nothing, Idle
<1>5. CASE Register(a)
  <2>1. ASSUME NEW e, NEW el, StartRelease(a, "register", "provide", e, el, Rest(a))
        PROVE  running'[a].op = "register"
    BY <1>1, <2>1 DEF StartRelease, OperationTypes, Busy
  <2>2. ASSUME NEW e, NEW el, SetProvided(a, e, el) PROVE running'[a].at # "releasing"
    BY <1>1, <2>2 DEF SetProvided, OperationTypes, Busy, Idle
  <2> QED BY <1>2, <1>3, <1>4, <1>5, <2>1, <2>2 DEF Register, Takes, OwnedRelease
<1>6. CASE Release(a)
  BY <1>1, <1>2, <1>6 DEF OperationTypes, Release, Takes, Nothing, StartRelease, Busy, Idle, OwnedRelease
<1>7. CASE Reconcile(a) \/ Unplace(a) \/ ClearForStop(a)
  BY <1>2, <1>3, <1>4, <1>7 DEF Reconcile, Unplace, ClearForStop, Takes
<1>8. CASE HandleError(a)
  BY <1>1, <1>2, <1>8 DEF OperationTypes, HandleError, Takes, Nothing, Degrade, Busy, Idle
<1>9. CASE \/ FinishClear(a) \/ FinishRelease(a) \/ MountSucceeds(a) \/ MountFails(a)
           \/ FinishDegrade(a) \/ SignalSettles(a)
  BY <1>1, <1>2, <1>9
  DEF OperationTypes, FinishClear, FinishRelease, MountSucceeds, MountFails, FinishDegrade, SignalSettles,
      SetProvided, Degrade, Busy, Idle
<1> QED BY <1>5, <1>6, <1>7, <1>8, <1>9 DEF Operate

LEMMA NextOwned ==
  ASSUME TypeInv, OwnerInv, [Next]_vars
  PROVE  OwnerInv'
<1>1. OperationTypes
  BY DEF TypeInv, TypeOK, OperationTypes
<1>2. ASSUME NEW a \in Addresses, Operate(a) PROVE OwnerInv'
  BY <1>1, <1>2, OperateOwned, OperateOthers DEF OwnerInv, OwnedRelease
<1>3. ASSUME running' = running, NEW a \in Addresses,
             slots'[a].owner \in {slots[a].owner, None}
      PROVE  OwnedRelease(a)'
  BY <1>3 DEF OwnerInv, OwnedRelease
<1>4. CASE StopStep
  BY <1>3, <1>4 DEF StopStep, StopClears, StopResumes, StopFinishes, UnchangedByStop, NoSlot, OwnerInv
<1>5. ASSUME NEW e \in Experiences, NEW a \in Addresses, NEW x \in Addresses, NEW el \in Elements,
             ProvideSlot(e, a, x, el)
      PROVE  OwnerInv'
  <2>1. \A b \in Addresses : slots'[b].owner = slots[b].owner
    BY <1>1, <1>5 DEF ProvideSlot, OperationTypes
  <2> QED BY <1>3, <1>5, <2>1 DEF ProvideSlot, OwnerInv
<1>6. CASE UNCHANGED <<slots, running>>
  BY <1>6 DEF OwnerInv, OwnedRelease
<1>7. ASSUME NEW e \in Experiences, NEW a \in Addresses,
             \/ Place(e, a) \/ ReportError(e, a) \/ ReleaseSlot(e, a)
             \/ \E x \in Addresses, el \in Elements : LateProvideSlot(e, a, x, el)
      PROVE  UNCHANGED <<slots, running>>
  BY <1>7 DEF Place, ReportError, ReleaseSlot, LateProvideSlot, CallingBack
<1>8. Stop \/ Start \/ UNCHANGED vars => UNCHANGED <<slots, running>>
  BY DEF Stop, Start, UnchangedByStop, vars, slotVars
<1> QED BY <1>2, <1>4, <1>5, <1>6, <1>7, <1>8 DEF Next, Environment

\* ADR-068: a stale provider instance releases only what it still owns - a
\* requested release takes out of the map an entry of the instance that asked.
THEOREM ReleasesAreOwned == Spec => ReleasedByOwner
<1>1. Init => OwnerInv
  BY DEF Init, OwnerInv, OwnedRelease, Idle
<1>2. TypeInv /\ PlacementInv /\ OwnerInv /\ [Next]_vars => TypeInv' /\ PlacementInv' /\ OwnerInv'
  BY NextTyped, NextPlacement, NextOwned
<1> DEFINE Owned == \A x \in Addresses :
             running[x].at = "releasing" /\ running[x].op = "release"
               /\ slots[x].owner # None /\ slots'[x].owner = None
               => slots[x].owner = running[x].exp
<1>3. OwnerInv /\ [Next]_vars => [Owned]_vars
  BY DEF OwnerInv, OwnedRelease
<1> QED BY InitTyped, InitPlacement, <1>1, <1>2, <1>3, PTL DEF Spec, ReleasedByOwner

=============================================================================
