----------------------- MODULE LayoutRefinement_proofs -----------------------
(***************************************************************************)
(* The layout manager implements the abstract placement, for any           *)
(* experiences, addresses, routes and bounds.                              *)
(*                                                                         *)
(* An address's operation maps to one abstract step or to none: setting    *)
(* out when a teardown begins that will bind, showing when the bind sets   *)
(* the slot, clearing when the slot is emptied.  The invariant the mapping *)
(* rests on is that a teardown that will bind has something to bind.       *)
(***************************************************************************)
EXTENDS LayoutManager_proofs

IntentOf(a) ==
  IF running[a].at = "clearing" /\ running[a].then = "bind" THEN running[a].exp ELSE None

IntentInv == \A a \in Addresses :
  running[a].at = "clearing" /\ running[a].then = "bind" => running[a].exp # None

LEMMA EffectIntent ==
  ASSUME IntentInv, NEW a \in Addresses, Effect(a)
  PROVE  running'[a].at = "clearing" /\ running'[a].then = "bind" => running'[a].exp # None
BY DEF Effect, Rests, BeginsClear, BeginsRelease, BeginsDegrade, Provided, Empties, BeginsMount,
   Mounted, Failed, Dropped, Idle

LEMMA RunningKept ==
  ASSUME StopStep \/ Environment \/ UNCHANGED vars
  PROVE  running' = running
<1>1. CASE UNCHANGED vars
  BY <1>1 DEF vars, slotVars
<1>2. CASE StopStep \/ Stop \/ Start
  BY <1>2 DEF StopStep, StopClears, StopResumes, StopFinishes, Stop, Start, UnchangedByStop
<1>3. ASSUME NEW e \in Experiences, NEW a \in Addresses,
             Place(e, a) \/ ReportError(e, a) \/ ReleaseSlot(e, a)
      PROVE  running' = running
  BY <1>3 DEF Place, ReportError, ReleaseSlot, CallingBack
<1>4. ASSUME NEW e \in Experiences, NEW a \in Addresses, NEW x \in Addresses, NEW el \in Elements,
             ProvideSlot(e, a, x, el) \/ LateProvideSlot(e, a, x, el)
      PROVE  running' = running
  BY <1>4 DEF ProvideSlot, LateProvideSlot, CallingBack
<1> QED BY <1>1, <1>2, <1>3, <1>4 DEF Environment

LEMMA NextIntent == TypeInv /\ IntentInv /\ [Next]_vars => IntentInv'
<1> SUFFICES ASSUME TypeInv, IntentInv, [Next]_vars PROVE IntentInv'
  OBVIOUS
<1>1. ASSUME NEW a \in Addresses, Operate(a) PROVE IntentInv'
  <2>1. OperationTypes
    BY DEF TypeInv, TypeOK, OperationTypes
  <2>2. Effect(a)
    BY <1>1, <2>1, OperateEffect
  <2>3. \A b \in Addresses \ {a} : running'[b] = running[b]
    BY <1>1, <2>1, OperateOthers
  <2> QED BY <2>2, <2>3, EffectIntent DEF IntentInv
<1> QED BY <1>1, RunningKept DEF Next, IntentInv

-----------------------------------------------------------------------------
(***************************************************************************)
(* Steps.                                                                  *)
(***************************************************************************)
Shown == [a \in Addresses |-> slots[a].exp]
Intent == [a \in Addresses |-> IntentOf(a)]

\* What the abstract placement sees of a step.
AbstractStep ==
  \/ UNCHANGED <<desired, Intent, Shown>>
  \/ \E a \in Addresses :
       \/ \E e \in Experiences :
            /\ desired' = [b \in Addresses |->
                             IF b = a THEN e ELSE IF desired[b] = e THEN None ELSE desired[b]]
            /\ UNCHANGED <<Intent, Shown>>
       \/ /\ desired[a] # None /\ UNCHANGED desired
          /\ Intent' = [Intent EXCEPT ![a] = desired[a]]
          /\ UNCHANGED Shown \/ Shown' = [Shown EXCEPT ![a] = None]
       \/ /\ Intent[a] # None /\ UNCHANGED desired
          /\ Shown' = [Shown EXCEPT ![a] = Intent[a]]
          /\ Intent' = [Intent EXCEPT ![a] = None]
       \/ Shown' = [Shown EXCEPT ![a] = None] /\ UNCHANGED <<desired, Intent>>
  \/ /\ desired' = [a \in Addresses |-> None] /\ Shown' = [a \in Addresses |-> None]
     /\ UNCHANGED Intent

\* What an operation does to its own address, in the abstract.
LEMMA EffectAbstract ==
  ASSUME IntentInv, NEW a \in Addresses, Effect(a)
  PROVE  \/ IntentOf(a)' = IntentOf(a) /\ slots'[a].exp = slots[a].exp
         \/ /\ desired[a] # None /\ IntentOf(a)' = desired[a]
            /\ slots'[a].exp \in {slots[a].exp, None}
         \/ /\ IntentOf(a) # None /\ IntentOf(a)' = None
            /\ slots'[a].exp = IntentOf(a)
         \/ IntentOf(a)' = IntentOf(a) /\ slots'[a].exp = None
<1>1. CASE Rests(a) \/ BeginsRelease(a) \/ BeginsDegrade(a) \/ Mounted(a) \/ Failed(a) \/ Dropped(a)
  BY <1>1 DEF Rests, BeginsRelease, BeginsDegrade, Mounted, Failed, Dropped, Idle, IntentOf
<1>2. CASE BeginsClear(a)
  BY <1>2 DEF BeginsClear, SameSlot, Idle, IntentOf
<1>3. CASE Provided(a)
  BY <1>3 DEF Provided, Idle, IntentOf
<1>4. CASE Empties(a)
  BY <1>4 DEF Empties, Idle, IntentOf
<1>5. CASE BeginsMount(a)
  BY <1>5 DEF BeginsMount, IntentInv, IntentOf
<1> QED BY <1>1, <1>2, <1>3, <1>4, <1>5 DEF Effect

LEMMA OperateAbstract ==
  ASSUME TypeInv, IntentInv, NEW a \in Addresses, Operate(a)
  PROVE  AbstractStep
<1>1. OperationTypes
  BY DEF TypeInv, TypeOK, OperationTypes
<1>2. \A b \in Addresses \ {a} : IntentOf(b)' = IntentOf(b) /\ slots'[b].exp = slots[b].exp
  BY <1>1, OperateOthers DEF IntentOf
<1>3. desired' = desired
  BY OperateKeepsWanted DEF wantedVars
<1>4. ASSUME IntentOf(a)' = IntentOf(a) PROVE Intent' = Intent
  BY <1>2, <1>4 DEF Intent
<1>5. Intent' = [Intent EXCEPT ![a] = IntentOf(a)'] /\ Intent[a] = IntentOf(a)
  BY <1>2 DEF Intent
<1>6. ASSUME slots'[a].exp = slots[a].exp PROVE Shown' = Shown
  BY <1>2, <1>6 DEF Shown
<1>7. Shown' = [Shown EXCEPT ![a] = slots'[a].exp]
  BY <1>2 DEF Shown
<1>8. Effect(a)
  BY <1>1, OperateEffect
<1> HIDE DEF Intent, Shown, IntentOf
<1>9. CASE IntentOf(a)' = IntentOf(a) /\ slots'[a].exp = slots[a].exp
  BY <1>3, <1>4, <1>6, <1>9 DEF AbstractStep
<1>10. CASE desired[a] # None /\ IntentOf(a)' = desired[a] /\ slots'[a].exp \in {slots[a].exp, None}
  BY <1>3, <1>5, <1>6, <1>7, <1>10 DEF AbstractStep
<1>11. CASE IntentOf(a) # None /\ IntentOf(a)' = None /\ slots'[a].exp = IntentOf(a)
  BY <1>3, <1>5, <1>7, <1>11 DEF AbstractStep
<1>12. CASE IntentOf(a)' = IntentOf(a) /\ slots'[a].exp = None
  BY <1>3, <1>4, <1>7, <1>12 DEF AbstractStep
<1> QED BY <1>8, <1>9, <1>10, <1>11, <1>12, EffectAbstract

LEMMA PlaceAbstract ==
  ASSUME PlacementInv, NEW e \in Experiences, NEW a \in Addresses, Place(e, a)
  PROVE  AbstractStep
<1>1. UNCHANGED <<Intent, Shown>>
  BY DEF Place, Intent, IntentOf, Shown
<1>2. Pruned(e, a) \in [Addresses -> Optional(Experiences)]
  BY DEF Pruned, Moves, PlacementInv, MapsTyped, Optional
<1>3. ASSUME NEW b \in Addresses \ {a}
      PROVE  Pruned(e, a)[b] = IF desired[b] = e THEN None ELSE desired[b]
  <2>1. addressOf[e] = b <=> desired[b] = e
    BY DEF PlacementInv, IndexConsistent
  <2> QED BY <2>1, NoneDistinct DEF Pruned, Moves, PlacementInv, MapsTyped, Optional
<1>4. desired' = [Pruned(e, a) EXCEPT ![a] = e]
  BY DEF Place
<1>5. desired' = [b \in Addresses |->
                    IF b = a THEN e ELSE IF desired[b] = e THEN None ELSE desired[b]]
  BY <1>2, <1>3, <1>4
<1> QED BY <1>1, <1>5 DEF AbstractStep

LEMMA NextAbstract ==
  ASSUME TypeInv, PlacementInv, IntentInv, [Next]_vars
  PROVE  AbstractStep
<1>1. ASSUME UNCHANGED <<desired, running>>, \A b \in Addresses : slots'[b].exp = slots[b].exp
      PROVE  AbstractStep
  BY <1>1 DEF AbstractStep, Intent, IntentOf, Shown
<1>2. CASE UNCHANGED vars
  BY <1>1, <1>2 DEF vars, slotVars, wantedVars
<1>3. ASSUME NEW e \in Experiences, NEW a \in Addresses,
             \/ ReportError(e, a) \/ ReleaseSlot(e, a)
             \/ \E x \in Addresses, el \in Elements : LateProvideSlot(e, a, x, el)
      PROVE  AbstractStep
  BY <1>1, <1>3 DEF ReportError, ReleaseSlot, LateProvideSlot, CallingBack, wantedVars
<1>4. ASSUME NEW e \in Experiences, NEW a \in Addresses, NEW x \in Addresses, NEW el \in Elements,
             ProvideSlot(e, a, x, el)
      PROVE  AbstractStep
  <2>1. \A b \in Addresses : slots'[b].exp = slots[b].exp
    BY <1>4 DEF ProvideSlot, TypeInv, TypeOK, SlotRecord
  <2> QED BY <1>1, <1>4, <2>1 DEF ProvideSlot, wantedVars
<1>5. CASE Stop \/ Start \/ \E a \in Addresses : StopClears(a) \/ StopResumes(a)
  BY <1>1, <1>5 DEF Stop, Start, StopClears, StopResumes, UnchangedByStop, wantedVars
<1>6. CASE StopFinishes
  BY <1>6 DEF StopFinishes, UnchangedByStop, AbstractStep, Intent, IntentOf, Shown, NoSlot
<1> QED
  BY <1>2, <1>3, <1>4, <1>5, <1>6, OperateAbstract, PlaceAbstract DEF Next, Environment, StopStep

\* What the abstract placement sees is a step of its own, or none.
LEMMA AbstractNext == AbstractStep => [Placement!Next]_(Placement!vars)
BY DEF AbstractStep, Intent, IntentOf, Shown, Placement!Next, Placement!vars, Placement!Place,
   Placement!SetOut, Placement!Show, Placement!Clear, Placement!Shutdown

\* An address never shows an experience that was not wanted there when its
\* bind started: every behaviour of the layout manager, whatever is placed,
\* provided, released, stopped or fails, is one of the abstract placement.
THEOREM LayoutImplementsPlacement == Spec => ImplementsPlacement
<1>1. Init => TypeInv /\ PlacementInv /\ IntentInv
  BY InitTyped, InitPlacement DEF Init, IntentInv, Idle
<1>2. TypeInv /\ PlacementInv /\ IntentInv /\ [Next]_vars
        => TypeInv' /\ PlacementInv' /\ IntentInv'
  BY NextTyped, NextPlacement, NextIntent
<1>3. Init => Placement!Init
  BY DEF Init, Placement!Init, NoSlot, Idle
<1>4. TypeInv /\ PlacementInv /\ IntentInv /\ [Next]_vars => [Placement!Next]_(Placement!vars)
  BY NextAbstract, AbstractNext
<1> QED BY <1>1, <1>2, <1>3, <1>4, PTL DEF Spec, ImplementsPlacement, Placement!Spec

-----------------------------------------------------------------------------
(***************************************************************************)
(* The promise to the adaptors.  Before the first stop() the count of      *)
(* islands is the one the slot's unmount function accounts for (LeakInv),  *)
(* so a mount begins at an empty address and its unmount is of what was    *)
(* mounted.                                                                *)
(***************************************************************************)
EmptyHere == [at |-> "empty"]
IslandHere(at, e) == [at |-> at, exp |-> e]

\* What the mapping of ImplementsIslands shows at an address.
SeenAt(a) == IF stops = 0 THEN IslandAt(a) ELSE EmptyHere
Seen == [a \in Addresses |-> SeenAt(a)]

IslandStep(before, after) ==
  \/ after = before
  \/ before = EmptyHere /\ \E e \in Experiences : after = IslandHere("mounting", e)
  \/ \E e \in Experiences : before = IslandHere("mounting", e) /\ after = IslandHere("mounted", e)
  \/ before # EmptyHere /\ after = EmptyHere

\* The mapping, in terms of the unmount function the slot holds.
HeldAt(a) ==
  IF running[a].at = "mounting" THEN IslandHere("mounting", slots[a].exp)
  ELSE IF slots[a].mounted /\ running[a].at \notin {"clearing", "releasing", "degrading"}
         THEN IslandHere("mounted", slots[a].exp) ELSE EmptyHere

LEMMA HeldIsSeen ==
  ASSUME TypeInv, Leakless, NEW a \in Addresses
  PROVE  IslandAt(a) = HeldAt(a)
BY DEF Leakless, NoIslandLeaks, IslandAt, HeldAt, IslandHere, EmptyHere

\* Only experiences are mounted.
HeldInv == \A a \in Addresses : running[a].at = "mounting" => slots[a].exp \in Experiences

LEMMA EffectHeld ==
  ASSUME TypeInv, TypeInv', IntentInv, HeldInv, Leakless, NEW a \in Addresses, Effect(a)
  PROVE  /\ IslandStep(HeldAt(a), HeldAt(a)')
         /\ running'[a].at = "mounting" => slots'[a].exp \in Experiences
<1>1. /\ slots[a].mounted => Present(slots[a])
      /\ running[a].at = "mounting" => ~slots[a].mounted /\ Present(slots[a])
      /\ running[a] = Idle => running[a].at = "idle"
      /\ running'[a] = Idle => running'[a].at = "idle"
      /\ running[a].at = "mounting" => slots[a].exp \in Experiences
      /\ slots'[a].exp \in Experiences \cup {None}
  <2>1. slots'[a] \in SlotRecord
    BY DEF TypeInv, TypeOK
  <2>2. slots'[a].exp \in Experiences \cup {None}
    BY <2>1 DEF SlotRecord, Optional
  <2> QED BY <2>2 DEF TypeInv, IslandInv, Leakless, HeldInv, Idle
<1> USE <1>1
<1>2. CASE Rests(a)
  BY <1>2 DEF Rests, HeldAt, IslandStep
<1>3. CASE BeginsClear(a)
  BY <1>3 DEF BeginsClear, SameSlot, HeldAt, IslandStep, EmptyHere, IslandHere
<1>4. CASE BeginsRelease(a) \/ BeginsDegrade(a)
  BY <1>4 DEF BeginsRelease, BeginsDegrade, HeldAt, IslandStep, EmptyHere, IslandHere
<1>5. CASE Provided(a)
  BY <1>5 DEF Provided, HeldAt, IslandStep
<1>6. CASE Empties(a)
  BY <1>6 DEF Empties, HeldAt, IslandStep
<1>7. CASE BeginsMount(a)
  <2>1. slots'[a].exp \in Experiences
    BY <1>7 DEF BeginsMount, IntentInv
  <2> QED BY <1>7, <2>1 DEF BeginsMount, HeldAt, IslandStep
<1>8. CASE Mounted(a)
  BY <1>8 DEF Mounted, HeldAt, IslandStep
<1>9. CASE Failed(a)
  BY <1>9 DEF Failed, HeldAt, IslandStep, EmptyHere, IslandHere
<1>10. CASE Dropped(a)
  BY <1>10 DEF Dropped, HeldAt, IslandStep, EmptyHere, IslandHere
<1> QED BY <1>2, <1>3, <1>4, <1>5, <1>6, <1>7, <1>8, <1>9, <1>10 DEF Effect

\* What a step does to the islands: nothing, one thing at one address, or the
\* end of the promise.
SeenStep ==
  \/ UNCHANGED Seen
  \/ \E a \in Addresses : /\ IslandStep(Seen[a], Seen'[a])
                          /\ Seen' = [Seen EXCEPT ![a] = Seen'[a]]
  \/ Seen' = [a \in Addresses |-> EmptyHere]

\* The steps that are no operation leave the islands where they are.
LEMMA IslandsKept ==
  ASSUME TypeInv, StopStep \/ Environment \/ UNCHANGED vars, stops = 0 => phase = "started"
  PROVE  /\ running' = running
         /\ stops = 0 => /\ live' = live
                         /\ \A b \in Addresses : slots'[b].exp = slots[b].exp
<1>1. running' = running
  BY RunningKept
<1> SUFFICES ASSUME stops = 0
             PROVE  live' = live /\ \A b \in Addresses : slots'[b].exp = slots[b].exp
  BY <1>1
<1>2. CASE UNCHANGED vars
  BY <1>2 DEF vars, slotVars
<1>3. CASE Stop \/ Start \/ StopStep
  BY <1>3 DEF Stop, Start, StopStep, StopClears, StopResumes, StopFinishes, UnchangedByStop
<1>4. ASSUME NEW e \in Experiences, NEW a \in Addresses,
             \/ Place(e, a) \/ ReportError(e, a) \/ ReleaseSlot(e, a)
             \/ \E x \in Addresses, el \in Elements : LateProvideSlot(e, a, x, el)
      PROVE  live' = live /\ slots' = slots
  BY <1>4 DEF Place, ReportError, ReleaseSlot, LateProvideSlot, CallingBack
<1>5. ASSUME NEW e \in Experiences, NEW a \in Addresses, NEW x \in Addresses, NEW el \in Elements,
             ProvideSlot(e, a, x, el)
      PROVE  live' = live /\ \A b \in Addresses : slots'[b].exp = slots[b].exp
  BY <1>5 DEF ProvideSlot, TypeInv, TypeOK, SlotRecord
<1> QED BY <1>2, <1>3, <1>4, <1>5 DEF Environment

LEMMA NextSeen ==
  ASSUME TypeInv, TypeInv', LeakInv, LeakInv', IntentInv, stops = 0 => HeldInv, [Next]_vars
  PROVE  SeenStep /\ (stops' = 0 => HeldInv')
<1>0. stops \in Nat /\ stops' \in {stops, stops + 1}
  BY StopsGrow DEF TypeInv, TypeOK
<1>1. CASE stops # 0
  <2>1. stops' # 0
    BY <1>0, <1>1
  <2> QED BY <1>1, <2>1 DEF SeenStep, Seen, SeenAt
<1>2. CASE stops = 0 /\ stops' # 0
  BY <1>2 DEF SeenStep, Seen, SeenAt
<1>3. CASE stops = 0 /\ stops' = 0
  <2>1. Leakless /\ Leakless' /\ HeldInv
    BY <1>3 DEF LeakInv
  <2>2. \A b \in Addresses : Seen[b] = HeldAt(b) /\ Seen'[b] = HeldAt(b)'
    <3>1. \A b \in Addresses : IslandAt(b) = HeldAt(b)
      BY <2>1, HeldIsSeen
    <3>2. \A b \in Addresses : IslandAt(b)' = HeldAt(b)'
      BY <2>1 DEF Leakless, NoIslandLeaks, IslandAt, HeldAt, IslandHere, EmptyHere
    <3> QED BY <1>3, <3>1, <3>2 DEF Seen, SeenAt
  <2>3. ASSUME NEW a \in Addresses, Operate(a) PROVE SeenStep /\ HeldInv'
    <3>1. OperationTypes
      BY DEF TypeInv, TypeOK, OperationTypes
    <3>2. /\ IslandStep(HeldAt(a), HeldAt(a)')
          /\ running'[a].at = "mounting" => slots'[a].exp \in Experiences
      BY <2>1, <2>3, <3>1, OperateEffect, EffectHeld
    <3>3. \A b \in Addresses \ {a} :
            /\ running'[b] = running[b] /\ slots'[b].exp = slots[b].exp
            /\ HeldAt(b)' = HeldAt(b)
      BY <2>3, <3>1, OperateOthers DEF HeldAt
    <3>4. Seen' = [Seen EXCEPT ![a] = Seen'[a]]
      <4>1. \A b \in Addresses \ {a} : Seen'[b] = Seen[b]
        BY <2>2, <3>3
      <4> QED BY <4>1 DEF Seen
    <3> QED BY <2>1, <2>2, <3>2, <3>3, <3>4 DEF SeenStep, HeldInv
  <2>4. CASE StopStep \/ Environment \/ UNCHANGED vars
    <3>1. phase = "started"
      BY <2>1 DEF Leakless
    <3>2. /\ running' = running /\ live' = live
          /\ \A b \in Addresses : slots'[b].exp = slots[b].exp
      BY <1>3, <2>4, <3>1, IslandsKept
    <3>3. Seen' = Seen
      BY <1>3, <3>2 DEF Seen, SeenAt, IslandAt
    <3> QED BY <2>1, <3>2, <3>3 DEF SeenStep, HeldInv
  <2> QED BY <1>3, <2>3, <2>4 DEF Next
<1> QED BY <1>0, <1>1, <1>2, <1>3

LEMMA SeenNext == SeenStep => [Islands!Next]_(Seen)
<1> SUFFICES ASSUME SeenStep, Seen' # Seen PROVE Islands!Next
  OBVIOUS
<1>1. Seen = [a \in Addresses |-> IF stops = 0 THEN IslandAt(a) ELSE [at |-> "empty"]]
  BY DEF Seen, SeenAt, EmptyHere
<1>2. CASE Seen' = [a \in Addresses |-> EmptyHere]
  BY <1>2 DEF Seen, SeenAt, EmptyHere, Islands!Next, Islands!Ends, Islands!Empty
<1>3. CASE \E a \in Addresses : /\ IslandStep(Seen[a], Seen'[a])
                                /\ Seen' = [Seen EXCEPT ![a] = Seen'[a]]
  <2>1. PICK a \in Addresses : /\ IslandStep(Seen[a], Seen'[a])
                               /\ Seen' = [Seen EXCEPT ![a] = Seen'[a]]
    BY <1>3
  <2>2. Seen'[a] # Seen[a]
    BY <2>1 DEF Seen
  <2>3. \/ /\ Seen[a] = EmptyHere
           /\ \E e \in Experiences : Seen' = [Seen EXCEPT ![a] = IslandHere("mounting", e)]
        \/ \E e \in Experiences : /\ Seen[a] = IslandHere("mounting", e)
                                  /\ Seen' = [Seen EXCEPT ![a] = IslandHere("mounted", e)]
        \/ Seen[a] # EmptyHere /\ Seen' = [Seen EXCEPT ![a] = EmptyHere]
    <3> HIDE DEF Seen
    <3> QED BY <2>1, <2>2 DEF IslandStep
  <2> QED
    BY <2>3 DEF Seen, SeenAt, EmptyHere, IslandHere, Islands!Next, Islands!Mounts, Islands!Settles,
                Islands!Leaves, Islands!Empty, Islands!Island
<1> QED BY <1>2, <1>3 DEF SeenStep

\* Until the manager is first stopped, an adaptor is asked to mount only where
\* nothing is mounted or being mounted, and what it mounted is unmounted once
\* before the next mount, whatever is placed, provided, released or fails.
THEOREM LayoutImplementsIslands == Spec => ImplementsIslands
<1> DEFINE IInv == /\ TypeInv /\ PlacementInv /\ IntentInv /\ LeakInv
                   /\ (stops = 0 => HeldInv)
<1>1. Init => IInv
  BY InitTyped, InitPlacement, InitLeak DEF Init, IntentInv, HeldInv, Idle
<1>2. IInv /\ [Next]_vars => IInv' /\ SeenStep
  BY NextTyped, NextPlacement, NextIntent, NextLeak, NextSeen
<1>3. Init => Islands!Init
  BY DEF Init, Islands!Init, Islands!Empty, IslandAt, NoSlot, Idle
<1>4. SeenStep => [Islands!Next]_([a \in Addresses |-> IF stops = 0 THEN IslandAt(a)
                                                     ELSE [at |-> "empty"]])
  BY SeenNext DEF Seen, SeenAt, EmptyHere
<1> HIDE DEF IInv
<1> QED BY <1>1, <1>2, <1>3, <1>4, PTL DEF Spec, ImplementsIslands, Islands!Spec

=============================================================================
