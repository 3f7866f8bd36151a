------------------------ MODULE FederatedMount_proofs ------------------------
(***************************************************************************)
(* Theorems about FederatedMount for any addresses, experiences, kinds of  *)
(* remote and number of binds.                                             *)
(*                                                                         *)
(* QueueInv says that the mount under way is the head of its queue;        *)
(* PointInv that every mount has a mount point of its own.  On QueueInv    *)
(* rests LifeInv: who holds the lifecycle of the instance.  On PointInv    *)
(* rests RootInv: whose element a root was made on.                        *)
(***************************************************************************)
EXTENDS FederatedMount, TLAPS

Active(a) == run[a].stage \notin {"idle", "queued"}

QueueInv ==
  /\ \A k \in 1..Len(queue) : run[queue[k]].stage # "idle"
  /\ \A k, l \in 1..Len(queue) : queue[k] = queue[l] => k = l
  /\ \A a \in Addresses : run[a].stage # "idle" => \E k \in 1..Len(queue) : queue[k] = a
  /\ \A a \in Addresses : Active(a) => queue[1] = a
  /\ \A a \in Addresses : run[a].stage # "idle" <=> slot[a].status = "pending"

\* The number of the mount point of a's placement.
Name(a) == IF run[a].stage = "queued" THEN run[a].point ELSE point[a]

PointInv ==
  /\ \A a \in Addresses : Name(a) \in 0..binds
  /\ \A a \in Addresses : Name(a) = 0 <=> slot[a].status \in {"free", "error"}
  /\ \A a, b \in Addresses : Name(a) = Name(b) /\ Name(a) # 0 => a = b
  /\ \A a \in Addresses : run[a].stage = "queued" => point[a] = 0
  /\ \A a \in Addresses : Active(a) => point[a] = run[a].point
  /\ \A a \in Addresses : run[a].stage = "paint" => run[a].root # 0

LifeInv ==
  /\ \A a \in Addresses : run[a].stage \in LoadStages =>
       state = "loading" /\ kind = "reloading"
  /\ \A a \in Addresses : run[a].stage \in RenderStages =>
       state = "rendering" /\ (kind = "reloading" \/ bootstrap = "done")
  /\ \A a \in Addresses : run[a].stage = "ready" /\ kind = "reloading" =>
       state # "uninitialized"
  /\ kind = "reloading" => bootstrap = "none"
  /\ bootstrap \in LoadStages => state = "loading"
  /\ state = "loading" =>
       bootstrap \in LoadStages \/ \E a \in Addresses : run[a].stage \in LoadStages
  /\ state = "rendering" => \E a \in Addresses : run[a].stage \in RenderStages
  /\ bootstrap = "done" => state # "uninitialized"
  /\ kind # "reloading" /\ bootstrap = "none" => state = "uninitialized"

LoadInv ==
  kind # "reloading" =>
    /\ components => bootstrap = "done" /\ container = "initialised"
    /\ \A a \in Addresses :
         run[a].stage \in {"component", "root", "paint"} \/ slot[a].result = "rendered"
           => components

Unshared ==
  \A a, b \in Addresses :
    /\ slot[a].exp = slot[b].exp
    /\ slot[a].status # "free"
    /\ slot[b].status # "free"
    => a = b

RootInv ==
  /\ Unshared
  /\ RootsBelongToSlots
  /\ ReadyShowsContent
  /\ ReleasesRoots =>
       \A a \in Addresses :
         /\ run[a].stage \notin {"idle", "paint"} => rootOf[slot[a].exp] = 0
         /\ run[a].stage = "paint" => run[a].root = point[a]

Inv == TypeOK /\ QueueInv /\ PointInv /\ LifeInv /\ LoadInv /\ RootInv

-----------------------------------------------------------------------------
(***************************************************************************)
(* The kinds of step a mount takes, for what the queue and the points see. *)
(***************************************************************************)
Advances(a) ==
  /\ Active(a)
  /\ \E r \in RunRecord :
       /\ r.stage \notin {"idle", "queued"}
       /\ r.point = run[a].point
       /\ r.stage = "paint" => r.root # 0
       /\ run' = [run EXCEPT ![a] = r]
  /\ UNCHANGED <<slot, queue, point, binds>>

Ends(a) ==
  /\ Active(a)
  /\ Dequeue(a)
  /\ UNCHANGED binds
  /\ \/ /\ slot' = [slot EXCEPT ![a].status = "error"]
        /\ point' = [point EXCEPT ![a] = 0]
     \/ /\ \E r \in Results : slot' = [slot EXCEPT ![a].status = "ready", ![a].result = r]
        /\ UNCHANGED point

\* Every step of a mount is its start, goes on, or ends it.
LEMMA MountStepKinds ==
  ASSUME TypeOK, QueueInv, PointInv, NEW a \in Addresses, MountStep(a)
  PROVE  Start(a) \/ Advances(a) \/ Ends(a)
<1>1. run[a] \in RunRecord /\ run \in [Addresses -> RunRecord] /\ point \in [Addresses -> 0..MaxBinds]
      /\ rootOf \in [Experiences -> 0..MaxBinds] /\ slot[a].exp \in Experiences
  BY DEF TypeOK, SlotRecord
<1>2. ASSUME NEW st \in Stages \ {"idle", "queued", "paint"}, Active(a), Goes(a, st),
             UNCHANGED <<slot, queue, point, binds>>
      PROVE  Advances(a)
  <2> DEFINE r == [run[a] EXCEPT !.stage = st]
  <2>1. r \in RunRecord /\ r.stage = st /\ r.point = run[a].point
    BY <1>1, <1>2 DEF RunRecord
  <2>2. run' = [run EXCEPT ![a] = r]
    BY <1>1, <1>2 DEF Goes
  <2> HIDE DEF r
  <2> QED BY <1>2, <2>1, <2>2 DEF Advances
<1>3. ASSUME NEW p \in 0..MaxBinds \ {0}, Active(a),
             run' = [run EXCEPT ![a].stage = "paint", ![a].root = p],
             UNCHANGED <<slot, queue, point, binds>>
      PROVE  Advances(a)
  <2> DEFINE r == [run[a] EXCEPT !.stage = "paint", !.root = p]
  <2>1. r \in RunRecord /\ r.stage = "paint" /\ r.point = run[a].point /\ r.root # 0
    BY <1>1, <1>3 DEF RunRecord, Stages
  <2>2. run' = [run EXCEPT ![a] = r]
    BY <1>1, <1>3
  <2> HIDE DEF r
  <2> QED BY <1>3, <2>1, <2>2 DEF Advances
<1>4. CASE Start(a)
  BY <1>4
<1>5. CASE Fetched(a)
  <2>1. Active(a) /\ UNCHANGED <<slot, queue, point, binds>> /\ (Goes(a, "entry") \/ Goes(a, "ready"))
    BY <1>5 DEF Fetched, Active
  <2> QED BY <2>1, <1>2 DEF Stages
<1>6. CASE OwnLoad(a)
  <2>1. Active(a) /\ UNCHANGED <<slot, queue, point, binds>> /\ (Goes(a, "init") \/ Goes(a, "ready"))
    BY <1>6 DEF OwnLoad, Active, LoadStages
  <2> QED BY <2>1, <1>2 DEF Stages
<1>7. CASE Render(a) \/ RenderBegins(a)
  <2>1. Active(a) /\ UNCHANGED <<slot, queue, point, binds>> /\ (Goes(a, "hooks") \/ Goes(a, "component"))
    BY <1>7 DEF Render, RenderBegins, Loaded, Active
  <2> QED BY <2>1, <1>2 DEF Stages
<1>8. CASE ComponentLoaded(a)
  <2> DEFINE old == rootOf[slot[a].exp]
  <2>1. Active(a) /\ UNCHANGED <<slot, queue, point, binds>>
    BY <1>8 DEF ComponentLoaded, Active
  <2>2. CASE kind # "angular" /\ old # 0
    <3>1. run' = [run EXCEPT ![a].stage = "paint", ![a].root = old]
      BY <1>8, <2>2 DEF ComponentLoaded
    <3> QED BY <1>1, <1>3, <2>1, <2>2, <3>1
  <2>3. CASE ~(kind # "angular" /\ old # 0)
    <3>1. Goes(a, "root")
      BY <1>8, <2>3 DEF ComponentLoaded
    <3> QED BY <1>2, <2>1, <3>1 DEF Stages
  <2> QED BY <2>2, <2>3
<1>9. CASE RootCreated(a)
  <2>1. Active(a)
    BY <1>9 DEF RootCreated, Active
  <2>2. point[a] \in 0..MaxBinds \ {0}
    BY <1>1, <2>1 DEF Active, PointInv, QueueInv, Name
  <2> QED BY <1>9, <1>3, <2>1, <2>2 DEF RootCreated, Element
<1>10. CASE FetchFails(a) \/ OwnLoadThrows(a) \/ RenderRefused(a) \/ HookThrows(a)
  BY <1>10 DEF FetchFails, OwnLoadThrows, RenderRefused, HookThrows, Rejects,
               Loaded, Ends, Active
<1>11. CASE RenderFails(a) \/ Paint(a) \/ AngularBoots(a) \/ AngularFallback(a)
  BY <1>11 DEF RenderFails, Paint, AngularBoots, AngularFallback, Returns, Ends, Active,
               RenderStages, Results
<1> QED BY <1>4, <1>5, <1>6, <1>7, <1>8, <1>9, <1>10, <1>11 DEF MountStep

-----------------------------------------------------------------------------
(***************************************************************************)
(* The queue.                                                              *)
(***************************************************************************)
LEMMA InitQueue == Init => QueueInv
BY DEF Init, QueueInv, NoRun, Active

\* What every action but Bind, Ends and Start does to the queue.
LEMMA KeepsQueue ==
  ASSUME TypeOK, QueueInv, UNCHANGED queue,
         \A b \in Addresses :
           /\ run'[b].stage = "idle" <=> run[b].stage = "idle"
           /\ slot'[b].status = "pending" <=> slot[b].status = "pending"
           /\ Active(b)' => Active(b) \/ queue[1] = b
  PROVE  QueueInv'
<1>1. \A k \in 1..Len(queue) : queue[k] \in Addresses
  BY DEF TypeOK
<1> QED BY <1>1 DEF QueueInv

LEMMA BindQueue ==
  ASSUME TypeOK, QueueInv, NEW a \in Addresses, NEW e \in Experiences, Bind(a, e)
  PROVE  QueueInv'
<1>1. /\ run \in [Addresses -> RunRecord] /\ slot \in [Addresses -> SlotRecord]
      /\ queue \in Seq(Addresses)
  BY DEF TypeOK
<1>2. run[a].stage = "idle"
  BY DEF Bind, QueueInv
<1>3. /\ run'[a].stage = "queued" /\ slot'[a].status = "pending"
      /\ \A b \in Addresses \ {a} : run'[b] = run[b] /\ slot'[b] = slot[b]
  BY <1>1 DEF Bind, NoRun
<1>4. /\ Len(queue') = Len(queue) + 1 /\ queue'[Len(queue) + 1] = a
      /\ \A k \in 1..Len(queue) : queue'[k] = queue[k] /\ queue[k] \in Addresses /\ queue[k] # a
  BY <1>1, <1>2 DEF Bind, QueueInv
<1>5. Len(queue) \in Nat
  BY <1>1
<1>6. \A k \in 1..Len(queue') : run'[queue'[k]].stage # "idle"
  BY <1>3, <1>4, <1>5 DEF QueueInv
<1>7. \A k, l \in 1..Len(queue') : queue'[k] = queue'[l] => k = l
  BY <1>4, <1>5 DEF QueueInv
<1>8. ASSUME NEW b \in Addresses, run'[b].stage # "idle"
      PROVE  \E k \in 1..Len(queue') : queue'[k] = b
  <2>1. CASE b = a
    BY <1>4, <1>5, <2>1
  <2>2. CASE b # a
    <3> PICK k \in 1..Len(queue) : queue[k] = b
      BY <1>3, <1>8, <2>2 DEF QueueInv
    <3> QED BY <1>4, <1>5
  <2> QED BY <2>1, <2>2
<1>9. ASSUME NEW b \in Addresses, Active(b)'
      PROVE  queue'[1] = b
  <2>1. b # a /\ Active(b)
    BY <1>3, <1>9 DEF Active
  <2>2. \E k \in 1..Len(queue) : queue[k] = b
    BY <2>1 DEF QueueInv, Active
  <2> QED BY <1>4, <1>5, <2>1, <2>2 DEF QueueInv
<1>10. \A b \in Addresses : run'[b].stage # "idle" <=> slot'[b].status = "pending"
  BY <1>3 DEF QueueInv
<1> QED BY <1>6, <1>7, <1>8, <1>9, <1>10 DEF QueueInv

LEMMA EndsQueue ==
  ASSUME TypeOK, QueueInv, NEW a \in Addresses, Ends(a)
  PROVE  QueueInv'
<1>1. /\ run \in [Addresses -> RunRecord] /\ slot \in [Addresses -> SlotRecord]
      /\ queue \in Seq(Addresses)
  BY DEF TypeOK
<1>2. Len(queue) >= 1 /\ queue[1] = a /\ Len(queue) \in Nat
  BY <1>1 DEF Ends, QueueInv, Active
<1>3. /\ run'[a].stage = "idle" /\ slot'[a].status # "pending"
      /\ \A b \in Addresses \ {a} : run'[b] = run[b] /\ slot'[b] = slot[b]
  BY <1>1 DEF Ends, Dequeue, NoRun, SlotRecord
<1>4. /\ Len(queue') = Len(queue) - 1
      /\ \A k \in 1..(Len(queue) - 1) : queue'[k] = queue[k + 1] /\ queue[k + 1] \in Addresses
  BY <1>1, <1>2 DEF Ends, Dequeue
<1>5. \A k \in 1..(Len(queue) - 1) : queue[k + 1] # a
  BY <1>2 DEF QueueInv
<1>6. \A k \in 1..Len(queue') : run'[queue'[k]].stage # "idle"
  BY <1>2, <1>3, <1>4, <1>5 DEF QueueInv
<1>7. \A k, l \in 1..Len(queue') : queue'[k] = queue'[l] => k = l
  BY <1>2, <1>4 DEF QueueInv
<1>8. ASSUME NEW b \in Addresses, run'[b].stage # "idle"
      PROVE  \E k \in 1..Len(queue') : queue'[k] = b
  <2>1. b # a
    BY <1>3, <1>8
  <2> PICK k \in 1..Len(queue) : queue[k] = b
    BY <1>3, <1>8, <2>1 DEF QueueInv
  <2>2. k - 1 \in 1..Len(queue')
    BY <1>2, <1>4, <2>1
  <2> QED BY <1>2, <1>4, <2>2
<1>9. \A b \in Addresses : ~Active(b)'
  BY <1>2, <1>3 DEF QueueInv, Active
<1>10. \A b \in Addresses : run'[b].stage # "idle" <=> slot'[b].status = "pending"
  BY <1>3 DEF QueueInv
<1> QED BY <1>6, <1>7, <1>8, <1>9, <1>10 DEF QueueInv

LEMMA NextQueue == TypeOK /\ QueueInv /\ PointInv /\ [Next]_vars => QueueInv'
<1> SUFFICES ASSUME TypeOK, QueueInv, PointInv, [Next]_vars PROVE QueueInv'
  OBVIOUS
<1>1. /\ run \in [Addresses -> RunRecord] /\ slot \in [Addresses -> SlotRecord]
  BY DEF TypeOK
<1>2. CASE BootstrapLoad \/ UNCHANGED vars
  BY <1>2, KeepsQueue DEF BootstrapLoad, vars, Active
<1>3. ASSUME NEW a \in Addresses, MountStep(a) PROVE QueueInv'
  <2>1. CASE Start(a)
    BY <1>1, <2>1, KeepsQueue DEF Start, Goes, Active, RunRecord
  <2>2. CASE Advances(a)
    <3>1. /\ run'[a].stage \notin {"idle", "queued"} /\ run[a].stage # "idle"
          /\ \A b \in Addresses \ {a} : run'[b] = run[b]
          /\ queue[1] = a /\ UNCHANGED <<queue, slot>>
      BY <1>1, <2>2 DEF Advances, Active, QueueInv
    <3> QED BY <3>1, KeepsQueue DEF Active
  <2>3. CASE Ends(a)
    BY <2>3, EndsQueue
  <2> QED BY <1>3, <2>1, <2>2, <2>3, MountStepKinds
<1>4. ASSUME NEW a \in Addresses, HostStep(a) PROVE QueueInv'
  <2>1. ASSUME NEW e \in Experiences, Bind(a, e) PROVE QueueInv'
    BY <2>1, BindQueue
  <2>2. CASE Clear(a) \/ Degrade(a) \/ ClearFallback(a)
    <3>1. /\ UNCHANGED <<queue, run>>
          /\ \A b \in Addresses : slot'[b].status = "pending" <=> slot[b].status = "pending"
      BY <1>1, <2>2 DEF Clear, Degrade, ClearFallback, TearDown, SlotRecord
    <3> QED BY <3>1, KeepsQueue DEF Active
  <2> QED BY <1>4, <2>1, <2>2 DEF HostStep
<1> QED BY <1>2, <1>3, <1>4 DEF Next

-----------------------------------------------------------------------------
(***************************************************************************)
(* Types.                                                                  *)
(***************************************************************************)
LEMMA NoRunTyped == NoRun \in RunRecord /\ 0 \in 0..MaxBinds
<1>1. 0 \in 0..MaxBinds
  BY MaxBindsAssumption
<1> QED BY <1>1 DEF NoRun, RunRecord, Stages

LEMMA InitTypeOK == Init => TypeOK
<1> SUFFICES ASSUME Init PROVE TypeOK
  OBVIOUS
<1>1. slot \in [Addresses -> SlotRecord]
  BY DEF Init, SlotRecord, Results
<1>2. queue \in Seq(Addresses)
  BY DEF Init
<1> QED BY <1>1, <1>2, NoRunTyped DEF Init, TypeOK

\* Fields of the records that every step keeps typed.
LEMMA RunTyped ==
  ASSUME TypeOK, QueueInv, PointInv, NEW a \in Addresses, MountStep(a)
  PROVE  /\ run' \in [Addresses -> RunRecord]
         /\ slot' \in [Addresses -> SlotRecord]
         /\ point' \in [Addresses -> 0..MaxBinds]
         /\ queue' \in Seq(Addresses)
         /\ binds' = binds
<1>1. /\ run \in [Addresses -> RunRecord] /\ slot \in [Addresses -> SlotRecord]
      /\ point \in [Addresses -> 0..MaxBinds] /\ queue \in Seq(Addresses) /\ MaxBinds \in Nat
  BY MaxBindsAssumption DEF TypeOK
<1>2. CASE Start(a)
  BY <1>1, <1>2 DEF Start, Goes, RunRecord, Stages
<1>3. CASE Advances(a)
  BY <1>1, <1>3 DEF Advances
<1>4. CASE Ends(a)
  <2>1. queue # <<>>
    BY <1>1, <1>4 DEF Ends, Active, QueueInv
  <2>2. NoRun \in RunRecord
    BY <1>1 DEF NoRun, RunRecord, Stages
  <2>3. slot' \in [Addresses -> SlotRecord] /\ point' \in [Addresses -> 0..MaxBinds]
    <3>1. CASE /\ slot' = [slot EXCEPT ![a].status = "error"]
               /\ point' = [point EXCEPT ![a] = 0]
      <4>1. [slot[a] EXCEPT !.status = "error"] \in SlotRecord
        BY <1>1 DEF SlotRecord
      <4> QED BY <1>1, <3>1, <4>1
    <3>2. ASSUME NEW r \in Results, UNCHANGED point,
                 slot' = [slot EXCEPT ![a].status = "ready", ![a].result = r]
          PROVE  slot' \in [Addresses -> SlotRecord] /\ point' \in [Addresses -> 0..MaxBinds]
      <4> DEFINE s == [slot[a] EXCEPT !.status = "ready", !.result = r]
      <4>1. s \in SlotRecord
        BY <1>1 DEF SlotRecord
      <4>2. slot' = [slot EXCEPT ![a] = s]
        BY <1>1, <3>2
      <4> HIDE DEF s
      <4> QED BY <1>1, <3>2, <4>1, <4>2
    <3> QED BY <1>4, <3>1, <3>2 DEF Ends
  <2> QED BY <1>1, <1>4, <2>1, <2>2, <2>3 DEF Ends, Dequeue
<1> QED BY <1>2, <1>3, <1>4, MountStepKinds

LEMMA MountStepTypeOK ==
  ASSUME TypeOK, QueueInv, PointInv, NEW a \in Addresses, MountStep(a)
  PROVE  TypeOK'
<1> DEFINE states == {"uninitialized", "loading", "ready", "rendering", "error"}
<1>1. /\ rootOf \in [Experiences -> 0..MaxBinds] /\ painted \subseteq Points
      /\ slot[a].exp \in Experiences /\ MaxBinds \in Nat
  BY MaxBindsAssumption DEF TypeOK, SlotRecord
<1>2. run[a] \in RunRecord /\ point[a] \in 0..MaxBinds
  BY DEF TypeOK
<1>3. kind' = kind /\ state' \in states /\ bootstrap' \in {"none", "entry", "init", "done"}
  <2>1. CASE Start(a) \/ Fetched(a) \/ FetchFails(a) \/ OwnLoad(a) \/ OwnLoadThrows(a)
    BY <2>1 DEF TypeOK, Start, Fetched, FetchFails, OwnLoad, OwnLoadThrows, FetchesContainer,
                LoadStatusError, InitsContainer, LoadThrows
  <2>2. CASE Render(a) \/ RenderRefused(a) \/ HookThrows(a) \/ RenderBegins(a)
    BY <2>2 DEF TypeOK, Render, RenderRefused, HookThrows, RenderBegins
  <2>3. CASE RenderFails(a) \/ ComponentLoaded(a) \/ RootCreated(a) \/ Paint(a)
             \/ AngularBoots(a) \/ AngularFallback(a)
    BY <2>3 DEF TypeOK, RenderFails, ComponentLoaded, RootCreated, Paint, AngularBoots,
                AngularFallback, Returns
  <2> QED BY <2>1, <2>2, <2>3 DEF MountStep
<1>4. container' \in {"none", "fetched", "initialised"} /\ components' \in BOOLEAN
  <2>1. CASE OwnLoad(a) \/ OwnLoadThrows(a)
    BY <2>1 DEF TypeOK, OwnLoad, OwnLoadThrows, FetchesContainer, LoadStatusError,
                InitsContainer, LoadThrows, remote
  <2>2. CASE UNCHANGED remote
    BY <2>2 DEF TypeOK, remote
  <2> QED
    BY <2>1, <2>2 DEF MountStep, Start, Fetched, FetchFails, Render, RenderRefused, HookThrows,
       RenderBegins, RenderFails, ComponentLoaded, RootCreated, Paint, AngularBoots, AngularFallback
<1>5. rootOf' \in [Experiences -> 0..MaxBinds] /\ painted' \subseteq Points
  <2>1. CASE ComponentLoaded(a)
    BY <1>1, <2>1 DEF ComponentLoaded, Release
  <2>2. CASE RootCreated(a)
    BY <1>1, <1>2, <2>2 DEF RootCreated, Element
  <2>3. CASE Paint(a)
    <3>1. run[a].root # 0
      BY <2>3 DEF Paint, PointInv
    <3>2. run[a].root \in Points
      BY <1>1, <1>2, <3>1 DEF RunRecord, Points
    <3> QED BY <1>1, <2>3, <3>2 DEF Paint
  <2>4. CASE AngularBoots(a)
    <3>1. point[a] # 0
      BY <2>4 DEF AngularBoots, Active, PointInv, QueueInv, Name
    <3>2. point[a] \in Points
      BY <1>1, <1>2, <3>1 DEF Points
    <3> QED BY <1>1, <1>2, <2>4, <3>2 DEF AngularBoots, Element
  <2>5. CASE UNCHANGED <<rootOf, painted>>
    BY <1>1, <2>5
  <2> QED
    BY <2>1, <2>2, <2>3, <2>4, <2>5 DEF MountStep, Start, Fetched, FetchFails, OwnLoad,
       OwnLoadThrows, Render, RenderRefused, HookThrows, RenderBegins, RenderFails,
       AngularFallback, Rejects
<1> QED BY <1>3, <1>4, <1>5, RunTyped DEF TypeOK

LEMMA HostStepTypeOK ==
  ASSUME TypeOK, NEW a \in Addresses, HostStep(a)
  PROVE  TypeOK'
<1>1. MaxBinds \in Nat
  BY MaxBindsAssumption
<1>2. ASSUME NEW e \in Experiences, Bind(a, e) PROVE TypeOK'
  <2>1. [exp |-> e, status |-> "pending", result |-> "none"] \in SlotRecord
    BY DEF SlotRecord, Results
  <2>2. binds' \in 0..MaxBinds
    BY <1>1, <1>2 DEF Bind, TypeOK
  <2>3. [NoRun EXCEPT !.stage = "queued", !.point = binds + 1] \in RunRecord
    BY <1>2, <2>2, NoRunTyped DEF Bind, RunRecord, Stages
  <2>4. queue' \in Seq(Addresses)
    BY <1>2 DEF Bind, TypeOK
  <2> QED BY <1>2, <2>1, <2>2, <2>3, <2>4 DEF Bind, TypeOK, remote
<1>3. ASSUME NEW st \in {"free", "error"}, TearDown(a, st) PROVE TypeOK'
  <2>1. slot' \in [Addresses -> SlotRecord]
    BY <1>3 DEF TearDown, TypeOK, SlotRecord, Results
  <2>2. rootOf' \in [Experiences -> 0..MaxBinds] /\ painted' \subseteq Points
    <3>1. slot[a].exp \in Experiences
      BY DEF TypeOK, SlotRecord
    <3>2. CASE Release(slot[a].exp)
      BY <1>1, <3>1, <3>2 DEF Release, TypeOK
    <3>3. CASE UNCHANGED <<rootOf, painted>>
      BY <3>3 DEF TypeOK
    <3> QED BY <1>3, <3>2, <3>3 DEF TearDown, Unmount
  <2>3. point' \in [Addresses -> 0..MaxBinds]
    BY <1>1, <1>3 DEF TearDown, TypeOK
  <2> QED BY <1>3, <2>1, <2>2, <2>3 DEF TearDown, TypeOK, remote
<1>4. CASE ClearFallback(a)
  BY <1>4 DEF ClearFallback, TypeOK, SlotRecord, remote
<1> QED BY <1>2, <1>3, <1>4 DEF HostStep, Clear, Degrade

LEMMA NextTypeOK == TypeOK /\ QueueInv /\ PointInv /\ [Next]_vars => TypeOK'
<1> SUFFICES ASSUME TypeOK, QueueInv, PointInv, [Next]_vars PROVE TypeOK'
  OBVIOUS
<1>1. CASE BootstrapLoad
  BY <1>1 DEF BootstrapLoad, TypeOK, FetchesContainer, LoadStatusError, LoadThrows,
              InitsContainer, remote
<1>2. CASE UNCHANGED vars
  BY <1>2 DEF vars, TypeOK, remote
<1> QED BY <1>1, <1>2, MountStepTypeOK, HostStepTypeOK DEF Next

-----------------------------------------------------------------------------
(***************************************************************************)
(* The mount points.                                                       *)
(***************************************************************************)
LEMMA InitPoints == Init => PointInv
BY MaxBindsAssumption DEF Init, PointInv, NoRun, Name, Active

\* What every action but Bind does to the points: each address keeps its point
\* or gives it up.
LEMMA KeepsPoints ==
  ASSUME TypeOK, PointInv, UNCHANGED binds,
         \A b \in Addresses :
           /\ \/ Name(b)' = Name(b) /\ slot'[b].status \notin {"free", "error"}
                                  /\ slot[b].status \notin {"free", "error"}
              \/ Name(b)' = 0 /\ slot'[b].status \in {"free", "error"}
           /\ run'[b].stage = "queued" => point'[b] = 0
           /\ Active(b)' => point'[b] = run'[b].point
           /\ run'[b].stage = "paint" => run'[b].root # 0
  PROVE  PointInv'
<1>1. binds \in Nat
  BY MaxBindsAssumption DEF TypeOK
<1>2. \A b \in Addresses : Name(b)' \in 0..binds'
  BY <1>1 DEF PointInv
<1>3. \A b \in Addresses : Name(b)' = 0 <=> slot'[b].status \in {"free", "error"}
  BY DEF PointInv
<1>4. \A b, c \in Addresses : Name(b)' = Name(c)' /\ Name(b)' # 0 => b = c
  BY DEF PointInv
<1> QED BY <1>2, <1>3, <1>4 DEF PointInv

LEMMA NextPoints == TypeOK /\ QueueInv /\ PointInv /\ [Next]_vars => PointInv'
<1> SUFFICES ASSUME TypeOK, QueueInv, PointInv, [Next]_vars PROVE PointInv'
  OBVIOUS
<1>1. /\ run \in [Addresses -> RunRecord] /\ slot \in [Addresses -> SlotRecord]
      /\ point \in [Addresses -> 0..MaxBinds]
  BY DEF TypeOK
<1>2. CASE BootstrapLoad \/ UNCHANGED vars
  <2>1. UNCHANGED <<run, slot, point, binds>>
    BY <1>2 DEF BootstrapLoad, vars
  <2> QED BY <2>1 DEF PointInv, Name, Active
<1>3. ASSUME NEW a \in Addresses, MountStep(a) PROVE PointInv'
  <2>1. CASE Start(a)
    <3>1. /\ run'[a].stage = "fetch" /\ run'[a].point = run[a].point /\ run[a].stage = "queued"
          /\ point'[a] = run[a].point
          /\ \A b \in Addresses \ {a} : run'[b] = run[b] /\ point'[b] = point[b]
          /\ UNCHANGED <<slot, binds>> /\ slot[a].status = "pending"
      BY <1>1, <2>1 DEF Start, Goes, RunRecord, QueueInv
    <3> QED BY <3>1, KeepsPoints DEF PointInv, Name, Active
  <2>2. CASE Advances(a)
    <3>1. /\ run'[a].stage \notin {"idle", "queued"} /\ run'[a].point = run[a].point
          /\ run'[a].stage = "paint" => run'[a].root # 0
          /\ run[a].stage \notin {"idle", "queued"}
          /\ \A b \in Addresses \ {a} : run'[b] = run[b]
          /\ UNCHANGED <<slot, point, binds>> /\ slot[a].status = "pending"
      BY <1>1, <2>2 DEF Advances, Active, QueueInv
    <3> QED BY <3>1, KeepsPoints DEF PointInv, Name, Active
  <2>3. CASE Ends(a)
    <3>1. /\ run'[a].stage = "idle" /\ run[a].stage \notin {"idle", "queued"}
          /\ \A b \in Addresses \ {a} : run'[b] = run[b] /\ point'[b] = point[b] /\ slot'[b] = slot[b]
          /\ UNCHANGED binds /\ slot[a].status = "pending"
          /\ \/ point'[a] = 0 /\ slot'[a].status = "error"
             \/ point'[a] = point[a] /\ slot'[a].status = "ready"
      BY <1>1, <2>3 DEF Ends, Dequeue, NoRun, Active, QueueInv, SlotRecord
    <3> QED BY <3>1, KeepsPoints DEF PointInv, Name, Active
  <2> QED BY <1>3, <2>1, <2>2, <2>3, MountStepKinds
<1>4. ASSUME NEW a \in Addresses, NEW e \in Experiences, Bind(a, e) PROVE PointInv'
  <2>1. /\ run'[a].stage = "queued" /\ run'[a].point = binds + 1
        /\ slot'[a].status = "pending" /\ point'[a] = 0
        /\ \A b \in Addresses \ {a} : run'[b] = run[b] /\ slot'[b] = slot[b]
        /\ UNCHANGED point
    BY <1>1, <1>4 DEF Bind, NoRun, PointInv, QueueInv, Name
  <2>2. binds \in Nat /\ binds' = binds + 1
    BY <1>4, MaxBindsAssumption DEF Bind, TypeOK
  <2>3. Name(a)' = binds + 1 /\ \A b \in Addresses \ {a} : Name(b)' = Name(b)
    BY <2>1 DEF Name
  <2>4. \A b \in Addresses : Name(b)' \in 0..binds' /\ (b # a => Name(b)' < binds + 1)
    BY <2>2, <2>3 DEF PointInv
  <2>5. \A b \in Addresses : Name(b)' = 0 <=> slot'[b].status \in {"free", "error"}
    BY <2>1, <2>2, <2>3 DEF PointInv
  <2>6. \A b, c \in Addresses : Name(b)' = Name(c)' /\ Name(b)' # 0 => b = c
    BY <2>2, <2>3, <2>4 DEF PointInv
  <2> QED BY <2>1, <2>4, <2>5, <2>6 DEF PointInv, Active
<1>5. ASSUME NEW a \in Addresses, Clear(a) \/ Degrade(a) \/ ClearFallback(a) PROVE PointInv'
  <2>1. /\ UNCHANGED <<run, binds>> /\ run[a].stage = "idle"
        /\ \A b \in Addresses \ {a} : point'[b] = point[b] /\ slot'[b] = slot[b]
        /\ point'[a] = 0 /\ slot'[a].status \in {"free", "error"}
    BY <1>1, <1>5 DEF Clear, Degrade, ClearFallback, TearDown, SlotRecord, QueueInv, PointInv, Name
  <2> QED BY <2>1, KeepsPoints DEF PointInv, Name, Active
<1> QED BY <1>2, <1>3, <1>4, <1>5 DEF Next, HostStep

-----------------------------------------------------------------------------
(***************************************************************************)
(* Who holds the lifecycle of the instance.                                *)
(***************************************************************************)
LEMMA InitLife == Init => LifeInv
BY DEF Init, LifeInv, NoRun, LoadStages, RenderStages

\* A step of a mount finds no other mount under way, and starts none.
LEMMA Solo ==
  ASSUME TypeOK, QueueInv, NEW a \in Addresses, MountStep(a)
  PROVE  /\ \A b \in Addresses \ {a} : ~Active(b) /\ ~Active(b)' /\ run'[b] = run[b]
         /\ run[a].stage # "idle" /\ run[a] \in RunRecord
<1>1. run \in [Addresses -> RunRecord]
  BY DEF TypeOK
<1>2. run[a].stage # "idle" /\ queue # <<>> /\ queue[1] = a
  <2>1. CASE Start(a)
    <3>1. run[a].stage # "idle"
      BY <2>1 DEF Start
    <3>2. \E k \in 1..Len(queue) : queue[k] = a
      BY <3>1 DEF QueueInv
    <3>3. queue # <<>> /\ queue \in Seq(Addresses)
      BY <3>2 DEF TypeOK
    <3>4. Head(queue) = queue[1]
      BY <3>3
    <3> QED BY <2>1, <3>1, <3>3, <3>4 DEF Start
  <2>2. CASE Active(a)
    <3>1. queue # <<>>
      BY <2>2 DEF Active, QueueInv, TypeOK
    <3> QED BY <2>2, <3>1 DEF Active, QueueInv
  <2> QED
    BY <2>1, <2>2 DEF MountStep, Fetched, FetchFails, OwnLoad, OwnLoadThrows, Render,
       RenderRefused, HookThrows, RenderBegins, RenderFails, ComponentLoaded, RootCreated,
       Paint, AngularBoots, AngularFallback, Active, Loaded, LoadStages, RenderStages
<1>3. \A b \in Addresses \ {a} : ~Active(b)
  BY <1>2 DEF QueueInv
<1>4. \A b \in Addresses \ {a} : run'[b] = run[b]
  BY <1>1 DEF MountStep, Start, Fetched, FetchFails, OwnLoad, OwnLoadThrows, Render,
     RenderRefused, HookThrows, RenderBegins, RenderFails, ComponentLoaded, RootCreated,
     Paint, AngularBoots, AngularFallback, Rejects, Returns, Dequeue, Goes
<1> QED BY <1>1, <1>2, <1>3, <1>4 DEF Active

\* What the layout manager's own steps leave alone.
LEMMA HostStepRuns ==
  ASSUME TypeOK, QueueInv, NEW a \in Addresses, HostStep(a)
  PROVE  /\ UNCHANGED <<kind, state, bootstrap, remote>>
         /\ \A b \in Addresses :
              /\ run'[b].stage = run[b].stage
                   \/ (run[b].stage = "idle" /\ run'[b].stage = "queued")
              /\ slot'[b].result = slot[b].result \/ slot'[b].result = "none"
<1>1. /\ run \in [Addresses -> RunRecord] /\ slot \in [Addresses -> SlotRecord]
  BY DEF TypeOK
<1>2. ASSUME NEW e \in Experiences, Bind(a, e)
      PROVE  /\ run[a].stage = "idle" /\ run'[a].stage = "queued" /\ slot'[a].result = "none"
             /\ \A b \in Addresses \ {a} : run'[b] = run[b] /\ slot'[b] = slot[b]
             /\ UNCHANGED <<kind, state, bootstrap, remote>>
  BY <1>1, <1>2 DEF Bind, NoRun, QueueInv
<1>3. ASSUME NEW st, TearDown(a, st)
      PROVE  /\ slot'[a].result = "none"
             /\ \A b \in Addresses \ {a} : slot'[b] = slot[b]
             /\ UNCHANGED <<kind, state, bootstrap, remote, run>>
  <2>1. slot' = [slot EXCEPT ![a].status = st, ![a].result = "none"]
    BY <1>3 DEF TearDown
  <2> QED BY <1>1, <1>3, <2>1 DEF TearDown, SlotRecord
<1>4. CASE ClearFallback(a)
  BY <1>1, <1>4 DEF ClearFallback, SlotRecord
<1> QED BY <1>2, <1>3, <1>4 DEF HostStep, Clear, Degrade

\* LifeInv after a step that leaves no mount under way but a's.
LEMMA LifeOfOne ==
  ASSUME NEW a \in Addresses, \A b \in Addresses \ {a} : ~Active(b)',
         run'[a].stage \in LoadStages => state' = "loading" /\ kind' = "reloading",
         run'[a].stage \in RenderStages =>
           state' = "rendering" /\ (kind' = "reloading" \/ bootstrap' = "done"),
         run'[a].stage = "ready" /\ kind' = "reloading" => state' # "uninitialized",
         kind' = "reloading" => bootstrap' = "none",
         bootstrap' \in LoadStages => state' = "loading",
         state' = "loading" => bootstrap' \in LoadStages \/ run'[a].stage \in LoadStages,
         state' = "rendering" => run'[a].stage \in RenderStages,
         bootstrap' = "done" => state' # "uninitialized",
         kind' # "reloading" /\ bootstrap' = "none" => state' = "uninitialized"
  PROVE  LifeInv'
BY DEF LifeInv, Active, LoadStages, RenderStages

LEMMA MountStepLife ==
  ASSUME TypeOK, QueueInv, LifeInv, NEW a \in Addresses, MountStep(a)
  PROVE  LifeInv'
<1>1. /\ \A b \in Addresses \ {a} : ~Active(b) /\ ~Active(b)' /\ run'[b] = run[b]
      /\ run[a].stage # "idle" /\ run[a] \in RunRecord /\ run \in [Addresses -> RunRecord]
  BY Solo DEF TypeOK
<1>2. \A st : Goes(a, st) => run'[a].stage = st
  BY <1>1 DEF Goes, RunRecord
<1>3. Dequeue(a) => run'[a].stage = "idle"
  BY <1>1 DEF Dequeue, NoRun
<1>4. /\ state = "loading" => bootstrap \in LoadStages \/ run[a].stage \in LoadStages
      /\ state = "rendering" => run[a].stage \in RenderStages
  BY <1>1 DEF LifeInv, Active, LoadStages, RenderStages
<1>5. kind' = kind
  BY DEF MountStep, Start, Fetched, FetchFails, OwnLoad, OwnLoadThrows, Render,
     RenderRefused, HookThrows, RenderBegins, RenderFails, ComponentLoaded, RootCreated,
     Paint, AngularBoots, AngularFallback
<1> USE <1>1, <1>2, <1>3, <1>4, <1>5
<1>6. CASE Start(a)
  BY <1>6, LifeOfOne DEF Start, LifeInv, LoadStages, RenderStages
<1>7. CASE Fetched(a)
  BY <1>7, LifeOfOne DEF Fetched, LifeInv, LoadStages, RenderStages
<1>8. CASE FetchFails(a)
  BY <1>8, LifeOfOne DEF FetchFails, Rejects, LifeInv, LoadStages, RenderStages
<1>9. CASE OwnLoad(a)
  BY <1>9, LifeOfOne DEF OwnLoad, FetchesContainer, LoadStatusError, InitsContainer, LifeInv,
     LoadStages, RenderStages
<1>10. CASE OwnLoadThrows(a)
  BY <1>10, LifeOfOne DEF OwnLoadThrows, LoadThrows, Rejects, LifeInv, LoadStages, RenderStages
<1>11. CASE Render(a)
  BY <1>11, LifeOfOne DEF Render, Loaded, LifeInv, LoadStages, RenderStages
<1>12. CASE RenderRefused(a)
  BY <1>12, LifeOfOne DEF RenderRefused, Loaded, Rejects, LifeInv, LoadStages, RenderStages
<1>13. CASE HookThrows(a)
  BY <1>13, LifeOfOne DEF HookThrows, Rejects, LifeInv, LoadStages, RenderStages
<1>14. CASE RenderBegins(a)
  BY <1>14, LifeOfOne DEF RenderBegins, LifeInv, LoadStages, RenderStages
<1>15. CASE ComponentLoaded(a) \/ RootCreated(a)
  <2>1. UNCHANGED <<state, bootstrap>> /\ run[a].stage \in RenderStages /\ run'[a].stage \in RenderStages
    BY <1>15 DEF ComponentLoaded, RootCreated, RenderStages, Goes, RunRecord
  <2> QED BY <2>1, LifeOfOne DEF LifeInv, LoadStages, RenderStages
<1>16. CASE RenderFails(a) \/ Paint(a) \/ AngularBoots(a) \/ AngularFallback(a)
  <2>1. /\ run[a].stage \in RenderStages /\ run'[a].stage = "idle" /\ state' = "ready"
        /\ UNCHANGED bootstrap
    BY <1>16 DEF RenderFails, Paint, AngularBoots, AngularFallback, Returns, RenderStages
  <2> QED BY <2>1, LifeOfOne DEF LifeInv, LoadStages, RenderStages
<1> QED
  BY <1>6, <1>7, <1>8, <1>9, <1>10, <1>11, <1>12, <1>13, <1>14, <1>15, <1>16 DEF MountStep

LEMMA NextLife == TypeOK /\ QueueInv /\ LifeInv /\ [Next]_vars => LifeInv'
<1> SUFFICES ASSUME TypeOK, QueueInv, LifeInv, [Next]_vars PROVE LifeInv'
  OBVIOUS
<1>1. CASE BootstrapLoad
  <2>1. /\ bootstrap \in LoadStages /\ UNCHANGED <<kind, run>> /\ state = "loading"
        /\ \/ bootstrap' \in LoadStages /\ UNCHANGED state
           \/ bootstrap' = "done" /\ state' \in {"ready", "error"}
    BY <1>1 DEF BootstrapLoad, FetchesContainer, LoadStatusError, LoadThrows, InitsContainer,
                LoadStages, LifeInv
  <2> QED BY <2>1 DEF LifeInv, LoadStages, RenderStages
<1>2. CASE UNCHANGED vars
  BY <1>2 DEF vars, LifeInv
<1>3. ASSUME NEW a \in Addresses, HostStep(a) PROVE LifeInv'
  <2>1. /\ UNCHANGED <<kind, state, bootstrap>>
        /\ \A b \in Addresses : run'[b].stage = run[b].stage
             \/ (run[b].stage = "idle" /\ run'[b].stage = "queued")
    BY <1>3, HostStepRuns
  <2>2. \A b \in Addresses :
          /\ run'[b].stage \in LoadStages <=> run[b].stage \in LoadStages
          /\ run'[b].stage \in RenderStages <=> run[b].stage \in RenderStages
          /\ run'[b].stage = "ready" <=> run[b].stage = "ready"
    BY <2>1 DEF LoadStages, RenderStages
  <2> QED BY <2>1, <2>2 DEF LifeInv
<1> QED BY <1>1, <1>2, <1>3, MountStepLife DEF Next

-----------------------------------------------------------------------------
(***************************************************************************)
(* What is rendered was loaded.                                            *)
(***************************************************************************)
LEMMA InitLoad == Init => LoadInv
BY DEF Init, LoadInv, NoRun

LEMMA NextLoad == TypeOK /\ QueueInv /\ LifeInv /\ LoadInv /\ [Next]_vars => LoadInv'
<1> SUFFICES ASSUME TypeOK, QueueInv, LifeInv, LoadInv, [Next]_vars, kind' # "reloading"
             PROVE  LoadInv'
  BY DEF LoadInv
<1>1. /\ run \in [Addresses -> RunRecord] /\ slot \in [Addresses -> SlotRecord]
  BY DEF TypeOK
<1>2. kind' = kind
  BY DEF Next, BootstrapLoad, MountStep, Start, Fetched, FetchFails, OwnLoad, OwnLoadThrows,
     Render, RenderRefused, HookThrows, RenderBegins, RenderFails, ComponentLoaded, RootCreated,
     Paint, AngularBoots, AngularFallback, HostStep, Bind, Clear, Degrade, ClearFallback,
     TearDown, vars
<1>3. CASE BootstrapLoad
  BY <1>2, <1>3 DEF BootstrapLoad, FetchesContainer, LoadStatusError, LoadThrows, InitsContainer,
                    LoadInv, remote
<1>4. CASE UNCHANGED vars
  BY <1>4 DEF vars, remote, LoadInv
<1>5. ASSUME NEW a \in Addresses, HostStep(a) PROVE LoadInv'
  <2>1. /\ UNCHANGED <<components, container, bootstrap>>
        /\ \A b \in Addresses :
             /\ run'[b].stage = run[b].stage \/ run'[b].stage = "queued"
             /\ slot'[b].result = slot[b].result \/ slot'[b].result = "none"
    BY <1>5, HostStepRuns DEF remote
  <2> QED BY <1>2, <2>1 DEF LoadInv
<1>6. ASSUME NEW a \in Addresses, MountStep(a) PROVE LoadInv'
  <2> DEFINE shown == {"component", "root", "paint"}
  <2>1. \A b \in Addresses \ {a} : run'[b] = run[b] /\ slot'[b] = slot[b]
    BY <1>1, <1>6, Solo DEF MountStep, Start, Fetched, FetchFails, OwnLoad, OwnLoadThrows, Render,
       RenderRefused, HookThrows, RenderBegins, RenderFails, ComponentLoaded, RootCreated,
       Paint, AngularBoots, AngularFallback, Rejects, Returns
  <2>2. UNCHANGED remote /\ (bootstrap = "done" => bootstrap' = "done")
    <3>1. ~OwnLoad(a)
      BY <1>2 DEF OwnLoad, LifeInv, LoadStages
    <3> QED
      BY <1>6, <3>1 DEF MountStep, Start, Fetched, FetchFails, OwnLoadThrows, LoadThrows, Render,
         RenderRefused, HookThrows, RenderBegins, RenderFails, ComponentLoaded, RootCreated,
         Paint, AngularBoots, AngularFallback
  <2>3. run'[a].stage \in shown => components
    <3>1. CASE RenderBegins(a)
      BY <3>1 DEF RenderBegins
    <3>2. CASE ComponentLoaded(a) \/ RootCreated(a)
      BY <1>2, <3>2 DEF ComponentLoaded, RootCreated, LoadInv
    <3>3. CASE ~RenderBegins(a) /\ ~ComponentLoaded(a) /\ ~RootCreated(a)
      <4>1. run'[a].stage \notin shown
        BY <1>1, <1>6, <3>3 DEF MountStep, Start, Fetched, FetchFails, OwnLoad, OwnLoadThrows, Render,
           RenderRefused, HookThrows, RenderFails, Paint, AngularBoots, AngularFallback,
           Rejects, Returns, Dequeue, Goes, NoRun, RunRecord
      <4> QED BY <4>1
    <3> QED BY <3>1, <3>2, <3>3
  <2>4. slot'[a].result = "rendered" => components
    <3>1. CASE Paint(a) \/ AngularBoots(a)
      BY <1>2, <3>1 DEF Paint, AngularBoots, LoadInv
    <3>2. CASE ~Paint(a) /\ ~AngularBoots(a)
      <4>1. slot'[a].result \in {slot[a].result, "error", "fallback"}
        BY <1>1, <1>6, <3>2 DEF MountStep, Start, Fetched, FetchFails, OwnLoad, OwnLoadThrows, Render,
           RenderRefused, HookThrows, RenderBegins, RenderFails, ComponentLoaded, RootCreated,
           AngularFallback, Rejects, Returns, SlotRecord
      <4> QED BY <1>2, <4>1 DEF LoadInv
    <3> QED BY <3>1, <3>2
  <2> QED BY <1>2, <2>1, <2>2, <2>3, <2>4 DEF LoadInv, remote
<1> QED BY <1>3, <1>4, <1>5, <1>6 DEF Next

-----------------------------------------------------------------------------
(***************************************************************************)
(* Roots and the content of the slots.                                     *)
(***************************************************************************)
LEMMA InitRoots == Init => RootInv
BY DEF Init, RootInv, Unshared, RootsBelongToSlots, ReadyShowsContent, NoRun

RootDefs == TypeOK /\ QueueInv /\ PointInv /\ RootInv

\* A step of a's mount that makes and releases no root.
LEMMA QuietStep ==
  ASSUME RootDefs, NEW a \in Addresses, slot[a].status = "pending",
         UNCHANGED <<kind, rootOf, painted>>,
         \A b \in Addresses \ {a} : run'[b] = run[b] /\ slot'[b] = slot[b] /\ point'[b] = point[b],
         slot'[a].exp = slot[a].exp,
         slot'[a].status # "free",
         slot'[a].status = "ready" => slot'[a].result # "rendered",
         point'[a] = point[a] \/ (ReleasesRoots => rootOf[slot[a].exp] = 0),
         \/ run'[a].stage = "idle"
         \/ /\ run'[a].stage # "paint"
            /\ ReleasesRoots => rootOf[slot[a].exp] = 0
  PROVE  RootInv'
<1>1. Unshared'
  BY DEF RootDefs, RootInv, Unshared
<1>2. ReadyShowsContent'
  BY DEF RootDefs, RootInv, ReadyShowsContent, ReleasesRoots
<1>3. ASSUME ReleasesRoots', NEW f \in Experiences, rootOf'[f] # 0
      PROVE  \E b \in Addresses : Shows(b, f)' /\ point'[b] = rootOf'[f]
  <2> PICK b \in Addresses : Shows(b, f) /\ point[b] = rootOf[f]
    BY <1>3 DEF RootDefs, RootInv, RootsBelongToSlots, ReleasesRoots
  <2>1. CASE b = a
    BY <1>3, <2>1 DEF Shows, ReleasesRoots
  <2>2. CASE b # a
    BY <2>2 DEF Shows
  <2> QED BY <2>1, <2>2
<1>4. ASSUME ReleasesRoots', NEW b \in Addresses
      PROVE  /\ run'[b].stage \notin {"idle", "paint"} => rootOf'[slot'[b].exp] = 0
             /\ run'[b].stage = "paint" => run'[b].root = point'[b]
  BY <1>4 DEF RootDefs, RootInv, ReleasesRoots
<1> QED BY <1>1, <1>2, <1>3, <1>4 DEF RootInv, RootsBelongToSlots

\* A step of a's mount that makes a root on the point of a.
LEMMA RootMade ==
  ASSUME RootDefs, NEW a \in Addresses, slot[a].status = "pending", kind' = kind,
         rootOf' = [rootOf EXCEPT ![slot[a].exp] = point[a]],
         \A b \in Addresses \ {a} : run'[b] = run[b] /\ slot'[b] = slot[b],
         point' = point,
         painted \subseteq painted',
         slot'[a].exp = slot[a].exp,
         slot'[a].status # "free",
         slot'[a].status = "ready" => point[a] \in painted',
         run'[a].stage = "idle" \/ (run'[a].stage = "paint" /\ run'[a].root = point[a])
  PROVE  RootInv'
<1>1. Unshared'
  BY DEF RootDefs, RootInv, Unshared
<1>2. ReadyShowsContent'
  BY DEF RootDefs, RootInv, ReadyShowsContent, ReleasesRoots
<1>3. /\ rootOf'[slot[a].exp] = point[a] /\ slot[a].exp \in Experiences
      /\ \A f \in Experiences \ {slot[a].exp} : rootOf'[f] = rootOf[f]
  BY DEF RootDefs, TypeOK, SlotRecord
<1>4. ASSUME ReleasesRoots', NEW f \in Experiences, rootOf'[f] # 0
      PROVE  \E b \in Addresses : Shows(b, f)' /\ point'[b] = rootOf'[f]
  <2>1. CASE f = slot[a].exp
    BY <1>3, <2>1 DEF Shows
  <2>2. CASE f # slot[a].exp
    <3> PICK b \in Addresses : Shows(b, f) /\ point[b] = rootOf[f]
      BY <1>3, <1>4, <2>2 DEF RootDefs, RootInv, RootsBelongToSlots, ReleasesRoots
    <3> QED BY <1>3, <2>2 DEF Shows
  <2> QED BY <2>1, <2>2
<1>5. ASSUME ReleasesRoots', NEW b \in Addresses
      PROVE  /\ run'[b].stage \notin {"idle", "paint"} => rootOf'[slot'[b].exp] = 0
             /\ run'[b].stage = "paint" => run'[b].root = point'[b]
  <2>1. CASE b = a
    BY <2>1
  <2>2. CASE b # a /\ run[b].stage # "idle"
    <3>1. slot[b].status = "pending" /\ slot[b].exp \in Experiences
      BY <2>2 DEF RootDefs, QueueInv, TypeOK, SlotRecord
    <3>2. slot[b].exp # slot[a].exp
      BY <2>2, <3>1 DEF RootDefs, RootInv, Unshared
    <3> QED BY <1>3, <1>5, <2>2, <3>1, <3>2 DEF RootDefs, RootInv, ReleasesRoots
  <2>3. CASE b # a /\ run[b].stage = "idle"
    BY <2>3
  <2> QED BY <2>1, <2>2, <2>3
<1> QED BY <1>1, <1>2, <1>4, <1>5 DEF RootInv, RootsBelongToSlots

LEMMA TearDownRoots ==
  ASSUME RootDefs, NEW a \in Addresses, NEW st \in {"free", "error"}, TearDown(a, st)
  PROVE  RootInv'
<1>1. /\ slot \in [Addresses -> SlotRecord] /\ point \in [Addresses -> 0..MaxBinds]
      /\ rootOf \in [Experiences -> 0..MaxBinds] /\ painted \subseteq Points
      /\ slot[a].exp \in Experiences
  BY DEF RootDefs, TypeOK, SlotRecord
<1> DEFINE e == slot[a].exp
<1>2. /\ slot[a].status = "ready" /\ UNCHANGED <<kind, run>>
      /\ point'[a] = 0 /\ slot'[a].status = st /\ slot'[a].exp = e
      /\ \A b \in Addresses \ {a} : slot'[b] = slot[b] /\ point'[b] = point[b]
  <2>1. slot' = [slot EXCEPT ![a].status = st, ![a].result = "none"]
    BY DEF TearDown
  <2> QED BY <1>1, <2>1 DEF TearDown, SlotRecord
<1>3. Unshared'
  BY <1>2 DEF RootDefs, RootInv, Unshared
<1>4. SUFFICES ASSUME ReleasesRoots PROVE RootInv'
  BY <1>2, <1>3 DEF RootInv, RootsBelongToSlots, ReadyShowsContent, ReleasesRoots
<1>5. /\ painted' = painted \ {rootOf[e]} /\ rootOf'[e] = 0
      /\ \A f \in Experiences \ {e} : rootOf'[f] = rootOf[f]
  BY <1>1, <1>4 DEF TearDown, Unmount, Release, ReleasesRoots
<1>6. ASSUME NEW b \in Addresses, slot'[b].status = "ready", slot'[b].result = "rendered"
      PROVE  point'[b] \in painted'
  <2>1. b # a /\ point[b] \in painted /\ point[b] # 0
    BY <1>1, <1>2, <1>4, <1>6 DEF RootDefs, RootInv, ReadyShowsContent, Points
  <2>2. CASE rootOf[e] # 0
    <3>1. point[a] = rootOf[e]
      BY <1>1, <1>2, <1>4, <2>2 DEF RootDefs, RootInv, RootsBelongToSlots, Shows, Unshared
    <3>2. run[a].stage = "idle" /\ run[b].stage = "idle"
      BY <1>2, <1>6, <2>1 DEF RootDefs, QueueInv
    <3> QED BY <1>2, <1>5, <2>1, <3>1, <3>2 DEF RootDefs, PointInv, Name
  <2>3. CASE rootOf[e] = 0
    BY <1>2, <1>5, <2>1, <2>3
  <2> QED BY <2>2, <2>3
<1>7. ASSUME NEW f \in Experiences, rootOf'[f] # 0
      PROVE  \E b \in Addresses : Shows(b, f)' /\ point'[b] = rootOf'[f]
  <2>1. f # e
    BY <1>5, <1>7
  <2> PICK b \in Addresses : Shows(b, f) /\ point[b] = rootOf[f]
    BY <1>4, <1>5, <1>7, <2>1 DEF RootDefs, RootInv, RootsBelongToSlots
  <2> QED BY <1>2, <1>5, <2>1 DEF Shows
<1>8. ASSUME NEW b \in Addresses
      PROVE  /\ run'[b].stage \notin {"idle", "paint"} => rootOf'[slot'[b].exp] = 0
             /\ run'[b].stage = "paint" => run'[b].root = point'[b]
  <2>1. slot[b].exp \in Experiences
    BY <1>1 DEF SlotRecord
  <2>2. CASE b = a
    BY <1>2, <2>2 DEF RootDefs, QueueInv
  <2>3. CASE b # a
    BY <1>2, <1>4, <1>5, <2>1, <2>3 DEF RootDefs, RootInv
  <2> QED BY <2>2, <2>3
<1> QED BY <1>3, <1>6, <1>7, <1>8 DEF RootInv, RootsBelongToSlots, ReadyShowsContent

LEMMA BindRoots ==
  ASSUME RootDefs, NEW a \in Addresses, NEW e \in Experiences, Bind(a, e)
  PROVE  RootInv'
<1>1. /\ slot[a].status \in {"free", "error"} /\ UNCHANGED <<kind, point, rootOf, painted>>
      /\ \A b \in Addresses \ {a} : run'[b] = run[b] /\ slot'[b] = slot[b] /\ ~Shows(b, e)
      /\ run'[a].stage = "queued" /\ slot'[a].exp = e /\ slot'[a].status = "pending"
  BY DEF Bind, RootDefs, TypeOK, NoRun
<1>2. Unshared'
  BY <1>1 DEF RootDefs, RootInv, Unshared, Shows
<1>3. ReadyShowsContent'
  BY <1>1 DEF RootDefs, RootInv, ReadyShowsContent, ReleasesRoots
<1>4. slot[a].status = "error" => point[a] = 0
  BY <1>1 DEF RootDefs, PointInv, QueueInv, Name
<1>5. ASSUME ReleasesRoots, NEW f \in Experiences, rootOf[f] # 0
      PROVE  f # e /\ \E b \in Addresses : Shows(b, f)' /\ point'[b] = rootOf'[f]
  <2> PICK b \in Addresses : Shows(b, f) /\ point[b] = rootOf[f]
    BY <1>5 DEF RootDefs, RootInv, RootsBelongToSlots
  <2>1. b # a
    BY <1>1, <1>4, <1>5 DEF Shows
  <2> QED BY <1>1, <2>1 DEF Shows
<1>6. ASSUME ReleasesRoots, NEW b \in Addresses
      PROVE  /\ run'[b].stage \notin {"idle", "paint"} => rootOf'[slot'[b].exp] = 0
             /\ run'[b].stage = "paint" => run'[b].root = point'[b]
  <2>1. CASE b = a
    BY <1>1, <1>5, <1>6, <2>1
  <2>2. CASE b # a
    BY <1>1, <1>6, <2>2 DEF RootDefs, RootInv
  <2> QED BY <2>1, <2>2
<1>7. ReleasesRoots' = ReleasesRoots
  BY <1>1 DEF ReleasesRoots
<1> QED BY <1>1, <1>2, <1>3, <1>5, <1>6, <1>7 DEF RootInv, RootsBelongToSlots

LEMMA ClearFallbackRoots ==
  ASSUME RootDefs, NEW a \in Addresses, ClearFallback(a)
  PROVE  RootInv'
<1>1. /\ UNCHANGED <<kind, run, point, rootOf, painted>> /\ slot[a].status = "error"
      /\ slot'[a].exp = slot[a].exp /\ slot'[a].status = "free"
      /\ \A b \in Addresses \ {a} : slot'[b] = slot[b]
  BY DEF ClearFallback, RootDefs, TypeOK, SlotRecord
<1>2. Unshared'
  BY <1>1 DEF RootDefs, RootInv, Unshared
<1>3. ReadyShowsContent'
  BY <1>1 DEF RootDefs, RootInv, ReadyShowsContent, ReleasesRoots
<1>4. point[a] = 0
  BY <1>1 DEF RootDefs, PointInv, QueueInv, Name
<1>5. RootsBelongToSlots'
  BY <1>1, <1>4 DEF RootDefs, RootInv, RootsBelongToSlots, ReleasesRoots, Shows
<1>6. \A b \in Addresses : slot'[b].exp = slot[b].exp
  BY <1>1
<1> QED BY <1>1, <1>2, <1>3, <1>5, <1>6 DEF RootDefs, RootInv, ReleasesRoots

LEMMA MountStepRoots ==
  ASSUME RootDefs, NEW a \in Addresses, MountStep(a)
  PROVE  RootInv'
<1>1. /\ run \in [Addresses -> RunRecord] /\ slot \in [Addresses -> SlotRecord]
      /\ point \in [Addresses -> 0..MaxBinds]
  BY DEF RootDefs, TypeOK
<1>2. slot[a].status = "pending" /\ run[a].stage # "idle" /\ run[a] \in RunRecord
  BY Solo DEF RootDefs, QueueInv
<1>3. ReleasesRoots /\ run[a].stage # "paint" => rootOf[slot[a].exp] = 0
  BY <1>2 DEF RootDefs, RootInv
<1>4. ASSUME NEW st \in Stages \ {"idle", "paint"}, Goes(a, st), run[a].stage # "paint",
             UNCHANGED <<kind, slot, rootOf, painted>>,
             \A b \in Addresses \ {a} : point'[b] = point[b]
      PROVE  RootInv'
  <2>1. run'[a].stage = st /\ \A b \in Addresses \ {a} : run'[b] = run[b]
    BY <1>1, <1>4 DEF Goes, RunRecord
  <2> QED BY <1>2, <1>3, <1>4, <2>1, QuietStep
<1>5. ASSUME Rejects(a), kind' = kind, run[a].stage # "paint"
      PROVE  RootInv'
  <2>1. /\ run'[a].stage = "idle" /\ slot'[a].status = "error" /\ slot'[a].exp = slot[a].exp
        /\ \A b \in Addresses \ {a} : run'[b] = run[b] /\ slot'[b] = slot[b] /\ point'[b] = point[b]
    BY <1>1, <1>5 DEF Rejects, Dequeue, NoRun, SlotRecord
  <2> QED BY <1>2, <1>3, <1>5, <2>1, QuietStep DEF Rejects
<1>6. ASSUME NEW r \in Results, Returns(a, r)
      PROVE  /\ run'[a].stage = "idle" /\ slot'[a].status = "ready" /\ slot'[a].exp = slot[a].exp
             /\ slot'[a].result = r /\ point' = point
             /\ \A b \in Addresses \ {a} : run'[b] = run[b] /\ slot'[b] = slot[b]
  <2>1. slot' = [slot EXCEPT ![a].status = "ready", ![a].result = r]
    BY <1>6 DEF Returns
  <2> QED BY <1>1, <1>6, <2>1 DEF Returns, Dequeue, NoRun, SlotRecord
<1>7. CASE Start(a) \/ Fetched(a) \/ OwnLoad(a) \/ Render(a) \/ RenderBegins(a)
  <2>1. \E st \in Stages \ {"idle", "paint"} : Goes(a, st)
    BY <1>7 DEF Start, Fetched, OwnLoad, Render, RenderBegins, Stages
  <2> QED
    BY <1>1, <1>4, <1>7, <2>1 DEF Start, Fetched, OwnLoad, Render, RenderBegins, Loaded, LoadStages
<1>8. CASE FetchFails(a) \/ OwnLoadThrows(a) \/ RenderRefused(a) \/ HookThrows(a)
  BY <1>5, <1>8 DEF FetchFails, OwnLoadThrows, RenderRefused, HookThrows, Loaded
<1>9. CASE RenderFails(a) \/ AngularFallback(a)
  <2>1. /\ \E r \in Results \ {"rendered"} : Returns(a, r)
        /\ UNCHANGED <<kind, rootOf, painted>>
    BY <1>9 DEF RenderFails, AngularFallback, Results
  <2> QED BY <1>2, <1>6, <2>1, QuietStep
<1>10. CASE Paint(a)
  <2>1. /\ Returns(a, "rendered") /\ UNCHANGED <<kind, rootOf>>
        /\ run[a].stage = "paint" /\ painted' = painted \cup {run[a].root}
    BY <1>10 DEF Paint
  <2>2. /\ run'[a].stage = "idle" /\ slot'[a].exp = slot[a].exp /\ slot'[a].status = "ready"
        /\ UNCHANGED point
        /\ \A b \in Addresses \ {a} : run'[b] = run[b] /\ slot'[b] = slot[b]
    BY <1>6, <2>1 DEF Results
  <2>3. Unshared'
    BY <1>2, <2>2 DEF RootDefs, RootInv, Unshared
  <2>4. ReadyShowsContent'
    BY <2>1, <2>2 DEF RootDefs, RootInv, ReadyShowsContent, ReleasesRoots
  <2>5. RootsBelongToSlots'
    BY <1>2, <2>1, <2>2 DEF RootDefs, RootInv, RootsBelongToSlots, ReleasesRoots, Shows
  <2> QED BY <2>1, <2>2, <2>3, <2>4, <2>5 DEF RootDefs, RootInv, ReleasesRoots
<1>11. CASE ComponentLoaded(a)
  <2> DEFINE old == rootOf[slot[a].exp]
  <2>1. CASE old = 0
    <3>1. Goes(a, "root") /\ UNCHANGED <<kind, slot, point, rootOf, painted>> /\ run[a].stage # "paint"
      BY <1>11, <2>1 DEF ComponentLoaded
    <3> QED BY <1>4, <3>1 DEF Stages
  <2>2. CASE old # 0
    <3>1. ~ReleasesRoots /\ ~ReleasesRoots' /\ UNCHANGED slot
      BY <1>3, <1>11, <2>2 DEF ComponentLoaded, ReleasesRoots
    <3>2. Unshared'
      BY <3>1 DEF RootDefs, RootInv, Unshared
    <3> QED BY <3>1, <3>2 DEF RootInv, RootsBelongToSlots, ReadyShowsContent
  <2> QED BY <2>1, <2>2
<1>12. CASE RootCreated(a)
  <2>1. /\ run'[a].stage = "paint" /\ run'[a].root = point[a]
        /\ \A b \in Addresses \ {a} : run'[b] = run[b]
        /\ rootOf' = [rootOf EXCEPT ![slot[a].exp] = point[a]]
        /\ UNCHANGED <<kind, slot, point, painted>>
    BY <1>1, <1>12 DEF RootCreated, Element, RunRecord
  <2> QED BY <1>2, <2>1, RootMade
<1>13. CASE AngularBoots(a)
  <2>1. /\ Returns(a, "rendered") /\ UNCHANGED kind /\ painted' = painted \cup {point[a]}
        /\ rootOf' = [rootOf EXCEPT ![slot[a].exp] = point[a]]
    BY <1>13 DEF AngularBoots, Element
  <2>2. /\ run'[a].stage = "idle" /\ slot'[a].exp = slot[a].exp /\ slot'[a].status = "ready"
        /\ point' = point
        /\ \A b \in Addresses \ {a} : run'[b] = run[b] /\ slot'[b] = slot[b]
    BY <1>6, <2>1 DEF Results
  <2> QED BY <1>2, <2>1, <2>2, RootMade
<1> QED BY <1>7, <1>8, <1>9, <1>10, <1>11, <1>12, <1>13 DEF MountStep

LEMMA NextRoots == RootDefs /\ [Next]_vars => RootInv'
<1> SUFFICES ASSUME RootDefs, [Next]_vars PROVE RootInv'
  OBVIOUS
<1>1. CASE BootstrapLoad \/ UNCHANGED vars
  <2>1. UNCHANGED <<kind, slot, run, point, rootOf, painted>>
    BY <1>1 DEF BootstrapLoad, vars
  <2> QED
    BY <2>1 DEF RootDefs, RootInv, Unshared, RootsBelongToSlots, ReadyShowsContent,
                ReleasesRoots, Shows
<1>2. ASSUME NEW a \in Addresses, HostStep(a) PROVE RootInv'
  BY <1>2, BindRoots, TearDownRoots, ClearFallbackRoots DEF HostStep, Clear, Degrade
<1> QED BY <1>1, <1>2, MountStepRoots DEF Next

-----------------------------------------------------------------------------
(***************************************************************************)
(* The theorems.                                                           *)
(***************************************************************************)
LEMMA InvHolds == Spec => []Inv
<1>1. Init => Inv
  BY InitTypeOK, InitQueue, InitPoints, InitLife, InitLoad, InitRoots DEF Inv
<1>2. Inv /\ [Next]_vars => Inv'
  BY NextTypeOK, NextQueue, NextPoints, NextLife, NextLoad, NextRoots DEF Inv, RootDefs
<1> QED BY <1>1, <1>2, PTL DEF Spec

\* The types of the mount, the adaptor's queue and the roots.
THEOREM MountTypesHold == Spec => []TypeOK
<1>1. Inv => TypeOK
  BY DEF Inv
<1> QED BY <1>1, InvHolds, PTL

\* Loading and rendering belong to one call at a time, the bootstrap load or one
\* mount, which finds the state it entered (layout-adaptors.ts:226-234).
THEOREM OneCallOwnsTheLifecycle == Spec => []CallsShareTheLifecycle
<1>1. Inv => CallsShareTheLifecycle
  <2> SUFFICES ASSUME Inv PROVE CallsShareTheLifecycle
    OBVIOUS
  <2> DEFINE busy(i) == IF i = Bootstrap THEN bootstrap \in LoadStages
                                         ELSE run[i].stage \in LoadStages \cup RenderStages
             enters(i) == IF i = Bootstrap \/ run[i].stage \in LoadStages
                            THEN "loading" ELSE "rendering"
  <2>1. ASSUME NEW i \in Addresses \cup {Bootstrap}
        PROVE  /\ Lifecycle!Transiting(i) <=> busy(i)
               /\ Lifecycle!EnterState(PipelineCalls[i].cap) = enters(i)
    BY BootstrapAssumption
    DEF Lifecycle!Transiting, Lifecycle!InFlight, Lifecycle!Settled, Lifecycle!Transitional,
        Lifecycle!EnterState, PipelineCalls, PipelineCall
  <2>2. \A a, b \in Addresses : busy(a) /\ busy(b) => a = b
    BY BootstrapAssumption DEF Inv, QueueInv, Active, LoadStages, RenderStages
  <2>3. \A a \in Addresses : busy(a) => ~busy(Bootstrap)
    BY BootstrapAssumption DEF Inv, LifeInv, LoadStages, RenderStages
  <2>4. \A i \in Addresses \cup {Bootstrap} : busy(i) => state = enters(i)
    BY BootstrapAssumption DEF Inv, LifeInv
  <2>5. state \in {"loading", "rendering"} => \E i \in Addresses \cup {Bootstrap} : busy(i)
    BY BootstrapAssumption DEF Inv, LifeInv
  <2> HIDE DEF busy, enters
  <2> QED
    BY <2>1, <2>2, <2>3, <2>4, <2>5 DEF CallsShareTheLifecycle, Lifecycle!TransitionOwner
<1> QED BY <1>1, InvHolds, PTL

\* No mount is refused for overlapping another one of its scope.
THEOREM NoMountRefusedForOverlap == Spec => []RefusedOnlyAfterFailure
<1>1. Inv => RefusedOnlyAfterFailure
  <2> SUFFICES ASSUME Inv, NEW a \in Addresses, Active(a)
               PROVE  /\ Loaded(a) => state \in {"ready", "error"}
                      /\ run[a].stage = "fetch" /\ kind = "reloading" =>
                           state \in {"uninitialized", "ready", "error"}
    BY DEF RefusedOnlyAfterFailure, Active, Loaded
  <2>1. \A b \in Addresses : Active(b) => b = a
    BY DEF Inv, QueueInv
  <2>2. state \in {"uninitialized", "loading", "ready", "rendering", "error"}
    BY DEF Inv, TypeOK
  <2> QED BY <2>1, <2>2 DEF Inv, LifeInv, Loaded, Active, LoadStages, RenderStages
<1> QED BY <1>1, InvHolds, PTL

\* A remote that loads once renders nothing before its container is initialised.
THEOREM NothingRenderedUnloaded == Spec => []RenderedFromLoaded
<1>1. Inv => RenderedFromLoaded
  BY DEF Inv, LoadInv, RenderedFromLoaded
<1> QED BY <1>1, InvHolds, PTL

\* With a bootstrap pair no root outlives the slot it was made for.
THEOREM RootsFollowSlots == Spec => []RootsBelongToSlots
<1>1. Inv => RootsBelongToSlots
  BY DEF Inv, RootInv
<1> QED BY <1>1, InvHolds, PTL

\* With a bootstrap pair a slot whose mount rendered shows its content.
THEOREM SlotsShowTheirContent == Spec => []ReadyShowsContent
<1>1. Inv => ReadyShowsContent
  BY DEF Inv, RootInv
<1> QED BY <1>1, InvHolds, PTL

-----------------------------------------------------------------------------
(***************************************************************************)
(* A mount that waits for mfeReady has had the remote evaluated, which     *)
(* begins the bootstrap load.                                              *)
(***************************************************************************)
BegunInv ==
  \A a \in Addresses : run[a].stage = "ready" /\ kind # "reloading" => bootstrap # "none"

LEMMA NextBegun == Inv /\ BegunInv /\ [Next]_vars => BegunInv'
<1> SUFFICES ASSUME TypeOK, LifeInv, BegunInv, [Next]_vars PROVE BegunInv'
  BY DEF Inv
<1>1. kind' = kind /\ run \in [Addresses -> RunRecord] /\ (bootstrap # "none" => bootstrap' # "none")
  <2>1. ASSUME NEW a \in Addresses, MountStep(a)
        PROVE  kind' = kind /\ (bootstrap # "none" => bootstrap' # "none")
    BY <2>1
    DEF MountStep, Start, Fetched, FetchFails, OwnLoad, OwnLoadThrows, Render, RenderRefused,
        HookThrows, RenderBegins, RenderFails, ComponentLoaded, RootCreated, Paint,
        AngularBoots, AngularFallback
  <2>2. ASSUME NEW a \in Addresses, HostStep(a)
        PROVE  kind' = kind /\ bootstrap' = bootstrap
    BY <2>2 DEF HostStep, Bind, Clear, Degrade, TearDown, ClearFallback
  <2>3. BootstrapLoad => kind' = kind /\ bootstrap' # "none"
    BY DEF BootstrapLoad
  <2> QED BY <2>1, <2>2, <2>3 DEF Next, vars, TypeOK
<1>2. ASSUME \A a \in Addresses : run'[a].stage = "ready" => run[a].stage = "ready"
      PROVE  BegunInv'
  BY <1>1, <1>2 DEF BegunInv
<1>3. ASSUME NEW a \in Addresses, MountStep(a) PROVE BegunInv'
  <2>1. CASE Fetched(a)
    <3>1. kind # "reloading" => bootstrap' # "none"
      BY <2>1 DEF Fetched
    <3> QED BY <1>1, <3>1 DEF BegunInv
  <2>2. CASE OwnLoad(a)
    <3>1. \A b \in Addresses \ {a} : run'[b] = run[b]
      BY <1>1, <2>2 DEF OwnLoad, Goes
    <3>2. kind = "reloading"
      BY <2>2 DEF OwnLoad, LoadStages, LifeInv
    <3> QED BY <1>1, <3>1, <3>2 DEF BegunInv
  <2>3. CASE ~Fetched(a) /\ ~OwnLoad(a)
    <3>1. \A st : Goes(a, st) => run'[a].stage = st /\ \A b \in Addresses \ {a} : run'[b] = run[b]
      BY <1>1 DEF Goes, RunRecord
    <3>2. Dequeue(a) => run'[a].stage = "idle" /\ \A b \in Addresses \ {a} : run'[b] = run[b]
      BY <1>1 DEF Dequeue, NoRun
    <3>3. \A b \in Addresses : run'[b].stage = "ready" => run[b].stage = "ready"
      BY <1>1, <1>3, <2>3, <3>1, <3>2
      DEF MountStep, Start, FetchFails, OwnLoadThrows, Render, RenderRefused,
          HookThrows, RenderBegins, RenderFails, ComponentLoaded, RootCreated, Paint,
          AngularBoots, AngularFallback, Rejects, Returns, RunRecord
    <3> QED BY <1>2, <3>3
  <2> QED BY <2>1, <2>2, <2>3
<1>4. ASSUME NEW a \in Addresses, HostStep(a) PROVE BegunInv'
  <2>1. \A b \in Addresses : run'[b].stage = "ready" => run[b].stage = "ready"
    BY <1>1, <1>4 DEF HostStep, Bind, Clear, Degrade, TearDown, ClearFallback, NoRun, RunRecord
  <2> QED BY <1>2, <2>1
<1>5. CASE BootstrapLoad \/ UNCHANGED vars
  BY <1>2, <1>5 DEF BootstrapLoad, vars
<1> QED BY <1>3, <1>4, <1>5 DEF Next

\* Every pending mount is in the queue once, behind a mount that can go on or
\* waits for a load that has begun, for any addresses, binds and failures.
THEOREM NoPendingMountIsLost == Spec => []NoMountWaitsInVain
<1>1. Init => BegunInv
  BY DEF Init, BegunInv, NoRun
<1>2. Inv /\ BegunInv => NoMountWaitsInVain
  <2> SUFFICES ASSUME Inv, BegunInv PROVE NoMountWaitsInVain
    OBVIOUS
  <2>1. queue \in Seq(Addresses) /\ DOMAIN queue = 1..Len(queue)
    BY DEF Inv, TypeOK
  <2>2. ASSUME NEW a \in Addresses
        PROVE  slot[a].status = "pending" <=> \E k \in 1..Len(queue) : queue[k] = a
    BY <2>1 DEF Inv, QueueInv
  <2>3. ASSUME NEW a \in Addresses, Active(a) PROVE Head(queue) = a
    <3>1. queue[1] = a /\ queue # <<>>
      BY <2>1, <2>3 DEF Inv, QueueInv, Active
    <3> QED BY <2>1, <3>1
  <2> QED BY <2>1, <2>2, <2>3 DEF Inv, QueueInv, BegunInv, NoMountWaitsInVain, Active
<1> QED BY <1>1, <1>2, NextBegun, InvHolds, PTL DEF Spec

-----------------------------------------------------------------------------
(***************************************************************************)
(* The mounts of a scope keep the platform contract.                       *)
(*                                                                         *)
(* A mount that passes the gate enters the shared instance, alone because  *)
(* of the queue and mfeReady; the evaluation of the remote enters it for   *)
(* the bootstrap; a load or render that settles, however it ends, leaves.  *)
(***************************************************************************)
Participants == Addresses \cup {Bootstrap}

Within == [i \in Participants |-> Inside(i)]

RunInside(a) ==
  IF run[a].stage \in LoadStages THEN "load"
  ELSE IF run[a].stage \in RenderStages THEN "render" ELSE "none"

BootInside == IF bootstrap \in LoadStages THEN "load" ELSE "none"

EnterStep(i) ==
  /\ \A j \in Participants : Within[j] = "none"
  /\ \E c \in {"load", "render"} :
       /\ state \in Contract!Before(c)
       /\ state' = Contract!During(c)
       /\ Within' = [Within EXCEPT ![i] = c]

LeaveStep(i) ==
  /\ Within[i] # "none"
  /\ state = Contract!During(Within[i])
  /\ state' \in {"ready", "error"}
  /\ Within' = [Within EXCEPT ![i] = "none"]

ContractStep ==
  \/ UNCHANGED <<state, Within>>
  \/ \E i \in Participants : EnterStep(i) \/ LeaveStep(i)

\* What the pipeline says of a call, in terms of the stages of the mounts.
LEMMA InsideIs ==
  /\ \A a \in Addresses : Within[a] = RunInside(a) /\ Within'[a] = RunInside(a)'
  /\ Within[Bootstrap] = BootInside /\ Within'[Bootstrap] = BootInside'
  /\ Within = [i \in Participants |-> Within[i]]
  /\ Within' = [i \in Participants |-> Within'[i]]
BY BootstrapAssumption
DEF Within, Participants, Inside, RunInside, BootInside, PipelineCalls, PipelineCall,
    LoadStages, RenderStages

LEMMA Tables ==
  /\ Contract!During("load") = "loading" /\ Contract!During("render") = "rendering"
  /\ Contract!Before("load") = {"uninitialized", "ready", "error"}
  /\ Contract!Before("render") = {"ready"}
  /\ Admitted("load") => state \in Contract!Before("load")
  /\ Admitted("render") => state \in Contract!Before("render")
BY DEF Contract!During, Contract!Before, Admitted, Lifecycle!Admitted, Lifecycle!PreStates

\* How a step of a's mount reads for the contract: it keeps out of the
\* instance, enters it, leaves it, or has the bootstrap enter it.
LEMMA MountStepPasses ==
  ASSUME TypeOK, QueueInv, LifeInv, NEW a \in Addresses, MountStep(a)
  PROVE  \/ UNCHANGED <<state, BootInside, RunInside(a)>>
         \/ /\ RunInside(a) = "none" /\ BootInside = "none" /\ UNCHANGED BootInside
            /\ RunInside(a)' \in {"load", "render"}
            /\ state \in Contract!Before(RunInside(a)')
            /\ state' = Contract!During(RunInside(a)')
         \/ /\ RunInside(a) # "none" /\ BootInside = "none" /\ UNCHANGED BootInside
            /\ state = Contract!During(RunInside(a))
            /\ state' \in {"ready", "error"}
            /\ RunInside(a)' = "none"
         \/ /\ RunInside(a) = "none" /\ RunInside(a)' = "none"
            /\ BootInside = "none" /\ BootInside' = "load"
            /\ state \in Contract!Before("load") /\ state' = Contract!During("load")
<1>. DEFINE leaves == /\ RunInside(a) # "none" /\ BootInside = "none" /\ UNCHANGED BootInside
                      /\ state = Contract!During(RunInside(a))
                      /\ state' \in {"ready", "error"}
                      /\ RunInside(a)' = "none"
<1>1. run[a] \in RunRecord /\ run \in [Addresses -> RunRecord]
  BY DEF TypeOK
<1>2. \A st : Goes(a, st) => run'[a].stage = st
  BY <1>1 DEF Goes, RunRecord
<1>3. Dequeue(a) => run'[a].stage = "idle"
  BY <1>1 DEF Dequeue, NoRun
<1>4. ASSUME run[a].stage \in LoadStages \cup RenderStages,
             run'[a].stage \notin LoadStages \cup RenderStages,
             UNCHANGED bootstrap, state' \in {"ready", "error"}
      PROVE  leaves
  <2>1. BootInside = "none" /\ UNCHANGED BootInside
    BY <1>4 DEF LifeInv, BootInside, LoadStages, RenderStages
  <2>2. state = Contract!During(RunInside(a)) /\ RunInside(a) # "none"
    BY <1>4, Tables DEF LifeInv, RunInside, LoadStages, RenderStages
  <2>. QED BY <1>4, <2>1, <2>2 DEF RunInside
<1>. HIDE DEF leaves
<1>5. CASE Start(a) \/ FetchFails(a) \/ RenderRefused(a) \/ RenderBegins(a)
           \/ ComponentLoaded(a) \/ RootCreated(a)
  <2>1. /\ UNCHANGED <<state, bootstrap>>
        /\ \/ /\ run[a].stage \notin LoadStages \cup RenderStages
              /\ run'[a].stage \notin LoadStages \cup RenderStages
           \/ /\ run[a].stage \in RenderStages
              /\ run'[a].stage \in RenderStages
    BY <1>1, <1>2, <1>3, <1>5
    DEF Start, FetchFails, RenderRefused, RenderBegins, ComponentLoaded, RootCreated, Loaded,
        Rejects, LoadStages, RenderStages, RunRecord
  <2>. QED BY <2>1 DEF BootInside, RunInside, LoadStages, RenderStages
<1>6. CASE Fetched(a) /\ kind = "reloading"
  <2>1. /\ run[a].stage = "fetch" /\ run'[a].stage = "entry" /\ bootstrap = "none"
        /\ UNCHANGED bootstrap /\ Admitted("load") /\ state' = "loading"
    BY <1>2, <1>6 DEF Fetched, LifeInv
  <2>. QED BY <2>1, Tables DEF BootInside, RunInside, LoadStages, RenderStages
<1>7. CASE Fetched(a) /\ kind # "reloading"
  <2>1. /\ run[a].stage = "fetch" /\ run'[a].stage = "ready"
        /\ \/ /\ bootstrap = "none" /\ bootstrap' = "entry"
              /\ state = "uninitialized" /\ state' = "loading"
           \/ UNCHANGED <<bootstrap, state>>
    BY <1>2, <1>7 DEF Fetched, LifeInv
  <2>. QED BY <2>1, Tables DEF BootInside, RunInside, LoadStages, RenderStages
<1>8. CASE Render(a)
  <2>1. /\ run[a].stage = "ready" /\ run'[a].stage = "hooks" /\ bootstrap \notin LoadStages
        /\ UNCHANGED bootstrap /\ Admitted("render") /\ state' = "rendering"
    BY <1>2, <1>8 DEF Render, Loaded, LifeInv, LoadStages
  <2>. QED BY <2>1, Tables DEF BootInside, RunInside, LoadStages, RenderStages
<1>9. CASE OwnLoad(a)
  <2>1. CASE Goes(a, "ready")
    <3>1. /\ run[a].stage \in LoadStages /\ state' \in {"ready", "error"} /\ UNCHANGED bootstrap
      BY <1>2, <1>9, <2>1 DEF OwnLoad, LoadStages, InitsContainer, LoadStatusError
    <3>2. leaves
      BY <1>2, <1>4, <2>1, <3>1 DEF LoadStages, RenderStages
    <3>. QED BY <3>2 DEF leaves
  <2>2. CASE ~Goes(a, "ready")
    <3>1. /\ UNCHANGED <<state, bootstrap>>
          /\ run[a].stage = "entry" /\ run'[a].stage = "init"
      BY <1>2, <1>9, <2>2 DEF OwnLoad, FetchesContainer
    <3>. QED BY <3>1 DEF BootInside, RunInside, LoadStages, RenderStages
  <2>. QED BY <2>1, <2>2
<1>10. CASE OwnLoadThrows(a) \/ HookThrows(a) \/ RenderFails(a) \/ Paint(a)
            \/ AngularBoots(a) \/ AngularFallback(a)
  <2>1. /\ run[a].stage \in LoadStages \cup RenderStages /\ run'[a].stage = "idle"
        /\ state' \in {"ready", "error"} /\ UNCHANGED bootstrap
    BY <1>3, <1>10
    DEF OwnLoadThrows, LoadThrows, HookThrows, RenderFails, Paint, AngularBoots,
        AngularFallback, Rejects, Returns, LoadStages, RenderStages
  <2>2. leaves
    BY <1>4, <2>1 DEF LoadStages, RenderStages
  <2>. QED BY <2>2 DEF leaves
<1>. QED BY <1>5, <1>6, <1>7, <1>8, <1>9, <1>10 DEF MountStep

\* So every step of a mount is a step of the contract, or none.
LEMMA MountStepContract ==
  ASSUME TypeOK, QueueInv, LifeInv, NEW a \in Addresses, MountStep(a)
  PROVE  ContractStep
<1>1. \A b \in Addresses \ {a} : RunInside(b) = "none" /\ RunInside(b)' = "none"
  BY Solo DEF Active, RunInside, LoadStages, RenderStages
<1>2. a \in Participants /\ Bootstrap \in Participants /\ a # Bootstrap
  BY BootstrapAssumption DEF Participants
<1>3. CASE UNCHANGED <<state, BootInside, RunInside(a)>>
  <2>1. \A i \in Participants : Within'[i] = Within[i]
    BY <1>1, <1>3, InsideIs DEF Participants
  <2>2. Within' = Within
    BY <2>1, InsideIs
  <2>. QED BY <1>3, <2>2 DEF ContractStep
<1>4. CASE /\ RunInside(a) = "none" /\ BootInside = "none" /\ UNCHANGED BootInside
           /\ RunInside(a)' \in {"load", "render"}
           /\ state \in Contract!Before(RunInside(a)')
           /\ state' = Contract!During(RunInside(a)')
  <2>1. \A i \in Participants : /\ Within[i] = "none"
                                /\ Within'[i] = IF i = a THEN RunInside(a)' ELSE Within[i]
    BY <1>1, <1>2, <1>4, InsideIs DEF Participants
  <2>2. Within' = [Within EXCEPT ![a] = RunInside(a)']
    BY <2>1, InsideIs
  <2>. QED BY <1>2, <1>4, <2>1, <2>2 DEF ContractStep, EnterStep
<1>5. CASE /\ RunInside(a) # "none" /\ BootInside = "none" /\ UNCHANGED BootInside
           /\ state = Contract!During(RunInside(a))
           /\ state' \in {"ready", "error"}
           /\ RunInside(a)' = "none"
  <2>1. \A i \in Participants : Within'[i] = IF i = a THEN "none" ELSE Within[i]
    BY <1>1, <1>2, <1>5, InsideIs DEF Participants
  <2>2. Within' = [Within EXCEPT ![a] = "none"]
    BY <2>1, InsideIs
  <2>3. Within[a] = RunInside(a)
    BY InsideIs
  <2>. QED BY <1>2, <1>5, <2>2, <2>3 DEF ContractStep, LeaveStep
<1>6. CASE /\ RunInside(a) = "none" /\ RunInside(a)' = "none"
           /\ BootInside = "none" /\ BootInside' = "load"
           /\ state \in Contract!Before("load") /\ state' = Contract!During("load")
  <2>1. \A i \in Participants : /\ Within[i] = "none"
                                /\ Within'[i] = IF i = Bootstrap THEN "load" ELSE Within[i]
    BY <1>1, <1>2, <1>6, InsideIs DEF Participants
  <2>2. Within' = [Within EXCEPT ![Bootstrap] = "load"]
    BY <2>1, InsideIs
  <2>. QED BY <1>2, <1>6, <2>1, <2>2 DEF ContractStep, EnterStep
<1>. QED BY <1>3, <1>4, <1>5, <1>6, MountStepPasses

LEMMA NextContract ==
  ASSUME TypeOK, QueueInv, LifeInv, [Next]_vars
  PROVE  ContractStep
<1>0. Bootstrap \in Participants
  BY DEF Participants
<1>1. CASE BootstrapLoad
  <2>1. /\ bootstrap \in LoadStages /\ UNCHANGED run /\ state = "loading"
        /\ \/ bootstrap' \in LoadStages /\ UNCHANGED state
           \/ bootstrap' = "done" /\ state' \in {"ready", "error"}
    BY <1>1 DEF BootstrapLoad, FetchesContainer, LoadStatusError, LoadThrows, InitsContainer,
                LoadStages, LifeInv
  <2>2. \A a \in Addresses : Within'[a] = Within[a]
    BY <2>1, InsideIs DEF RunInside
  <2>3. CASE bootstrap' \in LoadStages /\ UNCHANGED state
    <3>1. Within'[Bootstrap] = Within[Bootstrap]
      BY <2>1, <2>3, InsideIs DEF BootInside
    <3>2. \A i \in Participants : Within'[i] = Within[i]
      BY <2>2, <3>1 DEF Participants
    <3>3. Within' = Within
      BY <3>2, InsideIs
    <3>. QED BY <2>3, <3>3 DEF ContractStep
  <2>4. CASE bootstrap' = "done" /\ state' \in {"ready", "error"}
    <3>1. Within[Bootstrap] = "load" /\ Within'[Bootstrap] = "none"
      BY <2>1, <2>4, InsideIs DEF BootInside, LoadStages
    <3>2. \A i \in Participants : Within'[i] = IF i = Bootstrap THEN "none" ELSE Within[i]
      BY <2>2, <3>1 DEF Participants
    <3>3. Within' = [Within EXCEPT ![Bootstrap] = "none"]
      BY <3>2, InsideIs
    <3>. QED BY <1>0, <2>1, <2>4, <3>1, <3>3, Tables DEF ContractStep, LeaveStep
  <2>. QED BY <2>1, <2>3, <2>4
<1>2. CASE UNCHANGED vars
  BY <1>2 DEF vars, ContractStep, Within, Inside, PipelineCalls
<1>3. ASSUME NEW a \in Addresses, HostStep(a) PROVE ContractStep
  <2>1. /\ UNCHANGED <<state, bootstrap>>
        /\ \A b \in Addresses : run'[b].stage = run[b].stage
             \/ (run[b].stage = "idle" /\ run'[b].stage = "queued")
    BY <1>3, HostStepRuns
  <2>2. /\ \A b \in Addresses : RunInside(b)' = RunInside(b)
        /\ BootInside' = BootInside
    BY <2>1 DEF RunInside, BootInside, LoadStages, RenderStages
  <2>3. \A i \in Participants : Within'[i] = Within[i]
    BY <2>2, InsideIs DEF Participants
  <2>4. Within' = Within
    BY <2>3, InsideIs
  <2>. QED BY <2>1, <2>4 DEF ContractStep
<1>. QED BY <1>1, <1>2, <1>3, MountStepContract DEF Next

\* What the contract sees is a step of its own, or none.
LEMMA ContractNext == ContractStep => [Contract!Next]_(Contract!vars)
BY DEF ContractStep, EnterStep, LeaveStep, Within, Participants, Contract!Next,
       Contract!vars, Contract!Enter, Contract!Leave

\* The adaptor, the bootstrap and the handle together keep the platform contract
\* of the shared instance, for any number of addresses and binds and every kind
\* of remote, whatever fails and whatever is cleared or bound again meanwhile.
THEOREM MountsKeepTheContract == Spec => ImplementsContract
<1>1. Init => TypeOK /\ QueueInv /\ PointInv /\ LifeInv
  BY InitTypeOK, InitQueue, InitPoints, InitLife
<1>2. TypeOK /\ QueueInv /\ PointInv /\ LifeInv /\ [Next]_vars
        => TypeOK' /\ QueueInv' /\ PointInv' /\ LifeInv'
  BY NextTypeOK, NextQueue, NextPoints, NextLife
<1>3. Init => Contract!Init
  <2>. SUFFICES ASSUME Init PROVE Contract!Init
    OBVIOUS
  <2>1. \A i \in Participants : Within[i] = "none"
    BY InsideIs DEF Init, NoRun, Participants, RunInside, BootInside, LoadStages, RenderStages
  <2>. QED BY <2>1, InsideIs DEF Init, Contract!Init, Within, Participants
<1>4. TypeOK /\ QueueInv /\ LifeInv /\ [Next]_vars => [Contract!Next]_(Contract!vars)
  BY NextContract, ContractNext
<1>. QED
  BY <1>1, <1>2, <1>3, <1>4, PTL DEF Spec, ImplementsContract, Contract!Spec

=============================================================================
