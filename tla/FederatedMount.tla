--------------------------- MODULE FederatedMount ---------------------------
(***************************************************************************)
(* Mounting the experiences of one federation scope: the module-federation *)
(* adaptor (packages/runtime/src/layout-adaptors.ts), the presentation     *)
(* handle (imperative-handle.ts) and the remote MFE they drive             *)
(* (base-remote-mfe.ts, remote-mfe.ts, angular-remote-mfe.ts).             *)
(*                                                                         *)
(* Every placement of a remote is rendered by one shared MFE instance, so  *)
(* the adaptor queues the mounts of a scope.  Each mount imports the       *)
(* remote, waits for the bootstrap load, renders, and returns an unmount   *)
(* function to the layout manager.  One action runs from one await of a    *)
(* mount to the next; the layout manager binds, clears and degrades the    *)
(* addresses, one operation of an address at a time (LayoutManager).       *)
(***************************************************************************)
EXTENDS Naturals, Sequences

CONSTANTS
  Addresses,      \* slot addresses whose experiences come from the scope
  Experiences,    \* experience ids; the mount point's DOM id is made of it
  Kinds,          \* what the remote may export
  MaxBinds        \* bound: binds in a behaviour

(***************************************************************************)
(* What a remote exports.                                                  *)
(*   legacy     React, the bootstrap pair { mfe, mfeReady }                *)
(*   angular    Angular, the bootstrap pair                                *)
(*   handle     React, a handle made with mfeReady (the generated remote)  *)
(*   reloading  React, a handle without mfeReady: it loads for every mount *)
(***************************************************************************)
AllKinds == {"legacy", "angular", "handle", "reloading"}

ASSUME KindsAssumption == Kinds \subseteq AllKinds
ASSUME MaxBindsAssumption == MaxBinds \in Nat

VARIABLES
  kind,        \* what this remote exports
  state,       \* the lifecycle state of the shared instance
  bootstrap,   \* the load behind mfeReady: none, entry, init, done
  container,   \* this.container: none, fetched, initialised
  components,  \* this.availableComponents was extracted
  slot,        \* the layout manager's slot of each address
  queue,       \* scopeMountQueues: the addresses whose mounts are not settled
  run,         \* the mount of each address, at the await it is suspended at
  point,       \* the mount point in each slot element; 0 when there is none
  rootOf,      \* reactRoots / applicationRefs: the point a root was made for
  painted,     \* the points that show content of the remote
  binds        \* how many binds were made; it also names the mount points

remote == <<container, components>>
vars == <<kind, state, bootstrap, container, components, slot, queue, run,
          point, rootOf, painted, binds>>

Points == 1..MaxBinds
Stages == {"idle", "queued", "fetch", "entry", "init", "ready", "hooks",
           "component", "root", "paint"}
Results == {"none", "rendered", "fallback", "error"}

SlotRecord == [exp: Experiences, status: {"free", "pending", "ready", "error"},
               result: Results]
RunRecord  == [stage: Stages, point: 0..MaxBinds, root: 0..MaxBinds]

NoRun == [stage |-> "idle", point |-> 0, root |-> 0]

(***************************************************************************)
(* The lifecycle of the shared instance, as the pipeline of MfeLifecycle   *)
(* sees it: the bootstrap load and the mounts are its calls.               *)
(***************************************************************************)
LoadStages   == {"entry", "init"}
RenderStages == {"hooks", "component", "root", "paint"}

PipelineCall(c, inFlight) ==
  [cap |-> c, stage |-> IF inFlight THEN "do" ELSE "idle", busy |-> inFlight,
   skipped |-> {}]

Bootstrap == "bootstrap"

ASSUME BootstrapAssumption == Bootstrap \notin Addresses

PipelineCalls ==
  [i \in Addresses \cup {Bootstrap} |->
     IF i = Bootstrap
       THEN PipelineCall("load", bootstrap \in LoadStages)
       ELSE PipelineCall(IF run[i].stage \in LoadStages THEN "load" ELSE "render",
                         run[i].stage \in LoadStages \cup RenderStages)]

Lifecycle == INSTANCE MfeLifecycle
  WITH Calls <- Addresses \cup {Bootstrap}, Capabilities <- {"load", "render"},
       Hooked <- {}, lifecycleStack <- <<>>, call <- PipelineCalls

\* assertState and the enter transition of capability c.
Admitted(c) == Lifecycle!Admitted(c)

-----------------------------------------------------------------------------
(***************************************************************************)
(* The layout manager.                                                     *)
(***************************************************************************)
Init ==
  /\ kind \in Kinds
  /\ state = "uninitialized"
  /\ bootstrap = "none"
  /\ container = "none"
  /\ components = FALSE
  /\ \E e \in Experiences :
       slot = [a \in Addresses |-> [exp |-> e, status |-> "free", result |-> "none"]]
  /\ queue = <<>>
  /\ run = [a \in Addresses |-> NoRun]
  /\ point = [a \in Addresses |-> 0]
  /\ rootOf = [e \in Experiences |-> 0]
  /\ painted = {}
  /\ binds = 0

Shows(a, e) == slot[a].exp = e /\ slot[a].status # "free"

\* bindExperienceNow calls the adaptor, which appends the mount to the queue of
\* its scope.  The daemon gives every federated experience a fresh id, so that
\* an id is never bound while another address still shows it.
Bind(a, e) ==
  /\ slot[a].status \in {"free", "error"}
  /\ \A b \in Addresses \ {a} : ~Shows(b, e)
  /\ binds < MaxBinds
  /\ binds' = binds + 1
  /\ slot' = [slot EXCEPT ![a] = [exp |-> e, status |-> "pending", result |-> "none"]]
  /\ queue' = Append(queue, a)
  /\ run' = [run EXCEPT ![a] = [NoRun EXCEPT !.stage = "queued", !.point = binds + 1]]
  /\ UNCHANGED <<kind, state, bootstrap, remote, point, rootOf, painted>>

\* A mutant of Release: the root is unmounted but its entry is kept.
Release_KeepsEntry(e) ==
  /\ painted' = painted \ {rootOf[e]}
  /\ UNCHANGED rootOf

\* The root of e is released: root.unmount or appRef.destroy, and the entry.
Release(e) ==
  /\ rootOf' = [rootOf EXCEPT ![e] = 0]
  /\ painted' = painted \ {rootOf[e]}

\* A mutant of Unmount: the legacy adaptor calls destroy, as the handle does.
Unmount_Destroys(a) == UNCHANGED <<rootOf, painted>>

\* The unmount function of a mount.  A bootstrap pair unmounts the container id.
\* A handle calls mfe.destroy, which no remote MFE of this repository has.
Unmount(a) ==
  IF kind \in {"legacy", "angular"} THEN Release(slot[a].exp)
                                    ELSE UNCHANGED <<rootOf, painted>>

\* clearSlotNow, and handleSlotError for an error the island reports: unmount,
\* then empty the element.
TearDown(a, after) ==
  /\ slot[a].status = "ready"
  /\ Unmount(a)
  /\ slot' = [slot EXCEPT ![a].status = after, ![a].result = "none"]
  /\ point' = [point EXCEPT ![a] = 0]
  /\ UNCHANGED <<kind, state, bootstrap, remote, queue, run, binds>>

Clear(a)   == TearDown(a, "free")
Degrade(a) == TearDown(a, "error")

\* clearSlotNow of an address that shows the fallback: nothing to unmount.
ClearFallback(a) ==
  /\ slot[a].status = "error"
  /\ slot' = [slot EXCEPT ![a].status = "free"]
  /\ UNCHANGED <<kind, state, bootstrap, remote, queue, run, point, rootOf,
                 painted, binds>>

-----------------------------------------------------------------------------
(***************************************************************************)
(* The mount.                                                              *)
(***************************************************************************)

\* The mount of a settles and the next one of the scope may start.
Dequeue(a) ==
  /\ queue' = Tail(queue)
  /\ run' = [run EXCEPT ![a] = NoRun]

\* A mutant of Rejects: a rejected mount is never taken off the queue.
Rejects_Poisons(a) ==
  /\ run' = [run EXCEPT ![a] = NoRun]
  /\ slot' = [slot EXCEPT ![a].status = "error"]
  /\ point' = [point EXCEPT ![a] = 0]
  /\ UNCHANGED <<queue, rootOf, painted>>

\* The mount rejects: the layout manager empties the element and shows the
\* fallback (handleSlotError).
Rejects(a) ==
  /\ Dequeue(a)
  /\ slot' = [slot EXCEPT ![a].status = "error"]
  /\ point' = [point EXCEPT ![a] = 0]
  /\ UNCHANGED <<rootOf, painted>>

\* render() resolves, whatever its result says; the adaptor does not look at it
\* and the layout manager marks the slot ready.
Returns(a, result) ==
  /\ Dequeue(a)
  /\ state' = "ready"
  /\ slot' = [slot EXCEPT ![a].status = "ready", ![a].result = result]
  /\ UNCHANGED point

Goes(a, stage) == run' = [run EXCEPT ![a].stage = stage]

\* A mutant of Start: the mounts of a scope are not queued.
Start_Unqueued(a) ==
  /\ run[a].stage = "queued"
  /\ point' = [point EXCEPT ![a] = run[a].point]
  /\ Goes(a, "fetch")
  /\ UNCHANGED <<kind, state, bootstrap, remote, slot, queue, rootOf, painted, binds>>

\* The mount reaches the head of its scope's queue: it appends its mount point
\* and starts to import the remote.
Start(a) ==
  /\ run[a].stage = "queued"
  /\ Head(queue) = a
  /\ point' = [point EXCEPT ![a] = run[a].point]
  /\ Goes(a, "fetch")
  /\ UNCHANGED <<kind, state, bootstrap, remote, slot, queue, rootOf, painted, binds>>

\* The script, container.init, container.get or the factory fails - or the gate
\* refuses the load() of a handle without mfeReady.
FetchFails(a) ==
  /\ run[a].stage = "fetch"
  /\ Rejects(a)
  /\ UNCHANGED <<kind, state, bootstrap, remote, binds>>

\* The remote's module is there.  Its first evaluation runs the bootstrap,
\* which calls load().  A handle without mfeReady calls load() for this mount.
Fetched(a) ==
  /\ run[a].stage = "fetch"
  /\ IF kind = "reloading"
       THEN /\ Admitted("load")
            /\ state' = "loading"
            /\ Goes(a, "entry")
            /\ UNCHANGED bootstrap
       ELSE /\ Goes(a, "ready")
            /\ IF bootstrap = "none"
                 THEN bootstrap' = "entry" /\ state' = "loading"
                 ELSE UNCHANGED <<bootstrap, state>>
  /\ UNCHANGED <<kind, remote, slot, queue, point, rootOf, painted, binds>>

-----------------------------------------------------------------------------
(***************************************************************************)
(* doLoad.  Failures are caught and returned as a status, so that load()   *)
(* resolves and the state machine goes on to ready; only a throwing hook   *)
(* takes it to error.                                                      *)
(***************************************************************************)
FetchesContainer == container' = "fetched" /\ UNCHANGED <<components, state>>

\* A mutant of InitsContainer: the components are published although the
\* container's init failed.
InitsContainer_Early ==
  /\ components' = TRUE
  /\ container' \in {"fetched", "initialised"}
  /\ state' = "ready"

\* container.init, then the component table from the manifest; the rest of
\* doLoad and the exit transition follow without an await.
InitsContainer ==
  /\ container' = "initialised"
  /\ components' = TRUE
  /\ state' = "ready"

\* A mutant of LoadStatusError: the exit transition is skipped on a failure.
LoadStatusError_Stuck == UNCHANGED <<state, remote>>

LoadStatusError == state' = "ready" /\ UNCHANGED remote

LoadThrows == state' = "error" /\ UNCHANGED remote

\* The bootstrap load.  mfeReady resolves in every case (its catch logs).
BootstrapLoad ==
  /\ \/ bootstrap = "entry" /\ bootstrap' = "init" /\ FetchesContainer
     \/ bootstrap = "entry" /\ bootstrap' = "done" /\ (LoadStatusError \/ LoadThrows)
     \/ bootstrap = "init"  /\ bootstrap' = "done" /\ (InitsContainer \/ LoadStatusError)
  /\ UNCHANGED <<kind, slot, queue, run, point, rootOf, painted, binds>>

\* The load a handle without mfeReady makes for a mount.  Its status is not
\* looked at; a throw rejects the mount.
OwnLoad(a) ==
  /\ \/ run[a].stage = "entry" /\ FetchesContainer /\ Goes(a, "init")
     \/ run[a].stage \in LoadStages /\ LoadStatusError /\ Goes(a, "ready")
     \/ run[a].stage = "init" /\ InitsContainer /\ Goes(a, "ready")
  /\ UNCHANGED <<kind, bootstrap, slot, queue, point, rootOf, painted, binds>>

OwnLoadThrows(a) ==
  /\ run[a].stage = "entry"
  /\ LoadThrows
  /\ Rejects(a)
  /\ UNCHANGED <<kind, bootstrap, binds>>

-----------------------------------------------------------------------------
(***************************************************************************)
(* render() and doRender.                                                  *)
(***************************************************************************)

\* A mutant of Loaded: the mount does not wait for mfeReady.
Loaded_AtOnce(a) == run[a].stage = "ready"

\* The load this mount waits for has settled.
Loaded(a) == run[a].stage = "ready" /\ (kind = "reloading" \/ bootstrap = "done")

Render(a) ==
  /\ Loaded(a)
  /\ Admitted("render")
  /\ state' = "rendering"
  /\ Goes(a, "hooks")
  /\ UNCHANGED <<kind, bootstrap, remote, slot, queue, point, rootOf, painted, binds>>

\* The gate of the lifecycle refuses the render and the mount rejects.
RenderRefused(a) ==
  /\ Loaded(a)
  /\ ~Admitted("render")
  /\ Rejects(a)
  /\ UNCHANGED <<kind, state, bootstrap, remote, binds>>

\* A main-phase hook of render throws.
HookThrows(a) ==
  /\ run[a].stage = "hooks"
  /\ state' = "error"
  /\ Rejects(a)
  /\ UNCHANGED <<kind, bootstrap, remote, binds>>

\* doRender checks the component table and the container, then loads the
\* component.
RenderBegins(a) ==
  /\ run[a].stage = "hooks"
  /\ components /\ container # "none"
  /\ Goes(a, "component")
  /\ UNCHANGED <<kind, state, bootstrap, remote, slot, queue, point, rootOf,
                 painted, binds>>

\* doRender catches what fails in it - a check, the component, an import, the
\* missing element - and returns status error.
RenderFails(a) ==
  /\ run[a].stage \in RenderStages
  /\ Returns(a, "error")
  /\ UNCHANGED <<kind, bootstrap, remote, rootOf, painted, binds>>

\* A mutant of Element: the mount uses the root it has not made yet.
Element_Unset(a) == run[a].root

\* The element found by the container id of the mount.
Element(a) == point[a]

\* mountComponent up to its first await.  React reuses the root of the container
\* id; Angular destroys the application of the container id first.
ComponentLoaded(a) ==
  /\ run[a].stage = "component"
  /\ LET old == rootOf[slot[a].exp] IN
       CASE kind = "angular" /\ old # 0 -> Release(slot[a].exp) /\ Goes(a, "root")
         [] kind # "angular" /\ old # 0 ->
              /\ run' = [run EXCEPT ![a].stage = "paint", ![a].root = old]
              /\ UNCHANGED <<rootOf, painted>>
         [] OTHER -> Goes(a, "root") /\ UNCHANGED <<rootOf, painted>>
  /\ UNCHANGED <<kind, state, bootstrap, remote, slot, queue, point, binds>>

\* react-dom is there: the root is made on the element found before.
RootCreated(a) ==
  /\ run[a].stage = "root"
  /\ kind # "angular"
  /\ rootOf' = [rootOf EXCEPT ![slot[a].exp] = Element(a)]
  /\ run' = [run EXCEPT ![a].stage = "paint", ![a].root = Element(a)]
  /\ UNCHANGED <<kind, state, bootstrap, remote, slot, queue, point, painted, binds>>

\* React and the optional fallback component are there: the root renders.
Paint(a) ==
  /\ run[a].stage = "paint"
  /\ painted' = painted \cup {run[a].root}
  /\ Returns(a, "rendered")
  /\ UNCHANGED <<kind, bootstrap, remote, rootOf, binds>>

\* The Angular application is bootstrapped on its host element.
AngularBoots(a) ==
  /\ run[a].stage = "root"
  /\ kind = "angular"
  /\ rootOf' = [rootOf EXCEPT ![slot[a].exp] = Element(a)]
  /\ painted' = painted \cup {Element(a)}
  /\ Returns(a, "rendered")
  /\ UNCHANGED <<kind, bootstrap, remote, binds>>

\* It throws: the element gets fallback markup and no application is recorded.
AngularFallback(a) ==
  /\ run[a].stage = "root"
  /\ kind = "angular"
  /\ Returns(a, "fallback")
  /\ UNCHANGED <<kind, bootstrap, remote, rootOf, painted, binds>>

-----------------------------------------------------------------------------
MountStep(a) ==
  \/ Start(a)
  \/ Fetched(a) \/ FetchFails(a)
  \/ OwnLoad(a) \/ OwnLoadThrows(a)
  \/ Render(a) \/ RenderRefused(a) \/ HookThrows(a)
  \/ RenderBegins(a) \/ RenderFails(a) \/ ComponentLoaded(a)
  \/ RootCreated(a) \/ Paint(a) \/ AngularBoots(a) \/ AngularFallback(a)

HostStep(a) ==
  \/ \E e \in Experiences : Bind(a, e)
  \/ Clear(a) \/ Degrade(a) \/ ClearFallback(a)

Next == BootstrapLoad \/ \E a \in Addresses : MountStep(a) \/ HostStep(a)

\* What a mount awaits settles one way or the other, and the event loop runs
\* the continuation; the host is not assumed to do anything.
Fairness == WF_vars(BootstrapLoad) /\ \A a \in Addresses : WF_vars(MountStep(a))

Spec == Init /\ [][Next]_vars /\ Fairness

-----------------------------------------------------------------------------
(***************************************************************************)
(* Properties.                                                             *)
(***************************************************************************)

\* The types of the variables.
TypeOK ==
  /\ kind \in Kinds
  /\ state \in {"uninitialized", "loading", "ready", "rendering", "error"}
  /\ bootstrap \in {"none", "entry", "init", "done"}
  /\ container \in {"none", "fetched", "initialised"}
  /\ components \in BOOLEAN
  /\ slot \in [Addresses -> SlotRecord]
  /\ queue \in Seq(Addresses)
  /\ run \in [Addresses -> RunRecord]
  /\ point \in [Addresses -> 0..MaxBinds]
  /\ rootOf \in [Experiences -> 0..MaxBinds]
  /\ painted \subseteq Points
  /\ binds \in 0..MaxBinds

\* The queue and mfeReady together are the critical section of the instance:
\* loading and rendering belong to one call, the bootstrap load or one mount,
\* and that call finds the state it entered (the promise of the lifecycle,
\* MfeLifecycle!TransitionOwner, for the calls the adaptor makes).
CallsShareTheLifecycle == Lifecycle!TransitionOwner

\* The load or render call i is inside of.
Inside(i) ==
  LET c == PipelineCalls[i] IN IF c.stage = "do" THEN c.cap ELSE "none"

\* The mounts of a scope and the bootstrap keep the platform contract of the
\* instance they share, whatever is bound, cleared or degraded meanwhile: each
\* load and render enters alone and in a state that admits it, the one that
\* entered is the one that leaves, and nothing else moves the state.
Contract == INSTANCE InstanceContract
  WITH Calls <- Addresses \cup {Bootstrap},
       inside <- [i \in Addresses \cup {Bootstrap} |-> Inside(i)]

ImplementsContract == Contract!Spec

\* The lifecycle gate never refuses a mount for overlapping another one
\* ("expected ready, got rendering", layout-adaptors.ts:226-234): when a mount
\* is about to render or to load, the instance is at rest; it can be refused
\* only after a hook has thrown.
RefusedOnlyAfterFailure ==
  \A a \in Addresses :
    /\ Loaded(a) => state \in {"ready", "error"}
    /\ run[a].stage = "fetch" /\ kind = "reloading" =>
         state \in {"uninitialized", "ready", "error"}

ReleasesRoots == kind \in {"legacy", "angular"}

\* With a bootstrap pair no root outlives its slot: a recorded root belongs to
\* an address that shows its experience or is mounting it, and was made on the
\* mount point in that address's element.
RootsBelongToSlots ==
  ReleasesRoots =>
    \A e \in Experiences : rootOf[e] # 0 =>
      \E a \in Addresses : Shows(a, e) /\ point[a] = rootOf[e]

\* With a bootstrap pair a slot whose mount rendered shows the content in its
\* own element, after any number of teardowns, failures and re-binds of the
\* same container id (layout-adaptors.test.ts:30, "so a legacy singleton can
\* rebind").
ReadyShowsContent ==
  ReleasesRoots =>
    \A a \in Addresses :
      slot[a].status = "ready" /\ slot[a].result = "rendered" =>
        point[a] \in painted

\* Where the remote loads once, nothing is ever rendered from a container whose
\* init has not completed, although doLoad keeps a fetched container after a
\* failure and load() reports success: the component table stands guard.
RenderedFromLoaded ==
  kind # "reloading" =>
    \A a \in Addresses :
      run[a].stage \in {"component", "root", "paint"} \/ slot[a].result = "rendered"
        => container = "initialised"

\* Every mount settles once what it awaits does: a mount that fails does not
\* keep the mounts behind it waiting (layout-adaptors.ts:232-233, "must not poison
\* the queue").
EveryMountSettles ==
  \A a \in Addresses : (slot[a].status = "pending") ~> (slot[a].status # "pending")

\* No mount waits in vain: the addresses with a mount pending are those in the
\* queue, each of them once, so that the mount at its head can go on - or
\* waits for a bootstrap load that the evaluation of its remote has begun.  It
\* is what EveryMountSettles needs of the states, whatever failed before.
NoMountWaitsInVain ==
  /\ \A a \in Addresses :
       slot[a].status = "pending" <=> \E k \in DOMAIN queue : queue[k] = a
  /\ \A k, l \in DOMAIN queue : queue[k] = queue[l] => k = l
  /\ \A a \in Addresses : run[a].stage \notin {"idle", "queued"} => Head(queue) = a
  /\ \A a \in Addresses :
       run[a].stage = "ready" /\ kind # "reloading" => bootstrap # "none"

\* ADR-066:90-92: the experience "re-binds into the provided element" - a slot
\* whose mount rendered shows the content there, whatever the remote exports.
RebindShowsContent ==
  \A a \in Addresses :
    slot[a].status = "ready" /\ slot[a].result = "rendered" => point[a] \in painted

=============================================================================
