# Verification of the micro-frontend platform

TLA+ models of the platform's run-time core, the TLC runs that check them, and
TLAPS proofs of the results that matter most. `src/` below is the repository;
line numbers are of the commit the models were written from. `PROJECT.json`
lists, for every definition, the lines it translates.

## 1. The system and its parts

A *shell* (host page) shows *micro-frontends* (MFEs). Which MFE is shown where is
decided by a *control plane*: a **registry** that holds the MFEs and their
placement rules, and a **daemon** that connects the renderers to it.

```
 renderer (LayoutManager, islands)          MFE instances (BaseMFE)
    |  action            ^ EXPERIENCE           ^ authorize/load/render/refresh
    v                    |                      |
 daemon  --- forward --> registry --- RESOLUTION component ---> daemon
```

An action goes up: the daemon keeps its session context, acknowledges it and
forwards it. The registry evaluates its rules and publishes a RESOLUTION. The
daemon turns that into calls on the MFE and an EXPERIENCE, which every renderer
receives, and the layout manager of the shell mounts it at a slot address.

| Component | State | Operations | What is hard | What makes it correct |
|---|---|---|---|---|
| **MFE lifecycle** `packages/runtime/src/base-mfe.ts`, tables in `packages/contracts/src/platform-contract.ts` | `state`, `_lifecycleStack` | the ten capabilities: guard, enter transition, before/main hooks, body, after hooks, exit transition; error boundary | calls overlap at every await; hooks throw past cleanup | one owner of `loading`/`rendering`; no illegal transition once admitted; bounded stack; every call settles |
| **Slot composition** `packages/runtime/src/layout-manager.ts` | `desired` and its reverse index, `slots`, one operation queue per address | place, replay, provideSlot, release, error report, stop, start | placements, callbacks of islands and shutdown between the awaits of a queued operation; nested and mutual provision | desired state is a bijection; no island leaks; addresses converge; entries are released by their owner; queues drain |
| **Registry** `packages/control-plane/registry/simple-registry.js`, `slot-target.js` | MFEs, routes, provided slots, ordered rule table, components and their timers | register, evaluate an action, render, update, expire | evaluation awaits between rules while registrations rewrite the table; refused and half-installed registrations | a rule fires once, none is skipped; nothing refused is placed; no rule is installed against a declaration it could have read |
| **Daemon** `packages/control-plane/daemon/simple-daemon.js` | `sessions`, `activeResolutions`, `loadedMfes`, `mfeDirectory`, `componentState`, registry socket | action, RESOLUTION pipeline, inbound component, reconnect | resolutions overlap at each fetch and share four Maps; timeouts race answers; the directory is never invalidated | gate before serving; load before render; refresh only what was rendered; every resolution is answered |
| **Layout adaptors and remote MFE** `packages/runtime/src/layout-adaptors.ts`, `imperative-handle.ts`, `base-remote-mfe.ts`, `remote-mfe.ts`, `angular-remote-mfe.ts` | a promise chain per federation scope; the instance's lifecycle state, container and component table; mount roots per container id | mount, unmount; doLoad, doRender, mountComponent | mounts share one instance; loads stop half-way; a failed render is a status, not an exception; roots are keyed by experience id | one call owns the lifecycle; roots follow slots; nothing is rendered from a container that was not initialised; every mount settles |
| **Layout transport** `packages/runtime/src/layout-transport.ts` | socket, acked flag, stopped flag, reconnect timer | start, stop, send, frames, close | a close event after `stop()`; an acknowledgement after the loss; timers | one loop per transport; none after stop; a lost connection comes back |
| **Control-plane base** `packages/runtime/src/base-control-plane.ts` | status, layout manager | start, stop | start and stop overlap at their awaits and may fail | one physical connection; the status is true, also after a start that threw half-way |
| Subscription client, slot channel `graphql-ws-client.ts`, `daemon-channel.ts` | none of their own | query, subscribe, close | - | they report the transport's status |
| Capability wrappers `retry-wrapper.ts`, `timeout-wrapper.ts` | attempt, timer | wrap a handler | a handler keeps running after its timeout | attempts are bounded |
| Handlers and context `packages/runtime/src/handlers`, `context.ts` | none | hooks of the pipeline | - | they return or throw |
| Contracts `packages/contracts/src` | none (types, guards, slot grammar) | parse and validate | - | pure functions |
| DSL `packages/dsl/src` | none | parse, type, validate manifests | - | pure functions |
| Code generation `packages/codegen`, `framework-*` | files | templates | - | output text |
| CLI, MCP server, deployment `src/commands`, `src/mcp`, `src/oclif`, ... | files, child processes | one-shot commands | - | process I/O |

The rows in bold are modelled; section 8 says why the others are not.

## 2. The modules

| Module | What it is |
|---|---|
| `MfeLifecycle` | one MFE instance under concurrent capability calls |
| `InstanceContract` | the abstract promise of an MFE instance: load and render one at a time; `MfeLifecycle` and `FederatedMount` refine it |
| `LayoutManager` | the slot composition of one shell |
| `SlotPlacement` | the abstract promise of the slot composition; `LayoutManager` refines it |
| `IslandCycle` | what the layout manager promises the adaptors: mount, settle, unmount, one island at a time per address; `LayoutManager` refines it |
| `FederatedMount` | the mounts of one federation scope: adaptor queue, presentation handle, remote MFE; takes the lifecycle's promise from `MfeLifecycle` by `INSTANCE` |
| `LayoutTransport` | the daemon transports of the layout managers of a host |
| `ControlPlane` | the host's start and stop over `LayoutTransport`, which it extends |
| `ComponentRegistry` | the registry with overlapping evaluations and registrations |
| `ComponentDaemon` | the daemon's resolution pipeline |
| `MC...` | small instances of each for TLC |
| `..._proofs` | the theorems about each; `LayoutRefinement_proofs` holds the refinements of `SlotPlacement` and `IslandCycle`, `SlotProviders_proofs` the theorem on contributed slots |

Common conventions. JavaScript is single-threaded: the code between two awaits
(or between two callbacks) is one action, and an actor records in a stage field
the await at which it is suspended. Variables named "history" in a module are
not in the code; they record what happened so that a property can speak of it.
Data is reduced to what the properties tell apart. Operators whose comment calls
them mutants are altered forms of a neighbouring definition; each shows that a
property notices a plausible slip in the code. They are not part of any
specification.

**MfeLifecycle.** `call[i]` is an invocation of `executeCapability`; its stage is
the phase it is in, `busy` that it awaits hooks or the body. `Call`/`Reject` are
`assertState` and the enter transition, up to the first await. `StartPhase` and
`HooksReturn` are `executeLifecycle`: guard, push, hooks, `pop` of whatever is on
top. `MainHookThrows` leaves past the pop, as the code does. `Exit`, `Fail` are
the exit transition and the error boundary, with their own legality checks. Hook
bodies and `doX` belong to the environment. Telemetry and the state history are
write-only and left out.

**LayoutManager.** `queue[a]` is the promise chain of address `a`, `running[a]` the
operation under way and the await it is at: an unmount (clearing, releasing,
degrading), an adaptor's mount, a send. `Place` is `mountExperience` with its
replay fast path; `ProvideSlot`, `ReleaseSlot`, `ReportError` are the callbacks
handed to a mounted island, and `LateProvideSlot` the same callback of an island
whose slot is already torn down. `Stop`, `StopClears`, `StopResumes`, `StopFinishes` are
`stop()`, which walks a snapshot of the addresses and awaits each. Elements are
identities; the DOM, styling and the messages sent to the daemon are left out
(the sends' awaits are kept).

**FederatedMount.** `run[a]` is the mount of address `a`, at the await where it is
suspended; `queue` is `scopeMountQueues` of the scope, and only its head runs. A
mount imports the remote (`Fetched`), waits for the bootstrap load or, for a handle
without `mfeReady`, loads by itself (`OwnLoad`), and renders: hooks, the component
of the table, the root, the paint. `kind` is what the remote exports (the legacy
bootstrap pair of React or Angular, the generated handle, a handle that reloads).
`BootstrapLoad` is the load behind `mfeReady`, with `doLoad`'s two awaits (`remoteEntry.js`,
then `init`) either of which may fail. A failed load or render returns a status and
the lifecycle still goes to `ready`, as in the code. `Bind`, `Clear`, `Degrade` and
`ClearFallback` are what the layout manager does to an address, one operation at a time; they are
`LayoutManager`'s mount and teardown seen from the adaptor. A mount point is a number,
because what matters is which element a recorded root was made on.

**LayoutTransport, ControlPlane.** A socket goes from `connecting` over `open` and
`acked` to `ending` and `closed`; `Closed` is its `onclose`, which comes after the socket has
stopped delivering frames, be it closed by `stop()` or lost (`Drop`). The transport's fields
`stopped`, `socket`, `acked`, the reconnect timer and the status last reported are those
of the class. A new connection resets `acked`; a lost one does not, as in the code. `ConnectThrows`
is a first connect that throws (no socket can be made, or the status callback throws): the transport is
no longer `stopped`, and has no loop. `Looping` tells the two apart. `Start`,
`StartReturns`, `StartThrows` (the transport throws once `_layoutManager` is set, which stays set),
`StartFails` (`doStart` or `createTransport` throws before), `Stop` and the steps behind it are the awaits of
`BaseControlPlane.start()` and `stop()`; `call[c]` is where a call is suspended.
`orderly` is history: the host has so far called `start()` only when the plane did not run and no
call was under way; a plane that failed to start may be started again. Layout managers are those the host makes, one per start.

**ComponentRegistry.** `rules` is the rule Map, `order` its insertion order (an
overwritten key keeps its place, as in a JavaScript Map). `RegisterMfe` is the whole
handler: endpoint and slots recorded, then either refused or installed route by
route, stopping at a route without `resolve`. `HandleAction` starts an evaluation;
`FireNext` is one rule that fires with the await behind it; the iteration is live,
so that rules set meanwhile are met. `Expire` is the timer of a stored component.
`declaredIn` is history: the registration that brought a provider's present declaration.
A registration carries at most two routes (`MaxRoutes`); one without a name or a `baseUrl` throws before
it changes anything and is no step.

**ComponentDaemon.** `stage[r]` is the await at which pass `r` of `handleResolution`
is suspended; the header of the module lists them. Every field of `pass[r]` is a
local variable of the pass. `MfeRenders` is the MFE's side of `/render`: it has rendered, and the answer is
on its way, when the abort timer may still fire. An EXPERIENCE is broadcast to every
renderer, whatever its session, and nothing reads it back. The MFE and the registry answer, refuse or stay silent
as they like. A module-federation MFE is relayed without any call. A registration
is reduced to the branch it takes: `federated`, `guarded` (declares
`authorizeAccess`), `open`. A forward that is lost, or a RESOLUTION published while
the registry socket is down, is an action that no pass ever follows.

## 3. What the runs check

All runs are in `PROJECT.json`. "Deadlock off" is set where the bounds, or a stopped
manager, let a behaviour end.

| Run | Bounds | Shows |
|---|---|---|
| `lifecycle` | 3 calls, load/render/health, hooks on two phases, fair | refinement of `InstanceContract` (load and render exclude each other, and `loading` and `rendering` belong to the call that entered); an admitted call never meets an illegal transition; the stack holds no pair twice; every call settles |
| `lifecycle_leak` (violated) | 1 call | a throwing main hook leaves its pair on the stack for good |
| `layout_compose` | 3 experiences, 2 addresses, 3 placements, 3 callbacks | index agreement, no leak, convergence, providers present, owner-only release, refinements of `SlotPlacement` and `IslandCycle` |
| `layout_live` | 2 experiences that contribute each other's address, 2 placements, 2 callbacks (late ones too), 1 stop, fair | queues drain, `stop()` completes |
| `layout_replay` (violated) | 4 placements | a replay during a teardown is taken for bound and the address stays empty |
| `layout_displaced` (violated) | 5 placements | a displaced experience is forgotten while still on screen and ends up at two addresses |
| `registry` | 2 MFEs, 2 registrations of 4 kinds, 1 evaluation, 2 ids | the rules of an action fire in the order of their first registration, each once, and none is skipped; nothing refused is placed; a rule places at an undeclared slot only when the declaration came later |
| `daemon_pipelines` | 2 passes, 2 MFEs, 2 sessions, 2 registrations, 2 actions, fair | load before render, refresh only what was rendered, gate first, context known, listed MFEs found, every resolution answered |
| `daemon_loadonce` (violated) | the same, no fairness | two resolutions of an unloaded MFE both load it |
| `mount` | 2 addresses, 2 experience ids, 4 binds, all kinds of export, fair | refinement of `InstanceContract` by the shared instance; no mount is refused for overlapping another; roots follow slots; a ready slot shows its content; nothing is rendered unloaded; every mount settles |
| `mount_rebind` (violated) | 1 address, 1 experience, 2 binds, the generated handle | the handle's unmount releases no root, and a re-bind paints the detached element |
| `control_plane` | 2 managers, 4 sockets, 2 lost connections, 2 overlapping calls, fair | one connection; the statuses are true; one reconnect loop per transport; a lost connection comes back |

Why the bounds are enough. Every hazard named in `PROJECT.json` is a conflict
of two actors over one piece of state, with a third step that exposes it. Three
calls are needed for one to pop the entry of a second while a third re-enters.
Three experiences at two addresses give displacement, nested provision and a
provider leaving while a newcomer uses its slot; three placements and three
callbacks let each happen and be undone. Two registrations of different length,
and a refused and a half-installed one, reach every branch of the registration;
one evaluation is enough for the map to change under it twice. In the daemon, two
passes race on each Map; the second registration of an MFE makes the directory
stale; a pass of the default session and one of a named session tell the session
keys apart. Four binds let both addresses be bound, torn down and bound again with the
same experience id, while the other mount waits in the queue. Two managers let a
second start follow a stop whose socket has not closed yet, or a start that threw; `MCControlPlane!EnoughSockets`
assumes a socket for each manager and each loss, so that a reconnect never waits
for one because of the bound. For every property of a passing run a mutant of one
mapped definition breaks it within the same bounds, so the bounds reach the case it
is about.

### Departures that the models show

Five are runs above (`lifecycle_leak`, `layout_replay`, `layout_displaced`,
`daemon_loadonce`, `mount_rebind`). The others were met while modelling, are kept in the
models, and are not runs of their own:

* *Two calls run the same hooks.* `executeLifecycle` pops the newest entry, not its
  own, so a finishing call can remove the entry of another one, and a third call then
  passes the guard (`base-mfe.ts:440`; ADR-001:41).
* *Nested provision.* Releasing a slot (`layout-manager.ts:491-512`) unmounts the
  island it shows but not the slots that this island contributed, unless the
  teardown was a clear. `layout_compose` therefore lets content contribute no slot.
  ADR-058:64 says that clearing a layout releases the slots it provided.
* *A late `provideSlot`.* The guard at `layout-manager.ts:310` compares
  `slot.experienceId`, which a teardown keeps until its unmount has settled, so a
  callback of an island that is being torn down still registers, although the comment
  at 307 says "never REGISTER". `LateCallbacks` turns such callbacks on;
  `ProvidersPresent` is checked, and proved, where they are off.
* *A bind under way during `stop()`.* The addresses are a snapshot
  (`layout-manager.ts:166`); an address first bound while `stop()` awaits another one
  is mounted after the shutdown. `NoIslandLeaks` is checked without stops, and proved of
  every manager up to its first stop, as are `ProvidersPresent` and the refinement of `IslandCycle`;
  the liveness is checked with one stop, and convergence is proved with any number.
* *A failed load or render succeeds.* `doLoad` and `doRender` return `status: "error"`, the
  lifecycle goes on to `ready`, and the adaptor ignores what `render()` returned, so the slot is
  `ready` with a fallback or an error in it (ADR-026:41,352; ADR-042:84; ADR-060:108).
  `ReadyShowsContent` and `RenderedFromLoaded` speak of the mounts that reported `rendered`.
* *After a throwing hook* the instance is in `error` and nothing reloads it: every
  later mount of the scope is refused. `RefusedOnlyAfterFailure` says it happens
  only then.
* *A handle that reloads* can render from a container whose second `init` failed;
  `RenderedFromLoaded` leaves it out.
* *Overlapping starts.* `start()` during `stop()`, or twice, leaves a manager that nothing
  refers to, with its socket and reconnect loop alive (`base-control-plane.ts:165-176`,
  "Safe to call from any status"). `OneConnection` and `PlaneStatusTrue` are stated for an
  orderly host; overlapping stops, and failures of either, are within it.
* *`send()` during the backoff* resolves although the socket is closed: `onclose` resets
  neither `acked` nor `socket`. `TransportStatusTrue`
  therefore lets `send()` find a closed socket, never one whose handshake is not over.
* *A late `disconnected`* of a stopped manager's socket reaches the host's
  `onStatus` after the next manager has connected.
* *Components without expiry.* `updateComponentState` stores a component and schedules nothing
  (`simple-registry.js:281`), so what it stores stays for good, although the comments at 36 and 302 say the
  in-memory store does not grow forever.
* *Placements at unknown providers* are accepted with a warning (`simple-registry.js:83-98`, "order is not
  guaranteed") and keep firing when the provider later registers without the slot.
  `PlacedWhereDeclared` says that this order, or a later declaration, is the only way to such a rule.
* *Refresh in place.* `activeResolutions` is kept per session, while an EXPERIENCE reaches the renderers of every
  session (`simple-daemon.js:352-357`, `411-416`). A refresh may therefore be of an experience that another session's has
  replaced on screen. `RefreshAfterRender` says what does hold: the MFE has rendered it. An MFE that was once registered as federated
  was relayed without being asked, and after it registers otherwise it may be refreshed without load or render.
* *A gate that comes later.* An MFE that registers `authorizeAccess` anew is served by its cached, open registration
  until another unknown name makes the daemon fetch the table (`simple-daemon.js:448`).
  `GateBeforeServe` speaks of MFEs that were guarded in every registration.
* *Re-registration.* Rules of routes that a new registration drops keep firing and
  `GET /rules` does not list them (`simple-registry.js:103`; ADR-073:177).
* *Authorize before load.* The daemon asks `/authorize` before `/load`, while
  `platform-contract.ts` makes `authorizeAccess` legal in state `ready` only: an MFE
  built on BaseMFE that declares it cannot answer the first request. The model
  leaves the MFE's answer open, so the properties do not depend on it.

## 4. Fairness

Safety is checked without fairness. `MfeLifecycle` assumes that hooks and bodies
settle; the code has no timer there, and `EveryCallSettles`, and with it that `loading` and
`rendering` end, is conditional on it. `LayoutManager` assumes that mounts, unmounts and sends settle and that a queue
runs its next operation, which is what a promise chain does; the environment
(placements, callbacks, stop, start) is never assumed to act. `ComponentDaemon`
assumes that `GET /mfes` settles, that a settled await resumes, and that the abort
timer (`FORWARD_TIMEOUT_MS`) of each POST fires. It assumes nothing of the MFEs: the
answers have no fairness, so that `EveryResolutionAnswered` rests on the timer alone.
`FederatedMount` assumes that the fetch, the load, the hooks and the render of
a mount settle, well or badly, and that the queue runs its next mount; binds and teardowns are
never assumed. `LayoutTransport` assumes that the browser delivers the events of sockets and timers and that
the daemon acknowledges a connection that is not lost, and that once a transport has made its first socket the
callback of its timer can make the next: `createSocket` or `onStatus` throwing in the timer would end the loop
(`layout-transport.ts:75-80`, `109`). That the first one throws is modelled; losses are bounded by
`MaxDrops`, without which "it reconnects" could not be said. `ControlPlane` assumes
nothing of `doStart`, `doStop` and the host.
Weak fairness is enough everywhere, since no step of a suspended actor is disabled
by another actor without end.

## 5. What is proved

TLAPS checks the theorems for every value of the constants that satisfies the
`ASSUME`s of the module, and so for any number of calls, experiences, addresses,
MFEs, sessions, passes, mounts, managers and sockets. The assumptions say that bounds are
naturals, that the "none" values are apart from the sets, that there is a host
element and that a route list is no longer than `MaxRoutes`, which is two: the theorems about the registry
are for registrations of up to two routes each, and any number of registrations.

* **`MfeLifecycle_proofs`.** `TypeCorrect`; `OneTransitionOwner`; `NoTransitionThrows`; `StackBounded`.
  `TransitionOwner` is inductive together with the types: the enter transition
  requires a state outside `loading`/`rendering` (`ContractTables`), which the
  invariant turns into "nobody else is in transit", and only the owner leaves.
  `NoTransitionThrows` follows from it, because the owner finds the state it
  entered, whose exit and error edges are in the table. `PipelineImplementsContract` shows,
  from `TransitionOwner`, that each action is an `Enter`, a `Leave` or a stutter of
  `InstanceContract`. `StackBounded` rests on
  two lemmas about sequences: removing the newest entry, and appending a pair that the
  guard has not found, keep entries distinct.
* **`LayoutManager_proofs`.** `PlacementIndexConsistent`: the desired map and its
  reverse index agree; `Place` is the only step with something to prove (the
  displaced experience loses its entry, the old address its experience).
  `LayoutTypesHold`: the count of islands at an address has type `Nat`, so the types
  need `IslandInv` (a slot that holds an unmount shows an island that
  the count contains). The operations are first reduced to ten effects on their own
  address (`Effect`), and every later invariant is checked against those.
  `NoIslandLeaksUnlessStopped` holds of every manager until its first stop, however many stops
  the bound allows. It has `LeakInv`: as long as nothing was stopped, the count is one exactly when the
  slot holds an unmount that is not under way, and a mount begins only on an address without one.
  `ConvergesUnlessSkipped` has `ConvergeInv`: under a started manager a wanted address
  shows what is wanted, or a reconcile waits in its queue, or its
  teardown is heading for a bind (`Heading`); `StopInv` ties the clears to the `stop()` under way.
  `StopLeavesNoClearing` states the part of it that matters by itself: no clearing is left in a queue for a
  later `start()` to meet. It is the safety half of `StopCompletes`.
  `ReleasesAreOwned`, an action property: between the owner check of a release and its
  removal nothing else of the address sets an owner (`OwnerInv`).
* **`LayoutRefinement_proofs`.** `LayoutImplementsPlacement`: `LayoutManager` implements
  `SlotPlacement` under the mapping of `ImplementsPlacement`. Every effect is a set-out, a show, a
  clear or a stutter (`AbstractStep`); `IntentInv`, that a teardown which will bind has something
  to bind, is what the mapped intent needs. `LayoutImplementsIslands`: until its first stop
  the manager drives each address through `IslandCycle`. The island of an address is read off
  the count of mounted islands and the activity, not off the slot's state field; `LeakInv` makes the
  two agree, and `HeldInv` says that what is mounting is an experience.
* **`SlotProviders_proofs`.** `ProvidersArePresent`: no contributed slot outlives its provider.
  Between the teardown of a provider and the release of its address lies another address's queue, so the
  property is far from inductive. `ProviderInv` has two parts. `RoutedInv` keeps everything that is shown,
  provided, owned, desired or under way on its routes. `PledgeInv` says that every owner of an address, every
  owner to be once the teardown under way there has settled, and every registration that waits
  is backed by a slot that shows the experience and contributes the address, or followed in the queue by its release.
  The hypotheses are the two departures named in section 3: content at a contributed address contributes no
  slot itself, and there are no late callbacks; `layout_compose` is such an instance. Without either TLC finds
  the property violated.
* **`FederatedMount_proofs`.** `MountTypesHold`; `OneCallOwnsTheLifecycle` and
  `NoMountRefusedForOverlap`, from `QueueInv` (the mount under way is the head of the
  queue and the queue has no repeats) and `LifeInv` (who holds `loading` and
  `rendering`), and from those `MountsKeepTheContract`, the refinement of `InstanceContract`;
  `NoPendingMountIsLost`, with `BegunInv`: the pending slots are those in the queue, each once, what runs is its head, and
  a mount that waits for the bootstrap load waits for one that has begun, which is the safety half of
  `EveryMountSettles`; `NothingRenderedUnloaded`, from `LoadInv` (the component table is there only after
  the load completed); `RootsFollowSlots` and `SlotsShowTheirContent`, from `PointInv`
  (every mount has a mount point of its own) and `RootInv` (whose element a root was made on, and
  that no root waits where a new mount will look).
* **`ControlPlane_proofs`.** `PlaneTypesHold`; `StatusesAreTrue`, from `LoopInv`: a transport
  has one loop, a socket that is not closed or a timer, never both; `OneConnectionAtMost` and
  `PlaneStatusIsTrue`, from `PlaneInv`: what the await of every call of an orderly host
  says of the status, the manager and the loop; a failed start may leave a manager, never a loop. Two more
  hold of every host, orderly or not: `OneLoopPerTransport`, from `LoopInv` and `AliveInv` (the loop of a transport that has begun and is not stopped never dies),
  the safety half of `Reconnects`; and `StopIsFinal`, an action property: no step starts a stopped transport again or
  opens a socket for it.
* **`ComponentRegistry_proofs`.** `RegistryTypesHold`. `NothingRefusedIsPlaced`: registration numbers only
  grow and neither a rule nor a refusal names one to come (`RefusedInv`).
  `RulesFireOnce`,
  `RulesFireInOrder` and `NoDueRuleIsSkipped` have `RunInv`: names occur once in the order, which a registration
  only extends (`OrderGrows`); what an evaluation has fired lies behind its position;
  and a rule that was due when it began has fired or is still ahead and still matches. `OrderedInv` adds that
  what has fired stands in the order as it fired, which growth of the order keeps.
  `PlacementsAreDeclared` has `PlacedInv`, the property as a statement about every rule: a declaration carries the number of
  the registration it came with, and every rule at an undeclared slot is older than the declaration. A registration
  that replaces a declaration makes every older rule the exception, and its own rules passed the check.
* **`ComponentDaemon_proofs`.** `TypesHold`; `NothingRendersUnloaded`, from
  `LoadClaims` (a name in `loadedMfes`, and a pass that heard of its load, have a
  completed load behind them); `RefreshesWhatWasRendered`, from `RenderClaims` (what a session remembers, and
  what a pass has in hand after its render, was rendered by an MFE with a load behind it, unless
  the MFE was once federated); `GateComesFirst`, whose
  invariant says that whatever the directory, an answer of the registry or a pass
  holds about an MFE is a kind it was once registered as (`DirectoryClaims`);
  `ContextsAreKnown` (`ContextInv`: a context is written before its action is forwarded and
  never erased); `ListedMfesAreFound` (`Finding`: what a pass knows of a listed MFE at each of its stages).

Only model-checked: the liveness properties, since fairness and ENABLED are out of the
prover's reach. Of three of them the part that speaks of states is proved: `NoMountWaitsInVain`
(of `EveryMountSettles`), `NoClearOutlivesStop` (of `StopCompletes`) and `OneLoopEach` (of
`Reconnects`). The first two, `StoppedForGood`, `TransitionOwner`, `CallsShareTheLifecycle` and `FiresOnce`
are definitions of the modules that no run lists: the last three follow from the properties listed in their
place, and the others were checked with TLC on the instances above before they were proved. Every
invariant and action property of a passing run is proved.

## 6. Reading the results

A property that fails is reported with its source line under `findings` in
`PROJECT.json`. The passing properties that sit next to a failing one are stated
with its exception (`ConvergedUnlessSkipped` beside `Converged`, `ReadyShowsContent` beside
`RebindShowsContent`), so that the rest of the promise stays checked.

## 7. What is left

1. `LayoutManager` and `FederatedMount` in one composition. They meet in four
   operations of an address, which `FederatedMount` lets happen at any time they are legal. That a
   bind comes only to an empty address and a teardown only to what was mounted is what
   `LayoutImplementsIslands` proves of the layout manager; that an experience id is not placed at
   a second address while its first mount is there is the daemon's doing (fresh ids) and a guard of `FederatedMount`'s `Bind`. What the
   composition would add is the layout's convergence when mounts are refused.
2. An end-to-end composition of registry, daemon and layout manager at the level of
   resolutions and placements. The code promises nothing about the order of
   overlapping resolutions (`simple-daemon.js:403`), so that there is little to state before it does.
3. The re-subscription of the daemon to the registry and restarts of MFEs, once the code reacts to them.

## 8. Not modelled

* *Daemon:* `componentState` (written and echoed, read by no step of the pipeline), the
  reconnecting registry socket, the sockets of forwarded actions. A resolution lost with a
  connection is one that never starts. The daemon replays nothing to a renderer that
  subscribes again, and no one promises that it does.
* *Remote MFE:* `doRefresh`, `doQuery` and `updateControlPlaneState`, which touch nothing of
  the mount.
* *Transport:* starting a transport again before its `onclose`, which no caller does
  (every start makes a new one) and which would give it two loops; the length of the backoff.
* *Layout adaptors:* html and json, which set the `innerHTML` of the element they are given; an adaptor of a host that
  returns no unmount (the type allows it, those of the package all return one), whose island nothing could take down.
* *Subscription client and slot channels:* the mutation client settles one
  promise and is used by tests only; the channels keep no state.
* *Capability wrappers:* nothing in the repository wires them to a capability.
* *Handlers and context:* hooks that return or throw, which is what `MfeLifecycle` allows; caching and
  rate limiting are stubs.
* *Contracts and DSL:* types, guards and sequential translation of manifests. They have
  no state, no order of steps and no partial failure that another component sees; their
  unit tests enumerate the cases a reference operator would.
* *Servers, telemetry, logging, the `{param}` patterns of slot ids, the DOM.*
* *Code generation, CLI, MCP server, deployment:* one-shot programs over files and child processes.
* *Examples, generated applications, benchmarks:* not part of the platform. They are most of the
  repository's lines (the generated mesh schemas alone are tens of thousands), with the
  generators and their templates most of the rest: the models cover the concurrent core and, in
  lines, a few percent of the whole.
