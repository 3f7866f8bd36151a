-------------------------- MODULE ComponentDaemon --------------------------
(* The daemon between the renderers and the registry: it forwards actions,     *)
(* receives RESOLUTION components, and turns each into one pass through        *)
(* handleResolution (packages/control-plane/daemon/simple-daemon.js): look the *)
(* MFE up, authorize, refresh what the session already shows or load and       *)
(* render, and relay the experience.  Every pass is an async function, so      *)
(* passes interleave at each await and share the four Maps of the daemon.      *)
(*                                                                            *)
(* stage[r] names the await at which pass r is suspended:                      *)
(*   lookup    fetch of GET /mfes outstanding     synced  the answer is there  *)
(*   found     lookupMfe has returned             authorize  POST /authorize   *)
(*   granted   the gate is open                   refresh / load / render  the *)
(*             POST of that name is outstanding   loaded / rendered  the MFE   *)
(*             has done so and its answer is on the way                        *)
(* and how it ended: relayed, refreshed, unknown, denied or failed (the last   *)
(* three publish a RESOLUTION_ERROR).                                          *)
EXTENDS Naturals, FiniteSets

CONSTANTS
  Mfes,             \* names of MFEs
  Capabilities,     \* what a resolution may ask an MFE to show
  Sessions,         \* keys of activeResolutions
  DefaultSession,   \* the key 'default' of resolutions without a sessionId
  Contexts,         \* SessionContexts an action may carry
  NoContext,        \* sessions.get of an unknown session: undefined
  Resolutions,      \* passes of handleResolution in one behaviour
  NotShown,         \* activeResolutions.get of a session with no experience
  MaxActions,       \* bound: actions sent by renderers
  MaxRegistrations  \* bound: registrations of MFEs at the registry

ASSUME DefaultIsASession == DefaultSession \in Sessions
ASSUME NoContextIsNone == NoContext \notin Contexts
ASSUME BoundsAreNat == {MaxActions, MaxRegistrations} \subseteq Nat

\* A registration is reduced to the branch of the pipeline it takes:
\* a module-federation remote, an MFE that declares authorizeAccess, and one
\* that does not.  "none" is an MFE without a registration.
Kinds == {"federated", "guarded", "open"}
Registration == Kinds \union {"none"}
Target == [mfe : Mfes, capability : Capabilities]

ASSUME NotShownIsNoTarget == NotShown \notin Target

Awaiting == {"lookup", "synced", "found", "authorize", "granted",
             "refresh", "load", "loaded", "render", "rendered"}
Ended == {"relayed", "refreshed", "unknown", "denied", "failed"}

VARIABLES
  published,    \* the registry's MFE table, what GET /mfes answers
  forwarded,    \* actions handed to the registry and not yet resolved, by session
  mfeDirectory, sessions, activeResolutions, loadedMfes,
  stage,
  pass,         \* locals of the pass: session key, target, context, registration
                \* and the answer of GET /mfes it holds; listed is a history of
                \* whether the registry had the MFE when the pass began
  actions, registrations,   \* what the bounds count
  \* history
  registered,   \* every kind an MFE was ever registered as
  loads,        \* loads each MFE completed
  grants,       \* passes the MFE authorized
  unreached,    \* passes whose GET /mfes failed
  renders       \* what MFEs have rendered

daemon == <<mfeDirectory, sessions, activeResolutions, loadedMfes>>
registry == <<published, registered, registrations>>
history == <<loads, grants, unreached, renders>>
wire == <<forwarded, actions>>
vars == <<registry, wire, daemon, stage, pass, history>>

Nobody == [m \in Mfes |-> "none"]
NoPass == [key |-> DefaultSession, target |-> NotShown, context |-> NoContext,
           registration |-> "none", answer |-> Nobody, listed |-> FALSE]

Init ==
  /\ published = Nobody /\ registered = [m \in Mfes |-> {}]
  /\ forwarded = [s \in Sessions |-> 0]
  /\ actions = 0 /\ registrations = 0
  /\ mfeDirectory = Nobody
  /\ sessions = [s \in Sessions |-> NoContext]
  /\ activeResolutions = [s \in Sessions |-> NotShown]
  /\ loadedMfes = {}
  /\ stage = [r \in Resolutions |-> "idle"]
  /\ pass = [r \in Resolutions |-> NoPass]
  /\ loads = [m \in Mfes |-> 0] /\ grants = {} /\ unreached = {}
  /\ renders = {}

MfeOf(r) == pass[r].target.mfe
Goto(r, st) == stage' = [stage EXCEPT ![r] = st]

-----------------------------------------------------------------------------
\* The registry (external to this module): an MFE registers or registers anew.
Register(m, k) ==
  /\ registrations < MaxRegistrations
  /\ registrations' = registrations + 1
  /\ published' = [published EXCEPT ![m] = k]
  /\ registered' = [registered EXCEPT ![m] = @ \union {k}]
  /\ UNCHANGED <<wire, daemon, stage, pass, history>>

\* Mutant: The context is kept only for a session that already shows something.
RememberContext_IfShown(s, context) ==
  sessions' = IF s = DefaultSession \/ activeResolutions[s] = NotShown
              THEN sessions ELSE [sessions EXCEPT ![s] = context]

\* handleAction: the session's context is kept before the action is forwarded.
\* The echo and the snapshot go to the renderers and change nothing here.  The
\* forward is not awaited and may be lost, as may the answer while the registry's
\* socket is down: such an action is one that no resolution ever follows.
RememberContext(s, context) ==
  sessions' = IF s = DefaultSession THEN sessions ELSE [sessions EXCEPT ![s] = context]

HandleAction(s, context) ==
  /\ actions < MaxActions
  /\ actions' = actions + 1
  /\ RememberContext(s, context)
  /\ forwarded' = [forwarded EXCEPT ![s] = @ + 1]
  /\ UNCHANGED <<registry, mfeDirectory, activeResolutions, loadedMfes, stage, pass, history>>

-----------------------------------------------------------------------------
\* Mutant: The directory is synced once instead of once per unknown name.
Known_SyncedOnce(m) == \E n \in Mfes : mfeDirectory[n] # "none"

\* The first synchronous stretch of handleResolution and of lookupMfe: the
\* context is read from sessions, the directory is consulted, and only a name it
\* lacks makes the daemon fetch the registry's table.
Known(m) == mfeDirectory[m] # "none"

HandleResolution(r, s, target) ==
  /\ stage[r] = "idle" /\ forwarded[s] > 0
  /\ forwarded' = [forwarded EXCEPT ![s] = @ - 1]
  /\ pass' = [pass EXCEPT ![r] =
       [key |-> s, target |-> target, context |-> sessions[s],
        registration |-> mfeDirectory[target.mfe], answer |-> Nobody,
        listed |-> published[target.mfe] # "none"]]
  /\ Goto(r, IF Known(target.mfe) THEN "found" ELSE "lookup")
  /\ UNCHANGED <<registry, actions, daemon, history>>

\* The registry answers GET /mfes with its table of that moment.
RegistryLists(r) ==
  /\ stage[r] = "lookup"
  /\ pass' = [pass EXCEPT ![r].answer = published]
  /\ Goto(r, "synced")
  /\ UNCHANGED <<registry, wire, daemon, history>>

\* Every registration of the answer overwrites the directory's entry.
Synced(answer) ==
  [m \in Mfes |-> IF answer[m] # "none" THEN answer[m] ELSE mfeDirectory[m]]

LookupReturns(r) ==
  /\ stage[r] = "synced"
  /\ mfeDirectory' = Synced(pass[r].answer)
  /\ pass' = [pass EXCEPT ![r].registration = mfeDirectory'[MfeOf(r)], ![r].answer = Nobody]
  /\ Goto(r, "found")
  /\ UNCHANGED <<registry, wire, sessions, activeResolutions, loadedMfes, history>>

\* A fetch that fails falls back on what the directory holds by then.
LookupFails(r) ==
  /\ stage[r] = "lookup"
  /\ pass' = [pass EXCEPT ![r].registration = mfeDirectory[MfeOf(r)]]
  /\ unreached' = unreached \union {r}
  /\ Goto(r, "found")
  /\ UNCHANGED <<registry, wire, daemon, loads, grants, renders>>

-----------------------------------------------------------------------------
\* Mutant: The session remembers the MFE and forgets the capability.
Relay_MfeOnly(r) ==
  /\ activeResolutions' = [activeResolutions EXCEPT ![pass[r].key] = MfeOf(r)]
  /\ Goto(r, "relayed")

\* Remember the experience as the session's, store it and broadcast it.  The
\* broadcast goes to every renderer, of whatever session; none reads it back.
Relay(r) ==
  /\ activeResolutions' = [activeResolutions EXCEPT ![pass[r].key] = pass[r].target]
  /\ Goto(r, "relayed")

UnknownMfe(r) ==
  /\ stage[r] = "found" /\ pass[r].registration = "none"
  /\ Goto(r, "unknown")
  /\ UNCHANGED <<registry, wire, daemon, pass, history>>

\* A module-federation MFE lives in the shell: its experience is made up here.
RelayFederated(r) ==
  /\ stage[r] = "found" /\ pass[r].registration = "federated"
  /\ Relay(r)
  /\ UNCHANGED <<registry, wire, mfeDirectory, sessions, loadedMfes, pass, history>>

GateOf(k) == IF k = "guarded" THEN "authorize" ELSE "granted"

\* Mutant: An MFE that has been loaded is not asked again.
Authorize_OnlyBeforeLoad(r) ==
  /\ stage[r] = "found" /\ pass[r].registration \in {"guarded", "open"}
  /\ Goto(r, IF MfeOf(r) \in loadedMfes THEN "granted" ELSE GateOf(pass[r].registration))
  /\ UNCHANGED <<registry, wire, daemon, pass, history>>

Authorize(r) ==
  /\ stage[r] = "found" /\ pass[r].registration \in {"guarded", "open"}
  /\ Goto(r, GateOf(pass[r].registration))
  /\ UNCHANGED <<registry, wire, daemon, pass, history>>

\* The MFE answers POST /authorize: authorized === true, or anything else.
Authorized(r) ==
  /\ stage[r] = "authorize"
  /\ grants' = grants \union {r}
  /\ Goto(r, "granted")
  /\ UNCHANGED <<registry, wire, daemon, pass, loads, unreached, renders>>

Denied(r) ==
  /\ stage[r] = "authorize"
  /\ Goto(r, "denied")
  /\ UNCHANGED <<registry, wire, daemon, pass, history>>

\* The synchronous stretch after the gate: refresh what the session shows, load
\* an MFE that loadedMfes lacks, or render.
NextCall(r) ==
  IF activeResolutions[pass[r].key] = pass[r].target THEN "refresh"
  ELSE IF MfeOf(r) \in loadedMfes THEN "render" ELSE "load"

\* Mutant: loadedMfes is updated before the load is awaited.
ChooseCall_MarksFirst(r) ==
  /\ stage[r] = "granted"
  /\ Goto(r, NextCall(r))
  /\ loadedMfes' = loadedMfes \union (IF NextCall(r) = "load" THEN {MfeOf(r)} ELSE {})
  /\ UNCHANGED <<registry, wire, mfeDirectory, sessions, activeResolutions, pass, history>>

ChooseCall(r) ==
  /\ stage[r] = "granted"
  /\ Goto(r, NextCall(r))
  /\ UNCHANGED <<registry, wire, daemon, pass, history>>

Refreshed(r) ==
  /\ stage[r] = "refresh"
  /\ Goto(r, "refreshed")
  /\ UNCHANGED <<registry, wire, daemon, pass, history>>

\* The MFE completes its load; its answer is on the way to the daemon.
MfeLoads(r) ==
  /\ stage[r] = "load"
  /\ loads' = [loads EXCEPT ![MfeOf(r)] = @ + 1]
  /\ Goto(r, "loaded")
  /\ UNCHANGED <<registry, wire, daemon, pass, grants, unreached, renders>>

\* Mutant: activeResolutions is updated when /render is sent, not when it is answered.
SendRender_ActiveFirst(r) ==
  /\ stage[r] = "loaded"
  /\ loadedMfes' = loadedMfes \union {MfeOf(r)}
  /\ activeResolutions' = [activeResolutions EXCEPT ![pass[r].key] = pass[r].target]
  /\ Goto(r, "render")
  /\ UNCHANGED <<registry, wire, mfeDirectory, sessions, pass, history>>

\* The answer of /load resumes the pass, which notes the load and sends /render.
SendRender(r) ==
  /\ stage[r] = "loaded"
  /\ loadedMfes' = loadedMfes \union {MfeOf(r)}
  /\ Goto(r, "render")
  /\ UNCHANGED <<registry, wire, mfeDirectory, sessions, activeResolutions, pass, history>>

\* The MFE renders; its answer is on the way to the daemon.
MfeRenders(r) ==
  /\ stage[r] = "render"
  /\ renders' = renders \union {pass[r].target}
  /\ Goto(r, "rendered")
  /\ UNCHANGED <<registry, wire, daemon, pass, loads, grants, unreached>>

\* The answer of /render resumes the pass, which relays the experience.
Rendered(r) ==
  /\ stage[r] = "rendered"
  /\ Relay(r)
  /\ UNCHANGED <<registry, wire, mfeDirectory, sessions, loadedMfes, pass, history>>

\* invokeMfe throws: the MFE answers with an error status, cannot be reached, or
\* has not answered after FORWARD_TIMEOUT_MS.
Calls == {"authorize", "refresh", "load", "loaded", "render", "rendered"}

\* Mutant: The abort timer is not armed for /refresh.
CallFails_RefreshUntimed(r) ==
  /\ stage[r] \in Calls \ {"refresh"}
  /\ Goto(r, "failed")
  /\ UNCHANGED <<registry, wire, daemon, pass, history>>

CallFails(r) ==
  /\ stage[r] \in Calls
  /\ Goto(r, "failed")
  /\ UNCHANGED <<registry, wire, daemon, pass, history>>

-----------------------------------------------------------------------------
Lookup(r) == RegistryLists(r) \/ LookupReturns(r) \/ LookupFails(r)
Gate(r) == UnknownMfe(r) \/ RelayFederated(r) \/ Authorize(r) \/ Authorized(r) \/ Denied(r)
Serve(r) == \/ ChooseCall(r) \/ Refreshed(r) \/ MfeLoads(r) \/ SendRender(r)
            \/ MfeRenders(r) \/ Rendered(r) \/ CallFails(r)
Step(r) == Lookup(r) \/ Gate(r) \/ Serve(r)

Next ==
  \/ \E m \in Mfes, k \in Kinds : Register(m, k)
  \/ \E s \in Sessions, c \in Contexts : HandleAction(s, c)
  \/ \E r \in Resolutions :
       \/ \E s \in Sessions, target \in Target : HandleResolution(r, s, target)
       \/ Step(r)

Spec == Init /\ [][Next]_vars

\* The daemon's own steps happen: the event loop resumes a settled await, the
\* abort timer of a POST fires.  GET /mfes has no timer;
\* that it settles is left to fetch.  Nothing is assumed of the MFEs' answers.
Fairness ==
  \A r \in Resolutions :
    /\ WF_vars(Lookup(r))
    /\ WF_vars(UnknownMfe(r) \/ RelayFederated(r) \/ Authorize(r))
    /\ WF_vars(ChooseCall(r)) /\ WF_vars(CallFails(r))

FairSpec == Spec /\ Fairness

-----------------------------------------------------------------------------
Shown == Target \union {NotShown}

\* The types of the daemon's Maps and of the passes.
TypeOK ==
  /\ published \in [Mfes -> Registration] /\ mfeDirectory \in [Mfes -> Registration]
  /\ registered \in [Mfes -> SUBSET Kinds]
  /\ forwarded \in [Sessions -> Nat]
  /\ sessions \in [Sessions -> Contexts \union {NoContext}]
  /\ activeResolutions \in [Sessions -> Shown] /\ renders \subseteq Target
  /\ loadedMfes \subseteq Mfes /\ loads \in [Mfes -> Nat]
  /\ stage \in [Resolutions -> {"idle"} \union Awaiting \union Ended]
  /\ pass \in [Resolutions ->
       [key : Sessions, target : Shown, context : Contexts \union {NoContext},
        registration : Registration, answer : [Mfes -> Registration], listed : BOOLEAN]]
  /\ \A r \in Resolutions : stage[r] # "idle" => pass[r].target \in Target
  /\ grants \subseteq Resolutions /\ unreached \subseteq Resolutions
  /\ {actions, registrations} \subseteq Nat

\* /render is posted only to an MFE that has completed a load, whichever session's
\* pass loaded it and however many passes race to do so.
LoadBeforeRender ==
  \A r \in Resolutions : stage[r] \in {"render", "rendered"} => loads[MfeOf(r)] > 0

\* loadedMfes tells every pass the same thing, so it must never run ahead of the
\* MFEs: a name in it has completed its load.
LoadedIsTrue == \A m \in loadedMfes : loads[m] > 0

\* /refresh is posted only for what the MFE itself has loaded and rendered, through
\* whichever pass: a render that was refused, failed or is still outstanding leaves
\* nothing to refresh.  The exception is an MFE that was registered as federated
\* meanwhile: its experience is relayed without asking it.
RefreshAfterRender ==
  \A r \in Resolutions :
    stage[r] = "refresh" /\ "federated" \notin registered[MfeOf(r)]
      => pass[r].target \in renders /\ loads[MfeOf(r)] > 0

\* The gate comes first: as long as an MFE was only ever registered with
\* authorizeAccess, no pass loads, renders or refreshes it that the MFE did not
\* authorize, wherever in the directory's history the pass got its registration.
GateBeforeServe ==
  \A r \in Resolutions :
    stage[r] \in {"refresh", "load", "loaded", "render", "rendered", "refreshed"}
      /\ registered[MfeOf(r)] = {"guarded"} => r \in grants

\* A resolution that belongs to a session always finds that session's context:
\* the action it answers left it there before it was forwarded.
ContextKnown ==
  \A r \in Resolutions :
    stage[r] # "idle" /\ pass[r].key # DefaultSession => pass[r].context # NoContext

\* An MFE the registry lists when the pass begins is not reported unknown, unless
\* the registry could not be asked: the directory caches hits and never misses.
ListedIsFound ==
  \A r \in Resolutions : pass[r].listed /\ stage[r] = "unknown" => r \in unreached

\* No pass hangs: every resolution ends in an experience, a refresh or an error,
\* even if the MFE never answers.
EveryResolutionAnswered ==
  \A r \in Resolutions : stage[r] \in Awaiting ~> stage[r] \in Ended

\* simple-daemon.js:107 says "load runs once per MFE".  Two passes that both find
\* the MFE missing from loadedMfes load it twice.
LoadOnce == \A m \in Mfes : loads[m] <= 1

=============================================================================
