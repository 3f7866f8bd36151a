----------------------- MODULE ComponentDaemon_proofs -----------------------
(***************************************************************************)
(* Theorems about ComponentDaemon for any MFEs, capabilities, sessions and *)
(* contexts, and any number of resolutions in flight at once.              *)
(***************************************************************************)
EXTENDS ComponentDaemon, TLAPS

\* The type of the local variables of a pass.
PassType ==
  [key : Sessions, target : Shown, context : Contexts \union {NoContext},
   registration : Registration, answer : [Mfes -> Registration], listed : BOOLEAN]

Stages == {"idle"} \union Awaiting \union Ended

(***************************************************************************)
(* Types.  Every action moves at most one pass, by one field.              *)
(***************************************************************************)
LEMMA InitTypeOK == Init => TypeOK
BY NoContextIsNone, NotShownIsNoTarget, DefaultIsASession
   DEF Init, TypeOK, Nobody, NoPass, Registration, Shown

\* A target has an MFE.
LEMMA TargetHasMfe == ASSUME TypeOK, NEW r \in Resolutions, stage[r] # "idle"
                      PROVE  MfeOf(r) \in Mfes
BY DEF TypeOK, MfeOf, Target

LEMMA RegisterTypeOK ==
  ASSUME TypeOK, NEW m \in Mfes, NEW k \in Kinds, Register(m, k)
  PROVE  TypeOK'
BY DEF TypeOK, Register, Registration, wire, daemon, history

LEMMA HandleActionTypeOK ==
  ASSUME TypeOK, NEW s \in Sessions, NEW c \in Contexts, HandleAction(s, c)
  PROVE  TypeOK'
BY DEF TypeOK, HandleAction, RememberContext, registry, history

LEMMA HandleResolutionTypeOK ==
  ASSUME TypeOK, NEW r \in Resolutions, NEW s \in Sessions, NEW t \in Target,
         HandleResolution(r, s, t)
  PROVE  TypeOK'
<1> DEFINE p == [key |-> s, target |-> t, context |-> sessions[s],
                 registration |-> mfeDirectory[t.mfe], answer |-> Nobody,
                 listed |-> published[t.mfe] # "none"]
<1>1. t.mfe \in Mfes
  BY DEF Target
<1>2. p \in PassType
  BY <1>1 DEF TypeOK, PassType, Nobody, Registration, Shown
<1>3. pass' = [pass EXCEPT ![r] = p]
  BY DEF HandleResolution
<1>4. pass' \in [Resolutions -> PassType] /\ pass'[r].target = t
  BY <1>2, <1>3 DEF TypeOK, PassType
<1>5. PICK st \in {"found", "lookup"} : stage' = [stage EXCEPT ![r] = st]
  BY DEF HandleResolution, Goto
<1>6. stage' \in [Resolutions -> Stages]
  BY <1>5 DEF TypeOK, Stages, Awaiting
<1>7. forwarded' \in [Sessions -> Nat]
  BY DEF HandleResolution, TypeOK
<1>8. \A q \in Resolutions : stage'[q] # "idle" => pass'[q].target \in Target
  BY <1>3, <1>4, <1>5 DEF TypeOK
<1> QED
  BY <1>4, <1>6, <1>7, <1>8 DEF HandleResolution, TypeOK, PassType, Stages, registry, daemon, history

\* Steps that change the pass record: the fields other than the registration and
\* the answer stay.
LEMMA LookupTypeOK ==
  ASSUME TypeOK, NEW r \in Resolutions, Lookup(r)
  PROVE  /\ TypeOK'
         /\ \A q \in Resolutions : pass'[q].target = pass[q].target
<1>1. MfeOf(r) \in Mfes
  BY TargetHasMfe DEF Lookup, RegistryLists, LookupReturns, LookupFails
<1>2. mfeDirectory' \in [Mfes -> Registration]
  BY DEF Lookup, RegistryLists, LookupReturns, LookupFails, Synced, TypeOK, daemon
<1>3. /\ pass' \in [Resolutions -> PassType]
      /\ \A q \in Resolutions : pass'[q].target = pass[q].target
  <2>1. pass \in [Resolutions -> PassType]
    BY DEF TypeOK, PassType
  <2>2. CASE RegistryLists(r)
    BY <2>1, <2>2 DEF RegistryLists, PassType, TypeOK
  <2>3. CASE LookupReturns(r)
    <3>1. Nobody \in [Mfes -> Registration] /\ mfeDirectory'[MfeOf(r)] \in Registration
      BY <1>1, <1>2 DEF Nobody, Registration
    <3>2. [pass[r] EXCEPT !.registration = mfeDirectory'[MfeOf(r)], !.answer = Nobody] \in PassType
      BY <2>1, <3>1 DEF PassType
    <3>3. pass' = [pass EXCEPT ![r] = [pass[r] EXCEPT !.registration = mfeDirectory'[MfeOf(r)],
                                                       !.answer = Nobody]]
      BY <2>1, <2>3 DEF LookupReturns
    <3> QED
      BY <2>1, <3>2, <3>3
  <2>4. CASE LookupFails(r)
    BY <1>1, <2>1, <2>4 DEF LookupFails, PassType, TypeOK
  <2> QED
    BY <2>2, <2>3, <2>4 DEF Lookup
<1>4. /\ stage[r] # "idle"
      /\ \E st \in {"synced", "found"} : stage' = [stage EXCEPT ![r] = st]
  BY DEF Lookup, RegistryLists, LookupReturns, LookupFails, Goto
<1>5. /\ stage' \in [Resolutions -> Stages]
      /\ \A q \in Resolutions : stage'[q] # "idle" => stage[q] # "idle"
  BY <1>4 DEF TypeOK, Stages, Awaiting
<1>6. unreached' \subseteq Resolutions /\ UNCHANGED <<registry, wire, loads, grants, renders,
        sessions, activeResolutions, loadedMfes>>
  BY DEF Lookup, RegistryLists, LookupReturns, LookupFails, TypeOK, daemon, history
<1> QED
  BY <1>2, <1>3, <1>5, <1>6 DEF TypeOK, PassType, Stages, registry, wire

\* The other steps of a pass leave its locals alone.
LEMMA ServeTypeOK ==
  ASSUME TypeOK, NEW r \in Resolutions, Gate(r) \/ Serve(r)
  PROVE  TypeOK' /\ UNCHANGED pass
<1>1. UNCHANGED <<pass, registry, wire, mfeDirectory, sessions, unreached>>
  BY DEF Gate, UnknownMfe, RelayFederated, Authorize, Authorized, Denied, Serve, ChooseCall,
         Refreshed, MfeLoads, SendRender, MfeRenders, Rendered, CallFails, daemon, history
<1>2. /\ stage[r] # "idle"
      /\ \E st \in Stages \ {"idle"} : stage' = [stage EXCEPT ![r] = st]
  BY DEF Gate, UnknownMfe, RelayFederated, Authorize, GateOf, Authorized, Denied, Serve,
         ChooseCall, NextCall, Refreshed, MfeLoads, SendRender, MfeRenders, Rendered, CallFails, Calls,
         Relay, Goto, Stages, Awaiting, Ended
<1>3. MfeOf(r) \in Mfes /\ pass[r].target \in Shown /\ pass[r].key \in Sessions
  BY <1>2, TargetHasMfe DEF TypeOK
<1>4. loads' \in [Mfes -> Nat] /\ loadedMfes' \subseteq Mfes /\ grants' \subseteq Resolutions
  BY <1>3 DEF Gate, UnknownMfe, RelayFederated, Authorize, Authorized, Denied, Serve,
     ChooseCall, Refreshed, MfeLoads, SendRender, MfeRenders, Rendered, CallFails, daemon, history, TypeOK
<1>5. activeResolutions' \in [Sessions -> Shown] /\ renders' \subseteq Target
  BY <1>3 DEF Gate, UnknownMfe, RelayFederated, Authorize, Authorized, Denied, Serve,
     ChooseCall, Refreshed, MfeLoads, SendRender, MfeRenders, Rendered, CallFails, Relay, daemon,
     history, TypeOK
<1>6. /\ stage' \in [Resolutions -> Stages]
      /\ \A q \in Resolutions : stage'[q] # "idle" => stage[q] # "idle"
  BY <1>2 DEF TypeOK, Stages
<1> QED
  BY <1>1, <1>4, <1>5, <1>6 DEF TypeOK, Stages, registry, wire

LEMMA NextTypeOK == TypeOK /\ [Next]_vars => TypeOK'
<1> SUFFICES ASSUME TypeOK, [Next]_vars
             PROVE  TypeOK'
  OBVIOUS
<1>1. CASE Next
  BY <1>1, RegisterTypeOK, HandleActionTypeOK, HandleResolutionTypeOK, LookupTypeOK,
     ServeTypeOK DEF Next, Step
<1>2. CASE UNCHANGED vars
  BY <1>2 DEF vars, registry, wire, daemon, history, TypeOK
<1> QED
  BY <1>1, <1>2

\* The daemon's Maps and the passes keep their types.
THEOREM TypesHold == Spec => []TypeOK
BY InitTypeOK, NextTypeOK, PTL DEF Spec

(***************************************************************************)
(* Loads.  A pass that has heard of its load, or that renders, found a     *)
(* completed load behind it, and so did every name in loadedMfes.          *)
(***************************************************************************)
LoadClaims ==
  /\ LoadedIsTrue
  /\ \A r \in Resolutions : stage[r] \in {"loaded", "render", "rendered"} => loads[MfeOf(r)] > 0

\* What loads nothing, adds nothing to loadedMfes, keeps targets and takes no pass
\* to a stage that claims a load, keeps the claims.
LEMMA KeepsClaims ==
  ASSUME LoadClaims, UNCHANGED <<loads, loadedMfes>>,
         \A r \in Resolutions : stage'[r] \in {"loaded", "render", "rendered"} =>
           stage[r] \in {"loaded", "render", "rendered"} /\ pass'[r].target = pass[r].target
  PROVE  LoadClaims'
BY DEF LoadClaims, LoadedIsTrue, MfeOf

LEMMA HandleResolutionClaims ==
  ASSUME TypeOK, LoadClaims, NEW r \in Resolutions, NEW s \in Sessions, NEW t \in Target,
         HandleResolution(r, s, t)
  PROVE  LoadClaims'
<1>1. UNCHANGED <<loads, loadedMfes>>
  BY DEF HandleResolution, history, daemon
<1>2. PICK st \in {"found", "lookup"} : stage' = [stage EXCEPT ![r] = st]
  BY DEF HandleResolution, Goto
<1>3. \A q \in Resolutions : q # r => pass'[q] = pass[q] /\ stage'[q] = stage[q]
  BY <1>2 DEF HandleResolution, TypeOK
<1>4. stage'[r] \notin {"loaded", "render", "rendered"}
  BY <1>2 DEF TypeOK
<1> QED
  BY <1>1, <1>3, <1>4, KeepsClaims

LEMMA LookupClaims ==
  ASSUME TypeOK, LoadClaims, NEW r \in Resolutions, Lookup(r)
  PROVE  LoadClaims'
<1>1. UNCHANGED <<loads, loadedMfes>>
  BY DEF Lookup, RegistryLists, LookupReturns, LookupFails, history, daemon
<1>2. \E st \in {"synced", "found"} : stage' = [stage EXCEPT ![r] = st]
  BY DEF Lookup, RegistryLists, LookupReturns, LookupFails, Goto
<1>3. \A q \in Resolutions : pass'[q].target = pass[q].target
  BY LookupTypeOK
<1> QED
  BY <1>1, <1>2, <1>3, KeepsClaims DEF TypeOK

LEMMA GateClaims ==
  ASSUME TypeOK, LoadClaims, NEW r \in Resolutions, Gate(r)
  PROVE  LoadClaims'
<1>1. UNCHANGED <<pass, loads, loadedMfes>>
  BY DEF Gate, UnknownMfe, RelayFederated, Authorize, Authorized, Denied, history, daemon
<1>2. \E st \in {"unknown", "relayed", "authorize", "granted", "denied"} :
         stage' = [stage EXCEPT ![r] = st]
  BY DEF Gate, UnknownMfe, RelayFederated, Authorize, Authorized, Denied, Relay, GateOf, Goto
<1> QED
  BY <1>1, <1>2, KeepsClaims DEF TypeOK

\* The choice renders only what loadedMfes holds; SendRender adds to it only
\* what has just completed its load.
LEMMA ServeClaims ==
  ASSUME TypeOK, LoadClaims, NEW r \in Resolutions, Serve(r)
  PROVE  LoadClaims'
<1> USE DEF LoadClaims
<1>1. CASE ChooseCall(r)
  <2>1. /\ UNCHANGED <<pass, loads, loadedMfes>>
        /\ stage' = [stage EXCEPT ![r] = NextCall(r)]
    BY <1>1 DEF ChooseCall, daemon, history, Goto
  <2>2. NextCall(r) \in {"loaded", "render", "rendered"} => loads[MfeOf(r)] > 0
    BY DEF NextCall, LoadedIsTrue
  <2> QED
    BY <2>1, <2>2 DEF LoadedIsTrue, MfeOf, TypeOK
<1>2. CASE MfeLoads(r)
  <2>1. /\ stage' = [stage EXCEPT ![r] = "loaded"] /\ UNCHANGED <<pass, loadedMfes>>
        /\ loads' = [loads EXCEPT ![MfeOf(r)] = @ + 1] /\ stage[r] = "load"
    BY <1>2 DEF MfeLoads, daemon, Goto
  <2>2. \A m \in Mfes : loads[m] > 0 => loads'[m] > 0
    BY <2>1 DEF TypeOK
  <2>3. loads'[MfeOf(r)] > 0
    BY <2>1, TargetHasMfe DEF TypeOK
  <2>4. \A q \in Resolutions : stage[q] # "idle" => MfeOf(q) \in Mfes
    BY TargetHasMfe
  <2>5. LoadedIsTrue'
    BY <2>1, <2>2 DEF LoadedIsTrue, TypeOK
  <2>6. ASSUME NEW q \in Resolutions, stage'[q] \in {"loaded", "render", "rendered"}
        PROVE  loads'[pass[q].target.mfe] > 0
    BY <2>1, <2>2, <2>3, <2>4, <2>6 DEF MfeOf, TypeOK
  <2> QED
    BY <2>1, <2>5, <2>6 DEF MfeOf
<1>3. CASE SendRender(r)
  <2>1. /\ stage[r] = "loaded" /\ stage' = [stage EXCEPT ![r] = "render"]
        /\ UNCHANGED <<pass, loads>> /\ loadedMfes' = loadedMfes \union {MfeOf(r)}
    BY <1>3 DEF SendRender, Goto, history
  <2>2. loads[MfeOf(r)] > 0
    BY <2>1
  <2> QED
    BY <2>1, <2>2 DEF LoadedIsTrue, MfeOf, TypeOK
<1>5. CASE MfeRenders(r)
  <2>1. UNCHANGED <<pass, loads, loadedMfes>>
    BY <1>5 DEF MfeRenders, daemon
  <2>2. stage[r] = "render" /\ stage' = [stage EXCEPT ![r] = "rendered"]
    BY <1>5 DEF MfeRenders, Goto
  <2> QED
    BY <2>1, <2>2, KeepsClaims DEF TypeOK
<1>4. CASE Refreshed(r) \/ Rendered(r) \/ CallFails(r)
  <2>1. UNCHANGED <<pass, loads, loadedMfes>>
    BY <1>4 DEF Refreshed, Rendered, CallFails, daemon, history
  <2>2. \E st \in {"refreshed", "relayed", "failed"} : stage' = [stage EXCEPT ![r] = st]
    BY <1>4 DEF Refreshed, Rendered, CallFails, Relay, Goto
  <2> QED
    BY <2>1, <2>2, KeepsClaims DEF TypeOK
<1> QED
  BY <1>1, <1>2, <1>3, <1>4, <1>5 DEF Serve

LoadInv == TypeOK /\ LoadClaims

LEMMA NextLoad == LoadInv /\ [Next]_vars => LoadInv'
<1> SUFFICES ASSUME TypeOK, LoadClaims, [Next]_vars
             PROVE  LoadClaims'
  BY NextTypeOK DEF LoadInv
<1>1. CASE \E m \in Mfes, k \in Kinds : Register(m, k)
  BY <1>1, KeepsClaims DEF Register, daemon, history
<1>2. CASE \E s \in Sessions, c \in Contexts : HandleAction(s, c)
  BY <1>2, KeepsClaims DEF HandleAction, history
<1>3. CASE \E r \in Resolutions, s \in Sessions, t \in Target : HandleResolution(r, s, t)
  BY <1>3, HandleResolutionClaims
<1>4. CASE \E r \in Resolutions : Step(r)
  BY <1>4, LookupClaims, GateClaims, ServeClaims DEF Step
<1>5. CASE UNCHANGED vars
  BY <1>5, KeepsClaims DEF vars, daemon, history
<1> QED
  BY <1>1, <1>2, <1>3, <1>4, <1>5 DEF Next

\* simple-daemon.js:379-388: /render is posted only to an MFE that has completed
\* a load, however many passes race on loadedMfes.
THEOREM NothingRendersUnloaded == Spec => []LoadBeforeRender
<1>1. Init => LoadInv
  BY InitTypeOK DEF Init, LoadInv, LoadClaims, LoadedIsTrue
<1>2. LoadInv => LoadBeforeRender
  BY DEF LoadInv, LoadClaims, LoadBeforeRender
<1> QED
  BY <1>1, <1>2, NextLoad, PTL DEF Spec

(***************************************************************************)
(* The gate.  Whatever the directory or a pass holds about an MFE is some  *)
(* kind it was registered as: a pass that took the branch without a gate   *)
(* shows that the MFE was registered open at some time.                    *)
(***************************************************************************)
Honest(k, m) == k \in registered[m] \union {"none"}

Past == {"granted", "refresh", "load", "loaded", "render", "rendered",
         "refreshed"}

DirectoryClaims ==
  /\ \A m \in Mfes : Honest(published[m], m) /\ Honest(mfeDirectory[m], m)
  /\ \A r \in Resolutions, m \in Mfes : Honest(pass[r].answer[m], m)
  /\ \A r \in Resolutions : stage[r] # "idle" => Honest(pass[r].registration, MfeOf(r))

GateOpened ==
  \A r \in Resolutions :
    /\ stage[r] \in Past \union {"authorize"} => pass[r].registration \in {"guarded", "open"}
    /\ stage[r] \in Past => pass[r].registration = "open" \/ r \in grants

GateInv == TypeOK /\ DirectoryClaims /\ GateOpened

\* Registering only adds kinds, so what was honest stays honest.
LEMMA RegisterDirectory ==
  ASSUME TypeOK, DirectoryClaims, NEW m \in Mfes, NEW k \in Kinds, Register(m, k)
  PROVE  DirectoryClaims'
<1>1. \A n \in Mfes : registered[n] \subseteq registered'[n]
  BY DEF Register, TypeOK
<1>2. \A n \in Mfes : Honest(published[n], n)'
  BY <1>1 DEF Register, TypeOK, DirectoryClaims, Honest
<1>3. UNCHANGED <<mfeDirectory, pass, stage>>
  BY DEF Register, daemon
<1> QED
  BY <1>1, <1>2, <1>3, TargetHasMfe DEF DirectoryClaims, Honest, MfeOf

LEMMA HandleResolutionDirectory ==
  ASSUME TypeOK, DirectoryClaims, NEW r \in Resolutions, NEW s \in Sessions, NEW t \in Target,
         HandleResolution(r, s, t)
  PROVE  DirectoryClaims'
<1>1. /\ pass'[r].registration = mfeDirectory[t.mfe] /\ pass'[r].answer = Nobody
      /\ pass'[r].target = t /\ \A q \in Resolutions \ {r} : pass'[q] = pass[q]
  BY DEF HandleResolution, TypeOK
<1>2. t.mfe \in Mfes
  BY DEF Target
<1>3. \A q \in Resolutions \ {r} : stage'[q] = stage[q]
  BY DEF HandleResolution, Goto, TypeOK
<1>4. UNCHANGED <<published, registered, mfeDirectory>>
  BY DEF HandleResolution, registry, daemon
<1>5. \A m \in Mfes : Nobody[m] = "none"
  BY DEF Nobody
<1> QED
  BY <1>1, <1>2, <1>3, <1>4, <1>5 DEF DirectoryClaims, Honest, MfeOf

LEMMA LookupDirectory ==
  ASSUME TypeOK, DirectoryClaims, NEW r \in Resolutions, Lookup(r)
  PROVE  DirectoryClaims'
<1>1. UNCHANGED <<published, registered>>
  BY DEF Lookup, RegistryLists, LookupReturns, LookupFails, registry
<1>2. stage[r] # "idle" /\ MfeOf(r) \in Mfes
  BY TargetHasMfe DEF Lookup, RegistryLists, LookupReturns, LookupFails
<1>3. \A m \in Mfes : Honest(mfeDirectory'[m], m)
  BY DEF Lookup, RegistryLists, LookupReturns, LookupFails, Synced, daemon, DirectoryClaims, Honest
<1>4. /\ \A q \in Resolutions \ {r} : pass'[q] = pass[q] /\ stage'[q] = stage[q]
      /\ \A q \in Resolutions : pass'[q].target = pass[q].target
  BY LookupTypeOK DEF Lookup, RegistryLists, LookupReturns, LookupFails, Goto, TypeOK
<1>5. pass'[r].registration \in {pass[r].registration, mfeDirectory'[MfeOf(r)]}
  BY DEF Lookup, RegistryLists, LookupReturns, LookupFails, TypeOK, daemon
<1>6. pass'[r].answer \in {pass[r].answer, published, Nobody}
  BY DEF Lookup, RegistryLists, LookupReturns, LookupFails, TypeOK
<1>7. \A m \in Mfes : Honest(pass'[r].answer[m], m)
  BY <1>6 DEF DirectoryClaims, Honest, Nobody
<1>8. Honest(pass'[r].registration, MfeOf(r))
  BY <1>2, <1>3, <1>5 DEF DirectoryClaims, Honest
<1> QED
  BY <1>1, <1>3, <1>4, <1>7, <1>8 DEF DirectoryClaims, Honest, MfeOf

\* The rest touches neither the registry, the directory nor what passes hold.
LEMMA ServeDirectory ==
  ASSUME TypeOK, DirectoryClaims, NEW r \in Resolutions, Gate(r) \/ Serve(r)
  PROVE  DirectoryClaims'
<1>1. UNCHANGED <<published, registered, mfeDirectory, pass>>
  BY DEF Gate, UnknownMfe, RelayFederated, Authorize, Authorized, Denied, Serve, ChooseCall,
         Refreshed, MfeLoads, SendRender, MfeRenders, Rendered, CallFails, registry, daemon
<1>2. \A q \in Resolutions : stage'[q] # "idle" => stage[q] # "idle"
  BY DEF Gate, UnknownMfe, RelayFederated, Authorize, GateOf, Authorized, Denied, Serve,
         ChooseCall, NextCall, Refreshed, MfeLoads, SendRender, MfeRenders, Rendered, CallFails, Calls,
         Relay, Goto, TypeOK
<1> QED
  BY <1>1, <1>2 DEF DirectoryClaims, Honest, MfeOf

LEMMA NextDirectory == TypeOK /\ DirectoryClaims /\ [Next]_vars => DirectoryClaims'
<1> SUFFICES ASSUME TypeOK, DirectoryClaims, [Next]_vars
             PROVE  DirectoryClaims'
  OBVIOUS
<1>1. CASE \E s \in Sessions, c \in Contexts : HandleAction(s, c)
  BY <1>1 DEF HandleAction, registry, DirectoryClaims, Honest, MfeOf
<1>2. CASE UNCHANGED vars
  BY <1>2 DEF vars, registry, daemon, DirectoryClaims, Honest, MfeOf
<1> QED
  BY <1>1, <1>2, RegisterDirectory, HandleResolutionDirectory, LookupDirectory,
     ServeDirectory DEF Next, Step

\* A pass enters the part after the gate by Authorize, open, or by Authorized.
LEMMA NextGate == TypeOK /\ GateOpened /\ [Next]_vars => GateOpened'
<1> SUFFICES ASSUME TypeOK, GateOpened, [Next]_vars
             PROVE  GateOpened'
  OBVIOUS
<1> USE DEF GateOpened, Past
<1>1. CASE \E m \in Mfes, k \in Kinds : Register(m, k)
  BY <1>1 DEF Register, history
<1>2. CASE \E s \in Sessions, c \in Contexts : HandleAction(s, c)
  BY <1>2 DEF HandleAction, history
<1>3. ASSUME NEW r \in Resolutions, NEW s \in Sessions, NEW t \in Target,
             HandleResolution(r, s, t)
      PROVE  GateOpened'
  <2>1. PICK st \in {"found", "lookup"} : stage' = [stage EXCEPT ![r] = st]
    BY <1>3 DEF HandleResolution, Goto
  <2>2. \A q \in Resolutions \ {r} : pass'[q] = pass[q] /\ stage'[q] = stage[q]
    BY <1>3, <2>1 DEF HandleResolution, TypeOK
  <2>3. stage'[r] \in {"found", "lookup"} /\ grants' = grants
    BY <1>3, <2>1 DEF HandleResolution, TypeOK, history
  <2> QED
    BY <2>2, <2>3
<1>4. ASSUME NEW r \in Resolutions, Lookup(r)
      PROVE  GateOpened'
  <2>1. /\ \A q \in Resolutions \ {r} : pass'[q] = pass[q] /\ stage'[q] = stage[q]
        /\ stage'[r] \in {"synced", "found"} /\ grants' = grants
    BY <1>4 DEF Lookup, RegistryLists, LookupReturns, LookupFails, Goto, TypeOK, history
  <2> QED
    BY <2>1
<1>5. ASSUME NEW r \in Resolutions, Gate(r)
      PROVE  GateOpened'
  <2>1. CASE Authorize(r)
    BY <2>1 DEF Authorize, GateOf, Goto, TypeOK, history
  <2>2. CASE Authorized(r)
    BY <2>2 DEF Authorized, Goto, TypeOK
  <2>3. CASE UnknownMfe(r) \/ RelayFederated(r) \/ Denied(r)
    BY <2>3 DEF UnknownMfe, RelayFederated, Denied, Relay, Goto, TypeOK, history
  <2> QED
    BY <1>5, <2>1, <2>2, <2>3 DEF Gate
<1>6. ASSUME NEW r \in Resolutions, Serve(r)
      PROVE  GateOpened'
  <2>1. UNCHANGED <<pass, grants>>
    BY <1>6 DEF Serve, ChooseCall, Refreshed, MfeLoads, SendRender, MfeRenders, Rendered, CallFails, history
  <2>2. /\ \A q \in Resolutions \ {r} : stage'[q] = stage[q]
        /\ stage'[r] \in Past => stage[r] \in Past
        /\ stage'[r] # "authorize"
    BY <1>6 DEF Serve, ChooseCall, NextCall, Refreshed, MfeLoads, SendRender, MfeRenders, Rendered,
                CallFails, Calls, Relay, Goto, TypeOK
  <2> QED
    BY <2>1, <2>2
<1>7. CASE UNCHANGED vars
  BY <1>7 DEF vars, history
<1> QED
  BY <1>1, <1>2, <1>3, <1>4, <1>5, <1>6, <1>7 DEF Next, Step

\* simple-daemon.js:363-368: an MFE that was only ever registered with
\* authorizeAccess is not loaded, rendered or refreshed for a resolution it did not
\* authorize, however stale the directory is.
THEOREM GateComesFirst == Spec => []GateBeforeServe
<1>1. Init => GateInv
  BY InitTypeOK DEF Init, GateInv, DirectoryClaims, GateOpened, Honest, Nobody, NoPass, Past
<1>2. GateInv /\ [Next]_vars => GateInv'
  BY NextTypeOK, NextDirectory, NextGate DEF GateInv
<1>3. GateInv => GateBeforeServe
  BY TargetHasMfe DEF GateInv, DirectoryClaims, GateOpened, Honest, Past, GateBeforeServe
<1> QED
  BY <1>1, <1>2, <1>3, PTL DEF Spec

(***************************************************************************)
(* Refreshes.  What a session's entry of activeResolutions names was       *)
(* rendered by its MFE or relayed for a federated one, and what was        *)
(* rendered was loaded before.                                             *)
(***************************************************************************)
Earned(t) == t \in renders \/ "federated" \in registered[t.mfe]

EarnedNext(t) == t \in renders' \/ "federated" \in registered'[t.mfe]

RenderClaims ==
  /\ \A t \in renders : loads[t.mfe] > 0
  /\ \A s \in Sessions : activeResolutions[s] \in Target => Earned(activeResolutions[s])
  /\ \A r \in Resolutions :
       /\ stage[r] = "rendered" => pass[r].target \in renders
       /\ stage[r] = "refresh" => Earned(pass[r].target)

\* What only adds loads, renders and kinds, renders what was loaded, and names or
\* refreshes what is earned, keeps the claims.
LEMMA KeepsRenderClaims ==
  ASSUME TypeOK, TypeOK', RenderClaims,
         \A m \in Mfes : registered[m] \subseteq registered'[m] /\ loads[m] <= loads'[m],
         renders \subseteq renders',
         \A t \in renders' \ renders : loads'[t.mfe] > 0,
         \A s \in Sessions : activeResolutions'[s] = activeResolutions[s]
                              \/ EarnedNext(activeResolutions'[s]),
         \A r \in Resolutions :
           /\ stage'[r] = "rendered" => \/ stage[r] = "rendered" /\ pass'[r].target = pass[r].target
                                        \/ pass'[r].target \in renders'
           /\ stage'[r] = "refresh"  => \/ stage[r] = "refresh" /\ pass'[r].target = pass[r].target
                                        \/ EarnedNext(pass'[r].target)
  PROVE  RenderClaims'
<1>1. \A t \in Target : t.mfe \in Mfes
  BY DEF Target
<1>2. renders \subseteq Target
  BY DEF TypeOK
<1>3. ASSUME NEW t \in Target, Earned(t) PROVE EarnedNext(t)
  BY <1>1, <1>3 DEF Earned, EarnedNext
<1>4. ASSUME NEW t \in renders' PROVE loads'[t.mfe] > 0
  <2>1. CASE t \in renders
    <3>1. t.mfe \in Mfes /\ loads[t.mfe] > 0
      BY <1>1, <1>2, <2>1 DEF RenderClaims
    <3>2. loads[t.mfe] \in Nat /\ loads'[t.mfe] \in Nat
      BY <3>1 DEF TypeOK
    <3> QED BY <3>1, <3>2
  <2> QED BY <2>1
<1>5. ASSUME NEW s \in Sessions, activeResolutions'[s] \in Target
      PROVE  EarnedNext(activeResolutions'[s])
  BY <1>3, <1>5 DEF RenderClaims
<1>6. ASSUME NEW r \in Resolutions, stage'[r] = "rendered" PROVE pass'[r].target \in renders'
  BY <1>6 DEF RenderClaims
<1>7. ASSUME NEW r \in Resolutions, stage'[r] = "refresh" PROVE EarnedNext(pass'[r].target)
  <2>1. CASE stage[r] = "refresh" /\ pass'[r].target = pass[r].target
    <3>1. pass[r].target \in Target
      BY <2>1 DEF TypeOK
    <3> QED BY <1>3, <2>1, <3>1 DEF RenderClaims
  <2> QED BY <1>7, <2>1
<1> QED
  BY <1>4, <1>5, <1>6, <1>7 DEF RenderClaims, Earned, EarnedNext

\* A step of the daemon's surroundings, or of a pass before the gate.
LEMMA EarlyRenderClaims ==
  ASSUME TypeOK, TypeOK', RenderClaims,
         UNCHANGED <<loads, renders, activeResolutions>>,
         \A m \in Mfes : registered[m] \subseteq registered'[m],
         \A r \in Resolutions :
           \/ stage'[r] \notin {"rendered", "refresh"}
           \/ stage'[r] = stage[r] /\ pass'[r].target = pass[r].target
  PROVE  RenderClaims'
<1>1. \A m \in Mfes : loads[m] <= loads'[m]
  BY DEF TypeOK
<1> QED BY <1>1, KeepsRenderClaims

\* A federated MFE's experience is earned by the registration the pass holds.
LEMMA GateRenderClaims ==
  ASSUME TypeOK, TypeOK', DirectoryClaims, RenderClaims, NEW r \in Resolutions, Gate(r)
  PROVE  RenderClaims'
<1>1. UNCHANGED <<loads, renders, registered, pass>> /\ stage[r] # "idle"
  BY DEF Gate, UnknownMfe, RelayFederated, Authorize, Authorized, Denied, history, registry
<1>2. \E st \in {"unknown", "relayed", "authorize", "granted", "denied"} :
         stage' = [stage EXCEPT ![r] = st]
  BY DEF Gate, UnknownMfe, RelayFederated, Authorize, Authorized, Denied, Relay, GateOf, Goto
<1>3. \A q \in Resolutions : stage'[q] \notin {"rendered", "refresh"} \/ stage'[q] = stage[q]
  BY <1>2 DEF TypeOK
<1>4. \A m \in Mfes : loads[m] <= loads'[m]
  BY <1>1 DEF TypeOK
<1>5. CASE RelayFederated(r)
  <2>1. "federated" \in registered[MfeOf(r)]
    BY <1>1, <1>5 DEF RelayFederated, DirectoryClaims, Honest
  <2>2. EarnedNext(pass[r].target)
    BY <1>1, <2>1 DEF EarnedNext, MfeOf
  <2>3. \A s \in Sessions : activeResolutions'[s] \in {activeResolutions[s], pass[r].target}
    BY <1>5 DEF RelayFederated, Relay, TypeOK
  <2> QED BY <1>1, <1>3, <1>4, <2>2, <2>3, KeepsRenderClaims
<1>6. CASE ~RelayFederated(r)
  <2>1. UNCHANGED activeResolutions
    BY <1>6 DEF Gate, UnknownMfe, Authorize, Authorized, Denied, daemon
  <2> QED BY <1>1, <1>3, <2>1, EarlyRenderClaims
<1> QED BY <1>5, <1>6

\* The choice refreshes what the session's entry names; an MFE renders only after
\* its load; and what is relayed is what it rendered.
LEMMA ServeRenderClaims ==
  ASSUME TypeOK, TypeOK', LoadClaims, RenderClaims, NEW r \in Resolutions, Serve(r)
  PROVE  RenderClaims'
<1>1. UNCHANGED <<registered, pass>> /\ stage[r] # "idle" /\ pass[r].target \in Target
  BY DEF Serve, ChooseCall, Refreshed, MfeLoads, SendRender, MfeRenders, Rendered, CallFails,
     Calls, registry, TypeOK
<1>2. \A q \in Resolutions \ {r} : stage'[q] = stage[q]
  BY DEF Serve, ChooseCall, Refreshed, MfeLoads, SendRender, MfeRenders, Rendered, CallFails,
     Relay, Goto, TypeOK
<1>3. CASE ChooseCall(r)
  <2>1. stage'[r] = NextCall(r) /\ UNCHANGED <<loads, renders, activeResolutions>>
    BY <1>3 DEF ChooseCall, Goto, daemon, history, TypeOK
  <2>2. NextCall(r) = "refresh" => EarnedNext(pass[r].target)
    <3>1. NextCall(r) = "refresh" => activeResolutions[pass[r].key] = pass[r].target
      BY DEF NextCall
    <3>2. pass[r].key \in Sessions
      BY DEF TypeOK
    <3> QED BY <1>1, <2>1, <3>1, <3>2 DEF RenderClaims, Earned, EarnedNext
  <2>3. NextCall(r) # "rendered"
    BY DEF NextCall
  <2>4. \A m \in Mfes : loads[m] <= loads'[m]
    BY <2>1 DEF TypeOK
  <2> QED BY <1>1, <1>2, <2>1, <2>2, <2>3, <2>4, KeepsRenderClaims
<1>4. CASE MfeLoads(r)
  <2>1. /\ stage'[r] = "loaded" /\ UNCHANGED <<renders, activeResolutions>>
        /\ loads' = [loads EXCEPT ![MfeOf(r)] = @ + 1]
    BY <1>4 DEF MfeLoads, Goto, daemon, TypeOK
  <2>2. \A m \in Mfes : loads[m] <= loads'[m]
    BY <2>1 DEF TypeOK
  <2> QED BY <1>1, <1>2, <2>1, <2>2, KeepsRenderClaims
<1>5. CASE MfeRenders(r)
  <2>1. /\ stage[r] = "render" /\ stage'[r] = "rendered"
        /\ UNCHANGED <<loads, activeResolutions>>
        /\ renders' = renders \union {pass[r].target}
    BY <1>5 DEF MfeRenders, Goto, daemon, TypeOK
  <2>2. loads'[pass[r].target.mfe] > 0
    BY <2>1 DEF LoadClaims, MfeOf
  <2>3. \A m \in Mfes : loads[m] <= loads'[m]
    BY <2>1 DEF TypeOK
  <2> QED BY <1>1, <1>2, <2>1, <2>2, <2>3, KeepsRenderClaims
<1>6. CASE Rendered(r)
  <2>1. /\ stage[r] = "rendered" /\ stage'[r] = "relayed" /\ UNCHANGED <<loads, renders>>
        /\ \A s \in Sessions : activeResolutions'[s] \in {activeResolutions[s], pass[r].target}
    BY <1>6 DEF Rendered, Relay, Goto, history, TypeOK
  <2>2. EarnedNext(pass[r].target)
    BY <2>1 DEF RenderClaims, EarnedNext
  <2>3. \A m \in Mfes : loads[m] <= loads'[m]
    BY <2>1 DEF TypeOK
  <2> QED BY <1>1, <1>2, <2>1, <2>2, <2>3, KeepsRenderClaims
<1>7. CASE Refreshed(r) \/ SendRender(r) \/ CallFails(r)
  <2>1. /\ stage'[r] \in {"refreshed", "render", "failed"}
        /\ UNCHANGED <<loads, renders, activeResolutions>>
    BY <1>7 DEF Refreshed, SendRender, CallFails, Goto, daemon, history, TypeOK
  <2> QED BY <1>1, <1>2, <2>1, EarlyRenderClaims
<1> QED
  BY <1>3, <1>4, <1>5, <1>6, <1>7 DEF Serve

LEMMA NextRender ==
  TypeOK /\ LoadClaims /\ DirectoryClaims /\ RenderClaims /\ [Next]_vars => RenderClaims'
<1> SUFFICES ASSUME TypeOK, LoadClaims, DirectoryClaims, RenderClaims, [Next]_vars
             PROVE  RenderClaims'
  OBVIOUS
<1>t. TypeOK'
  BY NextTypeOK
<1>1. ASSUME NEW m \in Mfes, NEW k \in Kinds, Register(m, k) PROVE RenderClaims'
  <2>1. /\ UNCHANGED <<loads, renders, activeResolutions, stage, pass>>
        /\ \A n \in Mfes : registered[n] \subseteq registered'[n]
    BY <1>1 DEF Register, daemon, history, TypeOK
  <2> QED BY <1>t, <2>1, EarlyRenderClaims
<1>2. ASSUME NEW s \in Sessions, NEW c \in Contexts, HandleAction(s, c) PROVE RenderClaims'
  <2>1. UNCHANGED <<loads, renders, activeResolutions, registered, stage, pass>>
    BY <1>2 DEF HandleAction, registry, history
  <2> QED BY <1>t, <2>1, EarlyRenderClaims
<1>3. ASSUME NEW r \in Resolutions, NEW s \in Sessions, NEW t \in Target, HandleResolution(r, s, t)
      PROVE  RenderClaims'
  <2>1. UNCHANGED <<loads, renders, activeResolutions, registered>>
    BY <1>3 DEF HandleResolution, registry, daemon, history
  <2>2. \E st \in {"found", "lookup"} : stage' = [stage EXCEPT ![r] = st]
    BY <1>3 DEF HandleResolution, Goto
  <2>3. \A q \in Resolutions \ {r} : pass'[q] = pass[q]
    BY <1>3 DEF HandleResolution, TypeOK
  <2> QED BY <1>t, <2>1, <2>2, <2>3, EarlyRenderClaims DEF TypeOK
<1>4. ASSUME NEW r \in Resolutions, Lookup(r) PROVE RenderClaims'
  <2>1. UNCHANGED <<loads, renders, activeResolutions, registered>>
    BY <1>4 DEF Lookup, RegistryLists, LookupReturns, LookupFails, registry, daemon, history
  <2>2. \E st \in {"synced", "found"} : stage' = [stage EXCEPT ![r] = st]
    BY <1>4 DEF Lookup, RegistryLists, LookupReturns, LookupFails, Goto
  <2>3. \A q \in Resolutions : pass'[q].target = pass[q].target
    BY <1>4, LookupTypeOK
  <2> QED BY <1>t, <2>1, <2>2, <2>3, EarlyRenderClaims DEF TypeOK
<1>5. CASE UNCHANGED vars
  <2>1. UNCHANGED <<loads, renders, activeResolutions, registered, stage, pass>>
    BY <1>5 DEF vars, registry, daemon, history
  <2> QED BY <1>t, <2>1, EarlyRenderClaims
<1> QED
  BY <1>t, <1>1, <1>2, <1>3, <1>4, <1>5, GateRenderClaims, ServeRenderClaims DEF Next, Step

\* simple-daemon.js:370-377: /refresh is posted only for what the MFE has loaded and
\* rendered, unless it was once registered as federated.
THEOREM RefreshesWhatWasRendered == Spec => []RefreshAfterRender
<1>1. Init => TypeOK /\ LoadClaims /\ DirectoryClaims /\ RenderClaims
  BY InitTypeOK, NotShownIsNoTarget
  DEF Init, LoadClaims, LoadedIsTrue, DirectoryClaims, Honest, Nobody, NoPass, RenderClaims
<1>2. TypeOK /\ LoadClaims /\ DirectoryClaims /\ RenderClaims /\ [Next]_vars
        => (TypeOK /\ LoadClaims /\ DirectoryClaims /\ RenderClaims)'
  BY NextTypeOK, NextLoad, NextDirectory, NextRender DEF LoadInv
<1>3. TypeOK /\ RenderClaims => RefreshAfterRender
  BY DEF RenderClaims, Earned, RefreshAfterRender, MfeOf
<1> QED
  BY <1>1, <1>2, <1>3, PTL DEF Spec

(***************************************************************************)
(* Contexts.  sessions is written before the action is forwarded and never *)
(* erased, so a resolution that answers an action of a session finds it.   *)
(***************************************************************************)
ContextInv ==
  /\ \A s \in Sessions : forwarded[s] > 0 /\ s # DefaultSession => sessions[s] # NoContext
  /\ ContextKnown

LEMMA HandleActionContext ==
  ASSUME TypeOK, ContextInv, NEW s \in Sessions, NEW c \in Contexts, HandleAction(s, c)
  PROVE  ContextInv'
<1>1. UNCHANGED <<stage, pass>>
  BY DEF HandleAction
<1>2. ASSUME NEW t \in Sessions, forwarded'[t] > 0, t # DefaultSession
      PROVE  sessions'[t] # NoContext
  <2>1. CASE t = s
    BY <1>2, <2>1, NoContextIsNone DEF HandleAction, RememberContext, TypeOK
  <2>2. CASE t # s
    BY <1>2, <2>2 DEF HandleAction, RememberContext, TypeOK, ContextInv
  <2> QED BY <2>1, <2>2
<1> QED BY <1>1, <1>2 DEF ContextInv, ContextKnown

LEMMA HandleResolutionContext ==
  ASSUME TypeOK, ContextInv, NEW r \in Resolutions, NEW s \in Sessions, NEW t \in Target,
         HandleResolution(r, s, t)
  PROVE  ContextInv'
<1>1. /\ forwarded[s] > 0 /\ forwarded' = [forwarded EXCEPT ![s] = @ - 1] /\ sessions' = sessions
      /\ pass'[r].key = s /\ pass'[r].context = sessions[s]
      /\ \A q \in Resolutions \ {r} : pass'[q] = pass[q] /\ stage'[q] = stage[q]
  BY DEF HandleResolution, Goto, TypeOK, daemon
<1>2. \A u \in Sessions : forwarded'[u] > 0 => forwarded[u] > 0
  BY <1>1 DEF TypeOK
<1> QED BY <1>1, <1>2 DEF ContextInv, ContextKnown

LEMMA StepContext ==
  ASSUME TypeOK, ContextInv, NEW r \in Resolutions, Step(r)
  PROVE  ContextInv'
<1>1. UNCHANGED <<forwarded, sessions>>
  BY DEF Step, Lookup, RegistryLists, LookupReturns, LookupFails, Gate, UnknownMfe, RelayFederated,
     Authorize, Authorized, Denied, Serve, ChooseCall, Refreshed, MfeLoads, SendRender, MfeRenders, Rendered,
     CallFails, wire, daemon
<1>2. \A q \in Resolutions : pass'[q].key = pass[q].key /\ pass'[q].context = pass[q].context
  <2>1. CASE RegistryLists(r)
    BY <2>1 DEF RegistryLists, TypeOK
  <2>2. CASE LookupReturns(r)
    BY <2>2 DEF LookupReturns, TypeOK
  <2>3. CASE LookupFails(r)
    BY <2>3 DEF LookupFails, TypeOK
  <2>4. CASE Gate(r) \/ Serve(r)
    BY <2>4, ServeTypeOK
  <2> QED BY <2>1, <2>2, <2>3, <2>4 DEF Step, Lookup
<1>3. \A q \in Resolutions : stage'[q] # "idle" => stage[q] # "idle"
  <2>1. stage[r] # "idle" /\ \E st : stage' = [stage EXCEPT ![r] = st]
    BY DEF Step, Lookup, RegistryLists, LookupReturns, LookupFails, Gate, UnknownMfe,
       RelayFederated, Authorize, Authorized, Denied, Serve, ChooseCall, Refreshed, MfeLoads,
       SendRender, MfeRenders, Rendered, CallFails, Calls, Relay, Goto
  <2> QED BY <2>1 DEF TypeOK
<1> QED BY <1>1, <1>2, <1>3 DEF ContextInv, ContextKnown

\* simple-daemon.js handleAction: a resolution that belongs to a session is
\* handled with the context of that session, never without one.
THEOREM ContextsAreKnown == Spec => []ContextKnown
<1>1. Init => TypeOK /\ ContextInv
  BY InitTypeOK DEF Init, ContextInv, ContextKnown
<1>2. TypeOK /\ ContextInv /\ [Next]_vars => TypeOK' /\ ContextInv'
  <2> SUFFICES ASSUME TypeOK, ContextInv, [Next]_vars PROVE ContextInv'
    BY NextTypeOK
  <2>1. CASE \E m \in Mfes, k \in Kinds : Register(m, k)
    BY <2>1 DEF Register, wire, daemon, ContextInv, ContextKnown
  <2>2. CASE UNCHANGED vars
    BY <2>2 DEF vars, wire, daemon, ContextInv, ContextKnown
  <2> QED
    BY <2>1, <2>2, HandleActionContext, HandleResolutionContext, StepContext DEF Next
<1>3. ContextInv => ContextKnown
  BY DEF ContextInv
<1> QED BY <1>1, <1>2, <1>3, PTL DEF Spec

(***************************************************************************)
(* Lookups.  What the registry listed when a pass began is still listed    *)
(* when it answers, and the answer overwrites the directory.               *)
(***************************************************************************)
Finding(r) ==
  pass[r].listed =>
    /\ stage[r] = "lookup" => published[MfeOf(r)] # "none"
    /\ stage[r] = "synced" => pass[r].answer[MfeOf(r)] # "none"
    /\ stage[r] = "found" => pass[r].registration # "none" \/ r \in unreached
    /\ stage[r] = "unknown" => r \in unreached

LEMMA HandleResolutionFinding ==
  ASSUME TypeOK, \A q \in Resolutions : Finding(q),
         NEW r \in Resolutions, NEW s \in Sessions, NEW t \in Target, HandleResolution(r, s, t)
  PROVE  \A q \in Resolutions : Finding(q)'
<1>1. /\ pass'[r].target = t /\ pass'[r].registration = mfeDirectory[t.mfe]
      /\ pass'[r].listed = (published[t.mfe] # "none")
      /\ stage'[r] = IF Known(t.mfe) THEN "found" ELSE "lookup"
      /\ \A q \in Resolutions \ {r} : pass'[q] = pass[q] /\ stage'[q] = stage[q]
      /\ UNCHANGED <<published, unreached>>
  BY DEF HandleResolution, Goto, TypeOK, registry, history
<1>2. Finding(r)'
  BY <1>1 DEF Finding, MfeOf, Known
<1>3. \A q \in Resolutions \ {r} : Finding(q)'
  BY <1>1 DEF Finding, MfeOf
<1> QED BY <1>2, <1>3

LEMMA LookupFinding ==
  ASSUME TypeOK, \A q \in Resolutions : Finding(q), NEW r \in Resolutions, Lookup(r)
  PROVE  \A q \in Resolutions : Finding(q)'
<1>1. MfeOf(r) \in Mfes
  BY TargetHasMfe DEF Lookup, RegistryLists, LookupReturns, LookupFails
<1>2. \A q \in Resolutions \ {r} : Finding(q)'
  <2>1. \A q \in Resolutions \ {r} : pass'[q] = pass[q] /\ stage'[q] = stage[q]
    BY DEF Lookup, RegistryLists, LookupReturns, LookupFails, Goto, TypeOK
  <2>2. published' = published /\ unreached \subseteq unreached'
    BY DEF Lookup, RegistryLists, LookupReturns, LookupFails, registry, history
  <2> QED BY <2>1, <2>2 DEF Finding, MfeOf
<1>3. CASE RegistryLists(r)
  <2>1. /\ pass' = [pass EXCEPT ![r].answer = published] /\ stage'[r] = "synced"
        /\ stage[r] = "lookup"
    BY <1>3 DEF RegistryLists, Goto, TypeOK
  <2>2. /\ pass'[r].answer = published /\ pass'[r].listed = pass[r].listed
        /\ pass'[r].target = pass[r].target
    BY <2>1 DEF TypeOK
  <2> QED BY <1>2, <2>1, <2>2 DEF Finding, MfeOf
<1>4. CASE LookupReturns(r)
  <2>1. stage[r] = "synced" /\ stage'[r] = "found" /\ mfeDirectory' = Synced(pass[r].answer)
    BY <1>4 DEF LookupReturns, Goto, TypeOK
  <2>2. /\ pass'[r].registration = mfeDirectory'[MfeOf(r)] /\ pass'[r].listed = pass[r].listed
        /\ pass'[r].target = pass[r].target
    BY <1>4 DEF LookupReturns, TypeOK
  <2>3. pass[r].answer[MfeOf(r)] # "none" => mfeDirectory'[MfeOf(r)] # "none"
    BY <1>1, <2>1 DEF Synced
  <2> QED BY <1>2, <2>1, <2>2, <2>3 DEF Finding, MfeOf
<1>5. CASE LookupFails(r)
  <2>1. stage'[r] = "found" /\ r \in unreached'
    BY <1>5 DEF LookupFails, Goto, TypeOK
  <2> QED BY <1>2, <2>1 DEF Finding
<1> QED BY <1>3, <1>4, <1>5 DEF Lookup

LEMMA ServeFinding ==
  ASSUME TypeOK, \A q \in Resolutions : Finding(q), NEW r \in Resolutions, Gate(r) \/ Serve(r)
  PROVE  \A q \in Resolutions : Finding(q)'
<1>1. UNCHANGED <<pass, published, unreached>>
  BY DEF Gate, UnknownMfe, RelayFederated, Authorize, Authorized, Denied, Serve, ChooseCall,
     Refreshed, MfeLoads, SendRender, MfeRenders, Rendered, CallFails, registry, history
<1>2. /\ \A q \in Resolutions \ {r} : stage'[q] = stage[q]
      /\ stage'[r] \notin {"lookup", "synced", "found"}
      /\ stage'[r] = "unknown" => stage[r] = "found" /\ pass[r].registration = "none"
  BY DEF Gate, UnknownMfe, RelayFederated, Authorize, GateOf, Authorized, Denied, Serve,
     ChooseCall, NextCall, Refreshed, MfeLoads, SendRender, MfeRenders, Rendered, CallFails, Relay, Goto, TypeOK
<1> QED BY <1>1, <1>2 DEF Finding, MfeOf

\* simple-daemon.js lookupMfe: a resolution for an MFE that the registry lists
\* is never answered as unknown, however stale the directory is, unless the
\* registry could not be asked.
THEOREM ListedMfesAreFound == Spec => []ListedIsFound
<1> DEFINE FindInv == TypeOK /\ \A r \in Resolutions : Finding(r)
<1>1. Init => FindInv
  BY InitTypeOK DEF Init, Finding
<1>2. FindInv /\ [Next]_vars => FindInv'
  <2> SUFFICES ASSUME TypeOK, \A r \in Resolutions : Finding(r), [Next]_vars
               PROVE  \A r \in Resolutions : Finding(r)'
    BY NextTypeOK
  <2>1. ASSUME NEW m \in Mfes, NEW k \in Kinds, Register(m, k)
        PROVE  \A r \in Resolutions : Finding(r)'
    <3>1. \A n \in Mfes : published[n] # "none" => published'[n] # "none"
      BY <2>1 DEF Register, Kinds, TypeOK
    <3> QED BY <2>1, <3>1, TargetHasMfe DEF Register, history, Finding, MfeOf
  <2>2. CASE \E s \in Sessions, c \in Contexts : HandleAction(s, c)
    BY <2>2 DEF HandleAction, registry, history, Finding, MfeOf
  <2>3. CASE UNCHANGED vars
    BY <2>3 DEF vars, registry, history, Finding, MfeOf
  <2> QED
    BY <2>1, <2>2, <2>3, HandleResolutionFinding, LookupFinding, ServeFinding DEF Next, Step
<1>3. FindInv => ListedIsFound
  BY DEF Finding, ListedIsFound
<1> HIDE DEF FindInv
<1> QED BY <1>1, <1>2, <1>3, PTL DEF Spec
=============================================================================
