------------------------ MODULE SlotProviders_proofs ------------------------
(***************************************************************************)
(* The promise of ADR-058: an address that an experience contributed goes  *)
(* with the experience.  Between the teardown of the provider and the      *)
(* release of its address lies a queue, on which registrations, releases   *)
(* and binds of other experiences wait as well; what holds all the while   *)
(* is that every owner and every registration that waits is backed by a    *)
(* slot that shows its experience, or followed by its release.             *)
(***************************************************************************)
EXTENDS LayoutManager_proofs

\* The experiences that are placed at contributed addresses contribute none
\* themselves.  The release of an entry unmounts what it shows and drops it,
\* but does not release what that experience contributed in turn.
ContentContributesNothing ==
  \A e, f \in Experiences : \A x \in Addresses :
    x \in Provides[e] /\ x \in Targets[f] => Provides[f] = {}

(***************************************************************************)
(* Routes.  What is shown, provided, owned, desired or under way at an     *)
(* address has a route to it.                                              *)
(***************************************************************************)
RoutedSlot(slot, a) ==
  /\ slot.exp # None => a \in Targets[slot.exp] /\ Present(slot)
  /\ slot.provided # {} => slot.exp # None /\ slot.provided \subseteq Provides[slot.exp]
  /\ slot.owner # None => a \in Provides[slot.owner] /\ Present(slot)

RoutedActivity(act, slot, a) ==
  /\ act.at = "clearing" => slot.provided = {} /\ ~act.self
  /\ act.at = "releasing" => slot.owner # None
  /\ act.at = "clearing" /\ act.then = "bind" => act.exp # None /\ a \in Targets[act.exp]
  /\ act.at \in {"clearing", "releasing"} /\ act.then = "provide" =>
       act.exp # None /\ act.element # None /\ a \in Provides[act.exp]

RoutedOp(op, a) ==
  /\ op.op = "register" => op.exp # None /\ op.element # None /\ a \in Provides[op.exp]
  /\ op.op = "release" => op.exp # None

RoutedQueue(q, a) == \A k \in 1 .. Len(q) : RoutedOp(q[k], a)

RoutedAt(a) ==
  /\ RoutedSlot(slots[a], a)
  /\ RoutedActivity(running[a], slots[a], a)
  /\ RoutedQueue(queue[a], a)
  /\ desired[a] # None => a \in Targets[desired[a]]

RoutedInv == phase = "started" /\ \A a \in Addresses : RoutedAt(a)

(***************************************************************************)
(* Pledges.  OwnerToBe is the owner of an address once the teardown that   *)
(* is under way there has settled.  Owed says of an experience that it is  *)
(* shown by a slot that contributes the address, or that its release waits *)
(* behind place k of the queue.                                            *)
(***************************************************************************)
Backers(s, x) == {s[a].exp : a \in {b \in Addresses : x \in s[b].provided}}

ReleasedAfter(q, o, k) ==
  \E l \in 1 .. Len(q) : l > k /\ q[l].op = "release" /\ q[l].exp = o

Owed(backers, q, o, k) == o \in backers \/ ReleasedAfter(q, o, k)

OwnerToBe(act, slot) ==
  IF act.at = "releasing" /\ act.then = "done" THEN None
  ELSE IF act.at \in {"clearing", "releasing"} /\ act.then = "provide" THEN act.exp
  ELSE slot.owner

Pledged(backers, q, owner) ==
  /\ owner # None => Owed(backers, q, owner, 0)
  /\ \A k \in 1 .. Len(q) : q[k].op = "register" => Owed(backers, q, q[k].exp, k)

PledgeInv ==
  \A x \in Addresses : Pledged(Backers(slots, x), queue[x], OwnerToBe(running[x], slots[x]))

-----------------------------------------------------------------------------
(***************************************************************************)
(* Queues.                                                                 *)
(***************************************************************************)

\* What an append keeps of a queue.
LEMMA AppendElements ==
  ASSUME NEW q \in Seq(Operation), NEW op \in Operation
  PROVE  /\ Len(q) \in Nat /\ Len(Append(q, op)) = Len(q) + 1
         /\ \A k \in 1 .. Len(q) : k \in 1 .. Len(Append(q, op)) /\ Append(q, op)[k] = q[k]
         /\ Append(q, op)[Len(q) + 1] = op
         /\ \A k \in 1 .. Len(Append(q, op)) : k \in 1 .. Len(q) \/ k = Len(q) + 1
<1>1. /\ Len(q) \in Nat /\ Len(Append(q, op)) = Len(q) + 1
      /\ \A k \in 1 .. Len(q) : Append(q, op)[k] = q[k]
      /\ Append(q, op)[Len(q) + 1] = op
  OBVIOUS
<1> DEFINE r == Append(q, op)
<1> HIDE DEF r
<1> QED BY <1>1

\* What is left of a queue whose head is taken.
LEMMA TailElements ==
  ASSUME NEW q \in Seq(Operation), q # <<>>
  PROVE  /\ Tail(q) \in Seq(Operation) /\ Len(q) \in Nat \ {0} /\ Head(q) = q[1]
         /\ \A k \in 1 .. Len(Tail(q)) : k + 1 \in 1 .. Len(q) /\ Tail(q)[k] = q[k + 1]
         /\ \A k \in 1 .. Len(q) : k # 1 => k - 1 \in 1 .. Len(Tail(q)) /\ Tail(q)[k - 1] = q[k]
<1>1. /\ Len(q) \in Nat \ {0} /\ Head(q) = q[1] /\ Tail(q) \in Seq(Operation)
      /\ Len(Tail(q)) = Len(q) - 1
      /\ \A k \in 1 .. (Len(q) - 1) : Tail(q)[k] = q[k + 1]
  OBVIOUS
<1>2. \A k \in 1 .. Len(q) : k # 1 => k - 1 \in 1 .. (Len(q) - 1) /\ k = (k - 1) + 1
  BY <1>1
<1> DEFINE r == Tail(q)
<1> HIDE DEF r
<1>3. \A k \in 1 .. Len(r) : k + 1 \in 1 .. Len(q) /\ r[k] = q[k + 1]
  BY <1>1 DEF r
<1>4. \A k \in 1 .. Len(q) : k # 1 => k - 1 \in 1 .. Len(r) /\ r[k - 1] = q[k]
  BY <1>1, <1>2, <1>3 DEF r
<1> QED BY <1>1, <1>3, <1>4 DEF r

\* A release that waits still waits behind the same place once the queue has
\* grown, and one place further ahead once its head is taken.
LEMMA ReleasedAppend ==
  ASSUME NEW q \in Seq(Operation), NEW op \in Operation, NEW o, NEW k \in Nat
  PROVE  /\ ReleasedAfter(q, o, k) => ReleasedAfter(Append(q, op), o, k)
         /\ op.op = "release" /\ op.exp = o /\ k <= Len(q) => ReleasedAfter(Append(q, op), o, k)
<1> DEFINE r == Append(q, op)
<1>1. /\ Len(q) \in Nat /\ Len(r) = Len(q) + 1
      /\ \A l \in 1 .. Len(q) : l \in 1 .. Len(r) /\ r[l] = q[l]
      /\ r[Len(q) + 1] = op
  BY AppendElements
<1> HIDE DEF r
<1>2. ReleasedAfter(q, o, k) => ReleasedAfter(r, o, k)
  BY <1>1 DEF ReleasedAfter
<1>3. ASSUME op.op = "release", op.exp = o, k <= Len(q) PROVE ReleasedAfter(r, o, k)
  <2>1. Len(q) + 1 \in 1 .. Len(r) /\ Len(q) + 1 > k
    BY <1>1, <1>3
  <2> QED BY <1>1, <1>3, <2>1 DEF ReleasedAfter
<1> QED BY <1>2, <1>3 DEF r

LEMMA ReleasedTail ==
  ASSUME NEW q \in Seq(Operation), q # <<>>, NEW o, NEW k \in Nat
  PROVE  /\ ReleasedAfter(q, o, k + 1) => ReleasedAfter(Tail(q), o, k)
         /\ ReleasedAfter(q, o, 0) /\ ~(Head(q).op = "release" /\ Head(q).exp = o)
              => ReleasedAfter(Tail(q), o, 0)
<1> DEFINE r == Tail(q)
<1>1. /\ Len(q) \in Nat /\ Head(q) = q[1]
      /\ \A l \in 1 .. Len(q) : l # 1 => l - 1 \in 1 .. Len(r) /\ r[l - 1] = q[l]
  BY TailElements
<1> HIDE DEF r
<1>2. ASSUME ReleasedAfter(q, o, k + 1) PROVE ReleasedAfter(r, o, k)
  <2>1. PICK l \in 1 .. Len(q) : l > k + 1 /\ q[l].op = "release" /\ q[l].exp = o
    BY <1>2 DEF ReleasedAfter
  <2>2. l # 1 /\ l - 1 > k /\ l - 1 \in 1 .. Len(r)
    BY <1>1, <2>1
  <2> QED BY <1>1, <2>1, <2>2 DEF ReleasedAfter
<1>3. ASSUME ReleasedAfter(q, o, 0), ~(Head(q).op = "release" /\ Head(q).exp = o)
      PROVE  ReleasedAfter(r, o, 0)
  <2>1. PICK l \in 1 .. Len(q) : q[l].op = "release" /\ q[l].exp = o
    BY <1>3 DEF ReleasedAfter
  <2>2. l # 1 /\ l - 1 > 0 /\ l - 1 \in 1 .. Len(r)
    BY <1>1, <1>3, <2>1
  <2> QED BY <1>1, <2>1, <2>2 DEF ReleasedAfter
<1> QED BY <1>2, <1>3 DEF r

-----------------------------------------------------------------------------
(***************************************************************************)
(* Pledges are kept.                                                       *)
(***************************************************************************)

\* Taking the head off a queue keeps what is owed, unless the head is the
\* release of the owner; the head's registration may make a new owner.
LEMMA TailKeepsPledges ==
  ASSUME NEW q \in Seq(Operation), q # <<>>, NEW backers, NEW owner, NEW owner2,
         Pledged(backers, q, owner),
         \/ owner2 = None
         \/ owner2 = owner /\ ~(Head(q).op = "release" /\ Head(q).exp = owner)
         \/ Head(q).op = "register" /\ Head(q).exp = owner2
  PROVE  Pledged(backers, Tail(q), owner2)
<1>1. Tail(q) \in Seq(Operation) /\ Len(q) \in Nat \ {0} /\ Head(q) = q[1] /\ 1 \in 1 .. Len(q)
  BY TailElements
<1>2. ASSUME NEW k \in 1 .. Len(Tail(q)), Tail(q)[k].op = "register"
      PROVE  Owed(backers, Tail(q), Tail(q)[k].exp, k)
  <2>1. k + 1 \in 1 .. Len(q) /\ Tail(q)[k] = q[k + 1] /\ k \in Nat
    BY TailElements
  <2>2. Owed(backers, q, q[k + 1].exp, k + 1)
    BY <1>2, <2>1 DEF Pledged
  <2>3. \A o : ReleasedAfter(q, o, k + 1) => ReleasedAfter(Tail(q), o, k)
    BY <2>1, ReleasedTail
  <2> QED BY <2>1, <2>2, <2>3 DEF Owed
<1>3. ASSUME owner2 # None PROVE Owed(backers, Tail(q), owner2, 0)
  <2>1. CASE owner2 = owner /\ ~(Head(q).op = "release" /\ Head(q).exp = owner)
    <3>1. Owed(backers, q, owner, 0)
      BY <1>3, <2>1 DEF Pledged
    <3> QED BY <2>1, <3>1, ReleasedTail DEF Owed
  <2>2. CASE Head(q).op = "register" /\ Head(q).exp = owner2
    <3>1. Owed(backers, q, owner2, 0 + 1)
      BY <1>1, <2>2 DEF Pledged
    <3>2. ReleasedAfter(q, owner2, 0 + 1) => ReleasedAfter(Tail(q), owner2, 0)
      BY ReleasedTail
    <3> QED BY <3>1, <3>2 DEF Owed
  <2> QED BY <1>3, <2>1, <2>2
<1> QED BY <1>2, <1>3 DEF Pledged

\* An operation that joins a queue keeps what is owed there, if a registration
\* is backed and each backing that goes leaves its release.
LEMMA AppendKeepsPledges ==
  ASSUME NEW q \in Seq(Operation), NEW op \in Operation, NEW backers, NEW backers2, NEW owner,
         Pledged(backers, q, owner),
         op.op = "register" => op.exp \in backers2,
         \A o \in backers : o \in backers2 \/ (op.op = "release" /\ op.exp = o)
  PROVE  Pledged(backers2, Append(q, op), owner)
<1> DEFINE r == Append(q, op)
<1>1. /\ Len(q) \in Nat /\ Len(r) = Len(q) + 1 /\ r[Len(q) + 1] = op
      /\ \A k \in 1 .. Len(q) : r[k] = q[k]
      /\ \A k \in 1 .. Len(r) : k \in 1 .. Len(q) \/ k = Len(q) + 1
  BY AppendElements
<1>2. ASSUME NEW o, NEW k \in Nat, k <= Len(q), Owed(backers, q, o, k)
      PROVE  Owed(backers2, r, o, k)
  <2>1. /\ ReleasedAfter(q, o, k) => ReleasedAfter(r, o, k)
        /\ op.op = "release" /\ op.exp = o => ReleasedAfter(r, o, k)
    BY <1>2, ReleasedAppend
  <2> QED BY <1>2, <2>1 DEF Owed
<1> HIDE DEF r
<1>3. ASSUME NEW k \in 1 .. Len(r), r[k].op = "register"
      PROVE  Owed(backers2, r, r[k].exp, k)
  <2>1. CASE k \in 1 .. Len(q)
    <3>1. r[k] = q[k] /\ k \in Nat /\ k <= Len(q)
      BY <1>1, <2>1
    <3>2. Owed(backers, q, q[k].exp, k)
      BY <1>3, <2>1, <3>1 DEF Pledged
    <3> QED BY <1>2, <3>1, <3>2
  <2>2. CASE k = Len(q) + 1
    BY <1>1, <1>3, <2>2 DEF Owed
  <2> QED BY <1>1, <2>1, <2>2
<1>4. owner # None => Owed(backers2, r, owner, 0)
  BY <1>1, <1>2 DEF Pledged
<1> QED BY <1>3, <1>4 DEF Pledged, r

\* What is owed to more backers, or to no owner any more, is still owed.
LEMMA MoreBackersPledge ==
  ASSUME NEW q, NEW backers, NEW backers2, NEW owner, NEW owner2, Pledged(backers, q, owner),
         backers \subseteq backers2, owner2 \in {None, owner}
  PROVE  Pledged(backers2, q, owner2)
BY DEF Pledged, Owed

-----------------------------------------------------------------------------
(***************************************************************************)
(* What the step of an address does to what it contributes elsewhere, and  *)
(* to what is owed at its own address.                                     *)
(***************************************************************************)
Keeps(s, s2, x) == x \in s.provided => x \in s2.provided /\ s2.exp = s.exp

Gives(a) ==
  \A x \in Addresses \ {a} :
    \/ queue'[x] = queue[x] /\ Keeps(slots[a], slots'[a], x)
    \/ queue'[x] = Append(queue[x], Op("release", slots[a].exp, None))

Owner(a) == OwnerToBe(running[a], slots[a])

Owns(a) ==
  \/ queue'[a] = queue[a] /\ Owner(a)' \in {None, Owner(a)}
  \/ /\ queue[a] # <<>> /\ queue'[a] = Tail(queue[a])
     /\ \/ Owner(a)' = None
        \/ /\ Owner(a)' = Owner(a)
           /\ ~(Head(queue[a]).op = "release" /\ Head(queue[a]).exp = Owner(a))
        \/ Head(queue[a]).op = "register" /\ Head(queue[a]).exp = Owner(a)'

\* The backers of x after a step that changes the slot of a alone.
LEMMA BackersStep ==
  ASSUME NEW s, NEW s2, NEW a \in Addresses, \A b \in Addresses \ {a} : s2[b] = s[b], NEW x
  PROVE  /\ Keeps(s[a], s2[a], x) => Backers(s, x) \subseteq Backers(s2, x)
         /\ Backers(s, x) \subseteq Backers(s2, x) \cup {s[a].exp}
<1>1. ASSUME NEW b \in Addresses, x \in s[b].provided, b # a
      PROVE  s[b].exp \in Backers(s2, x)
  BY <1>1 DEF Backers
<1>2. ASSUME Keeps(s[a], s2[a], x), x \in s[a].provided
      PROVE  s[a].exp \in Backers(s2, x)
  <2>1. x \in s2[a].provided /\ s2[a].exp = s[a].exp
    BY <1>2 DEF Keeps
  <2> QED BY <2>1 DEF Backers
<1> QED BY <1>1, <1>2 DEF Backers

\* A contributed address never shows an experience that contributes: it is not
\* among the addresses that its own slot contributes.
LEMMA ContributesElsewhere ==
  ASSUME ContentContributesNothing, OperationTypes, NEW a \in Addresses, RoutedSlot(slots[a], a)
  PROVE  /\ a \notin slots[a].provided
         /\ slots[a].owner # None => slots[a].provided = {}
<1>1. /\ slots[a].exp \in Optional(Experiences) /\ slots[a].owner \in Optional(Experiences)
      /\ slots[a].provided \subseteq Addresses
  BY DEF OperationTypes, SlotRecord
<1>2. CASE slots[a].provided = {}
  BY <1>2
<1>3. CASE slots[a].provided # {}
  <2>1. /\ slots[a].exp \in Experiences /\ a \in Targets[slots[a].exp]
        /\ slots[a].provided \subseteq Provides[slots[a].exp] /\ Provides[slots[a].exp] # {}
    BY <1>1, <1>3 DEF RoutedSlot, Optional
  <2>2. \A e \in Experiences : a \notin Provides[e]
    BY <2>1 DEF ContentContributesNothing
  <2>3. slots[a].owner = None
    BY <1>1, <2>2 DEF RoutedSlot, Optional
  <2> QED BY <2>1, <2>2, <2>3
<1> QED BY <1>2, <1>3

LEMMA OperatePledges ==
  ASSUME ContentContributesNothing, OperationTypes, RoutedInv, PledgeInv,
         NEW a \in Addresses, Operate(a), Gives(a), Owns(a)
  PROVE  PledgeInv'
<1>1. \A b \in Addresses \ {a} : slots'[b] = slots[b] /\ running'[b] = running[b]
  BY OperateOthers
<1>2. \A x \in Addresses : queue[x] \in Seq(Operation)
  BY DEF OperationTypes
<1>3. SUFFICES ASSUME NEW x \in Addresses
               PROVE  Pledged(Backers(slots', x), queue'[x], OwnerToBe(running'[x], slots'[x]))
  BY DEF PledgeInv
<1> DEFINE bs == Backers(slots, x)
           bs2 == Backers(slots', x)
<1>4. Pledged(bs, queue[x], Owner(x))
  BY DEF PledgeInv, Owner
<1>5. CASE x # a
  <2>1. OwnerToBe(running'[x], slots'[x]) = Owner(x)
    BY <1>1, <1>5 DEF Owner
  <2>2. CASE queue'[x] = queue[x] /\ Keeps(slots[a], slots'[a], x)
    <3>1. bs \subseteq bs2
      BY <1>1, <2>2, BackersStep
    <3> HIDE DEF bs, bs2
    <3> QED BY <1>4, <2>1, <2>2, <3>1, MoreBackersPledge DEF bs, bs2
  <2>3. CASE queue'[x] = Append(queue[x], Op("release", slots[a].exp, None))
    <3> DEFINE op == Op("release", slots[a].exp, None)
    <3>1. op \in Operation /\ op.op = "release" /\ op.exp = slots[a].exp
      BY RecordsTyped DEF Op, Optional, OperationTypes, SlotRecord
    <3>2. \A o \in bs : o \in bs2 \/ o = slots[a].exp
      BY <1>1, BackersStep
    <3> HIDE DEF op, bs, bs2
    <3>3. Pledged(bs2, Append(queue[x], op), Owner(x))
      BY <1>2, <1>4, <3>1, <3>2, AppendKeepsPledges
    <3> QED BY <2>1, <2>3, <3>3 DEF op, bs2
  <2> QED BY <1>5, <2>2, <2>3 DEF Gives
<1>6. CASE x = a
  <2>1. Owner(a)' = OwnerToBe(running'[x], slots'[x])
    BY <1>6 DEF Owner
  <2>2. bs \subseteq bs2
    <3>1. x \notin slots[a].provided
      BY <1>6, ContributesElsewhere DEF RoutedInv, RoutedAt
    <3> QED BY <1>1, <3>1, BackersStep DEF Keeps
  <2> HIDE DEF bs, bs2
  <2>3. CASE queue'[a] = queue[a] /\ Owner(a)' \in {None, Owner(a)}
    <3>1. Pledged(bs2, queue[x], Owner(a)')
      BY <1>4, <1>6, <2>2, <2>3, MoreBackersPledge
    <3> QED BY <1>6, <2>1, <2>3, <3>1 DEF bs2
  <2>4. CASE /\ queue[a] # <<>> /\ queue'[a] = Tail(queue[a])
             /\ \/ Owner(a)' = None
                \/ /\ Owner(a)' = Owner(a)
                   /\ ~(Head(queue[a]).op = "release" /\ Head(queue[a]).exp = Owner(a))
                \/ Head(queue[a]).op = "register" /\ Head(queue[a]).exp = Owner(a)'
    <3> DEFINE o2 == OwnerToBe(running'[x], slots'[x])
    <3>1. Pledged(bs2, queue[x], Owner(x))
      BY <1>4, <2>2, MoreBackersPledge
    <3> HIDE DEF o2
    <3>2. Pledged(bs2, Tail(queue[x]), o2)
      BY <1>2, <1>6, <2>1, <2>4, <3>1, TailKeepsPledges DEF o2
    <3> QED BY <1>6, <2>4, <3>2 DEF o2, bs2
  <2> QED BY <2>3, <2>4 DEF Owns
<1> QED BY <1>5, <1>6

-----------------------------------------------------------------------------
(***************************************************************************)
(* The steps of an operation keep the routes, and give and own as above.   *)
(***************************************************************************)
Routes(a) ==
  /\ RoutedSlot(slots'[a], a)
  /\ RoutedActivity(running'[a], slots'[a], a)
  /\ \A b \in Addresses : RoutedQueue(queue'[b], b)

Result(a) == Routes(a) /\ Gives(a) /\ Owns(a)

LEMMA RoutedTail ==
  ASSUME NEW q \in Seq(Operation), q # <<>>, NEW a, RoutedQueue(q, a)
  PROVE  RoutedQueue(Tail(q), a) /\ RoutedOp(Head(q), a)
<1>1. Head(q) = q[1] /\ 1 \in 1 .. Len(q)
  BY TailElements
<1>2. \A k \in 1 .. Len(Tail(q)) : k + 1 \in 1 .. Len(q) /\ Tail(q)[k] = q[k + 1]
  BY TailElements
<1> QED BY <1>1, <1>2 DEF RoutedQueue

LEMMA RoutedAppend ==
  ASSUME NEW q \in Seq(Operation), NEW op \in Operation, NEW a, RoutedQueue(q, a), RoutedOp(op, a)
  PROVE  RoutedQueue(Append(q, op), a)
<1> DEFINE r == Append(q, op)
<1>1. /\ Len(q) \in Nat /\ r[Len(q) + 1] = op
      /\ \A k \in 1 .. Len(q) : r[k] = q[k]
      /\ \A k \in 1 .. Len(r) : k \in 1 .. Len(q) \/ k = Len(q) + 1
  BY AppendElements
<1> HIDE DEF r
<1>2. RoutedQueue(r, a)
  BY <1>1 DEF RoutedQueue
<1> QED BY <1>2 DEF r

\* The operation that is taken off a queue, and what is left.
LEMMA TakenRouted ==
  ASSUME OperationTypes, RoutedInv, NEW a \in Addresses, NEW o, Takes(a, o)
  PROVE  /\ running[a] = Idle /\ Owner(a) = slots[a].owner
         /\ queue[a] # <<>> /\ Head(queue[a]).op = o
         /\ RoutedOp(Head(queue[a]), a) /\ RoutedSlot(slots[a], a)
         /\ Rest(a)[a] = Tail(queue[a])
         /\ \A b \in Addresses : /\ b # a => Rest(a)[b] = queue[b]
                                 /\ Rest(a)[b] \in Seq(Operation)
                                 /\ RoutedQueue(Rest(a)[b], b)
<1>1. running[a] = Idle /\ queue[a] # <<>> /\ Head(queue[a]).op = o
  BY DEF Takes
<1>2. Rest(a)[a] = Tail(queue[a]) /\ \A b \in Addresses \ {a} : Rest(a)[b] = queue[b]
  BY DEF Rest, OperationTypes
<1>3. /\ queue[a] \in Seq(Operation) /\ RoutedQueue(queue[a], a) /\ RoutedSlot(slots[a], a)
      /\ \A b \in Addresses : queue[b] \in Seq(Operation) /\ RoutedQueue(queue[b], b)
  BY DEF OperationTypes, RoutedInv, RoutedAt
<1>4. RoutedQueue(Tail(queue[a]), a) /\ RoutedOp(Head(queue[a]), a) /\ Tail(queue[a]) \in Seq(Operation)
  BY <1>1, <1>3, RoutedTail
<1>5. Owner(a) = slots[a].owner
  BY <1>1 DEF Owner, OwnerToBe, Idle
<1> QED BY <1>1, <1>2, <1>3, <1>4, <1>5

LEMMA NothingResult ==
  ASSUME OperationTypes, RoutedInv, NEW a \in Addresses, NEW o, Takes(a, o), Nothing(a, Rest(a)),
         o = "release" => slots[a].owner = None \/ slots[a].owner # Head(queue[a]).exp
  PROVE  Result(a)
<1>1. Routes(a)
  BY TakenRouted DEF Nothing, Routes, RoutedInv, RoutedAt
<1>2. Gives(a)
  BY TakenRouted DEF Nothing, Gives, Keeps
<1>3. Owner(a)' = Owner(a)
  BY DEF Nothing, Owner
<1> QED BY <1>1, <1>2, <1>3, TakenRouted DEF Nothing, Owns, Result

LEMMA StartClearResult ==
  ASSUME ContentContributesNothing, OperationTypes, RoutedInv, NEW a \in Addresses, NEW t,
         Takes(a, t), NEW o, NEW then, NEW e, NEW el, StartClear(a, o, then, e, el, Rest(a)),
         then = "bind" => e # None /\ a \in Targets[e],
         t # "release",
         then = "provide" => t = "register" /\ e = Head(queue[a]).exp /\ el = Head(queue[a]).element
  PROVE  Result(a)
<1>1. slots[a] \in SlotRecord /\ slots'[a] = [slots[a] EXCEPT !.provided = {}]
  BY DEF StartClear, OperationTypes
<1>2. /\ slots'[a].exp = slots[a].exp /\ slots'[a].owner = slots[a].owner
      /\ slots'[a].element = slots[a].element /\ slots'[a].provided = {}
  BY <1>1 DEF SlotRecord
<1>3. /\ running'[a].at = "clearing" /\ running'[a].then = then /\ running'[a].exp = e
      /\ running'[a].element = el /\ ~running'[a].self
  BY TakenRouted, ContributesElsewhere DEF StartClear, OperationTypes, Busy
<1>4. RoutedSlot(slots'[a], a)
  BY <1>2, TakenRouted DEF RoutedSlot, Present
<1>5. RoutedActivity(running'[a], slots'[a], a)
  BY <1>2, <1>3, TakenRouted DEF RoutedActivity, RoutedOp
<1>6. ASSUME NEW b \in Addresses PROVE RoutedQueue(queue'[b], b)
  <2>1. CASE queue'[b] = Rest(a)[b]
    BY <2>1, TakenRouted
  <2>2. CASE slots[a].exp # None /\ queue'[b] = Append(Rest(a)[b], Op("release", slots[a].exp, None))
    <3>1. Op("release", slots[a].exp, None) \in Operation
          /\ RoutedOp(Op("release", slots[a].exp, None), b)
      BY <1>1, <2>2, RecordsTyped DEF Op, Optional, SlotRecord, RoutedOp
    <3> QED BY <2>2, <3>1, TakenRouted, RoutedAppend
  <2> QED BY <2>1, <2>2 DEF StartClear
<1>7. Gives(a)
  <2>1. slots[a].provided # {} => slots[a].exp # None
    BY TakenRouted DEF RoutedSlot
  <2> QED BY <2>1, TakenRouted DEF StartClear, Gives, Keeps
<1>8. Owns(a)
  <2>1. queue'[a] = Tail(queue[a])
    BY TakenRouted DEF StartClear
  <2>2. Owner(a)' = IF then = "provide" THEN e ELSE slots[a].owner
    BY <1>2, <1>3 DEF Owner, OwnerToBe
  <2> QED BY <2>1, <2>2, TakenRouted DEF Owns
<1> QED BY <1>4, <1>5, <1>6, <1>7, <1>8 DEF Routes, Result

LEMMA StartReleaseResult ==
  ASSUME OperationTypes, RoutedInv, NEW a \in Addresses, NEW t, Takes(a, t),
         NEW o, NEW then, NEW e, NEW el, StartRelease(a, o, then, e, el, Rest(a)),
         slots[a].owner # None,
         \/ then = "done"
         \/ /\ then = "provide" /\ t = "register"
            /\ e = Head(queue[a]).exp /\ el = Head(queue[a]).element
  PROVE  Result(a)
<1>1. /\ running'[a].at = "releasing" /\ running'[a].then = then /\ running'[a].exp = e
      /\ running'[a].element = el /\ slots' = slots /\ queue' = Rest(a)
  BY DEF StartRelease, OperationTypes, Busy
<1>2. Routes(a)
  BY <1>1, TakenRouted DEF Routes, RoutedActivity, RoutedOp
<1>3. Gives(a)
  BY <1>1, TakenRouted DEF Gives, Keeps
<1>4. Owner(a)' = IF then = "done" THEN None ELSE e
  BY <1>1 DEF Owner, OwnerToBe
<1> QED BY <1>1, <1>2, <1>3, <1>4, TakenRouted DEF Owns, Result

\* The registered element replaces an entry that contributes nothing.
LEMMA SetProvidedResult ==
  ASSUME OperationTypes, RoutedInv, NEW a \in Addresses, NEW e, NEW el, SetProvided(a, e, el),
         e # None, el # None, a \in Provides[e], slots[a].provided = {},
         \/ queue' = queue /\ Owner(a) = e
         \/ /\ queue' = Rest(a) /\ Takes(a, "register") /\ Head(queue[a]).exp = e
  PROVE  Result(a)
<1>1. slots'[a] = ProvidedSlot(el, e)
  BY DEF SetProvided, OperationTypes
<1>2. /\ slots'[a].exp = None /\ slots'[a].owner = e /\ slots'[a].element = el
      /\ slots'[a].provided = {}
  BY <1>1 DEF ProvidedSlot, NoSlot
<1>3. \/ running'[a] = Idle
      \/ /\ running'[a] = Busy("register", "clearing", "bind", desired[a], None)
         /\ desired[a] # None /\ a \in Targets[desired[a]]
  BY DEF SetProvided, OperationTypes, RoutedInv, RoutedAt
<1>4. \A b \in Addresses : RoutedQueue(queue'[b], b)
  BY TakenRouted DEF RoutedInv, RoutedAt
<1>5. Routes(a)
  BY <1>2, <1>3, <1>4 DEF Routes, RoutedSlot, Present, RoutedActivity, Idle, Busy
<1>6. Gives(a)
  BY TakenRouted DEF Gives, Keeps
<1>7. Owner(a)' = e
  BY <1>2, <1>3 DEF Owner, OwnerToBe, Idle, Busy
<1> QED BY <1>5, <1>6, <1>7, TakenRouted DEF Owns, Result

\* A slot that keeps what it shows and contributes, under an activity that
\* tears nothing down.
LEMMA SettledResult ==
  ASSUME OperationTypes, RoutedInv, NEW a \in Addresses,
         slots'[a].exp = slots[a].exp, slots'[a].owner = slots[a].owner,
         slots'[a].element = slots[a].element, slots'[a].provided = slots[a].provided,
         running[a].at \notin {"clearing", "releasing"},
         running'[a].at \notin {"clearing", "releasing"},
         \/ queue' = queue
         \/ \E o : queue' = Rest(a) /\ Takes(a, o) /\ o # "release"
  PROVE  Result(a)
<1>1. Routes(a)
  BY TakenRouted DEF Routes, RoutedInv, RoutedAt, RoutedSlot, RoutedActivity, Present
<1>2. Gives(a)
  BY TakenRouted DEF Gives, Keeps
<1>3. Owner(a)' = slots'[a].owner /\ Owner(a) = slots[a].owner
  BY DEF Owner, OwnerToBe
<1> QED BY <1>1, <1>2, <1>3, TakenRouted DEF Owns, Result

LEMMA DegradeKeeps ==
  ASSUME OperationTypes, NEW a \in Addresses, NEW o, NEW e, Degrade(a, o, e)
  PROVE  /\ slots'[a].exp = slots[a].exp /\ slots'[a].owner = slots[a].owner
         /\ slots'[a].element = slots[a].element /\ slots'[a].provided = slots[a].provided
         /\ running'[a].at \notin {"clearing", "releasing"}
<1> DEFINE failures == slots[a].escalations + 1
           counted == IF failures > MAX_SLOT_ESCALATIONS THEN MAX_SLOT_ESCALATIONS + 1 ELSE failures
           s == [slots[a] EXCEPT !.mounted = FALSE, !.state = "error", !.escalations = counted]
<1>1. slots[a] \in SlotRecord /\ slots'[a] = s
  BY DEF Degrade, OperationTypes
<1>2. /\ s.exp = slots[a].exp /\ s.owner = slots[a].owner
      /\ s.element = slots[a].element /\ s.provided = slots[a].provided
  <2> HIDE DEF counted
  <2> QED BY <1>1 DEF SlotRecord
<1>3. running'[a].at \notin {"clearing", "releasing"}
  BY DEF Degrade, OperationTypes, Busy, Idle
<1> HIDE DEF s
<1> QED BY <1>1, <1>2, <1>3

LEMMA TakesResult ==
  ASSUME ContentContributesNothing, OperationTypes, RoutedInv, NEW a \in Addresses,
         Reconcile(a) \/ Unplace(a) \/ Register(a) \/ Release(a) \/ HandleError(a) \/ ClearForStop(a)
  PROVE  Result(a)
<1>1. desired[a] # None => a \in Targets[desired[a]]
  BY DEF RoutedInv, RoutedAt
<1>2. CASE Reconcile(a)
  <2>1. /\ Takes(a, "reconcile")
        /\ \/ Nothing(a, Rest(a))
           \/ desired[a] # None /\ StartClear(a, "reconcile", "bind", desired[a], None, Rest(a))
    BY <1>2 DEF Reconcile
  <2> QED BY <1>1, <2>1, NothingResult, StartClearResult
<1>3. CASE Unplace(a)
  <2>1. /\ Takes(a, "unplace")
        /\ \/ Nothing(a, Rest(a))
           \/ StartClear(a, "unplace", "done", None, None, Rest(a))
    BY <1>3 DEF Unplace
  <2> QED BY <2>1, NothingResult, StartClearResult
<1>4. CASE Register(a)
  <2> DEFINE e == Head(queue[a]).exp
             el == Head(queue[a]).element
  <2>1. /\ Takes(a, "register")
        /\ \/ Nothing(a, Rest(a))
           \/ slots[a].owner # None /\ StartRelease(a, "register", "provide", e, el, Rest(a))
           \/ StartClear(a, "register", "provide", e, el, Rest(a))
           \/ ~Present(slots[a]) /\ SetProvided(a, e, el) /\ queue' = Rest(a)
    BY <1>4 DEF Register
  <2>2. RoutedOp(Head(queue[a]), a) /\ Head(queue[a]).op = "register" /\ RoutedSlot(slots[a], a)
    BY <2>1, TakenRouted
  <2>3. e # None /\ el # None /\ a \in Provides[e]
    BY <2>2 DEF RoutedOp
  <2>4. ~Present(slots[a]) => slots[a].provided = {}
    BY <2>2 DEF RoutedSlot
  <2>5. CASE ~Present(slots[a]) /\ SetProvided(a, e, el) /\ queue' = Rest(a)
    <3> HIDE DEF el
    <3> QED BY <2>1, <2>3, <2>4, <2>5, SetProvidedResult
  <2>6. CASE StartClear(a, "register", "provide", e, el, Rest(a))
    BY <2>1, <2>6, StartClearResult
  <2>7. CASE slots[a].owner # None /\ StartRelease(a, "register", "provide", e, el, Rest(a))
    BY <2>1, <2>7, StartReleaseResult
  <2>8. CASE Nothing(a, Rest(a))
    BY <2>1, <2>8, NothingResult
  <2> QED BY <2>1, <2>5, <2>6, <2>7, <2>8
<1>5. CASE Release(a)
  <2>1. Takes(a, "release")
    BY <1>5 DEF Release
  <2>2. RoutedOp(Head(queue[a]), a) /\ Head(queue[a]).op = "release" /\ RoutedSlot(slots[a], a)
    BY <2>1, TakenRouted
  <2>3. CASE ~Present(slots[a]) \/ slots[a].owner # Head(queue[a]).exp
    <3>1. Nothing(a, Rest(a)) /\ (slots[a].owner = None \/ slots[a].owner # Head(queue[a]).exp)
      BY <1>5, <2>2, <2>3 DEF Release, RoutedSlot
    <3> QED BY <2>1, <3>1, NothingResult
  <2>4. CASE ~(~Present(slots[a]) \/ slots[a].owner # Head(queue[a]).exp)
    <3>1. slots[a].owner # None
          /\ StartRelease(a, "release", "done", Head(queue[a]).exp, None, Rest(a))
      BY <1>5, <2>2, <2>4 DEF Release, RoutedOp
    <3> QED BY <2>1, <3>1, StartReleaseResult
  <2> QED BY <2>3, <2>4
<1>6. CASE HandleError(a)
  <2> DEFINE e == Head(queue[a]).exp
  <2>1. /\ Takes(a, "error") /\ queue' = Rest(a)
        /\ \/ Nothing(a, Rest(a))
           \/ /\ running' = [running EXCEPT ![a] = Busy("error", "degrading", "done", e, None)]
              /\ UNCHANGED slots
           \/ Degrade(a, "error", e)
    BY <1>6 DEF HandleError, Nothing
  <2>2. running[a].at = "idle"
    BY <2>1 DEF Takes, Idle
  <2>3. CASE /\ running' = [running EXCEPT ![a] = Busy("error", "degrading", "done", e, None)]
             /\ UNCHANGED slots
    <3>1. running'[a].at = "degrading"
      BY <2>3 DEF OperationTypes, Busy
    <3> QED BY <2>1, <2>2, <2>3, <3>1, SettledResult
  <2>4. CASE Degrade(a, "error", e)
    <3>1. running[a].at \notin {"clearing", "releasing"}
      BY <2>2
    <3> HIDE DEF e
    <3> QED BY <2>1, <2>4, <3>1, DegradeKeeps, SettledResult
  <2> QED BY <2>1, <2>3, <2>4, NothingResult
<1>7. CASE ClearForStop(a)
  <2>1. /\ Takes(a, "clear")
        /\ \/ Nothing(a, Rest(a))
           \/ StartClear(a, "clear", "done", None, None, Rest(a))
    BY <1>7 DEF ClearForStop
  <2> QED BY <2>1, NothingResult, StartClearResult
<1> QED BY <1>2, <1>3, <1>4, <1>5, <1>6, <1>7

LEMMA FinishClearResult ==
  ASSUME OperationTypes, RoutedInv, NEW a \in Addresses, FinishClear(a)
  PROVE  Result(a)
<1> DEFINE act == running[a]
           slot == Cleared(a)
<1>1. /\ act.at = "clearing" /\ queue' = queue
      /\ RoutedActivity(act, slots[a], a) /\ RoutedSlot(slots[a], a)
      /\ \A b \in Addresses : RoutedQueue(queue[b], b)
      /\ slots[a] \in SlotRecord
  BY DEF FinishClear, UnmountSettled, RoutedInv, RoutedAt, OperationTypes
<1>2. slots[a].provided = {} /\ ~act.self
  BY <1>1 DEF RoutedActivity
<1>3. slot \in SlotRecord /\ slot.exp = None /\ slot.owner = slots[a].owner /\ slot.provided = {}
      /\ (slot.owner # None => Present(slot))
  <2>1. CASE Present(slots[a])
    <3>1. slot = [slots[a] EXCEPT !.mounted = FALSE, !.exp = None]
      BY <1>2, <2>1 DEF Cleared
    <3>2. slot \in SlotRecord /\ slot.exp = None /\ slot.owner = slots[a].owner
          /\ slot.provided = {} /\ slot.element = slots[a].element
      BY <1>1, <1>2, <3>1 DEF SlotRecord, Optional
    <3> QED BY <2>1, <3>2 DEF Present
  <2>2. CASE ~Present(slots[a])
    BY <1>1, <2>2, RecordsTyped DEF Cleared, NoSlot, RoutedSlot
  <2> QED BY <2>1, <2>2
<1>4. Gives(a)
  BY <1>1, <1>2 DEF Gives, Keeps
<1>5. CASE act.then = "done"
  <2>1. slots'[a] = slot /\ running'[a] = Idle
    BY <1>5 DEF FinishClear, OperationTypes
  <2>2. Routes(a)
    BY <1>1, <1>3, <2>1 DEF Routes, RoutedSlot, RoutedActivity, Idle
  <2>3. Owner(a)' = Owner(a)
    BY <1>1, <1>3, <1>5, <2>1 DEF Owner, OwnerToBe, Idle
  <2> QED BY <1>1, <1>4, <2>2, <2>3 DEF Owns, Result
<1>6. CASE act.then = "bind"
  <2> DEFINE base == IF Present(slot) THEN slot ELSE HostSlot
             s == [base EXCEPT !.exp = act.exp, !.state = "pending"]
  <2>1. slots'[a] = s /\ running'[a] = Busy(act.op, "mounting", "done", act.exp, None)
    BY <1>6 DEF FinishClear, OperationTypes
  <2>2. base \in SlotRecord /\ Present(base) /\ base.owner = slots[a].owner /\ base.provided = {}
    <3>1. HostSlot \in SlotRecord /\ Present(HostSlot) /\ HostSlot.owner = None /\ HostSlot.provided = {}
      BY RecordsTyped, HostElementAssumption DEF HostSlot, NoSlot, Present
    <3> HIDE DEF slot
    <3> QED BY <1>3, <3>1
  <2>3. s.exp = act.exp /\ Present(s) /\ s.owner = slots[a].owner /\ s.provided = {}
    <3> HIDE DEF base
    <3> QED BY <2>2 DEF SlotRecord, Present
  <2> HIDE DEF s
  <2>4. RoutedSlot(slots'[a], a)
    BY <1>1, <1>6, <2>1, <2>3 DEF RoutedSlot, RoutedActivity
  <2>5. running'[a].at = "mounting"
    BY <2>1 DEF Busy
  <2>6. Routes(a)
    BY <1>1, <2>4, <2>5 DEF Routes, RoutedActivity
  <2>7. Owner(a)' = Owner(a)
    BY <1>1, <1>6, <2>1, <2>3, <2>5 DEF Owner, OwnerToBe
  <2> QED BY <1>1, <1>4, <2>6, <2>7 DEF Owns, Result
<1>7. CASE act.then = "provide" /\ SetProvided(a, act.exp, act.element)
  <2>1. act.exp # None /\ act.element # None /\ a \in Provides[act.exp] /\ Owner(a) = act.exp
    BY <1>1, <1>7 DEF RoutedActivity, Owner, OwnerToBe
  <2> HIDE DEF act
  <2> QED BY <1>1, <1>2, <1>7, <2>1, SetProvidedResult
<1> QED BY <1>5, <1>6, <1>7 DEF FinishClear

LEMMA FinishReleaseResult ==
  ASSUME ContentContributesNothing, OperationTypes, RoutedInv, NEW a \in Addresses, FinishRelease(a)
  PROVE  Result(a)
<1> DEFINE act == running[a]
<1>1. /\ act.at = "releasing" /\ queue' = queue
      /\ RoutedActivity(act, slots[a], a) /\ RoutedSlot(slots[a], a)
      /\ \A b \in Addresses : RoutedQueue(queue[b], b)
  BY DEF FinishRelease, RoutedInv, RoutedAt
<1>2. slots[a].provided = {}
  BY <1>1, ContributesElsewhere DEF RoutedActivity
<1>3. CASE act.then = "done"
  <2>1. slots'[a] = NoSlot /\ running'[a] = Idle
    BY <1>3 DEF FinishRelease, OperationTypes
  <2>2. Routes(a)
    BY <1>1, <2>1 DEF Routes, RoutedSlot, RoutedActivity, NoSlot, Idle
  <2>3. Gives(a)
    BY <1>1, <1>2 DEF Gives, Keeps
  <2>4. Owner(a)' = None
    BY <2>1 DEF Owner, OwnerToBe, NoSlot, Idle
  <2> QED BY <1>1, <2>2, <2>3, <2>4 DEF Owns, Result
<1>4. CASE act.then = "provide" /\ SetProvided(a, act.exp, act.element)
  <2>1. act.exp # None /\ act.element # None /\ a \in Provides[act.exp] /\ Owner(a) = act.exp
    BY <1>1, <1>4 DEF RoutedActivity, Owner, OwnerToBe
  <2> HIDE DEF act
  <2> QED BY <1>1, <1>2, <1>4, <2>1, SetProvidedResult
<1> QED BY <1>3, <1>4 DEF FinishRelease

LEMMA SettlesResult ==
  ASSUME OperationTypes, RoutedInv, NEW a \in Addresses,
         MountSucceeds(a) \/ MountFails(a) \/ FinishDegrade(a) \/ SignalSettles(a)
  PROVE  Result(a)
<1>1. running[a].at \notin {"clearing", "releasing"} /\ queue' = queue
  BY DEF MountSucceeds, MountFails, FinishDegrade, SignalSettles
<1>2. ASSUME running' = [running EXCEPT ![a] = Idle]
      PROVE  running'[a].at \notin {"clearing", "releasing"}
  BY <1>2 DEF OperationTypes, Idle
<1>3. CASE MountSucceeds(a)
  <2>1. slots[a] \in SlotRecord
    BY DEF OperationTypes
  <2>2. \/ slots'[a] = [slots[a] EXCEPT !.mounted = TRUE, !.state = "ready", !.escalations = 0]
        \/ slots'[a] = slots[a]
    BY <1>3 DEF MountSucceeds, OperationTypes
  <2>3. /\ slots'[a].exp = slots[a].exp /\ slots'[a].owner = slots[a].owner
        /\ slots'[a].element = slots[a].element /\ slots'[a].provided = slots[a].provided
    BY <2>1, <2>2 DEF SlotRecord
  <2>4. running'[a].at \notin {"clearing", "releasing"}
    BY <1>2, <1>3 DEF MountSucceeds
  <2> QED BY <1>1, <2>3, <2>4, SettledResult
<1>4. ASSUME NEW o, NEW e, Degrade(a, o, e) PROVE Result(a)
  BY <1>1, <1>4, DegradeKeeps, SettledResult
<1>5. CASE running' = [running EXCEPT ![a] = Idle] /\ UNCHANGED slots
  BY <1>1, <1>2, <1>5, SettledResult
<1> QED BY <1>3, <1>4, <1>5 DEF MountFails, FinishDegrade, SignalSettles

-----------------------------------------------------------------------------
(***************************************************************************)
(* Every step of a manager that was never stopped keeps both.              *)
(***************************************************************************)
ProviderInv == stops = 0 => RoutedInv /\ PledgeInv

LEMMA InitProviders == Init => ProviderInv
<1> SUFFICES ASSUME Init PROVE RoutedInv /\ PledgeInv
  BY DEF ProviderInv
<1>1. ASSUME NEW a \in Addresses PROVE RoutedAt(a)
  BY <1>1 DEF Init, RoutedAt, RoutedSlot, RoutedActivity, RoutedQueue, NoSlot, Idle
<1>2. ASSUME NEW x \in Addresses
      PROVE  Pledged(Backers(slots, x), queue[x], OwnerToBe(running[x], slots[x]))
  BY <1>2 DEF Init, Pledged, OwnerToBe, NoSlot, Idle
<1> QED BY <1>1, <1>2 DEF Init, RoutedInv, PledgeInv

LEMMA OperateProviders ==
  ASSUME ContentContributesNothing, OperationTypes, RoutedInv, PledgeInv,
         NEW a \in Addresses, Operate(a)
  PROVE  RoutedInv' /\ PledgeInv'
<1>1. Result(a)
  BY TakesResult, FinishClearResult, FinishReleaseResult, SettlesResult DEF Operate
<1>2. UNCHANGED <<desired, phase>>
  BY OperateKeepsWanted
  DEF wantedVars, Operate, Reconcile, Unplace, Register, Release, HandleError, ClearForStop,
      FinishClear, FinishRelease, MountSucceeds, MountFails, FinishDegrade, SignalSettles,
      Untouched, stopVars
<1>3. ASSUME NEW b \in Addresses PROVE RoutedAt(b)'
  <2>1. RoutedAt(b) /\ RoutedQueue(queue'[b], b)
    BY <1>1 DEF RoutedInv, Result, Routes
  <2>2. CASE b = a
    BY <1>1, <1>2, <2>1, <2>2 DEF RoutedAt, Result, Routes
  <2>3. CASE b # a
    BY <1>2, <2>1, <2>3, OperateOthers DEF RoutedAt
  <2> QED BY <2>2, <2>3
<1> QED BY <1>1, <1>2, <1>3, OperatePledges DEF RoutedInv, Result

\* An operation other than a registration joins some of the queues.
LEMMA QueuedProviders ==
  ASSUME OperationTypes, RoutedInv, PledgeInv, UNCHANGED <<slots, running, phase>>,
         \A b \in Addresses :
           \/ queue'[b] = queue[b]
           \/ \E op \in Operation : /\ queue'[b] = Append(queue[b], op)
                                    /\ op.op # "register" /\ RoutedOp(op, b),
         \A b \in Addresses : desired'[b] # None => b \in Targets[desired'[b]]
  PROVE  RoutedInv' /\ PledgeInv'
<1>1. ASSUME NEW b \in Addresses
      PROVE  /\ RoutedQueue(queue'[b], b)
             /\ Pledged(Backers(slots, b), queue'[b], Owner(b))
  <2>1. /\ queue[b] \in Seq(Operation) /\ RoutedQueue(queue[b], b)
        /\ Pledged(Backers(slots, b), queue[b], Owner(b))
    BY DEF OperationTypes, RoutedInv, RoutedAt, PledgeInv, Owner
  <2>2. ASSUME NEW op \in Operation, queue'[b] = Append(queue[b], op), op.op # "register",
               RoutedOp(op, b)
        PROVE  /\ RoutedQueue(queue'[b], b)
               /\ Pledged(Backers(slots, b), queue'[b], Owner(b))
    <3> DEFINE bs == Backers(slots, b)
    <3>1. Pledged(bs, queue[b], Owner(b))
      BY <2>1
    <3> HIDE DEF bs
    <3>2. Pledged(bs, Append(queue[b], op), Owner(b))
      BY <2>1, <2>2, <3>1, AppendKeepsPledges
    <3> QED BY <2>1, <2>2, <3>2, RoutedAppend DEF bs
  <2> QED BY <2>1, <2>2
<1>2. RoutedInv'
  BY <1>1 DEF RoutedInv, RoutedAt
<1>3. PledgeInv'
  BY <1>1 DEF PledgeInv, Owner
<1> QED BY <1>2, <1>3

LEMMA PlaceProviders ==
  ASSUME TypeInv, PlacementInv, RoutedInv, PledgeInv,
         NEW e \in Experiences, NEW a \in Addresses, Place(e, a)
  PROVE  RoutedInv' /\ PledgeInv'
<1> DEFINE unplace == Op("unplace", e, None)
           reconcile == Op("reconcile", None, None)
           unplaced == IF Moves(e, a) THEN Enqueue(queue, addressOf[e], unplace) ELSE queue
<1>1. OperationTypes /\ UNCHANGED <<slots, running, phase>>
  BY DEF Place, TypeInv, TypeOK, OperationTypes, stopVars
<1>2. unplace \in Operation /\ reconcile \in Operation
  BY RecordsTyped DEF Optional
<1>3. \A b \in Addresses :
        /\ RoutedOp(unplace, b) /\ unplace.op # "register"
        /\ RoutedOp(reconcile, b) /\ reconcile.op # "register"
  BY DEF Op, RoutedOp
<1> HIDE DEF unplace, reconcile
<1>4. \A b \in Addresses :
        \/ unplaced[b] = queue[b]
        \/ b # a /\ unplaced[b] = Append(queue[b], unplace)
  BY DEF Moves, Enqueue, OperationTypes, TypeInv, TypeOK
<1>5. unplaced \in [Addresses -> Seq(Operation)]
  BY <1>1, <1>2, EnqueueTyped DEF OperationTypes, Moves, TypeInv, TypeOK, Optional
<1>6. queue' = unplaced \/ queue' = Enqueue(unplaced, a, reconcile)
  BY DEF Place, unplace, reconcile
<1> HIDE DEF unplaced
<1>7. \A b \in Addresses :
        \/ queue'[b] = queue[b]
        \/ queue'[b] = Append(queue[b], unplace)
        \/ queue'[b] = Append(queue[b], reconcile)
  BY <1>4, <1>5, <1>6 DEF Enqueue
<1>8. ASSUME NEW b \in Addresses, desired'[b] # None PROVE b \in Targets[desired'[b]]
  <2>1. Pruned(e, a) \in [Addresses -> Optional(Experiences)]
        /\ \A c \in Addresses : Pruned(e, a)[c] \in {None, desired[c]}
    BY DEF Pruned, Moves, PlacementInv, MapsTyped, Optional
  <2>2. desired'[b] = IF b = a THEN e ELSE Pruned(e, a)[b]
    BY <2>1 DEF Place
  <2> QED BY <1>8, <2>1, <2>2 DEF Place, RoutedInv, RoutedAt
<1> QED BY <1>1, <1>2, <1>3, <1>7, <1>8, QueuedProviders

LEMMA ReportProviders ==
  ASSUME TypeInv, RoutedInv, PledgeInv, NEW e \in Experiences, NEW a \in Addresses,
         ReportError(e, a) \/ ReleaseSlot(e, a)
  PROVE  RoutedInv' /\ PledgeInv'
<1>1. OperationTypes /\ UNCHANGED <<slots, running, phase, desired>>
  BY DEF ReportError, ReleaseSlot, CallingBack, TypeInv, TypeOK, OperationTypes, stopVars, wantedVars
<1>2. PICK op \in Operation : /\ queue' = Enqueue(queue, a, op)
                              /\ op.op # "register" /\ RoutedOp(op, a)
  <2>1. Op("error", e, None) \in Operation /\ Op("release", e, None) \in Operation
    BY RecordsTyped DEF Optional
  <2>2. \A o \in {"error", "release"} : Op(o, e, None).op # "register" /\ RoutedOp(Op(o, e, None), a)
    BY NoneDistinct DEF Op, RoutedOp
  <2> QED BY <2>1, <2>2 DEF ReportError, ReleaseSlot
<1>3. \A b \in Addresses : queue'[b] = queue[b] \/ (b = a /\ queue'[b] = Append(queue[b], op))
  BY <1>1, <1>2 DEF Enqueue, OperationTypes
<1>4. \A b \in Addresses : desired'[b] # None => b \in Targets[desired'[b]]
  BY <1>1 DEF RoutedInv, RoutedAt
<1> QED BY <1>1, <1>2, <1>3, <1>4, QueuedProviders

\* The registration that a mounted island queues is backed by its slot.
LEMMA ProvideProviders ==
  ASSUME ~LateCallbacks, TypeInv, RoutedInv, PledgeInv, NEW e \in Experiences, NEW a \in Addresses,
         NEW x \in Addresses, NEW el \in Elements, ProvideSlot(e, a, x, el)
  PROVE  RoutedInv' /\ PledgeInv'
<1> DEFINE op == Op("register", e, el)
           s == [slots[a] EXCEPT !.provided = @ \cup {x}]
<1>1. OperationTypes /\ UNCHANGED <<running, phase, desired>>
  BY DEF ProvideSlot, TypeInv, TypeOK, OperationTypes, stopVars, wantedVars
<1>2. slots[a] \in SlotRecord /\ slots'[a] = s /\ \A b \in Addresses \ {a} : slots'[b] = slots[b]
  BY <1>1 DEF ProvideSlot, OperationTypes
<1>3. /\ slots'[a].exp = slots[a].exp /\ slots'[a].owner = slots[a].owner
      /\ slots'[a].element = slots[a].element /\ slots'[a].provided = slots[a].provided \cup {x}
  BY <1>2 DEF SlotRecord
<1>4. x \in Provides[e] /\ slots[a].exp = e /\ running[a].at # "clearing"
  BY DEF ProvideSlot, Occupies
<1>5. op \in Operation /\ op.op = "register" /\ op.exp = e /\ RoutedOp(op, x)
  BY <1>4, RecordsTyped, NoneAssumption DEF Op, RoutedOp, Optional
<1> HIDE DEF op, s
<1>6. \A b \in Addresses : queue'[b] = IF b = x THEN Append(queue[b], op) ELSE queue[b]
  BY <1>1 DEF ProvideSlot, Enqueue, OperationTypes, op
<1>7. ASSUME NEW b \in Addresses PROVE RoutedAt(b)'
  <2>1. RoutedAt(b) /\ queue[b] \in Seq(Operation)
    BY <1>1 DEF RoutedInv, OperationTypes
  <2>2. RoutedQueue(queue'[b], b)
    BY <1>5, <1>6, <2>1, RoutedAppend DEF RoutedAt
  <2>3. RoutedSlot(slots'[b], b)
    BY <1>2, <1>3, <1>4, <2>1, NoneDistinct DEF RoutedAt, RoutedSlot, Present
  <2>4. RoutedActivity(running'[b], slots'[b], b)
    BY <1>1, <1>2, <1>3, <1>4, <2>1 DEF RoutedAt, RoutedActivity
  <2> QED BY <1>1, <2>1, <2>2, <2>3, <2>4 DEF RoutedAt
<1>8. ASSUME NEW b \in Addresses
      PROVE  Pledged(Backers(slots', b), queue'[b], OwnerToBe(running'[b], slots'[b]))
  <2> DEFINE bs == Backers(slots, b)
             bs2 == Backers(slots', b)
             o2 == OwnerToBe(running'[b], slots'[b])
  <2>1. Pledged(bs, queue[b], Owner(b)) /\ queue[b] \in Seq(Operation)
    BY <1>1 DEF PledgeInv, Owner, OperationTypes
  <2>2. o2 = Owner(b)
    BY <1>1, <1>2, <1>3 DEF Owner, OwnerToBe
  <2>3. bs \subseteq bs2
    BY <1>2, <1>3, BackersStep DEF Keeps
  <2>4. b = x => e \in bs2
    BY <1>3, <1>4 DEF Backers
  <2> HIDE DEF bs, bs2, o2
  <2>5. CASE b = x
    <3>1. Pledged(bs2, Append(queue[b], op), Owner(b))
      BY <1>5, <2>1, <2>3, <2>4, <2>5, AppendKeepsPledges
    <3> QED BY <1>6, <2>2, <2>5, <3>1 DEF bs2, o2
  <2>6. CASE b # x
    <3>1. Pledged(bs2, queue[b], Owner(b))
      BY <2>1, <2>3, MoreBackersPledge
    <3> QED BY <1>6, <2>2, <2>6, <3>1 DEF bs2, o2
  <2> QED BY <2>5, <2>6
<1> QED BY <1>1, <1>7, <1>8 DEF RoutedInv, PledgeInv

LEMMA NextProviders ==
  ASSUME ContentContributesNothing, ~LateCallbacks, TypeInv, PlacementInv, ProviderInv, [Next]_vars
  PROVE  ProviderInv'
<1> SUFFICES ASSUME stops' = 0 PROVE RoutedInv' /\ PledgeInv'
  BY DEF ProviderInv
<1>1. OperationTypes /\ stops \in Nat
  BY DEF TypeInv, TypeOK, OperationTypes
<1>2. CASE UNCHANGED vars
  <2>1. UNCHANGED <<slots, running, queue, phase, desired, stops>>
    BY <1>2 DEF vars, slotVars, stopVars, wantedVars
  <2> QED BY <2>1 DEF ProviderInv, RoutedInv, RoutedAt, PledgeInv
<1>3. ASSUME NEW a \in Addresses, Operate(a) PROVE RoutedInv' /\ PledgeInv'
  <2>1. stops' = stops
    BY <1>3
    DEF Operate, Reconcile, Unplace, Register, Release, HandleError, ClearForStop,
        FinishClear, FinishRelease, MountSucceeds, MountFails, FinishDegrade, SignalSettles,
        Untouched, stopVars
  <2> QED BY <1>1, <1>3, <2>1, OperateProviders DEF ProviderInv
<1>4. CASE StopStep
  <2>1. stops' = stops
    BY <1>4 DEF StopStep, StopClears, StopResumes, StopFinishes
  <2>2. RoutedInv /\ PledgeInv /\ phase = "started"
    BY <2>1 DEF ProviderInv, RoutedInv
  <2>3. UNCHANGED <<slots, running, queue, phase, desired>>
    BY <1>4, <2>2 DEF StopStep, StopClears, StopResumes, StopFinishes, UnchangedByStop, wantedVars
  <2> QED BY <2>2, <2>3 DEF RoutedInv, RoutedAt, PledgeInv
<1>5. ~Stop
  BY <1>1 DEF Stop
<1>6. ~Start
  BY DEF Start, ProviderInv, RoutedInv
<1>7. ASSUME NEW e \in Experiences, NEW a \in Addresses,
             \/ Place(e, a) \/ ReportError(e, a) \/ ReleaseSlot(e, a)
             \/ \E x \in Addresses, el \in Elements :
                  ProvideSlot(e, a, x, el) \/ LateProvideSlot(e, a, x, el)
      PROVE  RoutedInv' /\ PledgeInv'
  <2>1. stops' = stops
    BY <1>7 DEF Place, ReportError, ReleaseSlot, ProvideSlot, LateProvideSlot, CallingBack, stopVars
  <2>2. RoutedInv /\ PledgeInv
    BY <2>1 DEF ProviderInv
  <2>3. ~\E x \in Addresses, el \in Elements : LateProvideSlot(e, a, x, el)
    BY DEF LateProvideSlot
  <2> QED BY <1>7, <2>2, <2>3, PlaceProviders, ReportProviders, ProvideProviders
<1> QED BY <1>2, <1>3, <1>4, <1>5, <1>6, <1>7 DEF Next, Environment

LEMMA ProvidersFromInv ==
  ASSUME TypeInv, ProviderInv, stops = 0
  PROVE  ProvidersPresent
<1> SUFFICES ASSUME \A a \in Addresses : Quiet(a), NEW x \in Addresses, slots[x].owner # None
             PROVE  \E a \in Addresses : slots[a].exp = slots[x].owner
  BY DEF ProvidersPresent
<1>1. running[x] = Idle /\ queue[x] = <<>>
  BY DEF Quiet
<1>2. OwnerToBe(running[x], slots[x]) = slots[x].owner
  BY <1>1 DEF OwnerToBe, Idle
<1>3. Owed(Backers(slots, x), queue[x], slots[x].owner, 0)
  BY <1>2 DEF ProviderInv, PledgeInv, Pledged
<1>4. ~ReleasedAfter(queue[x], slots[x].owner, 0)
  BY <1>1 DEF ReleasedAfter
<1> QED BY <1>3, <1>4 DEF Owed, Backers

\* ADR-058: clearing or replacing an experience releases the slots that it
\* provided.  Once the queues are empty every contributed slot of a manager
\* that was never stopped has its provider on show somewhere, in whatever
\* order placements, provisions, releases and failures came - for content that
\* contributes nothing itself, and islands that do not call back once they
\* are torn down.
THEOREM ProvidersArePresent ==
  ASSUME ContentContributesNothing, ~LateCallbacks
  PROVE  Spec => [](stops = 0 => ProvidersPresent)
<1>1. Init => TypeInv /\ PlacementInv /\ ProviderInv
  BY InitTyped, InitPlacement, InitProviders
<1>2. TypeInv /\ PlacementInv /\ ProviderInv /\ [Next]_vars
        => TypeInv' /\ PlacementInv' /\ ProviderInv'
  BY ContentContributesNothing, ~LateCallbacks, NextTyped, NextPlacement, NextProviders
<1>3. TypeInv /\ ProviderInv => (stops = 0 => ProvidersPresent)
  BY ProvidersFromInv
<1> QED BY <1>1, <1>2, <1>3, PTL DEF Spec

=============================================================================
