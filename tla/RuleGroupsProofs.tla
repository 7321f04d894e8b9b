--------------------------- MODULE RuleGroupsProofs ---------------------------
(***************************************************************************)
(* Proofs about the rule groups of rules/repository.py, for any number of  *)
(* workers and rules, any prices and any lease time.                       *)
(*                                                                         *)
(* OneShot is inductive as it stands.  The two action properties need what *)
(* the compare-and-set of the group row gives: an open outcome keeps the   *)
(* group latched (Latched), and whoever still owns the lease has read the  *)
(* stored marks, because every transaction that writes a mark ends the     *)
(* lease it was made under (LeaseIsCurrent).                               *)
(***************************************************************************)
EXTENDS RuleGroups, TLAPS

PCs == {"idle", "sampled", "leased", "loaded", "release", "fired"}
GroupType == [state : RuleStates, version : Nat, owner : Workers \cup {Nobody},
              expires : Nat, updated : Nat, latched : BOOLEAN, winner : Rules \cup {0}]
IsOrder(o) == o \in [status : OrderStates, qty : {o.qty}, filled : {o.filled},
                     booked : {o.booked}]
IsWorker(x) == x \in [pc : PCs, at : Nat, version : Nat, loaded : SUBSET Rules,
                      seen : [Rules -> Nat], fired : {x.fired}]

OrdersShaped == order = [r \in Rules |-> order[r]] /\ \A r \in Rules : IsOrder(order[r])
Shape ==
    /\ group \in GroupType
    /\ rule \in [Rules -> RuleStates]
    /\ mark \in [Rules -> Nat]
    /\ OrdersShaped
    /\ worker = [w \in Workers |-> worker[w]] /\ \A w \in Workers : IsWorker(worker[w])
    /\ now \in Nat

Latched == Unresolved => group.latched

(* What a worker has read or computed is not behind the stored marks. *)
UpToDate(x) ==
    /\ x.pc = "loaded" => \A r \in Rules : x.seen[r] >= mark[r]
    /\ x.pc \in {"release", "fired"} => \A r \in Rules : x.seen[r] = 0 \/ x.seen[r] >= mark[r]
LeaseHeldBy(w, x) == group.state = "active" /\ group.owner = w /\ group.version = x.version
LeaseIsCurrent == \A w \in Workers : LeaseHeldBy(w, worker[w]) => UpToDate(worker[w])

IInv == Shape /\ OneShot /\ Latched /\ LeaseIsCurrent

-----------------------------------------------------------------------------
(* The worker that does nothing. *)
LEMMA IdleShape == IsWorker(Idle) /\ Idle.pc = "idle"
  BY DEF IsWorker, Idle, PCs

(* A write of the lease columns of the group row. *)
WithLease(g, o, e, v, t) == [g EXCEPT !.owner = o, !.expires = e, !.version = v, !.updated = t]

(* It writes nothing else. *)
LEMMA WithLeaseFields ==
    ASSUME NEW g \in GroupType, NEW o \in Workers \cup {Nobody}, NEW e \in Nat,
           NEW v \in Nat, NEW t \in Nat
    PROVE  /\ WithLease(g, o, e, v, t) \in GroupType
           /\ WithLease(g, o, e, v, t).state = g.state
           /\ WithLease(g, o, e, v, t).owner = o
           /\ WithLease(g, o, e, v, t).version = v
           /\ WithLease(g, o, e, v, t).latched = g.latched
           /\ WithLease(g, o, e, v, t).winner = g.winner
  BY DEF WithLease, GroupType

(* The fields of a group whose lease has ended. *)
LEMMA UnleasedFields ==
    ASSUME RuleAssumption, NEW g \in GroupType, NEW t \in Nat
    PROVE  /\ Unleased(g, t) \in GroupType
           /\ Unleased(g, t).state = g.state
           /\ Unleased(g, t).owner = Nobody
           /\ Unleased(g, t).latched = g.latched
           /\ Unleased(g, t).winner = g.winner
<1>1. g.version + 1 \in Nat
  BY DEF GroupType
<1>2. Unleased(g, t) = WithLease(g, Nobody, 0, g.version + 1, t)
  BY DEF Unleased, WithLease
<1> QED
  BY ONLY <1>1, <1>2, WithLeaseFields, g \in GroupType, t \in Nat

(* The initial state. *)
LEMMA InitIInv ==
    ASSUME RuleAssumption, Init
    PROVE  IInv
<1>1. group \in GroupType
  BY DEF Init, GroupType, RuleStates
<1>2. \A r \in Rules : IsOrder(order[r]) /\ order[r].status = "none"
  BY DEF Init, IsOrder, NoOrder, OrderStates
<1>3. \A w \in Workers : IsWorker(worker[w]) /\ worker[w].pc = "idle"
  BY IdleShape DEF Init
<1>4. Shape
  BY <1>1, <1>2, <1>3 DEF Init, Shape, OrdersShaped, RuleStates
<1>5. OneShot
  BY <1>2 DEF Init, OneShot
<1>6. Latched /\ LeaseIsCurrent
  BY <1>2, <1>3 DEF Latched, Unresolved, LeaseIsCurrent, UpToDate
<1> QED
  BY <1>4, <1>5, <1>6 DEF IInv

(* A step that changes one worker only. *)
LEMMA WorkerOnly ==
    ASSUME IInv, NEW w \in Workers, NEW x, IsWorker(x),
           LeaseHeldBy(w, x) => UpToDate(x),
           worker' = [worker EXCEPT ![w] = x],
           UNCHANGED <<now, group, rule, mark, order>>
    PROVE  IInv'
<1>1. Shape'
  BY DEF IInv, Shape, OrdersShaped
<1>2. OneShot' /\ Latched'
  BY DEF IInv, OneShot, Latched, Unresolved
<1>3. LeaseIsCurrent'
  BY DEF IInv, Shape, OrdersShaped, LeaseIsCurrent, LeaseHeldBy, UpToDate
<1> QED
  BY <1>1, <1>2, <1>3 DEF IInv

(* The writes of what a worker is at, has loaded or fired, and has seen. *)
Loads(x, p, l, s) == [x EXCEPT !.pc = p, !.loaded = l, !.seen = s]
Sees(x, p, f, s) == [x EXCEPT !.pc = p, !.fired = f, !.seen = s]
Moves(x, p) == [x EXCEPT !.pc = p]

(* The fields a worker has after loading. *)
LEMMA LoadsFields ==
    ASSUME NEW x, IsWorker(x), NEW p \in PCs, NEW l \in SUBSET Rules,
           NEW s \in [Rules -> Nat]
    PROVE  /\ IsWorker(Loads(x, p, l, s)) /\ Loads(x, p, l, s).pc = p
           /\ Loads(x, p, l, s).seen = s /\ Loads(x, p, l, s).version = x.version
  BY DEF IsWorker, Loads

(* The fields a worker has after an evaluation. *)
LEMMA SeesFields ==
    ASSUME NEW x, IsWorker(x), NEW p \in PCs, NEW f, NEW s \in [Rules -> Nat]
    PROVE  /\ IsWorker(Sees(x, p, f, s)) /\ Sees(x, p, f, s).pc = p
           /\ Sees(x, p, f, s).seen = s /\ Sees(x, p, f, s).version = x.version
  BY DEF IsWorker, Sees

(* The fields a worker has after going on. *)
LEMMA MovesFields ==
    ASSUME NEW x, IsWorker(x), NEW p \in PCs
    PROVE  /\ IsWorker(Moves(x, p)) /\ Moves(x, p).pc = p
           /\ Moves(x, p).seen = x.seen /\ Moves(x, p).version = x.version
  BY DEF IsWorker, Moves

(* The worker stops, for whatever reason, and has written nothing. *)
LEMMA GoIdle ==
    ASSUME IInv, NEW w \in Workers, worker' = [worker EXCEPT ![w] = Idle],
           UNCHANGED <<now, group, rule, mark, order>>
    PROVE  IInv'
  BY IdleShape, WorkerOnly DEF UpToDate

(* tick *)
LEMMA StartTickStep ==
    ASSUME IInv, NEW w \in Workers, StartTick(w)
    PROVE  IInv'
<1> DEFINE x == [Idle EXCEPT !.pc = "sampled", !.at = now]
<1>1. now \in Nat
  BY DEF IInv, Shape, OrdersShaped
<1>2. IsWorker(x) /\ x.pc = "sampled"
  BY <1>1 DEF IsWorker, Idle, PCs
<1>3. worker' = [worker EXCEPT ![w] = x] /\ UNCHANGED <<now, group, rule, mark, order>>
  BY DEF StartTick
<1> HIDE DEF x
<1> QED
  BY <1>2, <1>3, WorkerOnly DEF UpToDate

(* load_rules reads the marks while the lease is held. *)
LEMMA LoadRulesStep ==
    ASSUME IInv, NEW w \in Workers, LoadRules(w)
    PROVE  IInv'
<1> DEFINE p == IF Loadable(w) = {} THEN "release" ELSE "loaded"
           s == IF Loadable(w) = {} THEN Idle.seen ELSE mark
           l == Loadable(w)
           x == Loads(worker[w], p, l, s)
<1>1. IsWorker(worker[w]) /\ mark \in [Rules -> Nat] /\ worker = [v \in Workers |-> worker[v]]
  BY DEF IInv, Shape, OrdersShaped
<1>2. p \in PCs /\ s \in [Rules -> Nat] /\ l \in SUBSET Rules
  BY <1>1 DEF PCs, Idle, Loadable
<1>3. /\ p = "loaded" => s = mark
      /\ p # "loaded" => p = "release" /\ \A r \in Rules : s[r] = 0
  BY DEF Idle
<1>4. worker' = [worker EXCEPT ![w] = x] /\ UNCHANGED <<now, group, rule, mark, order>>
  BY <1>1 DEF LoadRules, Loads
<1> HIDE DEF p, s, l
<1>5. IsWorker(x) /\ x.pc = p /\ x.seen = s
  BY ONLY <1>1, <1>2, LoadsFields
<1> HIDE DEF x
<1>6. UpToDate(x)
  BY <1>1, <1>3, <1>5 DEF UpToDate
<1> QED
  BY <1>4, <1>5, <1>6, WorkerOnly

(* The lease is to be released without marks. *)
LEMMA EvaluateNothingStep ==
    ASSUME IInv, NEW w \in Workers, EvaluateNothing(w)
    PROVE  IInv'
<1> DEFINE s == Idle.seen
           l == {}
           p == "release"
           x == Loads(worker[w], p, l, s)
<1>1. IsWorker(worker[w]) /\ worker = [v \in Workers |-> worker[v]]
  BY DEF IInv, Shape, OrdersShaped
<1>2. p \in PCs /\ s \in [Rules -> Nat] /\ l \in SUBSET Rules
  BY <1>1 DEF PCs, Idle
<1>3. p = "release" /\ \A r \in Rules : s[r] = 0
  BY DEF Idle
<1>4. worker' = [worker EXCEPT ![w] = x] /\ UNCHANGED <<now, group, rule, mark, order>>
  BY <1>1 DEF EvaluateNothing, Loads
<1> HIDE DEF p, s, l
<1>5. IsWorker(x) /\ x.pc = p /\ x.seen = s
  BY ONLY <1>1, <1>2, LoadsFields
<1> HIDE DEF x
<1>6. UpToDate(x)
  BY <1>3, <1>5 DEF UpToDate
<1> QED
  BY <1>4, <1>5, <1>6, WorkerOnly

(* An evaluation can only raise what was loaded. *)
LEMMA EvaluateStep ==
    ASSUME RuleAssumption, IInv, NEW w \in Workers, Evaluate(w)
    PROVE  IInv'
<1> DEFINE seen == worker[w].seen
<1>1. /\ IsWorker(worker[w]) /\ worker = [v \in Workers |-> worker[v]]
      /\ mark \in [Rules -> Nat] /\ worker[w].pc = "loaded"
      /\ UNCHANGED <<now, group, rule, mark, order>>
  BY DEF IInv, Shape, OrdersShaped, Evaluate
<1>2. PICK price \in Prices :
        LET firing == {r \in worker[w].loaded : Fires(r, seen[r], price)}
            first == IF firing = {} THEN 0 ELSE Min(firing)
            marks == [r \in Rules |->
                         IF r \in worker[w].loaded \cap Trailing
                                /\ (first = 0 \/ r <= first)
                         THEN MarkFrom(seen[r], price) ELSE 0]
        IN  worker' = [worker EXCEPT ![w] =
                [@ EXCEPT !.pc = IF first = 0 THEN "release" ELSE "fired",
                          !.fired = first,
                          !.seen = marks]]
  BY DEF Evaluate
<1> DEFINE firing == {r \in worker[w].loaded : Fires(r, seen[r], price)}
           first == IF firing = {} THEN 0 ELSE Min(firing)
           s == [r \in Rules |-> IF r \in worker[w].loaded \cap Trailing
                                       /\ (first = 0 \/ r <= first)
                                 THEN MarkFrom(seen[r], price) ELSE 0]
           p == IF first = 0 THEN "release" ELSE "fired"
           x == Sees(worker[w], p, first, s)
<1>3. worker' = [worker EXCEPT ![w] = x]
  BY <1>1, <1>2 DEF Sees
<1>4. seen \in [Rules -> Nat] /\ price \in Nat
  BY <1>1 DEF IsWorker, RuleAssumption
<1> HIDE DEF first
<1>5. s \in [Rules -> Nat] /\ \A r \in Rules : s[r] = 0 \/ s[r] >= seen[r]
  BY <1>4 DEF MarkFrom
<1>6. p \in PCs /\ p \in {"release", "fired"}
  BY DEF PCs
<1> HIDE DEF p, s
<1>7. IsWorker(x) /\ x.pc = p /\ x.seen = s /\ x.version = worker[w].version
  BY ONLY <1>1, <1>5, <1>6, SeesFields
<1> HIDE DEF x
<1>8. LeaseHeldBy(w, x) => \A r \in Rules : seen[r] >= mark[r]
  BY <1>1, <1>7 DEF IInv, LeaseIsCurrent, LeaseHeldBy, UpToDate
<1>9. LeaseHeldBy(w, x) => UpToDate(x)
  BY <1>1, <1>4, <1>5, <1>6, <1>7, <1>8 DEF UpToDate
<1> QED
  BY <1>1, <1>3, <1>7, <1>9, WorkerOnly

(* The lease is released with the marks of the evaluation. *)
LEMMA ProposeDeniedStep ==
    ASSUME IInv, NEW w \in Workers, ProposeDenied(w)
    PROVE  IInv'
<1> DEFINE p == "release"
           x == Moves(worker[w], p)
<1>1. IsWorker(worker[w]) /\ worker = [v \in Workers |-> worker[v]]
  BY DEF IInv, Shape, OrdersShaped
<1>2. p \in PCs /\ p = "release"
  BY DEF PCs
<1>3. /\ worker' = [worker EXCEPT ![w] = x] /\ UNCHANGED <<now, group, rule, mark, order>>
      /\ worker[w].pc = "fired"
  BY <1>1 DEF ProposeDenied, Moves
<1> HIDE DEF p
<1>4. IsWorker(x) /\ x.pc = p /\ x.seen = worker[w].seen /\ x.version = worker[w].version
  BY ONLY <1>1, <1>2, MovesFields
<1> HIDE DEF x
<1>5. LeaseHeldBy(w, x) => UpToDate(x)
  BY <1>2, <1>3, <1>4 DEF IInv, LeaseIsCurrent, LeaseHeldBy, UpToDate
<1> QED
  BY <1>3, <1>4, <1>5, WorkerOnly

-----------------------------------------------------------------------------
(* The order of one rule moves on; which outcomes are open stays the same. *)
LEMMA OrderOnly ==
    ASSUME IInv, NEW r \in Rules, NEW o, IsOrder(o), order' = [order EXCEPT ![r] = o],
           order[r].status # "none", o.status = "submitting" => order[r].status = "submitting",
           UNCHANGED <<now, group, rule, mark, worker>>
    PROVE  IInv'
<1>1. Shape'
  BY DEF IInv, Shape, OrdersShaped
<1>2. OneShot' /\ Latched'
  BY DEF IInv, Shape, OrdersShaped, OneShot, Latched, Unresolved
<1>3. LeaseIsCurrent'
  BY DEF IInv, LeaseIsCurrent, LeaseHeldBy, UpToDate
<1> QED
  BY <1>1, <1>2, <1>3 DEF IInv

(* An order with another status. *)
WithStatus(o, s) == [o EXCEPT !.status = s]

(* It is an order with that status. *)
LEMMA StatusFields ==
    ASSUME NEW o, IsOrder(o), NEW s \in OrderStates
    PROVE  IsOrder(WithStatus(o, s)) /\ WithStatus(o, s).status = s
  BY DEF IsOrder, WithStatus

(* Approval, and the end of an order that was never sent. *)
LEMMA DecideStep ==
    ASSUME IInv, NEW r \in Rules, ApproveOrder(r) \/ DropOrder(r)
    PROVE  IInv'
<1>1. PICK s \in {"approved", "rejected"} :
        /\ order' = [order EXCEPT ![r] = WithStatus(order[r], s)]
        /\ order[r].status \in {"proposed", "approved"}
        /\ UNCHANGED <<now, group, rule, mark, worker>>
  <2>1. CASE ApproveOrder(r)
    <3>1. /\ order' = [order EXCEPT ![r] = WithStatus(order[r], "approved")]
          /\ order[r].status \in {"proposed", "approved"}
          /\ UNCHANGED <<now, group, rule, mark, worker>>
      BY <2>1 DEF ApproveOrder, WithStatus
    <3> QED
      BY <3>1
  <2>2. CASE DropOrder(r)
    <3>1. /\ order' = [order EXCEPT ![r] = WithStatus(order[r], "rejected")]
          /\ order[r].status \in {"proposed", "approved"}
          /\ UNCHANGED <<now, group, rule, mark, worker>>
      BY <2>2 DEF DropOrder, WithStatus
    <3> QED
      BY <3>1
  <2> QED
    BY <2>1, <2>2
<1>2. IsOrder(order[r])
  BY DEF IInv, Shape, OrdersShaped
<1>3. IsOrder(WithStatus(order[r], s)) /\ WithStatus(order[r], s).status = s
  BY <1>2, StatusFields DEF OrderStates
<1> QED
  BY <1>1, <1>3, OrderOnly

(* The broker executes a share. *)
LEMMA ExecuteStep ==
    ASSUME IInv, NEW r \in Rules, Execute(r)
    PROVE  IInv'
<1> DEFINE o == [order[r] EXCEPT !.filled = order[r].filled + 1]
<1>1. IsOrder(order[r])
  BY DEF IInv, Shape, OrdersShaped
<1>2. IsOrder(o) /\ o.status = order[r].status
  BY <1>1 DEF IsOrder
<1>3. /\ order' = [order EXCEPT ![r] = o] /\ order[r].status \in {"submitting", "live"}
      /\ UNCHANGED <<now, group, rule, mark, worker>>
  BY <1>1 DEF Execute
<1> HIDE DEF o
<1> QED
  BY <1>2, <1>3, OrderOnly

(* A step that leaves the rules, the marks and the workers alone and       *)
(* changes nothing in the group but its latch.                             *)
LEMMA LatchOnly ==
    ASSUME IInv, group' \in GroupType, group'.state = group.state,
           group'.owner = group.owner, group'.version = group.version,
           group'.winner = group.winner, now' = now, rule' = rule, mark' = mark,
           OrdersShaped',
           \A r \in Rules : order'[r].status # "none" => order[r].status # "none",
           worker' = worker, Latched'
    PROVE  IInv'
<1>1. Shape'
  BY DEF IInv, Shape, OrdersShaped
<1>2. OneShot'
  BY DEF IInv, OneShot
<1>3. LeaseIsCurrent'
  BY DEF IInv, LeaseIsCurrent, LeaseHeldBy, UpToDate
<1> QED
  BY <1>1, <1>2, <1>3 DEF IInv

(* A group with another latch. *)
WithLatch(g, l, t) == [g EXCEPT !.latched = l, !.updated = t]

(* It differs in nothing else. *)
LEMMA WithLatchFields ==
    ASSUME NEW g \in GroupType, NEW l \in BOOLEAN, NEW t \in Nat
    PROVE  /\ WithLatch(g, l, t) \in GroupType
           /\ WithLatch(g, l, t).state = g.state
           /\ WithLatch(g, l, t).owner = g.owner
           /\ WithLatch(g, l, t).version = g.version
           /\ WithLatch(g, l, t).winner = g.winner
  BY DEF WithLatch, GroupType

(* The latch it has. *)
LEMMA WithLatchLatched ==
    ASSUME NEW g \in GroupType, NEW l, NEW t
    PROVE  WithLatch(g, l, t).latched = l
  BY Zenon DEF WithLatch, GroupType

(* claim_submission *)
LEMMA ClaimSubmissionStep ==
    ASSUME IInv, NEW r \in Rules, ClaimSubmission(r)
    PROVE  IInv'
<1> DEFINE o == WithStatus(order[r], "submitting")
           g == WithLatch(group, TRUE, now)
<1>1. IsOrder(order[r]) /\ group \in GroupType /\ now \in Nat
  BY DEF IInv, Shape, OrdersShaped
<1>2. IsOrder(o) /\ o.status = "submitting"
  BY <1>1, StatusFields DEF OrderStates
<1>3. /\ order' = [order EXCEPT ![r] = o] /\ group' = g /\ order[r].status = "approved"
      /\ UNCHANGED <<now, rule, mark, worker>>
  BY DEF ClaimSubmission, WithStatus, WithLatch
<1>4. /\ g \in GroupType /\ g.state = group.state /\ g.owner = group.owner
      /\ g.version = group.version /\ g.winner = group.winner
  BY ONLY <1>1, WithLatchFields
<1>5. g.latched = TRUE
  BY ONLY <1>1, WithLatchLatched
<1>6. Latched'
  BY <1>3, <1>5 DEF Latched
<1> HIDE DEF o, g
<1>7. OrdersShaped' /\ \A q \in Rules : order'[q].status # "none" => order[q].status # "none"
  BY <1>2, <1>3 DEF IInv, Shape, OrdersShaped
<1>8. /\ group' \in GroupType /\ group'.state = group.state /\ group'.owner = group.owner
      /\ group'.version = group.version /\ group'.winner = group.winner
      /\ now' = now /\ rule' = rule /\ mark' = mark /\ worker' = worker
  BY <1>3, <1>4
<1> QED
  BY ONLY IInv, <1>6, <1>7, <1>8, LatchOnly

(* The outcome of an order is known: the group is released with the last   *)
(* open one.                                                               *)
LEMMA ReconcileStep ==
    ASSUME IInv, NEW r \in Rules, Reconcile(r)
    PROVE  IInv'
<1>1. PICK next \in {"live", "done"} :
        order' = [order EXCEPT ![r].booked = order[r].filled, ![r].status = next]
  BY DEF Reconcile
<1> DEFINE o == [order[r] EXCEPT !.booked = order[r].filled, !.status = next]
<1>2. IsOrder(order[r]) /\ group \in GroupType /\ now \in Nat /\ OrdersShaped
  BY DEF IInv, Shape, OrdersShaped
<1>3. IsOrder(o) /\ o.status = next
  BY <1>2 DEF IsOrder, OrderStates
<1>4. order' = [order EXCEPT ![r] = o]
  BY <1>1, <1>2 DEF OrdersShaped
<1>5. /\ order[r].status \in {"submitting", "live"}
      /\ UNCHANGED <<now, rule, mark, worker>>
      /\ group' = IF group.latched /\ \A q \in Rules \ {r} : order[q].status # "submitting"
                  THEN WithLatch(group, FALSE, now) ELSE group
  BY DEF Reconcile, WithLatch
<1> HIDE DEF o
<1>6. OrdersShaped' /\ \A q \in Rules : order'[q].status # "none" => order[q].status # "none"
  BY <1>2, <1>3, <1>4, <1>5 DEF OrdersShaped
<1>7. \A q \in Rules : order'[q].status = "submitting" => q # r /\ order[q].status = "submitting"
  BY <1>2, <1>3, <1>4 DEF OrdersShaped
<1>8. /\ WithLatch(group, FALSE, now) \in GroupType
      /\ WithLatch(group, FALSE, now).state = group.state
      /\ WithLatch(group, FALSE, now).owner = group.owner
      /\ WithLatch(group, FALSE, now).version = group.version
      /\ WithLatch(group, FALSE, now).winner = group.winner
  BY ONLY <1>2, WithLatchFields
<1>9. /\ group' \in GroupType /\ group'.state = group.state /\ group'.owner = group.owner
      /\ group'.version = group.version /\ group'.winner = group.winner
      /\ now' = now /\ rule' = rule /\ mark' = mark /\ worker' = worker
  BY <1>2, <1>5, <1>8
<1>10. Latched'
  BY <1>5, <1>7 DEF IInv, Latched, Unresolved
<1> QED
  BY ONLY IInv, <1>6, <1>9, <1>10, LatchOnly

-----------------------------------------------------------------------------
(* A lease ends or changes hands: nobody else holds it then, and the one   *)
(* who has it now has read nothing yet.                                    *)
LEMMA LeaseChanges ==
    ASSUME RuleAssumption, IInv, NEW w \in Workers, NEW x, IsWorker(x),
           worker' = [worker EXCEPT ![w] = x], x.pc \in {"idle", "leased"},
           group' \in GroupType, group'.owner \in {Nobody, w},
           rule' \in [Rules -> RuleStates], mark' \in [Rules -> Nat], OrdersShaped',
           now' = now, OneShot', Latched'
    PROVE  IInv'
<1>1. Shape'
  BY DEF IInv, Shape
<1>2. LeaseIsCurrent'
  BY DEF IInv, Shape, LeaseIsCurrent, LeaseHeldBy, UpToDate, RuleAssumption
<1> QED
  BY <1>1, <1>2 DEF IInv

(* release_group *)
LEMMA ReleaseGroupStep ==
    ASSUME RuleAssumption, IInv, NEW w \in Workers, ReleaseGroup(w)
    PROVE  IInv'
<1>1. /\ worker' = [worker EXCEPT ![w] = Idle] /\ UNCHANGED <<now, rule, order>>
  BY DEF ReleaseGroup
<1>2. CASE ~Owns(w)
  BY <1>1, <1>2, GoIdle DEF ReleaseGroup
<1>3. CASE Owns(w)
  <2> DEFINE m == [r \in Rules |-> IF worker[w].seen[r] # 0 /\ rule[r] = "active"
                                   THEN worker[w].seen[r] ELSE mark[r]]
             g == Unleased(group, worker[w].at)
  <2>1. group' = g /\ mark' = m
    BY <1>3 DEF ReleaseGroup
  <2>2. /\ IsWorker(worker[w]) /\ group \in GroupType /\ mark \in [Rules -> Nat]
        /\ OrdersShaped /\ rule \in [Rules -> RuleStates]
    BY DEF IInv, Shape
  <2>3. worker[w].seen \in [Rules -> Nat] /\ worker[w].at \in Nat
    BY <2>2 DEF IsWorker
  <2>4. m \in [Rules -> Nat]
    BY <2>2, <2>3
  <2>5. /\ g \in GroupType /\ g.state = group.state /\ g.owner = Nobody
        /\ g.latched = group.latched /\ g.winner = group.winner
    BY ONLY RuleAssumption, <2>2, <2>3, UnleasedFields
  <2> HIDE DEF m, g
  <2>6. OneShot'
    BY <1>1, <2>1, <2>5 DEF IInv, OneShot
  <2>7. Latched' /\ OrdersShaped'
    BY <1>1, <2>1, <2>2, <2>5 DEF IInv, Latched, Unresolved, OrdersShaped
  <2>8. /\ group' \in GroupType /\ group'.owner \in {Nobody, w} /\ mark' \in [Rules -> Nat]
        /\ rule' \in [Rules -> RuleStates] /\ now' = now
    BY <1>1, <2>1, <2>2, <2>4, <2>5
  <2> QED
    BY <1>1, <2>6, <2>7, <2>8, IdleShape, LeaseChanges
<1> QED
  BY <1>2, <1>3

(* Nothing to exit: the lease ends. *)
LEMMA ProposeNoPositionStep ==
    ASSUME RuleAssumption, IInv, NEW w \in Workers, ProposeNoPosition(w)
    PROVE  IInv'
<1> DEFINE g == Unleased(group, worker[w].at)
<1>1. /\ worker' = [worker EXCEPT ![w] = Idle] /\ group' = g
      /\ UNCHANGED <<now, rule, mark, order>>
  BY DEF ProposeNoPosition
<1>2. /\ IsWorker(worker[w]) /\ group \in GroupType /\ mark \in [Rules -> Nat]
      /\ OrdersShaped /\ rule \in [Rules -> RuleStates]
  BY DEF IInv, Shape
<1>3. worker[w].at \in Nat
  BY <1>2 DEF IsWorker
<1>4. /\ g \in GroupType /\ g.state = group.state /\ g.owner = Nobody
      /\ g.latched = group.latched /\ g.winner = group.winner
  BY ONLY RuleAssumption, <1>2, <1>3, UnleasedFields
<1> HIDE DEF g
<1>5. OneShot'
  BY <1>1, <1>4 DEF IInv, OneShot
<1>6. Latched' /\ OrdersShaped'
  BY <1>1, <1>2, <1>4 DEF IInv, Latched, Unresolved, OrdersShaped
<1>7. /\ group' \in GroupType /\ group'.owner \in {Nobody, w} /\ mark' \in [Rules -> Nat]
      /\ rule' \in [Rules -> RuleStates] /\ now' = now
  BY <1>1, <1>2, <1>4
<1> QED
  BY <1>1, <1>5, <1>6, <1>7, IdleShape, LeaseChanges

(* lease_group: an open outcome has latched the group already. *)
LEMMA LeaseGroupStep ==
    ASSUME RuleAssumption, IInv, NEW w \in Workers, LeaseGroup(w)
    PROVE  IInv'
<1> DEFINE at == worker[w].at
           granted == group.state = "active" /\ ~group.latched /\ LeaseFree(at)
           g == WithLease(group, w, at + TTL, group.version + 1, at)
           x == [worker[w] EXCEPT !.pc = "leased", !.version = group.version + 1]
<1>1. /\ IsWorker(worker[w]) /\ group \in GroupType /\ mark \in [Rules -> Nat]
      /\ OrdersShaped /\ rule \in [Rules -> RuleStates]
      /\ worker = [v \in Workers |-> worker[v]]
  BY DEF IInv, Shape
<1>2. at \in Nat /\ group.version + 1 \in Nat /\ at + TTL \in Nat
  BY <1>1 DEF IsWorker, GroupType, RuleAssumption
<1>3. ~(Unresolved /\ ~group.latched)
  BY DEF IInv, Latched
<1>4. /\ group' = IF granted THEN g ELSE group
      /\ worker' = [worker EXCEPT ![w] = IF granted THEN x ELSE Idle]
      /\ UNCHANGED <<now, rule, mark, order>>
  BY <1>1, <1>3 DEF LeaseGroup, WithLease
<1>5. CASE ~granted
  BY <1>4, <1>5, GoIdle
<1>6. CASE granted
  <2>1. IsWorker(x) /\ x.pc = "leased"
    BY <1>1, <1>2 DEF IsWorker, PCs
  <2>2. /\ g \in GroupType /\ g.state = group.state /\ g.owner = w
        /\ g.latched = group.latched /\ g.winner = group.winner
    BY ONLY <1>1, <1>2, w \in Workers, WithLeaseFields
  <2>3. group' = g /\ worker' = [worker EXCEPT ![w] = x] /\ group.state = "active"
    BY <1>4, <1>6
  <2> HIDE DEF g, x, granted
  <2>4. OneShot'
    BY <1>4, <2>2, <2>3 DEF IInv, OneShot
  <2>5. Latched' /\ OrdersShaped'
    BY <1>1, <1>4, <2>2, <2>3 DEF IInv, Latched, Unresolved, OrdersShaped
  <2>6. /\ group' \in GroupType /\ group'.owner \in {Nobody, w} /\ mark' \in [Rules -> Nat]
        /\ rule' \in [Rules -> RuleStates] /\ now' = now
    BY <1>1, <1>4, <2>2, <2>3
  <2> QED
    BY <2>1, <2>3, <2>4, <2>5, <2>6, LeaseChanges
<1> QED
  BY <1>5, <1>6

(* A group that is closed. *)
Closed(g, s, r) == [g EXCEPT !.state = s, !.winner = r]

(* Its fields. *)
LEMMA ClosedFields ==
    ASSUME NEW g \in GroupType, NEW s \in RuleStates, NEW r \in Rules \cup {0}
    PROVE  /\ Closed(g, s, r) \in GroupType /\ Closed(g, s, r).state = s
           /\ Closed(g, s, r).owner = g.owner /\ Closed(g, s, r).latched = g.latched
           /\ Closed(g, s, r).winner = r
  BY DEF Closed, GroupType

(* The claim and the order of propose_from_lease. *)
LEMMA ProposeStep ==
    ASSUME RuleAssumption, IInv, NEW w \in Workers, Propose(w)
    PROVE  IInv'
<1> DEFINE r == worker[w].fired
           at == worker[w].at
           u == Unleased(group, at)
<1>1. /\ IsWorker(worker[w]) /\ group \in GroupType /\ mark \in [Rules -> Nat]
      /\ OrdersShaped /\ rule \in [Rules -> RuleStates]
  BY DEF IInv, Shape
<1>2. worker[w].seen \in [Rules -> Nat] /\ at \in Nat
  BY <1>1 DEF IsWorker
<1>3. r \in Rules /\ rule[r] = "active" /\ group.state = "active" /\ ~group.latched
  BY DEF Propose, Loadable, Owns
<1>4. /\ u \in GroupType /\ u.state = "active" /\ u.owner = Nobody
      /\ u.latched = group.latched /\ u.winner = group.winner
  BY ONLY RuleAssumption, <1>1, <1>2, <1>3, UnleasedFields
<1>5. PICK rejected \in BOOLEAN :
        LET outcome == IF rejected THEN "failed" ELSE "triggered"
        IN  /\ \/ TerminalGroup(r, rejected) /\ ClaimTerminal(r, outcome, at)
               \/ ~TerminalGroup(r, rejected) /\ ClaimProgress(r, outcome, at)
            /\ InsertOrder(r, rejected)
  BY DEF Propose
<1> DEFINE outcome == IF rejected THEN "failed" ELSE "triggered"
           status == IF rejected THEN "rejected" ELSE "proposed"
           o == [status |-> status, qty |-> BoundedQty(r), filled |-> 0, booked |-> 0]
<1>6. order' = [order EXCEPT ![r] = o]
  BY <1>5 DEF InsertOrder
<1>7. \/ group' = Closed(u, outcome, r)
          /\ rule' = [q \in Rules |-> IF q = r THEN outcome
                                      ELSE IF rule[q] = "active" THEN "canceled" ELSE rule[q]]
      \/ group' = u /\ rule' = [rule EXCEPT ![r] = outcome]
  BY <1>5 DEF ClaimTerminal, ClaimProgress, Closed
<1>8. outcome \in {"triggered", "failed"} /\ outcome \in RuleStates
  BY DEF RuleStates
<1>9. IsOrder(o) /\ o.status \in {"proposed", "rejected"}
  BY DEF IsOrder, OrderStates
<1>10. /\ mark' = [mark EXCEPT ![r] = IF worker[w].seen[r] # 0 THEN worker[w].seen[r] ELSE mark[r]]
       /\ worker' = [worker EXCEPT ![w] = Idle] /\ now' = now
  BY <1>1 DEF Propose
<1> HIDE DEF o, outcome, status, u, r
<1>11. mark' \in [Rules -> Nat]
  BY <1>1, <1>2, <1>10
<1>12. OrdersShaped' /\ \A q \in Rules : q # r => order'[q] = order[q]
  BY <1>1, <1>6, <1>9 DEF OrdersShaped
<1>13. order'[r].status \in {"proposed", "rejected"}
  BY <1>1, <1>3, <1>6, <1>9 DEF OrdersShaped
<1>14. /\ rule' \in [Rules -> RuleStates] /\ rule'[r] = outcome
       /\ \A q \in Rules : q # r /\ rule[q] # "active" => rule'[q] = rule[q]
  BY <1>1, <1>3, <1>7, <1>8 DEF RuleStates
<1>15. /\ Closed(u, outcome, r) \in GroupType /\ Closed(u, outcome, r).state = outcome
       /\ Closed(u, outcome, r).owner = Nobody
       /\ Closed(u, outcome, r).latched = group.latched
       /\ Closed(u, outcome, r).winner = r
  <2>1. r \in Rules \cup {0}
    BY <1>3
  <2> QED
    BY ONLY <1>4, <1>8, <2>1, ClosedFields
<1>16. group' \in GroupType /\ group'.owner \in {Nobody, w} /\ group'.owner = Nobody
  BY <1>4, <1>7, <1>15
<1>17. group'.latched = group.latched
  BY <1>4, <1>7, <1>15, Zenon
<1>18. Latched'
  <2>1. \A q \in Rules : order'[q].status = "submitting" => order[q].status = "submitting"
    BY <1>12, <1>13
  <2> QED
    BY <1>17, <2>1 DEF IInv, Latched, Unresolved
<1>19. \A q \in Rules : order'[q].status # "none" => rule'[q] \in {"triggered", "failed"}
  BY <1>3, <1>8, <1>12, <1>14 DEF IInv, OneShot
<1>20. group'.state # "active" =>
         /\ \A q \in Rules : rule'[q] # "active"
         /\ group'.owner = Nobody
         /\ group'.winner # 0 => rule'[group'.winner] = group'.state
  BY <1>3, <1>4, <1>7, <1>8, <1>14, <1>15
<1>21. OneShot'
  BY <1>19, <1>20 DEF OneShot
<1> QED
  BY <1>10, <1>11, <1>12, <1>14, <1>16, <1>18, <1>21, IdleShape, LeaseChanges

(* cancel_rule, with the last open rule and with another. *)
LEMMA CancelRuleStep ==
    ASSUME RuleAssumption, IInv, NEW r \in Rules, CancelRule(r)
    PROVE  IInv'
<1> DEFINE u == Unleased(group, now)
           g == Closed(u, "canceled", 0)
<1>1. /\ group \in GroupType /\ mark \in [Rules -> Nat] /\ now \in Nat
      /\ OrdersShaped /\ rule \in [Rules -> RuleStates]
  BY DEF IInv, Shape
<1>2. /\ rule[r] = "active" /\ group.state = "active"
      /\ rule' = [rule EXCEPT ![r] = "canceled"]
      /\ group' = IF \E q \in Rules \ {r} : rule[q] = "active" THEN group ELSE g
      /\ UNCHANGED <<now, mark, order, worker>>
  BY DEF CancelRule, Closed
<1>3. u \in GroupType /\ u.owner = Nobody /\ u.latched = group.latched
  BY ONLY RuleAssumption, <1>1, UnleasedFields
<1> HIDE DEF u
<1>4. /\ g \in GroupType /\ g.state = "canceled" /\ g.owner = Nobody
      /\ g.latched = group.latched /\ g.winner = 0
  <2>1. "canceled" \in RuleStates /\ 0 \in Rules \cup {0}
    BY DEF RuleStates
  <2> QED
    BY ONLY <1>3, <2>1, ClosedFields
<1> HIDE DEF g
<1>5. Shape'
  BY <1>1, <1>2, <1>4 DEF IInv, Shape, OrdersShaped, RuleStates
<1>6. group'.latched = group.latched
  BY <1>2, <1>4, Zenon
<1>7. Latched'
  BY <1>2, <1>6 DEF IInv, Latched, Unresolved
<1>8. \A q \in Rules : order'[q].status # "none" => rule'[q] \in {"triggered", "failed"}
  BY <1>1, <1>2 DEF IInv, OneShot
<1>9. group'.state # "active" =>
        /\ \A q \in Rules : rule'[q] # "active"
        /\ group'.owner = Nobody
        /\ group'.winner # 0 => rule'[group'.winner] = group'.state
  BY <1>1, <1>2, <1>4
<1>10. OneShot'
  BY <1>8, <1>9 DEF OneShot
<1>11. LeaseIsCurrent'
  BY <1>2, <1>4 DEF IInv, LeaseIsCurrent, LeaseHeldBy, UpToDate
<1> QED
  BY <1>5, <1>7, <1>10, <1>11 DEF IInv

(* Time goes on, or nothing happens. *)
LEMMA TickStep ==
    ASSUME IInv, Tick \/ UNCHANGED vars
    PROVE  IInv'
<1>1. UNCHANGED <<group, rule, mark, order, worker>> /\ now' \in Nat
  BY DEF Tick, vars, IInv, Shape
<1>2. Shape'
  BY <1>1 DEF IInv, Shape, OrdersShaped
<1>3. OneShot' /\ Latched' /\ LeaseIsCurrent'
  BY <1>1 DEF IInv, OneShot, Latched, Unresolved, LeaseIsCurrent, LeaseHeldBy, UpToDate
<1> QED
  BY <1>2, <1>3 DEF IInv

(* Every step keeps the invariant. *)
LEMMA NextIInv ==
    ASSUME RuleAssumption, IInv, [Next]_vars
    PROVE  IInv'
<1>1. ASSUME NEW w \in Workers, WorkerStep(w)
      PROVE  IInv'
  <2>1. CASE LeaseTooOld(w) \/ EvaluateFails(w) \/ ProposeConflict(w) \/ Crash(w)
    BY <2>1, GoIdle DEF LeaseTooOld, EvaluateFails, ProposeConflict, Crash
  <2> QED
    BY <1>1, <2>1, StartTickStep, LeaseGroupStep, LoadRulesStep, EvaluateNothingStep,
       EvaluateStep, ReleaseGroupStep, ProposeDeniedStep, ProposeNoPositionStep, ProposeStep
       DEF WorkerStep
<1>2. ASSUME NEW r \in Rules, OrderStep(r)
      PROVE  IInv'
  BY <1>2, CancelRuleStep, DecideStep, ClaimSubmissionStep, ExecuteStep, ReconcileStep
     DEF OrderStep
<1> QED
  BY <1>1, <1>2, TickStep DEF Next

(* Who writes an order first, and who writes a mark: the holder of the     *)
(* lease of a group that is not latched.                                   *)
LEMMA StepsAreSound ==
    ASSUME RuleAssumption, IInv, [Next]_vars
    PROVE  NoProposalWhileUncertainStep /\ MarkNeverFallsStep
<1>1. /\ mark \in [Rules -> Nat] /\ OrdersShaped
      /\ \A w \in Workers : IsWorker(worker[w])
  BY DEF IInv, Shape
<1>2. CASE UNCHANGED <<mark, order>>
  BY <1>1, <1>2 DEF NoProposalWhileUncertainStep, MarkNeverFallsStep
<1>3. ASSUME NEW r \in Rules, OrderStep(r)
      PROVE  NoProposalWhileUncertainStep /\ MarkNeverFallsStep
  <2>1. mark' = mark
    BY <1>3 DEF OrderStep, CancelRule, ApproveOrder, ClaimSubmission, DropOrder, Execute, Reconcile
  <2>2. \A q \in Rules : order[q].status = "none" => order'[q] = order[q]
    <3>1. CASE CancelRule(r)
      BY <3>1 DEF CancelRule
    <3>2. CASE ApproveOrder(r)
      BY <1>1, <3>2 DEF ApproveOrder, OrdersShaped
    <3>3. CASE ClaimSubmission(r)
      BY <1>1, <3>3 DEF ClaimSubmission, OrdersShaped
    <3>4. CASE DropOrder(r)
      BY <1>1, <3>4 DEF DropOrder, OrdersShaped
    <3>5. CASE Execute(r)
      BY <1>1, <3>5 DEF Execute, OrdersShaped
    <3>6. CASE Reconcile(r)
      BY <1>1, <3>6 DEF Reconcile, OrdersShaped
    <3> QED
      BY <1>3, <3>1, <3>2, <3>3, <3>4, <3>5, <3>6 DEF OrderStep
  <2> QED
    BY <1>1, <2>1, <2>2 DEF NoProposalWhileUncertainStep, MarkNeverFallsStep
<1>4. ASSUME NEW w \in Workers, ReleaseGroup(w)
      PROVE  NoProposalWhileUncertainStep /\ MarkNeverFallsStep
  <2>1. order' = order
    BY <1>4 DEF ReleaseGroup
  <2>2. CASE ~Owns(w)
    BY <1>1, <1>4, <2>1, <2>2
       DEF ReleaseGroup, NoProposalWhileUncertainStep, MarkNeverFallsStep
  <2>3. CASE Owns(w)
    <3>1. \A r \in Rules : worker[w].seen[r] = 0 \/ worker[w].seen[r] >= mark[r]
      BY <1>4, <2>3 DEF IInv, LeaseIsCurrent, LeaseHeldBy, UpToDate, Owns, ReleaseGroup
    <3>2. mark' = [r \in Rules |-> IF worker[w].seen[r] # 0 /\ rule[r] = "active"
                                   THEN worker[w].seen[r] ELSE mark[r]]
      BY <1>4, <2>3 DEF ReleaseGroup
    <3>3. MarkNeverFallsStep
      BY <1>1, <3>1, <3>2 DEF MarkNeverFallsStep
    <3> QED
      BY <2>1, <3>3 DEF NoProposalWhileUncertainStep
  <2> QED
    BY <2>2, <2>3
<1>5. ASSUME NEW w \in Workers, Propose(w)
      PROVE  NoProposalWhileUncertainStep /\ MarkNeverFallsStep
  <2>1. ~group.latched /\ Owns(w) /\ worker[w].fired \in Rules /\ worker[w].pc = "fired"
    BY <1>5 DEF Propose, Loadable
  <2>2. NoProposalWhileUncertainStep
    BY <2>1 DEF IInv, Latched, NoProposalWhileUncertainStep
  <2>3. \A r \in Rules : worker[w].seen[r] = 0 \/ worker[w].seen[r] >= mark[r]
    BY <2>1 DEF IInv, LeaseIsCurrent, LeaseHeldBy, UpToDate, Owns
  <2>4. mark' = [mark EXCEPT ![worker[w].fired] =
                   IF worker[w].seen[worker[w].fired] # 0
                   THEN worker[w].seen[worker[w].fired] ELSE mark[worker[w].fired]]
    BY <1>1, <1>5 DEF Propose
  <2>5. MarkNeverFallsStep
    BY <1>1, <2>1, <2>3, <2>4 DEF MarkNeverFallsStep
  <2> QED
    BY <2>2, <2>5
<1>6. ASSUME NEW w \in Workers, WorkerStep(w), ~ReleaseGroup(w), ~Propose(w)
      PROVE  UNCHANGED <<mark, order>>
  BY <1>6 DEF WorkerStep, StartTick, LeaseTooOld, LeaseGroup, LoadRules, EvaluateNothing,
              EvaluateFails, Evaluate, ProposeConflict, ProposeDenied, ProposeNoPosition, Crash
<1> QED
  BY <1>2, <1>3, <1>4, <1>5, <1>6 DEF Next, Tick, vars

-----------------------------------------------------------------------------
(* The invariant. *)
LEMMA Inductive ==
    ASSUME RuleAssumption
    PROVE  Spec => []IInv
  BY InitIInv, NextIInv, PTL DEF Spec

(* Whatever any number of workers and the operator do to a group, a rule   *)
(* becomes an order once at most, and a closed group has no rule left to   *)
(* fire (claim_terminal, claim_progress, cancel_rule).                     *)
THEOREM RuleFiresOnce ==
    ASSUME RuleAssumption
    PROVE  Spec => []OneShot
<1>1. IInv => OneShot
  BY DEF IInv
<1> QED
  BY <1>1, Inductive, PTL

(* No rule becomes an order while the outcome of another order of the      *)
(* group is open, even under a lease that is older than that order.        *)
THEOREM LatchHoldsProposals ==
    ASSUME RuleAssumption
    PROVE  Spec => NoProposalWhileUncertain
  BY Inductive, StepsAreSound, PTL DEF Spec, NoProposalWhileUncertain

(* A high-water mark never falls: a worker that lost its lease cannot      *)
(* store the mark it computed from an older one.                           *)
THEOREM MarksOnlyRise ==
    ASSUME RuleAssumption
    PROVE  Spec => MarkNeverFalls
  BY Inductive, StepsAreSound, PTL DEF Spec, MarkNeverFalls
=============================================================================
