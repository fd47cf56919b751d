-------------------------- MODULE EnergyRolesProofs --------------------------
(***************************************************************************)
(* For any number of sensors, roles, changes, service calls and failures:  *)
(* what the graph says of the energy role of an entity is what the user,   *)
(* or else its metadata, says of it, as soon as no work for it is left.    *)
(*                                                                         *)
(* The invariant keeps track of the debts: while an entity is not as it    *)
(* should be, some operation, queue or failure still has it on its list.   *)
(*                                                                         *)
(* And for any number of sensors and reports, of questions about batteries *)
(* and consumers: the invariant is that a node is, all of it, as the last  *)
(* report wrote it, and that what a question has found so far is right     *)
(* unless the graph has changed since.                                     *)
(***************************************************************************)
EXTENDS EnergyRoles, Measurements, FiniteSetTheorems, TLAPS

\* What a binding of the user's role is owed.
InOrder(e) == <<"inferred", e>> \in bound /\ role["user"][e] # None => <<"user", e>> \in bound

\* The operation at hand ends with a repair of the bindings of e, or hands e on.
RepairAhead(e) ==
    /\ op # Idle
    /\ \/ op.kind = "full"
       \/ op.kind = "entity" /\ e \in op.todo
       \/ e \in op.done /\ (op.any \/ op.kind = "entity" \/ op.stage = "repair")

\* What the inferred role of an entity is owed.
Current(e) == e \in live \intersect node => role["inferred"][e] = hint[e]

ReconcileAhead(e) == op # Idle /\ e \in op.todo

\* Which stages the kinds of operations have, and what is left to do in them.
OpFits ==
    op # Idle =>
        /\ op.stage \in {"check", "repair"} => op.todo = {}
        /\ op.stage = "check" => op.kind = "batch"
        /\ op.stage = "build" => op.kind = "full"
        /\ op.kind = "entity" => /\ \A x, y \in op.todo : x = y
                                 /\ op.todo = {} \/ op.done = {}

BindingsArePaid ==
    \A e \in Entities : InOrder(e) \/ unrepaired \/ e \in touched \/ RepairAhead(e)

RolesArePaid ==
    \A e \in Entities : Current(e) \/ e \in changed \union touched \union missed \/ ReconcileAhead(e)

IInv == TypeOK /\ OpFits /\ BindingsArePaid /\ RolesArePaid

-----------------------------------------------------------------------------
\* An operation that is under way is a record with its fields.
LEMMA OpIsTyped ==
    ASSUME TypeOK, op # Idle
    PROVE  op \in Op
  BY DEF TypeOK

LEMMA BegunIsOp ==
    ASSUME NEW kind \in {"full", "entity", "batch"},
           NEW place \in {"build", "sync", "check", "repair"}, NEW todo \in SUBSET Entities
    PROVE  Begun(kind, place, todo) \in Op /\ Begun(kind, place, todo) # Idle
<1>1. Begun(kind, place, todo) \in Op
  BY DEF Begun, Op
<1>2. Begun(kind, place, todo).kind # "idle"
  BY DEF Begun
<1> QED
  BY <1>1, <1>2 DEF Idle

LEMMA OpIsNotIdle ==
    ASSUME NEW o \in Op
    PROVE  o # Idle
  BY DEF Op, Idle

\* What is inferred is a role or none.
LEMMA HintIsRole ==
    ASSUME TypeOK, NEW e \in Entities
    PROVE  Hint(e) \in Roles \union {None} /\ (e \in live => Hint(e) = hint[e])
  BY DEF TypeOK, Hint

-----------------------------------------------------------------------------
LEMMA InitInv == Init => IInv
<1> SUFFICES ASSUME Init PROVE IInv
  OBVIOUS
<1>1. op \in Op /\ op # Idle /\ op = Begun("full", "build", {})
  BY BegunIsOp DEF Init
<1>2. TypeOK
  <2>1. role \in [Sources -> [Entities -> Roles \union {None}]]
    BY DEF Init
  <2>2. changes \in 0..MaxChanges /\ commands \in 0..MaxCommands /\ failures \in 0..MaxFailures
    BY BoundsAssumption DEF Init
  <2>3. live \subseteq Entities /\ hint \in [Entities -> Roles \union {None}]
    BY DEF Init
  <2> QED
    BY <1>1, <2>1, <2>2, <2>3 DEF Init, TypeOK
<1>3. OpFits
  BY <1>1 DEF OpFits, Begun
<1>4. BindingsArePaid /\ RolesArePaid
  BY DEF Init, BindingsArePaid, InOrder, RolesArePaid, Current
<1> QED
  BY <1>2, <1>3, <1>4 DEF IInv

-----------------------------------------------------------------------------
(* Home Assistant *)

LEMMA AppearInv == ASSUME IInv, NEW e \in Entities, Appear(e) PROVE IInv'
<1> USE DEF IInv
<1>1. TypeOK'
  BY BoundsAssumption DEF Appear, TypeOK, roles, broken
<1>2. OpFits'
  BY DEF Appear, OpFits
<1>3. BindingsArePaid'
  BY DEF Appear, BindingsArePaid, InOrder, RepairAhead, roles, broken
<1>4. ASSUME NEW x \in Entities
      PROVE  (Current(x) \/ x \in changed \union touched \union missed \/ ReconcileAhead(x))'
  <2>1. CASE x = e
    BY <2>1 DEF Appear
  <2>2. CASE x # e
    <3>1. hint'[x] = hint[x] /\ (x \in live' => x \in live)
      BY <2>2 DEF Appear, TypeOK
    <3> QED
      BY <3>1 DEF Appear, RolesArePaid, Current, ReconcileAhead, roles, broken
  <2> QED
    BY <2>1, <2>2
<1> QED
  BY <1>1, <1>2, <1>3, <1>4 DEF RolesArePaid

LEMMA VanishInv == ASSUME IInv, NEW e \in Entities, Vanish(e) PROVE IInv'
<1> USE DEF IInv
<1>1. TypeOK'
  BY BoundsAssumption DEF Vanish, TypeOK, roles, broken
<1>2. OpFits'
  BY DEF Vanish, OpFits
<1>3. BindingsArePaid'
  BY DEF Vanish, BindingsArePaid, InOrder, RepairAhead, roles, broken
<1>4. RolesArePaid'
  BY DEF Vanish, RolesArePaid, Current, ReconcileAhead, roles, broken
<1> QED
  BY <1>1, <1>2, <1>3, <1>4

-----------------------------------------------------------------------------
(* Operations begin *)

LEMMA BatchBeginInv == ASSUME IInv, BatchBegin PROVE IInv'
<1> USE DEF IInv
<1>1. PICK fast \in SUBSET Entities : op' = [Begun("batch", "sync", changed) EXCEPT !.fast = fast]
  BY DEF BatchBegin, TypeOK
<1>2. /\ op' \in Op
      /\ op'.kind = "batch" /\ op'.stage = "sync" /\ op'.todo = changed
  BY <1>1 DEF Begun, Op, TypeOK
<1>3. op' # Idle
  BY <1>2, OpIsNotIdle
<1>4. TypeOK'
  BY <1>2 DEF BatchBegin, TypeOK, home, roles, broken, counters
<1>5. OpFits'
  BY <1>2, <1>3 DEF OpFits
<1>6. BindingsArePaid'
  BY DEF BatchBegin, BindingsArePaid, InOrder, RepairAhead, home, roles, broken
<1>7. RolesArePaid'
  BY <1>2, <1>3 DEF BatchBegin, RolesArePaid, Current, ReconcileAhead, home, roles, broken
<1> QED
  BY <1>4, <1>5, <1>6, <1>7

LEMMA EntityBeginInv == ASSUME IInv, EntityBegin PROVE IInv'
<1> USE DEF IInv
<1>1. PICK e \in touched : op' = Begun("entity", "sync", {e}) /\ touched' = touched \ {e}
  BY DEF EntityBegin
<1>2. /\ op' \in Op /\ op' # Idle
      /\ op'.kind = "entity" /\ op'.stage = "sync" /\ op'.todo = {e} /\ op'.done = {}
  <2>1. {e} \in SUBSET Entities
    BY <1>1 DEF TypeOK
  <2> QED
    BY <1>1, <2>1, BegunIsOp DEF Begun
<1>3. TypeOK'
  BY <1>1, <1>2 DEF EntityBegin, TypeOK, home, roles, broken, counters
<1>4. OpFits'
  BY <1>2 DEF OpFits
<1>5. BindingsArePaid'
  BY <1>1, <1>2
  DEF EntityBegin, BindingsArePaid, InOrder, RepairAhead, home, roles, broken
<1>6. RolesArePaid'
  BY <1>1, <1>2
  DEF EntityBegin, RolesArePaid, Current, ReconcileAhead, home, roles, broken
<1> QED
  BY <1>3, <1>4, <1>5, <1>6

LEMMA FullBeginInv == ASSUME IInv, FullBegin PROVE IInv'
<1> USE DEF IInv
<1>1. op' = Begun("full", "build", {}) /\ op' \in Op /\ op' # Idle
  BY BegunIsOp DEF FullBegin
<1>2. op'.kind = "full" /\ op'.stage = "build"
  BY <1>1 DEF Begun
<1>3. TypeOK'
  BY <1>1, BoundsAssumption DEF FullBegin, TypeOK, home, due, broken
<1>4. OpFits'
  BY <1>2 DEF OpFits
<1>5. BindingsArePaid'
  BY <1>1, <1>2 DEF BindingsArePaid, RepairAhead
<1>6. RolesArePaid'
  BY DEF FullBegin, RolesArePaid, Current, ReconcileAhead, home, due, broken
<1> QED
  BY <1>3, <1>4, <1>5, <1>6

-----------------------------------------------------------------------------
(* One entity after the other *)

LEMMA WriteInv == ASSUME IInv, NEW e \in Entities, Write(e) PROVE IInv'
<1> USE DEF IInv
<1>1. op \in Op /\ op # Idle /\ e \in op.todo /\ op.kind # "full" /\ op.stage = "sync"
  BY OpIsTyped DEF Write, Busy
<1>2. /\ op' = [op EXCEPT !.at = {e}]
      /\ op' \in Op
      /\ op'.kind = op.kind /\ op'.stage = op.stage /\ op'.todo = op.todo
      /\ op'.done = op.done /\ op'.any = op.any
  BY <1>1 DEF Write, Op
<1>3. op' # Idle
  BY <1>2, OpIsNotIdle
<1>4. /\ bound' = bound \/ bound' = Unbound({e})
      /\ node' \subseteq node \union {e}
      /\ UNCHANGED <<live, hint, role, changed, touched, unrepaired, missed,
                     changes, commands, failures>>
  BY DEF Write, home, due, broken, counters
<1>5. TypeOK'
  BY <1>2, <1>4 DEF TypeOK, Unbound
<1>6. OpFits'
  BY <1>1, <1>2, <1>3 DEF OpFits
<1>7. BindingsArePaid'
  <2>1. \A x \in Entities : InOrder(x) => InOrder(x)'
    BY <1>4 DEF InOrder, Unbound
  <2>2. \A x \in Entities : RepairAhead(x) => RepairAhead(x)'
    BY <1>2, <1>3 DEF RepairAhead
  <2> QED
    BY <1>4, <2>1, <2>2 DEF BindingsArePaid
<1>8. RolesArePaid'
  BY <1>1, <1>2, <1>3, <1>4 DEF RolesArePaid, Current, ReconcileAhead
<1> QED
  BY <1>5, <1>6, <1>7, <1>8

\* What the reconciliation of one entity leaves of its inferred role, and of
\* everything else.
LEMMA ReconciledRoles ==
    ASSUME TypeOK, NEW e \in Entities, Reconciled(e), UNCHANGED <<home, node>>
    PROVE  /\ role' \in [Sources -> [Entities -> Roles \union {None}]]
           /\ bound' \subseteq Sources \X Entities
           /\ Current(e)'
           /\ \A x \in Entities : role'["user"][x] = role["user"][x]
           /\ \A x \in Entities \ {e} : role'["inferred"][x] = role["inferred"][x]
           /\ \A x \in Entities \ {e} : \A s \in Sources :
                  <<s, x>> \in bound' <=> <<s, x>> \in bound
           /\ <<"user", e>> \in bound' <=> <<"user", e>> \in bound
           /\ Hint(e) = None => InOrder(e)'
<1> USE DEF Sources
<1>1. Hint(e) \in Roles \union {None} /\ (e \in live => Hint(e) = hint[e])
  BY HintIsRole
<1>2. CASE Hint(e) = None
  <2>1. /\ role' = [role EXCEPT !["inferred"][e] = None]
        /\ bound' = bound \ {<<"inferred", e>>}
    BY <1>2 DEF Reconciled
  <2>2. InOrder(e)'
    BY <2>1 DEF InOrder
  <2>3. Current(e)'
    BY <1>1, <1>2, <2>1 DEF Current, TypeOK, home
  <2> QED
    BY <1>2, <2>1, <2>2, <2>3 DEF TypeOK
<1>3. CASE Hint(e) # None /\ e \in node
  <2>1. /\ role' = [role EXCEPT !["inferred"][e] = Hint(e)]
        /\ bound' = bound \union {<<"inferred", e>>}
    BY <1>3 DEF Reconciled
  <2>2. Current(e)'
    BY <1>1, <2>1 DEF Current, TypeOK, home
  <2> QED
    BY <1>1, <1>3, <2>1, <2>2 DEF TypeOK
<1>4. CASE Hint(e) # None /\ e \notin node
  <2>1. role' = role /\ bound' = bound
    BY <1>4 DEF Reconciled, roles
  <2>2. Current(e)'
    BY <1>4 DEF Current, home
  <2> QED
    BY <1>4, <2>1, <2>2 DEF TypeOK
<1> QED
  BY <1>2, <1>3, <1>4

LEMMA ReconcileInv == ASSUME IInv, NEW e \in Entities, Reconcile(e) PROVE IInv'
<1> USE DEF IInv
<1>1. op \in Op /\ op # Idle /\ e \in op.todo /\ op.stage = "sync"
  BY OpIsTyped DEF Reconcile, Busy
<1>2. /\ op' \in Op
      /\ op'.kind = op.kind /\ op'.stage = op.stage /\ op'.todo = op.todo \ {e}
      /\ op'.done = op.done \union {e} /\ (op'.any <=> op.any \/ Hint(e) # None)
  BY <1>1 DEF Reconcile, Op
<1>3. op' # Idle
  BY <1>2, OpIsNotIdle
<1>4. /\ UNCHANGED <<live, hint, node, changed, touched, unrepaired, changes, commands, failures>>
      /\ missed' = missed \ {e}
      /\ Reconciled(e)
  BY DEF Reconcile, home, due, counters
<1>5. /\ role' \in [Sources -> [Entities -> Roles \union {None}]]
      /\ bound' \subseteq Sources \X Entities
      /\ Current(e)'
      /\ \A x \in Entities : role'["user"][x] = role["user"][x]
      /\ \A x \in Entities \ {e} : role'["inferred"][x] = role["inferred"][x]
      /\ \A x \in Entities \ {e} : \A s \in Sources :
             <<s, x>> \in bound' <=> <<s, x>> \in bound
      /\ Hint(e) = None => InOrder(e)'
  BY <1>4, ReconciledRoles DEF home
<1>6. TypeOK'
  BY <1>2, <1>4, <1>5 DEF TypeOK
<1>7. OpFits'
  BY <1>1, <1>2, <1>3 DEF OpFits
<1>8. ASSUME NEW x \in Entities
      PROVE  (InOrder(x) \/ unrepaired \/ x \in touched \/ RepairAhead(x))'
  <2>1. CASE x = e
    <3>1. CASE Hint(e) = None
      BY <1>5, <2>1, <3>1
    <3>2. CASE Hint(e) # None
      BY <1>2, <1>3, <2>1, <3>2 DEF RepairAhead
    <3> QED
      BY <3>1, <3>2
  <2>2. CASE x # e
    <3>1. InOrder(x) => InOrder(x)'
      BY <1>5, <2>2 DEF InOrder, Sources
    <3>2. RepairAhead(x) => RepairAhead(x)'
      BY <1>2, <1>3, <2>2 DEF RepairAhead
    <3> QED
      BY <1>4, <3>1, <3>2 DEF BindingsArePaid
  <2> QED
    BY <2>1, <2>2
<1>9. RolesArePaid'
  BY <1>2, <1>3, <1>4, <1>5 DEF RolesArePaid, Current, ReconcileAhead
<1> QED
  BY <1>6, <1>7, <1>8, <1>9 DEF BindingsArePaid

LEMMA SyncDoneInv == ASSUME IInv, SyncDone PROVE IInv'
<1> USE DEF IInv
<1>1. op \in Op /\ op # Idle /\ op.todo = {} /\ op.stage = "sync"
  BY OpIsTyped DEF SyncDone, Busy
<1>2. /\ op' \in Op
      /\ op'.kind = op.kind /\ op'.todo = {} /\ op'.done = op.done /\ op'.any = op.any
      /\ op'.stage = IF op.kind = "batch" THEN "check" ELSE "repair"
  BY <1>1 DEF SyncDone, AfterSync, Op
<1>3. op' # Idle
  BY <1>2, OpIsNotIdle
<1>4. TypeOK'
  BY <1>2 DEF SyncDone, TypeOK, home, roles, due, broken, counters
<1>5. OpFits'
  BY <1>2 DEF OpFits
<1>6. BindingsArePaid'
  BY <1>1, <1>2, <1>3
  DEF SyncDone, BindingsArePaid, InOrder, RepairAhead, home, roles, due, broken, counters
<1>7. RolesArePaid'
  BY <1>1, <1>2
  DEF SyncDone, RolesArePaid, Current, ReconcileAhead, home, roles, due, broken, counters
<1> QED
  BY <1>4, <1>5, <1>6, <1>7

LEMMA BuildInv == ASSUME IInv, Build PROVE IInv'
<1> USE DEF IInv
<1>1. op \in Op /\ op # Idle /\ op.stage = "build" /\ op.kind = "full"
  BY OpIsTyped DEF Build, Busy, OpFits
<1>2. /\ op' \in Op
      /\ op'.kind = "full" /\ op'.stage = "sync" /\ op'.todo = live
  BY <1>1 DEF Build, Op, TypeOK
<1>3. op' # Idle
  BY <1>2, OpIsNotIdle
<1>4. TypeOK'
  BY <1>2 DEF Build, TypeOK, home, roles, due, broken, counters
<1>5. OpFits'
  BY <1>2 DEF OpFits
<1>6. BindingsArePaid'
  BY <1>2, <1>3 DEF BindingsArePaid, RepairAhead
<1>7. RolesArePaid'
  BY <1>2, <1>3 DEF Build, RolesArePaid, Current, ReconcileAhead, home
<1> QED
  BY <1>4, <1>5, <1>6, <1>7

-----------------------------------------------------------------------------
(* The end of an operation *)

\* A batch that ends without a repair has bound no inferred role.
LEMMA CheckInv == ASSUME IInv, Check PROVE IInv'
<1> USE DEF IInv
<1>1. op \in Op /\ op # Idle /\ op.stage = "check" /\ op.todo = {} /\ op.kind = "batch"
  BY OpIsTyped DEF Check, Busy, OpFits
<1>2. /\ UNCHANGED <<live, hint, node, role, bound, changed, touched, unrepaired, missed,
                     changes, commands, failures>>
  BY DEF Check, home, roles, due, broken, counters
<1>3. CASE NeedsRepair
  <2>1. /\ op' \in Op
        /\ op'.kind = "batch" /\ op'.todo = {} /\ op'.done = op.done /\ op'.any = op.any
        /\ op'.stage = "repair"
    BY <1>1, <1>3 DEF Check, Op
  <2>2. op' # Idle
    BY <2>1, OpIsNotIdle
  <2>3. TypeOK' /\ OpFits'
    BY <1>2, <2>1 DEF TypeOK, OpFits
  <2>4. BindingsArePaid' /\ RolesArePaid'
    BY <1>1, <1>2, <2>1, <2>2
    DEF BindingsArePaid, InOrder, RepairAhead, RolesArePaid, Current, ReconcileAhead
  <2> QED
    BY <2>3, <2>4
<1>4. CASE ~ NeedsRepair
  <2>1. op' = Idle /\ ~ op.any
    BY <1>4 DEF Check, NeedsRepair
  <2>2. TypeOK' /\ OpFits'
    BY <1>2, <2>1 DEF TypeOK, OpFits
  <2>3. BindingsArePaid' /\ RolesArePaid'
    BY <1>1, <1>2, <2>1
    DEF BindingsArePaid, InOrder, RepairAhead, RolesArePaid, Current, ReconcileAhead
  <2> QED
    BY <2>2, <2>3
<1> QED
  BY <1>3, <1>4

\* A binding has a node, and a node with a user's role gets its binding.
LEMMA RepairInv == ASSUME IInv, Repair PROVE IInv'
<1> USE DEF IInv
<1>1. op \in Op /\ op # Idle /\ op.todo = {} /\ op' = Idle /\ bound' = AllBindings
  BY OpIsTyped DEF Repair, Busy, OpFits
<1>2. TypeOK' /\ OpFits'
  BY <1>1 DEF Repair, TypeOK, OpFits, AllBindings, home, due, counters
<1>3. \A x \in Entities : InOrder(x)'
  BY <1>1 DEF Repair, InOrder, AllBindings, Sources
<1>4. RolesArePaid'
  BY <1>1 DEF Repair, RolesArePaid, Current, ReconcileAhead, home, due
<1> QED
  BY <1>2, <1>3, <1>4 DEF BindingsArePaid

-----------------------------------------------------------------------------
(* Failures *)

LEMMA EntityFailsInv == ASSUME IInv, EntityFails PROVE IInv'
<1> USE DEF IInv
<1>1. op \in Op /\ op # Idle /\ op.stage = "sync" /\ op.kind # "full"
  BY OpIsTyped DEF EntityFails, Busy
<1>2. PICK e \in op.todo :
          /\ touched' = touched \union {e}
          /\ op' = IF op.kind = "batch" THEN [op EXCEPT !.todo = @ \ {e}, !.at = {}] ELSE Idle
  BY DEF EntityFails
<1>3. /\ UNCHANGED <<live, hint, node, role, bound, changed, unrepaired, missed, changes, commands>>
      /\ failures' \in 0..MaxFailures
      /\ e \in Entities
  BY <1>1, BoundsAssumption DEF EntityFails, home, roles, broken, TypeOK, Op
<1>4. CASE op.kind = "batch"
  <2>1. /\ op' \in Op
        /\ op'.kind = "batch" /\ op'.stage = "sync" /\ op'.todo = op.todo \ {e}
        /\ op'.done = op.done /\ op'.any = op.any
    BY <1>1, <1>2, <1>4 DEF Op
  <2>2. op' # Idle
    BY <2>1, OpIsNotIdle
  <2>3. TypeOK' /\ OpFits'
    BY <1>2, <1>3, <2>1 DEF TypeOK, OpFits
  <2>4. BindingsArePaid' /\ RolesArePaid'
    BY <1>1, <1>2, <1>3, <1>4, <2>1, <2>2
    DEF BindingsArePaid, InOrder, RepairAhead, RolesArePaid, Current, ReconcileAhead
  <2> QED
    BY <2>3, <2>4
<1>5. CASE op.kind = "entity"
  <2>1. op' = Idle
    BY <1>2, <1>5
  <2>2. TypeOK' /\ OpFits'
    BY <1>2, <1>3, <2>1 DEF TypeOK, OpFits
  <2>3. \A x \in op.todo : x = e
    BY <1>1, <1>2, <1>5 DEF OpFits
  <2>4. op.done = {}
    BY <1>1, <1>2, <1>5 DEF OpFits
  <2>5. BindingsArePaid' /\ RolesArePaid'
    BY <1>1, <1>2, <1>3, <1>5, <2>1, <2>3, <2>4
    DEF BindingsArePaid, InOrder, RepairAhead, RolesArePaid, Current, ReconcileAhead
  <2> QED
    BY <2>2, <2>5
<1> QED
  BY <1>1, <1>4, <1>5 DEF Op

LEMMA RepairFailsInv == ASSUME IInv, RepairFails PROVE IInv'
<1> USE DEF IInv
<1>1. op \in Op /\ op # Idle /\ op.stage = "repair" /\ op.todo = {} /\ op.kind # "full"
  BY OpIsTyped DEF RepairFails, Busy, OpFits
<1>2. op' = Idle /\ touched' = touched \union op.done
  BY DEF RepairFails
<1>3. TypeOK' /\ OpFits'
  BY <1>1, <1>2, BoundsAssumption
  DEF RepairFails, TypeOK, Op, OpFits, home, roles, broken
<1>4. BindingsArePaid' /\ RolesArePaid'
  BY <1>1, <1>2
  DEF RepairFails, BindingsArePaid, InOrder, RepairAhead, RolesArePaid, Current, ReconcileAhead,
      home, roles, broken
<1> QED
  BY <1>3, <1>4

LEMMA FullFailsInv == ASSUME IInv, FullFails PROVE IInv'
<1> USE DEF IInv
<1>1. op \in Op /\ op # Idle /\ op.kind = "full" /\ op' = Idle /\ unrepaired' = TRUE
  BY OpIsTyped DEF FullFails
<1>2. /\ UNCHANGED <<live, hint, role, bound, changed, touched, changes, commands>>
      /\ failures' \in 0..MaxFailures
  BY BoundsAssumption DEF FullFails, home, roles, due, TypeOK
<1>3. \/ node' \subseteq node \union live /\ missed' = missed \union live
      \/ op.stage # "build" /\ node' = node /\ missed' = missed \union op.todo
  BY DEF FullFails
<1>4. TypeOK' /\ OpFits'
  BY <1>1, <1>2, <1>3 DEF TypeOK, OpFits, Op
<1>5. BindingsArePaid'
  BY <1>1 DEF BindingsArePaid
<1>6. RolesArePaid'
  BY <1>1, <1>2, <1>3 DEF RolesArePaid, Current, ReconcileAhead
<1> QED
  BY <1>4, <1>5, <1>6

-----------------------------------------------------------------------------
(* The services *)

LEMMA SetRoleInv ==
    ASSUME IInv, NEW e \in Entities, NEW r \in Roles, SetRole(e, r)
    PROVE  IInv'
<1> USE DEF IInv, Sources
<1>1. /\ role' = [role EXCEPT !["user"][e] = r] /\ bound' = bound \union {<<"user", e>>}
      /\ UNCHANGED <<live, hint, node, changed, touched, op, unrepaired, missed, changes, failures>>
      /\ commands' \in 0..MaxCommands
  BY BoundsAssumption DEF SetRole, TypeOK, home, due, broken
<1>2. role' \in [Sources -> [Entities -> Roles \union {None}]]
  BY <1>1 DEF TypeOK
<1>3. /\ \A x \in Entities \ {e} : role'["user"][x] = role["user"][x]
      /\ \A x \in Entities : role'["inferred"][x] = role["inferred"][x]
  BY <1>1 DEF TypeOK
<1>4. TypeOK' /\ OpFits'
  BY <1>1, <1>2 DEF TypeOK, OpFits
<1>5. \A x \in Entities : InOrder(x) => InOrder(x)'
  BY <1>1, <1>3 DEF InOrder
<1>6. BindingsArePaid'
  BY <1>1, <1>5 DEF BindingsArePaid, RepairAhead
<1>7. RolesArePaid'
  BY <1>1, <1>3 DEF RolesArePaid, Current, ReconcileAhead, TypeOK
<1> QED
  BY <1>4, <1>6, <1>7

LEMMA DeleteRoleInv == ASSUME IInv, NEW e \in Entities, DeleteRole(e) PROVE IInv'
<1> USE DEF IInv, Sources
<1>1. /\ role' = [role EXCEPT !["user"][e] = None] /\ bound' = bound \ {<<"user", e>>}
      /\ UNCHANGED <<live, hint, node, changed, touched, op, unrepaired, missed, changes, failures>>
      /\ commands' \in 0..MaxCommands
  BY BoundsAssumption DEF DeleteRole, TypeOK, home, due, broken
<1>2. role' \in [Sources -> [Entities -> Roles \union {None}]]
  BY <1>1 DEF TypeOK
<1>3. /\ \A x \in Entities \ {e} : role'["user"][x] = role["user"][x]
      /\ role'["user"][e] = None
      /\ \A x \in Entities : role'["inferred"][x] = role["inferred"][x]
  BY <1>1 DEF TypeOK
<1>4. TypeOK' /\ OpFits'
  BY <1>1, <1>2 DEF TypeOK, OpFits
<1>5. \A x \in Entities : InOrder(x) => InOrder(x)'
  BY <1>1, <1>3 DEF InOrder
<1>6. BindingsArePaid'
  BY <1>1, <1>5 DEF BindingsArePaid, RepairAhead
<1>7. RolesArePaid'
  BY <1>1, <1>3 DEF RolesArePaid, Current, ReconcileAhead, TypeOK
<1> QED
  BY <1>4, <1>6, <1>7

-----------------------------------------------------------------------------
LEMMA NextInv == IInv /\ [Next]_vars => IInv'
<1> SUFFICES ASSUME IInv, [Next]_vars PROVE IInv'
  OBVIOUS
<1>1. CASE SyncStep
  BY <1>1, BatchBeginInv, EntityBeginInv, BuildInv, SyncDoneInv, CheckInv, RepairInv, WriteInv,
     ReconcileInv DEF SyncStep
<1>2. CASE Failure
  BY <1>2, EntityFailsInv, RepairFailsInv, FullFailsInv DEF Failure
<1>3. CASE FullBegin
  BY <1>3, FullBeginInv
<1>4. CASE \E e \in Entities : Appear(e) \/ Vanish(e) \/ Service(e)
  BY <1>4, AppearInv, VanishInv, SetRoleInv, DeleteRoleInv DEF Service
<1>5. CASE UNCHANGED vars
  BY <1>5
  DEF vars, home, roles, due, broken, counters, IInv, TypeOK, OpFits, BindingsArePaid, InOrder,
      RepairAhead, RolesArePaid, Current, ReconcileAhead
<1> QED
  BY <1>1, <1>2, <1>3, <1>4, <1>5 DEF Next

\* Every debt of a role or a binding is on somebody's list.
THEOREM DebtsAreListed == Spec => []IInv
  BY InitInv, NextInv, PTL DEF Spec

\* The user's role takes precedence and the inferred one is current, of every
\* entity no work is left for: the property MCEnergy checks.
THEOREM RolesRight == Spec => []RolesAreRight
<1>1. IInv => RolesAreRight
  <2> SUFFICES ASSUME IInv PROVE RolesAreRight
    OBVIOUS
  <2>1. UserRoleTakesPrecedence
    BY DEF IInv, UserRoleTakesPrecedence, Settled, BindingsArePaid, InOrder, RepairAhead
  <2>2. InferredRoleIsCurrent
    BY DEF IInv, TypeOK, InferredRoleIsCurrent, Settled, RolesArePaid, Current, ReconcileAhead
  <2> QED
    BY <2>1, <2>2 DEF IInv, RolesAreRight
<1> QED
  BY <1>1, DebtsAreListed, PTL

(***************************************************************************)
(* Questions                                                               *)
(***************************************************************************)

\* What a node is after it was written from a report.
WrittenFrom(n, r, t) ==
    /\ DOMAIN n = {"class"} \cup Measures(r)
    /\ n.class = r.class
    /\ \A p \in Measures(r) : n[p] = Measurement(r, t, p)

LEMMA AWriteIsOfTheReport ==
    ASSUME NEW n, DOMAIN n \subseteq {"class"} \cup MeasurementProperties,
           NEW r \in Reports, NEW t
    PROVE  WrittenFrom(WriteMeasurement(n, r, t), r, t)
<1>1. "class" \notin Measures(r)
  BY DEF Measures
<1>2. (DOMAIN n \ MeasurementProperties) \cup {"class"} = {"class"}
  OBVIOUS
<1> QED
  BY <1>1, <1>2 DEF WriteMeasurement, Written, WrittenFrom

LEMMA WhatIsWritten ==
    ASSUME NEW n, NEW r \in Reports, NEW t, WrittenFrom(n, r, t)
    PROVE  /\ DOMAIN n \subseteq {"class"} \cup MeasurementProperties
           /\ "kind" \in DOMAIN n <=> r.class \in {"battery", "power"}
           /\ "kind" \in DOMAIN n =>
                  /\ n.kind = r.class
                  /\ {"status", "updated"} \subseteq DOMAIN n
                  /\ n.status = Status(r) /\ n.updated = t
           /\ "status" \in DOMAIN n => "kind" \in DOMAIN n
           /\ "percentage" \in DOMAIN n <=> r.class = "battery" /\ Status(r) = "available"
           /\ "percentage" \in DOMAIN n => n.percentage = r.number
           /\ "watts" \in DOMAIN n <=> r.class = "power" /\ Status(r) = "available"
           /\ "watts" \in DOMAIN n => n.watts = Watts(r)
<1>1. DOMAIN n = {"class"} \cup Measures(r) /\ \A p \in Measures(r) : n[p] = Measurement(r, t, p)
  BY DEF WrittenFrom
<1>2. "kind" \in Measures(r) => n.kind = r.class
  BY <1>1 DEF Measurement
<1>3. "status" \in Measures(r) => n.status = Status(r)
  BY <1>1 DEF Measurement
<1>4. "updated" \in Measures(r) => n.updated = t
  BY <1>1 DEF Measurement
<1>5. "percentage" \in Measures(r) => n.percentage = r.number
  BY <1>1 DEF Measurement
<1>6. "watts" \in Measures(r) => n.watts = Watts(r)
  BY <1>1 DEF Measurement
<1>7. /\ Measures(r) \subseteq MeasurementProperties
      /\ r.class \in {"battery", "power"} => {"kind", "status", "updated"} \subseteq Measures(r)
      /\ r.class \notin {"battery", "power"} => Measures(r) = {}
      /\ "percentage" \in Measures(r) <=> r.class = "battery" /\ Status(r) = "available"
      /\ "watts" \in Measures(r) <=> r.class = "power" /\ Status(r) = "available"
  BY DEF Measures, MeasurementProperties
<1> QED
  BY <1>1, <1>2, <1>3, <1>4, <1>5, <1>6, <1>7

LEMMA WhatStatusTells ==
    ASSUME NEW r \in Reports, r.class \in {"battery", "power"}
    PROVE  /\ Status(r) = "available" <=>
                  /\ r.reading = "number" /\ r.unit \in SupportedUnits(r.class)
                  /\ r.class = "battery" => r.number \in 0..100
           /\ Status(r) \in {"available", "unavailable", "invalid_value", "unsupported_unit"}
  BY DEF Status

\* Every node is as its last synchronization wrote it.
NodesAreWritten == \A e \in Sensors : WrittenFrom(props[e], synced[e].report, synced[e].at)

QuestionsTyped ==
    /\ reported \in [Sensors -> Reports] /\ at \in [Sensors -> Nat] /\ now \in Nat
    /\ synced \in [Sensors -> [report : Reports, at : Nat]]
    /\ props = [e \in Sensors |-> props[e]]
    /\ user \in [Sensors -> RoleNames \cup {NoRole}]
    /\ inferred \in [Sensors -> RoleNames \cup {NoRole}]
    /\ links \subseteq Links
    /\ stage \in {"waiting", "low", "low_answered", "active", "counted", "active_answered"}
    /\ asOf \in Nat /\ cut \in BOOLEAN /\ quiet \in BOOLEAN
    /\ stage = "waiting" => rows = {} /\ known = {} /\ quiet
    /\ stage # "waiting" => asked \in Limits /\ Cardinality(rows) <= asked
    /\ stage = "active_answered" => Cardinality(known) <= asked
    /\ stage # "active_answered" => known = {}
    /\ IsFiniteSet(rows)

AskingLow == stage \in {"low", "low_answered"}
AskingActive == stage \in {"active", "counted", "active_answered"}

\* What a question has found so far is right unless the graph has changed.
FoundSoFar ==
    quiet /\ ~cut =>
        /\ AskingLow => {r[3] : r \in rows} = LowBatteries
        /\ AnsweredLow => counted = Cardinality(SilentBatteries)
        /\ AskingActive => ListedDevices = ActiveConsumers
        /\ stage \in {"counted", "active_answered"} => counted = Cardinality(RolelessConsumers)

QuestionsInv ==
    /\ QuestionsTyped
    /\ NodesAreWritten
    /\ FoundSoFar
    /\ always \subseteq ConsumerMeters
    /\ ConsumersAreSortedOnce

LEMMA ReadingsAreReports ==
    ASSUME QuestionsTyped
    PROVE  \A e \in Sensors : Reading(e) = synced[e].report /\ Reading(e) \in Reports /\ synced[e].at \in Nat
  BY DEF QuestionsTyped, Reading

LEMMA NodesTell ==
    ASSUME QuestionsTyped, NodesAreWritten, NEW e \in Sensors
    PROVE  /\ Has(e, "class", "energy") <=> Reading(e).class = "energy"
           /\ Available(e, "battery") <=>
                  Usable(e, "battery", {"%"}) /\ Reading(e).number \in 0..100
           /\ Available(e, "battery") =>
                  props[e].percentage = Reading(e).number /\ props[e].updated = synced[e].at
           /\ Available(e, "power") <=> Usable(e, "power", {"W", "kW"})
           /\ Available(e, "power") =>
                  props[e].watts = Watts(Reading(e)) /\ props[e].updated = synced[e].at
           /\ (/\ Has(e, "kind", "battery")
               /\ props[e].status \in {"unavailable", "invalid_value", "unsupported_unit"})
              <=> Reading(e).class = "battery" /\ ~Available(e, "battery")
<1> DEFINE r == Reading(e)
<1>0. r \in Reports /\ r = synced[e].report /\ synced[e].at \in Nat
  BY ReadingsAreReports
<1>1. WrittenFrom(props[e], r, synced[e].at)
  BY <1>0 DEF NodesAreWritten
<1>2. /\ "kind" \in DOMAIN props[e] <=> r.class \in {"battery", "power"}
      /\ "kind" \in DOMAIN props[e] =>
                  /\ props[e].kind = r.class
                  /\ {"status", "updated"} \subseteq DOMAIN props[e]
                  /\ props[e].status = Status(r) /\ props[e].updated = synced[e].at
      /\ "status" \in DOMAIN props[e] => "kind" \in DOMAIN props[e]
      /\ "percentage" \in DOMAIN props[e] <=> r.class = "battery" /\ Status(r) = "available"
      /\ "percentage" \in DOMAIN props[e] => props[e].percentage = r.number
      /\ "watts" \in DOMAIN props[e] <=> r.class = "power" /\ Status(r) = "available"
      /\ "watts" \in DOMAIN props[e] => props[e].watts = Watts(r)
  BY <1>0, <1>1, WhatIsWritten
<1>3. r.class \in {"battery", "power"} =>
        /\ Status(r) = "available" <=>
                  /\ r.reading = "number" /\ r.unit \in SupportedUnits(r.class)
                  /\ r.class = "battery" => r.number \in 0..100
        /\ Status(r) \in {"available", "unavailable", "invalid_value", "unsupported_unit"}
  BY <1>0, WhatStatusTells
<1>4. "class" \in DOMAIN props[e] /\ props[e].class = r.class
  BY <1>1 DEF WrittenFrom
<1>5. SupportedUnits("battery") = {"%"} /\ SupportedUnits("power") = {"W", "kW"}
  BY DEF SupportedUnits
<1>6. \A k \in {"battery", "power"} : Available(e, k) <=> r.class = k /\ Status(r) = "available"
  BY <1>2 DEF Available, Has
<1>7. Available(e, "battery") <=> Usable(e, "battery", {"%"}) /\ Reading(e).number \in 0..100
  BY <1>3, <1>5, <1>6 DEF Usable
<1>8. Available(e, "power") <=> Usable(e, "power", {"W", "kW"})
  BY <1>3, <1>5, <1>6 DEF Usable
<1>9. (/\ Has(e, "kind", "battery")
       /\ props[e].status \in {"unavailable", "invalid_value", "unsupported_unit"})
      <=> Reading(e).class = "battery" /\ ~Available(e, "battery")
  BY <1>2, <1>3, <1>6 DEF Has
<1> QED
  BY <1>2, <1>4, <1>6, <1>7, <1>8, <1>9 DEF Has

LEMMA ActiveTells ==
    ASSUME QuestionsTyped, NodesAreWritten, NEW e \in Sensors, NEW when \in Nat
    PROVE  Active(e, when) <=> /\ Usable(e, "power", {"W", "kW"})
                               /\ Watts(Reading(e)) > Threshold
                               /\ when - synced[e].at <= MaxAge
<1>1. Available(e, "power") <=> Usable(e, "power", {"W", "kW"})
  BY NodesTell
<1>2. Available(e, "power") =>
         props[e].watts = Watts(Reading(e)) /\ props[e].updated = synced[e].at
  BY NodesTell
<1>3. synced[e].at \in Nat /\ MaxAge \in Nat
  BY ReadingsAreReports, QuestionsAssumption
<1>4. synced[e].at >= when - MaxAge <=> when - synced[e].at <= MaxAge
  BY <1>3
<1> QED
  BY <1>1, <1>2, <1>4 DEF Active, Fresh

LEMMA LowTells ==
    ASSUME QuestionsTyped, NodesAreWritten, NEW e \in Sensors
    PROVE  Low(e) <=> /\ Usable(e, "battery", {"%"}) /\ Reading(e).number \in 0..100
                      /\ Reading(e).number < Threshold
                      /\ now - synced[e].at <= MaxAge
<1>1. Available(e, "battery") <=> Usable(e, "battery", {"%"}) /\ Reading(e).number \in 0..100
  BY NodesTell
<1>2. Available(e, "battery") =>
         props[e].percentage = Reading(e).number /\ props[e].updated = synced[e].at
  BY NodesTell
<1>3. synced[e].at \in Nat /\ now \in Nat /\ MaxAge \in Nat
  BY ReadingsAreReports, QuestionsAssumption DEF QuestionsTyped
<1>4. synced[e].at >= now - MaxAge <=> now - synced[e].at <= MaxAge
  BY <1>3
<1> QED
  BY <1>1, <1>2, <1>4 DEF Low, Fresh

\* Sets of rows are finite.
LEMMA RowsAreFinite ==
    /\ IsFiniteSet(LowRows)
    /\ \A wanted : IsFiniteSet(DeviceRows(wanted))
<1>1. IsFiniteSet(Devices \cup {Nowhere}) /\ IsFiniteSet(Areas \cup {Nowhere})
  BY ThingsAssumption, FS_Singleton, FS_Union
<1>2. IsFiniteSet((Areas \X (Devices \cup {Nowhere})) \X Sensors)
  BY <1>1, ThingsAssumption, FS_Product
<1> DEFINE S == (Areas \X (Devices \cup {Nowhere})) \X Sensors
           T == Areas \X (Devices \cup {Nowhere}) \X Sensors
           f == [p \in S |-> <<p[1][1], p[1][2], p[2]>>]
<1>3. f \in Surjection(S, T)
  <2>1. f \in [S -> T]
    OBVIOUS
  <2>2. ASSUME NEW y \in T PROVE \E p \in S : f[p] = y
    <3>1. <<<<y[1], y[2]>>, y[3]>> \in S /\ f[<<<<y[1], y[2]>>, y[3]>>] = y
      OBVIOUS
    <3> QED  BY <3>1
  <2> HIDE DEF f, S, T
  <2> QED  BY <2>1, <2>2 DEF Surjection
<1>4. IsFiniteSet(T)
  <2> HIDE DEF f, S, T
  <2> QED  BY <1>2, <1>3, FS_Surjection DEF S
<1>5. IsFiniteSet(LowRows)
  BY <1>4, FS_Subset DEF LowRows
<1>6. ASSUME NEW wanted PROVE IsFiniteSet(DeviceRows(wanted))
  <2>1. IsFiniteSet(Devices \X (Areas \cup {Nowhere}))
    BY <1>1, ThingsAssumption, FS_Product
  <2>2. DeviceRows(wanted) \in SUBSET (Devices \X (Areas \cup {Nowhere}))
    BY DEF DeviceRows
  <2> QED  BY <2>1, <2>2, FS_Subset
<1> QED  BY <1>5, <1>6

LEMMA KeptFits ==
    ASSUME NEW S, IsFiniteSet(S), NEW n \in Nat, NEW rest \in Kept(S, n)
    PROVE  /\ rest \subseteq S /\ IsFiniteSet(rest) /\ Cardinality(rest) <= n
           /\ ~(Cardinality(S) > n) => rest = S
  BY FS_Subset, FS_CardinalityType DEF Kept, kSubset

\* Which sensors the rows are of.
LEMMA LowRowsTell ==
    ASSUME QuestionsTyped, NodesAreWritten
    PROVE  {r[3] : r \in LowRows} =
               {e \in Sensors : Low(e) /\ \E x \in DevicesOf(e) \cup {e} : AreasOf(x) # {}}
<1>1. AreasOf(Nowhere) = {}
  <2>1. links \subseteq Links /\ Nowhere \notin Devices \cup Sensors
    BY ThingsAssumption DEF QuestionsTyped
  <2> QED  BY <2>1 DEF AreasOf, Links
<1>2. ASSUME NEW r \in LowRows
      PROVE  r[3] \in Sensors /\ Low(r[3]) /\ \E x \in DevicesOf(r[3]) \cup {r[3]} : AreasOf(x) # {}
  <2>1. /\ r[3] \in Sensors /\ Low(r[3])
        /\ r[2] \in OrNowhere(DevicesOf(r[3]))
        /\ r[1] \in (IF AreasOf(r[2]) # {} THEN AreasOf(r[2]) ELSE AreasOf(r[3]))
    BY DEF LowRows
  <2> QED  BY <1>1, <2>1 DEF OrNowhere
<1>3. ASSUME NEW e \in Sensors, Low(e), NEW x \in DevicesOf(e) \cup {e}, AreasOf(x) # {}
      PROVE  \E r \in LowRows : r[3] = e
  <2>1. PICK d \in OrNowhere(DevicesOf(e)) : x # e => d = x
    BY DEF OrNowhere
  <2>2. d \in Devices \cup {Nowhere}
    BY <2>1 DEF OrNowhere, DevicesOf
  <2>3. PICK a \in (IF AreasOf(d) # {} THEN AreasOf(d) ELSE AreasOf(e)) : TRUE
    BY <1>3, <2>1
  <2>4. a \in Areas
    BY <2>3 DEF AreasOf
  <2>5. <<a, d, e>> \in LowRows
    BY <1>3, <2>1, <2>2, <2>3, <2>4 DEF LowRows
  <2> QED  BY <2>5
<1> QED  BY <1>2, <1>3

\* Which devices the rows are of.
LEMMA DeviceRowsTell ==
    ASSUME NEW wanted
    PROVE  {r[1] : r \in DeviceRows(wanted)} = {d \in Devices : \E e \in wanted : <<d, e>> \in links}
<1>1. ASSUME NEW d \in Devices, NEW e \in wanted, <<d, e>> \in links
      PROVE  \E r \in DeviceRows(wanted) : r[1] = d
  <2>1. PICK a \in OrNowhere(AreasOf(d)) : a \in Areas \cup {Nowhere}
    BY DEF OrNowhere, AreasOf
  <2>2. <<d, a>> \in DeviceRows(wanted)
    BY <1>1, <2>1 DEF DeviceRows
  <2> QED  BY <2>2
<1>2. \A r \in DeviceRows(wanted) : r[1] \in Devices /\ \E e \in wanted : <<r[1], e>> \in links
  BY DEF DeviceRows
<1> QED  BY <1>1, <1>2

LEMMA EmptyNodes == DOMAIN <<>> = {}
  OBVIOUS

LEMMA QuestionsInitInv == QuestionsInit => QuestionsInv
<1> SUFFICES ASSUME QuestionsInit PROVE QuestionsInv
  OBVIOUS
<1>1. QuestionsTyped
  <2>1. Cardinality({}) = 0 /\ IsFiniteSet({})
    BY FS_EmptySet
  <2>2. links \subseteq Links
    BY ThingsAssumption DEF QuestionsInit
  <2>3. /\ synced \in [Sensors -> [report : Reports, at : Nat]]
        /\ at \in [Sensors -> Nat] /\ user \in [Sensors -> RoleNames \cup {NoRole}]
    BY DEF QuestionsInit
  <2> QED  BY <2>1, <2>2, <2>3 DEF QuestionsInit, QuestionsTyped
<1>2. NodesAreWritten
  <2> SUFFICES ASSUME NEW e \in Sensors PROVE WrittenFrom(props[e], synced[e].report, synced[e].at)
    BY DEF NodesAreWritten
  <2>1. /\ props[e] = WriteMeasurement(<<>>, reported[e], 0) /\ reported[e] \in Reports
        /\ synced[e].report = reported[e] /\ synced[e].at = 0
    BY DEF QuestionsInit
  <2>2. WrittenFrom(WriteMeasurement(<<>>, reported[e], 0), reported[e], 0)
    BY <2>1, EmptyNodes, AWriteIsOfTheReport
  <2> QED  BY <2>1, <2>2
<1>3. FoundSoFar /\ ConsumersAreSortedOnce /\ always \subseteq ConsumerMeters
  BY DEF QuestionsInit, FoundSoFar, ConsumersAreSortedOnce, AskingLow, AskingActive, AnsweredLow,
         AnsweredActive
<1> QED  BY <1>1, <1>2, <1>3 DEF QuestionsInv

\* A new report, and time, change nothing of the graph and of the question.
LEMMA UnheardInv ==
    ASSUME QuestionsInv, UNCHANGED <<graphVars, askVars, quiet, always>>,
           reported' \in [Sensors -> Reports], at' \in [Sensors -> Nat], now' \in Nat
    PROVE  QuestionsInv'
<1>1. QuestionsTyped'
  BY DEF QuestionsInv, QuestionsTyped, graphVars, askVars
<1>2. NodesAreWritten'
  BY DEF QuestionsInv, NodesAreWritten, graphVars
<1>3. FoundSoFar'
  <2>1. /\ UNCHANGED <<synced, links, user, inferred, quiet>>
        /\ UNCHANGED <<stage, asOf, rows, counted, cut>>
    BY DEF graphVars, askVars
  <2>2. UNCHANGED <<LowBatteries, SilentBatteries>>
    BY <2>1 DEF LowBatteries, SilentBatteries, Usable, Reading, Recent, DevicesOf, AreasOf
  <2>3. UNCHANGED <<ActiveConsumers, RolelessConsumers>>
    BY <2>1 DEF ActiveConsumers, RolelessConsumers, Consumes, Usable, Reading, Recent
  <2> QED
    BY <2>1, <2>2, <2>3 DEF QuestionsInv, FoundSoFar, AskingLow, AskingActive, AnsweredLow, ListedDevices
<1>4. ConsumersAreSortedOnce' /\ (always \subseteq ConsumerMeters)'
  BY DEF QuestionsInv, ConsumersAreSortedOnce, graphVars, askVars, AnsweredActive, ListedDevices,
         ConsumerMeters, Has, EffectiveRole
<1> QED  BY <1>1, <1>2, <1>3, <1>4 DEF QuestionsInv

LEMMA ReportInv ==
    ASSUME QuestionsInv, NEW e \in Sensors, NEW r \in Reports, Report(e, r)
    PROVE  QuestionsInv'
<1>1. reported' \in [Sensors -> Reports] /\ at' \in [Sensors -> Nat] /\ now' \in Nat
  BY DEF QuestionsInv, QuestionsTyped, Report
<1>2. UNCHANGED <<graphVars, askVars, quiet, always>>
  BY DEF Report
<1> QED  BY <1>1, <1>2, UnheardInv

LEMMA TickInv ==
    ASSUME QuestionsInv, Tick
    PROVE  QuestionsInv'
<1>1. reported' \in [Sensors -> Reports] /\ at' \in [Sensors -> Nat] /\ now' \in Nat
  BY DEF QuestionsInv, QuestionsTyped, Tick
<1>2. UNCHANGED <<graphVars, askVars, quiet, always>>
  BY DEF Tick
<1> QED  BY <1>1, <1>2, UnheardInv

\* A change of the graph: the question is no longer bound to what it found.
LEMMA GraphChangedInv ==
    ASSUME QuestionsInv, GraphChanged, NodesAreWritten',
           synced' \in [Sensors -> [report : Reports, at : Nat]], props' = [e \in Sensors |-> props'[e]],
           user' \in [Sensors -> RoleNames \cup {NoRole}], inferred' = inferred,
           links' \subseteq Links
    PROVE  QuestionsInv'
<1>1. /\ UNCHANGED <<worldVars, askVars>>
      /\ stage \notin {"low_answered", "active_answered"} /\ quiet' = (stage = "waiting")
      /\ always' = always \cap ConsumerMeters'
  BY DEF GraphChanged, Changed
<1>2. QuestionsTyped'
  BY <1>1 DEF QuestionsInv, QuestionsTyped, worldVars, askVars
<1>3. FoundSoFar'
  BY <1>1 DEF FoundSoFar, askVars, AskingLow, AskingActive, AnsweredLow
<1>4. ConsumersAreSortedOnce' /\ (always \subseteq ConsumerMeters)'
  BY <1>1 DEF ConsumersAreSortedOnce, askVars, AnsweredActive
<1> QED  BY <1>2, <1>3, <1>4 DEF QuestionsInv

LEMMA SyncEntityInv ==
    ASSUME QuestionsInv, NEW e \in Sensors, SyncEntity(e)
    PROVE  QuestionsInv'
<1>1. /\ props' = [props EXCEPT ![e] = WriteMeasurement(props[e], reported[e], at[e])]
      /\ synced' = [synced EXCEPT ![e] = [report |-> reported[e], at |-> at[e]]]
      /\ UNCHANGED <<user, inferred, links>> /\ GraphChanged
  BY DEF SyncEntity
<1>2. synced' \in [Sensors -> [report : Reports, at : Nat]]
  BY <1>1 DEF QuestionsInv, QuestionsTyped
<1>3. props' = [x \in Sensors |-> props'[x]]
  BY <1>1 DEF QuestionsInv, QuestionsTyped
<1>4. NodesAreWritten'
  <2> SUFFICES ASSUME NEW x \in Sensors
               PROVE  WrittenFrom(props'[x], synced'[x].report, synced'[x].at)
    BY DEF NodesAreWritten
  <2>1. CASE x = e
    <3>1. /\ reported[e] \in Reports /\ synced[e].report \in Reports
          /\ WrittenFrom(props[e], synced[e].report, synced[e].at)
      BY DEF QuestionsInv, QuestionsTyped, NodesAreWritten
    <3>2. DOMAIN props[e] \subseteq {"class"} \cup MeasurementProperties
      BY <3>1, WhatIsWritten
    <3>3. WrittenFrom(WriteMeasurement(props[e], reported[e], at[e]), reported[e], at[e])
      BY <3>1, <3>2, AWriteIsOfTheReport
    <3>4. props'[e] = WriteMeasurement(props[e], reported[e], at[e])
      BY <1>1 DEF QuestionsInv, QuestionsTyped
    <3>5. synced'[e].report = reported[e] /\ synced'[e].at = at[e]
      BY <1>1 DEF QuestionsInv, QuestionsTyped
    <3> QED  BY <2>1, <3>3, <3>4, <3>5
  <2>2. CASE x # e
    <3>1. props'[x] = props[x] /\ synced'[x] = synced[x]
      BY <1>1, <2>2 DEF QuestionsInv, QuestionsTyped
    <3> QED  BY <3>1 DEF QuestionsInv, NodesAreWritten
  <2> QED  BY <2>1, <2>2
<1>5. user' \in [Sensors -> RoleNames \cup {NoRole}] /\ links' \subseteq Links
  BY <1>1 DEF QuestionsInv, QuestionsTyped
<1> QED  BY <1>1, <1>2, <1>3, <1>4, <1>5, GraphChangedInv

LEMMA SetUserRoleInv ==
    ASSUME QuestionsInv, NEW e \in Sensors, NEW chosen \in RoleNames \cup {NoRole}, SetUserRole(e, chosen)
    PROVE  QuestionsInv'
<1>1. GraphChanged /\ UNCHANGED <<props, inferred, links, synced>>
  BY DEF SetUserRole
<1>2. user' \in [Sensors -> RoleNames \cup {NoRole}]
  BY DEF SetUserRole, QuestionsInv, QuestionsTyped
<1>3. NodesAreWritten' /\ synced' \in [Sensors -> [report : Reports, at : Nat]] /\ links' \subseteq Links
      /\ props' = [x \in Sensors |-> props'[x]]
  BY <1>1 DEF QuestionsInv, QuestionsTyped, NodesAreWritten
<1> QED  BY <1>1, <1>2, <1>3, GraphChangedInv

LEMMA MoveInv ==
    ASSUME QuestionsInv, NEW d \in Devices, NEW a \in Areas, Move(d, a)
    PROVE  QuestionsInv'
<1>1. GraphChanged /\ UNCHANGED <<props, user, inferred, synced>> /\ links' = links \cup {<<a, d>>}
  BY DEF Move
<1>2. links' \subseteq Links
  BY <1>1 DEF QuestionsInv, QuestionsTyped, Links
<1>3. NodesAreWritten' /\ synced' \in [Sensors -> [report : Reports, at : Nat]]
      /\ user' \in [Sensors -> RoleNames \cup {NoRole}] /\ props' = [x \in Sensors |-> props'[x]]
  BY <1>1 DEF QuestionsInv, QuestionsTyped, NodesAreWritten
<1> QED  BY <1>1, <1>2, <1>3, GraphChangedInv

\* Asking: the limit is one of those allowed, and nothing has changed since.
LEMMA AskInv ==
    ASSUME QuestionsInv, NEW limit \in Limits, Ask(limit), stage' \in {"low", "active"},
           cut' \in BOOLEAN, IsFiniteSet(rows'), Cardinality(rows') <= limit
    PROVE  /\ QuestionsTyped' /\ NodesAreWritten' /\ (always \subseteq ConsumerMeters)'
           /\ ConsumersAreSortedOnce'
<1>1. /\ stage = "waiting" /\ asked' = limit /\ asOf' = now /\ always' = ConsumerMeters
      /\ UNCHANGED <<reported, at, now, props, user, inferred, links, synced, counted, known, quiet>>
  BY DEF Ask, worldVars, graphVars
<1>2. QuestionsTyped'
  BY <1>1 DEF QuestionsInv, QuestionsTyped
<1>3. NodesAreWritten' /\ (always \subseteq ConsumerMeters)'
  BY <1>1 DEF QuestionsInv, NodesAreWritten, ConsumerMeters, Has, EffectiveRole
<1>4. ConsumersAreSortedOnce'
  BY DEF ConsumersAreSortedOnce, AnsweredActive
<1> QED  BY <1>2, <1>3, <1>4

LEMMA ListLowInv ==
    ASSUME QuestionsInv, NEW limit \in Limits, ListLow(limit)
    PROVE  QuestionsInv'
<1>1. /\ Ask(limit) /\ rows' \in Kept(LowRows, limit) /\ cut' = (Cardinality(LowRows) > limit)
      /\ stage' = "low"
  BY DEF ListLow
<1>2. /\ IsFiniteSet(rows') /\ Cardinality(rows') <= limit
      /\ ~cut' => rows' = LowRows
  BY <1>1, RowsAreFinite, KeptFits, QuestionsAssumption
<1>3. cut' \in BOOLEAN
  BY <1>1
<1>4. /\ QuestionsTyped' /\ NodesAreWritten' /\ (always \subseteq ConsumerMeters)'
      /\ ConsumersAreSortedOnce'
  BY <1>1, <1>2, <1>3, AskInv
<1>5. ASSUME ~cut' PROVE {r[3] : r \in rows'} = LowBatteries'
  <2>1. asOf' = now /\ UNCHANGED <<synced, links>>
    BY <1>1 DEF Ask, graphVars
  <2>2. {r[3] : r \in LowRows} =
            {e \in Sensors : Low(e) /\ \E x \in DevicesOf(e) \cup {e} : AreasOf(x) # {}}
    BY LowRowsTell DEF QuestionsInv
  <2>3. \A e \in Sensors :
            Low(e) <=> /\ Usable(e, "battery", {"%"}) /\ Reading(e).number \in 0..100
                       /\ Reading(e).number < Threshold
                       /\ now - synced[e].at <= MaxAge
    BY LowTells DEF QuestionsInv
  <2>4. LowBatteries' =
            {e \in Sensors :
                /\ Usable(e, "battery", {"%"}) /\ Reading(e).number \in 0..100
                /\ Reading(e).number < Threshold /\ now - synced[e].at <= MaxAge
                /\ \E x \in DevicesOf(e) \cup {e} : AreasOf(x) # {}}
    BY <2>1 DEF LowBatteries, Usable, Reading, Recent, DevicesOf, AreasOf
  <2>5. rows' = LowRows
    BY <1>2, <1>5
  <2> QED  BY <2>2, <2>3, <2>4, <2>5
<1>6. FoundSoFar'
  BY <1>1, <1>5 DEF FoundSoFar, AskingLow, AskingActive, AnsweredLow
<1> QED  BY <1>4, <1>6 DEF QuestionsInv

LEMMA ListActiveInv ==
    ASSUME QuestionsInv, NEW limit \in Limits, ListActive(limit)
    PROVE  QuestionsInv'
<1> DEFINE ConsumingNow == {e \in Sensors : Active(e, now) /\ EffectiveRole(e) = "consumer"}
<1>1. /\ Ask(limit) /\ rows' \in Kept(DeviceRows(ConsumingNow), limit)
      /\ cut' = (Cardinality(DeviceRows(ConsumingNow)) > limit) /\ stage' = "active"
  BY DEF ListActive
<1>2. /\ IsFiniteSet(rows') /\ Cardinality(rows') <= limit
      /\ ~cut' => rows' = DeviceRows(ConsumingNow)
  <2> HIDE DEF ConsumingNow
  <2> QED  BY <1>1, RowsAreFinite, KeptFits, QuestionsAssumption
<1>3. cut' \in BOOLEAN
  BY <1>1
<1>4. /\ QuestionsTyped' /\ NodesAreWritten' /\ (always \subseteq ConsumerMeters)'
      /\ ConsumersAreSortedOnce'
  BY <1>1, <1>2, <1>3, AskInv
<1>5. ASSUME ~cut' PROVE ListedDevices' = ActiveConsumers'
  <2>1. asOf' = now /\ UNCHANGED <<props, synced, links, user, inferred>>
    BY <1>1 DEF Ask, graphVars
  <2>2. ListedDevices' = {d \in Devices : \E e \in ConsumingNow : <<d, e>> \in links}
    <3> HIDE DEF ConsumingNow
    <3> QED  BY <1>2, <1>5, DeviceRowsTell DEF ListedDevices
  <2>3. \A e \in Sensors :
            Active(e, now) <=> /\ Usable(e, "power", {"W", "kW"})
                               /\ Watts(Reading(e)) > Threshold
                               /\ now - synced[e].at <= MaxAge
    BY ActiveTells DEF QuestionsInv, QuestionsTyped
  <2>4. \A e \in Sensors :
            EffectiveRole(e) = "consumer" <=>
                user[e] = "consumer" \/ (user[e] = NoRole /\ inferred[e] = "consumer")
    BY RolesAssumption DEF EffectiveRole
  <2>5. ActiveConsumers' =
            {d \in Devices : \E e \in Sensors :
                /\ <<d, e>> \in links
                /\ Usable(e, "power", {"W", "kW"}) /\ Watts(Reading(e)) > Threshold
                /\ now - synced[e].at <= MaxAge
                /\ (user[e] = "consumer" \/ (user[e] = NoRole /\ inferred[e] = "consumer"))}
    BY <2>1 DEF ActiveConsumers, Consumes, Usable, Reading, Recent
  <2> QED
    BY <2>2, <2>3, <2>4, <2>5
<1>6. FoundSoFar'
  BY <1>1, <1>5 DEF FoundSoFar, AskingLow, AskingActive, AnsweredLow
<1> QED  BY <1>4, <1>6 DEF QuestionsInv

LEMMA CountUnreadableInv ==
    ASSUME QuestionsInv, CountUnreadable
    PROVE  QuestionsInv'
<1>1. /\ stage = "low" /\ stage' = "low_answered" /\ counted' = Cardinality(Unreadable)
      /\ UNCHANGED <<reported, at, now, props, user, inferred, links, synced>>
      /\ UNCHANGED <<asked, asOf, rows, known, cut, quiet, always>>
  BY DEF CountUnreadable, worldVars, graphVars
<1>2. QuestionsTyped' /\ NodesAreWritten' /\ (always \subseteq ConsumerMeters)' /\ ConsumersAreSortedOnce'
  BY <1>1 DEF QuestionsInv, QuestionsTyped, NodesAreWritten, ConsumerMeters, Has, EffectiveRole,
              ConsumersAreSortedOnce, AnsweredActive
<1>3. Unreadable = SilentBatteries
  <2>1. \A e \in Sensors :
           e \in Unreadable <=> Reading(e).class = "battery" /\ ~Available(e, "battery")
    BY NodesTell DEF QuestionsInv, Unreadable
  <2>2. \A e \in Sensors :
           Available(e, "battery") <=> Usable(e, "battery", {"%"}) /\ Reading(e).number \in 0..100
    BY NodesTell DEF QuestionsInv
  <2>3. \A e \in Sensors : e \in Unreadable <=> e \in SilentBatteries
    BY <2>1, <2>2 DEF SilentBatteries
  <2> QED  BY <2>3 DEF Unreadable, SilentBatteries
<1>4. UNCHANGED <<LowBatteries, SilentBatteries>>
  BY <1>1 DEF LowBatteries, SilentBatteries, Usable, Reading, Recent, DevicesOf, AreasOf
<1>5. FoundSoFar'
  BY <1>1, <1>3, <1>4 DEF QuestionsInv, FoundSoFar, AskingLow, AskingActive, AnsweredLow
<1> QED  BY <1>2, <1>5 DEF QuestionsInv

LEMMA CountUnresolvedInv ==
    ASSUME QuestionsInv, CountUnresolved
    PROVE  QuestionsInv'
<1>1. /\ stage = "active" /\ stage' = "counted" /\ counted' = Cardinality(Unresolved)
      /\ UNCHANGED <<reported, at, now, props, user, inferred, links, synced>>
      /\ UNCHANGED <<asked, asOf, rows, known, cut, quiet, always>>
  BY DEF CountUnresolved, worldVars, graphVars
<1>2. QuestionsTyped' /\ NodesAreWritten' /\ (always \subseteq ConsumerMeters)' /\ ConsumersAreSortedOnce'
  BY <1>1 DEF QuestionsInv, QuestionsTyped, NodesAreWritten, ConsumerMeters, Has, EffectiveRole,
              ConsumersAreSortedOnce, AnsweredActive
<1>3. Unresolved = RolelessConsumers
  <2>1. \A e \in Sensors : Active(e, asOf) <=> Consumes(e)
    BY ActiveTells DEF QuestionsInv, QuestionsTyped, Consumes, Recent
  <2>2. \A e \in Sensors : EffectiveRole(e) = NoRole <=> user[e] = NoRole /\ inferred[e] = NoRole
    BY DEF EffectiveRole
  <2> QED  BY <2>1, <2>2 DEF Unresolved, RolelessConsumers
<1>4. UNCHANGED <<ActiveConsumers, RolelessConsumers>>
  BY <1>1 DEF ActiveConsumers, RolelessConsumers, Consumes, Usable, Reading, Recent
<1>5. FoundSoFar'
  BY <1>1, <1>3, <1>4
     DEF QuestionsInv, FoundSoFar, AskingLow, AskingActive, AnsweredLow, ListedDevices
<1> QED  BY <1>2, <1>5 DEF QuestionsInv

LEMMA ListKnownInv ==
    ASSUME QuestionsInv, ListKnown
    PROVE  QuestionsInv'
<1>1. /\ stage = "counted" /\ stage' = "active_answered"
      /\ known' \in Kept(KnownRows, asked) /\ cut' = (cut \/ Cardinality(KnownRows) > asked)
      /\ UNCHANGED <<reported, at, now, props, user, inferred, links, synced>>
      /\ UNCHANGED <<asked, asOf, rows, counted, quiet, always>>
  BY DEF ListKnown, worldVars, graphVars
<1>2. /\ known' \subseteq KnownRows /\ Cardinality(known') <= asked
      /\ ~cut' => known' = KnownRows
  <2>1. IsFiniteSet(KnownRows)
    BY RowsAreFinite, FS_Subset DEF KnownRows
  <2>2. asked \in Nat
    BY <1>1, QuestionsAssumption DEF QuestionsInv, QuestionsTyped
  <2> QED  BY <1>1, <2>1, <2>2, KeptFits
<1>3. QuestionsTyped' /\ NodesAreWritten' /\ (always \subseteq ConsumerMeters)'
  BY <1>1, <1>2 DEF QuestionsInv, QuestionsTyped, NodesAreWritten, ConsumerMeters, Has, EffectiveRole
<1>4. ConsumersAreSortedOnce'
  <2> DEFINE KnownDevices == {r[1] : r \in known'}
  <2>1. ListedDevices' = ListedDevices
    BY <1>1 DEF ListedDevices
  <2>2. ListedDevices \cap KnownDevices = {}
    BY <1>2 DEF KnownRows
  <2>3. ASSUME ~cut', NEW d \in Devices, NEW e \in always, <<d, e>> \in links
        PROVE  d \in ListedDevices \cup KnownDevices
    <3>1. e \in ConsumerMeters
      BY DEF QuestionsInv
    <3>2. d \in {r[1] : r \in DeviceRows(ConsumerMeters)}
      BY <2>3, <3>1, DeviceRowsTell
    <3>3. d \notin ListedDevices => \E r \in KnownRows : r[1] = d
      BY <3>2 DEF KnownRows
    <3> QED  BY <1>2, <2>3, <3>3
  <2> QED  BY <1>1, <2>1, <2>2, <2>3 DEF ConsumersAreSortedOnce
<1>5. FoundSoFar'
  <2>1. UNCHANGED <<ActiveConsumers, RolelessConsumers>>
    BY <1>1 DEF ActiveConsumers, RolelessConsumers, Consumes, Usable, Reading, Recent
  <2> QED
    BY <1>1, <2>1 DEF QuestionsInv, QuestionsTyped, FoundSoFar, AskingLow, AskingActive, AnsweredLow,
                      ListedDevices
<1> QED  BY <1>3, <1>4, <1>5 DEF QuestionsInv

LEMMA QuestionsNextInv ==
    ASSUME QuestionsInv, [QuestionsNext]_questionVars
    PROVE  QuestionsInv'
<1>1. ASSUME QuestionsNext PROVE QuestionsInv'
  BY <1>1, QuestionsInv, SyncEntityInv, ReportInv, SetUserRoleInv, MoveInv, TickInv, ListLowInv,
     ListActiveInv, CountUnreadableInv, CountUnresolvedInv, ListKnownInv
  DEF QuestionsNext
<1>2. ASSUME UNCHANGED questionVars PROVE QuestionsInv'
  <2>1. UNCHANGED <<graphVars, askVars, quiet, always>> /\ UNCHANGED <<reported, at, now>>
    BY <1>2 DEF questionVars, worldVars
  <2> QED  BY <2>1, UnheardInv DEF QuestionsInv, QuestionsTyped
<1> QED  BY <1>1, <1>2

LEMMA QuestionsInvSays == QuestionsInv => QuestionsAreExact
<1> SUFFICES ASSUME QuestionsInv PROVE QuestionsAreExact
  OBVIOUS
<1>1. QuestionsTypeOK
  <2>1. ASSUME NEW e \in Sensors
        PROVE  /\ {"percentage", "watts"} \cap DOMAIN props[e] # {} => Has(e, "status", "available")
               /\ "percentage" \in DOMAIN props[e] => props[e].percentage \in 0..100
    <3>1. synced[e].report \in Reports /\ WrittenFrom(props[e], synced[e].report, synced[e].at)
      BY DEF QuestionsInv, QuestionsTyped, NodesAreWritten
    <3> QED  BY <3>1, WhatIsWritten, WhatStatusTells DEF Has
  <2>2. ASSUME stage # "waiting" PROVE Cardinality(known) <= asked
    <3>1. asked \in Limits /\ (known = {} \/ Cardinality(known) <= asked)
      BY <2>2 DEF QuestionsInv, QuestionsTyped
    <3>2. asked \in Nat
      BY <3>1, QuestionsAssumption
    <3>3. Cardinality({}) = 0
      BY FS_EmptySet
    <3> QED  BY <3>1, <3>2, <3>3
  <2> QED
    BY <2>1, <2>2 DEF QuestionsInv, QuestionsTyped, QuestionsTypeOK
<1>2. LowBatteryIsExact /\ ActiveIsExact
  BY DEF QuestionsInv, FoundSoFar, LowBatteryIsExact, ActiveIsExact, AskingLow, AskingActive,
         AnsweredLow, AnsweredActive
<1> QED  BY <1>1, <1>2 DEF QuestionsInv, QuestionsAreExact

\* What is answered about batteries and consumers is what the sensors last
\* reported, whatever kind of thing they reported before; a device is listed
\* once, and no consumer is between two queries of it lost
\* (low_battery_areas, active_consumers).
THEOREM QuestionsAreAlwaysExact == QuestionsSpec => []QuestionsAreExact
<1>1. QuestionsSpec => []QuestionsInv
  BY QuestionsInitInv, QuestionsNextInv, PTL DEF QuestionsSpec
<1> QED  BY <1>1, QuestionsInvSays, PTL
=============================================================================
