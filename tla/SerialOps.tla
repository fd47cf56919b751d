------------------------------ MODULE SerialOps ------------------------------
(***************************************************************************)
(* What the coordinator promises its callers about graph operations        *)
(* (coordinator.py:3-14): operations run one at a time, in the order in    *)
(* which they were admitted, and an admitted operation eventually runs.    *)
(* The mechanism (an asyncio.Lock and a flag) is in OpLock, which is shown *)
(* to implement this specification.                                        *)
(***************************************************************************)
EXTENDS Naturals, Sequences

CONSTANTS Ops,    \* the operations callers may have outstanding
          NoOp    \* no operation

VARIABLES pending,   \* admitted operations that wait, oldest first
          active     \* the operation whose graph writes are in flight, or NoOp

vars == <<pending, active>>

Waits(p) == \E i \in 1..Len(pending) : pending[i] = p

TypeOK ==
    /\ pending \in Seq(Ops)
    /\ active \in Ops \cup {NoOp}

Init ==
    /\ pending = <<>>
    /\ active = NoOp

\* An operation is admitted behind everything already admitted.
Admit(p) ==
    /\ p # active
    /\ ~ Waits(p)
    /\ pending' = Append(pending, p)
    /\ UNCHANGED active

\* With nobody ahead of it an operation starts at once.
Start(p) ==
    /\ active = NoOp
    /\ pending = <<>>
    /\ active' = p
    /\ UNCHANGED pending

\* The oldest admitted operation gets its turn.
Begin ==
    /\ active = NoOp
    /\ pending # <<>>
    /\ active' = Head(pending)
    /\ pending' = Tail(pending)

Finish ==
    /\ active # NoOp
    /\ active' = NoOp
    /\ UNCHANGED pending

Next ==
    \/ \E p \in Ops : Admit(p) \/ Start(p)
    \/ Begin
    \/ Finish

SafetySpec == Init /\ [][Next]_vars

Spec == SafetySpec /\ WF_vars(Begin) /\ WF_vars(Finish)
=============================================================================
