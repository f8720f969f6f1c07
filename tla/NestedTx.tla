------------------------------- MODULE NestedTx -------------------------------
(***************************************************************************)
(* What contract frames promise: `Frames are also the units of             *)
(* (sub-)transactions: each frame captures the host state when it is       *)
(* pushed, and [...] will either commit or roll back that state when it    *)
(* pops the stack' (soroban-env-host/src/host/frame.rs).                   *)
(*                                                                         *)
(* A stack of views of the host state.  A sub-transaction begins with the  *)
(* view of its parent, changes only its own view, and either hands it to   *)
(* the parent or drops it.                                                 *)
(*                                                                         *)
(* A log maps positions to the events that stand; the positions give their *)
(* order.                                                                  *)
(***************************************************************************)
EXTENDS Naturals, Sequences

CONSTANTS
    Contract,       \* the contracts
    State,          \* the states one contract can have
    Event           \* the events contracts can emit

VARIABLE views      \* one view per open sub-transaction, the ledger's first

IsView(v) ==
    /\ v.state \in [Contract -> State]
    /\ \A p \in DOMAIN v.log : p \in Nat /\ v.log[p] \in Event

Init ==
    /\ Len(views) = 2 /\ views[1] = views[2]
    /\ IsView(views[1]) /\ DOMAIN views[1].log = {}

Depth == Len(views)

\* The innermost sub-transaction goes from view v to view w: any state; what is
\* in the log stays there, and what is new comes after it.
MayBecome(v, w) ==
    /\ IsView(w)
    /\ \A p \in DOMAIN v.log : p \in DOMAIN w.log /\ w.log[p] = v.log[p]
    /\ \A p \in DOMAIN v.log : \A q \in DOMAIN w.log \ DOMAIN v.log : p < q

OuterUnchanged(n) == \A i \in 1 .. n : views'[i] = views[i]

Work ==
    /\ Depth > 1 /\ Len(views') = Depth
    /\ OuterUnchanged(Depth - 1)
    /\ MayBecome(views[Depth], views'[Depth])

\* A sub-transaction of the innermost one, after some work of that one.
Begin ==
    /\ Depth > 1 /\ Len(views') = Depth + 1
    /\ OuterUnchanged(Depth - 1)
    /\ MayBecome(views[Depth], views'[Depth])
    /\ views'[Depth + 1] = views'[Depth]

Commit ==
    /\ Depth > 1 /\ Len(views') = Depth - 1
    /\ OuterUnchanged(Depth - 2)
    /\ views'[Depth - 1] = views[Depth]

Abort ==
    /\ Depth > 1 /\ Len(views') = Depth - 1
    /\ OuterUnchanged(Depth - 1)

Next == Work \/ Begin \/ Commit \/ Abort

Spec == Init /\ [][Next]_views
=============================================================================
