----------------------------- MODULE MCAccounts -----------------------------
(***************************************************************************)
(* Accounts in two interchangeable tabs, and on other devices.             *)
(***************************************************************************)
EXTENDS Accounts, TLC

Symmetry == Permutations(Tab)

\* bound: the tabs are used while there are two sessions at most, nobody writes
\* preferences back, and two things are on their way to a tab; beyond that it is
\* the other devices alone that go on.
Unused(t) ==
    /\ own[t] = None /\ shown[t] = Anonymous /\ requests[t] = {}
    /\ signin[t] = NotAsking /\ signout[t] = NotLeaving
    /\ messages[t] = <<>> /\ events[t] = <<>>
Scope ==
    \/ made <= 2 /\ copies = {} /\ \A t \in Tab : Len(messages[t]) + Len(events[t]) <= 2
    \/ local = None /\ \A t \in Tab : Unused(t)
=============================================================================
