----------------------------- MODULE KeyEpochs -----------------------------
(***************************************************************************)
(* What an end-to-end encrypted meeting promises about its group keys,     *)
(* whoever hands them out and however messages are delayed: a key starts   *)
(* with the one participant who made it, passes only from somebody who has *)
(* it, and never to one who had left the meeting when it was made.         *)
(* GroupKey implements it.                                                 *)
(***************************************************************************)
EXTENDS Naturals

CONSTANT Peer

VARIABLES members, past, made, had, excluded

vars == <<members, past, made, had, excluded>>
Keys == 1..made

Init ==
    /\ members = {} /\ past = {} /\ made = 0
    /\ had = [p \in Peer |-> {}] /\ excluded = [k \in {} |-> {}]

Enter(p) ==
    /\ p \notin members \cup past /\ members' = members \cup {p}
    /\ UNCHANGED <<past, made, had, excluded>>

Exit(p) ==
    /\ p \in members /\ members' = members \ {p} /\ past' = past \cup {p}
    /\ UNCHANGED <<made, had, excluded>>

\* Somebody who is or was in the meeting makes a key.
NewKey(p) ==
    /\ p \in members \cup past
    /\ made' = made + 1
    /\ had' = [had EXCEPT ![p] = @ \cup {made + 1}]
    /\ excluded' = [k \in 1..(made + 1) |-> IF k = made + 1 THEN past \ {p} ELSE excluded[k]]
    /\ UNCHANGED <<members, past>>

\* Somebody gets a key that another has.
Obtain(p, k) ==
    /\ p \in members \cup past /\ k \in Keys /\ p \notin excluded[k]
    /\ \E q \in Peer \ {p} : k \in had[q]
    /\ had' = [had EXCEPT ![p] = @ \cup {k}]
    /\ UNCHANGED <<members, past, made, excluded>>

Next == \E p \in Peer : Enter(p) \/ Exit(p) \/ NewKey(p) \/ \E k \in Keys : Obtain(p, k)
Spec == Init /\ [][Next]_vars
=============================================================================
