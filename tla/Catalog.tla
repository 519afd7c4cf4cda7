------------------------------- MODULE Catalog -------------------------------
(***************************************************************************)
(* What the store promises about datasets, without connections, locks or   *)
(* transactions: a dataset appears complete, in one step, under a name     *)
(* that held none; it is then listed once, with exactly the rows it has;   *)
(* and nothing ever changes or removes it.                                 *)
(***************************************************************************)
EXTENDS Naturals

CONSTANT Names

VARIABLES
    loaded,     \* loaded[t]: rows that can be read from t, 0 if none
    listed      \* listed[t]: row count in the listing, 0 if not listed

vars == <<loaded, listed>>

Init ==
    /\ loaded = [t \in Names |-> 0]
    /\ listed = [t \in Names |-> 0]

Load(t) ==
    /\ loaded[t] = 0
    /\ listed[t] = 0
    /\ loaded'[t] \in Nat \ {0}
    /\ loaded' = [loaded EXCEPT ![t] = loaded'[t]]
    /\ UNCHANGED listed

List(t) ==
    /\ loaded[t] # 0
    /\ listed[t] = 0
    /\ listed' = [listed EXCEPT ![t] = loaded[t]]
    /\ UNCHANGED loaded

Next == \E t \in Names : Load(t) \/ List(t)

Spec == Init /\ [][Next]_vars

=============================================================================
