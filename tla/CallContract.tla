---------------------------- MODULE CallContract ----------------------------
(***************************************************************************)
(* What a caller of a tool may rely on, whichever program it calls and     *)
(* whatever else goes on: a call takes effect at most once and before its  *)
(* answer; "ok" says that it did; and a call that ends without an answer   *)
(* from the tool, because the program could not deliver one, did nothing.  *)
(* Only "failed" leaves open whether something was done.                   *)
(***************************************************************************)
CONSTANT Calls

VARIABLES
    changing,       \* the calls whose purpose is to change something
    status,         \* status[c]: "open", or how the call ended
    effects         \* the calls that took effect

vars == <<changing, status, effects>>

Init ==
    /\ changing \subseteq Calls
    /\ status = [c \in Calls |-> "open"]
    /\ effects = {}

TakeEffect(c) ==
    /\ status[c] = "open"
    /\ c \in changing \ effects
    /\ effects' = effects \cup {c}
    /\ UNCHANGED <<changing, status>>

End(c) ==
    /\ status[c] = "open"
    /\ \E s \in {"ok", "failed", "broken"} :
          /\ s = "ok" /\ c \in changing => c \in effects
          /\ s = "broken" => c \notin effects
          /\ status' = [status EXCEPT ![c] = s]
    /\ UNCHANGED <<changing, effects>>

Next == \E c \in Calls : TakeEffect(c) \/ End(c)

Spec == Init /\ [][Next]_vars

=============================================================================
