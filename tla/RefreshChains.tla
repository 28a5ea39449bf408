--------------------------- MODULE RefreshChains ---------------------------
(***************************************************************************)
(* What refresh tokens promise, with no database in it: a login starts a   *)
(* family, a live token is exchanged for exactly one successor of its      *)
(* family, and a spent token, or one that was revoked, is spent for ever.  *)
(***************************************************************************)
CONSTANTS Jti, Null

VARIABLES state,    \* "unborn", "live" or "spent", for every token
          family,   \* the family of a token that was born
          parent    \* the token it was exchanged for, Null after a login

vars == <<state, family, parent>>

Init ==
    /\ state = [j \in Jti |-> "unborn"]
    /\ family = [j \in Jti |-> Null]
    /\ parent = [j \in Jti |-> Null]

\* A fresh token is born alone in a family of its own.
Login(j) ==
    /\ state[j] = "unborn"
    /\ \A i \in Jti : family[i] # j
    /\ state' = [state EXCEPT ![j] = "live"]
    /\ family' = [family EXCEPT ![j] = j]
    /\ UNCHANGED parent

\* A live token is spent and its successor is born in the same step.
Exchange(i, j) ==
    /\ state[i] = "live"
    /\ state[j] = "unborn"
    /\ state' = [state EXCEPT ![i] = "spent", ![j] = "live"]
    /\ family' = [family EXCEPT ![j] = family[i]]
    /\ parent' = [parent EXCEPT ![j] = i]

\* Live tokens are revoked, or expire and are forgotten.
Spend(S) ==
    /\ \A j \in S : state[j] = "live"
    /\ state' = [j \in Jti |-> IF j \in S THEN "spent" ELSE state[j]]
    /\ UNCHANGED <<family, parent>>

Next ==
    \/ \E j \in Jti : Login(j)
    \/ \E i, j \in Jti : Exchange(i, j)
    \/ \E S \in SUBSET Jti : Spend(S)

Spec == Init /\ [][Next]_vars
=============================================================================
