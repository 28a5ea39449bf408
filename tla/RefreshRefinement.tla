------------------------- MODULE RefreshRefinement -------------------------
(***************************************************************************)
(* The statements of RefreshSessions implement RefreshChains: a token is   *)
(* live while its row is active, and spent once it is revoked or purged.   *)
(***************************************************************************)
EXTENDS RefreshSessions

state == [j \in Jti |-> CASE j \notin DOMAIN tok -> "unborn"
                          [] j \in DOMAIN tok /\ Active(j) -> "live"
                          [] OTHER -> "spent"]
family == [j \in Jti |-> IF j \in DOMAIN tok THEN tok[j].family ELSE Null]
parent == [j \in Jti |-> IF j \in DOMAIN tok THEN tok[j].parent ELSE Null]

Chains == INSTANCE RefreshChains WITH
            Jti <- Jti, Null <- Null,
            state <- state, family <- family, parent <- parent

\* Every behaviour of the endpoints, the sweeps, the purge and the crashes is
\* a behaviour of the abstract chains of tokens (login, refresh_token, logout,
\* reset_password, _cleanup_refresh_sessions).
ImplementsChains == Chains!Spec
=============================================================================
