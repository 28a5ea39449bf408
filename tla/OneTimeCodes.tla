---------------------------- MODULE OneTimeCodes ----------------------------
(***************************************************************************)
(* What one-time codes promise, with no table, clock or request in it: an  *)
(* account appears with a code of its own, a new code may replace only     *)
(* codes of its account and purpose, a code only ever dies, and it is      *)
(* redeemed only by someone it was accepted from while it lived.           *)
(***************************************************************************)
CONSTANTS Email, Id

VARIABLES account,  \* "absent", "unverified" or "verified", for every email
          owner,    \* the email and the purpose of every code issued
          live,     \* the codes that are accepted
          held,     \* the codes accepted and not redeemed yet
          used      \* the codes that were redeemed

vars == <<account, owner, live, held, used>>

Purpose == {"reset_password", "email_verification"}

Init ==
    /\ account = [e \in Email |-> "absent"]
    /\ owner = [r \in {} |-> <<>>]
    /\ live = {} /\ held = {} /\ used = {}

CodesOf(e, purpose) == {r \in DOMAIN owner : owner[r] = <<e, purpose>>}

Issue(e, purpose, r) ==
    /\ r \notin DOMAIN owner
    /\ owner' = [k \in DOMAIN owner \cup {r} |->
                   IF k = r THEN <<e, purpose>> ELSE owner[k]]
    /\ UNCHANGED <<held, used>>

\* An account appears with its first code, which may have expired by then.
Register(e, r) ==
    /\ account[e] = "absent"
    /\ account' = [account EXCEPT ![e] = "unverified"]
    /\ Issue(e, "email_verification", r)
    /\ live' \in {live, live \cup {r}}

\* A fresh code of an account replaces some codes of the same purpose.
Rotate(e, purpose, r) ==
    /\ account[e] # "absent"
    /\ Issue(e, purpose, r)
    /\ \E gone \in SUBSET CodesOf(e, purpose) : live' = (live \ gone) \cup {r}
    /\ UNCHANGED account

\* Codes expire, or are locked out.
Die(S) ==
    /\ S \subseteq live
    /\ live' = live \ S
    /\ UNCHANGED <<account, owner, held, used>>

\* A live code is accepted.
Accept(r) ==
    /\ r \in live
    /\ held' = held \cup {r}
    /\ UNCHANGED <<account, owner, live, used>>

Abandon(r) ==
    /\ held' = held \ {r}
    /\ UNCHANGED <<account, owner, live, used>>

\* An accepted code is redeemed, and verifies its own account if that is
\* what it was issued for. Others may still hold it.
Redeem(r) ==
    /\ r \in held
    /\ used' = used \cup {r}
    /\ live' = live \ {r}
    /\ held' \in {held, held \ {r}}
    /\ account' = IF owner[r][2] = "email_verification"
                    THEN [account EXCEPT ![owner[r][1]] = "verified"] ELSE account
    /\ UNCHANGED owner

Next ==
    \/ \E e \in Email, r \in Id : Register(e, r)
    \/ \E e \in Email, purpose \in Purpose, r \in Id : Rotate(e, purpose, r)
    \/ \E S \in SUBSET live : Die(S)
    \/ \E r \in Id : Accept(r) \/ Abandon(r) \/ Redeem(r)

Spec == Init /\ [][Next]_vars
=============================================================================
