---------------------- MODULE RefreshRefinementProofs ----------------------
(***************************************************************************)
(* RefreshSessions implements RefreshChains, for every value of the        *)
(* constants: each statement of an endpoint is a step of the chains or     *)
(* leaves them as they are.                                                *)
(***************************************************************************)
EXTENDS RefreshRefinement, RefreshSessionsProofs

USE DEF Never

\* The state a token is mapped to, one token at a time.
LEMMA Mapped ==
  ASSUME NEW j \in Jti
  PROVE  /\ state[j] = "unborn" <=> j \notin DOMAIN tok
         /\ state[j] = "live" <=> j \in DOMAIN tok /\ Active(j)
         /\ state[j] \in {"unborn", "live", "spent"}
BY DEF state

LEMMA ChainsInit == Init => Chains!Init
BY DEF Init, Chains!Init, state, family, parent

\* A sweep, a purge or a step that writes nothing spends some live tokens.
LEMMA RevokeSpends ==
  ASSUME IInv, OnlyRevokesOnce
  PROVE  Chains!Next
<1> DEFINE S == {j \in Jti : state[j] = "live" /\ state'[j] # "live"}
<1>1. UNCHANGED <<family, parent>>
  BY DEF OnlyRevokesOnce, family, parent
<1>2. state' = [j \in Jti |-> IF j \in S THEN "spent" ELSE state[j]]
  <2>1. ASSUME NEW j \in Jti
        PROVE  state'[j] = IF j \in S THEN "spent" ELSE state[j]
    <3>1. Active(j)' => Active(j)
      BY DEF OnlyRevokesOnce, OnlyRevokes, Active, Present
    <3> QED
      BY <2>1, <3>1 DEF state, OnlyRevokesOnce
  <2>2. state' = [j \in Jti |-> state'[j]]
    BY DEF state
  <2> HIDE DEF S
  <2> QED
    BY <2>1, <2>2
<1>3. S \in SUBSET Jti /\ \A j \in S : state[j] = "live"
  OBVIOUS
<1> HIDE DEF S
<1> QED
  BY <1>1, <1>2, <1>3 DEF Chains!Next, Chains!Spend

\* A login is a birth.
LEMMA LoginIsBirth ==
  ASSUME IInv, NEW p \in Proc, LoginCommit(p)
  PROVE  Chains!Next
<1>1. PICK n \in Jti : n = tx[p].new
  BY MintTable DEF LoginCommit
<1>2. /\ n \in Jti /\ n \notin DOMAIN tok
      /\ DOMAIN tok' = DOMAIN tok \cup {n}
      /\ \A j \in DOMAIN tok : tok'[j] = tok[j]
      /\ tok'[n].family = n /\ tok'[n].parent = Null
  <2>1. /\ n \in Jti /\ n \notin DOMAIN tok
        /\ DOMAIN tok' = DOMAIN tok \cup {n}
        /\ \A j \in DOMAIN tok : tok'[j] = tok[j]
        /\ tok'[n] = NewToken(tx[p])
    BY <1>1, MintTable DEF LoginCommit
  <2>2. tx[p].family = n /\ tx[p].jti = Null
    BY <1>1 DEF LoginCommit, IInv, LocalsOK
  <2>3. NewToken(tx[p]).family = n /\ NewToken(tx[p]).parent = Null
    BY <2>2 DEF NewToken
  <2> QED
    BY <2>1, <2>3
<1>3. /\ \A j \in DOMAIN sess : j # n
      /\ sess' = [j \in DOMAIN sess \cup {n} |->
                    IF j = n THEN NewRow(tx[p]) ELSE sess[j]]
      /\ NewRow(tx[p]).revoked = Never
  BY <1>1, <1>2 DEF LoginCommit, IInv, RowsHaveTokens, NewRow
<1>4. n # Null /\ \A j \in DOMAIN tok : tok[j].family # n
  BY <1>2, ConstantsAssumption DEF IInv, RowsHaveTokens
<1>5. /\ DOMAIN sess' = DOMAIN sess \cup {n}
      /\ sess'[n] = NewRow(tx[p])
      /\ \A j \in DOMAIN sess : sess'[j] = sess[j]
  BY <1>3
<1>6. Active(n)'
  BY <1>3, <1>5 DEF Active, Present
<1>7. \A j \in Jti \ {n} : Active(j)' <=> Active(j)
  BY <1>5 DEF Active, Present
<1>8. state' = [state EXCEPT ![n] = "live"]
  <2>1. \A j \in Jti : state'[j] = IF j = n THEN "live" ELSE state[j]
    BY <1>2, <1>6, <1>7 DEF state
  <2> QED
    BY <2>1 DEF state
<1>9. family' = [family EXCEPT ![n] = n]
  BY <1>2 DEF family
<1>10. parent' = parent
  BY <1>2 DEF parent
<1>11. state[n] = "unborn" /\ \A i \in Jti : family[i] # n
  BY <1>2, <1>4, Mapped DEF family
<1> QED
  BY <1>2, <1>8, <1>9, <1>10, <1>11 DEF Chains!Next, Chains!Login

\* A rotation is an exchange.
LEMMA RotationIsExchange ==
  ASSUME IInv, NEW p \in Proc, RefreshCommit(p)
  PROVE  Chains!Next
<1>1. PICK n \in Jti, o \in Jti : n = tx[p].new /\ o = tx[p].jti
  BY MintTable DEF RefreshCommit, IInv, LocalsOK, TypeOK
<1>2. /\ n \in Jti /\ n \notin DOMAIN tok
      /\ DOMAIN tok' = DOMAIN tok \cup {n}
      /\ \A j \in DOMAIN tok : tok'[j] = tok[j]
      /\ tok'[n].family = tx[p].family /\ tok'[n].parent = o
  <2>1. /\ n \in Jti /\ n \notin DOMAIN tok
        /\ DOMAIN tok' = DOMAIN tok \cup {n}
        /\ \A j \in DOMAIN tok : tok'[j] = tok[j]
        /\ tok'[n] = NewToken(tx[p])
    BY <1>1, MintTable DEF RefreshCommit
  <2>2. NewToken(tx[p]).family = tx[p].family /\ NewToken(tx[p]).parent = o
    BY <1>1 DEF NewToken
  <2> QED
    BY <2>1, <2>2
<1>3. /\ o \in DOMAIN tok /\ o \in Jti /\ o # n /\ Active(o)
      /\ tx[p].family = tok[o].family
      /\ tx[p].now \in Nat /\ sess[o] \in Row
  BY <1>1, <1>2 DEF RefreshCommit, IInv, LocalsOK, RotationOwnsRow, TypeOK, Tx,
              Active, Present
<1>4. \A j \in DOMAIN sess : j # n
  BY <1>2 DEF IInv, RowsHaveTokens
<1>5. sess' = [j \in DOMAIN sess \cup {n} |->
                 CASE j = n -> NewRow(tx[p])
                   [] j = o -> Supersede(sess[j], tx[p])
                   [] OTHER -> sess[j]]
  BY <1>1 DEF RefreshCommit
<1>6. NewRow(tx[p]).revoked = Never
  BY DEF NewRow
<1>7. Supersede(sess[o], tx[p]).revoked # Never
  BY <1>3 DEF Supersede, Row
<1>8. /\ DOMAIN sess' = DOMAIN sess \cup {n}
      /\ sess'[n] = NewRow(tx[p])
      /\ sess'[o] = Supersede(sess[o], tx[p])
      /\ \A j \in DOMAIN sess : j # o => sess'[j] = sess[j]
  BY <1>3, <1>4, <1>5 DEF Active, Present
<1>9. Active(n)' /\ ~ Active(o)'
  BY <1>3, <1>6, <1>7, <1>8 DEF Active, Present
<1>10. \A j \in Jti \ {n, o} : Active(j)' <=> Active(j)
  BY <1>8 DEF Active, Present
<1>11. state' = [state EXCEPT ![o] = "spent", ![n] = "live"]
  <2>1. \A j \in Jti : state'[j] = IF j = n THEN "live"
                                   ELSE IF j = o THEN "spent" ELSE state[j]
    BY <1>2, <1>3, <1>9, <1>10 DEF state
  <2> QED
    BY <1>3, <2>1 DEF state
<1>12. family' = [family EXCEPT ![n] = family[o]]
  BY <1>2, <1>3 DEF family
<1>13. parent' = [parent EXCEPT ![n] = o]
  BY <1>2 DEF parent
<1>14. state[o] = "live" /\ state[n] = "unborn"
  BY <1>2, <1>3, Mapped
<1> QED
  BY <1>2, <1>3, <1>11, <1>12, <1>13, <1>14 DEF Chains!Next, Chains!Exchange

LEMMA ChainsStep == IInv /\ [Next]_vars => [Chains!Next]_(Chains!vars)
<1>1. ASSUME UNCHANGED vars PROVE UNCHANGED Chains!vars
  BY <1>1 DEF vars, Chains!vars, state, family, parent, Active, Present
<1>2. ASSUME IInv, Next PROVE Chains!Next
  BY <1>2, StepEffect, RevokeSpends, LoginIsBirth, RotationIsExchange
<1> QED
  BY <1>1, <1>2

\* The endpoints, sweeps, purge and crashes at statement level implement the
\* abstract chains of refresh tokens.
THEOREM Refinement == Spec => ImplementsChains
BY ChainsInit, ChainsStep, Inductive, PTL DEF Spec, ImplementsChains, Chains!Spec
=============================================================================
