----------------------- MODULE RefreshSessionsProofs -----------------------
(***************************************************************************)
(* Proofs about RefreshSessions, for every set of requests, users and      *)
(* uuids and every value of the other constants.                           *)
(***************************************************************************)
EXTENDS RefreshSessions, TLAPS

USE DEF Never

\* A request that has finished has well-typed local variables.
LEMMA NoTxType == NoTx \in Tx
BY ConstantsAssumption DEF NoTx, Tx, Scope

\* Moving a request to another phase keeps the types of pc and tx.
LEMMA GotoType ==
  ASSUME TypeOK, NEW p \in Proc, NEW phase \in Phase, NEW t \in Tx,
         Goto(p, phase, t)
  PROVE  pc' \in [Proc -> Phase] /\ tx' \in [Proc -> Tx]
BY DEF TypeOK, Goto

\* A rollback, or the end of a request, keeps them too.
LEMMA FinishType ==
  ASSUME TypeOK, NEW p \in Proc, Finish(p)
  PROVE  pc' \in [Proc -> Phase] /\ tx' \in [Proc -> Tx]
BY NoTxType, GotoType DEF Finish, Phase

\* The bulk UPDATE keeps the primary keys and the columns' types.
LEMMA RevokeType ==
  ASSUME TypeOK, NEW S, NEW t \in Nat
  PROVE  /\ DOMAIN Revoke(S, t) = DOMAIN sess
         /\ Revoke(S, t) \in [DOMAIN sess -> Row]
BY DEF TypeOK, Revoke, Row

\* What an insert leaves in the token table.
LEMMA MintType ==
  ASSUME TypeOK, NEW t \in Tx, t.user \in User, t.family \in Jti, t.new \in Jti,
         Mint(t)
  PROVE  DOMAIN tok' \subseteq Jti /\ tok' \in [DOMAIN tok' -> Claims]
<1>1. NewToken(t) \in Claims
  BY DEF NewToken, Claims, Tx
<1> QED
  BY <1>1 DEF Mint, TypeOK

-----------------------------------------------------------------------------
(* The conjuncts that only read the two tables.                            *)

\* A step that leaves sess and tok alone keeps what is said of them.
LEMMA TablesKept ==
  ASSUME IInv, UNCHANGED <<sess, tok>>
  PROVE  /\ RowsHaveTokens' /\ ChainKeepsClaims' /\ ActiveHasNoChild'
         /\ OneActivePerFamily' /\ ExchangedOnce'
BY DEF IInv, RowsHaveTokens, ChainKeepsClaims, ActiveHasNoChild,
       OneActivePerFamily, ExchangedOnce, Active, Present

\* What LocalsOK asks of one request, as a condition on its phase and locals.
LocalsFit(phase, t) ==
    /\ phase \in {"login", "row", "cas", "rotate", "reset"} => t.user \in User
    /\ phase \in {"login", "cas", "rotate"} => t.new \in Jti
    /\ phase = "login" => t.family = t.new /\ t.jti = Null
    /\ phase \in {"row", "cas", "rotate"} =>
         /\ t.jti \in DOMAIN tok
         /\ t.user = tok[t.jti].user
         /\ t.family = tok[t.jti].family
         /\ t.ver = tok[t.jti].ver
    /\ phase \in {"sweep", "apply"} =>
         /\ t.scope = "user" => t.user \in User
         /\ t.scope = "family" => t.family \in Jti

\* A step of p that only changes its own phase and locals keeps the invariant
\* when the new ones fit: whatever p draws is fresh, and the row it starts to
\* rotate is active and locked by nobody.
LEMMA QuietStep ==
  ASSUME IInv, UNCHANGED <<clock, sess, users, tok, resets, swept>>,
         NEW p \in Proc, NEW phase \in Phase, NEW t \in Tx, Goto(p, phase, t),
         LocalsFit(phase, t),
         t.new \in {Null, tx[p].new} \/ Fresh(t.new),
         phase = "rotate" => Active(t.jti) /\ ~ Locked(t.jti)
  PROVE  IInv'
<1>1. /\ pc' = [pc EXCEPT ![p] = phase]
      /\ tx' = [tx EXCEPT ![p] = t]
      /\ pc \in [Proc -> Phase] /\ tx \in [Proc -> Tx]
  BY DEF IInv, TypeOK, Goto
<1>2. LocalsOK'
  BY <1>1 DEF IInv, LocalsOK, LocalsFit
<1>3. DrawnOnce'
  BY <1>1 DEF IInv, DrawnOnce, Fresh
<1>4. RotationOwnsRow'
  BY <1>1 DEF IInv, RotationOwnsRow, Locked, Active, Present
<1>5. TypeOK'
  BY GotoType DEF IInv, TypeOK
<1> QED
  BY <1>2, <1>3, <1>4, <1>5, TablesKept DEF IInv

\* The end of a request that has written nothing.
LEMMA QuietFinish ==
  ASSUME IInv, UNCHANGED <<clock, sess, users, tok, resets, swept>>,
         NEW p \in Proc, Finish(p)
  PROVE  IInv'
<1>1. NoTx.new = Null /\ LocalsFit("idle", NoTx)
  BY DEF NoTx, LocalsFit
<1> QED
  BY <1>1, NoTxType, QuietStep DEF Finish, Phase

-----------------------------------------------------------------------------
(* The steps that write nothing.                                           *)

LEMMA LoginSelectInv ==
  ASSUME IInv, NEW p \in Proc, NEW u \in User, NEW j \in Jti,
         LoginSelect(p, u, j)
  PROVE  IInv'
<1> DEFINE t == [NoTx EXCEPT !.user = u, !.new = j, !.family = j,
                   !.ver = users[u].ver, !.epoch = resets[u],
                   !.now = clock, !.exp = clock + TTL]
<1>1. users[u].ver \in Nat /\ resets[u] \in Nat /\ clock + TTL \in Nat /\ clock \in Nat
  BY ConstantsAssumption DEF IInv, TypeOK, Account
<1>2. t \in Tx
  BY <1>1, NoTxType DEF Tx
<1>3. t.user = u /\ t.new = j /\ t.family = j /\ t.jti = Null
  BY DEF NoTx
<1>4. Goto(p, "login", t) /\ Fresh(j)
  BY DEF LoginSelect
<1> HIDE DEF t
<1>5. LocalsFit("login", t)
  BY <1>3 DEF LocalsFit
<1> QED
  BY <1>2, <1>3, <1>4, <1>5, QuietStep DEF Phase, LoginSelect

LEMMA RefreshSelectInv ==
  ASSUME IInv, NEW p \in Proc, NEW j \in Jti, RefreshSelect(p, j)
  PROVE  IInv'
<1> DEFINE t == [NoTx EXCEPT !.user = tok[j].user, !.jti = j,
                   !.family = sess[j].family, !.ver = tok[j].ver]
           row == [t EXCEPT !.exp = sess[j].expires]
           reuse == [t EXCEPT !.now = clock, !.scope = "family"]
<1>1. /\ j \in DOMAIN tok /\ j \in DOMAIN sess
      /\ tok[j] \in Claims /\ sess[j] \in Row /\ clock \in Nat
      /\ sess[j].family = tok[j].family
  BY DEF RefreshSelect, Decodes, Present, IInv, TypeOK, RowsHaveTokens
<1>2. /\ tok[j].user \in User /\ tok[j].ver \in Nat
      /\ sess[j].family \in Jti /\ sess[j].expires \in Nat
  BY <1>1 DEF Claims, Row
<1>3. t \in Tx
  BY <1>2, NoTxType DEF Tx
<1>4. t.user = tok[j].user /\ t.jti = j /\ t.family = sess[j].family
      /\ t.ver = tok[j].ver /\ t.new = Null
  BY DEF NoTx
<1> HIDE DEF t
<1>5. CASE sess[j].revoked = Never
  <2>1. row \in Tx /\ row.new = Null /\ Goto(p, "row", row)
    BY <1>2, <1>3, <1>4, <1>5 DEF Tx, RefreshSelect, t
  <2>2. LocalsFit("row", row)
    BY <1>1, <1>2, <1>3, <1>4 DEF LocalsFit, Tx
  <2> QED
    BY <2>1, <2>2, QuietStep DEF Phase, RefreshSelect
<1>6. CASE sess[j].revoked # Never
  <2>1. reuse \in Tx /\ reuse.new = Null /\ Goto(p, "sweep", reuse)
    BY <1>1, <1>3, <1>4, <1>6 DEF Tx, Scope, RefreshSelect, t
  <2>2. LocalsFit("sweep", reuse)
    BY <1>2, <1>3, <1>4 DEF LocalsFit, Tx
  <2> QED
    BY <2>1, <2>2, QuietStep DEF Phase, RefreshSelect
<1> QED
  BY <1>5, <1>6

LEMMA RefreshLoadUserInv ==
  ASSUME IInv, NEW p \in Proc, NEW j \in Jti, RefreshLoadUser(p, j)
  PROVE  IInv'
<1> DEFINE u == tx[p].user
           t == [tx[p] EXCEPT !.new = j, !.now = clock,
                   !.ver = users[u].ver, !.epoch = resets[u]]
<1>1. /\ tx[p] \in Tx /\ u \in User /\ clock \in Nat
      /\ users[u].ver \in Nat /\ resets[u] \in Nat
  BY DEF RefreshLoadUser, IInv, TypeOK, LocalsOK, Account
<1>2. t \in Tx
  BY <1>1 DEF Tx
<1>3. /\ t.user = u /\ t.new = j /\ t.jti = tx[p].jti
      /\ t.family = tx[p].family /\ t.ver = tx[p].ver
  BY <1>1 DEF RefreshLoadUser, Tx
<1>4. Goto(p, "cas", t) /\ Fresh(j)
  BY DEF RefreshLoadUser
<1> HIDE DEF t
<1>5. LocalsFit("cas", t)
  BY <1>1, <1>3 DEF LocalsFit, IInv, LocalsOK, RefreshLoadUser
<1> QED
  BY <1>2, <1>3, <1>4, <1>5, QuietStep DEF Phase, RefreshLoadUser

LEMMA RefreshCasInv ==
  ASSUME IInv, NEW p \in Proc, RefreshCas(p)
  PROVE  IInv'
<1> DEFINE t == [tx[p] EXCEPT !.exp = clock + TTL]
<1>1. tx[p] \in Tx /\ clock + TTL \in Nat
  BY ConstantsAssumption DEF IInv, TypeOK
<1>2. CASE Active(tx[p].jti)
  <2>1. t \in Tx /\ Goto(p, "rotate", t) /\ t.new = tx[p].new /\ t.jti = tx[p].jti
    BY <1>1, <1>2 DEF Tx, RefreshCas
  <2>2. LocalsFit("rotate", t)
    BY <1>1 DEF LocalsFit, IInv, LocalsOK, RefreshCas, Tx
  <2> HIDE DEF t
  <2> QED
    BY <1>2, <2>1, <2>2, QuietStep DEF Phase, RefreshCas
<1>3. CASE ~ Active(tx[p].jti)
  BY <1>3, QuietFinish DEF RefreshCas
<1> QED
  BY <1>2, <1>3

LEMMA LogoutInv ==
  ASSUME IInv, NEW p \in Proc, NEW j \in Jti, Logout(p, j)
  PROVE  IInv'
<1> DEFINE t == [NoTx EXCEPT !.jti = j, !.now = clock, !.scope = "row"]
<1>1. t \in Tx /\ t.new = Null /\ LocalsFit("sweep", t)
  BY NoTxType DEF Tx, NoTx, Scope, LocalsFit, IInv, TypeOK
<1>2. Goto(p, "sweep", t)
  BY DEF Logout
<1> HIDE DEF t
<1> QED
  BY <1>1, <1>2, QuietStep DEF Phase, Logout

LEMMA SweepStartInv ==
  ASSUME IInv, NEW p \in Proc, SweepStart(p)
  PROVE  IInv'
<1> DEFINE t == [tx[p] EXCEPT !.rows = {j \in DOMAIN sess :
                                          Active(j) /\ Matches(tx[p], j)}]
<1>1. tx[p] \in Tx /\ DOMAIN sess \subseteq Jti
  BY DEF IInv, TypeOK
<1>2. t \in Tx /\ t.new = tx[p].new
  BY <1>1 DEF Tx
<1>3. LocalsFit("apply", t)
  BY <1>1 DEF LocalsFit, IInv, LocalsOK, SweepStart, Tx
<1>4. Goto(p, "apply", t)
  BY DEF SweepStart
<1> HIDE DEF t
<1> QED
  BY <1>2, <1>3, <1>4, QuietStep DEF Phase, SweepStart

LEMMA ResetSelectInv ==
  ASSUME IInv, NEW p \in Proc, NEW u \in User, ResetSelect(p, u)
  PROVE  IInv'
<1> DEFINE t == [NoTx EXCEPT !.user = u]
<1>1. t \in Tx /\ t.new = Null /\ LocalsFit("reset", t)
  BY NoTxType DEF Tx, NoTx, LocalsFit
<1>2. Goto(p, "reset", t)
  BY DEF ResetSelect
<1> HIDE DEF t
<1> QED
  BY <1>1, <1>2, QuietStep DEF Phase, ResetSelect

LEMMA ResetLoadUserInv ==
  ASSUME IInv, NEW p \in Proc, ResetLoadUser(p)
  PROVE  IInv'
<1> DEFINE t == [tx[p] EXCEPT !.ver = users[tx[p].user].ver,
                   !.now = clock, !.scope = "user"]
<1>1. tx[p] \in Tx /\ tx[p].user \in User /\ clock \in Nat
  BY DEF ResetLoadUser, IInv, TypeOK, LocalsOK
<1>2. users[tx[p].user].ver \in Nat
  BY <1>1 DEF IInv, TypeOK, Account
<1>3. t \in Tx /\ t.new = tx[p].new /\ LocalsFit("sweep", t)
  BY <1>1, <1>2 DEF Tx, Scope, LocalsFit
<1>4. Goto(p, "sweep", t)
  BY DEF ResetLoadUser
<1> HIDE DEF t
<1> QED
  BY <1>3, <1>4, QuietStep DEF Phase, ResetLoadUser

-----------------------------------------------------------------------------
(* The sweeps and the purge: rows are revoked or deleted, none appears.    *)

\* The rows of sess' are rows of sess, with the same user and family; an
\* active one was active.
OnlyRevokes ==
    /\ DOMAIN sess' \subseteq DOMAIN sess
    /\ \A j \in DOMAIN sess' :
         /\ sess'[j].user = sess[j].user
         /\ sess'[j].family = sess[j].family
         /\ sess'[j].revoked = Never => sess[j].revoked = Never

LEMMA TablesShrink ==
  ASSUME IInv, UNCHANGED tok, OnlyRevokes
  PROVE  /\ RowsHaveTokens' /\ ChainKeepsClaims' /\ ActiveHasNoChild'
         /\ OneActivePerFamily' /\ ExchangedOnce'
<1>1. RowsHaveTokens'
  BY DEF IInv, RowsHaveTokens, OnlyRevokes
<1>2. ChainKeepsClaims' /\ ExchangedOnce'
  BY DEF IInv, ChainKeepsClaims, ExchangedOnce
<1>3. ActiveHasNoChild'
  BY DEF IInv, ActiveHasNoChild, OnlyRevokes, Active, Present
<1>4. OneActivePerFamily'
  BY DEF IInv, OneActivePerFamily, OnlyRevokes, Active, Present
<1> QED
  BY <1>1, <1>2, <1>3, <1>4

\* A sweep or a purge that respects the row locks keeps the invariant of the
\* requests: p is the request that ends with it.
LEMMA FinishAfterShrink ==
  ASSUME IInv, UNCHANGED tok, NEW p \in Proc, Finish(p), pc[p] # "rotate",
         \A j \in DOMAIN sess : Locked(j) => j \in DOMAIN sess' /\ sess'[j] = sess[j]
  PROVE  LocalsOK' /\ DrawnOnce' /\ RotationOwnsRow'
<1>1. /\ pc' = [pc EXCEPT ![p] = "idle"]
      /\ tx' = [tx EXCEPT ![p] = NoTx]
      /\ pc \in [Proc -> Phase] /\ tx \in [Proc -> Tx]
  BY DEF IInv, TypeOK, Finish, Goto
<1>2. LocalsOK'
  BY <1>1 DEF IInv, LocalsOK
<1>3. DrawnOnce'
  BY <1>1 DEF IInv, DrawnOnce, NoTx
<1>4. RotationOwnsRow'
  BY <1>1 DEF IInv, RotationOwnsRow, Locked, Active, Present
<1> QED
  BY <1>2, <1>3, <1>4

\* What the bulk UPDATE does to the table when no row of S is locked.
LEMMA RevokeShrinks ==
  ASSUME IInv, NEW S, NEW t \in Nat, sess' = Revoke(S, t),
         \A j \in S : ~ Locked(j)
  PROVE  /\ OnlyRevokes
         /\ DOMAIN sess' \subseteq Jti /\ sess' \in [DOMAIN sess' -> Row]
         /\ \A j \in DOMAIN sess :
              Locked(j) => j \in DOMAIN sess' /\ sess'[j] = sess[j]
<1>1. DOMAIN sess' = DOMAIN sess /\ DOMAIN sess \subseteq Jti
      /\ sess' \in [DOMAIN sess -> Row] /\ sess \in [DOMAIN sess -> Row]
  BY RevokeType DEF IInv, TypeOK
<1>2. \A j \in DOMAIN sess :
        sess'[j] = IF j \in S /\ sess[j].revoked = Never
                     THEN [sess[j] EXCEPT !.revoked = t] ELSE sess[j]
  BY DEF Revoke
<1>3. \A j \in DOMAIN sess : j \notin S => sess'[j] = sess[j]
  BY <1>2
<1>4. \A j \in DOMAIN sess : /\ sess'[j].user = sess[j].user
                             /\ sess'[j].family = sess[j].family
                             /\ sess'[j].revoked = Never => sess[j].revoked = Never
  BY <1>1, <1>2 DEF Row
<1> QED
  BY <1>1, <1>3, <1>4 DEF OnlyRevokes

LEMMA SweepCommitInv ==
  ASSUME IInv, NEW p \in Proc, SweepCommit(p)
  PROVE  IInv'
<1>1. tx[p] \in Tx /\ tx[p].now \in Nat
  BY DEF IInv, TypeOK, Tx
<1>2. /\ OnlyRevokes
      /\ DOMAIN sess' \subseteq Jti /\ sess' \in [DOMAIN sess' -> Row]
      /\ \A j \in DOMAIN sess :
           Locked(j) => j \in DOMAIN sess' /\ sess'[j] = sess[j]
  BY <1>1, RevokeShrinks DEF SweepCommit
<1>3. swept' \subseteq Jti
  BY <1>1 DEF SweepCommit, IInv, TypeOK, LocalsOK, Tx
<1>4. TypeOK'
  BY <1>2, <1>3, FinishType DEF SweepCommit, IInv, TypeOK
<1> QED
  BY <1>2, <1>4, TablesShrink, FinishAfterShrink DEF SweepCommit, IInv

LEMMA ResetCommitInv ==
  ASSUME IInv, NEW p \in Proc, ResetCommit(p)
  PROVE  IInv'
<1>1. tx[p] \in Tx /\ tx[p].now \in Nat /\ tx[p].ver \in Nat /\ tx[p].user \in User
  BY DEF ResetCommit, IInv, TypeOK, LocalsOK, Tx
<1>2. /\ OnlyRevokes
      /\ DOMAIN sess' \subseteq Jti /\ sess' \in [DOMAIN sess' -> Row]
      /\ \A j \in DOMAIN sess :
           Locked(j) => j \in DOMAIN sess' /\ sess'[j] = sess[j]
  BY <1>1, RevokeShrinks DEF ResetCommit
<1>3. users' \in [User -> Account]
  BY <1>1 DEF ResetCommit, IInv, TypeOK, Account, NextVersion
<1>4. resets' \in [User -> Nat]
  BY <1>1 DEF ResetCommit, IInv, TypeOK
<1>5. TypeOK'
  BY <1>2, <1>3, <1>4, FinishType DEF ResetCommit, IInv, TypeOK
<1> QED
  BY <1>2, <1>5, TablesShrink, FinishAfterShrink DEF ResetCommit, IInv

LEMMA PurgeInv ==
  ASSUME IInv, NEW cutoff \in Nat, Purge(cutoff)
  PROVE  IInv'
<1> DEFINE gone == Purgeable(cutoff)
<1>1. /\ DOMAIN sess' = DOMAIN sess \ gone
      /\ \A j \in DOMAIN sess \ gone : sess'[j] = Unlink(sess[j], gone)
      /\ \A j \in gone : ~ Locked(j)
      /\ UNCHANGED <<clock, users, tok, pc, tx, resets, swept>>
  BY DEF Purge
<1>2. DOMAIN sess \subseteq Jti /\ sess \in [DOMAIN sess -> Row]
  BY DEF IInv, TypeOK
<1>3. \A j \in DOMAIN sess \ gone :
        /\ Unlink(sess[j], gone) \in Row
        /\ Unlink(sess[j], gone).user = sess[j].user
        /\ Unlink(sess[j], gone).family = sess[j].family
        /\ Unlink(sess[j], gone).revoked = sess[j].revoked
  <2> TAKE j \in DOMAIN sess \ gone
  <2>1. sess[j] \in Row
    BY <1>2
  <2> HIDE DEF gone
  <2> QED
    BY <2>1 DEF Unlink, Row
<1>4. sess' = [j \in DOMAIN sess \ gone |-> Unlink(sess[j], gone)]
  BY DEF Purge
<1> HIDE DEF gone
<1>5. OnlyRevokes
  BY <1>1, <1>3 DEF OnlyRevokes
<1>6. sess' \in [DOMAIN sess' -> Row] /\ DOMAIN sess' \subseteq Jti
  BY <1>2, <1>3, <1>4
<1>7. TypeOK'
  BY <1>1, <1>6 DEF IInv, TypeOK
<1>8. LocalsOK' /\ DrawnOnce'
  BY <1>1 DEF IInv, LocalsOK, DrawnOnce
<1>9. \A j \in DOMAIN sess : Locked(j) =>
        j \in DOMAIN sess' /\ sess'[j].revoked = sess[j].revoked
  BY <1>1, <1>3
<1>10. RotationOwnsRow'
  BY <1>1, <1>9 DEF IInv, RotationOwnsRow, Locked, Active, Present
<1> QED
  BY <1>1, <1>5, <1>7, <1>8, <1>10, TablesShrink DEF IInv

-----------------------------------------------------------------------------
(* The two steps that insert a row.                                        *)

\* The token table after an insert.
LEMMA MintTable ==
  ASSUME IInv, NEW p \in Proc, pc[p] \in {"login", "rotate"}, Mint(tx[p])
  PROVE  /\ tx[p] \in Tx /\ tx[p].new \in Jti /\ tx[p].new \notin DOMAIN tok
         /\ DOMAIN tok' = DOMAIN tok \cup {tx[p].new}
         /\ \A j \in DOMAIN tok : tok'[j] = tok[j]
         /\ tok'[tx[p].new] = NewToken(tx[p])
<1>1. tx[p] \in Tx /\ tx[p].new \in Jti /\ tx[p].new # Null
  BY ConstantsAssumption DEF IInv, TypeOK, LocalsOK
<1>2. tx[p].new \notin DOMAIN tok
  BY <1>1 DEF IInv, DrawnOnce
<1> QED
  BY <1>1, <1>2 DEF Mint

\* The requests after p has inserted its row and ended.
LEMMA FinishAfterMint ==
  ASSUME IInv, NEW p \in Proc, pc[p] \in {"login", "rotate"}, Mint(tx[p]),
         Finish(p)
  PROVE  LocalsOK' /\ DrawnOnce'
<1>1. /\ pc' = [pc EXCEPT ![p] = "idle"]
      /\ tx' = [tx EXCEPT ![p] = NoTx]
      /\ pc \in [Proc -> Phase] /\ tx \in [Proc -> Tx]
      /\ NoTx.new = Null
  BY DEF IInv, TypeOK, Finish, Goto, NoTx
<1>2. LocalsOK'
  <2> SUFFICES ASSUME NEW q \in Proc, q # p
               PROVE  LocalsFit(pc[q], tx[q])'
    BY <1>1 DEF LocalsOK, LocalsFit
  <2>1. LocalsFit(pc[q], tx[q]) /\ pc'[q] = pc[q] /\ tx'[q] = tx[q]
    BY <1>1 DEF IInv, LocalsOK, LocalsFit
  <2> QED
    BY <2>1, MintTable DEF LocalsFit
<1>3. DrawnOnce'
  <2> SUFFICES ASSUME NEW q \in Proc, q # p, tx[q].new # Null
               PROVE  /\ tx[q].new \notin DOMAIN tok'
                      /\ \A r \in Proc : tx'[r].new = tx[q].new => r = q
    BY <1>1 DEF DrawnOnce
  <2>1. tx[q].new \notin DOMAIN tok /\ tx[q].new # tx[p].new
    BY DEF IInv, DrawnOnce
  <2>2. \A r \in Proc : tx'[r].new = tx[q].new => r = q
    BY <1>1 DEF IInv, DrawnOnce
  <2> QED
    BY <2>1, <2>2, MintTable
<1> QED
  BY <1>2, <1>3

LEMMA LoginCommitInv ==
  ASSUME IInv, NEW p \in Proc, LoginCommit(p)
  PROVE  IInv'
<1> DEFINE t == tx[p]
<1>1. /\ t \in Tx /\ t.new \in Jti /\ t.new \notin DOMAIN tok
      /\ DOMAIN tok' = DOMAIN tok \cup {t.new}
      /\ \A j \in DOMAIN tok : tok'[j] = tok[j]
      /\ tok'[t.new] = NewToken(t)
  BY MintTable DEF LoginCommit
<1>2. t.user \in User /\ t.family = t.new /\ t.jti = Null /\ t.exp \in Nat
  BY <1>1 DEF LoginCommit, IInv, LocalsOK, Tx
<1>3. sess' = [j \in DOMAIN sess \cup {t.new} |->
                 IF j = t.new THEN NewRow(t) ELSE sess[j]]
  BY DEF LoginCommit
<1>4. t.new \notin DOMAIN sess
  BY <1>1 DEF IInv, RowsHaveTokens
<1>5. /\ NewToken(t).user = t.user /\ NewToken(t).family = t.new
      /\ NewToken(t).parent = Null
      /\ NewRow(t).user = t.user /\ NewRow(t).family = t.new
      /\ NewRow(t) \in Row
  BY <1>1, <1>2 DEF NewToken, NewRow, Row
<1>6. LocalsOK' /\ DrawnOnce'
  BY FinishAfterMint DEF LoginCommit
<1>7. TypeOK'
  <2>1. sess' \in [DOMAIN sess' -> Row] /\ DOMAIN sess' \subseteq Jti
    BY <1>1, <1>3, <1>5 DEF IInv, TypeOK
  <2>2. tok' \in [DOMAIN tok' -> Claims] /\ DOMAIN tok' \subseteq Jti
    BY <1>1, <1>2, MintType DEF LoginCommit, IInv
  <2> QED
    BY <2>1, <2>2, FinishType DEF LoginCommit, IInv, TypeOK
<1> HIDE DEF t
<1>8. \A j \in DOMAIN sess : sess'[j] = sess[j] /\ j # t.new
  BY <1>3, <1>4
<1>9. DOMAIN sess' = DOMAIN sess \cup {t.new} /\ sess'[t.new] = NewRow(t)
  BY <1>3
<1>10. RowsHaveTokens'
  BY <1>1, <1>5, <1>8, <1>9 DEF IInv, RowsHaveTokens
<1>11. \A j \in DOMAIN tok : tok[j].parent # t.new
  BY <1>1, ConstantsAssumption DEF IInv, ChainKeepsClaims
<1>12. ChainKeepsClaims'
  BY <1>1, <1>5 DEF IInv, ChainKeepsClaims
<1>13. RotationOwnsRow'
  BY <1>8, <1>9
     DEF LoginCommit, Finish, Goto, IInv, RotationOwnsRow, Active, Present, TypeOK
<1>14. ActiveHasNoChild'
  <2>1. \A i \in DOMAIN tok' : i # Null
    BY <1>1, ConstantsAssumption DEF IInv, TypeOK
  <2>2. \A i \in DOMAIN tok : Active(i)' => Active(i)
    BY <1>1, <1>8, <1>9 DEF Active, Present
  <2> QED
    BY <1>1, <1>5, <1>11, <2>1, <2>2 DEF IInv, ActiveHasNoChild
<1>15. \A i \in DOMAIN sess : sess[i].family # t.new
  BY <1>1 DEF IInv, RowsHaveTokens
<1>16. OneActivePerFamily'
  BY <1>5, <1>8, <1>9, <1>15 DEF IInv, OneActivePerFamily, Active, Present
<1>17. ExchangedOnce'
  BY <1>1, <1>5 DEF IInv, ExchangedOnce
<1> QED
  BY <1>6, <1>7, <1>10, <1>12, <1>13, <1>14, <1>16, <1>17 DEF IInv

LEMMA RefreshCommitInv ==
  ASSUME IInv, NEW p \in Proc, RefreshCommit(p)
  PROVE  IInv'
<1> DEFINE t == tx[p]
<1>1. /\ t \in Tx /\ t.new \in Jti /\ t.new \notin DOMAIN tok
      /\ DOMAIN tok' = DOMAIN tok \cup {t.new}
      /\ \A j \in DOMAIN tok : tok'[j] = tok[j]
      /\ tok'[t.new] = NewToken(t)
  BY MintTable DEF RefreshCommit
<1>2. /\ t.user \in User /\ t.jti \in DOMAIN tok /\ t.user = tok[t.jti].user
      /\ t.family = tok[t.jti].family /\ t.ver = tok[t.jti].ver
      /\ t.exp \in Nat /\ t.now \in Nat /\ t.jti # t.new
  BY <1>1 DEF RefreshCommit, IInv, LocalsOK, Tx
<1>3. /\ t.jti \in DOMAIN sess /\ sess[t.jti].revoked = Never
      /\ sess[t.jti] \in Row /\ t.family \in Jti
      /\ sess[t.jti].family = t.family /\ sess[t.jti].user = t.user
  BY <1>2 DEF RefreshCommit, IInv, RotationOwnsRow, Active, Present, TypeOK,
              RowsHaveTokens, Row
<1>4. sess' = [j \in DOMAIN sess \cup {t.new} |->
                 CASE j = t.new -> NewRow(t)
                   [] j = t.jti -> Supersede(sess[j], t)
                   [] OTHER -> sess[j]]
  BY DEF RefreshCommit
<1>5. t.new \notin DOMAIN sess
  BY <1>1 DEF IInv, RowsHaveTokens
<1>6. /\ NewToken(t).user = t.user /\ NewToken(t).family = t.family
      /\ NewToken(t).parent = t.jti /\ NewToken(t).ver = t.ver
      /\ NewRow(t).user = t.user /\ NewRow(t).family = t.family
      /\ NewRow(t).revoked = Never /\ NewRow(t) \in Row
  BY <1>1, <1>2, <1>3 DEF NewToken, NewRow, Row
<1>7. /\ Supersede(sess[t.jti], t) \in Row
      /\ Supersede(sess[t.jti], t).revoked # Never
      /\ Supersede(sess[t.jti], t).user = t.user
      /\ Supersede(sess[t.jti], t).family = t.family
  <2>1. [sess[t.jti] EXCEPT !.revoked = t.now, !.next = t.new] \in Row
    BY <1>1, <1>2, <1>3 DEF Row
  <2> HIDE DEF t
  <2> QED
    BY <1>2, <1>3, <2>1 DEF Supersede, Row
<1>8. LocalsOK' /\ DrawnOnce'
  BY FinishAfterMint DEF RefreshCommit
<1>9. TypeOK'
  <2>1. sess' \in [DOMAIN sess' -> Row] /\ DOMAIN sess' \subseteq Jti
    BY <1>1, <1>4, <1>6, <1>7 DEF IInv, TypeOK
  <2>2. tok' \in [DOMAIN tok' -> Claims] /\ DOMAIN tok' \subseteq Jti
    BY <1>1, <1>2, <1>3, MintType DEF RefreshCommit, IInv
  <2> QED
    BY <2>1, <2>2, FinishType DEF RefreshCommit, IInv, TypeOK
<1>10. /\ \A q \in Proc \ {p} : pc'[q] = pc[q] /\ tx'[q] = tx[q]
       /\ pc'[p] = "idle"
       /\ \A q \in Proc \ {p} : pc[q] = "rotate" => tx[q].jti # t.jti
  BY DEF RefreshCommit, Finish, Goto, IInv, TypeOK, RotationOwnsRow
<1> HIDE DEF t
<1>11. /\ \A j \in DOMAIN sess : j # t.new
       /\ \A j \in DOMAIN sess : j # t.jti => sess'[j] = sess[j]
       /\ sess'[t.jti] = Supersede(sess[t.jti], t)
       /\ sess'[t.new] = NewRow(t)
       /\ DOMAIN sess' = DOMAIN sess \cup {t.new}
  BY <1>2, <1>3, <1>4, <1>5
<1>12. RowsHaveTokens'
  BY <1>1, <1>2, <1>3, <1>6, <1>7, <1>11 DEF IInv, RowsHaveTokens
<1>13. \A j \in DOMAIN tok : tok[j].parent # t.new
  BY <1>1, ConstantsAssumption DEF IInv, ChainKeepsClaims
<1>14. ChainKeepsClaims'
  BY <1>1, <1>2, <1>6 DEF IInv, ChainKeepsClaims
<1>15. RotationOwnsRow'
  BY <1>3, <1>10, <1>11 DEF IInv, RotationOwnsRow, Active, Present
<1>16. \A j \in DOMAIN sess' : sess'[j].revoked = Never =>
         j = t.new \/ (j \in DOMAIN sess /\ j # t.jti /\ sess[j].revoked = Never)
  BY <1>7, <1>11
<1>17. ActiveHasNoChild'
  BY <1>1, <1>2, <1>6, <1>13, <1>16
     DEF IInv, ActiveHasNoChild, RowsHaveTokens, Active, Present
<1>18. \A j \in DOMAIN sess : sess[j].revoked = Never /\ j # t.jti
                              => sess[j].family # t.family
  BY <1>3 DEF IInv, OneActivePerFamily, Active, Present
<1>19. OneActivePerFamily'
  BY <1>6, <1>11, <1>16, <1>18 DEF IInv, OneActivePerFamily, Active, Present
<1>20. \A j \in DOMAIN tok : tok[j].parent # t.jti
  BY <1>2, <1>3 DEF IInv, ActiveHasNoChild, Active, Present
<1>21. ExchangedOnce'
  BY <1>1, <1>6, <1>20 DEF IInv, ExchangedOnce
<1> QED
  BY <1>8, <1>9, <1>12, <1>14, <1>15, <1>17, <1>19, <1>21 DEF IInv

-----------------------------------------------------------------------------
(* The environment, and the invariant itself.                              *)

LEMMA EnvironmentInv ==
  ASSUME IInv, Environment
  PROVE  IInv'
<1>1. CASE UNCHANGED <<sess, tok, pc, tx, resets, swept>> /\ clock' \in Nat
           /\ users' \in [User -> Account]
  <2>1. LocalsOK' /\ DrawnOnce' /\ RotationOwnsRow'
    BY <1>1 DEF IInv, LocalsOK, DrawnOnce, RotationOwnsRow, Active, Present
  <2> QED
    BY <1>1, <2>1, TablesKept DEF IInv, TypeOK
<1>2. CASE \E cutoff \in Cutoffs : Purge(cutoff)
  <2>1. \A cutoff \in Cutoffs : cutoff \in Nat
    BY ConstantsAssumption DEF Cutoffs, IInv, TypeOK
  <2> QED
    BY <1>2, <2>1, PurgeInv
<1>3. CASE \E u \in User : IssueOtp(u)
  BY <1>1, <1>3 DEF IssueOtp, IInv, TypeOK, Account
<1>4. CASE \E u \in User : SetEligible(u)
  BY <1>1, <1>4 DEF SetEligible, IInv, TypeOK, Account
<1>5. CASE Tick
  BY <1>1, <1>5 DEF Tick, IInv, TypeOK
<1> QED
  BY <1>2, <1>3, <1>4, <1>5 DEF Environment

LEMMA InitInv == Init => IInv
<1> SUFFICES ASSUME Init PROVE IInv
  OBVIOUS
<1>1. DOMAIN sess = {} /\ DOMAIN tok = {}
  BY DEF Init
<1>2. TypeOK
  BY <1>1, NoTxType DEF Init, TypeOK, Phase, Account
<1>3. LocalsOK /\ DrawnOnce /\ RotationOwnsRow
  BY DEF Init, LocalsOK, DrawnOnce, RotationOwnsRow, NoTx
<1> QED
  BY <1>1, <1>2, <1>3 DEF IInv, RowsHaveTokens, ChainKeepsClaims,
     ActiveHasNoChild, OneActivePerFamily, ExchangedOnce

LEMMA NextInv == IInv /\ [Next]_vars => IInv'
<1> SUFFICES ASSUME IInv, [Next]_vars PROVE IInv'
  OBVIOUS
<1>1. CASE UNCHANGED vars
  <2>1. LocalsOK' /\ DrawnOnce' /\ RotationOwnsRow'
    BY <1>1 DEF vars, IInv, LocalsOK, DrawnOnce, RotationOwnsRow, Active, Present
  <2> QED
    BY <1>1, <2>1, TablesKept DEF vars, IInv, TypeOK
<1>2. ASSUME NEW p \in Proc, Step(p) PROVE IInv'
  <2>1. CASE \E u \in User, j \in Jti : LoginSelect(p, u, j)
    BY <2>1, LoginSelectInv
  <2>2. CASE LoginCommit(p)
    BY <2>2, LoginCommitInv
  <2>3. CASE \E j \in Jti : RefreshSelect(p, j)
    BY <2>3, RefreshSelectInv
  <2>4. CASE RefreshExpired(p) \/ RefreshRejected(p) \/ Crash(p)
    BY <2>4, QuietFinish DEF RefreshExpired, RefreshRejected, Crash
  <2>5. CASE \E j \in Jti : RefreshLoadUser(p, j)
    BY <2>5, RefreshLoadUserInv
  <2>6. CASE RefreshCas(p)
    BY <2>6, RefreshCasInv
  <2>7. CASE RefreshCommit(p)
    BY <2>7, RefreshCommitInv
  <2>8. CASE \E j \in Jti : Logout(p, j)
    BY <2>8, LogoutInv
  <2>9. CASE SweepStart(p)
    BY <2>9, SweepStartInv
  <2>10. CASE SweepCommit(p)
    BY <2>10, SweepCommitInv
  <2>11. CASE \E u \in User : ResetSelect(p, u)
    BY <2>11, ResetSelectInv
  <2>12. CASE ResetLoadUser(p)
    BY <2>12, ResetLoadUserInv
  <2>13. CASE ResetCommit(p)
    BY <2>13, ResetCommitInv
  <2> QED
    BY <1>2, <2>1, <2>2, <2>3, <2>4, <2>5, <2>6, <2>7, <2>8, <2>9, <2>10,
       <2>11, <2>12, <2>13 DEF Step
<1> QED
  BY <1>1, <1>2, EnvironmentInv DEF Next

\* The inductive invariant holds in every reachable state.
THEOREM Inductive == Spec => []IInv
BY InitInv, NextInv, PTL DEF Spec

\* Every variable of the model has its type in every reachable state.
THEOREM TypeCorrect == Spec => []TypeOK
<1>1. IInv => TypeOK
  BY DEF IInv
<1> QED
  BY <1>1, Inductive, PTL

\* A family has at most one active refresh token, whatever logins, rotations,
\* sweeps, resets, purges and crashes overlap (refresh_token's revoke, insert,
\* link order): the unique index of migration 0008 can never reject a rotation.
THEOREM OneActive == Spec => []OneActivePerFamily
<1>1. IInv => OneActivePerFamily
  BY DEF IInv
<1> QED
  BY <1>1, Inductive, PTL

\* No refresh token is ever exchanged twice (refresh_token's compare-and-set).
THEOREM NoDoubleExchange == Spec => []ExchangedOnce
<1>1. IInv => ExchangedOnce
  BY DEF IInv
<1> QED
  BY <1>1, Inductive, PTL

\* A rotation keeps the user, the family and the token_version of the token it
\* consumes (refresh_token's ver comparison).
THEOREM ChainKeeps == Spec => []ChainKeepsClaims
<1>1. IInv => ChainKeepsClaims
  BY DEF IInv
<1> QED
  BY <1>1, Inductive, PTL

-----------------------------------------------------------------------------
(* The action properties.                                                  *)

\* What every step but the two inserts does to the tables: no token is
\* minted, no row appears, and a revocation already there is kept.
OnlyRevokesOnce ==
    /\ UNCHANGED tok
    /\ OnlyRevokes
    /\ \A j \in DOMAIN sess' :
         sess[j].revoked # Never => sess'[j].revoked = sess[j].revoked

LEMMA StepEffect ==
  ASSUME IInv, Next
  PROVE  \/ OnlyRevokesOnce
         \/ \E p \in Proc : LoginCommit(p) \/ RefreshCommit(p)
<1>1. ASSUME UNCHANGED <<sess, tok>> PROVE OnlyRevokesOnce
  BY <1>1 DEF OnlyRevokesOnce, OnlyRevokes
<1>2. ASSUME NEW S, NEW t \in Nat, sess' = Revoke(S, t), UNCHANGED tok
      PROVE  OnlyRevokesOnce
  <2>1. DOMAIN sess' = DOMAIN sess /\ sess \in [DOMAIN sess -> Row]
    BY <1>2 DEF Revoke, IInv, TypeOK
  <2>2. \A j \in DOMAIN sess :
          sess'[j] = IF j \in S /\ sess[j].revoked = Never
                       THEN [sess[j] EXCEPT !.revoked = t] ELSE sess[j]
    BY <1>2 DEF Revoke
  <2>3. \A j \in DOMAIN sess :
          /\ sess'[j].user = sess[j].user /\ sess'[j].family = sess[j].family
          /\ sess'[j].revoked = Never => sess[j].revoked = Never
          /\ sess[j].revoked # Never => sess'[j].revoked = sess[j].revoked
    BY <1>2, <2>1, <2>2 DEF Row
  <2> QED
    BY <1>2, <2>1, <2>3 DEF OnlyRevokesOnce, OnlyRevokes
<1>3. ASSUME NEW p \in Proc, SweepCommit(p) \/ ResetCommit(p)
      PROVE  OnlyRevokesOnce
  <2>1. tx[p].now \in Nat
    BY DEF IInv, TypeOK, Tx
  <2> QED
    BY <1>2, <1>3, <2>1 DEF SweepCommit, ResetCommit
<1>4. ASSUME NEW cutoff \in Cutoffs, Purge(cutoff)
      PROVE  OnlyRevokesOnce
  <2> DEFINE gone == Purgeable(cutoff)
  <2>1. sess' = [j \in DOMAIN sess \ gone |-> Unlink(sess[j], gone)]
    BY <1>4 DEF Purge
  <2>2. sess \in [DOMAIN sess -> Row]
    BY DEF IInv, TypeOK
  <2> HIDE DEF gone
  <2>3. \A j \in DOMAIN sess \ gone :
          /\ sess'[j].user = sess[j].user /\ sess'[j].family = sess[j].family
          /\ sess'[j].revoked = sess[j].revoked
    BY <2>1, <2>2 DEF Unlink, Row
  <2> QED
    BY <1>4, <2>1, <2>3 DEF Purge, OnlyRevokesOnce, OnlyRevokes
<1>5. ASSUME NEW p \in Proc, Step(p)
      PROVE  \/ OnlyRevokesOnce
             \/ LoginCommit(p) \/ RefreshCommit(p)
  <2>1. CASE \E u \in User, j \in Jti : LoginSelect(p, u, j)
    BY <1>1, <2>1 DEF LoginSelect
  <2>2. CASE \/ \E j \in Jti : RefreshSelect(p, j) \/ RefreshLoadUser(p, j)
                               \/ Logout(p, j)
             \/ \E u \in User : ResetSelect(p, u)
    BY <1>1, <2>2 DEF RefreshSelect, RefreshLoadUser, Logout, ResetSelect
  <2>3. CASE RefreshExpired(p) \/ RefreshRejected(p) \/ RefreshCas(p)
    BY <1>1, <2>3 DEF RefreshExpired, RefreshRejected, RefreshCas
  <2>4. CASE SweepStart(p) \/ ResetLoadUser(p) \/ Crash(p)
    BY <1>1, <2>4 DEF SweepStart, ResetLoadUser, Crash
  <2> QED
    BY <1>3, <1>5, <2>1, <2>2, <2>3, <2>4 DEF Step
<1>6. CASE Environment
  BY <1>1, <1>4, <1>6 DEF Environment, IssueOtp, SetEligible, Tick
<1> QED
  BY <1>5, <1>6 DEF Next

\* The rows there were before an insert: what LoginCommit and RefreshCommit
\* do to them, and to the family they insert into.
LEMMA InsertEffect ==
  ASSUME IInv, NEW p \in Proc, LoginCommit(p) \/ RefreshCommit(p)
  PROVE  /\ DOMAIN sess' = DOMAIN sess \cup {tx[p].new}
         /\ tx[p].new \notin DOMAIN sess
         /\ sess'[tx[p].new].family = tx[p].family
         /\ \A j \in DOMAIN sess :
              /\ sess'[j].family = sess[j].family
              /\ sess[j].revoked # Never => sess'[j] = sess[j]
              /\ sess'[j].revoked = Never => sess[j].revoked = Never
         /\ \/ tx[p].family \notin DOMAIN tok
            \/ \E j \in DOMAIN sess : Active(j) /\ sess[j].family = tx[p].family
<1> DEFINE t == tx[p]
<1>1. t.new \notin DOMAIN tok /\ t.new \notin DOMAIN sess
  BY MintTable DEF LoginCommit, RefreshCommit, IInv, RowsHaveTokens
<1>2. CASE LoginCommit(p)
  <2>1. t.family = t.new
    BY <1>2 DEF LoginCommit, IInv, LocalsOK
  <2>2. sess' = [j \in DOMAIN sess \cup {t.new} |->
                   IF j = t.new THEN NewRow(t) ELSE sess[j]]
    BY <1>2 DEF LoginCommit
  <2> HIDE DEF t
  <2>3. \A j \in DOMAIN sess : sess'[j] = sess[j]
    BY <1>1, <2>2
  <2> QED
    BY <1>1, <2>1, <2>2, <2>3 DEF NewRow, t
<1>3. CASE RefreshCommit(p)
  <2>1. /\ t.jti \in DOMAIN sess /\ sess[t.jti].revoked = Never
        /\ sess[t.jti] \in Row /\ sess[t.jti].family = t.family /\ t.now \in Nat
    BY <1>3 DEF RefreshCommit, IInv, LocalsOK, RotationOwnsRow, Active, Present,
                TypeOK, RowsHaveTokens, Tx
  <2>2. sess' = [j \in DOMAIN sess \cup {t.new} |->
                   CASE j = t.new -> NewRow(t)
                     [] j = t.jti -> Supersede(sess[j], t)
                     [] OTHER -> sess[j]]
    BY <1>3 DEF RefreshCommit
  <2> HIDE DEF t
  <2>3. Supersede(sess[t.jti], t).family = t.family
    BY <2>1 DEF Supersede, Row
  <2>4. /\ \A j \in DOMAIN sess : j # t.jti => sess'[j] = sess[j]
        /\ sess'[t.jti].family = t.family
        /\ sess'[t.new] = NewRow(t)
    BY <1>1, <2>1, <2>2, <2>3
  <2>5. NewRow(t).family = t.family
    BY DEF NewRow
  <2> QED
    BY <1>1, <2>1, <2>2, <2>4, <2>5 DEF Active, Present, t
<1> QED
  BY <1>2, <1>3

\* The first revocation of a row is the only one that is ever written
\* (_revoke_active_sessions' revoked_at IS NULL and the row locks).
THEOREM RevocationKept == Spec => RevokedForGood
<1> DEFINE Kept == \A j \in DOMAIN sess \cap DOMAIN sess' :
                     sess[j].revoked # Never => sess'[j].revoked = sess[j].revoked
<1>1. IInv /\ [Next]_vars => [Kept]_vars
  <2> SUFFICES ASSUME IInv, Next PROVE Kept
    OBVIOUS
  <2>1. CASE OnlyRevokesOnce
    BY <2>1 DEF OnlyRevokesOnce, OnlyRevokes
  <2>2. ASSUME NEW p \in Proc, LoginCommit(p) \/ RefreshCommit(p) PROVE Kept
    BY <2>2, InsertEffect
  <2> QED
    BY <2>1, <2>2, StepEffect
<1> QED
  BY <1>1, Inductive, PTL DEF Spec, RevokedForGood

\* A family without an active row never gets one again, whatever the requests
\* in flight have read (refresh_token's compare-and-set, login's new family).
THEOREM DeadStaysDead == Spec => DeadFamilyStaysDead
<1> DEFINE Dead == \A f \in DOMAIN tok :
              (\A j \in DOMAIN sess : sess[j].family = f => ~ Active(j))
              => \A j \in DOMAIN sess' :
                   sess'[j].family = f => sess'[j].revoked # Never
<1>1. IInv /\ [Next]_vars => [Dead]_vars
  <2> SUFFICES ASSUME IInv, Next,
                      NEW f \in DOMAIN tok,
                      \A j \in DOMAIN sess : sess[j].family = f => ~ Active(j),
                      NEW j \in DOMAIN sess', sess'[j].family = f
               PROVE  sess'[j].revoked # Never
    OBVIOUS
  <2>1. CASE OnlyRevokesOnce
    BY <2>1 DEF OnlyRevokesOnce, OnlyRevokes, Active, Present
  <2>2. ASSUME NEW p \in Proc, LoginCommit(p) \/ RefreshCommit(p)
        PROVE  sess'[j].revoked # Never
    <3>1. tx[p].family # f
      BY <2>2, InsertEffect
    <3>2. j \in DOMAIN sess /\ sess[j].family = f
      BY <2>2, <3>1, InsertEffect
    <3>3. sess[j].revoked # Never
      BY <3>2 DEF Active, Present
    <3> QED
      BY <2>2, <3>2, <3>3, InsertEffect
  <2> QED
    BY <2>1, <2>2, StepEffect
<1> QED
  BY <1>1, Inductive, PTL DEF Spec, DeadFamilyStaysDead
=============================================================================
