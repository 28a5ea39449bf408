--------------------------- MODULE OtpCodesProofs ---------------------------
(***************************************************************************)
(* Proofs about OtpCodes, for every number of requests, emails, codes and  *)
(* attempts, every lifetime and every cooldown.                            *)
(***************************************************************************)
EXTENDS OtpCodes, TLAPS

\* A request holds the unique index entry of its email.
Holding == {"send", "created"}

\* What a holder may assume: the account is absent and nobody else holds it.
OwnsEmail(p, t) ==
    /\ users[t.email] = "absent"
    /\ \A q \in Proc : q # p /\ pc[q] \in Holding => tx[q].email # t.email

\* A step that changes only the local state of p, to a state that is right.
LEMMA Quiet ==
  ASSUME IInv, NEW p \in Proc, NEW phase \in Phase, NEW t \in Tx,
         Goto(p, phase, t), UNCHANGED <<clock, users, rows, code>>,
         mailed' \subseteq Email, mailed \subseteq mailed',
         LocalOK(p, phase, t) \/ (phase = "created" /\ t.email \in mailed'
                                  /\ LocalOK(p, "send", t)),
         phase \in Holding => OwnsEmail(p, t)
  PROVE  IInv'
<1>1. /\ \A q \in Proc : pc'[q] = (IF q = p THEN phase ELSE pc[q])
      /\ \A q \in Proc : tx'[q] = (IF q = p THEN t ELSE tx[q])
  BY DEF Goto, IInv, TypeOK
<1>2. TypeOK'
  BY <1>1 DEF Goto, IInv, TypeOK
<1>3. ASSUME NEW q \in Proc PROVE LocalOK(q, pc[q], tx[q])'
  <2>1. CASE q # p
    <3>1. LocalOK(q, pc[q], tx[q])
      BY DEF IInv, LocalsOK
    <3> QED
      BY <1>1, <2>1, <3>1 DEF LocalOK, RowsOf
  <2>2. CASE q = p
    BY <1>1, <2>2 DEF LocalOK, RowsOf
  <2> QED
    BY <2>1, <2>2
<1>4. EmailOwned' /\ NotYet'
  BY <1>1 DEF IInv, EmailOwned, NotYet, OwnsEmail, Holding
<1>5. /\ StoryOfRow' /\ AbsentHasNoRows' /\ OneRowPerRequest' /\ ExhaustedIsDead'
      /\ VerifiedByOwnCode' /\ AccountsGotTheirCode' /\ UnverifiedHasRow'
  BY DEF IInv, StoryOfRow, AbsentHasNoRows, OneRowPerRequest, ExhaustedIsDead, Live,
         VerifiedByOwnCode, AccountsGotTheirCode, UnverifiedHasRow, RowsOf
<1> QED
  BY <1>2, <1>3, <1>4, <1>5 DEF IInv, LocalsOK

\* A request that ends without a write.
LEMMA Ends ==
  ASSUME IInv, NEW p \in Proc, Finish(p), UNCHANGED <<clock, users, rows, code, mailed>>
  PROVE  IInv'
<1>1. NoTx \in Tx /\ "idle" \in Phase /\ "idle" \notin Holding
  BY DEF NoTx, Tx, Purpose, Phase, Holding
<1>2. LocalOK(p, "idle", NoTx)
  BY DEF LocalOK
<1> QED
  BY <1>1, <1>2, Quiet DEF Finish, IInv, TypeOK

-----------------------------------------------------------------------------
(* The steps that only read.                                               *)

LEMMA RegisterReads ==
  ASSUME IInv, NEW p \in Proc, NEW e \in Email,
         RegisterSelect(p, e) \/ RegisterFlush(p) \/ RegisterSendFails(p)
         \/ RegisterSends(p)
  PROVE  IInv'
<1>1. CASE RegisterSelect(p, e)
  <2> DEFINE t == [NoTx EXCEPT !.email = e, !.purpose = "email_verification"]
  <2>1. t \in Tx /\ "flush" \in Phase /\ "flush" \notin Holding
    BY DEF NoTx, Tx, Purpose, Phase, Holding
  <2>2. LocalOK(p, "flush", t)
    BY DEF LocalOK, NoTx
  <2> QED
    BY <1>1, <2>1, <2>2, Quiet DEF RegisterSelect, IInv, TypeOK
<1>2. CASE RegisterFlush(p) /\ users[tx[p].email] = "absent"
  <2> DEFINE t == [tx[p] EXCEPT !.now = clock]
  <2>1. t \in Tx /\ "send" \in Phase
    BY DEF IInv, TypeOK, Tx, Phase
  <2>2. LocalOK(p, pc[p], tx[p]) /\ pc[p] = "flush"
    BY <1>2 DEF RegisterFlush, IInv, LocalsOK
  <2>3. LocalOK(p, "send", t)
    BY <2>2 DEF LocalOK, IInv, TypeOK, Tx
  <2>4. OwnsEmail(p, t)
    BY <1>2 DEF RegisterFlush, EmailHeld, OwnsEmail, Holding, IInv, TypeOK, Tx
  <2> QED
    BY <1>2, <2>1, <2>3, <2>4, Quiet DEF RegisterFlush, IInv, TypeOK
<1>3. CASE RegisterFlush(p) /\ users[tx[p].email] # "absent"
  BY <1>3, Ends DEF RegisterFlush
<1>4. CASE RegisterSendFails(p)
  BY <1>4, Ends DEF RegisterSendFails
<1>5. CASE RegisterSends(p)
  <2>1. tx[p] \in Tx /\ "created" \in Phase
    BY DEF IInv, TypeOK, Phase
  <2>2. LocalOK(p, "send", tx[p]) /\ pc[p] = "send"
    BY <1>5 DEF RegisterSends, IInv, LocalsOK
  <2>3. tx[p].email \in Email
    BY <2>2 DEF LocalOK
  <2>4. OwnsEmail(p, tx[p])
    BY <2>2 DEF IInv, EmailOwned, NotYet, OwnsEmail, Holding
  <2>5. mailed' \subseteq Email /\ mailed \subseteq mailed' /\ tx[p].email \in mailed'
    BY <1>5, <2>3 DEF RegisterSends, IInv, TypeOK
  <2> QED
    BY <1>5, <2>1, <2>2, <2>4, <2>5, Quiet DEF RegisterSends
<1> QED
  BY <1>1, <1>2, <1>3, <1>4, <1>5

LEMMA IssueReads ==
  ASSUME IInv, NEW p \in Proc, NEW e \in Email, NEW purpose \in Purpose,
         IssueUser(p, e, purpose) \/ IssueLatest(p) \/ IssueDelete(p)
  PROVE  IInv'
<1>1. CASE IssueUser(p, e, purpose)
  <2> DEFINE t == [NoTx EXCEPT !.email = e, !.purpose = purpose]
  <2>1. t \in Tx /\ "latest" \in Phase /\ "latest" \notin Holding
    BY DEF NoTx, Tx, Phase, Holding
  <2>2. LocalOK(p, "latest", t)
    BY <1>1 DEF LocalOK, NoTx, IssueUser
  <2> QED
    BY <1>1, <2>1, <2>2, Quiet DEF IssueUser, IInv, TypeOK
<1>2. CASE IssueLatest(p) /\ Finish(p)
  BY <1>2, Ends DEF IssueLatest
<1>3. CASE IssueLatest(p) /\ Goto(p, "delete", tx[p])
  <2>1. tx[p] \in Tx /\ "delete" \in Phase /\ "delete" \notin Holding
    BY DEF IInv, TypeOK, Phase, Holding
  <2>2. LocalOK(p, "latest", tx[p])
    BY <1>3 DEF IssueLatest, IInv, LocalsOK
  <2>3. LocalOK(p, "delete", tx[p])
    BY <2>2 DEF LocalOK
  <2> QED
    BY <1>3, <2>1, <2>3, Quiet DEF IssueLatest, IInv, TypeOK
<1>4. CASE IssueDelete(p)
  <2> DEFINE t == [tx[p] EXCEPT !.rows = Deleted(tx[p])]
  <2>1. Deleted(tx[p]) \subseteq DOMAIN rows /\ DOMAIN rows \subseteq DOMAIN code
        /\ DOMAIN code \subseteq Id
    BY DEF Deleted, RowsOf, IInv, TypeOK
  <2>2. t \in Tx /\ "rotate" \in Phase /\ "rotate" \notin Holding
    BY <2>1 DEF IInv, TypeOK, Tx, Phase, Holding
  <2>3. LocalOK(p, "delete", tx[p])
    BY <1>4 DEF IssueDelete, IInv, LocalsOK
  <2>4. /\ t.email = tx[p].email /\ t.purpose = tx[p].purpose
        /\ t.rows = RowsOf(t.email, t.purpose)
    BY DEF Deleted, IInv, TypeOK, Tx
  <2>5. \A r \in t.rows : /\ r \in DOMAIN code
                          /\ code[r].email = t.email /\ code[r].purpose = t.purpose
    BY <2>1, <2>4 DEF RowsOf, IInv, StoryOfRow
  <2>6. LocalOK(p, "rotate", t)
    BY <2>3, <2>4, <2>5 DEF LocalOK
  <2> QED
    BY <1>4, <2>2, <2>6, Quiet DEF IssueDelete, IInv, TypeOK
<1> QED
  BY <1>1, <1>2, <1>3, <1>4 DEF IssueLatest

LEMMA CheckReads ==
  ASSUME IInv, NEW p \in Proc, NEW e \in Email, NEW purpose \in Purpose,
         CheckWrong(p, e, purpose) \/ CheckRight(p, e, purpose)
  PROVE  IInv'
<1>1. \A r \in LiveOf(e, purpose) :
        /\ r \in DOMAIN rows /\ r \in DOMAIN code /\ r \in Id
        /\ code[r].email = e /\ code[r].purpose = purpose
        /\ users[e] # "absent"
        /\ rows[r].attempts \in Nat
  BY DEF LiveOf, RowsOf, IInv, TypeOK, StoryOfRow, AbsentHasNoRows, Row
<1>2. CASE CheckWrong(p, e, purpose)
  <2>1. PICK r \in LiveOf(e, purpose) :
          Goto(p, "wrong", [email |-> e, purpose |-> purpose, row |-> r,
                            attempts |-> rows[r].attempts + 1, now |-> clock,
                            rows |-> {}])
    BY <1>2 DEF CheckWrong
  <2> DEFINE t == [email |-> e, purpose |-> purpose, row |-> r,
                   attempts |-> rows[r].attempts + 1, now |-> clock, rows |-> {}]
  <2>2. t \in Tx /\ "wrong" \in Phase /\ "wrong" \notin Holding
    BY <1>1 DEF Tx, Phase, Holding, IInv, TypeOK
  <2>3. LocalOK(p, "wrong", t)
    BY <1>1 DEF LocalOK, IInv, TypeOK
  <2> QED
    BY <1>2, <2>1, <2>2, <2>3, Quiet DEF CheckWrong, IInv, TypeOK
<1>3. CASE CheckRight(p, e, purpose)
  <2>1. PICK r \in LiveOf(e, purpose) :
          Goto(p, "consume", [NoTx EXCEPT !.email = e, !.purpose = purpose, !.row = r])
    BY <1>3 DEF CheckRight
  <2> DEFINE t == [NoTx EXCEPT !.email = e, !.purpose = purpose, !.row = r]
  <2>2. t \in Tx /\ "consume" \in Phase /\ "consume" \notin Holding
    BY <1>1 DEF Tx, NoTx, Phase, Holding
  <2>3. LocalOK(p, "consume", t)
    BY <1>1 DEF LocalOK, NoTx
  <2> QED
    BY <1>3, <2>1, <2>2, <2>3, Quiet DEF CheckRight, IInv, TypeOK
<1> QED
  BY <1>2, <1>3

-----------------------------------------------------------------------------
(* The steps that store a code.                                            *)

\* What the table holds after a Store.
LEMMA StoreTable ==
  ASSUME IInv, NEW p \in Proc, NEW r \in Id, NEW gone, NEW created \in Nat,
         tx[p].email \in Email, Store(p, r, gone, created)
  PROVE  /\ r \notin DOMAIN code /\ r \notin DOMAIN rows
         /\ DOMAIN rows' = (DOMAIN rows \ gone) \cup {r}
         /\ DOMAIN code' = DOMAIN code \cup {r}
         /\ \A k \in DOMAIN rows' : k # r => rows'[k] = rows[k] /\ k \in DOMAIN rows
         /\ \A k \in DOMAIN code : code'[k] = code[k]
         /\ rows'[r] = NewRow(tx[p], created)
         /\ code'[r] = [email |-> tx[p].email, purpose |-> tx[p].purpose,
                        by |-> p, wrong |-> 0, used |-> FALSE]
         /\ rows'[r] \in Row /\ code'[r] \in Story
<1>1. r \notin DOMAIN code /\ DOMAIN rows \subseteq DOMAIN code
  BY DEF Store, IInv, TypeOK
<1>2. /\ DOMAIN rows' = (DOMAIN rows \ gone) \cup {r}
      /\ \A k \in DOMAIN rows' : k # r => rows'[k] = rows[k] /\ k \in DOMAIN rows
      /\ rows'[r] = NewRow(tx[p], created)
  BY DEF Store
<1>3. /\ DOMAIN code' = DOMAIN code \cup {r}
      /\ \A k \in DOMAIN code : code'[k] = code[k]
      /\ code'[r] = [email |-> tx[p].email, purpose |-> tx[p].purpose,
                     by |-> p, wrong |-> 0, used |-> FALSE]
  BY <1>1 DEF Store
<1>4. tx[p].purpose \in Purpose
  BY DEF IInv, TypeOK, Tx
<1>5. created + TTL(tx[p].purpose) \in Nat
  BY ConstantsAssumption DEF TTL
<1>6. NewRow(tx[p], created) \in Row
  BY <1>4, <1>5 DEF NewRow, Row
<1>7. code'[r] \in Story
  BY <1>3, <1>4 DEF Story
<1> QED
  BY <1>1, <1>2, <1>3, <1>6, <1>7

\* A request that stores a code and ends keeps the invariant, if the rows it
\* deletes are of its email and purpose and include the ones it stored before,
\* and the account it stores for exists from now on.
LEMMA Stored ==
  ASSUME IInv, NEW p \in Proc, NEW r \in Id, NEW gone, NEW created \in Nat,
         tx[p].email \in Email, Store(p, r, gone, created), Finish(p),
         UNCHANGED <<clock, mailed>>,
         users' \in [Email -> Account],
         \A e \in Email : users'[e] = users[e] \/ (e = tx[p].email /\ users[e] = "absent"),
         users'[tx[p].email] = users[tx[p].email]
           \/ (users'[tx[p].email] = "unverified" /\ tx[p].email \in mailed
               /\ tx[p].purpose = "email_verification"),
         users'[tx[p].email] # "absent",
         \A q \in Proc : q # p /\ pc[q] \in Holding => users'[tx[q].email] = "absent",
         \A k \in gone \cap DOMAIN rows :
           rows[k].email = tx[p].email /\ rows[k].purpose = tx[p].purpose,
         \A k \in RowsOf(tx[p].email, tx[p].purpose) : code[k].by = p => k \in gone
  PROVE  IInv'
<1> DEFINE e0 == tx[p].email
           u0 == tx[p].purpose
<1>1. /\ r \notin DOMAIN code /\ r \notin DOMAIN rows
      /\ DOMAIN rows' = (DOMAIN rows \ gone) \cup {r}
      /\ DOMAIN code' = DOMAIN code \cup {r}
      /\ \A k \in DOMAIN rows' : k # r => rows'[k] = rows[k] /\ k \in DOMAIN rows
      /\ \A k \in DOMAIN code : code'[k] = code[k]
      /\ rows'[r] = NewRow(tx[p], created)
      /\ code'[r] = [email |-> e0, purpose |-> u0, by |-> p, wrong |-> 0, used |-> FALSE]
      /\ rows'[r] \in Row /\ code'[r] \in Story
  BY StoreTable
<1>2. /\ \A q \in Proc : pc'[q] = (IF q = p THEN "idle" ELSE pc[q])
      /\ \A q \in Proc : tx'[q] = (IF q = p THEN NoTx ELSE tx[q])
      /\ NoTx \in Tx
  BY DEF Goto, Finish, IInv, TypeOK, NoTx, Tx, Purpose
<1>3. /\ rows'[r].email = e0 /\ rows'[r].purpose = u0 /\ rows'[r].attempts = 0
      /\ code'[r].email = e0 /\ code'[r].purpose = u0 /\ code'[r].by = p
  BY <1>1 DEF NewRow
<1>4. DOMAIN rows \subseteq DOMAIN code
  BY DEF IInv, TypeOK
<1>5. TypeOK'
  <2>1. DOMAIN code' \subseteq Id /\ code' \in [DOMAIN code' -> Story]
    <3>0. DOMAIN code \subseteq Id /\ \A k \in DOMAIN code : code[k] \in Story
      BY DEF IInv, TypeOK
    <3>1. DOMAIN code' \subseteq Id /\ \A k \in DOMAIN code' : code'[k] \in Story
      BY <1>1, <3>0
    <3>2. code' = [k \in DOMAIN code' |-> code'[k]]
      BY <1>1 DEF Store
    <3> QED
      BY <3>1, <3>2
  <2>2. DOMAIN rows' \subseteq DOMAIN code' /\ rows' \in [DOMAIN rows' -> Row]
    <3>1. DOMAIN rows' \subseteq DOMAIN code' /\ \A k \in DOMAIN rows' : rows'[k] \in Row
      BY <1>1 DEF IInv, TypeOK
    <3>2. rows' = [k \in DOMAIN rows' |-> rows'[k]]
      BY <1>1 DEF Store
    <3> QED
      BY <3>1, <3>2
  <2>3. pc' \in [Proc -> Phase] /\ tx' \in [Proc -> Tx]
    BY <1>2 DEF Finish, Goto, IInv, TypeOK, Phase
  <2> QED
    BY <2>1, <2>2, <2>3 DEF IInv, TypeOK
<1>6. StoryOfRow'
  BY <1>1, <1>3, <1>4 DEF IInv, StoryOfRow
<1>7. LocalsOK'
  <2>1. ASSUME NEW q \in Proc, q # p PROVE LocalOK(q, pc[q], tx[q])'
    <3>1. LocalOK(q, pc[q], tx[q]) /\ pc'[q] = pc[q] /\ tx'[q] = tx[q]
      BY <1>2, <2>1 DEF IInv, LocalsOK
    <3>2. \A k \in RowsOf(tx[q].email, tx[q].purpose)' : code'[k].by = q =>
            k \in RowsOf(tx[q].email, tx[q].purpose) /\ code[k].by = q
      BY <1>1, <1>3, <1>4, <2>1, <3>1 DEF RowsOf
    <3>3. \A e \in Email : users[e] # "absent" => users'[e] # "absent"
      OBVIOUS
    <3>4. \A k \in DOMAIN code : k \in DOMAIN code' /\ code'[k] = code[k]
      BY <1>1
    <3> HIDE DEF e0, u0
    <3> QED
      BY <3>1, <3>2, <3>3, <3>4 DEF LocalOK
  <2>2. LocalOK(p, pc[p], tx[p])'
    BY <1>2 DEF LocalOK
  <2> QED
    BY <2>1, <2>2 DEF LocalsOK
<1>8. EmailOwned' /\ NotYet'
  BY <1>2 DEF IInv, EmailOwned, NotYet, Holding
<1>9. AbsentHasNoRows'
  <2>1. \A k \in DOMAIN rows : rows[k].email \in Email
    BY DEF IInv, TypeOK, Row
  <2> QED
    BY <1>1, <1>3, <2>1 DEF IInv, AbsentHasNoRows
<1>10. OneRowPerRequest'
  <2> SUFFICES ASSUME NEW k \in DOMAIN rows', NEW l \in DOMAIN rows',
                      rows'[k].email = rows'[l].email,
                      rows'[k].purpose = rows'[l].purpose,
                      code'[k].by = code'[l].by
               PROVE  k = l
    BY DEF OneRowPerRequest
  <2>1. CASE k # r /\ l # r
    BY <1>1, <1>4, <2>1 DEF IInv, OneRowPerRequest
  <2>2. \A m \in DOMAIN rows' : m # r =>
          ~ (rows'[m].email = e0 /\ rows'[m].purpose = u0 /\ code'[m].by = p)
    BY <1>1, <1>4 DEF RowsOf
  <2>3. CASE k = r \/ l = r
    BY <1>3, <2>2, <2>3
  <2> QED
    BY <2>1, <2>3
<1>11. ExhaustedIsDead'
  BY <1>1, <1>3, ConstantsAssumption DEF IInv, ExhaustedIsDead, Live
<1>12. VerifiedByOwnCode'
  <2>1. \A e \in Email : users'[e] = "verified" => users[e] = "verified"
    OBVIOUS
  <2> QED
    BY <1>1, <2>1 DEF IInv, VerifiedByOwnCode
<1>13. AccountsGotTheirCode'
  BY DEF IInv, AccountsGotTheirCode
<1>14. UnverifiedHasRow'
  <2> SUFFICES ASSUME NEW e \in Email, users'[e] = "unverified"
               PROVE  RowsOf(e, "email_verification")' # {}
    BY DEF UnverifiedHasRow
  <2>1. CASE e = e0 /\ u0 = "email_verification"
    BY <1>1, <1>3, <2>1 DEF RowsOf
  <2>2. CASE ~ (e = e0 /\ u0 = "email_verification")
    <3>1. users[e] = "unverified"
      BY <2>2
    <3>2. PICK k \in RowsOf(e, "email_verification") : TRUE
      BY <3>1 DEF IInv, UnverifiedHasRow
    <3>3. k \notin gone
      BY <2>2, <3>2 DEF RowsOf
    <3> QED
      BY <1>1, <3>2, <3>3 DEF RowsOf
  <2> QED
    BY <2>1, <2>2
<1> QED
  BY <1>5, <1>6, <1>7, <1>8, <1>9, <1>10, <1>11, <1>12, <1>13, <1>14 DEF IInv

LEMMA Stores ==
  ASSUME IInv, NEW p \in Proc, NEW r \in Id, RegisterCommit(p, r) \/ IssueCommit(p, r)
  PROVE  IInv'
<1>1. LocalOK(p, pc[p], tx[p]) /\ tx[p] \in Tx
  BY DEF IInv, LocalsOK, TypeOK
<1>2. CASE RegisterCommit(p, r)
  <2>1. /\ tx[p].email \in Email /\ tx[p].purpose = "email_verification"
        /\ tx[p].email \in mailed /\ tx[p].now \in Nat
        /\ users[tx[p].email] = "absent"
    BY <1>1, <1>2 DEF RegisterCommit, LocalOK, Tx, IInv, NotYet
  <2>2. /\ users' \in [Email -> Account]
        /\ \A e \in Email : users'[e] = IF e = tx[p].email THEN "unverified" ELSE users[e]
    BY <1>2, <2>1 DEF RegisterCommit, IInv, TypeOK, Account
  <2>3. \A q \in Proc : q # p /\ pc[q] \in Holding => users'[tx[q].email] = "absent"
    <3> SUFFICES ASSUME NEW q \in Proc, q # p, pc[q] \in Holding
                 PROVE  users'[tx[q].email] = "absent"
      OBVIOUS
    <3>1. tx[q].email # tx[p].email /\ users[tx[q].email] = "absent"
      BY <1>2 DEF RegisterCommit, IInv, EmailOwned, NotYet, Holding
    <3>2. tx[q].email \in Email
      BY DEF IInv, LocalsOK, LocalOK, Holding
    <3> QED
      BY <2>2, <3>1, <3>2
  <2>4. RowsOf(tx[p].email, tx[p].purpose) = {}
    BY <2>1 DEF RowsOf, IInv, AbsentHasNoRows
  <2> QED
    BY <1>2, <2>1, <2>2, <2>3, <2>4, Stored DEF RegisterCommit
<1>3. CASE IssueCommit(p, r)
  <2>1. /\ tx[p].email \in Email /\ users[tx[p].email] # "absent" /\ clock \in Nat
        /\ \A k \in RowsOf(tx[p].email, tx[p].purpose) : code[k].by = p => k \in tx[p].rows
        /\ \A k \in tx[p].rows : code[k].email = tx[p].email /\ code[k].purpose = tx[p].purpose
    BY <1>1, <1>3 DEF IssueCommit, LocalOK, IInv, TypeOK
  <2>2. \A k \in tx[p].rows \cap DOMAIN rows :
          rows[k].email = tx[p].email /\ rows[k].purpose = tx[p].purpose
    BY <2>1 DEF IInv, StoryOfRow
  <2>3. \A q \in Proc : q # p /\ pc[q] \in Holding => users'[tx[q].email] = "absent"
    BY <1>3 DEF IssueCommit, IInv, NotYet, Holding
  <2>4. users' = users /\ users \in [Email -> Account]
    BY <1>3 DEF IssueCommit, IInv, TypeOK
  <2> QED
    BY <1>3, <2>1, <2>2, <2>3, <2>4, Stored DEF IssueCommit
<1> QED
  BY <1>2, <1>3

-----------------------------------------------------------------------------
(* The steps that write a row or delete it.                                *)

LEMMA Guesses ==
  ASSUME IInv, NEW p \in Proc, WrongCommit(p)
  PROVE  IInv'
<1> DEFINE k0 == tx[p].row
           t0 == tx[p]
<1>1. CASE k0 \notin DOMAIN rows
  BY <1>1, Ends DEF WrongCommit
<1>2. CASE k0 \in DOMAIN rows
  <2>1. /\ k0 \in DOMAIN code /\ t0.now \in Nat /\ t0.attempts \in Nat
        /\ t0.now <= clock /\ t0 \in Tx
    BY DEF WrongCommit, IInv, LocalsOK, LocalOK, TypeOK, Tx
  <2>2. /\ DOMAIN rows' = DOMAIN rows /\ rows' = [k \in DOMAIN rows |-> rows'[k]]
        /\ \A k \in DOMAIN rows : k # k0 => rows'[k] = rows[k]
        /\ rows'[k0] = Punish(rows[k0], t0)
    BY <1>2 DEF WrongCommit
  <2>3. /\ DOMAIN code' = DOMAIN code /\ code' = [k \in DOMAIN code |-> code'[k]]
        /\ \A k \in DOMAIN code : k # k0 => code'[k] = code[k]
        /\ code'[k0] = [code[k0] EXCEPT !.wrong = @ + 1]
    BY <1>2, <2>1 DEF WrongCommit, IInv, TypeOK
  <2>4. /\ rows[k0] \in Row /\ code[k0] \in Story
    BY <1>2, <2>1 DEF IInv, TypeOK
  <2>5. /\ rows'[k0] \in Row
        /\ rows'[k0].email = rows[k0].email /\ rows'[k0].purpose = rows[k0].purpose
        /\ rows'[k0].attempts = t0.attempts
        /\ LockOut(t0.attempts) => rows'[k0].expires = t0.now
    BY <2>1, <2>2, <2>4 DEF Punish, Row
  <2>6. /\ code'[k0] \in Story
        /\ code'[k0].email = code[k0].email /\ code'[k0].purpose = code[k0].purpose
        /\ code'[k0].by = code[k0].by /\ code'[k0].used = code[k0].used
    BY <2>3, <2>4 DEF Story
  <2>7. /\ \A k \in DOMAIN rows : rows'[k].email = rows[k].email
                                  /\ rows'[k].purpose = rows[k].purpose
        /\ \A k \in DOMAIN code : /\ code'[k].email = code[k].email
                                  /\ code'[k].purpose = code[k].purpose
                                  /\ code'[k].by = code[k].by
                                  /\ code'[k].used = code[k].used
        /\ DOMAIN rows \subseteq DOMAIN code
    BY <2>2, <2>3, <2>5, <2>6 DEF IInv, TypeOK
  <2>8. /\ \A q \in Proc : pc'[q] = (IF q = p THEN "idle" ELSE pc[q])
        /\ \A q \in Proc : tx'[q] = (IF q = p THEN NoTx ELSE tx[q])
        /\ NoTx \in Tx /\ users' = users /\ mailed' = mailed /\ clock' = clock
    BY DEF WrongCommit, Goto, Finish, IInv, TypeOK, NoTx, Tx, Purpose
  <2>9. TypeOK'
    <3>1. code' \in [DOMAIN code' -> Story]
      BY <2>3, <2>6 DEF IInv, TypeOK
    <3>2. rows' \in [DOMAIN rows' -> Row]
      BY <2>2, <2>5 DEF IInv, TypeOK
    <3>3. pc' \in [Proc -> Phase] /\ tx' \in [Proc -> Tx]
      BY <2>8 DEF WrongCommit, Finish, Goto, IInv, TypeOK, Phase
    <3> QED
      BY <2>2, <2>3, <2>8, <3>1, <3>2, <3>3 DEF IInv, TypeOK
  <2>10. LocalsOK'
    <3>1. ASSUME NEW q \in Proc, q # p PROVE LocalOK(q, pc[q], tx[q])'
      <4>1. LocalOK(q, pc[q], tx[q]) /\ pc'[q] = pc[q] /\ tx'[q] = tx[q]
        BY <2>8, <3>1 DEF IInv, LocalsOK
      <4>2. \A k \in RowsOf(tx[q].email, tx[q].purpose)' : code'[k].by = q =>
              k \in RowsOf(tx[q].email, tx[q].purpose) /\ code[k].by = q
        BY <2>2, <2>7, <4>1 DEF RowsOf
      <4> HIDE DEF k0, t0
      <4> QED
        BY <2>3, <2>7, <2>8, <4>1, <4>2 DEF LocalOK
    <3>2. LocalOK(p, pc[p], tx[p])'
      BY <2>8 DEF LocalOK
    <3> QED
      BY <3>1, <3>2 DEF LocalsOK
  <2>11. EmailOwned' /\ NotYet'
    BY <2>8 DEF IInv, EmailOwned, NotYet
  <2>12. StoryOfRow' /\ AbsentHasNoRows' /\ OneRowPerRequest'
    BY <2>2, <2>7, <2>8 DEF IInv, StoryOfRow, AbsentHasNoRows, OneRowPerRequest
  <2>13. ExhaustedIsDead'
    <3>1. rows'[k0].attempts >= MaxAttempts => ~ rows'[k0].expires > clock'
      BY <2>1, <2>5, <2>8 DEF LockOut, IInv, TypeOK
    <3>2. \A k \in DOMAIN rows : k # k0 =>
            (rows'[k].attempts >= MaxAttempts => ~ Live(k)')
      BY <2>2, <2>8 DEF IInv, ExhaustedIsDead, Live
    <3> QED
      BY <2>2, <3>1, <3>2 DEF ExhaustedIsDead, Live
  <2>14. VerifiedByOwnCode' /\ AccountsGotTheirCode' /\ UnverifiedHasRow'
    <3>1. VerifiedByOwnCode' /\ AccountsGotTheirCode'
      BY <2>3, <2>7, <2>8 DEF IInv, VerifiedByOwnCode, AccountsGotTheirCode
    <3>2. \A e \in Email : RowsOf(e, "email_verification")' = RowsOf(e, "email_verification")
      BY <2>2, <2>7 DEF RowsOf
    <3> QED
      BY <2>8, <3>1, <3>2 DEF IInv, UnverifiedHasRow
  <2> QED
    BY <2>9, <2>10, <2>11, <2>12, <2>13, <2>14 DEF IInv
<1> QED
  BY <1>1, <1>2

LEMMA Consumes ==
  ASSUME IInv, NEW p \in Proc, ConsumeCommit(p)
  PROVE  IInv'
<1> DEFINE k0 == tx[p].row
           e0 == tx[p].email
           u0 == tx[p].purpose
<1>1. /\ k0 \in DOMAIN code /\ code[k0].email = e0 /\ code[k0].purpose = u0
      /\ e0 \in Email /\ users[e0] # "absent"
  BY DEF ConsumeCommit, IInv, LocalsOK, LocalOK
<1>2. /\ DOMAIN rows' = DOMAIN rows \ {k0} /\ rows' = [k \in DOMAIN rows' |-> rows'[k]]
      /\ \A k \in DOMAIN rows' : k \in DOMAIN rows /\ k # k0 /\ rows'[k] = rows[k]
  BY DEF ConsumeCommit
<1>3. /\ DOMAIN code' = DOMAIN code /\ code' = [k \in DOMAIN code |-> code'[k]]
      /\ \A k \in DOMAIN code : k # k0 => code'[k] = code[k]
      /\ code'[k0] = [code[k0] EXCEPT !.used = TRUE]
  BY <1>1 DEF ConsumeCommit, IInv, TypeOK
<1>4. code[k0] \in Story
  BY <1>1 DEF IInv, TypeOK
<1>5. /\ code'[k0] \in Story /\ code'[k0].used
      /\ code'[k0].email = e0 /\ code'[k0].purpose = u0 /\ code'[k0].by = code[k0].by
  BY <1>1, <1>3, <1>4 DEF Story
<1>6. /\ \A k \in DOMAIN code : /\ code'[k].email = code[k].email
                                /\ code'[k].purpose = code[k].purpose
                                /\ code'[k].by = code[k].by
                                /\ code[k].used => code'[k].used
      /\ DOMAIN rows \subseteq DOMAIN code
  BY <1>1, <1>3, <1>5 DEF IInv, TypeOK
<1>7. /\ \A q \in Proc : pc'[q] = (IF q = p THEN "idle" ELSE pc[q])
      /\ \A q \in Proc : tx'[q] = (IF q = p THEN NoTx ELSE tx[q])
      /\ NoTx \in Tx /\ mailed' = mailed /\ clock' = clock
  BY DEF ConsumeCommit, Goto, Finish, IInv, TypeOK, NoTx, Tx, Purpose
<1>8. /\ users' \in [Email -> Account]
      /\ \A e \in Email : users'[e] = users[e] \/
           (e = e0 /\ u0 = "email_verification" /\ users'[e] = "verified")
      /\ u0 = "email_verification" => users'[e0] = "verified"
  BY <1>1 DEF ConsumeCommit, IInv, TypeOK, Account
<1>9. TypeOK'
  <2>1. code' \in [DOMAIN code' -> Story]
    BY <1>3, <1>5 DEF IInv, TypeOK
  <2>2. rows' \in [DOMAIN rows' -> Row]
    BY <1>2 DEF IInv, TypeOK
  <2>3. pc' \in [Proc -> Phase] /\ tx' \in [Proc -> Tx]
    BY <1>7 DEF ConsumeCommit, Finish, Goto, IInv, TypeOK, Phase
  <2> QED
    BY <1>2, <1>3, <1>7, <1>8, <2>1, <2>2, <2>3 DEF IInv, TypeOK
<1>10. LocalsOK'
  <2>1. ASSUME NEW q \in Proc, q # p PROVE LocalOK(q, pc[q], tx[q])'
    <3>1. LocalOK(q, pc[q], tx[q]) /\ pc'[q] = pc[q] /\ tx'[q] = tx[q]
      BY <1>7, <2>1 DEF IInv, LocalsOK
    <3>2. \A k \in RowsOf(tx[q].email, tx[q].purpose)' : code'[k].by = q =>
            k \in RowsOf(tx[q].email, tx[q].purpose) /\ code[k].by = q
      BY <1>2, <1>6, <3>1 DEF RowsOf
    <3>3. \A e \in Email : users[e] # "absent" => users'[e] # "absent"
      BY <1>8
    <3> HIDE DEF k0, e0, u0
    <3> QED
      BY <1>3, <1>6, <1>7, <3>1, <3>2, <3>3 DEF LocalOK
  <2>2. LocalOK(p, pc[p], tx[p])'
    BY <1>7 DEF LocalOK
  <2> QED
    BY <2>1, <2>2 DEF LocalsOK
<1>11. EmailOwned' /\ NotYet'
  <2>1. EmailOwned'
    BY <1>7 DEF IInv, EmailOwned
  <2>2. ASSUME NEW q \in Proc, pc'[q] \in Holding PROVE users'[tx'[q].email] = "absent"
    <3>1. q # p /\ pc[q] \in Holding /\ tx'[q] = tx[q]
      BY <1>7, <2>2 DEF Holding
    <3>2. users[tx[q].email] = "absent" /\ tx[q].email \in Email
      BY <3>1 DEF IInv, NotYet, LocalsOK, LocalOK, Holding
    <3>3. tx[q].email # e0
      BY <1>1, <3>2
    <3> QED
      BY <1>8, <3>1, <3>2, <3>3
  <2> QED
    BY <2>1, <2>2 DEF NotYet, Holding
<1>12. StoryOfRow' /\ OneRowPerRequest'
  BY <1>2, <1>6 DEF IInv, StoryOfRow, OneRowPerRequest
<1>13. AbsentHasNoRows'
  <2>1. \A k \in DOMAIN rows : rows[k].email \in Email
    BY DEF IInv, TypeOK, Row
  <2> QED
    BY <1>2, <1>8, <2>1 DEF IInv, AbsentHasNoRows
<1>14. ExhaustedIsDead'
  BY <1>2, <1>7 DEF IInv, ExhaustedIsDead, Live
<1>15. VerifiedByOwnCode'
  <2> SUFFICES ASSUME NEW e \in Email, users'[e] = "verified"
               PROVE  \E k \in DOMAIN code' : /\ code'[k].email = e /\ code'[k].used
                                              /\ code'[k].purpose = "email_verification"
    BY DEF VerifiedByOwnCode
  <2>1. CASE users[e] = "verified"
    BY <1>3, <1>6, <2>1 DEF IInv, VerifiedByOwnCode
  <2>2. CASE users[e] # "verified"
    <3>1. e = e0 /\ u0 = "email_verification"
      BY <1>8, <2>2
    <3>2. /\ k0 \in DOMAIN code' /\ code'[k0].email = e0 /\ code'[k0].used
          /\ code'[k0].purpose = u0
      BY <1>1, <1>3, <1>5
    <3> HIDE DEF k0, e0, u0
    <3> QED
      BY <3>1, <3>2
  <2> QED
    BY <2>1, <2>2
<1>16. AccountsGotTheirCode'
  BY <1>1, <1>7, <1>8 DEF IInv, AccountsGotTheirCode
<1>17. UnverifiedHasRow'
  <2> SUFFICES ASSUME NEW e \in Email, users'[e] = "unverified"
               PROVE  RowsOf(e, "email_verification")' # {}
    BY DEF UnverifiedHasRow
  <2>1. users[e] = "unverified" /\ ~ (e = e0 /\ u0 = "email_verification")
    BY <1>8
  <2>2. PICK k \in RowsOf(e, "email_verification") : TRUE
    BY <2>1 DEF IInv, UnverifiedHasRow
  <2>3. k # k0
    BY <1>1, <2>1, <2>2 DEF RowsOf, IInv, StoryOfRow
  <2> QED
    BY <1>2, <2>2, <2>3 DEF RowsOf
<1> QED
  BY <1>9, <1>10, <1>11, <1>12, <1>13, <1>14, <1>15, <1>16, <1>17 DEF IInv

LEMMA Ticks ==
  ASSUME IInv, Tick
  PROVE  IInv'
<1>1. clock \in Nat /\ clock' = clock + 1 /\ UNCHANGED <<users, rows, code, mailed, pc, tx>>
  BY DEF Tick, IInv, TypeOK
<1>2. TypeOK'
  BY <1>1 DEF IInv, TypeOK
<1>3. \A q \in Proc : tx[q].now \in Nat
  BY DEF IInv, TypeOK, Tx
<1>4. LocalsOK'
  BY <1>1, <1>3 DEF IInv, LocalsOK, LocalOK, RowsOf
<1>5. ExhaustedIsDead'
  <2>1. \A r \in DOMAIN rows : rows[r].expires \in Nat
    BY DEF IInv, TypeOK, Row
  <2> QED
    BY <1>1, <2>1 DEF IInv, ExhaustedIsDead, Live
<1>6. /\ StoryOfRow' /\ EmailOwned' /\ NotYet' /\ AbsentHasNoRows' /\ OneRowPerRequest'
      /\ VerifiedByOwnCode' /\ AccountsGotTheirCode' /\ UnverifiedHasRow'
  BY <1>1 DEF IInv, StoryOfRow, EmailOwned, NotYet, AbsentHasNoRows, OneRowPerRequest,
              VerifiedByOwnCode, AccountsGotTheirCode, UnverifiedHasRow, RowsOf
<1> QED
  BY <1>2, <1>4, <1>5, <1>6 DEF IInv

-----------------------------------------------------------------------------
(* The invariant.                                                          *)

LEMMA InitInv == Init => IInv
<1> SUFFICES ASSUME Init PROVE IInv
  OBVIOUS
<1>1. DOMAIN rows = {} /\ DOMAIN code = {} /\ \A e \in Email : users[e] = "absent"
  BY DEF Init
<1>2. TypeOK
  <2>1. NoTx \in Tx /\ "idle" \in Phase
    BY DEF NoTx, Tx, Purpose, Phase
  <2>2. users \in [Email -> Account] /\ pc \in [Proc -> Phase] /\ tx \in [Proc -> Tx]
    BY <2>1 DEF Init, Account
  <2>3. rows \in [DOMAIN rows -> Row] /\ code \in [DOMAIN code -> Story]
    BY <1>1 DEF Init
  <2> QED
    BY <1>1, <2>2, <2>3 DEF TypeOK, Init
<1>3. LocalsOK
  BY DEF Init, LocalsOK, LocalOK
<1>4. EmailOwned /\ NotYet
  BY DEF Init, EmailOwned, NotYet
<1>5. /\ StoryOfRow /\ AbsentHasNoRows /\ OneRowPerRequest /\ ExhaustedIsDead
      /\ VerifiedByOwnCode /\ AccountsGotTheirCode /\ UnverifiedHasRow
  BY <1>1 DEF StoryOfRow, AbsentHasNoRows, OneRowPerRequest, ExhaustedIsDead,
              VerifiedByOwnCode, AccountsGotTheirCode, UnverifiedHasRow
<1> QED
  BY <1>2, <1>3, <1>4, <1>5 DEF IInv

LEMMA StepInv ==
  ASSUME IInv, [Next]_vars
  PROVE  IInv'
<1>1. CASE Tick
  BY <1>1, Ticks
<1>2. ASSUME NEW p \in Proc, Step(p) PROVE IInv'
  <2>1. CASE \E e \in Email : RegisterSelect(p, e)
    BY <2>1, RegisterReads
  <2>2. CASE RegisterFlush(p)
    <3>1. PICK e \in Email : TRUE
      BY <2>2 DEF RegisterFlush, IInv, LocalsOK, LocalOK
    <3> QED
      BY <2>2, <3>1, RegisterReads
  <2>3. CASE RegisterSendFails(p)
    BY <2>3, Ends DEF RegisterSendFails
  <2>4. CASE RegisterSends(p)
    <3>1. PICK e \in Email : TRUE
      BY <2>4 DEF RegisterSends, IInv, LocalsOK, LocalOK
    <3> QED
      BY <2>4, <3>1, RegisterReads
  <2>5. CASE \E r \in Id : RegisterCommit(p, r)
    BY <2>5, Stores
  <2>6. CASE \E e \in Email, purpose \in Purpose : IssueUser(p, e, purpose)
    BY <2>6, IssueReads
  <2>7. CASE IssueLatest(p) \/ IssueDelete(p)
    <3>1. PICK e \in Email, purpose \in Purpose : TRUE
      BY <2>7 DEF IssueLatest, IssueDelete, IInv, LocalsOK, LocalOK, TypeOK, Tx
    <3> QED
      BY <2>7, <3>1, IssueReads
  <2>8. CASE \E r \in Id : IssueCommit(p, r)
    BY <2>8, Stores
  <2>9. CASE \E e \in Email, purpose \in Purpose : CheckWrong(p, e, purpose)
    BY <2>9, CheckReads
  <2>10. CASE WrongCommit(p)
    BY <2>10, Guesses
  <2>11. CASE \E e \in Email, purpose \in Purpose : CheckRight(p, e, purpose)
    BY <2>11, CheckReads
  <2>12. CASE ConsumeCommit(p)
    BY <2>12, Consumes
  <2>13. CASE Crash(p)
    BY <2>13, Ends DEF Crash
  <2> QED
    BY <1>2, <2>1, <2>2, <2>3, <2>4, <2>5, <2>6, <2>7, <2>8, <2>9, <2>10, <2>11,
       <2>12, <2>13 DEF Step
<1>3. CASE UNCHANGED vars
  BY <1>3 DEF vars, IInv, TypeOK, StoryOfRow, LocalsOK, LocalOK, EmailOwned, NotYet,
         AbsentHasNoRows, OneRowPerRequest, ExhaustedIsDead, Live, VerifiedByOwnCode,
         AccountsGotTheirCode, UnverifiedHasRow, RowsOf
<1> QED
  BY <1>1, <1>2, <1>3 DEF Next

\* The invariant of the codes holds in every reachable state.
THEOREM Inductive == Spec => []IInv
BY InitInv, StepInv, PTL DEF Spec

\* Every variable has its type, for every instance.
THEOREM TypeCorrect == Spec => []TypeOK
<1>1. IInv => TypeOK
  BY DEF IInv
<1> QED
  BY <1>1, Inductive, PTL

\* Overlapping requests for a code leave at most one row each
\* (forgot_password, resend_verification_email).
THEOREM OneRow == Spec => []OneRowPerRequest
<1>1. IInv => OneRowPerRequest
  BY DEF IInv
<1> QED
  BY <1>1, Inductive, PTL

\* A code whose attempts are spent is dead (_check_and_consume_otp).
THEOREM ExhaustedDead == Spec => []ExhaustedIsDead
<1>1. IInv => ExhaustedIsDead
  BY DEF IInv
<1> QED
  BY <1>1, Inductive, PTL

\* Only a consumed verification code of its own email verifies an account
\* (verify_email).
THEOREM VerifiedOwn == Spec => []VerifiedByOwnCode
<1>1. IInv => VerifiedByOwnCode
  BY DEF IInv
<1> QED
  BY <1>1, Inductive, PTL

\* Every account was delivered its first code (_handle_new_email_registration).
THEOREM AccountsMailed == Spec => []AccountsGotTheirCode
<1>1. IInv => AccountsGotTheirCode
  BY DEF IInv
<1> QED
  BY <1>1, Inductive, PTL

\* An unverified account always has a code row of its own
\* (resend_verification_email).
THEOREM UnverifiedKeepsRow == Spec => []UnverifiedHasRow
<1>1. IInv => UnverifiedHasRow
  BY DEF IInv
<1> QED
  BY <1>1, Inductive, PTL

-----------------------------------------------------------------------------
(* Dead codes.                                                             *)

\* The action form of DeadCodeStaysDead.
NoRevival == \A r \in DOMAIN code : ~ Live(r) => ~ Live(r)'

LEMMA StepNoRevival ==
  ASSUME IInv, [Next]_vars
  PROVE  NoRevival
<1>1. ASSUME UNCHANGED <<rows, clock>> PROVE NoRevival
  BY <1>1 DEF NoRevival, Live
<1>2. CASE Tick
  <2>1. clock \in Nat /\ clock' = clock + 1 /\ rows' = rows
    BY <1>2 DEF Tick, IInv, TypeOK
  <2>2. \A r \in DOMAIN rows : rows[r].expires \in Nat
    BY DEF IInv, TypeOK, Row
  <2> QED
    BY <2>1, <2>2 DEF NoRevival, Live
<1>3. ASSUME NEW p \in Proc, Step(p) PROVE NoRevival
  <2>1. CASE \E r \in Id : RegisterCommit(p, r) \/ IssueCommit(p, r)
    <3>1. PICK r \in Id : RegisterCommit(p, r) \/ IssueCommit(p, r)
      BY <2>1
    <3>2. LocalOK(p, pc[p], tx[p]) /\ tx[p].now \in Nat /\ clock \in Nat
      BY DEF IInv, LocalsOK, TypeOK, Tx
    <3>3. tx[p].email \in Email /\ clock' = clock
      BY <3>1, <3>2 DEF RegisterCommit, IssueCommit, LocalOK
    <3>4. \/ Store(p, r, {}, tx[p].now)
          \/ Store(p, r, tx[p].rows, clock)
      BY <3>1 DEF RegisterCommit, IssueCommit
    <3>5. r \notin DOMAIN code
          /\ \A k \in DOMAIN rows' : k # r => rows'[k] = rows[k] /\ k \in DOMAIN rows
      BY <3>2, <3>3, <3>4, StoreTable
    <3> QED
      BY <3>3, <3>5 DEF NoRevival, Live
  <2>2. CASE WrongCommit(p)
    <3> DEFINE k0 == tx[p].row
    <3>1. /\ tx[p].now \in Nat /\ tx[p].now <= clock /\ clock' = clock /\ clock \in Nat
      BY <2>2 DEF WrongCommit, IInv, LocalsOK, LocalOK, TypeOK, Tx
    <3>2. CASE k0 \in DOMAIN rows
      <4>1. rows[k0] \in Row
        BY <3>2 DEF IInv, TypeOK
      <4>2. /\ DOMAIN rows' = DOMAIN rows
            /\ \A k \in DOMAIN rows : k # k0 => rows'[k] = rows[k]
            /\ rows'[k0] = Punish(rows[k0], tx[p])
        BY <2>2, <3>2 DEF WrongCommit
      <4>3. rows'[k0].expires = tx[p].now \/ rows'[k0].expires = rows[k0].expires
        BY <4>1, <4>2 DEF Punish, Row
      <4> QED
        BY <3>1, <4>2, <4>3 DEF NoRevival, Live
    <3>3. CASE k0 \notin DOMAIN rows
      BY <1>1, <2>2, <3>3 DEF WrongCommit
    <3> QED
      BY <3>2, <3>3
  <2>3. CASE ConsumeCommit(p)
    BY <2>3 DEF ConsumeCommit, NoRevival, Live
  <2>4. CASE ~ \/ \E r \in Id : RegisterCommit(p, r) \/ IssueCommit(p, r)
               \/ WrongCommit(p) \/ ConsumeCommit(p)
    BY <1>1, <1>3, <2>4 DEF Step, RegisterSelect, RegisterFlush, RegisterSendFails,
       RegisterSends, IssueUser, IssueLatest, IssueDelete, CheckWrong, CheckRight, Crash
  <2> QED
    BY <2>1, <2>2, <2>3, <2>4
<1>4. CASE UNCHANGED vars
  BY <1>1, <1>4 DEF vars
<1> QED
  BY <1>2, <1>3, <1>4 DEF Next

\* A code that is dead stays dead, whatever a request that read it earlier
\* still writes (_check_and_consume_otp).
THEOREM DeadStays == Spec => DeadCodeStaysDead
<1>1. IInv /\ [Next]_vars => [NoRevival]_vars
  BY StepNoRevival
<1>2. DeadCodeStaysDead <=> [][NoRevival]_vars
  BY DEF DeadCodeStaysDead, NoRevival
<1> QED
  BY <1>1, <1>2, Inductive, PTL DEF Spec
-----------------------------------------------------------------------------
(* The budget of a code.                                                   *)

\* No two wrong guesses of one code are between the reading of attempts and
\* the commit of its successor.
GuessesApart ==
    \A p, q \in Proc :
      pc[p] = "wrong" /\ pc[q] = "wrong" /\ tx[p].row = tx[q].row => p = q

\* attempts counts the wrong guesses of a row, and a guess in flight will
\* count itself within the budget.
GuessesCounted ==
    /\ \A r \in DOMAIN rows : code[r].wrong = rows[r].attempts
    /\ \A p \in Proc : pc[p] = "wrong" /\ tx[p].row \in DOMAIN rows =>
         /\ tx[p].attempts = rows[tx[p].row].attempts + 1
         /\ tx[p].attempts <= MaxAttempts

\* A request whose guess is in flight has read its row, or has just read a
\* live one.
LEMMA GuessMoves ==
  ASSUME IInv, [Next]_vars, NEW q \in Proc, pc'[q] = "wrong"
  PROVE  \/ pc[q] = "wrong" /\ tx'[q] = tx[q]
         \/ /\ UNCHANGED <<rows, code>> /\ tx'[q].row \in DOMAIN rows
            /\ tx'[q].attempts = rows[tx'[q].row].attempts + 1
            /\ tx'[q].attempts <= MaxAttempts
<1>1. pc \in [Proc -> Phase] /\ tx \in [Proc -> Tx]
  BY DEF IInv, TypeOK
<1>2. ASSUME NEW p \in Proc, NEW phase, NEW t, Goto(p, phase, t), p # q \/ phase # "wrong"
      PROVE  pc[q] = "wrong" /\ tx'[q] = tx[q]
  BY <1>1, <1>2 DEF Goto
<1>3. ASSUME NEW p \in Proc, NEW e \in Email, NEW purpose \in Purpose,
             CheckWrong(p, e, purpose), p = q
      PROVE  /\ UNCHANGED <<rows, code>> /\ tx'[q].row \in DOMAIN rows
             /\ tx'[q].attempts = rows[tx'[q].row].attempts + 1
             /\ tx'[q].attempts <= MaxAttempts
  <2>1. PICK r \in LiveOf(e, purpose) :
          Goto(p, "wrong", [email |-> e, purpose |-> purpose, row |-> r,
                            attempts |-> rows[r].attempts + 1, now |-> clock,
                            rows |-> {}])
    BY <1>3 DEF CheckWrong
  <2>2. r \in DOMAIN rows /\ rows[r].attempts \in Nat /\ Live(r)
    BY DEF LiveOf, RowsOf, IInv, TypeOK, Row
  <2>3. rows[r].attempts < MaxAttempts
    BY <2>2, ConstantsAssumption DEF IInv, ExhaustedIsDead
  <2>4. tx'[q].row = r /\ tx'[q].attempts = rows[r].attempts + 1
    BY <1>1, <1>3, <2>1 DEF Goto
  <2> QED
    BY <1>3, <2>2, <2>3, <2>4, ConstantsAssumption DEF CheckWrong
<1>4. ASSUME NEW p \in Proc, NEW e \in Email, NEW purpose \in Purpose,
             CheckWrong(p, e, purpose), p # q
      PROVE  pc[q] = "wrong" /\ tx'[q] = tx[q]
  BY <1>2, <1>4 DEF CheckWrong
<1>5. ASSUME NEW p \in Proc, Finish(p) PROVE pc[q] = "wrong" /\ tx'[q] = tx[q]
  BY <1>2, <1>5 DEF Finish
<1>6. ASSUME NEW p \in Proc, Step(p),
             ~ \E e \in Email, purpose \in Purpose : CheckWrong(p, e, purpose)
      PROVE  pc[q] = "wrong" /\ tx'[q] = tx[q]
  <2>1. CASE \/ RegisterSendFails(p) \/ WrongCommit(p) \/ ConsumeCommit(p) \/ Crash(p)
             \/ \E r \in Id : RegisterCommit(p, r) \/ IssueCommit(p, r)
    BY <1>5, <2>1 DEF RegisterSendFails, WrongCommit, ConsumeCommit, Crash,
                      RegisterCommit, IssueCommit
  <2>2. CASE RegisterFlush(p) \/ IssueLatest(p) \/ IssueDelete(p) \/ RegisterSends(p)
    BY <1>2, <1>5, <2>2 DEF RegisterFlush, IssueLatest, IssueDelete, RegisterSends
  <2>3. CASE \/ \E e \in Email : RegisterSelect(p, e)
             \/ \E e \in Email, purpose \in Purpose : IssueUser(p, e, purpose)
    <3>1. \E t : Goto(p, "flush", t) \/ Goto(p, "latest", t)
      BY <2>3 DEF RegisterSelect, IssueUser
    <3> QED
      BY <1>2, <3>1
  <2>4. CASE \E e \in Email, purpose \in Purpose : CheckRight(p, e, purpose)
    <3>1. \E t : Goto(p, "consume", t)
      BY <2>4 DEF CheckRight
    <3> QED
      BY <1>2, <3>1
  <2> QED
    BY <1>6, <2>1, <2>2, <2>3, <2>4 DEF Step
<1>7. CASE Tick \/ UNCHANGED vars
  BY <1>7 DEF Tick, vars
<1> QED
  BY <1>3, <1>4, <1>6, <1>7 DEF Next

\* A code is stored with its budget untouched.
LEMMA FreshCode ==
  ASSUME NEW p, NEW r, NEW gone, NEW created, Store(p, r, gone, created)
  PROVE  rows'[r].attempts = 0 /\ code'[r].wrong = 0
<1>1. rows'[r] = NewRow(tx[p], created) /\ code'[r].wrong = 0
  BY DEF Store
<1> QED
  BY <1>1 DEF NewRow

\* What a step does to a row and to the guesses answered for its code.
LEMMA GuessTable ==
  ASSUME IInv, [Next]_vars
  PROVE  /\ \A r \in DOMAIN rows' :
              \/ r \notin DOMAIN code /\ rows'[r].attempts = 0 /\ code'[r].wrong = 0
              \/ /\ r \in DOMAIN rows
                 /\ rows'[r].attempts = rows[r].attempts
                 /\ code'[r].wrong = code[r].wrong
              \/ \E p \in Proc : /\ pc[p] = "wrong" /\ pc'[p] = "idle"
                                 /\ tx[p].row = r /\ r \in DOMAIN rows
                                 /\ rows'[r].attempts = tx[p].attempts
                                 /\ code'[r].wrong = code[r].wrong + 1
         /\ \A r \in DOMAIN code' :
              \/ r \notin DOMAIN code /\ code'[r].wrong = 0
              \/ r \in DOMAIN code /\ code'[r].wrong = code[r].wrong
              \/ \E p \in Proc : /\ pc[p] = "wrong" /\ tx[p].row = r
                                 /\ r \in DOMAIN rows
                                 /\ code'[r].wrong = code[r].wrong + 1
<1> DEFINE Rows(r) ==
              \/ r \notin DOMAIN code /\ rows'[r].attempts = 0 /\ code'[r].wrong = 0
              \/ /\ r \in DOMAIN rows
                 /\ rows'[r].attempts = rows[r].attempts
                 /\ code'[r].wrong = code[r].wrong
              \/ \E p \in Proc : /\ pc[p] = "wrong" /\ pc'[p] = "idle"
                                 /\ tx[p].row = r /\ r \in DOMAIN rows
                                 /\ rows'[r].attempts = tx[p].attempts
                                 /\ code'[r].wrong = code[r].wrong + 1
           Codes(r) ==
              \/ r \notin DOMAIN code /\ code'[r].wrong = 0
              \/ r \in DOMAIN code /\ code'[r].wrong = code[r].wrong
              \/ \E p \in Proc : /\ pc[p] = "wrong" /\ tx[p].row = r
                                 /\ r \in DOMAIN rows
                                 /\ code'[r].wrong = code[r].wrong + 1
           Kept == (\A r \in DOMAIN rows' : Rows(r)) /\ (\A r \in DOMAIN code' : Codes(r))
<1>1. DOMAIN rows \subseteq DOMAIN code
  BY DEF IInv, TypeOK
<1>2. ASSUME UNCHANGED <<rows, code>> PROVE Kept
  BY <1>2
<1>3. ASSUME NEW p \in Proc, NEW r \in Id, RegisterCommit(p, r) \/ IssueCommit(p, r)
      PROVE  Kept
  <2>1. LocalOK(p, pc[p], tx[p]) /\ tx[p].now \in Nat /\ clock \in Nat
    BY DEF IInv, LocalsOK, TypeOK, Tx
  <2>2. tx[p].email \in Email
    BY <1>3, <2>1 DEF RegisterCommit, IssueCommit, LocalOK
  <2>3. \/ Store(p, r, {}, tx[p].now)
        \/ Store(p, r, tx[p].rows, clock)
    BY <1>3 DEF RegisterCommit, IssueCommit
  <2>4. /\ r \notin DOMAIN code /\ DOMAIN code' = DOMAIN code \cup {r}
        /\ \A k \in DOMAIN rows' : k # r => rows'[k] = rows[k] /\ k \in DOMAIN rows
        /\ \A k \in DOMAIN code : code'[k] = code[k]
        /\ rows'[r].attempts = 0 /\ code'[r].wrong = 0
    <3>1. \E gone, created : created \in Nat /\ Store(p, r, gone, created)
      BY <2>1, <2>3
    <3>2. PICK gone, created : created \in Nat /\ Store(p, r, gone, created)
      BY <3>1
    <3>3. /\ r \notin DOMAIN code /\ DOMAIN code' = DOMAIN code \cup {r}
          /\ \A k \in DOMAIN rows' : k # r => rows'[k] = rows[k] /\ k \in DOMAIN rows
          /\ \A k \in DOMAIN code : code'[k] = code[k]
      BY <2>2, <3>2, StoreTable
    <3>4. rows'[r].attempts = 0 /\ code'[r].wrong = 0
      BY <3>2, FreshCode
    <3> QED
      BY <3>3, <3>4
  <2>5. ASSUME NEW k \in DOMAIN rows' PROVE Rows(k)
    BY <1>1, <2>4
  <2>6. ASSUME NEW k \in DOMAIN code' PROVE Codes(k)
    BY <2>4
  <2> QED
    BY <2>5, <2>6
<1>4. ASSUME NEW p \in Proc, WrongCommit(p), tx[p].row \in DOMAIN rows PROVE Kept
  <2> DEFINE k0 == tx[p].row
  <2>1. /\ rows[k0] \in Row /\ code[k0] \in Story /\ k0 \in DOMAIN code
        /\ tx[p].attempts \in Nat
    BY <1>1, <1>4 DEF IInv, TypeOK, Tx
  <2>2. /\ DOMAIN rows' = DOMAIN rows /\ DOMAIN code' = DOMAIN code
        /\ \A k \in DOMAIN rows : k # k0 => rows'[k] = rows[k]
        /\ \A k \in DOMAIN code : k # k0 => code'[k] = code[k]
        /\ rows'[k0] = Punish(rows[k0], tx[p])
        /\ code'[k0] = [code[k0] EXCEPT !.wrong = @ + 1]
    BY <1>4, <2>1 DEF WrongCommit
  <2>3. rows'[k0].attempts = tx[p].attempts /\ code'[k0].wrong = code[k0].wrong + 1
    BY <2>1, <2>2 DEF Punish, Row, Story
  <2>4. pc[p] = "wrong" /\ pc'[p] = "idle"
    BY <1>4 DEF WrongCommit, Finish, Goto, IInv, TypeOK
  <2> HIDE DEF k0
  <2>5. k0 = tx[p].row /\ k0 \in DOMAIN rows
    BY <1>4 DEF k0
  <2>6. Rows(k0) /\ Codes(k0)
    BY <2>3, <2>4, <2>5
  <2>7. ASSUME NEW k \in DOMAIN rows', k # k0 PROVE Rows(k)
    BY <1>1, <2>2, <2>7
  <2>8. ASSUME NEW k \in DOMAIN code', k # k0 PROVE Codes(k)
    BY <2>2, <2>8
  <2> QED
    BY <2>6, <2>7, <2>8
<1>5. ASSUME NEW p \in Proc, ConsumeCommit(p) PROVE Kept
  <2> DEFINE k0 == tx[p].row
  <2>1. k0 \in DOMAIN code /\ code[k0] \in Story
    BY <1>5 DEF ConsumeCommit, IInv, LocalsOK, LocalOK, TypeOK
  <2>2. /\ DOMAIN rows' \subseteq DOMAIN rows /\ DOMAIN code' = DOMAIN code
        /\ \A k \in DOMAIN rows' : rows'[k] = rows[k]
        /\ \A k \in DOMAIN code : k # k0 => code'[k] = code[k]
        /\ code'[k0] = [code[k0] EXCEPT !.used = TRUE]
    BY <1>5, <2>1 DEF ConsumeCommit
  <2>3. \A k \in DOMAIN code : code'[k].wrong = code[k].wrong
    BY <2>1, <2>2 DEF Story
  <2> QED
    BY <1>1, <2>2, <2>3
<1>6. ASSUME NEW p \in Proc, Step(p), ~ ConsumeCommit(p),
             ~ (WrongCommit(p) /\ tx[p].row \in DOMAIN rows),
             ~ \E r \in Id : RegisterCommit(p, r) \/ IssueCommit(p, r)
      PROVE  UNCHANGED <<rows, code>>
  BY <1>6 DEF Step, RegisterSelect, RegisterFlush, RegisterSendFails, RegisterSends,
     IssueUser, IssueLatest, IssueDelete, CheckWrong, CheckRight, WrongCommit, Crash
<1>7. CASE Tick \/ UNCHANGED vars
  BY <1>2, <1>7 DEF Tick, vars
<1>8. Kept
  BY <1>2, <1>3, <1>4, <1>5, <1>6, <1>7 DEF Next
<1> QED
  BY <1>8

LEMMA BudgetStep ==
  IInv /\ GuessesCounted /\ BudgetHolds /\ GuessesApart /\ [Next]_vars
    => GuessesCounted' /\ BudgetHolds'
<1> SUFFICES ASSUME IInv, GuessesCounted, BudgetHolds, GuessesApart, [Next]_vars
             PROVE  GuessesCounted' /\ BudgetHolds'
  OBVIOUS
<1>1. /\ \A r \in DOMAIN rows : /\ code[r].wrong = rows[r].attempts
                                /\ rows[r].attempts \in Nat
      /\ \A r \in DOMAIN code : code[r].wrong \in Nat
      /\ DOMAIN rows \subseteq DOMAIN code /\ MaxAttempts \in Nat
      /\ \A p \in Proc : pc[p] = "wrong" /\ tx[p].row \in DOMAIN rows =>
           /\ tx[p].attempts = rows[tx[p].row].attempts + 1
           /\ tx[p].attempts <= MaxAttempts
  BY ConstantsAssumption DEF GuessesCounted, IInv, TypeOK, Row, Story
<1>2. \A r \in DOMAIN rows' : code'[r].wrong = rows'[r].attempts
  BY <1>1, GuessTable
<1>3. ASSUME NEW p \in Proc, pc'[p] = "wrong", tx'[p].row \in DOMAIN rows'
      PROVE  /\ tx'[p].attempts = rows'[tx'[p].row].attempts + 1
             /\ tx'[p].attempts <= MaxAttempts
  <2>1. CASE pc[p] = "wrong" /\ tx'[p] = tx[p]
    <3> DEFINE r == tx[p].row
    <3>1. r \in DOMAIN code
      BY <2>1 DEF IInv, LocalsOK, LocalOK
    <3>2. \A q \in Proc : pc[q] = "wrong" /\ tx[q].row = r => q = p
      BY <2>1 DEF GuessesApart
    <3>3. pc'[p] # "idle"
      BY <1>3
    <3>4. r \in DOMAIN rows /\ rows'[r].attempts = rows[r].attempts
      BY <1>3, <2>1, <3>1, <3>2, <3>3, GuessTable
    <3> QED
      BY <1>1, <2>1, <3>4
  <2>2. CASE /\ UNCHANGED <<rows, code>> /\ tx'[p].row \in DOMAIN rows
             /\ tx'[p].attempts = rows[tx'[p].row].attempts + 1
             /\ tx'[p].attempts <= MaxAttempts
    BY <2>2
  <2> QED
    BY <1>3, <2>1, <2>2, GuessMoves
<1>4. BudgetHolds'
  <2> SUFFICES ASSUME NEW r \in DOMAIN code' PROVE code'[r].wrong <= MaxAttempts
    BY DEF BudgetHolds
  <2>1. ASSUME NEW p \in Proc, pc[p] = "wrong", tx[p].row = r, r \in DOMAIN rows
        PROVE  code[r].wrong + 1 <= MaxAttempts
    BY <1>1, <2>1
  <2> QED
    BY <1>1, <2>1, GuessTable DEF BudgetHolds
<1> QED
  BY <1>2, <1>3, <1>4 DEF GuessesCounted

LEMMA InitGuesses == Init => GuessesCounted /\ BudgetHolds
BY DEF Init, GuessesCounted, BudgetHolds

\* As long as no two guesses of one code overlap between their reading and
\* their writing of attempts, no code answers more than MaxAttempts wrong
\* guesses, whatever rotations, consumptions, expiries and crashes they meet:
\* the lost update of _check_and_consume_otp is the only way past the budget.
THEOREM GuessesApartKeepBudget == Spec /\ []GuessesApart => []BudgetHolds
BY InitGuesses, BudgetStep, Inductive, PTL DEF Spec
=============================================================================
