------------------------ MODULE OtpRefinementProofs ------------------------
(***************************************************************************)
(* OtpCodes implements OneTimeCodes, for every value of the constants:     *)
(* each statement of an endpoint is a step of the codes and the accounts   *)
(* or leaves them as they are.                                             *)
(***************************************************************************)
EXTENDS OtpRefinement, OtpCodesProofs

\* The state a code is mapped to, one code at a time.
LEMMA Mapped ==
  ASSUME IInv
  PROVE  /\ \A r : r \in live <=> r \in DOMAIN rows /\ rows[r].expires > clock
         /\ \A r : r \in held <=> \E p \in Proc : pc[p] = "consume" /\ tx[p].row = r
         /\ \A r : r \in used <=> r \in DOMAIN code /\ code[r].used
         /\ DOMAIN owner = DOMAIN code /\ DOMAIN rows \subseteq DOMAIN code
         /\ \A r \in DOMAIN code : owner[r] = <<code[r].email, code[r].purpose>>
BY DEF live, held, used, owner, Live, IInv, TypeOK

LEMMA CodesInit == Init => Codes!Init
<1> SUFFICES ASSUME Init PROVE Codes!Init
  OBVIOUS
<1>1. DOMAIN code = {} /\ DOMAIN rows = {} /\ \A p \in Proc : pc[p] # "consume"
  BY DEF Init
<1>2. owner = [r \in {} |-> <<>>]
  BY <1>1 DEF owner
<1>3. live = {} /\ held = {} /\ used = {}
  BY <1>1 DEF live, held, used
<1> QED
  BY <1>2, <1>3 DEF Init, Codes!Init

-----------------------------------------------------------------------------
(* What a request holds.                                                   *)

\* A request that goes anywhere but to a consumption drops at most what it
\* held.
LEMMA HeldDrops ==
  ASSUME IInv, NEW p \in Proc, NEW phase, NEW t, Goto(p, phase, t), phase # "consume"
  PROVE  /\ held' = held \/ held' = held \ {tx[p].row}
         /\ pc[p] # "consume" => held' = held
<1>1. /\ \A q \in Proc : pc'[q] = (IF q = p THEN phase ELSE pc[q])
      /\ \A q \in Proc : tx'[q] = (IF q = p THEN t ELSE tx[q])
  BY DEF Goto, IInv, TypeOK
<1>2. held' = {r \in held : \E q \in Proc : q # p /\ pc[q] = "consume" /\ tx[q].row = r}
  <2>1. \A r : r \in held' <=> \E q \in Proc : pc'[q] = "consume" /\ tx'[q].row = r
    BY DEF held
  <2>2. \A r : r \in held <=> \E q \in Proc : pc[q] = "consume" /\ tx[q].row = r
    BY DEF held
  <2>3. ASSUME NEW r
        PROVE  r \in held' <=> \E q \in Proc : q # p /\ pc[q] = "consume" /\ tx[q].row = r
    BY <1>1, <2>1
  <2> QED
    BY <2>2, <2>3
<1>3. ASSUME NEW r \in held, ~ \E q \in Proc : q # p /\ pc[q] = "consume" /\ tx[q].row = r
      PROVE  pc[p] = "consume" /\ tx[p].row = r
  BY <1>3 DEF held
<1> QED
  BY <1>2, <1>3

\* A step that only moves a request to such a place abandons what it held.
LEMMA MoveAbandons ==
  ASSUME IInv, NEW p \in Proc, NEW phase, NEW t, Goto(p, phase, t), phase # "consume",
         UNCHANGED <<clock, users, rows, code>>
  PROVE  [Codes!Next]_Codes!vars
<1>1. UNCHANGED <<users, owner, live, used>>
  BY DEF owner, live, used, Live
<1>2. CASE held' = held
  BY <1>1, <1>2 DEF Codes!vars
<1>3. CASE held' # held
  <2>1. pc[p] = "consume" /\ held' = held \ {tx[p].row}
    BY <1>3, HeldDrops
  <2>2. tx[p].row \in Id
    BY <2>1 DEF IInv, LocalsOK, LocalOK, TypeOK
  <2> QED
    BY <1>1, <2>1, <2>2 DEF Codes!Next, Codes!Abandon
<1> QED
  BY <1>2, <1>3

\* Reading a live row with the right code is its acceptance.
LEMMA CheckAccepts ==
  ASSUME IInv, NEW p \in Proc, NEW e \in Email, NEW purpose \in Purpose,
         CheckRight(p, e, purpose)
  PROVE  [Codes!Next]_Codes!vars
<1>1. PICK r \in LiveOf(e, purpose) :
        Goto(p, "consume", [NoTx EXCEPT !.email = e, !.purpose = purpose, !.row = r])
  BY DEF CheckRight
<1>2. r \in live /\ r \in Id
  BY DEF LiveOf, RowsOf, live, IInv, TypeOK
<1>3. UNCHANGED <<users, owner, live, used>>
  BY DEF CheckRight, owner, live, used, Live
<1>4. /\ \A q \in Proc : pc'[q] = (IF q = p THEN "consume" ELSE pc[q])
      /\ \A q \in Proc : q # p => tx'[q] = tx[q]
      /\ tx'[p].row = r /\ pc[p] = "idle"
  BY <1>1 DEF CheckRight, Goto, IInv, TypeOK, NoTx
<1>5. held' = held \cup {r}
  <2>1. \A k : k \in held' <=> \E q \in Proc : pc'[q] = "consume" /\ tx'[q].row = k
    BY DEF held
  <2>2. \A k : k \in held <=> \E q \in Proc : pc[q] = "consume" /\ tx[q].row = k
    BY DEF held
  <2>3. ASSUME NEW k PROVE k \in held' <=> k \in held \/ k = r
    BY <1>4, <2>1, <2>2
  <2> QED
    BY <2>3
<1> QED
  BY <1>2, <1>3, <1>5 DEF Codes!Next, Codes!Accept

-----------------------------------------------------------------------------
(* The steps that store a code.                                            *)

\* A Store issues its code to the email and purpose of the request.
LEMMA StoreIssues ==
  ASSUME IInv, NEW p \in Proc, NEW r \in Id, NEW gone, NEW created \in Nat,
         tx[p].email \in Email, Store(p, r, gone, created),
         Finish(p), pc[p] # "consume", clock' = clock
  PROVE  /\ Codes!Issue(tx[p].email, tx[p].purpose, r)
         /\ live' = (live \ gone) \cup
                    (IF created + TTL(tx[p].purpose) > clock THEN {r} ELSE {})
<1>1. /\ r \notin DOMAIN code /\ r \notin DOMAIN rows
      /\ DOMAIN rows' = (DOMAIN rows \ gone) \cup {r}
      /\ DOMAIN code' = DOMAIN code \cup {r}
      /\ \A k \in DOMAIN rows' : k # r => rows'[k] = rows[k] /\ k \in DOMAIN rows
      /\ \A k \in DOMAIN code : code'[k] = code[k]
  BY StoreTable
<1>2. /\ rows'[r].expires = created + TTL(tx[p].purpose)
      /\ code'[r].email = tx[p].email /\ code'[r].purpose = tx[p].purpose
      /\ ~ code'[r].used
  <2>1. /\ rows'[r] = NewRow(tx[p], created)
        /\ code'[r] = [email |-> tx[p].email, purpose |-> tx[p].purpose,
                       by |-> p, wrong |-> 0, used |-> FALSE]
    BY <1>1 DEF Store
  <2> QED
    BY <2>1 DEF NewRow
<1>3. owner' = [k \in DOMAIN owner \cup {r} |->
                  IF k = r THEN <<tx[p].email, tx[p].purpose>> ELSE owner[k]]
  BY <1>1, <1>2 DEF owner
<1>4. held' = held
  BY HeldDrops DEF Finish
<1>5. used' = used
  BY <1>1, <1>2 DEF used
<1>6. ASSUME NEW k
      PROVE  k \in live' <=> \/ k \in live \ gone
                             \/ k = r /\ created + TTL(tx[p].purpose) > clock
  BY <1>1, <1>2 DEF live, Live
<1> QED
  BY <1>1, <1>3, <1>4, <1>5, <1>6 DEF Codes!Issue, owner

\* The COMMIT of register is the appearance of the account.
LEMMA RegisterAppears ==
  ASSUME IInv, NEW p \in Proc, NEW r \in Id, RegisterCommit(p, r)
  PROVE  Codes!Next
<1> DEFINE e == tx[p].email
<1>1. /\ e \in Email /\ tx[p].purpose = "email_verification" /\ pc[p] = "created"
      /\ users[e] = "absent" /\ tx[p].now \in Nat
  BY DEF RegisterCommit, IInv, LocalsOK, LocalOK, NotYet, TypeOK, Tx
<1>2. /\ Codes!Issue(e, "email_verification", r)
      /\ live' = (live \ {}) \cup
                 (IF tx[p].now + TTL(tx[p].purpose) > clock THEN {r} ELSE {})
  BY <1>1, StoreIssues DEF RegisterCommit
<1>3. live' \in {live, live \cup {r}}
  BY <1>2
<1>4. Codes!Register(e, r)
  BY <1>1, <1>2, <1>3 DEF RegisterCommit, Codes!Register
<1> QED
  BY <1>1, <1>4 DEF Codes!Next

\* The COMMIT of a resend or of forgot-password is a rotation, and its code is
\* live.
LEMMA IssueRotates ==
  ASSUME IInv, NEW p \in Proc, NEW r \in Id, IssueCommit(p, r)
  PROVE  Codes!Next
<1> DEFINE e == tx[p].email
           u == tx[p].purpose
<1>1. /\ e \in Email /\ u \in Purpose /\ pc[p] = "rotate" /\ users[e] # "absent"
      /\ \A k \in tx[p].rows : /\ k \in DOMAIN code
                               /\ code[k].email = e /\ code[k].purpose = u
      /\ clock \in Nat
  BY DEF IssueCommit, IInv, LocalsOK, LocalOK, TypeOK, Tx
<1>2. clock + TTL(u) > clock
  BY <1>1, ConstantsAssumption DEF TTL
<1>3. Codes!Issue(e, u, r) /\ live' = (live \ tx[p].rows) \cup {r}
  BY <1>1, <1>2, StoreIssues DEF IssueCommit
<1>4. tx[p].rows \in SUBSET Codes!CodesOf(e, u)
  BY <1>1 DEF Codes!CodesOf, owner
<1>5. Codes!Rotate(e, u, r)
  BY <1>1, <1>3, <1>4 DEF IssueCommit, Codes!Rotate
<1> QED
  BY <1>1, <1>5 DEF Codes!Next, Codes!Purpose, Purpose

-----------------------------------------------------------------------------
(* The other steps that write.                                             *)

\* A wrong guess locks its code out or changes nothing that is promised.
LEMMA WrongLocksOut ==
  ASSUME IInv, NEW p \in Proc, WrongCommit(p), tx[p].row \in DOMAIN rows
  PROVE  [Codes!Next]_Codes!vars
<1> DEFINE k0 == tx[p].row
<1>1. /\ rows[k0] \in Row /\ code[k0] \in Story /\ k0 \in DOMAIN code
      /\ tx[p].now <= clock /\ tx[p].now \in Nat /\ clock \in Nat /\ pc[p] = "wrong"
  BY DEF WrongCommit, IInv, TypeOK, Tx, LocalsOK, LocalOK
<1>2. /\ DOMAIN rows' = DOMAIN rows /\ DOMAIN code' = DOMAIN code
      /\ \A k \in DOMAIN rows : k # k0 => rows'[k] = rows[k]
      /\ \A k \in DOMAIN code : k # k0 => code'[k] = code[k]
      /\ rows'[k0] = Punish(rows[k0], tx[p])
      /\ code'[k0] = [code[k0] EXCEPT !.wrong = @ + 1]
      /\ users' = users /\ clock' = clock
  BY <1>1 DEF WrongCommit
<1>3. rows'[k0].expires \in {rows[k0].expires, tx[p].now}
  BY <1>1, <1>2 DEF Punish, Row
<1>4. /\ code'[k0].email = code[k0].email /\ code'[k0].purpose = code[k0].purpose
      /\ code'[k0].used = code[k0].used
  BY <1>1, <1>2 DEF Story
<1>5. held' = held
  BY <1>1, HeldDrops DEF WrongCommit, Finish
<1> HIDE DEF k0
<1>6. owner' = owner /\ used' = used
  BY <1>2, <1>4 DEF owner, used
<1>7. live' \subseteq live
  BY <1>1, <1>2, <1>3 DEF live, Live
<1>8. Codes!Die(live \ live')
  BY <1>2, <1>5, <1>6, <1>7 DEF Codes!Die
<1> QED
  BY <1>8 DEF Codes!Next

\* The consumption of a code is its redemption.
LEMMA ConsumeRedeems ==
  ASSUME IInv, NEW p \in Proc, ConsumeCommit(p)
  PROVE  Codes!Next
<1> DEFINE k0 == tx[p].row
           e0 == tx[p].email
           u0 == tx[p].purpose
<1>1. /\ k0 \in DOMAIN code /\ code[k0] \in Story /\ k0 \in Id /\ pc[p] = "consume"
      /\ code[k0].email = e0 /\ code[k0].purpose = u0
  BY DEF ConsumeCommit, IInv, LocalsOK, LocalOK, TypeOK
<1>2. /\ DOMAIN rows' = DOMAIN rows \ {k0} /\ DOMAIN code' = DOMAIN code
      /\ \A k \in DOMAIN rows' : rows'[k] = rows[k]
      /\ \A k \in DOMAIN code : k # k0 => code'[k] = code[k]
      /\ code'[k0] = [code[k0] EXCEPT !.used = TRUE]
      /\ users' = IF u0 = "email_verification"
                    THEN [users EXCEPT ![e0] = "verified"] ELSE users
      /\ clock' = clock
  BY <1>1 DEF ConsumeCommit
<1>3. /\ code'[k0].email = code[k0].email /\ code'[k0].purpose = code[k0].purpose
      /\ code'[k0].used
  BY <1>1, <1>2 DEF Story
<1>4. held' = held \/ held' = held \ {k0}
  BY HeldDrops DEF ConsumeCommit, Finish
<1>5. k0 \in held
  BY <1>1 DEF held
<1>6. owner[k0] = <<e0, u0>>
  BY <1>1 DEF owner
<1> HIDE DEF k0, e0, u0
<1>7. owner' = owner
  BY <1>2, <1>3 DEF owner
<1>8. used' = used \cup {k0}
  BY <1>1, <1>2, <1>3 DEF used
<1>9. live' = live \ {k0}
  BY <1>2 DEF live, Live
<1>10. users' = IF owner[k0][2] = "email_verification"
                  THEN [users EXCEPT ![owner[k0][1]] = "verified"] ELSE users
  BY <1>2, <1>6
<1>11. Codes!Redeem(k0)
  BY <1>4, <1>5, <1>7, <1>8, <1>9, <1>10 DEF Codes!Redeem
<1> QED
  BY <1>1, <1>11 DEF Codes!Next

\* Time passes: codes expire.
LEMMA TickExpires ==
  ASSUME IInv, Tick
  PROVE  Codes!Next
<1>1. UNCHANGED <<users, owner, held, used>>
  BY DEF Tick, owner, held, used
<1>2. live' \subseteq live
  BY DEF Tick, live, Live, IInv, TypeOK, Row
<1>3. Codes!Die(live \ live')
  BY <1>1, <1>2 DEF Codes!Die
<1> QED
  BY <1>3 DEF Codes!Next

-----------------------------------------------------------------------------
(* Every step.                                                             *)

\* A step that only moves a request, anywhere but to a consumption.
LEMMA OtherSteps ==
  ASSUME IInv, NEW p \in Proc, Step(p), ~ ConsumeCommit(p),
         ~ (WrongCommit(p) /\ tx[p].row \in DOMAIN rows),
         ~ \E r \in Id : RegisterCommit(p, r) \/ IssueCommit(p, r),
         ~ \E e \in Email, purpose \in Purpose : CheckRight(p, e, purpose)
  PROVE  /\ UNCHANGED <<clock, users, rows, code>>
         /\ \E phase, t : phase # "consume" /\ Goto(p, phase, t)
<1>1. CASE RegisterSendFails(p) \/ Crash(p) \/ WrongCommit(p)
  BY <1>1 DEF RegisterSendFails, Crash, WrongCommit, Finish
<1>2. CASE RegisterFlush(p)
  BY <1>2 DEF RegisterFlush, Finish
<1>3. CASE IssueLatest(p)
  BY <1>3 DEF IssueLatest, Finish
<1>4. CASE IssueDelete(p) \/ RegisterSends(p)
  BY <1>4 DEF IssueDelete, RegisterSends
<1>5. CASE \E e \in Email : RegisterSelect(p, e)
  BY <1>5 DEF RegisterSelect
<1>6. CASE \E e \in Email, purpose \in Purpose : IssueUser(p, e, purpose)
  BY <1>6 DEF IssueUser
<1>7. CASE \E e \in Email, purpose \in Purpose : CheckWrong(p, e, purpose)
  <2>1. PICK e \in Email, purpose \in Purpose : CheckWrong(p, e, purpose)
    BY <1>7
  <2>2. \E t : Goto(p, "wrong", t)
    BY <2>1 DEF CheckWrong
  <2> QED
    BY <2>1, <2>2 DEF CheckWrong
<1> QED
  BY <1>1, <1>2, <1>3, <1>4, <1>5, <1>6, <1>7 DEF Step

LEMMA CodesStep == IInv /\ [Next]_vars => [Codes!Next]_Codes!vars
<1> SUFFICES ASSUME IInv, [Next]_vars PROVE [Codes!Next]_Codes!vars
  OBVIOUS
<1>1. CASE UNCHANGED vars
  <2>1. UNCHANGED <<users, owner, live, held, used>>
    BY <1>1 DEF vars, owner, live, held, used, Live
  <2> QED
    BY <2>1 DEF Codes!vars
<1>2. CASE Tick
  BY <1>2, TickExpires
<1>3. ASSUME NEW p \in Proc, Step(p) PROVE [Codes!Next]_Codes!vars
  <2>1. CASE ConsumeCommit(p)
    BY <2>1, ConsumeRedeems
  <2>2. CASE WrongCommit(p) /\ tx[p].row \in DOMAIN rows
    BY <2>2, WrongLocksOut
  <2>3. CASE \E r \in Id : RegisterCommit(p, r) \/ IssueCommit(p, r)
    BY <2>3, RegisterAppears, IssueRotates
  <2>4. CASE \E e \in Email, purpose \in Purpose : CheckRight(p, e, purpose)
    BY <2>4, CheckAccepts
  <2> QED
    BY <1>3, <2>1, <2>2, <2>3, <2>4, OtherSteps, MoveAbandons
<1> QED
  BY <1>1, <1>2, <1>3 DEF Next

\* The endpoints implement the abstract codes and accounts, whatever requests,
\* rotations, guesses, expiries and crashes interleave (register,
\* forgot_password, resend_verification_email, _check_and_consume_otp).
THEOREM CodesRefinement == Spec => ImplementsCodes
BY CodesInit, CodesStep, Inductive, PTL DEF Spec, ImplementsCodes, Codes!Spec
=============================================================================
