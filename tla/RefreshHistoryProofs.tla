------------------------ MODULE RefreshHistoryProofs ------------------------
(***************************************************************************)
(* What the tables of RefreshSessions keep of the past, for every value of *)
(* the constants: the links of the rotations, the rows reuse detection     *)
(* needs, the resets behind a token_version and the families swept.        *)
(* The invariants below are added to IInv, whose proof they rest on.       *)
(***************************************************************************)
EXTENDS RefreshSessionsProofs

USE DEF Never

\* A request that has read the clock reads a recent one, and a token that is
\* about to be minted or has been lives at most TTL from now.
TimedOK(phase, t) ==
    /\ phase \in {"login", "cas", "rotate", "sweep", "apply"} =>
         t.now <= clock /\ clock <= t.now + Latency
    /\ phase \in {"login", "rotate"} => t.exp <= clock + TTL
RequestsTimed == \A p \in Proc : TimedOK(pc[p], tx[p])
TokensDated == \A j \in DOMAIN tok : tok[j].exp <= clock + TTL

\* A row expires with its token, and its revocation is dated at most Latency
\* before it was written.
RowsDated ==
    \A j \in DOMAIN sess :
      /\ sess[j].expires = tok[j].exp
      /\ sess[j].revoked # Never => tok[j].exp <= sess[j].revoked + Latency + TTL

RetentionInv == RequestsTimed /\ TokensDated /\ RowsDated /\ PurgedIsExpired

\* No two resets of one user are between the reading of token_version and
\* the commit of its successor.
Resetting(p) == pc[p] \in {"sweep", "apply"} /\ tx[p].scope = "user"
ResetsApart ==
    \A p, q \in Proc :
      Resetting(p) /\ Resetting(q) /\ tx[p].user = tx[q].user => p = q

\* token_version counts the resets, for the users, the requests and the tokens.
CountedOK(phase, t) ==
    /\ phase \in {"login", "cas", "rotate"} => t.ver = t.epoch
    /\ phase \in {"sweep", "apply"} /\ t.scope = "user" =>
         t.ver = users[t.user].ver
UsersCount == \A u \in User : users[u].ver = resets[u]
VersionsCount ==
    /\ UsersCount
    /\ \A j \in DOMAIN tok : tok[j].ver = tok[j].epoch
    /\ \A p \in Proc : CountedOK(pc[p], tx[p])

\* Only a request that may reset a password sweeps the rows of a user.
ResetterOK(p, phase, t) ==
    phase = "reset" \/ (phase \in {"sweep", "apply"} /\ t.scope = "user")
    => p \in ResetProc
ResettersOK == \A p \in Proc : ResetterOK(p, pc[p], tx[p])

\* No rotation of a family is between its compare-and-set and its commit
\* while a reuse-detection sweep of the family is between its snapshot and
\* its commit.
Sweeping(p) == pc[p] = "apply" /\ tx[p].scope = "family"
SweepsUndisturbed ==
    \A p, q \in Proc :
      Sweeping(p) /\ pc[q] = "rotate" => tx[q].family # tx[p].family

\* The family of a sweep is the family of a token, and the snapshot of the
\* sweep holds every row of it that is active.
CoverOK(phase, t) ==
    /\ phase \in {"sweep", "apply"} /\ t.scope = "family" => t.family \in DOMAIN tok
    /\ phase = "apply" /\ t.scope = "family" =>
         \A j \in DOMAIN sess :
           Active(j) /\ sess[j].family = t.family => j \in t.rows
SweepsCover ==
    /\ swept \subseteq DOMAIN tok
    /\ \A p \in Proc : CoverOK(pc[p], tx[p])

\* The locals of a request keep what the invariants say of them.
LocalsKept(p, phase, t) ==
    /\ TimedOK(pc[p], tx[p]) => TimedOK(phase, t)
    /\ UsersCount /\ CountedOK(pc[p], tx[p]) => CountedOK(phase, t)
    /\ ResetterOK(p, pc[p], tx[p]) => ResetterOK(p, phase, t)
    /\ CoverOK(pc[p], tx[p]) => CoverOK(phase, t)

-----------------------------------------------------------------------------
(* What a step does to the tables.                                         *)

\* A step of a request leaves both tables alone, revokes or inserts.
LEMMA RequestKinds ==
  ASSUME NEW p \in Proc, Step(p)
  PROVE  \/ UNCHANGED <<sess, tok>>
         \/ SweepCommit(p) \/ ResetCommit(p) \/ LoginCommit(p) \/ RefreshCommit(p)
<1>1. CASE \E u \in User, j \in Jti : LoginSelect(p, u, j)
  BY <1>1 DEF LoginSelect
<1>2. CASE \/ \E j \in Jti : RefreshSelect(p, j) \/ RefreshLoadUser(p, j)
                             \/ Logout(p, j)
           \/ \E u \in User : ResetSelect(p, u)
  BY <1>2 DEF RefreshSelect, RefreshLoadUser, Logout, ResetSelect
<1>3. CASE RefreshExpired(p) \/ RefreshRejected(p) \/ RefreshCas(p)
  BY <1>3 DEF RefreshExpired, RefreshRejected, RefreshCas
<1>4. CASE SweepStart(p) \/ ResetLoadUser(p) \/ Crash(p)
  BY <1>4 DEF SweepStart, ResetLoadUser, Crash
<1> QED
  BY <1>1, <1>2, <1>3, <1>4 DEF Step

\* Every step leaves both tables alone, revokes, purges or inserts.
LEMMA StepKinds ==
  ASSUME Next
  PROVE  \/ UNCHANGED <<sess, tok>>
         \/ \E p \in Proc : SweepCommit(p) \/ ResetCommit(p)
         \/ \E cutoff \in Cutoffs : Purge(cutoff)
         \/ \E p \in Proc : LoginCommit(p) \/ RefreshCommit(p)
<1>1. CASE Environment
  BY <1>1 DEF Environment, IssueOtp, SetEligible, Tick
<1> QED
  BY <1>1, RequestKinds DEF Next

\* The table after a sweep: the columns of every row are kept, but for the
\* revocation of an active row, dated by the request's clock.
LEMMA SweptTable ==
  ASSUME IInv, NEW p \in Proc, SweepCommit(p) \/ ResetCommit(p)
  PROVE  /\ pc[p] = "apply" /\ UNCHANGED <<clock, tok>>
         /\ DOMAIN sess' = DOMAIN sess
         /\ \A j \in DOMAIN sess :
              /\ sess'[j].user = sess[j].user /\ sess'[j].family = sess[j].family
              /\ sess'[j].next = sess[j].next
              /\ sess'[j].expires = sess[j].expires
              /\ sess'[j].revoked \in {sess[j].revoked, tx[p].now}
              /\ j \in tx[p].rows => sess'[j].revoked # Never
<1>1. sess \in [DOMAIN sess -> Row] /\ tx[p].now \in Nat
  BY DEF IInv, TypeOK, Tx
<1>2. sess' = Revoke(tx[p].rows, tx[p].now)
  BY DEF SweepCommit, ResetCommit
<1>3. DOMAIN sess' = DOMAIN sess
      /\ \A j \in DOMAIN sess :
           sess'[j] = IF j \in tx[p].rows /\ sess[j].revoked = Never
                        THEN [sess[j] EXCEPT !.revoked = tx[p].now] ELSE sess[j]
  BY <1>2 DEF Revoke
<1>4. ASSUME NEW j \in DOMAIN sess
      PROVE  /\ sess'[j].user = sess[j].user /\ sess'[j].family = sess[j].family
             /\ sess'[j].next = sess[j].next /\ sess'[j].expires = sess[j].expires
             /\ sess'[j].revoked \in {sess[j].revoked, tx[p].now}
             /\ j \in tx[p].rows => sess'[j].revoked # Never
  <2>1. sess[j] \in Row
    BY <1>1
  <2>2. CASE j \in tx[p].rows /\ sess[j].revoked = Never
    <3>1. sess'[j] = [sess[j] EXCEPT !.revoked = tx[p].now]
      BY <1>3, <2>2
    <3>2. /\ sess'[j].user = sess[j].user /\ sess'[j].family = sess[j].family
          /\ sess'[j].next = sess[j].next /\ sess'[j].expires = sess[j].expires
          /\ sess'[j].revoked = tx[p].now
      BY <2>1, <3>1 DEF Row
    <3> QED
      BY <1>1, <3>2
  <2>3. CASE ~(j \in tx[p].rows /\ sess[j].revoked = Never)
    <3>1. sess'[j] = sess[j]
      BY <1>3, <2>3
    <3> QED
      BY <2>3, <3>1
  <2> QED
    BY <2>2, <2>3
<1> QED
  BY <1>3, <1>4 DEF SweepCommit, ResetCommit

\* The table after a purge: the rows that stay are unlinked from the others.
LEMMA PurgedTable ==
  ASSUME IInv, NEW cutoff \in Cutoffs, Purge(cutoff)
  PROVE  /\ UNCHANGED <<clock, users, tok, pc, tx, resets, swept>>
         /\ DOMAIN sess' = DOMAIN sess \ Purgeable(cutoff)
         /\ \A j \in DOMAIN sess' :
              /\ sess'[j].family = sess[j].family
              /\ sess'[j].expires = sess[j].expires
              /\ sess'[j].revoked = sess[j].revoked
              /\ sess'[j].next \in {sess[j].next, Null} \ Purgeable(cutoff)
<1> DEFINE gone == Purgeable(cutoff)
<1>1. sess' = [j \in DOMAIN sess \ gone |-> Unlink(sess[j], gone)]
      /\ UNCHANGED <<clock, users, tok, pc, tx, resets, swept>>
  BY DEF Purge
<1>2. sess \in [DOMAIN sess -> Row] /\ DOMAIN sess \subseteq Jti /\ Null \notin gone
  BY ConstantsAssumption DEF IInv, TypeOK, Purgeable
<1> HIDE DEF gone
<1>3. \A j \in DOMAIN sess \ gone :
        /\ sess'[j].family = sess[j].family
        /\ sess'[j].expires = sess[j].expires
        /\ sess'[j].revoked = sess[j].revoked
        /\ sess'[j].next = IF sess[j].next \in gone THEN Null ELSE sess[j].next
  BY <1>1, <1>2 DEF Unlink, Row
<1>4. DOMAIN sess' = DOMAIN sess \ gone
  BY <1>1
<1> QED
  BY <1>1, <1>2, <1>3, <1>4 DEF gone

\* The tables after an insert. Only the row a rotation consumes has changed.
LEMMA InsertedTable ==
  ASSUME IInv, NEW p \in Proc, LoginCommit(p) \/ RefreshCommit(p)
  PROVE  /\ UNCHANGED <<clock, users, resets, swept>>
         /\ pc[p] \in {"login", "rotate"}
         /\ tx[p].new \notin DOMAIN tok /\ tx[p].new \notin DOMAIN sess
         /\ DOMAIN tok' = DOMAIN tok \cup {tx[p].new}
         /\ DOMAIN sess' = DOMAIN sess \cup {tx[p].new}
         /\ \A j \in DOMAIN tok : tok'[j] = tok[j]
         /\ tok'[tx[p].new] = NewToken(tx[p])
         /\ sess'[tx[p].new] = NewRow(tx[p])
         /\ \A j \in DOMAIN sess :
              \/ sess'[j] = sess[j]
              \/ /\ pc[p] = "rotate" /\ j = tx[p].jti
                 /\ sess'[j].next = tx[p].new /\ sess'[j].revoked = tx[p].now
                 /\ sess'[j].expires = sess[j].expires
                 /\ sess'[j].family = sess[j].family
<1> DEFINE t == tx[p]
<1>1. /\ pc[p] \in {"login", "rotate"}
      /\ t.new \notin DOMAIN tok /\ t.new \notin DOMAIN sess
      /\ DOMAIN tok' = DOMAIN tok \cup {t.new}
      /\ \A j \in DOMAIN tok : tok'[j] = tok[j]
      /\ tok'[t.new] = NewToken(t)
      /\ UNCHANGED <<clock, users, resets, swept>>
  BY MintTable DEF LoginCommit, RefreshCommit, IInv, RowsHaveTokens
<1>2. CASE LoginCommit(p)
  <2>1. sess' = [j \in DOMAIN sess \cup {t.new} |->
                   IF j = t.new THEN NewRow(t) ELSE sess[j]]
    BY <1>2 DEF LoginCommit
  <2> HIDE DEF t
  <2>2. /\ DOMAIN sess' = DOMAIN sess \cup {t.new}
        /\ sess'[t.new] = NewRow(t)
        /\ \A j \in DOMAIN sess : sess'[j] = sess[j]
    BY <1>1, <2>1
  <2> QED
    BY <1>1, <2>2 DEF t
<1>3. CASE RefreshCommit(p)
  <2>1. t.jti \in DOMAIN sess /\ sess[t.jti] \in Row /\ pc[p] = "rotate"
    BY <1>3 DEF RefreshCommit, IInv, RotationOwnsRow, Active, Present, TypeOK
  <2>2. sess' = [j \in DOMAIN sess \cup {t.new} |->
                   CASE j = t.new -> NewRow(t)
                     [] j = t.jti -> Supersede(sess[j], t)
                     [] OTHER -> sess[j]]
    BY <1>3 DEF RefreshCommit
  <2> HIDE DEF t
  <2>3. /\ Supersede(sess[t.jti], t).next = t.new
        /\ Supersede(sess[t.jti], t).revoked = t.now
        /\ Supersede(sess[t.jti], t).expires = sess[t.jti].expires
        /\ Supersede(sess[t.jti], t).family = sess[t.jti].family
    BY <2>1 DEF Supersede, Row
  <2>4. /\ DOMAIN sess' = DOMAIN sess \cup {t.new}
        /\ sess'[t.new] = NewRow(t)
        /\ sess'[t.jti] = Supersede(sess[t.jti], t)
        /\ \A j \in DOMAIN sess : j # t.jti => sess'[j] = sess[j]
    BY <1>1, <2>1, <2>2
  <2> QED
    BY <1>1, <2>1, <2>3, <2>4 DEF t
<1> QED
  BY <1>2, <1>3

-----------------------------------------------------------------------------
(* Links.                                                                  *)

\* The purge never leaves a replaced_by that points at a row it deleted, and
\* a rotation links the old row to a row that its own commit inserts
\* (migration 0004's foreign key, refresh_token's flush before the link).
THEOREM LinksPresent == Spec => []NoDanglingNext
<1>1. Init => NoDanglingNext
  BY DEF Init, NoDanglingNext
<1>2. IInv /\ NoDanglingNext /\ [Next]_vars => NoDanglingNext'
  <2> SUFFICES ASSUME IInv, NoDanglingNext, [Next]_vars PROVE NoDanglingNext'
    OBVIOUS
  <2>1. CASE UNCHANGED <<sess, tok>>
    BY <2>1 DEF NoDanglingNext, Present
  <2>2. ASSUME NEW p \in Proc, SweepCommit(p) \/ ResetCommit(p)
        PROVE  NoDanglingNext'
    BY <2>2, SweptTable DEF NoDanglingNext, Present
  <2>3. ASSUME NEW cutoff \in Cutoffs, Purge(cutoff) PROVE NoDanglingNext'
    BY <2>3, PurgedTable DEF NoDanglingNext, Present
  <2>4. ASSUME NEW p \in Proc, LoginCommit(p) \/ RefreshCommit(p)
        PROVE  NoDanglingNext'
    <3>1. NewRow(tx[p]).next = Null
      BY DEF NewRow
    <3>2. \A j \in DOMAIN sess :
            sess'[j].next = sess[j].next \/ sess'[j].next = tx[p].new
      BY <2>4, InsertedTable
    <3>3. DOMAIN sess' = DOMAIN sess \cup {tx[p].new} /\ sess'[tx[p].new].next = Null
      BY <2>4, <3>1, InsertedTable
    <3> QED
      BY <3>2, <3>3 DEF NoDanglingNext, Present
  <2> QED
    BY <2>1, <2>2, <2>3, <2>4, StepKinds DEF vars
<1> QED
  BY <1>1, <1>2, Inductive, PTL DEF Spec
-----------------------------------------------------------------------------
(* Retention.                                                              *)

\* Each step of a request keeps what the invariants say of its locals, as long
\* as the users and the tables are those the step started from.
LEMMA RequestMoves ==
  ASSUME IInv, NEW p \in Proc, Step(p)
  PROVE  /\ clock' = clock
         /\ ResetCommit(p) \/ UNCHANGED <<users, resets>>
         /\ \E phase \in Phase, t \in Tx :
              Goto(p, phase, t) /\ LocalsKept(p, phase, t)
<1> USE DEF TimedOK, CountedOK, ResetterOK, CoverOK
<1> DEFINE Moves == /\ clock' = clock
                    /\ ResetCommit(p) \/ UNCHANGED <<users, resets>>
                    /\ \E phase \in Phase, t \in Tx :
                         Goto(p, phase, t) /\ LocalsKept(p, phase, t)
<1>1. /\ clock \in Nat /\ Latency \in Nat /\ TTL \in Nat /\ clock + TTL \in Nat
      /\ clock <= clock /\ clock <= clock + Latency
      /\ tx[p] \in Tx /\ NoTx \in Tx
  BY ConstantsAssumption, NoTxType DEF IInv, TypeOK
<1>2. CASE Finish(p) /\ clock' = clock /\ (ResetCommit(p) \/ UNCHANGED <<users, resets>>)
  <2>1. LocalsKept(p, "idle", NoTx)
    BY DEF LocalsKept
  <2> QED
    BY <1>1, <1>2, <2>1 DEF Finish, Phase
<1>3. ASSUME NEW u \in User, NEW j \in Jti, LoginSelect(p, u, j) PROVE Moves
  <2> DEFINE t == [NoTx EXCEPT !.user = u, !.new = j, !.family = j,
                     !.ver = users[u].ver, !.epoch = resets[u],
                     !.now = clock, !.exp = clock + TTL]
  <2>1. users[u].ver \in Nat /\ resets[u] \in Nat
    BY DEF IInv, TypeOK, Account
  <2>2. /\ t \in Tx /\ t.now = clock /\ t.exp = clock + TTL
        /\ t.ver = users[u].ver /\ t.epoch = resets[u]
    BY <1>1, <2>1 DEF Tx, NoTx
  <2>3. Goto(p, "login", t) /\ UNCHANGED <<clock, users, resets>>
    BY <1>3 DEF LoginSelect
  <2> HIDE DEF t
  <2>4. LocalsKept(p, "login", t)
    BY <1>1, <2>2 DEF LocalsKept, UsersCount
  <2> QED
    BY <2>2, <2>3, <2>4 DEF Phase
<1>4. ASSUME NEW j \in Jti, RefreshSelect(p, j) PROVE Moves
  <2> DEFINE t == [NoTx EXCEPT !.user = tok[j].user, !.jti = j,
                     !.family = sess[j].family, !.ver = tok[j].ver]
             row == [t EXCEPT !.exp = sess[j].expires]
             reuse == [t EXCEPT !.now = clock, !.scope = "family"]
  <2>1. /\ tok[j] \in Claims /\ sess[j] \in Row /\ sess[j].family \in DOMAIN tok
    BY <1>4 DEF RefreshSelect, Decodes, Present, IInv, TypeOK, RowsHaveTokens
  <2>2. t \in Tx /\ t.family = sess[j].family
    BY <1>1, <2>1 DEF Tx, Claims, Row
  <2> HIDE DEF t
  <2>3. /\ row \in Tx /\ reuse \in Tx
        /\ reuse.now = clock /\ reuse.scope = "family" /\ reuse.family = t.family
    BY <1>1, <2>1, <2>2 DEF Tx, Row, Scope
  <2>4. /\ Goto(p, "row", row) \/ Goto(p, "sweep", reuse)
        /\ UNCHANGED <<clock, users, resets>>
    BY <1>4 DEF RefreshSelect, t
  <2> HIDE DEF row, reuse
  <2>5. LocalsKept(p, "row", row)
    BY DEF LocalsKept
  <2>6. LocalsKept(p, "sweep", reuse)
    BY <1>1, <2>1, <2>2, <2>3 DEF LocalsKept
  <2> QED
    BY <2>3, <2>4, <2>5, <2>6 DEF Phase
<1>5. ASSUME NEW j \in Jti, RefreshLoadUser(p, j) PROVE Moves
  <2> DEFINE u == tx[p].user
             t == [tx[p] EXCEPT !.new = j, !.now = clock,
                     !.ver = users[u].ver, !.epoch = resets[u]]
  <2>1. u \in User /\ users[u].ver \in Nat /\ resets[u] \in Nat
    BY <1>5 DEF RefreshLoadUser, IInv, TypeOK, LocalsOK, Account
  <2>2. t \in Tx /\ t.now = clock /\ t.ver = users[u].ver /\ t.epoch = resets[u]
    BY <1>1, <2>1 DEF Tx
  <2>3. Goto(p, "cas", t) /\ UNCHANGED <<clock, users, resets>>
    BY <1>5 DEF RefreshLoadUser
  <2> HIDE DEF t
  <2>4. LocalsKept(p, "cas", t)
    BY <1>1, <2>1, <2>2 DEF LocalsKept, UsersCount
  <2> QED
    BY <2>2, <2>3, <2>4 DEF Phase
<1>6. CASE RefreshCas(p) /\ Active(tx[p].jti)
  <2> DEFINE t == [tx[p] EXCEPT !.exp = clock + TTL]
  <2>1. /\ t \in Tx /\ t.now = tx[p].now /\ t.exp = clock + TTL
        /\ t.ver = tx[p].ver /\ t.epoch = tx[p].epoch
    BY <1>1 DEF Tx
  <2>2. Goto(p, "rotate", t) /\ pc[p] = "cas" /\ UNCHANGED <<clock, users, resets>>
    BY <1>6 DEF RefreshCas
  <2> HIDE DEF t
  <2>3. LocalsKept(p, "rotate", t)
    BY <1>1, <2>1, <2>2 DEF LocalsKept
  <2> QED
    BY <2>1, <2>2, <2>3 DEF Phase
<1>7. ASSUME NEW j \in Jti, Logout(p, j) PROVE Moves
  <2> DEFINE t == [NoTx EXCEPT !.jti = j, !.now = clock, !.scope = "row"]
  <2>1. t \in Tx /\ t.now = clock /\ t.scope = "row"
    BY <1>1 DEF Tx, NoTx, Scope
  <2>2. Goto(p, "sweep", t) /\ UNCHANGED <<clock, users, resets>>
    BY <1>7 DEF Logout
  <2> HIDE DEF t
  <2>3. LocalsKept(p, "sweep", t)
    BY <1>1, <2>1 DEF LocalsKept
  <2> QED
    BY <2>1, <2>2, <2>3 DEF Phase
<1>8. CASE SweepStart(p)
  <2> DEFINE rows == {j \in DOMAIN sess : Active(j) /\ Matches(tx[p], j)}
             t == [tx[p] EXCEPT !.rows = rows]
  <2>1. /\ rows \subseteq Jti
        /\ tx[p].scope = "family" =>
             \A j \in DOMAIN sess : Active(j) /\ sess[j].family = tx[p].family => j \in rows
    BY DEF IInv, TypeOK, Matches
  <2>2. Goto(p, "apply", t) /\ pc[p] = "sweep" /\ UNCHANGED <<clock, users, resets>>
    BY <1>8 DEF SweepStart
  <2> HIDE DEF rows
  <2>3. /\ t \in Tx /\ t.now = tx[p].now /\ t.user = tx[p].user /\ t.ver = tx[p].ver
        /\ t.scope = tx[p].scope /\ t.family = tx[p].family /\ t.rows = rows
    BY <1>1, <2>1 DEF Tx
  <2> HIDE DEF t
  <2>4. LocalsKept(p, "apply", t)
    BY <1>1, <2>1, <2>2, <2>3 DEF LocalsKept
  <2> QED
    BY <2>2, <2>3, <2>4 DEF Phase
<1>9. ASSUME NEW u \in User, ResetSelect(p, u) PROVE Moves
  <2> DEFINE t == [NoTx EXCEPT !.user = u]
  <2>1. t \in Tx
    BY <1>1 DEF Tx
  <2>2. Goto(p, "reset", t) /\ p \in ResetProc /\ UNCHANGED <<clock, users, resets>>
    BY <1>9 DEF ResetSelect
  <2> HIDE DEF t
  <2>3. LocalsKept(p, "reset", t)
    BY <2>2 DEF LocalsKept
  <2> QED
    BY <2>1, <2>2, <2>3 DEF Phase
<1>10. CASE ResetLoadUser(p)
  <2> DEFINE u == tx[p].user
             t == [tx[p] EXCEPT !.ver = users[u].ver, !.now = clock, !.scope = "user"]
  <2>1. users[u].ver \in Nat
    BY <1>10 DEF ResetLoadUser, IInv, TypeOK, LocalsOK, Account
  <2>2. /\ t \in Tx /\ t.now = clock /\ t.scope = "user"
        /\ t.user = u /\ t.ver = users[u].ver
    BY <1>1, <2>1 DEF Tx, Scope
  <2>3. Goto(p, "sweep", t) /\ pc[p] = "reset" /\ UNCHANGED <<clock, users, resets>>
    BY <1>10 DEF ResetLoadUser
  <2> HIDE DEF t
  <2>4. LocalsKept(p, "sweep", t)
    BY <1>1, <2>2, <2>3 DEF LocalsKept
  <2> QED
    BY <2>2, <2>3, <2>4 DEF Phase
<1>11. CASE \/ LoginCommit(p) \/ RefreshCommit(p) \/ SweepCommit(p) \/ ResetCommit(p)
            \/ RefreshExpired(p) \/ RefreshRejected(p) \/ Crash(p)
            \/ RefreshCas(p) /\ ~ Active(tx[p].jti)
  <2>1. Finish(p) /\ clock' = clock /\ (ResetCommit(p) \/ UNCHANGED <<users, resets>>)
    BY <1>11 DEF LoginCommit, RefreshCommit, SweepCommit, ResetCommit,
                 RefreshExpired, RefreshRejected, Crash, RefreshCas
  <2> QED
    BY <1>2, <2>1
<1> QED
  BY <1>3, <1>4, <1>5, <1>6, <1>7, <1>8, <1>9, <1>10, <1>11 DEF Step

LEMMA TimedKept ==
  ASSUME IInv, RequestsTimed, [Next]_vars
  PROVE  RequestsTimed' /\ clock' \in Nat /\ clock' >= clock
<1>1. clock \in Nat /\ pc \in [Proc -> Phase] /\ tx \in [Proc -> Tx]
  BY DEF IInv, TypeOK
<1>2. ASSUME NEW p \in Proc, Step(p)
      PROVE  RequestsTimed' /\ clock' = clock
  <2>1. PICK phase \in Phase, t \in Tx : Goto(p, phase, t) /\ TimedOK(phase, t)
    BY <1>2, RequestMoves DEF LocalsKept, RequestsTimed
  <2>2. clock' = clock
    BY <1>2, RequestMoves
  <2>3. \A q \in Proc : IF q = p THEN pc'[q] = phase /\ tx'[q] = t
                                 ELSE pc'[q] = pc[q] /\ tx'[q] = tx[q]
    BY <1>1, <2>1 DEF Goto
  <2> QED
    BY <2>1, <2>2, <2>3 DEF RequestsTimed, TimedOK
<1>3. ASSUME UNCHANGED <<clock, pc, tx>>
      PROVE  RequestsTimed' /\ clock' \in Nat /\ clock' >= clock
  BY <1>1, <1>3 DEF RequestsTimed, TimedOK
<1>4. ASSUME Tick
      PROVE  RequestsTimed' /\ clock' \in Nat /\ clock' >= clock
  <2>1. /\ clock' = clock + 1 /\ UNCHANGED <<pc, tx>>
        /\ \A p \in Proc : pc[p] \in {"login", "cas", "rotate", "sweep", "apply"} =>
             clock < tx[p].now + Latency
    BY <1>4 DEF Tick, ReadClock
  <2>2. \A p \in Proc : tx[p].now \in Nat /\ tx[p].exp \in Nat
    BY <1>1 DEF Tx
  <2>3. RequestsTimed'
    BY <1>1, <2>1, <2>2, ConstantsAssumption DEF RequestsTimed, TimedOK
  <2> QED
    BY <1>1, <2>1, <2>3
<1>5. CASE Environment
  BY <1>3, <1>4, <1>5 DEF Environment, Purge, IssueOtp, SetEligible
<1>6. CASE UNCHANGED vars
  BY <1>3, <1>6 DEF vars
<1> QED
  BY <1>2, <1>5, <1>6, <1>1 DEF Next

\* A row the purge deletes belongs to a token that has expired.
LEMMA PurgedLate ==
  ASSUME IInv, RetentionInv, NEW cutoff \in Cutoffs, NEW j \in Purgeable(cutoff)
  PROVE  tok[j].exp < clock + Latency
<1>1. /\ j \in DOMAIN sess /\ j \in DOMAIN tok
      /\ sess[j] \in Row /\ tok[j] \in Claims
      /\ clock \in Nat /\ TTL \in Nat \ {0} /\ Latency \in Nat
  BY ConstantsAssumption DEF Purgeable, IInv, TypeOK, RowsHaveTokens
<1>2. cutoff \in Nat /\ cutoff <= clock - TTL
  BY <1>1 DEF Cutoffs
<1>3. /\ sess[j].expires = tok[j].exp
      /\ sess[j].revoked # Never => tok[j].exp <= sess[j].revoked + Latency + TTL
  BY <1>1 DEF RetentionInv, RowsDated
<1>4. sess[j].expires \in Nat /\ tok[j].exp \in Nat /\ sess[j].revoked \in Nat \cup {Never}
  BY <1>1 DEF Row, Claims
<1>5. CASE sess[j].revoked # Never
  <2>1. sess[j].revoked < cutoff /\ sess[j].revoked \in Nat
    BY <1>4, <1>5 DEF Purgeable
  <2> QED
    BY <1>1, <1>2, <1>3, <1>4, <1>5, <2>1
<1>6. CASE sess[j].revoked = Never
  <2>1. sess[j].expires < cutoff
    BY <1>6 DEF Purgeable
  <2> QED
    BY <1>1, <1>2, <1>3, <1>4, <2>1
<1> QED
  BY <1>5, <1>6

LEMMA RetentionStep == IInv /\ RetentionInv /\ [Next]_vars => RetentionInv'
<1> SUFFICES ASSUME IInv, RetentionInv, [Next]_vars PROVE RetentionInv'
  OBVIOUS
<1>1. /\ clock \in Nat /\ TTL \in Nat /\ Latency \in Nat
      /\ RequestsTimed /\ TokensDated /\ RowsDated /\ PurgedIsExpired
      /\ \A j \in DOMAIN tok : tok[j].exp \in Nat
      /\ \A p \in Proc : tx[p].exp \in Nat /\ tx[p].now \in Nat
  BY ConstantsAssumption DEF IInv, TypeOK, RetentionInv, Claims, Tx
<1>2. RequestsTimed' /\ clock' \in Nat /\ clock' >= clock
  BY <1>1, TimedKept
<1>3. ASSUME UNCHANGED tok PROVE TokensDated'
  BY <1>1, <1>2, <1>3 DEF TokensDated
<1>4. \A j \in DOMAIN sess : j \in DOMAIN tok
  BY DEF IInv, RowsHaveTokens
<1>5. CASE UNCHANGED <<sess, tok>>
  <2>1. RowsDated'
    BY <1>1, <1>5 DEF RowsDated
  <2>2. PurgedIsExpired'
    BY <1>1, <1>2, <1>5 DEF PurgedIsExpired, Present
  <2> QED
    BY <1>2, <1>3, <1>5, <2>1, <2>2 DEF RetentionInv
<1>6. ASSUME NEW p \in Proc, SweepCommit(p) \/ ResetCommit(p) PROVE RetentionInv'
  <2>1. /\ UNCHANGED <<clock, tok>> /\ DOMAIN sess' = DOMAIN sess
        /\ \A j \in DOMAIN sess : /\ sess'[j].expires = sess[j].expires
                                  /\ sess'[j].revoked \in {sess[j].revoked, tx[p].now}
    BY <1>6, SweptTable
  <2>2. clock <= tx[p].now + Latency
    BY <1>1, <1>6, SweptTable DEF RequestsTimed, TimedOK
  <2>3. \A j \in DOMAIN sess : tok[j].exp <= tx[p].now + Latency + TTL
    BY <1>1, <1>4, <2>2 DEF TokensDated
  <2>4. RowsDated'
    BY <1>1, <2>1, <2>3 DEF RowsDated
  <2>5. PurgedIsExpired'
    BY <1>1, <2>1 DEF PurgedIsExpired, Present
  <2> QED
    BY <1>2, <1>3, <2>1, <2>4, <2>5 DEF RetentionInv
<1>7. ASSUME NEW cutoff \in Cutoffs, Purge(cutoff) PROVE RetentionInv'
  <2>1. /\ UNCHANGED <<clock, tok>>
        /\ DOMAIN sess' = DOMAIN sess \ Purgeable(cutoff)
        /\ \A j \in DOMAIN sess' : /\ sess'[j].expires = sess[j].expires
                                   /\ sess'[j].revoked = sess[j].revoked
    BY <1>7, PurgedTable
  <2>2. RowsDated'
    BY <1>1, <2>1 DEF RowsDated
  <2>3. \A j \in Purgeable(cutoff) : tok[j].exp < clock + Latency
    BY PurgedLate
  <2>4. PurgedIsExpired'
    BY <1>1, <2>1, <2>3 DEF PurgedIsExpired, Present
  <2> QED
    BY <1>2, <1>3, <2>1, <2>2, <2>4 DEF RetentionInv
<1>8. ASSUME NEW p \in Proc, LoginCommit(p) \/ RefreshCommit(p) PROVE RetentionInv'
  <2> DEFINE t == tx[p]
  <2>1. /\ clock' = clock /\ pc[p] \in {"login", "rotate"}
        /\ t.new \notin DOMAIN tok /\ t.new \notin DOMAIN sess
        /\ DOMAIN tok' = DOMAIN tok \cup {t.new}
        /\ DOMAIN sess' = DOMAIN sess \cup {t.new}
        /\ \A j \in DOMAIN tok : tok'[j] = tok[j]
        /\ tok'[t.new] = NewToken(t) /\ sess'[t.new] = NewRow(t)
        /\ \A j \in DOMAIN sess :
             \/ sess'[j] = sess[j]
             \/ sess'[j].revoked = t.now /\ sess'[j].expires = sess[j].expires
    BY <1>8, InsertedTable
  <2>2. t.exp <= clock + TTL /\ clock <= t.now + Latency
    BY <1>1, <2>1 DEF RequestsTimed, TimedOK
  <2>3. t.exp \in Nat /\ t.now \in Nat
    BY <1>1
  <2>4. /\ NewToken(t).exp = t.exp
        /\ NewRow(t).expires = t.exp /\ NewRow(t).revoked = Never
    BY DEF NewToken, NewRow
  <2> HIDE DEF t
  <2>5. TokensDated'
    BY <1>1, <2>1, <2>2, <2>4 DEF TokensDated
  <2>6. \A j \in DOMAIN sess : tok[j].exp <= t.now + Latency + TTL
    BY <1>1, <1>4, <2>2, <2>3 DEF TokensDated
  <2>7. \A j \in DOMAIN sess :
          /\ sess'[j].expires = tok'[j].exp
          /\ sess'[j].revoked # Never =>
               tok'[j].exp <= sess'[j].revoked + Latency + TTL
    BY <1>1, <1>4, <2>1, <2>6 DEF RowsDated
  <2>8. RowsDated'
    BY <2>1, <2>4, <2>7 DEF RowsDated
  <2>9. PurgedIsExpired'
    BY <1>1, <2>1 DEF PurgedIsExpired, Present
  <2> QED
    BY <1>2, <2>5, <2>8, <2>9 DEF RetentionInv
<1> QED
  BY <1>5, <1>6, <1>7, <1>8, StepKinds DEF vars

LEMMA InitRetention == Init => RetentionInv
<1> SUFFICES ASSUME Init PROVE RetentionInv
  OBVIOUS
<1>1. DOMAIN sess = {} /\ DOMAIN tok = {} /\ \A p \in Proc : pc[p] = "idle"
  BY DEF Init
<1> QED
  BY <1>1 DEF RetentionInv, RequestsTimed, TimedOK, TokensDated, RowsDated,
              PurgedIsExpired

\* A token without a row has expired, up to the latency of the request that
\* revoked it: presenting a superseded token that still decodes always meets
\* the revoked row that reuse detection needs (_cleanup_refresh_sessions).
THEOREM PurgeIsLate == Spec => []PurgedIsExpired
<1>1. RetentionInv => PurgedIsExpired
  BY DEF RetentionInv
<1> QED
  BY <1>1, InitRetention, RetentionStep, Inductive, PTL DEF Spec
-----------------------------------------------------------------------------
(* Resets.                                                                 *)

\* The phase and locals of every request after a step of one.
LEMMA OneMoves ==
  ASSUME IInv, NEW p \in Proc, NEW phase, NEW t, Goto(p, phase, t)
  PROVE  \A q \in Proc : IF q = p THEN pc'[q] = phase /\ tx'[q] = t
                                  ELSE pc'[q] = pc[q] /\ tx'[q] = tx[q]
BY DEF Goto, IInv, TypeOK

\* Only the requests of ResetProc ever sweep the rows of a user.
LEMMA ResettersStep == IInv /\ ResettersOK /\ [Next]_vars => ResettersOK'
<1> SUFFICES ASSUME IInv, ResettersOK, [Next]_vars PROVE ResettersOK'
  OBVIOUS
<1>1. ASSUME NEW p \in Proc, Step(p) PROVE ResettersOK'
  <2>1. PICK phase \in Phase, t \in Tx : Goto(p, phase, t) /\ ResetterOK(p, phase, t)
    BY <1>1, RequestMoves DEF LocalsKept, ResettersOK
  <2> QED
    BY <2>1, OneMoves DEF ResettersOK, ResetterOK
<1>2. CASE UNCHANGED <<pc, tx>>
  BY <1>2 DEF ResettersOK, ResetterOK
<1>3. CASE Environment
  BY <1>2, <1>3 DEF Environment, Purge, IssueOtp, SetEligible, Tick
<1> QED
  BY <1>1, <1>2, <1>3 DEF Next, vars

\* A reset that no other reset of its user overlaps counts itself.
LEMMA ResetCounts ==
  ASSUME IInv, VersionsCount, ResetsApart, NEW p \in Proc, ResetCommit(p)
  PROVE  UsersCount' /\ \A q \in Proc : CountedOK(pc[q], tx[q])'
<1> DEFINE t == tx[p]
           u == t.user
<1>1. /\ u \in User /\ users \in [User -> Account] /\ resets \in [User -> Nat]
      /\ t.ver \in Nat /\ NoTx.scope = "row"
  BY DEF ResetCommit, IInv, TypeOK, LocalsOK, Tx, NoTx
<1>2. t.ver = users[u].ver /\ users[u].ver = resets[u] /\ Resetting(p)
  BY <1>1 DEF VersionsCount, UsersCount, CountedOK, ResetCommit, Resetting
<1>3. /\ users' = [users EXCEPT ![u].ver = NextVersion(t.ver), ![u].otp = FALSE]
      /\ resets' = [resets EXCEPT ![u] = @ + 1]
      /\ Goto(p, "idle", NoTx)
  BY DEF ResetCommit, Finish
<1> HIDE DEF t, u
<1>4. /\ users'[u].ver = t.ver + 1 /\ resets'[u] = resets[u] + 1
      /\ \A v \in User \ {u} : users'[v] = users[v] /\ resets'[v] = resets[v]
  <2>1. users[u] \in Account
    BY <1>1
  <2> QED
    BY <1>1, <1>3, <2>1 DEF NextVersion, Account
<1>5. UsersCount'
  BY <1>2, <1>4 DEF VersionsCount, UsersCount
<1>6. ASSUME NEW q \in Proc PROVE CountedOK(pc[q], tx[q])'
  <2>1. CASE q = p
    BY <1>3, <2>1, OneMoves DEF CountedOK
  <2>2. CASE q # p
    <3>1. pc'[q] = pc[q] /\ tx'[q] = tx[q]
      BY <1>3, <2>2, OneMoves
    <3>2. CountedOK(pc[q], tx[q])
      BY DEF VersionsCount
    <3>3. Resetting(q) => tx[q].user \in User /\ tx[q].user # u
      BY <1>2, <2>2 DEF ResetsApart, Resetting, IInv, LocalsOK, u, t
    <3> QED
      BY <1>4, <3>1, <3>2, <3>3 DEF CountedOK, Resetting
  <2> QED
    BY <2>1, <2>2
<1> QED
  BY <1>5, <1>6

LEMMA VersionsStep ==
  IInv /\ VersionsCount /\ ResetsApart /\ [Next]_vars => VersionsCount'
<1> SUFFICES ASSUME IInv, VersionsCount, ResetsApart, [Next]_vars
             PROVE  VersionsCount'
  OBVIOUS
<1> DEFINE TokensCount == \A j \in DOMAIN tok : tok[j].ver = tok[j].epoch
           RequestsCount == \A p \in Proc : CountedOK(pc[p], tx[p])
<1>1. TokensCount /\ RequestsCount /\ UsersCount
  BY DEF VersionsCount
<1>2. TokensCount'
  <2>1. CASE UNCHANGED tok
    BY <1>1, <2>1
  <2>2. ASSUME NEW p \in Proc, LoginCommit(p) \/ RefreshCommit(p) PROVE TokensCount'
    <3>1. tx[p].ver = tx[p].epoch
      BY <1>1, <2>2 DEF CountedOK, LoginCommit, RefreshCommit
    <3>2. NewToken(tx[p]).ver = tx[p].ver /\ NewToken(tx[p]).epoch = tx[p].epoch
      BY DEF NewToken
    <3>3. /\ DOMAIN tok' = DOMAIN tok \cup {tx[p].new}
          /\ \A j \in DOMAIN tok : tok'[j] = tok[j]
          /\ tok'[tx[p].new] = NewToken(tx[p])
      BY <2>2, InsertedTable
    <3> QED
      BY <1>1, <3>1, <3>2, <3>3
  <2>3. CASE Next
    BY <2>1, <2>2, <2>3, StepEffect DEF OnlyRevokesOnce
  <2> QED
    BY <2>1, <2>3 DEF vars
<1>3. ASSUME UNCHANGED <<pc, tx, resets>>, \A u \in User : users'[u].ver = users[u].ver
      PROVE  UsersCount' /\ RequestsCount'
  <2>1. \A p \in Proc : pc[p] \in {"sweep", "apply"} /\ tx[p].scope = "user" =>
          tx[p].user \in User
    BY DEF IInv, LocalsOK
  <2> QED
    BY <1>1, <1>3, <2>1 DEF UsersCount, CountedOK
<1>4. ASSUME NEW p \in Proc, Step(p) PROVE UsersCount' /\ RequestsCount'
  <2>1. CASE ResetCommit(p)
    BY <2>1, ResetCounts
  <2>2. CASE UNCHANGED <<users, resets>>
    <3>1. PICK phase \in Phase, t \in Tx : Goto(p, phase, t) /\ CountedOK(phase, t)
      BY <1>1, <1>4, RequestMoves DEF LocalsKept
    <3> QED
      BY <1>1, <2>2, <3>1, OneMoves DEF UsersCount, CountedOK
  <2> QED
    BY <1>4, <2>1, <2>2, RequestMoves
<1>5. CASE Environment
  <2>1. users \in [User -> Account]
    BY DEF IInv, TypeOK
  <2>2. ASSUME NEW v \in User, IssueOtp(v) \/ SetEligible(v)
        PROVE  UNCHANGED <<pc, tx, resets>> /\ \A u \in User : users'[u].ver = users[u].ver
    BY <2>1, <2>2 DEF IssueOtp, SetEligible, Account
  <2>3. ASSUME Tick \/ \E cutoff \in Cutoffs : Purge(cutoff)
        PROVE  UNCHANGED <<pc, tx, resets, users>>
    BY <2>3 DEF Tick, Purge
  <2> QED
    BY <1>2, <1>3, <1>5, <2>2, <2>3 DEF Environment, VersionsCount
<1>6. CASE UNCHANGED vars
  BY <1>2, <1>3, <1>6 DEF vars, VersionsCount
<1> QED
  BY <1>2, <1>4, <1>5, <1>6 DEF Next, VersionsCount

LEMMA InitVersions == Init => VersionsCount /\ ResettersOK
BY DEF Init, VersionsCount, UsersCount, CountedOK, ResettersOK, ResetterOK

LEMMA VersionsAnswer == VersionsCount /\ IInv => NoTokenOutlivesReset
BY DEF VersionsCount, UsersCount, NoTokenOutlivesReset, AccessAccepted, IInv,
       TypeOK, Claims

\* As long as no two resets of one user overlap between their reading and
\* their writing of token_version, no token minted before a reset is accepted
\* after it, whatever logins and rotations the reset overlaps with. The lost
\* update of reset_password is the only way around it.
THEOREM ResetEndsTokens == Spec /\ []ResetsApart => []NoTokenOutlivesReset
BY InitVersions, VersionsStep, VersionsAnswer, Inductive, PTL DEF Spec

\* In particular where one request at a time may reset passwords
\* (reset_password is never run twice at once).
THEOREM OneResetterEndsTokens ==
  ASSUME \A p, q \in ResetProc : p = q
  PROVE  Spec => []NoTokenOutlivesReset
<1>1. ResettersOK => ResetsApart
  BY DEF ResettersOK, ResetterOK, ResetsApart, Resetting
<1>2. Spec => []ResettersOK
  BY InitVersions, ResettersStep, Inductive, PTL DEF Spec
<1>3. Spec => []ResetsApart
  BY <1>1, <1>2, PTL
<1> QED
  BY <1>3, ResetEndsTokens, PTL
-----------------------------------------------------------------------------
(* Reuse detection.                                                        *)

\* The tokens of a step's start stay, and its active rows were active before,
\* but for the row it inserts.
LEMMA ActiveRows ==
  ASSUME IInv, [Next]_vars
  PROVE  /\ DOMAIN tok \subseteq DOMAIN tok'
         /\ \A j \in DOMAIN sess' : sess'[j].revoked = Never =>
              \/ Active(j) /\ sess[j].family = sess'[j].family
              \/ \E p \in Proc : /\ LoginCommit(p) \/ RefreshCommit(p)
                                 /\ sess'[j].family = tx[p].family
<1>1. CASE UNCHANGED vars
  BY <1>1 DEF vars, Active, Present
<1>2. CASE OnlyRevokesOnce
  BY <1>2 DEF OnlyRevokesOnce, OnlyRevokes, Active, Present
<1>3. ASSUME NEW p \in Proc, LoginCommit(p) \/ RefreshCommit(p),
             NEW j \in DOMAIN sess', sess'[j].revoked = Never
      PROVE  \/ Active(j) /\ sess[j].family = sess'[j].family
             \/ sess'[j].family = tx[p].family
  <2>1. CASE j = tx[p].new
    BY <1>3, <2>1, InsertEffect
  <2>2. CASE j \in DOMAIN sess
    BY <1>3, <2>2, InsertEffect DEF Active, Present
  <2> QED
    BY <1>3, <2>1, <2>2, InsertEffect
<1>4. ASSUME NEW p \in Proc, LoginCommit(p) \/ RefreshCommit(p)
      PROVE  DOMAIN tok \subseteq DOMAIN tok'
  BY <1>4, InsertedTable
<1> QED
  BY <1>1, <1>2, <1>3, <1>4, StepEffect

\* The family of a token has no new active row after a step, unless the step
\* is a rotation of the family.
LEMMA ActiveOfFamily ==
  ASSUME IInv, [Next]_vars, NEW f \in DOMAIN tok,
         \A p \in Proc : RefreshCommit(p) => tx[p].family # f,
         NEW j \in DOMAIN sess', sess'[j].revoked = Never, sess'[j].family = f
  PROVE  Active(j) /\ sess[j].family = f
<1>1. ASSUME NEW p \in Proc, LoginCommit(p) PROVE tx[p].family # f
  <2>1. tx[p].new \notin DOMAIN tok
    BY <1>1, InsertedTable
  <2>2. tx[p].family = tx[p].new
    BY <1>1 DEF LoginCommit, IInv, LocalsOK
  <2> QED
    BY <2>1, <2>2
<1> QED
  BY <1>1, ActiveRows

\* What CoverOK says of locals that a step leaves alone, after the step.
CoverAfter(phase, t) ==
    /\ phase \in {"sweep", "apply"} /\ t.scope = "family" => t.family \in DOMAIN tok'
    /\ phase = "apply" /\ t.scope = "family" =>
         \A j \in DOMAIN sess' :
           sess'[j].revoked = Never /\ sess'[j].family = t.family => j \in t.rows

LEMMA CoverKept ==
  ASSUME IInv, [Next]_vars, NEW phase, NEW t, CoverOK(phase, t),
         \/ UNCHANGED <<sess, tok>>
         \/ phase = "apply" /\ t.scope = "family" =>
              \A q \in Proc : pc[q] = "rotate" => tx[q].family # t.family
  PROVE  CoverAfter(phase, t)
<1>1. CASE UNCHANGED <<sess, tok>>
  BY <1>1 DEF CoverOK, CoverAfter, Active, Present
<1>2. CASE ~ UNCHANGED <<sess, tok>>
  <2>1. DOMAIN tok \subseteq DOMAIN tok'
    BY ActiveRows
  <2>2. ASSUME phase = "apply", t.scope = "family",
               NEW j \in DOMAIN sess', sess'[j].revoked = Never,
               sess'[j].family = t.family
        PROVE  j \in t.rows
    <3>1. \A q \in Proc : RefreshCommit(q) => tx[q].family # t.family
      BY <1>2, <2>2 DEF RefreshCommit
    <3>2. t.family \in DOMAIN tok
      BY <2>2 DEF CoverOK
    <3>3. Active(j) /\ sess[j].family = t.family
      BY <2>2, <3>1, <3>2, ActiveOfFamily
    <3> QED
      BY <2>2, <3>3 DEF CoverOK, Active, Present
  <2> QED
    BY <2>1, <2>2 DEF CoverOK, CoverAfter
<1> QED
  BY <1>1, <1>2

LEMMA SweepsStep ==
  IInv /\ SweepsCover /\ ReuseKillsFamily /\ SweepsUndisturbed /\ [Next]_vars
    => SweepsCover' /\ ReuseKillsFamily'
<1> SUFFICES ASSUME IInv, SweepsCover, ReuseKillsFamily, SweepsUndisturbed,
                    [Next]_vars
             PROVE  SweepsCover' /\ ReuseKillsFamily'
  OBVIOUS
<1>1. /\ swept \subseteq DOMAIN tok /\ DOMAIN tok \subseteq DOMAIN tok'
      /\ \A q \in Proc : CoverOK(pc[q], tx[q])
  BY ActiveRows DEF SweepsCover
<1>2. ASSUME NEW q \in Proc PROVE CoverAfter(pc'[q], tx'[q])
  <2>1. CASE pc'[q] = pc[q] /\ tx'[q] = tx[q]
    <3>1. pc[q] = "apply" /\ tx[q].scope = "family" =>
            \A r \in Proc : pc[r] = "rotate" => tx[r].family # tx[q].family
      BY DEF SweepsUndisturbed, Sweeping
    <3>2. CoverAfter(pc[q], tx[q])
      BY <1>1, <3>1, CoverKept
    <3> QED
      BY <2>1, <3>2
  <2>2. CASE Step(q) /\ UNCHANGED <<sess, tok>>
    <3>1. PICK phase \in Phase, t \in Tx : Goto(q, phase, t) /\ CoverOK(phase, t)
      BY <1>1, <2>2, RequestMoves DEF LocalsKept
    <3>2. pc'[q] = phase /\ tx'[q] = t
      BY <3>1, OneMoves
    <3> QED
      BY <2>2, <3>1, <3>2, CoverKept
  <2>3. CASE SweepCommit(q) \/ ResetCommit(q) \/ LoginCommit(q) \/ RefreshCommit(q)
    <3>1. pc'[q] = "idle"
      BY <2>3, OneMoves
         DEF SweepCommit, ResetCommit, LoginCommit, RefreshCommit, Finish
    <3> QED
      BY <3>1 DEF CoverAfter
  <2>4. CASE \E p \in Proc \ {q} : Step(p)
    BY <2>1, <2>4, RequestMoves, OneMoves
  <2>5. CASE Environment \/ UNCHANGED vars
    BY <2>1, <2>5 DEF Environment, Purge, IssueOtp, SetEligible, Tick, vars
  <2> QED
    BY <2>2, <2>3, <2>4, <2>5, RequestKinds DEF Next
<1>3. \A q \in Proc : CoverOK(pc[q], tx[q])'
  BY <1>2 DEF CoverOK, CoverAfter, Active, Present
<1>4. /\ swept' \subseteq DOMAIN tok'
      /\ \A j \in DOMAIN sess' : sess'[j].family \in swept' => sess'[j].revoked # Never
  <2>1. ASSUME NEW f \in swept, NEW j \in DOMAIN sess', sess'[j].family = f,
               sess'[j].revoked = Never
        PROVE  FALSE
    <3>1. ASSUME NEW p \in Proc, RefreshCommit(p) PROVE tx[p].family # f
      <4>1. Active(tx[p].jti) /\ sess[tx[p].jti].family = tx[p].family
        BY <3>1 DEF RefreshCommit, IInv, RotationOwnsRow, LocalsOK, RowsHaveTokens,
                    Active, Present
      <4> QED
        BY <4>1 DEF ReuseKillsFamily, Active, Present
    <3>2. Active(j) /\ sess[j].family = f
      BY <1>1, <2>1, <3>1, ActiveOfFamily
    <3> QED
      BY <3>2 DEF ReuseKillsFamily, Active, Present
  <2>2. CASE swept' = swept
    BY <1>1, <2>1, <2>2
  <2>3. ASSUME NEW p \in Proc, SweepCommit(p), swept' # swept
        PROVE  /\ swept' \subseteq DOMAIN tok'
               /\ \A j \in DOMAIN sess' :
                    sess'[j].family \in swept' => sess'[j].revoked # Never
    <3> DEFINE f == tx[p].family
    <3>1. /\ tx[p].scope = "family" /\ pc[p] = "apply"
          /\ swept' = swept \cup {f}
      BY <2>3 DEF SweepCommit
    <3>2. /\ f \in DOMAIN tok
          /\ \A j \in DOMAIN sess : Active(j) /\ sess[j].family = f => j \in tx[p].rows
      BY <1>1, <3>1 DEF CoverOK
    <3>3. /\ DOMAIN sess' = DOMAIN sess /\ tok' = tok
          /\ \A j \in DOMAIN sess : /\ sess'[j].family = sess[j].family
                                    /\ j \in tx[p].rows => sess'[j].revoked # Never
      BY <2>3, SweptTable
    <3>4. \A j \in DOMAIN sess : sess'[j].revoked = Never => sess[j].revoked = Never
      <4>1. tx[p].now \in Nat /\ sess \in [DOMAIN sess -> Row]
        BY DEF IInv, TypeOK, Tx
      <4>2. \A j \in DOMAIN sess : sess'[j].revoked \in {sess[j].revoked, tx[p].now}
        BY <2>3, SweptTable
      <4> QED
        BY <4>1, <4>2
    <3> HIDE DEF f
    <3> QED
      BY <1>1, <2>1, <3>1, <3>2, <3>3, <3>4 DEF Active, Present
  <2>4. CASE ~ \E p \in Proc : SweepCommit(p)
    <3>1. ASSUME NEW p \in Proc, Step(p) PROVE swept' = swept
      <4>1. CASE \E u \in User, j \in Jti : LoginSelect(p, u, j)
        BY <4>1 DEF LoginSelect
      <4>2. CASE \/ \E j \in Jti : RefreshSelect(p, j) \/ RefreshLoadUser(p, j)
                                   \/ Logout(p, j)
                 \/ \E u \in User : ResetSelect(p, u)
        BY <4>2 DEF RefreshSelect, RefreshLoadUser, Logout, ResetSelect
      <4>3. CASE RefreshExpired(p) \/ RefreshRejected(p) \/ RefreshCas(p)
        BY <4>3 DEF RefreshExpired, RefreshRejected, RefreshCas
      <4>4. CASE SweepStart(p) \/ ResetLoadUser(p) \/ Crash(p)
        BY <4>4 DEF SweepStart, ResetLoadUser, Crash
      <4>5. CASE LoginCommit(p) \/ RefreshCommit(p) \/ ResetCommit(p)
        BY <4>5 DEF LoginCommit, RefreshCommit, ResetCommit
      <4> QED
        BY <2>4, <3>1, <4>1, <4>2, <4>3, <4>4, <4>5 DEF Step
    <3>2. CASE Environment \/ UNCHANGED vars
      BY <2>2, <3>2 DEF Environment, Purge, IssueOtp, SetEligible, Tick, vars
    <3> QED
      BY <2>2, <3>1, <3>2 DEF Next
  <2> QED
    BY <2>2, <2>3, <2>4
<1> QED
  BY <1>3, <1>4 DEF SweepsCover, ReuseKillsFamily, Active, Present

LEMMA InitSweeps == Init => SweepsCover /\ ReuseKillsFamily
BY DEF Init, SweepsCover, CoverOK, ReuseKillsFamily

\* A reuse-detection sweep that no rotation of its family overlaps leaves the
\* family without an active token, for good, whatever else runs: the rotation
\* that inserts a row after the sweep's snapshot is the only way around it
\* (refresh_token's reuse branch, _revoke_active_sessions).
THEOREM UndisturbedReuseKills ==
  Spec /\ []SweepsUndisturbed => []ReuseKillsFamily
BY InitSweeps, SweepsStep, Inductive, PTL DEF Spec
=============================================================================
