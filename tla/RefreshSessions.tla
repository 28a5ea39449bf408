-------------------------- MODULE RefreshSessions --------------------------
(***************************************************************************)
(* The life cycle of refresh tokens: POST /auth/login, /auth/refresh,      *)
(* /auth/logout, the session half of /auth/reset-password and the daily    *)
(* purge of refresh_sessions, run concurrently by several workers on one   *)
(* PostgreSQL database at READ COMMITTED.                                  *)
(*                                                                         *)
(* Every awaited statement is one step: it sees what is committed when it  *)
(* starts, an UPDATE waits for the row locks it needs and re-evaluates its *)
(* WHERE, and nothing else of the transaction is visible before COMMIT.    *)
(* The writes of a transaction are therefore kept in its record tx[p] and  *)
(* applied by its commit step; a crash at any point is a rollback.         *)
(***************************************************************************)
EXTENDS Integers, FiniteSets

CONSTANTS
    Proc,       \* requests in progress: one coroutine and one connection each
    ResetProc,  \* those of them that may serve /auth/reset-password
    User,
    Jti,        \* the uuid4 values a run may draw
    Null,
    TTL,        \* REFRESH_TOKEN_EXPIRE_DAYS, in ticks; also the retention
    Latency,    \* a request ends fewer than Latency ticks after it read the clock
    MaxClock,   \* bound of the model: the clock stops here
    MaxResets   \* bound of the model: reset OTPs stop being issued here

ASSUME ConstantsAssumption ==
    /\ ResetProc \subseteq Proc
    /\ Null \notin Jti \cup User
    /\ TTL \in Nat \ {0}
    /\ Latency \in Nat
    /\ MaxClock \in Nat
    /\ MaxResets \in Nat

VARIABLES
    clock,      \* datetime.now(timezone.utc), the same for every worker
    sess,       \* the committed refresh_sessions table, by primary key
    users,      \* the committed users rows, and whether a reset OTP row is live
    tok,        \* the claims of every token pair handed out, by its jti
    pc, tx,     \* where each request stands, and its local variables
    resets,     \* history: password resets committed, by user
    swept       \* history: families a reuse-detection sweep has committed on

vars == <<clock, sess, users, tok, pc, tx, resets, swept>>

Never == -1     \* NULL in a timestamp column

Row == [user : User, family : Jti, expires : Nat,
        revoked : Nat \cup {Never}, next : Jti \cup {Null}]
Account == [ver : Nat, eligible : BOOLEAN, otp : BOOLEAN]
\* user, ver and exp are claims; family, parent and epoch are history.
Claims == [user : User, ver : Nat, exp : Nat,
           family : Jti, parent : Jti \cup {Null}, epoch : Nat]
Scope == {"row", "family", "user"}
Tx == [user : User \cup {Null}, jti : Jti \cup {Null}, new : Jti \cup {Null},
       family : Jti \cup {Null}, ver : Nat, epoch : Nat, now : Nat, exp : Nat,
       scope : Scope, rows : SUBSET Jti]
NoTx == [user |-> Null, jti |-> Null, new |-> Null, family |-> Null, ver |-> 0,
         epoch |-> 0, now |-> 0, exp |-> 0, scope |-> "row", rows |-> {}]
Phase == {"idle", "login", "row", "cas", "rotate", "sweep", "apply", "reset"}

TypeOK ==
    /\ clock \in Nat
    /\ DOMAIN sess \subseteq Jti /\ sess \in [DOMAIN sess -> Row]
    /\ users \in [User -> Account]
    /\ DOMAIN tok \subseteq Jti /\ tok \in [DOMAIN tok -> Claims]
    /\ pc \in [Proc -> Phase]
    /\ tx \in [Proc -> Tx]
    /\ resets \in [User -> Nat]
    /\ swept \subseteq Jti

Init ==
    /\ clock = 0
    /\ sess = [j \in {} |-> Null]
    /\ users = [u \in User |-> [ver |-> 0, eligible |-> TRUE, otp |-> FALSE]]
    /\ tok = [j \in {} |-> Null]
    /\ pc = [p \in Proc |-> "idle"]
    /\ tx = [p \in Proc |-> NoTx]
    /\ resets = [u \in User |-> 0]
    /\ swept = {}

-----------------------------------------------------------------------------
(* The table and the tokens.                                               *)

Present(j) == j \in DOMAIN sess
Active(j) == Present(j) /\ sess[j].revoked = Never

\* A uuid4 that no token carries and no request has drawn.
Fresh(j) == j \notin DOMAIN tok /\ \A q \in Proc : tx[q].new # j

\* jwt.decode accepts the token: it was minted here and exp is in the future.
Decodes(j) == j \in DOMAIN tok /\ clock < tok[j].exp

\* Mutant: the bulk UPDATE has lost its revoked_at IS NULL.
RevokeAll(S, t) ==
    [j \in DOMAIN sess |->
        IF j \in S THEN [sess[j] EXCEPT !.revoked = t] ELSE sess[j]]

\* UPDATE ... SET revoked_at = t WHERE revoked_at IS NULL, on the rows of S.
Revoke(S, t) ==
    [j \in DOMAIN sess |->
        IF j \in S /\ sess[j].revoked = Never
          THEN [sess[j] EXCEPT !.revoked = t] ELSE sess[j]]

\* Mutant: the compare-and-set reads the row and does not lock it.
NeverLocked(j) == FALSE

\* The row lock a rotation holds from its compare-and-set to its commit.
Locked(j) == \E q \in Proc : pc[q] = "rotate" /\ tx[q].jti = j

\* get_current_user accepts the access token minted together with j.
AccessAccepted(j) == tok[j].ver = users[tok[j].user].ver

Goto(p, phase, locals) ==
    /\ pc' = [pc EXCEPT ![p] = phase]
    /\ tx' = [tx EXCEPT ![p] = locals]
Finish(p) == Goto(p, "idle", NoTx)

-----------------------------------------------------------------------------
(* POST /auth/login                                                        *)

\* SELECT the user; the password matches, the account is active and verified.
LoginSelect(p, u, j) ==
    /\ pc[p] = "idle"
    /\ users[u].eligible
    /\ Fresh(j)
    /\ Goto(p, "login", [NoTx EXCEPT !.user = u, !.new = j, !.family = j,
                           !.ver = users[u].ver, !.epoch = resets[u],
                           !.now = clock, !.exp = clock + TTL])
    /\ UNCHANGED <<clock, sess, users, tok, resets, swept>>

\* Mutant: the superseded jti is passed for the family.
NewRowOfParent(t) == [user |-> t.user, family |-> t.jti, expires |-> t.exp,
                      revoked |-> Never, next |-> Null]

\* The row a transaction inserts and the token it answers with.
NewRow(t) == [user |-> t.user, family |-> t.family, expires |-> t.exp,
              revoked |-> Never, next |-> Null]
NewToken(t) == [user |-> t.user, ver |-> t.ver, exp |-> t.exp,
                family |-> t.family, parent |-> t.jti, epoch |-> t.epoch]
Mint(t) == tok' = [j \in DOMAIN tok \cup {t.new} |->
                     IF j = t.new THEN NewToken(t) ELSE tok[j]]

\* INSERT the first row of a new family and commit.
LoginCommit(p) ==
    /\ pc[p] = "login"
    /\ sess' = [j \in DOMAIN sess \cup {tx[p].new} |->
                  IF j = tx[p].new THEN NewRow(tx[p]) ELSE sess[j]]
    /\ Mint(tx[p])
    /\ Finish(p)
    /\ UNCHANGED <<clock, users, resets, swept>>

-----------------------------------------------------------------------------
(* POST /auth/refresh                                                      *)

\* SELECT the row of the presented token; without a row the answer is 401.
\* revoked and expires are read here and used after the await: the two
\* outcomes that need them are kept as the phase the request goes to.
RefreshSelect(p, j) ==
    /\ pc[p] = "idle"
    /\ Decodes(j)
    /\ Present(j)
    /\ LET t == [NoTx EXCEPT !.user = tok[j].user, !.jti = j,
                   !.family = sess[j].family, !.ver = tok[j].ver]
       IN IF sess[j].revoked = Never
            THEN Goto(p, "row", [t EXCEPT !.exp = sess[j].expires])
            ELSE Goto(p, "sweep", [t EXCEPT !.now = clock, !.scope = "family"])
    /\ UNCHANGED <<clock, sess, users, tok, resets, swept>>

\* The row expired between the decoding of the token and now: 401.
RefreshExpired(p) ==
    /\ pc[p] = "row"
    /\ tx[p].exp < clock
    /\ Finish(p)
    /\ UNCHANGED <<clock, sess, users, tok, resets, swept>>

\* SELECT the user named by the token: inactive, unverified or a stale ver.
RefreshRejected(p) ==
    /\ pc[p] = "row"
    /\ tx[p].exp >= clock
    /\ ~ users[tx[p].user].eligible \/ users[tx[p].user].ver # tx[p].ver
    /\ Finish(p)
    /\ UNCHANGED <<clock, sess, users, tok, resets, swept>>

\* Mutant: the ver claim is not compared with token_version.
RefreshLoadUserAnyVer(p, j) ==
    /\ pc[p] = "row"
    /\ tx[p].exp >= clock
    /\ users[tx[p].user].eligible
    /\ Fresh(j)
    /\ Goto(p, "cas", [tx[p] EXCEPT !.new = j, !.now = clock,
                         !.ver = users[tx[p].user].ver,
                         !.epoch = resets[tx[p].user]])
    /\ UNCHANGED <<clock, sess, users, tok, resets, swept>>

\* SELECT the user; every check passes and the new jti is drawn.
RefreshLoadUser(p, j) ==
    /\ pc[p] = "row"
    /\ tx[p].exp >= clock
    /\ users[tx[p].user].eligible
    /\ users[tx[p].user].ver = tx[p].ver
    /\ Fresh(j)
    /\ Goto(p, "cas", [tx[p] EXCEPT !.new = j, !.now = clock,
                         !.ver = users[tx[p].user].ver,
                         !.epoch = resets[tx[p].user]])
    /\ UNCHANGED <<clock, sess, users, tok, resets, swept>>

\* Mutant: the UPDATE relies on the SELECT and has no revoked_at IS NULL.
RefreshBlindUpdate(p) ==
    /\ pc[p] = "cas"
    /\ ~ Locked(tx[p].jti)
    /\ IF Present(tx[p].jti)
         THEN Goto(p, "rotate", [tx[p] EXCEPT !.exp = clock + TTL])
         ELSE Finish(p)
    /\ UNCHANGED <<clock, sess, users, tok, resets, swept>>

\* Mutant: rowcount 0 is retried until the row can be updated.
RefreshCasRetry(p) ==
    /\ pc[p] = "cas"
    /\ ~ Locked(tx[p].jti)
    /\ Active(tx[p].jti)
    /\ Goto(p, "rotate", [tx[p] EXCEPT !.exp = clock + TTL])
    /\ UNCHANGED <<clock, sess, users, tok, resets, swept>>

\* UPDATE ... WHERE id = jti AND revoked_at IS NULL. It waits for the row
\* lock; rowcount 1 takes the lock, rowcount 0 rolls back and answers 401.
RefreshCas(p) ==
    /\ pc[p] = "cas"
    /\ ~ Locked(tx[p].jti)
    /\ IF Active(tx[p].jti)
         THEN Goto(p, "rotate", [tx[p] EXCEPT !.exp = clock + TTL])
         ELSE Finish(p)
    /\ UNCHANGED <<clock, sess, users, tok, resets, swept>>

\* Mutant: the old row is linked to its successor and not revoked.
LinkOnly(row, t) == [row EXCEPT !.next = t.new]

\* The row a rotation leaves behind: revoked by the compare-and-set, linked
\* to its successor after the flush.
Supersede(row, t) == [row EXCEPT !.revoked = t.now, !.next = t.new]

\* INSERT the successor, flush, link the old row to it and commit.
RefreshCommit(p) ==
    /\ pc[p] = "rotate"
    /\ LET t == tx[p] IN
         /\ sess' = [j \in DOMAIN sess \cup {t.new} |->
                       CASE j = t.new -> NewRow(t)
                         [] j = t.jti -> Supersede(sess[j], t)
                         [] OTHER -> sess[j]]
         /\ Mint(t)
    /\ Finish(p)
    /\ UNCHANGED <<clock, users, resets, swept>>

-----------------------------------------------------------------------------
(* POST /auth/logout and the bulk revocations                              *)

\* The clock is read and the UPDATE of the one row is sent.
Logout(p, j) ==
    /\ pc[p] = "idle"
    /\ Decodes(j)
    /\ Goto(p, "sweep", [NoTx EXCEPT !.jti = j, !.now = clock, !.scope = "row"])
    /\ UNCHANGED <<clock, sess, users, tok, resets, swept>>

\* The filter of _revoke_active_sessions at each of its call sites.
Matches(t, j) ==
    CASE t.scope = "row"    -> j = t.jti
      [] t.scope = "family" -> sess[j].family = t.family
      [] t.scope = "user"   -> sess[j].user = t.user

\* The UPDATE starts: its snapshot fixes the rows it may touch. A row that is
\* committed later is not among them.
SweepStart(p) ==
    /\ pc[p] = "sweep"
    /\ Goto(p, "apply",
            [tx[p] EXCEPT !.rows = {j \in DOMAIN sess :
                                      Active(j) /\ Matches(tx[p], j)}])
    /\ UNCHANGED <<clock, sess, users, tok, resets, swept>>

\* It has every row lock; WHERE is re-evaluated row by row; commit.
SweepCommit(p) ==
    /\ pc[p] = "apply"
    /\ tx[p].scope # "user"
    /\ \A j \in tx[p].rows : ~ Locked(j)
    /\ sess' = Revoke(tx[p].rows, tx[p].now)
    /\ swept' = IF tx[p].scope = "family" THEN swept \cup {tx[p].family}
                                          ELSE swept
    /\ Finish(p)
    /\ UNCHANGED <<clock, users, tok, resets>>

-----------------------------------------------------------------------------
(* POST /auth/reset-password, after its rate limit                         *)

\* _check_and_consume_otp finds the live OTP row and accepts the code.
ResetSelect(p, u) ==
    /\ pc[p] = "idle"
    /\ p \in ResetProc
    /\ users[u].otp
    /\ Goto(p, "reset", [NoTx EXCEPT !.user = u])
    /\ UNCHANGED <<clock, sess, users, tok, resets, swept>>

\* SELECT the user: token_version is read here and incremented in Python.
ResetLoadUser(p) ==
    /\ pc[p] = "reset"
    /\ Goto(p, "sweep", [tx[p] EXCEPT !.ver = users[tx[p].user].ver,
                           !.now = clock, !.scope = "user"])
    /\ UNCHANGED <<clock, sess, users, tok, resets, swept>>

\* Mutant: the reset leaves token_version alone.
SameVersion(v) == v

\* token_version += 1, on the value that was read.
NextVersion(v) == v + 1

\* The sweep has its locks; UPDATE users, DELETE the OTP row and commit.
ResetCommit(p) ==
    /\ pc[p] = "apply"
    /\ tx[p].scope = "user"
    /\ \A j \in tx[p].rows : ~ Locked(j)
    /\ sess' = Revoke(tx[p].rows, tx[p].now)
    /\ users' = [users EXCEPT ![tx[p].user].ver = NextVersion(tx[p].ver),
                              ![tx[p].user].otp = FALSE]
    /\ resets' = [resets EXCEPT ![tx[p].user] = @ + 1]
    /\ Finish(p)
    /\ UNCHANGED <<clock, tok, swept>>

-----------------------------------------------------------------------------
(* The scheduler, crashes and the environment                              *)

\* Mutant: the cutoff is the present, with no retention.
CutoffsNow == 0 .. clock

\* A clock value read earlier, minus REFRESH_TOKEN_EXPIRE_DAYS.
Cutoffs == 0 .. clock - TTL

Purgeable(cutoff) ==
    {j \in DOMAIN sess : IF sess[j].revoked # Never THEN sess[j].revoked < cutoff
                                                   ELSE sess[j].expires < cutoff}

\* Mutant: replaced_by without the ON DELETE SET NULL of migration 0004.
KeepNext(row, gone) == row

\* What the foreign key of replaced_by does to a row that stays.
Unlink(row, gone) == [row EXCEPT !.next = IF @ \in gone THEN Null ELSE @]

\* DELETE the rows whose revocation or expiry is older than the cutoff.
Purge(cutoff) ==
    LET gone == Purgeable(cutoff) IN
    /\ gone # {}
    /\ \A j \in gone : ~ Locked(j)
    /\ sess' = [j \in DOMAIN sess \ gone |-> Unlink(sess[j], gone)]
    /\ UNCHANGED <<clock, users, tok, pc, tx, resets, swept>>

\* An exception, a lost connection or a killed worker: rollback.
Crash(p) ==
    /\ pc[p] # "idle"
    /\ Finish(p)
    /\ UNCHANGED <<clock, sess, users, tok, resets, swept>>

\* forgot_password stores a reset OTP row.
IssueOtp(u) ==
    /\ ~ users[u].otp
    /\ resets[u] < MaxResets
    /\ users' = [users EXCEPT ![u].otp = TRUE]
    /\ UNCHANGED <<clock, sess, tok, pc, tx, resets, swept>>

\* verify-email, or an operator's change of is_active.
SetEligible(u) ==
    /\ users' = [users EXCEPT ![u].eligible = ~ @]
    /\ UNCHANGED <<clock, sess, tok, pc, tx, resets, swept>>

\* A request that has read the clock ends before Latency ticks have passed.
ReadClock == {p \in Proc : pc[p] \in {"login", "cas", "rotate", "sweep", "apply"}}
Tick ==
    /\ clock < MaxClock
    /\ \A p \in ReadClock : clock < tx[p].now + Latency
    /\ clock' = clock + 1
    /\ UNCHANGED <<sess, users, tok, pc, tx, resets, swept>>

Step(p) ==
    \/ \E u \in User, j \in Jti : LoginSelect(p, u, j)
    \/ LoginCommit(p)
    \/ \E j \in Jti : RefreshSelect(p, j)
    \/ RefreshExpired(p)
    \/ RefreshRejected(p)
    \/ \E j \in Jti : RefreshLoadUser(p, j)
    \/ RefreshCas(p)
    \/ RefreshCommit(p)
    \/ \E j \in Jti : Logout(p, j)
    \/ SweepStart(p)
    \/ SweepCommit(p)
    \/ \E u \in User : ResetSelect(p, u)
    \/ ResetLoadUser(p)
    \/ ResetCommit(p)
    \/ Crash(p)

Environment ==
    \/ \E cutoff \in Cutoffs : Purge(cutoff)
    \/ \E u \in User : IssueOtp(u)
    \/ \E u \in User : SetEligible(u)
    \/ Tick

Next == (\E p \in Proc : Step(p)) \/ Environment

Spec == Init /\ [][Next]_vars

\* The event loop runs every request that can go on, and PostgreSQL grants a
\* row lock in the order of the requests for it, so a wait that is over again
\* and again ends. Nothing else is assumed to happen.
Fairness ==
    \A p \in Proc :
      /\ WF_vars(SweepStart(p))
      /\ WF_vars(RefreshCommit(p))
      /\ SF_vars(RefreshCas(p))
      /\ SF_vars(SweepCommit(p))
      /\ SF_vars(ResetCommit(p))
FairSpec == Spec /\ Fairness

-----------------------------------------------------------------------------
(* Safety                                                                  *)

\* At most one refresh token of a family is active, with no help from the
\* unique index of migration 0008: a rotation revokes first, and two
\* rotations of one token cannot both pass the compare-and-set
\* (auth.py, refresh_token).
OneActivePerFamily ==
    \A i, j \in DOMAIN sess :
      Active(i) /\ Active(j) /\ sess[i].family = sess[j].family => i = j

\* A refresh token is exchanged at most once, however many requests present
\* it at the same time and whether or not its row has been purged since.
ExchangedOnce ==
    \A i, j \in DOMAIN tok :
      tok[i].parent = tok[j].parent /\ tok[i].parent # Null => i = j

\* A family never crosses a password reset or a user: a token rotated from
\* another carries its user, its family and its token_version.
ChainKeepsClaims ==
    \A j \in DOMAIN tok : tok[j].parent # Null =>
      /\ tok[j].parent \in DOMAIN tok
      /\ LET q == tok[tok[j].parent]
         IN q.user = tok[j].user /\ q.family = tok[j].family /\ q.ver = tok[j].ver

\* The purge leaves no replaced_by that points at a deleted row (the hard
\* dependency of _cleanup_refresh_sessions on migration 0004).
NoDanglingNext ==
    \A j \in DOMAIN sess : sess[j].next # Null => Present(sess[j].next)

\* Reuse detection needs the row of every token that still decodes: a purged
\* token has expired, up to the latency of the request that revoked it
\* (the retention floor of _cleanup_refresh_sessions).
PurgedIsExpired ==
    \A j \in DOMAIN tok : ~ Present(j) => tok[j].exp < clock + Latency

\* A row stays revoked, with the time of its first revocation, until it is
\* purged: two sweeps, a logout and a rotation never overwrite each other.
RevokedForGood ==
    [][\A j \in DOMAIN sess \cap DOMAIN sess' :
         sess[j].revoked # Never => sess'[j].revoked = sess[j].revoked]_vars

\* A family with no active row is dead: no request in flight, whatever it has
\* read, brings it back.
DeadFamilyStaysDead ==
    [][\A f \in DOMAIN tok :
         (\A j \in DOMAIN sess : sess[j].family = f => ~ Active(j))
         => \A j \in DOMAIN sess' :
              sess'[j].family = f => sess'[j].revoked # Never]_vars

\* No token minted under the password of before a reset is accepted after
\* it, whatever logins and rotations the reset overlapped with.
NoTokenOutlivesReset ==
    \A j \in DOMAIN tok : AccessAccepted(j) => tok[j].epoch = resets[tok[j].user]

\* A reuse-detection sweep leaves no active token in the family.
ReuseKillsFamily ==
    \A j \in DOMAIN sess : sess[j].family \in swept => ~ Active(j)

-----------------------------------------------------------------------------
(* The inductive invariant behind the safety properties                    *)

\* What the local variables of a request hold in each phase.
LocalsOK ==
    \A p \in Proc : LET t == tx[p] IN
      /\ pc[p] \in {"login", "row", "cas", "rotate", "reset"} => t.user \in User
      /\ pc[p] \in {"login", "cas", "rotate"} => t.new \in Jti
      /\ pc[p] = "login" => t.family = t.new /\ t.jti = Null
      /\ pc[p] \in {"row", "cas", "rotate"} =>
           /\ t.jti \in DOMAIN tok
           /\ t.user = tok[t.jti].user
           /\ t.family = tok[t.jti].family
           /\ t.ver = tok[t.jti].ver
      /\ pc[p] \in {"sweep", "apply"} =>
           /\ t.scope = "user" => t.user \in User
           /\ t.scope = "family" => t.family \in Jti

\* A uuid4 drawn by a request is drawn by no other and carried by no token.
DrawnOnce ==
    \A p \in Proc : tx[p].new # Null =>
      /\ tx[p].new \notin DOMAIN tok
      /\ \A q \in Proc : tx[q].new = tx[p].new => q = p

\* Every row has its token, with the same user and family; every family is
\* named after a token; every parent is a token.
RowsHaveTokens ==
    /\ \A j \in DOMAIN sess : /\ j \in DOMAIN tok
                              /\ sess[j].user = tok[j].user
                              /\ sess[j].family = tok[j].family
    /\ \A j \in DOMAIN tok : tok[j].family \in DOMAIN tok

\* A rotation that passed the compare-and-set owns an active row, alone.
RotationOwnsRow ==
    \A p \in Proc : pc[p] = "rotate" =>
      /\ Active(tx[p].jti)
      /\ \A q \in Proc : pc[q] = "rotate" /\ tx[q].jti = tx[p].jti => q = p

\* A token whose row is active has not been exchanged.
ActiveHasNoChild ==
    \A i, j \in DOMAIN tok : Active(i) => tok[j].parent # i

IInv ==
    /\ TypeOK /\ LocalsOK /\ DrawnOnce /\ RowsHaveTokens /\ ChainKeepsClaims
    /\ RotationOwnsRow /\ ActiveHasNoChild
    /\ OneActivePerFamily /\ ExchangedOnce

-----------------------------------------------------------------------------
(* Liveness *)

\* No request waits for a row lock for ever: every compare-and-set and every
\* sweep that has been sent ends.
LockWaitsEnd == \A p \in Proc : pc[p] \in {"cas", "sweep", "apply"} ~> pc[p] = "idle"
=============================================================================
