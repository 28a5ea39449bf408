------------------------------ MODULE OtpCodes ------------------------------
(***************************************************************************)
(* The verifications table and the accounts it vouches for: register,      *)
(* resend-verification-email, verify-email, forgot-password, verify-otp    *)
(* and the OTP half of reset-password, run concurrently at READ COMMITTED. *)
(*                                                                         *)
(* As in RefreshSessions every awaited statement is a step and the writes  *)
(* of a transaction are applied by its commit. A DELETE by filter is two:  *)
(* its snapshot, and the commit that removes what is left of it. Requests  *)
(* that the rate limiter or a check turns away without a write (a known    *)
(* email at register, no live code, verify-otp with the right code) change *)
(* nothing and have no action.                                             *)
(***************************************************************************)
EXTENDS Integers, FiniteSets

CONSTANTS
    Proc,           \* requests in progress on all workers
    Email,
    Id,             \* the uuid4 values of the codes a run may store
    Null,
    ResetTTL,       \* RESET_PASSWORD_OTP_TTL_MINUTES, in ticks
    VerifyTTL,      \* EMAIL_VERIFICATION_OTP_TTL_MINUTES, in ticks
    Cooldown,       \* the resend cooldown of both purposes, in ticks
    MaxAttempts,    \* MAX_OTP_ATTEMPTS
    MaxClock        \* bound of the model: the clock stops here

ASSUME ConstantsAssumption ==
    /\ Null \notin Id \cup Email
    /\ ResetTTL \in Nat \ {0} /\ VerifyTTL \in Nat \ {0}
    /\ Cooldown \in Nat \ {0}
    /\ MaxAttempts \in Nat \ {0}
    /\ MaxClock \in Nat

VARIABLES
    clock,      \* datetime.now(timezone.utc), the same for every worker
    users,      \* the account of every email
    rows,       \* the committed verifications table, by primary key
    code,       \* history of every code committed: who, guesses, consumption
    mailed,     \* history: emails a registration code was delivered to
    pc, tx      \* where each request stands, and its local variables

vars == <<clock, users, rows, code, mailed, pc, tx>>

Purpose == {"reset_password", "email_verification"}
TTL(purpose) == IF purpose = "reset_password" THEN ResetTTL ELSE VerifyTTL

Account == {"absent", "unverified", "verified"}
Row == [email : Email, purpose : Purpose,
        attempts : Nat, expires : Nat, created : Nat]
Story == [email : Email, purpose : Purpose, by : Proc, wrong : Nat, used : BOOLEAN]
Tx == [email : Email \cup {Null}, purpose : Purpose, row : Id \cup {Null},
       attempts : Nat, now : Nat, rows : SUBSET Id]
NoTx == [email |-> Null, purpose |-> "reset_password", row |-> Null,
         attempts |-> 0, now |-> 0, rows |-> {}]
Phase == {"idle", "flush", "send", "created", "latest", "delete", "rotate",
          "wrong", "consume"}

TypeOK ==
    /\ clock \in Nat
    /\ users \in [Email -> Account]
    /\ DOMAIN code \subseteq Id /\ code \in [DOMAIN code -> Story]
    /\ DOMAIN rows \subseteq DOMAIN code /\ rows \in [DOMAIN rows -> Row]
    /\ mailed \subseteq Email
    /\ pc \in [Proc -> Phase]
    /\ tx \in [Proc -> Tx]

Init ==
    /\ clock = 0
    /\ users = [e \in Email |-> "absent"]
    /\ rows = [r \in {} |-> Null]
    /\ code = [r \in {} |-> Null]
    /\ mailed = {}
    /\ pc = [p \in Proc |-> "idle"]
    /\ tx = [p \in Proc |-> NoTx]

-----------------------------------------------------------------------------
(* The table.                                                              *)

RowsOf(e, purpose) ==
    {r \in DOMAIN rows : rows[r].email = e /\ rows[r].purpose = purpose}
Live(r) == r \in DOMAIN rows /\ rows[r].expires > clock

\* Mutant: the lookup has lost its filter on the purpose.
LiveOfAnyPurpose(e, purpose) == {r \in DOMAIN rows : rows[r].email = e /\ Live(r)}

\* The rows the lookup of _check_and_consume_otp may return.
LiveOf(e, purpose) == {r \in RowsOf(e, purpose) : Live(r)}

\* Mutant: the lifetime is subtracted.
NewRowPast(t, created) ==
    [email |-> t.email, purpose |-> t.purpose, attempts |-> 0,
     expires |-> created - TTL(t.purpose), created |-> created]

\* A row is inserted for request p; gone are the rows deleted with it.
NewRow(t, created) == [email |-> t.email, purpose |-> t.purpose, attempts |-> 0,
                       expires |-> created + TTL(t.purpose), created |-> created]
Store(p, r, gone, created) ==
    /\ r \notin DOMAIN code
    /\ rows' = [k \in (DOMAIN rows \ gone) \cup {r} |->
                  IF k = r THEN NewRow(tx[p], created) ELSE rows[k]]
    /\ code' = [k \in DOMAIN code \cup {r} |->
                  IF k = r THEN [email |-> tx[p].email, purpose |-> tx[p].purpose,
                                 by |-> p, wrong |-> 0, used |-> FALSE]
                           ELSE code[k]]

Goto(p, phase, locals) ==
    /\ pc' = [pc EXCEPT ![p] = phase]
    /\ tx' = [tx EXCEPT ![p] = locals]
Finish(p) == Goto(p, "idle", NoTx)

-----------------------------------------------------------------------------
(* POST /auth/register                                                     *)

\* SELECT the user: the email is new.
RegisterSelect(p, e) ==
    /\ pc[p] = "idle"
    /\ users[e] = "absent"
    /\ Goto(p, "flush", [NoTx EXCEPT !.email = e, !.purpose = "email_verification"])
    /\ UNCHANGED <<clock, users, rows, code, mailed>>

\* Another registration has inserted the email and not ended yet.
EmailHeld(e) == \E q \in Proc : pc[q] \in {"send", "created"} /\ tx[q].email = e

\* The INSERTs of the user and of the code are flushed. The unique index on
\* the email makes the first wait for a registration in progress, and fail
\* with an IntegrityError, a 500, when that one has committed.
RegisterFlush(p) ==
    /\ pc[p] = "flush"
    /\ ~ EmailHeld(tx[p].email)
    /\ IF users[tx[p].email] = "absent"
         THEN Goto(p, "send", [tx[p] EXCEPT !.now = clock])
         ELSE Finish(p)
    /\ UNCHANGED <<clock, users, rows, code, mailed>>

\* Mutant: the account is kept when the code could not be sent.
SendFailureIgnored(p) ==
    /\ pc[p] = "send"
    /\ Goto(p, "created", tx[p])
    /\ UNCHANGED <<clock, users, rows, code, mailed>>

\* Mutant: a failed send is tried again until it succeeds.
SendRetried(p) ==
    /\ pc[p] = "send"
    /\ Goto(p, "send", [tx[p] EXCEPT !.attempts = 1 - @])
    /\ UNCHANGED <<clock, users, rows, code, mailed>>

\* EmailSendError: both INSERTs are rolled back, 503.
RegisterSendFails(p) ==
    /\ pc[p] = "send"
    /\ Finish(p)
    /\ UNCHANGED <<clock, users, rows, code, mailed>>

\* The email is sent, with the transaction still open.
RegisterSends(p) ==
    /\ pc[p] = "send"
    /\ mailed' = mailed \cup {tx[p].email}
    /\ Goto(p, "created", tx[p])
    /\ UNCHANGED <<clock, users, rows, code>>

\* COMMIT of the account and of its first code.
RegisterCommit(p, r) ==
    /\ pc[p] = "created"
    /\ Store(p, r, {}, tx[p].now)
    /\ users' = [users EXCEPT ![tx[p].email] = "unverified"]
    /\ Finish(p)
    /\ UNCHANGED <<clock, mailed>>

-----------------------------------------------------------------------------
(* POST /auth/forgot-password and /auth/resend-verification-email          *)

\* SELECT the user; a verified one needs no verification code.
IssueUser(p, e, purpose) ==
    /\ pc[p] = "idle"
    /\ users[e] # "absent"
    /\ purpose = "email_verification" => users[e] # "verified"
    /\ Goto(p, "latest", [NoTx EXCEPT !.email = e, !.purpose = purpose])
    /\ UNCHANGED <<clock, users, rows, code, mailed>>

\* SELECT the latest row, live or not: within its cooldown nothing is done.
InCooldown(S) == \E r \in S : rows[r].created > clock - Cooldown
IssueLatest(p) ==
    /\ pc[p] = "latest"
    /\ IF InCooldown(RowsOf(tx[p].email, tx[p].purpose))
         THEN Finish(p) ELSE Goto(p, "delete", tx[p])
    /\ UNCHANGED <<clock, users, rows, code, mailed>>

\* Mutant: only the codes that can still be used are invalidated.
DeleteLiveOnly(t) == LiveOf(t.email, t.purpose)

\* Mutant: the DELETE has lost its filter on the purpose.
DeleteAnyPurpose(t) == {r \in DOMAIN rows : rows[r].email = t.email}

\* What the DELETE of the rotation matches.
Deleted(t) == RowsOf(t.email, t.purpose)

\* Mutant: the DELETE is committed on its own.
DeleteCommitted(p) ==
    /\ pc[p] = "delete"
    /\ Goto(p, "rotate", tx[p])
    /\ rows' = [k \in DOMAIN rows \ Deleted(tx[p]) |-> rows[k]]
    /\ UNCHANGED <<clock, users, code, mailed>>

\* The DELETE starts: its snapshot fixes the rows it removes.
IssueDelete(p) ==
    /\ pc[p] = "delete"
    /\ Goto(p, "rotate", [tx[p] EXCEPT !.rows = Deleted(tx[p])])
    /\ UNCHANGED <<clock, users, rows, code, mailed>>

\* INSERT of the fresh code and COMMIT; the email is sent after it, and a
\* failure to send is ignored.
IssueCommit(p, r) ==
    /\ pc[p] = "rotate"
    /\ Store(p, r, tx[p].rows, clock)
    /\ Finish(p)
    /\ UNCHANGED <<clock, users, mailed>>

-----------------------------------------------------------------------------
(* _check_and_consume_otp in verify-otp, reset-password and verify-email   *)

\* SELECT a live row, any of them; the code is wrong. attempts is read here
\* and incremented in Python.
CheckWrong(p, e, purpose) ==
    /\ pc[p] = "idle"
    /\ \E r \in LiveOf(e, purpose) :
         Goto(p, "wrong", [email |-> e, purpose |-> purpose, row |-> r,
                           attempts |-> rows[r].attempts + 1, now |-> clock,
                           rows |-> {}])
    /\ UNCHANGED <<clock, users, rows, code, mailed>>

\* Mutant: the lockout comes one guess late.
LockOutLate(n) == n > MaxAttempts

LockOut(n) == n >= MaxAttempts

\* Mutant: the whole row is written back, expires_at as it was read.
WriteBack(row, t) ==
    [row EXCEPT !.attempts = t.attempts,
                !.expires = IF LockOut(t.attempts) THEN t.now
                            ELSE row.created + TTL(row.purpose)]

\* The flush writes the attributes that changed: attempts, and expires_at
\* when the budget is spent.
Punish(row, t) ==
    [row EXCEPT !.attempts = t.attempts,
                !.expires = IF LockOut(t.attempts) THEN t.now ELSE @]

\* UPDATE by primary key and COMMIT; 400. A row that is gone is a
\* StaleDataError, a 500.
WrongCommit(p) ==
    /\ pc[p] = "wrong"
    /\ LET r == tx[p].row IN
       IF r \in DOMAIN rows
         THEN /\ rows' = [rows EXCEPT ![r] = Punish(@, tx[p])]
              /\ code' = [code EXCEPT ![r].wrong = @ + 1]
         ELSE UNCHANGED <<rows, code>>
    /\ Finish(p)
    /\ UNCHANGED <<clock, users, mailed>>

\* SELECT a live row, any of them; the code is right, in an endpoint that
\* consumes it.
CheckRight(p, e, purpose) ==
    /\ pc[p] = "idle"
    /\ \E r \in LiveOf(e, purpose) :
         Goto(p, "consume", [NoTx EXCEPT !.email = e, !.purpose = purpose, !.row = r])
    /\ UNCHANGED <<clock, users, rows, code, mailed>>

\* DELETE by primary key and COMMIT, with what the code was asked for: the
\* account is verified, or the password is reset (RefreshSessions). A row that
\* is already gone is no error.
ConsumeCommit(p) ==
    /\ pc[p] = "consume"
    /\ LET t == tx[p] IN
         /\ rows' = [k \in DOMAIN rows \ {t.row} |-> rows[k]]
         /\ code' = [code EXCEPT ![t.row].used = TRUE]
         /\ users' = IF t.purpose = "email_verification"
                       THEN [users EXCEPT ![t.email] = "verified"] ELSE users
    /\ Finish(p)
    /\ UNCHANGED <<clock, mailed>>

-----------------------------------------------------------------------------
\* An exception, a lost connection or a killed worker: rollback.
Crash(p) ==
    /\ pc[p] # "idle"
    /\ Finish(p)
    /\ UNCHANGED <<clock, users, rows, code, mailed>>

Tick ==
    /\ clock < MaxClock
    /\ clock' = clock + 1
    /\ UNCHANGED <<users, rows, code, mailed, pc, tx>>

Step(p) ==
    \/ \E e \in Email : RegisterSelect(p, e)
    \/ RegisterFlush(p)
    \/ RegisterSendFails(p)
    \/ RegisterSends(p)
    \/ \E r \in Id : RegisterCommit(p, r)
    \/ \E e \in Email, purpose \in Purpose : IssueUser(p, e, purpose)
    \/ IssueLatest(p)
    \/ IssueDelete(p)
    \/ \E r \in Id : IssueCommit(p, r)
    \/ \E e \in Email, purpose \in Purpose : CheckWrong(p, e, purpose)
    \/ WrongCommit(p)
    \/ \E e \in Email, purpose \in Purpose : CheckRight(p, e, purpose)
    \/ ConsumeCommit(p)
    \/ Crash(p)

Next == (\E p \in Proc : Step(p)) \/ Tick

Spec == Init /\ [][Next]_vars

\* The event loop runs every registration that can go on, the email provider
\* answers, and PostgreSQL lets the waiters for an index entry in by turns.
Fairness ==
    \A p \in Proc :
      /\ SF_vars(RegisterFlush(p))
      /\ WF_vars(RegisterSendFails(p) \/ RegisterSends(p))
      /\ WF_vars(\E r \in Id : RegisterCommit(p, r))
FairSpec == Spec /\ Fairness

-----------------------------------------------------------------------------
(* Safety                                                                  *)

\* No request leaves two rows of a purpose behind: however requests for a new
\* code overlap, an email has at most one row per request in progress, and one
\* when they do not (the DELETE of forgot_password and of the resend).
OneRowPerRequest ==
    \A r, s \in DOMAIN rows :
      /\ rows[r].email = rows[s].email /\ rows[r].purpose = rows[s].purpose
      /\ code[r].by = code[s].by
      => r = s

\* A code that was consumed, rotated away, locked out or has expired is never
\* live again, whatever a request that read it earlier still writes.
DeadCodeStaysDead ==
    [][\A r \in DOMAIN code : ~ Live(r) => ~ Live(r)']_vars

\* A code whose budget is spent is dead, also when the guesses that spent it
\* were written out of order.
ExhaustedIsDead ==
    \A r \in DOMAIN rows : rows[r].attempts >= MaxAttempts => ~ Live(r)

\* An account is verified only by a verification code of its own email: a
\* password reset never verifies (the purpose filter of
\* _check_and_consume_otp).
VerifiedByOwnCode ==
    \A e \in Email : users[e] = "verified" =>
      \E r \in DOMAIN code : /\ code[r].email = e /\ code[r].used
                             /\ code[r].purpose = "email_verification"

\* An account exists only if its code was delivered: a failed send leaves no
\* account behind (_handle_new_email_registration).
AccountsGotTheirCode == \A e \in Email : users[e] # "absent" => e \in mailed

\* An account that is not verified has a row to verify it with or to rotate,
\* whatever resends and guesses overlapped (rotation is one transaction).
UnverifiedHasRow ==
    \A e \in Email : users[e] = "unverified" => RowsOf(e, "email_verification") # {}

\* At most MaxAttempts wrong guesses are answered for a code.
BudgetHolds == \A r \in DOMAIN code : code[r].wrong <= MaxAttempts

\* A registration that found its email new never fails on it: both branches
\* of register answer alike.
RegisterAnswersAlike ==
    \A p \in Proc : pc[p] = "flush" => users[tx[p].email] = "absent"

-----------------------------------------------------------------------------
(* The inductive invariant                                                 *)

\* The story of a row repeats its columns.
StoryOfRow == \A r \in DOMAIN rows : /\ code[r].email = rows[r].email
                                     /\ code[r].purpose = rows[r].purpose

\* What the local variables t of request p hold in each phase.
LocalOK(p, phase, t) ==
    /\ phase # "idle" => t.email \in Email
    /\ phase \in {"flush", "send", "created"} => t.purpose = "email_verification"
    /\ phase = "created" => t.email \in mailed
    /\ phase \in {"latest", "delete", "rotate", "wrong", "consume"} =>
         users[t.email] # "absent"
    /\ phase \in {"wrong", "consume"} =>
         /\ t.row \in DOMAIN code
         /\ code[t.row].email = t.email /\ code[t.row].purpose = t.purpose
    /\ phase = "wrong" => t.now <= clock
    /\ phase = "rotate" =>
         /\ \A r \in RowsOf(t.email, t.purpose) : code[r].by = p => r \in t.rows
         /\ \A r \in t.rows : /\ r \in DOMAIN code
                             /\ code[r].email = t.email
                             /\ code[r].purpose = t.purpose
LocalsOK == \A p \in Proc : LocalOK(p, pc[p], tx[p])

\* A registration that has flushed owns its email.
EmailOwned ==
    \A p, q \in Proc :
      pc[p] \in {"send", "created"} /\ pc[q] \in {"send", "created"} =>
        (tx[p].email = tx[q].email => p = q)
\* ... and the account does not exist yet.
NotYet == \A p \in Proc : pc[p] \in {"send", "created"} => users[tx[p].email] = "absent"

\* An absent account has no rows.
AbsentHasNoRows == \A r \in DOMAIN rows : users[rows[r].email] # "absent"

IInv == /\ TypeOK /\ StoryOfRow /\ LocalsOK /\ EmailOwned /\ NotYet
        /\ AbsentHasNoRows /\ OneRowPerRequest /\ ExhaustedIsDead
        /\ VerifiedByOwnCode /\ AccountsGotTheirCode /\ UnverifiedHasRow

-----------------------------------------------------------------------------
(* Liveness *)

\* A registration never waits for ever for another one of its email, although
\* that one sends an email with its transaction open (unless the run has no
\* uuid4 left).
RegistrationsMoveOn ==
    \A p \in Proc : pc[p] = "flush" ~> pc[p] # "flush" \/ DOMAIN code = Id
=============================================================================
