----------------------------- MODULE Migrations -----------------------------
(***************************************************************************)
(* The schema and who changes it: alembic commands, each one transaction   *)
(* over the revisions it crosses, and app processes, whose lifespan runs   *)
(* create_all and whose requests then use the tables.                      *)
(*                                                                         *)
(* A schema is the set of the objects in it, one member per table, index,  *)
(* column type, foreign-key rule, default and grant that a revision        *)
(* changes. DDL is transactional and locks the tables it touches until the *)
(* command commits; what a command has done so far is in run.work.         *)
(***************************************************************************)
EXTENDS Naturals, Sequences

CONSTANTS
    App,            \* app processes; each serves one request at a time
    Hit,            \* rows rate_limit_hits can hold
    Target,         \* revisions the operator names in a command
    MaxCommands,    \* bound of the model: alembic commands
    MaxRequests     \* bound of the model: requests an app accepts

ASSUME TargetAssumption == Target \subseteq 0 .. 9
ASSUME BoundAssumption == MaxCommands \in Nat /\ MaxRequests \in Nat

-----------------------------------------------------------------------------
(* The revisions. A strict one fails when an object it drops is missing or *)
(* one it creates is there; SET DEFAULT and GRANT may be repeated.         *)

Tables == {"users", "verifications", "rate_limit_hits", "refresh_sessions"}

Rev0001 == [strict |-> TRUE, locks |-> {}, drops |-> {}, adds |-> Tables \cup
    {"ix_users_email", "ix_verifications_email",
     "ip String", "ix_rate_limit_hits_scope_ip_email_created_at",
     "fk NO ACTION", "ix_refresh_sessions_family_id",
     "ix_refresh_sessions_user_id_revoked_at"}]

Rev0002 == [strict |-> TRUE, locks |-> {"verifications"},
            drops |-> {"ix_verifications_email"},
            adds |-> {"ix_verifications_email_purpose_expires_at"}]

Rev0003 == [strict |-> TRUE, locks |-> {"refresh_sessions"},
            drops |-> {"ix_refresh_sessions_family_id"},
            adds |-> {"ix_refresh_sessions_family_id_revoked_at"}]

Rev0004 == [strict |-> TRUE, locks |-> {"refresh_sessions", "users"},
            drops |-> {"fk NO ACTION"},
            adds |-> {"fk CASCADE and SET NULL"}]

\* Mutant: only refresh_sessions gets the default.
Rev0005OneTable == [strict |-> FALSE, locks |-> {"refresh_sessions"},
                    drops |-> {}, adds |-> {"DEFAULT now()"}]

Rev0005 == [strict |-> FALSE, locks |-> {"rate_limit_hits", "refresh_sessions"},
            drops |-> {}, adds |-> {"DEFAULT now()"}]

\* Mutant: the column is rewritten without a lock on the table.
Rev0006Unlocked == [strict |-> TRUE, locks |-> {},
                    drops |-> {"ip String"}, adds |-> {"ip INET"}]

\* Mutant: a type that is not the model's.
Rev0006Cidr == [strict |-> TRUE, locks |-> {"rate_limit_hits"},
                drops |-> {"ip String"}, adds |-> {"ip CIDR"}]

Rev0006 == [strict |-> TRUE, locks |-> {"rate_limit_hits"},
            drops |-> {"ip String"}, adds |-> {"ip INET"}]

Rev0007 == [strict |-> FALSE, locks |-> {},
            drops |-> {}, adds |-> {"grants to fa_app"}]

Rev0008 == [strict |-> TRUE, locks |-> {"refresh_sessions"},
            drops |-> {}, adds |-> {"ux_refresh_sessions_family_id_active"}]

Rev0009 == [strict |-> TRUE, locks |-> {"rate_limit_hits"},
            drops |-> {}, adds |-> {"ix_rate_limit_hits_scope_email_created_at_ip"}]

HeadRev == 9
Revision == <<Rev0001, Rev0002, Rev0003, Rev0004, Rev0005,
              Rev0006, Rev0007, Rev0008, Rev0009>>

\* What create_all makes of each model of the current release.
UserModel == {"users", "ix_users_email"}
VerificationModel == {"verifications", "ix_verifications_email"}
RateLimitHitModel ==
    {"rate_limit_hits", "ip INET", "ix_rate_limit_hits_scope_ip_email_created_at",
     "ix_rate_limit_hits_scope_email_created_at_ip"}
RefreshSessionModel ==
    {"refresh_sessions", "fk NO ACTION", "ix_refresh_sessions_family_id",
     "ix_refresh_sessions_user_id_revoked_at"}
Metadata == UserModel \cup VerificationModel \cup RateLimitHitModel
                \cup RefreshSessionModel

-----------------------------------------------------------------------------
VARIABLES
    schema,     \* the objects of the committed schema
    version,    \* alembic_version; 0 without a row
    stamped,    \* history: version >= 1 was stamped on tables create_all made
    roles,      \* provision_db_roles.sql has created fa_app and fa_migrator
    hits,       \* the text form of each row's ip, "none" for no row
    run,        \* the alembic command in progress
    outcome,    \* how the last command ended
    commands,   \* alembic commands started
    app         \* each process, and the transaction of its request

vars == <<schema, version, stamped, roles, hits, run, outcome, commands, app>>

\* The forms of an address: host() text, with the netmask that inet::text
\* adds, with a port as some proxies forward it, or client_ip's "unknown".
Form == {"plain", "masked", "ported", "label"}
Matches0006(form) == form \in {"plain", "ported"}
CastsToInet(form) == form \in {"plain", "masked"}

Idle == [kind |-> "idle", from |-> 0, at |-> 0, target |-> 0,
         work |-> {}, held |-> {}, checked |-> FALSE]

Down == [at |-> "down", role |-> "owner", missing |-> {}, path |-> <<>>,
         done |-> 0, answer |-> "none", accepted |-> 0]

\* The tables a transaction of the app uses, in the order of its first use of
\* each: the limiter's, the OTP endpoints', reset-password's, login's, refresh's.
Path == {<<"rate_limit_hits">>,
         <<"users", "verifications">>,
         <<"verifications", "users", "refresh_sessions">>,
         <<"users", "refresh_sessions">>,
         <<"refresh_sessions", "users">>}

TypeOK ==
    /\ schema \subseteq Metadata \cup UNION {Revision[k].adds : k \in 1 .. HeadRev}
    /\ version \in 0 .. HeadRev /\ stamped \in BOOLEAN /\ roles \in BOOLEAN
    /\ hits \in [Hit -> Form \cup {"none"}]
    /\ run.kind \in {"idle", "upgrade", "downgrade"}
    /\ run.at \in 0 .. HeadRev /\ run.target \in 0 .. HeadRev /\ run.from \in 0 .. HeadRev
    /\ run.held \subseteq Tables
    /\ outcome \in {"none", "applied", "refused", "cast error", "crash", "deadlock"}
    /\ commands \in 0 .. MaxCommands
    /\ \A a \in App :
          /\ app[a].at \in {"down", "starting", "up"}
          /\ app[a].path \in Path \cup {<<>>}
          /\ app[a].done \in 0 .. Len(app[a].path)

Init ==
    /\ schema = {} /\ version = 0 /\ stamped = FALSE /\ roles = FALSE
    /\ hits = [h \in Hit |-> "none"]
    /\ run = Idle /\ outcome = "none" /\ commands = 0
    /\ app = [a \in App |-> Down]

Running == run.kind # "idle"
Busy(a) == app[a].path # <<>>

\* The tables a request has used hold its locks until it ends.
HeldBy(a) == {app[a].path[i] : i \in 1 .. app[a].done}
NextTable(a) == app[a].path[app[a].done + 1]
Waiting(a) == Busy(a) /\ app[a].done < Len(app[a].path)
                      /\ NextTable(a) \in run.held

-----------------------------------------------------------------------------
(* alembic upgrade and downgrade: run_migrations inside one begin_transaction. *)

Start(kind, target) ==
    /\ ~Running
    /\ commands < MaxCommands
    /\ commands' = commands + 1
    /\ run' = [Idle EXCEPT !.kind = kind, !.from = version, !.at = version,
                           !.target = target, !.work = schema]
    /\ UNCHANGED <<schema, version, stamped, roles, hits, outcome, app>>

Upgrade(target) == target > version /\ Start("upgrade", target)
Downgrade(target) == target < version /\ Start("downgrade", target)

\* Mutant: every revision commits on its own.
AbortKeepsWork(why) ==
    /\ run' = Idle
    /\ outcome' = why
    /\ schema' = run.work
    /\ UNCHANGED <<version, stamped, roles, hits, commands, app>>

\* The transaction is rolled back, whatever revisions it had crossed.
Abort(why) ==
    /\ run' = Idle
    /\ outcome' = why
    /\ UNCHANGED <<schema, version, stamped, roles, hits, commands, app>>

\* The revision whose upgrade() or downgrade() runs next.
Current == IF run.kind = "upgrade" THEN run.at + 1 ELSE run.at
Pending == Running /\ run.at # run.target

\* 0001's downgrade() drops the four tables, and all that is on them with them.
Locks(k) == IF k = 1 /\ run.kind = "downgrade" THEN Tables ELSE Revision[k].locks
LocksFree(k) == \A a \in App : HeldBy(a) \cap Locks(k) = {}

\* 0007 grants and revokes nothing where the two roles do not exist.
Adds(k) == IF k = 7 /\ ~roles THEN {} ELSE Revision[k].adds

\* An object is also there when create_all committed it meanwhile.
Applies(k, gone, made) ==
    Revision[k].strict => /\ gone \subseteq run.work
                          /\ made \cap (run.work \cup schema) = {}

\* Mutant: a step of the command skips a revision.
CrossedPast(k, at, work) ==
    /\ run' = [run EXCEPT !.at = at + 1, !.work = work, !.held = @ \cup Locks(k)]
    /\ UNCHANGED <<schema, version, stamped, roles, hits, outcome, commands, app>>

Crossed(k, at, work) ==
    /\ run' = [run EXCEPT !.at = at, !.work = work, !.held = @ \cup Locks(k)]
    /\ UNCHANGED <<schema, version, stamped, roles, hits, outcome, commands, app>>

ReviseUp ==
    /\ Pending /\ run.kind = "upgrade"
    /\ LET k == Current IN
          /\ LocksFree(k)
          /\ k = 6 => run.checked
          /\ IF k = 6 /\ \E h \in Hit : hits[h] # "none" /\ ~CastsToInet(hits[h])
             THEN Abort("cast error")
             ELSE IF Applies(k, Revision[k].drops, Adds(k))
                  THEN Crossed(k, k, (run.work \ Revision[k].drops) \cup Adds(k))
                  ELSE Abort("refused")

\* 0006 looks for rows its cast would not take before it alters the column;
\* the SELECT takes no lock that stops an insert. On an inet column !~ does
\* not exist.
Validate ==
    /\ Pending /\ run.kind = "upgrade" /\ Current = 6 /\ ~run.checked
    /\ IF \/ "ip String" \notin run.work
          \/ \E h \in Hit : hits[h] # "none" /\ ~Matches0006(hits[h])
       THEN Abort("refused")
       ELSE /\ run' = [run EXCEPT !.checked = TRUE]
            /\ UNCHANGED <<schema, version, stamped, roles, hits, outcome,
                           commands, app>>

ReviseDown ==
    /\ Pending /\ run.kind = "downgrade"
    /\ LET k == Current IN
          /\ LocksFree(k)
          /\ IF k = 1
             THEN Crossed(k, 0, {})
             ELSE IF Applies(k, Revision[k].adds, Revision[k].drops)
                  THEN Crossed(k, k - 1, (run.work \ Adds(k)) \cup Revision[k].drops)
                  ELSE Abort("refused")

\* The rows as the committed transaction leaves them: none in a dropped table,
\* addresses as text with their netmask where the column went back to String.
Rewritten(form) ==
    IF form = "none" \/ run.target = 0 THEN "none"
    ELSE IF run.from < 6 /\ run.target >= 6 /\ CastsToInet(form) THEN "plain"
    ELSE IF run.from >= 6 /\ run.target < 6 THEN "masked"
    ELSE form

Commit ==
    /\ Running /\ run.at = run.target
    /\ version' = run.target
    /\ schema' = run.work
    /\ hits' = [h \in Hit |-> Rewritten(hits[h])]
    /\ run' = Idle
    /\ outcome' = "applied"
    /\ stamped' = (stamped /\ run.target # 0)
    /\ UNCHANGED <<roles, commands, app>>

\* The command's process or its connection dies.
RunCrash == Running /\ Abort("crash")

\* alembic stamp 0001 on a database whose tables create_all made.
Stamp ==
    /\ ~Running /\ commands < MaxCommands
    /\ version = 0 /\ Tables \subseteq schema
    /\ commands' = commands + 1
    /\ version' = 1
    /\ stamped' = TRUE
    /\ outcome' = "applied"
    /\ UNCHANGED <<schema, roles, hits, run, app>>

ProvisionRoles ==
    /\ ~roles
    /\ roles' = TRUE
    /\ UNCHANGED <<schema, version, stamped, hits, run, outcome, commands, app>>

-----------------------------------------------------------------------------
(* The app: lifespan, then requests. *)

SetApp(a, next) ==
    /\ app' = [app EXCEPT ![a] = next]
    /\ UNCHANGED <<version, stamped, roles, run, outcome, commands>>

\* create_all first looks which tables exist. Where roles are separated the
\* process may connect as fa_app, which may not create any.
Inspect(a, role) ==
    /\ app[a].at = "down"
    /\ role = "fa_app" => roles
    /\ SetApp(a, [app[a] EXCEPT !.at = "starting", !.role = role,
                                !.missing = Tables \ schema])
    /\ UNCHANGED <<schema, hits>>

\* It then creates those, in one transaction: CREATE TABLE waits for another
\* transaction that creates the same, and fails if that one committed.
CreateAll(a) ==
    /\ app[a].at = "starting"
    /\ Running => app[a].missing \cap (run.work \ schema) = {}
    /\ UNCHANGED hits
    /\ IF app[a].missing = {}
       THEN /\ SetApp(a, [app[a] EXCEPT !.at = "up"])
            /\ UNCHANGED schema
       ELSE IF app[a].missing \cap schema # {} \/ app[a].role = "fa_app"
       THEN /\ SetApp(a, [app[a] EXCEPT !.at = "down", !.missing = {}])
            /\ UNCHANGED schema
       ELSE /\ SetApp(a, [app[a] EXCEPT !.at = "up", !.missing = {}])
            /\ schema' = schema \cup Metadata

\* The process ends; the transaction of its request is rolled back.
Stop(a) ==
    /\ app[a].at # "down"
    /\ SetApp(a, [Down EXCEPT !.accepted = app[a].accepted])
    /\ UNCHANGED <<schema, hits>>

Request(a, path) ==
    /\ app[a].at = "up" /\ ~Busy(a) /\ app[a].accepted < MaxRequests
    /\ SetApp(a, [app[a] EXCEPT !.path = path, !.answer = "none",
                                !.accepted = @ + 1])
    /\ UNCHANGED <<schema, hits>>

\* A statement of the current release: the models type ip as INET, and a
\* String column cannot be compared with that.
Answers(a, table) ==
    /\ table \in schema
    /\ table = "rate_limit_hits" => "ip INET" \in schema
    /\ app[a].role = "fa_app" => "grants to fa_app" \in schema

Answered(a, answer) ==
    [app[a] EXCEPT !.path = <<>>, !.done = 0, !.answer = answer]

Use(a) ==
    /\ Busy(a) /\ app[a].done < Len(app[a].path)
    /\ NextTable(a) \notin run.held
    /\ SetApp(a, IF Answers(a, NextTable(a))
                 THEN [app[a] EXCEPT !.done = @ + 1]
                 ELSE Answered(a, "error"))
    /\ UNCHANGED <<schema, hits>>

\* The request commits; the limiter's transaction may leave a hit behind.
Finish(a) ==
    /\ Busy(a) /\ app[a].done = Len(app[a].path)
    /\ SetApp(a, Answered(a, "ok"))
    /\ UNCHANGED schema
    /\ \/ UNCHANGED hits
       \/ /\ "rate_limit_hits" \in HeldBy(a)
          /\ \E h \in Hit : hits[h] = "none" /\ hits' = [hits EXCEPT ![h] = "plain"]

\* A release older than 0006 still runs against the String column and stores
\* whatever its client_ip returned.
OlderReleaseInserts(h, form) ==
    /\ "ip String" \in schema /\ "rate_limit_hits" \notin run.held
    /\ hits[h] = "none" /\ form # "masked"
    /\ hits' = [hits EXCEPT ![h] = form]
    /\ UNCHANGED <<schema, version, stamped, roles, run, outcome, commands, app>>

\* _cleanup_rate_limit_hits, an hour later.
CleanupHits(h) ==
    /\ \E a \in App : /\ app[a].at = "up"
                     /\ app[a].role = "fa_app" => "grants to fa_app" \in schema
    /\ "rate_limit_hits" \in schema \ run.held
    /\ hits[h] # "none"
    /\ hits' = [hits EXCEPT ![h] = "none"]
    /\ UNCHANGED <<schema, version, stamped, roles, run, outcome, commands, app>>

\* Mutant: nobody looks for cycles.
NoDeadlock(a) == a \notin App

\* PostgreSQL ends a cycle of lock waits by rolling one of the two back.
InDeadlock(a) ==
    /\ Waiting(a)
    /\ Pending /\ HeldBy(a) \cap Locks(Current) # {}
    /\ Current = 6 /\ run.kind = "upgrade" => run.checked

RunIsVictim == (\E a \in App : InDeadlock(a)) /\ Abort("deadlock")
RequestIsVictim(a) ==
    /\ InDeadlock(a)
    /\ SetApp(a, Answered(a, "deadlock"))
    /\ UNCHANGED <<schema, hits>>

-----------------------------------------------------------------------------
RunStep == ReviseUp \/ Validate \/ ReviseDown \/ Commit

Next ==
    \/ \E target \in Target : Upgrade(target) \/ Downgrade(target)
    \/ ReviseUp \/ Validate \/ ReviseDown \/ Commit
    \/ RunCrash \/ RunIsVictim
    \/ Stamp \/ ProvisionRoles
    \/ \E a \in App, role \in {"owner", "fa_app"} : Inspect(a, role)
    \/ \E a \in App : CreateAll(a) \/ Stop(a) \/ Use(a) \/ Finish(a)
    \/ \E a \in App : RequestIsVictim(a)
    \/ \E a \in App, path \in Path : Request(a, path)
    \/ \E h \in Hit, form \in Form : OlderReleaseInserts(h, form)
    \/ \E h \in Hit : CleanupHits(h)

Spec == Init /\ [][Next]_vars

\* A command that waits for a lock is in that lock's queue, before requests
\* that come later, so it gets the lock in the end: SF. Every other step is
\* one the process or the server takes as soon as it can.
Fairness ==
    /\ SF_vars(RunStep)
    /\ WF_vars(RunIsVictim \/ \E a \in App : RequestIsVictim(a))
    /\ \A a \in App : WF_vars(CreateAll(a)) /\ WF_vars(Use(a)) /\ WF_vars(Finish(a))

FairSpec == Spec /\ Fairness

-----------------------------------------------------------------------------
(* Properties *)

\* The objects revisions lo .. hi leave of those in base.
After(base, lo, hi) ==
    (base \cup UNION {Revision[k].adds : k \in lo .. hi})
        \ UNION {Revision[k].drops : k \in lo .. hi}

Grants == {"grants to fa_app"}

\* alembic_version tells the truth: whatever commands were interrupted,
\* refused or raced by a starting app, the committed schema is exactly what
\* the revisions up to the version make of an empty database (or of
\* create_all's tables, where it was stamped), and nobody ever sees some of
\* the tables; grants are there only from 0007 on (env.py, begin_transaction).
SchemaOfVersion ==
    /\ schema \ Grants = CASE version = 0 /\ schema = {} -> {}
                          [] version = 0 /\ schema # {} -> Metadata
                          [] version # 0 /\ stamped -> After(Metadata, 2, version) \ Grants
                          [] version # 0 /\ ~stamped -> After({}, 1, version) \ Grants
    /\ Grants \subseteq schema => version >= 7 /\ roles

\* No row that is not an address is ever in an INET column: what an older
\* release inserts between 0006's look and its ALTER TABLE is not lost sight
\* of (0006, upgrade).
RowsFitColumn ==
    "ip INET" \in schema => \A h \in Hit : hits[h] \in {"none", "plain"}

\* The cast never meets a row that 0006's look should have refused: only one
\* that the look takes for an address (a port behind it), or, in a command
\* that did not lock the table with 0005 first, one inserted after the look.
CheckedRowsCast ==
    [][outcome # "cast error" /\ outcome' = "cast error"
        => run.from = 5 \/ \E h \in Hit : hits[h] = "ported"]_vars

\* From 0006 on, a request of this release is never refused by the schema,
\* whatever command runs beside it; only fa_app without its grants is.
HeadServes ==
    [][\A a \in App :
          app[a].answer # "error" /\ app'[a].answer = "error" /\ version \in 6 .. HeadRev
          => app[a].role = "fa_app" /\ ~ Grants \subseteq schema]_vars

\* A command beside live traffic ends, in a commit or a rollback: it waits for
\* requests that hold its tables while they wait for its own.
CommandsEnd == Running ~> ~Running

\* So do a request and a starting process that wait for a command.
AppsMoveOn ==
    \A a \in App : /\ (Busy(a) ~> ~Busy(a))
                    /\ ((app[a].at = "starting") ~> (app[a].at # "starting"))

\* What the documentation promises of stamp 0001 followed by upgrade head on
\* a database made by create_all (env.py and 0001, CUTOVER): it applies.
CutoverApplies == stamped => outcome # "refused"
=============================================================================
