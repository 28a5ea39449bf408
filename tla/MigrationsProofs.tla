-------------------------- MODULE MigrationsProofs --------------------------
(***************************************************************************)
(* The safety properties of Migrations, for any number of processes, rows, *)
(* commands and requests: schema and version agree, rows fit their column, *)
(* and the current release is served from 0006 on.                         *)
(***************************************************************************)
EXTENDS Migrations, TLAPS

Objects == Metadata \cup UNION {Revision[k].adds : k \in 1 .. HeadRev}

Runs == [kind : {"idle", "upgrade", "downgrade"}, from : 0 .. HeadRev,
         at : 0 .. HeadRev, target : 0 .. HeadRev, work : SUBSET Objects,
         held : SUBSET Tables, checked : BOOLEAN]

Apps == [at : {"down", "starting", "up"}, role : {"owner", "fa_app"},
         missing : {{}, Tables}, path : Path \cup {<<>>}, done : Nat,
         answer : {"none", "ok", "error", "deadlock"}, accepted : Nat]

\* The types, with those of the records' fields that TypeOK leaves open. A
\* process finds all of the tables or none of them.
Typed ==
    /\ schema \subseteq Objects
    /\ version \in 0 .. HeadRev /\ stamped \in BOOLEAN /\ roles \in BOOLEAN
    /\ hits \in [Hit -> Form \cup {"none"}]
    /\ run \in Runs /\ app \in [App -> Apps]
    /\ \A a \in App : app[a].done <= Len(app[a].path)
    /\ outcome \in {"none", "applied", "refused", "cast error", "crash", "deadlock"}
    /\ commands \in 0 .. MaxCommands

\* What the revisions make of the tables they started from.
Shape(v) == (IF stamped THEN After(Metadata, 2, v) ELSE After({}, 1, v)) \ Grants

Granted(objects, v) == Grants \subseteq objects => v >= 7 /\ roles

\* Objects that look like those of version v, and what a revision makes of them.
Shaped(objects, v) == objects \ Grants = Shape(v) /\ Granted(objects, v)
UpFrom(objects, k) == (objects \ Revision[k].drops) \cup Adds(k)
DownFrom(objects, k) == (objects \ Adds(k)) \cup Revision[k].drops

\* SchemaOfVersion without its case distinction.
SchemaShaped ==
    /\ version = 0 => schema = {} \/ schema = Metadata
    /\ version # 0 => schema \ Grants = Shape(version)
    /\ Granted(schema, version)

\* RowsFitColumn, and before there is a table, no row that would not fit the
\* one create_all may make.
RowsFit ==
    version = 0 \/ "ip INET" \in schema => \A h \in Hit : hits[h] \in {"none", "plain"}

\* A stamped database stops before 0006, which looks for a String column.
StampStops ==
    /\ stamped => version \in 1 .. 5
    /\ run.checked => ~stamped
    /\ Running /\ stamped => run.at <= 5

\* A command works between its version and its target, and what it has made
\* is what a database at run.at looks like.
WorkIsShaped ==
    Running =>
        /\ run.from = version
        /\ run.kind = "upgrade" =>
              version <= run.at /\ run.at <= run.target /\ version < run.target
        /\ run.kind = "downgrade" =>
              run.target <= run.at /\ run.at <= version /\ run.target < version
        /\ run.at = 0 => run.work = {} \/ (run.kind = "upgrade" /\ run.work = Metadata)
        /\ run.at # 0 => run.work \ Grants = Shape(run.at) /\ Granted(run.work, run.at)

\* From its first revision that touches it, a command holds rate_limit_hits.
HitsHeld ==
    /\ Running /\ run.kind = "upgrade" /\ run.from < 5 /\ run.at >= 5
       => "rate_limit_hits" \in run.held
    /\ Running /\ run.kind = "upgrade" /\ run.from < 6 /\ run.at >= 6
       => "rate_limit_hits" \in run.held

\* What 0006 has looked at, or altered, is still so.
RowsSeen ==
    /\ run.checked =>
          /\ run.kind = "upgrade" /\ run.from <= 5 /\ run.at >= 5
          /\ run.from < 5 =>
                \A h \in Hit : hits[h] = "none" \/ Matches0006(hits[h])
    /\ Running /\ run.kind = "upgrade" /\ run.from < 6 /\ run.at >= 6
       => \A h \in Hit : hits[h] = "none" \/ CastsToInet(hits[h])

Rest == SchemaShaped /\ RowsFit /\ StampStops /\ WorkIsShaped /\ HitsHeld /\ RowsSeen

IInv == Typed /\ Rest

-----------------------------------------------------------------------------
(* The revisions: no two add or drop the same object, and what one drops   *)
(* was there from 0001 on.                                                 *)

LEMMA Listing ==
  /\ Revision[1] = Rev0001 /\ Revision[2] = Rev0002 /\ Revision[3] = Rev0003
  /\ Revision[4] = Rev0004 /\ Revision[5] = Rev0005 /\ Revision[6] = Rev0006
  /\ Revision[7] = Rev0007 /\ Revision[8] = Rev0008 /\ Revision[9] = Rev0009
BY DEF Revision

LEMMA Drops ==
  /\ Revision[1].drops = {}
  /\ Revision[2].drops = {"ix_verifications_email"}
  /\ Revision[3].drops = {"ix_refresh_sessions_family_id"}
  /\ Revision[4].drops = {"fk NO ACTION"}
  /\ Revision[5].drops = {}
  /\ Revision[6].drops = {"ip String"}
  /\ Revision[7].drops = {}
  /\ Revision[8].drops = {}
  /\ Revision[9].drops = {}
<1>1. Revision[1].drops = {}
  <2>1. Rev0001.drops = {}
    BY DEF Rev0001
  <2> QED
    BY <2>1, Listing
<1>2. Revision[2].drops = {"ix_verifications_email"}
  <2>1. Rev0002.drops = {"ix_verifications_email"}
    BY DEF Rev0002
  <2> QED
    BY <2>1, Listing
<1>3. Revision[3].drops = {"ix_refresh_sessions_family_id"}
  <2>1. Rev0003.drops = {"ix_refresh_sessions_family_id"}
    BY DEF Rev0003
  <2> QED
    BY <2>1, Listing
<1>4. Revision[4].drops = {"fk NO ACTION"}
  <2>1. Rev0004.drops = {"fk NO ACTION"}
    BY DEF Rev0004
  <2> QED
    BY <2>1, Listing
<1>5. Revision[5].drops = {}
  <2>1. Rev0005.drops = {}
    BY DEF Rev0005
  <2> QED
    BY <2>1, Listing
<1>6. Revision[6].drops = {"ip String"}
  <2>1. Rev0006.drops = {"ip String"}
    BY DEF Rev0006
  <2> QED
    BY <2>1, Listing
<1>7. Revision[7].drops = {}
  <2>1. Rev0007.drops = {}
    BY DEF Rev0007
  <2> QED
    BY <2>1, Listing
<1>8. Revision[8].drops = {}
  <2>1. Rev0008.drops = {}
    BY DEF Rev0008
  <2> QED
    BY <2>1, Listing
<1>9. Revision[9].drops = {}
  <2>1. Rev0009.drops = {}
    BY DEF Rev0009
  <2> QED
    BY <2>1, Listing
<1> QED
  BY <1>1, <1>2, <1>3, <1>4, <1>5, <1>6, <1>7, <1>8, <1>9

LEMMA AddsOf ==
  /\ Revision[1].adds = Tables \cup
       {"ix_users_email", "ix_verifications_email",
        "ip String", "ix_rate_limit_hits_scope_ip_email_created_at",
        "fk NO ACTION", "ix_refresh_sessions_family_id",
        "ix_refresh_sessions_user_id_revoked_at"}
  /\ Revision[2].adds = {"ix_verifications_email_purpose_expires_at"}
  /\ Revision[3].adds = {"ix_refresh_sessions_family_id_revoked_at"}
  /\ Revision[4].adds = {"fk CASCADE and SET NULL"}
  /\ Revision[5].adds = {"DEFAULT now()"}
  /\ Revision[6].adds = {"ip INET"}
  /\ Revision[7].adds = {"grants to fa_app"}
  /\ Revision[8].adds = {"ux_refresh_sessions_family_id_active"}
  /\ Revision[9].adds = {"ix_rate_limit_hits_scope_email_created_at_ip"}
<1>1. Revision[1].adds = Tables \cup
       {"ix_users_email", "ix_verifications_email",
        "ip String", "ix_rate_limit_hits_scope_ip_email_created_at",
        "fk NO ACTION", "ix_refresh_sessions_family_id",
        "ix_refresh_sessions_user_id_revoked_at"}
  <2>1. Rev0001.adds = Tables \cup
       {"ix_users_email", "ix_verifications_email",
        "ip String", "ix_rate_limit_hits_scope_ip_email_created_at",
        "fk NO ACTION", "ix_refresh_sessions_family_id",
        "ix_refresh_sessions_user_id_revoked_at"}
    BY DEF Rev0001
  <2> QED
    BY <2>1, Listing
<1>2. Revision[2].adds = {"ix_verifications_email_purpose_expires_at"}
  <2>1. Rev0002.adds = {"ix_verifications_email_purpose_expires_at"}
    BY DEF Rev0002
  <2> QED
    BY <2>1, Listing
<1>3. Revision[3].adds = {"ix_refresh_sessions_family_id_revoked_at"}
  <2>1. Rev0003.adds = {"ix_refresh_sessions_family_id_revoked_at"}
    BY DEF Rev0003
  <2> QED
    BY <2>1, Listing
<1>4. Revision[4].adds = {"fk CASCADE and SET NULL"}
  <2>1. Rev0004.adds = {"fk CASCADE and SET NULL"}
    BY DEF Rev0004
  <2> QED
    BY <2>1, Listing
<1>5. Revision[5].adds = {"DEFAULT now()"}
  <2>1. Rev0005.adds = {"DEFAULT now()"}
    BY DEF Rev0005
  <2> QED
    BY <2>1, Listing
<1>6. Revision[6].adds = {"ip INET"}
  <2>1. Rev0006.adds = {"ip INET"}
    BY DEF Rev0006
  <2> QED
    BY <2>1, Listing
<1>7. Revision[7].adds = {"grants to fa_app"}
  <2>1. Rev0007.adds = {"grants to fa_app"}
    BY DEF Rev0007
  <2> QED
    BY <2>1, Listing
<1>8. Revision[8].adds = {"ux_refresh_sessions_family_id_active"}
  <2>1. Rev0008.adds = {"ux_refresh_sessions_family_id_active"}
    BY DEF Rev0008
  <2> QED
    BY <2>1, Listing
<1>9. Revision[9].adds = {"ix_rate_limit_hits_scope_email_created_at_ip"}
  <2>1. Rev0009.adds = {"ix_rate_limit_hits_scope_email_created_at_ip"}
    BY DEF Rev0009
  <2> QED
    BY <2>1, Listing
<1> QED
  BY <1>1, <1>2, <1>3, <1>4, <1>5, <1>6, <1>7, <1>8, <1>9

LEMMA StrictOf ==
  \A k \in 1 .. 9 : Revision[k].strict <=> k \notin {5, 7}
<1>1. Revision[1].strict = TRUE
  <2>1. Rev0001.strict = TRUE
    BY DEF Rev0001
  <2> QED
    BY <2>1, Listing
<1>2. Revision[2].strict = TRUE
  <2>1. Rev0002.strict = TRUE
    BY DEF Rev0002
  <2> QED
    BY <2>1, Listing
<1>3. Revision[3].strict = TRUE
  <2>1. Rev0003.strict = TRUE
    BY DEF Rev0003
  <2> QED
    BY <2>1, Listing
<1>4. Revision[4].strict = TRUE
  <2>1. Rev0004.strict = TRUE
    BY DEF Rev0004
  <2> QED
    BY <2>1, Listing
<1>5. Revision[5].strict = FALSE
  <2>1. Rev0005.strict = FALSE
    BY DEF Rev0005
  <2> QED
    BY <2>1, Listing
<1>6. Revision[6].strict = TRUE
  <2>1. Rev0006.strict = TRUE
    BY DEF Rev0006
  <2> QED
    BY <2>1, Listing
<1>7. Revision[7].strict = FALSE
  <2>1. Rev0007.strict = FALSE
    BY DEF Rev0007
  <2> QED
    BY <2>1, Listing
<1>8. Revision[8].strict = TRUE
  <2>1. Rev0008.strict = TRUE
    BY DEF Rev0008
  <2> QED
    BY <2>1, Listing
<1>9. Revision[9].strict = TRUE
  <2>1. Rev0009.strict = TRUE
    BY DEF Rev0009
  <2> QED
    BY <2>1, Listing
<1>10. \A k \in 1 .. 9 : k \in {1, 2, 3, 4, 5, 6, 7, 8, 9}
  OBVIOUS
<1> QED
  BY <1>1, <1>2, <1>3, <1>4, <1>5, <1>6, <1>7, <1>8, <1>9, <1>10

\* x is what revision j drops, if it drops anything; what it adds, from the
\* second one on.
Dropped(j, x) ==
  /\ x \in {"ix_verifications_email", "ix_refresh_sessions_family_id",
            "fk NO ACTION", "ip String"}
  /\ x = "ix_verifications_email" => j = 2
  /\ x = "ix_refresh_sessions_family_id" => j = 3
  /\ x = "fk NO ACTION" => j = 4
  /\ x = "ip String" => j = 6

Added(j, x) ==
  /\ x \in {"ix_verifications_email_purpose_expires_at",
            "ix_refresh_sessions_family_id_revoked_at",
            "fk CASCADE and SET NULL", "DEFAULT now()", "ip INET",
            "grants to fa_app", "ux_refresh_sessions_family_id_active",
            "ix_rate_limit_hits_scope_email_created_at_ip"}
  /\ x = "ix_verifications_email_purpose_expires_at" => j = 2
  /\ x = "ix_refresh_sessions_family_id_revoked_at" => j = 3
  /\ x = "fk CASCADE and SET NULL" => j = 4
  /\ x = "DEFAULT now()" => j = 5
  /\ x = "ip INET" => j = 6
  /\ x = "grants to fa_app" => j = 7
  /\ x = "ux_refresh_sessions_family_id_active" => j = 8
  /\ x = "ix_rate_limit_hits_scope_email_created_at_ip" => j = 9

LEMMA OneDropper ==
  ASSUME NEW j \in 1 .. 9, NEW k \in 1 .. 9, NEW x, Dropped(j, x), Dropped(k, x)
  PROVE  j = k
BY DEF Dropped

LEMMA OneAdder ==
  ASSUME NEW j \in 2 .. 9, NEW k \in 2 .. 9, NEW x, Added(j, x), Added(k, x)
  PROVE  j = k
BY DEF Added

\* Each object has one revision that drops it, and one that adds it.
LEMMA WhoDrops ==
  ASSUME NEW j \in 1 .. 9, NEW x \in Revision[j].drops
  PROVE  Dropped(j, x)
<1>1. j \in {1, 2, 3, 4, 5, 6, 7, 8, 9}
  OBVIOUS
<1>2. CASE j = 1
  BY <1>2, Drops DEF Dropped
<1>3. CASE j = 2
  BY <1>3, Drops DEF Dropped
<1>4. CASE j = 3
  BY <1>4, Drops DEF Dropped
<1>5. CASE j = 4
  BY <1>5, Drops DEF Dropped
<1>6. CASE j = 5
  BY <1>6, Drops DEF Dropped
<1>7. CASE j = 6
  BY <1>7, Drops DEF Dropped
<1>8. CASE j = 7
  BY <1>8, Drops DEF Dropped
<1>9. CASE j = 8
  BY <1>9, Drops DEF Dropped
<1>10. CASE j = 9
  BY <1>10, Drops DEF Dropped
<1> QED
  BY <1>1, <1>2, <1>3, <1>4, <1>5, <1>6,
     <1>7, <1>8, <1>9, <1>10

LEMMA WhoAdds ==
  ASSUME NEW j \in 2 .. 9, NEW x \in Revision[j].adds
  PROVE  Added(j, x)
<1>1. j \in {2, 3, 4, 5, 6, 7, 8, 9}
  OBVIOUS
<1>2. CASE j = 2
  BY <1>2, AddsOf DEF Added
<1>3. CASE j = 3
  BY <1>3, AddsOf DEF Added
<1>4. CASE j = 4
  BY <1>4, AddsOf DEF Added
<1>5. CASE j = 5
  BY <1>5, AddsOf DEF Added
<1>6. CASE j = 6
  BY <1>6, AddsOf DEF Added
<1>7. CASE j = 7
  BY <1>7, AddsOf DEF Added
<1>8. CASE j = 8
  BY <1>8, AddsOf DEF Added
<1>9. CASE j = 9
  BY <1>9, AddsOf DEF Added
<1> QED
  BY <1>1, <1>2, <1>3, <1>4, <1>5, <1>6,
     <1>7, <1>8, <1>9

\* What a later revision adds is new, and nobody drops it.
LEMMA AddsAreNew ==
  ASSUME NEW k \in 2 .. 9, NEW j \in 1 .. 9
  PROVE  /\ Revision[k].adds \cap Revision[j].drops = {}
         /\ j # k => Revision[k].adds \cap Revision[j].adds = {}
         /\ j # k => Revision[k].drops \cap Revision[j].drops = {}
         /\ Revision[k].drops \subseteq Revision[1].adds
<1>1. k \in 1 .. 9 /\ (j = 1 \/ j \in 2 .. 9)
  OBVIOUS
<1>2. ASSUME NEW x \in Revision[k].adds PROVE x \notin Revision[j].drops
  BY WhoAdds, WhoDrops DEF Added, Dropped
<1>3. ASSUME NEW x \in Revision[k].adds, x \in Revision[j].adds PROVE j = k
  <2>1. CASE j \in 2 .. 9
    <3>1. Added(k, x) /\ Added(j, x)
      BY <1>3, <2>1, WhoAdds
    <3> QED
      BY <2>1, <3>1, OneAdder
  <2>2. CASE j = 1
    <3>1. x \in Tables \cup
            {"ix_users_email", "ix_verifications_email",
             "ip String", "ix_rate_limit_hits_scope_ip_email_created_at",
             "fk NO ACTION", "ix_refresh_sessions_family_id",
             "ix_refresh_sessions_user_id_revoked_at"}
      BY <1>3, <2>2, AddsOf
    <3> QED
      BY <3>1, WhoAdds DEF Added, Tables
  <2> QED
    BY <1>1, <2>1, <2>2
<1>4. ASSUME NEW x \in Revision[k].drops, x \in Revision[j].drops PROVE j = k
  <2>1. Dropped(k, x) /\ Dropped(j, x)
    BY <1>1, <1>4, WhoDrops
  <2> QED
    BY <1>1, <2>1, OneDropper
<1>5. ASSUME NEW x \in Revision[k].drops PROVE x \in Revision[1].adds
  <2>1. x \in {"ix_verifications_email", "ix_refresh_sessions_family_id",
               "fk NO ACTION", "ip String"}
    BY <1>1, WhoDrops DEF Dropped
  <2> QED
    BY <2>1, AddsOf
<1> QED
  BY <1>2, <1>3, <1>4, <1>5

\* The models of the current release, where it was stamped: 0002 to 0005 are
\* still ahead of them.
LEMMA MetadataIsEarly ==
  ASSUME NEW k \in 2 .. 5
  PROVE  Revision[k].adds \cap Metadata = {} /\ Revision[k].drops \subseteq Metadata
<1>1. k \in 2 .. 9 /\ k \in 1 .. 9 /\ k \notin {6, 7, 8, 9}
  OBVIOUS
<1>2. ASSUME NEW x \in Revision[k].adds PROVE x \notin Metadata
  <2>1. x \in {"ix_verifications_email_purpose_expires_at",
               "ix_refresh_sessions_family_id_revoked_at",
               "fk CASCADE and SET NULL", "DEFAULT now()"}
    BY <1>1, WhoAdds DEF Added
  <2> QED
    BY <2>1 DEF Metadata, UserModel, VerificationModel, RateLimitHitModel,
                RefreshSessionModel
<1>3. ASSUME NEW x \in Revision[k].drops PROVE x \in Metadata
  <2>1. x \in {"ix_verifications_email", "ix_refresh_sessions_family_id", "fk NO ACTION"}
    BY <1>1, WhoDrops DEF Dropped
  <2> QED
    BY <2>1 DEF Metadata, VerificationModel, RefreshSessionModel
<1> QED
  BY <1>2, <1>3

LEMMA NotGrants ==
  /\ Metadata \cap Grants = {} /\ Tables \cap Grants = {}
  /\ Tables \subseteq Metadata /\ "ip String" \notin Metadata /\ "ip INET" \in Metadata
  /\ \A k \in 1 .. 9 : /\ Revision[k].drops \cap (Grants \cup Tables) = {}
                       /\ k # 7 => Revision[k].adds \cap Grants = {}
                       /\ k = 7 => Revision[k].adds = Grants
<1>2. ASSUME NEW k \in 1 .. 9
      PROVE  /\ Revision[k].drops \cap (Grants \cup Tables) = {}
             /\ k # 7 => Revision[k].adds \cap Grants = {}
             /\ k = 7 => Revision[k].adds = Grants
  <2>1. ASSUME NEW x \in Revision[k].drops PROVE x \notin Grants \cup Tables
    <3>1. x \in {"ix_verifications_email", "ix_refresh_sessions_family_id",
                 "fk NO ACTION", "ip String"}
      BY WhoDrops DEF Dropped
    <3> QED
      BY <3>1 DEF Grants, Tables
  <2>2. k \in 2 .. 9 /\ k # 7 => "grants to fa_app" \notin Revision[k].adds
    BY WhoAdds DEF Added
  <2>3. "grants to fa_app" \notin Revision[1].adds
    BY AddsOf DEF Tables
  <2>4. k = 1 \/ k \in 2 .. 9
    OBVIOUS
  <2>5. k # 7 => Revision[k].adds \cap Grants = {}
    BY <2>2, <2>3, <2>4 DEF Grants
  <2>6. k = 7 => Revision[k].adds = Grants
    BY AddsOf DEF Grants
  <2> QED
    BY <2>1, <2>5, <2>6
<1> QED
  BY <1>2 DEF Metadata, UserModel, VerificationModel, RateLimitHitModel,
              RefreshSessionModel, Grants, Tables

-----------------------------------------------------------------------------
(* After, one revision further and one back. *)

LEMMA AfterUp ==
  ASSUME NEW base, NEW lo \in 1 .. 2, NEW k \in 2 .. 9
  PROVE  After(base, lo, k) = (After(base, lo, k - 1) \ Revision[k].drops)
                                  \cup Revision[k].adds
<1> DEFINE A(i) == UNION {Revision[j].adds : j \in lo .. i}
           D(i) == UNION {Revision[j].drops : j \in lo .. i}
<1>1. \A j : j \in lo .. k <=> j \in lo .. k - 1 \/ j = k
  OBVIOUS
<1>2. A(k) = A(k - 1) \cup Revision[k].adds
  BY <1>1
<1>3. D(k) = D(k - 1) \cup Revision[k].drops
  BY <1>1
<1>4. \A j \in lo .. k : j \in 1 .. 9
  OBVIOUS
<1>5. Revision[k].adds \cap D(k) = {}
  BY <1>4, AddsAreNew
<1> HIDE DEF A, D
<1>6. After(base, lo, k) = (base \cup A(k)) \ D(k)
  BY DEF After, A, D
<1>7. After(base, lo, k - 1) = (base \cup A(k - 1)) \ D(k - 1)
  BY DEF After, A, D
<1> QED
  BY <1>2, <1>3, <1>5, <1>6, <1>7

LEMMA AfterDown ==
  ASSUME NEW base, NEW lo \in 1 .. 2, NEW k \in 2 .. 9,
         \/ base = {} /\ lo = 1
         \/ base = Metadata /\ lo = 2 /\ k <= 5
  PROVE  After(base, lo, k - 1) = (After(base, lo, k) \ Revision[k].adds)
                                      \cup Revision[k].drops
<1> DEFINE A(i) == UNION {Revision[j].adds : j \in lo .. i}
           D(i) == UNION {Revision[j].drops : j \in lo .. i}
<1>1. \A j \in lo .. k - 1 : j \in 1 .. 9 /\ j # k
  OBVIOUS
<1>2. Revision[k].drops \cap D(k - 1) = {}
  BY <1>1, AddsAreNew
<1>3. Revision[k].adds \cap (base \cup A(k - 1)) = {}
  BY <1>1, AddsAreNew, MetadataIsEarly
<1>4. Revision[k].drops \subseteq base \cup A(k - 1)
  <2>1. CASE base = {} /\ lo = 1
    <3>1. 1 \in lo .. k - 1
      BY <2>1
    <3>2. Revision[1].adds \subseteq A(k - 1)
      BY <3>1
    <3> QED
      BY <3>2, AddsAreNew
  <2>2. CASE base = Metadata /\ lo = 2 /\ k <= 5
    BY <2>2, MetadataIsEarly
  <2> QED
    BY <2>1, <2>2
<1>5. Revision[k].adds \cap Revision[k].drops = {}
  BY AddsAreNew
<1> HIDE DEF A, D
<1>6. After(base, lo, k) = (After(base, lo, k - 1) \ Revision[k].drops)
                               \cup Revision[k].adds
  BY AfterUp
<1>7. After(base, lo, k - 1) = (base \cup A(k - 1)) \ D(k - 1)
  BY DEF After, A, D
<1> QED
  BY <1>2, <1>3, <1>4, <1>5, <1>6, <1>7

LEMMA InAfter ==
  ASSUME NEW x, NEW base, NEW lo, NEW v
  PROVE  x \in After(base, lo, v) <=>
           /\ x \in base \/ \E j \in lo .. v : x \in Revision[j].adds
           /\ \A j \in lo .. v : x \notin Revision[j].drops
BY DEF After

\* Which objects of a version the other parts of the model look at.
LEMMA IpColumn ==
  /\ \A j \in 1 .. 9 : "ip INET" \notin Revision[j].drops
  /\ \A j \in 1 .. 9 : j # 6 => "ip INET" \notin Revision[j].adds
  /\ \A j \in 1 .. 9 : j # 6 => "ip String" \notin Revision[j].drops
  /\ "ip INET" \in Revision[6].adds /\ "ip String" \in Revision[6].drops
  /\ "ip String" \in Revision[1].adds
  /\ "ip INET" \in Metadata /\ "ip String" \notin Metadata
  /\ \A j \in 2 .. 9 : "ip String" \notin Revision[j].adds
<1>1. \A j \in 1 .. 9 : j \in {1, 2, 3, 4, 5, 6, 7, 8, 9}
  OBVIOUS
<1>2. \A j \in 2 .. 9 : j \in {2, 3, 4, 5, 6, 7, 8, 9}
  OBVIOUS
<1>3. ASSUME NEW j \in 1 .. 9
      PROVE  "ip INET" \notin Revision[j].drops /\ (j # 6 => "ip String" \notin Revision[j].drops)
  <2>1. CASE j = 1
    BY <2>1, Drops
  <2>2. CASE j = 2
    BY <2>2, Drops
  <2>3. CASE j = 3
    BY <2>3, Drops
  <2>4. CASE j = 4
    BY <2>4, Drops
  <2>5. CASE j = 5
    BY <2>5, Drops
  <2>6. CASE j = 6
    BY <2>6, Drops
  <2>7. CASE j = 7
    BY <2>7, Drops
  <2>8. CASE j = 8
    BY <2>8, Drops
  <2>9. CASE j = 9
    BY <2>9, Drops
  <2> QED
    BY <1>1, <2>1, <2>2, <2>3, <2>4, <2>5, <2>6, <2>7, <2>8, <2>9
<1>4. ASSUME NEW j \in 2 .. 9
      PROVE  "ip String" \notin Revision[j].adds /\ (j # 6 => "ip INET" \notin Revision[j].adds)
  <2>2. CASE j = 2
    BY <2>2, AddsOf
  <2>3. CASE j = 3
    BY <2>3, AddsOf
  <2>4. CASE j = 4
    BY <2>4, AddsOf
  <2>5. CASE j = 5
    BY <2>5, AddsOf
  <2>6. CASE j = 6
    BY <2>6, AddsOf
  <2>7. CASE j = 7
    BY <2>7, AddsOf
  <2>8. CASE j = 8
    BY <2>8, AddsOf
  <2>9. CASE j = 9
    BY <2>9, AddsOf
  <2> QED
    BY <1>2, <2>2, <2>3, <2>4, <2>5, <2>6, <2>7, <2>8, <2>9
<1>5. /\ "ip INET" \notin Revision[1].adds /\ "ip String" \in Revision[1].adds
      /\ "ip INET" \in Revision[6].adds /\ "ip String" \in Revision[6].drops
  BY AddsOf, Drops DEF Tables
<1>6. \A j \in 1 .. 9 : j = 1 \/ j \in 2 .. 9
  OBVIOUS
<1> QED
  BY <1>3, <1>4, <1>5, <1>6, NotGrants

LEMMA AfterHas ==
  ASSUME NEW v \in 1 .. 9
  PROVE  /\ Tables \subseteq After({}, 1, v)
         /\ "ip INET" \in After({}, 1, v) <=> v >= 6
         /\ "ip String" \in After({}, 1, v) <=> v <= 5
         /\ v <= 5 => /\ Tables \subseteq After(Metadata, 2, v)
                      /\ "ip INET" \in After(Metadata, 2, v)
                      /\ "ip String" \notin After(Metadata, 2, v)
<1>1. \A j \in 1 .. v : j \in 1 .. 9
  OBVIOUS
<1>2. \A j \in 2 .. v : j \in 2 .. 9 /\ j \in 1 .. 9
  OBVIOUS
<1>3. Tables \subseteq After({}, 1, v)
  <2> SUFFICES ASSUME NEW t \in Tables PROVE t \in After({}, 1, v)
    OBVIOUS
  <2>1. 1 \in 1 .. v
    OBVIOUS
  <2>2. t \in Revision[1].adds
    BY AddsOf
  <2>3. \A j \in 1 .. v : t \notin Revision[j].drops
    BY <1>1, NotGrants
  <2> QED
    BY <2>1, <2>2, <2>3, InAfter
<1>4. CASE v >= 6
  <2>1. 6 \in 1 .. v /\ ~ v <= 5
    BY <1>4
  <2>2. "ip INET" \in After({}, 1, v)
    <3>1. \A j \in 1 .. v : "ip INET" \notin Revision[j].drops
      BY <1>1, IpColumn
    <3>2. \E j \in 1 .. v : "ip INET" \in Revision[j].adds
      BY <2>1, IpColumn
    <3> QED
      BY <3>1, <3>2, InAfter
  <2>3. "ip String" \notin After({}, 1, v)
    BY <2>1, IpColumn, InAfter
  <2> QED
    BY <1>3, <1>4, <2>1, <2>2, <2>3
<1>5. CASE v <= 5
  <2>1. 1 \in 1 .. v /\ ~ v >= 6 /\ \A j \in 1 .. v : j \in 1 .. 9 /\ j # 6
    BY <1>5
  <2>2. "ip INET" \notin After({}, 1, v)
    <3>1. \A j \in 1 .. v : "ip INET" \notin Revision[j].adds
      BY <2>1, IpColumn
    <3>2. "ip INET" \in After({}, 1, v)
            => \E j \in 1 .. v : "ip INET" \in Revision[j].adds
      BY DEF After
    <3> QED
      BY <3>1, <3>2
  <2>3. "ip String" \in After({}, 1, v)
    BY <2>1, IpColumn, InAfter
  <2>4. Tables \subseteq After(Metadata, 2, v)
    BY <1>2, NotGrants DEF After
  <2>5. "ip INET" \in After(Metadata, 2, v)
    BY <1>2, IpColumn, InAfter
  <2>6. "ip String" \notin After(Metadata, 2, v)
    BY <1>2, IpColumn, InAfter
  <2> QED
    BY <1>3, <1>5, <2>1, <2>2, <2>3, <2>4, <2>5, <2>6
<1>6. v >= 6 \/ v <= 5
  OBVIOUS
<1> QED
  BY <1>4, <1>5, <1>6

LEMMA AfterFirst ==
  After({}, 1, 1) = Revision[1].adds /\ After(Metadata, 2, 1) = Metadata
<1>1. \A j : j \in 1 .. 1 <=> j = 1
  OBVIOUS
<1>2. \A j : j \notin 2 .. 1
  OBVIOUS
<1>3. After({}, 1, 1) = Revision[1].adds
  <2>1. Revision[1].drops = {}
    BY Drops
  <2>2. \A x : x \in After({}, 1, 1) <=> x \in Revision[1].adds
    BY <1>1, <2>1, InAfter
  <2> QED
    BY <2>2
<1>4. After(Metadata, 2, 1) = Metadata
  BY <1>2 DEF After
<1> QED
  BY <1>3, <1>4

LEMMA ShapeHas ==
  ASSUME NEW v \in 1 .. 9, stamped \in BOOLEAN, stamped => v <= 5
  PROVE  /\ Tables \subseteq Shape(v)
         /\ "ip INET" \in Shape(v) <=> stamped \/ v >= 6
         /\ "ip String" \in Shape(v) <=> ~ stamped /\ v <= 5
<1>1. Tables \cap Grants = {} /\ "ip INET" \notin Grants /\ "ip String" \notin Grants
  BY NotGrants DEF Grants
<1> QED
  BY <1>1, AfterHas DEF Shape

\* A command's next revision gives the next shape.
LEMMA ShapeUp ==
  ASSUME NEW k \in 2 .. 9, NEW work, stamped \in BOOLEAN, Shaped(work, k - 1)
  PROVE  Shaped(UpFrom(work, k), k)
<1> DEFINE next == (work \ Revision[k].drops) \cup Adds(k)
           B == IF stamped THEN Metadata ELSE {}
           lo == IF stamped THEN 2 ELSE 1
<1>1. lo \in 1 .. 2 /\ k \in 1 .. 9
  OBVIOUS
<1>2. \A v : Shape(v) = After(B, lo, v) \ Grants
  BY DEF Shape
<1>3. After(B, lo, k) = (After(B, lo, k - 1) \ Revision[k].drops) \cup Revision[k].adds
  BY <1>1, AfterUp
<1>4. Adds(k) \ Grants = Revision[k].adds \ Grants
  BY <1>1, NotGrants DEF Adds
<1>5. next \ Grants = Shape(k)
  <2> HIDE DEF B, lo
  <2> QED
    BY <1>2, <1>3, <1>4 DEF Shaped
<1>6. Granted(next, k)
  <2>1. \A X : Grants \subseteq X <=> "grants to fa_app" \in X
    BY DEF Grants
  <2>2. "grants to fa_app" \in next => "grants to fa_app" \in work \/ (k = 7 /\ roles)
    BY <1>1, <2>1, NotGrants DEF Adds
  <2>3. CASE k = 7 /\ roles
    BY <2>3 DEF Granted
  <2>4. CASE ~ (k = 7 /\ roles)
    <3>1. Grants \subseteq next => k - 1 >= 7 /\ roles
      BY <2>1, <2>2, <2>4 DEF Shaped, Granted
    <3> QED
      BY <3>1 DEF Granted
  <2> QED
    BY <2>3, <2>4
<1> QED
  BY <1>5, <1>6 DEF Shaped, UpFrom

LEMMA ShapeDown ==
  ASSUME NEW k \in 2 .. 9, NEW work, stamped \in BOOLEAN, stamped => k <= 5,
         Shaped(work, k)
  PROVE  Shaped(DownFrom(work, k), k - 1)
<1> DEFINE next == (work \ Adds(k)) \cup Revision[k].drops
           B == IF stamped THEN Metadata ELSE {}
           lo == IF stamped THEN 2 ELSE 1
<1>1. lo \in 1 .. 2 /\ k \in 1 .. 9
  OBVIOUS
<1>2. \A v : Shape(v) = After(B, lo, v) \ Grants
  BY DEF Shape
<1>3. After(B, lo, k - 1) = (After(B, lo, k) \ Revision[k].adds) \cup Revision[k].drops
  BY <1>1, AfterDown
<1>4. Adds(k) \ Grants = Revision[k].adds \ Grants /\ Revision[k].drops \cap Grants = {}
  BY <1>1, NotGrants DEF Adds
<1>5. next \ Grants = Shape(k - 1)
  <2> HIDE DEF B, lo
  <2> QED
    BY <1>2, <1>3, <1>4 DEF Shaped
<1>6. Granted(next, k - 1)
  <2>1. \A X : Grants \subseteq X <=> "grants to fa_app" \in X
    BY DEF Grants
  <2>2. "grants to fa_app" \in next => "grants to fa_app" \in work \ Adds(k)
    BY <1>4, <2>1 DEF Grants
  <2>3. ASSUME "grants to fa_app" \in next PROVE k >= 8 /\ roles
    <3>1. k >= 7 /\ roles
      BY <2>1, <2>2, <2>3 DEF Shaped, Granted
    <3>2. k # 7
      BY <1>1, <2>1, <2>2, <2>3, <3>1, NotGrants DEF Adds
    <3> QED
      BY <3>1, <3>2
  <2>4. k >= 8 => k - 1 >= 7
    OBVIOUS
  <2>5. Grants \subseteq next => "grants to fa_app" \in next
    BY <2>1
  <2> QED
    BY <2>3, <2>4, <2>5 DEF Granted
<1> QED
  BY <1>5, <1>6 DEF Shaped, DownFrom

-----------------------------------------------------------------------------
(* The invariant. *)

LEMMA InitHolds == Init => IInv
<1> SUFFICES ASSUME Init PROVE IInv
  OBVIOUS
<1> USE DEF Init
<1>1. Idle \in Runs /\ Down \in Apps /\ Down.done <= Len(Down.path)
  BY DEF Idle, Down, Runs, Apps, HeadRev
<1>2. Typed
  <2>1. hits \in [Hit -> Form \cup {"none"}] /\ app \in [App -> Apps] /\ run \in Runs
    BY <1>1
  <2>2. \A a \in App : app[a].done <= Len(app[a].path)
    BY <1>1
  <2>3. version \in 0 .. HeadRev /\ commands \in 0 .. MaxCommands
    BY BoundAssumption DEF HeadRev
  <2> QED
    BY <2>1, <2>2, <2>3 DEF Typed
<1>3. SchemaShaped /\ RowsFit
  BY DEF SchemaShaped, RowsFit, Granted, Grants
<1>4. StampStops /\ WorkIsShaped /\ HitsHeld /\ RowsSeen
  BY DEF StampStops, WorkIsShaped, HitsHeld, RowsSeen, Running, Idle
<1> QED
  BY <1>2, <1>3, <1>4 DEF IInv, Rest

\* A step of the app alone changes nothing the invariant speaks of.
LEMMA AppStep ==
  ASSUME Rest, UNCHANGED <<schema, version, stamped, roles, hits, run>>
  PROVE  Rest'
<1>1. \A v : Shape(v)' = Shape(v)
  BY DEF Shape
<1>2. SchemaShaped' /\ RowsFit'
  BY <1>1 DEF Rest, SchemaShaped, Granted, RowsFit
<1>3. StampStops' /\ HitsHeld' /\ RowsSeen'
  BY DEF Rest, StampStops, HitsHeld, RowsSeen, Running
<1>4. WorkIsShaped'
  BY <1>1 DEF Rest, WorkIsShaped, Granted, Running
<1> QED
  BY <1>2, <1>3, <1>4 DEF Rest

\* Neither does a command that ends in a rollback.
LEMMA AbortStep ==
  ASSUME Rest, NEW why, Abort(why)
  PROVE  Rest'
<1> USE DEF Abort
<1>1. \A v : Shape(v)' = Shape(v)
  BY DEF Shape
<1>2. ~ Running' /\ ~ run'.checked
  BY DEF Running, Idle
<1>3. SchemaShaped' /\ RowsFit'
  BY <1>1 DEF Rest, SchemaShaped, Granted, RowsFit
<1>4. StampStops' /\ HitsHeld' /\ RowsSeen' /\ WorkIsShaped'
  BY <1>2 DEF Rest, StampStops, HitsHeld, RowsSeen, WorkIsShaped
<1> QED
  BY <1>3, <1>4 DEF Rest

LEMMA StartStep ==
  ASSUME IInv, NEW target \in Target, Upgrade(target) \/ Downgrade(target)
  PROVE  Rest'
<1> USE DEF IInv, Rest
<1>1. PICK kind \in {"upgrade", "downgrade"} :
        /\ Start(kind, target)
        /\ kind = "upgrade" => version < target
        /\ kind = "downgrade" => target < version
  BY TargetAssumption DEF Upgrade, Downgrade, Typed, HeadRev
<1>2. /\ UNCHANGED <<schema, version, stamped, roles, hits>>
      /\ run'.kind = kind /\ run'.from = version /\ run'.at = version
      /\ run'.target = target /\ run'.work = schema /\ ~ run'.checked
  BY <1>1 DEF Start, Idle
<1>3. \A v : Shape(v)' = Shape(v)
  BY <1>2 DEF Shape
<1>4. version \in 0 .. 9 /\ target \in 0 .. 9
  BY TargetAssumption DEF Typed, HeadRev
<1>5. SchemaShaped' /\ RowsFit'
  BY <1>2, <1>3 DEF SchemaShaped, Granted, RowsFit
<1>6. StampStops' /\ HitsHeld' /\ RowsSeen'
  BY <1>2, <1>4 DEF StampStops, HitsHeld, RowsSeen, Running
<1>7. WorkIsShaped'
  BY <1>1, <1>2, <1>3, <1>4 DEF WorkIsShaped, SchemaShaped, Granted
<1> QED
  BY <1>5, <1>6, <1>7

\* The facts of a command that is not at its target yet.
LEMMA PendingFacts ==
  ASSUME IInv, Pending
  PROVE  /\ run.kind \in {"upgrade", "downgrade"} /\ Running
         /\ run.from = version /\ version \in 0 .. 9
         /\ run.at \in 0 .. 9 /\ run.target \in 0 .. 9
         /\ run.kind = "upgrade" =>
              run.at < run.target /\ version <= run.at /\ Current = run.at + 1
         /\ run.kind = "downgrade" =>
              run.target < run.at /\ run.at <= version /\ Current = run.at
         /\ stamped \in BOOLEAN /\ (stamped => run.at <= 5)
         /\ run.checked \in BOOLEAN
<1>1. Running /\ run.at # run.target
  BY DEF Pending
<1>2. /\ run.kind \in {"idle", "upgrade", "downgrade"} /\ run.at \in 0 .. 9
      /\ run.target \in 0 .. 9 /\ run.checked \in BOOLEAN
      /\ version \in 0 .. 9 /\ stamped \in BOOLEAN
  BY DEF IInv, Typed, Runs, HeadRev
<1>3. run.kind \in {"upgrade", "downgrade"}
  BY <1>1, <1>2 DEF Running
<1>4. /\ run.from = version
      /\ run.kind = "upgrade" => version <= run.at /\ run.at <= run.target
      /\ run.kind = "downgrade" => run.target <= run.at /\ run.at <= version
      /\ stamped => run.at <= 5
  BY <1>1 DEF IInv, Rest, WorkIsShaped, StampStops
<1>5. /\ run.kind = "upgrade" => Current = run.at + 1
      /\ run.kind = "downgrade" => Current = run.at
  BY <1>3 DEF Current
<1>6. /\ run.kind = "upgrade" => run.at < run.target
      /\ run.kind = "downgrade" => run.target < run.at
  BY <1>1, <1>2, <1>4
<1> QED
  BY <1>1, <1>2, <1>3, <1>4, <1>5, <1>6

\* One revision up. 0001 needs an empty database; the others find the shape of
\* the version below.
LEMMA ReviseUpStep ==
  ASSUME IInv, ReviseUp
  PROVE  Rest'
<1> DEFINE k == Current
           next == UpFrom(run.work, k)
<1>1. Pending /\ run.kind = "upgrade" /\ (k = 6 => run.checked)
  BY DEF ReviseUp
<1>2. /\ Running /\ run.from = version /\ version \in 0 .. 9 /\ run.at \in 0 .. 9
      /\ run.target \in 0 .. 9 /\ run.at < run.target /\ version <= run.at
      /\ k = run.at + 1 /\ k \in 1 .. 9
      /\ stamped \in BOOLEAN /\ (stamped => run.at <= 5)
  BY <1>1, PendingFacts
<1> HIDE DEF k, next
<1>3. CASE \E why : Abort(why)
  BY <1>3, AbortStep DEF IInv
<1>4. CASE /\ ~ (k = 6 /\ \E h \in Hit : hits[h] # "none" /\ ~ CastsToInet(hits[h]))
           /\ Applies(k, Revision[k].drops, Adds(k))
           /\ Crossed(k, k, next)
  <2>1. /\ UNCHANGED <<schema, version, stamped, roles, hits>>
        /\ run'.kind = "upgrade" /\ run'.from = version /\ run'.at = k
        /\ run'.target = run.target /\ run'.work = next
        /\ run'.held = run.held \cup Locks(k) /\ run'.checked = run.checked
    BY <1>1, <1>2, <1>4 DEF Crossed, IInv, Typed, Runs
  <2>2. \A v : Shape(v)' = Shape(v)
    BY <2>1 DEF Shape
  <2>3. SchemaShaped' /\ RowsFit'
    BY <2>1, <2>2 DEF IInv, Rest, SchemaShaped, Granted, RowsFit
  <2>4. run.checked => ~ stamped
    BY DEF IInv, Rest, StampStops
  <2>5. StampStops'
    BY <1>1, <1>2, <2>1, <2>4 DEF IInv, Rest, StampStops, Running
  <2>6. k \in {5, 6} => "rate_limit_hits" \in Locks(k)
    <3>1. "rate_limit_hits" \in Rev0005.locks /\ "rate_limit_hits" \in Rev0006.locks
      BY DEF Rev0005, Rev0006
    <3>2. Locks(k) = Revision[k].locks
      BY <1>1 DEF Locks
    <3>3. CASE k = 5
      BY <3>1, <3>2, <3>3, Listing
    <3>4. CASE k = 6
      BY <3>1, <3>2, <3>4, Listing
    <3> QED
      BY <3>3, <3>4
  <2>7. HitsHeld'
    BY <1>1, <1>2, <2>1, <2>6 DEF IInv, Rest, HitsHeld, Running
  <2>8. RowsSeen'
    BY <1>1, <1>2, <1>4, <2>1 DEF IInv, Rest, RowsSeen, Running
  <2>9. Shaped(next, k)
    <3>1. CASE k = 1
      <4>1. version = 0 /\ run.at = 0 /\ ~ stamped
        BY <1>2, <3>1 DEF IInv, Rest, StampStops
      <4>2. run.work = {} \/ run.work = Metadata
        BY <1>2, <4>1 DEF IInv, Rest, WorkIsShaped
      <4>3. Adds(k) = Revision[1].adds /\ Revision[1].adds \cap Grants = {}
            /\ Tables \subseteq Revision[1].adds /\ Revision[1].drops = {}
        <5>1. Adds(k) = Revision[1].adds
          BY <3>1 DEF Adds
        <5>2. Revision[1].adds \cap Grants = {}
          <6>1. 1 \in 1 .. 9 /\ 1 # 7
            OBVIOUS
          <6> QED
            BY <6>1, NotGrants
        <5>3. Tables \subseteq Revision[1].adds
          BY AddsOf
        <5> QED
          BY <5>1, <5>2, <5>3, Drops
      <4>4. Revision[1].adds \cap run.work = {}
        BY <1>4, <3>1, <4>3, StrictOf DEF Applies
      <4>5. run.work = {}
        BY <4>2, <4>3, <4>4, NotGrants DEF Tables
      <4>6. next = Revision[1].adds
        BY <3>1, <4>3, <4>5 DEF next, UpFrom
      <4> QED
        BY <3>1, <4>1, <4>3, <4>6, AfterFirst DEF Shaped, Shape, Granted, Grants
    <3>2. CASE k # 1
      <4>1. Shaped(run.work, k - 1)
        BY <1>2, <3>2 DEF IInv, Rest, WorkIsShaped, Shaped
      <4>2. k \in 2 .. 9
        BY <1>2, <3>2
      <4> QED
        BY <1>2, <4>1, <4>2, ShapeUp DEF next
    <3> QED
      BY <3>1, <3>2
  <2>10. WorkIsShaped'
    BY <1>2, <2>1, <2>2, <2>9 DEF WorkIsShaped, Shaped, Granted
  <2> QED
    BY <2>3, <2>5, <2>7, <2>8, <2>10 DEF Rest
<1> QED
  BY <1>3, <1>4 DEF ReviseUp, k, next, UpFrom

\* One revision down.
LEMMA ReviseDownStep ==
  ASSUME IInv, ReviseDown
  PROVE  Rest'
<1> DEFINE k == Current
           next == IF k = 1 THEN {} ELSE DownFrom(run.work, k)
<1>1. Pending /\ run.kind = "downgrade"
  BY DEF ReviseDown
<1>2. /\ Running /\ run.from = version /\ version \in 0 .. 9 /\ run.at \in 0 .. 9
      /\ run.target \in 0 .. 9 /\ run.target < run.at /\ run.at <= version
      /\ k = run.at /\ k \in 1 .. 9
      /\ stamped \in BOOLEAN /\ (stamped => run.at <= 5)
  BY <1>1, PendingFacts
<1> HIDE DEF k, next
<1>3. CASE \E why : Abort(why)
  BY <1>3, AbortStep DEF IInv
<1>4. CASE Crossed(k, k - 1, next)
  <2>1. /\ UNCHANGED <<schema, version, stamped, roles, hits>>
        /\ run'.kind = "downgrade" /\ run'.from = version /\ run'.at = k - 1
        /\ run'.target = run.target /\ run'.work = next /\ run'.checked = run.checked
    BY <1>1, <1>2, <1>4 DEF Crossed, IInv, Typed, Runs
  <2>2. \A v : Shape(v)' = Shape(v)
    BY <2>1 DEF Shape
  <2>3. SchemaShaped' /\ RowsFit'
    BY <2>1, <2>2 DEF IInv, Rest, SchemaShaped, Granted, RowsFit
  <2>4. StampStops'
    BY <1>1, <1>2, <2>1 DEF IInv, Rest, StampStops, Running
  <2>5. HitsHeld' /\ RowsSeen'
    BY <1>1, <1>2, <2>1 DEF IInv, Rest, HitsHeld, RowsSeen, Running
  <2>6. k # 1 => Shaped(next, k - 1)
    <3> SUFFICES ASSUME k # 1 PROVE Shaped(next, k - 1)
      OBVIOUS
    <3>1. Shaped(run.work, k)
      BY <1>2 DEF IInv, Rest, WorkIsShaped, Shaped
    <3>2. k \in 2 .. 9 /\ (stamped => k <= 5)
      BY <1>2
    <3>3. next = DownFrom(run.work, k)
      BY DEF next
    <3> QED
      BY <1>2, <3>1, <3>2, <3>3, ShapeDown
  <2>7. k = 1 => next = {}
    BY DEF next
  <2>8. WorkIsShaped'
    BY <1>2, <2>1, <2>2, <2>6, <2>7 DEF WorkIsShaped, Shaped, Granted
  <2> QED
    BY <2>3, <2>4, <2>5, <2>8 DEF Rest
<1>5. ReviseDown => (\E why : Abort(why)) \/ Crossed(k, k - 1, next)
  <2>1. k = 1 => k - 1 = 0
    OBVIOUS
  <2> QED
    BY <2>1 DEF ReviseDown, k, next, DownFrom
<1> QED
  BY <1>3, <1>4, <1>5

LEMMA ValidateStep ==
  ASSUME IInv, Validate
  PROVE  Rest'
<1>1. Pending /\ run.kind = "upgrade" /\ Current = 6
  BY DEF Validate
<1>2. /\ Running /\ run.from = version /\ version \in 0 .. 9 /\ run.at = 5
      /\ version <= 5 /\ run.at < run.target /\ stamped \in BOOLEAN
  BY <1>1, PendingFacts
<1>3. CASE \E why : Abort(why)
  BY <1>3, AbortStep DEF IInv
<1>4. CASE /\ "ip String" \in run.work
           /\ \A h \in Hit : hits[h] = "none" \/ Matches0006(hits[h])
           /\ run' = [run EXCEPT !.checked = TRUE]
           /\ UNCHANGED <<schema, version, stamped, roles, hits>>
  <2>1. /\ run'.kind = "upgrade" /\ run'.from = version /\ run'.at = 5
        /\ run'.target = run.target /\ run'.work = run.work
        /\ run'.held = run.held /\ run'.checked
    BY <1>1, <1>2, <1>4 DEF IInv, Typed, Runs
  <2>2. \A v : Shape(v)' = Shape(v)
    BY <1>4 DEF Shape
  <2>3. SchemaShaped' /\ RowsFit'
    BY <1>4, <2>2 DEF IInv, Rest, SchemaShaped, Granted, RowsFit
  <2>4. ~ stamped
    <3>1. run.work \ Grants = Shape(5)
      BY <1>2 DEF IInv, Rest, WorkIsShaped
    <3>2. "ip String" \in Shape(5)
      BY <1>4, <3>1 DEF Grants
    <3>3. 5 \in 1 .. 9 /\ (stamped => 5 <= 5)
      OBVIOUS
    <3> QED
      BY <1>2, <3>2, <3>3, ShapeHas
  <2>5. StampStops'
    BY <1>2, <1>4, <2>1, <2>4 DEF StampStops
  <2>6. HitsHeld' /\ RowsSeen'
    <3>1. HitsHeld'
      BY <1>1, <1>2, <2>1 DEF IInv, Rest, HitsHeld, Running
    <3>2. run'.from <= 5 /\ run'.at >= 5 /\ ~ run'.at >= 6
      BY <1>2, <2>1
    <3>3. \A h \in Hit : hits'[h] = "none" \/ Matches0006(hits'[h])
      BY <1>4
    <3>4. RowsSeen'
      BY <2>1, <3>2, <3>3 DEF RowsSeen
    <3> QED
      BY <3>1, <3>4
  <2>7. WorkIsShaped'
    BY <1>1, <1>2, <1>4, <2>1, <2>2 DEF IInv, Rest, WorkIsShaped, Granted, Running
  <2> QED
    BY <2>3, <2>5, <2>6, <2>7 DEF Rest
<1> QED
  BY <1>3, <1>4 DEF Validate

\* The rows a commit leaves fit the column it leaves.
LEMMA CommitStep ==
  ASSUME IInv, Commit
  PROVE  Rest'
<1>1. /\ Running /\ run.at = run.target /\ version' = run.target
      /\ schema' = run.work /\ run' = Idle /\ roles' = roles
      /\ hits' = [h \in Hit |-> Rewritten(hits[h])]
      /\ stamped' = (stamped /\ run.target # 0)
  BY DEF Commit
<1>2. /\ run.kind \in {"upgrade", "downgrade"} /\ run.target \in 0 .. 9
      /\ version \in 0 .. 9 /\ run.from = version
      /\ run.kind = "upgrade" => version < run.target
      /\ run.kind = "downgrade" => run.target < version
      /\ stamped \in BOOLEAN /\ (stamped => version \in 1 .. 5 /\ run.target <= 5)
  BY <1>1 DEF IInv, Rest, Typed, Runs, HeadRev, WorkIsShaped, StampStops, Running
<1>3. ~ Running' /\ ~ run'.checked
  BY <1>1 DEF Running, Idle
<1>4. StampStops' /\ HitsHeld' /\ RowsSeen' /\ WorkIsShaped'
  <2>1. stamped' => version' \in 1 .. 5
    <3>1. stamped' => stamped /\ run.target # 0
      BY <1>1
    <3>2. run.target <= 5 /\ run.target # 0 => version' \in 1 .. 5
      <4>1. run.target \in 0 .. 9 /\ version' = run.target
        BY <1>1, <1>2
      <4> QED
        BY <4>1
    <3> QED
      BY <1>2, <3>1, <3>2
  <2>2. StampStops'
    BY <1>3, <2>1 DEF StampStops
  <2> QED
    BY <1>3, <2>2 DEF HitsHeld, RowsSeen, WorkIsShaped
<1>5. CASE run.target = 0
  <2>1. run.work = {} /\ version' = 0 /\ schema' = {}
    BY <1>1, <1>2, <1>5 DEF IInv, Rest, WorkIsShaped
  <2>2. SchemaShaped'
    BY <2>1 DEF SchemaShaped, Granted, Grants
  <2>3. RowsFit'
    BY <1>1, <1>5 DEF RowsFit, Rewritten
  <2> QED
    BY <1>4, <2>2, <2>3 DEF Rest
<1>6. CASE run.target # 0
  <2>1. run.work \ Grants = Shape(run.target) /\ Granted(run.work, run.target)
    BY <1>1, <1>6 DEF IInv, Rest, WorkIsShaped
  <2>2. \A v : Shape(v)' = Shape(v)
    BY <1>1, <1>2, <1>6 DEF Shape
  <2>3. SchemaShaped'
    BY <1>1, <1>6, <2>1, <2>2 DEF SchemaShaped, Granted
  <2>4. ASSUME "ip INET" \in schema', NEW h \in Hit
        PROVE  hits'[h] \in {"none", "plain"}
    <3>1. run.target \in 1 .. 9 /\ (stamped => run.target <= 5)
      BY <1>2, <1>6
    <3>2. "ip INET" \in Shape(run.target)
      BY <1>1, <2>1, <2>4 DEF Grants
    <3>3. stamped \/ run.target >= 6
      BY <1>2, <3>1, <3>2, ShapeHas
    <3>4. hits'[h] = Rewritten(hits[h])
      BY <1>1
    <3>5. CASE run.from < 6 /\ run.target >= 6
      <4>1. run.kind = "upgrade"
        BY <1>2, <3>5
      <4>2. hits[h] = "none" \/ CastsToInet(hits[h])
        BY <1>1, <3>5, <4>1 DEF IInv, Rest, RowsSeen
      <4> QED
        BY <1>6, <3>4, <3>5, <4>2 DEF Rewritten
    <3>6. CASE ~ (run.from < 6 /\ run.target >= 6)
      <4>1. version \in 1 .. 9 /\ (stamped \/ version >= 6) /\ (stamped => version <= 5)
        BY <1>2, <3>3, <3>6
      <4>2. "ip INET" \in Shape(version)
        BY <1>2, <4>1, ShapeHas
      <4>3. "ip INET" \in schema
        <5>1. schema \ Grants = Shape(version)
          BY <4>1 DEF IInv, Rest, SchemaShaped
        <5> QED
          BY <4>2, <5>1
      <4>4. hits[h] \in {"none", "plain"}
        BY <4>3 DEF IInv, Rest, RowsFit
      <4>5. ~ (run.from >= 6 /\ run.target < 6)
        BY <1>2, <3>3
      <4> QED
        BY <3>4, <3>6, <4>4, <4>5 DEF Rewritten
    <3> QED
      BY <3>5, <3>6
  <2>5. RowsFit'
    BY <1>1, <1>6, <2>4 DEF RowsFit
  <2> QED
    BY <1>4, <2>3, <2>5 DEF Rest
<1> QED
  BY <1>5, <1>6

LEMMA StampStep ==
  ASSUME IInv, Stamp
  PROVE  Rest'
<1>1. /\ ~ Running /\ version = 0 /\ Tables \subseteq schema /\ version' = 1
      /\ stamped' = TRUE /\ UNCHANGED <<schema, roles, hits, run>>
  BY DEF Stamp
<1>2. ~ Running' /\ ~ run'.checked
  <2>1. ~ run.checked
    BY <1>1 DEF IInv, Rest, RowsSeen, Running
  <2> QED
    BY <1>1, <2>1 DEF Running
<1>3. schema = Metadata
  BY <1>1 DEF IInv, Rest, SchemaShaped, Tables
<1>4. Metadata \cap Grants = {}
  BY NotGrants
<1>5. Shape(1)' = Metadata \ Grants
  BY <1>1, AfterFirst DEF Shape
<1>6. Granted(schema, version)'
  BY <1>1, <1>3, <1>4 DEF Granted, Grants
<1>7. SchemaShaped'
  <2>1. (schema \ Grants)' = Shape(1)'
    BY <1>1, <1>3, <1>5
  <2> QED
    BY <1>1, <1>6, <2>1 DEF SchemaShaped, Shape
<1>8. RowsFit'
  BY <1>1 DEF IInv, Rest, RowsFit
<1>9. StampStops' /\ HitsHeld' /\ RowsSeen' /\ WorkIsShaped'
  BY <1>1, <1>2 DEF StampStops, HitsHeld, RowsSeen, WorkIsShaped
<1> QED
  BY <1>7, <1>8, <1>9 DEF Rest

LEMMA ProvisionStep ==
  ASSUME IInv, ProvisionRoles
  PROVE  Rest'
<1>1. roles' = TRUE /\ UNCHANGED <<schema, version, stamped, hits, run>>
  BY DEF ProvisionRoles
<1>2. \A v : Shape(v)' = Shape(v)
  BY <1>1 DEF Shape
<1>3. SchemaShaped' /\ RowsFit'
  BY <1>1, <1>2 DEF IInv, Rest, SchemaShaped, Granted, RowsFit
<1>4. StampStops' /\ HitsHeld' /\ RowsSeen'
  BY <1>1 DEF IInv, Rest, StampStops, HitsHeld, RowsSeen, Running
<1>5. WorkIsShaped'
  BY <1>1, <1>2 DEF IInv, Rest, WorkIsShaped, Granted, Running
<1> QED
  BY <1>3, <1>4, <1>5 DEF Rest

LEMMA VersionFacts ==
  ASSUME IInv
  PROVE  /\ version \in 0 .. 9 /\ stamped \in BOOLEAN
         /\ stamped => version \in 1 .. 5
BY DEF IInv, Rest, Typed, StampStops, HeadRev

LEMMA VersionOrder ==
  /\ \A v \in 0 .. 9 : v # 0 => v \in 1 .. 9
  /\ \A v \in 1 .. 5 : v <= 5
  /\ \A v \in 1 .. 9 : v <= 5 => ~ v >= 6
  /\ \A v \in 0 .. 9 : v <= 5 => v = 5 \/ v < 5
OBVIOUS

\* The tables are there from version 1 on, and may be before.
LEMMA TablesThere ==
  ASSUME IInv
  PROVE  (schema = {} /\ version = 0) \/ Tables \subseteq schema
<1>1. CASE version = 0
  BY <1>1, NotGrants DEF IInv, Rest, SchemaShaped
<1>2. CASE version # 0
  <2>1. version \in 1 .. 9 /\ stamped \in BOOLEAN /\ (stamped => version <= 5)
    BY <1>2, VersionFacts
  <2>2. Tables \subseteq Shape(version)
    BY <2>1, ShapeHas
  <2> QED
    BY <1>2, <2>2 DEF IInv, Rest, SchemaShaped
<1> QED
  BY <1>1, <1>2

LEMMA CreateAllStep ==
  ASSUME IInv, NEW a \in App, CreateAll(a)
  PROVE  Rest'
<1>1. UNCHANGED <<version, stamped, roles, hits, run>>
  BY DEF CreateAll, SetApp
<1>2. CASE UNCHANGED schema
  BY <1>1, <1>2, AppStep DEF IInv
<1>3. CASE /\ app[a].missing # {} /\ app[a].missing \cap schema = {}
           /\ schema' = schema \cup Metadata
  <2>1. app[a].missing = Tables
    BY <1>3 DEF IInv, Typed, Apps
  <2>2. schema = {} /\ version = 0
    BY <1>3, <2>1, TablesThere DEF Tables
  <2>3. schema' = Metadata /\ version' = 0
    BY <1>1, <1>3, <2>2
  <2>4. SchemaShaped' /\ RowsFit'
    <3>1. Metadata \cap Grants = {}
      BY NotGrants
    <3>2. Granted(schema, version)'
      BY <2>3, <3>1 DEF Granted, Grants
    <3>3. RowsFit'
      BY <1>1, <2>2 DEF IInv, Rest, RowsFit
    <3> QED
      BY <2>3, <3>2, <3>3 DEF SchemaShaped
  <2>5. StampStops' /\ HitsHeld' /\ RowsSeen'
    BY <1>1 DEF IInv, Rest, StampStops, HitsHeld, RowsSeen, Running
  <2>6. WorkIsShaped'
    <3>1. \A v : Shape(v)' = Shape(v)
      BY <1>1 DEF Shape
    <3> QED
      BY <1>1, <3>1 DEF IInv, Rest, WorkIsShaped, Granted, Running
  <2> QED
    BY <2>4, <2>5, <2>6 DEF Rest
<1> QED
  BY <1>2, <1>3 DEF CreateAll

\* A hit of this release, one of an older release, or the cleanup.
LEMMA HitsStep ==
  ASSUME IInv, UNCHANGED <<schema, version, stamped, roles, run>>,
         NEW h \in Hit, NEW form \in Form \cup {"none"},
         hits' = [hits EXCEPT ![h] = form],
         \/ form \in {"none", "plain"}
         \/ "ip String" \in schema /\ "rate_limit_hits" \notin run.held
  PROVE  Rest'
<1>1. \A v : Shape(v)' = Shape(v)
  BY DEF Shape
<1>2. SchemaShaped' /\ StampStops' /\ HitsHeld' /\ WorkIsShaped'
  <2>1. SchemaShaped'
    BY <1>1 DEF IInv, Rest, SchemaShaped, Granted
  <2>2. StampStops' /\ HitsHeld'
    BY DEF IInv, Rest, StampStops, HitsHeld, Running
  <2>3. WorkIsShaped'
    BY <1>1 DEF IInv, Rest, WorkIsShaped, Granted, Running
  <2> QED
    BY <2>1, <2>2, <2>3
<1>3. \A i \in Hit : hits'[i] = hits[i] \/ hits'[i] = form
  BY DEF IInv, Typed
<1>4. CASE form \in {"none", "plain"}
  <2>1. RowsFit'
    BY <1>3, <1>4 DEF IInv, Rest, RowsFit
  <2>2. \A i \in Hit : \/ hits'[i] = hits[i] \/ hits'[i] = "none"
                       \/ Matches0006(hits'[i]) /\ CastsToInet(hits'[i])
    BY <1>3, <1>4 DEF Matches0006, CastsToInet
  <2>3. RowsSeen'
    BY <2>2 DEF IInv, Rest, RowsSeen, Running
  <2> QED
    BY <1>2, <2>1, <2>3 DEF Rest
<1>5. CASE "ip String" \in schema /\ "rate_limit_hits" \notin run.held
  <2>1. version # 0
    BY <1>5, NotGrants DEF IInv, Rest, SchemaShaped
  <2>2. version \in 1 .. 9 /\ stamped \in BOOLEAN /\ (stamped => version <= 5)
    BY <2>1, VersionFacts, VersionOrder
  <2>3. "ip String" \in Shape(version)
    BY <1>5, <2>1 DEF IInv, Rest, SchemaShaped, Grants
  <2>4. ~ stamped /\ version <= 5
    BY <2>2, <2>3, ShapeHas
  <2>5. "ip INET" \notin schema
    <3>1. ~ (stamped \/ version >= 6)
      BY <2>2, <2>4, VersionOrder
    <3>2. "ip INET" \notin Shape(version)
      BY <2>2, <3>1, ShapeHas
    <3>3. schema \ Grants = Shape(version)
      BY <2>1 DEF IInv, Rest, SchemaShaped
    <3> QED
      BY <3>2, <3>3 DEF Grants
  <2>6. RowsFit'
    BY <2>1, <2>5 DEF RowsFit
  <2>7. ~ (run.checked /\ run.from < 5)
    <3> SUFFICES ASSUME run.checked, run.from < 5 PROVE FALSE
      OBVIOUS
    <3>1. run.kind = "upgrade" /\ run.at >= 5
      BY DEF IInv, Rest, RowsSeen
    <3> QED
      BY <1>5, <3>1 DEF IInv, Rest, HitsHeld, Running
  <2>8. ~ (Running /\ run.kind = "upgrade" /\ run.from < 6 /\ run.at >= 6)
    BY <1>5 DEF IInv, Rest, HitsHeld
  <2>9. RowsSeen'
    BY <2>7, <2>8 DEF IInv, Rest, RowsSeen, Running
  <2> QED
    BY <1>2, <2>6, <2>9 DEF Rest
<1> QED
  BY <1>4, <1>5

-----------------------------------------------------------------------------
(* The types. *)

LEMMA LocksOf ==
  \A k \in 1 .. 9 : Revision[k].locks \subseteq Tables
<1>1. Revision[1].locks \subseteq Tables
  <2>1. Rev0001.locks \subseteq Tables
    BY DEF Rev0001, Tables
  <2> QED
    BY <2>1, Listing
<1>2. Revision[2].locks \subseteq Tables
  <2>1. Rev0002.locks \subseteq Tables
    BY DEF Rev0002, Tables
  <2> QED
    BY <2>1, Listing
<1>3. Revision[3].locks \subseteq Tables
  <2>1. Rev0003.locks \subseteq Tables
    BY DEF Rev0003, Tables
  <2> QED
    BY <2>1, Listing
<1>4. Revision[4].locks \subseteq Tables
  <2>1. Rev0004.locks \subseteq Tables
    BY DEF Rev0004, Tables
  <2> QED
    BY <2>1, Listing
<1>5. Revision[5].locks \subseteq Tables
  <2>1. Rev0005.locks \subseteq Tables
    BY DEF Rev0005, Tables
  <2> QED
    BY <2>1, Listing
<1>6. Revision[6].locks \subseteq Tables
  <2>1. Rev0006.locks \subseteq Tables
    BY DEF Rev0006, Tables
  <2> QED
    BY <2>1, Listing
<1>7. Revision[7].locks \subseteq Tables
  <2>1. Rev0007.locks \subseteq Tables
    BY DEF Rev0007, Tables
  <2> QED
    BY <2>1, Listing
<1>8. Revision[8].locks \subseteq Tables
  <2>1. Rev0008.locks \subseteq Tables
    BY DEF Rev0008, Tables
  <2> QED
    BY <2>1, Listing
<1>9. Revision[9].locks \subseteq Tables
  <2>1. Rev0009.locks \subseteq Tables
    BY DEF Rev0009, Tables
  <2> QED
    BY <2>1, Listing
<1>10. \A k \in 1 .. 9 : k \in {1, 2, 3, 4, 5, 6, 7, 8, 9}
  OBVIOUS
<1> QED
  BY <1>1, <1>2, <1>3, <1>4, <1>5, <1>6, <1>7, <1>8, <1>9, <1>10

LEMMA RevisionTypes ==
  ASSUME NEW k \in 1 .. 9
  PROVE  Adds(k) \subseteq Objects /\ Revision[k].drops \subseteq Objects
         /\ Locks(k) \subseteq Tables
<1>1. \A j \in 1 .. 9 : Revision[j].adds \subseteq Objects
  BY DEF Objects, HeadRev
<1>2. Revision[k].drops \subseteq Objects
  <2>1. k = 1 \/ k \in 2 .. 9
    OBVIOUS
  <2>2. 1 \in 1 .. 9
    OBVIOUS
  <2> QED
    BY <1>1, <2>1, <2>2, AddsAreNew, Drops
<1>3. Adds(k) \subseteq Objects
  BY <1>1 DEF Adds
<1>4. Locks(k) \subseteq Tables
  BY LocksOf DEF Locks
<1> QED
  BY <1>2, <1>3, <1>4

LEMMA RestTyped ==
  /\ Idle \in Runs /\ Down \in Apps /\ Down.done = 0
  /\ \A c \in 0 .. MaxCommands : c < MaxCommands => c + 1 \in 0 .. MaxCommands
<1>1. Idle \in Runs
  BY DEF Idle, Runs, HeadRev
<1>2. Down \in Apps /\ Down.done = 0
  BY DEF Down, Apps
<1>3. \A c \in 0 .. MaxCommands : c < MaxCommands => c + 1 \in 0 .. MaxCommands
  BY BoundAssumption
<1> QED
  BY <1>1, <1>2, <1>3

LEMMA AppTyped ==
  ASSUME Typed, NEW a \in App, NEW next \in Apps, next.done <= Len(next.path),
         SetApp(a, next), schema' \subseteq Objects,
         hits' \in [Hit -> Form \cup {"none"}]
  PROVE  Typed'
<1>1. UNCHANGED <<version, stamped, roles, run, outcome, commands>>
  BY DEF SetApp
<1>2. \A b \in App : app'[b] \in Apps /\ app'[b].done <= Len(app'[b].path)
  BY DEF SetApp, Typed
<1>3. app' \in [App -> Apps]
  BY DEF SetApp, Typed
<1> QED
  BY <1>1, <1>2, <1>3 DEF Typed

LEMMA AbortTyped ==
  ASSUME Typed, NEW why \in {"refused", "cast error", "crash", "deadlock"}, Abort(why)
  PROVE  Typed'
BY RestTyped DEF Typed, Abort

LEMMA CrossedTyped ==
  ASSUME Typed, NEW k \in 1 .. 9, NEW at \in 0 .. 9, NEW work \in SUBSET Objects,
         Crossed(k, at, work)
  PROVE  Typed'
<1>1. run.held \cup Locks(k) \subseteq Tables
  BY RevisionTypes DEF Typed, Runs
<1>2. run' \in Runs
  BY <1>1 DEF Crossed, Typed, Runs, HeadRev
<1> QED
  BY <1>2 DEF Typed, Crossed

LEMMA RunStepTyped ==
  ASSUME IInv, ReviseUp \/ Validate \/ ReviseDown \/ Commit
  PROVE  Typed'
<1>1. Typed
  BY DEF IInv
<1>2. CASE ReviseUp
  <2>1. Current \in 1 .. 9
    <3>1. Pending /\ run.kind = "upgrade"
      BY <1>2 DEF ReviseUp
    <3>2. /\ run.at \in 0 .. 9 /\ run.target \in 0 .. 9 /\ run.at < run.target
          /\ Current = run.at + 1
      BY <3>1, PendingFacts
    <3> QED
      BY <3>2
  <2>2. (run.work \ Revision[Current].drops) \cup Adds(Current) \in SUBSET Objects
    BY <1>1, <2>1, RevisionTypes DEF Typed, Runs
  <2>3. Current \in 0 .. 9
    BY <2>1
  <2> QED
    BY <1>1, <1>2, <2>1, <2>2, <2>3, AbortTyped, CrossedTyped DEF ReviseUp
<1>3. CASE Validate
  <2>1. CASE Abort("refused")
    BY <1>1, <2>1, AbortTyped
  <2>2. CASE /\ run' = [run EXCEPT !.checked = TRUE]
             /\ UNCHANGED <<schema, version, stamped, roles, hits, outcome, commands, app>>
    <3>1. run' \in Runs
      BY <1>1, <2>2 DEF Typed, Runs
    <3> QED
      BY <1>1, <2>2, <3>1 DEF Typed
  <2> QED
    BY <1>3, <2>1, <2>2 DEF Validate
<1>4. CASE ReviseDown
  <2>1. Current \in 1 .. 9 /\ Current - 1 \in 0 .. 9
    BY <1>4, PendingFacts DEF ReviseDown
  <2>2. (run.work \ Adds(Current)) \cup Revision[Current].drops \in SUBSET Objects
    BY <1>1, <2>1, RevisionTypes DEF Typed, Runs
  <2>3. {} \in SUBSET Objects /\ 0 \in 0 .. 9
    OBVIOUS
  <2> QED
    BY <1>1, <1>4, <2>1, <2>2, <2>3, AbortTyped, CrossedTyped DEF ReviseDown
<1>5. CASE Commit
  <2>1. Idle \in Runs
    BY RestTyped
  <2>2. \A form \in Form \cup {"none"} : Rewritten(form) \in Form \cup {"none"}
    BY DEF Rewritten, Form
  <2>3. hits' \in [Hit -> Form \cup {"none"}]
    BY <1>1, <1>5, <2>2 DEF Commit, Typed
  <2>4. version' \in 0 .. HeadRev /\ schema' \subseteq Objects /\ stamped' \in BOOLEAN
    BY <1>1, <1>5 DEF Commit, Typed, Runs
  <2> QED
    BY <1>1, <1>5, <2>1, <2>3, <2>4 DEF Commit, Typed
<1> QED
  BY <1>2, <1>3, <1>4, <1>5

LEMMA OperatorTyped ==
  ASSUME IInv,
         \/ \E target \in Target : Upgrade(target) \/ Downgrade(target)
         \/ Stamp \/ ProvisionRoles
  PROVE  Typed'
<1>1. Typed
  BY DEF IInv
<1>2. CASE \E target \in Target : Upgrade(target) \/ Downgrade(target)
  <2>1. PICK kind \in {"upgrade", "downgrade"}, target \in Target : Start(kind, target)
    BY <1>2 DEF Upgrade, Downgrade
  <2>2. target \in 0 .. 9
    BY TargetAssumption
  <2>3. run' \in Runs
    BY <1>1, <2>1, <2>2 DEF Start, Idle, Runs, Typed, HeadRev
  <2>4. commands' \in 0 .. MaxCommands
    BY <1>1, <2>1, RestTyped DEF Start, Typed
  <2> QED
    BY <1>1, <2>1, <2>3, <2>4 DEF Start, Typed
<1>3. CASE Stamp
  <2>1. commands' \in 0 .. MaxCommands /\ version' \in 0 .. HeadRev
    <3>1. commands \in 0 .. MaxCommands /\ commands < MaxCommands
          /\ commands' = commands + 1 /\ version' = 1
      BY <1>1, <1>3 DEF Stamp, Typed
    <3> QED
      BY <3>1, RestTyped DEF HeadRev
  <2> QED
    BY <1>1, <1>3, <2>1 DEF Stamp, Typed
<1>4. CASE ProvisionRoles
  BY <1>1, <1>4 DEF ProvisionRoles, Typed
<1> QED
  BY <1>2, <1>3, <1>4

LEMMA PathTyped ==
  ASSUME NEW p \in Path \cup {<<>>}
  PROVE  p \in Seq(Tables)
<1>1. <<"rate_limit_hits">> \in Seq(Tables)
  BY DEF Tables
<1>2. <<"users", "verifications">> \in Seq(Tables)
  BY DEF Tables
<1>3. <<"verifications", "users", "refresh_sessions">> \in Seq(Tables)
  BY DEF Tables
<1>4. <<"users", "refresh_sessions">> \in Seq(Tables)
  BY DEF Tables
<1>5. <<"refresh_sessions", "users">> \in Seq(Tables)
  BY DEF Tables
<1>6. <<>> \in Seq(Tables)
  BY DEF Tables
<1> QED
  BY <1>1, <1>2, <1>3, <1>4, <1>5, <1>6 DEF Path

LEMMA ProcessTyped ==
  ASSUME IInv, NEW a \in App,
         \/ \E role \in {"owner", "fa_app"} : Inspect(a, role)
         \/ CreateAll(a) \/ Stop(a) \/ Use(a) \/ RequestIsVictim(a) \/ Finish(a)
         \/ \E path \in Path : Request(a, path)
  PROVE  Typed'
<1> USE RestTyped
<1>1. /\ Typed /\ app[a] \in Apps /\ app[a].done <= Len(app[a].path)
      /\ app[a].path \in Seq(Tables) /\ app[a].done \in Nat
  <2>1. Typed /\ app[a] \in Apps /\ app[a].done <= Len(app[a].path)
    BY DEF IInv, Typed
  <2>2. app[a].path \in Path \cup {<<>>} /\ app[a].done \in Nat
    BY <2>1 DEF Apps
  <2> QED
    BY <2>1, <2>2, PathTyped
<1>2. schema \subseteq Objects /\ hits \in [Hit -> Form \cup {"none"}]
  BY DEF IInv, Typed
<1>3. ASSUME NEW answer \in {"none", "ok", "error", "deadlock"}
      PROVE  Answered(a, answer) \in Apps
             /\ Answered(a, answer).done <= Len(Answered(a, answer).path)
  <2>1. Answered(a, answer) \in Apps
    BY <1>1 DEF Answered, Apps
  <2>2. Answered(a, answer).done = 0 /\ Answered(a, answer).path = <<>>
    BY <1>1 DEF Answered, Apps
  <2> QED
    BY <2>1, <2>2
<1>4. CASE \E role \in {"owner", "fa_app"} : Inspect(a, role)
  <2>1. Tables \ schema \in {{}, Tables}
    BY TablesThere
  <2>2. PICK role \in {"owner", "fa_app"} : Inspect(a, role)
    BY <1>4
  <2> DEFINE next == [app[a] EXCEPT !.at = "starting", !.role = role,
                                    !.missing = Tables \ schema]
  <2>3. next \in Apps /\ next.done <= Len(next.path)
    BY <1>1, <2>1 DEF Apps
  <2>4. SetApp(a, next) /\ UNCHANGED <<schema, hits>>
    BY <2>2 DEF Inspect
  <2> HIDE DEF next
  <2> QED
    BY <1>1, <1>2, <2>3, <2>4, AppTyped
<1>5. CASE CreateAll(a)
  <2> DEFINE up == [app[a] EXCEPT !.at = "up"]
             created == [app[a] EXCEPT !.at = "up", !.missing = {}]
             failed == [app[a] EXCEPT !.at = "down", !.missing = {}]
  <2>1. /\ up \in Apps /\ up.done <= Len(up.path)
        /\ created \in Apps /\ created.done <= Len(created.path)
        /\ failed \in Apps /\ failed.done <= Len(failed.path)
    BY <1>1 DEF Apps
  <2>2. SetApp(a, up) \/ SetApp(a, created) \/ SetApp(a, failed)
    BY <1>5 DEF CreateAll
  <2>3. schema' \subseteq Objects /\ hits' = hits
    BY <1>2, <1>5 DEF CreateAll, Objects
  <2> HIDE DEF up, created, failed
  <2> QED
    BY <1>1, <1>2, <2>1, <2>2, <2>3, AppTyped
<1>6. CASE Stop(a)
  <2> DEFINE next == [Down EXCEPT !.accepted = app[a].accepted]
  <2>1. next \in Apps /\ next.done <= Len(next.path)
    BY <1>1 DEF Apps, Down
  <2>2. SetApp(a, next) /\ UNCHANGED <<schema, hits>>
    BY <1>6 DEF Stop
  <2> HIDE DEF next
  <2> QED
    BY <1>1, <1>2, <2>1, <2>2, AppTyped
<1>7. CASE \E path \in Path : Request(a, path)
  <2>1. PICK path \in Path : Request(a, path)
    BY <1>7
  <2> DEFINE next == [app[a] EXCEPT !.path = path, !.answer = "none", !.accepted = @ + 1]
  <2>2. app[a].done = 0
    <3>1. app[a].path = <<>>
      BY <2>1 DEF Request, Busy
    <3> QED
      BY <1>1, <3>1
  <2>3. next \in Apps /\ next.done <= Len(next.path)
    <3>1. Len(path) \in Nat
      BY PathTyped
    <3>2. next \in Apps
      <4>1. path \in Path \cup {<<>>} /\ app[a].accepted + 1 \in Nat
        BY <1>1 DEF Apps
      <4> HIDE DEF Path
      <4> QED
        BY <1>1, <4>1 DEF Apps
    <3>3. next.done = 0 /\ next.path = path
      BY <1>1, <2>2 DEF Apps
    <3> QED
      BY <3>1, <3>2, <3>3
  <2>4. SetApp(a, next) /\ UNCHANGED <<schema, hits>>
    BY <2>1 DEF Request
  <2> HIDE DEF next
  <2> QED
    BY <1>1, <1>2, <2>3, <2>4, AppTyped
<1>8. CASE Use(a)
  <2> DEFINE next == [app[a] EXCEPT !.done = @ + 1]
  <2>1. app[a].done < Len(app[a].path)
    BY <1>8 DEF Use
  <2>2. next \in Apps /\ next.done <= Len(next.path)
    <3>1. next.done = app[a].done + 1 /\ next.path = app[a].path /\ next \in Apps
      BY <1>1 DEF Apps
    <3> QED
      BY <1>1, <2>1, <3>1
  <2>3. SetApp(a, next) \/ SetApp(a, Answered(a, "error"))
    BY <1>8 DEF Use
  <2>4. UNCHANGED <<schema, hits>>
    BY <1>8 DEF Use
  <2> HIDE DEF next
  <2> QED
    BY <1>1, <1>2, <1>3, <2>2, <2>3, <2>4, AppTyped
<1>9. CASE RequestIsVictim(a)
  <2>1. SetApp(a, Answered(a, "deadlock")) /\ UNCHANGED <<schema, hits>>
    BY <1>9 DEF RequestIsVictim
  <2> QED
    BY <1>1, <1>2, <1>3, <2>1, AppTyped
<1>10. CASE Finish(a)
  <2>1. hits' \in [Hit -> Form \cup {"none"}]
    BY <1>2, <1>10 DEF Finish, Form
  <2>2. SetApp(a, Answered(a, "ok")) /\ UNCHANGED schema
    BY <1>10 DEF Finish
  <2> QED
    BY <1>1, <1>2, <1>3, <2>1, <2>2, AppTyped
<1> QED
  BY <1>4, <1>5, <1>6, <1>7, <1>8, <1>9, <1>10

LEMMA RowTyped ==
  ASSUME IInv, NEW h \in Hit,
         (\E form \in Form : OlderReleaseInserts(h, form)) \/ CleanupHits(h)
  PROVE  Typed'
<1>1. hits' \in [Hit -> Form \cup {"none"}]
  BY DEF IInv, Typed, OlderReleaseInserts, CleanupHits
<1>2. UNCHANGED <<schema, version, stamped, roles, run, outcome, commands, app>>
  BY DEF OlderReleaseInserts, CleanupHits
<1> QED
  BY <1>1, <1>2 DEF IInv, Typed

-----------------------------------------------------------------------------
(* The induction. *)

LEMMA NextHolds ==
  ASSUME IInv, Next
  PROVE  IInv'
<1>1. CASE \E target \in Target : Upgrade(target) \/ Downgrade(target)
  BY <1>1, StartStep, OperatorTyped DEF IInv
<1>2. CASE ReviseUp
  BY <1>2, ReviseUpStep, RunStepTyped DEF IInv
<1>3. CASE Validate
  BY <1>3, ValidateStep, RunStepTyped DEF IInv
<1>4. CASE ReviseDown
  BY <1>4, ReviseDownStep, RunStepTyped DEF IInv
<1>5. CASE Commit
  BY <1>5, CommitStep, RunStepTyped DEF IInv
<1>6. CASE RunCrash \/ RunIsVictim
  BY <1>6, AbortStep, AbortTyped DEF IInv, RunCrash, RunIsVictim
<1>7. CASE Stamp
  BY <1>7, StampStep, OperatorTyped DEF IInv
<1>8. CASE ProvisionRoles
  BY <1>8, ProvisionStep, OperatorTyped DEF IInv
<1>9. CASE \E a \in App, role \in {"owner", "fa_app"} : Inspect(a, role)
  <2>1. UNCHANGED <<schema, version, stamped, roles, hits, run>>
    BY <1>9 DEF Inspect, SetApp
  <2> QED
    BY <1>9, <2>1, AppStep, ProcessTyped DEF IInv
<1>10. ASSUME NEW a \in App, CreateAll(a) PROVE IInv'
  BY <1>10, CreateAllStep, ProcessTyped DEF IInv
<1>11. ASSUME NEW a \in App, Stop(a) \/ Use(a) \/ RequestIsVictim(a) PROVE IInv'
  <2>1. UNCHANGED <<schema, version, stamped, roles, hits, run>>
    BY <1>11 DEF Stop, Use, RequestIsVictim, SetApp
  <2> QED
    BY <1>11, <2>1, AppStep, ProcessTyped DEF IInv
<1>12. CASE \E a \in App, path \in Path : Request(a, path)
  <2>1. UNCHANGED <<schema, version, stamped, roles, hits, run>>
    BY <1>12 DEF Request, SetApp
  <2> QED
    BY <1>12, <2>1, AppStep, ProcessTyped DEF IInv
<1>13. ASSUME NEW a \in App, Finish(a) PROVE IInv'
  <2>1. UNCHANGED <<schema, version, stamped, roles, run>>
    BY <1>13 DEF Finish, SetApp
  <2>2. CASE UNCHANGED hits
    BY <1>13, <2>1, <2>2, AppStep, ProcessTyped DEF IInv
  <2>3. CASE \E h \in Hit : hits' = [hits EXCEPT ![h] = "plain"]
    <3>1. PICK h \in Hit : hits' = [hits EXCEPT ![h] = "plain"]
      BY <2>3
    <3>2. Rest'
      BY <2>1, <3>1, HitsStep DEF Form
    <3>3. Typed'
      BY <1>13, ProcessTyped
    <3> QED
      BY <3>2, <3>3 DEF IInv
  <2> QED
    BY <1>13, <2>2, <2>3 DEF Finish
<1>14. ASSUME NEW h \in Hit, NEW form \in Form, OlderReleaseInserts(h, form) PROVE IInv'
  <2>1. /\ UNCHANGED <<schema, version, stamped, roles, run>>
        /\ hits' = [hits EXCEPT ![h] = form]
        /\ "ip String" \in schema /\ "rate_limit_hits" \notin run.held
    BY <1>14 DEF OlderReleaseInserts
  <2> QED
    BY <1>14, <2>1, HitsStep, RowTyped DEF IInv
<1>15. ASSUME NEW h \in Hit, CleanupHits(h) PROVE IInv'
  <2>1. /\ UNCHANGED <<schema, version, stamped, roles, run>>
        /\ hits' = [hits EXCEPT ![h] = "none"]
    BY <1>15 DEF CleanupHits
  <2> QED
    BY <1>15, <2>1, HitsStep, RowTyped DEF IInv
<1> QED
  BY <1>1, <1>2, <1>3, <1>4, <1>5, <1>6, <1>7, <1>8, <1>9, <1>10, <1>11, <1>12,
     <1>13, <1>14, <1>15 DEF Next

LEMMA Inductive == Spec => []IInv
<1>1. IInv /\ UNCHANGED vars => IInv'
  <2> SUFFICES ASSUME IInv, UNCHANGED vars PROVE IInv'
    OBVIOUS
  <2>1. UNCHANGED <<schema, version, stamped, roles, hits, run, app, outcome, commands>>
    BY DEF vars
  <2>2. Rest'
    BY <2>1, AppStep DEF IInv
  <2>3. Typed'
    BY <2>1 DEF IInv, Typed
  <2> QED
    BY <2>2, <2>3 DEF IInv
<1>2. IInv /\ [Next]_vars => IInv'
  BY <1>1, NextHolds
<1> QED
  BY <1>2, InitHolds, PTL DEF Spec

-----------------------------------------------------------------------------
(* The properties. *)

\* The state of schema, command and processes is always one of those the
\* actions are written for (env.py, lifespan, the models).
THEOREM TypeCorrect == Spec => []TypeOK
<1>1. IInv => TypeOK
  <2> SUFFICES ASSUME Typed PROVE TypeOK
    BY DEF IInv
  <2>1. /\ schema \subseteq Metadata \cup UNION {Revision[k].adds : k \in 1 .. HeadRev}
        /\ version \in 0 .. HeadRev /\ stamped \in BOOLEAN /\ roles \in BOOLEAN
        /\ hits \in [Hit -> Form \cup {"none"}]
        /\ outcome \in {"none", "applied", "refused", "cast error", "crash", "deadlock"}
        /\ commands \in 0 .. MaxCommands
    BY DEF Typed, Objects
  <2>2. /\ run.kind \in {"idle", "upgrade", "downgrade"}
        /\ run.at \in 0 .. HeadRev /\ run.target \in 0 .. HeadRev
        /\ run.from \in 0 .. HeadRev /\ run.held \subseteq Tables
    BY DEF Typed, Runs
  <2>3. ASSUME NEW a \in App
        PROVE  /\ app[a].at \in {"down", "starting", "up"}
               /\ app[a].path \in Path \cup {<<>>}
               /\ app[a].done \in 0 .. Len(app[a].path)
    <3>1. /\ app[a] \in Apps /\ app[a].done <= Len(app[a].path)
      BY DEF Typed
    <3>2. /\ app[a].at \in {"down", "starting", "up"}
          /\ app[a].path \in Path \cup {<<>>} /\ app[a].done \in Nat
      BY <3>1 DEF Apps
    <3>3. app[a].path \in Seq(Tables)
      BY <3>2, PathTyped
    <3> QED
      BY <3>1, <3>2, <3>3
  <2> QED
    BY <2>1, <2>2, <2>3 DEF TypeOK
<1> QED
  BY <1>1, Inductive, PTL

\* However many commands are started, killed, refused or rolled back, and
\* however many processes run create_all beside them: the committed schema is
\* what the revisions up to the version make (env.py, begin_transaction).
THEOREM SchemaTold == Spec => []SchemaOfVersion
<1>1. IInv => SchemaOfVersion
  <2> SUFFICES ASSUME IInv PROVE SchemaOfVersion
    OBVIOUS
  <2>1. CASE version = 0
    <3>1. ~ stamped
      BY <2>1, VersionFacts
    <3>2. schema = {} \/ schema = Metadata
      BY <2>1 DEF IInv, Rest, SchemaShaped
    <3>3. Metadata # {} /\ Metadata \ Grants = Metadata
      BY NotGrants DEF Tables
    <3>4. Grants \subseteq schema => version >= 7 /\ roles
      BY DEF IInv, Rest, SchemaShaped, Granted
    <3> QED
      BY <2>1, <3>1, <3>2, <3>3, <3>4 DEF SchemaOfVersion
  <2>2. CASE version # 0
    <3>1. stamped \in BOOLEAN
      BY VersionFacts
    <3>2. schema \ Grants = Shape(version) /\ Granted(schema, version)
      BY <2>2 DEF IInv, Rest, SchemaShaped
    <3> QED
      BY <2>2, <3>1, <3>2 DEF SchemaOfVersion, Shape, Granted
  <2> QED
    BY <2>1, <2>2
<1> QED
  BY <1>1, Inductive, PTL

\* What an older release stores while 0006 looks at the rows and alters their
\* column never ends up in that column (0006, upgrade and downgrade).
THEOREM RowsFitted == Spec => []RowsFitColumn
<1>1. IInv => RowsFitColumn
  BY DEF IInv, Rest, RowsFit, RowsFitColumn
<1> QED
  BY <1>1, Inductive, PTL

\* A cast that fails after 0006's look fails on an address with a port, or in
\* a command that started at 0005 and so did not hold the table's lock yet.
THEOREM CheckedCast == Spec => CheckedRowsCast
<1> DEFINE Failed == outcome # "cast error" /\ outcome' = "cast error"
           Known == run.from = 5 \/ \E h \in Hit : hits[h] = "ported"
<1>1. IInv /\ [Next]_vars => (Failed => Known)
  <2> SUFFICES ASSUME IInv, [Next]_vars, Failed PROVE Known
    OBVIOUS
  <2>1. /\ ReviseUp /\ Current = 6
        /\ \E h \in Hit : hits[h] # "none" /\ ~ CastsToInet(hits[h])
    BY DEF Next, vars, Upgrade, Downgrade, Start, ReviseUp, Validate, ReviseDown,
           Commit, RunCrash, RunIsVictim, Stamp, ProvisionRoles, Inspect, CreateAll,
           Stop, Use, Finish, RequestIsVictim, Request, OlderReleaseInserts,
           CleanupHits, SetApp, Abort, Crossed
  <2>2. run.checked
    BY <2>1 DEF ReviseUp
  <2>3. PICK h \in Hit : hits[h] # "none" /\ ~ CastsToInet(hits[h])
    BY <2>1
  <2>4. run.from <= 5 /\ (run.from < 5 => hits[h] = "none" \/ Matches0006(hits[h]))
    BY <2>2 DEF IInv, Rest, RowsSeen
  <2>5. run.from < 5 => hits[h] = "ported"
    BY <2>3, <2>4 DEF Matches0006, CastsToInet
  <2>6. run.from \in 0 .. 9
    BY DEF IInv, Typed, Runs, HeadRev
  <2>7. run.from = 5 \/ run.from < 5
    BY <2>4, <2>6, VersionOrder
  <2> QED
    BY <2>5, <2>7
<1> QED
  BY <1>1, Inductive, PTL DEF Spec, CheckedRowsCast

\* From 0006 on a request of this release is refused by the schema only where
\* fa_app has not been granted its tables (0007), whatever command is running.
THEOREM HeadServed == Spec => HeadServes
<1> DEFINE Served == \A a \in App :
              app[a].answer # "error" /\ app'[a].answer = "error" /\ version \in 6 .. HeadRev
              => app[a].role = "fa_app" /\ ~ Grants \subseteq schema
<1>1. IInv /\ [Next]_vars => Served
  <2> SUFFICES ASSUME IInv, [Next]_vars, NEW a \in App,
                      app[a].answer # "error", app'[a].answer = "error",
                      version \in 6 .. HeadRev
               PROVE  app[a].role = "fa_app" /\ ~ Grants \subseteq schema
    OBVIOUS
  <2>1. app \in [App -> Apps] /\ app[a] \in Apps
    BY DEF IInv, Typed
  <2>2. ASSUME NEW b \in App, NEW next, SetApp(b, next)
        PROVE  (b = a /\ next.answer = "error")
    BY <2>1, <2>2 DEF SetApp
  <2>3. Use(a) /\ ~ Answers(a, NextTable(a))
    <3>1. app' # app
      OBVIOUS
    <3>2. \/ \E b \in App : \/ Use(b) \/ CreateAll(b) \/ Stop(b) \/ Finish(b)
                            \/ RequestIsVictim(b)
                            \/ \E role \in {"owner", "fa_app"} : Inspect(b, role)
                            \/ \E path \in Path : Request(b, path)
      BY <3>1 DEF Next, vars, Upgrade, Downgrade, Start, ReviseUp, Validate, ReviseDown,
           Commit, RunCrash, RunIsVictim, Stamp, ProvisionRoles, OlderReleaseInserts,
           CleanupHits, Abort, Crossed
    <3>3. PICK b \in App : \/ Use(b) \/ CreateAll(b) \/ Stop(b) \/ Finish(b)
                           \/ RequestIsVictim(b)
                           \/ \E role \in {"owner", "fa_app"} : Inspect(b, role)
                           \/ \E path \in Path : Request(b, path)
      BY <3>2
    <3>10. app[b] \in Apps
      BY <2>1
    <3>4. ASSUME CreateAll(b) PROVE FALSE
      <4>1. \/ SetApp(b, [app[b] EXCEPT !.at = "up"])
            \/ SetApp(b, [app[b] EXCEPT !.at = "down", !.missing = {}])
            \/ SetApp(b, [app[b] EXCEPT !.at = "up", !.missing = {}])
        BY <3>4 DEF CreateAll
      <4>2. /\ [app[b] EXCEPT !.at = "up"].answer = app[b].answer
            /\ [app[b] EXCEPT !.at = "down", !.missing = {}].answer = app[b].answer
            /\ [app[b] EXCEPT !.at = "up", !.missing = {}].answer = app[b].answer
        BY <3>10 DEF Apps
      <4>3. b = a /\ app[b].answer = "error"
        BY <2>2, <4>1, <4>2
      <4> QED
        BY <4>3
    <3>5. ~ Stop(b)
      BY <2>2 DEF Stop, Down
    <3>6. ASSUME Finish(b) \/ RequestIsVictim(b) PROVE FALSE
      <4>1. PICK answer \in {"ok", "deadlock"} : SetApp(b, Answered(b, answer))
        BY <3>6 DEF Finish, RequestIsVictim
      <4>2. b = a /\ Answered(b, answer).answer = "error"
        BY <2>2, <4>1
      <4>3. Answered(a, answer).answer = answer
        BY <2>1 DEF Answered, Apps
      <4> QED
        BY <4>2, <4>3
    <3>7. ASSUME NEW role \in {"owner", "fa_app"}, Inspect(b, role) PROVE FALSE
      <4>1. SetApp(b, [app[b] EXCEPT !.at = "starting", !.role = role,
                                     !.missing = Tables \ schema])
        BY <3>7 DEF Inspect
      <4>2. [app[b] EXCEPT !.at = "starting", !.role = role,
                           !.missing = Tables \ schema].answer = app[b].answer
        BY <3>10 DEF Apps
      <4>3. b = a /\ app[b].answer = "error"
        BY <2>2, <4>1, <4>2
      <4> QED
        BY <4>3
    <3>8. ASSUME NEW path \in Path, Request(b, path) PROVE FALSE
      <4>1. SetApp(b, [app[b] EXCEPT !.path = path, !.answer = "none",
                                     !.accepted = @ + 1])
        BY <3>8 DEF Request
      <4>2. [app[b] EXCEPT !.path = path, !.answer = "none",
                           !.accepted = @ + 1].answer = "none"
        BY <3>10 DEF Apps
      <4> QED
        BY <2>2, <4>1, <4>2
    <3>9. Use(b)
      BY <3>3, <3>4, <3>5, <3>6, <3>7, <3>8
    <3> QED
      BY <2>1, <2>2, <3>9 DEF Use, Apps
  <2>4. NextTable(a) \in Tables
    <3>1. app[a].path \in Seq(Tables) /\ app[a].done \in Nat
      BY <2>1, PathTyped DEF Apps
    <3>2. app[a].done < Len(app[a].path)
      BY <2>3 DEF Use
    <3> QED
      BY <3>1, <3>2 DEF NextTable
  <2>5. version \in 1 .. 9 /\ version >= 6 /\ version # 0 /\ ~ version \in 1 .. 5
    BY DEF HeadRev
  <2>6. ~ stamped /\ stamped \in BOOLEAN
    BY <2>5, VersionFacts
  <2>7. Tables \subseteq Shape(version) /\ "ip INET" \in Shape(version)
    BY <2>5, <2>6, ShapeHas
  <2>8. schema \ Grants = Shape(version)
    BY <2>5 DEF IInv, Rest, SchemaShaped
  <2>9. NextTable(a) \in schema /\ "ip INET" \in schema
    BY <2>4, <2>7, <2>8
  <2> QED
    BY <2>3, <2>9 DEF Answers, Grants
<1> QED
  BY <1>1, Inductive, PTL DEF Spec, HeadServes
=============================================================================
