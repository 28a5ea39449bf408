-------------------------- MODULE RateLimitProofs --------------------------
(***************************************************************************)
(* Proofs about RateLimit: how far concurrent requests can overshoot each  *)
(* limit, for every number of requests, IPs, emails and hits, every limit, *)
(* every window and every retention that satisfies the assumption.         *)
(***************************************************************************)
EXTENDS RateLimit, FiniteSetTheorems, TLAPS

-----------------------------------------------------------------------------
(* Counting.                                                               *)

\* One element moves from a finite set of requests to a finite set of hits.
LEMMA MoveOne ==
  ASSUME NEW H, NEW P, NEW h, NEW p, IsFiniteSet(H), IsFiniteSet(P),
         h \notin H, p \in P
  PROVE  Cardinality(H \cup {h}) + Cardinality(P \ {p})
           = Cardinality(H) + Cardinality(P)
<1>1. Cardinality(H \cup {h}) = Cardinality(H) + 1
  BY FS_AddElement
<1>2. Cardinality(P \ {p}) = Cardinality(P) - 1
  BY FS_RemoveElement
<1>3. Cardinality(H) \in Nat /\ Cardinality(P) \in Nat
  BY FS_CardinalityType
<1> QED
  BY <1>1, <1>2, <1>3

\* A smaller set of hits and a smaller set of requests keep a bound.
LEMMA BothShrink ==
  ASSUME NEW H, NEW P, NEW G \in SUBSET H, NEW Q \in SUBSET P,
         IsFiniteSet(H), IsFiniteSet(P), NEW bound \in Int,
         Cardinality(H) + Cardinality(P) <= bound
  PROVE  Cardinality(G) + Cardinality(Q) <= bound
<1>1. /\ IsFiniteSet(G) /\ Cardinality(G) <= Cardinality(H)
      /\ IsFiniteSet(Q) /\ Cardinality(Q) <= Cardinality(P)
  BY FS_Subset
<1> QED
  BY <1>1, FS_CardinalityType

\* A set of requests that has just passed a count of fewer than limit hits.
LEMMA JustCounted ==
  ASSUME NEW H, NEW C, H \subseteq C, IsFiniteSet(C), NEW limit \in Int,
         Cardinality(C) < limit, NEW P \in SUBSET Proc
  PROVE  Cardinality(H) + Cardinality(P) <= limit + Slack
<1>1. /\ IsFiniteSet(H) /\ Cardinality(H) <= Cardinality(C)
      /\ IsFiniteSet(P) /\ Cardinality(P) <= Cardinality(Proc)
  BY FS_Subset, ConstantsAssumption
<1> QED
  BY <1>1, FS_CardinalityType, ConstantsAssumption DEF Slack

-----------------------------------------------------------------------------
(* The clamp of reserved_slots.                                            *)

\* The reserved band never takes the whole limit and is never negative.
LEMMA Clamp == /\ Reserved \in Nat /\ MainPool \in Nat
               /\ 1 <= MainPool /\ MainPool <= Limit
               /\ Reserved = 0 => MainPool = Limit
BY ConstantsAssumption DEF Reserved, MainPool

-----------------------------------------------------------------------------
(* Types, requests and retention.                                          *)

BaseInv == TypeOK /\ RequestOK /\ Retained

\* The three are kept by every step.
LEMMA BaseNext == BaseInv /\ [Next]_vars => BaseInv'
<1> USE ConstantsAssumption
<1> SUFFICES ASSUME BaseInv, [Next]_vars PROVE BaseInv'
  OBVIOUS
<1>1. CASE UNCHANGED vars
  BY <1>1 DEF vars, BaseInv, TypeOK, RequestOK, Retained
<1>2. ASSUME NEW p \in Proc, Finish(p), UNCHANGED <<clock, hit, rows>>
      PROVE  BaseInv'
  BY <1>2 DEF Finish, BaseInv, TypeOK, RequestOK, Retained, Phase, Tx, NoTx
<1>3. ASSUME NEW p \in Proc, NEW phase \in Phase, Goto(p, phase), pc[p] # "idle",
             UNCHANGED <<clock, hit, rows>>
      PROVE  BaseInv'
  BY <1>3 DEF Goto, BaseInv, TypeOK, RequestOK, Retained, Phase
<1>4. ASSUME NEW p \in Proc, NEW i \in Ip, NEW e \in Email, Request(p, i, e)
      PROVE  BaseInv'
  BY <1>4 DEF Request, BaseInv, TypeOK, RequestOK, Retained, Phase, Tx
<1>5. ASSUME NEW p \in Proc, CountIp(p) PROVE BaseInv'
  BY <1>2, <1>3, <1>5 DEF CountIp, Phase
<1>6. ASSUME NEW p \in Proc, CountEmail(p) PROVE BaseInv'
  BY <1>2, <1>3, <1>6 DEF CountEmail, Phase
<1>7. ASSUME NEW p \in Proc, CheckBand(p) PROVE BaseInv'
  BY <1>2, <1>3, <1>7 DEF CheckBand, Phase
<1>8. ASSUME NEW p \in Proc, NEW h \in HitId, Insert(p, h) PROVE BaseInv'
  <2>1. /\ tx[p].ip \in Ip /\ tx[p].email \in Email /\ tx[p].now \in Nat
        /\ NewHit(tx[p]) \in Hit
    BY <1>8 DEF Insert, BaseInv, TypeOK, RequestOK, NewHit, Hit, Tx
  <2>2. DOMAIN hit' = DOMAIN hit \cup {h} /\ hit' \in [DOMAIN hit' -> Hit]
    BY <1>8, <2>1 DEF Insert, BaseInv, TypeOK
  <2>3. TypeOK'
    BY <1>8, <2>2 DEF Insert, Finish, BaseInv, TypeOK, Phase, Tx, NoTx
  <2>4. RequestOK'
    BY <1>8 DEF Insert, Finish, BaseInv, TypeOK, RequestOK
  <2>5. Retained'
    BY <1>8, <2>2 DEF Insert, BaseInv, TypeOK, Retained
  <2> QED
    BY <2>3, <2>4, <2>5 DEF BaseInv
<1>9. ASSUME NEW p \in Proc, Crash(p) PROVE BaseInv'
  BY <1>2, <1>9 DEF Crash
<1>10. CASE Cleanup
  BY <1>10 DEF Cleanup, BaseInv, TypeOK, RequestOK, Retained
<1>11. CASE Tick
  <2>1. TypeOK' /\ RequestOK'
    BY <1>11 DEF Tick, BaseInv, TypeOK, RequestOK, Tx
  <2>2. Retained'
    BY <1>11 DEF Tick, BaseInv, TypeOK, Retained, Hit
  <2> QED
    BY <2>1, <2>2 DEF BaseInv
<1> QED
  BY <1>1, <1>4, <1>5, <1>6, <1>7, <1>8, <1>9, <1>10, <1>11 DEF Next, Step

-----------------------------------------------------------------------------
(* The three bounds. A step keeps one in one of three ways: nobody passes  *)
(* the count, p has just counted, or p inserts.                            *)

LEMMA Finite ==
  ASSUME TypeOK, NEW s, NEW i, NEW e
  PROVE  /\ IsFiniteSet(EmailLoad(s, e)) /\ IsFiniteSet(PassedEmail(s, e))
         /\ IsFiniteSet(IpLoad(s, i)) /\ IsFiniteSet(PassedIp(s, i))
         /\ IsFiniteSet(PairLoad(s, i, e)) /\ IsFiniteSet(PassedPair(s, i, e))
<1>1. IsFiniteSet(HitId)
  BY FS_Interval, ConstantsAssumption DEF HitId
<1>2. /\ EmailLoad(s, e) \subseteq HitId /\ IpLoad(s, i) \subseteq HitId
      /\ PairLoad(s, i, e) \subseteq HitId
  BY DEF TypeOK, EmailLoad, IpLoad, PairLoad
<1>3. /\ PassedEmail(s, e) \subseteq Proc /\ PassedIp(s, i) \subseteq Proc
      /\ PassedPair(s, i, e) \subseteq Proc
  BY DEF PassedEmail, PassedIp, PassedPair
<1> QED
  BY <1>1, <1>2, <1>3, FS_Subset, ConstantsAssumption

\* A request counts every hit of a window that its own now lies in: the hits
\* are recent enough not to have been cleaned up.
LEMMA CountsTheWindow ==
  ASSUME BaseInv, NEW p \in Proc, pc[p] # "idle", NEW s \in Int,
         Within(s, tx[p].now)
  PROVE  /\ EmailLoad(s, tx[p].email) \subseteq EmailHits(p)
         /\ IpLoad(s, tx[p].ip) \subseteq IpHits(p)
         /\ IsFiniteSet(EmailHits(p)) /\ IsFiniteSet(IpHits(p))
<1>1. tx[p].now \in Nat /\ clock \in Nat /\ clock <= tx[p].now + Latency
  BY DEF BaseInv, RequestOK, TypeOK, Tx
<1>2. \A h \in DOMAIN hit : hit[h].at \in Nat
  BY DEF BaseInv, TypeOK, Hit
<1>3. \A h \in DOMAIN hit : s < hit[h].at =>
        h \in rows /\ hit[h].at > tx[p].now - Window
  BY <1>1, <1>2, ConstantsAssumption DEF BaseInv, Retained, Within
<1>4. EmailHits(p) \subseteq HitId /\ IpHits(p) \subseteq HitId
  BY DEF BaseInv, TypeOK, EmailHits, IpHits, InWindow
<1>5. IsFiniteSet(HitId)
  BY FS_Interval, ConstantsAssumption DEF HitId
<1> QED
  BY <1>3, <1>4, <1>5, FS_Subset
     DEF EmailLoad, IpLoad, EmailHits, IpHits, InWindow, Within

\* What an insert does to the hits, and to the request that makes it.
LEMMA InsertTable ==
  ASSUME BaseInv, NEW p \in Proc, NEW h \in HitId, Insert(p, h)
  PROVE  /\ h \notin DOMAIN hit /\ DOMAIN hit' = DOMAIN hit \cup {h}
         /\ \A k \in DOMAIN hit : hit'[k] = hit[k]
         /\ hit'[h].ip = tx[p].ip /\ hit'[h].email = tx[p].email
         /\ hit'[h].at = tx[p].now
         /\ pc[p] = "insert"
         /\ \A q \in Proc : pc'[q] = IF q = p THEN "idle" ELSE pc[q]
         /\ \A q \in Proc : q # p => tx'[q] = tx[q]
BY DEF Insert, NewHit, Finish, BaseInv, TypeOK

\* The insert adds its row to the loads of its own ip and of its own email.
LEMMA InsertLoads ==
  ASSUME BaseInv, NEW p \in Proc, NEW h \in HitId, Insert(p, h),
         NEW s \in Int, NEW i \in Ip, NEW e \in Email
  PROVE  /\ h \notin IpLoad(s, i) /\ h \notin EmailLoad(s, e)
         /\ IpLoad(s, i)' = IF tx[p].ip = i /\ Within(s, tx[p].now)
                            THEN IpLoad(s, i) \cup {h} ELSE IpLoad(s, i)
         /\ EmailLoad(s, e)' = IF tx[p].email = e /\ Within(s, tx[p].now)
                               THEN EmailLoad(s, e) \cup {h} ELSE EmailLoad(s, e)
<1>1. h \notin IpLoad(s, i) /\ h \notin EmailLoad(s, e)
  BY InsertTable DEF IpLoad, EmailLoad
<1>2. IpLoad(s, i)' = IF tx[p].ip = i /\ Within(s, tx[p].now)
                     THEN IpLoad(s, i) \cup {h} ELSE IpLoad(s, i)
  <2>1. CASE tx[p].ip = i /\ Within(s, tx[p].now)
    <3>1. IpLoad(s, i)' = IpLoad(s, i) \cup {h}
      BY <2>1, InsertTable DEF IpLoad
    <3> QED
      BY <2>1, <3>1
  <2>2. CASE ~ (tx[p].ip = i /\ Within(s, tx[p].now))
    <3>1. IpLoad(s, i)' = IpLoad(s, i)
      BY <2>2, InsertTable DEF IpLoad
    <3> QED
      BY <2>2, <3>1
  <2> QED
    BY <2>1, <2>2
<1>3. EmailLoad(s, e)' = IF tx[p].email = e /\ Within(s, tx[p].now)
                        THEN EmailLoad(s, e) \cup {h} ELSE EmailLoad(s, e)
  <2>1. CASE tx[p].email = e /\ Within(s, tx[p].now)
    <3>1. EmailLoad(s, e)' = EmailLoad(s, e) \cup {h}
      BY <2>1, InsertTable DEF EmailLoad
    <3> QED
      BY <2>1, <3>1
  <2>2. CASE ~ (tx[p].email = e /\ Within(s, tx[p].now))
    <3>1. EmailLoad(s, e)' = EmailLoad(s, e)
      BY <2>2, InsertTable DEF EmailLoad
    <3> QED
      BY <2>2, <3>1
  <2> QED
    BY <2>1, <2>2
<1>4. QED
  BY <1>1, <1>2, <1>3

LEMMA BoundsTyped ==
  /\ Slack \in Int /\ Limit + Slack \in Int /\ IpLimit + Slack \in Int
  /\ MainPool + Slack \in Int
BY FS_CardinalityType, ConstantsAssumption, Clamp DEF Slack

\* The email limit: CountEmail is the count, everything else passes nobody.
LEMMA EmailNext == BaseInv /\ EmailInv /\ [Next]_vars => EmailInv'
<1> SUFFICES ASSUME BaseInv, EmailInv, [Next]_vars, NEW s \in Int, NEW e \in Email
             PROVE  Cardinality(EmailLoad(s, e)') + Cardinality(PassedEmail(s, e)')
                      <= Limit + Slack
  BY DEF EmailInv
<1> DEFINE H == EmailLoad(s, e)
           P == PassedEmail(s, e)
           Goal == Cardinality(H') + Cardinality(P') <= Limit + Slack
<1>1. /\ IsFiniteSet(H) /\ IsFiniteSet(P)
      /\ Cardinality(H) + Cardinality(P) <= Limit + Slack
  BY Finite DEF BaseInv, EmailInv
<1>2. ASSUME H' = H, P' \subseteq P PROVE Goal
  <2> HIDE DEF H, P
  <2> QED
    BY <1>1, <1>2, BothShrink, BoundsTyped
<1>3. ASSUME UNCHANGED hit PROVE H' = H
  BY <1>3 DEF EmailLoad
<1>4. ASSUME NEW p \in Proc, CountEmail(p) PROVE Goal
  <2>1. H' = H
    BY <1>3, <1>4 DEF CountEmail
  <2>2. CASE ~ Exhausted(Cardinality(EmailHits(p))) /\ tx[p].email = e
             /\ Within(s, tx[p].now)
    <3>1. H \subseteq EmailHits(p) /\ IsFiniteSet(EmailHits(p))
      BY <1>4, <2>2, CountsTheWindow DEF CountEmail
    <3>2. Cardinality(EmailHits(p)) < Limit
      BY <2>2, <3>1, FS_CardinalityType, ConstantsAssumption DEF Exhausted
    <3>3. P' \in SUBSET Proc
      BY DEF PassedEmail
    <3> HIDE DEF H, P
    <3> QED
      BY <2>1, <3>1, <3>2, <3>3, JustCounted, ConstantsAssumption
  <2>3. CASE ~ (~ Exhausted(Cardinality(EmailHits(p))) /\ tx[p].email = e
                /\ Within(s, tx[p].now))
    <3>1. P' \subseteq P
      BY <1>4, <2>3 DEF CountEmail, PassedEmail, Goto, Finish, BaseInv, TypeOK
    <3> QED
      BY <1>2, <2>1, <3>1
  <2> QED
    BY <2>2, <2>3
<1>5. ASSUME NEW p \in Proc, NEW h \in HitId, Insert(p, h) PROVE Goal
  <2>1. CASE tx[p].email = e /\ Within(s, tx[p].now)
    <3>1. H' = H \cup {h} /\ h \notin H
      BY <1>5, <2>1, InsertTable DEF EmailLoad
    <3>2. P' = P \ {p} /\ p \in P
      BY <1>5, <2>1, InsertTable DEF PassedEmail
    <3> HIDE DEF H, P
    <3> QED
      BY <1>1, <3>1, <3>2, MoveOne
  <2>2. CASE ~ (tx[p].email = e /\ Within(s, tx[p].now))
    <3>1. H' = H
      BY <1>5, <2>2, InsertTable DEF EmailLoad
    <3>2. P' \subseteq P
      BY <1>5, <2>2, InsertTable DEF PassedEmail
    <3> QED
      BY <1>2, <3>1, <3>2
  <2> QED
    BY <2>1, <2>2
<1>6. ASSUME NEW p \in Proc, CountIp(p) PROVE Goal
  <2>1. H' = H /\ P' \subseteq P
    BY <1>3, <1>6 DEF CountIp, PassedEmail, Goto, Finish, BaseInv, TypeOK
  <2> QED
    BY <1>2, <2>1
<1>7. ASSUME NEW p \in Proc, CheckBand(p) PROVE Goal
  <2>1. H' = H /\ P' \subseteq P
    BY <1>3, <1>7 DEF CheckBand, PassedEmail, Goto, Finish, BaseInv, TypeOK
  <2> QED
    BY <1>2, <2>1
<1>8. ASSUME NEW p \in Proc,
             Crash(p) \/ \E i \in Ip, f \in Email : Request(p, i, f)
      PROVE  Goal
  <2>1. H' = H /\ P' \subseteq P
    BY <1>3, <1>8 DEF Crash, Request, PassedEmail, Finish, BaseInv, TypeOK
  <2> QED
    BY <1>2, <2>1
<1>9. CASE Cleanup \/ Tick \/ UNCHANGED vars
  <2>1. H' = H /\ P' \subseteq P
    BY <1>3, <1>9 DEF Cleanup, Tick, vars, PassedEmail
  <2> QED
    BY <1>2, <2>1
<1> HIDE DEF H, P
<1> QED
  BY <1>4, <1>5, <1>6, <1>7, <1>8, <1>9 DEF Next, Step, H, P

\* The IP limit: CountIp is the count.
LEMMA IpNext == BaseInv /\ IpInv /\ [Next]_vars => IpInv'
<1> SUFFICES ASSUME BaseInv, IpInv, [Next]_vars, NEW s \in Int, NEW i \in Ip
             PROVE  Cardinality(IpLoad(s, i)') + Cardinality(PassedIp(s, i)')
                      <= IpLimit + Slack
  BY DEF IpInv
<1> DEFINE H == IpLoad(s, i)
           P == PassedIp(s, i)
           Goal == Cardinality(H') + Cardinality(P') <= IpLimit + Slack
<1>1. /\ IsFiniteSet(H) /\ IsFiniteSet(P)
      /\ Cardinality(H) + Cardinality(P) <= IpLimit + Slack
  BY Finite DEF BaseInv, IpInv
<1>2. ASSUME H' = H, P' \subseteq P PROVE Goal
  <2> HIDE DEF H, P
  <2> QED
    BY <1>1, <1>2, BothShrink, BoundsTyped
<1>3. ASSUME UNCHANGED hit PROVE H' = H
  BY <1>3 DEF IpLoad
<1>4. ASSUME NEW p \in Proc, CountIp(p) PROVE Goal
  <2>1. H' = H
    BY <1>3, <1>4 DEF CountIp
  <2>2. CASE ~ (Cardinality(IpHits(p)) >= IpLimit) /\ tx[p].ip = i
             /\ Within(s, tx[p].now)
    <3>1. H \subseteq IpHits(p) /\ IsFiniteSet(IpHits(p))
      BY <1>4, <2>2, CountsTheWindow DEF CountIp
    <3>2. Cardinality(IpHits(p)) < IpLimit
      BY <2>2, <3>1, FS_CardinalityType, ConstantsAssumption
    <3>3. P' \in SUBSET Proc
      BY DEF PassedIp
    <3> HIDE DEF H, P
    <3> QED
      BY <2>1, <3>1, <3>2, <3>3, JustCounted, ConstantsAssumption
  <2>3. CASE ~ (~ (Cardinality(IpHits(p)) >= IpLimit) /\ tx[p].ip = i
                /\ Within(s, tx[p].now))
    <3>1. P' \subseteq P
      BY <1>4, <2>3 DEF CountIp, PassedIp, Goto, Finish, BaseInv, TypeOK
    <3> QED
      BY <1>2, <2>1, <3>1
  <2> QED
    BY <2>2, <2>3
<1>5. ASSUME NEW p \in Proc, NEW h \in HitId, Insert(p, h) PROVE Goal
  <2>1. CASE tx[p].ip = i /\ Within(s, tx[p].now)
    <3>1. H' = H \cup {h} /\ h \notin H
      BY <1>5, <2>1, InsertTable DEF IpLoad
    <3>2. P' = P \ {p} /\ p \in P
      BY <1>5, <2>1, InsertTable DEF PassedIp
    <3> HIDE DEF H, P
    <3> QED
      BY <1>1, <3>1, <3>2, MoveOne
  <2>2. CASE ~ (tx[p].ip = i /\ Within(s, tx[p].now))
    <3>1. H' = H
      BY <1>5, <2>2, InsertTable DEF IpLoad
    <3>2. P' \subseteq P
      BY <1>5, <2>2, InsertTable DEF PassedIp
    <3> QED
      BY <1>2, <3>1, <3>2
  <2> QED
    BY <2>1, <2>2
<1>6. ASSUME NEW p \in Proc, CountEmail(p) PROVE Goal
  <2>1. H' = H /\ P' \subseteq P
    BY <1>3, <1>6 DEF CountEmail, PassedIp, Goto, Finish, BaseInv, TypeOK
  <2> QED
    BY <1>2, <2>1
<1>7. ASSUME NEW p \in Proc, CheckBand(p) PROVE Goal
  <2>1. H' = H /\ P' \subseteq P
    BY <1>3, <1>7 DEF CheckBand, PassedIp, Goto, Finish, BaseInv, TypeOK
  <2> QED
    BY <1>2, <2>1
<1>8. ASSUME NEW p \in Proc,
             Crash(p) \/ \E k \in Ip, f \in Email : Request(p, k, f)
      PROVE  Goal
  <2>1. H' = H /\ P' \subseteq P
    BY <1>3, <1>8 DEF Crash, Request, PassedIp, Finish, BaseInv, TypeOK
  <2> QED
    BY <1>2, <2>1
<1>9. CASE Cleanup \/ Tick \/ UNCHANGED vars
  <2>1. H' = H /\ P' \subseteq P
    BY <1>3, <1>9 DEF Cleanup, Tick, vars, PassedIp
  <2> QED
    BY <1>2, <2>1
<1> HIDE DEF H, P
<1> QED
  BY <1>4, <1>5, <1>6, <1>7, <1>8, <1>9 DEF Next, Step, H, P

\* The band: a request of i for e passes either in CountEmail, below the main
\* pool, or in CheckBand, where i has no hit for e in the window at all.
LEMMA PairNext == BaseInv /\ PairInv /\ [Next]_vars => PairInv'
<1> SUFFICES ASSUME BaseInv, PairInv, [Next]_vars,
                    NEW s \in Int, NEW i \in Ip, NEW e \in Email
             PROVE  Cardinality(PairLoad(s, i, e)') + Cardinality(PassedPair(s, i, e)')
                      <= MainPool + Slack
  BY DEF PairInv
<1> DEFINE H == PairLoad(s, i, e)
           P == PassedPair(s, i, e)
           Goal == Cardinality(H') + Cardinality(P') <= MainPool + Slack
           Mine(p) == tx[p].ip = i /\ tx[p].email = e /\ Within(s, tx[p].now)
<1>1. /\ IsFiniteSet(H) /\ IsFiniteSet(P)
      /\ Cardinality(H) + Cardinality(P) <= MainPool + Slack
  BY Finite DEF BaseInv, PairInv
<1>2. ASSUME H' = H, P' \subseteq P PROVE Goal
  <2> HIDE DEF H, P
  <2> QED
    BY <1>1, <1>2, BothShrink, BoundsTyped
<1>3. ASSUME UNCHANGED hit PROVE H' = H
  BY <1>3 DEF PairLoad, IpLoad, EmailLoad
<1>4. ASSUME NEW C, H \subseteq C, IsFiniteSet(C), Cardinality(C) < MainPool, H' = H
      PROVE  Goal
  <2>1. P' \in SUBSET Proc
    BY DEF PassedPair
  <2>2. MainPool \in Int
    BY Clamp
  <2> HIDE DEF H, P
  <2> QED
    BY <1>4, <2>1, <2>2, JustCounted
<1>5. ASSUME NEW p \in Proc, CountEmail(p) PROVE Goal
  <2> DEFINE n == Cardinality(EmailHits(p))
  <2>1. H' = H
    BY <1>3, <1>5 DEF CountEmail
  <2>2. CASE Mine(p) /\ ~ Exhausted(n) /\ ~ InBand(n)
    <3>1. H \subseteq EmailHits(p) /\ IsFiniteSet(EmailHits(p))
      BY <1>5, <2>2, CountsTheWindow DEF CountEmail, PairLoad
    <3>2. n < MainPool
      BY <2>2, <3>1, FS_CardinalityType, Clamp, ConstantsAssumption
         DEF Exhausted, InBand
    <3> QED
      BY <1>4, <2>1, <3>1, <3>2
  <2>3. CASE ~ (Mine(p) /\ ~ Exhausted(n) /\ ~ InBand(n))
    <3>1. P' \subseteq P
      BY <1>5, <2>3 DEF CountEmail, PassedPair, Goto, Finish, BaseInv, TypeOK
    <3> QED
      BY <1>2, <2>1, <3>1
  <2> QED
    BY <2>2, <2>3
<1>6. ASSUME NEW p \in Proc, CheckBand(p) PROVE Goal
  <2>1. H' = H
    BY <1>3, <1>6 DEF CheckBand
  <2>2. CASE Mine(p) /\ IpHits(p) \cap EmailHits(p) = {}
    <3>1. H \subseteq IpHits(p) \cap EmailHits(p)
      BY <1>6, <2>2, CountsTheWindow DEF CheckBand, PairLoad
    <3>2. IsFiniteSet({}) /\ Cardinality({}) < MainPool
      BY FS_EmptySet, Clamp
    <3> QED
      BY <1>4, <2>1, <2>2, <3>1, <3>2
  <2>3. CASE ~ (Mine(p) /\ IpHits(p) \cap EmailHits(p) = {})
    <3>1. P' \subseteq P
      BY <1>6, <2>3 DEF CheckBand, PassedPair, Goto, Finish, BaseInv, TypeOK
    <3> QED
      BY <1>2, <2>1, <3>1
  <2> QED
    BY <2>2, <2>3
<1>7. ASSUME NEW p \in Proc, NEW h \in HitId, Insert(p, h) PROVE Goal
  <2>1. CASE Mine(p)
    <3>1. H' = H \cup {h} /\ h \notin H
      BY <1>7, <2>1, InsertLoads DEF PairLoad
    <3>2. P' = P \ {p} /\ p \in P
      <4>1. p \in P /\ p \notin P'
        BY <1>7, <2>1, InsertTable DEF PassedPair
      <4>2. ASSUME NEW q \in Proc, q # p PROVE q \in P' <=> q \in P
        BY <1>7, <4>2, InsertTable DEF PassedPair
      <4>3. P \subseteq Proc /\ P' \subseteq Proc
        BY DEF PassedPair
      <4> QED
        BY <4>1, <4>2, <4>3
    <3> HIDE DEF H, P
    <3> QED
      BY <1>1, <3>1, <3>2, MoveOne
  <2>2. CASE ~ Mine(p)
    <3>1. H' = H
      BY <1>7, <2>2, InsertLoads DEF PairLoad
    <3>2. P' \subseteq P
      BY <1>7, <2>2, InsertTable DEF PassedPair
    <3> QED
      BY <1>2, <3>1, <3>2
  <2> QED
    BY <2>1, <2>2
<1>8. ASSUME NEW p \in Proc,
             \/ CountIp(p) \/ Crash(p)
             \/ \E k \in Ip, f \in Email : Request(p, k, f)
      PROVE  Goal
  <2>1. H' = H /\ P' \subseteq P
    BY <1>3, <1>8
       DEF CountIp, Crash, Request, PassedPair, Goto, Finish, BaseInv, TypeOK
  <2> QED
    BY <1>2, <2>1
<1>9. CASE Cleanup \/ Tick \/ UNCHANGED vars
  <2>1. H' = H /\ P' \subseteq P
    BY <1>3, <1>9 DEF Cleanup, Tick, vars, PassedPair
  <2> QED
    BY <1>2, <2>1
<1> HIDE DEF H, P
<1> QED
  BY <1>5, <1>6, <1>7, <1>8, <1>9 DEF Next, Step, H, P

-----------------------------------------------------------------------------
(* The theorems.                                                           *)

IInv == BaseInv /\ EmailInv /\ IpInv /\ PairInv

\* Nothing is inserted and nobody has passed a count at the start.
LEMMA InitInv == Init => IInv
<1> SUFFICES ASSUME Init PROVE IInv
  OBVIOUS
<1>1. BaseInv
  BY DEF Init, BaseInv, TypeOK, RequestOK, Retained, Phase, Tx, NoTx
<1>2. Cardinality({}) = 0
  BY FS_EmptySet
<1>3. Slack \in Nat
  <2>1. Cardinality(Proc) \in Nat /\ Cardinality(Proc) # 0
    BY FS_CardinalityType, FS_EmptySet, ConstantsAssumption
  <2> QED
    BY <2>1 DEF Slack
<1>4. EmailInv
  <2> SUFFICES ASSUME NEW s \in Int, NEW e \in Email
               PROVE  Cardinality(EmailLoad(s, e)) + Cardinality(PassedEmail(s, e))
                        <= Limit + Slack
    BY DEF EmailInv
  <2>1. EmailLoad(s, e) = {} /\ PassedEmail(s, e) = {}
    BY DEF Init, EmailLoad, PassedEmail
  <2> QED
    BY <2>1, <1>2, <1>3, ConstantsAssumption
<1>5. IpInv
  <2> SUFFICES ASSUME NEW s \in Int, NEW i \in Ip
               PROVE  Cardinality(IpLoad(s, i)) + Cardinality(PassedIp(s, i))
                        <= IpLimit + Slack
    BY DEF IpInv
  <2>1. IpLoad(s, i) = {} /\ PassedIp(s, i) = {}
    BY DEF Init, IpLoad, PassedIp
  <2> QED
    BY <2>1, <1>2, <1>3, ConstantsAssumption
<1>6. PairInv
  <2> SUFFICES ASSUME NEW s \in Int, NEW i \in Ip, NEW e \in Email
               PROVE  Cardinality(PairLoad(s, i, e)) + Cardinality(PassedPair(s, i, e))
                        <= MainPool + Slack
    BY DEF PairInv
  <2>1. PairLoad(s, i, e) = {} /\ PassedPair(s, i, e) = {}
    BY DEF Init, PairLoad, IpLoad, EmailLoad, PassedPair
  <2> QED
    BY <2>1, <1>2, <1>3, Clamp
<1> QED
  BY <1>1, <1>4, <1>5, <1>6 DEF IInv

\* The hits in a window and the requests on their way into it never exceed
\* the three limits by more than Slack, in every reachable state.
THEOREM Inductive == Spec => []IInv
<1>1. IInv /\ [Next]_vars => IInv'
  BY BaseNext, EmailNext, IpNext, PairNext DEF IInv
<1> QED
  BY InitInv, <1>1, PTL DEF Spec

\* Type correctness.
THEOREM TypeCorrect == Spec => []TypeOK
<1>1. IInv => TypeOK
  BY DEF IInv, BaseInv
<1> QED
  BY Inductive, <1>1, PTL

\* The email limit of enforce_rate_limit, with the overshoot of concurrency.
THEOREM EmailLimit == Spec => []EmailBounded
<1>1. IInv => EmailBounded
  <2> SUFFICES ASSUME IInv, NEW s \in -Window .. MaxClock, NEW e \in Email
               PROVE  Cardinality(EmailLoad(s, e)) <= Limit + Slack
    BY DEF EmailBounded
  <2>1. s \in Int
    BY ConstantsAssumption
  <2>2. /\ Cardinality(EmailLoad(s, e)) \in Nat
        /\ Cardinality(PassedEmail(s, e)) \in Nat
    BY Finite, FS_CardinalityType DEF IInv, BaseInv
  <2> QED
    BY <2>1, <2>2, BoundsTyped DEF IInv, EmailInv
<1> QED
  BY Inductive, <1>1, PTL

\* The IP limit.
THEOREM IpLimited == Spec => []IpBounded
<1>1. IInv => IpBounded
  <2> SUFFICES ASSUME IInv, NEW s \in -Window .. MaxClock, NEW i \in Ip
               PROVE  Cardinality(IpLoad(s, i)) <= IpLimit + Slack
    BY DEF IpBounded
  <2>1. s \in Int
    BY ConstantsAssumption
  <2>2. /\ Cardinality(IpLoad(s, i)) \in Nat
        /\ Cardinality(PassedIp(s, i)) \in Nat
    BY Finite, FS_CardinalityType DEF IInv, BaseInv
  <2> QED
    BY <2>1, <2>2, BoundsTyped DEF IInv, IpInv
<1> QED
  BY Inductive, <1>1, PTL

\* The reserved band: what one IP can take of one email.
THEOREM ReserveLeft == Spec => []ReserveKept
<1>1. IInv => ReserveKept
  <2> SUFFICES ASSUME IInv, NEW s \in -Window .. MaxClock,
                      NEW i \in Ip, NEW e \in Email
               PROVE  Cardinality(PairLoad(s, i, e)) <= MainPool + Slack
    BY DEF ReserveKept
  <2>1. s \in Int
    BY ConstantsAssumption
  <2>2. /\ Cardinality(PairLoad(s, i, e)) \in Nat
        /\ Cardinality(PassedPair(s, i, e)) \in Nat
    BY Finite, FS_CardinalityType DEF IInv, BaseInv
  <2> QED
    BY <2>1, <2>2, BoundsTyped DEF IInv, PairInv
<1> QED
  BY Inductive, <1>1, PTL
=============================================================================
