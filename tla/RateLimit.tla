----------------------------- MODULE RateLimit -----------------------------
(***************************************************************************)
(* enforce_rate_limit: the sliding-window limiter that runs before every   *)
(* endpoint that sends or checks an OTP, and the job that deletes its old  *)
(* rows. One scope is modelled; scopes share nothing.                      *)
(*                                                                         *)
(* A request reads the clock, counts its IP's hits, counts its email's     *)
(* hits, looks for its own IP when the count is in the reserved band, and  *)
(* only then inserts its own hit. Every count is a statement of its own at *)
(* READ COMMITTED, so other requests insert between a count and the insert *)
(* it allowed.                                                             *)
(***************************************************************************)
EXTENDS Integers, FiniteSets

CONSTANTS
    Proc,           \* requests in progress on all workers
    Ip, Email,
    Null,
    MaxHits,        \* bound of the model: hits a run may accept
    Limit,          \* limit, the threshold of the endpoint
    IpLimit,        \* limit * RATE_LIMIT_IP_MULTIPLIER
    ReservedSlots,  \* RATE_LIMIT_EMAIL_RESERVED_SLOTS, or a caller's override
    Window,         \* window_seconds, in ticks
    Retention,      \* the 1 hour of the cleanup job, in ticks
    Latency,        \* a request inserts at most Latency ticks after its now
    MaxClock        \* bound of the model: the clock stops here

\* The cleanup job keeps a hit for longer than a request can still count it:
\* one hour against a window of one minute.
ASSUME ConstantsAssumption ==
    /\ IsFiniteSet(Proc) /\ Proc # {}
    /\ MaxHits \in Nat
    /\ Null \notin Ip \cup Email
    /\ Limit \in Nat \ {0}
    /\ IpLimit \in Nat \ {0}
    /\ ReservedSlots \in Int
    /\ Window \in Nat \ {0}
    /\ Latency \in Nat
    /\ Retention \in Nat /\ Retention + 1 >= Window + Latency
    /\ MaxClock \in Nat

\* Primary keys, numbered here in the order of the inserts.
HitId == 1 .. MaxHits

VARIABLES
    clock,      \* datetime.now(timezone.utc), the same for every worker
    hit,        \* history: every hit ever committed, by primary key
    rows,       \* the keys that are in rate_limit_hits now
    pc, tx      \* where each request stands; its ip, email and now

vars == <<clock, hit, rows, pc, tx>>

Hit == [ip : Ip, email : Email, at : Nat]
Tx == [ip : Ip \cup {Null}, email : Email \cup {Null}, now : Nat]
NoTx == [ip |-> Null, email |-> Null, now |-> 0]
Phase == {"idle", "ip", "email", "band", "insert"}

TypeOK ==
    /\ clock \in Nat
    /\ DOMAIN hit \subseteq HitId /\ hit \in [DOMAIN hit -> Hit]
    /\ rows \subseteq DOMAIN hit
    /\ pc \in [Proc -> Phase]
    /\ tx \in [Proc -> Tx]

Init ==
    /\ clock = 0
    /\ hit = [h \in {} |-> Null]
    /\ rows = {}
    /\ pc = [p \in Proc |-> "idle"]
    /\ tx = [p \in Proc |-> NoTx]

-----------------------------------------------------------------------------
\* max(0, min(resolved_reserved, limit - 1))
Reserved == CASE ReservedSlots < 0 -> 0
              [] ReservedSlots > Limit - 1 -> Limit - 1
              [] OTHER -> ReservedSlots
MainPool == Limit - Reserved

\* The rows of an IP, of an email and of both that request p still counts.
InWindow(p) == {h \in rows : hit[h].at > tx[p].now - Window}
IpHits(p) == {h \in InWindow(p) : hit[h].ip = tx[p].ip}
EmailHits(p) == {h \in InWindow(p) : hit[h].email = tx[p].email}

Goto(p, phase) == pc' = [pc EXCEPT ![p] = phase] /\ UNCHANGED tx
Finish(p) == /\ pc' = [pc EXCEPT ![p] = "idle"]
             /\ tx' = [tx EXCEPT ![p] = NoTx]

Request(p, i, e) ==
    /\ pc[p] = "idle"
    /\ pc' = [pc EXCEPT ![p] = "ip"]
    /\ tx' = [tx EXCEPT ![p] = [ip |-> i, email |-> e, now |-> clock]]
    /\ UNCHANGED <<clock, hit, rows>>

\* Mutant: the comparison of the IP count is strict.
CountIpOffByOne(p) ==
    /\ pc[p] = "ip"
    /\ IF Cardinality(IpHits(p)) > IpLimit THEN Finish(p) ELSE Goto(p, "email")
    /\ UNCHANGED <<clock, hit, rows>>

\* SELECT count(*) by scope and IP; 429 at the limit.
CountIp(p) ==
    /\ pc[p] = "ip"
    /\ IF Cardinality(IpHits(p)) >= IpLimit THEN Finish(p) ELSE Goto(p, "email")
    /\ UNCHANGED <<clock, hit, rows>>

\* Mutant: the comparison of the email count is strict.
Overbooked(n) == n > Limit

\* SELECT count(*) by scope and email: the main and the reserved pool are
\* both exhausted.
Exhausted(n) == n >= Limit

\* Mutant: the main pool is one larger than what the band leaves.
InBandOffByOne(n) == n > MainPool /\ Reserved > 0

\* The count is in the reserved band, which has at least one slot.
InBand(n) == n >= MainPool /\ Reserved > 0

CountEmail(p) ==
    /\ pc[p] = "email"
    /\ LET n == Cardinality(EmailHits(p))
       IN \/ Exhausted(n) /\ Finish(p)
          \/ ~ Exhausted(n) /\ InBand(n) /\ Goto(p, "band")
          \/ ~ Exhausted(n) /\ ~ InBand(n) /\ Goto(p, "insert")
    /\ UNCHANGED <<clock, hit, rows>>

\* SELECT EXISTS by scope, email and IP: a repeated IP is refused, a new one
\* takes a reserved slot.
CheckBand(p) ==
    /\ pc[p] = "band"
    /\ IF IpHits(p) \cap EmailHits(p) # {} THEN Finish(p) ELSE Goto(p, "insert")
    /\ UNCHANGED <<clock, hit, rows>>

\* Mutant: created_at is the start of the window.
HitAtWindowStart(t) == [ip |-> t.ip, email |-> t.email, at |-> t.now - Window]

\* created_at is the now of the request, not the time of the insert.
NewHit(t) == [ip |-> t.ip, email |-> t.email, at |-> t.now]

\* INSERT and commit; the endpoint goes on.
Insert(p, h) ==
    /\ pc[p] = "insert"
    /\ h \notin DOMAIN hit /\ 1 .. h - 1 \subseteq DOMAIN hit
    /\ hit' = [k \in DOMAIN hit \cup {h} |-> IF k = h THEN NewHit(tx[p]) ELSE hit[k]]
    /\ rows' = rows \cup {h}
    /\ Finish(p)
    /\ UNCHANGED clock

\* An exception, a lost connection or a killed worker: rollback.
Crash(p) ==
    /\ pc[p] # "idle"
    /\ Finish(p)
    /\ UNCHANGED <<clock, hit, rows>>

\* DELETE FROM rate_limit_hits WHERE created_at < now() - interval '1 hour'
Cleanup ==
    /\ \E h \in rows : hit[h].at < clock - Retention
    /\ rows' = {h \in rows : hit[h].at >= clock - Retention}
    /\ UNCHANGED <<clock, hit, pc, tx>>

Tick ==
    /\ clock < MaxClock
    /\ \A p \in Proc : pc[p] # "idle" => clock < tx[p].now + Latency
    /\ clock' = clock + 1
    /\ UNCHANGED <<hit, rows, pc, tx>>

Step(p) ==
    \/ \E i \in Ip, e \in Email : Request(p, i, e)
    \/ CountIp(p)
    \/ CountEmail(p)
    \/ CheckBand(p)
    \/ \E h \in HitId : Insert(p, h)
    \/ Crash(p)

Next == (\E p \in Proc : Step(p)) \/ Cleanup \/ Tick

Spec == Init /\ [][Next]_vars

-----------------------------------------------------------------------------
(* Every window is the half-open interval of Window ticks after some time. *)

Within(s, t) == s < t /\ t <= s + Window

EmailLoad(s, e) == {h \in DOMAIN hit : hit[h].email = e /\ Within(s, hit[h].at)}
IpLoad(s, i) == {h \in DOMAIN hit : hit[h].ip = i /\ Within(s, hit[h].at)}
PairLoad(s, i, e) == IpLoad(s, i) \cap EmailLoad(s, e)

\* The most a limit can be overshot: the other requests that had passed the
\* same count and not inserted yet.
Slack == Cardinality(Proc) - 1

\* In no window are more requests let through for an email than the limit
\* plus the requests that run beside them; sequential requests never exceed
\* it. The cleanup job does not change that (the email count of
\* enforce_rate_limit, _cleanup_rate_limit_hits).
EmailBounded ==
    \A s \in -Window .. MaxClock, e \in Email :
      Cardinality(EmailLoad(s, e)) <= Limit + Slack

\* The same for the requests of one IP, whatever emails they name.
IpBounded ==
    \A s \in -Window .. MaxClock, i \in Ip :
      Cardinality(IpLoad(s, i)) <= IpLimit + Slack

\* One IP takes at most the main pool of an email, again up to the requests
\* that run beside each other: the reserved slots are left to other IPs.
ReserveKept ==
    \A s \in -Window .. MaxClock, i \in Ip, e \in Email :
      Cardinality(PairLoad(s, i, e)) <= MainPool + Slack

-----------------------------------------------------------------------------
(* The inductive invariant: what is inserted and what may still be         *)
(* inserted without another count, together.                               *)

\* A request that started has its ip and email, and read the clock lately.
RequestOK ==
    \A p \in Proc : pc[p] # "idle" =>
      /\ tx[p].ip \in Ip /\ tx[p].email \in Email
      /\ tx[p].now <= clock /\ clock <= tx[p].now + Latency

\* Every hit that a request may still count is in the table.
Retained == \A h \in DOMAIN hit : hit[h].at >= clock - Retention => h \in rows

\* Requests that have passed a count and may insert into the window after s.
PassedIp(s, i) == {p \in Proc : /\ pc[p] \in {"email", "band", "insert"}
                                /\ tx[p].ip = i /\ Within(s, tx[p].now)}
PassedEmail(s, e) == {p \in Proc : /\ pc[p] \in {"band", "insert"}
                                   /\ tx[p].email = e /\ Within(s, tx[p].now)}
PassedPair(s, i, e) == {p \in Proc : /\ pc[p] = "insert"
                                     /\ tx[p].ip = i /\ tx[p].email = e
                                     /\ Within(s, tx[p].now)}

EmailInv == \A s \in Int, e \in Email :
  Cardinality(EmailLoad(s, e)) + Cardinality(PassedEmail(s, e)) <= Limit + Slack
IpInv == \A s \in Int, i \in Ip :
  Cardinality(IpLoad(s, i)) + Cardinality(PassedIp(s, i)) <= IpLimit + Slack
PairInv == \A s \in Int, i \in Ip, e \in Email :
  Cardinality(PairLoad(s, i, e)) + Cardinality(PassedPair(s, i, e))
    <= MainPool + Slack
=============================================================================
