--------------------------- MODULE ServingProofs ---------------------------
(***************************************************************************)
(* Theorems about Serving, for any environments, arrivals, addresses,      *)
(* limit and number of proxies.                                            *)
(***************************************************************************)
EXTENDS Serving, FiniteSetTheorems, TLAPS

(* client_ip selects what a proxy, or the socket, observed, whatever hops   *)
(* the client typed in front.                                              *)
LEMMA ClientIpIsSeen ==
    ASSUME NEW trusted \in Int, NEW typed \in Seq(Hop),
           NEW observed \in Seq(Address), NEW peer \in Address \cup {NoPeer},
           trusted <= Len(observed)
    PROVE  ClientIp(trusted, Forwarded(typed, observed), peer)
               = Seen(trusted, observed, peer)
<1> DEFINE header == typed \o observed
<1>1. CASE trusted > 0
  <2>1. /\ Len(header) = Len(typed) + Len(observed)
        /\ Len(typed) \in Nat /\ Len(observed) \in Nat
    OBVIOUS
  <2>2. Len(header) - trusted + 1 \in Len(typed) + 1 .. Len(header)
    BY <1>1, <2>1
  <2>3. header[Len(header) - trusted + 1] = observed[Len(observed) - trusted + 1]
    BY <2>1, <2>2
  <2>4. QED
    BY <1>1, <2>1, <2>3 DEF ClientIp, Forwarded, Seen
<1>2. CASE ~(trusted > 0)
  BY <1>2 DEF ClientIp, Seen, NoPeer
<1>3. QED
  BY <1>1, <1>2

-----------------------------------------------------------------------------
(* The invariant: a request in progress is one that arrived at a process   *)
(* whose settings were accepted, behind the route it goes to an endpoint    *)
(* with a limit, and only the limiter, the last layer in front of that     *)
(* endpoint, counts it.                                                    *)
InProgress ==
    /\ server = "up" => Accepted(settings)
    /\ request.at # 0 => server = "up" /\ request.arrival \in Arrival
    /\ request.at >= 5 => request.arrival.path \in Limited
    /\ request.at = 0 => request = Idle

CountedLast == request.counted => request.at = 7

IInv == TypeOK /\ InProgress /\ CountedLast /\ KeyIsObserved

LEMMA LayerFacts ==
    /\ Len(Layers) = 7
    /\ Layers[1] = "security_headers" /\ Layers[2] = "trusted_host"
    /\ Layers[3] = "cors" /\ Layers[4] = "route" /\ Layers[5] = "dependencies"
    /\ Layers[6] = "limiter" /\ Layers[7] = "endpoint"
BY DEF Layers

(* Which layer a request reaches is its number.                            *)
LEMMA ReachesAt ==
    /\ Reaches("security_headers") => request.at = 1
    /\ Reaches("trusted_host") => request.at = 2
    /\ Reaches("cors") => request.at = 3
    /\ Reaches("route") => request.at = 4
    /\ Reaches("dependencies") => request.at = 5
    /\ Reaches("limiter") => request.at = 6
    /\ Reaches("endpoint") => request.at = 7
<1>1. ASSUME NEW layer, Reaches(layer)
      PROVE  \/ request.at = 1 /\ layer = "security_headers"
             \/ request.at = 2 /\ layer = "trusted_host"
             \/ request.at = 3 /\ layer = "cors"
             \/ request.at = 4 /\ layer = "route"
             \/ request.at = 5 /\ layer = "dependencies"
             \/ request.at = 6 /\ layer = "limiter"
             \/ request.at = 7 /\ layer = "endpoint"
  BY <1>1, LayerFacts DEF Reaches
<1>2. QED
  BY <1>1

(* The three ways a layer treats a request keep its type.                  *)
LEMMA OnwardTyped ==
    ASSUME TypeOK, request.at \in 1 .. 6, Onward
    PROVE  /\ request'.at = request.at + 1
           /\ request'.arrival = request.arrival /\ request'.answer = request.answer
           /\ request'.counted = request.counted
           /\ request' \in [at : 0 .. Len(Layers), arrival : Arrival \cup {NoArrival},
                            answer : AnswerType, counted : BOOLEAN]
BY LayerFacts DEF TypeOK, Onward

LEMMA AnswerSet ==
    ASSUME TypeOK, NEW answer \in AnswerType,
           request' = [request EXCEPT !.answer = answer]
    PROVE  /\ request'.at = request.at /\ request'.answer = answer
           /\ request'.arrival = request.arrival
           /\ request'.counted = request.counted
           /\ request' \in [at : 0 .. Len(Layers), arrival : Arrival \cup {NoArrival},
                            answer : AnswerType, counted : BOOLEAN]
BY DEF TypeOK

LEMMA AnswerTyped ==
    ASSUME TypeOK, NEW status \in {200, 400, 404, 429}, Answer(status)
    PROVE  /\ request'.at = request.at /\ request'.answer.status = status
           /\ request'.arrival = request.arrival
           /\ request'.counted = request.counted
           /\ request' \in [at : 0 .. Len(Layers), arrival : Arrival \cup {NoArrival},
                            answer : AnswerType, counted : BOOLEAN]
<1> DEFINE readable == /\ Inside("cors") \/ Reaches("cors")
                       /\ OriginAllowed(settings, request.arrival.origin)
<1> DEFINE policy == IF Inside("security_headers")
                     THEN Policy(request.arrival.path) ELSE "none"
<1> DEFINE answer == [status |-> status, policy |-> policy, readable |-> readable]
<1>1. readable \in BOOLEAN /\ policy \in {"none", "api", "docs"}
  BY DEF Policy
<1>2. request' = [request EXCEPT !.answer = answer]
  BY DEF Answer
<1> HIDE DEF readable, policy
<1>3. answer \in AnswerType /\ answer.status = status
  BY <1>1 DEF AnswerType
<1> HIDE DEF answer
<1>4. QED
  BY <1>2, <1>3, AnswerSet

LEMMA CrashTyped ==
    ASSUME TypeOK, Crash
    PROVE  /\ request'.at = request.at /\ request'.answer.status = 500
           /\ request'.arrival = request.arrival
           /\ request'.counted = request.counted
           /\ request' \in [at : 0 .. Len(Layers), arrival : Arrival \cup {NoArrival},
                            answer : AnswerType, counted : BOOLEAN]
<1> DEFINE answer == [status |-> 500, policy |-> "none", readable |-> FALSE]
<1>1. answer \in AnswerType /\ answer.status = 500
  BY DEF AnswerType
<1>2. request' = [request EXCEPT !.answer = answer]
  BY DEF Crash
<1> HIDE DEF answer
<1>3. QED
  BY <1>1, <1>2, AnswerSet

LEMMA CountedKeepsAnswer ==
    ASSUME TypeOK, request' = [request EXCEPT !.at = @ + 1, !.counted = TRUE]
    PROVE  /\ request' = [at |-> request.at + 1, arrival |-> request.arrival,
                          answer |-> request.answer, counted |-> TRUE]
           /\ request'.answer = request.answer
<1>1. request = [at |-> request.at, arrival |-> request.arrival,
                 answer |-> request.answer, counted |-> request.counted]
  BY DEF TypeOK
<1>2. QED
  BY <1>1

LEMMA IdleTyped ==
    Idle \in [at : 0 .. Len(Layers), arrival : Arrival \cup {NoArrival},
              answer : AnswerType, counted : BOOLEAN]
BY LayerFacts DEF Idle, NoAnswer, AnswerType


(* An endpoint answers with one of the statuses that are not the limiter's. *)
LEMMA OutcomesKnown == \A path : Outcomes(path) \subseteq {200, 400, 404}
BY DEF Outcomes

-----------------------------------------------------------------------------
LEMMA InitIInv == Init => IInv
BY IdleTyped DEF Init, IInv, TypeOK, InProgress, CountedLast, KeyIsObserved, Idle, NoAnswer

(* A layer that passes the request on, answers it or breaks, and leaves the *)
(* table of hits alone.                                                    *)
LEMMA LayerStep ==
    ASSUME IInv, request.at \in 1 .. 7, request.answer.status = 0,
           \/ /\ request.at # 6 /\ request.at # 7 /\ Onward
              /\ request.at = 4 => request.arrival.path \in Limited
           \/ \E status \in {200, 400, 404, 429} : Answer(status)
           \/ Crash,
           UNCHANGED <<server, settings, hits>>, shown' \subseteq {"docs", "code"}
    PROVE  IInv'
<1>1. TypeOK /\ InProgress /\ CountedLast /\ KeyIsObserved
  BY DEF IInv
<1>2. /\ request' \in [at : 0 .. Len(Layers), arrival : Arrival \cup {NoArrival},
                        answer : AnswerType, counted : BOOLEAN]
      /\ request'.arrival = request.arrival /\ request'.counted = request.counted
      /\ \/ /\ request.at # 6 /\ request.at # 7 /\ request'.at = request.at + 1
            /\ request.at = 4 => request.arrival.path \in Limited
         \/ request'.at = request.at
  BY <1>1, OnwardTyped, AnswerTyped, CrashTyped
<1>3. request'.at # 0 /\ request.at # 0
  BY <1>2
<1>4. TypeOK' /\ InProgress' /\ KeyIsObserved'
  BY <1>1, <1>2, <1>3 DEF TypeOK, InProgress, KeyIsObserved
<1>5. CountedLast'
  BY <1>1, <1>2 DEF CountedLast
<1>6. QED
  BY <1>4, <1>5 DEF IInv

(* The row the limiter appends is one of the table, under an observed key.  *)
LEMMA RowTyped ==
    ASSUME TypeOK, InProgress, request.at = 6, Key \in Address
    PROVE  /\ Row \in [scope : Limited, ip : Address, email : Email, seen : Address]
           /\ Row.ip = Row.seen
<1>1. /\ request.arrival \in Arrival /\ settings \in Environment
      /\ request.arrival.path \in Limited
  BY DEF TypeOK, InProgress
<1>2. /\ request.arrival.email \in Email
      /\ request.arrival.typed \in Seq(Hop) /\ request.arrival.observed \in Seq(Address)
      /\ request.arrival.peer \in Address \cup {NoPeer}
      /\ settings.TRUSTED_PROXY_COUNT \in Int
  BY <1>1, ArrivalAssumption, EnvironmentAssumption
<1>3. CASE Passed(settings, request.arrival)
  <2>1. Key = Seen(settings.TRUSTED_PROXY_COUNT, request.arrival.observed,
                   request.arrival.peer)
    BY <1>2, <1>3, ClientIpIsSeen DEF Passed, Key
  <2>2. QED
    BY <1>1, <1>2, <1>3, <2>1 DEF Row
<1>4. CASE ~Passed(settings, request.arrival)
  BY <1>1, <1>2, <1>4 DEF Row
<1>5. QED
  BY <1>3, <1>4

LEMMA EnforceStep == IInv /\ EnforceRateLimit => IInv'
<1> SUFFICES ASSUME IInv, EnforceRateLimit PROVE IInv'
  OBVIOUS
<1>1. TypeOK /\ InProgress /\ CountedLast /\ KeyIsObserved
  BY DEF IInv
<1>2. request.at = 6 /\ request.answer.status = 0
  BY ReachesAt DEF EnforceRateLimit, Reaches
<1>3. CASE hits' = hits
  <2>1. CASE Crash \/ Answer(429)
    <3>1. UNCHANGED <<server, settings, hits>> /\ shown' \subseteq {"docs", "code"}
      BY <1>1, <1>3 DEF EnforceRateLimit, TypeOK
    <3>2. QED
      BY <1>2, <2>1, <3>1, LayerStep
  <2>2. CASE hits' = Append(hits, Row)
    <3>1. Len(hits') = Len(hits) + 1 /\ Len(hits) \in Nat
      BY <1>1, <2>2 DEF TypeOK
    <3>2. QED
      BY <1>3, <3>1
  <2>3. QED
    BY <2>1, <2>2 DEF EnforceRateLimit
<1>4. CASE hits' # hits
  <2>1. /\ Key \in Address
        /\ hits' = Append(hits, Row)
        /\ request' = [request EXCEPT !.at = @ + 1, !.counted = TRUE]
        /\ UNCHANGED <<server, settings, shown>>
    BY <1>4 DEF EnforceRateLimit
  <2>2. Row \in [scope : Limited, ip : Address, email : Email, seen : Address] /\ Row.ip = Row.seen
    BY <1>1, <1>2, <2>1, RowTyped
  <2>3. /\ request'.at = 7 /\ request'.arrival = request.arrival
        /\ request'.answer = request.answer
        /\ request' \in [at : 0 .. Len(Layers), arrival : Arrival \cup {NoArrival},
                          answer : AnswerType, counted : BOOLEAN]
    <3>1. request' = [at |-> 7, arrival |-> request.arrival, answer |-> request.answer,
                      counted |-> TRUE]
      BY <1>1, <1>2, <2>1, CountedKeepsAnswer
    <3>2. request.arrival \in Arrival \cup {NoArrival} /\ request.answer \in AnswerType
      BY <1>1 DEF TypeOK
    <3>3. QED
      BY <3>1, <3>2, LayerFacts
  <2>4. hits' \in Seq([scope : Limited, ip : Address, email : Email, seen : Address])
    BY <1>1, <2>1, <2>2 DEF TypeOK
  <2>5. TypeOK'
    BY <1>1, <2>1, <2>3, <2>4 DEF TypeOK
  <2>6. InProgress' /\ CountedLast'
    BY <1>1, <1>2, <2>1, <2>3 DEF InProgress, CountedLast
  <2>7. KeyIsObserved'
    <3>1. hits \in Seq([scope : Limited, ip : Address, email : Email, seen : Address])
      BY <1>1 DEF TypeOK
    <3>2. ASSUME NEW i \in DOMAIN hits' PROVE hits'[i].ip = hits'[i].seen
      <4>1. CASE i \in DOMAIN hits
        BY <1>1, <2>1, <3>1, <4>1 DEF KeyIsObserved
      <4>2. CASE i = Len(hits) + 1
        BY <2>1, <2>2, <3>1, <4>2
      <4>3. QED
        BY <2>1, <3>1, <4>1, <4>2
    <3>3. QED
      BY <3>2 DEF KeyIsObserved
  <2>8. QED
    BY <2>5, <2>6, <2>7 DEF IInv
<1>5. QED
  BY <1>3, <1>4

LEMMA StepIInv == IInv /\ [Next]_vars => IInv'
<1> SUFFICES ASSUME IInv, [Next]_vars PROVE IInv'
  OBVIOUS
<1>1. TypeOK /\ InProgress /\ CountedLast /\ KeyIsObserved
  BY DEF IInv
<1>0. shown \subseteq {"docs", "code"}
  BY <1>1 DEF TypeOK
<1>2. ASSUME NEW s \in Environment, Boot(s) PROVE IInv'
  <2>1. request' = request /\ hits' = hits /\ shown' = {} /\ settings' = s
        /\ server' = (IF Accepted(s) THEN "up" ELSE "refused") /\ server # "up"
    BY <1>2 DEF Boot
  <2>2. request.at = 0
    BY <1>1, <2>1 DEF InProgress
  <2>3. TypeOK' /\ CountedLast' /\ KeyIsObserved'
    BY <1>1, <2>1 DEF TypeOK, CountedLast, KeyIsObserved
  <2>4. InProgress'
    BY <1>1, <2>1, <2>2 DEF InProgress, Accepted, ValidEnvironment, ValidSecretKey,
       ValidSslMode, ValidAlgorithm, ValidMultiplier, ValidReservedSlots,
       MailsInProduction, HostsParse, OriginsParse, SslConnectArg, LoggingConfigures
  <2>5. QED
    BY <2>3, <2>4 DEF IInv
<1>3. ASSUME Stop PROVE IInv'
  BY <1>1, <1>3, IdleTyped
     DEF Stop, IInv, TypeOK, InProgress, CountedLast, KeyIsObserved, Idle, NoAnswer
<1>4. ASSUME NEW a \in Arrival, Arrive(a) PROVE IInv'
  <2>1. request' = [Idle EXCEPT !.at = 1, !.arrival = a] /\ server = "up"
        /\ UNCHANGED <<server, settings, hits, shown>>
    BY <1>4 DEF Arrive
  <2>2. /\ request'.at = 1 /\ request'.arrival = a /\ request'.counted = FALSE
        /\ request' \in [at : 0 .. Len(Layers), arrival : Arrival \cup {NoArrival},
                          answer : AnswerType, counted : BOOLEAN]
    <3>1. request' = [at |-> 1, arrival |-> a, answer |-> NoAnswer, counted |-> FALSE]
      BY <2>1 DEF Idle
    <3>2. NoAnswer \in AnswerType
      BY DEF NoAnswer, AnswerType
    <3>3. QED
      BY <3>1, <3>2, LayerFacts
  <2>3. TypeOK' /\ InProgress' /\ CountedLast' /\ KeyIsObserved'
    BY <1>1, <2>1, <2>2 DEF TypeOK, InProgress, CountedLast, KeyIsObserved
  <2>4. QED
    BY <2>3 DEF IInv
<1>5. ASSUME SecurityHeaders \/ TrustedHost \/ Cors PROVE IInv'
  <2>1. /\ request.at \in 1 .. 3 /\ request.answer.status = 0
        /\ Onward \/ \E status \in {200, 400, 404, 429} : Answer(status)
        /\ UNCHANGED <<server, settings, hits, shown>>
    BY <1>5, ReachesAt DEF SecurityHeaders, TrustedHost, Cors, Reaches
  <2>2. shown' \subseteq {"docs", "code"}
    BY <1>0, <2>1
  <2>3. QED
    BY <2>1, <2>2, LayerStep
<1>6. ASSUME Route PROVE IInv'
  <2>1. /\ request.at = 4 /\ request.answer.status = 0
        /\ \/ Onward /\ request.arrival.path \in Limited
           \/ \E status \in {200, 400, 404, 429} : Answer(status)
        /\ UNCHANGED <<server, settings, hits>>
    BY <1>6, ReachesAt, OutcomesKnown DEF Route, Reaches
  <2>2. shown' \subseteq {"docs", "code"}
    BY <1>0, <1>6 DEF Route
  <2>3. QED
    BY <2>1, <2>2, LayerStep
<1>7. ASSUME Dependencies PROVE IInv'
  <2>1. /\ request.at = 5 /\ request.answer.status = 0
        /\ Onward \/ Crash
        /\ UNCHANGED <<server, settings, hits>> /\ shown' = shown
    BY <1>7, ReachesAt DEF Dependencies, Reaches
  <2>2. shown' \subseteq {"docs", "code"}
    BY <1>0, <2>1
  <2>3. QED
    BY <2>1, <2>2, LayerStep
<1>8. ASSUME EnforceRateLimit PROVE IInv'
  BY <1>8, EnforceStep
<1>9. ASSUME Endpoint PROVE IInv'
  <2>1. /\ request.at = 7 /\ request.answer.status = 0
        /\ Crash \/ \E status \in {200, 400, 404, 429} : Answer(status)
        /\ shown' = shown \/ shown' = shown \cup {"code"}
        /\ UNCHANGED <<server, settings, hits>>
    BY <1>9, ReachesAt, OutcomesKnown DEF Endpoint, Reaches
  <2>2. shown' \subseteq {"docs", "code"}
    <3>1. shown' = shown \/ shown' = shown \cup {"code"}
      BY <2>1
    <3>2. QED
      BY <1>0, <3>1
  <2>3. QED
    BY <2>1, <2>2, LayerStep
<1>10. ASSUME Reply PROVE IInv'
  BY <1>1, <1>10, IdleTyped
     DEF Reply, IInv, TypeOK, InProgress, CountedLast, KeyIsObserved, Idle, NoAnswer
<1>11. ASSUME Expire PROVE IInv'
  <2>1. hits \in Seq([scope : Limited, ip : Address, email : Email, seen : Address]) /\ hits # <<>>
        /\ hits' = Tail(hits) /\ UNCHANGED <<server, settings, request, shown>>
    BY <1>1, <1>11 DEF Expire, TypeOK
  <2>2. hits' \in Seq([scope : Limited, ip : Address, email : Email, seen : Address])
    BY <2>1
  <2>3. ASSUME NEW i \in DOMAIN hits' PROVE hits'[i].ip = hits'[i].seen
    <3>1. i + 1 \in DOMAIN hits /\ hits'[i] = hits[i + 1]
      BY <2>1, <2>3
    <3>2. QED
      BY <1>1, <3>1 DEF KeyIsObserved
  <2>4. TypeOK' /\ InProgress' /\ CountedLast'
    BY <1>1, <2>1, <2>2 DEF TypeOK, InProgress, CountedLast
  <2>5. QED
    BY <2>3, <2>4 DEF IInv, KeyIsObserved
<1>12. ASSUME UNCHANGED vars PROVE IInv'
  BY <1>1, <1>12 DEF vars, IInv, TypeOK, InProgress, CountedLast, KeyIsObserved
<1>13. QED
  BY <1>2, <1>3, <1>4, <1>5, <1>6, <1>7, <1>8, <1>9, <1>10, <1>11, <1>12 DEF Next

LEMMA AlwaysIInv == Spec => []IInv
<1>1. QED
  BY InitIInv, StepIInv, PTL DEF Spec

-----------------------------------------------------------------------------
(* The variables of the serving process keep their types: only addresses   *)
(* ever reach the INET column (enforce_rate_limit, client_ip).             *)
THEOREM TypeCorrect == Spec => []TypeOK
<1>1. IInv => TypeOK
  BY DEF IInv
<1>2. QED
  BY <1>1, AlwaysIInv, PTL

(* Whatever is typed into X-Forwarded-For, hits are counted under observed *)
(* addresses, for any number of proxies and any settings (client_ip).      *)
THEOREM KeyObserved == Spec => []KeyIsObserved
<1>1. IInv => KeyIsObserved
  BY DEF IInv
<1>2. QED
  BY <1>1, AlwaysIInv, PTL

(* No settings the validators accept make an endpoint refuse a client of   *)
(* whose address and email it has counted nothing: a zero multiplier and a  *)
(* reserve as large as the limit are impossible (enforce_rate_limit).      *)
THEOREM UnseenServed == Spec => UnseenIsServed
<1> DEFINE A == request.answer.status # 429 /\ request'.answer.status = 429
                => RowsOf(Key) \cup RowsFor(request.arrival.email) # {}
<1>1. IInv /\ [Next]_vars => A
  <2> SUFFICES ASSUME IInv, [Next]_vars, request.answer.status # 429,
                      request'.answer.status = 429,
                      RowsOf(Key) \cup RowsFor(request.arrival.email) = {}
               PROVE  FALSE
    OBVIOUS
  <2>1. TypeOK /\ InProgress
    BY DEF IInv
  <2>2. EnforceRateLimit /\ Answer(429)
    <3>1. \A status \in {200, 400, 404} : ~Answer(status)
      BY <2>1, AnswerTyped
    <3>2. ~Crash /\ request' # Idle /\ request' # request
      <4>1. Idle.answer.status = 0
        BY DEF Idle, NoAnswer
      <4>2. QED
        BY <2>1, <4>1, CrashTyped
    <3>3. \A a \in Arrival : ~Arrive(a)
      <4>1. ASSUME NEW a \in Arrival, Arrive(a) PROVE request'.answer = Idle.answer
        BY <4>1 DEF Arrive, Idle
      <4>2. QED
        BY <4>1 DEF Idle, NoAnswer
    <3>4. ~(request.at \in 1 .. 6 /\ Onward)
      BY <2>1, OnwardTyped
    <3>5. request' # [request EXCEPT !.at = @ + 1, !.counted = TRUE]
      BY <2>1, CountedKeepsAnswer
    <3>6. ~SecurityHeaders /\ ~TrustedHost /\ ~Cors /\ ~Route /\ ~Dependencies
      BY <3>1, <3>2, <3>4, ReachesAt, OutcomesKnown
         DEF SecurityHeaders, TrustedHost, Cors, Route, Dependencies
    <3>7. ~Endpoint /\ ~Reply /\ ~Expire /\ ~Stop /\ ~(UNCHANGED vars)
          /\ \A s \in Environment : ~Boot(s)
      BY <3>1, <3>2, OutcomesKnown DEF Endpoint, Reply, Expire, Stop, Boot, vars
    <3>8. EnforceRateLimit
      BY <3>3, <3>6, <3>7 DEF Next
    <3>9. QED
      BY <3>2, <3>5, <3>8 DEF EnforceRateLimit
  <2>3. Refuses(settings, Key, request.arrival.email)
    <3>1. ~Crash
      BY <2>1, CrashTyped
    <3>2. request' # [request EXCEPT !.at = @ + 1, !.counted = TRUE]
      BY <2>1, CountedKeepsAnswer
    <3>3. QED
      BY <2>2, <3>1, <3>2 DEF EnforceRateLimit
  <2>4. RowsOf(Key) = {} /\ RowsFor(request.arrival.email) = {}
    OBVIOUS
  <2>5. Cardinality(RowsOf(Key)) = 0 /\ Cardinality(RowsFor(request.arrival.email)) = 0
    BY <2>4, FS_EmptySet
  <2>6. settings.RATE_LIMIT_IP_MULTIPLIER \in Nat /\ settings.RATE_LIMIT_IP_MULTIPLIER >= 1
    <3>1. request.at # 0
      BY <2>2, ReachesAt DEF EnforceRateLimit
    <3>2. ValidMultiplier(settings) /\ settings \in Environment
      BY <2>1, <3>1 DEF InProgress, Accepted, TypeOK
    <3>3. QED
      BY <3>2, EnvironmentAssumption DEF ValidMultiplier
  <2>7. IpLimit(settings) > 0
    BY <2>6, LimitAssumption DEF IpLimit
  <2>8. IpLimit(settings) \in Int
    BY <2>6, LimitAssumption DEF IpLimit
  <2>9. QED
    BY <2>3, <2>4, <2>5, <2>7, <2>8, LimitAssumption DEF Refuses
<1>2. QED
  BY <1>1, AlwaysIInv, PTL DEF Spec, UnseenIsServed
-----------------------------------------------------------------------------
(* What a request has passed. Behind the host check the host is allowed,   *)
(* behind CORS there is no preflight, behind the dependencies an endpoint  *)
(* that mails has its sender, behind the limiter the request has a key the *)
(* column takes, and the layers it is inside of have seen its answer.      *)
HostPassed == request.at >= 3 => HostAllowed(settings, request.arrival.host)
CorsPassed == request.at >= 4 => ~request.arrival.preflight
SenderPassed ==
    request.at >= 6 /\ request.arrival.path \in Mails
    => settings.EMAIL_PROVIDER = "console"
KeyPassed == request.at >= 7 => Key \in Address
LayersSawAnswer ==
    Answered /\ request.answer.status # 500
    => /\ request.answer.policy = Policy(request.arrival.path)
       /\ HostAllowed(settings, request.arrival.host)
          => request.answer.readable = OriginAllowed(settings, request.arrival.origin)

GatesPassed == HostPassed /\ CorsPassed /\ SenderPassed /\ KeyPassed

Passage == GatesPassed /\ LayersSawAnswer

(* A configured URL allows its origin, in any spelling but one with a path: *)
(* the slash that parsing adds is the only thing stripped (main.py).       *)
LEMMA OriginSpelt ==
    ASSUME NEW s, NEW origin
    PROVE  OriginAllowed(s, origin) <=>
           \E url \in s.BACKEND_CORS_ORIGINS.urls :
               url.site = origin /\ url.spelling # "with a path"
<1>1. ASSUME NEW url
      PROVE  Stripped(Normalised(url)) =
             <<url.site, IF url.spelling = "with a path" THEN "/path" ELSE "">>
  BY DEF Stripped, Normalised
<1>2. ASSUME NEW url
      PROVE  <<origin, "">> = Stripped(Normalised(url))
             <=> url.site = origin /\ url.spelling # "with a path"
  <2>1. CASE url.spelling = "with a path"
    <3>1. Stripped(Normalised(url)) = <<url.site, "/path">>
      BY <1>1, <2>1
    <3>2. <<origin, "">> # <<url.site, "/path">>
      OBVIOUS
    <3>3. QED
      BY <2>1, <3>1, <3>2
  <2>2. CASE url.spelling # "with a path"
    <3>1. Stripped(Normalised(url)) = <<url.site, "">>
      BY <1>1, <2>2
    <3>2. <<origin, "">> = <<url.site, "">> <=> origin = url.site
      OBVIOUS
    <3>3. QED
      BY <2>2, <3>1, <3>2
  <2>3. QED
    BY <2>1, <2>2
<1>3. QED
  BY <1>2 DEF OriginAllowed, AllowOrigins

(* Which layers a request is inside of is told by its number.              *)
LEMMA InsideAt ==
    ASSUME request.at \in 1 .. 7
    PROVE  /\ Inside("security_headers") <=> request.at > 1
           /\ Inside("cors") <=> request.at > 3
<1>1. \A i \in 1 .. 7 : /\ Layers[i] = "security_headers" <=> i = 1
                        /\ Layers[i] = "cors" <=> i = 3
  <2>1. \A i \in 1 .. 7 : i = 1 \/ i = 2 \/ i = 3 \/ i = 4 \/ i = 5 \/ i = 6 \/ i = 7
    OBVIOUS
  <2>2. QED
    BY <2>1, LayerFacts
<1>2. QED
  BY <1>1, LayerFacts DEF Inside

(* What an answer carries, by the layer it starts from.                    *)
LEMMA AnswerCarries ==
    ASSUME TypeOK, request.at \in 1 .. 7, request.answer.status = 0,
           NEW status \in {200, 400, 404, 429}, Answer(status)
    PROVE  /\ request'.at = request.at /\ request'.arrival = request.arrival
           /\ request'.answer.status = status
           /\ request.at > 1 => request'.answer.policy = Policy(request.arrival.path)
           /\ request.at > 2 => request'.answer.readable =
                                OriginAllowed(settings, request.arrival.origin)
<1> DEFINE allowed == OriginAllowed(settings, request.arrival.origin)
           readable == (Inside("cors") \/ Reaches("cors")) /\ allowed
           policy == IF Inside("security_headers")
                     THEN Policy(request.arrival.path) ELSE "none"
           answer == [status |-> status, policy |-> policy, readable |-> readable]
<1>1. readable \in BOOLEAN /\ policy \in {"none", "api", "docs"} /\ allowed \in BOOLEAN
  BY DEF Policy, OriginAllowed
<1>2. request.at > 2 => readable = allowed
  <2>1. request.at = 3 => Reaches("cors")
    BY LayerFacts DEF Reaches
  <2>2. request.at > 2 => Inside("cors") \/ Reaches("cors")
    BY <2>1, InsideAt
  <2> HIDE DEF allowed
  <2>3. QED
    BY <1>1, <2>2
<1>3. request.at > 1 => policy = Policy(request.arrival.path)
  BY InsideAt
<1>4. request' = [request EXCEPT !.answer = answer]
  BY DEF Answer
<1> HIDE DEF allowed, readable, policy
<1>5. /\ answer \in AnswerType /\ answer.status = status
      /\ answer.policy = policy /\ answer.readable = readable
  BY <1>1 DEF AnswerType
<1> HIDE DEF answer
<1>6. request'.at = request.at /\ request'.answer = answer /\ request'.arrival = request.arrival
  BY <1>4, <1>5, AnswerSet
<1>7. QED
  BY <1>2, <1>3, <1>5, <1>6 DEF allowed

(* A layer keeps it when it lets through only what it checked.             *)
LEMMA PassageStep ==
    ASSUME TypeOK, Passage, request.at \in 1 .. 7, request.answer.status = 0,
           UNCHANGED settings,
           \/ /\ request.at # 6 /\ request.at # 7 /\ Onward
              /\ request.at = 2 => HostAllowed(settings, request.arrival.host)
              /\ request.at = 3 => ~request.arrival.preflight
              /\ request.at = 5 /\ request.arrival.path \in Mails
                 => settings.EMAIL_PROVIDER = "console"
           \/ /\ \E status \in {200, 400, 404, 429} : Answer(status)
              /\ request.at # 1
              /\ request.at = 2 => ~HostAllowed(settings, request.arrival.host)
           \/ Crash
    PROVE  Passage'
<1>1. HostPassed /\ CorsPassed /\ SenderPassed /\ KeyPassed
  BY DEF Passage, GatesPassed
<1>0. ASSUME request'.at = request.at, request'.arrival = request.arrival
      PROVE  GatesPassed'
  BY <1>0, <1>1 DEF GatesPassed, HostPassed, CorsPassed, SenderPassed, KeyPassed, Key
<1>2. ASSUME request.at # 6, request.at # 7, Onward,
             request.at = 2 => HostAllowed(settings, request.arrival.host),
             request.at = 3 => ~request.arrival.preflight,
             request.at = 5 /\ request.arrival.path \in Mails
                => settings.EMAIL_PROVIDER = "console"
      PROVE  Passage'
  <2>1. /\ request'.at = request.at + 1 /\ request'.arrival = request.arrival
        /\ request'.answer.status = 0
    BY <1>2, OnwardTyped
  <2>2. request'.at # 7
    BY <1>2, <2>1
  <2>3. GatesPassed'
    BY <1>1, <1>2, <2>1, <2>2
       DEF GatesPassed, HostPassed, CorsPassed, SenderPassed, KeyPassed
  <2>4. QED
    BY <2>1, <2>3 DEF Passage, LayersSawAnswer, Answered
<1>3. ASSUME NEW status \in {200, 400, 404, 429}, Answer(status), request.at # 1,
             request.at = 2 => ~HostAllowed(settings, request.arrival.host)
      PROVE  Passage'
  <2>1. /\ request'.at = request.at /\ request'.arrival = request.arrival
        /\ request'.answer.policy = Policy(request.arrival.path)
        /\ request.at > 2 => request'.answer.readable =
                             OriginAllowed(settings, request.arrival.origin)
    BY <1>3, AnswerCarries
  <2>2. GatesPassed'
    BY <1>0, <2>1
  <2>3. HostAllowed(settings, request.arrival.host) => request.at > 2
    BY <1>3
  <2>4. LayersSawAnswer'
    BY <2>1, <2>3 DEF LayersSawAnswer
  <2>5. QED
    BY <2>2, <2>4 DEF Passage
<1>4. ASSUME Crash PROVE Passage'
  <2>1. /\ request'.at = request.at /\ request'.arrival = request.arrival
        /\ request'.answer.status = 500
    BY <1>4, CrashTyped
  <2>2. GatesPassed'
    BY <1>0, <2>1
  <2>3. QED
    BY <2>1, <2>2 DEF Passage, LayersSawAnswer
<1>5. QED
  BY <1>2, <1>3, <1>4
LEMMA PassageKept == IInv /\ Passage /\ [Next]_vars => Passage'
<1> SUFFICES ASSUME IInv, Passage, [Next]_vars PROVE Passage'
  OBVIOUS
<1>1. TypeOK /\ InProgress
  BY DEF IInv
<1>2. ASSUME request' = Idle PROVE Passage'
  BY <1>2 DEF Passage, GatesPassed, HostPassed, CorsPassed, SenderPassed, KeyPassed,
       LayersSawAnswer, Answered, Idle, NoAnswer
<1>3. ASSUME NEW s \in Environment, Boot(s) PROVE Passage'
  <2>1. request.at = 0 /\ request' = request
    BY <1>1, <1>3 DEF InProgress, Boot
  <2>2. QED
    BY <1>1, <1>2, <2>1 DEF InProgress
<1>4. ASSUME NEW a \in Arrival, Arrive(a) PROVE Passage'
  <2>1. request'.at = 1 /\ request'.answer.status = 0
    <3>1. request' = [at |-> 1, arrival |-> a, answer |-> NoAnswer, counted |-> FALSE]
      BY <1>4 DEF Arrive, Idle
    <3>2. QED
      BY <3>1 DEF NoAnswer
  <2>2. QED
    BY <2>1 DEF Passage, GatesPassed, HostPassed, CorsPassed, SenderPassed, KeyPassed,
       LayersSawAnswer, Answered
<1>5. CASE SecurityHeaders
  BY <1>1, <1>5, ReachesAt, PassageStep DEF SecurityHeaders, Reaches
<1>6. CASE TrustedHost
  <2>1. request.at = 2 /\ request.answer.status = 0 /\ UNCHANGED settings
    BY <1>6, ReachesAt DEF TrustedHost, Reaches
  <2>2. \/ HostAllowed(settings, request.arrival.host) /\ Onward
        \/ ~HostAllowed(settings, request.arrival.host) /\ Answer(400)
    BY <1>6 DEF TrustedHost
  <2>3. QED
    BY <1>1, <2>1, <2>2, PassageStep
<1>7. CASE Cors
  <2>1. /\ request.at = 3 /\ request.answer.status = 0 /\ UNCHANGED settings
        /\ (Onward /\ ~request.arrival.preflight) \/ Answer(200) \/ Answer(400)
    BY <1>7, ReachesAt DEF Cors, Reaches
  <2>2. QED
    BY <1>1, <2>1, PassageStep
<1>8. CASE Route
  <2>1. /\ request.at = 4 /\ request.answer.status = 0 /\ UNCHANGED settings
        /\ Onward \/ \E status \in {200, 400, 404, 429} : Answer(status)
    BY <1>8, ReachesAt, OutcomesKnown DEF Route, Reaches
  <2>2. QED
    BY <1>1, <2>1, PassageStep
<1>9. CASE Dependencies
  <2>1. request.at = 5 /\ request.answer.status = 0 /\ UNCHANGED settings
    BY <1>9, ReachesAt DEF Dependencies, Reaches
  <2>2. \/ Crash
        \/ /\ Onward
           /\ request.arrival.path \in Mails => settings.EMAIL_PROVIDER = "console"
    BY <1>9 DEF Dependencies
  <2>3. QED
    BY <1>1, <2>1, <2>2, PassageStep
<1>10. CASE EnforceRateLimit
  <2>1. request.at = 6 /\ request.answer.status = 0 /\ UNCHANGED settings
    BY <1>10, ReachesAt DEF EnforceRateLimit, Reaches
  <2>2. CASE Crash \/ Answer(429)
    BY <1>1, <2>1, <2>2, PassageStep
  <2>3. CASE request' = [request EXCEPT !.at = @ + 1, !.counted = TRUE] /\ Key \in Address
    <3>1. /\ request'.at = 7 /\ request'.arrival = request.arrival
          /\ request'.answer.status = 0
      BY <1>1, <2>1, <2>3, CountedKeepsAnswer
    <3>2. HostPassed' /\ CorsPassed' /\ SenderPassed'
      BY <2>1, <3>1 DEF Passage, GatesPassed, HostPassed, CorsPassed, SenderPassed
    <3>3. KeyPassed'
      BY <2>1, <2>3, <3>1 DEF KeyPassed, Key
    <3>4. QED
      BY <3>1, <3>2, <3>3 DEF Passage, GatesPassed, LayersSawAnswer, Answered
  <2>4. QED
    BY <1>10, <2>2, <2>3 DEF EnforceRateLimit
<1>11. CASE Endpoint
  <2>1. /\ request.at = 7 /\ request.answer.status = 0 /\ UNCHANGED settings
        /\ Crash \/ \E status \in {200, 400, 404, 429} : Answer(status)
    BY <1>11, ReachesAt, OutcomesKnown DEF Endpoint, Reaches
  <2>2. QED
    BY <1>1, <2>1, PassageStep
<1>12. CASE Reply \/ Stop
  BY <1>2, <1>12 DEF Reply, Stop
<1>13. CASE Expire \/ UNCHANGED vars
  <2>1. UNCHANGED <<request, settings>>
    BY <1>13 DEF Expire, vars
  <2>2. QED
    BY <2>1 DEF Passage, GatesPassed, HostPassed, CorsPassed, SenderPassed, KeyPassed,
       Key, LayersSawAnswer, Answered
<1>14. QED
  BY <1>3, <1>4, <1>5, <1>6, <1>7, <1>8, <1>9, <1>10, <1>11, <1>12, <1>13 DEF Next

LEMMA InitPassage == Init => Passage /\ ProductionShowsNothing
BY DEF Init, Idle, NoAnswer, Passage, GatesPassed, HostPassed, CorsPassed, SenderPassed,
       KeyPassed, LayersSawAnswer, Answered, ProductionShowsNothing

LEMMA AlwaysPassage == Spec => []Passage
BY InitPassage, PassageKept, AlwaysIInv, PTL DEF Spec

LEMMA ShownKept ==
    IInv /\ Passage /\ ProductionShowsNothing /\ [Next]_vars => ProductionShowsNothing'
<1> SUFFICES ASSUME IInv, Passage, ProductionShowsNothing, [Next]_vars
             PROVE  ProductionShowsNothing'
  OBVIOUS
<1>1. CASE UNCHANGED <<settings, shown>>
  BY <1>1 DEF ProductionShowsNothing
<1>2. ASSUME NEW s \in Environment, Boot(s) PROVE ProductionShowsNothing'
  BY <1>2 DEF Boot, ProductionShowsNothing
<1>3. CASE Route
  <2>1. settings' = settings /\ (shown' = shown \/ DocsEnabled(settings))
    BY <1>3 DEF Route
  <2>2. DocsEnabled(settings) => settings.ENVIRONMENT # "production"
    BY DEF DocsEnabled
  <2>3. QED
    BY <2>1, <2>2 DEF ProductionShowsNothing
<1>4. CASE Endpoint
  <2>1. /\ request.at = 7 /\ settings' = settings
        /\ shown' = shown \/ request.arrival.path \in Mails
    BY <1>4, ReachesAt DEF Endpoint
  <2>2. MailsInProduction(settings)
    BY <2>1 DEF IInv, InProgress, Accepted
  <2>3. request.arrival.path \in Mails => settings.EMAIL_PROVIDER = "console"
    BY <2>1 DEF Passage, GatesPassed, SenderPassed
  <2>4. QED
    BY <2>1, <2>2, <2>3 DEF MailsInProduction, ProductionShowsNothing
<1>5. QED
  BY <1>1, <1>2, <1>3, <1>4
     DEF Next, Arrive, SecurityHeaders, TrustedHost, Cors, Dependencies,
         EnforceRateLimit, Reply, Expire, Stop, vars

(* A hit is held against a client only when nothing but the endpoint can    *)
(* still fail its request: refusals of host and CORS, a missing provider    *)
(* and an unknown address spend none of its budget (deps.py, rate_limit.py, *)
(* main.py).                                                               *)
THEOREM CountedServable == Spec => []OnlyServableCounted
<1>1. CountedLast /\ Passage => OnlyServableCounted
  BY DEF CountedLast, Passage, GatesPassed, HostPassed, CorsPassed, SenderPassed,
     KeyPassed, OnlyServableCounted
<1>2. IInv => CountedLast
  BY DEF IInv
<1>3. QED
  BY <1>1, <1>2, AlwaysIInv, AlwaysPassage, PTL

(* For any configured origins and hosts, an answer to an allowed host is    *)
(* readable exactly by the configured origins (main.py's middleware order   *)
(* and the stripping of the slash that the URL type adds).                 *)
THEOREM OriginsKept == Spec => []OriginsHonoured
<1>1. Passage => OriginsHonoured
  BY OriginSpelt DEF Passage, LayersSawAnswer, OriginsHonoured
<1>2. QED
  BY <1>1, AlwaysPassage, PTL

(* Whichever layer answers, the answer carries the policy of its path:     *)
(* SecurityHeadersMiddleware is outermost, and never answers itself.       *)
THEOREM AnswersSecured == Spec => []SecuredUnlessCrashed
<1>1. Passage => SecuredUnlessCrashed
  BY DEF Passage, LayersSawAnswer, SecuredUnlessCrashed
<1>2. QED
  BY <1>1, AlwaysPassage, PTL

(* Under no settings that start a production process are its docs served or *)
(* is a code logged: the validator of the email provider, the factory's    *)
(* refusal of the others and the docs' switch together (config.py).        *)
THEOREM ProductionQuiet == Spec => []ProductionShowsNothing
BY InitPassage, ShownKept, AlwaysPassage, AlwaysIInv, PTL DEF Spec
=============================================================================
