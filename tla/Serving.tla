------------------------------ MODULE Serving ------------------------------
(***************************************************************************)
(* One app process and its environment: the settings it refuses or boots   *)
(* with, and a request on its way through the middleware, the route, its   *)
(* dependencies, the limiter and the endpoint.                             *)
(*                                                                         *)
(* Requests pass one at a time: they share the table of hits only, whose   *)
(* races module RateLimit interleaves. The database is up (Migrations).    *)
(***************************************************************************)
EXTENDS ClientAddress, FiniteSets

CONSTANTS
    Environment,    \* environments the process may be started in
    Arrival,        \* requests that may arrive
    Email,
    Limit,          \* an endpoint's limit per email
    MaxHits         \* bound of the model: rows of rate_limit_hits

ASSUME LimitAssumption == Limit \in Nat \ {0} /\ MaxHits \in Nat

ASSUME EnvironmentAssumption == \A s \in Environment :
    /\ s.TRUSTED_PROXY_COUNT \in Int
    /\ s.RATE_LIMIT_IP_MULTIPLIER \in Int
    /\ s.RATE_LIMIT_EMAIL_RESERVED_SLOTS \in Int

\* typed and observed make the X-Forwarded-For header, peer is the socket's.
\* The bodies are well formed.
ASSUME ArrivalAssumption == \A a \in Arrival :
    /\ a.email \in Email
    /\ a.typed \in Seq(Hop) /\ a.observed \in Seq(Address)
    /\ a.peer \in Address \cup {NoPeer}

VARIABLES
    server,     \* "down", "refused" or "up"
    settings,   \* the Settings singleton of the last start
    request,    \* the request in progress: the layer it reaches, its answer,
                \* and (history) whether the limiter counted it
    hits,       \* rows of rate_limit_hits in the window, in order of insertion
    shown       \* history: what the process has let out, docs or a code

vars == <<server, settings, request, hits, shown>>

-----------------------------------------------------------------------------
(* Settings: what config.py, database.py and main.py refuse at import. *)

ValidEnvironment(s) == s.ENVIRONMENT \in {"development", "staging", "production"}
ValidSecretKey(s) == s.SECRET_KEY \notin {"short", "padded placeholder"}
ValidSslMode(s) == s.POSTGRES_SSL_MODE \in {"disable", "require", "verify-full"}
ValidAlgorithm(s) == s.ALGORITHM = "HS256"

\* Mutant: the multiplier may be zero.
NonNegativeMultiplier(s) == s.RATE_LIMIT_IP_MULTIPLIER >= 0

ValidMultiplier(s) == s.RATE_LIMIT_IP_MULTIPLIER >= 1
ValidReservedSlots(s) == s.RATE_LIMIT_EMAIL_RESERVED_SLOTS >= 0

\* Mutant: the cross-field validator knows of no environment.
MailsInAnyEnvironment(s) == s.EMAIL_PROVIDER # ""

MailsInProduction(s) ==
    ~(s.ENVIRONMENT = "production" /\ s.EMAIL_PROVIDER = "console")

\* A list is unset, or written with commas or as a JSON array. pydantic-settings
\* decodes ALLOWED_HOSTS as JSON. BACKEND_CORS_ORIGINS is NoDecode: its
\* validator splits at commas and leaves an array as the text it is, which is
\* not a list; the wildcard is not a URL.
HostsParse(s) == s.ALLOWED_HOSTS.form # "commas"
OriginsParse(s) ==
    /\ s.BACKEND_CORS_ORIGINS.form # "array"
    /\ \A url \in s.BACKEND_CORS_ORIGINS.urls : url.site # "*"

\* create_default_context(cafile=...) opens the file; require ignores it.
SslConnectArg(s) ==
    CASE s.POSTGRES_SSL_MODE = "disable" -> "plain"
      [] s.POSTGRES_SSL_MODE = "require" -> "unverified"
      [] s.POSTGRES_SSL_MODE = "verify-full" ->
            IF s.POSTGRES_SSL_ROOT_CERT = "missing file" THEN "error" ELSE "verified"

\* logging.basicConfig raises for a name it does not know, in lower case too.
LoggingConfigures(s) == s.LOG_LEVEL \in {"DEBUG", "INFO", "WARNING", "ERROR"}

Accepted(s) ==
    /\ ValidEnvironment(s) /\ ValidSecretKey(s) /\ ValidSslMode(s)
    /\ ValidAlgorithm(s) /\ ValidMultiplier(s) /\ ValidReservedSlots(s)
    /\ MailsInProduction(s) /\ HostsParse(s) /\ OriginsParse(s)
    /\ SslConnectArg(s) # "error" /\ LoggingConfigures(s)

-----------------------------------------------------------------------------
(* What the settings mean to a request. *)

DocsEnabled(s) == s.ENVIRONMENT \in {"development", "staging"}

\* A URL is normalised when parsed: lower case, no default port, and a slash
\* where there is no path. Only that slash is stripped from it again.
Normalised(url) == <<url.site, IF url.spelling = "with a path" THEN "/path" ELSE "/">>
Stripped(origin) == IF origin[2] = "/" THEN <<origin[1], "">> ELSE origin

\* Mutant: the slash stays.
Unstripped(s) == {Normalised(url) : url \in s.BACKEND_CORS_ORIGINS.urls}

AllowOrigins(s) == {Stripped(Normalised(url)) : url \in s.BACKEND_CORS_ORIGINS.urls}
OriginAllowed(s, origin) == <<origin, "">> \in AllowOrigins(s)

HostAllowed(s, host) == s.ALLOWED_HOSTS.hosts \cap {"*", host} # {}

IpLimit(s) == Limit * s.RATE_LIMIT_IP_MULTIPLIER

\* max(0, min(resolved_reserved, limit - 1))
Reserved(s) ==
    CASE s.RATE_LIMIT_EMAIL_RESERVED_SLOTS < 0 -> 0
      [] s.RATE_LIMIT_EMAIL_RESERVED_SLOTS > Limit - 1 -> Limit - 1
      [] OTHER -> s.RATE_LIMIT_EMAIL_RESERVED_SLOTS

-----------------------------------------------------------------------------
NoArrival == [path |-> "none"]
NoAnswer == [status |-> 0, policy |-> "none", readable |-> FALSE]
Idle == [at |-> 0, arrival |-> NoArrival, answer |-> NoAnswer, counted |-> FALSE]

\* Mutant: the last middleware added is the innermost one.
LayersReversed == <<"cors", "trusted_host", "security_headers", "route",
                    "dependencies", "limiter", "endpoint">>

\* Mutant: the factory is called by the endpoint itself, after the limiter.
LayersLazy == <<"security_headers", "trusted_host", "cors", "route",
                "limiter", "dependencies", "endpoint">>

\* In the order a request meets them: add_middleware puts each around the
\* earlier ones.
Layers == <<"security_headers", "trusted_host", "cors", "route",
            "dependencies", "limiter", "endpoint">>

\* Endpoints that take an EmailSender, those that check a code, and all that
\* call enforce_rate_limit, each with a scope of its own.
Mails == {"/auth/register", "/auth/forgot-password", "/auth/resend-verification-email"}
Checks == {"/auth/verify-otp", "/auth/verify-email", "/auth/reset-password"}
Limited == Mails \cup Checks

\* Login logs the client's address, but nothing counts it.
Open == {"/", "/auth/login"}
Docs == {"/docs", "/openapi.json"}

\* The answers that endpoints give themselves.
Outcomes(path) ==
    CASE path \in Mails \cup {"/"} -> {200}
      [] path = "/auth/reset-password" -> {200, 400, 404}
      [] OTHER -> {200, 400}

\* Two registrations of one email flush, or a wrong guess meets a code that is
\* gone: an IntegrityError, a StaleDataError that nothing catches.
Raising == {"/auth/register"} \cup Checks

Init ==
    /\ server = "down"
    /\ settings \in Environment
    /\ request = Idle
    /\ hits = <<>>
    /\ shown = {}

Boot(s) ==
    /\ server # "up"
    /\ settings' = s
    /\ server' = IF Accepted(s) THEN "up" ELSE "refused"
    /\ shown' = {}
    /\ UNCHANGED <<request, hits>>

\* The process ends, and the request in it.
Stop ==
    /\ server = "up"
    /\ server' = "down"
    /\ request' = Idle
    /\ UNCHANGED <<settings, hits, shown>>

Arrive(a) ==
    /\ server = "up" /\ request.at = 0
    /\ request' = [Idle EXCEPT !.at = 1, !.arrival = a]
    /\ UNCHANGED <<server, settings, hits, shown>>

Inside(layer) == \E i \in 1 .. Len(Layers) : i < request.at /\ Layers[i] = layer
Reaches(layer) ==
    /\ request.at \in 1 .. Len(Layers)
    /\ Layers[request.at] = layer
    /\ request.answer.status = 0

Onward == request' = [request EXCEPT !.at = @ + 1]

\* The layers the request is inside of see its answer on its way out.
Policy(path) == IF path = "/docs" THEN "docs" ELSE "api"
Answer(status) ==
    request' = [request EXCEPT !.answer =
        [status |-> status,
         policy |-> IF Inside("security_headers")
                    THEN Policy(request.arrival.path) ELSE "none",
         readable |-> /\ Inside("cors") \/ Reaches("cors")
                      /\ OriginAllowed(settings, request.arrival.origin)]]

\* An exception passes them all; the outermost layer makes a bare 500 of it.
Crash ==
    request' = [request EXCEPT !.answer =
        [status |-> 500, policy |-> "none", readable |-> FALSE]]

SecurityHeaders ==
    /\ Reaches("security_headers")
    /\ Onward
    /\ UNCHANGED <<server, settings, hits, shown>>

TrustedHost ==
    /\ Reaches("trusted_host")
    /\ IF HostAllowed(settings, request.arrival.host) THEN Onward ELSE Answer(400)
    /\ UNCHANGED <<server, settings, hits, shown>>

\* A preflight goes no further.
Cors ==
    /\ Reaches("cors")
    /\ IF ~request.arrival.preflight THEN Onward
       ELSE IF OriginAllowed(settings, request.arrival.origin) THEN Answer(200)
       ELSE Answer(400)
    /\ UNCHANGED <<server, settings, hits, shown>>

Route ==
    /\ Reaches("route")
    /\ CASE request.arrival.path \in Limited -> Onward /\ UNCHANGED shown
         [] request.arrival.path \in Open ->
               /\ \E status \in Outcomes(request.arrival.path) : Answer(status)
               /\ UNCHANGED shown
         [] request.arrival.path \in Docs /\ DocsEnabled(settings) ->
               /\ Answer(200)
               /\ shown' = shown \cup {"docs"}
         [] OTHER -> Answer(404) /\ UNCHANGED shown
    /\ UNCHANGED <<server, settings, hits>>

\* get_email_sender: only "console" has an implementation.
Dependencies ==
    /\ Reaches("dependencies")
    /\ IF request.arrival.path \in Mails /\ settings.EMAIL_PROVIDER # "console"
       THEN Crash ELSE Onward
    /\ UNCHANGED <<server, settings, hits, shown>>

Key == ClientIp(settings.TRUSTED_PROXY_COUNT,
                Forwarded(request.arrival.typed, request.arrival.observed),
                request.arrival.peer)

\* The rows of the endpoint's scope.
Rows == {i \in DOMAIN hits : hits[i].scope = request.arrival.path}
RowsOf(ip) == {i \in Rows : hits[i].ip = ip}
RowsFor(email) == {i \in Rows : hits[i].email = email}

Refuses(s, ip, email) ==
    \/ Cardinality(RowsOf(ip)) >= IpLimit(s)
    \/ Cardinality(RowsFor(email)) >= Limit
    \/ /\ Cardinality(RowsFor(email)) >= Limit - Reserved(s)
       /\ Reserved(s) > 0
       /\ RowsOf(ip) \cap RowsFor(email) # {}

\* What the request's address really is, where it came through as many proxies
\* as the settings trust; the row remembers it.
Passed(s, a) == s.TRUSTED_PROXY_COUNT <= Len(a.observed)

\* Mutant: the row stores the socket's peer.
RowOfPeer == [scope |-> request.arrival.path, ip |-> request.arrival.peer,
              email |-> request.arrival.email, seen |-> Key]

Row == [scope |-> request.arrival.path, ip |-> Key, email |-> request.arrival.email,
        seen |-> IF Passed(settings, request.arrival)
                 THEN Seen(settings.TRUSTED_PROXY_COUNT, request.arrival.observed,
                           request.arrival.peer)
                 ELSE Key]

\* enforce_rate_limit. Its first statement compares the address with an INET
\* column, which takes no other text.
EnforceRateLimit ==
    /\ Reaches("limiter")
    /\ IF Key \notin Address THEN Crash /\ UNCHANGED hits
       ELSE IF Refuses(settings, Key, request.arrival.email)
       THEN Answer(429) /\ UNCHANGED hits
       ELSE /\ Len(hits) < MaxHits
            /\ request' = [request EXCEPT !.at = @ + 1, !.counted = TRUE]
            /\ hits' = Append(hits, Row)
    /\ UNCHANGED <<server, settings, shown>>

\* The console sender never fails; whether its INFO line is seen is the level's.
ConsoleLogs(s) == s.LOG_LEVEL \in {"DEBUG", "INFO"}

\* The endpoint itself, after the limiter's commit: it answers, it mails a code
\* and answers, or it raises before it has mailed one.
Endpoint ==
    /\ Reaches("endpoint")
    /\ \/ /\ \E status \in Outcomes(request.arrival.path) : Answer(status)
          /\ UNCHANGED shown
       \/ /\ request.arrival.path \in Mails
          /\ ConsoleLogs(settings)
          /\ Answer(200)
          /\ shown' = shown \cup {"code"}
       \/ /\ request.arrival.path \in Raising
          /\ Crash
          /\ UNCHANGED shown
    /\ UNCHANGED <<server, settings, hits>>

Reply ==
    /\ request.answer.status # 0
    /\ request' = Idle
    /\ UNCHANGED <<server, settings, hits, shown>>

\* The oldest row leaves the window.
Expire ==
    /\ hits # <<>>
    /\ hits' = Tail(hits)
    /\ UNCHANGED <<server, settings, request, shown>>

Next ==
    \/ \E s \in Environment : Boot(s)
    \/ \E a \in Arrival : Arrive(a)
    \/ SecurityHeaders \/ TrustedHost \/ Cors \/ Route \/ Dependencies
    \/ EnforceRateLimit \/ Endpoint \/ Reply \/ Expire \/ Stop

Spec == Init /\ [][Next]_vars

-----------------------------------------------------------------------------
(* Properties *)

AnswerType == [status : {0, 200, 400, 404, 429, 500},
               policy : {"none", "api", "docs"}, readable : BOOLEAN]
Answered == request.answer.status # 0

TypeOK ==
    /\ server \in {"down", "refused", "up"}
    /\ settings \in Environment
    /\ request \in [at : 0 .. Len(Layers), arrival : Arrival \cup {NoArrival},
                    answer : AnswerType, counted : BOOLEAN]
    /\ shown \subseteq {"docs", "code"}
    /\ hits \in Seq([scope : Limited, ip : Address, email : Email, seen : Address])

\* Whatever hops a client types in front of the header, a request that came
\* through the trusted proxies is counted under the address the outermost of
\* them saw, and without proxies under its peer (client_ip).
KeyIsObserved == \A i \in DOMAIN hits : hits[i].ip = hits[i].seen

\* Under any settings the process starts with, a client of whose address and
\* email an endpoint has counted nothing is not refused there, whatever other
\* endpoints have counted (validators of the limiter's settings, the clamp of
\* the reserve, the scopes).
UnseenIsServed ==
    [][request.answer.status # 429 /\ request'.answer.status = 429
        => RowsOf(Key) \cup RowsFor(request.arrival.email) # {}]_vars

\* Only the endpoint itself may still fail a request that is held against its
\* client: neither a refusal of host or CORS, nor a missing email provider, nor an
\* address that is none leaves a hit behind (get_email_sender, resolved before
\* the endpoint runs; enforce_rate_limit).
OnlyServableCounted ==
    request.counted =>
        /\ HostAllowed(settings, request.arrival.host)
        /\ ~request.arrival.preflight
        /\ request.arrival.path \in Mails => settings.EMAIL_PROVIDER = "console"
        /\ Key \in Address

\* A browser may read an answer exactly when its origin is configured, in
\* whatever spelling of it, unless the host was refused (main.py, CORS).
OriginsHonoured ==
    Answered /\ request.answer.status # 500
        /\ HostAllowed(settings, request.arrival.host)
    => request.answer.readable =
           \E url \in settings.BACKEND_CORS_ORIGINS.urls :
               url.site = request.arrival.origin /\ url.spelling # "with a path"

\* Answers of the other middleware carry the security headers too, and only
\* the docs page their looser policy (SecurityHeadersMiddleware, added last).
SecuredUnlessCrashed ==
    Answered /\ request.answer.status # 500
    => request.answer.policy = Policy(request.arrival.path)

\* A production process has shown neither its docs nor, in its log, a code.
ProductionShowsNothing == settings.ENVIRONMENT = "production" => shown = {}
=============================================================================
