------------------------------ MODULE MCServing ------------------------------
(***************************************************************************)
(* Finite instances of Serving for TLC. Each setting takes its values      *)
(* against one base environment, those of the limiter, of the email sender *)
(* and of the proxies together.                                            *)
(***************************************************************************)
EXTENDS Serving

CONSTANTS A1, A2, E1, E2

Base == [ENVIRONMENT |-> "development", SECRET_KEY |-> "strong", ALGORITHM |-> "HS256",
         POSTGRES_SSL_MODE |-> "verify-full", POSTGRES_SSL_ROOT_CERT |-> "unset",
         ALLOWED_HOSTS |-> [form |-> "unset", hosts |-> {"*"}],
         BACKEND_CORS_ORIGINS |-> [form |-> "unset", urls |-> {}],
         LOG_LEVEL |-> "INFO", TRUSTED_PROXY_COUNT |-> 0,
         RATE_LIMIT_IP_MULTIPLIER |-> 1, RATE_LIMIT_EMAIL_RESERVED_SLOTS |-> 1,
         EMAIL_PROVIDER |-> "console"]

Invalid ==
    {[Base EXCEPT !.SECRET_KEY = k] : k \in {"short", "padded placeholder"}}
    \cup {[Base EXCEPT !.ALGORITHM = "RS256"], [Base EXCEPT !.POSTGRES_SSL_MODE = "prefer"],
          [Base EXCEPT !.ENVIRONMENT = "Production"], [Base EXCEPT !.LOG_LEVEL = "info"]}
    \cup {[Base EXCEPT !.RATE_LIMIT_IP_MULTIPLIER = m] : m \in {-1, 0}}
    \cup {[Base EXCEPT !.RATE_LIMIT_EMAIL_RESERVED_SLOTS = -1]}

Database ==
    {[Base EXCEPT !.POSTGRES_SSL_MODE = m, !.POSTGRES_SSL_ROOT_CERT = c] :
        m \in {"require", "verify-full"}, c \in {"file", "missing file"}}

Lists ==
    {[Base EXCEPT !.ALLOWED_HOSTS = [form |-> f, hosts |-> {"api"}]] :
        f \in {"commas", "array"}}
    \cup {[Base EXCEPT !.ALLOWED_HOSTS = [form |-> "array", hosts |-> {"api"}],
                       !.BACKEND_CORS_ORIGINS =
                            [form |-> f, urls |-> {[site |-> "app", spelling |-> w]}]] :
          f \in {"commas", "array"}, w \in {"bare", "slash", "with a path"}}
    \cup {[Base EXCEPT !.BACKEND_CORS_ORIGINS =
                [form |-> "commas", urls |-> {[site |-> "*", spelling |-> "bare"]}]]}

Mailing ==
    {[Base EXCEPT !.ENVIRONMENT = e, !.EMAIL_PROVIDER = p, !.LOG_LEVEL = l] :
        e \in {"development", "staging", "production"}, p \in {"console", "smtp"},
        l \in {"INFO", "WARNING"}}

Limiting ==
    {[Base EXCEPT !.TRUSTED_PROXY_COUNT = n, !.RATE_LIMIT_IP_MULTIPLIER = m,
                  !.RATE_LIMIT_EMAIL_RESERVED_SLOTS = r] :
        n \in 0 .. 2, m \in 1 .. 2, r \in {0, 2}}

MCEnvironment == Invalid \cup Database \cup Lists \cup Mailing \cup Limiting

Direct == [path |-> "/auth/verify-otp", host |-> "api", origin |-> "none",
           preflight |-> FALSE, email |-> E1, typed |-> <<>>, observed |-> <<>>,
           peer |-> A1]

Browsing ==
    {[Direct EXCEPT !.path = p, !.host = h, !.origin = o] :
        p \in {"/", "/docs", "/openapi.json", "/auth/login", "/auth/register"},
        h \in {"api", "elsewhere"}, o \in {"app", "other"}}
    \cup {[Direct EXCEPT !.preflight = TRUE, !.host = h, !.origin = o] :
          h \in {"api", "elsewhere"}, o \in {"app", "other"}}

\* Through no proxy, one or two, over TCP or a socket without a peer.
Routed ==
    {[Direct EXCEPT !.email = e, !.typed = t, !.observed = o, !.peer = p] :
        e \in {E1, E2}, t \in {<<>>, <<Unknown, A1>>},
        o \in {<<>>, <<A2>>, <<A2, A1>>}, p \in {A1, NoPeer}}

Consuming == [Direct EXCEPT !.path = "/auth/reset-password"]

MCArrival == Browsing \cup Routed \cup {Consuming}
=============================================================================
