------------------------------ MODULE Requests ------------------------------
(***************************************************************************)
(* The requests that a built configuration makes: which Authorization they *)
(* carry, and one request with its retries, backoff and timeout.           *)
(*                                                                         *)
(* A release listing goes through send or send_async, the download of an   *)
(* asset through build_download and Download::download_to or its async     *)
(* sibling: two code paths that have to agree.  The server may answer,     *)
(* refuse, or say nothing at all, before the response or in the middle of  *)
(* its body.                                                               *)
(***************************************************************************)
EXTENDS Builder

CONSTANTS
    Urls,        \* records [host, scheme] that a request may go to
    Loopback,    \* the hosts that may get the credential over plain http
    MaxMillis    \* u64::MAX, where the doubling of a delay saturates

ASSUME MillisAssumption == MaxMillis \in Nat /\ None \notin Nat
\* A Duration is turned into milliseconds below this bound, and a number of
\* retries is a u32.
Millis == 0..MaxMillis

ASSUME TimingAssumption ==
    /\ DefaultBase \in Millis /\ DefaultMax \in Millis
    /\ \A m \in DOMAIN Menus :
          /\ "retries" \in DOMAIN Menus[m] => Menus[m]["retries"] \subseteq Nat
          /\ "retry_backoff" \in DOMAIN Menus[m] =>
                Menus[m]["retry_backoff"] \subseteq Millis \X Millis

ASSUME UrlsAssumption == \A url \in Urls : url.host # None

VARIABLE
    req          \* the request under way

vars == <<builderVars, req>>

Smaller(m, n) == IF m < n THEN m ELSE n

-----------------------------------------------------------------------------
(* Authorization.                                                          *)

\* RequestConfig::auth_allowed_for.
AuthAllowedFor(bt, url) ==
    /\ url.host = bt.base_host \/ url.host \in bt.config.auth_hosts
    /\ url.scheme = "https" \/ url.host \in Loopback \/ bt.config.allow_insecure

\* RequestConfig::apply_auth.
ApplyAuth(bt, url) ==
    IF "Authorization" \in bt.config.headers \/ bt.config.auth_token = None
       \/ ~AuthAllowedFor(bt, url)
    THEN [by |-> "none"]
    ELSE IF bt.config.auth_token = "unencodable"
         THEN [by |-> "error"]
         ELSE [by |-> bt.scheme]

\* send and send_async: the user's own header replaces the derived one, and
\* is left out for a host that may not have it.
SendCredential(bt, url) ==
    IF "Authorization" \in bt.config.headers /\ AuthAllowedFor(bt, url)
    THEN [by |-> "user"] ELSE ApplyAuth(bt, url)

\* Mutant of DownloadCredential: the user's header goes along to every host.
DownloadCredentialUngated(bt, url) ==
    IF "Authorization" \in bt.config.headers THEN [by |-> "user"] ELSE ApplyAuth(bt, url)

\* build_download: the same precedence and the same gate.
DownloadCredential(bt, url) ==
    IF "Authorization" \in bt.config.headers /\ AuthAllowedFor(bt, url)
    THEN [by |-> "user"] ELSE ApplyAuth(bt, url)

\* A Download made by hand sends the headers it was given.
Credential(verb, url) ==
    IF site.kind = "download"
    THEN IF "Authorization" \in built.config.headers THEN [by |-> "user"] ELSE [by |-> "none"]
    ELSE IF verb = "list" THEN SendCredential(built, url)
                          ELSE DownloadCredential(built, url)

-----------------------------------------------------------------------------
(* Retries, backoff, timeouts.                                             *)

\* The fold of saturating_mul(2) in retry_backoff_ms.
Doubled[attempt \in Nat] ==
    [base \in Nat |->
        IF attempt = 0 THEN base ELSE Smaller(Doubled[attempt - 1][base] * 2, MaxMillis)]

\* Mutant of RetryBackoffMs: the doubling wraps around instead of saturating.
RetryBackoffMsWrapping(attempt, base, max) ==
    Smaller((base * 2^attempt) % (MaxMillis + 1), max)

RetryBackoffMs(attempt, base, max) == Smaller(Doubled[attempt][base], max)

\* The client that a request uses: the slot's, else a fresh one per call.
ClientOf(transport) ==
    LET slot == IF transport = "async" THEN "async_client" ELSE "client"
    IN  IF built.config[slot] # None THEN built.config[slot]
        ELSE [from |-> "fresh", trusts |-> {}]

\* Mutant of TimeoutApplies: a client made beforehand keeps its own timeout.
TimeoutAppliesFresh(client) == built.config.timeout # None /\ client.from = "fresh"

\* The per-request timeout is layered on every client except a user's ureq agent.
TimeoutApplies(client) == built.config.timeout # None /\ client.from # "agent"

\* Malformed DER that ureq accepted: no connection succeeds with it.
Broken(client) == {"badDer", "badPem"} \cap client.trusts # {}

Idle == [phase |-> "idle"]

\* Which verbs the crate itself performs for this builder.  The custom
\* backend's listing is its source's own affair.
Verbs == CASE site.kind = "update" ->
                {"download"} \cup (IF site.backend = "custom" THEN {} ELSE {"list"})
           [] site.kind = "download" -> {"download"}
           [] OTHER                  -> {"list"}

Transports == IF site.lib = "reqwest" THEN {"blocking", "async"} ELSE {"blocking"}

Start ==
    /\ IsBuilt /\ req = Idle
    /\ \E verb \in Verbs, transport \in Transports, url \in Urls :
        req' = [phase  |-> IF Credential(verb, url).by = "error" THEN "failed" ELSE "sent",
                   client |-> ClientOf(transport), attempts |-> 0, delays |-> <<>>]
    /\ UNCHANGED builderVars

\* retry: give up when the budget is spent, else sleep before the next attempt.
Fail ==
    LET backoff == RetryBackoffMs(req.attempts, built.config.backoff[1], built.config.backoff[2])
    IN  req' = IF req.attempts >= built.config.retries THEN [req EXCEPT !.phase = "failed"]
               ELSE [req EXCEPT !.phase = "waiting", !.delays = Append(@, backoff)]

\* A transport error, or a status that is no success.
Refused == req.phase = "sent" /\ Fail /\ UNCHANGED builderVars

\* The timeout fires before there is a response: one more failed attempt.
TimedOut ==
    /\ req.phase = "sent" /\ TimeoutApplies(req.client)
    /\ Fail
    /\ UNCHANGED builderVars

\* The sleep is over.
Wake ==
    /\ req.phase = "waiting"
    /\ req' = [req EXCEPT !.phase = "sent", !.attempts = @ + 1]
    /\ UNCHANGED builderVars

Answered ==
    /\ req.phase = "sent" /\ ~Broken(req.client)
    /\ req' = [req EXCEPT !.phase = "body"]
    /\ UNCHANGED builderVars

BodyRead ==
    /\ req.phase = "body"
    /\ req' = [req EXCEPT !.phase = "done"]
    /\ UNCHANGED builderVars

\* A failure in the middle of the body, or the timeout there, is not retried.
BodyLost ==
    /\ req.phase = "body"
    /\ req' = [req EXCEPT !.phase = "failed"]
    /\ UNCHANGED builderVars

BodyTimedOut == req.phase = "body" /\ TimeoutApplies(req.client) /\ BodyLost

RequestStep ==
    Start \/ Refused \/ TimedOut \/ Wake \/ Answered \/ BodyRead \/ BodyLost

Init == BuilderInit /\ req = Idle

Next ==
    \/ BuilderNext /\ req = Idle /\ UNCHANGED req
    \/ RequestStep

\* The client's own timers run; nothing is assumed of the server, which may
\* stay silent for ever.
Fairness ==
    /\ WF_vars(TimedOut)
    /\ WF_vars(BodyTimedOut)
    /\ WF_vars(Wake)

Spec == Init /\ [][Next]_vars /\ Fairness

-----------------------------------------------------------------------------
\* Both paths send the same credential to the same place, and it is the one
\* the calls ask for: the user's own header before the token, in the
\* backend's scheme, and only to the API's host or one that was allowed, over
\* https unless the host is local or plain http was asked for (apply_auth,
\* send, build_download).
CredentialAgrees ==
    IsBuilt /\ site.kind # "download" => \A url \in Urls :
        LET sent    == SendCredential(built, url)
            own     == "Authorization" \in Given("request_header")
            reached == /\ \/ url.host = ApiHost /\ site.backend \in ApiBackends
                             /\ site.kind # "source"
                          \/ url.host \in Given("allow_auth_host")
                       /\ \/ url.scheme = "https" \/ url.host \in Loopback
                          \/ Made("insecure_auth") # {}
        IN  /\ DownloadCredential(built, url) = sent
            /\ sent.by = IF ~reached \/ (~own /\ Made("auth_token") = {}) THEN "none"
                         ELSE IF own THEN "user"
                         ELSE IF Latest("auth_token", None) = "unencodable" THEN "error"
                         ELSE IF site.backend \in {"gitlab", "gitee"} THEN "Bearer" ELSE "Token"

\* The delays before the retries are base, 2 base, 4 base, ... up to the
\* configured maximum, in unbounded arithmetic: where the code saturates
\* cannot be told from outside (retry_backoff_ms).  There is one delay per
\* retry, and never more retries than were asked for.
BackoffExact ==
    req # Idle =>
        LET d == Latest("retry_backoff", <<DefaultBase, DefaultMax>>)
        IN  /\ Len(req.delays) <= Latest("retries", 0)
            /\ \A i \in DOMAIN req.delays :
                  req.delays[i] =
                      Smaller(IF i = 1 THEN d[1] ELSE 2 * req.delays[i - 1], d[2])

\* With a timeout configured, every request of a client that the crate makes,
\* or that takes the timeout per request, comes to an end, whatever the
\* server does and however many retries are configured; only a ureq agent of
\* the user's own is left to its own timeout.
TimedRequestsEnd ==
    (req # Idle /\ Made("timeout") # {} /\ req.client.from # "agent")
        ~> req.phase \in {"done", "failed"}

=============================================================================
