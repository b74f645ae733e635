------------------------------- MODULE Builder -------------------------------
(***************************************************************************)
(* The builders: what a sequence of setter calls, in any order, makes of   *)
(* the configuration that build() returns.                                 *)
(*                                                                         *)
(* Four kinds of object take the same transport setters: a backend's       *)
(* ReleaseListBuilder ("list") and UpdateBuilder ("update"), the manifest  *)
(* backend's ManifestSource ("source", which resolves its configuration    *)
(* on every fetch), and a Download made by hand ("download", which does so *)
(* in download_to).  A setter never fails: a mistake is kept until the     *)
(* configuration is built.  build() takes &self, so a builder can be built *)
(* again after more calls.                                                 *)
(*                                                                         *)
(* A header is "Authorization" or another one; a client that a user        *)
(* injects is a "client" (reqwest, or an HttpClient of the user's) or a    *)
(* ureq "agent"; a certificate is good, or malformed PEM or DER.           *)
(***************************************************************************)
EXTENDS Integers, Sequences

CONSTANTS
    Sites,      \* the builders a behaviour may start with
    Menus,      \* sequence of menus, each a set of arguments per setter
    MaxCalls,   \* bound on the setter calls of a behaviour
    ApiHost,    \* the host of the API that the backend is configured for
    DefaultBase, DefaultMax,   \* the default backoff: 100 ms, up to 3200 ms
    None

ASSUME BoundsAssumption == MaxCalls \in Nat /\ DefaultBase \in Nat /\ DefaultMax \in Nat

VARIABLES
    site,       \* the builder's kind, backend and crate features, never changed
    menu,       \* the menu that this behaviour draws its calls from, never changed
    calls,      \* the setter calls made so far (history, for the properties)
    b,          \* the builder's fields
    built       \* what build() returned, or None when it was not called yet

builderVars == <<site, menu, calls, b, built>>

-----------------------------------------------------------------------------
(* Which setters a builder has, and which fields it needs.                 *)

ApiBackends == {"github", "gitlab", "gitea", "gitee"}

RequestSetters == {"timeout", "request_header", "retries", "retry_backoff",
                   "http_client", "http_client_async", "add_root_certificate",
                   "allow_auth_host", "insecure_auth"}
CommonSetters == {"bin_name", "bin_path_in_archive", "no_confirm", "show_output",
                  "unattended"}

Offers(s) ==
    CASE s.kind = "download" -> {"timeout", "request_header", "replace_headers",
                                 "add_root_certificate"}
      [] s.kind = "source"   -> RequestSetters
      [] OTHER -> RequestSetters
                    \cup (IF s.kind = "update" THEN CommonSetters ELSE {})
                    \cup (IF s.backend \in ApiBackends THEN {"auth_token"} ELSE {})

\* What each backend's build() adds: the fields that it needs, the scheme of
\* its token, and the host that may have it.  An s3 region is one of those
\* fields for the endpoints that have regions.
Github   == [fields |-> {"repo_owner", "repo_name"}, scheme |-> "Token", host |-> ApiHost]
Gitlab   == [fields |-> {"repo_owner", "repo_name"}, scheme |-> "Bearer", host |-> ApiHost]
Gitea    == [fields |-> {"host", "repo_owner", "repo_name"}, scheme |-> "Token", host |-> ApiHost]
Gitee    == [fields |-> {"repo_owner", "repo_name"}, scheme |-> "Bearer", host |-> ApiHost]
S3       == [fields |-> {"region", "bucket_name"}, scheme |-> "Token", host |-> None]
Manifest == [fields |-> {"manifest_url"}, scheme |-> "Token", host |-> None]
Custom   == [fields |-> {"source"}, scheme |-> "Token", host |-> None]

Backend(s) ==
    CASE s.backend = "github" -> Github
      [] s.backend = "gitlab" -> Gitlab
      [] s.backend = "gitea"  -> Gitea
      [] s.backend = "gitee"  -> Gitee
      [] s.backend = "s3"     -> S3
      [] s.backend = "custom" -> Custom
      [] OTHER                -> Manifest

\* RequestConfig::default.
DefaultRequest ==
    [headers |-> {}, header_error |-> FALSE,
     client |-> None, async_client |-> None, root_certificates |-> {},
     auth_hosts |-> {}, allow_insecure |-> FALSE,
     timeout |-> None, retries |-> 0, backoff |-> <<DefaultBase, DefaultMax>>]

\* CommonBuilderConfig::default.
DefaultCommon ==
    [bin_name |-> None, bin_path_in_archive |-> None, auto |-> FALSE,
     no_confirm |-> FALSE, show_output |-> TRUE, auth_token |-> None]

\* The builder's fields, those of its request configuration among them.
DefaultBuilder ==
    [f \in DOMAIN DefaultRequest \cup DOMAIN DefaultCommon |->
        IF f \in DOMAIN DefaultRequest THEN DefaultRequest[f] ELSE DefaultCommon[f]]

-----------------------------------------------------------------------------
(* The setters, as functions of the builder.                               *)

SetBinName(c, n) ==
    LET derive == c.bin_path_in_archive = None \/ c.auto
    IN  [c EXCEPT !.bin_name = n,
                  !.bin_path_in_archive = IF derive THEN n ELSE @,
                  !.auto = derive]

SetBinPath(c, p) == [c EXCEPT !.bin_path_in_archive = p, !.auto = FALSE]

\* The first error stays; an invalid header is not inserted.
InsertHeader(c, h) ==
    IF h = "invalid" THEN [c EXCEPT !.header_error = TRUE]
                     ELSE [c EXCEPT !.headers = @ \cup {h}]

Injected(kind) == [from |-> kind, trusts |-> {}]

\* The arguments that this behaviour may give to a setter.
Args(op) == IF op \in DOMAIN Menus[menu] THEN Menus[menu][op] ELSE {}

\* None is Option::None: no argument, and nothing made of one, is it.
ASSUME NoneAssumption ==
    /\ None \notin {"InvalidHeader", "InvalidCertificate", "MissingField", ApiHost,
                    "current_version", "bin_name", "app"}
    /\ \A s \in Sites : None \notin Backend(s).fields
    /\ \A m \in DOMAIN Menus : \A op \in DOMAIN Menus[m] : \A arg \in Menus[m][op] :
          None # arg /\ None # Injected(arg)

ASSUME TogglesAssumption ==
    \A m \in DOMAIN Menus :
        "show_output" \in DOMAIN Menus[m] => Menus[m]["show_output"] \subseteq BOOLEAN

\* What a site leaves out is something that its build asks for.
ASSUME SitesAssumption ==
    \A s \in Sites :
        /\ s.kind \in {"list", "update", "source", "download"}
        /\ s.missing # None =>
              \/ s.kind \in {"list", "update"} /\ s.missing \in Backend(s).fields
              \/ s.kind = "update" /\ s.missing \in {"current_version", "bin_name"}

Call(op, arg, c) ==
    /\ arg \in Args(op)
    /\ Len(calls) < MaxCalls
    /\ calls' = Append(calls, [op |-> op, arg |-> arg])
    /\ b' = c
    /\ built' = None
    /\ UNCHANGED <<site, menu>>

BinName      == \E n \in Args("bin_name") : Call("bin_name", n, SetBinName(b, n))
BinPath      == \E p \in Args("bin_path_in_archive") :
                    Call("bin_path_in_archive", p, SetBinPath(b, p))
NoConfirm    == \E v \in Args("no_confirm") : Call("no_confirm", v, [b EXCEPT !.no_confirm = v])
ShowOutput   == \E v \in Args("show_output") : Call("show_output", v, [b EXCEPT !.show_output = v])
Unattended   == Call("unattended", TRUE, [b EXCEPT !.no_confirm = TRUE, !.show_output = FALSE])
AuthToken    == \E t \in Args("auth_token") : Call("auth_token", t, [b EXCEPT !.auth_token = t])
Timeout      == \E t \in Args("timeout") : Call("timeout", t, [b EXCEPT !.timeout = t])
Retries      == \E n \in Args("retries") : Call("retries", n, [b EXCEPT !.retries = n])
RetryBackoff == \E d \in Args("retry_backoff") :
                    Call("retry_backoff", d, [b EXCEPT !.backoff = d])
RequestHeader == \E h \in Args("request_header") :
                    Call("request_header", h, InsertHeader(b, h))
\* Download only: the whole map is replaced, the recorded error is not.
ReplaceHeaders == \E hs \in Args("replace_headers") :
                    Call("replace_headers", hs, [b EXCEPT !.headers = hs])
HttpClient   == \E k \in Args("http_client") :
                    Call("http_client", k, [b EXCEPT !.client = Injected(k)])
HttpClientAsync == \E k \in Args("http_client_async") :
                    /\ site.lib = "reqwest"
                    /\ Call("http_client_async", k, [b EXCEPT !.async_client = Injected(k)])
AddRootCertificate == \E k \in Args("add_root_certificate") :
                    Call("add_root_certificate", k, [b EXCEPT !.root_certificates = @ \cup {k}])
AllowAuthHost == \E h \in Args("allow_auth_host") :
                    Call("allow_auth_host", h, [b EXCEPT !.auth_hosts = @ \cup {h}])
InsecureAuth == Call("insecure_auth", TRUE, [b EXCEPT !.allow_insecure = TRUE])

-----------------------------------------------------------------------------
(* build(): the clients are made, deferred mistakes and missing fields are *)
(* reported.                                                               *)

\* Certificates that cannot be turned into a client: reqwest parses them all,
\* ureq takes DER as it is.
ReqwestRejects(certs) == certs \cap {"badPem", "badDer"} # {}
UreqRejects(certs)    == "badPem" \in certs

Unparsable(lib, certs) ==
    IF lib = "reqwest" THEN ReqwestRejects(certs) ELSE UreqRejects(certs)

\* A slot is made from the certificates when nothing was injected into it.
MakesFromCerts(c, slot) == c.root_certificates # {} /\ c[slot] = None

Slots(s) == IF s.lib = "reqwest" THEN {"client", "async_client"} ELSE {"client"}

\* Mutant of BuildClient: one injected client switches the certificates off altogether.
BuildClientOnce(s, c) ==
    LET Made(slot) == IF slot \in Slots(s) /\ c.root_certificates # {}
                          /\ c.client = None /\ c.async_client = None
                      THEN [from |-> "certs", trusts |-> c.root_certificates] ELSE c[slot]
    IN  [c EXCEPT !.client = Made("client"), !.async_client = Made("async_client")]

BuildClient(s, c) ==
    LET Made(slot) == IF slot \in Slots(s) /\ MakesFromCerts(c, slot)
                      THEN [from |-> "certs", trusts |-> c.root_certificates] ELSE c[slot]
    IN  [c EXCEPT !.client = Made("client"), !.async_client = Made("async_client")]

CertError(s, c) ==
    /\ \E slot \in Slots(s) : MakesFromCerts(c, slot)
    /\ Unparsable(s.lib, c.root_certificates)

\* RequestConfig::check: the header error comes first.
Check(s, c) ==
    IF c.header_error THEN "InvalidHeader"
    ELSE IF CertError(s, c) THEN "InvalidCertificate" ELSE None

FirstOf(errors) ==
    LET found == {i \in DOMAIN errors : errors[i] # None}
    IN  IF found = {} THEN None ELSE errors[CHOOSE i \in found : \A j \in found : i <= j]

\* A release list checks the transport first, an update its backend's fields first.
BuildError(s, c) ==
    LET own    == IF s.missing \in Backend(s).fields THEN "MissingField" ELSE None
        common == IF s.missing = "current_version" \/ c.bin_name = None
                      \/ c.bin_path_in_archive = None THEN "MissingField" ELSE None
    IN  CASE s.kind = "list"   -> FirstOf(<<Check(s, c), own>>)
          [] s.kind = "update" -> FirstOf(<<own, Check(s, c), common>>)
          [] OTHER             -> Check(s, c)

\* What the backends' build() and CommonBuilderConfig::build return.
BuildOf(s, c) ==
    [error     |-> BuildError(s, c),
     config    |-> BuildClient(s, c),
     scheme    |-> Backend(s).scheme,
     base_host |-> IF s.kind \in {"list", "update"} THEN Backend(s).host ELSE None]

\* Mutant of Build: the client made from the certificates stays in the builder.
BuildKeepsClient ==
    /\ built = None
    /\ built' = BuildOf(site, b)
    /\ b' = IF Check(site, b) = None THEN BuildClient(site, b) ELSE b
    /\ UNCHANGED <<site, menu, calls>>

Build ==
    /\ built = None
    /\ built' = BuildOf(site, b)
    /\ UNCHANGED <<site, menu, calls, b>>

\* The name is the one setter every update needs: a site gives it unless it is missing.
BuilderInit ==
    /\ site \in Sites
    /\ menu \in {m \in DOMAIN Menus : DOMAIN Menus[m] \subseteq Offers(site)}
    /\ LET named == site.kind = "update" /\ site.missing # "bin_name"
       IN  /\ calls = IF named THEN <<[op |-> "bin_name", arg |-> "app"]>> ELSE <<>>
           /\ b = IF named THEN SetBinName(DefaultBuilder, "app") ELSE DefaultBuilder
    /\ built = None

BuilderNext ==
    \/ BinName \/ BinPath \/ NoConfirm \/ ShowOutput \/ Unattended
    \/ AuthToken \/ Timeout \/ Retries \/ RetryBackoff
    \/ RequestHeader \/ ReplaceHeaders \/ HttpClient \/ HttpClientAsync
    \/ AddRootCertificate \/ AllowAuthHost \/ InsecureAuth
    \/ Build

-----------------------------------------------------------------------------
(* Properties, stated over the calls and never over the builder's fields.  *)

Made(op)      == {i \in DOMAIN calls : calls[i].op = op}
Given(op)     == {calls[i].arg : i \in Made(op)}
LastOf(ops)   == {i \in DOMAIN calls : calls[i].op \in ops
                     /\ \A j \in DOMAIN calls : calls[j].op \in ops => j <= i}
Latest(op, default) ==
    IF Made(op) = {} THEN default ELSE calls[CHOOSE i \in LastOf({op}) : TRUE].arg
IsBuilt == built # None /\ built.error = None

\* A slot holds the client injected last, else one that trusts every certificate given.
SlotAsAsked(slot, setter) ==
    built.config[slot] =
        IF Made(setter) # {} THEN Injected(Latest(setter, None))
        ELSE IF Made("add_root_certificate") # {} /\ slot \in Slots(site)
             THEN [from |-> "certs", trusts |-> Given("add_root_certificate")]
             ELSE None

\* The built configuration is the one the calls ask for, in whatever order
\* they came and however often build() was called in between: the explicit
\* archive path wins over the derived one, the last toggle over unattended()
\* or the other way round, and each transport has the injected client, else
\* one that trusts all the certificates (macros.rs, common.rs build_client).
BuiltAsAsked ==
    IsBuilt =>
        /\ site.kind = "update" =>
            /\ built.config.bin_name = Latest("bin_name", None)
            /\ built.config.bin_path_in_archive =
                    Latest("bin_path_in_archive", Latest("bin_name", None))
            /\ \A i \in LastOf({"no_confirm", "unattended"}) :
                    built.config.no_confirm = calls[i].arg
            /\ \A i \in LastOf({"show_output", "unattended"}) :
                    built.config.show_output = (calls[i].op = "show_output" /\ calls[i].arg)
        /\ site.kind # "download" =>
            /\ SlotAsAsked("client", "http_client")
            /\ SlotAsAsked("async_client", "http_client_async")

\* The mistakes among the calls that this build can see: a header that is no
\* header, and a certificate that does not parse, when some transport uses it.
Mistakes ==
    \/ "invalid" \in Given("request_header")
    \/ /\ Unparsable(site.lib, Given("add_root_certificate"))
       /\ \E slot \in Slots(site) :
             Made(IF slot = "client" THEN "http_client" ELSE "http_client_async") = {}

\* build() succeeds exactly when no call was a mistake and nothing required
\* is missing: setters are infallible, and nothing that a later call does
\* makes a recorded mistake disappear (common.rs header_error, cert_error).
MistakesSurface ==
    built # None =>
        (built.error = None <=>
            /\ \/ site.missing = None
               \/ site.missing = "bin_name" /\ Made("bin_name") # {}
            /\ ~Mistakes)

=============================================================================
