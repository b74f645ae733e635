----------------------------- MODULE MCRequests -----------------------------
(* Every backend's builders on both HTTP libraries, three to four calls of *)
(* one menu each: naming, transport and mistakes, credentials, timing.     *)
EXTENDS Requests

Site(kind, backend, lib, missing) ==
    [kind |-> kind, backend |-> backend, lib |-> lib, missing |-> missing]

AllBackends == ApiBackends \cup {"s3", "manifest", "custom"}

MCSites ==
    {Site("update", k, "reqwest", None) : k \in AllBackends}
    \cup {Site("list", k, "reqwest", None) : k \in ApiBackends \cup {"s3"}}
    \cup {Site("source", "manifest", "reqwest", None), Site("download", "none", "reqwest", None)}
    \cup {Site("update", "github", "ureq", None), Site("download", "none", "ureq", None)}

\* A required field is left out, of each kind of field once.
MCIncomplete ==
    {Site("update", "github", "reqwest", f) : f \in {"repo_name", "current_version", "bin_name"}}
    \cup {Site("list", "gitea", "reqwest", "host"), Site("update", "gitea", "reqwest", "host"),
          Site("list", "s3", "reqwest", "region"), Site("update", "s3", "reqwest", "bucket_name"),
          Site("update", "manifest", "reqwest", "manifest_url"),
          Site("update", "custom", "reqwest", "source")}
MCAllSites == MCSites \cup MCIncomplete

MCMenus == <<
    [bin_name |-> {"app", "tool"}, bin_path_in_archive |-> {"bin/app"},
     no_confirm |-> {FALSE}, show_output |-> {TRUE}, unattended |-> {TRUE}],
    [request_header |-> {"other", "invalid"}, http_client |-> {"client", "agent"},
     http_client_async |-> {"client"}, add_root_certificate |-> {"good", "badPem", "badDer"}],
    [request_header |-> {"other", "invalid"}, replace_headers |-> {{}, {"Authorization"}},
     timeout |-> {30}, add_root_certificate |-> {"good", "badPem", "badDer"}],
    [request_header |-> {"Authorization", "other"}, auth_token |-> {"token", "unencodable"},
     allow_auth_host |-> {"cdn"}, insecure_auth |-> {TRUE}],
    [request_header |-> {"Authorization"}, allow_auth_host |-> {"cdn", "local"},
     insecure_auth |-> {TRUE}],
    [timeout |-> {30}, retries |-> {1, 3}, retry_backoff |-> {<<3, 7>>, <<3, 2>>},
     http_client |-> {"client", "agent"}, add_root_certificate |-> {"good"}] >>

MCUrls == [host : {"api", "cdn", "local"}, scheme : {"https", "http"}]
MCLoopback == {"local"}
=============================================================================
