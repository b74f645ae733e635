------------------------------- MODULE Pages -------------------------------
(***************************************************************************)
(* The walk over the pages of a listing (run_paginated, send and retry in  *)
(* src/backends/mod.rs, with their async twins, and apply_auth in          *)
(* backends/common.rs): ask for a page, retry the request, read the body,  *)
(* parse it, keep its items and go on to the page that it names.           *)
(*                                                                         *)
(* What a page holds and how it is parsed is the backend's: Listing and    *)
(* ObjectStore extend this module with a server and a parser.              *)
(***************************************************************************)
EXTENDS Integers, FiniteSets, SequencesExt

CONSTANTS
  MaxPages,    \* MAX_RELEASE_PAGES
  Retries,     \* RequestConfig::retries
  Hosts,       \* where a page can be: a host and a scheme
  Trusted,     \* those for which auth_allowed_for holds, if there is a credential
  Nowhere      \* no next page

ASSUME MaxPagesAssumption == MaxPages \in Nat \ {0}
ASSUME RetriesAssumption == Retries \in Nat
ASSUME TrustedAssumption == Trusted \subseteq Hosts
ASSUME NowhereAssumption == Nowhere \notin [at : Nat, host : Hosts]

VARIABLES
  pc,          \* "idle", "request", "body", then "done" or "failed"
  request,     \* the page that is asked for: [at, host]
  authorized,  \* the request carries the credential
  answer,      \* what the server has answered: [listed, next], listed a set
  out,         \* the items of the pages so far
  pages,       \* how many pages have been parsed
  attempts,    \* how often the request has been retried
  error,       \* why the walk failed
  capped       \* history: the walk stopped at MaxPages with a page to go

driver == <<pc, request, authorized, answer, out, pages, attempts, error, capped>>

NoAnswer == [listed |-> {}, next |-> Nowhere]

(* What a page lists is a set of numbers, and their order is the page's:   *)
(* ascending for the keys of a bucket, descending for the releases of a    *)
(* forge.                                                                  *)
Ascending(S) ==
  CHOOSE s \in [1..Cardinality(S) -> S] :
    \A i, j \in 1..Cardinality(S) : i < j => s[i] < s[j]

Descending(S) == Reverse(Ascending(S))

InitDriver ==
  /\ pc = "idle"
  /\ request = Nowhere
  /\ authorized = FALSE
  /\ answer = NoAnswer
  /\ out = <<>>
  /\ pages = 0
  /\ attempts = 0
  /\ error = "none"
  /\ capped = FALSE

Walking == pc \in {"request", "body"}

(* send: the host of this very request decides on the credential.          *)
Ask(r) ==
  /\ pc' = "request"
  /\ request' = r
  /\ authorized' = (r.host \in Trusted)
  /\ attempts' = 0
  /\ UNCHANGED capped

Begin(first) ==
  /\ pc = "idle"
  /\ Ask(first)
  /\ UNCHANGED <<answer, out, pages, error>>

(* The request is answered; its body is still on the way.                  *)
Answered(a) ==
  /\ pc = "request"
  /\ answer' = a
  /\ pc' = "body"
  /\ UNCHANGED <<request, authorized, out, pages, attempts, error, capped>>

Fail(why) ==
  /\ pc' = "failed"
  /\ error' = why
  /\ answer' = NoAnswer
  /\ UNCHANGED <<request, authorized, out, pages, attempts, capped>>

(* A request fails, or is answered with a status that is not 2xx.          *)
RequestFails ==
  /\ pc = "request"
  /\ IF attempts < Retries
       THEN /\ attempts' = attempts + 1
            /\ UNCHANGED <<pc, request, authorized, answer, out, pages, error, capped>>
       ELSE Fail("request")

(* The body breaks off or is larger than MAX_LISTING_BODY_BYTES: only the  *)
(* request is retried, never the body.                                     *)
BodyFails ==
  /\ pc = "body"
  /\ Fail("body")

(* Mutant of IsLast: one page more.                                        *)
IsLastOneMore(page) == page.stop \/ page.next = Nowhere \/ pages + 1 > MaxPages

IsLast(page) == page.stop \/ page.next = Nowhere \/ pages + 1 >= MaxPages

(* Mutant of Keep: a page that adds nothing is not counted.                *)
KeepUncounted(page) ==
  /\ pc = "body"
  /\ out' = out \o page.items
  /\ pages' = IF page.items = <<>> THEN pages ELSE pages + 1
  /\ answer' = NoAnswer
  /\ IF IsLast(page)
       THEN /\ pc' = "done"
            /\ capped' = (~page.stop /\ page.next # Nowhere)
            /\ UNCHANGED <<request, authorized, attempts>>
       ELSE Ask(page.next)
  /\ UNCHANGED error

(* A page [items, next, stop] that was parsed.                             *)
Keep(page) ==
  /\ pc = "body"
  /\ out' = out \o page.items
  /\ pages' = pages + 1
  /\ answer' = NoAnswer
  /\ IF IsLast(page)
       THEN /\ pc' = "done"
            /\ capped' = (~page.stop /\ page.next # Nowhere)
            /\ UNCHANGED <<request, authorized, attempts>>
       ELSE Ask(page.next)
  /\ UNCHANGED error
=============================================================================
