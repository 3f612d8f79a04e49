-------------------------------- MODULE Fetch --------------------------------
(***************************************************************************)
(* http_fetch: handlers fetch URLs through one client, whose connection    *)
(* pool they share; everything else belongs to one fetch.  A fetch checks  *)
(* its URL, sends, and either follows a redirect, checking the next URL    *)
(* all over again, or reads the body under a cap.                          *)
(*                                                                         *)
(* The resolver, the transport and the origins are the environment: what   *)
(* they answer, in whatever order, is nondeterministic.  A URL is what the *)
(* rules look at, a body is its number of bytes.                           *)
(***************************************************************************)
EXTENDS Naturals, FiniteSets

CONSTANTS
    Fetches,      \* the calls, one thread each
    Urls,         \* what a model or a Location header may say
    Hosts,        \* hosts a URL may name
    AllowedHosts, \* policy.allowed_hosts
    Literals,     \* the hosts that are addresses themselves
    LinkLocal,    \* the literals in the link-local range
    Responses,    \* what an origin may answer
    Chunks,       \* how many bytes may arrive at once
    MaxBytes,     \* policy.max_bytes
    MaxRedirects, \* policy.max_redirects
    PoolSize      \* how many connections the client may hold

UrlType == [parses : BOOLEAN, scheme : {"http", "https", "other"},
            host : Hosts \cup {"none"}]

\* The head of a response and the body its origin has for it.  A header is the
\* set of its values, empty when it is absent.
ResponseType ==
    [status : {"redirect", "success", "error"}, location : SUBSET Urls,
     text : BOOLEAN, declared : SUBSET Nat, body : Nat]

ASSUME FetchAssumption ==
    /\ Urls \subseteq UrlType
    /\ AllowedHosts \subseteq Hosts
    /\ LinkLocal \subseteq Literals /\ Literals \subseteq Hosts
    /\ "none" \notin Hosts
    /\ Responses \subseteq ResponseType
    /\ Chunks \subseteq Nat \ {0}
    /\ MaxBytes \in Nat /\ MaxRedirects \in Nat
    /\ PoolSize \in Nat \ {0}

VARIABLES
    held,      \* the fetches that hold a connection of the pool
    pc,        \* where each fetch stands
    target,    \* the URL being fetched
    origin,    \* origin_host
    redirects, \* redirects followed, or refused, so far
    response,  \* the last response
    size,      \* bytes streamed so far, and not over the cap
    outcome,   \* what execute returned
    looked,    \* history: <<hop, host>> found free of link-local addresses
    asked      \* history: <<hop, url>> sent to the transport

vars == <<held, pc, target, origin, redirects, response, size, outcome,
          looked, asked>>

Steps == {"idle", "check", "resolve", "send", "hop", "head", "body", "done"}

Refusals == {"malformed_url", "scheme_not_allowed", "no_host",
             "host_not_allowed", "link_local_address", "too_many_redirects",
             "cross_host_redirect", "content_type_not_allowed", "too_large"}
Failures == {"transport_error", "http_status", "not_utf8", "raised"}
Outcomes == Refusals \cup Failures \cup {"none", "ok"}

NoResponse == [status |-> "error", location |-> {}, text |-> FALSE,
               declared |-> {}, body |-> 0]

Init ==
    /\ held = {}
    /\ pc = [f \in Fetches |-> "idle"]
    /\ target \in [Fetches -> Urls]
    /\ origin = [f \in Fetches |-> "none"]
    /\ redirects = [f \in Fetches |-> 0]
    /\ response = [f \in Fetches |-> NoResponse]
    /\ size = [f \in Fetches |-> 0]
    /\ outcome = [f \in Fetches |-> "none"]
    /\ looked = [f \in Fetches |-> {}]
    /\ asked = [f \in Fetches |-> {}]

Goto(f, step) == pc' = [pc EXCEPT ![f] = step]

Return(f, how) ==
    /\ Goto(f, "done")
    /\ outcome' = [outcome EXCEPT ![f] = how]

GoOn(f, step) == Goto(f, step) /\ UNCHANGED outcome

Release(f) == held' = held \ {f}

-----------------------------------------------------------------------------
(* _check_url: scheme, host and allowlist, then addresses.                 *)

UrlFault(url) ==
    IF ~url.parses THEN "malformed_url"
    ELSE IF url.scheme = "other" THEN "scheme_not_allowed"
    ELSE IF url.host = "none" THEN "no_host"
    ELSE IF url.host \notin AllowedHosts THEN "host_not_allowed"
    ELSE "none"

Start(f) ==
    /\ pc[f] = "idle"
    /\ Goto(f, "check")
    /\ UNCHANGED <<held, target, origin, redirects, response, size, outcome,
                   looked, asked>>

CheckUrl(f) ==
    /\ pc[f] = "check"
    /\ \/ UrlFault(target[f]) = "none" /\ GoOn(f, "resolve")
       \/ UrlFault(target[f]) # "none" /\ Return(f, UrlFault(target[f]))
    /\ UNCHANGED <<held, target, origin, redirects, response, size, looked,
                   asked>>

\* What _addresses_of may give: a literal answers for itself, a name is
\* whatever the resolver says this time, if it does not raise.
Addresses(host) ==
    IF host \in Literals
    THEN {IF host \in LinkLocal THEN "link_local" ELSE "clear"}
    ELSE {"clear", "link_local", "raised"}

Looked(f) == looked' = [looked EXCEPT ![f] =
                            @ \cup {<<redirects[f], target[f].host>>}]

\* The first URL's host becomes origin_host; later hops already have it.
Resolve(f) ==
    /\ pc[f] = "resolve"
    /\ \E addresses \in Addresses(target[f].host) :
          \/ /\ addresses = "clear"
             /\ Looked(f)
             /\ origin' = [origin EXCEPT ![f] = target[f].host]
             /\ GoOn(f, "send")
          \/ /\ addresses = "link_local"
             /\ Return(f, "link_local_address")
             /\ UNCHANGED <<looked, origin>>
          \/ /\ addresses = "raised"
             /\ Return(f, "raised")
             /\ UNCHANGED <<looked, origin>>
    /\ UNCHANGED <<held, target, redirects, response, size, asked>>

-----------------------------------------------------------------------------
(* _send: a connection of the pool is taken, or waited for.                *)

Asked(f) == asked' = [asked EXCEPT ![f] = @ \cup {<<redirects[f], target[f]>>}]

Answer(f, r) ==
    /\ pc[f] = "send"
    /\ Cardinality(held) < PoolSize
    /\ held' = held \cup {f}
    /\ Asked(f)
    /\ response' = [response EXCEPT ![f] = r]
    /\ GoOn(f, IF r.status = "redirect" THEN "hop" ELSE "head")
    /\ UNCHANGED <<target, origin, redirects, size, looked>>

\* No connection within the timeout, none to be made, or none that answers.
SendFails(f) ==
    /\ pc[f] = "send"
    /\ Asked(f)
    /\ Return(f, "transport_error")
    /\ UNCHANGED <<held, target, origin, redirects, response, size, looked>>

-----------------------------------------------------------------------------
(* The redirect loop and _next_hop.                                        *)

\* join: without a Location header, the URL that was answered.  httpx parses the
\* header of a 301, 302, 303, 307 or 308 when it builds the response, and one that
\* is no URL is a transport error of _send; that of another 3xx comes here as it is.
Location(f) ==
    IF response[f].location = {} THEN target[f]
    ELSE CHOOSE url \in response[f].location : TRUE

\* Mutant: a redirect to the URL it answers is not counted.
CountMoves(f) ==
    IF Location(f) = target[f] THEN redirects[f] ELSE redirects[f] + 1

Counted(f) == redirects[f] + 1

\* Mutant: the comparison is off by one.
OneTooMany(f) == Counted(f) > MaxRedirects + 1

TooMany(f) == Counted(f) > MaxRedirects

\* Mutant: the first hop's check is taken to hold for the next.
SendOn == "send"

\* Where an accepted redirect resumes.
NextStep == "check"

\* Mutant: the redirect's response is closed by whoever sends next.
KeepOpen(f) == UNCHANGED held

CloseRedirect(f) == Release(f)

\* The cap is checked first; then join raises if the header is no URL, and nothing
\* in execute stands in its way; then the host is compared.
Redirect(f) ==
    /\ pc[f] = "hop"
    /\ CloseRedirect(f)
    /\ redirects' = [redirects EXCEPT ![f] = Counted(f)]
    /\ \/ /\ TooMany(f)
          /\ Return(f, "too_many_redirects")
          /\ UNCHANGED target
       \/ /\ ~TooMany(f) /\ ~Location(f).parses
          /\ Return(f, "raised")
          /\ UNCHANGED target
       \/ /\ ~TooMany(f) /\ Location(f).parses
          /\ Location(f).host # origin[f]
          /\ Return(f, "cross_host_redirect")
          /\ UNCHANGED target
       \/ /\ ~TooMany(f) /\ Location(f).parses
          /\ Location(f).host = origin[f]
          /\ target' = [target EXCEPT ![f] = Location(f)]
          /\ GoOn(f, NextStep)
    /\ UNCHANGED <<origin, response, size, looked, asked>>

-----------------------------------------------------------------------------
(* _read: the head, then the body under the cap.  Every way out closes.    *)

HeadFault(r) ==
    IF r.status = "error" THEN "http_status"
    ELSE IF ~r.text THEN "content_type_not_allowed"
    ELSE IF \E length \in r.declared : length > MaxBytes THEN "too_large"
    ELSE "none"

ReadHead(f) ==
    /\ pc[f] = "head"
    /\ \/ /\ HeadFault(response[f]) = "none"
          /\ GoOn(f, "body")
          /\ UNCHANGED held
       \/ /\ HeadFault(response[f]) # "none"
          /\ Return(f, HeadFault(response[f]))
          /\ Release(f)
    /\ UNCHANGED <<target, origin, redirects, response, size, looked, asked>>

\* Mutant: the transfer stops at the cap and what came before it is returned.
StopAtCap(f) == Return(f, "ok") /\ Release(f) /\ UNCHANGED size

OverCap(f) == Return(f, "too_large") /\ Release(f) /\ UNCHANGED size

ReadChunk(f, n) ==
    /\ pc[f] = "body"
    /\ size[f] + n <= response[f].body
    /\ \/ /\ size[f] + n > MaxBytes
          /\ OverCap(f)
       \/ /\ size[f] + n <= MaxBytes
          /\ size' = [size EXCEPT ![f] = @ + n]
          /\ UNCHANGED <<pc, outcome, held>>
    /\ UNCHANGED <<target, origin, redirects, response, looked, asked>>

\* The body has arrived; it is decoded, or is not UTF-8.
ReadEnd(f) ==
    /\ pc[f] = "body"
    /\ size[f] = response[f].body
    /\ \E how \in {"ok", "not_utf8"} : Return(f, how)
    /\ Release(f)
    /\ UNCHANGED <<target, origin, redirects, response, size, looked, asked>>

ReadFails(f) ==
    /\ pc[f] = "body"
    /\ Return(f, "transport_error")
    /\ Release(f)
    /\ UNCHANGED <<target, origin, redirects, response, size, looked, asked>>

-----------------------------------------------------------------------------
\* What a started fetch and its transport do: every wait on the transport has
\* a timeout, so one of them always happens.
Execute(f) ==
    \/ CheckUrl(f)
    \/ \E r \in Responses : Answer(f, r)
    \/ SendFails(f) \/ Redirect(f) \/ ReadHead(f)
    \/ \E n \in Chunks : ReadChunk(f, n)
    \/ ReadEnd(f) \/ ReadFails(f)

Next == \E f \in Fetches : Start(f) \/ Resolve(f) \/ Execute(f)

Spec == Init /\ [][Next]_vars

\* The resolver is the application's and owes no answer.
FairSpec == Spec /\ \A f \in Fetches : WF_vars(Execute(f))

-----------------------------------------------------------------------------
(* Properties.                                                             *)

\* A redirect is counted before it is judged, so one more than MaxRedirects
\* may be seen; never does more of a body than the cap stay in memory.
TypeOK ==
    /\ held \subseteq Fetches
    /\ pc \in [Fetches -> Steps]
    /\ target \in [Fetches -> Urls]
    /\ origin \in [Fetches -> Hosts \cup {"none"}]
    /\ redirects \in [Fetches -> 0 .. MaxRedirects + 1]
    /\ response \in [Fetches -> Responses \cup {NoResponse}]
    /\ size \in [Fetches -> 0 .. MaxBytes]
    /\ outcome \in [Fetches -> Outcomes]
    /\ looked \in [Fetches -> SUBSET (Nat \X Hosts)]
    /\ asked \in [Fetches -> SUBSET (Nat \X Urls)]

\* Every request a fetch makes, the first and each redirect's, is to a URL
\* that passed every rule at that very hop: scheme, allowlist, and addresses
\* looked up for this hop rather than an earlier one.  All are to one host,
\* and there are no more of them than the redirect limit allows.
Cleared(f, hop, url) ==
    /\ url.scheme \in {"http", "https"}
    /\ url.host \in AllowedHosts \ LinkLocal
    /\ <<hop, url.host>> \in looked[f]
    /\ url.host = origin[f]
    /\ hop <= MaxRedirects

EveryHopCleared ==
    \A f \in Fetches : \A p \in asked[f] : Cleared(f, p[1], p[2])

\* A fetch holds a connection exactly while it has an unfinished response: it
\* never waits for a second one while it keeps the first, and no way out of it
\* leaves one behind, so finished fetches cannot exhaust the pool.
ConnectionsReturned ==
    /\ held = {f \in Fetches : pc[f] \in {"hop", "head", "body"}}
    /\ Cardinality(held) <= PoolSize

\* A body is returned whole or not at all, and none of it is read before the
\* status, the content type and the declared length have been accepted.
WholeBodyOrNone ==
    \A f \in Fetches :
        /\ outcome[f] = "ok" => pc[f] = "done" /\ size[f] = response[f].body
        /\ size[f] > 0 \/ outcome[f] = "ok" => HeadFault(response[f]) = "none"

\* Whatever the origins answer, redirect loops and endless bodies included, a
\* fetch ends, unless the resolver keeps it waiting for ever.
EveryFetchEnds ==
    \A f \in Fetches :
        []<>(pc[f] # "resolve") => (pc[f] # "idle" ~> pc[f] = "done")
=============================================================================
