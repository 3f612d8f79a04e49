----------------------------- MODULE FetchProofs -----------------------------
(***************************************************************************)
(* For every number of fetches, every policy, every resolver and every     *)
(* origin: each request is to a URL cleared at its own hop, the pool's     *)
(* connections are returned, and a body is returned whole or not at all.   *)
(***************************************************************************)
EXTENDS Fetch, FiniteSetTheorems, TLAPS

\* A URL that passed _check_url's rules on the URL itself.
Admitted(url) ==
    url.scheme \in {"http", "https"} /\ url.host \in AllowedHosts

\* What a fetch has established when it stands where it stands.  Before its
\* first lookup it has asked for nothing and has no origin; from then on the
\* URL it is about to check or send is on its origin's host.
Placed(f) ==
    /\ pc[f] = "idle" => redirects[f] = 0
    /\ pc[f] \in Steps \ {"done"} => redirects[f] <= MaxRedirects
    /\ pc[f] \in {"idle", "check", "resolve"}
          => (origin[f] = "none" /\ asked[f] = {}) \/ target[f].host = origin[f]
    /\ pc[f] \in {"resolve", "send"} => Admitted(target[f])
    /\ pc[f] = "send" => /\ target[f].host = origin[f]
                         /\ target[f].host \notin LinkLocal
                         /\ <<redirects[f], target[f].host>> \in looked[f]
    /\ \A p \in asked[f] : Cleared(f, p[1], p[2])

HopInv == \A f \in Fetches : Placed(f)

FInv == TypeOK /\ HopInv

LEMMA UrlTypes ==
    ASSUME NEW url \in Urls
    PROVE  /\ url.parses \in BOOLEAN
           /\ url.scheme \in {"http", "https", "other"}
           /\ url.host \in Hosts \cup {"none"}
<1>1. url \in UrlType
  BY FetchAssumption
<1>2. QED
  BY <1>1 DEF UrlType

LEMMA Admission ==
    ASSUME NEW url \in Urls
    PROVE  /\ UrlFault(url) \in Outcomes
           /\ UrlFault(url) = "none" => Admitted(url)
  BY UrlTypes DEF UrlFault, Admitted, Outcomes, Refusals

LEMMA HeadVerdict ==
    ASSUME NEW r
    PROVE  HeadFault(r) \in Outcomes
  BY DEF HeadFault, Outcomes, Refusals, Failures

\* A Location header names a URL, and so does joining to nothing.
LEMMA LocationTyped ==
    ASSUME TypeOK, NEW f \in Fetches
    PROVE  Location(f) \in Urls
<1>1. response[f].location \in SUBSET Urls
  <2>1. CASE response[f] \in Responses
    BY <2>1, FetchAssumption DEF ResponseType
  <2>2. CASE response[f] = NoResponse
    BY <2>2 DEF NoResponse
  <2>3. QED
    BY <2>1, <2>2 DEF TypeOK
<1>2. CASE response[f].location = {}
  BY <1>2 DEF Location, TypeOK
<1>3. CASE response[f].location # {}
  BY <1>1, <1>3 DEF Location
<1>4. QED
  BY <1>2, <1>3

LEMMA InitFInv == Init => FInv
<1> SUFFICES ASSUME Init PROVE FInv
  OBVIOUS
<1>1. TypeOK
  BY FetchAssumption DEF Init, TypeOK, Steps, Outcomes
<1>2. ASSUME NEW f \in Fetches PROVE Placed(f)
  BY FetchAssumption DEF Init, Placed
<1>3. QED
  BY <1>1, <1>2 DEF FInv, HopInv

\* Types are kept: a redirect is counted only while the limit is not passed,
\* a chunk only while it fits the cap.
LEMMA NextTypeOK == FInv /\ [Next]_vars => TypeOK'
<1> SUFFICES ASSUME FInv, [Next]_vars PROVE TypeOK'
  OBVIOUS
<1>a. TypeOK
  BY DEF FInv
<1> USE <1>a DEF TypeOK, Goto, GoOn, Return, Release
<1>1. ASSUME NEW f \in Fetches, Start(f) PROVE TypeOK'
  BY <1>1 DEF Start, Steps
<1>2. ASSUME NEW f \in Fetches, CheckUrl(f) PROVE TypeOK'
  BY <1>2, Admission DEF CheckUrl, Steps
<1>3. ASSUME NEW f \in Fetches, Resolve(f) PROVE TypeOK'
  <2>1. target[f].host \in Hosts
    BY <1>3, FetchAssumption DEF Resolve, FInv, HopInv, Placed, Admitted
  <2>2. <<redirects[f], target[f].host>> \in Nat \X Hosts
    BY <2>1, FetchAssumption
  <2>3. /\ origin' \in [Fetches -> Hosts \cup {"none"}]
        /\ looked' \in [Fetches -> SUBSET (Nat \X Hosts)]
    BY <1>3, <2>1, <2>2 DEF Resolve, Looked
  <2>4. /\ pc' \in [Fetches -> Steps]
        /\ outcome' \in [Fetches -> Outcomes]
    BY <1>3 DEF Resolve, Steps, Outcomes, Refusals, Failures
  <2>5. QED
    BY <1>3, <2>3, <2>4 DEF Resolve
<1>4. ASSUME NEW f \in Fetches, NEW r \in Responses, Answer(f, r)
      PROVE  TypeOK'
  <2>1. <<redirects[f], target[f]>> \in Nat \X Urls
    BY FetchAssumption
  <2>2. asked' \in [Fetches -> SUBSET (Nat \X Urls)]
    BY <1>4, <2>1 DEF Answer, Asked
  <2>3. pc' \in [Fetches -> Steps]
    BY <1>4 DEF Answer, Steps
  <2>4. QED
    BY <1>4, <2>2, <2>3 DEF Answer
<1>5. ASSUME NEW f \in Fetches, SendFails(f) PROVE TypeOK'
  <2>1. <<redirects[f], target[f]>> \in Nat \X Urls
    BY FetchAssumption
  <2>2. asked' \in [Fetches -> SUBSET (Nat \X Urls)]
    BY <1>5, <2>1 DEF SendFails, Asked
  <2>3. QED
    BY <1>5, <2>2 DEF SendFails, Steps, Outcomes, Failures
<1>6. ASSUME NEW f \in Fetches, Redirect(f) PROVE TypeOK'
  <2>0. Placed(f) /\ pc[f] = "hop"
    BY <1>6 DEF FInv, HopInv, Redirect
  <2>1. redirects[f] <= MaxRedirects /\ redirects[f] \in Nat
    BY <2>0, FetchAssumption DEF Placed, Steps
  <2>2. redirects' \in [Fetches -> 0 .. MaxRedirects + 1]
    BY <1>6, <2>1, FetchAssumption DEF Redirect, Counted
  <2>3. target' \in [Fetches -> Urls]
    BY <1>6, LocationTyped DEF Redirect
  <2>4. /\ pc' \in [Fetches -> Steps]
        /\ outcome' \in [Fetches -> Outcomes]
    BY <1>6 DEF Redirect, NextStep, Steps, Outcomes, Refusals, Failures
  <2>5. QED
    BY <1>6, <2>2, <2>3, <2>4 DEF Redirect, CloseRedirect
<1>7. ASSUME NEW f \in Fetches, ReadHead(f) PROVE TypeOK'
  BY <1>7, HeadVerdict DEF ReadHead, Steps
<1>8. ASSUME NEW f \in Fetches, NEW n \in Chunks, ReadChunk(f, n)
      PROVE  TypeOK'
  <2>1. size' \in [Fetches -> 0 .. MaxBytes]
    BY <1>8, FetchAssumption DEF ReadChunk, OverCap
  <2>2. QED
    BY <1>8, <2>1 DEF ReadChunk, OverCap, Steps, Outcomes, Refusals
<1>9. ASSUME NEW f \in Fetches, ReadEnd(f) PROVE TypeOK'
  BY <1>9 DEF ReadEnd, Steps, Outcomes, Failures
<1>10. ASSUME NEW f \in Fetches, ReadFails(f) PROVE TypeOK'
  BY <1>10 DEF ReadFails, Steps, Outcomes, Failures
<1>11. CASE UNCHANGED vars
  BY <1>11 DEF vars
<1>12. QED
  BY <1>1, <1>2, <1>3, <1>4, <1>5, <1>6, <1>7, <1>8, <1>9, <1>10, <1>11
     DEF Next, Execute

LEMMA NextHopInv == FInv /\ [Next]_vars => HopInv'
<1> SUFFICES ASSUME FInv, [Next]_vars, NEW f \in Fetches PROVE Placed(f)'
  BY DEF HopInv
<1>a. TypeOK /\ Placed(f)
  BY DEF FInv, HopInv
\* Another fetch's step, or one after which there is nothing left to send.
<1>b. ASSUME UNCHANGED <<pc[f], target[f], origin[f], redirects[f], looked[f],
                         asked[f]>>
      PROVE  Placed(f)'
  BY <1>a, <1>b DEF Placed, Cleared
<1>c. ASSUME UNCHANGED <<target[f], origin[f], redirects[f], looked[f],
                         asked[f]>>,
             pc[f] \in {"head", "body", "check", "resolve"},
             pc'[f] \in {"body", "done"}
      PROVE  Placed(f)'
  BY <1>a, <1>c DEF Placed, Cleared, Steps
<1> USE <1>a DEF TypeOK, Goto, GoOn, Return, Release
<1>1. ASSUME NEW g \in Fetches, Start(g) PROVE Placed(f)'
  <2>1. CASE f = g
    BY <1>1, <2>1 DEF Start, Placed, Cleared, Steps
  <2>2. CASE f # g
    BY <1>1, <2>2, <1>b DEF Start
  <2>3. QED
    BY <2>1, <2>2
<1>2. ASSUME NEW g \in Fetches, CheckUrl(g) PROVE Placed(f)'
  <2>1. CASE f = g /\ UrlFault(target[g]) = "none"
    <3>1. Admitted(target[f])
      BY <2>1, Admission
    <3>2. QED
      BY <1>2, <2>1, <3>1 DEF CheckUrl, Placed, Cleared, Admitted, Steps
  <2>2. CASE f = g /\ UrlFault(target[g]) # "none"
    BY <1>2, <2>2, <1>c DEF CheckUrl
  <2>3. CASE f # g
    BY <1>2, <2>3, <1>b DEF CheckUrl
  <2>4. QED
    BY <2>1, <2>2, <2>3
<1>3. ASSUME NEW g \in Fetches, Resolve(g) PROVE Placed(f)'
  <2>1. CASE f # g
    BY <1>3, <2>1, <1>b DEF Resolve, Looked
  <2>2. CASE f = g /\ pc'[f] = "done"
    <3>1. UNCHANGED <<target, origin, redirects, looked, asked>>
      BY <1>3, <2>2 DEF Resolve
    <3>2. QED
      BY <1>3, <2>2, <3>1, <1>c DEF Resolve
  <2>3. CASE f = g /\ pc'[f] = "send"
    <3>1. /\ pc[f] = "resolve"
          /\ "clear" \in Addresses(target[f].host)
          /\ looked'[f] = looked[f] \cup {<<redirects[f], target[f].host>>}
          /\ origin'[f] = target[f].host
          /\ UNCHANGED <<target, redirects, asked>>
      BY <1>3, <2>3 DEF Resolve, Looked
    <3>2. target[f].host \notin LinkLocal
      BY <3>1, FetchAssumption DEF Addresses
    <3>3. Admitted(target[f])
      BY <3>1 DEF Placed
    <3>4. ASSUME NEW p \in asked[f] PROVE Cleared(f, p[1], p[2])'
      <4>1. Cleared(f, p[1], p[2])
        BY DEF Placed
      <4>2. origin[f] = target[f].host
        BY <3>1, <3>4 DEF Placed
      <4>3. QED
        BY <3>1, <4>1, <4>2 DEF Cleared
    <3>5. redirects[f] <= MaxRedirects
      BY <3>1 DEF Placed, Steps
    <3>6. QED
      BY <2>3, <3>1, <3>2, <3>3, <3>4, <3>5 DEF Placed, Admitted
  <2>4. QED
    BY <1>3, <2>1, <2>2, <2>3 DEF Resolve
<1>4. ASSUME NEW g \in Fetches,
             SendFails(g) \/ \E r \in Responses : Answer(g, r)
      PROVE  Placed(f)'
  <2>1. CASE f # g
    BY <1>4, <2>1, <1>b DEF Answer, SendFails, Asked
  <2>2. CASE f = g
    <3>1. /\ pc[f] = "send" /\ pc'[f] \in {"hop", "head", "done"}
          /\ asked'[f] = asked[f] \cup {<<redirects[f], target[f]>>}
          /\ UNCHANGED <<target, origin, redirects, looked>>
      BY <1>4, <2>2 DEF Answer, SendFails, Asked
    <3>2. Cleared(f, redirects[f], target[f])
      BY <3>1 DEF Placed, Cleared, Admitted, Steps
    <3>3. \A p \in asked'[f] : Cleared(f, p[1], p[2])
      BY <3>1, <3>2 DEF Placed
    <3>4. redirects[f] <= MaxRedirects
      BY <3>1 DEF Placed, Steps
    <3>5. QED
      BY <3>1, <3>3, <3>4 DEF Placed, Cleared
  <2>3. QED
    BY <2>1, <2>2
<1>5. ASSUME NEW g \in Fetches, Redirect(g) PROVE Placed(f)'
  <2>1. CASE f # g
    BY <1>5, <2>1, <1>b DEF Redirect
  <2>2. CASE f = g
    <3>1. /\ redirects[f] \in Nat
          /\ redirects'[f] = redirects[f] + 1
          /\ UNCHANGED <<origin, looked, asked>>
          /\ \A p \in asked[f] : Cleared(f, p[1], p[2])
      BY <1>5, <2>2, FetchAssumption DEF Redirect, Counted, Placed
    <3>2. \A p \in asked'[f] : Cleared(f, p[1], p[2])'
      BY <3>1 DEF Cleared
    <3>3. CASE pc'[f] = "done"
      BY <3>2, <3>3 DEF Placed
    <3>4. CASE pc'[f] = "check"
      <4>1. /\ redirects[f] + 1 <= MaxRedirects
            /\ target'[f].host = origin[f]
        BY <1>5, <2>2, <3>1, <3>4, FetchAssumption
           DEF Redirect, TooMany, Counted
      <4>2. QED
        BY <3>1, <3>2, <3>4, <4>1 DEF Placed
    <3>5. QED
      BY <1>5, <2>2, <3>3, <3>4 DEF Redirect, NextStep
  <2>3. QED
    BY <2>1, <2>2
<1>6. ASSUME NEW g \in Fetches,
             \/ ReadHead(g) \/ ReadEnd(g) \/ ReadFails(g)
             \/ \E n \in Chunks : ReadChunk(g, n)
      PROVE  Placed(f)'
  <2>1. UNCHANGED <<target, origin, redirects, looked, asked>>
    BY <1>6 DEF ReadHead, ReadEnd, ReadFails, ReadChunk
  <2>2. \/ UNCHANGED pc[f]
        \/ pc[f] \in {"head", "body"} /\ pc'[f] \in {"body", "done"}
    BY <1>6 DEF ReadHead, ReadEnd, ReadFails, ReadChunk, OverCap
  <2>3. QED
    BY <2>1, <2>2, <1>b, <1>c
<1>7. CASE UNCHANGED vars
  BY <1>7, <1>b DEF vars
<1>8. QED
  BY <1>1, <1>2, <1>3, <1>4, <1>5, <1>6, <1>7 DEF Next, Execute

\* Fetches keep their types: redirects and bytes within their limits.
THEOREM FetchTypes == Spec => []TypeOK
<1>1. FInv /\ [Next]_vars => FInv'
  BY NextTypeOK, NextHopInv DEF FInv
<1>2. FInv => TypeOK
  BY DEF FInv
<1>3. QED
  BY InitFInv, <1>1, <1>2, PTL DEF Spec

\* Every request is to a URL that passed every rule at its own hop.
THEOREM HopsCleared == Spec => []EveryHopCleared
<1>1. FInv /\ [Next]_vars => FInv'
  BY NextTypeOK, NextHopInv DEF FInv
<1>2. FInv => EveryHopCleared
  BY DEF FInv, HopInv, Placed, EveryHopCleared
<1>3. QED
  BY InitFInv, <1>1, <1>2, PTL DEF Spec

(***************************************************************************)
(* The pool and the body.                                                  *)
(***************************************************************************)

\* A connection is taken for the response being handled, and returned by
\* every step that leaves it.
PoolInv ==
    /\ ConnectionsReturned
    /\ IsFiniteSet(held)

LEMMA NextPoolInv == TypeOK /\ PoolInv /\ [Next]_vars => PoolInv'
<1> SUFFICES ASSUME TypeOK, PoolInv, [Next]_vars PROVE PoolInv'
  OBVIOUS
<1> DEFINE Holding == {f \in Fetches : pc[f] \in {"hop", "head", "body"}}
<1>a. held = Holding /\ IsFiniteSet(held) /\ Cardinality(held) <= PoolSize
  BY DEF PoolInv, ConnectionsReturned
\* A fetch that keeps what it has.
<1>b. ASSUME held' = held, held' = Holding' PROVE PoolInv'
  BY <1>a, <1>b DEF PoolInv, ConnectionsReturned
\* A fetch that gives up its connection.
<1>c. ASSUME NEW g \in held, held' = held \ {g}, held' = Holding'
      PROVE  PoolInv'
  <2>1. /\ IsFiniteSet(held \ {g})
        /\ Cardinality(held \ {g}) = Cardinality(held) - 1
    BY <1>a, <1>c, FS_RemoveElement
  <2>2. Cardinality(held) \in Nat
    BY <1>a, FS_CardinalityType
  <2>3. Cardinality(held \ {g}) <= PoolSize
    BY <1>a, <2>1, <2>2, FetchAssumption
  <2>4. QED
    BY <1>c, <2>1, <2>3 DEF PoolInv, ConnectionsReturned
<1> USE DEF TypeOK, Goto, GoOn, Return, Release
<1>1. ASSUME NEW g \in Fetches,
             Start(g) \/ CheckUrl(g) \/ Resolve(g) \/ SendFails(g)
      PROVE  PoolInv'
  <2>1. /\ held' = held
        /\ \A f \in Fetches : f # g => pc'[f] = pc[f]
        /\ pc[g] \notin {"hop", "head", "body"}
        /\ pc'[g] \notin {"hop", "head", "body"}
    BY <1>1 DEF Start, CheckUrl, Resolve, SendFails
  <2>2. held' = Holding'
    BY <1>a, <2>1
  <2>3. QED
    BY <1>b, <2>1, <2>2
<1>2. ASSUME NEW g \in Fetches, NEW r \in Responses, Answer(g, r)
      PROVE  PoolInv'
  <2>1. /\ held' = held \cup {g} /\ Cardinality(held) < PoolSize
        /\ \A f \in Fetches : f # g => pc'[f] = pc[f]
        /\ pc[g] = "send" /\ pc'[g] \in {"hop", "head"}
    BY <1>2 DEF Answer
  <2>2. held' = Holding' /\ g \notin held
    BY <1>a, <2>1
  <2>3. /\ IsFiniteSet(held \cup {g})
        /\ Cardinality(held \cup {g}) = Cardinality(held) + 1
    BY <1>a, <2>2, FS_AddElement
  <2>4. Cardinality(held) \in Nat
    BY <1>a, FS_CardinalityType
  <2>5. Cardinality(held \cup {g}) <= PoolSize
    BY <2>1, <2>3, <2>4, FetchAssumption
  <2>6. QED
    BY <2>1, <2>2, <2>3, <2>5 DEF PoolInv, ConnectionsReturned
<1>3. ASSUME NEW g \in Fetches,
             \/ Redirect(g) \/ ReadHead(g) \/ ReadEnd(g) \/ ReadFails(g)
             \/ \E n \in Chunks : ReadChunk(g, n)
      PROVE  PoolInv'
  <2>1. /\ pc[g] \in {"hop", "head", "body"}
        /\ \A f \in Fetches : f # g => pc'[f] = pc[f]
        /\ \/ held' = held /\ pc'[g] = "body"
           \/ held' = held \ {g} /\ pc'[g] \in {"check", "done"}
    BY <1>3 DEF Redirect, CloseRedirect, NextStep, ReadHead, ReadEnd,
                ReadFails, ReadChunk, OverCap
  <2>2. g \in held /\ held' = Holding'
    BY <1>a, <2>1
  <2>3. QED
    BY <1>b, <1>c, <2>1, <2>2
<1>4. CASE UNCHANGED vars
  BY <1>4, <1>a, <1>b DEF vars
<1>5. QED
  BY <1>1, <1>2, <1>3, <1>4 DEF Next, Execute

\* No fetch keeps a connection it has finished with, or holds two.
THEOREM PoolRestored == Spec => []ConnectionsReturned
<1>1. Init => PoolInv
  BY FS_EmptySet, FetchAssumption DEF Init, PoolInv, ConnectionsReturned
<1>2. FInv /\ PoolInv /\ [Next]_vars => (FInv /\ PoolInv)'
  BY NextTypeOK, NextHopInv, NextPoolInv DEF FInv
<1>3. PoolInv => ConnectionsReturned
  BY DEF PoolInv
<1>4. QED
  BY InitFInv, <1>1, <1>2, <1>3, PTL DEF Spec

\* Bytes are streamed only behind a head that was accepted, and the result is
\* built only when they have all arrived.
BodyInv ==
    \A f \in Fetches :
        /\ pc[f] \notin {"body", "done"} => size[f] = 0 /\ outcome[f] # "ok"
        /\ pc[f] = "body" => /\ HeadFault(response[f]) = "none"
                             /\ outcome[f] # "ok"
        /\ size[f] > 0 \/ outcome[f] = "ok" => HeadFault(response[f]) = "none"
        /\ outcome[f] = "ok" => pc[f] = "done" /\ size[f] = response[f].body

LEMMA NextBodyInv == TypeOK /\ BodyInv /\ [Next]_vars => BodyInv'
<1> SUFFICES ASSUME TypeOK, BodyInv, [Next]_vars PROVE BodyInv'
  OBVIOUS
<1> USE DEF TypeOK, Goto, GoOn, Return, Release
\* A step of one fetch before its body, ending it or not.
<1>a. ASSUME NEW g \in Fetches, UNCHANGED size,
             \A f \in Fetches : f # g =>
                 UNCHANGED <<pc[f], outcome[f], response[f]>>,
             pc[g] \notin {"body", "done"},
             outcome'[g] # "ok",
             pc'[g] = "body" => HeadFault(response'[g]) = "none"
      PROVE  BodyInv'
  BY <1>a DEF BodyInv
<1>1. ASSUME NEW g \in Fetches, Start(g) \/ CheckUrl(g) \/ Resolve(g)
      PROVE  BodyInv'
  <2>1. UrlFault(target[g]) # "ok"
    BY DEF UrlFault
  <2>2. UNCHANGED <<size, response>> /\ outcome[g] # "ok"
    BY <1>1 DEF Start, CheckUrl, Resolve, BodyInv
  <2>3. outcome'[g] # "ok" /\ pc[g] \notin {"body", "done"} /\ pc'[g] # "body"
    BY <1>1, <2>1, <2>2 DEF Start, CheckUrl, Resolve
  <2>4. \A f \in Fetches : f # g => UNCHANGED <<pc[f], outcome[f]>>
    BY <1>1 DEF Start, CheckUrl, Resolve
  <2>5. QED
    BY <1>a, <2>2, <2>3, <2>4
<1>2. ASSUME NEW g \in Fetches,
             SendFails(g) \/ Redirect(g) \/ \E r \in Responses : Answer(g, r)
      PROVE  BodyInv'
  <2>1. /\ UNCHANGED size /\ outcome[g] # "ok"
        /\ \A f \in Fetches : f # g =>
               UNCHANGED <<pc[f], outcome[f], response[f]>>
        /\ pc[g] \notin {"body", "done"} /\ pc'[g] # "body"
    BY <1>2 DEF SendFails, Redirect, Answer, NextStep, BodyInv
  <2>2. outcome'[g] # "ok"
    BY <1>2, <2>1 DEF SendFails, Redirect, Answer
  <2>3. QED
    BY <1>a, <2>1, <2>2
<1>3. ASSUME NEW g \in Fetches, ReadHead(g) PROVE BodyInv'
  <2>1. HeadFault(response[g]) # "ok"
    BY DEF HeadFault
  <2>2. /\ UNCHANGED <<size, response>> /\ outcome[g] # "ok"
        /\ \A f \in Fetches : f # g => UNCHANGED <<pc[f], outcome[f]>>
        /\ pc[g] \notin {"body", "done"}
    BY <1>3 DEF ReadHead, BodyInv
  <2>3. outcome'[g] # "ok"
    BY <1>3, <2>1, <2>2 DEF ReadHead
  <2>4. pc'[g] = "body" => HeadFault(response'[g]) = "none"
    BY <1>3, <2>2 DEF ReadHead
  <2>5. QED
    BY <1>a, <2>2, <2>3, <2>4
<1>4. ASSUME NEW g \in Fetches, NEW n \in Chunks, ReadChunk(g, n)
      PROVE  BodyInv'
  <2>1. UNCHANGED response
    BY <1>4 DEF ReadChunk
  <2>2. \A f \in Fetches : f # g => UNCHANGED <<pc[f], outcome[f], size[f]>>
    BY <1>4 DEF ReadChunk, OverCap
  <2>3. HeadFault(response[g]) = "none" /\ outcome[g] # "ok"
    BY <1>4 DEF ReadChunk, BodyInv
  <2>4. outcome'[g] # "ok" /\ pc'[g] \in {"body", "done"}
    BY <1>4, <2>3 DEF ReadChunk, OverCap
  <2>5. QED
    BY <2>1, <2>2, <2>3, <2>4 DEF BodyInv
<1>5. ASSUME NEW g \in Fetches, ReadEnd(g) \/ ReadFails(g) PROVE BodyInv'
  <2>1. /\ UNCHANGED <<response, size>> /\ pc'[g] = "done"
        /\ \A f \in Fetches : f # g => UNCHANGED <<pc[f], outcome[f]>>
        /\ outcome'[g] = "ok" => size[g] = response[g].body
        /\ pc[g] = "body"
    BY <1>5 DEF ReadEnd, ReadFails
  <2>2. HeadFault(response[g]) = "none"
    BY <2>1 DEF BodyInv
  <2>3. QED
    BY <2>1, <2>2 DEF BodyInv
<1>6. CASE UNCHANGED vars
  BY <1>6 DEF vars, BodyInv
<1>7. QED
  BY <1>1, <1>2, <1>3, <1>4, <1>5, <1>6 DEF Next, Execute

\* A body is returned whole, behind an accepted head, or not at all.
THEOREM BodiesWhole == Spec => []WholeBodyOrNone
<1>1. Init => BodyInv
  BY DEF Init, BodyInv
<1>2. FInv /\ BodyInv /\ [Next]_vars => (FInv /\ BodyInv)'
  BY NextTypeOK, NextHopInv, NextBodyInv DEF FInv
<1>3. BodyInv => WholeBodyOrNone
  BY DEF BodyInv, WholeBodyOrNone
<1>4. QED
  BY InitFInv, <1>1, <1>2, <1>3, PTL DEF Spec
=============================================================================
