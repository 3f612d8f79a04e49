------------------------------ MODULE ToolCall ------------------------------
(***************************************************************************)
(* What ToolExecutor.execute promises, without its steps: a call is judged *)
(* once, against the registry as it was when the call was made; it is      *)
(* declined for the first fault it has, or its handler starts; it settles  *)
(* on one verdict, which does not change; and when it leaves, that verdict *)
(* has been journalled, at most once and never earlier.                    *)
(*                                                                         *)
(* Here the verdict on the request is one look at all of its faults; the   *)
(* module Executor reaches it by a ladder of checks with early exits, with *)
(* other calls, the registry and the clock moving in between.              *)
(***************************************************************************)
EXTENDS Naturals, Sequences

CONSTANTS Calls, ToolSpecs, Requests, Allowlist, Reasons

VARIABLES
    registered,  \* the names registered so far
    phase,       \* "new", "open", "running", "settled" or "left"
    request,     \* what each call asks for
    known,       \* whether its tool was registered when it was made
    verdict,     \* status and reason, once settled
    journal      \* the verdicts recorded, in order

vars == <<registered, phase, request, known, verdict, journal>>

NoVerdict == [status |-> "none", reason |-> "none"]

Init ==
    /\ registered \in SUBSET DOMAIN ToolSpecs
    /\ phase = [c \in Calls |-> "new"]
    /\ request \in [Calls -> Requests]
    /\ known = [c \in Calls |-> FALSE]
    /\ verdict = [c \in Calls |-> NoVerdict]
    /\ journal = <<>>

Register(n) ==
    /\ registered' = registered \cup {n}
    /\ UNCHANGED <<phase, request, known, verdict, journal>>

Call(c, r) ==
    /\ phase[c] = "new"
    /\ phase' = [phase EXCEPT ![c] = "open"]
    /\ request' = [request EXCEPT ![c] = r]
    /\ known' = [known EXCEPT ![c] = r.name \in registered]
    /\ UNCHANGED <<registered, verdict, journal>>

\* The faults decided by the request, its context and the registry alone.
PolicyFaults(c) ==
    LET r == request[c] IN
    IF ~known[c] THEN {"unknown_tool"}
    ELSE IF r.name \notin Allowlist THEN {"not_allowlisted"}
    ELSE IF r.narrowed /\ r.name \notin r.approved THEN {"not_approved"}
    ELSE IF ~r.valid THEN {"args_invalid"}
    ELSE IF ToolSpecs[r.name].egress = "network" /\ r.max_egress = "none"
         THEN {"egress_not_permitted"}
    ELSE {}

\* The faults the sandbox may find in a call that has none of those.
SandboxFaults(c) ==
    LET spec == ToolSpecs[request[c].name] IN
    {reason \in {"isolation_unavailable", "path_escape"} :
        IF reason = "isolation_unavailable" THEN spec.requires_isolation
        ELSE \E i \in DOMAIN spec.path_args :
                spec.path_args[i].arg \in request[c].args}

Settle(c, status, reason) ==
    /\ phase' = [phase EXCEPT ![c] = "settled"]
    /\ verdict' = [verdict EXCEPT ![c] = [status |-> status, reason |-> reason]]
    /\ UNCHANGED <<registered, request, known, journal>>

Decline(c) ==
    /\ phase[c] = "open"
    /\ \E reason \in IF PolicyFaults(c) # {} THEN PolicyFaults(c)
                     ELSE SandboxFaults(c) : Settle(c, "refused", reason)

Start(c) ==
    /\ phase[c] = "open"
    /\ PolicyFaults(c) = {}
    /\ phase' = [phase EXCEPT ![c] = "running"]
    /\ UNCHANGED <<registered, request, known, verdict, journal>>

End(c) ==
    /\ phase[c] = "running"
    /\ \/ Settle(c, "ok", "none")
       \/ \E status \in {"refused", "failed", "timeout"}, reason \in Reasons :
             Settle(c, status, reason)

\* The journal may be kept elsewhere, or the store may fail.
Leave(c) ==
    /\ phase[c] = "settled"
    /\ phase' = [phase EXCEPT ![c] = "left"]
    /\ \/ UNCHANGED journal
       \/ journal' = Append(journal, [call |-> c, status |-> verdict[c].status,
                                      reason |-> verdict[c].reason])
    /\ UNCHANGED <<registered, request, known, verdict>>

Next ==
    \/ \E n \in DOMAIN ToolSpecs : Register(n)
    \/ \E c \in Calls :
          \/ \E r \in Requests : Call(c, r)
          \/ Decline(c) \/ Start(c) \/ End(c) \/ Leave(c)

Spec == Init /\ [][Next]_vars
=============================================================================
