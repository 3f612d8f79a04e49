------------------------------ MODULE Executor ------------------------------
(***************************************************************************)
(* ToolExecutor.execute: several threads run tool calls through one        *)
(* executor.  They share its registry, its sandbox, its record store and   *)
(* its monotonic clock; everything else a call touches is local to it.     *)
(*                                                                         *)
(* A call walks the five checks in order, runs the handler, measures the   *)
(* elapsed time, builds one result and one record, appends the record and  *)
(* leaves.  The steps are as coarse as the shared state allows: one per    *)
(* check, one per question put to the sandbox, one per reading of the      *)
(* clock, one for the append.                                              *)
(*                                                                         *)
(* The sandbox, the handlers and the store are the environment: what they  *)
(* answer is nondeterministic.  Text is abstracted to what it was built    *)
(* from and its size; time is counted in ticks, TicksPerMs of which make   *)
(* the millisecond that reported durations are rounded to.                 *)
(***************************************************************************)
EXTENDS Naturals, Sequences

CONSTANTS
    Calls,          \* the invocations, each made once, by a thread of its own
    Names,          \* what a model may name: registrable tools and others
    ToolSpecs,      \* the tools the application may register: name -> spec
    ArgNames,       \* argument names
    Requests,       \* the requests (with their contexts) that calls may make
    Allowlist,      \* the executor's trajectory allowlist
    TierAnswers,    \* what Sandbox.isolation_tier may answer
    HandlerReasons, \* the reasons a handler's own ToolRefusal may carry
    Sizes,          \* sizes of a handler's output
    SentenceSize,   \* size of a refusal sentence
    DetailSize,     \* what a record_detail adds to it
    MaxContent,     \* max_content_bytes
    MaxSummary,     \* max_summary_bytes
    DefaultTimeout, \* default_timeout_seconds, in ticks
    TicksPerMs,     \* ticks of the monotonic source in a millisecond
    HasStore,       \* whether a store was given to the executor
    SteadyClock,    \* whether the monotonic source behaves
    MaxTime         \* bound: the clock's last tick

-----------------------------------------------------------------------------
(* The closed vocabularies of types.py.                                    *)

Statuses == {"ok", "refused", "failed", "timeout"}

LadderReasons ==
    {"unknown_tool", "not_allowlisted", "not_approved", "args_invalid",
     "egress_not_permitted", "isolation_unavailable", "path_escape"}

Reasons == LadderReasons \cup {"timeout", "handler_error"} \cup HandlerReasons

EgressClasses == {"none", "network"}

Permits(ceiling, required) == required = "network" => ceiling = "network"

\* A ToolSpec: what the executor decides from.  path_args is a mapping whose
\* iteration order the check follows, hence a sequence without repetition.
SpecType ==
    [egress : EgressClasses, requires_isolation : BOOLEAN,
     path_args : Seq([arg : ArgNames, access : {"read", "write"}])]

\* A ToolCallRequest with its ToolContext.  `valid` is the verdict of the
\* tool's schema on these arguments, `narrowed` is approved_tools # None,
\* `timeout`, in ticks, = 0 is timeout_seconds = None.
RequestType ==
    [name : Names, args : SUBSET ArgNames, valid : BOOLEAN,
     narrowed : BOOLEAN, approved : SUBSET Names,
     max_egress : EgressClasses, timeout : Nat]

ASSUME ConstantsAssumption ==
    /\ DOMAIN ToolSpecs \subseteq Names
    /\ \A n \in DOMAIN ToolSpecs :
          /\ ToolSpecs[n] \in SpecType
          /\ \A i, j \in DOMAIN ToolSpecs[n].path_args :
                ToolSpecs[n].path_args[i].arg = ToolSpecs[n].path_args[j].arg
                   => i = j
    /\ Requests \subseteq RequestType /\ Requests # {}
    /\ Allowlist \subseteq Names
    /\ TierAnswers \subseteq {"container", "bwrap", "unavailable", "raised"}
    /\ "none" \notin HandlerReasons
    /\ Sizes \subseteq Nat
    /\ {SentenceSize, DetailSize, MaxContent, MaxSummary} \subseteq Nat
    /\ {DefaultTimeout, TicksPerMs} \subseteq Nat \ {0} /\ MaxTime \in Nat
    /\ HasStore \in BOOLEAN /\ SteadyClock \in BOOLEAN

-----------------------------------------------------------------------------
VARIABLES
    registered,  \* the registry: names registered so far
    clock,       \* the monotonic source
    store,       \* ToolCallStore: the records appended, in order
    pc,          \* where each call stands
    request,     \* what each call was asked to do
    known,       \* _Pass.registered is not None: looked up once
    start,       \* start_ns
    tier,        \* what the sandbox answered about isolation
    asked,       \* what the sandbox answered about each path argument
    at,          \* how many of path_args have been handled
    args,        \* `resolved`, which becomes _Pass.handler_args
    ran,         \* history: clock readings around the handler itself
    output,      \* what came out of the handler
    elapsed,     \* elapsed_ms once measured, as a number of ticks
    refusal,     \* the _Refusal that decided the call
    result,      \* the ToolResult built for the call
    record,      \* the ToolCallRecord built for the call
    exit         \* how execute() was left

opening  == <<request, known, start>>
answers  == <<tier, asked, at, args>>
handling == <<ran, output, elapsed>>
closing  == <<result, record, exit>>
vars == <<registered, clock, store, pc, opening, answers, handling, refusal,
          closing>>

Steps == {"idle", "registry", "allowlist", "schema", "egress", "isolation",
          "paths", "ready", "running", "measure", "finish", "append", "done"}

\* What a handler leaves behind: a ToolOutput, a ToolRefusal, something else,
\* an Exception, or a BaseException that is not one.
OutputType ==
    [kind : {"none", "output", "refusal", "other", "exception", "interrupt"},
     size : Nat, reason : HandlerReasons \cup {"none"},
     status : Statuses \ {"ok"}, private : BOOLEAN]
Outcome(kind, size) == [kind |-> kind, size |-> size, reason |-> "none",
                        status |-> "failed", private |-> FALSE]
NoOutput == Outcome("none", 0)

\* A _Refusal; `private` says it has a record_detail.  Reason "none" stands
\* for `refusal is None`.
RefusalType ==
    [reason : Reasons \cup {"none"}, status : Statuses, private : BOOLEAN]
NoRefusal == [reason |-> "none", status |-> "ok", private |-> FALSE]

\* The elapsed time, or None before it is measured.
ElapsedType == [known : BOOLEAN, ticks : Nat]
NotMeasured == [known |-> FALSE, ticks |-> 0]

\* A text: what it was built from, whether a record_detail is in it, its
\* size, and whether it was cut (and labelled).
TextType == [of : {"output", "sentence"}, private : BOOLEAN, size : Nat,
             cut : BOOLEAN]
NoText == [of |-> "output", private |-> FALSE, size |-> 0, cut |-> FALSE]

ResultType ==
    [status : Statuses, reason : Reasons \cup {"none"}, content : TextType,
     duration_ms : Nat]
NoResult == [status |-> "failed", reason |-> "none", content |-> NoText,
             duration_ms |-> 0]

\* `digest_of` is the size of the text result_sha256 is the digest of.
RecordType ==
    [call : Calls, status : Statuses, reason : Reasons \cup {"none"},
     result_summary : TextType, digest_of : Nat, duration_ms : Nat,
     egress : EgressClasses]
NoRecord(c) ==
    [call |-> c, status |-> "failed", reason |-> "none",
     result_summary |-> NoText, digest_of |-> 0, duration_ms |-> 0,
     egress |-> "none"]

Init ==
    /\ registered \in SUBSET DOMAIN ToolSpecs
    /\ clock = 0
    /\ store = <<>>
    /\ pc = [c \in Calls |-> "idle"]
    /\ request = [c \in Calls |-> CHOOSE r \in Requests : TRUE]
    /\ known = [c \in Calls |-> FALSE]
    /\ start = [c \in Calls |-> 0]
    /\ tier = [c \in Calls |-> "unasked"]
    /\ asked = [c \in Calls |-> [a \in ArgNames |-> "unasked"]]
    /\ at = [c \in Calls |-> 0]
    /\ args = [c \in Calls |-> [a \in ArgNames |-> "absent"]]
    /\ ran = [c \in Calls |-> [began |-> 0, ended |-> 0]]
    /\ output = [c \in Calls |-> NoOutput]
    /\ elapsed = [c \in Calls |-> NotMeasured]
    /\ refusal = [c \in Calls |-> NoRefusal]
    /\ result = [c \in Calls |-> NoResult]
    /\ record = [c \in Calls |-> NoRecord(c)]
    /\ exit = [c \in Calls |-> "none"]

Goto(c, step) == pc' = [pc EXCEPT ![c] = step]

ToolSpec(c) == ToolSpecs[request[c].name]

-----------------------------------------------------------------------------
(* The environment: the application registers tools, time passes.          *)

\* ToolRegistry.register; a duplicate name raises and changes nothing.
Register(n) ==
    /\ n \in DOMAIN ToolSpecs \ registered
    /\ registered' = registered \cup {n}
    /\ UNCHANGED <<clock, store, pc, opening, answers, handling, refusal,
                   closing>>

\* The monotonic source advances; one that misbehaves may also fall back.
Tick ==
    /\ clock' \in 0 .. MaxTime
    /\ clock' = clock + 1 \/ (~SteadyClock /\ clock' < clock)
    /\ UNCHANGED <<registered, store, pc, opening, answers, handling, refusal,
                   closing>>

-----------------------------------------------------------------------------
(* execute: the ladder.                                                    *)

\* start_ns is read and the registry consulted before the first check.
Begin(c, r) ==
    /\ pc[c] = "idle"
    /\ request' = [request EXCEPT ![c] = r]
    /\ start' = [start EXCEPT ![c] = clock]
    /\ known' = [known EXCEPT ![c] = r.name \in registered]
    /\ args' = [args EXCEPT ![c] =
                   [a \in ArgNames |-> IF a \in r.args THEN "raw" ELSE "absent"]]
    /\ Goto(c, "registry")
    /\ UNCHANGED <<registered, clock, store, tier, asked, at, handling,
                   refusal, closing>>

\* Mutant: the sandbox is probed before the egress ceiling is compared.
ProbeBeforeEgress ==
    [registry |-> "allowlist", allowlist |-> "schema", schema |-> "isolation",
     isolation |-> "egress", egress |-> "paths", paths |-> "ready"]

\* _CHECKS in the order _ordered puts them; containment has two halves.
AfterCheck ==
    [registry |-> "allowlist", allowlist |-> "schema", schema |-> "egress",
     egress |-> "isolation", isolation |-> "paths", paths |-> "ready"]

Pass(c, check) == Goto(c, AfterCheck[check]) /\ UNCHANGED refusal

Refuse(c, reason, private) ==
    /\ refusal' = [refusal EXCEPT ![c] = [reason |-> reason,
                                          status |-> "refused",
                                          private |-> private]]
    /\ Goto(c, "finish")

\* One pure check: the call goes on when `reason` is "none".
Check(c, check, reason) ==
    /\ pc[c] = check
    /\ \/ reason = "none" /\ Pass(c, check)
       \/ reason # "none" /\ Refuse(c, reason, FALSE)
    /\ UNCHANGED <<registered, clock, store, opening, answers, handling,
                   closing>>

\* Mutant: the registry is consulted again instead of the snapshot.
LookUpAgain(c) ==
    IF request[c].name \in registered THEN "none" ELSE "unknown_tool"

RegistryVerdict(c) == IF known[c] THEN "none" ELSE "unknown_tool"

\* Mutant: the invocation's approved set does not narrow.
IgnoreApprovals(c) ==
    IF request[c].name \notin Allowlist THEN "not_allowlisted" ELSE "none"

\* Mutant: approval is asked for before the trajectory allowlist.
ApprovalFirst(c) ==
    LET r == request[c] IN
    IF r.narrowed /\ r.name \notin r.approved THEN "not_approved"
    ELSE IF r.name \notin Allowlist THEN "not_allowlisted"
    ELSE "none"

AllowlistVerdict(c) ==
    LET r == request[c] IN
    IF r.name \notin Allowlist THEN "not_allowlisted"
    ELSE IF r.narrowed /\ r.name \notin r.approved THEN "not_approved"
    ELSE "none"

SchemaVerdict(c) == IF request[c].valid THEN "none" ELSE "args_invalid"

\* Mutant: the ceiling and the requirement are swapped.
EgressSwapped(c) ==
    IF Permits(ToolSpec(c).egress, request[c].max_egress)
    THEN "none" ELSE "egress_not_permitted"

EgressVerdict(c) ==
    IF Permits(request[c].max_egress, ToolSpec(c).egress)
    THEN "none" ELSE "egress_not_permitted"

CheckRegistry(c)  == Check(c, "registry", RegistryVerdict(c))
CheckAllowlist(c) == Check(c, "allowlist", AllowlistVerdict(c))
CheckSchema(c)    == Check(c, "schema", SchemaVerdict(c))
CheckEgress(c)    == Check(c, "egress", EgressVerdict(c))

\* First half of _check_containment: a tool that needs isolation has a tier.
SkipIsolation(c) ==
    /\ pc[c] = "isolation"
    /\ ~ToolSpec(c).requires_isolation
    /\ Pass(c, "isolation")
    /\ UNCHANGED <<registered, clock, store, opening, answers, handling,
                   closing>>

NoTier(answer) == answer \in {"unavailable", "raised"}

ProbeIsolation(c) ==
    /\ pc[c] = "isolation"
    /\ ToolSpec(c).requires_isolation
    /\ \E answer \in TierAnswers :
          /\ tier' = [tier EXCEPT ![c] = answer]
          /\ \/ ~NoTier(answer) /\ Pass(c, "isolation")
             \/ NoTier(answer) /\ Refuse(c, "isolation_unavailable", FALSE)
    /\ UNCHANGED <<registered, clock, store, opening, asked, at, args,
                   handling, closing>>

\* Second half: every declared path argument that is present is resolved
\* against its root, and the resolved path takes the candidate's place.
PathArgs(c) == ToolSpec(c).path_args

SkipPath(c) ==
    /\ pc[c] = "paths"
    /\ at[c] < Len(PathArgs(c))
    /\ PathArgs(c)[at[c] + 1].arg \notin request[c].args
    /\ at' = [at EXCEPT ![c] = @ + 1]
    /\ UNCHANGED <<registered, clock, store, pc, opening, tier, asked, args,
                   handling, refusal, closing>>

\* Mutant: every argument is resolved against the readable roots.
AlwaysRead(path) == "read"

\* What takes the candidate's place: resolve_write's answer for an argument
\* declared for writing, resolve_read's otherwise.
Resolved(path) == path.access

ResolvePath(c) ==
    /\ pc[c] = "paths"
    /\ at[c] < Len(PathArgs(c))
    /\ LET path == PathArgs(c)[at[c] + 1] IN
       /\ path.arg \in request[c].args
       /\ \/ /\ asked' = [asked EXCEPT ![c][path.arg] = "inside"]
             /\ args' = [args EXCEPT ![c][path.arg] = Resolved(path)]
             /\ at' = [at EXCEPT ![c] = @ + 1]
             /\ UNCHANGED <<pc, refusal>>
          \/ \E private \in BOOLEAN : \* PathEscape, or any other Exception
             /\ asked' = [asked EXCEPT ![c][path.arg] = "outside"]
             /\ Refuse(c, "path_escape", private)
             /\ UNCHANGED <<at, args>>
    /\ UNCHANGED <<registered, clock, store, opening, tier, handling, closing>>

PathsDone(c) ==
    /\ pc[c] = "paths"
    /\ at[c] = Len(PathArgs(c))
    /\ Pass(c, "paths")
    /\ UNCHANGED <<registered, clock, store, opening, answers, handling,
                   closing>>

-----------------------------------------------------------------------------
(* _run_handler.                                                           *)

StartHandler(c) ==
    /\ pc[c] = "ready"
    /\ ran' = [ran EXCEPT ![c] = [began |-> clock, ended |-> clock]]
    /\ Goto(c, "running")
    /\ UNCHANGED <<registered, clock, store, opening, answers, output,
                   elapsed, refusal, closing>>

HandlerError ==
    [reason |-> "handler_error", status |-> "failed", private |-> FALSE]

HandlerOutputs ==
    {Outcome("output", s) : s \in Sizes} \cup {Outcome("other", 0)}
    \cup [kind : {"refusal"}, size : {0}, reason : HandlerReasons,
          status : Statuses \ {"ok"}, private : BOOLEAN]

\* The handler returns; the clock is read next, in Measure.
HandlerReturns(c, out) ==
    /\ pc[c] = "running"
    /\ output' = [output EXCEPT ![c] = out]
    /\ ran' = [ran EXCEPT ![c] = [began |-> @.began, ended |-> clock]]
    /\ Goto(c, "measure")
    /\ UNCHANGED <<registered, clock, store, opening, answers, elapsed,
                   refusal, closing>>

\* The handler raises an Exception, or a BaseException that is not one.
HandlerRaises(c, kind) ==
    /\ pc[c] = "running"
    /\ output' = [output EXCEPT ![c] = Outcome(kind, 0)]
    /\ ran' = [ran EXCEPT ![c] = [began |-> @.began, ended |-> clock]]
    /\ refusal' = [refusal EXCEPT ![c] = HandlerError]
    /\ Goto(c, "finish")
    /\ UNCHANGED <<registered, clock, store, opening, answers, elapsed,
                   closing>>

Limit(c) ==
    IF request[c].timeout = 0 THEN DefaultTimeout ELSE request[c].timeout

\* Mutant: a clock that fell back is subtracted all the same.
RawElapsed(c) == clock - start[c]

\* _elapsed_ms: tolerates a source that went backwards.
Elapsed(c) == IF clock < start[c] THEN 0 ELSE clock - start[c]

\* What an output that came back in time amounts to.
OutputRefusal(out) ==
    IF out.kind = "refusal"
    THEN [reason |-> out.reason, status |-> out.status, private |-> out.private]
    ELSE IF out.kind = "other" THEN HandlerError
    ELSE NoRefusal

TimedOut == [reason |-> "timeout", status |-> "timeout", private |-> FALSE]

\* Mutant: a handler's own refusal is carried through whenever it comes.
RefusalBeforeLimit(c) ==
    IF output[c].kind # "refusal" /\ Elapsed(c) > Limit(c) THEN TimedOut
    ELSE OutputRefusal(output[c])

\* The limit is compared first: past it, whatever came back is discarded.
Judge(c) ==
    IF Elapsed(c) > Limit(c) THEN TimedOut ELSE OutputRefusal(output[c])

Measure(c) ==
    /\ pc[c] = "measure"
    /\ elapsed' = [elapsed EXCEPT ![c] = [known |-> TRUE, ticks |-> Elapsed(c)]]
    /\ refusal' = [refusal EXCEPT ![c] = Judge(c)]
    /\ Goto(c, "finish")
    /\ UNCHANGED <<registered, clock, store, opening, answers, ran, output,
                   closing>>

-----------------------------------------------------------------------------
(* _finish and _append.                                                    *)

\* truncate_text: never larger than the cap, labelled when cut.
Truncate(text, cap) ==
    IF text.size <= cap THEN text
    ELSE [of |-> text.of, private |-> text.private, size |-> cap,
          cut |-> TRUE]

OutputText(size) ==
    [of |-> "output", private |-> FALSE, size |-> size, cut |-> FALSE]

Sentence(private) ==
    [of |-> "sentence", private |-> private, cut |-> FALSE,
     size |-> IF private THEN SentenceSize + DetailSize ELSE SentenceSize]

\* Mutant: the model is shown the operator's detail.
TellAll(c) == IF refusal[c].reason = "none" THEN OutputText(output[c].size)
              ELSE Sentence(refusal[c].private)

\* The text the model is shown and the text the record keeps, uncapped.
ModelText(c) == IF refusal[c].reason = "none" THEN OutputText(output[c].size)
                ELSE Sentence(FALSE)
RecordText(c) == IF refusal[c].reason = "none" THEN OutputText(output[c].size)
                 ELSE Sentence(refusal[c].private)

\* int(round(...)): the nearest whole millisecond, the even one of two.
Rounded(ticks) ==
    LET ms   == ticks \div TicksPerMs
        rest == ticks % TicksPerMs
    IN  IF 2 * rest < TicksPerMs \/ (2 * rest = TicksPerMs /\ ms % 2 = 0)
        THEN ms ELSE ms + 1

\* Mutant: the clock is read again although the verdict was measured.
ReadAgain(c) == Rounded(Elapsed(c))

\* The elapsed time is read again unless it was already measured; the verdict
\* compared what was measured, the report rounds it.
Duration(c) == Rounded(IF elapsed[c].known THEN elapsed[c].ticks ELSE Elapsed(c))

Finish(c) ==
    /\ pc[c] = "finish"
    /\ result' = [result EXCEPT ![c] =
          [status |-> refusal[c].status, reason |-> refusal[c].reason,
           content |-> Truncate(ModelText(c), MaxContent),
           duration_ms |-> Duration(c)]]
    /\ record' = [record EXCEPT ![c] =
          [call |-> c, status |-> refusal[c].status,
           reason |-> refusal[c].reason,
           result_summary |-> Truncate(RecordText(c), MaxSummary),
           digest_of |-> IF refusal[c].reason = "none"
                         THEN output[c].size ELSE 0,
           duration_ms |-> Duration(c),
           egress |-> IF known[c] THEN ToolSpec(c).egress ELSE "none"]]
    /\ Goto(c, "append")
    /\ UNCHANGED <<registered, clock, store, opening, answers, handling,
                   refusal, exit>>

\* How execute() is left once _append has returned.
LeftBy(c) == IF output[c].kind = "interrupt" THEN "reraised" ELSE "returned"

Leave(c, how) ==
    /\ exit' = [exit EXCEPT ![c] = how]
    /\ Goto(c, "done")
    /\ UNCHANGED <<registered, clock, opening, answers, handling, refusal,
                   result, record>>

AppendRecord(c) ==
    /\ pc[c] = "append"
    /\ store' = IF HasStore THEN Append(store, record[c]) ELSE store
    /\ Leave(c, LeftBy(c))

\* Mutant: the record that StoreFailure carries away has also been stored.
StoreThenFail(c) ==
    /\ pc[c] = "append"
    /\ HasStore
    /\ store' = Append(store, record[c])
    /\ Leave(c, "store_failure")

\* The store raises; StoreFailure leaves execute() with result and record on
\* it, in place of whatever was leaving it.
AppendFails(c) ==
    /\ pc[c] = "append"
    /\ HasStore
    /\ UNCHANGED store
    /\ Leave(c, "store_failure")

-----------------------------------------------------------------------------
Ladder(c) ==
    \/ CheckRegistry(c) \/ CheckAllowlist(c)
    \/ CheckSchema(c) \/ CheckEgress(c)
    \/ SkipIsolation(c) \/ ProbeIsolation(c)
    \/ SkipPath(c) \/ ResolvePath(c) \/ PathsDone(c)

Handler(c) ==
    \/ \E out \in HandlerOutputs : HandlerReturns(c, out)
    \/ \E kind \in {"exception", "interrupt"} : HandlerRaises(c, kind)

Close(c) == Measure(c) \/ Finish(c) \/ AppendRecord(c) \/ AppendFails(c)

\* What execute() does by itself once called, around its handler.
Execute(c) == Ladder(c) \/ StartHandler(c) \/ Close(c)

Next ==
    \/ \E n \in DOMAIN ToolSpecs : Register(n)
    \/ Tick
    \/ \E c \in Calls :
          \/ \E r \in Requests : Begin(c, r)
          \/ Execute(c)
          \/ Handler(c)

Spec == Init /\ [][Next]_vars

-----------------------------------------------------------------------------
(* Properties.                                                             *)

\* The clock readings, answers and texts have their types, whatever the
\* handlers, the sandbox and the clock do.
TypeOK ==
    /\ registered \subseteq DOMAIN ToolSpecs
    /\ clock \in Nat
    /\ store \in Seq(RecordType)
    /\ pc \in [Calls -> Steps]
    /\ request \in [Calls -> Requests]
    /\ known \in [Calls -> BOOLEAN]
    /\ start \in [Calls -> Nat]
    /\ tier \in [Calls -> TierAnswers \cup {"unasked"}]
    /\ asked \in [Calls -> [ArgNames -> {"unasked", "inside", "outside"}]]
    /\ at \in [Calls -> Nat]
    /\ args \in [Calls -> [ArgNames -> {"absent", "raw", "read", "write"}]]
    /\ ran \in [Calls -> [began : Nat, ended : Nat]]
    /\ output \in [Calls -> OutputType]
    /\ elapsed \in [Calls -> ElapsedType]
    /\ refusal \in [Calls -> RefusalType]
    /\ result \in [Calls -> ResultType]
    /\ record \in [Calls -> RecordType]
    /\ exit \in [Calls -> {"none", "returned", "store_failure", "reraised"}]

\* Every step after check 1 works on the registration check 1 found: the
\* asserts of checks 3 to 5 and of _run_handler hold, and no later
\* registration is ever mistaken for it.
Found(c) ==
    /\ known[c] => request[c].name \in registered
    /\ pc[c] \in Steps \ {"idle", "registry", "finish", "append", "done"}
          => known[c]

RegistrationFound == \A c \in Calls : Found(c)

Settled(c) == pc[c] \in {"append", "done"}

HandlerRan(c) == pc[c] \in {"running", "measure"} \/ output[c].kind # "none"

Approved(r) == r.name \in Allowlist /\ (r.narrowed => r.name \in r.approved)

\* What the first four checks establish.
PassesPolicy(c) ==
    /\ known[c]
    /\ Approved(request[c])
    /\ request[c].valid
    /\ Permits(request[c].max_egress, ToolSpec(c).egress)

Isolated(c) ==
    ToolSpec(c).requires_isolation => tier[c] \in {"container", "bwrap"}

\* No handler runs unless every check passed: the tool was registered when
\* the call began, it is in both allowlists, its arguments satisfy its
\* schema, its egress is within the ceiling, and a tier exists if it needs one.
HandlerOnlyWhenPermitted ==
    \A c \in Calls : HandlerRan(c) => PassesPolicy(c) /\ Isolated(c)

\* A handler is handed the resolved path, never the candidate, for each path
\* argument its spec declares and the call carries, and each was resolved
\* against the roots its access calls for.
HandlerGetsResolvedPaths ==
    \A c \in Calls : HandlerRan(c) =>
        \A i \in DOMAIN PathArgs(c) :
            LET path == PathArgs(c)[i] IN
            path.arg \in request[c].args => args[c][path.arg] = path.access

\* The sandbox is asked nothing on behalf of a call that an earlier check
\* refuses, and no path is resolved for a tool this host cannot isolate: a
\* probe starts processes, so a call already lost must not cause one.
SandboxOnlyForPermittedCalls ==
    \A c \in Calls :
        /\ tier[c] # "unasked" => PassesPolicy(c)
        /\ (\E a \in ArgNames : asked[c][a] # "unasked")
              => PassesPolicy(c) /\ Isolated(c)

RefusalOrder ==
    <<"unknown_tool", "not_allowlisted", "not_approved", "args_invalid",
      "egress_not_permitted", "isolation_unavailable", "path_escape">>

\* The fault each reason of the ladder names, on its own.
Fault(c, reason) ==
    LET r == request[c] IN
    CASE reason = "unknown_tool"    -> ~known[c]
      [] reason = "not_allowlisted" -> r.name \notin Allowlist
      [] reason = "not_approved"    -> ~Approved(r) /\ r.name \in Allowlist
      [] reason = "args_invalid"    -> ~r.valid
      [] reason = "egress_not_permitted"
           -> known[c] /\ ~Permits(r.max_egress, ToolSpec(c).egress)
      [] reason = "isolation_unavailable" -> known[c] /\ ~Isolated(c)
      [] reason = "path_escape" -> \E a \in ArgNames : asked[c][a] = "outside"

\* A call whose handler did not run carries the reason of the first check, in
\* the documented order, that it fails: a later fault never masks an earlier
\* one, whatever other faults the call has.
FirstFaultDecides ==
    \A c \in Calls : Settled(c) /\ ~HandlerRan(c) =>
        \E i \in DOMAIN RefusalOrder :
            /\ result[c].reason = RefusalOrder[i]
            /\ \A j \in 1 .. i - 1 : ~Fault(c, RefusalOrder[j])
            /\ Fault(c, RefusalOrder[i])

\* One record per call, whatever its outcome, from the moment execute() is
\* left; none before, and none when StoreFailure carries it away instead.
RecordedOnce ==
    /\ \A i, j \in DOMAIN store : store[i].call = store[j].call => i = j
    /\ \A c \in Calls : (\E i \in DOMAIN store : store[i].call = c)
                           <=> HasStore /\ exit[c] \in {"returned", "reraised"}

\* What the caller is told and what the store keeps tell the same story, also
\* on a StoreFailure: same status, reason and duration.  The record alone has
\* the operator's detail, and its digest is of the output as it was before
\* either text was cut.
Mirrors(res, rec, out) ==
    /\ <<res.status, res.reason, res.duration_ms>> =
           <<rec.status, rec.reason, rec.duration_ms>>
    /\ res.content.of = rec.result_summary.of
    /\ ~res.content.private
    /\ res.status = "ok" <=> res.content.of = "output"
    /\ rec.digest_of = IF res.status = "ok" THEN out.size ELSE 0
    /\ res.status = "ok" /\ ~res.content.cut
          => res.content.size = rec.digest_of

RecordMirrorsResult ==
    /\ \A c \in Calls : Settled(c) => Mirrors(result[c], record[c], output[c])
    /\ \A i \in DOMAIN store : store[i] = record[store[i].call]

\* The duration a call reports is the measurement its verdict was decided on,
\* rounded: an OK result never reports over half a millisecond more than the
\* limit, and a TIMEOUT the executor declared always reports more than the
\* limit less half a millisecond, even under a clock that falls back.
DurationMatchesVerdict ==
    \A c \in Calls : Settled(c) =>
        LET twice == 2 * (TicksPerMs * result[c].duration_ms) IN
        /\ result[c].status = "ok" => twice <= 2 * Limit(c) + TicksPerMs
        /\ result[c].status = "timeout" /\ output[c].kind # "refusal"
              => twice + TicksPerMs > 2 * Limit(c)

\* The call's clock readings are in order: no fall was seen while it ran.
InOrder(c) ==
    /\ start[c] <= ran[c].began
    /\ elapsed[c].known => ran[c].ended <= start[c] + elapsed[c].ticks

\* Unless the clock fell back under the call, nothing a handler returns after
\* its limit is shown: neither its output nor its own refusal.
LateOutputDiscarded ==
    \A c \in Calls :
        Settled(c) /\ InOrder(c) /\ ran[c].ended > ran[c].began + Limit(c)
           => result[c].status \in {"timeout", "failed"}
              /\ result[c].content.of = "sentence"
              /\ result[c].reason \in {"timeout", "handler_error"}

(* Claims of the repository's documentation that the code does not keep.   *)

\* types.py, ToolStatus.TIMEOUT: "The handler exceeded its limit."
TimeoutMeansHandlerExceeded ==
    \A c \in Calls : Settled(c) /\ result[c].reason = "timeout"
        => ran[c].ended > ran[c].began + Limit(c)

\* executor.py, execute: a BaseException is "Re-raised, after the call is
\* recorded".
InterruptIsReraised ==
    \A c \in Calls :
        pc[c] = "done" /\ output[c].kind = "interrupt" => exit[c] = "reraised"
=============================================================================
