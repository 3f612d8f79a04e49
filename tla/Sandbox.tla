------------------------------- MODULE Sandbox -------------------------------
(***************************************************************************)
(* TieredSandbox: threads ask one sandbox for its tier or have it run a    *)
(* command.  The first to come probes the host, rung by rung, under a      *)
(* lock; what it finds is cached for the life of the object.  A command    *)
(* then runs under that rung or not at all, and a container whose client   *)
(* was killed is removed by name.                                          *)
(*                                                                         *)
(* The host is the environment: runtimes come and go, a launch may raise,  *)
(* fail, time out or overflow, and a container may outlive its client.     *)
(* What a launch may return is what Launcher's captures may say.           *)
(***************************************************************************)
EXTENDS Naturals, Sequences, FiniteSets

CONSTANTS
    Uses,          \* the calls made of the sandbox, one thread each
    Runtimes,      \* _CONTAINER_RUNTIMES, in order
    Requests,      \* what a use may ask for
    MaxChanges     \* bound: how often the host's programs change

Containers == {Runtimes[i] : i \in DOMAIN Runtimes}
Ladder == Append(Runtimes, "bwrap")
Rungs == {Ladder[i] : i \in DOMAIN Ladder}

\* Mutant: a tier is told by the name of its runtime.
RuntimeAsTier(runtime) == runtime

Tier(runtime) == IF runtime \in Containers THEN "container" ELSE "bwrap"

\* isolation_tier() asks for the tier alone.  run_isolated is called with
\* what may be wrong with it: a bad timeout, environment or network flag
\* ("caller"), an argv that cannot be launched, a write root that is not a
\* directory, a root whose path holds a colon.
RequestType ==
    [op : {"isolation_tier", "run_isolated"},
     faults : SUBSET {"caller", "argv", "workspace", "colon"}]

\* Captured: an exit status, and why the client was killed, if it was.
CaptureType ==
    {c \in [exit_code : {0, 1}, timed_out : BOOLEAN,
            output_truncated : BOOLEAN, stderr : BOOLEAN] :
        ~(c.timed_out /\ c.output_truncated)}

LimitNames == {"cpu_seconds", "memory_bytes", "file_size_bytes",
               "process_count"}
CgroupLimits == {"memory_bytes", "process_count"}

\* TierReport; NoReport is None.
ReportType ==
    [tier : {"container", "bwrap", "unavailable", "none"},
     runtime : Rungs \cup {"none"}, limiter : BOOLEAN,
     limits_unenforced : SUBSET LimitNames]
Unprobed(tier) == [tier |-> tier, runtime |-> "none", limiter |-> FALSE,
                   limits_unenforced |-> {}]
NoReport == Unprobed("none")
Unavailable == Unprobed("unavailable")

ASSUME SandboxAssumption ==
    /\ Requests \subseteq RequestType
    /\ "free" \notin Uses
    /\ {"bwrap", "none", "run"} \cap Containers = {}
    /\ Runtimes \in Seq(STRING)
    /\ \A i, j \in DOMAIN Runtimes : Runtimes[i] = Runtimes[j] => i = j
    /\ MaxChanges \in Nat

VARIABLES
    host,       \* the programs `which` finds: runtimes and "prlimit"
    changes,    \* how often they changed
    setting,    \* is this Linux; does the scratch path hold a colon
    lock,       \* self._lock: the use that holds it, or "free"
    report,     \* self._report
    pc,         \* where each use stands
    request,    \* what each use asks for
    rung,       \* the rung a probing use is at
    limiter,    \* limiter_path, as the probe found it
    answer,     \* the report a use found or was given
    outcome,    \* how each use ended
    containers, \* containers that exist: <<use, runtime or "run">>
    tried,      \* history: what each use's probe saw of each rung
    launched,   \* history: the runtime each use's command was launched by
    cleanup     \* history: what came of a use's removal by name

environment == <<host, changes, setting>>
shared  == <<lock, report>>
locals  == <<request, rung, limiter, answer>>
history == <<tried, launched, cleanup>>
vars == <<environment, shared, pc, locals, outcome, containers, history>>

Steps == {"idle", "lock", "scratch", "rung", "canary", "conclude", "have",
          "launch", "running", "remove", "done"}
Outcomes == {"none", "tier", "probe_raised", "toolyard_error",
             "validation_error", "argv_refused", "killed", "result"}

Init ==
    /\ host \in SUBSET (Rungs \cup {"prlimit"})
    /\ changes = 0
    /\ setting \in [linux : BOOLEAN, colon : BOOLEAN]
    /\ lock = "free"
    /\ report = NoReport
    /\ pc = [u \in Uses |-> "idle"]
    /\ request \in [Uses -> Requests]
    /\ rung = [u \in Uses |-> 1]
    /\ limiter = [u \in Uses |-> FALSE]
    /\ answer = [u \in Uses |-> NoReport]
    /\ outcome = [u \in Uses |-> "none"]
    /\ containers = {}
    /\ tried = [u \in Uses |-> [r \in Rungs |-> "untried"]]
    /\ launched = [u \in Uses |-> "none"]
    /\ cleanup = [u \in Uses |-> "none"]

Goto(u, step) == pc' = [pc EXCEPT ![u] = step]

End(u, how) ==
    /\ Goto(u, "done")
    /\ outcome' = [outcome EXCEPT ![u] = how]

-----------------------------------------------------------------------------
(* The host.                                                               *)

\* A program is installed or removed.
HostChanges(program) ==
    /\ changes < MaxChanges
    /\ changes' = changes + 1
    /\ host' = IF program \in host THEN host \ {program}
                                   ELSE host \cup {program}
    /\ UNCHANGED <<setting, shared, pc, locals, outcome, containers, history>>

\* A container whose client is gone ends by itself; --rm removes it.
ContainerEnds(container) ==
    /\ container \in containers
    /\ containers' = containers \ {container}
    /\ UNCHANGED <<environment, shared, pc, locals, outcome, history>>

-----------------------------------------------------------------------------
(* report: under the lock, the cached report or a probe.                   *)

Call(u) ==
    /\ pc[u] = "idle"
    /\ Goto(u, "lock")
    /\ UNCHANGED <<environment, shared, locals, outcome, containers, history>>

GiveCached(u) ==
    /\ pc[u] = "lock" /\ lock = "free"
    /\ report # NoReport
    /\ answer' = [answer EXCEPT ![u] = report]
    /\ Goto(u, "have")
    /\ UNCHANGED <<environment, shared, request, rung, limiter, outcome,
                   containers, history>>

\* Mutant: the report is looked at before the lock is taken, and not again.
ProbeUnlocked(u) ==
    /\ pc[u] = "lock"
    /\ report = NoReport
    /\ lock' = u
    /\ Goto(u, "scratch")
    /\ UNCHANGED <<environment, report, locals, outcome, containers, history>>

\* Mutant: a report whose runtime has gone is thrown away.
ProbeAgain(u) ==
    /\ pc[u] = "lock" /\ lock = "free"
    /\ report = NoReport \/ report.runtime \notin host
    /\ lock' = u
    /\ Goto(u, "scratch")
    /\ UNCHANGED <<environment, report, locals, outcome, containers, history>>

ProbeFirst(u) ==
    /\ pc[u] = "lock" /\ lock = "free"
    /\ report = NoReport
    /\ lock' = u
    /\ Goto(u, "scratch")
    /\ UNCHANGED <<environment, report, locals, outcome, containers, history>>

-----------------------------------------------------------------------------
(* _probe and _canary.                                                     *)

Conclude(u, found) ==
    /\ answer' = [answer EXCEPT ![u] = found]
    /\ Goto(u, "conclude")

NotLinux(u) ==
    /\ pc[u] = "scratch"
    /\ ~setting.linux
    /\ Conclude(u, Unavailable)
    /\ UNCHANGED <<environment, shared, request, rung, limiter, outcome,
                   containers, history>>

MakeScratch(u) ==
    /\ pc[u] = "scratch"
    /\ setting.linux
    /\ rung' = [rung EXCEPT ![u] = 1]
    /\ Goto(u, "rung")
    /\ UNCHANGED <<environment, shared, request, limiter, answer, outcome,
                   containers, history>>

\* Mutant: an exception out of the probe leaves the lock taken.
RaiseLocked(u) ==
    /\ End(u, "probe_raised")
    /\ UNCHANGED <<environment, shared, locals, containers, history>>

\* An exception out of the probe: the lock is released, nothing is cached,
\* and the next use probes again.
Raise(u) ==
    /\ lock' = "free"
    /\ End(u, "probe_raised")
    /\ UNCHANGED <<environment, report, locals, containers, history>>

\* The scratch directory cannot be made, or cannot be cleaned up.
ScratchFails(u) ==
    /\ pc[u] \in {"scratch", "conclude"} /\ setting.linux
    /\ Raise(u)

Found(u, saw) ==
    tried' = [tried EXCEPT ![u][Ladder[rung[u]]] = saw]

NextRung(u) ==
    /\ rung' = [rung EXCEPT ![u] = @ + 1]
    /\ Goto(u, "rung")

NotInstalled(u) ==
    /\ pc[u] = "rung" /\ rung[u] <= Len(Ladder)
    /\ Ladder[rung[u]] \notin host
    /\ Found(u, "absent")
    /\ NextRung(u)
    /\ UNCHANGED <<environment, shared, request, limiter, answer, outcome,
                   containers, launched, cleanup>>

\* A colon in the scratch path is an error of _container_argv, which nothing
\* in the probe catches.
ScratchColon(u) ==
    /\ pc[u] = "rung" /\ rung[u] <= Len(Ladder)
    /\ Ladder[rung[u]] \in host \cap Containers
    /\ setting.colon
    /\ Raise(u)

\* The rung's argv is built; for bwrap, prlimit is looked for.
StartCanary(u) ==
    /\ pc[u] = "rung" /\ rung[u] <= Len(Ladder)
    /\ Ladder[rung[u]] \in host
    /\ Ladder[rung[u]] \in Containers => ~setting.colon
    /\ limiter' = [limiter EXCEPT ![u] = "prlimit" \in host]
    /\ Goto(u, "canary")
    /\ UNCHANGED <<environment, shared, request, rung, answer, outcome,
                   containers, history>>

CanaryRaises(u) ==
    /\ pc[u] = "canary"
    /\ Found(u, "failed")
    /\ NextRung(u)
    /\ UNCHANGED <<environment, shared, request, limiter, answer, outcome,
                   containers, launched, cleanup>>

Killed(captured) == captured.timed_out \/ captured.output_truncated

\* For the history: a canary counts if it ended, by itself, with status 0.
Saw(captured) ==
    IF captured.timed_out \/ captured.exit_code # 0 THEN "failed"
    ELSE IF captured.stderr THEN "warned" ELSE "passed"

\* Mutant: a canary that never answered but left status 0 is a pass.
StatusZero(captured) == captured.exit_code = 0

Passed(captured) == ~captured.timed_out /\ captured.exit_code = 0

Unenforced(r, captured, limited) ==
    IF r \in Containers THEN IF captured.stderr THEN CgroupLimits ELSE {}
    ELSE IF limited THEN {} ELSE LimitNames

\* The client of a container rung that was killed may leave its container.
Leftover(u, r, captured) ==
    IF r \in Containers /\ Killed(captured) THEN {<<u, r>>} ELSE {}

CanaryReturns(u, captured) ==
    /\ pc[u] = "canary"
    /\ LET r == Ladder[rung[u]] IN
       /\ r \in host
       /\ Found(u, Saw(captured))
       /\ containers' = containers \cup Leftover(u, r, captured)
       /\ \/ /\ Passed(captured)
             /\ Conclude(u, [tier |-> Tier(r), runtime |-> r,
                   limiter |-> r = "bwrap" /\ limiter[u],
                   limits_unenforced |-> Unenforced(r, captured, limiter[u])])
             /\ UNCHANGED rung
          \/ /\ ~Passed(captured)
             /\ NextRung(u)
             /\ UNCHANGED answer
    /\ UNCHANGED <<environment, shared, request, limiter, outcome, launched,
                   cleanup>>

NoRungLeft(u) ==
    /\ pc[u] = "rung" /\ rung[u] > Len(Ladder)
    /\ Conclude(u, Unavailable)
    /\ UNCHANGED <<environment, shared, request, rung, limiter, outcome,
                   containers, history>>

\* The scratch directory is gone, the report is cached, the lock released.
Cache(u) ==
    /\ pc[u] = "conclude"
    /\ report' = answer[u]
    /\ lock' = "free"
    /\ Goto(u, "have")
    /\ UNCHANGED <<environment, locals, outcome, containers, history>>

-----------------------------------------------------------------------------
(* isolation_tier and run_isolated, once they have their report.           *)

TierAnswered(u) ==
    /\ pc[u] = "have" /\ request[u].op = "isolation_tier"
    /\ End(u, "tier")
    /\ UNCHANGED <<environment, shared, locals, containers, history>>

Faulty(u, fault) == fault \in request[u].faults

\* The early exits of run_isolated, in order.  A colon matters to the volume
\* syntax of a container only.
Rejection(u) ==
    IF answer[u].tier = "unavailable" THEN "toolyard_error"
    ELSE IF Faulty(u, "caller") THEN "validation_error"
    ELSE IF Faulty(u, "argv") THEN "argv_refused"
    ELSE IF Faulty(u, "workspace") \/ (answer[u].tier = "container"
                                          /\ Faulty(u, "colon"))
         THEN "validation_error"
    ELSE "none"

Reject(u) ==
    /\ pc[u] = "have" /\ request[u].op = "run_isolated"
    /\ Rejection(u) # "none"
    /\ End(u, Rejection(u))
    /\ UNCHANGED <<environment, shared, locals, containers, history>>

Accept(u) ==
    /\ pc[u] = "have" /\ request[u].op = "run_isolated"
    /\ Rejection(u) = "none"
    /\ Goto(u, "launch")
    /\ UNCHANGED <<environment, shared, locals, outcome, containers, history>>

\* Mutant: a runtime that vanished is replaced by bwrap.
FallBack(u) == IF answer[u].runtime \in host THEN answer[u].runtime ELSE "bwrap"

Runtime(u) == answer[u].runtime

Launch(u) ==
    /\ pc[u] = "launch"
    /\ Runtime(u) \in host
    /\ launched' = [launched EXCEPT ![u] = Runtime(u)]
    /\ containers' = IF Runtime(u) \in Containers
                     THEN containers \cup {<<u, "run">>} ELSE containers
    /\ Goto(u, "running")
    /\ UNCHANGED <<environment, shared, locals, outcome, tried, cleanup>>

\* The runtime can no longer be launched: the OSError becomes ToolYardError.
LaunchFails(u) ==
    /\ pc[u] = "launch"
    /\ End(u, "toolyard_error")
    /\ UNCHANGED <<environment, shared, locals, containers, history>>

\* Mutant: only a timeout is followed by a removal.
RemoveAfterTimeout(u, captured) ==
    answer[u].tier = "container" /\ captured.timed_out

NeedsRemoval(u, captured) ==
    answer[u].tier = "container" /\ Killed(captured)

\* A client that was not killed outlives its container.
CommandReturns(u, captured) ==
    /\ pc[u] = "running"
    /\ containers' = IF Killed(captured) THEN containers
                     ELSE containers \ {<<u, "run">>}
    /\ \/ /\ NeedsRemoval(u, captured)
          /\ Goto(u, "remove")
          /\ UNCHANGED outcome
       \/ /\ ~NeedsRemoval(u, captured)
          /\ End(u, IF Killed(captured) THEN "killed" ELSE "result")
    /\ UNCHANGED <<environment, shared, locals, history>>

\* _remove_container: best effort; what came of it is only logged.
Remove(u) ==
    /\ pc[u] = "remove"
    /\ \/ /\ answer[u].runtime \in host
          /\ containers' = containers \ {<<u, "run">>}
          /\ cleanup' = [cleanup EXCEPT ![u] = "removed"]
       \/ /\ cleanup' = [cleanup EXCEPT ![u] = "failed"]
          /\ UNCHANGED containers
    /\ End(u, "killed")
    /\ UNCHANGED <<environment, shared, locals, tried, launched>>

-----------------------------------------------------------------------------
Probe(u) ==
    \/ NotLinux(u) \/ MakeScratch(u) \/ ScratchFails(u)
    \/ NotInstalled(u) \/ ScratchColon(u)
    \/ StartCanary(u) \/ CanaryRaises(u)
    \/ \E captured \in CaptureType : CanaryReturns(u, captured)
    \/ NoRungLeft(u) \/ Cache(u)

Run(u) ==
    \/ Reject(u) \/ Accept(u) \/ Launch(u) \/ LaunchFails(u)
    \/ \E captured \in CaptureType : CommandReturns(u, captured)
    \/ Remove(u)

\* What a use does once it has called.
Step(u) ==
    \/ GiveCached(u) \/ ProbeFirst(u) \/ Probe(u)
    \/ TierAnswered(u) \/ Run(u)

Next ==
    \/ \E program \in Rungs \cup {"prlimit"} : HostChanges(program)
    \/ \E container \in containers : ContainerEnds(container)
    \/ \E u \in Uses : Call(u) \/ Step(u)

Spec == Init /\ [][Next]_vars

\* Threads are scheduled, and every launch returns (LaunchReturns).  Nothing is
\* asked of the lock's order: a use takes it once, so none waits for ever.
FairSpec == Spec /\ \A u \in Uses : WF_vars(Step(u))

-----------------------------------------------------------------------------
(* Properties.                                                             *)

TypeOK ==
    /\ host \subseteq Rungs \cup {"prlimit"}
    /\ changes \in 0 .. MaxChanges
    /\ setting \in [linux : BOOLEAN, colon : BOOLEAN]
    /\ lock \in Uses \cup {"free"}
    /\ report \in ReportType
    /\ pc \in [Uses -> Steps]
    /\ request \in [Uses -> Requests]
    /\ rung \in [Uses -> 1 .. Len(Ladder) + 1]
    /\ limiter \in [Uses -> BOOLEAN]
    /\ answer \in [Uses -> ReportType]
    /\ outcome \in [Uses -> Outcomes]
    /\ containers \subseteq Uses \X (Containers \cup {"run"})
    /\ tried \in [Uses -> [Rungs ->
          {"untried", "absent", "failed", "passed", "warned"}]]
    /\ launched \in [Uses -> Rungs \cup {"none"}]
    /\ cleanup \in [Uses -> {"none", "removed", "failed"}]

Probing(u) == pc[u] \in {"scratch", "rung", "canary", "conclude"}

\* One probe at a time, by the holder of the lock, and none once a report is
\* cached: at most one canary container per runtime is ever started at once.
ProbesExclusive ==
    \A u \in Uses : Probing(u) => lock = u /\ report = NoReport

\* Everyone is told the same tier: the report a use acts on is the cached one.
AnswersAgree ==
    \A u \in Uses : answer[u] # NoReport /\ ~Probing(u)
                       /\ outcome[u] # "probe_raised" => answer[u] = report

\* A decided rung is never re-decided, whatever happens to the host.
DecidedOnce == [][report # NoReport => report' = report]_report

\* The rung is earned: one probe ran its canary there and saw it pass, and saw
\* every better rung absent or failing; "unavailable" means it saw them all so.
\* The limits reported unenforced are the ones that probe saw no proof of.
Earned(rep, saw) ==
    LET Lost(r) == saw[r] \in {"absent", "failed"}
        won == rep.runtime
    IN  IF rep.tier = "unavailable" THEN \A r \in Rungs : Lost(r)
        ELSE /\ saw[won] \in {"passed", "warned"}
             /\ \A i, j \in DOMAIN Ladder :
                   i < j /\ Ladder[j] = won => Lost(Ladder[i])
             /\ won \in Containers /\ saw[won] = "warned"
                   => CgroupLimits \subseteq rep.limits_unenforced
             /\ won = "bwrap" /\ ~rep.limiter
                   => rep.limits_unenforced = LimitNames

RungEarned ==
    report # NoReport =>
        \/ ~setting.linux /\ report = Unavailable
        \/ setting.linux /\ \E u \in Uses : Earned(report, tried[u])

\* A command runs under the decided rung or not at all, and only when nothing
\* was wrong with the call: no fallback, no host execution, no launch that a
\* check was still to refuse.
RunsAsDecided ==
    \A u \in Uses : launched[u] # "none" =>
        /\ launched[u] = report.runtime
        /\ request[u].faults \subseteq {"colon"}
        /\ "colon" \in request[u].faults => report.tier = "bwrap"

\* A command whose client was killed leaves no container behind when it ends,
\* unless the runtime was asked to remove it and did not.
CommandContainerRemoved ==
    \A u \in Uses : pc[u] = "done" /\ <<u, "run">> \in containers
                       => cleanup[u] = "failed"

\* Every use ends: the lock is released whatever the probe does.
EveryUseEnds == \A u \in Uses : pc[u] = "lock" ~> pc[u] = "done"

\* sandbox.py, module documentation: "a timed-out or output-capped container
\* is removed by name afterwards".
EveryContainerRemoved ==
    \A u \in Uses : pc[u] = "done" /\ cleanup[u] # "failed"
        => \A c \in containers : c[1] # u
=============================================================================
