---------------------------- MODULE SandboxProofs ----------------------------
(***************************************************************************)
(* TieredSandbox for any number of threads, any ladder of runtimes and any *)
(* host: one probe at a time, one report for ever and the same answer for  *)
(* everyone; a rung that was earned; commands that run as decided and      *)
(* leave no container behind.                                              *)
(***************************************************************************)
EXTENDS Sandbox, TLAPS

-----------------------------------------------------------------------------
(* The inductive invariant: who may hold the lock, and what each thread    *)
(* knows at each step.                                                     *)

NotYet == {"idle", "lock", "scratch", "rung", "canary"}
Acting == {"have", "launch", "running", "remove"}

\* A probing thread holds the lock, and nothing is cached while it probes.
Locked(u) == Probing(u) => lock = u /\ report = NoReport

Decided(u) == answer[u] = report /\ report # NoReport

\* What a thread knows of the report, by the step it stands at.
Informed(u) ==
    /\ pc[u] \in Steps
    /\ pc[u] \in NotYet => answer[u] = NoReport
    /\ pc[u] = "conclude" => answer[u] # NoReport
    /\ pc[u] \in Acting => Decided(u)
    /\ pc[u] = "done" => outcome[u] = "probe_raised" \/ Decided(u)

LockInv ==
    /\ DOMAIN pc = Uses /\ DOMAIN answer = Uses /\ DOMAIN outcome = Uses
    /\ \A u \in Uses : Locked(u) /\ Informed(u)

-----------------------------------------------------------------------------
(* Lemmas.                                                                 *)

\* Neither report a probe may conclude with is None.
LEMMA FoundIsAReport ==
    /\ Unavailable # NoReport
    /\ \A r, limited, limits :
          [tier |-> Tier(r), runtime |-> r, limiter |-> limited,
           limits_unenforced |-> limits] # NoReport
<1>1. NoReport.tier = "none" /\ Unavailable.tier = "unavailable"
    BY DEF NoReport, Unavailable, Unprobed
<1>2. ASSUME NEW r, NEW limited, NEW limits
      PROVE  [tier |-> Tier(r), runtime |-> r, limiter |-> limited,
              limits_unenforced |-> limits].tier # "none"
    BY DEF Tier
<1> QED BY <1>1, <1>2

\* A step that leaves the lock, the report and every other thread alone keeps
\* the invariant if it keeps this thread's share of it.
LEMMA OtherUsesAlone ==
    ASSUME LockInv, NEW u \in Uses,
           DOMAIN pc' = Uses, DOMAIN answer' = Uses, DOMAIN outcome' = Uses,
           \A v \in Uses \ {u} : /\ pc'[v] = pc[v]
                                 /\ answer'[v] = answer[v]
                                 /\ outcome'[v] = outcome[v],
           UNCHANGED <<lock, report>>,
           Locked(u)', Informed(u)'
    PROVE  LockInv'
<1>1. ASSUME NEW v \in Uses, v # u PROVE Locked(v)' /\ Informed(v)'
    BY <1>1 DEF LockInv, Locked, Informed, Decided, Probing
<1> QED BY <1>1 DEF LockInv

-----------------------------------------------------------------------------
LEMMA LockInit == Init => LockInv
BY DEF Init, LockInv, Locked, Informed, Probing, Steps, NotYet, Acting

\* Steps of a thread that only move it along.
LEMMA LockMoves ==
    ASSUME LockInv, NEW u \in Uses,
           \/ Call(u) \/ NotLinux(u) \/ MakeScratch(u)
           \/ NotInstalled(u) \/ StartCanary(u) \/ CanaryRaises(u)
           \/ NoRungLeft(u) \/ Accept(u) \/ Launch(u)
    PROVE  LockInv'
<1> USE DEF LockInv, Goto, shared, locals
<1>1. /\ DOMAIN pc' = Uses /\ DOMAIN answer' = Uses
      /\ UNCHANGED <<lock, report, outcome>>
      /\ \A v \in Uses \ {u} : pc'[v] = pc[v] /\ answer'[v] = answer[v]
    BY DEF Call, NotLinux, MakeScratch, NotInstalled, StartCanary,
           CanaryRaises, NoRungLeft, Accept, Launch, Conclude, NextRung
<1>2. /\ pc'[u] \in Steps
      /\ Probing(u)' => Probing(u)
    BY DEF Call, NotLinux, MakeScratch, NotInstalled, StartCanary,
           CanaryRaises, NoRungLeft, Accept, Launch, Conclude, NextRung,
           Steps, Probing
<1>3. \/ pc[u] \in NotYet /\ pc'[u] \in NotYet /\ answer'[u] = answer[u]
      \/ pc'[u] = "conclude" /\ answer'[u] = Unavailable
      \/ pc[u] \in Acting /\ pc'[u] \in Acting /\ answer'[u] = answer[u]
    BY DEF Call, NotLinux, MakeScratch, NotInstalled, StartCanary,
           CanaryRaises, NoRungLeft, Accept, Launch, Conclude, NextRung,
           NotYet, Acting
<1>4. Locked(u)'
    BY <1>1, <1>2 DEF Locked
<1>5. Informed(u)'
    BY <1>1, <1>2, <1>3, FoundIsAReport
    DEF Informed, Decided, NotYet, Acting
<1> HIDE DEF LockInv
<1>6. DOMAIN outcome' = Uses
    BY <1>1 DEF LockInv
<1> QED BY <1>1, <1>4, <1>5, <1>6, OtherUsesAlone

\* Steps by which a thread that has its report comes to its end.
LEMMA LockEnds ==
    ASSUME LockInv, NEW u \in Uses,
           \/ TierAnswered(u) \/ Reject(u) \/ LaunchFails(u) \/ Remove(u)
           \/ \E captured \in CaptureType : CommandReturns(u, captured)
    PROVE  LockInv'
<1>1. /\ DOMAIN pc' = Uses /\ DOMAIN outcome' = Uses
      /\ UNCHANGED <<lock, report, answer>>
      /\ \A v \in Uses \ {u} : pc'[v] = pc[v] /\ outcome'[v] = outcome[v]
    BY DEF LockInv, TierAnswered, Reject, LaunchFails, Remove, CommandReturns,
           End, Goto, shared, locals
<1>2. pc[u] \in Acting /\ pc'[u] \in {"remove", "done"}
    BY DEF LockInv, TierAnswered, Reject, LaunchFails, Remove, CommandReturns,
           End, Goto, Acting
<1>3. Locked(u)'
    BY <1>2 DEF Locked, Probing
<1>4. Informed(u)'
    BY <1>1, <1>2 DEF LockInv, Informed, Decided, NotYet, Acting, Steps
<1>5. DOMAIN answer' = Uses /\ \A v \in Uses : answer'[v] = answer[v]
    BY <1>1 DEF LockInv
<1> QED BY <1>1, <1>3, <1>4, <1>5, OtherUsesAlone

LEMMA LockGiveCached ==
    ASSUME LockInv, NEW u \in Uses, GiveCached(u)
    PROVE  LockInv'
<1>1. /\ DOMAIN pc' = Uses /\ DOMAIN answer' = Uses
      /\ UNCHANGED <<lock, report, outcome>>
      /\ \A v \in Uses \ {u} : pc'[v] = pc[v] /\ answer'[v] = answer[v]
      /\ pc'[u] = "have" /\ answer'[u] = report /\ report # NoReport
    BY DEF LockInv, GiveCached, Goto, shared
<1>2. Locked(u)' /\ Informed(u)'
    BY <1>1 DEF Locked, Probing, Informed, Decided, NotYet, Acting, Steps
<1>3. DOMAIN outcome' = Uses
    BY <1>1 DEF LockInv
<1> QED BY <1>1, <1>2, <1>3, OtherUsesAlone

\* The lock was free, so nobody was probing.
LEMMA LockProbeFirst ==
    ASSUME LockInv, NEW u \in Uses, ProbeFirst(u)
    PROVE  LockInv'
<1>1. /\ DOMAIN pc' = Uses
      /\ UNCHANGED <<report, answer, outcome>>
      /\ \A v \in Uses \ {u} : pc'[v] = pc[v]
      /\ pc[u] = "lock" /\ pc'[u] = "scratch"
      /\ lock = "free" /\ lock' = u /\ report = NoReport
    BY DEF LockInv, ProbeFirst, Goto, locals
<1>2. \A v \in Uses : ~Probing(v)
    BY <1>1, SandboxAssumption DEF LockInv, Locked
<1>3. \A v \in Uses : Locked(v)'
    BY <1>1, <1>2 DEF Locked, Probing
<1>4. \A v \in Uses : Informed(v)'
    BY <1>1 DEF LockInv, Informed, Decided, NotYet, Acting, Steps
<1> QED BY <1>1, <1>3, <1>4 DEF LockInv

\* An exception out of the probe: nothing is cached, the lock is released.
LEMMA LockRaise ==
    ASSUME LockInv, NEW u \in Uses, ScratchFails(u) \/ ScratchColon(u)
    PROVE  LockInv'
<1>1. /\ DOMAIN pc' = Uses /\ DOMAIN outcome' = Uses
      /\ UNCHANGED <<report, answer>>
      /\ \A v \in Uses \ {u} : pc'[v] = pc[v] /\ outcome'[v] = outcome[v]
      /\ pc'[u] = "done" /\ outcome'[u] = "probe_raised"
      /\ Probing(u)
    BY DEF LockInv, ScratchFails, ScratchColon, Raise, End, Goto, locals,
           Probing
<1>2. \A v \in Uses \ {u} : ~Probing(v)
    BY <1>1, SandboxAssumption DEF LockInv, Locked
<1>3. \A v \in Uses : Locked(v)'
    BY <1>1, <1>2 DEF Locked, Probing
<1>4. \A v \in Uses : Informed(v)'
    BY <1>1 DEF LockInv, Informed, Decided, NotYet, Acting, Steps
<1> QED BY <1>1, <1>3, <1>4 DEF LockInv

LEMMA LockCanaryReturns ==
    ASSUME LockInv, NEW u \in Uses, NEW captured \in CaptureType,
           CanaryReturns(u, captured)
    PROVE  LockInv'
<1>1. /\ DOMAIN pc' = Uses /\ DOMAIN answer' = Uses
      /\ UNCHANGED <<lock, report, outcome>>
      /\ \A v \in Uses \ {u} : pc'[v] = pc[v] /\ answer'[v] = answer[v]
      /\ pc[u] = "canary"
      /\ \/ pc'[u] = "conclude" /\ answer'[u] # NoReport
         \/ pc'[u] = "rung" /\ answer' = answer
    BY FoundIsAReport
    DEF LockInv, CanaryReturns, Conclude, NextRung, Goto, shared
<1>2. Locked(u)'
    BY <1>1 DEF LockInv, Locked, Probing
<1>3. Informed(u)'
    BY <1>1 DEF LockInv, Informed, Decided, NotYet, Acting, Steps
<1>4. DOMAIN outcome' = Uses
    BY <1>1 DEF LockInv
<1> QED BY <1>1, <1>2, <1>3, <1>4, OtherUsesAlone

\* Nobody acts on a report before one is cached, so caching it misleads nobody.
LEMMA LockCache ==
    ASSUME LockInv, NEW u \in Uses, Cache(u)
    PROVE  LockInv'
<1>1. /\ DOMAIN pc' = Uses
      /\ UNCHANGED <<answer, outcome>>
      /\ \A v \in Uses \ {u} : pc'[v] = pc[v]
      /\ pc[u] = "conclude" /\ pc'[u] = "have"
      /\ report' = answer[u]
    BY DEF LockInv, Cache, Goto, locals
<1>2. Probing(u) /\ answer[u] # NoReport /\ report = NoReport
    BY <1>1 DEF LockInv, Locked, Informed, Probing
<1>3. \A v \in Uses \ {u} : ~Probing(v)
    BY <1>2, SandboxAssumption DEF LockInv, Locked
<1>4. \A v \in Uses : Locked(v)'
    BY <1>1, <1>3 DEF Locked, Probing
<1>5. \A v \in Uses : Informed(v)'
    BY <1>1, <1>2 DEF LockInv, Informed, Decided, NotYet, Acting, Steps
<1> QED BY <1>1, <1>4, <1>5 DEF LockInv

LEMMA LockNext == LockInv /\ [Next]_vars => LockInv'
<1> SUFFICES ASSUME LockInv, [Next]_vars PROVE LockInv'
    OBVIOUS
<1>1. ASSUME NEW u \in Uses, Call(u) \/ Step(u) PROVE LockInv'
    BY <1>1, LockMoves, LockEnds, LockGiveCached, LockProbeFirst, LockRaise,
       LockCanaryReturns, LockCache
    DEF Step, Probe, Run
<1>2. ASSUME UNCHANGED <<lock, report, pc, answer, outcome>> PROVE LockInv'
    BY <1>2 DEF LockInv, Locked, Informed, Decided, Probing
<1>3. ASSUME NEW program, HostChanges(program) PROVE LockInv'
    BY <1>2, <1>3 DEF HostChanges, shared, locals
<1>4. ASSUME NEW container, ContainerEnds(container) PROVE LockInv'
    BY <1>2, <1>4 DEF ContainerEnds, shared, locals
<1>5. CASE UNCHANGED vars
    BY <1>2, <1>5 DEF vars, shared, locals
<1> QED BY <1>1, <1>3, <1>4, <1>5 DEF Next

LEMMA LockInvariant == Spec => []LockInv
BY LockInit, LockNext, PTL DEF Spec

-----------------------------------------------------------------------------
(* Types, and what a probe has seen.                                       *)

Seen == {"untried", "absent", "failed", "passed", "warned"}

\* The ladder: the runtimes in their order, each once, and bwrap last.
LEMMA LadderFacts ==
    /\ Len(Runtimes) \in Nat /\ Len(Ladder) = Len(Runtimes) + 1
    /\ DOMAIN Ladder = 1 .. Len(Ladder)
    /\ \A i \in DOMAIN Ladder : Ladder[i] \in Rungs
    /\ Rungs = Containers \cup {"bwrap"}
    /\ "none" \notin Rungs
    /\ \A i, j \in DOMAIN Ladder : Ladder[i] = Ladder[j] => i = j
<1>1. Runtimes \in Seq(STRING)
    BY SandboxAssumption
<1>2. /\ Len(Runtimes) \in Nat /\ DOMAIN Runtimes = 1 .. Len(Runtimes)
      /\ Len(Ladder) = Len(Runtimes) + 1 /\ DOMAIN Ladder = 1 .. Len(Ladder)
      /\ \A i \in DOMAIN Runtimes : Ladder[i] = Runtimes[i]
      /\ Ladder[Len(Ladder)] = "bwrap"
    BY <1>1 DEF Ladder
<1>3. \A i \in DOMAIN Ladder : i # Len(Ladder) =>
            i \in DOMAIN Runtimes /\ Ladder[i] \in Containers
    BY <1>2 DEF Containers
<1>4. Rungs = Containers \cup {"bwrap"}
    BY <1>2, <1>3 DEF Rungs, Containers
<1>5. \A i, j \in DOMAIN Ladder : Ladder[i] = Ladder[j] => i = j
    BY <1>2, <1>3, SandboxAssumption
<1> QED BY <1>2, <1>4, <1>5, SandboxAssumption DEF Rungs

LEMMA Reports ==
    /\ NoReport \in ReportType /\ Unavailable \in ReportType
    /\ \A r \in Rungs, limited \in BOOLEAN, limits \in SUBSET LimitNames :
          [tier |-> Tier(r), runtime |-> r, limiter |-> limited,
           limits_unenforced |-> limits] \in ReportType
BY DEF NoReport, Unavailable, Unprobed, ReportType, Tier

LEMMA TypeInit == Init => TypeOK
BY SandboxAssumption, LadderFacts, Reports DEF Init, TypeOK, Steps, Outcomes

\* What a probe saw is noted for one rung, and it goes on to the next.
LEMMA TypeFound ==
    ASSUME TypeOK, NEW u \in Uses, NEW saw \in Seen, Found(u, saw),
           rung[u] \in DOMAIN Ladder
    PROVE  /\ tried' \in [Uses -> [Rungs -> Seen]]
           /\ \A v \in Uses \ {u} : tried'[v] = tried[v]
           /\ \A r \in Rungs : tried'[u][r] =
                 IF r = Ladder[rung[u]] THEN saw ELSE tried[u][r]
<1> DEFINE mine == [tried[u] EXCEPT ![Ladder[rung[u]]] = saw]
<1>1. tried[u] \in [Rungs -> Seen]
    BY DEF TypeOK, Seen
<1>2. /\ mine \in [Rungs -> Seen]
      /\ \A r \in Rungs :
            mine[r] = IF r = Ladder[rung[u]] THEN saw ELSE tried[u][r]
    BY <1>1
<1>3. tried' = [tried EXCEPT ![u] = mine]
    BY DEF Found
<1> HIDE DEF mine
<1> QED BY <1>2, <1>3 DEF TypeOK, Seen

LEMMA TypeNextRung ==
    ASSUME TypeOK, NEW u \in Uses, NextRung(u), rung[u] <= Len(Ladder)
    PROVE  /\ rung' \in [Uses -> 1 .. Len(Ladder) + 1] /\ pc' \in [Uses -> Steps]
           /\ rung'[u] = rung[u] + 1 /\ pc'[u] = "rung"
           /\ \A v \in Uses \ {u} : rung'[v] = rung[v] /\ pc'[v] = pc[v]
BY LadderFacts DEF TypeOK, NextRung, Goto, Steps

LEMMA TypeRungLost ==
    ASSUME TypeOK, NEW u \in Uses, NotInstalled(u) \/ CanaryRaises(u),
           rung[u] <= Len(Ladder)
    PROVE  TypeOK'
<1>1. rung[u] \in DOMAIN Ladder
    BY LadderFacts DEF TypeOK
<1>2. tried' \in [Uses -> [Rungs -> Seen]]
    BY <1>1, TypeFound DEF NotInstalled, CanaryRaises, Seen
<1>3. NextRung(u)
    BY DEF NotInstalled, CanaryRaises
<1>4. UNCHANGED <<environment, shared, request, limiter, answer, outcome,
                  containers, launched, cleanup>>
    BY DEF NotInstalled, CanaryRaises
<1> QED BY <1>2, <1>3, <1>4, TypeNextRung DEF TypeOK, environment, shared, Seen

LEMMA TypeCanaryReturns ==
    ASSUME TypeOK, NEW u \in Uses, NEW captured \in CaptureType,
           CanaryReturns(u, captured), rung[u] <= Len(Ladder)
    PROVE  TypeOK'
<1> DEFINE r == Ladder[rung[u]]
<1>1. rung[u] \in DOMAIN Ladder /\ r \in Rungs
    BY LadderFacts DEF TypeOK
<1>2. tried' \in [Uses -> [Rungs -> Seen]]
    BY <1>1, TypeFound DEF CanaryReturns, Saw, Seen
<1>3. limiter[u] \in BOOLEAN /\ captured.stderr \in BOOLEAN
    BY DEF TypeOK, CaptureType
<1>4. Unenforced(r, captured, limiter[u]) \in SUBSET LimitNames
    BY DEF Unenforced, LimitNames, CgroupLimits
<1>5. containers' \subseteq Uses \X (Containers \cup {"run"})
    BY <1>1 DEF CanaryReturns, Leftover, TypeOK
<1>6. /\ answer' \in [Uses -> ReportType] /\ pc' \in [Uses -> Steps]
      /\ rung' \in [Uses -> 1 .. Len(Ladder) + 1]
  <2>1. ASSUME NEW found \in ReportType, Conclude(u, found), UNCHANGED rung
        PROVE  /\ answer' \in [Uses -> ReportType] /\ pc' \in [Uses -> Steps]
               /\ rung' \in [Uses -> 1 .. Len(Ladder) + 1]
    BY <2>1 DEF Conclude, Goto, TypeOK, Steps
  <2>2. CASE NextRung(u) /\ UNCHANGED answer
    BY <2>2, TypeNextRung DEF TypeOK
  <2>3. [tier |-> Tier(r), runtime |-> r, limiter |-> r = "bwrap" /\ limiter[u],
         limits_unenforced |-> Unenforced(r, captured, limiter[u])]
           \in ReportType
    <3>1. (r = "bwrap" /\ limiter[u]) \in BOOLEAN
      OBVIOUS
    <3> QED BY <1>1, <1>4, <3>1, Reports
  <2> QED BY <2>1, <2>2, <2>3 DEF CanaryReturns
<1> QED BY <1>2, <1>5, <1>6
    DEF CanaryReturns, TypeOK, environment, shared, Seen

LEMMA TypeStep ==
    ASSUME TypeOK, NEW u \in Uses, Call(u) \/ Step(u),
           pc[u] = "canary" => rung[u] <= Len(Ladder)
    PROVE  TypeOK'
<1>1. CASE Call(u)
    BY <1>1 DEF TypeOK, Call, Goto, Steps, environment, shared, locals,
       history
<1>2. CASE GiveCached(u)
    BY <1>2 DEF TypeOK, GiveCached, Goto, Steps, environment, shared,
       locals, history
<1>3. CASE ProbeFirst(u)
    BY <1>3 DEF TypeOK, ProbeFirst, Goto, Steps, environment, shared,
       locals, history
<1>4. CASE NotLinux(u)
    BY <1>4, Reports DEF TypeOK, NotLinux, Conclude, Goto, Steps,
       environment, shared, locals, history
<1>5. CASE NoRungLeft(u)
    BY <1>5, Reports DEF TypeOK, NoRungLeft, Conclude, Goto, Steps,
       environment, shared, locals, history
<1>6. CASE ScratchFails(u)
    BY <1>6 DEF TypeOK, ScratchFails, Raise, End, Outcomes, Goto, Steps,
       environment, shared, locals, history
<1>7. CASE ScratchColon(u)
    BY <1>7 DEF TypeOK, ScratchColon, Raise, End, Outcomes, Goto, Steps,
       environment, shared, locals, history
<1>8. CASE StartCanary(u)
    BY <1>8 DEF TypeOK, StartCanary, Goto, Steps, environment, shared,
       locals, history
<1>9. CASE Cache(u)
    BY <1>9 DEF TypeOK, Cache, Goto, Steps, environment, shared, locals,
       history
<1>10. CASE TierAnswered(u)
    BY <1>10 DEF TypeOK, TierAnswered, End, Outcomes, Goto, Steps,
       environment, shared, locals, history
<1>11. CASE Reject(u)
    BY <1>11 DEF TypeOK, Reject, Rejection, End, Outcomes, Goto, Steps,
       environment, shared, locals, history
<1>12. CASE Accept(u)
    BY <1>12 DEF TypeOK, Accept, Goto, Steps, environment, shared, locals,
       history
<1>13. CASE LaunchFails(u)
    BY <1>13 DEF TypeOK, LaunchFails, End, Outcomes, Goto, Steps,
       environment, shared, locals, history
<1>14. CASE Remove(u)
    BY <1>14 DEF TypeOK, Remove, End, Outcomes, Goto, Steps, environment,
       shared, locals, history
<1>15. CASE MakeScratch(u)
  <2>1. 1 \in 1 .. Len(Ladder) + 1
    BY LadderFacts
  <2> QED BY <1>15, <2>1 DEF TypeOK, MakeScratch, Goto, Steps, environment, shared, locals, history
<1>16. CASE Launch(u)
    BY <1>16 DEF TypeOK, Launch, Runtime, ReportType, Goto, Steps, environment, shared, locals, history
<1>17. ASSUME NEW captured \in CaptureType, CommandReturns(u, captured)
      PROVE  TypeOK'
    BY <1>17 DEF TypeOK, CommandReturns, End, Goto, Steps, Outcomes, environment, shared, locals, history
<1>18. CASE NotInstalled(u) \/ CanaryRaises(u)
    BY <1>18, TypeRungLost DEF NotInstalled, CanaryRaises
<1>19. ASSUME NEW captured \in CaptureType, CanaryReturns(u, captured)
      PROVE  TypeOK'
    BY <1>19, TypeCanaryReturns DEF CanaryReturns
<1> QED BY <1>1, <1>2, <1>3, <1>4, <1>5, <1>6, <1>7, <1>8, <1>9, <1>10, <1>11, <1>12, <1>13, <1>14, <1>15, <1>16, <1>17, <1>18, <1>19 DEF Step, Probe, Run

LEMMA TypeHost ==
    ASSUME TypeOK,
           \/ \E program \in Rungs \cup {"prlimit"} : HostChanges(program)
           \/ \E container \in containers : ContainerEnds(container)
           \/ UNCHANGED vars
    PROVE  TypeOK'
<1>1. ASSUME NEW program \in Rungs \cup {"prlimit"}, HostChanges(program)
      PROVE  TypeOK'
    BY <1>1, SandboxAssumption
    DEF TypeOK, HostChanges, environment, shared, locals, history
<1>2. ASSUME NEW container, ContainerEnds(container) PROVE TypeOK'
    BY <1>2 DEF TypeOK, ContainerEnds, environment, shared, locals, history
<1>3. CASE UNCHANGED vars
    BY <1>3 DEF TypeOK, vars, environment, shared, locals, history
<1> QED BY <1>1, <1>2, <1>3

-----------------------------------------------------------------------------
(* The probe: every rung below the one it is at was seen lost, and what it *)
(* concludes is what it saw.                                               *)

EarnedBy(u, rep) ==
    \/ ~setting.linux /\ rep = Unavailable
    \/ setting.linux /\ Earned(rep, tried[u])

BetterLost(u) ==
    \A i \in DOMAIN Ladder :
        i < rung[u] => tried[u][Ladder[i]] \in {"absent", "failed"}

Along(u) ==
    /\ pc[u] \in {"rung", "canary"} => setting.linux /\ BetterLost(u)
    /\ pc[u] = "canary" => rung[u] <= Len(Ladder)
    /\ pc[u] = "conclude" => EarnedBy(u, answer[u])

ReportEarned == report # NoReport => \E u \in Uses : EarnedBy(u, report)

ProbeInv ==
    /\ TypeOK /\ LockInv /\ ReportEarned
    /\ \A u \in Uses : Along(u)

LEMMA ProbeInit == Init => ProbeInv
<1> SUFFICES ASSUME Init PROVE ProbeInv
    OBVIOUS
<1>1. \A u \in Uses : Along(u)
    BY DEF Init, Along
<1>2. ReportEarned
    BY DEF Init, ReportEarned
<1> QED BY <1>1, <1>2, TypeInit, LockInit DEF ProbeInv

\* A step by which nobody comes further in a probe.
LEMMA NobodyProbes ==
    ASSUME ProbeInv, UNCHANGED <<setting, tried, report>>,
           \A v \in Uses : pc'[v] \in {"rung", "canary", "conclude"} =>
              pc'[v] = pc[v] /\ rung'[v] = rung[v] /\ answer'[v] = answer[v]
    PROVE  ReportEarned' /\ \A v \in Uses : Along(v)'
<1>1. ReportEarned'
    BY DEF ProbeInv, ReportEarned, EarnedBy
<1>2. ASSUME NEW v \in Uses PROVE Along(v)'
    BY <1>2 DEF ProbeInv, Along, EarnedBy, BetterLost
<1> QED BY <1>1, <1>2

\* A step of a probe: there is no report, and everyone else is left alone.
LEMMA OneProbes ==
    ASSUME ProbeInv, NEW u \in Uses, Probing(u), UNCHANGED <<setting, report>>,
           \A v \in Uses \ {u} : /\ pc'[v] = pc[v] /\ rung'[v] = rung[v]
                                 /\ answer'[v] = answer[v]
                                 /\ tried'[v] = tried[v],
           Along(u)'
    PROVE  ReportEarned' /\ \A v \in Uses : Along(v)'
<1>1. ReportEarned'
    BY DEF ProbeInv, LockInv, Locked, ReportEarned
<1>2. ASSUME NEW v \in Uses \ {u} PROVE Along(v)'
    BY <1>2 DEF ProbeInv, Along, EarnedBy, BetterLost
<1> QED BY <1>1, <1>2

\* A rung that is lost adds to those below the next.
LEMMA RungLost ==
    ASSUME ProbeInv, NEW u \in Uses, rung[u] \in DOMAIN Ladder, setting'.linux,
           BetterLost(u), NEW saw \in {"absent", "failed"}, Found(u, saw),
           NextRung(u)
    PROVE  Along(u)'
<1>1. /\ rung'[u] = rung[u] + 1 /\ pc'[u] = "rung"
      /\ \A r \in Rungs : tried'[u][r] =
            IF r = Ladder[rung[u]] THEN saw ELSE tried[u][r]
    BY TypeFound, TypeNextRung, LadderFacts DEF ProbeInv, Seen
<1>2. BetterLost(u)'
  <2>1. rung[u] \in Nat /\ DOMAIN Ladder \subseteq Nat
    BY LadderFacts DEF ProbeInv, TypeOK
  <2>2. ASSUME NEW i \in DOMAIN Ladder, i < rung[u] + 1
        PROVE  tried'[u][Ladder[i]] \in {"absent", "failed"}
    <3>1. i < rung[u] \/ i = rung[u]
      BY <2>1, <2>2
    <3>2. i < rung[u] => tried[u][Ladder[i]] \in {"absent", "failed"}
      BY DEF BetterLost
    <3>3. Ladder[i] \in Rungs
      BY LadderFacts
    <3> QED BY <1>1, <3>1, <3>2, <3>3
  <2> QED BY <1>1, <2>2 DEF BetterLost
<1> QED BY <1>1, <1>2 DEF Along

\* Steps of a probe that lose a rung.
LEMMA ProbeRungLost ==
    ASSUME ProbeInv, NEW u \in Uses, NotInstalled(u) \/ CanaryRaises(u)
    PROVE  ReportEarned' /\ \A v \in Uses : Along(v)'
<1>1. /\ pc[u] \in {"rung", "canary"} /\ rung[u] <= Len(Ladder)
      /\ setting.linux /\ BetterLost(u) /\ Probing(u)
    BY DEF ProbeInv, NotInstalled, CanaryRaises, Along, Probing
<1>2. rung[u] \in DOMAIN Ladder
    BY <1>1, LadderFacts DEF ProbeInv, TypeOK
<1>3. PICK saw \in {"absent", "failed"} : Found(u, saw)
    BY DEF NotInstalled, CanaryRaises
<1>4. NextRung(u) /\ UNCHANGED <<setting, report, answer>>
    BY DEF NotInstalled, CanaryRaises, environment, shared
<1>5. Along(u)'
    BY <1>1, <1>2, <1>3, <1>4, RungLost
<1>6. \A v \in Uses \ {u} : tried'[v] = tried[v]
    BY <1>2, <1>3, TypeFound DEF ProbeInv, Seen
<1>7. \A v \in Uses \ {u} : rung'[v] = rung[v] /\ pc'[v] = pc[v]
    BY <1>1, <1>4, TypeNextRung DEF ProbeInv
<1> QED BY <1>1, <1>4, <1>5, <1>6, <1>7, OneProbes

\* Steps of a probe that leave what it saw as it is.
LEMMA ProbeMoves ==
    ASSUME ProbeInv, NEW u \in Uses,
           \/ NotLinux(u) \/ MakeScratch(u) \/ StartCanary(u) \/ NoRungLeft(u)
    PROVE  ReportEarned' /\ \A v \in Uses : Along(v)'
<1>1. /\ Probing(u) /\ UNCHANGED <<setting, report, tried>>
      /\ \A v \in Uses \ {u} : /\ pc'[v] = pc[v] /\ rung'[v] = rung[v]
                               /\ answer'[v] = answer[v]
    BY DEF ProbeInv, TypeOK, NotLinux, MakeScratch, StartCanary, NoRungLeft,
           Conclude, Goto, Probing, environment, shared, history
<1>2. Along(u)'
  <2>1. CASE NotLinux(u)
    BY <2>1 DEF NotLinux, Conclude, Goto, ProbeInv, TypeOK, Along, EarnedBy,
                environment
  <2>2. CASE MakeScratch(u)
    <3>1. pc'[u] = "rung" /\ rung'[u] = 1 /\ setting'.linux
      BY <2>2 DEF MakeScratch, Goto, ProbeInv, TypeOK, environment
    <3>2. \A i \in DOMAIN Ladder : ~(i < 1)
      BY LadderFacts
    <3> QED BY <3>1, <3>2 DEF Along, BetterLost
  <2>3. CASE StartCanary(u)
    <3>1. /\ pc[u] = "rung" /\ pc'[u] = "canary" /\ rung[u] <= Len(Ladder)
          /\ UNCHANGED <<setting, rung, tried>>
      BY <2>3 DEF StartCanary, Goto, ProbeInv, TypeOK, environment, history
    <3> QED BY <3>1 DEF ProbeInv, Along, BetterLost
  <2>4. CASE NoRungLeft(u)
    <3>1. /\ pc[u] = "rung" /\ pc'[u] = "conclude" /\ rung[u] > Len(Ladder)
          /\ answer'[u] = Unavailable /\ UNCHANGED <<setting, tried>>
      BY <2>4 DEF NoRungLeft, Conclude, Goto, ProbeInv, TypeOK, environment,
                  history
    <3>2. \A r \in Rungs : tried[u][r] \in {"absent", "failed"}
      <4>1. \A i \in DOMAIN Ladder : i < rung[u]
        BY <3>1, LadderFacts DEF ProbeInv, TypeOK
      <4>2. BetterLost(u)
        BY <3>1 DEF ProbeInv, Along
      <4> QED BY <4>1, <4>2 DEF BetterLost, Rungs
    <3>3. setting.linux /\ Unavailable.tier = "unavailable"
      BY <3>1 DEF ProbeInv, Along, Unavailable, Unprobed
    <3> QED BY <3>1, <3>2, <3>3 DEF Along, EarnedBy, Earned
  <2> QED BY <2>1, <2>2, <2>3, <2>4
<1> QED BY <1>1, <1>2, OneProbes

\* A canary that passed: the report tells what was seen of it and of the
\* better rungs.
LEMMA PassedIsEarned ==
    ASSUME ProbeInv, NEW u \in Uses, NEW captured \in CaptureType,
           rung[u] \in DOMAIN Ladder, BetterLost(u), Passed(captured),
           Found(u, Saw(captured)), NEW limited \in BOOLEAN
    PROVE  LET r == Ladder[rung[u]] IN
           Earned([tier |-> Tier(r), runtime |-> r,
                   limiter |-> r = "bwrap" /\ limited,
                   limits_unenforced |-> Unenforced(r, captured, limited)],
                  tried'[u])
<1> DEFINE r == Ladder[rung[u]]
           rep == [tier |-> Tier(r), runtime |-> r,
                   limiter |-> r = "bwrap" /\ limited,
                   limits_unenforced |-> Unenforced(r, captured, limited)]
<1>1. /\ Saw(captured) \in {"passed", "warned"}
      /\ Saw(captured) = "warned" => captured.stderr
    BY DEF Passed, Saw, CaptureType
<1>2. \A x \in Rungs :
         tried'[u][x] = IF x = r THEN Saw(captured) ELSE tried[u][x]
    BY <1>1, TypeFound DEF ProbeInv, Seen
<1>3. r \in Rungs /\ DOMAIN Ladder \subseteq Nat /\ rung[u] \in Nat
    BY LadderFacts DEF ProbeInv, TypeOK
<1>4. /\ rep.tier # "unavailable" /\ rep.runtime = r
      /\ rep.limiter = (r = "bwrap" /\ limited)
      /\ rep.limits_unenforced = Unenforced(r, captured, limited)
    BY DEF Tier
<1>5. ASSUME NEW i \in DOMAIN Ladder, NEW j \in DOMAIN Ladder, i < j,
             Ladder[j] = r
      PROVE  tried'[u][Ladder[i]] \in {"absent", "failed"}
  <2>1. j = rung[u] /\ Ladder[i] \in Rungs
    BY <1>5, LadderFacts
  <2>2. Ladder[i] # r
    BY <1>3, <1>5, <2>1, LadderFacts
  <2> QED BY <1>2, <1>5, <2>1, <2>2 DEF BetterLost
<1>6. r \in Containers /\ tried'[u][r] = "warned"
        => CgroupLimits \subseteq Unenforced(r, captured, limited)
    BY <1>1, <1>2, <1>3 DEF Unenforced
<1>7. r = "bwrap" /\ ~(r = "bwrap" /\ limited)
        => Unenforced(r, captured, limited) = LimitNames
    BY SandboxAssumption DEF Unenforced
<1>8. tried'[u][r] \in {"passed", "warned"}
    BY <1>1, <1>2, <1>3
<1> HIDE DEF r, rep
<1>9. Earned(rep, tried'[u])
    BY <1>4, <1>5, <1>6, <1>7, <1>8 DEF Earned
<1> QED BY <1>9 DEF r, rep

LEMMA ProbeCanaryReturns ==
    ASSUME ProbeInv, NEW u \in Uses, NEW captured \in CaptureType,
           CanaryReturns(u, captured)
    PROVE  ReportEarned' /\ \A v \in Uses : Along(v)'
<1>1. /\ pc[u] = "canary" /\ rung[u] <= Len(Ladder) /\ Probing(u)
      /\ setting.linux /\ BetterLost(u) /\ limiter[u] \in BOOLEAN
      /\ UNCHANGED <<setting, report>>
    BY DEF ProbeInv, TypeOK, CanaryReturns, Along, Probing, environment, shared
<1>2. rung[u] \in DOMAIN Ladder
    BY <1>1, LadderFacts DEF ProbeInv, TypeOK
<1>3. Found(u, Saw(captured)) /\ Saw(captured) \in Seen
    BY DEF CanaryReturns, Saw, Seen
<1>4. \A v \in Uses \ {u} : tried'[v] = tried[v]
    BY <1>2, <1>3, TypeFound DEF ProbeInv
<1>5. CASE ~Passed(captured) /\ NextRung(u) /\ UNCHANGED answer
  <2>1. Saw(captured) \in {"absent", "failed"}
    BY <1>5 DEF Passed, Saw, CaptureType
  <2>2. Along(u)'
    BY <1>1, <1>2, <1>3, <1>5, <2>1, RungLost
  <2>3. \A v \in Uses \ {u} : rung'[v] = rung[v] /\ pc'[v] = pc[v]
    BY <1>1, <1>5, TypeNextRung DEF ProbeInv
  <2> QED BY <1>1, <1>4, <1>5, <2>2, <2>3, OneProbes
<1>6. ASSUME Passed(captured), UNCHANGED rung,
             NEW found, Conclude(u, found), Earned(found, tried'[u])
      PROVE  ReportEarned' /\ \A v \in Uses : Along(v)'
  <2>1. /\ pc'[u] = "conclude" /\ answer'[u] = found
        /\ \A v \in Uses \ {u} : pc'[v] = pc[v] /\ answer'[v] = answer[v]
    BY <1>6 DEF Conclude, Goto, ProbeInv, TypeOK
  <2>2. Along(u)'
    BY <1>1, <1>6, <2>1 DEF Along, EarnedBy
  <2> QED BY <1>1, <1>4, <1>6, <2>1, <2>2, OneProbes
<1>7. Passed(captured) => LET r == Ladder[rung[u]] IN
        Earned([tier |-> Tier(r), runtime |-> r,
                limiter |-> r = "bwrap" /\ limiter[u],
                limits_unenforced |-> Unenforced(r, captured, limiter[u])],
               tried'[u])
    BY <1>1, <1>2, <1>3, PassedIsEarned
<1> QED BY <1>5, <1>6, <1>7 DEF CanaryReturns

\* The report that is cached is what its probe concluded.
LEMMA ProbeCache ==
    ASSUME ProbeInv, NEW u \in Uses, Cache(u)
    PROVE  ReportEarned' /\ \A v \in Uses : Along(v)'
<1>1. /\ pc[u] = "conclude" /\ report' = answer[u] /\ pc'[u] = "have"
      /\ UNCHANGED <<setting, tried, rung, answer>>
      /\ \A v \in Uses \ {u} : pc'[v] = pc[v]
    BY DEF Cache, Goto, ProbeInv, TypeOK, environment, locals, history
<1>2. EarnedBy(u, answer[u])
    BY <1>1 DEF ProbeInv, Along
<1>3. ReportEarned'
    BY <1>1, <1>2 DEF ReportEarned, EarnedBy
<1>4. ASSUME NEW v \in Uses PROVE Along(v)'
    BY <1>1, <1>4 DEF ProbeInv, Along, EarnedBy, BetterLost
<1> QED BY <1>3, <1>4

\* Steps of a use outside of its probe, or out of it.
LEMMA ProbeElsewhere ==
    ASSUME ProbeInv, NEW u \in Uses,
           \/ Call(u) \/ GiveCached(u) \/ ProbeFirst(u) \/ ScratchFails(u)
           \/ ScratchColon(u) \/ TierAnswered(u) \/ Run(u)
    PROVE  ReportEarned' /\ \A v \in Uses : Along(v)'
<1>1. UNCHANGED <<setting, tried, report, rung>>
    BY DEF Call, GiveCached, ProbeFirst, ScratchFails, ScratchColon, Raise,
           TierAnswered, Run, Reject, Accept, Launch, LaunchFails,
           CommandReturns, Remove, environment, shared, locals, history
<1>2. /\ \A v \in Uses \ {u} : pc'[v] = pc[v] /\ answer'[v] = answer[v]
      /\ pc'[u] \notin {"rung", "canary", "conclude"}
    BY DEF Call, GiveCached, ProbeFirst, ScratchFails, ScratchColon, Raise,
           TierAnswered, Run, Reject, Accept, Launch, LaunchFails,
           CommandReturns, Remove, End, Goto, locals, ProbeInv, TypeOK
<1> QED BY <1>1, <1>2, NobodyProbes

LEMMA ProbeNext == ProbeInv /\ [Next]_vars => ProbeInv'
<1> SUFFICES ASSUME ProbeInv, [Next]_vars PROVE ProbeInv'
    OBVIOUS
<1>1. ASSUME NEW u \in Uses, Call(u) \/ Step(u)
      PROVE  ReportEarned' /\ \A v \in Uses : Along(v)'
    BY <1>1, ProbeElsewhere, ProbeMoves, ProbeRungLost, ProbeCanaryReturns,
       ProbeCache DEF Step, Probe
<1>2. ASSUME \/ \E program \in Rungs \cup {"prlimit"} : HostChanges(program)
             \/ \E container \in containers : ContainerEnds(container)
             \/ UNCHANGED vars
      PROVE  ReportEarned' /\ \A v \in Uses : Along(v)'
  <2>1. UNCHANGED <<setting, tried, report, pc, rung, answer>>
    BY <1>2 DEF HostChanges, ContainerEnds, vars, environment, shared, locals,
                history
  <2> QED BY <2>1, NobodyProbes
<1>3. TypeOK'
  <2>1. ASSUME NEW u \in Uses, Call(u) \/ Step(u) PROVE TypeOK'
    BY <2>1, TypeStep DEF ProbeInv, Along
  <2> QED BY <2>1, TypeHost DEF ProbeInv, Next
<1> QED BY <1>1, <1>2, <1>3, LockNext DEF ProbeInv, Next

LEMMA ProbeInvariant == Spec => []ProbeInv
BY ProbeInit, ProbeNext, PTL DEF Spec

-----------------------------------------------------------------------------
(* A command: it runs as the report says, and its container is gone when   *)
(* it ends, or could not be removed.                                       *)

\* A report that names a container runtime is of the container tier, and only
\* the one that stands for None is of no tier.
Formed(rep) ==
    /\ rep.runtime \in Containers => rep.tier = "container"
    /\ rep.tier = "none" => rep = NoReport

InLaunch == {"launch", "running", "remove"}

Ran(u) ==
    /\ pc[u] \in InLaunch => Rejection(u) = "none"
    /\ launched[u] # "none" =>
          /\ pc[u] \in {"running", "remove", "done"} /\ Decided(u)
          /\ launched[u] = answer[u].runtime /\ Rejection(u) = "none"
    /\ <<u, "run">> \in containers =>
          \/ pc[u] \in {"running", "remove"} /\ answer[u].tier = "container"
          \/ pc[u] = "done" /\ cleanup[u] = "failed"

RunInv ==
    /\ TypeOK /\ LockInv /\ Formed(report)
    /\ \A u \in Uses : Formed(answer[u]) /\ Ran(u)

LEMMA RunInit == Init => RunInv
<1> SUFFICES ASSUME Init PROVE RunInv
    OBVIOUS
<1>1. Formed(NoReport)
    BY SandboxAssumption DEF Formed, NoReport, Unprobed
<1>2. \A u \in Uses : Ran(u)
    BY DEF Init, Ran, InLaunch
<1> QED BY <1>1, <1>2, TypeInit, LockInit DEF RunInv, Init

\* A step leaves a use and its container alone.
Spared(v) ==
    /\ pc'[v] = pc[v] /\ answer'[v] = answer[v] /\ request'[v] = request[v]
    /\ launched'[v] = launched[v] /\ cleanup'[v] = cleanup[v]
    /\ <<v, "run">> \in containers' => <<v, "run">> \in containers
    /\ report # NoReport => report' = report

LEMMA SparedRan ==
    ASSUME NEW v \in Uses, Ran(v), Spared(v)
    PROVE  Ran(v)'
<1>1. Rejection(v)' = Rejection(v)
    BY DEF Spared, Rejection, Faulty
<1>2. Decided(v) => Decided(v)'
    BY DEF Spared, Decided
<1> QED BY <1>1, <1>2 DEF Ran, Spared

LEMMA OneRuns ==
    ASSUME RunInv, NEW u \in Uses, \A v \in Uses \ {u} : Spared(v), Ran(u)'
    PROVE  \A v \in Uses : Ran(v)'
BY SparedRan DEF RunInv

\* Once there is a report, it stays.
LEMMA ReportStays ==
    ASSUME LockInv, [Next]_vars, report # NoReport
    PROVE  report' = report
<1>1. ASSUME NEW u \in Uses PROVE ~Cache(u)
    BY <1>1 DEF LockInv, Locked, Probing, Cache
<1>2. ASSUME NEW u \in Uses, Call(u) \/ Step(u) PROVE report' = report
    BY <1>1, <1>2
    DEF Step, Probe, Run, Call, GiveCached, ProbeFirst, NotLinux,
        MakeScratch, ScratchFails, Raise, NotInstalled, ScratchColon,
        StartCanary, CanaryRaises, CanaryReturns, NoRungLeft,
        TierAnswered, Reject, Accept, Launch, LaunchFails,
        CommandReturns, Remove, shared
<1> QED BY <1>2 DEF Next, HostChanges, ContainerEnds, vars, shared

\* A use that has not launched anything, and does not begin to.
LEMMA NotLaunching ==
    ASSUME RunInv, NEW u \in Uses, pc[u] \notin InLaunch \cup {"done"},
           pc'[u] \notin InLaunch, launched'[u] = launched[u],
           <<u, "run">> \in containers' => <<u, "run">> \in containers
    PROVE  Ran(u)'
<1>1. launched[u] = "none" /\ <<u, "run">> \notin containers
    BY DEF RunInv, Ran, InLaunch
<1> QED BY <1>1 DEF Ran

LEMMA RunQuiet ==
    ASSUME RunInv, NEW u \in Uses, report # NoReport => report' = report,
           \/ Call(u) \/ GiveCached(u) \/ ProbeFirst(u) \/ Probe(u)
           \/ TierAnswered(u) \/ Reject(u)
    PROVE  \A v \in Uses : Ran(v)'
<1>1. UNCHANGED <<request, launched, cleanup>>
    BY DEF Call, GiveCached, ProbeFirst, Probe, NotLinux, MakeScratch,
           ScratchFails, NotInstalled, ScratchColon, StartCanary,
           CanaryRaises, CanaryReturns, NoRungLeft, Cache, TierAnswered,
           Reject, Raise, locals, history
<1>2. /\ pc[u] \notin InLaunch \cup {"done"} /\ pc'[u] \notin InLaunch
      /\ \A v \in Uses \ {u} : pc'[v] = pc[v] /\ answer'[v] = answer[v]
  <2>1. CASE \/ Call(u) \/ GiveCached(u) \/ ProbeFirst(u) \/ NotLinux(u)
             \/ MakeScratch(u) \/ NotInstalled(u) \/ StartCanary(u)
             \/ CanaryRaises(u) \/ NoRungLeft(u) \/ Cache(u)
    BY <2>1
    DEF RunInv, TypeOK, Call, GiveCached, ProbeFirst, NotLinux, MakeScratch,
        NotInstalled, StartCanary, CanaryRaises, NoRungLeft, Cache, Conclude,
        NextRung, Goto, InLaunch, locals
  <2>2. CASE ScratchFails(u) \/ ScratchColon(u) \/ TierAnswered(u) \/ Reject(u)
    BY <2>2
    DEF RunInv, TypeOK, ScratchFails, ScratchColon, TierAnswered, Reject,
        Raise, End, Goto, InLaunch, locals
  <2>3. ASSUME NEW captured \in CaptureType, CanaryReturns(u, captured)
        PROVE  <1>2
    BY <2>3
    DEF RunInv, TypeOK, CanaryReturns, Conclude, NextRung, Goto, InLaunch
  <2> QED BY <2>1, <2>2, <2>3 DEF Probe
<1>3. \A v \in Uses : <<v, "run">> \in containers' => <<v, "run">> \in containers
  <2>1. ASSUME NEW captured \in CaptureType, CanaryReturns(u, captured)
        PROVE  \A v \in Uses :
                  <<v, "run">> \in containers' => <<v, "run">> \in containers
    BY <2>1, SandboxAssumption DEF CanaryReturns, Leftover
  <2>2. CASE UNCHANGED containers
    BY <2>2
  <2> QED BY <2>1, <2>2
    DEF Call, GiveCached, ProbeFirst, Probe, NotLinux, MakeScratch,
        ScratchFails, NotInstalled, ScratchColon, StartCanary, CanaryRaises,
        NoRungLeft, Cache, TierAnswered, Reject, Raise
<1>4. Ran(u)'
    BY <1>1, <1>2, <1>3, NotLaunching
<1> QED BY <1>1, <1>2, <1>3, <1>4, OneRuns DEF Spared

\* The command itself.
LEMMA RunCommand ==
    ASSUME RunInv, NEW u \in Uses,
           \/ Accept(u) \/ Launch(u) \/ LaunchFails(u) \/ Remove(u)
           \/ \E captured \in CaptureType : CommandReturns(u, captured)
    PROVE  \A v \in Uses : Ran(v)'
<1>1. UNCHANGED <<report, answer, request>>
    BY DEF Accept, Launch, LaunchFails, Remove, CommandReturns, shared, locals
<1>2. Rejection(u)' = Rejection(u)
    BY <1>1 DEF Rejection, Faulty
<1>3. Decided(u)' <=> Decided(u)
    BY <1>1 DEF Decided
<1>4. pc[u] \in Acting => Decided(u)
    BY DEF RunInv, LockInv, Informed
<1>5. CASE Accept(u)
  <2>1. /\ pc[u] = "have" /\ pc'[u] = "launch" /\ Rejection(u) = "none"
        /\ UNCHANGED <<launched, containers, cleanup>>
        /\ \A v \in Uses \ {u} : pc'[v] = pc[v]
    BY <1>5 DEF Accept, Goto, RunInv, TypeOK, history
  <2>2. Ran(u)'
    BY <1>2, <2>1 DEF RunInv, Ran, InLaunch
  <2> QED BY <1>1, <2>1, <2>2, OneRuns DEF Spared
<1>6. CASE Launch(u)
  <2>1. /\ pc[u] = "launch" /\ pc'[u] = "running" /\ Rejection(u) = "none"
        /\ launched'[u] = answer[u].runtime
        /\ UNCHANGED cleanup
        /\ \A v \in Uses \ {u} : pc'[v] = pc[v] /\ launched'[v] = launched[v]
    BY <1>6 DEF Launch, Runtime, Goto, RunInv, Ran, InLaunch, TypeOK
  <2>2. /\ <<u, "run">> \in containers' => <<u, "run">> \in containers
                                        \/ answer[u].runtime \in Containers
        /\ \A v \in Uses \ {u} :
              <<v, "run">> \in containers' => <<v, "run">> \in containers
    BY <1>6 DEF Launch, Runtime
  <2>3. <<u, "run">> \notin containers
    BY <2>1 DEF RunInv, Ran
  <2>4. Formed(answer[u])
    BY DEF RunInv
  <2>5. Ran(u)'
    BY <1>1, <1>2, <1>3, <1>4, <2>1, <2>2, <2>3, <2>4
    DEF Ran, Formed, Acting
  <2> QED BY <1>1, <2>1, <2>2, <2>5, OneRuns DEF Spared
<1>7. CASE LaunchFails(u)
  <2>1. /\ pc[u] = "launch" /\ pc'[u] = "done"
        /\ UNCHANGED <<launched, containers, cleanup>>
        /\ \A v \in Uses \ {u} : pc'[v] = pc[v]
    BY <1>7 DEF LaunchFails, End, Goto, RunInv, TypeOK, history
  <2>2. Ran(u)'
    BY <2>1 DEF RunInv, Ran, InLaunch
  <2> QED BY <1>1, <2>1, <2>2, OneRuns DEF Spared
<1>8. ASSUME NEW captured \in CaptureType, CommandReturns(u, captured)
      PROVE  \A v \in Uses : Ran(v)'
  <2>1. /\ pc[u] = "running" /\ pc'[u] \in {"remove", "done"}
        /\ UNCHANGED <<launched, cleanup>>
        /\ \A v \in Uses \ {u} : pc'[v] = pc[v]
        /\ \A v \in Uses :
              <<v, "run">> \in containers' => <<v, "run">> \in containers
    BY <1>8 DEF CommandReturns, End, Goto, RunInv, TypeOK, history
  <2>2. ASSUME pc'[u] = "done", <<u, "run">> \in containers' PROVE FALSE
    <3>1. ~NeedsRemoval(u, captured)
      BY <1>8, <2>2 DEF CommandReturns, Goto, RunInv, TypeOK
    <3>2. answer[u].tier = "container"
      BY <2>1, <2>2 DEF RunInv, Ran
    <3>3. ~Killed(captured)
      BY <3>1, <3>2 DEF NeedsRemoval
    <3> QED BY <1>8, <2>2, <3>3 DEF CommandReturns
  <2>3. Ran(u)'
    BY <1>1, <1>2, <1>3, <2>1, <2>2 DEF RunInv, Ran, InLaunch
  <2> QED BY <1>1, <2>1, <2>3, OneRuns DEF Spared
<1>9. CASE Remove(u)
  <2>1. /\ pc[u] = "remove" /\ pc'[u] = "done" /\ UNCHANGED launched
        /\ \A v \in Uses \ {u} : pc'[v] = pc[v] /\ cleanup'[v] = cleanup[v]
        /\ \A v \in Uses :
              <<v, "run">> \in containers' => <<v, "run">> \in containers
        /\ <<u, "run">> \notin containers' \/ cleanup'[u] = "failed"
    BY <1>9 DEF Remove, End, Goto, RunInv, TypeOK
  <2>2. Ran(u)'
    BY <1>1, <1>2, <1>3, <2>1 DEF RunInv, Ran, InLaunch
  <2> QED BY <1>1, <2>1, <2>2, OneRuns DEF Spared
<1> QED BY <1>5, <1>6, <1>7, <1>8, <1>9

\* Every report is formed as a probe forms it.
LEMMA FormedStep ==
    ASSUME RunInv, [Next]_vars
    PROVE  Formed(report)' /\ \A u \in Uses : Formed(answer[u])'
<1>1. Formed(Unavailable)
    BY SandboxAssumption DEF Formed, Unavailable, Unprobed
<1>2. \A r, limited, limits :
         Formed([tier |-> Tier(r), runtime |-> r, limiter |-> limited,
                 limits_unenforced |-> limits])
    BY DEF Formed, Tier
<1>3. CASE UNCHANGED <<report, answer>>
    BY <1>3 DEF RunInv, Formed
<1>4. ASSUME NEW u \in Uses, NEW found, Formed(found),
             answer' = [answer EXCEPT ![u] = found], UNCHANGED report
      PROVE  Formed(report)' /\ \A v \in Uses : Formed(answer[v])'
    BY <1>4 DEF RunInv, TypeOK, Formed
<1>5. ASSUME NEW u \in Uses, NotLinux(u) \/ NoRungLeft(u) \/ GiveCached(u)
      PROVE  Formed(report)' /\ \A v \in Uses : Formed(answer[v])'
    BY <1>1, <1>4, <1>5
    DEF RunInv, NotLinux, NoRungLeft, GiveCached, Conclude, shared
<1>6. ASSUME NEW u \in Uses, NEW captured \in CaptureType,
             CanaryReturns(u, captured)
      PROVE  Formed(report)' /\ \A v \in Uses : Formed(answer[v])'
  <2> DEFINE r == Ladder[rung[u]]
             found == [tier |-> Tier(r), runtime |-> r,
                       limiter |-> r = "bwrap" /\ limiter[u],
                       limits_unenforced |-> Unenforced(r, captured, limiter[u])]
  <2>1. UNCHANGED report
    BY <1>6 DEF CanaryReturns, shared
  <2>2. answer' = [answer EXCEPT ![u] = found] \/ UNCHANGED answer
    BY <1>6 DEF CanaryReturns, Conclude
  <2>3. Formed(found)
    BY <1>2
  <2> HIDE DEF found
  <2> QED BY <1>3, <1>4, <2>1, <2>2, <2>3
<1>7. ASSUME NEW u \in Uses, Cache(u)
      PROVE  Formed(report)' /\ \A v \in Uses : Formed(answer[v])'
    BY <1>7 DEF RunInv, Cache, Formed, locals
<1>8. ASSUME NEW u \in Uses, Call(u) \/ Step(u)
      PROVE  Formed(report)' /\ \A v \in Uses : Formed(answer[v])'
    BY <1>3, <1>5, <1>6, <1>7, <1>8
    DEF Step, Probe, Run, Call, ProbeFirst, MakeScratch, ScratchFails, Raise,
        NotInstalled, ScratchColon, StartCanary, CanaryRaises, TierAnswered,
        Reject, Accept, Launch, LaunchFails, CommandReturns, Remove, shared,
        locals
<1> QED BY <1>3, <1>8 DEF Next, HostChanges, ContainerEnds, vars, shared, locals

LEMMA RunNext == RunInv /\ ProbeInv' /\ [Next]_vars => RunInv'
<1> SUFFICES ASSUME RunInv, ProbeInv', [Next]_vars PROVE RunInv'
    OBVIOUS
<1>1. report # NoReport => report' = report
    BY ReportStays DEF RunInv
<1>2. ASSUME NEW u \in Uses, Call(u) \/ Step(u) PROVE \A v \in Uses : Ran(v)'
    BY <1>1, <1>2, RunQuiet, RunCommand DEF Step, Run
<1>3. ASSUME \/ \E program \in Rungs \cup {"prlimit"} : HostChanges(program)
             \/ \E container \in containers : ContainerEnds(container)
             \/ UNCHANGED vars
      PROVE  \A v \in Uses : Ran(v)'
  <2>1. \A v \in Uses : Spared(v)
    BY <1>3 DEF HostChanges, ContainerEnds, vars, environment, shared, locals,
                history, Spared
  <2> QED BY <2>1, SparedRan DEF RunInv
<1> QED BY <1>2, <1>3, FormedStep DEF RunInv, ProbeInv, Next

LEMMA RunInvariant == Spec => []RunInv
BY RunInit, RunNext, ProbeInvariant, PTL DEF Spec

-----------------------------------------------------------------------------
\* The sandbox's state is what it is taken to be, every report well formed.
THEOREM SandboxTypes == Spec => []TypeOK
<1>1. ProbeInv => TypeOK
    BY DEF ProbeInv
<1> QED BY <1>1, ProbeInvariant, PTL

\* One probe at a time, by the holder of the lock, and none once a report is
\* cached (TieredSandbox.report).
THEOREM ProbesAreExclusive == Spec => []ProbesExclusive
<1>1. LockInv => ProbesExclusive
    BY DEF LockInv, Locked, ProbesExclusive
<1> QED BY <1>1, LockInvariant, PTL

\* Every thread acts on the one cached report (isolation_tier, run_isolated).
THEOREM AllAnswersAgree == Spec => []AnswersAgree
<1>1. LockInv => AnswersAgree
    BY DEF LockInv, Informed, Decided, NotYet, Acting, Steps, Probing,
           AnswersAgree
<1> QED BY <1>1, LockInvariant, PTL

\* Once cached, the report is never replaced, whatever happens to the host.
THEOREM ReportDecidedOnce == Spec => DecidedOnce
<1>1. LockInv /\ [Next]_vars => [report # NoReport => report' = report]_report
    BY ReportStays
<1> QED BY <1>1, LockInvariant, PTL DEF Spec, DecidedOnce

\* The rung decided on is one whose canary a single probe saw pass, after it saw
\* every better rung absent or failing; no mixture of what two probes saw, and
\* no tier that nobody tried (TieredSandbox._probe, _canary).
THEOREM RungIsEarned == Spec => []RungEarned
<1>1. ProbeInv => RungEarned
    BY DEF ProbeInv, ReportEarned, EarnedBy, RungEarned
<1> QED BY <1>1, ProbeInvariant, PTL

\* A command runs under the decided rung or not at all, and only if nothing was
\* wrong with the call (run_isolated).
THEOREM CommandsRunAsDecided == Spec => []RunsAsDecided
<1>1. RunInv => RunsAsDecided
  <2> SUFFICES ASSUME RunInv, NEW u \in Uses, launched[u] # "none"
               PROVE  /\ launched[u] = report.runtime
                      /\ request[u].faults \subseteq {"colon"}
                      /\ "colon" \in request[u].faults => report.tier = "bwrap"
    BY DEF RunsAsDecided
  <2>1. Decided(u) /\ launched[u] = answer[u].runtime /\ Rejection(u) = "none"
    BY DEF RunInv, Ran
  <2>2. /\ answer[u].tier # "unavailable"
        /\ request[u].faults \cap {"caller", "argv", "workspace"} = {}
        /\ answer[u].tier = "container" => "colon" \notin request[u].faults
    BY <2>1 DEF Rejection, Faulty
  <2>3. request[u].faults \subseteq {"caller", "argv", "workspace", "colon"}
    BY SandboxAssumption DEF RunInv, TypeOK, RequestType
  <2>4. answer[u].tier \in {"container", "bwrap", "unavailable", "none"}
    BY DEF RunInv, TypeOK, ReportType
  <2>5. answer[u].tier # "none"
    BY <2>1 DEF RunInv, Formed, Decided
  <2> QED BY <2>1, <2>2, <2>3, <2>4, <2>5 DEF Decided
<1> QED BY <1>1, RunInvariant, PTL

\* A command whose client was killed leaves no container of its own behind,
\* unless the runtime failed to remove it (run_isolated, _remove_container).
THEOREM CommandContainersRemoved == Spec => []CommandContainerRemoved
<1>1. RunInv => CommandContainerRemoved
    BY DEF RunInv, Ran, CommandContainerRemoved
<1> QED BY <1>1, RunInvariant, PTL
=============================================================================
