---------------------------- MODULE LauncherProofs ----------------------------
(***************************************************************************)
(* What a launch promises of its capture and of its process group, for any *)
(* number of processes, whatever they do, any cap and any limit.           *)
(***************************************************************************)
EXTENDS Launcher, TLAPS

-----------------------------------------------------------------------------
(* The inductive invariant.                                                *)

Reading == {"start", "loop", "read", "wait", "raised"}
Killing == {"terminate", "grace", "reap"}
Ended == {"closing", "done"}

\* What the step at hand tells of the verdict.  A launch comes to its end by
\* way of a kill, for which there was a cause, or after both streams ended.
Flow ==
    /\ pc \in Reading =>
          ~timed_out /\ ~truncated /\ ~reaped /\ termed = {} /\ killed = {}
    /\ pc \in Killing => timed_out \/ truncated
    /\ pc \in Ended => timed_out \/ truncated \/ (open = {} /\ reaped)
    /\ pc = "wait" => open = {}
    /\ pc = "start" => open = {} /\ ready = {}
    /\ timed_out => remaining = 0
    /\ termed # {} => timed_out \/ truncated
    /\ ~(timed_out /\ truncated)

\* Every byte written is in the pipe or was kept, until a cap was passed.
Accounts ==
    /\ \A s \in Streams : size[s] + pipe[s] <= written[s]
    /\ ~truncated => \A s \in Streams : size[s] + pipe[s] = written[s]
    /\ truncated <=> \E s \in Streams : size[s] > MaxOutput

\* A stream that is no longer read is at its end for good; one that select
\* reported has something to read.
Ends ==
    /\ pc \notin {"start", "raised"} => \A s \in Streams \ open : AtEnd(s)
    /\ \A s \in ready : pipe[s] > 0 \/ AtEnd(s)

\* The leader does not come back, and if it is left its group was killed.
Group ==
    /\ pc \in {"start", "raised"} => alive = {}
    /\ reaped => Leader \notin alive
    /\ pc \in {"reap"} \cup Ended /\ Leader \in alive => alive \subseteq killed

LaunchInv == TypeOK /\ Flow /\ Accounts /\ Ends /\ Group

LEMMA LaunchInit == Init => LaunchInv
<1> SUFFICES ASSUME Init PROVE LaunchInv
    OBVIOUS
<1>1. TypeOK
    <2>1. /\ 0 \in 0 .. PipeSize /\ 0 \in 0 .. MaxWritten
          /\ 0 \in 0 .. MaxOutput + 1 /\ 0 \in 0 .. 2 * Grace
          /\ Timeout \in 0 .. Timeout
        BY LauncherAssumption
    <2> QED BY <2>1 DEF Init, TypeOK, Steps
<1>2. Flow
    BY DEF Init, Flow, Reading, Killing, Ended
<1>3. Accounts
    BY LauncherAssumption DEF Init, Accounts
<1>4. Ends
    BY DEF Init, Ends
<1>5. Group
    BY DEF Init, Group, Ended
<1> QED BY <1>1, <1>2, <1>3, <1>4, <1>5 DEF LaunchInv

-----------------------------------------------------------------------------
(* What a read takes: the pipe gives no more than it holds, and what is    *)
(* kept is no more than was taken nor than the cap and one byte.           *)

LEMMA KeptFits ==
    ASSUME TypeOK, NEW s \in Streams
    PROVE  /\ Least(pipe[s], ReadChunk) \in 0 .. pipe[s]
           /\ Kept(s) \in 0 .. Least(pipe[s], ReadChunk)
           /\ size[s] + Kept(s) \in 0 .. MaxOutput + 1
<1>1. /\ pipe[s] \in 0 .. PipeSize /\ size[s] \in 0 .. MaxOutput + 1
      /\ MaxOutput \in Nat /\ ReadChunk \in Nat /\ PipeSize \in Nat
    BY LauncherAssumption DEF TypeOK
<1> QED BY <1>1 DEF Kept, Least

-----------------------------------------------------------------------------
(* Steps of the processes, and time.                                       *)

LEMMA WriteStep ==
    ASSUME LaunchInv, NEW p \in Processes, NEW s \in Streams, Write(p, s)
    PROVE  LaunchInv'
<1>1. TypeOK'
    BY LauncherAssumption DEF LaunchInv, TypeOK, Write, signals, capture,
       verdict, timers
<1>2. Flow'
    BY DEF LaunchInv, Flow, Write, signals, capture, verdict, timers
<1>3. Accounts'
    BY DEF LaunchInv, TypeOK, Accounts, Write, capture,
       verdict
<1>4. Ends'
    BY DEF LaunchInv, TypeOK, Ends, AtEnd, Write, Runs, capture
<1>5. Group'
    BY DEF LaunchInv, Group, Write, signals, verdict
<1> QED BY <1>1, <1>2, <1>3, <1>4, <1>5 DEF LaunchInv

LEMMA CloseStreamStep ==
    ASSUME LaunchInv, NEW p \in Processes, NEW s \in Streams, CloseStream(p, s)
    PROVE  LaunchInv'
<1>1. TypeOK'
    BY DEF LaunchInv, TypeOK, CloseStream, signals,
       capture, verdict, timers
<1>2. Flow'
    BY DEF LaunchInv, Flow, CloseStream, signals, capture, verdict, timers
<1>3. Accounts'
    BY DEF LaunchInv, Accounts, CloseStream, capture,
       verdict
<1>4. Ends'
    BY DEF LaunchInv, Ends, AtEnd, CloseStream, capture
<1>5. Group'
    BY DEF LaunchInv, Group, CloseStream, signals, verdict
<1> QED BY <1>1, <1>2, <1>3, <1>4, <1>5 DEF LaunchInv

LEMMA ForkStep ==
    ASSUME LaunchInv, NEW p \in Processes, NEW kid \in Kids, Fork(p, kid)
    PROVE  LaunchInv'
<1>1. TypeOK'
    BY DEF LaunchInv, TypeOK, Processes, Fork, signals,
       capture, verdict, timers
<1>2. Flow'
    BY DEF LaunchInv, Flow, Fork, signals, capture, verdict, timers
<1>3. Accounts'
    BY DEF LaunchInv, Accounts, Fork, capture, verdict
<1>4. Ends'
    BY DEF LaunchInv, TypeOK, Ends, AtEnd, Fork, capture, Runs, Processes
<1>5. Group'
    BY LauncherAssumption DEF LaunchInv, Group, Fork, verdict, Runs
<1> QED BY <1>1, <1>2, <1>3, <1>4, <1>5 DEF LaunchInv

LEMMA ExitStep ==
    ASSUME LaunchInv, NEW p \in Processes, Exit(p)
    PROVE  LaunchInv'
<1>1. TypeOK'
    BY DEF LaunchInv, TypeOK, Exit, signals, capture,
       verdict, timers
<1>2. Flow'
    BY DEF LaunchInv, Flow, Exit, signals, capture, verdict, timers
<1>3. Accounts'
    BY DEF LaunchInv, Accounts, Exit, capture, verdict
<1>4. Ends'
    BY DEF LaunchInv, Ends, AtEnd, Exit, capture
<1>5. Group'
    BY DEF LaunchInv, Group, Exit, signals, verdict
<1> QED BY <1>1, <1>2, <1>3, <1>4, <1>5 DEF LaunchInv

LEMMA TickStep ==
    ASSUME LaunchInv, Tick
    PROVE  LaunchInv'
<1>1. TypeOK'
    BY LauncherAssumption DEF LaunchInv, TypeOK, Tick, CountDown,
       processes, signals, capture, verdict
<1>2. Flow'
    BY DEF LaunchInv, Flow, Tick, CountDown, signals,
       capture, verdict
<1>3. Accounts'
    BY DEF LaunchInv, Accounts, Tick, processes,
       capture, verdict
<1>4. Ends'
    BY DEF LaunchInv, Ends, AtEnd, Tick, processes, capture
<1>5. Group'
    BY DEF LaunchInv, Group, Tick, processes, signals, verdict
<1> QED BY <1>1, <1>2, <1>3, <1>4, <1>5 DEF LaunchInv

-----------------------------------------------------------------------------
(* Steps of _launch, _kill_group and _reap.                                *)

LEMMA StartStep ==
    ASSUME LaunchInv, Start
    PROVE  LaunchInv'
<1>1. TypeOK'
    BY DEF LaunchInv, TypeOK, Steps, Processes, Start,
       signals, verdict, timers
<1>2. Flow'
    BY DEF LaunchInv, Flow, Reading, Killing, Ended, Start, signals,
       verdict
<1>3. Accounts'
    BY DEF LaunchInv, Accounts, Start, verdict
<1>4. Ends'
    BY DEF LaunchInv, Ends, Start, Flow
<1>5. Group'
    BY DEF LaunchInv, Group, Ended, Start, verdict, Flow, Reading
<1> QED BY <1>1, <1>2, <1>3, <1>4, <1>5 DEF LaunchInv

LEMMA StartFailsStep ==
    ASSUME LaunchInv, StartFails
    PROVE  LaunchInv'
<1>1. TypeOK'
    BY DEF LaunchInv, TypeOK, Steps, StartFails,
       processes, signals, capture, verdict, timers
<1>2. Flow'
    BY DEF LaunchInv, Flow, Reading, Killing, Ended, StartFails, signals,
       verdict
<1>3. Accounts'
    BY DEF LaunchInv, Accounts, StartFails, processes,
       capture, verdict
<1>4. Ends'
    BY DEF LaunchInv, Ends, AtEnd, StartFails, processes, capture
<1>5. Group'
    BY DEF LaunchInv, Group, StartFails, processes
<1> QED BY <1>1, <1>2, <1>3, <1>4, <1>5 DEF LaunchInv

LEMMA LoopDoneStep ==
    ASSUME LaunchInv, LoopDone
    PROVE  LaunchInv'
<1>1. TypeOK'
    BY DEF LaunchInv, TypeOK, Steps, LoopDone,
       processes, signals, capture, verdict, timers
<1>2. Flow'
    BY DEF LaunchInv, Flow, Reading, Killing, Ended, LoopDone, signals,
       capture, verdict
<1>3. Accounts'
    BY DEF LaunchInv, Accounts, LoopDone, processes,
       capture, verdict
<1>4. Ends'
    BY DEF LaunchInv, Ends, AtEnd, LoopDone, processes, capture
<1>5. Group'
    BY DEF LaunchInv, Group, Ended, LoopDone, processes, verdict
<1> QED BY <1>1, <1>2, <1>3, <1>4, <1>5 DEF LaunchInv

LEMMA LoopExpiredStep ==
    ASSUME LaunchInv, LoopExpired
    PROVE  LaunchInv'
<1>1. TypeOK'
    BY DEF LaunchInv, TypeOK, Steps, LoopExpired,
       processes, signals, capture, timers
<1>2. Flow'
    BY DEF LaunchInv, Flow, Reading, LoopExpired, timers
<1>3. Accounts'
    BY DEF LaunchInv, Accounts, LoopExpired, processes,
       capture
<1>4. Ends'
    BY DEF LaunchInv, Ends, AtEnd, LoopExpired, processes, capture
<1>5. Group'
    BY DEF LaunchInv, Group, Ended, LoopExpired, processes
<1> QED BY <1>1, <1>2, <1>3, <1>4, <1>5 DEF LaunchInv

LEMMA SelectStep ==
    ASSUME LaunchInv, Select
    PROVE  LaunchInv'
<1>1. TypeOK'
    BY DEF LaunchInv, TypeOK, Steps, Select, processes,
       signals, verdict, timers
<1>2. Flow'
    BY DEF LaunchInv, Flow, Reading, Killing, Ended, Select, signals,
       verdict
<1>3. Accounts'
    BY DEF LaunchInv, Accounts, Select, processes,
       verdict
<1>4. Ends'
    BY DEF LaunchInv, Ends, AtEnd, Select, Readable, processes
<1>5. Group'
    BY DEF LaunchInv, Group, Ended, Select, processes, verdict
<1> QED BY <1>1, <1>2, <1>3, <1>4, <1>5 DEF LaunchInv

LEMMA WaitStep ==
    ASSUME LaunchInv, Wait
    PROVE  LaunchInv'
<1>1. TypeOK'
    BY DEF LaunchInv, TypeOK, Steps, Wait, processes,
       signals, capture, timers
<1>2. Flow'
    BY DEF LaunchInv, Flow, Reading, Killing, Wait, signals, capture
<1>3. Accounts'
    BY DEF LaunchInv, Accounts, Wait, processes,
       capture
<1>4. Ends'
    BY DEF LaunchInv, Ends, AtEnd, Wait, processes, capture
<1>5. Group'
    BY DEF LaunchInv, Group, Wait, processes
<1> QED BY <1>1, <1>2, <1>3, <1>4, <1>5 DEF LaunchInv

LEMMA WaitExpiresStep ==
    ASSUME LaunchInv, WaitExpires
    PROVE  LaunchInv'
<1>1. TypeOK'
    BY DEF LaunchInv, TypeOK, Steps, WaitExpires,
       processes, signals, capture, timers
<1>2. Flow'
    BY DEF LaunchInv, Flow, Reading, WaitExpires, timers
<1>3. Accounts'
    BY DEF LaunchInv, Accounts, WaitExpires, processes,
       capture
<1>4. Ends'
    BY DEF LaunchInv, Ends, AtEnd, WaitExpires, processes, capture
<1>5. Group'
    BY DEF LaunchInv, Group, Ended, WaitExpires
<1> QED BY <1>1, <1>2, <1>3, <1>4, <1>5 DEF LaunchInv

LEMMA TerminateStep ==
    ASSUME LaunchInv, Terminate
    PROVE  LaunchInv'
<1>1. TypeOK'
    BY LauncherAssumption DEF LaunchInv, TypeOK, Steps, Terminate,
       processes, capture, verdict
<1>2. Flow'
    BY DEF LaunchInv, Flow, Reading, Killing, Terminate, verdict
<1>3. Accounts'
    BY DEF LaunchInv, Accounts, Terminate, processes,
       capture, verdict
<1>4. Ends'
    BY DEF LaunchInv, Ends, AtEnd, Terminate, processes, capture
<1>5. Group'
    BY DEF LaunchInv, Group, Ended, Terminate, processes, verdict
<1> QED BY <1>1, <1>2, <1>3, <1>4, <1>5 DEF LaunchInv

LEMMA LeaderGoneStep ==
    ASSUME LaunchInv, LeaderGone
    PROVE  LaunchInv'
<1>1. TypeOK'
    BY DEF LaunchInv, TypeOK, Steps, LeaderGone,
       processes, signals, capture, timers
<1>2. Flow'
    BY DEF LaunchInv, Flow, Reading, Killing, LeaderGone, timers
<1>3. Accounts'
    BY DEF LaunchInv, Accounts, LeaderGone, processes,
       capture
<1>4. Ends'
    BY DEF LaunchInv, Ends, AtEnd, LeaderGone, processes, capture
<1>5. Group'
    BY DEF LaunchInv, Group, LeaderGone, processes
<1> QED BY <1>1, <1>2, <1>3, <1>4, <1>5 DEF LaunchInv

LEMMA KillGroupStep ==
    ASSUME LaunchInv, KillGroup
    PROVE  LaunchInv'
<1>1. TypeOK'
    BY DEF LaunchInv, TypeOK, Steps, KillGroup,
       processes, capture, verdict
<1>2. Flow'
    BY DEF LaunchInv, Flow, Reading, Killing, KillGroup, verdict
<1>3. Accounts'
    BY DEF LaunchInv, Accounts, KillGroup, processes,
       capture, verdict
<1>4. Ends'
    BY DEF LaunchInv, Ends, AtEnd, KillGroup, processes, capture
<1>5. Group'
    BY DEF LaunchInv, Group, KillGroup, processes, verdict
<1> QED BY <1>1, <1>2, <1>3, <1>4, <1>5 DEF LaunchInv

LEMMA ReapStep ==
    ASSUME LaunchInv, Reap
    PROVE  LaunchInv'
<1>1. TypeOK'
    BY DEF LaunchInv, TypeOK, Steps, Reap, processes,
       signals, capture, timers
<1>2. Flow'
    BY DEF LaunchInv, Flow, Reading, Killing, Reap, timers
<1>3. Accounts'
    BY DEF LaunchInv, Accounts, Reap, processes,
       capture
<1>4. Ends'
    BY DEF LaunchInv, Ends, AtEnd, Reap, processes, capture
<1>5. Group'
    BY DEF LaunchInv, Group, Reap, processes
<1> QED BY <1>1, <1>2, <1>3, <1>4, <1>5 DEF LaunchInv

LEMMA GiveUpStep ==
    ASSUME LaunchInv, GiveUp
    PROVE  LaunchInv'
<1>1. TypeOK'
    BY DEF LaunchInv, TypeOK, Steps, GiveUp, processes,
       signals, capture, verdict, timers
<1>2. Flow'
    BY DEF LaunchInv, Flow, Reading, Killing, GiveUp, verdict, timers
<1>3. Accounts'
    BY DEF LaunchInv, Accounts, GiveUp, processes,
       capture, verdict
<1>4. Ends'
    BY DEF LaunchInv, Ends, AtEnd, GiveUp, processes, capture
<1>5. Group'
    BY DEF LaunchInv, Group, GiveUp, processes, signals, verdict
<1> QED BY <1>1, <1>2, <1>3, <1>4, <1>5 DEF LaunchInv

LEMMA CloseStep ==
    ASSUME LaunchInv, Close
    PROVE  LaunchInv'
<1>1. TypeOK'
    BY DEF LaunchInv, TypeOK, Steps, Close, processes,
       signals, capture, verdict, timers
<1>2. Flow'
    BY DEF LaunchInv, Flow, Reading, Killing, Ended, Close, signals,
       capture, verdict, timers
<1>3. Accounts'
    BY DEF LaunchInv, Accounts, Close, processes,
       capture, verdict
<1>4. Ends'
    BY DEF LaunchInv, Ends, AtEnd, Close, processes, capture
<1>5. Group'
    BY DEF LaunchInv, Group, Ended, Close, processes, signals, verdict
<1> QED BY <1>1, <1>2, <1>3, <1>4, <1>5 DEF LaunchInv

LEMMA ReadEndStep ==
    ASSUME LaunchInv, NEW s \in Streams, ReadEnd(s)
    PROVE  LaunchInv'
<1>1. TypeOK'
    BY DEF LaunchInv, TypeOK, Steps, ReadEnd, Through,
       processes, signals, verdict, timers
<1>2. Flow'
    BY DEF LaunchInv, Flow, Reading, Killing, Ended, ReadEnd, Through,
       signals, verdict
<1>3. Accounts'
    BY DEF LaunchInv, Accounts, ReadEnd, processes,
       verdict
<1>4. Ends'
    BY DEF LaunchInv, Ends, AtEnd, ReadEnd, processes
<1>5. Group'
    BY DEF LaunchInv, Group, Ended, ReadEnd, Through, processes, verdict
<1> QED BY <1>1, <1>2, <1>3, <1>4, <1>5 DEF LaunchInv

LEMMA ReadSomeStep ==
    ASSUME LaunchInv, NEW s \in Streams, ReadSome(s)
    PROVE  LaunchInv'
<1>1. TypeOK'
    <2>1. TypeOK
        BY DEF LaunchInv
    <2>2. pipe' \in [Streams -> 0 .. PipeSize]
        <3>1. PipeSize \in Nat /\ pipe \in [Streams -> 0 .. PipeSize]
            BY <2>1, LauncherAssumption DEF TypeOK
        <3>2. pipe[s] - Least(pipe[s], ReadChunk) \in 0 .. PipeSize
            BY <2>1, <3>1, KeptFits
        <3>3. pipe' = [pipe EXCEPT ![s] = pipe[s] - Least(pipe[s], ReadChunk)]
            BY DEF ReadSome
        <3> QED BY <3>1, <3>2, <3>3
    <2>3. size' \in [Streams -> 0 .. MaxOutput + 1]
        <3>1. size \in [Streams -> 0 .. MaxOutput + 1]
            BY <2>1 DEF TypeOK
        <3>2. size' = [size EXCEPT ![s] = size[s] + Kept(s)]
            BY DEF ReadSome
        <3> QED BY <2>1, <3>1, <3>2, KeptFits
    <2>4. /\ pc' \in Steps /\ ready' \subseteq open
          /\ truncated' \in BOOLEAN
        BY <2>1 DEF ReadSome, Through, TypeOK, Steps
    <2> QED BY <2>1, <2>2, <2>3, <2>4
        DEF ReadSome, TypeOK, signals, timers
<1>2. Flow'
    BY DEF LaunchInv, Flow, Reading, Killing, Ended, ReadSome, Through,
       signals
<1>3. Accounts'
    BY LauncherAssumption DEF LaunchInv, TypeOK, Accounts, ReadSome, Kept,
       Least
<1>4. Ends'
    BY DEF LaunchInv, Ends, AtEnd, ReadSome
<1>5. Group'
    BY DEF LaunchInv, Group, Ended, ReadSome, Through
<1> QED BY <1>1, <1>2, <1>3, <1>4, <1>5 DEF LaunchInv

-----------------------------------------------------------------------------
(* The whole specification.                                                *)

LEMMA LaunchNext == LaunchInv /\ [Next]_vars => LaunchInv'
<1> SUFFICES ASSUME LaunchInv, [Next]_vars PROVE LaunchInv'
    OBVIOUS
<1>1. CASE Environment
    BY <1>1, WriteStep, CloseStreamStep, ForkStep, ExitStep DEF Environment
<1>2. CASE Tick
    BY <1>2, TickStep
<1>3. CASE Launch
    BY <1>3, StartStep, StartFailsStep, LoopDoneStep, LoopExpiredStep,
       SelectStep, ReadSomeStep, ReadEndStep, WaitStep, WaitExpiresStep,
       TerminateStep, LeaderGoneStep, KillGroupStep, ReapStep, GiveUpStep,
       CloseStep
    DEF Launch
<1>4. CASE UNCHANGED vars
    BY <1>4 DEF vars, processes, signals, capture, verdict, timers, LaunchInv,
        TypeOK, Flow, Accounts, Ends, AtEnd, Group
<1> QED BY <1>1, <1>2, <1>3, <1>4 DEF Next

LEMMA LaunchInvariant == Spec => []LaunchInv
BY LaunchInit, LaunchNext, PTL DEF Spec

\* Every variable keeps its type: no read overruns a pipe or a buffer, a
\* stream is handled only while it is registered, and both timers stop at 0.
THEOREM LauncherTypes == Spec => []TypeOK
<1>1. LaunchInv => TypeOK
    BY DEF LaunchInv
<1> QED BY <1>1, LaunchInvariant, PTL

\* However much the processes write, at most one byte over the cap is kept of
\* a stream, output_truncated is set exactly when that byte is there, and
\* never together with timed_out.
THEOREM CapturesBounded == Spec => []CaptureBounded
<1>1. LaunchInv => CaptureBounded
    BY DEF LaunchInv, TypeOK, Flow, Accounts, CaptureBounded
<1> QED BY <1>1, LaunchInvariant, PTL

\* A launch that reports neither a timeout nor a cut reaped its leader and
\* kept every byte any process wrote.
THEOREM QuietIsComplete == Spec => []QuietMeansComplete
<1>1. LaunchInv => QuietMeansComplete
    <2> SUFFICES ASSUME LaunchInv, pc = "done", ~timed_out, ~truncated
                 PROVE  /\ reaped
                        /\ \A s \in Streams : size[s] = written[s] /\ AtEnd(s)
        BY DEF QuietMeansComplete
    <2>1. open = {} /\ reaped
        BY DEF LaunchInv, Flow, Ended
    <2> SUFFICES ASSUME NEW s \in Streams
                 PROVE  size[s] = written[s] /\ AtEnd(s)
        BY <2>1
    <2>2. AtEnd(s)
        BY <2>1 DEF LaunchInv, Ends
    <2>3. size[s] + pipe[s] = written[s] /\ size[s] \in Nat
        BY LauncherAssumption DEF LaunchInv, Accounts, TypeOK
    <2> QED BY <2>2, <2>3 DEF AtEnd
<1> QED BY <1>1, LaunchInvariant, PTL

\* No process is signalled before the deadline passed or a stream was over
\* the cap.
THEOREM SignalsHaveCause == Spec => []SignalledForCause
<1>1. LaunchInv => SignalledForCause
    <2> SUFFICES ASSUME LaunchInv, termed # {}, remaining # 0
                 PROVE  \E s \in Streams : written[s] > MaxOutput
        BY DEF SignalledForCause
    <2>1. truncated
        BY DEF LaunchInv, Flow
    <2>2. PICK s \in Streams : size[s] > MaxOutput
        BY <2>1 DEF LaunchInv, Accounts
    <2>3. /\ size[s] + pipe[s] <= written[s] /\ MaxOutput \in Nat
          /\ size[s] \in Nat /\ pipe[s] \in Nat /\ written[s] \in Nat
        BY LauncherAssumption DEF LaunchInv, Accounts, TypeOK
    <2> QED BY <2>2, <2>3
<1> QED BY <1>1, LaunchInvariant, PTL

\* A leader is left running only if SIGKILL did not end it, and no process of
\* its group was then spared.
THEOREM LeaderLeftUnkillable == Spec => []LeaderLeftOnlyIfUnkillable
<1>1. LaunchInv => LeaderLeftOnlyIfUnkillable
    BY DEF LaunchInv, Group, Ended, LeaderLeftOnlyIfUnkillable
<1> QED BY <1>1, LaunchInvariant, PTL
=============================================================================
