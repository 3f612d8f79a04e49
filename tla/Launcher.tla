------------------------------ MODULE Launcher ------------------------------
(***************************************************************************)
(* _launch, _kill_group and _reap of sandbox.py: one process is started as *)
(* the leader of a new session, its two streams are read through a         *)
(* selector under a cap, and past the deadline or the cap its process      *)
(* group is terminated, killed and waited for, within bounds.              *)
(*                                                                         *)
(* The processes are the environment and owe nothing: they may fork,       *)
(* write, close a stream, ignore SIGTERM, exit, or hang, at any time.      *)
(* A forked process stays in the group and inherits the open streams.      *)
(* Two timers run down under Tick: the caller's deadline and the grace     *)
(* period of the step at hand; the launcher may be arbitrarily late.       *)
(***************************************************************************)
EXTENDS Naturals

CONSTANTS
    Leader,      \* the process Popen starts
    Kids,        \* the processes it may fork, directly or not
    Streams,     \* stdout and stderr
    MaxOutput,   \* max_output_bytes
    ReadChunk,   \* _READ_CHUNK_BYTES
    PipeSize,    \* what a pipe holds before its writer blocks
    MaxWritten,  \* bound: what is ever written to one stream
    Timeout,     \* timeout_seconds, in ticks
    Grace        \* _TERMINATE_GRACE_SECONDS, in ticks

ASSUME LauncherAssumption ==
    /\ Leader \notin Kids
    /\ {MaxOutput, MaxWritten, Timeout, Grace} \subseteq Nat
    /\ {ReadChunk, PipeSize} \subseteq Nat \ {0}

Processes == {Leader} \cup Kids

VARIABLES
    alive,      \* processes running
    forked,     \* processes that ever ran
    holds,      \* the stream ends each process has open
    pipe,       \* bytes written to each stream and not yet read
    written,    \* history: bytes ever written to each stream
    termed,     \* processes that were sent SIGTERM
    killed,     \* processes that were sent SIGKILL
    pc,         \* where _launch stands
    open,       \* streams still registered with the selector
    ready,      \* streams select reported and the for loop has not reached
    size,       \* bytes kept of each stream
    timed_out,
    truncated,
    reaped,     \* returncode is not None
    remaining,  \* ticks until the deadline
    grace       \* ticks until the end of a grace period

processes == <<alive, forked, holds, pipe, written>>
signals   == <<termed, killed>>
capture   == <<open, ready, size>>
verdict   == <<timed_out, truncated, reaped>>
timers    == <<remaining, grace>>
vars == <<processes, signals, pc, capture, verdict, timers>>

Steps == {"start", "loop", "read", "wait", "terminate", "grace", "reap",
          "closing", "done", "raised"}
Over == {"done", "raised"}

Init ==
    /\ alive = {} /\ forked = {}
    /\ holds = [p \in Processes |-> {}]
    /\ pipe = [s \in Streams |-> 0]
    /\ written = [s \in Streams |-> 0]
    /\ termed = {} /\ killed = {}
    /\ pc = "start"
    /\ open = {} /\ ready = {}
    /\ size = [s \in Streams |-> 0]
    /\ timed_out = FALSE /\ truncated = FALSE /\ reaped = FALSE
    /\ remaining = Timeout /\ grace = 0

-----------------------------------------------------------------------------
(* The processes.  One that was sent SIGKILL runs no more code, but may    *)
(* stay alive in uninterruptible sleep.                                    *)

Runs(p) == p \in alive \ killed /\ pc \notin Over

Write(p, s) ==
    /\ Runs(p) /\ s \in holds[p]
    /\ pipe[s] < PipeSize /\ written[s] < MaxWritten
    /\ pipe' = [pipe EXCEPT ![s] = @ + 1]
    /\ written' = [written EXCEPT ![s] = @ + 1]
    /\ UNCHANGED <<alive, forked, holds, signals, pc, capture, verdict, timers>>

CloseStream(p, s) ==
    /\ Runs(p) /\ s \in holds[p]
    /\ holds' = [holds EXCEPT ![p] = @ \ {s}]
    /\ UNCHANGED <<alive, forked, pipe, written, signals, pc, capture,
                   verdict, timers>>

Fork(p, kid) ==
    /\ Runs(p) /\ kid \in Kids \ forked
    /\ alive' = alive \cup {kid}
    /\ forked' = forked \cup {kid}
    /\ holds' = [holds EXCEPT ![kid] = holds[p]]
    /\ UNCHANGED <<pipe, written, signals, pc, capture, verdict, timers>>

\* A process exits, or dies of a signal it was sent.
Exit(p) ==
    /\ p \in alive /\ pc \notin Over
    /\ alive' = alive \ {p}
    /\ holds' = [holds EXCEPT ![p] = {}]
    /\ UNCHANGED <<forked, pipe, written, signals, pc, capture, verdict, timers>>

CountDown(n) == IF n = 0 THEN 0 ELSE n - 1

Tick ==
    /\ pc \notin Over \cup {"start"}
    /\ remaining > 0 \/ grace > 0
    /\ remaining' = CountDown(remaining)
    /\ grace' = CountDown(grace)
    /\ UNCHANGED <<processes, signals, pc, capture, verdict>>

-----------------------------------------------------------------------------
(* _launch.                                                                *)

\* Popen(start_new_session=True), the deadline, both streams registered.
Start ==
    /\ pc = "start"
    /\ alive' = {Leader} /\ forked' = {Leader}
    /\ holds' = [holds EXCEPT ![Leader] = Streams]
    /\ open' = Streams
    /\ pc' = "loop"
    /\ UNCHANGED <<pipe, written, signals, ready, size, verdict, timers>>

\* argv[0] cannot be started: the OSError is the caller's.
StartFails ==
    /\ pc = "start"
    /\ pc' = "raised"
    /\ UNCHANGED <<processes, signals, capture, verdict, timers>>

\* Mutant: the capture ends with the leader, whatever is left in the pipes.
StopWithLeader ==
    /\ pc = "loop"
    /\ open = {} \/ Leader \notin alive
    /\ pc' = "wait"
    /\ UNCHANGED <<processes, signals, capture, verdict, timers>>

\* Both streams ended: only the process itself is left to wait for.
LoopDone ==
    /\ pc = "loop"
    /\ open = {}
    /\ pc' = "wait"
    /\ UNCHANGED <<processes, signals, capture, verdict, timers>>

\* Mutant: select returning nothing is taken for the deadline.
ExpireWhenQuiet ==
    /\ pc = "loop"
    /\ open # {}
    /\ remaining = 0 \/ \A s \in open : pipe[s] = 0
    /\ timed_out' = TRUE
    /\ pc' = "terminate"
    /\ UNCHANGED <<processes, signals, capture, truncated, reaped, timers>>

LoopExpired ==
    /\ pc = "loop"
    /\ open # {} /\ remaining = 0
    /\ timed_out' = TRUE
    /\ pc' = "terminate"
    /\ UNCHANGED <<processes, signals, capture, truncated, reaped, timers>>

AtEnd(s) == pipe[s] = 0 /\ \A p \in alive : s \notin holds[p]

\* What a read would not block on: some bytes, or the end of the stream.
Readable(s) == pipe[s] > 0 \/ AtEnd(s)

\* Mutant: one stream is read to its end before the other is looked at.
SelectInOrder ==
    /\ pc = "loop"
    /\ open # {} /\ remaining > 0
    /\ LET first == CHOOSE s \in open : TRUE IN
       Readable(first) /\ ready' = {first}
    /\ pc' = "read"
    /\ UNCHANGED <<processes, signals, open, size, verdict, timers>>

\* select, which wakes every quarter of a second to look at the deadline.
Select ==
    /\ pc = "loop"
    /\ open # {} /\ remaining > 0
    /\ ready' = {s \in open : Readable(s)}
    /\ ready' # {}
    /\ pc' = "read"
    /\ UNCHANGED <<processes, signals, open, size, verdict, timers>>

Least(m, n) == IF m <= n THEN m ELSE n

\* Mutant: the last chunk is kept whole.
WholeChunk(s) == Least(pipe[s], ReadChunk)

\* chunk[:room], where one byte over the cap is kept.
Kept(s) == Least(Least(pipe[s], ReadChunk), MaxOutput + 1 - size[s])

Through(s) == IF ready = {s} THEN "loop" ELSE "read"

ReadSome(s) ==
    /\ pc = "read" /\ s \in ready /\ pipe[s] > 0
    /\ pipe' = [pipe EXCEPT ![s] = @ - Least(@, ReadChunk)]
    /\ size' = [size EXCEPT ![s] = @ + Kept(s)]
    /\ \/ /\ size[s] + Kept(s) <= MaxOutput
          /\ ready' = ready \ {s}
          /\ pc' = Through(s)
          /\ UNCHANGED truncated
       \/ /\ size[s] + Kept(s) > MaxOutput
          /\ ready' = {}
          /\ pc' = "terminate"
          /\ truncated' = TRUE
    /\ UNCHANGED <<alive, forked, holds, written, signals, open, timed_out,
                   reaped, timers>>

ReadEnd(s) ==
    /\ pc = "read" /\ s \in ready /\ pipe[s] = 0
    /\ open' = open \ {s}
    /\ ready' = ready \ {s}
    /\ pc' = Through(s)
    /\ UNCHANGED <<processes, signals, size, verdict, timers>>

\* process.wait after both streams closed, which polls at least once.
Wait ==
    /\ pc = "wait" /\ Leader \notin alive
    /\ reaped' = TRUE
    /\ pc' = "closing"
    /\ UNCHANGED <<processes, signals, capture, timed_out, truncated, timers>>

\* Mutant: the wait after both streams closed has no deadline.
WaitForever == FALSE /\ UNCHANGED vars

WaitExpires ==
    /\ pc = "wait" /\ Leader \in alive /\ remaining = 0
    /\ timed_out' = TRUE
    /\ pc' = "terminate"
    /\ UNCHANGED <<processes, signals, capture, truncated, reaped, timers>>

-----------------------------------------------------------------------------
(* _kill_group and _reap.                                                  *)

\* killpg(SIGTERM), which finds the unreaped leader if nobody else.
Terminate ==
    /\ pc = "terminate"
    /\ termed' = alive
    /\ grace' = Grace
    /\ pc' = "grace"
    /\ UNCHANGED <<processes, killed, capture, verdict, remaining>>

\* poll() says the leader is gone: _kill_group returns, whoever is left.
LeaderGone ==
    /\ pc = "grace" /\ grace > 0 /\ Leader \notin alive
    /\ reaped' = TRUE
    /\ pc' = "reap"
    /\ UNCHANGED <<processes, signals, capture, timed_out, truncated, timers>>

\* Mutant: past the grace period only the leader is killed.
KillLeader ==
    /\ pc = "grace" /\ grace = 0
    /\ killed' = alive \cap {Leader}
    /\ grace' = 2 * Grace
    /\ pc' = "reap"
    /\ UNCHANGED <<processes, termed, capture, verdict, remaining>>

KillGroup ==
    /\ pc = "grace" /\ grace = 0
    /\ killed' = alive
    /\ grace' = 2 * Grace
    /\ pc' = "reap"
    /\ UNCHANGED <<processes, termed, capture, verdict, remaining>>

Reap ==
    /\ pc = "reap" /\ Leader \notin alive
    /\ reaped' = TRUE
    /\ pc' = "closing"
    /\ UNCHANGED <<processes, signals, capture, timed_out, truncated, timers>>

\* A process SIGKILL cannot end is not waited for any further.
GiveUp ==
    /\ pc = "reap" /\ Leader \in alive /\ grace = 0
    /\ pc' = "closing"
    /\ UNCHANGED <<processes, signals, capture, verdict, timers>>

\* finally: the selector and both pipes are closed, the capture returned.
Close ==
    /\ pc = "closing"
    /\ pc' = "done"
    /\ UNCHANGED <<processes, signals, capture, verdict, timers>>

-----------------------------------------------------------------------------
Environment ==
    \E p \in Processes :
        \/ \E s \in Streams : Write(p, s) \/ CloseStream(p, s)
        \/ \E kid \in Kids : Fork(p, kid)
        \/ Exit(p)

Launch ==
    \/ Start \/ StartFails
    \/ LoopDone \/ LoopExpired \/ Select
    \/ \E s \in Streams : ReadSome(s) \/ ReadEnd(s)
    \/ Wait \/ WaitExpires
    \/ Terminate \/ LeaderGone \/ KillGroup \/ Reap \/ GiveUp
    \/ Close

Next == Environment \/ Tick \/ Launch

Spec == Init /\ [][Next]_vars

\* The launcher's thread is scheduled; nothing is asked of the processes, nor
\* of time.
FairSpec == Spec /\ WF_vars(Launch)

-----------------------------------------------------------------------------
(* Properties.                                                             *)

TypeOK ==
    /\ alive \subseteq forked /\ forked \subseteq Processes
    /\ holds \in [Processes -> SUBSET Streams]
    /\ pipe \in [Streams -> 0 .. PipeSize]
    /\ written \in [Streams -> 0 .. MaxWritten]
    /\ termed \subseteq Processes /\ killed \subseteq Processes
    /\ pc \in Steps
    /\ open \subseteq Streams /\ ready \subseteq open
    /\ size \in [Streams -> 0 .. MaxOutput + 1]
    /\ timed_out \in BOOLEAN /\ truncated \in BOOLEAN /\ reaped \in BOOLEAN
    /\ remaining \in 0 .. Timeout
    /\ grace \in 0 .. 2 * Grace

\* Of each stream at most one byte over the cap is kept, output_truncated
\* says exactly that some stream passed it, and a capture never says both that
\* it was cut and that it timed out.
CaptureBounded ==
    /\ \A s \in Streams : size[s] <= MaxOutput + 1
    /\ truncated <=> \E s \in Streams : size[s] > MaxOutput
    /\ ~(truncated /\ timed_out)

\* A launch that reports neither has the whole output and the real exit
\* status: the leader was reaped, and every byte any process of the group
\* wrote before the end of its streams was kept, the last ones included.
QuietMeansComplete ==
    pc = "done" /\ ~timed_out /\ ~truncated =>
        /\ reaped
        /\ \A s \in Streams : size[s] = written[s] /\ AtEnd(s)

\* No process is signalled unless the deadline passed or a stream was over
\* the cap: a slow or silent command is left alone until then.
SignalledForCause ==
    termed # {} => remaining = 0 \/ \E s \in Streams : written[s] > MaxOutput

\* A launch leaves its leader running only after SIGKILL did not end it, and
\* then it has left no other process of the group without SIGKILL either.
LeaderLeftOnlyIfUnkillable ==
    pc = "done" /\ Leader \in alive => ~reaped /\ alive \subseteq killed

\* Whatever the processes do, ignore or hold open, the launch returns, given
\* only that time passes.
LaunchReturns == WF_vars(Tick) => <>(pc \in Over)

\* A flood on one stream never starves the other: bytes waiting in a pipe are
\* read, or the loop is left, even if the deadline never comes.
StreamsDrained ==
    \A s \in Streams :
        pipe[s] > 0 ~> pipe[s] = 0 \/ pc \notin {"loop", "read"}

\* sandbox.py, module documentation: "on the deadline the whole process group
\* is terminated and, if it survives the grace period, killed."
WholeGroupKilled ==
    pc = "done" /\ timed_out => alive \cap termed \subseteq killed
=============================================================================
