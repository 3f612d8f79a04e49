# ToolYard in TLA+

A verification development of ToolYard (`src/src/toolyard`): the package that
takes a tool call a model asked for, decides whether it may run, runs it within
bounds, and records what happened.

    tlc -config ExecutorLadder.cfg MCExecutor.tla     # any run below
    tlapm ExecutorProofs.tla                          # any ...Proofs module

## The system

| Part | Source | State it keeps | Operations | Meets the others by |
|---|---|---|---|---|
| Executor | `executor.py` | none of its own but its configuration; per call, what it has established so far | `execute` | calls registry, sandbox, handler, store; reads a monotonic clock |
| Registry | `registry.py` | name -> registration, only growing | `register`, `get`, and pure reads | read once per call by the executor |
| Value types | `types.py` | none (frozen records, closed vocabularies) | `EgressClass.permits`, construction checks | passed everywhere |
| Store, errors | `store.py`, `errors.py` | the records, in order | `append` | called once per call; its failure leaves `execute` with result and record on it |
| Tiered sandbox | `sandbox.py` | a lock and one cached report | `report`, `isolation_tier`, `run_isolated` | shared by all threads; called by the executor's fifth check and by the command tool |
| Launcher | `sandbox.py` | a process group, two pipes, a deadline | `_launch`, `_kill_group`, `_reap` | the sandbox's only way to start a process: canaries, commands, removals |
| Path containment | `containment.py` | none; it reads the file system | `resolve_read`, `resolve_write` | called by the executor, before the handler uses the path |
| File tools | `tools/files.py` | the file system | read, write with parents, list | handlers behind the executor |
| Fetch tool | `tools/fetch.py` | per call, a URL, a count of redirects and a response; one client for all calls | fetch with redirects under a cap | a handler; calls an injected resolver and the client's pool |
| Command tool | `tools/command.py` | none | run one argv | a handler; calls `run_isolated` |
| Validation | `validation.py` | a compiled schema | closed-schema checks, `validate` | at registration, and by the third check |
| Hygiene | `_safe.py` | none | `clean_text`, `truncate_text`, `json_sanitize` | whatever reaches a model or a record |

What is hard about it:

* **Interleaving.** Threads share one executor: a call looks its tool up once
  and uses that registration while others are added; several calls append to
  one store; the first threads to need a tier race to the probe.
* **Time.** A handler cannot be interrupted, so its answer may be late. The
  monotonic source is injected and may misbehave. A launch must end though the
  processes it started owe it nothing.
* **Partial failure.** The store may fail after the tool ran, also while an
  interrupt is on its way out; the probe may raise half-way, under the lock; a
  container outlives its killed client; SIGTERM ends some of a group.
* **Ordering.** Which of several faults a call is refused for is a promise to
  the model, and so is that a call refused early costs no probe. The end of a
  process and the end of its output come in either order.
* **Stale looks.** A path is resolved by the executor and used by the handler
  later, one system call at a time, in a tree other calls and processes change.
* **Limits that do not know of each other.** Two timeouts measure one call; four
  caps cut one text; two walks count one set of arguments.

What makes each part correct is stated in its module's last section.  The
hazards, each with its line and the properties that cover it, are listed in
`PROJECT.json`.

## The modules

**`Executor`** models `ToolExecutor.execute` for a set `Calls` of invocations,
each made by a thread of its own. Steps are as coarse as the shared state
allows: one per check, one per question put to the sandbox, one per reading of
the clock, one for the append. `Begin` is `executor.py:422-430`; `CheckRegistry`
to `CheckEgress` are the four pure checks, in the order of `_CHECKS`
(`AfterCheck`); `SkipIsolation`, `ProbeIsolation`, `SkipPath`, `ResolvePath` and
`PathsDone` are the two halves of the fifth; `StartHandler`, `HandlerReturns`,
`HandlerRaises` and `Measure` are `_run_handler`; `Finish`, `AppendRecord` and
`AppendFails` are `_finish` and `_append`. The environment is `Register` (the
application), `Tick` (the clock, which may fall back when `SteadyClock` is
FALSE), the answers of the sandbox and what handlers do. A text is abstracted
to what it was built from, its size, whether the operator's detail is in it and
whether it was cut; the schema's verdict on the arguments is part of the
request. `started_at` is left out, and what the record holds of the arguments is
in `CallData`: nothing is decided from either. Time is counted in ticks,
`TicksPerMs` of which make a millisecond. The verdict compares ticks with a limit
in ticks (`Elapsed`, `Limit`); the result and the record get milliseconds,
rounded half to even (`Rounded`, `executor.py:548`), so a call may be a TIMEOUT
and show a duration that is just the limit, and `DurationMatchesVerdict` says no
more than that the two agree to half a millisecond. The division of nanoseconds
by a million (`executor.py:644`) is taken as exact: the float it gives is off by
less than a nanosecond for any call of less than a month. `ran` is a history
variable: the clock around the handler itself.

**`ToolCall`** is the abstract promise: a call is judged at one look against
the registry as it was when the call was made, declined for its first fault or
run, settles on one verdict, and is journalled with it. **`ExecutorRefinement`**
gives the mapping and the property `KeepsPromise`.

**`Launcher`** models `_launch` with `_kill_group` and `_reap`: one leader, the
processes it may fork, two pipes of bounded size, the selector loop, the cap
and the two timers. `Select`, `ReadSome`, `ReadEnd` are one turn of the loop;
`LoopExpired`, `LoopDone` its exits; `Wait`, `WaitExpires` the wait that
follows; `Terminate`, `LeaderGone`, `KillGroup` are `_kill_group`; `Reap`,
`GiveUp` are `_reap`. A `select` that returns nothing changes nothing and is
left out. Processes may fork, write, close, exit or hang at any moment; one
sent SIGKILL runs no more code but need not die. `ProcessLookupError` is not
modelled because it cannot occur: the leader is not reaped before either
`killpg`, so its group exists. Output is counted in bytes.

**`Sandbox`** models `TieredSandbox`: `GiveCached`, `ProbeFirst` and `Cache` are
`report` under its lock; `MakeScratch` to `NoRungLeft` are `_probe` and
`_canary`, one step per rung looked for and one per canary run; `Reject` to
`Remove` are `run_isolated` and `_remove_container`. A launch is one step whose
outcomes are those of `CaptureType`: `Launcher`'s `CaptureBounded` is why no
capture both timed out and was truncated, and `LaunchReturns` is why it ends.
The argv builders are data, except that a colon in a workspace path makes the
container one raise. A container whose client ended by itself is taken to have
ended with it (`--rm`). `tried`, `launched` and `cleanup` are history variables.

**`Fetch`** models `_HttpFetch.execute` for calls that share one client:
`CheckUrl` and `Resolve` are `_check_url`, split where the resolver is asked;
`Answer` and `SendFails` are `_send`; `Redirect` is the loop's other branch with
`_next_hop`; `ReadHead` to `ReadFails` are `_read`. A redirect is any 3xx, since
that is what `is_redirect` says, so it may lack a Location and then joins to the
URL it answered. A Location that is no URL makes the client fail while it builds
the response, for the statuses it follows itself; for another 3xx, such as 300 or
304, `join` raises out of `execute`, which is the last disjunct of `Redirect`.
Connections are those of the client's pool, of
which `_send` takes one and `close` returns it. What was looked up, and what was
sent, are kept by hop in the history variables `looked` and `asked`.

**`Containment`** has the tree, a function from paths to nodes, the walk of a
path through it, and both uses of that walk: `Resolves` and `ResolveWithin` are
`fully_resolve` and `_resolve_within`, `Reached`, `Entry` and `Writable` are what
the kernel makes of a path in `stat`, `lstat` or `mkdir`, and `open`. `WalkFrom`
is the walk after each of at most `MaxSteps` steps; what has not arrived by then
is in a cycle. A cycle behind a missing component is not seen by
the strict resolution, and the lenient one then gives up on it and keeps it as
written (`Lexical`), or raises where `CycleRaises` says that the interpreter
does (3.12). Which link of a cycle is then kept is realpath's first one met again;
in the model it depends on `MaxSteps`. A call that meets one is noted `"cycle"`,
which is an exception of the properties that could tell. Links are absolute.

**`FileTools`** models the three file tools for calls made by several threads.
`Resolve` is the executor's part (`executor.py:228-254`); each later action is
one system call: `ReadIsFile`, `ReadStat`, `ReadBytes`; `ListIsDir`,
`ListEntries`; `StartWrite` to `WalkDone` are `_make_parents`; `CheckTarget`,
`Open`, `WriteBlock`, `Close` and `EncodeFails` are the rest of
`write_file`. `Swap` is another process. `SystemFails` is a system call that
fails whatever the tree is like, for want of permission or space or because a
name is too long (`files.py:181`): any one whose error the code hands to
`_refuse_os_error`, and the resolution of the write root, whose error it swallows
(`StartWrite`). A call it happened to is noted `"failed"`. That a denied look is
swallowed by `pathlib` instead, as it is for some of its looks and in newer
versions, is not told apart from a look that fails. Content is counted in blocks,
each standing for its writer; an `OSError` is one outcome. `noted`,
`touched` and `within` are history variables: what happened to a call on its
way, what it touched, and the real roots its path was compared with.

**`Text`** and **`Arguments`** are `_safe.py` and `_describe_shape`: texts as
sequences of tokens with a width in bytes, arguments as a graph of nodes of eight
kinds (`Kinds`), which may hold one another twice or in a circle. `Sizes` are the sizes of a text's
prefixes, of which `Cut` takes the longest that fits. The two walks go one value
at a time: `ShapeStep` is a turn of the validation's loop over its stack,
`SanitizeStep` a call of `_sanitize`, with the calls still to be made in a list
and with what each value lies in. The first takes a set for one value, the second
walks it and tags floats that are not finite, bytes and what is no JSON at all.
Arguments that are no object are refused before they are measured and left out.
The order of a set's members in the projection, and keys that become the same
when cleaned, are not modelled.

**`CallData`** follows the data of one call through all of it: the shape and the
schema of the arguments, the limit the command tool picks (`CommandLimit`) and
the one the executor measures (`CallLimit`), the capture (`Finishes`, `Floods`,
`Expires`, which are `Launcher`'s three ends), what decoding and the cap make of
each stream (`Captured`), the tool's rendering (`Render`), the verdict (`Judge`),
the two caps (`Finish`) and what the record keeps of the arguments: nothing where
the tool redacts them, a tag where they are too long, and else their projection
(`ArgsJson`), of which the digest is taken in any case. A handler may return,
refuse for reasons of its own (`OtherRefuses`) or raise (`Raised`), and
`run_isolated` may raise before anything runs (`CannotRun`); what is raised is
FAILED however late it comes, what is returned is measured. Interruptions that
are no `Exception` are only in `Executor`. The schemas admit what jsonschema does with the two
of them: an array of at least one string, and any object. A line of the
rendering counts as one byte.

**`MCExecutor`**, **`MCLauncher`**, **`MCSandbox`**, **`MCFetch`**,
**`MCFileTools`**, **`MCCallData`** give the constants for TLC.
**`ExecutorProofs`**, **`LauncherProofs`**, **`SandboxProofs`**,
**`FetchProofs`**, **`FileToolsProofs`** and **`CallDataProofs`** hold the
theorems, **`ContainmentProofs`** the facts about walks of paths and
**`Induction`** those about numbers, sequences and sums that they rest on.

Definitions whose comment begins "Mutant:" are not part of a model: each is a
plausible slip in the code, kept beside the definition it would replace, and
breaks the property it is paired with in `PROJECT.json`.

## What the runs check

| Run | Bounds | Shows |
|---|---|---|
| `ExecutorLadder` | 1 call, all 96 requests, 2 registrations more at any time, 3 tiers, a clock moving either way within 0..3 ticks of which 4 are a millisecond, limits of 1 and 3 ticks | types; handlers run only behind all checks, on resolved paths; the sandbox is spared; the first fault decides; nothing late is shown; the rounded duration agrees with the verdict |
| `ExecutorCalls` | 2 calls, a store that may fail, outputs over both caps | one record per call, telling the caller's story; `Executor` implements `ToolCall` |
| `LauncherCapture` | leader and 1 child, cap 1, chunks and pipes of 2, 3 bytes a stream, deadline 2, grace 1 | the capture is bounded and complete, signals have a cause, who may be left; no stream starves the other; the launch returns |
| `SandboxUses` | 2 uses, 2 rungs, 1 change of the host, `isolation_tier` or a command with one of 4 sets of faults | one probe at a time, one answer for ever, the rung is the best that ran; launched as decided or not at all; no removable container is left; the lock is always released |
| `FetchPool` | 2 fetches, a pool of 1, 1 redirect, 8 URLs, cap 2, bodies of 0 to 3, declared lengths 1, 3 or none, a Location that is no URL | every request is cleared at its own hop, connections come back, bodies are whole or refused, fetches end |
| `FileTools` | 2 calls out of 11, 7 workspaces with links out, back, in a cycle and at the write root, 2 swaps out of 8, system calls that fail at any point, cap 1, writes of 1 and 2 blocks | nothing outside the roots is touched, a write leaves its own content, a read fits its cap, a clear write succeeds; each with the exceptions the code cannot exclude, by name |
| `CallData` | 1 call, 10 streams and 12 texts around the caps 8, 12 and 20, 15 sets of arguments around each limit with leaves of every kind, redacted, too long or neither, timeouts 1, 2 and 3, delays of 0 or 1 | texts fit and say when they were cut, a command killed for its time is a timeout and shows nothing, nothing is cut from accepted arguments |

Why the bounds are enough. Calls share only the registry, the clock and the
store, and never read what another call wrote, so two calls show every way
they can disturb each other; the theorems then cover any number. One call
suffices where a property speaks of one call. The two tools, one with a path
of each access and one that needs network and isolation, give every branch of
every check. Sizes 1 and 4 lie on either side of both caps (2 and 3). The
launcher's numbers put the cap, its extra byte, the chunk and the pipe next to
each other, and its timers are relative, so the deadline may fall anywhere. Two
calls do not compete for time: each compares the clock with its own start only,
so the run about time has one call and the run about two has no time.
Two uses of the sandbox on one runtime and bwrap show a race to the probe, a
better rung failing and no rung left.
Two fetches through one connection are the least that can wait for each other,
and for themselves; one redirect gives a first hop, a later hop and one too
many. Two swaps are what it takes to have a component replaced after a look and
put back; a read of two blocks is the least over a cap of one; the workspaces
are one of each kind in the way of a path. In `CallData` the label takes 4 to 6
bytes of caps of 8 to 20, and a character up to 3, so cut, label and cap meet in
every order; with a smaller base of the figures their number of digits changes
within those sizes, as it does in the code. Deadlock is not checked: the calls,
launches and fetches do end.

Fairness. `Executor` is checked for safety only: a call takes its checks one after
the other and then waits for its handler, which may run for ever. `Launcher` asks it of the launcher
only: nothing of the processes, and time is a premise of `LaunchReturns` rather
than an assumption of the specification, so that `StreamsDrained` owes nothing
to the deadline. `Sandbox` asks it of each thread: a launch ends
(`LaunchReturns`), and since a use takes the lock once, no order among waiters
is needed. `Fetch` asks it of each fetch together with its transport, since
connecting, waiting for the pool and reading all have timeouts, and not of the
resolver, which belongs to the application and has none.

### Where the code and its documentation differ

Each is a run that TLC ends with a counterexample.

* `TimeoutMeansHandlerExceeded` (`types.py:156`): the time compared with the
  limit includes the checks, and so a probe that takes seconds.
* `InterruptIsReraised` (`executor.py:417`): a store that fails while the
  interrupted call is recorded replaces the interrupt.
* `WholeGroupKilled` (`sandbox.py:60`): the grace period ends with the leader; a
  child that ignores SIGTERM is not killed.
* `EveryContainerRemoved` (`sandbox.py:63`): a canary's container that outlives
  its killed client is not removed.
* `DefaultIsTheLimit` (`types.py:544`): without a timeout of its own a command is
  killed at the command tool's default, not at the executor's.

Some sentences are read here as approximations, not claims. Of `types.py`, line
150 says of REFUSED that nothing ran, though a handler's own `ToolRefusal` is
REFUSED by default; line 756 says content and summary differ only for a
`path_escape`, though any `record_detail`, and the smaller cap of the summary,
make them differ (`ModelText`, `RecordText`). `files.py:244` says the read cap
bounds what is loaded: it does unless the file grows between `stat` and the read,
which is the exception in `ReadWithinCap`.
`containment.py:200` says that a cycle of links is refused: one behind a missing
component is not, since the strict resolution stops at the component
(`Resolves`), and `StaysInside` fails in the `FileTools` run without its exception
for `"cycle"`, when the links are changed after such a path was admitted. `files.py:507` says of `write_file`
that a path reached through a symbolic link is refused: it is, except for links
the executor resolved before the handler saw the path. `containment.py:175` says
that a truncated stream carries the label: not if the bytes past the cap were
NULs, and then only the header tells (`Header`). `tests/unit/test_command_tool.py:221`
finds the command tool's own sentence in a timeout; with a clock that advances
the executor's verdict comes first (`Judge`) and replaces it. `fetch.py:333` says
that no Location can make `join` raise, since the client has parsed it: it parses
those of 301, 302, 303, 307 and 308 only. `command.py:109` says that a command that
exits non-zero is OK: one that exits with 127 and begins its stderr with the
sandbox's own prefix is `args_invalid` (`Unlaunchable`).

## What is proved

For every set of calls, tools, requests, limits and clocks
(`ConstantsAssumption` is all that is assumed), `ExecutorProofs` proves
`TypeOK`, `RegistrationFound`, `HandlerOnlyWhenPermitted`,
`SandboxOnlyForPermittedCalls`, `HandlerGetsResolvedPaths`,
`DurationMatchesVerdict`, `RecordedOnce` and `RecordMirrorsResult` invariant.

The argument goes in layers, each inductive relative to the ones below.
`IInv` is types and the registration found. None of the others is inductive as
it stands, since a property of a handler that ran says nothing of a call that
is half-way up the ladder. `LadderInv` therefore says, for each place on the
ladder, which checks have been passed. `PathsInv` says that the paths handled so
far (`at`) are resolved, using that argument names are not repeated in
`path_args`. `VerdictInv` ties refusal, elapsed time and output to each other
between the measurement and the result. `JournalInv` says which calls are in
the store, at which step, and that their records are the ones built. A step
touches one call: `OtherCallsAlone` discharges the rest once.

It also proves `FirstFaultDecides` and `LateOutputDiscarded`. `OrderInv` keeps a refusal of the ladder together with the fault it names and the
absence of every earlier one; that is the conjunction of the checks `LadderInv`
says lie behind the call, and nothing it rests on moves after the call leaves the
ladder. `LateInv` ties what was measured to the readings of the clock a call
takes. The clock may do anything: the property itself asks that the readings of
that one call be in order (`InOrder`), from which a late handler is one measured
beyond the limit.

And it proves `KeepsPromise`: `Executor` implements `ToolCall`. Each action is shown to map to one action of the promise or to none:
a refusing check to `Decline` (by `OrderInv`, the reason is the one fault
`PolicyFaults` finds, or, with none, one of `SandboxFaults`), a measurement or
an exception to `End` (by `VerdictInv`), the append to `Leave` (by `JournalInv`
and `SettledInv`, what is appended is the verdict settled on).

For every set of threads, every ladder and any number of host changes
(`SandboxAssumption`), `SandboxProofs` proves every invariant of `Sandbox` and
`DecidedOnce`. The inductive `LockInv` adds to exclusion what each thread
knows of the report at each step: nothing before the lock, a report of its own
at the end of its probe, the cached one from then on. `ProbeInv` adds what a
probe half-way knows of the rungs it has passed, for `RungEarned`; `RunInv` what
a use has launched at each step of `run_isolated`, for the two about commands.

For any number of processes and streams, any cap, chunk, pipe and limit
(`LauncherAssumption`), `LauncherProofs` proves every invariant of `Launcher`.
None of them but the types is inductive: `LaunchInv` adds what the step at hand
tells of the verdict (`Flow`), that every byte written is in the pipe or was kept
until a cap was passed (`Accounts`), that a stream no longer read is at its end
for good (`Ends`, since a process inherits only streams its parent holds), and
that a leader left after the kill belongs to a group that was killed whole
(`Group`).

For any tree, any calls, any requests and any swaps (`FilesAssumption`,
`RootsAssumption`), `FileToolsProofs` proves every invariant of `FileTools`. They
rest on what `ContainmentProofs` shows of a walk: it is the one function its equation
describes (`WalkBuilt`); what it comes to has no ".." left in it, and no link
while the tree is as it was (`RealWalk`); and a path without either is walked to
itself in as many steps as it has components (`ArrivedAt`). A walk is a
recursive function over the number of steps. The library's induction theorem
takes an operator, which the provers cannot instantiate, so `Induction` states
induction of the set of the numbers after which the fact holds (`StepByStep`),
and proves it by least counterexample: every set of numbers has a least one
(`Least`), which comes from the order of finite sets by inclusion.

For `TypeOK`, `StaysInside` and `ClearWriteSucceeds` each step is first put into what it does to its caller and to the others, call by
call (`OpenDoes`, `WalkMkdirDoes`, ...). Three invariants follow, each resting
on the one before. `TypeInv`: the tree is a tree, and an open file is a file of
it; putting a node over a directory, or removing one, has to take all below
along for that. `InsideInv`: until its look, the target of a call lies within a
root it was compared with, every component looked at is real, or the swap that
made it unreal was noted as late. `ClearInv`: a write that noted nothing stands
before a tree in which every parent passed is a directory and every one to come
is a directory or missing, so that no step of it can meet an error but one the
system makes without a cause in the tree, which is noted.

`ReadWithinCap` has an invariant of its own: between look and read a call keeps
that its target has not passed the cap, or is noted as resized, since every
action that changes the tree notes it. And `WrittenWhole`: while a write has its
file open, the file holds its blocks so far and nothing else, or somebody else
is noted to have changed it.

For every number of fetches, every policy and pool, every resolver and origin
(`FetchAssumption`), `FetchProofs` proves `TypeOK`, `EveryHopCleared`,
`ConnectionsReturned` and `WholeBodyOrNone`. `HopInv` says what a fetch has
established where it stands, in particular that a target inherited from a
redirect is on the origin's host before it is checked; without it nothing ties
the next request to the first. `PoolInv` adds that `held` is finite, so that
its cardinality can be counted up and down. `BodyInv` says that no byte is
streamed behind a head that was not accepted.

For any requests, streams, texts, limits and delays, `CallDataProofs` proves
every property of `CallData`. `CallDataAssumption` asks of the caps what the
constructors ask by their floor of 256 bytes: that a label has its room in each
of them, about any text there may be, and that what is left for the text has no
more figures than the headroom was left for. Texts are sequences and arguments
any graphs, so the proofs rest on lemmas of `Induction`: a function given by its
value at the number before exists (`Recursion`), what is in a sequence of
sequences joined (`JoinedAre`), and how sums of weights grow with their
sequences (`SumOneMore`, `SumOfTail`).

`FitsOrSaysSo` and `KilledIsTimeout` follow from `CallInv`, which goes by the
place of the call: nothing captured before the handler, what the sandbox may
hand over before the rendering, what a handler may have returned before the
verdict. Behind it is what truncation promises (`Truncated`): the result fits
the cap, label included, since the label is measured with no figures for what
was kept and the headroom was left for those; and a text that was cut carries
its label from the first byte to the last. A text cut a second time may lose the
label of the first cut, and has that of the second.

`KilledIsTimeout` is about commands, and only one way round: a handler that raises,
or a check that refuses, may be as late as it likes and is no timeout
(`executor.py:448`). `AcceptedNotCut` does not say that accepted arguments are
recorded as they came: a NaN is not, nor are bytes. It says that what stands for
a value is never there because the record had no room or patience for it. Sets
are its exception, and a real one: the validation lets a set pass as one value,
and with more in it than the record walks it is cut (an argument of the run is).
It compares two walks of one graph that have different
orders, one with a stack and one with nested calls. What they share is the
weight of a node at its depth, the number of values in it down to
`MaxArgsDepth`, where anything below counts for more than is allowed
(`Weights`). The
validation counts the weight of what it has popped: its count and the weights on
its stack always add up to the weight of the whole (`Counted`), so arguments it
accepts are light (`ShapedIsLight`). In light arguments whatever lies in another
value is lighter than it, so there is no circle and no path longer than the
values are many, and the record's budget is never less than the weights of the
calls still to be made: no call meets a limit or its own ancestor
(`LightIsWhole`).

Only model-checked: liveness, and so `LaunchReturns`, `StreamsDrained`,
`EveryUseEnds` and `EveryFetchEnds`, since the prover does not handle fairness; and the five disagreements with the documentation above, each
of which is a counterexample and needs no proof.

## The plan

Done, in this order, the most important behaviour first: `Executor` and
`ToolCall`; `Launcher`; `Sandbox`; `Fetch`; `Containment` and `FileTools`;
`CallData`; the proofs above. What is left:

1. `Executor` with `Sandbox` in the place of its tier answers. They meet in one
   call that returns a tier, the same for everybody (`AnswersAgree`), so the
   composition would show little the parts do not.
2. Pure reads: the registry's policy listing, the mounts of a workspace and
   their precedence, the construction-time checks of a schema.

Not modelled, and not planned: asynchronous exceptions outside a handler (any
line may raise `KeyboardInterrupt`; the code makes no promise about it), the
wall clock behind `started_at`, formatting and wording, the constructors'
validation of what the application passes, the `jsonschema` and `httpx`
libraries, processes that leave their session, filesystems with hard links or
relative links.
