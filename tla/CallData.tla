------------------------------ MODULE CallData ------------------------------
(***************************************************************************)
(* What the data of one call goes through: its arguments are measured and  *)
(* validated; run_command gives its argv to the sandbox, which captures    *)
(* two streams of bytes; the tool renders them; the executor measures the  *)
(* time again, caps what the model gets and what the record holds.  The    *)
(* limits and caps on the way are each a component's own.                  *)
(***************************************************************************)
EXTENDS Text, Arguments

CONSTANTS
    None,         \* a timeout the context leaves to others
    Requests,     \* the calls that may be made
    Configured,   \* what the executor's default timeout may be set to
    ToolDefault,  \* DEFAULT_TIMEOUT_SECONDS, which the command tool uses
    MaxOutput,    \* max_output_bytes, of each stream
    MaxContent,   \* max_content_bytes
    MaxSummary,   \* max_summary_bytes
    Streams,      \* what a command may write to a stream: sequences of bytes
    Texts,        \* what another tool's handler may return
    Codes,        \* exit codes
    MaxDelay      \* bound: the time a step may take beyond what it measures

\* Caps are at least 256 bytes, so that a label has its room in each of them,
\* whatever the text it is about; and what a cap leaves for the text is a number
\* for whose figures the headroom was left.
ASSUME CallDataAssumption ==
    /\ MaxOutput \in Nat /\ MaxContent \in Nat /\ MaxSummary \in Nat
    /\ \A cap \in {MaxOutput, MaxContent, MaxSummary} :
          /\ Budget(6 * (MaxOutput + 1), cap) > 0
          /\ \A text \in Texts : Budget(Size(text), cap) > 0
          /\ Budget(0, cap) < Power[Headroom + 1]
    /\ Texts \subseteq Seq(Characters) /\ Streams \subseteq Seq(Bytes)
    /\ \A r \in Requests :
          /\ r.tool \in {"run_command", "other"} /\ r.launchable \in BOOLEAN
          /\ r.timeout \in Nat \cup {None} /\ IsArguments(r.args)
          /\ r.redact \in BOOLEAN /\ r.oversize \in BOOLEAN
    /\ Configured \cup {ToolDefault, MaxDelay} \subseteq Nat

VARIABLES
    pc,          \* where the call stands
    request,     \* the tool, its arguments, the context's timeout; whether the
                 \* tool's spec redacts arguments, and whether these are longer
                 \* than max_args_json_bytes when rendered
    configured,  \* the executor's default_timeout_seconds
    elapsed,     \* the time since the call was made
    result,      \* the SubprocessResult
    output,      \* what the handler returned
    answer,      \* the ToolResult
    record,      \* the ToolCallRecord
    wrote        \* history: what the handler had to say

vars == <<pc, request, configured, elapsed, result, output, answer, record,
          wrote>>

NoResult == [code |-> 0, stdout |-> <<>>, stderr |-> <<>>,
             timed_out |-> FALSE, truncated |-> FALSE, launched |-> FALSE]
NoOutput == [status |-> "none", reason |-> "none", text |-> <<>>]
NoAnswer == [status |-> "none", reason |-> "none", text |-> <<>>]
NoRecord == [status |-> "none", text |-> <<>>, args_json |-> {},
             args_sha256 |-> {}]

Init ==
    /\ pc = "check"
    /\ request \in Requests
    /\ configured \in Configured
    /\ elapsed = 0
    /\ result = NoResult
    /\ output = NoOutput
    /\ answer = NoAnswer
    /\ record = NoRecord
    /\ wrote = <<>>

\* A step takes its time.
Takes(n) == \E delay \in 0 .. MaxDelay : elapsed' = elapsed + n + delay

-----------------------------------------------------------------------------
(* The end of a call.                                                      *)

Sentence(reason) == <<<<"sentence", reason>>>>

\* What stands in the record for the arguments: nothing when the tool has them
\* redacted, their size when they are too long, and else their projection, with
\* the tags that are in it.
ArgsJson(r) ==
    IF r.redact THEN {"redacted"}
    ELSE IF r.oversize THEN {"oversize"}
    ELSE json_sanitize(r.args)

\* The model's text and the record's are capped each for itself.  The arguments
\* are recorded, and their projection digested, whether accepted or not.
Finish(status, reason, text) ==
    /\ answer' = [status |-> status, reason |-> reason,
                  text |-> truncate_text(text, MaxContent)]
    /\ record' = [status |-> status, text |-> truncate_text(text, MaxSummary),
                  args_json |-> ArgsJson(request),
                  args_sha256 |-> json_sanitize(request.args)]
    /\ pc' = "done"

-----------------------------------------------------------------------------
(* Validation of the arguments.                                            *)

\* The verdict of jsonschema: run_command's arguments are one array of at
\* least one string; the other tool's schema admits any object.
SchemaAdmits(r) ==
    \/ r.tool = "other"
    \/ /\ r.tool = "run_command"
       /\ Len(r.args["args"]) = 1
       /\ LET argv == r.args["args"][1]
          IN  /\ KindOf(argv) = "array" /\ r.args[argv] # <<>>
              /\ \A item \in ToSet(r.args[argv]) : KindOf(item) = "string"

validates(r) == describe_shape(r.args) = "none" /\ SchemaAdmits(r)

CheckSchema ==
    /\ pc = "check"
    /\ \/ ~validates(request) /\ Finish("refused", "args_invalid",
                                        Sentence("args_invalid"))
       \/ validates(request) /\ pc' = "handle" /\ UNCHANGED <<answer, record>>
    /\ Takes(0)
    /\ UNCHANGED <<request, configured, result, output, wrote>>

(* The handlers that run no command.                                       *)

\* A handler that raises has failed, however long it took: the limit is for what
\* comes back.
Raised ==
    /\ Finish("failed", "handler_error", Sentence("raised"))
    /\ Takes(0)
    /\ UNCHANGED <<request, configured, result, output, wrote>>

OtherReturns ==
    /\ \E text \in Texts :
          /\ output' = [status |-> "ok", reason |-> "none", text |-> text]
          /\ wrote' = text
    /\ Takes(0)
    /\ pc' = "judge"
    /\ UNCHANGED <<request, configured, result, answer, record>>

\* A handler may say no for reasons of its own, with any status but OK; what is
\* no ToolOutput counts as failed.
OtherRefuses ==
    /\ \E status \in {"refused", "failed", "timeout"} :
          output' = [status |-> status, reason |-> "own",
                     text |-> Sentence("own")]
    /\ Takes(0)
    /\ pc' = "judge"
    /\ UNCHANGED <<request, configured, result, answer, record, wrote>>

OtherHandler ==
    /\ pc = "handle" /\ request.tool = "other"
    /\ OtherReturns \/ OtherRefuses \/ Raised

-----------------------------------------------------------------------------
(* run_isolated, for the command tool.                                     *)

\* The limit the command tool gives the sandbox.
CommandLimit ==
    IF request.timeout = None THEN ToolDefault ELSE request.timeout

decode(raw) == truncate_text(Decoded(raw), MaxOutput)

\* No tier, no write root, or a runtime that can no longer be launched: whatever
\* is not the model's fault is raised, before anything runs.
CannotRun ==
    /\ pc = "handle" /\ request.tool = "run_command"
    /\ Raised

\* An argv the launcher would not take is answered like a command that could
\* not be started; nothing is launched.
RefuseArgv ==
    /\ pc = "handle" /\ request.tool = "run_command" /\ ~request.launchable
    /\ result' = [code |-> 127, stdout |-> <<>>, stderr |-> <<<<"refused">>>>,
                  timed_out |-> FALSE, truncated |-> FALSE, launched |-> FALSE]
    /\ Takes(0)
    /\ pc' = "render"
    /\ UNCHANGED <<request, configured, output, answer, record, wrote>>

\* The command is launched; it has this to say, if it comes to it.
Launching(stdout, stderr) ==
    /\ pc = "handle" /\ request.tool = "run_command" /\ request.launchable
    /\ wrote' = <<stdout, stderr>>
    /\ pc' = "render"
    /\ UNCHANGED <<request, configured, output, answer, record>>

Captured(code, stdout, stderr, timed_out, truncated) ==
    result' = [code |-> code, stdout |-> decode(stdout),
               stderr |-> decode(stderr), timed_out |-> timed_out,
               truncated |-> truncated, launched |-> TRUE]

\* What was read of a stream when the other was stopped.
Reads(raw) == {SubSeq(raw, 1, n) : n \in 0 .. Min({Len(raw), MaxOutput})}

\* Both streams end within the cap, and the command within its limit.
Finishes(stdout, stderr) ==
    /\ Launching(stdout, stderr)
    /\ Len(stdout) <= MaxOutput /\ Len(stderr) <= MaxOutput
    /\ \E code \in Codes : Captured(code, stdout, stderr, FALSE, FALSE)
    /\ \E took \in 0 .. CommandLimit : Takes(took)

\* A stream is read to one byte past the cap; the command is killed.
Floods(stdout, stderr) ==
    /\ Launching(stdout, stderr)
    /\ \E code \in Codes :
          \/ /\ Len(stdout) > MaxOutput
             /\ \E part \in Reads(stderr) :
                   Captured(code, SubSeq(stdout, 1, MaxOutput + 1), part,
                            FALSE, TRUE)
          \/ /\ Len(stderr) > MaxOutput
             /\ \E part \in Reads(stdout) :
                   Captured(code, part, SubSeq(stderr, 1, MaxOutput + 1),
                            FALSE, TRUE)
    /\ \E took \in 0 .. CommandLimit : Takes(took)

\* The command is killed at its limit, or after it.
Expires(stdout, stderr) ==
    /\ Launching(stdout, stderr)
    /\ \E code \in Codes, out \in Reads(stdout), err \in Reads(stderr) :
          Captured(code, out, err, TRUE, FALSE)
    /\ Takes(CommandLimit)

-----------------------------------------------------------------------------
(* What the command tool makes of it.                                      *)

\* Mutant: a command that was killed did not finish in time.
ByExitCode(r) == r.code = -9

TimedOut(r) == r.timed_out

\* In band: the sandbox's own prefix at the start of stderr.
Unlaunchable(r) ==
    r.code = 127 /\ r.stderr # <<>> /\ r.stderr[1] = <<"refused">>

\* Mutant: the header does not tell a truncated output.
SilentHeader(truncated) == <<<<"exit code">>>>

Header(truncated) ==
    <<<<"exit code">>>> \o (IF truncated THEN <<<<"TRUNCATED">>>> ELSE <<>>)

Rendered(r) ==
    Header(r.truncated) \o r.stdout \o <<<<"stderr">>>> \o r.stderr

Render ==
    /\ pc = "render"
    /\ output' = IF TimedOut(result)
                 THEN [status |-> "timeout", reason |-> "timeout",
                       text |-> Sentence("killed")]
                 ELSE IF Unlaunchable(result)
                 THEN [status |-> "refused", reason |-> "args_invalid",
                       text |-> Sentence("argv")]
                 ELSE [status |-> "ok", reason |-> "none",
                       text |-> Rendered(result)]
    /\ pc' = "judge"
    /\ UNCHANGED <<request, configured, elapsed, result, answer, record, wrote>>

-----------------------------------------------------------------------------
(* The executor's verdict.                                                 *)

\* The limit the executor measures the call by.
CallLimit == IF request.timeout = None THEN configured ELSE request.timeout

\* A call that took too long is a timeout whatever its handler returned, output
\* or refusal; what a handler raised does not come here.
Judge ==
    /\ pc = "judge"
    /\ \/ elapsed > CallLimit /\ Finish("timeout", "timeout", Sentence("late"))
       \/ /\ elapsed <= CallLimit
          /\ Finish(output.status, output.reason, output.text)
    /\ UNCHANGED <<request, configured, elapsed, result, output, wrote>>

-----------------------------------------------------------------------------
run_isolated ==
    \/ CannotRun
    \/ RefuseArgv
    \/ \E stdout, stderr \in Streams :
          \/ Finishes(stdout, stderr)
          \/ Floods(stdout, stderr)
          \/ Expires(stdout, stderr)

Next == CheckSchema \/ OtherHandler \/ run_isolated \/ Render \/ Judge

Spec == Init /\ [][Next]_vars

-----------------------------------------------------------------------------
(* Properties.                                                             *)

\* All the handler had to say, had there been no cap.
AllSaid ==
    IF request.tool = "other" THEN clean_text(wrote)
    ELSE Header(FALSE) \o clean_text(Decoded(wrote[1])) \o <<<<"stderr">>>>
         \o clean_text(Decoded(wrote[2]))

SaysSo(text) == <<"TRUNCATED">> \in ToSet(text) \/ Labelled(text)

\* The model's text and the record's fit their caps, label included; the text
\* of a call that succeeded is all its handler had to say, or says that it is
\* not: in the label of whoever cut it last, or in the line that tells that the
\* capture stopped, which is all there is when the bytes past the cap were
\* cleaned away.
FitsOrSaysSo ==
    pc = "done" =>
        /\ Size(answer.text) <= MaxContent /\ Size(record.text) <= MaxSummary
        /\ answer.status = "ok" =>
              \A text \in {answer.text, record.text} :
                  text = AllSaid \/ SaysSo(text)

\* A command that was killed for its time is answered and recorded as a timeout,
\* and nothing it had written by then is shown, whichever of the two limits was
\* the shorter and however the command exited.  No other call of run_command is a
\* timeout, but for one that the executor found to be late.
KilledIsTimeout ==
    pc = "done" /\ request.tool = "run_command" =>
        /\ result.timed_out =>
              /\ answer.status = "timeout" /\ record.status = "timeout"
              /\ {answer.text, record.text}
                    \subseteq {Sentence("killed"), Sentence("late")}
        /\ answer.status = "timeout" => result.timed_out \/ elapsed > CallLimit

HoldsSet(args) == \E node \in DOMAIN args : KindOf(node) = "set"

\* Nothing is cut from accepted arguments, although validation and record measure
\* each for itself: a tag in their projection, or in the JSON that is kept when it
\* is neither redacted nor too long, is the kind of a leaf that lies in them, never
\* the depth, the number of the values or a cycle.  Sets are the exception:
\* the validation counts one as a value, whatever it holds.
AcceptedNotCut ==
    pc = "done" /\ validates(request) /\ ~HoldsSet(request.args) =>
        LET kinds == {KindOf(node) : node \in DOMAIN request.args}
        IN  /\ record.args_sha256 \subseteq kinds
            /\ request.redact \/ request.oversize
                  \/ record.args_json \subseteq kinds

(* A claim of the documentation that the code does not keep.               *)

\* types.py, ToolContext.timeout_seconds: "The handler's limit. None means the
\* executor's configured default": no command of a call without a limit of its
\* own is stopped before that.
DefaultIsTheLimit ==
    pc = "done" /\ request.timeout = None /\ result.timed_out
        => elapsed >= configured
=============================================================================
