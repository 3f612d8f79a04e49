------------------------- MODULE ExecutorRefinement -------------------------
(***************************************************************************)
(* The executor keeps the promise of ToolCall.                             *)
(***************************************************************************)
EXTENDS Executor

\* A call is open while it climbs the ladder, and settled from the step that
\* decides it: the refusing check, the measurement, or the handler's raise.
Phase(c) ==
    CASE pc[c] = "idle" -> "new"
      [] pc[c] \in {"running", "measure"} -> "running"
      [] pc[c] \in {"finish", "append"} -> "settled"
      [] pc[c] = "done" -> "left"
      [] OTHER -> "open"

Verdict(c) ==
    IF Phase(c) \in {"settled", "left"}
    THEN [status |-> refusal[c].status, reason |-> refusal[c].reason]
    ELSE [status |-> "none", reason |-> "none"]

Promise == INSTANCE ToolCall WITH
    phase   <- [c \in Calls |-> Phase(c)],
    verdict <- [c \in Calls |-> Verdict(c)],
    journal <- [i \in DOMAIN store |->
                  [call |-> store[i].call, status |-> store[i].status,
                   reason |-> store[i].reason]]

\* Every behaviour of the executor is one the promise allows: however calls
\* interleave with each other and with late registrations, each is judged as
\* if at once, settles once, and is journalled with the verdict it settled on.
KeepsPromise == Promise!Spec
=============================================================================
