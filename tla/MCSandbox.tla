------------------------------ MODULE MCSandbox ------------------------------
(***************************************************************************)
(* One container runtime and bwrap, with a few calls of each kind.         *)
(***************************************************************************)
EXTENDS Sandbox

OneRuntime == <<"podman">>

AskTier == [op |-> "isolation_tier", faults |-> {}]
RunWith(faults) == [op |-> "run_isolated", faults |-> faults]

\* A question, a sound command, and commands with something wrong with them.
MCRequests ==
    {AskTier, RunWith({}), RunWith({"colon"}), RunWith({"caller", "argv"}),
     RunWith({"workspace"})}

\* A question and a sound command.
FewRequests == {AskTier, RunWith({})}
=============================================================================
