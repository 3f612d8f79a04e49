----------------------------- MODULE MCExecutor -----------------------------
(***************************************************************************)
(* A small deployment for Executor: a copy tool with a path to read and    *)
(* one to write, and a run tool that needs the network and isolation.      *)
(* "secret" is registrable but not allowlisted; "ghost" is allowlisted but *)
(* not registrable.                                                        *)
(***************************************************************************)
EXTENDS ExecutorRefinement, TLC

MCArgNames == {"src", "dst"}

Reads(a)  == [arg |-> a, access |-> "read"]
Writes(a) == [arg |-> a, access |-> "write"]

Tool(egress, isolation, paths) ==
    [egress |-> egress, requires_isolation |-> isolation, path_args |-> paths]

CopyTool == Tool("none", FALSE, <<Reads("src"), Writes("dst")>>)
RunTool  == Tool("network", TRUE, <<Writes("dst")>>)

MCNames == {"copy", "run", "secret", "ghost"}
MCToolSpecs == [n \in {"copy", "run", "secret"} |->
                   IF n = "run" THEN RunTool ELSE CopyTool]
MCAllowlist == {"copy", "run", "ghost"}

Request(name, present, valid, approvals, egress, timeout) ==
    [name |-> name, args |-> present, valid |-> valid,
     narrowed |-> approvals # MCNames, approved |-> approvals,
     max_egress |-> egress, timeout |-> timeout]

\* Every combination of faults a call can have; those that may use the
\* network also have a limit of their own.
AllRequests ==
    {Request(n, p, v, a, e, IF e = "network" THEN 1 ELSE 0) :
        n \in MCNames, p \in SUBSET MCArgNames, v \in BOOLEAN,
        a \in {MCNames, {"copy"}}, e \in {"none", "network"}}

\* One call of each shape, for several calls at once.
FewRequests ==
    {Request("copy", {"dst"}, TRUE, MCNames, "network", 1),
     Request("run", {"dst"}, TRUE, {"run"}, "network", 0)}

\* Calls that take the long way, for the runs about single claims.
TimedRequests ==
    {Request("run", {}, TRUE, MCNames, "network", 0),
     Request("copy", {"dst"}, TRUE, MCNames, "none", 1)}

CallSymmetry == Permutations(Calls)
=============================================================================
