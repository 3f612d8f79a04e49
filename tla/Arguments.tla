----------------------------- MODULE Arguments -----------------------------
(***************************************************************************)
(* A call's arguments: how they are measured before they are validated,    *)
(* and what the record keeps of them.  Both walks have limits of their     *)
(* own, and neither knows of the other's.                                  *)
(*                                                                         *)
(* Arguments are a graph of containers and leaves: a function from nodes   *)
(* to the nodes below them, in order.  A container may hold another twice, *)
(* or itself.  What a node is makes a difference to both walks: the first  *)
(* does not look into sets, the second does, and it keeps the shape of     *)
(* some leaves only.                                                       *)
(***************************************************************************)
EXTENDS Integers, SequencesExt

CONSTANTS
    MaxArgsDepth,      \* MAX_ARGS_DEPTH
    MaxArgsNodes,      \* MAX_ARGS_NODES
    MaxSanitizeDepth,  \* MAX_SANITIZE_DEPTH
    MaxSanitizeNodes,  \* MAX_SANITIZE_NODES
    KindOf(_)          \* what kind of value a node is

ASSUME ArgumentsAssumption ==
    /\ {MaxArgsDepth, MaxArgsNodes, MaxSanitizeDepth, MaxSanitizeNodes}
         \subseteq Nat
    /\ MaxArgsDepth <= MaxSanitizeDepth /\ MaxArgsNodes <= MaxSanitizeNodes

\* Objects and arrays; sets, which no JSON holds but a client's arguments may;
\* strings and what else JSON has; floats that are not finite; bytes; the rest.
Kinds == {"object", "array", "set", "string", "scalar", "nonfinite", "bytes",
          "other"}

\* A call's arguments are an object, and whatever lies in them is theirs.
IsArguments(args) ==
    /\ "args" \in DOMAIN args /\ args \in [DOMAIN args -> Seq(DOMAIN args)]
    /\ KindOf("args") = "object"
    /\ \A node \in DOMAIN args :
          /\ KindOf(node) \in Kinds
          /\ KindOf(node) \in {"object", "array", "set"} \/ args[node] = <<>>

\* Mutant: one value too many is let through.
OneTooMany(nodes) == nodes > MaxArgsNodes + 1

TooMany(nodes) == nodes > MaxArgsNodes

\* One turn of _describe_shape's loop: the last value of its stack is counted,
\* and what it holds is put on the stack, unless it is a set: a set counts as one
\* value.  "wrong" is what ended the walk.
ShapeStep(args, walk) ==
    LET node  == Last(walk.stack)[1]
        depth == Last(walk.stack)[2]
        held  == IF KindOf(node) = "set" THEN <<>>
                 ELSE [i \in DOMAIN args[node] |-> <<args[node][i], depth + 1>>]
        nodes == walk.nodes + 1
    IN  IF walk.stack = <<>> \/ walk.wrong # "none" THEN walk
        ELSE IF TooMany(nodes) THEN
             [stack |-> walk.stack, nodes |-> nodes, wrong |-> "too_many"]
        ELSE IF depth > MaxArgsDepth THEN
             [stack |-> walk.stack, nodes |-> nodes, wrong |-> "too_deep"]
        ELSE [stack |-> Front(walk.stack) \o held, nodes |-> nodes,
              wrong |-> "none"]

ShapeWalk(args) ==
    LET walked[n \in 0 .. MaxArgsNodes + 1] ==
          IF n = 0 THEN [stack |-> <<<<"args", 0>>>>, nodes |-> 0, wrong |-> "none"]
          ELSE ShapeStep(args, walked[n - 1])
    IN  walked

\* What is wrong with the arguments, "none" if nothing is.
describe_shape(args) == ShapeWalk(args)[MaxArgsNodes + 1].wrong

\* One call of _sanitize: "calls" are those still to be made, in their order, each
\* with what its value lies in; "tags" are what stands in the projection for what
\* was left out, and the kind of a leaf that was.  Without budget, every call that
\* is left gives the same tag.  Sets are walked.  What lies in itself is a container.
SanitizeStep(args, walk) ==
    LET node  == Head(walk.calls)[1]
        depth == Head(walk.calls)[2]
        seen  == Head(walk.calls)[3]
        held  == [i \in DOMAIN args[node] |->
                     <<args[node][i], depth + 1, seen \cup {node}>>]
        Tagged(tag) == [calls |-> Tail(walk.calls), budget |-> walk.budget - 1,
                        tags |-> walk.tags \cup {tag}]
    IN  IF walk.calls = <<>> THEN walk
        ELSE IF walk.budget = 0 THEN
             [calls |-> <<>>, budget |-> 0, tags |-> walk.tags \cup {"nodes"}]
        ELSE IF depth > MaxSanitizeDepth THEN Tagged("depth")
        ELSE IF KindOf(node) \in {"nonfinite", "bytes"} THEN Tagged(KindOf(node))
        ELSE IF node \in seen THEN Tagged("cycle")
        ELSE IF KindOf(node) = "other" THEN Tagged("other")
        ELSE [calls |-> held \o Tail(walk.calls), budget |-> walk.budget - 1,
              tags |-> walk.tags]

SanitizeWalk(args) ==
    LET walked[n \in 0 .. MaxSanitizeNodes + 1] ==
          IF n = 0 THEN [calls |-> <<<<"args", 0, {}>>>>,
                         budget |-> MaxSanitizeNodes, tags |-> {}]
          ELSE SanitizeStep(args, walked[n - 1])
    IN  walked

\* The tags of the projection.
json_sanitize(args) == SanitizeWalk(args)[MaxSanitizeNodes + 1].tags
=============================================================================
