----------------------------- MODULE Containment -----------------------------
(***************************************************************************)
(* The path half of the sandbox: a candidate is resolved against a file    *)
(* tree, every link in it followed, and only then compared with the roots. *)
(* The kernel's own lookups of a path, by which the file tools later use   *)
(* what was resolved, are here as well: they walk the same tree.           *)
(*                                                                         *)
(* A path is the sequence of its components below "/".  A tree is a        *)
(* function from the paths that exist to their nodes.  Links are absolute. *)
(***************************************************************************)
EXTENDS Naturals, SequencesExt

CONSTANTS
    WriteRoot,   \* SandboxPaths.write_root
    ReadRoots,   \* SandboxPaths.read_roots
    CycleRaises, \* whether Path.resolve raises for a cycle (until 3.12)
    MaxSteps     \* bound: more steps than a walk without a cycle takes

Directory      == [kind |-> "dir", content |-> <<>>, target |-> <<>>]
File(content)  == [kind |-> "file", content |-> content, target |-> <<>>]
Link(target)   == [kind |-> "link", content |-> <<>>, target |-> target]

Path == Seq(STRING)

\* Only files have content.
IsNode(node, Contents) ==
    /\ node \in [kind : {"dir", "file", "link"}, content : Contents,
                 target : Path]
    /\ node.kind # "file" => node.content = <<>>

\* Whatever exists lies in a directory, up to "/".
IsTree(tree, Contents) ==
    /\ <<>> \in DOMAIN tree
    /\ \A p \in DOMAIN tree :
          /\ p \in Path /\ IsNode(tree[p], Contents)
          /\ p # <<>> =>
                Front(p) \in DOMAIN tree /\ tree[Front(p)].kind = "dir"

\* The roots are absolute and none contains another.
ASSUME RootsAssumption ==
    LET roots == <<WriteRoot>> \o ReadRoots IN
    /\ WriteRoot \in Path /\ ReadRoots \in Seq(Path)
    /\ CycleRaises \in BOOLEAN /\ MaxSteps \in Nat
    /\ \A i, j \in DOMAIN roots : IsPrefix(roots[i], roots[j]) => i = j

-----------------------------------------------------------------------------
(* Walking a path, as os.path.realpath and the kernel do.                  *)

IsLinkAt(tree, p) == p \in DOMAIN tree /\ tree[p].kind = "link"

\* One component more: ".." goes up and stays at the top, a link is replaced by its target, and
\* anything else is gone down to, noting whether it exists.
OneComponent(tree, walk) ==
    LET name  == Head(walk.rest)
        here  == Append(walk.done, name)
        later == Tail(walk.rest)
    IN  IF name = ".."
        THEN [done |-> Front(walk.done), rest |-> later, missing |-> walk.missing]
        ELSE IF IsLinkAt(tree, here)
        THEN [done |-> <<>>, rest |-> tree[here].target \o later,
              missing |-> walk.missing]
        ELSE [done |-> here, rest |-> later,
              missing |-> walk.missing \/ here \notin DOMAIN tree]

WalkStep(tree, walk) ==
    IF walk.rest = <<>> THEN walk ELSE OneComponent(tree, walk)

\* How far a walk has come after each number of steps, and where it ends: one
\* that has not arrived after MaxSteps steps is in a cycle of links.
WalkFrom(tree, p) ==
    LET walked[n \in 0 .. MaxSteps] ==
          IF n = 0 THEN [done |-> <<>>, rest |-> p, missing |-> FALSE]
          ELSE WalkStep(tree, walked[n - 1])
    IN  walked

Walk(tree, p) == WalkFrom(tree, p)[MaxSteps]

InCycle(walk) == walk.rest # <<>>

-----------------------------------------------------------------------------
(* fully_resolve and _resolve_within.                                      *)

\* The strict attempt settles a cycle, unless something is missing before it:
\* then the lenient one follows, which raises for a cycle or gives up on it.
Resolves(walk) == InCycle(walk) => walk.missing /\ ~CycleRaises

\* os.path.abspath: ".." taken back, no link looked at.
Lexical(p) == Walk([q \in {} |-> Directory], p).done

\* What a walk comes to; what it gave up on is kept as it is written.  At which link
\* of the cycle that is depends here on MaxSteps, and in the code on the link that
\* realpath meets twice first: calls with such a path are noted "cycle" by the file
\* tools, and no property tells the links apart.
Arrived(walk) ==
    IF InCycle(walk) THEN Lexical(walk.done \o walk.rest) ELSE walk.done

Inside(root, p) == IsPrefix(root, p)

\* What those of the roots that resolve themselves come to.
RealRoots(tree, roots) ==
    {Arrived(Walk(tree, roots[i])) :
        i \in {j \in DOMAIN roots : Resolves(Walk(tree, roots[j]))}}

\* A candidate: `clean` is what _clean_candidate found of it.  A relative one
\* starts at the write root, never at the process's working directory.
Absolute(candidate) ==
    IF candidate.absolute THEN candidate.parts ELSE WriteRoot \o candidate.parts

\* The resolved path, as a set: empty when PathEscape is raised.
ResolveWithin(tree, candidate, roots) ==
    LET absolute == Absolute(candidate)
        walk     == Walk(tree, absolute)
    IN  {p \in {Arrived(walk)} : /\ candidate.clean
                                 /\ Resolves(walk)
                                 /\ \E root \in RealRoots(tree, roots) :
                                       Inside(root, p)}

ReadableRoots == <<WriteRoot>> \o ReadRoots

resolve_read(tree, candidate) == ResolveWithin(tree, candidate, ReadableRoots)

resolve_write(tree, candidate) == ResolveWithin(tree, candidate, <<WriteRoot>>)

-----------------------------------------------------------------------------
(* What the kernel makes of a path when it is used.                        *)

\* stat: the node a path leads to, links followed, as a set of at most one.
Reached(tree, p) ==
    LET walk == Walk(tree, p) IN
    {q \in {walk.done} : ~InCycle(walk) /\ ~walk.missing}

Exists(tree, p) == Reached(tree, p) # {}
IsDir(tree, p)  == \E q \in Reached(tree, p) : tree[q].kind = "dir"
IsFile(tree, p) == \E q \in Reached(tree, p) : tree[q].kind = "file"

\* lstat and mkdir: the entry a path names, its parent followed, it not.
Entry(tree, p) ==
    {Append(q, Last(p)) : q \in {d \in Reached(tree, Front(p)) :
                                    tree[d].kind = "dir"}}

IsSymlink(tree, p) == \E q \in Entry(tree, p) : IsLinkAt(tree, q)

\* open for writing: an existing file, or one to be made in an existing
\* directory, where a link that dangles may lead.
Writable(tree, p) ==
    LET walk == Walk(tree, p) IN
    {q \in {walk.done} \ {<<>>} :
        /\ ~InCycle(walk)
        /\ Front(q) \in DOMAIN tree /\ tree[Front(q)].kind = "dir"
        /\ q \in DOMAIN tree => tree[q].kind = "file"}

\* p is q, or lies below it.
AtOrBelow(p, q) == p = q \/ IsStrictPrefix(q, p)

\* The tree after a node is put at p, where there is nothing to lie below it,
\* and after p is removed with everything below it.
Put(tree, p, node) ==
    [q \in DOMAIN tree \cup {p} |-> IF q = p THEN node ELSE tree[q]]

Removed(tree, p) ==
    [q \in {q \in DOMAIN tree : ~AtOrBelow(q, p)} |-> tree[q]]
=============================================================================
