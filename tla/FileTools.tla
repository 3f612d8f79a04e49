------------------------------ MODULE FileTools ------------------------------
(***************************************************************************)
(* read_file, write_file and list_dir, called by several threads on one    *)
(* workspace that other processes rearrange as well.  The executor         *)
(* resolves a call's path; the handler uses the resolved path later, one   *)
(* system call at a time, and each of them walks the tree as it then is.   *)
(*                                                                         *)
(* A file's content is a sequence of blocks, each standing for whoever     *)
(* wrote it; a block is what one write system call may carry.  What the    *)
(* filesystem refuses is one outcome, "os_error", whatever its reason.     *)
(***************************************************************************)
EXTENDS Containment, FiniteSets

CONSTANTS
    Calls,     \* the calls, each made once, by a thread of its own
    Trees,     \* the workspaces a run may start from
    Requests,  \* what a call may ask for
    Swaps,     \* what another process may do: put a node at a path, or none
    MaxSwaps,  \* bound: how often it does
    ReadCap    \* read_file's max_bytes, in blocks

\* write_file's content has `blocks` blocks; one with a lone surrogate cannot
\* be encoded.
RequestType ==
    [op : {"read_file", "write_file", "list_dir"},
     path : [absolute : BOOLEAN, clean : BOOLEAN, parts : Seq(STRING)],
     blocks : Nat, encodable : BOOLEAN]

Content == Seq(Calls \cup {"old", "binary", "hole"})

ASSUME FilesAssumption ==
    /\ Requests # {} /\ Requests \subseteq RequestType
    /\ \A t \in Trees : IsTree(t, Content)
    /\ \A s \in Swaps : /\ s.path \in Path \ {<<>>} /\ s.gone \in BOOLEAN
                        /\ IsNode(s.node, Content)
    /\ MaxSwaps \in Nat /\ ReadCap \in Nat
    /\ Calls \cap {"old", "binary", "hole"} = {}

VARIABLES
    tree,      \* the file system
    swaps,     \* how often other processes changed it
    pc,        \* where each call stands
    request,   \* what each call asks for
    target,    \* the resolved path the handler was given
    level,     \* how many components of it _make_parents has looked at
    fd,        \* the path of the file a write has open, <<>> if it is gone
    put,       \* how many blocks it has written
    text,      \* what a read returns
    outcome,   \* how each call ended
    touched,   \* history: the real paths each call read or changed
    noted,     \* history: what happened to each call on its way
    within     \* history: the real roots each call was compared with

handler == <<request, target, level, fd, put, text, outcome>>
history == <<touched, noted, within>>
vars == <<tree, swaps, pc, handler, history>>

Steps == {"idle", "handle", "stat", "read", "entries", "walk", "exists",
          "isdir", "mkdir", "target", "open", "write", "done"}
Outcomes == {"none", "ok", "path_escape", "not_a_regular_file",
             "file_not_found", "too_large", "not_utf8", "os_error",
             "handler_error"}

\* What a call may be noted for: it had an obstacle when it was resolved;
\* something on its path was swapped; swapped after the call had looked at
\* it; its path led into a cycle of links; the write root is no longer what it
\* was resolved to; its open file was changed by somebody else; its size was
\* changed between the look at it and the read; the directory it is about to
\* make was made by another call; the operating system failed it.
Notes == {"obstacle", "disturbed", "late", "cycle", "moved", "mixed",
          "overtaken", "resized", "failed"}

Init ==
    /\ tree \in Trees
    /\ swaps = 0
    /\ pc = [c \in Calls |-> "idle"]
    /\ request = [c \in Calls |-> CHOOSE r \in Requests : TRUE]
    /\ target = [c \in Calls |-> <<>>]
    /\ level = [c \in Calls |-> 0]
    /\ fd = [c \in Calls |-> <<>>]
    /\ put = [c \in Calls |-> 0]
    /\ text = [c \in Calls |-> <<>>]
    /\ outcome = [c \in Calls |-> "none"]
    /\ touched = [c \in Calls |-> {}]
    /\ noted = [c \in Calls |-> {}]
    /\ within = [c \in Calls |-> {}]

Goto(c, step) == pc' = [pc EXCEPT ![c] = step]

\* The handler returns, or raises, without having done anything more.
End(c, how) ==
    /\ Goto(c, "done")
    /\ outcome' = [outcome EXCEPT ![c] = how]
    /\ UNCHANGED <<tree, swaps, request, target, level, fd, put, text, history>>

\* The call goes on to its next look at the tree.
GoOn(c, step) ==
    /\ Goto(c, step)
    /\ UNCHANGED <<tree, swaps, handler, history>>

Noticed(note, happens) == IF happens THEN {note} ELSE {}

\* st_size of what a path leads to, as a set of at most one: a directory's
\* counts as none.
Sizes(t, p) == {Len(t[q].content) : q \in Reached(t, p)}

\* In a step: what a read is about to load is no longer what it measured.
Resized(c) ==
    pc[c] = "read" /\ Sizes(tree', target[c]) # Sizes(tree, target[c])

Touch(c, q) == touched' = [touched EXCEPT ![c] = @ \cup {q}]

Started(c) == pc[c] # "idle"
Writes(c)  == request[c].op = "write_file"

-----------------------------------------------------------------------------
(* Other processes.                                                        *)

\* How much of its path a call has looked at for the last time: a write looks
\* at each component again.
Checked(c) == IF Writes(c) THEN level[c] ELSE Len(target[c])

\* A node is put in an existing directory, or removed.  A file that was open
\* there is no longer in the tree.
Swap(s) ==
    /\ swaps < MaxSwaps
    /\ swaps' = swaps + 1
    /\ \E q \in Entry(tree, s.path) :
          /\ tree' = IF s.gone THEN Removed(tree, q)
                     ELSE Put(Removed(tree, q), q, s.node)
          /\ tree' # tree
          /\ fd' = [c \in Calls |->
                IF AtOrBelow(fd[c], q) THEN <<>> ELSE fd[c]]
          /\ noted' = [c \in Calls |-> noted[c] \cup
                Noticed("disturbed", Started(c) /\ AtOrBelow(target[c], q)) \cup
                Noticed("late", /\ Started(c) /\ AtOrBelow(target[c], q)
                                /\ Len(q) <= Checked(c)) \cup
                Noticed("mixed", AtOrBelow(fd[c], q)) \cup
                Noticed("resized", Resized(c))]
    /\ UNCHANGED <<pc, request, target, level, put, text, outcome, touched,
                   within>>

-----------------------------------------------------------------------------
(* The executor resolves the path argument and starts the handler.         *)

ResolvedPath(r) ==
    IF r.op = "write_file" THEN resolve_write(tree, r.path)
    ELSE resolve_read(tree, r.path)

RootsFor(r) ==
    RealRoots(tree, IF r.op = "write_file" THEN <<WriteRoot>> ELSE ReadableRoots)

\* For the history: the write root is there, and nothing on the path of a write
\* below it stands in its way.
Clear(p) ==
    /\ \A root \in RealRoots(tree, <<WriteRoot>>) : root \in DOMAIN tree /\ root # p
    /\ \A i \in 0 .. Len(p) - 1 :
          LET q == SubSeq(p, 1, i) IN q \in DOMAIN tree => tree[q].kind = "dir"
    /\ p \in DOMAIN tree => tree[p].kind = "file"

Resolve(c, r) ==
    /\ pc[c] = "idle"
    /\ request' = [request EXCEPT ![c] = r]
    /\ \/ /\ ResolvedPath(r) = {}
          /\ Goto(c, "done")
          /\ outcome' = [outcome EXCEPT ![c] = "path_escape"]
          /\ UNCHANGED <<target, noted, within>>
       \/ \E p \in ResolvedPath(r) :
          /\ target' = [target EXCEPT ![c] = p]
          /\ noted' = [noted EXCEPT ![c] = Noticed("obstacle", ~Clear(p)) \cup
                Noticed("cycle", InCycle(Walk(tree, Absolute(r.path))))]
          /\ within' = [within EXCEPT ![c] = RootsFor(r)]
          /\ Goto(c, "handle")
          /\ UNCHANGED outcome
    /\ UNCHANGED <<tree, swaps, level, fd, put, text, touched>>

-----------------------------------------------------------------------------
(* _ReadFile and _ListDir.                                                 *)

\* What is there is not what the tool handles, or nothing is.
WrongKind(c) ==
    IF Exists(tree, target[c]) THEN "not_a_regular_file" ELSE "file_not_found"

ReadIsFile(c) ==
    /\ pc[c] = "handle" /\ request[c].op = "read_file"
    /\ \/ IsFile(tree, target[c]) /\ GoOn(c, "stat")
       \/ ~IsFile(tree, target[c]) /\ End(c, WrongKind(c))

\* Mutant: one block too many passes the cap.
OneOver(size) == size > ReadCap + 1

OverReadCap(size) == size > ReadCap

ReadStat(c) ==
    /\ pc[c] = "stat"
    /\ \/ ~Exists(tree, target[c]) /\ End(c, "os_error")
       \/ \E size \in Sizes(tree, target[c]) :
          \/ OverReadCap(size) /\ End(c, "too_large")
          \/ ~OverReadCap(size) /\ GoOn(c, "read")

Decodes(content) == "binary" \notin ToSet(content)

\* read_bytes and the decoding of what it returned.
ReadBytes(c) ==
    /\ pc[c] = "read"
    /\ \/ ~IsFile(tree, target[c]) /\ End(c, "os_error")
       \/ \E q \in Reached(tree, target[c]) :
          /\ tree[q].kind = "file"
          /\ text' = [text EXCEPT ![c] = tree[q].content]
          /\ outcome' = [outcome EXCEPT ![c] =
                IF Decodes(tree[q].content) THEN "ok" ELSE "not_utf8"]
          /\ Touch(c, q)
          /\ Goto(c, "done")
          /\ UNCHANGED <<tree, swaps, request, target, level, fd, put, noted,
                         within>>

ListIsDir(c) ==
    /\ pc[c] = "handle" /\ request[c].op = "list_dir"
    /\ \/ IsDir(tree, target[c]) /\ GoOn(c, "entries")
       \/ ~IsDir(tree, target[c]) /\ End(c, WrongKind(c))

\* iterdir of what is there now; how the entries are rendered and capped is left out.
ListEntries(c) ==
    /\ pc[c] = "entries"
    /\ \/ ~IsDir(tree, target[c]) /\ End(c, "os_error")
       \/ \E q \in Reached(tree, target[c]) :
          /\ tree[q].kind = "dir"
          /\ Touch(c, q)
          /\ outcome' = [outcome EXCEPT ![c] = "ok"]
          /\ Goto(c, "done")
          /\ UNCHANGED <<tree, swaps, request, target, level, fd, put, text,
                         noted, within>>

-----------------------------------------------------------------------------
(* _WriteFile: _make_parents, then the target.                             *)

\* The component of its path a write is at.
Current(c) == SubSeq(target[c], 1, level[c])

\* The walk starts at the write root, resolved anew.  A target that is not below
\* it, such as the root itself, gets no parents, nor a look at them: what was
\* swapped since its resolution was swapped late, and so it was when the root
\* has become a cycle.  It is the same when the system fails the resolution,
\* whose errors are swallowed.
StartWrite(c, failed) ==
    /\ pc[c] = "handle" /\ Writes(c)
    /\ LET walk  == Walk(tree, WriteRoot)
           root  == Arrived(walk)
           below == /\ ~failed
                    /\ Resolves(walk) /\ Inside(root, Front(target[c]))
       IN  /\ level' = [level EXCEPT ![c] =
                          IF below THEN Len(root) ELSE Len(target[c])]
           /\ Goto(c, IF below THEN "walk" ELSE "target")
           /\ noted' = [noted EXCEPT ![c] = @ \cup
                 Noticed("late", "disturbed" \in @ /\ (InCycle(walk) \/ ~below))
                 \cup Noticed("moved", ~(Resolves(walk) /\ root \in within[c]))
                 \cup Noticed("failed", failed)]
           /\ within' = [within EXCEPT ![c] = @ \cup Noticed(root, below)]
    /\ UNCHANGED <<tree, swaps, request, target, fd, put, text, outcome, touched>>

\* Mutant: the last parent is taken to be there.
AllButLast(c) == level[c] + 2 >= Len(target[c])

ParentsDone(c) == level[c] + 1 >= Len(target[c])

\* Mutant: a component is not asked whether it is a link.
NeverLink(p) == FALSE

LinkAt(p) == IsSymlink(tree, p)

\* The next component must not be a link, whatever it points at.
WalkOn(c) ==
    /\ pc[c] = "walk"
    /\ ~ParentsDone(c)
    /\ LET next == SubSeq(target[c], 1, level[c] + 1) IN
       \/ LinkAt(next) /\ End(c, "path_escape")
       \/ /\ ~LinkAt(next)
          /\ level' = [level EXCEPT ![c] = @ + 1]
          /\ Goto(c, "exists")
          /\ UNCHANGED <<tree, swaps, request, target, fd, put, text, outcome,
                         history>>

WalkExists(c) ==
    /\ pc[c] = "exists"
    /\ GoOn(c, IF Exists(tree, Current(c)) THEN "isdir" ELSE "mkdir")

WalkIsDir(c) ==
    /\ pc[c] = "isdir"
    /\ \/ IsDir(tree, Current(c)) /\ GoOn(c, "walk")
       \/ ~IsDir(tree, Current(c)) /\ End(c, "not_a_regular_file")

\* mkdir fails when its parent is gone or when something is there by now (and
\* for other reasons: SystemFails).
WalkMkdir(c) ==
    /\ pc[c] = "mkdir"
    /\ \/ /\ Entry(tree, Current(c)) \subseteq DOMAIN tree
          /\ End(c, "os_error")
       \/ \E q \in Entry(tree, Current(c)) \ DOMAIN tree :
          /\ tree' = Put(tree, q, Directory)
          /\ Touch(c, q)
          /\ noted' = [e \in Calls |->
                noted[e] \cup
                Noticed("overtaken", pc[e] = "mkdir" /\ e # c /\ q = Current(e))
                \cup Noticed("disturbed", e # c /\ q = target[e])
                \cup Noticed("resized", Resized(e))]
          /\ Goto(c, "walk")
          /\ UNCHANGED <<swaps, handler, within>>

WalkDone(c) == pc[c] = "walk" /\ ParentsDone(c) /\ GoOn(c, "target")

CheckTarget(c) ==
    /\ pc[c] = "target"
    /\ \/ LinkAt(target[c]) /\ End(c, "path_escape")
       \/ /\ ~LinkAt(target[c])
          /\ level' = [level EXCEPT ![c] = Len(target[c])]
          /\ Goto(c, "open")
          /\ UNCHANGED <<tree, swaps, request, target, fd, put, text, outcome,
                         history>>

\* Others who have the file open, or for whom it now stands in the way.
NoteChange(c, q) ==
    noted' = [e \in Calls |->
        noted[e] \cup Noticed("mixed", e # c /\ fd[e] = q) \cup
        Noticed("disturbed", e # c /\ IsStrictPrefix(q, target[e])) \cup
        Noticed("resized", Resized(e))]

ContentAt(q) == IF q \in DOMAIN tree THEN tree[q].content ELSE <<>>

\* Mutant: the file is opened without being truncated.
KeepOld(q) == ContentAt(q)

\* What opening for writing leaves in the file.
Truncated(q) == <<>>

\* write_text opens the file for writing, which creates or truncates it, if what
\* is there lets it (and the system does: SystemFails).
Open(c) ==
    /\ pc[c] = "open"
    /\ \/ Writable(tree, target[c]) = {} /\ End(c, "os_error")
       \/ \E q \in Writable(tree, target[c]) :
          /\ tree' = Put(tree, q, File(Truncated(q)))
          /\ fd' = [fd EXCEPT ![c] = q]
          /\ Touch(c, q)
          /\ NoteChange(c, q)
          /\ Goto(c, "write")
          /\ UNCHANGED <<swaps, request, target, level, put, text, outcome,
                         within>>

\* The text is encoded once the file is open; UnicodeEncodeError is not an
\* OSError, so the handler raises.
EncodeFails(c) ==
    /\ pc[c] = "write" /\ put[c] = 0
    /\ ~request[c].encodable
    /\ End(c, "handler_error")

\* Mutant: one block is written after the last.
OneMore(c) == request[c].encodable /\ put[c] <= request[c].blocks

Unwritten(c) == request[c].encodable /\ put[c] < request[c].blocks

\* A block put where the writer stands in the file, over whatever is there.
Overwrite(content, n, block) ==
    [i \in 1 .. (IF n > Len(content) THEN n ELSE Len(content)) |->
        IF i = n THEN block
        ELSE IF i <= Len(content) THEN content[i] ELSE "hole"]

WriteBlock(c) ==
    /\ pc[c] = "write" /\ Unwritten(c)
    /\ put' = [put EXCEPT ![c] = @ + 1]
    /\ \/ fd[c] = <<>> /\ UNCHANGED <<tree, noted>>
       \/ /\ fd[c] # <<>>
          /\ tree' = Put(tree, fd[c], File(
                         Overwrite(ContentAt(fd[c]), put[c] + 1, c)))
          /\ NoteChange(c, fd[c])
    /\ UNCHANGED <<swaps, pc, request, target, level, fd, text, outcome,
                   touched, within>>

Close(c) ==
    /\ pc[c] = "write" /\ request[c].encodable /\ ~Unwritten(c)
    /\ End(c, "ok")

-----------------------------------------------------------------------------
(* The operating system.                                                   *)

\* Whether the next thing a call does is a system call whose error is handed to
\* _refuse_os_error.
Exposed(c) ==
    \/ pc[c] = "handle" /\ ~Writes(c)
    \/ pc[c] = "walk" /\ ~ParentsDone(c)
    \/ pc[c] \in {"stat", "read", "entries", "exists", "isdir", "mkdir",
                  "target", "open"}
    \/ pc[c] = "write" /\ request[c].encodable

\* It fails whatever the tree is like: no permission, no space, a name too long,
\* a device that does not answer.
SystemFails(c) ==
    /\ Exposed(c)
    /\ Goto(c, "done")
    /\ outcome' = [outcome EXCEPT ![c] = "os_error"]
    /\ noted' = [noted EXCEPT ![c] = @ \cup {"failed"}]
    /\ UNCHANGED <<tree, swaps, request, target, level, fd, put, text, touched,
                   within>>

-----------------------------------------------------------------------------
read_file(c)  == ReadIsFile(c) \/ ReadStat(c) \/ ReadBytes(c)
list_dir(c)   == ListIsDir(c) \/ ListEntries(c)
make_parents(c) ==
    \/ \E failed \in BOOLEAN : StartWrite(c, failed)
    \/ WalkOn(c) \/ WalkExists(c) \/ WalkIsDir(c) \/ WalkMkdir(c) \/ WalkDone(c)
write_file(c) ==
    \/ make_parents(c) \/ CheckTarget(c) \/ Open(c)
    \/ EncodeFails(c) \/ WriteBlock(c) \/ Close(c)

Next ==
    \/ \E s \in Swaps : Swap(s)
    \/ \E c \in Calls :
          \/ \E r \in Requests : Resolve(c, r)
          \/ read_file(c) \/ list_dir(c) \/ write_file(c) \/ SystemFails(c)

Spec == Init /\ [][Next]_vars

-----------------------------------------------------------------------------
(* Properties.                                                             *)

\* The tree stays a tree, and a write has open a file that is there or none at
\* all.
TypeOK ==
    /\ IsTree(tree, Content)
    /\ swaps \in 0 .. MaxSwaps
    /\ pc \in [Calls -> Steps]
    /\ request \in [Calls -> Requests]
    /\ target \in [Calls -> Path]
    /\ \A c \in Calls :
          /\ level[c] \in 0 .. Len(target[c])
          /\ fd[c] # <<>> => fd[c] \in DOMAIN tree /\ tree[fd[c]].kind = "file"
          /\ put[c] \in 0 .. request[c].blocks
    /\ outcome \in [Calls -> Outcomes]
    /\ noted \in [Calls -> SUBSET Notes]

\* What a call reads lies in a readable root and what it changes lies in the
\* write root, as the roots were when the call had them resolved; unless another
\* process swapped a component after the call had looked at it, since resolution
\* for a read and since the walk for a write, or its path led into a cycle of
\* links.
StaysInside ==
    \A c \in Calls : \A q \in touched[c] :
        noted[c] \cap {"late", "cycle"} = {} =>
            \E root \in within[c] : Inside(root, q)

\* A write leaves its own content and nothing else in its file, from the first
\* block to the last it put: all of them when it reports success, and when it
\* fails half-way what it came to, the old content being gone; unless somebody
\* else changed the file since it was opened.
WrittenWhole ==
    \A c \in Calls :
        Writes(c) /\ "mixed" \notin noted[c] =>
            /\ outcome[c] = "ok" => fd[c] # <<>> /\ put[c] = request[c].blocks
            /\ fd[c] # <<>> => ContentAt(fd[c]) = [i \in 1 .. put[c] |-> c]

\* A read returns no more than the cap, unless what its path leads to got
\* another size, from a write of another call or from another process, between
\* the look at it and the read.
ReadWithinCap ==
    \A c \in Calls :
        outcome[c] = "ok" /\ "resized" \notin noted[c] => ~(Len(text[c]) > ReadCap)

\* A write whose path was clear when it was resolved, and was left alone with
\* its root, succeeds; unless another call made a missing parent between its
\* look and its mkdir, or the operating system refused it something all the same,
\* as it does where it may not write.
ClearWriteSucceeds ==
    \A c \in Calls :
        Writes(c) /\ pc[c] = "done" /\ within[c] # {} /\ request[c].encodable
        /\ noted[c] \cap {"obstacle", "cycle", "disturbed", "moved", "overtaken",
                          "failed"} = {}
            => outcome[c] = "ok"
=============================================================================
