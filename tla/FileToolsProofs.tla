-------------------------- MODULE FileToolsProofs --------------------------
(***************************************************************************)
(* What holds of the file tools for any number of calls, any workspace,    *)
(* and whatever other processes do to it, however often: the tree stays a  *)
(* tree; a call touches nothing outside of the roots its path was compared *)
(* with, unless something it had looked at was swapped or its path led     *)
(* into a cycle of links; a write that nothing gets in the way of          *)
(* succeeds; a read returns no more than the cap unless its file was       *)
(* resized after it was measured; and a write leaves its own content and   *)
(* nothing else in its file, the whole of it when it reports success,      *)
(* unless somebody else changed the file since it was opened.              *)
(*                                                                         *)
(* For the first three, each step is first put into what it does to its    *)
(* caller and to the other calls, one call at a time, and the invariants   *)
(* are shown from that, each resting on the one before.  The last two rest *)
(* on invariants of their own, which need little of the rest.              *)
(***************************************************************************)
EXTENDS FileTools, ContainmentProofs

Typed ==
    /\ swaps \in 0 .. MaxSwaps
    /\ pc \in [Calls -> Steps] /\ request \in [Calls -> Requests]
    /\ target \in [Calls -> Path] /\ level \in [Calls -> Nat]
    /\ fd \in [Calls -> Path] /\ put \in [Calls -> Nat]
    /\ outcome \in [Calls -> Outcomes]
    /\ touched \in [Calls -> SUBSET Path]
    /\ noted \in [Calls -> SUBSET Notes]
    /\ within \in [Calls -> SUBSET Path]

ReadSteps  == {"stat", "read", "entries"}
WriteSteps == {"walk", "exists", "isdir", "mkdir", "target", "open", "write"}

\* Where a call stands goes with what it was asked for and what it has done.
Sane(c) ==
    /\ level[c] <= Len(target[c])
    /\ fd[c] # <<>> => fd[c] \in DOMAIN tree /\ tree[fd[c]].kind = "file"
    /\ put[c] <= request[c].blocks
    /\ pc[c] = "idle" => level[c] = 0 /\ put[c] = 0 /\ within[c] = {}
    /\ pc[c] \in ReadSteps => ~Writes(c)
    /\ pc[c] \in WriteSteps => Writes(c)
    /\ pc[c] \in {"exists", "isdir", "mkdir"} => level[c] >= 1
    /\ within[c] = {} => pc[c] \in {"idle", "done"} /\ touched[c] = {}
    /\ "late" \in noted[c] => "disturbed" \in noted[c]

TypeInv == IsTree(tree, Content) /\ Typed /\ \A c \in Calls : Sane(c)

-----------------------------------------------------------------------------
(* What each step does.                                                    *)

\* A step leaves a call where it was; its file may be taken from it, and things
\* may be noted of it.
Still(e) ==
    /\ pc'[e] = pc[e] /\ request'[e] = request[e] /\ target'[e] = target[e]
    /\ level'[e] = level[e] /\ put'[e] = put[e] /\ outcome'[e] = outcome[e]
    /\ touched'[e] = touched[e] /\ within'[e] = within[e]
    /\ noted[e] \subseteq noted'[e]

\* A step of c of which the other calls notice nothing.
Alone(c) ==
    /\ tree' = tree /\ swaps' = swaps /\ Typed'
    /\ \A e \in Calls \ {c} :
          Still(e) /\ fd'[e] = fd[e] /\ noted'[e] = noted[e]

\* Only how far the call has come changes, and how it ended.
Looks(c) ==
    /\ Alone(c)
    /\ request'[c] = request[c] /\ target'[c] = target[c] /\ fd'[c] = fd[c]
    /\ put'[c] = put[c] /\ within'[c] = within[c]

LEMMA EndDoes ==
    ASSUME Typed, NEW c \in Calls, NEW how \in Outcomes, End(c, how)
    PROVE  /\ Looks(c) /\ pc'[c] = "done" /\ outcome'[c] = how
           /\ level'[c] = level[c] /\ touched'[c] = touched[c]
           /\ noted'[c] = noted[c]
<1>1. /\ UNCHANGED <<tree, swaps, request, target, level, fd, put, touched,
                     noted, within>>
      /\ pc' \in [Calls -> Steps] /\ pc'[c] = "done"
      /\ \A e \in Calls \ {c} : pc'[e] = pc[e]
  BY DEF End, Goto, Typed, history, Steps
<1>2. /\ outcome' \in [Calls -> Outcomes] /\ outcome'[c] = how
      /\ \A e \in Calls \ {c} : outcome'[e] = outcome[e]
  BY DEF End, Typed
<1>3. Typed'
  BY <1>1, <1>2 DEF Typed
<1>4. QED
  BY <1>1, <1>2, <1>3 DEF Looks, Alone, Still

LEMMA GoOnDoes ==
    ASSUME Typed, NEW c \in Calls, NEW step \in Steps, GoOn(c, step)
    PROVE  /\ Looks(c) /\ pc'[c] = step /\ outcome'[c] = outcome[c]
           /\ level'[c] = level[c] /\ touched'[c] = touched[c]
           /\ noted'[c] = noted[c]
<1>1. /\ UNCHANGED <<tree, swaps, request, target, level, fd, put, outcome,
                     touched, noted, within>>
      /\ pc' \in [Calls -> Steps] /\ pc'[c] = step
      /\ \A e \in Calls \ {c} : pc'[e] = pc[e]
  BY DEF GoOn, Goto, Typed, handler, history
<1>2. Typed'
  BY <1>1 DEF Typed
<1>3. QED
  BY <1>1, <1>2 DEF Looks, Alone, Still

\* The end of a read or a listing that found what it looked for.
LEMMA TakesDoes ==
    ASSUME Typed, NEW c \in Calls, NEW how \in Outcomes, NEW q \in Path,
           Goto(c, "done"), outcome' = [outcome EXCEPT ![c] = how], Touch(c, q),
           UNCHANGED <<tree, swaps, request, target, level, fd, put, noted,
                       within>>
    PROVE  /\ Looks(c) /\ pc'[c] = "done" /\ outcome'[c] = how
           /\ level'[c] = level[c] /\ touched'[c] = touched[c] \cup {q}
           /\ noted'[c] = noted[c]
<1>1. /\ pc' \in [Calls -> Steps] /\ pc'[c] = "done"
      /\ \A e \in Calls \ {c} : pc'[e] = pc[e]
  BY DEF Goto, Typed, Steps
<1>2. /\ outcome' \in [Calls -> Outcomes] /\ outcome'[c] = how
      /\ \A e \in Calls \ {c} : outcome'[e] = outcome[e]
  BY DEF Typed
<1>3. /\ touched' \in [Calls -> SUBSET Path]
      /\ touched'[c] = touched[c] \cup {q}
      /\ \A e \in Calls \ {c} : touched'[e] = touched[e]
  BY DEF Touch, Typed
<1>4. Typed'
  BY <1>1, <1>2, <1>3 DEF Typed
<1>5. QED
  BY <1>1, <1>2, <1>3, <1>4 DEF Looks, Alone, Still

\* A write has looked at a component, and goes on.
LEMMA PassesDoes ==
    ASSUME Typed, NEW c \in Calls, NEW n \in Nat, NEW step \in Steps,
           level' = [level EXCEPT ![c] = n], Goto(c, step),
           UNCHANGED <<tree, swaps, request, target, fd, put, text, outcome,
                       history>>
    PROVE  /\ Looks(c) /\ pc'[c] = step /\ outcome'[c] = outcome[c]
           /\ level'[c] = n /\ touched'[c] = touched[c] /\ noted'[c] = noted[c]
<1>1. /\ UNCHANGED <<tree, swaps, request, target, fd, put, outcome, touched,
                     noted, within>>
      /\ pc' \in [Calls -> Steps] /\ pc'[c] = step
      /\ \A e \in Calls \ {c} : pc'[e] = pc[e]
  BY DEF Goto, Typed, history
<1>2. /\ level' \in [Calls -> Nat] /\ level'[c] = n
      /\ \A e \in Calls \ {c} : level'[e] = level[e]
  BY DEF Typed
<1>3. Typed'
  BY <1>1, <1>2 DEF Typed
<1>4. QED
  BY <1>1, <1>2, <1>3 DEF Looks, Alone, Still
NoDots(p) == Len(p) <= MaxSteps /\ \A i \in 1 .. Len(p) : p[i] # ".."

\* What a request's path is resolved to, and what it is compared with.
LEMMA ResolvedIs ==
    ASSUME IsTree(tree, Content), NEW r \in Requests
    PROVE  /\ RootsFor(r) \in SUBSET Path
           /\ \A p \in ResolvedPath(r) :
                 /\ p \in Path /\ NoDots(p)
                 /\ ~InCycle(Walk(tree, Absolute(r.path))) => Real(tree, p)
                 /\ \E root \in RootsFor(r) : Inside(root, p)
<1> DEFINE roots == IF r.op = "write_file" THEN <<WriteRoot>> ELSE ReadableRoots
           p     == Absolute(r.path)
<1>1. WriteRoot \in Path /\ \A i \in DOMAIN roots : roots[i] \in Path
  <2>1. WriteRoot \in Path /\ ReadRoots \in Seq(Path)
    BY RootsAssumption
  <2>2. <<WriteRoot>> \in Seq(Path) /\ ReadableRoots \in Seq(Path)
    BY <2>1, ConcatProperties DEF ReadableRoots
  <2>3. roots \in Seq(Path)
    BY <2>2
  <2> HIDE DEF roots
  <2>4. DOMAIN roots = 1 .. Len(roots)
    BY <2>3, LenProperties
  <2>5. QED
    BY <2>1, <2>3, <2>4, ElementOfSeq
<1>2. p \in Path
  <2>1. r.path.parts \in Seq(STRING)
    BY FilesAssumption DEF RequestType
  <2>2. QED
    BY <1>1, <2>1, ConcatProperties DEF Absolute, Path
<1>3. /\ RootsFor(r) = RealRoots(tree, roots)
      /\ ResolvedPath(r) \subseteq {q \in {Arrived(Walk(tree, p))} :
            \E root \in RealRoots(tree, roots) : Inside(root, q)}
  BY DEF RootsFor, ResolvedPath, resolve_read, resolve_write, ResolveWithin
<1> HIDE DEF roots, p
<1>4. RealRoots(tree, roots) \in SUBSET Path
  BY <1>1, ArrivedAt DEF RealRoots
<1>5. /\ Arrived(Walk(tree, p)) \in Path /\ NoDots(Arrived(Walk(tree, p)))
      /\ ~InCycle(Walk(tree, p)) => Real(tree, Arrived(Walk(tree, p)))
  BY <1>2, ArrivedAt DEF NoDots
<1>6. QED
  BY <1>3, <1>4, <1>5 DEF p

LEMMA ResolveDoes ==
    ASSUME IsTree(tree, Content), Typed, NEW c \in Calls, NEW r \in Requests,
           Resolve(c, r)
    PROVE  /\ Alone(c) /\ pc[c] = "idle" /\ request'[c] = r
           /\ level'[c] = level[c] /\ fd'[c] = fd[c] /\ put'[c] = put[c]
           /\ touched'[c] = touched[c]
           /\ \/ /\ pc'[c] = "done" /\ target'[c] = target[c]
                 /\ noted'[c] = noted[c] /\ within'[c] = within[c]
              \/ /\ pc'[c] = "handle" /\ within'[c] = RootsFor(r)
                 /\ target'[c] \in ResolvedPath(r)
                 /\ noted'[c] = Noticed("obstacle", ~Clear(target'[c])) \cup
                       Noticed("cycle", InCycle(Walk(tree, Absolute(r.path))))
<1>1. /\ UNCHANGED <<tree, swaps, level, fd, put, text, touched>>
      /\ request' \in [Calls -> Requests] /\ request'[c] = r /\ pc[c] = "idle"
      /\ \A e \in Calls \ {c} : request'[e] = request[e]
  BY DEF Resolve, Typed
<1>2. CASE /\ Goto(c, "done")
           /\ outcome' = [outcome EXCEPT ![c] = "path_escape"]
           /\ UNCHANGED <<target, noted, within>>
  <2>1. /\ pc' \in [Calls -> Steps] /\ pc'[c] = "done"
        /\ \A e \in Calls \ {c} : pc'[e] = pc[e]
    BY <1>2 DEF Goto, Typed, Steps
  <2>2. /\ outcome' \in [Calls -> Outcomes]
        /\ \A e \in Calls \ {c} : outcome'[e] = outcome[e]
    BY <1>2 DEF Typed, Outcomes
  <2>3. Typed'
    BY <1>1, <1>2, <2>1, <2>2 DEF Typed
  <2>4. QED
    BY <1>1, <1>2, <2>1, <2>2, <2>3 DEF Alone, Still
<1>3. ASSUME NEW p \in ResolvedPath(r), target' = [target EXCEPT ![c] = p],
             noted' = [noted EXCEPT ![c] = Noticed("obstacle", ~Clear(p)) \cup
                Noticed("cycle", InCycle(Walk(tree, Absolute(r.path))))],
             within' = [within EXCEPT ![c] = RootsFor(r)],
             Goto(c, "handle"), UNCHANGED outcome
      PROVE  /\ Alone(c) /\ pc'[c] = "handle" /\ within'[c] = RootsFor(r)
             /\ target'[c] = p
             /\ noted'[c] = Noticed("obstacle", ~Clear(p)) \cup
                   Noticed("cycle", InCycle(Walk(tree, Absolute(r.path))))
  <2> DEFINE new == Noticed("obstacle", ~Clear(p)) \cup
                Noticed("cycle", InCycle(Walk(tree, Absolute(r.path))))
  <2>1. p \in Path /\ RootsFor(r) \in SUBSET Path
    BY ResolvedIs
  <2>2. new \in SUBSET Notes
    BY DEF Noticed, Notes
  <2>3. /\ pc' \in [Calls -> Steps] /\ pc'[c] = "handle"
        /\ \A e \in Calls \ {c} : pc'[e] = pc[e]
    BY <1>3 DEF Goto, Typed, Steps
  <2>4. /\ target' \in [Calls -> Path] /\ target'[c] = p
        /\ \A e \in Calls \ {c} : target'[e] = target[e]
    BY <1>3, <2>1 DEF Typed
  <2> HIDE DEF new
  <2>5. /\ noted' \in [Calls -> SUBSET Notes] /\ noted'[c] = new
        /\ \A e \in Calls \ {c} : noted'[e] = noted[e]
    <3>1. noted' = [noted EXCEPT ![c] = new]
      BY <1>3 DEF new
    <3>2. QED
      BY <2>2, <3>1 DEF Typed
  <2>6. /\ within' \in [Calls -> SUBSET Path] /\ within'[c] = RootsFor(r)
        /\ \A e \in Calls \ {c} : within'[e] = within[e]
    BY <1>3, <2>1 DEF Typed
  <2>7. Typed'
    BY <1>1, <1>3, <2>3, <2>4, <2>5, <2>6 DEF Typed
  <2>8. Alone(c)
    BY <1>1, <1>3, <2>3, <2>4, <2>5, <2>6, <2>7 DEF Alone, Still
  <2>9. QED
    BY <2>3, <2>4, <2>5, <2>6, <2>8 DEF new
<1>4. QED
  BY <1>1, <1>2, <1>3 DEF Resolve

LEMMA StartWriteDoes ==
    ASSUME IsTree(tree, Content), Typed, NEW c \in Calls, NEW failed \in BOOLEAN,
           StartWrite(c, failed)
    PROVE  LET walk  == Walk(tree, WriteRoot)
               root  == Arrived(walk)
               below == ~failed /\ Resolves(walk) /\ Inside(root, Front(target[c]))
           IN  /\ Alone(c) /\ pc[c] = "handle" /\ Writes(c)
               /\ request'[c] = request[c] /\ target'[c] = target[c]
               /\ fd'[c] = fd[c] /\ put'[c] = put[c]
               /\ touched'[c] = touched[c]
               /\ pc'[c] = IF below THEN "walk" ELSE "target"
               /\ level'[c] = IF below THEN Len(root) ELSE Len(target[c])
               /\ within'[c] = within[c] \cup Noticed(root, below)
               /\ noted'[c] = noted[c] \cup
                     Noticed("late", "disturbed" \in noted[c]
                                     /\ (InCycle(walk) \/ ~below))
                     \cup Noticed("moved", ~(Resolves(walk)
                                             /\ root \in within[c]))
                     \cup Noticed("failed", failed)
<1> DEFINE walk  == Walk(tree, WriteRoot)
           root  == Arrived(walk)
           below == ~failed /\ Resolves(walk) /\ Inside(root, Front(target[c]))
           new   == noted[c] \cup
                     Noticed("late", "disturbed" \in noted[c]
                                     /\ (InCycle(walk) \/ ~below))
                     \cup Noticed("moved", ~(Resolves(walk)
                                             /\ root \in within[c]))
                     \cup Noticed("failed", failed)
           n     == IF below THEN Len(root) ELSE Len(target[c])
           step  == IF below THEN "walk" ELSE "target"
           roots == within[c] \cup Noticed(root, below)
<1>1. root \in Path
  BY RootsAssumption, ArrivedAt
<1>2. /\ UNCHANGED <<tree, swaps, request, target, fd, put, outcome, touched>>
      /\ pc[c] = "handle" /\ Writes(c)
  BY DEF StartWrite
<1>3. /\ level' = [level EXCEPT ![c] = n] /\ pc' = [pc EXCEPT ![c] = step]
      /\ noted' = [noted EXCEPT ![c] = new]
      /\ within' = [within EXCEPT ![c] = roots]
  BY Zenon DEF StartWrite, Goto, Typed
<1>4. new \in SUBSET Notes
  BY DEF Typed, Noticed, Notes
<1>5. n \in Nat /\ step \in Steps /\ roots \in SUBSET Path
  <2>1. Len(root) \in Nat /\ Len(target[c]) \in Nat
    BY <1>1, LenProperties DEF Typed, Path
  <2>2. roots \in SUBSET Path
    BY <1>1 DEF Typed, Noticed
  <2>3. QED
    BY <2>1, <2>2 DEF Steps
<1> HIDE DEF new, n, step, roots
<1>6. /\ level' \in [Calls -> Nat] /\ level'[c] = n
      /\ \A e \in Calls \ {c} : level'[e] = level[e]
  BY <1>3, <1>5 DEF Typed
<1>7. /\ pc' \in [Calls -> Steps] /\ pc'[c] = step
      /\ \A e \in Calls \ {c} : pc'[e] = pc[e]
  BY <1>3, <1>5 DEF Typed
<1>8. /\ noted' \in [Calls -> SUBSET Notes] /\ noted'[c] = new
      /\ \A e \in Calls \ {c} : noted'[e] = noted[e]
  BY <1>3, <1>4 DEF Typed
<1>9. /\ within' \in [Calls -> SUBSET Path] /\ within'[c] = roots
      /\ \A e \in Calls \ {c} : within'[e] = within[e]
  BY <1>3, <1>5 DEF Typed
<1>10. Typed'
  BY <1>2, <1>6, <1>7, <1>8, <1>9 DEF Typed
<1>11. Alone(c)
  BY <1>2, <1>6, <1>7, <1>8, <1>9, <1>10 DEF Alone, Still
<1>12. QED
  BY <1>2, <1>6, <1>7, <1>8, <1>9, <1>11 DEF new, n, step, roots
\* Another process's change at q: who has q on its path, or the file open, is
\* told; what is not at or below q stays.
Swapped(q) ==
    /\ IsTree(tree', Content) /\ Typed' /\ q \in Path /\ q # <<>>
    /\ \A p \in Path : p # q /\ p \in DOMAIN tree' => p \in DOMAIN tree
    /\ \A p \in Path : ~AtOrBelow(p, q) /\ p \in DOMAIN tree => p \in DOMAIN tree'
    /\ \A p \in Path : p # q /\ p \in DOMAIN tree' => tree'[p] = tree[p]
    /\ \A e \in Calls :
          /\ Still(e) /\ fd'[e] = IF AtOrBelow(fd[e], q) THEN <<>> ELSE fd[e]
          /\ noted'[e] \subseteq noted[e] \cup {"disturbed", "late", "mixed", "resized"}
          /\ pc[e] # "idle" /\ AtOrBelow(target[e], q) => "disturbed" \in noted'[e]
          /\ pc[e] # "idle" /\ AtOrBelow(target[e], q) /\ Len(q) <= Checked(e)
                => "late" \in noted'[e]
          /\ "late" \in noted'[e] => "late" \in noted[e] \/ "disturbed" \in noted'[e]

LEMMA SwapDoes ==
    ASSUME IsTree(tree, Content), Typed, NEW s \in Swaps, Swap(s)
    PROVE  \E q : Swapped(q)
<1>1. s.path \in Path /\ s.path # <<>> /\ IsNode(s.node, Content)
  BY FilesAssumption
<1>2. /\ UNCHANGED <<pc, request, target, level, put, outcome, touched, within>>
      /\ swaps' = swaps + 1 /\ swaps < MaxSwaps
  BY DEF Swap
<1>3. PICK q \in Entry(tree, s.path) :
        /\ tree' = IF s.gone THEN Removed(tree, q)
                   ELSE Put(Removed(tree, q), q, s.node)
        /\ fd' = [c \in Calls |-> IF AtOrBelow(fd[c], q) THEN <<>> ELSE fd[c]]
        /\ noted' = [c \in Calls |-> noted[c] \cup
              Noticed("disturbed", Started(c) /\ AtOrBelow(target[c], q)) \cup
              Noticed("late", /\ Started(c) /\ AtOrBelow(target[c], q)
                              /\ Len(q) <= Checked(c)) \cup
              Noticed("mixed", AtOrBelow(fd[c], q)) \cup
              Noticed("resized", Resized(c))]
  BY Zenon DEF Swap
<1>4. /\ q \in Path /\ q # <<>>
      /\ Front(q) \in DOMAIN tree /\ tree[Front(q)].kind = "dir"
  BY <1>1, EntryPlace
<1> DEFINE less == Removed(tree, q)
<1>5. /\ IsTree(less, Content) /\ q \notin DOMAIN less
      /\ Front(q) \in DOMAIN less /\ less[Front(q)] = tree[Front(q)]
  BY <1>4, RemovedKeepsTree
<1>6. \A p \in Path : /\ p \in DOMAIN less <=> p \in DOMAIN tree /\ ~AtOrBelow(p, q)
                      /\ p \in DOMAIN less => less[p] = tree[p]
  BY DEF Removed
<1> HIDE DEF less
<1>7. IsTree(tree', Content)
  <2>1. CASE s.gone
    BY <1>3, <1>5, <2>1 DEF less
  <2>2. CASE ~s.gone
    <3>1. IsTree(Put(less, q, s.node), Content)
      BY <1>1, <1>4, <1>5, PutKeepsTree
    <3>2. QED
      BY <1>3, <2>2, <3>1 DEF less
  <2>3. QED
    BY <2>1, <2>2
<1>8. /\ \A p \in Path : p # q => (p \in DOMAIN tree' <=> p \in DOMAIN less)
      /\ \A p \in Path : p # q /\ p \in DOMAIN tree' => tree'[p] = less[p]
      /\ \A p \in Path : p \in DOMAIN less => p \in DOMAIN tree'
  <2>1. tree' = less \/ tree' = Put(less, q, s.node)
    BY <1>3 DEF less
  <2>2. QED
    BY <2>1 DEF Put
<1>9. Typed'
  <2>1. fd' \in [Calls -> Path]
    BY <1>3, EmptyPath DEF Typed
  <2>2. noted' \in [Calls -> SUBSET Notes]
    BY <1>3 DEF Typed, Noticed, Notes
  <2>3. swaps' \in 0 .. MaxSwaps
    BY <1>2, FilesAssumption DEF Typed
  <2>4. QED
    BY <1>2, <2>1, <2>2, <2>3 DEF Typed
<1>10. ASSUME NEW e \in Calls
       PROVE  /\ Still(e) /\ fd'[e] = IF AtOrBelow(fd[e], q) THEN <<>> ELSE fd[e]
              /\ noted'[e] \subseteq noted[e] \cup {"disturbed", "late", "mixed", "resized"}
              /\ pc[e] # "idle" /\ AtOrBelow(target[e], q) => "disturbed" \in noted'[e]
              /\ pc[e] # "idle" /\ AtOrBelow(target[e], q) /\ Len(q) <= Checked(e)
                    => "late" \in noted'[e]
              /\ "late" \in noted'[e] => "late" \in noted[e] \/ "disturbed" \in noted'[e]
  <2>1. noted'[e] = noted[e] \cup
              Noticed("disturbed", pc[e] # "idle" /\ AtOrBelow(target[e], q)) \cup
              Noticed("late", /\ pc[e] # "idle" /\ AtOrBelow(target[e], q)
                              /\ Len(q) <= Checked(e)) \cup
              Noticed("mixed", AtOrBelow(fd[e], q)) \cup
              Noticed("resized", Resized(e))
    BY <1>3 DEF Started
  <2>2. Still(e)
    BY <1>2, <2>1 DEF Still
  <2>3. fd'[e] = IF AtOrBelow(fd[e], q) THEN <<>> ELSE fd[e]
    BY <1>3
  <2>4. noted'[e] \subseteq noted[e] \cup {"disturbed", "late", "mixed", "resized"}
    BY <2>1 DEF Noticed
  <2>5. QED
    BY <2>1, <2>2, <2>3, <2>4 DEF Noticed
<1>11. QED
  BY <1>4, <1>6, <1>7, <1>8, <1>9, <1>10 DEF Swapped

\* A write's own change at q: the others are told of what may get in their way.
Changed(c, q, kind) ==
    /\ IsTree(tree', Content) /\ Typed' /\ q \in Path /\ q # <<>>
    /\ kind \in {"dir", "file"}
    /\ DOMAIN tree' = DOMAIN tree \cup {q} /\ tree'[q].kind = kind
    /\ \A p \in DOMAIN tree : p # q => tree'[p] = tree[p]
    /\ request'[c] = request[c] /\ target'[c] = target[c]
    /\ level'[c] = level[c] /\ within'[c] = within[c] /\ outcome'[c] = outcome[c]
    /\ noted[c] \subseteq noted'[c] /\ noted'[c] \subseteq noted[c] \cup {"resized"}
    /\ \A e \in Calls \ {c} :
          /\ Still(e) /\ fd'[e] = fd[e]
          /\ noted'[e] \subseteq noted[e] \cup {"overtaken", "disturbed", "mixed", "resized"}
          /\ kind = "dir" /\ q = target[e] => "disturbed" \in noted'[e]
          /\ kind = "dir" /\ pc[e] = "mkdir" /\ q = Current(e)
                => "overtaken" \in noted'[e]
          /\ kind = "file" /\ IsStrictPrefix(q, target[e])
                => "disturbed" \in noted'[e]

LEMMA CurrentIs ==
    ASSUME Typed, NEW c \in Calls, Sane(c)
    PROVE  /\ Current(c) \in Path /\ Len(Current(c)) = level[c]
           /\ level[c] >= 1 => Current(c) # <<>>
           /\ \A i \in 1 .. level[c] :
                 /\ Current(c)[i] = target[c][i]
                 /\ SubSeq(Current(c), 1, i) = SubSeq(target[c], 1, i)
<1>1. target[c] \in Path /\ level[c] \in 0 .. Len(target[c])
  BY LenProperties DEF Typed, Sane, Path
<1>2. QED
  BY <1>1, FirstOf, EmptyPath DEF Current

\* What opening a file, writing to it and making a directory have in common.
LEMMA ChangeDoes ==
    ASSUME IsTree(tree, Content), Typed, NEW c \in Calls, NEW q \in Path,
           q # <<>>, Front(q) \in DOMAIN tree, tree[Front(q)].kind = "dir",
           q \in DOMAIN tree => tree[q].kind # "dir",
           NEW node, IsNode(node, Content), node.kind \in {"dir", "file"},
           tree' = Put(tree, q, node), Typed',
           \A e \in Calls : noted[e] \subseteq noted'[e],
           noted'[c] \subseteq noted[c] \cup {"resized"},
           UNCHANGED <<request, target, level, outcome, within>>,
           \A e \in Calls \ {c} : /\ pc'[e] = pc[e] /\ put'[e] = put[e]
                                  /\ touched'[e] = touched[e] /\ fd'[e] = fd[e],
           \A e \in Calls \ {c} :
              /\ noted'[e] \subseteq
                    noted[e] \cup {"overtaken", "disturbed", "mixed", "resized"}
              /\ node.kind = "dir" /\ q = target[e] => "disturbed" \in noted'[e]
              /\ node.kind = "dir" /\ pc[e] = "mkdir" /\ q = Current(e)
                    => "overtaken" \in noted'[e]
              /\ node.kind = "file" /\ IsStrictPrefix(q, target[e])
                    => "disturbed" \in noted'[e]
    PROVE  Changed(c, q, node.kind)
<1>1. IsTree(tree', Content)
  BY PutKeepsTree
<1>2. /\ DOMAIN tree' = DOMAIN tree \cup {q} /\ tree'[q] = node
      /\ \A p \in DOMAIN tree : p # q => tree'[p] = tree[p]
  BY DEF Put
<1>3. QED
  BY <1>1, <1>2 DEF Changed, Still

LEMMA WalkMkdirDoes ==
    ASSUME IsTree(tree, Content), Typed, NEW c \in Calls, Sane(c), WalkMkdir(c)
    PROVE  \/ Entry(tree, Current(c)) \subseteq DOMAIN tree /\ End(c, "os_error")
           \/ \E q \in Entry(tree, Current(c)) \ DOMAIN tree :
                 /\ Changed(c, q, "dir") /\ pc'[c] = "walk" /\ fd'[c] = fd[c]
                 /\ put'[c] = put[c] /\ touched'[c] = touched[c] \cup {q}
<1> SUFFICES ASSUME NEW q \in Entry(tree, Current(c)) \ DOMAIN tree,
                    tree' = Put(tree, q, Directory), Touch(c, q),
                    noted' = [e \in Calls |->
                       noted[e] \cup
                       Noticed("overtaken",
                               pc[e] = "mkdir" /\ e # c /\ q = Current(e))
                       \cup Noticed("disturbed", e # c /\ q = target[e])
                       \cup Noticed("resized", Resized(e))],
                    Goto(c, "walk"), UNCHANGED <<swaps, handler, within>>
             PROVE  /\ Changed(c, q, "dir") /\ pc'[c] = "walk" /\ fd'[c] = fd[c]
                    /\ put'[c] = put[c] /\ touched'[c] = touched[c] \cup {q}
  BY Zenon DEF WalkMkdir
<1>1. UNCHANGED <<swaps, request, target, level, fd, put, outcome, within>>
  BY DEF handler
<1>2. Current(c) \in Path /\ Current(c) # <<>>
  BY CurrentIs DEF Sane, WalkMkdir
<1>3. /\ q \in Path /\ q # <<>> /\ q \notin DOMAIN tree
      /\ Front(q) \in DOMAIN tree /\ tree[Front(q)].kind = "dir"
  BY <1>2, EntryPlace
<1>4. /\ pc' \in [Calls -> Steps] /\ pc'[c] = "walk"
      /\ \A e \in Calls \ {c} : pc'[e] = pc[e]
  BY DEF Goto, Typed, Steps
<1>5. /\ touched' \in [Calls -> SUBSET Path]
      /\ touched'[c] = touched[c] \cup {q}
      /\ \A e \in Calls \ {c} : touched'[e] = touched[e]
  BY <1>3 DEF Touch, Typed
<1>6. /\ noted' \in [Calls -> SUBSET Notes]
      /\ \A e \in Calls : noted[e] \subseteq noted'[e]
      /\ noted'[c] \subseteq noted[c] \cup {"resized"}
  BY DEF Typed, Noticed, Notes
<1>7. ASSUME NEW e \in Calls \ {c}
      PROVE  /\ noted'[e] \subseteq noted[e] \cup {"overtaken", "disturbed", "resized"}
             /\ q = target[e] => "disturbed" \in noted'[e]
             /\ pc[e] = "mkdir" /\ q = Current(e) => "overtaken" \in noted'[e]
  BY DEF Noticed
<1>8. Typed'
  BY <1>1, <1>4, <1>5, <1>6 DEF Typed
<1>9. IsNode(Directory, Content) /\ Directory.kind = "dir"
  BY EmptyPath, EmptySeq DEF IsNode, Directory, Content
<1>10. Changed(c, q, Directory.kind)
  BY <1>1, <1>3, <1>4, <1>5, <1>6, <1>7, <1>8, <1>9, ChangeDoes
<1>11. QED
  BY <1>1, <1>4, <1>5, <1>9, <1>10

LEMMA NotedByChange ==
    ASSUME Typed, NEW c \in Calls, NEW q, NoteChange(c, q)
    PROVE  /\ noted' \in [Calls -> SUBSET Notes]
           /\ \A e \in Calls : noted[e] \subseteq noted'[e]
           /\ noted'[c] \subseteq noted[c] \cup {"resized"}
           /\ \A e \in Calls \ {c} :
                 /\ noted'[e] \subseteq noted[e] \cup {"disturbed", "mixed", "resized"}
                 /\ IsStrictPrefix(q, target[e]) => "disturbed" \in noted'[e]
<1>1. noted' \in [Calls -> SUBSET Notes]
  BY DEF NoteChange, Noticed, Notes, Typed
<1>2. ASSUME NEW e \in Calls
      PROVE  noted'[e] = noted[e] \cup Noticed("mixed", e # c /\ fd[e] = q) \cup
                Noticed("disturbed", e # c /\ IsStrictPrefix(q, target[e])) \cup
                Noticed("resized", Resized(e))
  BY DEF NoteChange
<1>3. noted'[c] \subseteq noted[c] \cup {"resized"}
  BY <1>2 DEF Noticed
<1>4. ASSUME NEW e \in Calls \ {c}
      PROVE  /\ noted'[e] \subseteq noted[e] \cup {"disturbed", "mixed", "resized"}
             /\ IsStrictPrefix(q, target[e]) => "disturbed" \in noted'[e]
  BY <1>2 DEF Noticed
<1>5. QED
  BY <1>1, <1>2, <1>3, <1>4

LEMMA OpenDoes ==
    ASSUME IsTree(tree, Content), Typed, NEW c \in Calls, Open(c)
    PROVE  \/ Writable(tree, target[c]) = {} /\ End(c, "os_error")
           \/ \E q \in Writable(tree, target[c]) :
                 /\ Changed(c, q, "file") /\ pc'[c] = "write" /\ fd'[c] = q
                 /\ put'[c] = put[c] /\ touched'[c] = touched[c] \cup {q}
<1> SUFFICES ASSUME NEW q \in Writable(tree, target[c]),
                    tree' = Put(tree, q, File(Truncated(q))),
                    fd' = [fd EXCEPT ![c] = q], Touch(c, q), NoteChange(c, q),
                    Goto(c, "write"),
                    UNCHANGED <<swaps, request, target, level, put, text,
                                outcome, within>>
             PROVE  /\ Changed(c, q, "file") /\ pc'[c] = "write" /\ fd'[c] = q
                    /\ put'[c] = put[c] /\ touched'[c] = touched[c] \cup {q}
  BY Zenon DEF Open
<1>1. /\ q \in Path /\ q # <<>>
      /\ Front(q) \in DOMAIN tree /\ tree[Front(q)].kind = "dir"
      /\ q \in DOMAIN tree => tree[q].kind = "file"
  <2>1. target[c] \in Path
    BY DEF Typed
  <2>2. QED
    BY <2>1, WritablePlace
<1>2. /\ pc' \in [Calls -> Steps] /\ pc'[c] = "write"
      /\ \A e \in Calls \ {c} : pc'[e] = pc[e]
  BY DEF Goto, Typed, Steps
<1>3. /\ touched' \in [Calls -> SUBSET Path]
      /\ touched'[c] = touched[c] \cup {q}
      /\ \A e \in Calls \ {c} : touched'[e] = touched[e]
  BY <1>1 DEF Touch, Typed
<1>4. /\ fd' \in [Calls -> Path] /\ fd'[c] = q
      /\ \A e \in Calls \ {c} : fd'[e] = fd[e]
  BY <1>1 DEF Typed
<1>5. Typed'
  BY <1>2, <1>3, <1>4, NotedByChange DEF Typed
<1>6. /\ IsNode(File(Truncated(q)), Content)
      /\ File(Truncated(q)).kind = "file"
  BY EmptyPath, EmptySeq DEF IsNode, File, Truncated, Content
<1>7. Changed(c, q, File(Truncated(q)).kind)
  BY <1>1, <1>2, <1>3, <1>4, <1>5, <1>6, NotedByChange, ChangeDoes
<1>8. QED
  BY <1>2, <1>3, <1>4, <1>6, <1>7

LEMMA OverwriteIs ==
    ASSUME NEW content \in Content, NEW n \in Nat \ {0}, NEW c \in Calls
    PROVE  Overwrite(content, n, c) \in Content
<1> DEFINE Block == Calls \cup {"old", "binary", "hole"}
           m == IF n > Len(content) THEN n ELSE Len(content)
<1>1. Len(content) \in Nat /\ \A i \in 1 .. Len(content) : content[i] \in Block
  BY LenProperties, ElementOfSeq DEF Content
<1>2. m \in Nat
  BY <1>1
<1>3. \A i \in 1 .. m : (IF i = n THEN c
           ELSE IF i <= Len(content) THEN content[i] ELSE "hole") \in Block
  BY <1>1
<1> HIDE DEF m, Block
<1>4. Overwrite(content, n, c) \in [1 .. m -> Block]
  BY <1>3 DEF Overwrite, m
<1>5. QED
  BY <1>2, <1>4, IsASeq DEF Content, Block

LEMMA WriteBlockDoes ==
    ASSUME IsTree(tree, Content), Typed, NEW c \in Calls, Sane(c), WriteBlock(c)
    PROVE  /\ pc[c] = "write" /\ put[c] < request[c].blocks
           /\ pc'[c] = pc[c] /\ fd'[c] = fd[c] /\ put'[c] = put[c] + 1
           /\ touched'[c] = touched[c]
           /\ \/ /\ Alone(c) /\ noted'[c] = noted[c]
                 /\ request'[c] = request[c] /\ target'[c] = target[c]
                 /\ level'[c] = level[c] /\ within'[c] = within[c]
                 /\ outcome'[c] = outcome[c]
              \/ fd[c] # <<>> /\ Changed(c, fd[c], "file")
<1>1. UNCHANGED <<swaps, pc, request, target, level, fd, outcome, touched, within>>
  BY DEF WriteBlock
<1>2. /\ put' \in [Calls -> Nat] /\ put'[c] = put[c] + 1
      /\ \A e \in Calls \ {c} : put'[e] = put[e]
      /\ pc[c] = "write" /\ put[c] < request[c].blocks
  BY DEF WriteBlock, Unwritten, Typed
<1>3. CASE UNCHANGED <<tree, noted>>
  <2>1. Typed'
    BY <1>1, <1>2, <1>3 DEF Typed
  <2>2. QED
    BY <1>1, <1>2, <1>3, <2>1 DEF Alone, Still
<1>4. CASE /\ fd[c] # <<>> /\ NoteChange(c, fd[c])
           /\ tree' = Put(tree, fd[c],
                          File(Overwrite(ContentAt(fd[c]), put[c] + 1, c)))
  <2> DEFINE node == File(Overwrite(ContentAt(fd[c]), put[c] + 1, c))
  <2>1. fd[c] \in DOMAIN tree /\ tree[fd[c]].kind = "file" /\ fd[c] \in Path
    BY <1>4 DEF Sane, Typed
  <2>2. /\ Front(fd[c]) \in DOMAIN tree /\ tree[Front(fd[c])].kind = "dir"
        /\ IsNode(tree[fd[c]], Content)
    BY <1>4, <2>1 DEF IsTree
  <2>3. IsNode(node, Content) /\ node.kind = "file"
    <3>1. ContentAt(fd[c]) \in Content
      BY <2>1, <2>2 DEF ContentAt, IsNode
    <3>2. put[c] + 1 \in Nat \ {0}
      BY DEF Typed
    <3>3. Overwrite(ContentAt(fd[c]), put[c] + 1, c) \in Content
      BY <3>1, <3>2, OverwriteIs
    <3>4. QED
      BY <3>3, EmptyPath DEF IsNode, File
  <2>4. tree' = Put(tree, fd[c], node)
    BY <1>4
  <2> HIDE DEF node
  <2>5. Typed'
    BY <1>1, <1>2, <1>4, NotedByChange DEF Typed
  <2>6. Changed(c, fd[c], node.kind)
    BY <1>1, <1>2, <1>4, <2>1, <2>2, <2>3, <2>4, <2>5, NotedByChange, ChangeDoes
  <2>7. QED
    BY <1>1, <1>2, <1>4, <2>3, <2>6
<1>5. QED
  BY <1>1, <1>2, <1>3, <1>4 DEF WriteBlock

LEMMA FailsDoes ==
    ASSUME Typed, NEW c \in Calls, SystemFails(c)
    PROVE  /\ Looks(c) /\ pc'[c] = "done" /\ pc[c] \notin {"idle", "done"}
           /\ Writes(c) => pc[c] # "handle"
           /\ level'[c] = level[c] /\ touched'[c] = touched[c]
           /\ noted'[c] = noted[c] \cup {"failed"}
<1>1. /\ UNCHANGED <<tree, swaps, request, target, level, fd, put, touched, within>>
      /\ pc' \in [Calls -> Steps] /\ pc'[c] = "done"
      /\ pc[c] \notin {"idle", "done"} /\ (Writes(c) => pc[c] # "handle")
      /\ \A e \in Calls \ {c} : pc'[e] = pc[e]
  BY DEF SystemFails, Exposed, Goto, Typed, Steps
<1>2. /\ outcome' \in [Calls -> Outcomes]
      /\ \A e \in Calls \ {c} : outcome'[e] = outcome[e]
  BY DEF SystemFails, Typed, Outcomes
<1>3. /\ noted' \in [Calls -> SUBSET Notes]
      /\ noted'[c] = noted[c] \cup {"failed"}
      /\ \A e \in Calls \ {c} : noted'[e] = noted[e]
  BY DEF SystemFails, Typed, Notes
<1>4. Typed'
  BY <1>1, <1>2, <1>3 DEF Typed
<1>5. QED
  BY <1>1, <1>2, <1>3, <1>4 DEF Looks, Alone, Still
-----------------------------------------------------------------------------
(* Types.                                                                  *)

LEMMA SaneStill ==
    ASSUME NEW e \in Calls, Sane(e), Still(e), fd'[e] \in {fd[e], <<>>},
           fd'[e] # <<>> /\ fd[e] \in DOMAIN tree /\ tree[fd[e]].kind = "file"
              => fd[e] \in DOMAIN tree' /\ tree'[fd[e]].kind = "file",
           "late" \in noted'[e] => "late" \in noted[e] \/ "disturbed" \in noted'[e]
    PROVE  Sane(e)'
  BY DEF Sane, Still, Writes

LEMMA AloneKeeps ==
    ASSUME TypeInv, NEW c \in Calls, Alone(c), Sane(c)'
    PROVE  TypeInv'
<1>1. ASSUME NEW e \in Calls \ {c} PROVE Sane(e)'
  BY <1>1, SaneStill DEF Alone, TypeInv
<1>2. QED
  BY <1>1 DEF Alone, TypeInv

LEMMA LooksKeep ==
    ASSUME TypeInv, NEW c \in Calls, Looks(c), pc[c] # "idle", pc'[c] # "idle",
           level'[c] <= Len(target[c]),
           pc'[c] \in ReadSteps => ~Writes(c), pc'[c] \in WriteSteps => Writes(c),
           pc'[c] \in {"exists", "isdir", "mkdir"} => level'[c] >= 1,
           within[c] = {} => pc'[c] = "done" /\ touched'[c] = touched[c],
           "late" \in noted'[c] => "late" \in noted[c], noted[c] \subseteq noted'[c]
    PROVE  TypeInv'
<1>1. Sane(c)'
  BY DEF Looks, Alone, Sane, TypeInv, Writes
<1>2. QED
  BY <1>1, AloneKeeps DEF Looks

LEMMA SwapTyped ==
    ASSUME TypeInv, NEW s \in Swaps, Swap(s)
    PROVE  TypeInv'
<1>1. PICK q : Swapped(q)
  BY SwapDoes DEF TypeInv
<1>2. ASSUME NEW e \in Calls PROVE Sane(e)'
  <2>1. fd[e] \in Path /\ (fd[e] # q \/ AtOrBelow(fd[e], q))
    BY DEF TypeInv, Typed, AtOrBelow
  <2>2. fd'[e] \in {fd[e], <<>>} /\ (fd'[e] # <<>> => ~AtOrBelow(fd[e], q))
    BY <1>1 DEF Swapped
  <2>3. fd'[e] # <<>> /\ fd[e] \in DOMAIN tree
           => fd[e] \in DOMAIN tree' /\ tree'[fd[e]] = tree[fd[e]]
    BY <1>1, <2>1, <2>2 DEF Swapped
  <2>4. QED
    BY <1>1, <2>2, <2>3, SaneStill DEF Swapped, TypeInv
<1>3. QED
  BY <1>1, <1>2 DEF Swapped, TypeInv

LEMMA Blocks == ASSUME NEW r \in Requests PROVE r.blocks \in Nat
  BY FilesAssumption DEF RequestType

LEMMA ResolveTyped ==
    ASSUME TypeInv, NEW c \in Calls, NEW r \in Requests, Resolve(c, r)
    PROVE  TypeInv'
<1>1. /\ Alone(c) /\ pc[c] = "idle" /\ request'[c] = r
      /\ level'[c] = level[c] /\ fd'[c] = fd[c] /\ put'[c] = put[c]
      /\ touched'[c] = touched[c]
      /\ \/ /\ pc'[c] = "done" /\ target'[c] = target[c]
            /\ noted'[c] = noted[c] /\ within'[c] = within[c]
         \/ /\ pc'[c] = "handle" /\ within'[c] = RootsFor(r)
            /\ target'[c] \in ResolvedPath(r)
            /\ noted'[c] = Noticed("obstacle", ~Clear(target'[c])) \cup
                  Noticed("cycle", InCycle(Walk(tree, Absolute(r.path))))
  BY ResolveDoes DEF TypeInv
<1>2. /\ level[c] = 0 /\ put[c] = 0 /\ within[c] = {} /\ touched[c] = {}
      /\ "late" \in noted[c] => "disturbed" \in noted[c]
      /\ fd[c] # <<>> => fd[c] \in DOMAIN tree /\ tree[fd[c]].kind = "file"
  BY <1>1 DEF TypeInv, Sane
<1>3. pc'[c] = "handle" => within'[c] # {} /\ 0 <= Len(target'[c])
  <2>1. pc'[c] = "handle" => within'[c] # {} /\ target'[c] \in Path
    BY <1>1, ResolvedIs DEF TypeInv
  <2>2. QED
    BY <2>1, LenProperties DEF Path
<1>4. "late" \in noted'[c] => "disturbed" \in noted'[c]
  BY <1>1, <1>2 DEF Noticed
<1>5. Sane(c)'
  BY <1>1, <1>2, <1>3, <1>4, Blocks DEF Sane, Alone, ReadSteps, WriteSteps
<1>6. QED
  BY <1>1, <1>5, AloneKeeps

\* A call that ends, where it is.
LEMMA EndTyped ==
    ASSUME TypeInv, NEW c \in Calls, pc[c] # "idle", NEW how \in Outcomes,
           End(c, how)
    PROVE  TypeInv'
<1>1. /\ Looks(c) /\ pc'[c] = "done" /\ level'[c] = level[c]
      /\ touched'[c] = touched[c] /\ noted'[c] = noted[c]
  BY EndDoes DEF TypeInv
<1>2. level[c] <= Len(target[c])
  BY DEF TypeInv, Sane
<1>3. QED
  BY <1>1, <1>2, LooksKeep DEF ReadSteps, WriteSteps

LEMMA GoOnTyped ==
    ASSUME TypeInv, NEW c \in Calls, pc[c] \notin {"idle", "done"},
           NEW step \in Steps \ {"idle"}, GoOn(c, step),
           step \in ReadSteps => ~Writes(c), step \in WriteSteps => Writes(c),
           step \in {"exists", "isdir", "mkdir"}
              => pc[c] \in {"exists", "isdir", "mkdir"}
    PROVE  TypeInv'
<1>1. /\ Looks(c) /\ pc'[c] = step /\ level'[c] = level[c]
      /\ touched'[c] = touched[c] /\ noted'[c] = noted[c]
  BY GoOnDoes DEF TypeInv
<1>2. /\ level[c] <= Len(target[c]) /\ within[c] # {}
      /\ pc[c] \in {"exists", "isdir", "mkdir"} => level[c] >= 1
  BY DEF TypeInv, Sane
<1>3. QED
  BY <1>1, <1>2, LooksKeep

LEMMA ReadTyped ==
    ASSUME TypeInv, NEW c \in Calls, read_file(c) \/ list_dir(c)
    PROVE  TypeInv'
<1>1. pc[c] \in {"handle", "stat", "read", "entries"}
  BY DEF read_file, ReadIsFile, ReadStat, ReadBytes, list_dir, ListIsDir, ListEntries
<1>2. ~Writes(c)
  BY DEF read_file, ReadIsFile, ReadStat, ReadBytes, list_dir, ListIsDir,
         ListEntries, TypeInv, Sane, ReadSteps, Writes
<1>3. ASSUME NEW how \in Outcomes, End(c, how) PROVE TypeInv'
  BY <1>1, <1>3, EndTyped
<1>4. ASSUME NEW step \in ReadSteps, GoOn(c, step) PROVE TypeInv'
  BY <1>1, <1>2, <1>4, GoOnTyped DEF ReadSteps, WriteSteps, Steps
<1>5. ASSUME NEW how \in Outcomes, NEW q \in Reached(tree, target[c]),
             Goto(c, "done"), outcome' = [outcome EXCEPT ![c] = how], Touch(c, q),
             UNCHANGED <<tree, swaps, request, target, level, fd, put, noted,
                         within>>
      PROVE  TypeInv'
  <2>1. q \in Path
    BY ReachedExists DEF TypeInv, Typed
  <2>2. /\ Looks(c) /\ pc'[c] = "done" /\ level'[c] = level[c]
        /\ noted'[c] = noted[c]
    BY <1>5, <2>1, TakesDoes DEF TypeInv
  <2>3. level[c] <= Len(target[c]) /\ within[c] # {}
    BY <1>1 DEF TypeInv, Sane
  <2>4. QED
    BY <1>1, <2>2, <2>3, LooksKeep DEF ReadSteps, WriteSteps
<1>6. CASE ReadIsFile(c)
  BY <1>3, <1>4, <1>6 DEF ReadIsFile, WrongKind, Outcomes, ReadSteps
<1>7. CASE ReadStat(c)
  BY <1>3, <1>4, <1>7 DEF ReadStat, Outcomes, ReadSteps
<1>8. CASE ReadBytes(c)
  BY <1>3, <1>5, <1>8 DEF ReadBytes, Outcomes
<1>9. CASE ListIsDir(c)
  BY <1>3, <1>4, <1>9 DEF ListIsDir, WrongKind, Outcomes, ReadSteps
<1>10. CASE ListEntries(c)
  BY <1>3, <1>5, <1>10 DEF ListEntries, Outcomes
<1>11. QED
  BY <1>6, <1>7, <1>8, <1>9, <1>10 DEF read_file, list_dir
LEMMA StartTyped ==
    ASSUME TypeInv, NEW c \in Calls, NEW failed \in BOOLEAN, StartWrite(c, failed)
    PROVE  TypeInv'
<1> DEFINE walk  == Walk(tree, WriteRoot)
           root  == Arrived(walk)
           below == ~failed /\ Resolves(walk) /\ Inside(root, Front(target[c]))
<1>1. /\ Alone(c) /\ pc[c] = "handle" /\ Writes(c)
      /\ request'[c] = request[c] /\ target'[c] = target[c]
      /\ fd'[c] = fd[c] /\ put'[c] = put[c]
      /\ pc'[c] = IF below THEN "walk" ELSE "target"
      /\ level'[c] = IF below THEN Len(root) ELSE Len(target[c])
      /\ within[c] \subseteq within'[c]
      /\ "late" \in noted'[c] => "late" \in noted[c] \/ "disturbed" \in noted[c]
      /\ noted[c] \subseteq noted'[c]
  BY StartWriteDoes DEF TypeInv, Noticed
<1>2. root \in Path /\ target[c] \in Path
  BY RootsAssumption, ArrivedAt DEF TypeInv, Typed
<1> HIDE DEF root, below
<1>3. level'[c] <= Len(target[c])
  <2>1. CASE below
    <3>1. CASE target[c] = <<>>
      <4>1. Front(target[c]) = <<>> /\ Len(<<>>) = 0 /\ <<>> \in Path
        BY <3>1, EmptyFront, EmptyPath
      <4>2. Len(root) <= 0
        BY <1>2, <2>1, <4>1, BelowIs DEF below, Inside
      <4>3. QED
        BY <1>1, <2>1, <3>1, <4>1, <4>2
    <3>2. CASE target[c] # <<>>
      <4>1. /\ Front(target[c]) \in Path /\ Len(target[c]) \in Nat
            /\ Len(Front(target[c])) = Len(target[c]) - 1
        BY <1>2, <3>2, FrontOf
      <4>2. Len(root) <= Len(Front(target[c])) /\ Len(root) \in Nat
        BY <1>2, <2>1, <4>1, BelowIs, LenProperties DEF below, Inside, Path
      <4>3. QED
        BY <1>1, <2>1, <4>1, <4>2
    <3>3. QED
      BY <3>1, <3>2
  <2>2. CASE ~below
    BY <1>1, <1>2, <2>2, LenProperties DEF Path
  <2>3. QED
    BY <2>1, <2>2
<1>4. Sane(c)'
  <2>1. /\ fd[c] # <<>> => fd[c] \in DOMAIN tree /\ tree[fd[c]].kind = "file"
        /\ put[c] <= request[c].blocks /\ within[c] # {}
        /\ "late" \in noted[c] => "disturbed" \in noted[c]
    BY <1>1 DEF TypeInv, Sane
  <2>2. /\ pc'[c] \notin {"idle", "done", "exists", "isdir", "mkdir"} \cup ReadSteps
        /\ Writes(c)'
    BY <1>1 DEF ReadSteps, Writes
  <2>3. within'[c] # {} /\ ("late" \in noted'[c] => "disturbed" \in noted'[c])
    BY <1>1, <2>1
  <2>4. QED
    BY <1>1, <1>3, <2>1, <2>2, <2>3 DEF Sane, Alone
<1>5. QED
  BY <1>1, <1>4, AloneKeeps

\* A step of a write that does no more than look.
LEMMA WalkTyped ==
    ASSUME TypeInv, NEW c \in Calls,
           WalkOn(c) \/ WalkExists(c) \/ WalkIsDir(c) \/ WalkDone(c) \/ CheckTarget(c)
    PROVE  TypeInv'
<1>1. pc[c] \in {"walk", "exists", "isdir", "target"}
  BY DEF WalkOn, WalkExists, WalkIsDir, WalkDone, CheckTarget
<1>2. Writes(c) /\ within[c] # {} /\ level[c] \in 0 .. Len(target[c])
      /\ Len(target[c]) \in Nat
  <2>1. target[c] \in Path /\ level[c] \in Nat
    BY DEF TypeInv, Typed
  <2>2. QED
    BY <1>1, <2>1, LenProperties DEF TypeInv, Sane, WriteSteps, Path
<1>3. ASSUME NEW how \in Outcomes, End(c, how) PROVE TypeInv'
  BY <1>1, <1>3, EndTyped
<1>4. ASSUME NEW step \in WriteSteps, GoOn(c, step),
             pc[c] \in {"exists", "isdir"} \/ step \in {"walk", "target"}
      PROVE  TypeInv'
  <2>1. /\ step \in Steps \ {"idle"} /\ step \notin ReadSteps
        /\ step \in {"exists", "isdir", "mkdir"}
              => pc[c] \in {"exists", "isdir", "mkdir"}
    BY <1>4 DEF WriteSteps, ReadSteps, Steps
  <2>2. QED
    BY <1>1, <1>2, <1>4, <2>1, GoOnTyped
<1>5. ASSUME NEW n \in 0 .. Len(target[c]), NEW step \in WriteSteps,
             step \in {"exists", "isdir", "mkdir"} => n >= 1,
             level' = [level EXCEPT ![c] = n], Goto(c, step),
             UNCHANGED <<tree, swaps, request, target, fd, put, text, outcome,
                         history>>
      PROVE  TypeInv'
  <2>1. n \in Nat /\ step \in Steps /\ step # "idle" /\ step \notin ReadSteps
    BY <1>5 DEF WriteSteps, ReadSteps, Steps
  <2>2. /\ Looks(c) /\ pc'[c] = step /\ level'[c] = n
        /\ touched'[c] = touched[c] /\ noted'[c] = noted[c]
    BY <1>5, <2>1, PassesDoes DEF TypeInv
  <2>3. QED
    BY <1>1, <1>2, <1>5, <2>1, <2>2, LooksKeep
<1>6. CASE WalkOn(c)
  <2>1. ~ParentsDone(c) => level[c] + 1 \in 1 .. Len(target[c])
    BY <1>2 DEF ParentsDone
  <2>2. CASE End(c, "path_escape")
    BY <1>3, <2>2 DEF Outcomes
  <2>3. CASE ~End(c, "path_escape")
    <3>1. /\ level' = [level EXCEPT ![c] = level[c] + 1] /\ Goto(c, "exists")
          /\ UNCHANGED <<tree, swaps, request, target, fd, put, text, outcome,
                         history>>
          /\ ~ParentsDone(c)
      BY <1>6, <2>3 DEF WalkOn
    <3>2. level[c] + 1 \in 0 .. Len(target[c]) /\ level[c] + 1 >= 1
      BY <2>1, <3>1
    <3>3. QED
      BY <1>5, <3>1, <3>2 DEF WriteSteps
  <2>4. QED
    BY <2>2, <2>3
<1>7. CASE WalkExists(c)
  BY <1>4, <1>7 DEF WalkExists, WriteSteps
<1>8. CASE WalkIsDir(c)
  BY <1>3, <1>4, <1>8 DEF WalkIsDir, WriteSteps, Outcomes
<1>9. CASE WalkDone(c)
  BY <1>4, <1>9 DEF WalkDone, WriteSteps
<1>10. CASE CheckTarget(c)
  <2>1. Len(target[c]) \in 0 .. Len(target[c])
    BY <1>2
  <2>2. QED
    BY <1>3, <1>5, <1>10, <2>1 DEF CheckTarget, Outcomes, WriteSteps
<1>11. QED
  BY <1>6, <1>7, <1>8, <1>9, <1>10

LEMMA ChangedTyped ==
    ASSUME TypeInv, NEW c \in Calls, NEW q, NEW kind, Changed(c, q, kind),
           pc'[c] \in {"walk", "write"}, pc[c] # "idle", Writes(c), within[c] # {},
           fd'[c] \in {fd[c], q}, fd'[c] # fd[c] => kind = "file",
           put'[c] <= request[c].blocks,
           \A e \in Calls : fd[e] = q => kind = "file"
    PROVE  TypeInv'
<1>1. \A p \in DOMAIN tree : p # q => p \in DOMAIN tree' /\ tree'[p] = tree[p]
  BY DEF Changed
<1>2. q \in DOMAIN tree' /\ tree'[q].kind = kind
  BY DEF Changed
<1>3. ASSUME NEW e \in Calls
      PROVE  fd[e] # <<>> => fd[e] \in DOMAIN tree' /\ tree'[fd[e]].kind = "file"
  BY <1>1, <1>2 DEF TypeInv, Sane
<1>4. ASSUME NEW e \in Calls \ {c} PROVE Sane(e)'
  BY <1>3, <1>4, SaneStill DEF Changed, TypeInv
<1>5. Sane(c)'
  <2>1. fd'[c] # <<>> => fd'[c] \in DOMAIN tree' /\ tree'[fd'[c]].kind = "file"
    BY <1>2, <1>3
  <2>2. /\ request'[c] = request[c] /\ target'[c] = target[c]
        /\ level'[c] = level[c] /\ within'[c] = within[c]
        /\ "late" \in noted'[c] => "late" \in noted[c]
        /\ noted[c] \subseteq noted'[c]
    BY DEF Changed
  <2>3. level[c] <= Len(target[c]) /\ ("late" \in noted[c] => "disturbed" \in noted[c])
    BY DEF TypeInv, Sane
  <2>4. QED
    BY <2>1, <2>2, <2>3 DEF Sane, Writes, ReadSteps
<1>6. QED
  BY <1>4, <1>5 DEF TypeInv, Changed

LEMMA WriteTyped ==
    ASSUME TypeInv, NEW c \in Calls,
           \/ WalkMkdir(c) \/ Open(c) \/ EncodeFails(c) \/ WriteBlock(c)
           \/ Close(c)
    PROVE  TypeInv'
<1>1. pc[c] \in {"mkdir", "open", "write"}
  BY DEF WalkMkdir, Open, EncodeFails, WriteBlock, Close
<1>2. /\ Writes(c) /\ within[c] # {} /\ put[c] <= request[c].blocks /\ put[c] \in Nat
      /\ level[c] <= Len(target[c]) /\ request[c].blocks \in Nat
      /\ \A e \in Calls : fd[e] # <<>> => fd[e] \in DOMAIN tree
                                          /\ tree[fd[e]].kind = "file"
  BY <1>1, Blocks DEF TypeInv, Typed, Sane, WriteSteps
<1>3. ASSUME NEW how \in Outcomes, End(c, how) PROVE TypeInv'
  BY <1>1, <1>3, EndTyped
<1>4. CASE WalkMkdir(c)
  <2>1. ASSUME NEW q \in Entry(tree, Current(c)) \ DOMAIN tree,
               Changed(c, q, "dir"), pc'[c] = "walk", fd'[c] = fd[c],
               put'[c] = put[c]
        PROVE  TypeInv'
    <3>1. \A e \in Calls : fd[e] # q
      BY <1>2, <2>1 DEF Changed
    <3>2. QED
      BY <1>1, <1>2, <2>1, <3>1, ChangedTyped
  <2>2. QED
    BY <1>3, <1>4, <2>1, WalkMkdirDoes DEF TypeInv, Outcomes
<1>5. CASE Open(c)
  <2>1. ASSUME NEW q, Changed(c, q, "file"), pc'[c] = "write", fd'[c] = q,
               put'[c] = put[c]
        PROVE  TypeInv'
    BY <1>1, <1>2, <2>1, ChangedTyped
  <2>2. QED
    BY <1>3, <1>5, <2>1, OpenDoes DEF TypeInv, Outcomes
<1>6. CASE EncodeFails(c)
  BY <1>3, <1>6 DEF EncodeFails, Outcomes
<1>7. CASE WriteBlock(c)
  <2>1. /\ put'[c] = put[c] + 1 /\ pc'[c] = "write" /\ fd'[c] = fd[c]
        /\ touched'[c] = touched[c] /\ put[c] < request[c].blocks
    BY <1>7, WriteBlockDoes DEF TypeInv
  <2>2. put'[c] <= request[c].blocks
    BY <1>2, <2>1
  <2>3. CASE /\ Alone(c) /\ noted'[c] = noted[c]
             /\ request'[c] = request[c] /\ target'[c] = target[c]
             /\ level'[c] = level[c] /\ within'[c] = within[c]
    <3>1. Sane(c)'
      BY <1>1, <1>2, <2>1, <2>2, <2>3 DEF Sane, Alone, TypeInv, Writes, ReadSteps
    <3>2. QED
      BY <2>3, <3>1, AloneKeeps
  <2>4. CASE Changed(c, fd[c], "file")
    BY <1>1, <1>2, <2>1, <2>2, <2>4, ChangedTyped
  <2>5. QED
    BY <1>7, <2>3, <2>4, WriteBlockDoes DEF TypeInv
<1>8. CASE Close(c)
  BY <1>3, <1>8 DEF Close, Outcomes
<1>9. QED
  BY <1>4, <1>5, <1>6, <1>7, <1>8

LEMMA FailsTyped ==
    ASSUME TypeInv, NEW c \in Calls, SystemFails(c)
    PROVE  TypeInv'
<1>1. /\ Looks(c) /\ pc'[c] = "done" /\ pc[c] # "idle" /\ level'[c] = level[c]
      /\ touched'[c] = touched[c] /\ noted'[c] = noted[c] \cup {"failed"}
  BY FailsDoes DEF TypeInv
<1>2. level[c] <= Len(target[c])
  BY DEF TypeInv, Sane
<1>3. QED
  BY <1>1, <1>2, LooksKeep DEF ReadSteps, WriteSteps

LEMMA TypeStep == TypeInv /\ [Next]_vars => TypeInv'
<1> SUFFICES ASSUME TypeInv, [Next]_vars PROVE TypeInv'
  OBVIOUS
<1>1. CASE UNCHANGED vars
  <2>1. UNCHANGED <<tree, swaps, pc, request, target, level, fd, put, outcome,
                    touched, noted, within>>
    BY <1>1 DEF vars, handler, history
  <2>2. Typed'
    BY <2>1 DEF TypeInv, Typed
  <2>3. ASSUME NEW e \in Calls PROVE Sane(e)'
    BY <2>1 DEF TypeInv, Sane, Writes
  <2>4. QED
    BY <2>1, <2>2, <2>3 DEF TypeInv
<1>2. ASSUME NEW s \in Swaps, Swap(s) PROVE TypeInv'
  BY <1>2, SwapTyped
<1>3. ASSUME NEW c \in Calls, NEW r \in Requests, Resolve(c, r) PROVE TypeInv'
  BY <1>3, ResolveTyped
<1>4. ASSUME NEW c \in Calls, read_file(c) \/ list_dir(c) PROVE TypeInv'
  BY <1>4, ReadTyped
<1>5. ASSUME NEW c \in Calls, write_file(c) PROVE TypeInv'
  BY <1>5, StartTyped, WalkTyped, WriteTyped DEF write_file, make_parents
<1>6. ASSUME NEW c \in Calls, SystemFails(c) PROVE TypeInv'
  BY <1>6, FailsTyped
<1>7. QED
  BY <1>1, <1>2, <1>3, <1>4, <1>5, <1>6 DEF Next

LEMMA TypeInit == Init => TypeInv
<1> SUFFICES ASSUME Init PROVE TypeInv
  OBVIOUS
<1>1. (CHOOSE r \in Requests : TRUE) \in Requests
  BY FilesAssumption
<1>2. IsTree(tree, Content)
  BY FilesAssumption DEF Init
<1>3. Typed
  BY <1>1, EmptyPath, FilesAssumption DEF Init, Typed, Steps, Outcomes
<1>4. ASSUME NEW c \in Calls PROVE Sane(c)
  BY <1>1, Blocks, EmptyPath DEF Init, Sane, ReadSteps, WriteSteps
<1>5. QED
  BY <1>2, <1>3, <1>4 DEF TypeInv

LEMMA TypeAlways == Spec => []TypeInv
  BY TypeInit, TypeStep, PTL DEF Spec

\* The tree stays a tree, whatever is put into it or removed from it and by
\* whom: what is written to, made or removed is always an entry of a directory
\* that is there.  And a write that has a file open has one that is there.
THEOREM TreeStaysTree == Spec => []TypeOK
<1>1. TypeInv => TypeOK
  <2> SUFFICES ASSUME TypeInv PROVE TypeOK
    OBVIOUS
  <2>1. ASSUME NEW c \in Calls
        PROVE  level[c] \in 0 .. Len(target[c]) /\ put[c] \in 0 .. request[c].blocks
    <3>1. /\ level[c] \in Nat /\ level[c] <= Len(target[c]) /\ put[c] \in Nat
          /\ put[c] <= request[c].blocks /\ target[c] \in Path
          /\ request[c] \in Requests
      BY DEF TypeInv, Typed, Sane
    <3>2. Len(target[c]) \in Nat /\ request[c].blocks \in Nat
      BY <3>1, Blocks, LenProperties DEF Path
    <3>3. QED
      BY <3>1, <3>2
  <2>2. QED
    BY <2>1 DEF TypeInv, Typed, Sane, TypeOK
<1>2. QED
  BY <1>1, TypeAlways, PTL
-----------------------------------------------------------------------------
(* What a call touches lies inside.                                        *)

NoLinks(t, p, n) == \A i \in 1 .. n : ~IsLinkAt(t, SubSeq(p, 1, i))

\* How much of its path is as the call has seen it: the part that a write has
\* looked at again, and before it looks what it was resolved to.
Settled(c) ==
    IF Writes(c) /\ pc[c] # "handle" THEN level[c]
    ELSE IF Writes(c) /\ "disturbed" \in noted[c] THEN 0 ELSE Len(target[c])

Spared(c) == within[c] # {} /\ noted[c] \cap {"late", "cycle"} = {}

\* A write looks at every component below the root that its target lies in.
Rooted(c) ==
    \E root \in within[c] :
        /\ Inside(root, target[c])
        /\ Writes(c) /\ pc[c] # "handle" => Len(root) <= level[c]

Placed(c) ==
    /\ pc[c] = "target" => level[c] + 1 >= Len(target[c])
    /\ pc[c] = "open" => level[c] = Len(target[c])

Within(c, q) == \E root \in within[c] : Inside(root, q)

InsideAt(c) ==
    Spared(c) =>
        /\ NoDots(target[c]) /\ NoLinks(tree, target[c], Settled(c))
        /\ Rooted(c) /\ Placed(c)
        /\ \A q \in touched[c] : Within(c, q)

InsideInv == TypeInv /\ \A c \in Calls : InsideAt(c)

\* How far a path is known to have no link.
LEMMA RealFirst ==
    ASSUME NEW t, NEW p \in Path, NoDots(p), NEW n \in 0 .. Len(p), NoLinks(t, p, n)
    PROVE  /\ Real(t, SubSeq(p, 1, n)) /\ SubSeq(p, 1, n) \in Path
           /\ Len(SubSeq(p, 1, n)) = n /\ n <= MaxSteps
<1> DEFINE q == SubSeq(p, 1, n)
<1>1. /\ q \in Path /\ Len(q) = n /\ Len(p) \in Nat
      /\ \A i \in 1 .. n : q[i] = p[i] /\ SubSeq(q, 1, i) = SubSeq(p, 1, i)
  BY FirstOf
<1> HIDE DEF q
<1>2. ASSUME NEW i \in 1 .. n PROVE q[i] # ".." /\ ~IsLinkAt(t, SubSeq(q, 1, i))
  <2>1. i \in 1 .. Len(p)
    BY <1>1
  <2>2. p[i] # ".." /\ ~IsLinkAt(t, SubSeq(p, 1, i))
    BY <2>1 DEF NoDots, NoLinks
  <2>3. QED
    BY <1>1, <2>2
<1>3. n <= MaxSteps
  <2>1. MaxSteps \in Nat /\ Len(p) <= MaxSteps
    BY RootsAssumption DEF NoDots
  <2>2. QED
    BY <1>1, <2>1
<1>4. Real(t, q)
  BY <1>1, <1>2 DEF Real
<1>5. QED
  BY <1>1, <1>3, <1>4 DEF q

LEMMA FrontOfFirst ==
    ASSUME NEW p \in Path, NEW n \in 1 .. Len(p)
    PROVE  /\ SubSeq(p, 1, n) \in Path /\ SubSeq(p, 1, n) # <<>>
           /\ Len(SubSeq(p, 1, n)) = n
           /\ Front(SubSeq(p, 1, n)) = SubSeq(p, 1, n - 1)
<1> DEFINE q == SubSeq(p, 1, n)
<1>1. /\ q \in Path /\ Len(q) = n /\ Len(p) \in Nat
      /\ \A i \in 1 .. n : SubSeq(q, 1, i) = SubSeq(p, 1, i)
  <2>1. n \in 0 .. Len(p)
    BY LenProperties DEF Path
  <2>2. QED
    BY <2>1, FirstOf
<1> HIDE DEF q
<1>2. q # <<>>
  BY <1>1, EmptyPath
<1>3. SubSeq(q, 1, n - 1) = SubSeq(p, 1, n - 1)
  <2>1. CASE n = 1
    BY <2>1, SubSeqEmpty
  <2>2. CASE n # 1
    <3>1. n - 1 \in 1 .. n
      BY <2>2
    <3>2. QED
      BY <1>1, <3>1
  <2>3. QED
    BY <2>1, <2>2
<1>4. QED
  BY <1>1, <1>2, <1>3 DEF q, Front

\* A component that is looked at next and is no link.
LEMMA OneFurther ==
    ASSUME NEW C, NEW t, IsTree(t, C), NEW p \in Path, NoDots(p),
           NEW n \in 1 .. Len(p), NoLinks(t, p, n - 1),
           ~IsSymlink(t, SubSeq(p, 1, n))
    PROVE  NoLinks(t, p, n)
<1>0. Len(p) \in Nat /\ n - 1 \in 0 .. Len(p)
  BY LenProperties DEF Path
<1>1. /\ Real(t, SubSeq(p, 1, n - 1)) /\ n - 1 <= MaxSteps
      /\ SubSeq(p, 1, n) \in Path /\ SubSeq(p, 1, n) # <<>>
      /\ Len(SubSeq(p, 1, n)) = n
      /\ Front(SubSeq(p, 1, n)) = SubSeq(p, 1, n - 1)
  BY <1>0, RealFirst, FrontOfFirst
<1>2. ~IsLinkAt(t, SubSeq(p, 1, n))
  BY <1>1, SymlinkSeen
<1>3. \A i \in 1 .. n : i = n \/ i \in 1 .. n - 1
  OBVIOUS
<1>4. QED
  BY <1>2, <1>3 DEF NoLinks

\* The part of a path that reaches as far as a root it lies in lies in it too.
LEMMA InsideFirst ==
    ASSUME NEW p \in Path, NEW root \in Path, Inside(root, p),
           NEW n \in 0 .. Len(p), Len(root) <= n
    PROVE  Inside(root, SubSeq(p, 1, n))
<1> DEFINE q == SubSeq(p, 1, n)
<1>1. /\ q \in Path /\ Len(q) = n /\ Len(p) \in Nat
      /\ \A i \in 1 .. n : SubSeq(q, 1, i) = SubSeq(p, 1, i)
  BY FirstOf
<1>2. Len(root) \in Nat /\ SubSeq(p, 1, Len(root)) = root
  BY BelowIs, LenProperties DEF Inside, Path
<1> HIDE DEF q
<1>3. SubSeq(q, 1, Len(root)) = root
  <2>1. CASE Len(root) = 0
    BY <1>2, <2>1, SubSeqEmpty
  <2>2. CASE Len(root) # 0
    BY <1>1, <1>2, <2>2
  <2>3. QED
    BY <2>1, <2>2
<1>4. Inside(root, q)
  BY <1>1, <1>3, BelowIs DEF Inside
<1>5. QED
  BY <1>4 DEF q

\* A call that stays where it was, when no link came up where it has looked.
LEMMA InsideStill ==
    ASSUME TypeInv, NEW e \in Calls, InsideAt(e), Still(e),
           ASSUME NEW i \in 1 .. Settled(e),
                  IsLinkAt(tree', SubSeq(target[e], 1, i)), Spared(e)',
                  Writes(e) /\ pc[e] = "handle" => "disturbed" \notin noted'[e]
           PROVE  IsLinkAt(tree, SubSeq(target[e], 1, i))
    PROVE  InsideAt(e)'
<1> SUFFICES ASSUME Spared(e)' PROVE InsideAt(e)'
  BY DEF InsideAt
<1>1. Spared(e)
  BY DEF Spared, Still
<1>2. /\ NoDots(target[e]) /\ NoLinks(tree, target[e], Settled(e))
      /\ Rooted(e) /\ Placed(e) /\ \A q \in touched[e] : Within(e, q)
  BY <1>1 DEF InsideAt
<1>3. Rooted(e)' /\ Placed(e)' /\ NoDots(target'[e])
      /\ \A q \in touched'[e] : Within(e, q)'
  BY <1>2 DEF Still, Rooted, Placed, Writes, Within
<1>4. NoLinks(tree', target'[e], Settled(e)')
  <2>1. CASE Writes(e) /\ pc[e] = "handle" /\ "disturbed" \in noted'[e]
    BY <2>1 DEF Still, Settled, Writes, NoLinks
  <2>2. CASE ~(Writes(e) /\ pc[e] = "handle" /\ "disturbed" \in noted'[e])
    <3>1. Settled(e)' = Settled(e) /\ target'[e] = target[e]
      BY <2>2 DEF Still, Settled, Writes
    <3>2. QED
      BY <1>2, <2>2, <3>1 DEF NoLinks
  <2>3. QED
    BY <2>1, <2>2
<1>5. QED
  BY <1>3, <1>4 DEF InsideAt

LEMMA AloneInside ==
    ASSUME InsideInv, TypeInv', NEW c \in Calls, Alone(c), InsideAt(c)'
    PROVE  InsideInv'
<1>1. ASSUME NEW e \in Calls \ {c} PROVE InsideAt(e)'
  BY <1>1, InsideStill DEF Alone, InsideInv
<1>2. QED
  BY <1>1 DEF InsideInv

\* A call has looked, and touched nothing but what lies inside.
LEMMA LooksInside ==
    ASSUME InsideInv, TypeInv', NEW c \in Calls, Looks(c),
           Writes(c) => pc[c] # "handle" /\ level[c] <= level'[c],
           pc'[c] # "handle", noted[c] \subseteq noted'[c],
           ~Writes(c) => pc'[c] \notin {"target", "open"},
           Spared(c) => \A q \in touched'[c] : q \in touched[c] \/ Within(c, q),
           Spared(c) /\ Writes(c) /\ NoDots(target[c])
              /\ NoLinks(tree, target[c], level[c]) /\ Placed(c)
              => NoLinks(tree, target[c], level'[c]) /\ Placed(c)'
    PROVE  InsideInv'
<1>1. SUFFICES ASSUME Spared(c)' PROVE InsideAt(c)'
  BY AloneInside DEF InsideAt, Looks
<1>2. /\ tree' = tree /\ request'[c] = request[c] /\ target'[c] = target[c]
      /\ within'[c] = within[c]
  BY DEF Looks, Alone
<1>3. Spared(c)
  BY <1>1, <1>2 DEF Spared
<1>4. /\ NoDots(target[c]) /\ NoLinks(tree, target[c], Settled(c))
      /\ Rooted(c) /\ Placed(c) /\ \A q \in touched[c] : Within(c, q)
  BY <1>3 DEF InsideInv, InsideAt
<1>5. NoLinks(tree', target'[c], Settled(c)') /\ Placed(c)'
  <2>1. CASE Writes(c)
    <3>1. Settled(c) = level[c] /\ Settled(c)' = level'[c]
      BY <1>2, <2>1 DEF Settled, Writes
    <3>2. QED
      BY <1>2, <1>3, <1>4, <2>1, <3>1
  <2>2. CASE ~Writes(c)
    <3>1. Settled(c) = Len(target[c]) /\ Settled(c)' = Len(target[c])
      BY <1>2, <2>2 DEF Settled, Writes
    <3>2. QED
      BY <1>2, <1>4, <2>2, <3>1 DEF Placed
  <2>3. QED
    BY <2>1, <2>2
<1>6. Rooted(c)'
  <2>1. PICK root \in within[c] :
          /\ Inside(root, target[c])
          /\ Writes(c) /\ pc[c] # "handle" => Len(root) <= level[c]
    BY <1>4 DEF Rooted
  <2>2. root \in Path /\ level[c] \in Nat /\ level'[c] \in Nat
    BY DEF InsideInv, TypeInv, Typed
  <2>3. Len(root) \in Nat
    BY <2>2, LenProperties DEF Path
  <2>4. Writes(c) => Len(root) <= level'[c]
    BY <2>1, <2>2, <2>3
  <2>5. QED
    BY <1>2, <2>1, <2>4 DEF Rooted, Writes
<1>7. \A q \in touched'[c] : Within(c, q)'
  BY <1>2, <1>3, <1>4 DEF Within
<1>8. QED
  BY <1>2, <1>4, <1>5, <1>6, <1>7 DEF InsideAt

LEMMA SwapInside ==
    ASSUME InsideInv, TypeInv', NEW s \in Swaps, Swap(s)
    PROVE  InsideInv'
<1>1. PICK q : Swapped(q)
  BY SwapDoes DEF InsideInv, TypeInv
<1>2. ASSUME NEW e \in Calls PROVE InsideAt(e)'
  <2>1. Still(e)
    BY <1>1 DEF Swapped
  <2>2. ASSUME NEW i \in 1 .. Settled(e),
               IsLinkAt(tree', SubSeq(target[e], 1, i)), Spared(e)',
               Writes(e) /\ pc[e] = "handle" => "disturbed" \notin noted'[e]
        PROVE  IsLinkAt(tree, SubSeq(target[e], 1, i))
    <3> DEFINE p == SubSeq(target[e], 1, i)
    <3>1. /\ target[e] \in Path /\ level[e] \in Nat /\ level[e] <= Len(target[e])
          /\ within[e] # {} /\ pc[e] # "idle"
      BY <2>1, <2>2 DEF InsideInv, TypeInv, Typed, Sane, Spared, Still
    <3>2. i \in 1 .. Len(target[e]) /\ Len(target[e]) \in Nat
      BY <2>2, <3>1, LenProperties DEF Settled, Path
    <3>3. p \in Path /\ Len(p) = i
      BY <3>1, <3>2, FrontOfFirst
    <3> HIDE DEF p
    <3>4. p # q
      <4>1. SUFFICES ASSUME p = q PROVE FALSE
        OBVIOUS
      <4>2. AtOrBelow(target[e], q) /\ Len(q) = i
        <5>1. q \in Path /\ Len(q) = i /\ i <= Len(target[e])
          BY <3>2, <3>3, <4>1
        <5>2. SubSeq(target[e], 1, i) = q
          BY <4>1 DEF p
        <5>3. QED
          BY <3>1, <5>1, <5>2, BelowIs
      <4>3. "disturbed" \in noted'[e]
        BY <1>1, <3>1, <4>2 DEF Swapped
      <4>4. Settled(e) = Checked(e)
        BY <2>1, <2>2, <4>3 DEF Settled, Checked, Still
      <4>5. "late" \in noted'[e]
        BY <1>1, <3>1, <4>2, <4>4 DEF Swapped
      <4>6. QED
        BY <2>2, <4>5 DEF Spared
    <3>5. IsLinkAt(tree', p)
      BY <2>2 DEF p
    <3>6. p \in DOMAIN tree /\ tree'[p] = tree[p]
      BY <1>1, <3>3, <3>4, <3>5 DEF Swapped, IsLinkAt
    <3>7. QED
      BY <3>5, <3>6 DEF IsLinkAt, p
  <2>3. QED
    BY <2>1, <2>2, InsideStill DEF InsideInv
<1>3. QED
  BY <1>2 DEF InsideInv

LEMMA ResolveInside ==
    ASSUME InsideInv, TypeInv', NEW c \in Calls, NEW r \in Requests, Resolve(c, r)
    PROVE  InsideInv'
<1>1. /\ Alone(c) /\ pc[c] = "idle" /\ request'[c] = r
      /\ touched'[c] = touched[c]
      /\ \/ pc'[c] = "done" /\ within'[c] = within[c]
         \/ /\ pc'[c] = "handle" /\ within'[c] = RootsFor(r)
            /\ target'[c] \in ResolvedPath(r)
            /\ noted'[c] = Noticed("obstacle", ~Clear(target'[c])) \cup
                  Noticed("cycle", InCycle(Walk(tree, Absolute(r.path))))
  BY ResolveDoes DEF InsideInv, TypeInv
<1>2. within[c] = {} /\ touched[c] = {}
  BY <1>1 DEF InsideInv, TypeInv, Sane
<1>3. SUFFICES ASSUME Spared(c)' PROVE InsideAt(c)'
  BY <1>1, AloneInside DEF InsideAt
<1>4. /\ pc'[c] = "handle" /\ within'[c] = RootsFor(r)
      /\ target'[c] \in ResolvedPath(r)
      /\ ~InCycle(Walk(tree, Absolute(r.path)))
  BY <1>1, <1>2, <1>3 DEF Spared, Noticed
<1>5. /\ target'[c] \in Path /\ NoDots(target'[c]) /\ Real(tree, target'[c])
      /\ \E root \in RootsFor(r) : Inside(root, target'[c])
  BY <1>4, ResolvedIs DEF InsideInv, TypeInv
<1>6. Rooted(c)' /\ Placed(c)' /\ touched'[c] = {}
  BY <1>1, <1>2, <1>4, <1>5 DEF Rooted, Placed
<1>7. NoLinks(tree', target'[c], Settled(c)')
  <2>1. tree' = tree
    BY <1>1 DEF Alone
  <2>2. Settled(c)' \in {0, Len(target'[c])} /\ Len(target'[c]) \in Nat
    BY <1>4, <1>5, LenProperties DEF Settled, Path
  <2>3. QED
    BY <1>5, <2>1, <2>2 DEF Real, NoLinks
<1>8. QED
  BY <1>5, <1>6, <1>7 DEF InsideAt

\* A path a call has wholly settled leads to itself.
LEMMA SettledIs ==
    ASSUME TypeInv, NEW c \in Calls, Spared(c), InsideAt(c),
           Settled(c) = Len(target[c])
    PROVE  /\ Real(tree, target[c]) /\ Len(target[c]) <= MaxSteps
           /\ target[c] \in Path /\ Within(c, target[c])
<1>1. /\ target[c] \in Path /\ NoDots(target[c])
      /\ NoLinks(tree, target[c], Len(target[c])) /\ Rooted(c)
  BY DEF InsideAt, TypeInv, Typed
<1>2. Len(target[c]) \in 0 .. Len(target[c])
      /\ SubSeq(target[c], 1, Len(target[c])) = target[c]
  BY <1>1, LenProperties, SubSeqFull DEF Path
<1>3. Real(tree, target[c])
  BY <1>1, <1>2, RealFirst
<1>4. QED
  BY <1>1, <1>3 DEF Rooted, Within, NoDots

LEMMA ReadInside ==
    ASSUME InsideInv, TypeInv', NEW c \in Calls, read_file(c) \/ list_dir(c)
    PROVE  InsideInv'
<1>1. ~Writes(c)
  BY DEF read_file, ReadIsFile, ReadStat, ReadBytes, list_dir, ListIsDir,
         ListEntries, InsideInv, TypeInv, Sane, ReadSteps, Writes
<1>2. ASSUME NEW how \in Outcomes, End(c, how) PROVE InsideInv'
  <2>1. /\ Looks(c) /\ pc'[c] = "done" /\ touched'[c] = touched[c]
        /\ noted'[c] = noted[c]
    BY <1>2, EndDoes DEF InsideInv, TypeInv
  <2>2. QED
    BY <1>1, <2>1, LooksInside
<1>3. ASSUME NEW step \in ReadSteps, GoOn(c, step) PROVE InsideInv'
  <2>1. step \in Steps /\ step \notin {"handle", "target", "open"}
    BY DEF ReadSteps, Steps
  <2>2. /\ Looks(c) /\ pc'[c] = step /\ touched'[c] = touched[c]
        /\ noted'[c] = noted[c]
    BY <1>3, <2>1, GoOnDoes DEF InsideInv, TypeInv
  <2>3. QED
    BY <1>1, <2>1, <2>2, LooksInside
<1>4. ASSUME NEW how \in Outcomes, NEW q \in Reached(tree, target[c]),
             Goto(c, "done"), outcome' = [outcome EXCEPT ![c] = how], Touch(c, q),
             UNCHANGED <<tree, swaps, request, target, level, fd, put, noted,
                         within>>
      PROVE  InsideInv'
  <2>1. q \in Path
    BY ReachedExists DEF InsideInv, TypeInv, Typed
  <2>2. /\ Looks(c) /\ pc'[c] = "done" /\ noted'[c] = noted[c]
        /\ touched'[c] = touched[c] \cup {q}
    BY <1>4, <2>1, TakesDoes DEF InsideInv, TypeInv
  <2>3. Spared(c) => Within(c, q)
    <3>1. SUFFICES ASSUME Spared(c) PROVE Within(c, q)
      OBVIOUS
    <3>2. Settled(c) = Len(target[c])
      BY <1>1 DEF Settled
    <3>3. /\ Real(tree, target[c]) /\ Len(target[c]) <= MaxSteps
          /\ target[c] \in Path /\ Within(c, target[c])
      BY <3>1, <3>2, SettledIs DEF InsideInv
    <3>4. q = target[c]
      BY <3>3, ReachedReal DEF InsideInv, TypeInv
    <3>5. QED
      BY <3>3, <3>4
  <2>4. QED
    BY <1>1, <2>2, <2>3, LooksInside
<1>5. CASE ReadIsFile(c)
  BY <1>2, <1>3, <1>5 DEF ReadIsFile, WrongKind, Outcomes, ReadSteps
<1>6. CASE ReadStat(c)
  BY <1>2, <1>3, <1>6 DEF ReadStat, Outcomes, ReadSteps
<1>7. CASE ReadBytes(c)
  BY <1>2, <1>4, <1>7 DEF ReadBytes, Outcomes
<1>8. CASE ListIsDir(c)
  BY <1>2, <1>3, <1>8 DEF ListIsDir, WrongKind, Outcomes, ReadSteps
<1>9. CASE ListEntries(c)
  BY <1>2, <1>4, <1>9 DEF ListEntries, Outcomes
<1>10. QED
  BY <1>5, <1>6, <1>7, <1>8, <1>9 DEF read_file, list_dir
LEMMA StartInside ==
    ASSUME InsideInv, TypeInv', NEW c \in Calls, NEW failed \in BOOLEAN,
           StartWrite(c, failed)
    PROVE  InsideInv'
<1> DEFINE walk  == Walk(tree, WriteRoot)
           root  == Arrived(walk)
           below == ~failed /\ Resolves(walk) /\ Inside(root, Front(target[c]))
<1>1. /\ Alone(c) /\ pc[c] = "handle" /\ Writes(c)
      /\ request'[c] = request[c] /\ target'[c] = target[c]
      /\ touched'[c] = touched[c]
      /\ pc'[c] = IF below THEN "walk" ELSE "target"
      /\ level'[c] = IF below THEN Len(root) ELSE Len(target[c])
      /\ within'[c] = within[c] \cup Noticed(root, below)
      /\ noted[c] \subseteq noted'[c]
      /\ "disturbed" \in noted[c] /\ (InCycle(walk) \/ ~below) => "late" \in noted'[c]
  BY StartWriteDoes DEF InsideInv, TypeInv, Noticed
<1>2. /\ root \in Path /\ target[c] \in Path /\ Len(target[c]) \in Nat
      /\ ~InCycle(walk) => Real(tree, root)
  BY RootsAssumption, ArrivedAt, LenProperties DEF InsideInv, TypeInv, Typed, Path
<1> HIDE DEF root, below, walk
<1>3. SUFFICES ASSUME Spared(c)' PROVE InsideAt(c)'
  BY <1>1, AloneInside DEF InsideAt
<1>4. Spared(c)
  <2>1. within[c] # {}
    BY <1>1 DEF InsideInv, TypeInv, Sane
  <2>2. QED
    BY <1>1, <1>3, <2>1 DEF Spared
<1>5. /\ NoDots(target[c]) /\ NoLinks(tree, target[c], Settled(c)) /\ Rooted(c)
      /\ \A q \in touched[c] : Within(c, q)
  BY <1>4 DEF InsideInv, InsideAt
<1>6. "disturbed" \notin noted[c] => NoLinks(tree, target[c], Len(target[c]))
  BY <1>1, <1>5 DEF Settled
<1>7. "disturbed" \notin noted[c] \/ (~InCycle(walk) /\ below)
  BY <1>1, <1>3 DEF Spared
<1>8. below => Inside(root, target[c]) /\ Len(root) <= Len(target[c])
  <2>1. SUFFICES ASSUME below PROVE Inside(root, target[c])
    BY <1>2, BelowIs DEF Inside
  <2>2. CASE target[c] = <<>>
    BY <2>1, <2>2, EmptyFront DEF below
  <2>3. CASE target[c] # <<>>
    <3>1. Front(target[c]) \in Path
      BY <1>2, <2>3, FrontOf
    <3>2. AtOrBelow(Front(target[c]), root)
      BY <1>2, <2>1, <3>1, BelowIs DEF below, Inside
    <3>3. QED
      BY <1>2, <2>3, <3>2, FrontBelow, BelowIs DEF Inside
  <2>4. QED
    BY <2>2, <2>3
<1>9. Rooted(c)'
  <2>1. CASE below
    <3>1. root \in within'[c]
      BY <1>1, <2>1 DEF Noticed
    <3>2. Len(root) <= level'[c]
      <4>1. Len(root) \in Nat
        BY <1>2, LenProperties DEF Path
      <4>2. QED
        BY <1>1, <2>1, <4>1
    <3>3. QED
      BY <1>1, <1>8, <2>1, <3>1, <3>2 DEF Rooted
  <2>2. CASE ~below
    <3>1. PICK other \in within[c] : Inside(other, target[c])
      BY <1>5 DEF Rooted
    <3>2. other \in Path
      BY DEF InsideInv, TypeInv, Typed
    <3>3. Len(other) <= Len(target[c])
      BY <1>2, <3>1, <3>2, BelowIs DEF Inside
    <3>4. QED
      BY <1>1, <2>2, <3>1, <3>3 DEF Rooted
  <2>3. QED
    BY <2>1, <2>2
<1>10. NoLinks(tree', target'[c], Settled(c)')
  <2>1. /\ tree' = tree /\ target'[c] = target[c] /\ Settled(c)' = level'[c]
    BY <1>1 DEF Alone, Settled, Writes
  <2>2. CASE "disturbed" \notin noted[c]
    <3>1. Len(root) \in Nat /\ level'[c] <= Len(target[c]) /\ level'[c] \in Nat
      BY <1>1, <1>2, <1>8, LenProperties DEF Path
    <3>2. 1 .. level'[c] \subseteq 1 .. Len(target[c])
      BY <1>2, <3>1
    <3>3. QED
      BY <1>6, <2>1, <2>2, <3>2 DEF NoLinks
  <2>3. CASE ~InCycle(walk) /\ below
    <3>1. /\ level'[c] = Len(root) /\ Real(tree, root) /\ Len(root) \in Nat
          /\ Len(root) <= Len(target[c]) /\ SubSeq(target[c], 1, Len(root)) = root
      BY <1>1, <1>2, <1>8, <2>3, BelowIs, LenProperties DEF Inside, Path
    <3>2. \A i \in 1 .. Len(root) : SubSeq(root, 1, i) = SubSeq(target[c], 1, i)
      <4>1. Len(root) \in 0 .. Len(target[c])
        BY <1>2, <3>1
      <4>2. QED
        BY <1>2, <3>1, <4>1, FirstOf
    <3>3. QED
      BY <2>1, <3>1, <3>2 DEF Real, NoLinks
  <2>4. QED
    BY <1>7, <2>2, <2>3
<1>11. Placed(c)' /\ \A q \in touched'[c] : Within(c, q)'
  <2>1. Placed(c)'
    BY <1>1, <1>2 DEF Placed
  <2>2. QED
    BY <1>1, <1>5, <2>1 DEF Within
<1>12. QED
  BY <1>1, <1>5, <1>9, <1>10, <1>11 DEF InsideAt

\* A write goes on once the component it looks at is no link.
LEMMA WalkInside ==
    ASSUME InsideInv, TypeInv', NEW c \in Calls,
           WalkOn(c) \/ WalkExists(c) \/ WalkIsDir(c) \/ WalkDone(c) \/ CheckTarget(c)
    PROVE  InsideInv'
<1>1. pc[c] \in {"walk", "exists", "isdir", "target"}
  BY DEF WalkOn, WalkExists, WalkIsDir, WalkDone, CheckTarget
<1>2. /\ Writes(c) /\ target[c] \in Path /\ level[c] \in 0 .. Len(target[c])
      /\ Len(target[c]) \in Nat
  <2>1. target[c] \in Path /\ level[c] \in Nat
    BY DEF InsideInv, TypeInv, Typed
  <2>2. QED
    BY <1>1, <2>1, LenProperties DEF InsideInv, TypeInv, Sane, WriteSteps, Path
<1>3. ASSUME NEW how \in Outcomes, End(c, how) PROVE InsideInv'
  <2>1. /\ Looks(c) /\ pc'[c] = "done" /\ touched'[c] = touched[c]
        /\ noted'[c] = noted[c] /\ level'[c] = level[c]
    BY <1>3, EndDoes DEF InsideInv, TypeInv
  <2>2. Placed(c)'
    BY <2>1 DEF Placed
  <2>3. QED
    BY <1>1, <1>2, <2>1, <2>2, LooksInside
<1>4. ASSUME NEW step \in {"walk", "target", "isdir", "mkdir"}, GoOn(c, step),
             step = "target" => level[c] + 1 >= Len(target[c])
      PROVE  InsideInv'
  <2>1. step \in Steps
    BY DEF Steps
  <2>2. /\ Looks(c) /\ pc'[c] = step /\ touched'[c] = touched[c]
        /\ noted'[c] = noted[c] /\ level'[c] = level[c]
    BY <1>4, <2>1, GoOnDoes DEF InsideInv, TypeInv
  <2>3. Placed(c)'
    BY <1>4, <2>2 DEF Placed, Looks
  <2>4. QED
    BY <1>1, <1>2, <2>2, <2>3, LooksInside
<1>5. ASSUME NEW n \in level[c] .. Len(target[c]), NEW step \in {"exists", "open"},
             step = "open" => n = Len(target[c]),
             NoDots(target[c]) /\ NoLinks(tree, target[c], level[c]) /\ Placed(c)
                => NoLinks(tree, target[c], n),
             level' = [level EXCEPT ![c] = n], Goto(c, step),
             UNCHANGED <<tree, swaps, request, target, fd, put, text, outcome,
                         history>>
      PROVE  InsideInv'
  <2>1. step \in Steps /\ n \in Nat
    BY <1>2 DEF Steps
  <2>2. /\ Looks(c) /\ pc'[c] = step /\ level'[c] = n
        /\ touched'[c] = touched[c] /\ noted'[c] = noted[c]
    BY <1>5, <2>1, PassesDoes DEF InsideInv, TypeInv
  <2>3. Placed(c)'
    BY <1>5, <2>2 DEF Placed, Looks
  <2>4. level[c] <= n
    BY <1>2
  <2>5. QED
    BY <1>1, <1>2, <1>5, <2>2, <2>3, <2>4, LooksInside
<1>6. ASSUME NEW n \in 1 .. Len(target[c]), ~LinkAt(SubSeq(target[c], 1, n)),
             NoDots(target[c]), NoLinks(tree, target[c], n - 1)
      PROVE  NoLinks(tree, target[c], n)
  BY <1>2, <1>6, OneFurther DEF LinkAt, InsideInv, TypeInv
<1>7. CASE WalkOn(c)
  <2> DEFINE n == level[c] + 1
  <2>1. ~ParentsDone(c) => n \in 1 .. Len(target[c]) /\ n \in level[c] .. Len(target[c])
                           /\ n - 1 = level[c]
    BY <1>2 DEF ParentsDone
  <2>2. CASE End(c, "path_escape")
    BY <1>3, <2>2 DEF Outcomes
  <2>3. CASE ~End(c, "path_escape")
    <3>1. /\ level' = [level EXCEPT ![c] = n] /\ Goto(c, "exists")
          /\ UNCHANGED <<tree, swaps, request, target, fd, put, text, outcome,
                         history>>
          /\ ~ParentsDone(c) /\ ~LinkAt(SubSeq(target[c], 1, n))
      BY <1>7, <2>3 DEF WalkOn
    <3> HIDE DEF n
    <3>2. NoDots(target[c]) /\ NoLinks(tree, target[c], level[c])
             => NoLinks(tree, target[c], n)
      BY <1>6, <2>1, <3>1
    <3>3. QED
      BY <1>5, <2>1, <3>1, <3>2
  <2>4. QED
    BY <2>2, <2>3
<1>8. CASE WalkExists(c)
  BY <1>4, <1>8 DEF WalkExists
<1>9. CASE WalkIsDir(c)
  BY <1>3, <1>4, <1>9 DEF WalkIsDir, Outcomes
<1>10. CASE WalkDone(c)
  BY <1>4, <1>10 DEF WalkDone, ParentsDone
<1>11. CASE CheckTarget(c)
  <2> DEFINE n == Len(target[c])
  <2>1. CASE End(c, "path_escape")
    BY <1>3, <2>1 DEF Outcomes
  <2>2. CASE ~End(c, "path_escape")
    <3>1. /\ level' = [level EXCEPT ![c] = n] /\ Goto(c, "open")
          /\ UNCHANGED <<tree, swaps, request, target, fd, put, text, outcome,
                         history>>
          /\ pc[c] = "target" /\ ~LinkAt(target[c])
      BY <1>11, <2>2 DEF CheckTarget
    <3>2. SubSeq(target[c], 1, n) = target[c] /\ n \in Nat
          /\ n \in level[c] .. Len(target[c])
      BY <1>2, SubSeqFull DEF Path
    <3>3. ASSUME NoDots(target[c]), NoLinks(tree, target[c], level[c]), Placed(c)
          PROVE  NoLinks(tree, target[c], n)
      <4>1. level[c] = n \/ level[c] = n - 1
        BY <1>2, <3>1, <3>3 DEF Placed
      <4>2. CASE level[c] = n
        BY <3>3, <4>2
      <4>3. CASE level[c] = n - 1
        <5>1. n \in 1 .. Len(target[c])
          BY <1>2, <4>3
        <5>2. ~LinkAt(SubSeq(target[c], 1, n)) /\ NoLinks(tree, target[c], n - 1)
          BY <3>1, <3>2, <3>3, <4>3
        <5> HIDE DEF n
        <5>3. QED
          BY <1>6, <3>3, <5>1, <5>2
      <4>4. QED
        BY <4>1, <4>2, <4>3
    <3>4. QED
      BY <1>5, <3>1, <3>2, <3>3
  <2>3. QED
    BY <2>1, <2>2
<1>12. QED
  BY <1>7, <1>8, <1>9, <1>10, <1>11
\* A write changes the tree where it lies inside, and puts no link.
LEMMA ChangedInside ==
    ASSUME InsideInv, TypeInv', NEW c \in Calls, NEW q, NEW kind,
           Changed(c, q, kind), Writes(c), pc[c] # "handle",
           pc'[c] \in {"walk", "write"},
           Spared(c) => \A p \in touched'[c] : p \in touched[c] \/ Within(c, p)
    PROVE  InsideInv'
<1>1. \A p : IsLinkAt(tree', p) => IsLinkAt(tree, p)
  BY DEF Changed, IsLinkAt
<1>2. ASSUME NEW e \in Calls \ {c} PROVE InsideAt(e)'
  BY <1>1, <1>2, InsideStill DEF Changed, InsideInv
<1>3. ASSUME Spared(c)' PROVE InsideAt(c)'
  <2>1. /\ request'[c] = request[c] /\ target'[c] = target[c]
        /\ level'[c] = level[c] /\ within'[c] = within[c]
        /\ noted[c] \subseteq noted'[c]
    BY DEF Changed
  <2>2. Spared(c)
    BY <1>3, <2>1 DEF Spared
  <2>3. /\ NoDots(target[c]) /\ NoLinks(tree, target[c], level[c])
        /\ Rooted(c) /\ \A p \in touched[c] : Within(c, p)
    BY <2>2 DEF InsideInv, InsideAt, Settled
  <2>4. NoLinks(tree', target'[c], Settled(c)')
    <3>1. Settled(c)' = level[c]
      BY <2>1 DEF Settled, Writes
    <3>2. QED
      BY <1>1, <2>1, <2>3, <3>1 DEF NoLinks
  <2>5. Rooted(c)' /\ Placed(c)'
    BY <2>1, <2>3 DEF Rooted, Placed, Writes
  <2>6. \A p \in touched'[c] : Within(c, p)'
    BY <2>1, <2>2, <2>3 DEF Within
  <2>7. QED
    BY <2>1, <2>3, <2>4, <2>5, <2>6 DEF InsideAt
<1>4. QED
  BY <1>2, <1>3 DEF InsideInv, InsideAt

\* The entry that a write makes is the component it is at.
LEMMA MakesCurrent ==
    ASSUME TypeInv, NEW c \in Calls, pc[c] = "mkdir", NoDots(target[c]),
           NoLinks(tree, target[c], level[c])
    PROVE  /\ \A q : q \in Entry(tree, Current(c)) <=>
                       /\ q = Current(c) /\ Front(Current(c)) \in DOMAIN tree
                       /\ tree[Front(Current(c))].kind = "dir"
           /\ Front(Current(c)) = SubSeq(target[c], 1, level[c] - 1)
<1>1. /\ target[c] \in Path /\ level[c] \in 1 .. Len(target[c])
      /\ Len(target[c]) \in Nat
  <2>1. target[c] \in Path /\ level[c] \in Nat
    BY DEF TypeInv, Typed
  <2>2. QED
    BY <2>1, LenProperties DEF TypeInv, Sane, Path
<1>2. /\ Current(c) \in Path /\ Current(c) # <<>> /\ Len(Current(c)) = level[c]
      /\ Front(Current(c)) = SubSeq(target[c], 1, level[c] - 1)
  BY <1>1, FrontOfFirst DEF Current
<1>3. level[c] - 1 \in 0 .. Len(target[c])
      /\ NoLinks(tree, target[c], level[c] - 1)
  <2>1. 1 .. level[c] - 1 \subseteq 1 .. level[c]
    BY <1>1
  <2>2. QED
    BY <1>1, <2>1 DEF NoLinks
<1>4. Real(tree, Front(Current(c))) /\ Len(Current(c)) - 1 <= MaxSteps
  BY <1>1, <1>2, <1>3, RealFirst
<1>5. IsTree(tree, Content)
  BY DEF TypeInv
<1>6. \A q : q \in Entry(tree, Current(c)) <=>
                 /\ q = Current(c) /\ Front(Current(c)) \in DOMAIN tree
                 /\ tree[Front(Current(c))].kind = "dir"
  BY <1>2, <1>4, <1>5, EntryReal
<1>7. QED
  BY <1>2, <1>6

LEMMA WriteInside ==
    ASSUME InsideInv, TypeInv', NEW c \in Calls,
           \/ WalkMkdir(c) \/ Open(c) \/ EncodeFails(c) \/ WriteBlock(c)
           \/ Close(c)
    PROVE  InsideInv'
<1>1. pc[c] \in {"mkdir", "open", "write"}
  BY DEF WalkMkdir, Open, EncodeFails, WriteBlock, Close
<1>2. Writes(c) /\ level[c] \in Nat
  BY <1>1 DEF InsideInv, TypeInv, Typed, Sane, WriteSteps
<1>3. ASSUME Looks(c), pc'[c] = "done", touched'[c] = touched[c],
             noted[c] \subseteq noted'[c], level'[c] = level[c]
      PROVE  InsideInv'
  <2>1. Placed(c)'
    BY <1>3 DEF Placed
  <2>2. QED
    BY <1>1, <1>2, <1>3, <2>1, LooksInside
<1>4. ASSUME NEW how \in Outcomes, End(c, how) PROVE InsideInv'
  BY <1>3, <1>4, EndDoes DEF InsideInv, TypeInv
<1>5. CASE WalkMkdir(c)
  <2>1. ASSUME NEW q \in Entry(tree, Current(c)), Changed(c, q, "dir"),
               pc'[c] = "walk", touched'[c] = touched[c] \cup {q}
        PROVE  InsideInv'
    <3>1. ASSUME Spared(c) PROVE Within(c, q)
      <4>1. pc[c] = "mkdir"
        BY <1>5 DEF WalkMkdir
      <4>2. /\ NoDots(target[c]) /\ NoLinks(tree, target[c], level[c]) /\ Rooted(c)
        BY <1>2, <3>1, <4>1 DEF InsideInv, InsideAt, Settled
      <4>3. q = Current(c)
        BY <4>1, <4>2, MakesCurrent DEF InsideInv
      <4>4. PICK root \in within[c] : Inside(root, target[c]) /\ Len(root) <= level[c]
        BY <1>2, <4>1, <4>2 DEF Rooted
      <4>5. /\ root \in Path /\ target[c] \in Path
            /\ level[c] \in 0 .. Len(target[c])
        BY <1>2, LenProperties DEF InsideInv, TypeInv, Typed, Sane, Path
      <4>6. Inside(root, q)
        BY <4>3, <4>4, <4>5, InsideFirst DEF Current
      <4>7. QED
        BY <4>4, <4>6 DEF Within
    <3>2. QED
      BY <1>1, <1>2, <2>1, <3>1, ChangedInside
  <2>2. QED
    BY <1>4, <1>5, <2>1, WalkMkdirDoes DEF InsideInv, TypeInv, Outcomes
<1>6. CASE Open(c)
  <2>1. ASSUME NEW q \in Writable(tree, target[c]), Changed(c, q, "file"),
               pc'[c] = "write", touched'[c] = touched[c] \cup {q}
        PROVE  InsideInv'
    <3>1. ASSUME Spared(c) PROVE Within(c, q)
      <4>1. pc[c] = "open"
        BY <1>6 DEF Open
      <4>2. Settled(c) = Len(target[c])
        BY <1>2, <3>1, <4>1 DEF InsideInv, InsideAt, Placed, Settled
      <4>3. /\ Real(tree, target[c]) /\ Len(target[c]) <= MaxSteps
            /\ target[c] \in Path /\ Within(c, target[c])
        BY <3>1, <4>2, SettledIs DEF InsideInv
      <4>4. q = target[c]
        BY <4>3, WritableReal
      <4>5. QED
        BY <4>3, <4>4
    <3>2. QED
      BY <1>1, <1>2, <2>1, <3>1, ChangedInside
  <2>2. QED
    BY <1>4, <1>6, <2>1, OpenDoes DEF InsideInv, TypeInv, Outcomes
<1>7. CASE EncodeFails(c)
  BY <1>4, <1>7 DEF EncodeFails, Outcomes
<1>8. CASE WriteBlock(c)
  <2>1. /\ pc'[c] = "write" /\ pc[c] = "write" /\ touched'[c] = touched[c]
        /\ \/ /\ Alone(c) /\ noted'[c] = noted[c]
              /\ request'[c] = request[c] /\ target'[c] = target[c]
              /\ level'[c] = level[c] /\ within'[c] = within[c]
           \/ Changed(c, fd[c], "file")
    BY <1>8, WriteBlockDoes DEF InsideInv, TypeInv
  <2>2. CASE /\ Alone(c) /\ noted'[c] = noted[c]
             /\ request'[c] = request[c] /\ target'[c] = target[c]
             /\ level'[c] = level[c] /\ within'[c] = within[c]
    <3>1. InsideAt(c)'
      BY <2>1, <2>2 DEF InsideInv, InsideAt, Spared, Settled, Rooted, Placed,
                        Within, Writes, Alone
    <3>2. QED
      BY <2>2, <3>1, AloneInside
  <2>3. CASE Changed(c, fd[c], "file")
    BY <1>1, <1>2, <2>1, <2>3, ChangedInside
  <2>4. QED
    BY <2>1, <2>2, <2>3
<1>9. CASE Close(c)
  BY <1>4, <1>9 DEF Close, Outcomes
<1>10. QED
  BY <1>5, <1>6, <1>7, <1>8, <1>9

LEMMA FailsInside ==
    ASSUME InsideInv, TypeInv', NEW c \in Calls, SystemFails(c)
    PROVE  InsideInv'
<1>1. /\ Looks(c) /\ pc'[c] = "done" /\ (Writes(c) => pc[c] # "handle")
      /\ level'[c] = level[c] /\ touched'[c] = touched[c]
      /\ noted'[c] = noted[c] \cup {"failed"}
  BY FailsDoes DEF InsideInv, TypeInv
<1>2. level[c] \in Nat
  BY DEF InsideInv, TypeInv, Typed
<1>3. Placed(c)'
  BY <1>1 DEF Placed
<1>4. QED
  BY <1>1, <1>2, <1>3, LooksInside

LEMMA InsideStep == InsideInv /\ [Next]_vars => InsideInv'
<1> SUFFICES ASSUME InsideInv, [Next]_vars PROVE InsideInv'
  OBVIOUS
<1>0. TypeInv'
  BY TypeStep DEF InsideInv
<1>1. CASE UNCHANGED vars
  <2>1. UNCHANGED <<tree, pc, request, target, level, touched, noted, within>>
    BY <1>1 DEF vars, handler, history
  <2>2. ASSUME NEW e \in Calls PROVE InsideAt(e)'
    BY <2>1 DEF InsideInv, InsideAt, Spared, Settled, Rooted, Placed, Within, Writes
  <2>3. QED
    BY <1>0, <2>2 DEF InsideInv
<1>2. ASSUME NEW s \in Swaps, Swap(s) PROVE InsideInv'
  BY <1>0, <1>2, SwapInside
<1>3. ASSUME NEW c \in Calls, NEW r \in Requests, Resolve(c, r) PROVE InsideInv'
  BY <1>0, <1>3, ResolveInside
<1>4. ASSUME NEW c \in Calls, read_file(c) \/ list_dir(c) PROVE InsideInv'
  BY <1>0, <1>4, ReadInside
<1>5. ASSUME NEW c \in Calls, write_file(c) PROVE InsideInv'
  BY <1>0, <1>5, StartInside, WalkInside, WriteInside DEF write_file, make_parents
<1>6. ASSUME NEW c \in Calls, SystemFails(c) PROVE InsideInv'
  BY <1>0, <1>6, FailsInside
<1>7. QED
  BY <1>1, <1>2, <1>3, <1>4, <1>5, <1>6 DEF Next

LEMMA InsideInit == Init => InsideInv
<1> SUFFICES ASSUME Init PROVE InsideInv
  OBVIOUS
<1>1. ASSUME NEW c \in Calls PROVE InsideAt(c)
  BY DEF Init, InsideAt, Spared
<1>2. QED
  BY <1>1, TypeInit DEF InsideInv

LEMMA InsideAlways == Spec => []InsideInv
  BY InsideInit, InsideStep, PTL DEF Spec

\* What the file tools read, list, make and write lies in a root their path was
\* compared with, however many calls and other processes are at work, unless a
\* component was swapped after the call had looked at it or the path led into a
\* cycle of links: that _make_parents and the handler look at every component
\* again below the root is what carries a write from its resolution to its file.
THEOREM TouchesInside == Spec => []StaysInside
<1>1. InsideInv => StaysInside
  <2> SUFFICES ASSUME InsideInv, NEW c \in Calls, NEW q \in touched[c],
                      noted[c] \cap {"late", "cycle"} = {}
               PROVE  \E root \in within[c] : Inside(root, q)
    BY DEF StaysInside
  <2>1. within[c] # {}
    BY DEF InsideInv, TypeInv, Sane
  <2>2. QED
    BY <2>1 DEF InsideInv, InsideAt, Spared, Within
<1>2. QED
  BY <1>1, InsideAlways, PTL
-----------------------------------------------------------------------------
(* A write that nothing gets in the way of succeeds.                       *)

Hindrances == {"obstacle", "cycle", "disturbed", "moved", "overtaken", "failed"}

Unhindered(c) ==
    /\ Writes(c) /\ within[c] # {} /\ request[c].encodable
    /\ noted[c] \cap Hindrances = {}

There(t, p, n) == SubSeq(p, 1, n) \in DOMAIN t

\* Nothing on the way to a file stands in the way, nor at its end.
OpenWay(t, p) ==
    /\ \A i \in 0 .. Len(p) - 1 : There(t, p, i) => t[SubSeq(p, 1, i)].kind = "dir"
    /\ p \in DOMAIN t => t[p].kind = "file"

\* How much of the way is there at each step.
Came(c) ==
    /\ pc[c] = "handle" => \A root \in within[c] :
          root \in DOMAIN tree /\ Inside(root, target[c]) /\ root # target[c]
    /\ pc[c] \in {"walk", "exists", "isdir", "mkdir"} => level[c] < Len(target[c])
    /\ pc[c] \in {"walk", "isdir"} => There(tree, target[c], level[c])
    /\ pc[c] \in {"exists", "mkdir"} => There(tree, target[c], level[c] - 1)
    /\ pc[c] = "mkdir" => ~There(tree, target[c], level[c])
    /\ pc[c] \in {"target", "open"} => There(tree, target[c], Len(target[c]) - 1)
    /\ pc[c] = "done" => outcome[c] = "ok"

ClearAt(c) ==
    Unhindered(c) => target[c] # <<>> /\ OpenWay(tree, target[c]) /\ Came(c)

ClearInv == InsideInv /\ \A c \in Calls : ClearAt(c)

LEMMA UnhinderedIs ==
    ASSUME ClearInv, NEW c \in Calls, Unhindered(c)
    PROVE  /\ Writes(c) /\ pc[c] # "idle" /\ request[c].encodable
           /\ target[c] \in Path /\ target[c] # <<>> /\ NoDots(target[c])
           /\ Len(target[c]) \in Nat \ {0} /\ level[c] \in 0 .. Len(target[c])
           /\ OpenWay(tree, target[c]) /\ Came(c) /\ IsTree(tree, Content)
           /\ \A root \in within[c] : root \in Path
<1>1. /\ Writes(c) /\ pc[c] # "idle" /\ request[c].encodable
      /\ target[c] \in Path /\ level[c] \in Nat /\ level[c] <= Len(target[c])
      /\ \A root \in within[c] : root \in Path
  BY DEF ClearInv, InsideInv, TypeInv, Typed, Sane, Unhindered
<1>2. Spared(c)
  BY DEF ClearInv, InsideInv, TypeInv, Sane, Spared, Unhindered, Hindrances
<1>3. NoDots(target[c])
  BY <1>2 DEF ClearInv, InsideInv, InsideAt
<1>4. target[c] # <<>> /\ OpenWay(tree, target[c]) /\ Came(c)
  BY DEF ClearInv, ClearAt
<1>5. Len(target[c]) \in Nat \ {0}
  BY <1>1, <1>4, FrontOf
<1>6. QED
  BY <1>1, <1>3, <1>4, <1>5 DEF ClearInv, InsideInv, TypeInv

\* What a call finds on an open way.
LEMMA OnOpenWay ==
    ASSUME NEW C, NEW t, IsTree(t, C), NEW p \in Path, NoDots(p), OpenWay(t, p),
           NEW n \in 1 .. Len(p)
    PROVE  /\ Exists(t, SubSeq(p, 1, n)) <=> There(t, p, n)
           /\ n # Len(p) => (IsDir(t, SubSeq(p, 1, n)) <=> There(t, p, n))
           /\ ~IsSymlink(t, SubSeq(p, 1, n))
           /\ NoLinks(t, p, n)
<1> DEFINE m == Len(p)
<1>0. m \in Nat /\ n \in 1 .. m /\ SubSeq(p, 1, m) = p
  BY LenProperties, SubSeqFull DEF Path
<1> HIDE DEF m
<1>1. NoLinks(t, p, m)
  <2>1. ASSUME NEW i \in 1 .. m PROVE ~IsLinkAt(t, SubSeq(p, 1, i))
    <3>1. CASE i = m
      BY <1>0, <3>1 DEF OpenWay, IsLinkAt, m
    <3>2. CASE i # m
      <4>1. i \in 0 .. m - 1
        BY <1>0, <3>2
      <4>2. QED
        BY <4>1 DEF OpenWay, There, IsLinkAt, m
    <3>3. QED
      BY <3>1, <3>2
  <2>2. QED
    BY <2>1 DEF NoLinks
<1>2. NoLinks(t, p, n) /\ NoLinks(t, p, n - 1)
  <2>1. 1 .. n \subseteq 1 .. m /\ 1 .. n - 1 \subseteq 1 .. m
    BY <1>0
  <2>2. QED
    BY <1>1, <2>1 DEF NoLinks
<1> DEFINE q == SubSeq(p, 1, n)
<1>3. /\ q \in Path /\ q # <<>> /\ Len(q) = n /\ Front(q) = SubSeq(p, 1, n - 1)
  BY FrontOfFirst DEF m
<1>4. Real(t, q) /\ Len(q) <= MaxSteps
  <2>1. n \in 0 .. m
    BY <1>0
  <2>2. QED
    BY <1>2, <2>1, RealFirst DEF m
<1>5. Real(t, Front(q)) /\ Len(q) - 1 <= MaxSteps
  <2>1. n - 1 \in 0 .. m
    BY <1>0
  <2>2. QED
    BY <1>2, <1>3, <2>1, RealFirst DEF m
<1>6. ~IsLinkAt(t, q)
  BY <1>2 DEF NoLinks
<1>7. n # m /\ q \in DOMAIN t => t[q].kind = "dir"
  <2>1. n # m => n \in 0 .. m - 1
    BY <1>0
  <2>2. QED
    BY <2>1 DEF OpenWay, There, m
<1>8. There(t, p, n) <=> q \in DOMAIN t
  BY DEF There
<1> HIDE DEF q
<1>9. \A r : r \in Reached(t, q) <=> r = q /\ q \in DOMAIN t
  BY <1>3, <1>4, ReachedReal
<1>10. Exists(t, q) <=> q \in DOMAIN t
  BY <1>9 DEF Exists
<1>11. n # m => (IsDir(t, q) <=> q \in DOMAIN t)
  BY <1>7, <1>9 DEF IsDir
<1>12. ~IsSymlink(t, q)
  BY <1>3, <1>5, <1>6, EntryReal DEF IsSymlink
<1>13. QED
  BY <1>2, <1>8, <1>10, <1>11, <1>12 DEF q, m

\* A change that leaves what is on a call's way, and puts nothing in it.
Spares(e) ==
    /\ \A i \in 0 .. Len(target[e]) :
          There(tree, target[e], i) => There(tree', target[e], i)
    /\ OpenWay(tree', target[e])
    /\ pc[e] = "mkdir" => (There(tree', target[e], level[e])
                              => There(tree, target[e], level[e]))

LEMMA ClearStill ==
    ASSUME ClearInv, NEW e \in Calls, Still(e),
           Unhindered(e) /\ Unhindered(e)' => Spares(e)
    PROVE  ClearAt(e)'
<1> SUFFICES ASSUME Unhindered(e)' PROVE ClearAt(e)'
  BY DEF ClearAt
<1>1. Unhindered(e)
  BY DEF Unhindered, Still, Writes
<1>2. /\ target[e] \in Path /\ target[e] # <<>> /\ OpenWay(tree, target[e])
      /\ Came(e) /\ Len(target[e]) \in Nat \ {0} /\ level[e] \in 0 .. Len(target[e])
      /\ \A root \in within[e] : root \in Path
  BY <1>1, UnhinderedIs
<1>3. Spares(e)
  BY <1>1
<1>4. /\ pc'[e] = pc[e] /\ target'[e] = target[e] /\ level'[e] = level[e]
      /\ within'[e] = within[e] /\ outcome'[e] = outcome[e]
  BY DEF Still
<1>5. pc[e] \in {"exists", "mkdir"} => level[e] - 1 \in 0 .. Len(target[e])
  <2>1. pc[e] \in {"exists", "mkdir"} => level[e] >= 1
    BY DEF ClearInv, InsideInv, TypeInv, Sane
  <2>2. QED
    BY <1>2, <2>1
<1>6. \A i \in 0 .. Len(target[e]) :
         There(tree, target[e], i) => There(tree', target[e], i)
  BY <1>3 DEF Spares
<1>7. ASSUME NEW root \in within[e], root \in DOMAIN tree, Inside(root, target[e])
      PROVE  root \in DOMAIN tree'
  <2>1. /\ root \in Path /\ SubSeq(target[e], 1, Len(root)) = root
        /\ Len(root) <= Len(target[e]) /\ Len(root) \in Nat
    BY <1>2, <1>7, BelowIs, LenProperties DEF Inside, Path
  <2>2. Len(root) \in 0 .. Len(target[e])
    BY <1>2, <2>1
  <2>3. QED
    BY <1>6, <1>7, <2>1, <2>2 DEF There
<1>8. Len(target[e]) - 1 \in 0 .. Len(target[e])
  BY <1>2
<1>9. Came(e)'
  <2>1. pc[e] = "handle" => \A root \in within[e] :
           root \in DOMAIN tree' /\ Inside(root, target[e]) /\ root # target[e]
    BY <1>2, <1>7 DEF Came
  <2>2. /\ pc[e] \in {"walk", "isdir"} => There(tree', target[e], level[e])
        /\ pc[e] \in {"exists", "mkdir"} => There(tree', target[e], level[e] - 1)
        /\ pc[e] \in {"target", "open"}
              => There(tree', target[e], Len(target[e]) - 1)
    BY <1>2, <1>5, <1>6, <1>8 DEF Came
  <2>3. /\ pc[e] \in {"walk", "exists", "isdir", "mkdir"} => level[e] < Len(target[e])
        /\ pc[e] = "mkdir" => ~There(tree', target[e], level[e])
        /\ pc[e] = "done" => outcome[e] = "ok"
    BY <1>2, <1>3 DEF Came, Spares
  <2>4. QED
    BY <1>4, <2>1, <2>2, <2>3 DEF Came
<1>10. target'[e] # <<>> /\ OpenWay(tree', target'[e])
  BY <1>2, <1>3, <1>4 DEF Spares
<1>11. QED
  BY <1>9, <1>10 DEF ClearAt

\* A step of one call that leaves the tree as it is.
LEMMA AloneClear ==
    ASSUME ClearInv, InsideInv', NEW c \in Calls, Alone(c), ClearAt(c)'
    PROVE  ClearInv'
<1>1. ASSUME NEW e \in Calls \ {c} PROVE ClearAt(e)'
  <2>1. ASSUME Unhindered(e) PROVE Spares(e)
    BY <2>1, UnhinderedIs DEF Spares, Alone
  <2>2. QED
    BY <1>1, <2>1, ClearStill DEF Alone
<1>2. QED
  BY <1>1 DEF ClearInv

LEMMA LooksClear ==
    ASSUME ClearInv, InsideInv', NEW c \in Calls, Looks(c),
           noted[c] \subseteq noted'[c], pc'[c] # "handle",
           Unhindered(c) /\ Unhindered(c)' =>
              /\ pc'[c] \in {"walk", "exists", "isdir", "mkdir"}
                    => level'[c] < Len(target[c])
              /\ pc'[c] \in {"walk", "isdir"} => There(tree, target[c], level'[c])
              /\ pc'[c] \in {"exists", "mkdir"}
                    => There(tree, target[c], level'[c] - 1)
              /\ pc'[c] = "mkdir" => ~There(tree, target[c], level'[c])
              /\ pc'[c] \in {"target", "open"}
                    => There(tree, target[c], Len(target[c]) - 1)
              /\ pc'[c] = "done" => outcome'[c] = "ok"
    PROVE  ClearInv'
<1>1. /\ tree' = tree /\ request'[c] = request[c] /\ target'[c] = target[c]
      /\ within'[c] = within[c]
  BY DEF Looks, Alone
<1>2. SUFFICES ASSUME Unhindered(c)' PROVE ClearAt(c)'
  BY AloneClear DEF ClearAt, Looks
<1>3. Unhindered(c)
  BY <1>1, <1>2 DEF Unhindered, Writes
<1>4. target[c] # <<>> /\ OpenWay(tree, target[c])
  BY <1>3 DEF ClearInv, ClearAt
<1>5. Came(c)'
  BY <1>1, <1>2, <1>3 DEF Came
<1>6. QED
  BY <1>1, <1>4, <1>5 DEF ClearAt

LEMMA SwapClear ==
    ASSUME ClearInv, InsideInv', NEW s \in Swaps, Swap(s)
    PROVE  ClearInv'
<1>1. PICK q : Swapped(q)
  BY SwapDoes DEF ClearInv, InsideInv, TypeInv
<1>2. ASSUME NEW e \in Calls PROVE ClearAt(e)'
  <2>1. Still(e)
    BY <1>1 DEF Swapped
  <2>2. ASSUME Unhindered(e), Unhindered(e)' PROVE Spares(e)
    <3>1. /\ target[e] \in Path /\ pc[e] # "idle" /\ OpenWay(tree, target[e])
          /\ Len(target[e]) \in Nat \ {0} /\ level[e] \in 0 .. Len(target[e])
      BY <2>2, UnhinderedIs
    <3>2. ~AtOrBelow(target[e], q) /\ q \in Path
      BY <1>1, <2>2, <3>1 DEF Swapped, Unhindered, Hindrances
    <3>3. ASSUME NEW i \in 0 .. Len(target[e])
          PROVE  /\ There(tree, target[e], i) <=> There(tree', target[e], i)
                 /\ There(tree, target[e], i)
                       => tree'[SubSeq(target[e], 1, i)] = tree[SubSeq(target[e], 1, i)]
      <4> DEFINE p == SubSeq(target[e], 1, i)
      <4>1. p \in Path /\ ~AtOrBelow(p, q)
        BY <3>1, <3>2, FirstOf, FirstBelow
      <4>2. p # q
        BY <4>1 DEF AtOrBelow
      <4> HIDE DEF p
      <4>3. /\ p \in DOMAIN tree <=> p \in DOMAIN tree'
            /\ p \in DOMAIN tree => tree'[p] = tree[p]
        BY <1>1, <4>1, <4>2 DEF Swapped
      <4>4. QED
        BY <4>3 DEF p, There
    <3>4. SubSeq(target[e], 1, Len(target[e])) = target[e]
      BY <3>1, SubSeqFull DEF Path
    <3>5. OpenWay(tree', target[e])
      <4>1. ASSUME NEW i \in 0 .. Len(target[e]) - 1, There(tree', target[e], i)
            PROVE  tree'[SubSeq(target[e], 1, i)].kind = "dir"
        <5>1. i \in 0 .. Len(target[e])
          BY <3>1
        <5>2. QED
          BY <3>1, <3>3, <4>1, <5>1 DEF OpenWay
      <4>2. target[e] \in DOMAIN tree' => tree'[target[e]].kind = "file"
        <5>1. Len(target[e]) \in 0 .. Len(target[e])
          BY <3>1
        <5>2. /\ target[e] \in DOMAIN tree <=> target[e] \in DOMAIN tree'
              /\ target[e] \in DOMAIN tree => tree'[target[e]] = tree[target[e]]
          <6>1. /\ There(tree, target[e], Len(target[e]))
                      <=> There(tree', target[e], Len(target[e]))
                /\ There(tree, target[e], Len(target[e]))
                      => tree'[SubSeq(target[e], 1, Len(target[e]))]
                           = tree[SubSeq(target[e], 1, Len(target[e]))]
            BY <3>3, <5>1
          <6>2. QED
            BY <3>4, <6>1, Zenon DEF There
        <5>3. QED
          BY <3>1, <5>2 DEF OpenWay
      <4>3. QED
        BY <4>1, <4>2 DEF OpenWay
    <3>6. QED
      BY <3>1, <3>3, <3>5 DEF Spares
  <2>3. QED
    BY <2>1, <2>2, ClearStill
<1>3. QED
  BY <1>2 DEF ClearInv
\* The write root is resolved to one place.
LEMMA OneRoot ==
    ASSUME NEW r \in Requests, r.op = "write_file", NEW root \in RootsFor(r)
    PROVE  /\ root = Arrived(Walk(tree, WriteRoot))
           /\ RootsFor(r) = RealRoots(tree, <<WriteRoot>>)
  BY DEF RootsFor, RealRoots

LEMMA ResolveClear ==
    ASSUME ClearInv, InsideInv', NEW c \in Calls, NEW r \in Requests, Resolve(c, r)
    PROVE  ClearInv'
<1>1. /\ Alone(c) /\ pc[c] = "idle" /\ request'[c] = r
      /\ \/ pc'[c] = "done" /\ within'[c] = within[c]
         \/ /\ pc'[c] = "handle" /\ within'[c] = RootsFor(r)
            /\ target'[c] \in ResolvedPath(r)
            /\ noted'[c] = Noticed("obstacle", ~Clear(target'[c])) \cup
                  Noticed("cycle", InCycle(Walk(tree, Absolute(r.path))))
  BY ResolveDoes DEF ClearInv, InsideInv, TypeInv
<1>2. within[c] = {}
  BY <1>1 DEF ClearInv, InsideInv, TypeInv, Sane
<1>3. SUFFICES ASSUME Unhindered(c)' PROVE ClearAt(c)'
  BY <1>1, AloneClear DEF ClearAt
<1> DEFINE p == target'[c]
<1>4. /\ pc'[c] = "handle" /\ within'[c] = RootsFor(r) /\ p \in ResolvedPath(r)
      /\ Clear(p) /\ r.op = "write_file" /\ tree' = tree
  BY <1>1, <1>2, <1>3 DEF Unhindered, Hindrances, Noticed, Writes, Alone
<1>5. p \in Path /\ \E root \in RootsFor(r) : Inside(root, p)
  BY <1>4, ResolvedIs DEF ClearInv, InsideInv, TypeInv
<1>6. ASSUME NEW root \in RootsFor(r)
      PROVE  root \in DOMAIN tree /\ root # p /\ Inside(root, p) /\ root \in Path
  <2>1. root \in DOMAIN tree /\ root # p
    BY <1>4, OneRoot DEF Clear
  <2>2. Inside(root, p)
    BY <1>4, <1>5, OneRoot
  <2>3. root \in Path
    BY ResolvedIs DEF ClearInv, InsideInv, TypeInv
  <2>4. QED
    BY <2>1, <2>2, <2>3
<1>7. p # <<>>
  <2>1. SUFFICES ASSUME p = <<>> PROVE FALSE
    OBVIOUS
  <2>2. PICK root \in RootsFor(r) : root \in Path /\ root # p /\ Inside(root, p)
    BY <1>5, <1>6
  <2>3. Len(root) <= 0 /\ SubSeq(p, 1, Len(root)) = root
    BY <1>5, <2>1, <2>2, BelowIs, EmptyPath DEF Inside
  <2>4. Len(root) \in Nat
    BY <2>2, LenProperties DEF Path
  <2>5. root = <<>>
    BY <2>3, <2>4, SubSeqEmpty
  <2>6. QED
    BY <2>1, <2>2, <2>5
<1>8. OpenWay(tree, p)
  BY <1>4 DEF Clear, OpenWay, There
<1>9. Came(c)'
  BY <1>4, <1>6 DEF Came
<1>10. QED
  BY <1>4, <1>7, <1>8, <1>9 DEF ClearAt

LEMMA ReadClear ==
    ASSUME ClearInv, InsideInv', NEW c \in Calls, read_file(c) \/ list_dir(c)
    PROVE  ClearInv'
<1>1. ~Unhindered(c)
  BY DEF read_file, ReadIsFile, ReadStat, ReadBytes, list_dir, ListIsDir,
         ListEntries, ClearInv, InsideInv, TypeInv, Sane, ReadSteps, Writes,
         Unhindered
<1>2. ASSUME Looks(c), noted'[c] = noted[c], pc'[c] # "handle" PROVE ClearInv'
  BY <1>1, <1>2, LooksClear
<1>3. ASSUME NEW how \in Outcomes, End(c, how) PROVE ClearInv'
  BY <1>2, <1>3, EndDoes DEF ClearInv, InsideInv, TypeInv
<1>4. ASSUME NEW step \in ReadSteps, GoOn(c, step) PROVE ClearInv'
  <2>1. step \in Steps /\ step # "handle"
    BY DEF ReadSteps, Steps
  <2>2. QED
    BY <1>2, <1>4, <2>1, GoOnDoes DEF ClearInv, InsideInv, TypeInv
<1>5. ASSUME NEW how \in Outcomes, NEW q \in Reached(tree, target[c]),
             Goto(c, "done"), outcome' = [outcome EXCEPT ![c] = how], Touch(c, q),
             UNCHANGED <<tree, swaps, request, target, level, fd, put, noted,
                         within>>
      PROVE  ClearInv'
  <2>1. q \in Path
    BY ReachedExists DEF ClearInv, InsideInv, TypeInv, Typed
  <2>2. Looks(c) /\ pc'[c] = "done" /\ noted'[c] = noted[c]
    BY <1>5, <2>1, TakesDoes DEF ClearInv, InsideInv, TypeInv
  <2>3. QED
    BY <1>2, <2>2
<1>6. CASE ReadIsFile(c)
  BY <1>3, <1>4, <1>6 DEF ReadIsFile, WrongKind, Outcomes, ReadSteps
<1>7. CASE ReadStat(c)
  BY <1>3, <1>4, <1>7 DEF ReadStat, Outcomes, ReadSteps
<1>8. CASE ReadBytes(c)
  BY <1>3, <1>5, <1>8 DEF ReadBytes, Outcomes
<1>9. CASE ListIsDir(c)
  BY <1>3, <1>4, <1>9 DEF ListIsDir, WrongKind, Outcomes, ReadSteps
<1>10. CASE ListEntries(c)
  BY <1>3, <1>5, <1>10 DEF ListEntries, Outcomes
<1>11. QED
  BY <1>6, <1>7, <1>8, <1>9, <1>10 DEF read_file, list_dir

\* Its target lies below the root, which is there.
LEMMA StartClear ==
    ASSUME ClearInv, InsideInv', NEW c \in Calls, NEW failed \in BOOLEAN,
           StartWrite(c, failed)
    PROVE  ClearInv'
<1> DEFINE walk  == Walk(tree, WriteRoot)
           root  == Arrived(walk)
           below == ~failed /\ Resolves(walk) /\ Inside(root, Front(target[c]))
<1>1. /\ Alone(c) /\ pc[c] = "handle"
      /\ request'[c] = request[c] /\ target'[c] = target[c]
      /\ pc'[c] = IF below THEN "walk" ELSE "target"
      /\ level'[c] = IF below THEN Len(root) ELSE Len(target[c])
      /\ noted[c] \subseteq noted'[c]
      /\ "moved" \notin noted'[c] => Resolves(walk) /\ root \in within[c]
      /\ "failed" \notin noted'[c] => ~failed
  BY StartWriteDoes DEF ClearInv, InsideInv, TypeInv, Noticed
<1>2. within[c] # {}
  BY <1>1 DEF ClearInv, InsideInv, TypeInv, Sane
<1>3. SUFFICES ASSUME Unhindered(c)' PROVE ClearAt(c)'
  BY <1>1, AloneClear DEF ClearAt
<1>4. Unhindered(c)
  BY <1>1, <1>2, <1>3 DEF Unhindered, Writes
<1>5. /\ target[c] \in Path /\ target[c] # <<>> /\ OpenWay(tree, target[c])
      /\ Came(c) /\ \A other \in within[c] : other \in Path
  BY <1>4, UnhinderedIs
<1>6. ~failed /\ Resolves(walk) /\ root \in within[c] /\ tree' = tree
  BY <1>1, <1>3 DEF Unhindered, Hindrances, Alone
<1> HIDE DEF walk, root
<1>7. /\ root \in DOMAIN tree /\ Inside(root, target[c]) /\ root # target[c]
      /\ root \in Path
  BY <1>1, <1>5, <1>6 DEF Came
<1>8. /\ Front(target[c]) \in Path /\ Len(target[c]) \in Nat \ {0}
      /\ Len(Front(target[c])) = Len(target[c]) - 1 /\ Len(root) \in Nat
  BY <1>5, <1>7, FrontOf, LenProperties DEF Path
<1>9. Inside(root, Front(target[c])) /\ Len(root) <= Len(target[c]) - 1
  <2>1. AtOrBelow(target[c], root)
    BY <1>5, <1>7, BelowIs DEF Inside
  <2>2. AtOrBelow(Front(target[c]), root)
    BY <1>5, <1>7, <2>1, FrontBelow
  <2>3. QED
    BY <1>7, <1>8, <2>2, BelowIs DEF Inside
<1>10. pc'[c] = "walk" /\ level'[c] = Len(root)
  BY <1>1, <1>6, <1>9
<1>11. SubSeq(target[c], 1, Len(root)) = root
  BY <1>5, <1>7, BelowIs DEF Inside
<1>12. Len(root) < Len(target[c])
  BY <1>8, <1>9
<1>13. Came(c)'
  BY <1>1, <1>6, <1>7, <1>10, <1>11, <1>12 DEF Came, There
<1>14. QED
  BY <1>1, <1>5, <1>6, <1>13 DEF ClearAt

\* A component of its way is a directory, or not there.
LEMMA WalkClear ==
    ASSUME ClearInv, InsideInv', NEW c \in Calls,
           WalkOn(c) \/ WalkExists(c) \/ WalkIsDir(c) \/ WalkDone(c) \/ CheckTarget(c)
    PROVE  ClearInv'
<1>0. pc[c] \notin {"handle", "idle"} /\ level[c] \in Nat /\ Len(target[c]) \in Nat
      /\ (pc[c] \in {"exists", "isdir", "mkdir"} => level[c] >= 1)
  <2>1. target[c] \in Path /\ level[c] \in Nat
    BY DEF ClearInv, InsideInv, TypeInv, Typed
  <2>2. QED
    BY <2>1, LenProperties DEF WalkOn, WalkExists, WalkIsDir, WalkDone, CheckTarget,
       ClearInv, InsideInv, TypeInv, Sane, Path
<1>1. ASSUME Unhindered(c)
      PROVE  /\ OpenWay(tree, target[c]) /\ Came(c)
             /\ \A n \in 1 .. Len(target[c]) :
                   /\ Exists(tree, SubSeq(target[c], 1, n)) <=> There(tree, target[c], n)
                   /\ n # Len(target[c]) =>
                         (IsDir(tree, SubSeq(target[c], 1, n)) <=> There(tree, target[c], n))
                   /\ ~LinkAt(SubSeq(target[c], 1, n))
             /\ Len(target[c]) \in 1 .. Len(target[c])
             /\ SubSeq(target[c], 1, Len(target[c])) = target[c]
  <2>1. /\ target[c] \in Path /\ NoDots(target[c]) /\ OpenWay(tree, target[c])
        /\ Came(c) /\ IsTree(tree, Content) /\ Len(target[c]) \in Nat \ {0}
    BY <1>1, UnhinderedIs
  <2>2. SubSeq(target[c], 1, Len(target[c])) = target[c]
    BY <2>1, SubSeqFull DEF Path
  <2>3. Len(target[c]) \in 1 .. Len(target[c])
    BY <2>1
  <2>4. QED
    BY <2>1, <2>2, <2>3, OnOpenWay DEF LinkAt
<1>2. ASSUME NEW how \in Outcomes, End(c, how), ~Unhindered(c) PROVE ClearInv'
  BY <1>2, EndDoes, LooksClear DEF ClearInv, InsideInv, TypeInv
<1>3. ASSUME NEW step \in {"walk", "target", "isdir", "mkdir"}, GoOn(c, step),
             Unhindered(c) =>
                /\ step \in {"walk", "isdir", "mkdir"} => level[c] < Len(target[c])
                /\ step \in {"walk", "isdir"} => There(tree, target[c], level[c])
                /\ step = "mkdir" => There(tree, target[c], level[c] - 1)
                                     /\ ~There(tree, target[c], level[c])
                /\ step = "target" => There(tree, target[c], Len(target[c]) - 1)
      PROVE  ClearInv'
  <2>1. step \in Steps
    BY DEF Steps
  <2>2. /\ Looks(c) /\ pc'[c] = step /\ noted'[c] = noted[c] /\ level'[c] = level[c]
    BY <1>3, <2>1, GoOnDoes DEF ClearInv, InsideInv, TypeInv
  <2>3. QED
    BY <1>3, <2>2, LooksClear
<1>4. ASSUME NEW n \in Nat, NEW step \in {"exists", "open"},
             level' = [level EXCEPT ![c] = n], Goto(c, step),
             UNCHANGED <<tree, swaps, request, target, fd, put, text, outcome,
                         history>>,
             Unhindered(c) =>
                /\ step = "exists" => n < Len(target[c]) /\ There(tree, target[c], n - 1)
                /\ step = "open" => There(tree, target[c], Len(target[c]) - 1)
      PROVE  ClearInv'
  <2>1. step \in Steps
    BY DEF Steps
  <2>2. Looks(c) /\ pc'[c] = step /\ level'[c] = n /\ noted'[c] = noted[c]
    BY <1>4, <2>1, PassesDoes DEF ClearInv, InsideInv, TypeInv
  <2>3. QED
    BY <1>4, <2>2, LooksClear
<1>5. CASE WalkOn(c)
  <2> DEFINE n == level[c] + 1
  <2>1. n \in Nat /\ n - 1 = level[c] /\ n >= 1
        /\ (~ParentsDone(c) => n < Len(target[c]))
    BY <1>0 DEF ParentsDone
  <2>2. pc[c] = "walk" /\ ~ParentsDone(c)
    BY <1>5 DEF WalkOn
  <2>3. CASE End(c, "path_escape") /\ LinkAt(SubSeq(target[c], 1, n))
    <3>1. n \in 1 .. Len(target[c])
      BY <1>0, <2>1, <2>2
    <3> HIDE DEF n
    <3>2. ~Unhindered(c)
      BY <1>1, <2>3, <3>1
    <3>3. QED
      BY <1>2, <2>3, <3>2 DEF Outcomes
  <2>4. CASE ~(End(c, "path_escape") /\ LinkAt(SubSeq(target[c], 1, n)))
    <3>1. /\ level' = [level EXCEPT ![c] = n] /\ Goto(c, "exists")
          /\ UNCHANGED <<tree, swaps, request, target, fd, put, text, outcome,
                         history>>
      BY <1>5, <2>4 DEF WalkOn
    <3> HIDE DEF n
    <3>2. Unhindered(c) => There(tree, target[c], n - 1)
      BY <1>1, <2>1, <2>2 DEF Came
    <3>3. QED
      BY <1>4, <2>1, <2>2, <3>1, <3>2
  <2>5. QED
    BY <2>3, <2>4
<1>6. ASSUME Unhindered(c), pc[c] \in {"exists", "isdir"}
      PROVE  /\ level[c] < Len(target[c]) /\ level[c] \in 1 .. Len(target[c])
             /\ Exists(tree, Current(c)) <=> There(tree, target[c], level[c])
             /\ IsDir(tree, Current(c)) <=> There(tree, target[c], level[c])
             /\ pc[c] = "exists" => There(tree, target[c], level[c] - 1)
             /\ pc[c] = "isdir" => There(tree, target[c], level[c])
  <2>1. level[c] < Len(target[c])
    BY <1>1, <1>6 DEF Came
  <2>2. level[c] \in 1 .. Len(target[c]) /\ level[c] # Len(target[c])
    BY <1>0, <1>6, <2>1
  <2>3. QED
    BY <1>1, <1>6, <2>1, <2>2 DEF Came, Current
<1>7. CASE WalkExists(c)
  BY <1>3, <1>6, <1>7 DEF WalkExists
<1>8. CASE WalkIsDir(c)
  BY <1>2, <1>3, <1>6, <1>8 DEF WalkIsDir, Outcomes
<1>9. CASE WalkDone(c)
  <2>1. pc[c] = "walk" /\ GoOn(c, "target") /\ level[c] + 1 >= Len(target[c])
    BY <1>9 DEF WalkDone, ParentsDone
  <2>2. Unhindered(c) => level[c] < Len(target[c]) /\ There(tree, target[c], level[c])
    BY <1>1, <2>1 DEF Came
  <2>3. level[c] < Len(target[c]) => level[c] = Len(target[c]) - 1
    BY <1>0, <2>1
  <2>4. Unhindered(c) => There(tree, target[c], Len(target[c]) - 1)
    BY <2>2, <2>3
  <2>5. QED
    BY <1>3, <2>1, <2>4
<1>10. CASE CheckTarget(c)
  <2>1. CASE End(c, "path_escape") /\ LinkAt(target[c])
    <3>1. ~Unhindered(c)
      BY <1>1, <2>1, Zenon
    <3>2. QED
      BY <1>2, <2>1, <3>1 DEF Outcomes
  <2>2. CASE ~(End(c, "path_escape") /\ LinkAt(target[c]))
    <3>1. /\ level' = [level EXCEPT ![c] = Len(target[c])] /\ Goto(c, "open")
          /\ UNCHANGED <<tree, swaps, request, target, fd, put, text, outcome,
                         history>>
          /\ pc[c] = "target"
      BY <1>10, <2>2 DEF CheckTarget
    <3>2. Unhindered(c) => There(tree, target[c], Len(target[c]) - 1)
      BY <1>1, <3>1 DEF Came
    <3>3. QED
      BY <1>0, <1>4, <3>1, <3>2
  <2>3. QED
    BY <2>1, <2>2
<1>11. QED
  BY <1>5, <1>7, <1>8, <1>9, <1>10
LEMMA FirstStrict ==
    ASSUME NEW p \in Path, NEW n \in 0 .. Len(p) - 1
    PROVE  IsStrictPrefix(SubSeq(p, 1, n), p)
<1> DEFINE q == SubSeq(p, 1, n)
<1>1. Len(p) \in Nat
  BY LenProperties DEF Path
<1>2. n \in 0 .. Len(p)
  BY <1>1
<1>3. q \in Path /\ Len(q) = n
  BY <1>2, FirstOf
<1>4. SubSeq(p, 1, Len(q)) = q
  BY <1>3
<1> HIDE DEF q
<1>5. IsPrefix(q, p) /\ q # p
  BY <1>1, <1>3, <1>4, BelowIs
<1>6. QED
  BY <1>5 DEF q, IsStrictPrefix

\* A change that is not in a call's way.
LEMMA WayStaysOpen ==
    ASSUME NEW c \in Calls, NEW q, NEW kind, Changed(c, q, kind),
           NEW p \in Path, OpenWay(tree, p),
           kind = "dir" => q # p, kind = "file" => ~IsStrictPrefix(q, p)
    PROVE  /\ OpenWay(tree', p)
           /\ \A i \in 0 .. Len(p) : There(tree, p, i) => There(tree', p, i)
<1>1. /\ DOMAIN tree' = DOMAIN tree \cup {q} /\ tree'[q].kind = kind
      /\ kind \in {"dir", "file"}
      /\ \A r \in DOMAIN tree : r # q => tree'[r] = tree[r]
  BY DEF Changed
<1>2. ASSUME NEW i \in 0 .. Len(p) - 1, There(tree', p, i)
      PROVE  tree'[SubSeq(p, 1, i)].kind = "dir"
  <2> DEFINE r == SubSeq(p, 1, i)
  <2>1. IsStrictPrefix(r, p)
    BY FirstStrict
  <2>2. r \in DOMAIN tree => tree[r].kind = "dir"
    BY DEF OpenWay, There
  <2>3. r \in DOMAIN tree'
    BY <1>2 DEF There
  <2> HIDE DEF r
  <2>4. tree'[r].kind = "dir"
    BY <1>1, <2>1, <2>2, <2>3
  <2>5. QED
    BY <2>4 DEF r
<1>3. p \in DOMAIN tree' => tree'[p].kind = "file"
  BY <1>1 DEF OpenWay
<1>4. QED
  BY <1>1, <1>2, <1>3 DEF OpenWay, There

\* What a write changes is not in the way of the others, or they are told.
LEMMA ChangedClear ==
    ASSUME ClearInv, InsideInv', NEW c \in Calls, NEW q, NEW kind,
           Changed(c, q, kind), ClearAt(c)'
    PROVE  ClearInv'
<1>1. ASSUME NEW e \in Calls \ {c} PROVE ClearAt(e)'
  <2>1. /\ Still(e)
        /\ kind = "dir" /\ q = target[e] => "disturbed" \in noted'[e]
        /\ kind = "dir" /\ pc[e] = "mkdir" /\ q = Current(e)
              => "overtaken" \in noted'[e]
        /\ kind = "file" /\ IsStrictPrefix(q, target[e]) => "disturbed" \in noted'[e]
        /\ DOMAIN tree' = DOMAIN tree \cup {q} /\ kind \in {"dir", "file"}
    BY <1>1 DEF Changed
  <2>2. ASSUME Unhindered(e), Unhindered(e)' PROVE Spares(e)
    <3>1. /\ target[e] \in Path /\ OpenWay(tree, target[e]) /\ Came(e)
          /\ Len(target[e]) \in Nat \ {0} /\ level[e] \in 0 .. Len(target[e])
      BY <2>2, UnhinderedIs
    <3>2. "disturbed" \notin noted'[e] /\ "overtaken" \notin noted'[e]
      BY <2>2 DEF Unhindered, Hindrances
    <3>3. /\ OpenWay(tree', target[e])
          /\ \A i \in 0 .. Len(target[e]) :
                There(tree, target[e], i) => There(tree', target[e], i)
      BY <2>1, <3>1, <3>2, WayStaysOpen
    <3>4. ASSUME pc[e] = "mkdir", There(tree', target[e], level[e])
          PROVE  There(tree, target[e], level[e])
      <4>1. level[e] \in 0 .. Len(target[e]) - 1
        BY <3>1, <3>4 DEF Came
      <4>2. IsStrictPrefix(Current(e), target[e])
        BY <3>1, <4>1, FirstStrict DEF Current
      <4>3. Current(e) # q
        BY <2>1, <3>2, <3>4, <4>2
      <4>4. QED
        BY <2>1, <3>4, <4>3 DEF There, Current
    <3>5. QED
      BY <3>3, <3>4 DEF Spares
  <2>3. QED
    BY <2>1, <2>2, ClearStill
<1>2. QED
  BY <1>1 DEF ClearInv

\* What a call needs of its own change.
LEMMA CameByChange ==
    ASSUME ClearInv, NEW c \in Calls, NEW q, NEW kind, Changed(c, q, kind),
           pc[c] # "handle",
           Unhindered(c) =>
              /\ kind = "dir" => q # target[c]
              /\ kind = "file" => ~IsStrictPrefix(q, target[c])
              /\ \/ pc'[c] = "walk" /\ q = Current(c) /\ level[c] < Len(target[c])
                 \/ pc'[c] = "write"
    PROVE  ClearAt(c)'
<1> SUFFICES ASSUME Unhindered(c)' PROVE ClearAt(c)'
  BY DEF ClearAt
<1>1. /\ request'[c] = request[c] /\ target'[c] = target[c]
      /\ level'[c] = level[c] /\ within'[c] = within[c]
      /\ noted[c] \subseteq noted'[c] /\ q \in DOMAIN tree'
  BY DEF Changed
<1>2. Unhindered(c)
  BY <1>1 DEF Unhindered, Writes
<1>3. target[c] \in Path /\ target[c] # <<>> /\ OpenWay(tree, target[c])
  BY <1>2, UnhinderedIs
<1>4. OpenWay(tree', target[c])
  BY <1>2, <1>3, WayStaysOpen
<1>5. Came(c)'
  BY <1>1, <1>2 DEF Came, There, Current
<1>6. QED
  BY <1>1, <1>3, <1>4, <1>5 DEF ClearAt

LEMMA WriteClear ==
    ASSUME ClearInv, InsideInv', NEW c \in Calls,
           \/ WalkMkdir(c) \/ Open(c) \/ EncodeFails(c) \/ WriteBlock(c)
           \/ Close(c)
    PROVE  ClearInv'
<1>0. pc[c] \in {"mkdir", "open", "write"} /\ TypeInv /\ Typed /\ Sane(c)
      /\ IsTree(tree, Content)
  BY DEF WalkMkdir, Open, EncodeFails, WriteBlock, Close,
         ClearInv, InsideInv, TypeInv
<1>1. ASSUME NEW how \in Outcomes, End(c, how), how = "ok" \/ ~Unhindered(c)
      PROVE  ClearInv'
  <2>1. /\ Looks(c) /\ pc'[c] = "done" /\ outcome'[c] = how
        /\ level'[c] = level[c] /\ noted'[c] = noted[c]
    BY <1>0, <1>1, EndDoes
  <2>2. QED
    BY <1>1, <2>1, LooksClear
<1>2. CASE WalkMkdir(c)
  <2>1. ASSUME Unhindered(c)
        PROVE  /\ Current(c) \in Entry(tree, Current(c)) \ DOMAIN tree
               /\ \A q \in Entry(tree, Current(c)) : q = Current(c)
               /\ level[c] < Len(target[c]) /\ Current(c) # target[c]
    <3>1. /\ target[c] \in Path /\ NoDots(target[c]) /\ OpenWay(tree, target[c])
          /\ Came(c) /\ Len(target[c]) \in Nat \ {0}
          /\ level[c] \in 0 .. Len(target[c])
      BY <2>1, UnhinderedIs
    <3>2. /\ level[c] < Len(target[c]) /\ pc[c] = "mkdir"
          /\ There(tree, target[c], level[c] - 1) /\ ~There(tree, target[c], level[c])
      BY <1>2, <3>1 DEF Came, WalkMkdir
    <3>3. level[c] \in 1 .. Len(target[c]) /\ level[c] - 1 \in 0 .. Len(target[c]) - 1
      BY <1>0, <3>1, <3>2 DEF Sane
    <3>4. NoLinks(tree, target[c], level[c])
      BY <1>0, <3>1, <3>3, OnOpenWay
    <3>5. /\ \A q : q \in Entry(tree, Current(c)) <=>
                /\ q = Current(c) /\ Front(Current(c)) \in DOMAIN tree
                /\ tree[Front(Current(c))].kind = "dir"
          /\ Front(Current(c)) = SubSeq(target[c], 1, level[c] - 1)
      BY <1>0, <3>1, <3>2, <3>4, MakesCurrent
    <3>6. /\ Front(Current(c)) \in DOMAIN tree
          /\ tree[Front(Current(c))].kind = "dir"
      BY <3>1, <3>2, <3>3, <3>5 DEF There, OpenWay
    <3>7. Current(c) \notin DOMAIN tree
      BY <3>2 DEF There, Current
    <3>8. Current(c) # target[c]
      <4>1. Len(Current(c)) = level[c]
        BY <1>0, CurrentIs
      <4>2. QED
        BY <3>2, <4>1
    <3>9. QED
      BY <3>2, <3>5, <3>6, <3>7, <3>8
  <2>2. CASE Entry(tree, Current(c)) \subseteq DOMAIN tree /\ End(c, "os_error")
    BY <1>1, <2>1, <2>2 DEF Outcomes
  <2>3. ASSUME NEW q \in Entry(tree, Current(c)) \ DOMAIN tree,
               Changed(c, q, "dir"), pc'[c] = "walk"
        PROVE  ClearInv'
    <3>1. ClearAt(c)'
      BY <1>0, <2>1, <2>3, CameByChange
    <3>2. QED
      BY <2>3, <3>1, ChangedClear
  <2>4. QED
    BY <1>0, <1>2, <2>2, <2>3, WalkMkdirDoes
<1>3. CASE Open(c)
  <2>1. ASSUME Unhindered(c)
        PROVE  /\ target[c] \in Writable(tree, target[c])
               /\ \A q \in Writable(tree, target[c]) : q = target[c]
    <3>1. /\ target[c] \in Path /\ NoDots(target[c]) /\ OpenWay(tree, target[c])
          /\ Came(c) /\ Len(target[c]) \in Nat \ {0} /\ target[c] # <<>>
      BY <2>1, UnhinderedIs
    <3> DEFINE p == target[c]
               m == Len(p)
    <3>2. m \in 1 .. m /\ m \in 0 .. m /\ m - 1 \in 0 .. m - 1
      BY <3>1
    <3>3. SubSeq(p, 1, m) = p
      BY <3>1, SubSeqFull DEF Path
    <3>4. NoLinks(tree, p, m)
      BY <1>0, <3>1, <3>2, OnOpenWay
    <3>5. Real(tree, p) /\ m <= MaxSteps
      BY <3>1, <3>2, <3>3, <3>4, RealFirst
    <3>6. There(tree, p, m - 1) /\ Front(p) = SubSeq(p, 1, m - 1)
      BY <1>3, <3>1 DEF Open, Came, Front
    <3>7. Front(p) \in DOMAIN tree /\ tree[Front(p)].kind = "dir"
      BY <3>1, <3>2, <3>6 DEF There, OpenWay
    <3>8. p \in DOMAIN tree => tree[p].kind = "file"
      BY <3>1 DEF OpenWay
    <3>9. p \in Path /\ p # <<>>
      BY <3>1
    <3> HIDE DEF p
    <3>10. /\ p \in Writable(tree, p) /\ \A q \in Writable(tree, p) : q = p
      BY <3>5, <3>7, <3>8, <3>9, WritableReal DEF m
    <3>11. QED
      BY <3>10 DEF p
  <2>2. CASE Writable(tree, target[c]) = {} /\ End(c, "os_error")
    BY <1>1, <2>1, <2>2 DEF Outcomes
  <2>3. ASSUME NEW q \in Writable(tree, target[c]), Changed(c, q, "file"),
               pc'[c] = "write"
        PROVE  ClearInv'
    <3>1. ~IsStrictPrefix(target[c], target[c])
      BY DEF IsStrictPrefix
    <3>2. ClearAt(c)'
      BY <1>0, <2>1, <2>3, <3>1, CameByChange
    <3>3. QED
      BY <2>3, <3>2, ChangedClear
  <2>4. QED
    BY <1>0, <1>3, <2>2, <2>3, OpenDoes
<1>4. CASE EncodeFails(c)
  BY <1>1, <1>4 DEF EncodeFails, Unhindered, Outcomes
<1>5. CASE WriteBlock(c)
  <2>1. pc[c] = "write" /\ pc'[c] = "write"
    BY <1>0, <1>5, WriteBlockDoes
  <2>2. CASE /\ Alone(c) /\ noted'[c] = noted[c]
             /\ request'[c] = request[c] /\ target'[c] = target[c]
             /\ level'[c] = level[c] /\ within'[c] = within[c]
    <3>1. tree' = tree
      BY <2>2 DEF Alone
    <3>2. ClearAt(c)'
      BY <2>1, <2>2, <3>1 DEF ClearInv, ClearAt, Unhindered, Came, Writes
    <3>3. QED
      BY <2>2, <3>2, AloneClear
  <2>3. CASE fd[c] # <<>> /\ Changed(c, fd[c], "file")
    <3>1. fd[c] \in DOMAIN tree /\ tree[fd[c]].kind = "file" /\ fd[c] \in Path
      BY <1>0, <2>3 DEF Sane, Typed
    <3>2. ASSUME Unhindered(c) PROVE ~IsStrictPrefix(fd[c], target[c])
      <4>1. /\ target[c] \in Path /\ OpenWay(tree, target[c])
            /\ Len(target[c]) \in Nat
        BY <3>2, UnhinderedIs
      <4>2. SUFFICES ASSUME IsPrefix(fd[c], target[c]), fd[c] # target[c]
                     PROVE  FALSE
        BY DEF IsStrictPrefix
      <4>3. /\ Len(fd[c]) <= Len(target[c]) /\ Len(fd[c]) \in Nat
            /\ SubSeq(target[c], 1, Len(fd[c])) = fd[c]
        BY <3>1, <4>1, <4>2, BelowIs, LenProperties DEF Path
      <4>4. Len(fd[c]) # Len(target[c])
        BY <4>1, <4>2, <4>3, SubSeqFull DEF Path
      <4>5. Len(fd[c]) \in 0 .. Len(target[c]) - 1
        BY <4>1, <4>3, <4>4
      <4>6. QED
        BY <3>1, <4>1, <4>3, <4>5 DEF OpenWay, There
    <3>3. ClearAt(c)'
      BY <2>1, <2>3, <3>2, CameByChange
    <3>4. QED
      BY <2>3, <3>3, ChangedClear
  <2>4. QED
    BY <1>0, <1>5, <2>2, <2>3, WriteBlockDoes
<1>6. CASE Close(c)
  BY <1>1, <1>6 DEF Close, Outcomes
<1>7. QED
  BY <1>2, <1>3, <1>4, <1>5, <1>6

LEMMA FailsClear ==
    ASSUME ClearInv, InsideInv', NEW c \in Calls, SystemFails(c)
    PROVE  ClearInv'
<1>1. Looks(c) /\ pc'[c] = "done" /\ noted'[c] = noted[c] \cup {"failed"}
  BY FailsDoes DEF ClearInv, InsideInv, TypeInv
<1>2. ~Unhindered(c)'
  BY <1>1 DEF Unhindered, Hindrances
<1>3. QED
  BY <1>1, <1>2, LooksClear

LEMMA ClearStep == ClearInv /\ [Next]_vars => ClearInv'
<1> SUFFICES ASSUME ClearInv, [Next]_vars PROVE ClearInv'
  OBVIOUS
<1>0. InsideInv'
  BY InsideStep DEF ClearInv
<1>1. CASE UNCHANGED vars
  <2>1. UNCHANGED <<tree, pc, request, target, level, outcome, noted, within>>
    BY <1>1 DEF vars, handler, history
  <2>2. ASSUME NEW e \in Calls PROVE ClearAt(e)'
    BY <2>1 DEF ClearInv, ClearAt, Unhindered, Came, Writes
  <2>3. QED
    BY <1>0, <2>2 DEF ClearInv
<1>2. ASSUME NEW s \in Swaps, Swap(s) PROVE ClearInv'
  BY <1>0, <1>2, SwapClear
<1>3. ASSUME NEW c \in Calls, NEW r \in Requests, Resolve(c, r) PROVE ClearInv'
  BY <1>0, <1>3, ResolveClear
<1>4. ASSUME NEW c \in Calls, read_file(c) \/ list_dir(c) PROVE ClearInv'
  BY <1>0, <1>4, ReadClear
<1>5. ASSUME NEW c \in Calls, write_file(c) PROVE ClearInv'
  BY <1>0, <1>5, StartClear, WalkClear, WriteClear DEF write_file, make_parents
<1>6. ASSUME NEW c \in Calls, SystemFails(c) PROVE ClearInv'
  BY <1>0, <1>6, FailsClear
<1>7. QED
  BY <1>1, <1>2, <1>3, <1>4, <1>5, <1>6 DEF Next

LEMMA ClearInit == Init => ClearInv
<1> SUFFICES ASSUME Init PROVE ClearInv
  OBVIOUS
<1>1. ASSUME NEW c \in Calls PROVE ClearAt(c)
  BY DEF Init, ClearAt, Unhindered
<1>2. QED
  BY <1>1, InsideInit DEF ClearInv

LEMMA ClearAlways == Spec => []ClearInv
  BY ClearInit, ClearStep, PTL DEF Spec

\* However many others write, read and rearrange the workspace meanwhile, a
\* write whose path was clear when the executor resolved it ends with "ok" as
\* long as nothing on that path or its root was taken away or put in its way:
\* _make_parents makes what is missing and finds what is there, and the file
\* opens.  Only another call's mkdir between its look and its own can fail it,
\* and the operating system for reasons that do not lie in the tree.
THEOREM ClearWritesSucceed == Spec => []ClearWriteSucceeds
<1>1. ClearInv => ClearWriteSucceeds
  <2> SUFFICES ASSUME ClearInv, NEW c \in Calls, Unhindered(c), pc[c] = "done"
               PROVE  outcome[c] = "ok"
    BY DEF ClearWriteSucceeds, Unhindered, Hindrances
  <2>1. QED
    BY DEF ClearInv, ClearAt, Came
<1>2. QED
  BY <1>1, ClearAlways, PTL

-----------------------------------------------------------------------------
\* The start of a write notes things of its own call, and changes nothing that
\* its file depends on.
LEMMA StartWriteNotes ==
    ASSUME NEW c \in Calls, NEW failed \in BOOLEAN, StartWrite(c, failed),
           noted \in [Calls -> SUBSET Notes]
    PROVE  /\ \E step \in {"walk", "target"} : Goto(c, step)
           /\ UNCHANGED <<tree, request, target, fd, put, text, outcome>>
           /\ noted' \in [Calls -> SUBSET Notes] /\ noted[c] \subseteq noted'[c]
           /\ \A e \in Calls \ {c} : noted'[e] = noted[e]
<1>1. PICK late, moved :
        noted' = [noted EXCEPT ![c] = @ \cup Noticed("late", late)
                                        \cup Noticed("moved", moved)
                                        \cup Noticed("failed", failed)]
  BY DEF StartWrite
<1>2. /\ \E step \in {"walk", "target"} : Goto(c, step)
      /\ UNCHANGED <<tree, request, target, fd, put, text, outcome>>
  BY DEF StartWrite
<1>3. Noticed("late", late) \cup Noticed("moved", moved)
         \cup Noticed("failed", failed) \subseteq Notes
  BY DEF Noticed, Notes
<1>4. QED
  BY <1>1, <1>2, <1>3

(* The cap of a read.                                                      *)

TypedCap ==
    /\ pc \in [Calls -> Steps]
    /\ outcome \in [Calls -> Outcomes]
    /\ noted \in [Calls -> SUBSET Notes]
    /\ text = [c \in Calls |-> text[c]]
    /\ DOMAIN target = Calls

\* What a read is about to load fits, unless it was resized since.
Measured(c) ==
    pc[c] = "read" /\ "resized" \notin noted[c] =>
        \A size \in Sizes(tree, target[c]) : ~(size > ReadCap)

\* What a call has returned fits; before it returns it has returned nothing.
Returned(c) ==
    /\ pc[c] # "done" => text[c] = <<>> /\ outcome[c] = "none"
    /\ outcome[c] = "ok" /\ "resized" \notin noted[c] => ~(Len(text[c]) > ReadCap)

CapInv == TypedCap /\ \A c \in Calls : Measured(c) /\ Returned(c)

-----------------------------------------------------------------------------
(* A step leaves a call as it was, but for what may be noted of it.        *)

SameCap(e) ==
    /\ pc'[e] = pc[e] /\ text'[e] = text[e] /\ outcome'[e] = outcome[e]
    /\ target'[e] = target[e] /\ noted[e] \subseteq noted'[e]
    /\ \/ Sizes(tree', target[e]) = Sizes(tree, target[e])
       \/ pc[e] # "read"
       \/ "resized" \in noted'[e]

LEMMA StillCap ==
    ASSUME NEW e \in Calls, Measured(e), Returned(e), SameCap(e)
    PROVE  Measured(e)' /\ Returned(e)'
<1>1. Measured(e)'
  BY DEF Measured, SameCap
<1>2. Returned(e)'
  BY DEF Returned, SameCap
<1>3. QED
  BY <1>1, <1>2

\* What a step does of its caller, when every other call is kept.
LEMMA OneCap ==
    ASSUME CapInv, TypedCap', NEW c \in Calls,
           \A e \in Calls \ {c} : SameCap(e), Measured(c)', Returned(c)'
    PROVE  CapInv'
<1>1. ASSUME NEW e \in Calls \ {c} PROVE Measured(e)' /\ Returned(e)'
  BY <1>1, StillCap DEF CapInv
<1>2. QED
  BY <1>1 DEF CapInv

\* A step that returns nothing and does not lead to the read.
LEMMA NoRead ==
    ASSUME TypedCap, TypedCap', NEW c \in Calls, pc'[c] # "read",
           text'[c] = <<>>, pc'[c] # "done" => outcome'[c] = "none"
    PROVE  Measured(c)' /\ Returned(c)'
<1>1. ~(Len(text'[c]) > ReadCap)
  BY FilesAssumption
<1>2. QED
  BY <1>1 DEF Measured, Returned

-----------------------------------------------------------------------------
LEMMA EndCap ==
    ASSUME CapInv, NEW c \in Calls, pc[c] # "done", NEW how \in Outcomes,
           End(c, how)
    PROVE  CapInv'
<1>1. TypedCap'
  BY DEF CapInv, TypedCap, End, Goto, Steps, history
<1>2. \A e \in Calls \ {c} : SameCap(e)
  BY DEF CapInv, TypedCap, End, Goto, SameCap, history
<1>3. pc'[c] = "done" /\ text'[c] = <<>>
  BY DEF CapInv, TypedCap, End, Goto, Returned
<1>4. QED
  BY <1>1, <1>2, <1>3, NoRead, OneCap DEF CapInv

LEMMA GoOnCap ==
    ASSUME CapInv, NEW c \in Calls, pc[c] # "done",
           NEW step \in Steps \ {"done"}, GoOn(c, step),
           step = "read" => \A size \in Sizes(tree, target[c]) : ~(size > ReadCap)
    PROVE  CapInv'
<1>1. TypedCap'
  BY DEF CapInv, TypedCap, GoOn, Goto, handler, history
<1>2. \A e \in Calls \ {c} : SameCap(e)
  BY DEF CapInv, TypedCap, GoOn, Goto, SameCap, handler, history
<1>3. /\ pc'[c] = step /\ text'[c] = <<>> /\ outcome'[c] = "none"
      /\ tree' = tree /\ target' = target
  BY DEF CapInv, TypedCap, GoOn, Goto, Returned, handler, history
<1>4. Measured(c)'
  BY <1>3 DEF Measured
<1>5. Returned(c)'
  BY <1>3 DEF Returned
<1>6. QED
  BY <1>1, <1>2, <1>4, <1>5, OneCap

-----------------------------------------------------------------------------
(* Steps that change the tree note whom they resize; the others leave it.  *)

LEMMA SwapCap ==
    ASSUME CapInv, NEW s \in Swaps, Swap(s)
    PROVE  CapInv'
<1>1. /\ UNCHANGED <<pc, target, text, outcome>>
      /\ \A e \in Calls : noted[e] \cup Noticed("resized", Resized(e))
                              \subseteq noted'[e]
  BY DEF Swap
<1>2. noted' \in [Calls -> SUBSET Notes]
  BY DEF Swap, Noticed, Notes, CapInv, TypedCap
<1>3. TypedCap'
  BY <1>1, <1>2 DEF CapInv, TypedCap
<1>4. ASSUME NEW e \in Calls PROVE SameCap(e)
  BY <1>1 DEF SameCap, Noticed, Resized
<1>5. QED
  BY <1>3, <1>4, StillCap DEF CapInv

LEMMA ResolveCap ==
    ASSUME CapInv, NEW c \in Calls, NEW r \in Requests, Resolve(c, r)
    PROVE  CapInv'
<1>1. TypedCap'
  <2>1. pc' \in [Calls -> Steps]
    BY DEF CapInv, TypedCap, Resolve, Goto, Steps
  <2>2. outcome' \in [Calls -> Outcomes]
    BY DEF CapInv, TypedCap, Resolve, Outcomes
  <2>3. noted' \in [Calls -> SUBSET Notes]
    BY DEF CapInv, TypedCap, Resolve, Noticed, Notes
  <2>4. QED
    BY <2>1, <2>2, <2>3 DEF CapInv, TypedCap, Resolve
<1>2. ASSUME NEW e \in Calls \ {c} PROVE SameCap(e)
  <2>1. tree' = tree /\ text' = text
    BY DEF Resolve
  <2>2. pc'[e] = pc[e] /\ outcome'[e] = outcome[e]
    BY DEF Resolve, Goto, CapInv, TypedCap
  <2>3. target'[e] = target[e] /\ noted'[e] = noted[e]
    BY DEF Resolve, CapInv, TypedCap
  <2>4. QED
    BY <2>1, <2>2, <2>3 DEF SameCap
<1>3. /\ pc'[c] # "read" /\ text'[c] = <<>>
      /\ pc'[c] # "done" => outcome'[c] = "none"
  BY DEF CapInv, TypedCap, Resolve, Goto, Returned
<1>4. QED
  BY <1>1, <1>2, <1>3, NoRead, OneCap DEF CapInv

LEMMA ReadStatCap ==
    ASSUME CapInv, NEW c \in Calls, ReadStat(c)
    PROVE  CapInv'
<1>1. CASE End(c, "os_error")
  BY <1>1, EndCap DEF ReadStat, Outcomes
<1>2. CASE End(c, "too_large")
  BY <1>2, EndCap DEF ReadStat, Outcomes
<1>3. ASSUME NEW size \in Sizes(tree, target[c]), ~OverReadCap(size),
             GoOn(c, "read")
      PROVE  CapInv'
  <2>1. ASSUME NEW other \in Sizes(tree, target[c]) PROVE other = size
    BY DEF Sizes, Reached
  <2>2. pc[c] = "stat" /\ "read" \in Steps \ {"done"}
    BY DEF ReadStat, Steps
  <2>3. \A other \in Sizes(tree, target[c]) : ~(other > ReadCap)
    BY <1>3, <2>1 DEF OverReadCap
  <2>4. QED
    BY <1>3, <2>2, <2>3, GoOnCap
<1>4. QED
  BY <1>1, <1>2, <1>3 DEF ReadStat

\* What is loaded is what was measured, unless it was resized.
LEMMA ReadBytesCap ==
    ASSUME CapInv, NEW c \in Calls, ReadBytes(c)
    PROVE  CapInv'
<1>1. CASE End(c, "os_error")
  BY <1>1, EndCap DEF ReadBytes, Outcomes
<1>2. ASSUME NEW q \in Reached(tree, target[c]), ~End(c, "os_error")
      PROVE  CapInv'
  <2>0. PICK p \in Reached(tree, target[c]) :
          /\ text' = [text EXCEPT ![c] = tree[p].content]
          /\ outcome' = [outcome EXCEPT ![c] =
                IF Decodes(tree[p].content) THEN "ok" ELSE "not_utf8"]
          /\ Goto(c, "done")
          /\ UNCHANGED <<tree, target, noted>>
    BY <1>2 DEF ReadBytes
  <2>1. TypedCap'
    <3>1. pc' \in [Calls -> Steps] /\ outcome' \in [Calls -> Outcomes]
      BY <2>0 DEF CapInv, TypedCap, Goto, Steps, Outcomes
    <3>2. QED
      BY <2>0, <3>1 DEF CapInv, TypedCap
  <2>2. \A e \in Calls \ {c} : SameCap(e)
    BY <2>0 DEF CapInv, TypedCap, Goto, SameCap
  <2>3. "resized" \notin noted[c] => ~(Len(tree[p].content) > ReadCap)
    BY DEF ReadBytes, CapInv, Measured, Sizes
  <2>4. Measured(c)' /\ Returned(c)'
    BY <2>0, <2>3 DEF CapInv, TypedCap, Goto, Measured, Returned
  <2>5. QED
    BY <2>1, <2>2, <2>4, OneCap
<1>3. QED
  BY <1>1, <1>2 DEF ReadBytes

LEMMA ListEntriesCap ==
    ASSUME CapInv, NEW c \in Calls, ListEntries(c)
    PROVE  CapInv'
<1>1. CASE End(c, "os_error")
  BY <1>1, EndCap DEF ListEntries, Outcomes
<1>2. CASE /\ Goto(c, "done") /\ outcome' = [outcome EXCEPT ![c] = "ok"]
           /\ UNCHANGED <<tree, target, text, noted>>
  <2>1. TypedCap'
    BY <1>2 DEF CapInv, TypedCap, Goto, Steps, Outcomes
  <2>2. \A e \in Calls \ {c} : SameCap(e)
    BY <1>2 DEF CapInv, TypedCap, Goto, SameCap
  <2>3. pc'[c] = "done" /\ text'[c] = <<>>
    BY <1>2 DEF CapInv, TypedCap, Goto, Returned, ListEntries
  <2>4. QED
    BY <2>1, <2>2, <2>3, NoRead, OneCap DEF CapInv
<1>3. QED
  BY <1>1, <1>2 DEF ListEntries

\* A write goes on without changing the tree.
LEMMA LookOnCap ==
    ASSUME CapInv, NEW c \in Calls, pc[c] # "done",
           NEW step \in Steps \ {"read", "done"}, Goto(c, step),
           UNCHANGED <<tree, target, text, outcome, noted>>
    PROVE  CapInv'
<1>1. TypedCap'
  BY DEF CapInv, TypedCap, Goto
<1>2. \A e \in Calls \ {c} : SameCap(e)
  BY DEF CapInv, TypedCap, Goto, SameCap
<1>3. pc'[c] = step /\ text'[c] = <<>> /\ outcome'[c] = "none"
  BY DEF CapInv, TypedCap, Goto, Returned
<1>4. QED
  BY <1>1, <1>2, <1>3, NoRead, OneCap DEF CapInv

\* A write changes the tree and goes on, noting what it does to the others.
LEMMA ChangeOnCap ==
    ASSUME CapInv, NEW c \in Calls, pc[c] \notin {"read", "done"},
           pc' \in [Calls -> Steps], pc'[c] \notin {"read", "done"},
           \A e \in Calls \ {c} : pc'[e] = pc[e],
           noted' \in [Calls -> SUBSET Notes],
           \A e \in Calls : noted[e] \cup Noticed("resized", Resized(e))
                               \subseteq noted'[e],
           UNCHANGED <<target, text, outcome>>
    PROVE  CapInv'
<1>1. TypedCap'
  BY DEF CapInv, TypedCap
<1>2. ASSUME NEW e \in Calls \ {c} PROVE SameCap(e)
  BY <1>2 DEF SameCap, Noticed, Resized
<1>3. text'[c] = <<>> /\ outcome'[c] = "none"
  BY DEF CapInv, Returned
<1>4. QED
  BY <1>1, <1>2, <1>3, NoRead, OneCap DEF CapInv

LEMMA NotedCap ==
    ASSUME CapInv, NEW c \in Calls, NEW q, NoteChange(c, q)
    PROVE  /\ noted' \in [Calls -> SUBSET Notes]
           /\ \A e \in Calls : noted[e] \cup Noticed("resized", Resized(e))
                                   \subseteq noted'[e]
<1>1. noted' \in [Calls -> SUBSET Notes]
  BY DEF NoteChange, Noticed, Notes, CapInv, TypedCap
<1>2. QED
  BY <1>1 DEF NoteChange

LEMMA StartWriteCap ==
    ASSUME CapInv, NEW c \in Calls, NEW failed \in BOOLEAN, StartWrite(c, failed)
    PROVE  CapInv'
<1>1. PICK step \in {"walk", "target"} : Goto(c, step)
  BY StartWriteNotes DEF CapInv, TypedCap
<1>2. /\ UNCHANGED <<tree, target, text, outcome>>
      /\ noted' \in [Calls -> SUBSET Notes]
      /\ \A e \in Calls \ {c} : noted'[e] = noted[e]
  BY StartWriteNotes DEF CapInv, TypedCap
<1>3. pc' \in [Calls -> Steps] /\ pc'[c] = step /\ \A e \in Calls \ {c} : pc'[e] = pc[e]
  BY <1>1 DEF CapInv, TypedCap, Goto, Steps
<1>4. TypedCap'
  BY <1>2, <1>3 DEF CapInv, TypedCap
<1>5. \A e \in Calls \ {c} : SameCap(e)
  BY <1>2, <1>3 DEF SameCap
<1>6. text'[c] = <<>> /\ outcome'[c] = "none"
  BY <1>2 DEF CapInv, Returned, StartWrite
<1>7. QED
  BY <1>3, <1>4, <1>5, <1>6, NoRead, OneCap DEF CapInv

LEMMA WalkOnCap ==
    ASSUME CapInv, NEW c \in Calls, WalkOn(c)
    PROVE  CapInv'
<1>1. CASE End(c, "path_escape")
  BY <1>1, EndCap DEF WalkOn, Outcomes
<1>2. CASE /\ Goto(c, "exists")
           /\ UNCHANGED <<tree, target, text, outcome, noted>>
  BY <1>2, LookOnCap DEF WalkOn, Steps
<1>3. QED
  BY <1>1, <1>2 DEF WalkOn, history

LEMMA WalkMkdirCap ==
    ASSUME CapInv, NEW c \in Calls, WalkMkdir(c)
    PROVE  CapInv'
<1>1. CASE End(c, "os_error")
  BY <1>1, EndCap DEF WalkMkdir, Outcomes
<1>2. ASSUME NEW q, noted' = [e \in Calls |->
                noted[e] \cup
                Noticed("overtaken", pc[e] = "mkdir" /\ e # c /\ q = Current(e))
                \cup Noticed("disturbed", e # c /\ q = target[e])
                \cup Noticed("resized", Resized(e))],
             Goto(c, "walk"), UNCHANGED <<target, text, outcome>>
      PROVE  CapInv'
  <2>1. noted' \in [Calls -> SUBSET Notes]
    BY <1>2 DEF Noticed, Notes, CapInv, TypedCap
  <2>2. \A e \in Calls : noted[e] \cup Noticed("resized", Resized(e))
                              \subseteq noted'[e]
    BY <1>2
  <2>3. /\ pc[c] = "mkdir" /\ pc' \in [Calls -> Steps] /\ pc'[c] = "walk"
        /\ \A e \in Calls \ {c} : pc'[e] = pc[e]
    BY <1>2 DEF WalkMkdir, Goto, CapInv, TypedCap, Steps
  <2>4. QED
    BY <1>2, <2>1, <2>2, <2>3, ChangeOnCap
<1>3. QED
  BY <1>1, <1>2 DEF WalkMkdir, handler

LEMMA CheckTargetCap ==
    ASSUME CapInv, NEW c \in Calls, CheckTarget(c)
    PROVE  CapInv'
<1>1. CASE End(c, "path_escape")
  BY <1>1, EndCap DEF CheckTarget, Outcomes
<1>2. CASE /\ Goto(c, "open")
           /\ UNCHANGED <<tree, target, text, outcome, noted>>
  BY <1>2, LookOnCap DEF CheckTarget, Steps
<1>3. QED
  BY <1>1, <1>2 DEF CheckTarget, history

LEMMA OpenCap ==
    ASSUME CapInv, NEW c \in Calls, Open(c)
    PROVE  CapInv'
<1>1. CASE End(c, "os_error")
  BY <1>1, EndCap DEF Open, Outcomes
<1>2. ASSUME NEW q, NoteChange(c, q), Goto(c, "write"),
             UNCHANGED <<target, text, outcome>>
      PROVE  CapInv'
  <2>1. /\ pc[c] = "open" /\ pc' \in [Calls -> Steps] /\ pc'[c] = "write"
        /\ \A e \in Calls \ {c} : pc'[e] = pc[e]
    BY <1>2 DEF Open, Goto, CapInv, TypedCap, Steps
  <2>2. QED
    BY <1>2, <2>1, NotedCap, ChangeOnCap
<1>3. QED
  BY <1>1, <1>2 DEF Open

LEMMA WriteBlockCap ==
    ASSUME CapInv, NEW c \in Calls, WriteBlock(c)
    PROVE  CapInv'
<1>1. UNCHANGED <<pc, target, text, outcome>> /\ pc[c] = "write"
  BY DEF WriteBlock
<1>2. CASE UNCHANGED <<tree, noted>>
  BY <1>1, <1>2, LookOnCap DEF Goto, CapInv, TypedCap, Steps
<1>3. CASE NoteChange(c, fd[c])
  <2>1. pc' \in [Calls -> Steps]
    BY <1>1 DEF CapInv, TypedCap
  <2>2. QED
    BY <1>1, <1>3, <2>1, NotedCap, ChangeOnCap
<1>4. QED
  BY <1>2, <1>3 DEF WriteBlock

LEMMA FailsCap ==
    ASSUME CapInv, NEW c \in Calls, SystemFails(c)
    PROVE  CapInv'
<1>1. TypedCap'
  <2>1. noted' \in [Calls -> SUBSET Notes]
    BY DEF CapInv, TypedCap, SystemFails, Notes
  <2>2. QED
    BY <2>1 DEF CapInv, TypedCap, SystemFails, Goto, Steps, Outcomes
<1>2. \A e \in Calls \ {c} : SameCap(e)
  BY DEF CapInv, TypedCap, SystemFails, Goto, SameCap
<1>3. pc'[c] = "done" /\ text'[c] = <<>>
  BY DEF CapInv, TypedCap, SystemFails, Exposed, Goto, Returned
<1>4. QED
  BY <1>1, <1>2, <1>3, NoRead, OneCap DEF CapInv

-----------------------------------------------------------------------------
\* The steps of a call that only look, or end it.
LEMMA PlainCap ==
    ASSUME CapInv, NEW c \in Calls,
           \/ ReadIsFile(c) \/ ListIsDir(c) \/ WalkExists(c) \/ WalkIsDir(c)
           \/ WalkDone(c) \/ EncodeFails(c) \/ Close(c)
    PROVE  CapInv'
<1>1. pc[c] # "done"
  BY DEF ReadIsFile, ListIsDir, WalkExists, WalkIsDir, WalkDone, EncodeFails,
         Close
<1>2. \/ \E how \in Outcomes : End(c, how)
      \/ \E step \in Steps \ {"read", "done"} : GoOn(c, step)
  BY DEF ReadIsFile, ListIsDir, WalkExists, WalkIsDir, WalkDone, EncodeFails,
         Close, WrongKind, Outcomes, Steps
<1>3. QED
  BY <1>1, <1>2, EndCap, GoOnCap

LEMMA CapStep == CapInv /\ [Next]_vars => CapInv'
<1> SUFFICES ASSUME CapInv, [Next]_vars PROVE CapInv'
  OBVIOUS
<1>1. CASE UNCHANGED vars
  <2>1. UNCHANGED <<tree, pc, target, text, outcome, noted>>
    BY <1>1 DEF vars, handler, history
  <2>2. \A e \in Calls : SameCap(e)
    BY <2>1 DEF SameCap
  <2>3. QED
    BY <2>1, <2>2, StillCap DEF CapInv, TypedCap
<1>2. ASSUME NEW s \in Swaps, Swap(s) PROVE CapInv'
  BY <1>2, SwapCap
<1>3. ASSUME NEW c \in Calls, NEW r \in Requests, Resolve(c, r) PROVE CapInv'
  BY <1>3, ResolveCap
<1>4. ASSUME NEW c \in Calls, read_file(c) PROVE CapInv'
  BY <1>4, PlainCap, ReadStatCap, ReadBytesCap DEF read_file
<1>5. ASSUME NEW c \in Calls, list_dir(c) PROVE CapInv'
  BY <1>5, PlainCap, ListEntriesCap DEF list_dir
<1>6. ASSUME NEW c \in Calls, write_file(c) PROVE CapInv'
  BY <1>6, PlainCap, StartWriteCap, WalkOnCap, WalkMkdirCap,
     CheckTargetCap, OpenCap, WriteBlockCap
     DEF write_file, make_parents
<1>7. ASSUME NEW c \in Calls, SystemFails(c) PROVE CapInv'
  BY <1>7, FailsCap
<1>8. QED
  BY <1>1, <1>2, <1>3, <1>4, <1>5, <1>6, <1>7 DEF Next

LEMMA CapInit == Init => CapInv
  BY DEF Init, CapInv, TypedCap, Measured, Returned, Steps, Outcomes, Notes

\* A read returns no more than the cap unless its file was resized between the
\* look at its size and the read: what read_file's cap promises of a file that
\* changes, however many calls and other processes change it.
THEOREM ReadsFitTheCap == Spec => []ReadWithinCap
<1>1. CapInv => ReadWithinCap
  BY DEF CapInv, Returned, ReadWithinCap
<1>2. QED
  BY <1>1, CapInit, CapStep, PTL DEF Spec

-----------------------------------------------------------------------------
(* The whole of a write.                                                   *)

TypedWhole ==
    /\ pc \in [Calls -> Steps]
    /\ outcome \in [Calls -> Outcomes]
    /\ noted \in [Calls -> SUBSET Notes]
    /\ request \in [Calls -> Requests]
    /\ put \in [Calls -> Nat]
    /\ DOMAIN fd = Calls

\* How far a write has come.
Counted(c) ==
    /\ put[c] <= request[c].blocks
    /\ pc[c] \notin {"write", "done"} => put[c] = 0 /\ fd[c] = <<>>
    /\ pc[c] \in {"stat", "read", "entries"} => ~Writes(c)
    /\ pc[c] # "done" => outcome[c] = "none"
    /\ outcome[c] = "ok" /\ Writes(c) => put[c] = request[c].blocks

\* What the open file of a write holds.
Filled(c) ==
    /\ fd[c] # <<>> /\ fd[c] \in DOMAIN tree
    /\ tree[fd[c]].content = [i \in 1 .. put[c] |-> c]

Holds(c) ==
    "mixed" \notin noted[c] =>
        /\ pc[c] = "write" \/ (outcome[c] = "ok" /\ Writes(c)) => fd[c] # <<>>
        /\ fd[c] # <<>> => Filled(c)

WholeInv == TypedWhole /\ \A c \in Calls : Counted(c) /\ Holds(c)

-----------------------------------------------------------------------------
(* A step leaves a call as it was; its open file too, or that is noted.    *)

SameWhole(e) ==
    /\ pc'[e] = pc[e] /\ outcome'[e] = outcome[e] /\ request'[e] = request[e]
    /\ put'[e] = put[e] /\ noted[e] \subseteq noted'[e]
    /\ \/ "mixed" \in noted'[e] /\ fd'[e] \in {fd[e], <<>>}
       \/ fd'[e] = fd[e] /\ (Filled(e) => Filled(e)')

LEMMA StillWhole ==
    ASSUME NEW e \in Calls, Counted(e), Holds(e), SameWhole(e)
    PROVE  Counted(e)' /\ Holds(e)'
<1>1. Counted(e)'
  BY DEF Counted, SameWhole, Writes
<1>2. Holds(e)'
  BY DEF Holds, SameWhole, Writes
<1>3. QED
  BY <1>1, <1>2

LEMMA OneWhole ==
    ASSUME WholeInv, TypedWhole', NEW c \in Calls,
           \A e \in Calls \ {c} : SameWhole(e), Counted(c)', Holds(c)'
    PROVE  WholeInv'
<1>1. ASSUME NEW e \in Calls \ {c} PROVE Counted(e)' /\ Holds(e)'
  BY <1>1, StillWhole DEF WholeInv
<1>2. QED
  BY <1>1 DEF WholeInv

\* A step of c that leaves the tree alone.
LooksWhole(c) ==
    /\ UNCHANGED <<tree, request, put, fd>>
    /\ pc' \in [Calls -> Steps] /\ outcome' \in [Calls -> Outcomes]
    /\ noted' \in [Calls -> SUBSET Notes] /\ noted[c] \subseteq noted'[c]
    /\ \A e \in Calls \ {c} : pc'[e] = pc[e] /\ outcome'[e] = outcome[e]
                              /\ noted'[e] = noted[e]

LEMMA LooksSame ==
    ASSUME WholeInv, NEW c \in Calls, LooksWhole(c)
    PROVE  TypedWhole' /\ \A e \in Calls \ {c} : SameWhole(e)
<1>1. TypedWhole'
  BY DEF WholeInv, TypedWhole, LooksWhole
<1>2. ASSUME NEW e \in Calls \ {c} PROVE SameWhole(e)
  BY DEF SameWhole, LooksWhole, Filled
<1>3. QED
  BY <1>1, <1>2

\* ... by which a write does not come to its file, nor a write to success.
LEMMA LookWhole ==
    ASSUME WholeInv, NEW c \in Calls, LooksWhole(c), pc[c] # "done",
           pc'[c] # "write", pc[c] # "write" \/ pc'[c] = "done",
           pc'[c] \in {"stat", "read", "entries"} => ~Writes(c),
           pc'[c] # "done" => outcome'[c] = "none",
           outcome'[c] = "ok" => ~Writes(c)
    PROVE  WholeInv'
<1>1. Counted(c)'
  BY DEF Counted, LooksWhole, WholeInv, Writes
<1>2. Holds(c)'
  BY DEF Holds, LooksWhole, Writes, WholeInv, Counted, Filled
<1>3. QED
  BY <1>1, <1>2, LooksSame, OneWhole

LEMMA EndWhole ==
    ASSUME WholeInv, NEW c \in Calls, pc[c] # "done", NEW how \in Outcomes,
           End(c, how), how = "ok" => ~Writes(c)
    PROVE  WholeInv'
<1>1. LooksWhole(c)
  BY DEF WholeInv, TypedWhole, End, Goto, LooksWhole, Steps, history
<1>2. pc'[c] = "done" /\ outcome'[c] = how
  BY DEF WholeInv, TypedWhole, End, Goto
<1>3. QED
  BY <1>1, <1>2, LookWhole

LEMMA GoOnWhole ==
    ASSUME WholeInv, NEW c \in Calls, pc[c] \notin {"write", "done"},
           NEW step \in Steps \ {"write", "done"}, Goto(c, step),
           step \in {"stat", "read", "entries"} => ~Writes(c),
           UNCHANGED <<tree, request, put, fd, outcome, noted>>
    PROVE  WholeInv'
<1>1. LooksWhole(c)
  BY DEF WholeInv, TypedWhole, Goto, LooksWhole
<1>2. pc'[c] = step /\ outcome'[c] = "none" /\ put[c] = 0
  BY DEF WholeInv, TypedWhole, Goto, Counted
<1>3. QED
  BY <1>1, <1>2, LookWhole

-----------------------------------------------------------------------------
(* Steps that change the tree spare an open file, or note it mixed.        *)

LEMMA SwapWhole ==
    ASSUME WholeInv, NEW s \in Swaps, Swap(s)
    PROVE  WholeInv'
<1>1. /\ UNCHANGED <<pc, outcome, request, put>>
      /\ \A e \in Calls : noted[e] \subseteq noted'[e]
  BY DEF Swap
<1>2. noted' \in [Calls -> SUBSET Notes]
  BY DEF Swap, Noticed, Notes, WholeInv, TypedWhole
<1>3. TypedWhole'
  BY <1>1, <1>2 DEF WholeInv, TypedWhole, Swap
<1>4. PICK q \in Entry(tree, s.path) :
        /\ tree' = IF s.gone THEN Removed(tree, q)
                   ELSE Put(Removed(tree, q), q, s.node)
        /\ \A e \in Calls : fd'[e] = IF AtOrBelow(fd[e], q) THEN <<>> ELSE fd[e]
        /\ \A e \in Calls : Noticed("mixed", AtOrBelow(fd[e], q)) \subseteq noted'[e]
  BY DEF Swap
<1>5. ASSUME NEW e \in Calls PROVE SameWhole(e)
  <2>1. CASE AtOrBelow(fd[e], q)
    BY <1>1, <1>4, <2>1 DEF SameWhole, Noticed
  <2>2. CASE ~AtOrBelow(fd[e], q)
    <3>1. fd'[e] = fd[e] /\ fd[e] # q
      BY <1>4, <2>2 DEF AtOrBelow
    <3>2. fd[e] \in DOMAIN tree
            => fd[e] \in DOMAIN tree' /\ tree'[fd[e]] = tree[fd[e]]
      BY <1>4, <2>2, <3>1 DEF Put, Removed
    <3>3. QED
      BY <1>1, <3>1, <3>2 DEF SameWhole, Filled
  <2>3. QED
    BY <2>1, <2>2
<1>6. QED
  BY <1>3, <1>5, StillWhole DEF WholeInv

LEMMA ResolveWhole ==
    ASSUME WholeInv, NEW c \in Calls, NEW r \in Requests, Resolve(c, r)
    PROVE  WholeInv'
<1>1. /\ pc' \in [Calls -> Steps] /\ outcome' \in [Calls -> Outcomes]
      /\ pc'[c] \in {"handle", "done"} /\ outcome'[c] # "ok"
      /\ pc'[c] # "done" => outcome'[c] = "none"
  BY DEF Resolve, Goto, WholeInv, TypedWhole, Counted, Steps, Outcomes
<1>2. noted' \in [Calls -> SUBSET Notes]
  BY DEF Resolve, WholeInv, TypedWhole, Noticed, Notes
<1>3. /\ request' \in [Calls -> Requests] /\ request'[c] \in Requests
      /\ UNCHANGED <<tree, put, fd>> /\ put[c] = 0 /\ fd[c] = <<>>
  BY DEF Resolve, WholeInv, TypedWhole, Counted
<1>4. TypedWhole'
  BY <1>1, <1>2, <1>3 DEF WholeInv, TypedWhole
<1>5. ASSUME NEW e \in Calls \ {c} PROVE SameWhole(e)
  <2>1. pc'[e] = pc[e] /\ outcome'[e] = outcome[e]
    BY DEF Resolve, Goto, WholeInv, TypedWhole
  <2>2. request'[e] = request[e] /\ noted'[e] = noted[e]
    BY DEF Resolve, WholeInv, TypedWhole
  <2>3. QED
    BY <1>3, <2>1, <2>2 DEF SameWhole, Filled
<1>6. Counted(c)'
  BY <1>1, <1>3, Blocks DEF Counted
<1>7. Holds(c)'
  BY <1>1, <1>3 DEF Holds
<1>8. QED
  BY <1>4, <1>5, <1>6, <1>7, OneWhole

LEMMA ReadWhole ==
    ASSUME WholeInv, NEW c \in Calls, read_file(c) \/ list_dir(c)
    PROVE  WholeInv'
<1>1. ~Writes(c) /\ pc[c] \notin {"write", "done"}
  BY DEF WholeInv, Counted, Writes, read_file, ReadIsFile, ReadStat, ReadBytes,
         list_dir, ListIsDir, ListEntries
<1>2. ASSUME NEW how \in Outcomes, End(c, how) PROVE WholeInv'
  BY <1>1, <1>2, EndWhole
<1>3. ASSUME NEW step \in {"stat", "read", "entries"}, GoOn(c, step) PROVE WholeInv'
  BY <1>1, <1>3, GoOnWhole DEF GoOn, Steps, handler, history
<1>4. ASSUME NEW how \in Outcomes, Goto(c, "done"),
             outcome' = [outcome EXCEPT ![c] = how],
             UNCHANGED <<tree, request, put, fd, noted>>
      PROVE  WholeInv'
  <2>1. LooksWhole(c)
    BY <1>4 DEF LooksWhole, Goto, WholeInv, TypedWhole, Steps
  <2>2. pc'[c] = "done"
    BY <1>4 DEF Goto, WholeInv, TypedWhole
  <2>3. QED
    BY <1>1, <2>1, <2>2, LookWhole
<1>5. CASE ReadIsFile(c)
  BY <1>2, <1>3, <1>5 DEF ReadIsFile, WrongKind, Outcomes
<1>6. CASE ReadStat(c)
  BY <1>2, <1>3, <1>6 DEF ReadStat, Outcomes
<1>7. CASE ReadBytes(c)
  BY <1>2, <1>4, <1>7 DEF ReadBytes, Outcomes
<1>8. CASE ListIsDir(c)
  BY <1>2, <1>3, <1>8 DEF ListIsDir, WrongKind, Outcomes
<1>9. CASE ListEntries(c)
  BY <1>2, <1>4, <1>9 DEF ListEntries, Outcomes
<1>10. QED
  BY <1>5, <1>6, <1>7, <1>8, <1>9 DEF read_file, list_dir

LEMMA StartWriteWhole ==
    ASSUME WholeInv, NEW c \in Calls, NEW failed \in BOOLEAN, StartWrite(c, failed)
    PROVE  WholeInv'
<1>1. PICK step \in {"walk", "target"} : Goto(c, step)
  BY StartWriteNotes DEF WholeInv, TypedWhole
<1>2. /\ UNCHANGED <<tree, request, put, fd, outcome>>
      /\ noted' \in [Calls -> SUBSET Notes] /\ noted[c] \subseteq noted'[c]
      /\ \A e \in Calls \ {c} : noted'[e] = noted[e]
  BY StartWriteNotes DEF WholeInv, TypedWhole
<1>3. /\ pc' \in [Calls -> Steps] /\ pc'[c] = step /\ pc[c] = "handle"
      /\ \A e \in Calls \ {c} : pc'[e] = pc[e]
  BY <1>1 DEF WholeInv, TypedWhole, Goto, Steps, StartWrite
<1>4. LooksWhole(c)
  BY <1>2, <1>3 DEF LooksWhole, WholeInv, TypedWhole
<1>5. outcome'[c] = "none"
  BY <1>2, <1>3 DEF WholeInv, Counted
<1>6. QED
  BY <1>3, <1>4, <1>5, LookWhole

\* The steps of a write before it opens its file, which only look.
LEMMA BeforeOpen ==
    ASSUME WholeInv, NEW c \in Calls,
           \/ WalkOn(c) \/ WalkExists(c) \/ WalkIsDir(c)
           \/ WalkDone(c) \/ CheckTarget(c)
    PROVE  WholeInv'
<1>1. pc[c] \notin {"write", "done"}
  BY DEF WalkOn, WalkExists, WalkIsDir, WalkDone, CheckTarget
<1>2. \/ \E how \in Outcomes \ {"ok"} : End(c, how)
      \/ \E step \in {"walk", "target", "exists", "isdir", "mkdir", "open"} :
            Goto(c, step) /\ UNCHANGED <<tree, request, put, fd, outcome, noted>>
  <2>2. CASE WalkOn(c)
    BY <2>2 DEF WalkOn, Outcomes, history
  <2>3. CASE WalkExists(c)
    BY <2>3 DEF WalkExists, GoOn, handler, history
  <2>4. CASE WalkIsDir(c)
    BY <2>4 DEF WalkIsDir, GoOn, Outcomes, handler, history
  <2>5. CASE WalkDone(c)
    BY <2>5 DEF WalkDone, GoOn, handler, history
  <2>6. CASE CheckTarget(c)
    BY <2>6 DEF CheckTarget, Outcomes, history
  <2>7. QED
    BY <2>2, <2>3, <2>4, <2>5, <2>6
<1>3. {"walk", "target", "exists", "isdir", "mkdir", "open"}
        \subseteq Steps \ {"write", "done", "stat", "read", "entries"}
  BY DEF Steps
<1>4. QED
  BY <1>1, <1>2, <1>3, EndWhole, GoOnWhole

\* Something put at a path spares the open files elsewhere.
LEMMA PutSpares ==
    ASSUME NEW e \in Calls, NEW q, NEW node, tree' = Put(tree, q, node),
           fd[e] # q, fd'[e] = fd[e], put'[e] = put[e], Filled(e)
    PROVE  Filled(e)'
  BY DEF Filled, Put

LEMMA WalkMkdirWhole ==
    ASSUME WholeInv, NEW c \in Calls, WalkMkdir(c)
    PROVE  WholeInv'
<1>1. CASE End(c, "os_error")
  BY <1>1, EndWhole DEF WalkMkdir, Outcomes
<1>2. ASSUME NEW q \in Entry(tree, Current(c)) \ DOMAIN tree,
             tree' = Put(tree, q, Directory), Goto(c, "walk"),
             UNCHANGED <<request, put, fd, outcome>>,
             noted' = [e \in Calls |->
                noted[e] \cup
                Noticed("overtaken", pc[e] = "mkdir" /\ e # c /\ q = Current(e))
                \cup Noticed("disturbed", e # c /\ q = target[e])
                \cup Noticed("resized", Resized(e))]
      PROVE  WholeInv'
  <2>1. noted' \in [Calls -> SUBSET Notes]
    BY <1>2 DEF Noticed, Notes, WholeInv, TypedWhole
  <2>2. /\ pc[c] = "mkdir" /\ pc' \in [Calls -> Steps] /\ pc'[c] = "walk"
        /\ \A e \in Calls \ {c} : pc'[e] = pc[e]
    BY <1>2 DEF WalkMkdir, Goto, WholeInv, TypedWhole, Steps
  <2>3. TypedWhole'
    BY <1>2, <2>1, <2>2 DEF WholeInv, TypedWhole
  <2>4. ASSUME NEW e \in Calls \ {c} PROVE SameWhole(e)
    <3>1. Filled(e) => Filled(e)'
      BY <1>2, PutSpares DEF Filled
    <3>2. noted[e] \subseteq noted'[e]
      BY <1>2
    <3>3. QED
      BY <1>2, <2>2, <3>1, <3>2 DEF SameWhole
  <2>5. Counted(c)' /\ Holds(c)'
    BY <1>2, <2>2 DEF WholeInv, Counted, Holds, Writes
  <2>6. QED
    BY <2>3, <2>4, <2>5, OneWhole
<1>3. QED
  BY <1>1, <1>2 DEF WalkMkdir, handler

\* A write of q is noted by those who have it open.
LEMMA NotedWhole ==
    ASSUME WholeInv, NEW c \in Calls, NEW q, NEW node, NoteChange(c, q),
           tree' = Put(tree, q, node), \A e \in Calls \ {c} : fd'[e] = fd[e],
           \A e \in Calls \ {c} : pc'[e] = pc[e] /\ put'[e] = put[e],
           UNCHANGED <<request, outcome>>
    PROVE  /\ noted' \in [Calls -> SUBSET Notes]
           /\ "mixed" \in noted'[c] <=> "mixed" \in noted[c]
           /\ \A e \in Calls \ {c} : SameWhole(e)
<1>1. noted' \in [Calls -> SUBSET Notes]
  BY DEF NoteChange, Noticed, Notes, WholeInv, TypedWhole
<1>2. "mixed" \in noted'[c] <=> "mixed" \in noted[c]
  BY DEF NoteChange, Noticed
<1>3. ASSUME NEW e \in Calls \ {c} PROVE SameWhole(e)
  <2>1. noted[e] \subseteq noted'[e] /\ (fd[e] = q => "mixed" \in noted'[e])
    BY DEF NoteChange, Noticed
  <2>2. QED
    BY <2>1, PutSpares DEF SameWhole
<1>4. QED
  BY <1>1, <1>2, <1>3

LEMMA OpenWhole ==
    ASSUME WholeInv, NEW c \in Calls, Open(c)
    PROVE  WholeInv'
<1>1. CASE End(c, "os_error")
  BY <1>1, EndWhole DEF Open, Outcomes
<1>2. ASSUME NEW q \in Writable(tree, target[c]), NoteChange(c, q),
             tree' = Put(tree, q, File(Truncated(q))),
             fd' = [fd EXCEPT ![c] = q], Goto(c, "write"),
             UNCHANGED <<request, put, outcome>>
      PROVE  WholeInv'
  <2>1. /\ pc[c] = "open" /\ pc' \in [Calls -> Steps] /\ pc'[c] = "write"
        /\ \A e \in Calls \ {c} : pc'[e] = pc[e] /\ fd'[e] = fd[e]
        /\ DOMAIN fd' = Calls /\ fd'[c] = q
    BY <1>2 DEF Open, Goto, WholeInv, TypedWhole, Steps
  <2>2. noted' \in [Calls -> SUBSET Notes] /\ \A e \in Calls \ {c} : SameWhole(e)
    BY <1>2, <2>1, NotedWhole
  <2>3. TypedWhole'
    BY <1>2, <2>1, <2>2 DEF WholeInv, TypedWhole
  <2>4. Filled(c)'
    <3>1. q # <<>> /\ q \in DOMAIN tree' /\ tree'[q].content = <<>>
      BY <1>2 DEF Writable, Put, File, Truncated
    <3>2. put'[c] = 0
      BY <1>2, <2>1 DEF WholeInv, Counted
    <3>3. <<>> = [i \in 1 .. 0 |-> c]
      OBVIOUS
    <3>4. QED
      BY <2>1, <3>1, <3>2, <3>3 DEF Filled
  <2>5. Counted(c)'
    BY <1>2, <2>1 DEF WholeInv, Counted, Writes
  <2>6. Holds(c)'
    <3>1. fd'[c] # <<>>
      BY <2>1, <2>4 DEF Filled
    <3>2. QED
      BY <2>4, <3>1 DEF Holds
  <2>7. QED
    BY <2>2, <2>3, <2>5, <2>6, OneWhole
<1>3. QED
  BY <1>1, <1>2 DEF Open

\* One block more over a file of n of them.
LEMMA OneBlockMore ==
    ASSUME NEW n \in Nat, NEW c \in Calls
    PROVE  Overwrite([i \in 1 .. n |-> c], n + 1, c) = [i \in 1 .. n + 1 |-> c]
<1> DEFINE content == [i \in 1 .. n |-> c]
<1>1. Len(content) = n
  BY LenProperties
<1>2. \A i \in 1 .. n : content[i] = c
  OBVIOUS
<1> HIDE DEF content
<1>3. Overwrite(content, n + 1, c) =
        [i \in 1 .. n + 1 |->
            IF i = n + 1 THEN c ELSE IF i <= n THEN content[i] ELSE "hole"]
  BY <1>1 DEF Overwrite
<1>4. \A i \in 1 .. n + 1 : i # n + 1 => i \in 1 .. n
  OBVIOUS
<1>5. Overwrite(content, n + 1, c) = [i \in 1 .. n + 1 |-> c]
  BY <1>2, <1>3, <1>4
<1>6. QED
  BY <1>5 DEF content

LEMMA WriteBlockWhole ==
    ASSUME WholeInv, NEW c \in Calls, WriteBlock(c)
    PROVE  WholeInv'
<1>1. /\ pc[c] = "write" /\ put[c] \in Nat
      /\ put[c] < request[c].blocks /\ request[c].blocks \in Nat
  BY Blocks DEF WriteBlock, Unwritten, WholeInv, TypedWhole
<1>2. /\ UNCHANGED <<pc, request, fd, outcome>> /\ put'[c] = put[c] + 1
      /\ put' \in [Calls -> Nat] /\ \A e \in Calls \ {c} : put'[e] = put[e]
  BY DEF WriteBlock, WholeInv, TypedWhole
<1>3. Counted(c)'
  BY <1>1, <1>2 DEF WholeInv, Counted, Writes
<1>4. CASE fd[c] = <<>> /\ UNCHANGED <<tree, noted>>
  <2>1. TypedWhole'
    BY <1>2, <1>4 DEF WholeInv, TypedWhole
  <2>2. ASSUME NEW e \in Calls \ {c} PROVE SameWhole(e)
    BY <1>2, <1>4 DEF SameWhole, Filled
  <2>3. Holds(c)'
    <3>1. "mixed" \in noted[c]
      BY <1>1, <1>4 DEF WholeInv, Holds, Filled
    <3>2. QED
      BY <1>4, <3>1 DEF Holds
  <2>4. QED
    BY <1>3, <2>1, <2>2, <2>3, OneWhole
<1>5. CASE /\ tree' = Put(tree, fd[c],
                          File(Overwrite(ContentAt(fd[c]), put[c] + 1, c)))
           /\ NoteChange(c, fd[c])
  <2>1. /\ noted' \in [Calls -> SUBSET Notes]
        /\ "mixed" \in noted'[c] <=> "mixed" \in noted[c]
        /\ \A e \in Calls \ {c} : SameWhole(e)
    BY <1>2, <1>5, NotedWhole
  <2>2. TypedWhole'
    BY <1>2, <2>1 DEF WholeInv, TypedWhole
  <2>3. Filled(c) => Filled(c)'
    <3>1. tree'[fd[c]].content = Overwrite(ContentAt(fd[c]), put[c] + 1, c)
          /\ fd[c] \in DOMAIN tree'
      BY <1>5 DEF Put, File
    <3>2. Filled(c) => ContentAt(fd[c]) = [i \in 1 .. put[c] |-> c]
      BY DEF Filled, ContentAt
    <3>3. QED
      BY <1>1, <1>2, <3>1, <3>2, OneBlockMore DEF Filled
  <2>4. Holds(c)'
    <3>1. "mixed" \notin noted[c] => Filled(c)
      BY <1>1 DEF WholeInv, Holds
    <3>2. Filled(c)' => (fd[c] # <<>>)'
      BY DEF Filled
    <3>3. QED
      BY <2>1, <2>3, <3>1, <3>2 DEF Holds
  <2>5. QED
    BY <1>3, <2>1, <2>2, <2>4, OneWhole
<1>6. QED
  BY <1>4, <1>5 DEF WriteBlock

LEMMA FailsWhole ==
    ASSUME WholeInv, NEW c \in Calls, SystemFails(c)
    PROVE  WholeInv'
<1>1. noted' \in [Calls -> SUBSET Notes]
  BY DEF SystemFails, WholeInv, TypedWhole, Notes
<1>2. LooksWhole(c)
  BY <1>1 DEF SystemFails, Goto, WholeInv, TypedWhole, LooksWhole, Steps, Outcomes
<1>3. pc[c] # "done" /\ pc'[c] = "done" /\ outcome'[c] = "os_error"
  BY DEF SystemFails, Exposed, Goto, WholeInv, TypedWhole
<1>4. QED
  BY <1>2, <1>3, LookWhole

\* A write succeeds when its last block is put.
LEMMA CloseWhole ==
    ASSUME WholeInv, NEW c \in Calls, Close(c)
    PROVE  WholeInv'
<1>1. pc[c] = "write" /\ End(c, "ok") /\ put[c] = request[c].blocks
  <2>1. ~(put[c] < request[c].blocks)
    BY Zenon DEF Close, Unwritten
  <2>2. put[c] <= request[c].blocks
    BY DEF WholeInv, Counted
  <2>3. put[c] \in Nat /\ request[c].blocks \in Nat
    BY Blocks DEF WholeInv, TypedWhole
  <2>4. QED
    BY <2>1, <2>2, <2>3 DEF Close
<1>2. LooksWhole(c) /\ pc'[c] = "done" /\ outcome'[c] = "ok"
  BY <1>1 DEF WholeInv, TypedWhole, End, Goto, LooksWhole, Steps, Outcomes, history
<1>3. TypedWhole' /\ \A e \in Calls \ {c} : SameWhole(e)
  BY <1>2, LooksSame
<1>4. Counted(c)'
  BY <1>1, <1>2 DEF WholeInv, Counted, LooksWhole, Writes
<1>5. noted'[c] = noted[c] /\ (Filled(c) => Filled(c)')
  BY <1>1, <1>2 DEF End, LooksWhole, Filled, history
<1>6. Holds(c)'
  <2>1. "mixed" \notin noted[c] => Filled(c)
    BY <1>1 DEF WholeInv, Holds
  <2>2. Filled(c)' => (fd[c] # <<>>)'
    BY DEF Filled
  <2>3. QED
    BY <1>5, <2>1, <2>2 DEF Holds
<1>7. QED
  BY <1>3, <1>4, <1>6, OneWhole

-----------------------------------------------------------------------------
LEMMA WholeStep == WholeInv /\ [Next]_vars => WholeInv'
<1> SUFFICES ASSUME WholeInv, [Next]_vars PROVE WholeInv'
  OBVIOUS
<1>1. CASE UNCHANGED vars
  <2>1. UNCHANGED <<tree, pc, request, fd, put, outcome, noted>>
    BY <1>1 DEF vars, handler, history
  <2>2. ASSUME NEW e \in Calls PROVE SameWhole(e)
    BY <2>1 DEF SameWhole, Filled
  <2>3. QED
    BY <2>1, <2>2, StillWhole DEF WholeInv, TypedWhole
<1>2. ASSUME NEW s \in Swaps, Swap(s) PROVE WholeInv'
  BY <1>2, SwapWhole
<1>3. ASSUME NEW c \in Calls, NEW r \in Requests, Resolve(c, r)
      PROVE  WholeInv'
  BY <1>3, ResolveWhole
<1>4. ASSUME NEW c \in Calls, read_file(c) \/ list_dir(c) PROVE WholeInv'
  BY <1>4, ReadWhole
<1>5. ASSUME NEW c \in Calls, write_file(c) PROVE WholeInv'
  <2>1. CASE EncodeFails(c)
    BY <2>1, EndWhole DEF EncodeFails, Outcomes
  <2>2. QED
    BY <1>5, <2>1, StartWriteWhole, BeforeOpen, WalkMkdirWhole, OpenWhole,
       WriteBlockWhole, CloseWhole DEF write_file, make_parents
<1>6. ASSUME NEW c \in Calls, SystemFails(c) PROVE WholeInv'
  BY <1>6, FailsWhole
<1>7. QED
  BY <1>1, <1>2, <1>3, <1>4, <1>5, <1>6 DEF Next

LEMMA WholeInit == Init => WholeInv
<1> SUFFICES ASSUME Init PROVE WholeInv
  OBVIOUS
<1>1. (CHOOSE r \in Requests : TRUE) \in Requests
  BY FilesAssumption
<1>2. TypedWhole
  BY <1>1 DEF Init, TypedWhole, Steps, Outcomes, Notes
<1>3. ASSUME NEW c \in Calls PROVE Counted(c) /\ Holds(c)
  BY <1>1, Blocks DEF Init, Counted, Holds
<1>4. QED
  BY <1>2, <1>3 DEF WholeInv

\* A write leaves its own content and nothing else, the whole of it when it
\* reports success and a first part of it when it fails, unless another call or
\* process changed the file since it was opened: what write_file's "replacing it
\* entirely" comes to, however many calls and other processes are at work.
THEOREM SuccessIsWhole == Spec => []WrittenWhole
<1>1. WholeInv => WrittenWhole
  BY DEF WholeInv, Counted, Holds, Filled, WrittenWhole, ContentAt
<1>2. QED
  BY <1>1, WholeInit, WholeStep, PTL DEF Spec
=============================================================================
