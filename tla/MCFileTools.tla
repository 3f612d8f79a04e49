---------------------------- MODULE MCFileTools ----------------------------
(***************************************************************************)
(* A write root /w, a read root /r, a directory /o outside of both and /v, *)
(* which /w may be another name for; in the write root, what may be called *)
(* d, f and g, and f in d.                                                 *)
(***************************************************************************)
EXTENDS FileTools, TLC

MCWriteRoot == <<"w">>
MCReadRoots == <<<<"r">>>>

W  == <<"w">>
V  == <<"v">>
D  == <<"w", "d">>
F  == <<"w", "f">>
G  == <<"w", "g">>
DF == <<"w", "d", "f">>
DD == <<"w", "d", "d">>
OF == <<"o", "f">>
RF == <<"r", "f">>

Old(n) == File([i \in 1 .. n |-> "old"])

\* What is there in every workspace.
Base == <<>> :> Directory @@ <<"w">> :> Directory @@ <<"r">> :> Directory
        @@ <<"o">> :> Directory @@ OF :> Old(1) @@ RF :> Old(1)

\* An empty write root; one with a file in a directory; d a link out of the
\* root, or another name for it; f and g links to each other; d a file; the write
\* root itself a link.
MCTrees ==
    {Base,
     D :> Directory @@ DF :> Old(2) @@ F :> File(<<"binary">>) @@ Base,
     D :> Link(<<"o">>) @@ Base,
     D :> Link(<<"w">>) @@ F :> Old(1) @@ Base,
     F :> Link(G) @@ G :> Link(F) @@ Base,
     D :> Old(1) @@ Base,
     W :> Link(V) @@ V :> Directory @@ Base}

Relative(parts) == [absolute |-> FALSE, clean |-> TRUE, parts |-> parts]
AbsolutePath(parts) == [absolute |-> TRUE, clean |-> TRUE, parts |-> parts]
Unclean == [absolute |-> FALSE, clean |-> FALSE, parts |-> <<"f">>]

Read(path) == [op |-> "read_file", path |-> path, blocks |-> 0,
               encodable |-> TRUE]
List(path) == [op |-> "list_dir", path |-> path, blocks |-> 0,
               encodable |-> TRUE]
Write(path, n, encodable) ==
    [op |-> "write_file", path |-> path, blocks |-> n, encodable |-> encodable]

MCRequests ==
    {Read(Relative(<<"d", "f">>)), Read(Relative(<<"d", "..", "f">>)),
     Read(AbsolutePath(RF)), Read(Relative(<<"..", "o", "f">>)),
     Read(Unclean),
     List(Relative(<<"d">>)),
     Write(Relative(<<"d", "f">>), 2, TRUE),
     Write(Relative(<<"d", "d", "f">>), 1, TRUE),
     Write(Relative(<<"d", "..", "f">>), 1, FALSE),
     Write(Relative(<<"d", "..">>), 1, TRUE)}

Putting(path, node) == [path |-> path, gone |-> FALSE, node |-> node]

\* Another process links d, f, g or the write root itself out of the roots,
\* removes d, makes it anew, or writes a longer file.
MCSwaps ==
    {Putting(D, Link(<<"o">>)), Putting(DF, Link(OF)), Putting(DD, Link(<<"o">>)),
     Putting(G, Link(OF)), [path |-> D, gone |-> TRUE, node |-> Directory],
     Putting(D, Directory), Putting(F, Old(2)),
     Putting(W, Link(<<"o">>))}

CallSymmetry == Permutations(Calls)
=============================================================================
