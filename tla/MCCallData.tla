----------------------------- MODULE MCCallData -----------------------------
(***************************************************************************)
(* Streams of one kind of byte each, up to two past the cap; arguments at  *)
(* and past each limit, with leaves of every kind, and a set that the      *)
(* record cannot hold.                                                     *)
(***************************************************************************)
EXTENDS CallData, TLC

Same(token, n) == [i \in 1 .. n |-> token]
WideBytes(n) == [i \in 1 .. n |-> IF i % 2 = 1 THEN "lead" ELSE "tail"]

MCStreams ==
    {Same("plain", n) : n \in {0, 8, 10}}
        \cup {Same("nul", 10), Same("bad", 1), Same("bad", 8)}
        \cup {WideBytes(n) : n \in {8, 10}}
        \cup {<<"refused">>, <<"nul">> \o Same("plain", 8)}

MCTexts ==
    {Same(<<"plain">>, n) : n \in {0, 12, 13, 20, 21, 30}}
        \cup {Same(<<"wide">>, n) : n \in {6, 7, 10, 11}}
        \cup {Same(<<"surrogate">>, 21), Same(<<"nul">>, 1) \o Same(<<"plain">>, 20)}

MCCodes == {0, 127, -9}

\* {"argv": [...]} with n strings.
Argv(n) ==
    "args" :> <<"argv">> @@ "argv" :> Same("item", n) @@ "item" :> <<>>

\* Containers in one another, n of them.
Nested(n) ==
    LET Name(i) == IF i = 0 THEN "args" ELSE ToString(i)
    IN [x \in {Name(i) : i \in 0 .. n} |->
           IF x = Name(n) THEN <<>>
           ELSE <<Name(1 + (CHOOSE i \in 0 .. n : Name(i) = x))>>]

MCKindOf(node) ==
    CASE node = "args" -> "object"
      [] node \in {"item", "y"} -> "string"
      [] node \in {"set", "scalar", "nonfinite", "bytes", "other"} -> node
      [] OTHER -> "array"

\* A container in itself; one held twice; too many values; leaves of each kind; a
\* number in argv; sets, one with more in it than the record keeps.
MCArguments ==
    {Argv(0), Argv(1), Argv(2), Nested(0), Nested(2), Nested(3), Nested(4),
     "args" :> <<"args">>,
     "args" :> <<"x", "x">> @@ "x" :> <<"y">> @@ "y" :> <<>>,
     "args" :> Same("x", 4) @@ "x" :> <<>>,
     "args" :> Same("x", 5) @@ "x" :> <<>>,
     "args" :> <<"nonfinite", "bytes", "x">> @@ "nonfinite" :> <<>>
        @@ "bytes" :> <<>> @@ "x" :> <<"other">> @@ "other" :> <<>>,
     "args" :> <<"x">> @@ "x" :> <<"scalar">> @@ "scalar" :> <<>>,
     "args" :> <<"set">> @@ "set" :> <<"y", "bytes">> @@ "y" :> <<>>
        @@ "bytes" :> <<>>,
     "args" :> <<"set">> @@ "set" :> Same("y", 5) @@ "y" :> <<>>}

MCRequests ==
    [tool : {"run_command", "other"}, args : MCArguments, launchable : {TRUE},
     timeout : {None, 1}, redact : {FALSE}, oversize : {FALSE}]
        \cup [tool : {"run_command"}, args : {Argv(1)}, launchable : {FALSE},
              timeout : {None}, redact : {FALSE}, oversize : {FALSE}]
        \cup [tool : {"other"}, args : MCArguments, launchable : {TRUE},
              timeout : {None}, redact : BOOLEAN, oversize : BOOLEAN]
=============================================================================
