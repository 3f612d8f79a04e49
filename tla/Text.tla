-------------------------------- MODULE Text --------------------------------
(***************************************************************************)
(* Text on its way to the model and to the record: what decoding makes of  *)
(* a command's bytes, what cleaning takes out, and how a text that is too  *)
(* long is cut and labelled.                                               *)
(*                                                                         *)
(* A text is a sequence of tokens, each a tuple that begins with its kind. *)
(* A token is a character, a piece of a truncation label, or a line        *)
(* of whatever wording, which counts as one byte.                          *)
(***************************************************************************)
EXTENDS Integers, SequencesExt, FiniteSetsExt

CONSTANTS
    LabelBytes,  \* the label's own words, in bytes
    Headroom,    \* _LABEL_DIGITS_HEADROOM, for the figures in a label
    Radix        \* figures are written to this base

ASSUME TextAssumption ==
    /\ LabelBytes \in Nat \ {0} /\ Headroom \in Nat /\ Radix \in Nat \ {0, 1}

\* The bytes of a command's output: a plain character, a NUL, the first or the
\* second half of a wide character, one that is none of these, and the sandbox's
\* own prefix in a byte.
Bytes == {"plain", "nul", "lead", "tail", "bad", "refused"}

\* The characters of a handler's text.  A wide one takes two bytes, and U+FFFD,
\* which stands for what did not decode, three.
Characters == {<<"plain">>, <<"nul">>, <<"surrogate">>, <<"wide">>, <<"replaced">>}

Width(token) ==
    IF token[1] = "wide" THEN 2 ELSE IF token[1] = "replaced" THEN 3 ELSE 1

\* The sizes of a text's prefixes, by their lengths.
Sizes(text) ==
    LET size[n \in 0 .. Len(text)] ==
          IF n = 0 THEN 0 ELSE size[n - 1] + Width(text[n])
    IN  size

Size(text) == Sizes(text)[Len(text)]

\* bytes.decode with errors="replace": a wide character is decoded at its first
\* half.
DecodedAt(raw, i) ==
    LET starts == raw[i] = "lead" /\ i < Len(raw) /\ raw[i + 1] = "tail"
        ends   == raw[i] = "tail" /\ i > 1 /\ raw[i - 1] = "lead"
    IN  IF starts THEN <<<<"wide">>>>
        ELSE IF ends THEN <<>>
        ELSE IF raw[i] \in {"lead", "tail", "bad"} THEN <<<<"replaced">>>>
        ELSE <<<<raw[i]>>>>

Decoded(raw) == FlattenSeq([i \in DOMAIN raw |-> DecodedAt(raw, i)])

\* NULs and lone surrogates are taken out.
Kept(token) == IF token[1] \in {"nul", "surrogate"} THEN <<>> ELSE <<token>>

clean_text(text) == FlattenSeq([i \in DOMAIN text |-> Kept(text[i])])

-----------------------------------------------------------------------------
(* Truncation.                                                             *)

Power[k \in Nat] == IF k = 0 THEN 1 ELSE Radix * Power[k - 1]

\* How many figures a number has: enough for it, and no fewer are.
Digits(n) ==
    CHOOSE d \in 1 .. n + 1 :
        n < Power[d] /\ \A e \in 1 .. d - 1 : Power[e] <= n

LabelWidth(kept, total) == LabelBytes + Digits(kept) + Digits(total)

\* "[truncated by toolyard: kept of total bytes]", byte by byte.
Label(kept, total) ==
    [i \in 1 .. LabelWidth(kept, total) |-> <<"label", kept, total, i>>]

\* The longest prefix of at most n bytes that splits no character.
Cut(text, n) ==
    SubSeq(text, 1, Max({k \in 0 .. Len(text) : Sizes(text)[k] <= n}))

\* What of the cap is left for the text once a label has its room.
Budget(total, cap) == cap - LabelWidth(0, total) - Headroom

\* A cap that cannot hold a label gets a cut without one.
truncate_text(text, cap) ==
    LET cleaned == clean_text(text)
        total   == Size(cleaned)
        kept    == Cut(cleaned, Budget(total, cap))
    IN IF total <= cap THEN cleaned
       ELSE IF Budget(total, cap) <= 0 THEN Cut(cleaned, cap)
       ELSE kept \o Label(Size(kept), total)

\* A text that carries a label, from its first byte to its last.
Labelled(text) ==
    \E token \in ToSet(text) :
        /\ token[1] = "label"
        /\ ToSet(Label(token[2], token[3])) \subseteq ToSet(text)
=============================================================================
