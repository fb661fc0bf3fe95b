-------------------------------- MODULE Utf8 ---------------------------------
(***************************************************************************)
(* The utf8 crate, as src/fragment.rs uses it: decoding of a chunk that    *)
(* may end in the middle of a character, and completion of that character  *)
(* from the next chunk.  A byte is one of five classes: a character of its *)
(* own, the lead of a character of two or of three bytes, a continuation   *)
(* byte, or a byte that never occurs.                                      *)
(***************************************************************************)
EXTENDS Integers, Sequences

Byte == {"ascii", "lead2", "lead3", "cont", "never"}

\* What stands before position i calls for a continuation byte.
Expects(s, i) ==
  \/ i > 1 /\ s[i - 1] \in {"lead2", "lead3"}
  \/ i > 2 /\ s[i - 1] = "cont" /\ s[i - 2] = "lead3"

Fits(s, i) == s[i] # "never" /\ (s[i] = "cont" <=> Expects(s, i))

\* The first i bytes are whole characters.
WholeTo(s, i) == (\A j \in 1 .. i : Fits(s, j)) /\ ~Expects(s, i + 1)

IsUtf8(s) == WholeTo(s, Len(s))

\* How far s consists of whole characters.
ValidTo(s) ==
  CHOOSE i \in 0 .. Len(s) :
    WholeTo(s, i) /\ \A j \in i + 1 .. Len(s) : ~WholeTo(s, j)

\* utf8::decode: Ok(text), Incomplete{valid_prefix, incomplete_suffix} or
\* Invalid{valid_prefix, ..}.
Decode(s) ==
  LET fits == \A j \in 1 .. Len(s) : Fits(s, j)
  IN [is     |-> IF IsUtf8(s) THEN "Ok" ELSE IF fits THEN "Incomplete" ELSE "Invalid",
      prefix |-> SubSeq(s, 1, ValidTo(s)),
      suffix |-> IF fits THEN SubSeq(s, ValidTo(s) + 1, Len(s)) ELSE <<>>]

\* Incomplete::try_complete: the character begun by pending is decoded with as
\* many bytes of input as its buffer of four takes.  Ok gives the text and the
\* rest of the input; None keeps all the bytes in pending.
TryComplete(pending, input) ==
  LET room    == 4 - Len(pending)
      taken   == IF Len(input) < room THEN Len(input) ELSE room
      d       == Decode(pending \o SubSeq(input, 1, taken))
      used    == Len(d.prefix) - Len(pending)
  IN IF d.prefix # <<>>
     THEN [is |-> "Ok", text |-> d.prefix, pending |-> <<>>,
           rest |-> SubSeq(input, used + 1, Len(input))]
     ELSE IF d.is = "Incomplete"
     THEN [is |-> "None", text |-> <<>>, pending |-> d.suffix, rest |-> <<>>]
     ELSE [is |-> "Err", text |-> <<>>, pending |-> <<>>, rest |-> <<>>]

=============================================================================
