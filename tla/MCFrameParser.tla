---------------------------- MODULE MCFrameParser ----------------------------
EXTENDS FrameParser

F(fin, opcode, key, code, payload) ==
  [fin |-> fin, rsv |-> 0, opcode |-> opcode, key |-> key, code |-> code,
   len |-> Len(payload), payload |-> payload]

Text == F(TRUE, 1, NoMask, 2, <<129, 1>>)

\* The payloads look like heads, and the lengths come in all three forms.
Good == {Text, F(TRUE, 2, <<1, 2, 3, 4>>, 126, <<130>>),
         F(TRUE, 8, NoMask, 0, <<>>), F(FALSE, 1, NoMask, 127, <<0, 9, 255>>)}

Bad == {[Text EXCEPT !.rsv = 4],
        [Text EXCEPT !.opcode = 3],
        F(FALSE, 9, NoMask, 1, <<7>>),
        [F(TRUE, 9, NoMask, 126, <<>>) EXCEPT !.len = 126],
        F(TRUE, 1, NoMask, 4, <<129, 1, 7, 7>>),
        [F(TRUE, 1, NoMask, 127, <<>>) EXCEPT !.len = MaxUsize]}

MCStreams ==
  {<<f, g>> : f \in Good, g \in Good \cup Bad} \cup {<<f, Text>> : f \in Bad}

=============================================================================
