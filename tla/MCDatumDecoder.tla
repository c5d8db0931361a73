--------------------------- MODULE MCDatumDecoder ----------------------------
EXTENDS DatumDecoder

\* Whole and halved bytes with and without 0x, text with a space and an r in
\* it, unclosed text and words, alone and repeated.
MCData ==
    [kind : {"hex", "0x"}, text : {<<"2", "a">>, <<"a", "0", "2">>}, count : {0, 1, 2}]
    \cup [kind : {"quoted"}, text : {<<>>, <<"r", " ", "a">>}, count : {1, 2}]
    \cup {[kind |-> "open", text |-> <<"a">>, count |-> 1]}
    \cup [kind : {"word"}, text : {<<"2", "a", "0", "a">>}, count : {1, 2}]
=============================================================================
