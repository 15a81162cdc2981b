------------------------------ MODULE MCStream ------------------------------
(* Small instances of Stream: characters a and b, reads of two sizes. *)
EXTENDS Stream

MCBytes == {"a", "b", Newline}
MCSizes == {2, 3}

\* Records that fit every read, and one that fits none.
MCTexts == {<<"a">>, <<"b", Newline>>, <<"a", "b", "a", Newline>>}
ShortTexts == {<<"a">>, <<"b", Newline>>}
=============================================================================
