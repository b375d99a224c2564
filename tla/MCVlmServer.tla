---- MODULE MCVlmServer ----
(* Small instances of VlmServer. *)
EXTENDS VlmServer

A == <<"ascii">>
MCOneByte == {A}
\* Whole characters, parts of characters, and a special token.
MCSpecial == {<<"ascii", "ascii">>}
MCText == {A, <<"lead2">>, <<"lead3", "cont">>, <<"cont">>, <<"cont", "ascii">>} \cup MCSpecial
====
