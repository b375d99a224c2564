------------------------------ MODULE MCEngine ------------------------------
(* A small instance of Engine. *)
EXTENDS Engine

\* Token counts 1 and 2 share a bucket, 3 has its own.
MCPadded(n) == IF n <= 2 THEN 2 ELSE 4

O(flash, mm) == [flash |-> flash, mm |-> mm]
Options    == {O("unset", TRUE), O("unset", FALSE), O("on", TRUE), O("off", TRUE)}
FewOptions == {O("unset", TRUE), O("off", FALSE)}

R(op, views, n, says, pre) == [op |-> op, views |-> views, n |-> n, says |-> says, pre |-> pre]

\* Same shape with other contents, same bucket with another mask, another
\* shape, embeddings from elsewhere, and the tower alone.
Requests == {R("predict", 1, 1, "a", FALSE), R("predict", 1, 2, "b", FALSE),
             R("predict", 2, 3, "b", FALSE), R("predict", 1, 2, "a", TRUE),
             R("encode", 1, 0, "b", FALSE), R("encode", 2, 0, "a", FALSE)}

FewRequests == {R("predict", 1, 1, "a", FALSE)}
PredictOrEncode == FewRequests \cup {R("encode", 1, 0, "b", FALSE)}
=============================================================================
