------------------------------ MODULE MCRunner ------------------------------
(* Three configurations, one that skips the transfer and one that skips two   *)
(* features; a user, root, and a program with the setuid bit of root.         *)
EXTENDS Runner

MCSkip == [n \in 1..N |-> IF n = 1 THEN {} ELSE IF n = 2 THEN {"transfer"} ELSE {"exec", "sandbox"}]
MCInvokers == {<<"root", "root">>, <<"alice", "alice">>, <<"alice", "root">>}
=============================================================================
