----------------------------- MODULE MCEchoSync -----------------------------
(* EchoSync with three clients, one of them in the hub's thread.           *)
EXTENDS EchoSync, TLC

CONSTANTS d1, q1, q2, nobody, a, x

MCClients == {d1, q1, q2}
MCDirect == {d1}
MCValues == {a, x}
(* x stands for an invalid value, which only q2's validator turns down.    *)
MCAccepts == [c \in MCClients |-> IF c = q2 THEN {a} ELSE {a, x}]
=============================================================================
