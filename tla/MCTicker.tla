------------------------------ MODULE MCTicker ------------------------------
(* Three controllers, two of them with plugins of their own.               *)
EXTENDS Ticker

CONSTANTS A, B, C, p, q, r

MCPlugins == [c \in Ctl |-> IF c = A THEN {p} ELSE IF c = B THEN {p, q} ELSE {}]
=============================================================================
