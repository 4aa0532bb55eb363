----------------------------- MODULE MCReport -----------------------------
(* Four samples with the middle two summed, the first or third one wild; a  *)
(* battery that is absent, weak, just healthy or full; fixes on both sides  *)
(* of every bound of the compression.                                       *)
EXTENDS Report

MCWindows == {[[k \in 1 .. 4 |-> level] EXCEPT ![n] = wild] :
                level \in {0, 200, 216, 255}, wild \in {0, 255}, n \in {1, 3}}

Fix(s, v, a, c) == [sat |-> s, spd |-> v, alt |-> a, course |-> c]
MCFixes == {Fix(9, 97, 5003, 90), Fix(9, 135, 1200, 90), Fix(9, 600, 4100, 90),
            Fix(9, 125, 1300, 90), Fix(3, 135, 101, 90)}

(* An identifier without a ';', which two faults do no harm to.             *)
MCIdentifier == <<"x", "x", "x", "x">>
=============================================================================
