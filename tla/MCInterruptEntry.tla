-------------------------- MODULE MCInterruptEntry --------------------------
(* Every line and every exception; two pointers; the two system calls, a   *)
(* number that is not one, and one that does not fit a byte.               *)
EXTENDS InterruptEntry

MCCount == [a \in {201, 202} |-> IF a = 201 THEN 0 ELSE 3]
=============================================================================
