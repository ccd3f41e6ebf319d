-------------------------------- MODULE Money --------------------------------
(***************************************************************************)
(* Sums of money, as the SUM(...) of the balance queries computes them.     *)
(*                                                                          *)
(* An amount is a number of cents, and the sum of the amounts of a set is   *)
(* the number of cents in it: cent i of item p is the pair <<p, i>>.        *)
(* Written this way a sum needs no recursion, and what it does when an item *)
(* enters or leaves the set follows from the theorems on cardinality.       *)
(***************************************************************************)
EXTENDS Integers, FiniteSets

Cents(amount, S) == UNION {{p} \X (1 .. amount[p]) : p \in S}

Sum(amount, S) == Cardinality(Cents(amount, S))
=============================================================================
