----------------------------- MODULE Quantities -----------------------------
(***************************************************************************)
(* Quantity arithmetic shared by the stock modules.                        *)
(*                                                                         *)
(* A quantity of the program is a DECIMAL(18,4); here it is an integer in  *)
(* units of 0.0001.  Rows that the code walks in a fixed order (the lots   *)
(* of an item by receivedAt, its location rows by name) are numbered 1..n  *)
(* in that order, so a column of such a table is a function on 1..n.       *)
(*                                                                         *)
(* Sum and Take are written over recursive functions rather than with the  *)
(* folds of the community modules: QuantitiesProofs proves about them, and *)
(* a fold is beyond the provers.                                           *)
(***************************************************************************)
EXTENDS Integers

MinOf(a, b) == IF a <= b THEN a ELSE b

Positive(x) == IF x > 0 THEN x ELSE 0

\* Mutation of Rounded: the digits that the column does not hold are cut off.
CutOff(n, d) == n \div d

\* n/d as a column keeps it: half a unit is rounded up.
Rounded(n, d) == (2 * n + d) \div (2 * d)

(***************************************************************************)
(* Sum(f, n) is f[1] + ... + f[n].                                         *)
(***************************************************************************)
Sum(f, n) ==
  LET s[k \in Nat] == IF k = 0 THEN 0 ELSE s[k - 1] + f[k]
  IN  s[n]

Zero(n) == [k \in 1..n |-> 0]

\* The column that holds v at row r and nothing elsewhere (r = 0: nowhere).
At(r, v, n) == [k \in 1..n |-> IF k = r THEN v ELSE 0]

(***************************************************************************)
(* The draw-down loop that the code runs over lots and over location rows: *)
(* visit the rows in order, take min(remaining, available) of each row     *)
(* that has something, stop when nothing remains.  Row k is left whatever  *)
(* the rows before it did not cover.  Module Drawdown is the loop itself.  *)
(***************************************************************************)
Available(avail, n) == [k \in 1..n |-> Positive(avail[k])]

Take(avail, n, q) ==
  [k \in 1..n |->
     MinOf(Positive(avail[k]), Positive(q - Sum(Available(avail, n), k - 1)))]
=============================================================================
