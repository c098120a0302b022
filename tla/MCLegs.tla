------------------------------- MODULE MCLegs -------------------------------
(***************************************************************************)
(* The legs the instances of Recon and Overlay are made of: options on X   *)
(* that cost a few dollars, and stock.                                     *)
(***************************************************************************)
EXTENDS Integers

CONSTANT Unset   \* a number nobody has given: a blank cell, or 0

Base ==
  [side |-> "long", kind |-> "option", type |-> "", style |-> "american", venue |-> "listed",
   exp |-> 1, und |-> "X", tracks |-> "", qty |-> 1, mult |-> 100, K |-> Unset, P |-> Unset,
   P0 |-> Unset, months |-> 3, shares |-> Unset, proceeds |-> Unset, sale |-> Unset,
   price |-> Unset, keq |-> Unset]

Opt(side, type, K, P0) ==
  [Base EXCEPT !.side = side, !.type = type, !.K = K, !.P0 = P0, !.P = P0 + 1]

Stock(side, n) == [Base EXCEPT !.side = side, !.kind = "stock", !.shares = n]

Long(type, K) == Opt("long", type, K, 2)
Short(type, K) == Opt("short", type, K, 3)
=============================================================================
