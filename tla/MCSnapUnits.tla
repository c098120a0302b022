---------------------------- MODULE MCSnapUnits ----------------------------
(***************************************************************************)
(* The snapping loop on every binding of a spread of two and a box of four *)
(* legs whose contract sizes share no, some or all factors.                *)
(***************************************************************************)
EXTENDS SnapUnits

CONSTANT MaxOpen    \* bound on what a leg is open for, in ticks

Option(side, type, mult) ==
  [side |-> side, type |-> type, mult |-> mult, kind |-> "option", venue |-> "listed",
   by |-> "qty", price |-> 0]

MCLeg == <<Option("long", "call", 4), Option("short", "put", 6),
           Option("long", "put", 3), Option("short", "call", 2)>>

MCLegs == DOMAIN MCLeg

Any(side) == [side |-> side, kind |-> "option", type |-> "any", venue |-> "any"]

Typed(side, type) == [Any(side) EXCEPT !.type = type]

MCSlots ==
  [vertical_spread |-> <<Any("long"), Any("short")>>,
   long_box_spread |-> <<Typed("long", "call"), Typed("short", "put"),
                         Typed("long", "put"), Typed("short", "call")>>]

MCTargets == <<"long_box_spread", "vertical_spread">>

\* Boxes need deliverables of twelve ticks and more.
MCStarts == {f \in [MCLegs -> 0..MaxOpen] : f[1] \in {0, 7, 8} /\ f[2] \in {0, 5, 7}}
=============================================================================
