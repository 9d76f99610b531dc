--------------------------- MODULE MCPricingLane ---------------------------
(* A small instance of the pricing lane for TLC: an activity of each shape *)
(* the decision tells apart, two tokens and two workers.                   *)
EXTENDS PricingLane, TLC

CONSTANTS a1, w1, w2, t1, t2

Swap == [in |-> t1, out |-> t2, hour |-> 1, dated |-> TRUE, capital |-> TRUE]
Sale == [Swap EXCEPT !.in = "absent"]
SomeShapes == {Swap, Sale, [Sale EXCEPT !.dated = FALSE], [Sale EXCEPT !.capital = FALSE],
               [Sale EXCEPT !.in = "unmappable"], [Sale EXCEPT !.out = "absent"]}
Quoted == (t1 :> {1}) @@ (t2 :> {2})

=============================================================================
