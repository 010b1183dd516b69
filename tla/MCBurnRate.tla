----------------------------- MODULE MCBurnRate -----------------------------
(***************************************************************************)
(* The four scenarios at the real evaluation interval, after an idle       *)
(* service, an hour of traffic (what the README's timeline supposes), half *)
(* or all of the six hours of the longest window, at 5 to 25 requests a    *)
(* second; 20 is the demo's steady traffic, 25 the busiest phase of all.   *)
(***************************************************************************)
EXTENDS BurnRate

MCPriors == [rate : {50, 100, 200, 250}, span : {Hours(1), Hours(3), Hours(6)}]
            \cup { [rate |-> 0, span |-> 0] }
=============================================================================
