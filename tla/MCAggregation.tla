--------------------------- MODULE MCAggregation ---------------------------
(* A small instance of Aggregation: two required members, an optional and   *)
(* an ignored one, and timing parameters that are all different.            *)
EXTENDS Aggregation

CONSTANTS a, b, o, x
=============================================================================
