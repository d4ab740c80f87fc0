--------------------------- MODULE MCObservation ---------------------------
(* Observation with its properties in two orders.                          *)
EXTENDS Observation

ScalarsFirst == <<"p", "q", "items">>
CollectionBetween == <<"p", "items", "q">>
=============================================================================
