------------------------------ MODULE MCFrontend ------------------------------
(* The user interface on small instances of its parts.                      *)
EXTENDS Frontend

(* No filter, one that shows warnings only, and a rule that hides errors.    *)
MCFilters ==
    {[levels |-> {}, hidden |-> {}], [levels |-> {"W"}, hidden |-> {}],
     [levels |-> {}, hidden |-> {"E"}]}

(* Two devices with different packages, one in common.                       *)
MCInstalled == [d \in Devices |-> IF d = "d1" THEN {"a", "b"} ELSE {"b", "c"}]
===============================================================================
