----------------------------- MODULE MCSessions -----------------------------
(* Values of the constants of Sessions for TLC.                               *)
EXTENDS Sessions

MCTTL == [k \in Kinds |->
           CASE k = "access" -> 2 [] k = "refresh" -> 4 [] OTHER -> 1]
=============================================================================
