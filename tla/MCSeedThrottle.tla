--------------------------- MODULE MCSeedThrottle ---------------------------
(* Five workers at most, so that halving, dividing by four and stepping     *)
(* down by one all differ; a stall holds longer than a fire.                *)
EXTENDS SeedThrottle
=============================================================================
