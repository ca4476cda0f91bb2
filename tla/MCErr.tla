------------------------------- MODULE MCErr -------------------------------
(* A small instance of Err: three errors and a disabled one, an unfiltered  *)
(* callback and one with a code filter and a severity filter.               *)
EXTENDS Err

CONSTANTS e1, e2, e3, off

MCSection == <<e1, off, e2, e3>>
MCSev == [e \in Errors |-> IF e = e2 THEN "warn" ELSE "error"]
MCFilters == <<{}, {[type |-> "code", codes |-> {e1, e2}],
                    [type |-> "sev", sevs |-> {"error"}]}>>
=============================================================================
