------------------------------ MODULE MCSchedules ------------------------------
(* Model checking of Schedules: two repeats, the owner's request r1.        *)
EXTENDS Schedules

CONSTANT r1

OneRequest == {r1}
NoRequest == {}
=============================================================================
