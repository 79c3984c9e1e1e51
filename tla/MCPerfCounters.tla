---------------------------- MODULE MCPerfCounters ----------------------------
(* Model-checking instance of PerfCounters: nothing, an empty and an unknown name among
   others, and one name more than may be added. *)
EXTENDS PerfCounters

MCRequests ==
  {<< >>, <<"", "cycles", "misses">>, <<"cycles", "bogus", "misses", "branches", "faults">>}
=============================================================================
