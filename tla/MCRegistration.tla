---------------------------- MODULE MCRegistration ----------------------------
(* Model-checking instance of Registration: integers of five bits, and the shapes of
   arguments that its calls are tried with. *)
EXTENDS Registration

MCLimits == {-16, -4, -1, 0, 1, 8, 15}

MCLists ==
  [args     |-> {<< >>, <<8, 0>>},
   ranges   |-> {<<<<0, 4>>, <<-1, 1>>>>},
   products |-> {<<<<1, 4>>>>, <<<<0, 1, 2>>, <<4, 8>>>>, <<<<1>>, << >>>>},
   dense    |-> {<<-4, 4, 3>>, <<1, 0, 1>>, <<8, 8, 5>>},
   names    |-> {<<"n">>, <<"n", "">>}]

MCFilters ==
  {[negative |-> negative, valid |-> valid, components |-> components] :
     negative \in BOOLEAN, valid \in BOOLEAN,
     components \in {{<<"function", "f">>}, {<<"threads", 1>>, <<"arg", "", 8>>}}}
=============================================================================
