-------------------------------- MODULE MCIRQ --------------------------------
(***************************************************************************)
(* A pair of controllers with three lines each: 0 is the timer, 1 the      *)
(* cascade, 2 the master's last line, 3 to 5 the slave's.  Two handler     *)
(* slots per line.                                                         *)
(***************************************************************************)
EXTENDS IRQHandler

AllRequests == {<<0, "pit">>, <<2, "ps2">>, <<4, "ps2">>, <<4, "pit">>}

PitAndPs2 == {"pit", "ps2"}

AllReads == {<<"pit", 0>>, <<"ps2", 2>>, <<"ps2", 4>>}
=============================================================================
