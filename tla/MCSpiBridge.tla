---------------------------- MODULE MCSpiBridge ----------------------------
(* Instance of SpiBridge: one- and two-word commands, two commands in one  *)
(* transaction, a command cut off before its payload, and one above the    *)
(* payload limit.                                                          *)
EXTENDS SpiBridge

MCShapes == {<<0>>, <<1, 0>>, <<0, 1, 0>>, <<0, 1>>, <<2, 0, 0>>}
=============================================================================
