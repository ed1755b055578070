---------------------------- MODULE MCEventQueue ----------------------------
(***************************************************************************)
(* EventQueue with a small ring, which the events written overrun.         *)
(***************************************************************************)
EXTENDS EventQueue

OneTrade == {[price |-> 3, size |-> 2, fee |-> 1, rebate |-> 1]}
=============================================================================
