-------------------------- MODULE MCBatchCommands --------------------------
(* BatchCommands on small instances: the first three items share an        *)
(* instrument.                                                             *)
EXTENDS BatchCommands

TwoInstruments == [i \in Items |-> IF i < 4 THEN 1 ELSE 2]
=============================================================================
