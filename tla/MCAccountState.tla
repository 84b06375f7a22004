--------------------------- MODULE MCAccountState ---------------------------
(* AccountState on small instances: two orders on two instruments. *)
EXTENDS AccountState

CONSTANTS o1, o2, i1, i2, app, stream

TwoInstruments == (o1 :> i1) @@ (o2 :> i2)

SomeRequests ==
    {Call("orders", None), Call("orders", i1), Call("positions", None),
     Call("executions", None), Call("order", o1)}
=============================================================================
