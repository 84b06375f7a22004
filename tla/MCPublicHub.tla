---------------------------- MODULE MCPublicHub ----------------------------
(* PublicHub on small instances: two watchers with overlapping wishes, one  *)
(* of them for an interval no stream can be set up with.                    *)
EXTENDS PublicHub

CONSTANTS l1, l2

TwoWishes ==
    [l \in Leases |->
       IF l = l1 THEN [instruments |-> {"BTC"}, kinds |-> {"ticker"}]
                 ELSE [instruments |-> {"BTC", "ETH"}, kinds |-> {"book", "kline"}]]
=============================================================================
