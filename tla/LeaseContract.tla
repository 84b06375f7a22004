--------------------------- MODULE LeaseContract ---------------------------
(***************************************************************************)
(* What a subscription hub promises its watchers (docs/architecture.md:    *)
(* "The hub owns the stream, merges active leases, and shuts down when no  *)
(* lease remains"): at every moment the streams it asks the venue for      *)
(* carry every topic of every granted lease, and nothing is asked for when *)
(* no lease is granted.  A topic may be carried that nobody asked for.     *)
(***************************************************************************)
CONSTANTS
    Leases,  \* the leases ever asked for
    Needs    \* per lease, the topics its watcher wants

VARIABLES
    granted,  \* the leases the hub counts as active
    carried   \* the topics of the subscriptions it runs streams for

NeededBy(ls) == UNION {Needs[l] : l \in ls}

\* The topics a hub may carry for the leases ls.
MayCarry(ls, topics) ==
    /\ NeededBy(ls) \subseteq topics
    /\ ls = {} => topics = {}

Init == granted = {} /\ carried = {}

Grant(l) ==
    /\ l \notin granted
    /\ granted' = granted \cup {l}
    /\ MayCarry(granted', carried')

Revoke(l) ==
    /\ l \in granted
    /\ granted' = granted \ {l}
    /\ MayCarry(granted', carried')

\* The hub ends: its streams are aborted whatever is still counted.
Close ==
    /\ granted' = {}
    /\ carried' = {}

Next == Close \/ \E l \in Leases : Grant(l) \/ Revoke(l)

Spec == Init /\ [][Next]_<<granted, carried>>
=============================================================================
