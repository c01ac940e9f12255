---------------------------- MODULE OneTimeTicket ----------------------------
(***************************************************************************)
(* What the gateway promises about a ticket, with no database, no clock    *)
(* and no requests in progress: a ticket is open until it is spent, it is  *)
(* spent for good, and at most one request is ever answered with a         *)
(* provider result paid by it, only once it is spent.                      *)
(*                                                                         *)
(* InferGateway implements this specification: "spent" is read from the    *)
(* durable copy of the nullifier database, so the promise covers crashes.  *)
(***************************************************************************)

CONSTANTS
    Keys,       \* replay keys, one per ticket
    Tasks       \* requests

VARIABLES
    spent,      \* the set of keys that are spent for good
    served      \* served[k]: the requests answered with a result paid by k

vars == <<spent, served>>

TypeOK ==
    /\ spent \subseteq Keys
    /\ served \in [Keys -> SUBSET Tasks]

Init ==
    /\ spent = {}
    /\ served = [k \in Keys |-> {}]

(* One flush of the database may make several keys durable at once. *)
Spend(K) ==
    /\ spent' = spent \cup K
    /\ UNCHANGED served

Serve(t, k) ==
    /\ k \in spent
    /\ served[k] = {}
    /\ served' = [served EXCEPT ![k] = {t}]
    /\ UNCHANGED spent

Next ==
    \/ \E K \in SUBSET Keys : Spend(K)
    \/ \E t \in Tasks, k \in Keys : Serve(t, k)

Spec == Init /\ [][Next]_vars
==============================================================================
