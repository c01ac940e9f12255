------------------------- MODULE MCEnvelopeExchange -------------------------
(* Small instances of EnvelopeExchange.  The ticket of a was bought for a; *)
(* b carries it too, relabelled.  The ticket of c was bought for c, but    *)
(* names a.                                                                *)
EXTENDS EnvelopeExchange, TLC

CONSTANTS a, b, c, k1, k2

TicketsOf == a :> k1 @@ b :> k1 @@ c :> k2
LabelsOf == a :> a @@ b :> b @@ c :> a
Bought == k1 :> a @@ k2 :> c
ClassesOf == a :> "c256" @@ b :> "c512" @@ c :> "c256"

Symmetry == Permutations(Handlers)
=============================================================================
