---------------------------- MODULE MCFileTickets ----------------------------
(* Small instances of FileTickets: three calls, up to three tickets.       *)
EXTENDS FileTickets, TLC

CONSTANTS t1, t2, t3, k1, k2, k3, fresh

ThreeIssued == <<t1, t2, t3>>
TwoIssued == <<t1, t2>>
Roots == t1 :> k1 @@ t2 :> k2 @@ t3 :> k3
Classes == k1 :> "c256" @@ k2 :> "c512" @@ k3 :> "c256" @@ fresh :> "c256"
=============================================================================
