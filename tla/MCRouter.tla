------------------------------ MODULE MCRouter ------------------------------
(* Instances of Router: two users, up to four requests.                   *)
EXTENDS Router, TLC

CONSTANTS u1, u2, r1, r2, r3, r4, f1, f2

OneUser == r1 :> u1 @@ r2 :> u1 @@ r3 :> u1
AndStranger == OneUser @@ r4 :> u2
TwoUsers == r1 :> u1 @@ r2 :> u1 @@ r3 :> u2
OwnSlots == u1 :> f1 @@ u2 :> f2
SharedSlot == u1 :> f1 @@ u2 :> f1
=============================================================================
