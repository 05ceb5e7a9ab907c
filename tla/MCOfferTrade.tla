---------------------------- MODULE MCOfferTrade ----------------------------
(***************************************************************************)
(* A small instance of OfferTrade for TLC: one retail offer of three       *)
(* pieces in lots of two and one, a keyed request for two of them, a       *)
(* request without a key for all three, and a request of the owner, who    *)
(* acts for the first user too and is a customer of the same relation.     *)
(***************************************************************************)
EXTENDS OfferTrade, TLC

CONSTANTS o1, r1, r2, r3, u1, u2, u3

MCQuantity == o1 :> 3
MCLots == o1 :> (1 :> 1 @@ 2 :> 1)
MCOfferOf == r1 :> o1 @@ r2 :> o1 @@ r3 :> o1
MCUserOf == r1 :> u1 @@ r2 :> u2 @@ r3 :> u3
MCActorOf == r1 :> u3 @@ r2 :> u2 @@ r3 :> u3
MCOwnerOf == o1 :> u3
MCPrincipals == r1 :> {} @@ r2 :> {u1} @@ r3 :> {}
MCRelations == r1 :> {u1} @@ r2 :> {u1} @@ r3 :> {}
MCAmount == r1 :> 2 @@ r2 :> 3 @@ r3 :> 1

\* Two direct clients race for the last pieces while the offer ends.
Race == [normal |-> 1, final |-> 1, forwarded |-> {}, tries |-> 1,
         attempts |-> r1 :> 2 @@ r2 :> 1 @@ r3 :> 0]

\* A forwarded call is timed out, broken, lost, repeated by its client and
\* replayed in the background.
Forwarding == [normal |-> 1, final |-> 1, forwarded |-> {r1}, tries |-> 2,
               attempts |-> r1 :> 2 @@ r2 :> 0 @@ r3 :> 0]

\* A request in overtime is asked, approved, closed and repeated.
Overtime == [normal |-> 0, final |-> 2, forwarded |-> {}, tries |-> 2,
             attempts |-> r1 :> 2 @@ r2 :> 0 @@ r3 :> 0]

\* The owner tries its own offer while another user trades on it: each may
\* have the users row the other needs.
Circle == [normal |-> 1, final |-> 1, forwarded |-> {}, tries |-> 2,
           attempts |-> r1 :> 1 @@ r2 :> 0 @@ r3 :> 1]

MCCases == {Race, Forwarding, Overtime, Circle}

SymmetricSessions == Permutations(Tx)
============================================================================
