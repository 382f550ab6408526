--------------------------- MODULE ResendsInvariant ---------------------------
(***************************************************************************)
(* The inductive invariant of Resends: two of the layers of                *)
(* OrderMatching's.  LifeOK is not among them, since a ZADD that runs      *)
(* twice brings an order back that has been closed meanwhile.              *)
(***************************************************************************)
EXTENDS Resends, OrderMatchingInvariant

\* Whatever commands of addOrder, setOrderStatus and updateOrder run twice, every
\* order that a handler goes by is stored, and all copies of it keep its terms.
ResendInv == TypeInv /\ StoredOK /\ TermsOK
=============================================================================
