------------------------- MODULE MCBookingLifecycle -------------------------
(***************************************************************************)
(* Small instances of BookingLifecycle.  Times are the code's minutes: the *)
(* slots start at minute 1500 and later, a day and an hour after the       *)
(* clock's first instant.                                                  *)
(***************************************************************************)
EXTENDS BookingLifecycle, TLC

CONSTANTS u1, u2, k1, k2, t1, t2, e1, e2, r1, r2, w1, x1

MCStartsAt1 == (1 :> 1500)
MCStartsAt2 == (1 :> 1500 @@ 2 :> 2940)

\* A weekly series of two.
MCRecurrences1 == {<<1, 2>>}

Sym == Permutations(Users) \cup Permutations(ClientKeys) \cup Permutations(Entries)
           \cup Permutations(Txs) \cup Permutations(Requests)
=============================================================================
