-------------------------- MODULE MCLinkService --------------------------
(* Instances of LinkService for TLC: lifetimes. *)
EXTENDS LinkService

(* Overdue at birth, gone at the next tick but one, or never. *)
MCExpiresIn == {-1, 0, Nil}
(* Gone after one tick, or never. *)
MCShortExpiresIn == {0, Nil}
===========================================================================
