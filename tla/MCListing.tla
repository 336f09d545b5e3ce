----------------------------- MODULE MCListing -----------------------------
(* Instances of Listing for TLC. *)
EXTENDS Listing

(* Read as the default of the handler, and as the default of the service. *)
MCAsked == {-1, 0}
===========================================================================
