------------------------------ MODULE MCListing -------------------------------
(* Listing with up to five rows and pages of one or two. *)
EXTENDS Listing
=============================================================================
