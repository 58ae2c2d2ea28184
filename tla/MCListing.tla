------------------------------ MODULE MCListing ------------------------------
(* Listing on a small instance: the constants are in MCListing.cfg.        *)
EXTENDS Listing
==============================================================================
