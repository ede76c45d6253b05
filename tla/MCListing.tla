----------------------------- MODULE MCListing -----------------------------
(* Small instances of Listing for TLC.                                     *)
EXTENDS Listing

MCPackage == 1..2

=============================================================================
