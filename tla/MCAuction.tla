------------------------------ MODULE MCAuction ------------------------------
(***************************************************************************)
(* Small instances of the auction house: two names, two bidders.           *)
(***************************************************************************)
EXTENDS Auction
CONSTANTS foo, bar, ann, ben
=============================================================================
