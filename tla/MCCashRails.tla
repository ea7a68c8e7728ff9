---------------------------- MODULE MCCashRails ----------------------------
(* One ride, a deposit that covers its fare, and the accounts of rider and *)
(* driver still to be created.                                             *)
EXTENDS CashRails, TLC

CONSTANTS r1, rider, driver, d1

MCRiderOf == r1 :> rider
MCDriverOf == r1 :> driver
MCOwnerOf == d1 :> rider
=============================================================================
