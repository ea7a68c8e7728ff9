----------------------------- MODULE MCAccounts -----------------------------
(* An instance of Accounts, by the people in it: an account that proves two  *)
(* numbers; a number that signs in and writes on WhatsApp; three ways into   *)
(* one e-mail; a writer who deletes the account; people who sign up, change  *)
(* their profile and ask for a virtual account.                              *)
EXTENDS Accounts

CONSTANTS p1, p2

MCRows == 1 .. 2
People(doors, numbers, come, fail) ==
  [doors |-> doors, numbers |-> numbers, requests |-> come,
   faults |-> fail]

MCTraffics ==
  {People({"verify"}, {p1, p2}, 3, 1),
   People({"login"}, {p1}, 3, 1),
   People({"signup", "social", "reset"}, {}, 2, 1),
   People({"whatsapp"}, {p1}, 0, 2),
   People({"whatsapp", "delete"}, {p1}, 1, 0),
   People({"signup", "provision", "profile"}, {p1}, 2, 1)}
=============================================================================
