----------------------------- MODULE MCWhatsApp -----------------------------
(* Two messages of one rider at once, two drivers; the number of messages  *)
(* depends on what the conversation is about.                              *)
EXTENDS WhatsAppGroups, TLC

MCBudget == "booking" :> [messages |-> 4, bids |-> 0, lapses |-> 1]
         @@ "bidding" :> [messages |-> 4, bids |-> 2, lapses |-> 0]
         @@ "withdrawing" :> [messages |-> 6, bids |-> 0, lapses |-> 1]
         @@ "grouping" :> [messages |-> 4, bids |-> 0, lapses |-> 0]
Symmetry == Permutations(Webhooks) \cup Permutations(Drivers)
=============================================================================
