----------------------------- MODULE PhoneCodes -----------------------------
(* One-time codes by phone: a signed-in account puts a number on itself      *)
(* (/auth/phone/send-otp, verify-otp) and a number signs in                  *)
(* (/auth/phone-login/send-otp, verify-otp).  Both keep the last code sent   *)
(* under a Redis key of their own, both send it down the same chain of       *)
(* channels, and both ask the same map of the gateway process whether the    *)
(* code that went out last to a number was Twilio Verify's own instead of    *)
(* the one stored.  Every Redis call, delivery and check of a request is a   *)
(* step, so that requests for the same key and the same number cross.        *)
EXTENDS Integers, FiniteSets

CONSTANTS
  Rows,         \* the accounts there can be, in the order they are created
  Phones,       \* numbers
  Requests,     \* requests the gateway can have in hand at once
  Codes,        \* codes; no two are alike
  Channels,     \* what the configured chain ends in: "own", "verify"
  MaxSends,     \* MAX_SENDS_PER_WINDOW
  MaxAttempts,  \* MAX_VERIFY_ATTEMPTS
  None,
  Wrong         \* a code nobody was sent

ASSUME CodesAssumption ==
  /\ Channels \subseteq {"own", "verify"}
  /\ MaxSends \in Nat \ {0} /\ MaxAttempts \in Nat \ {0}
  /\ Wrong \notin Codes \cup {None} /\ None \notin Codes \cup Phones \cup Rows

VARIABLES
  otp,       \* Redis: key -> the code it holds, for which number, wrong tries
  sends,     \* Redis: number -> codes sent in the window, and whether it ends
  managed,   \* the process's map: the last code to the number was Twilio's
  twilio,    \* the code Twilio Verify holds for a number
  inbox,     \* the codes that ever reached a number
  issued,    \* the codes generated so far
  req        \* the requests in hand

codeVars == <<otp, sends, managed, twilio, inbox, issued>>

AccountKey(u) == <<"account", u>>
LoginKey(p) == <<"login", p>>
Keys == {AccountKey(u) : u \in Rows} \cup {LoginKey(p) : p \in Phones}
IsLogin(key) == key[1] = "login"

Idle == [at |-> "idle"]
Sent(p) == IF sends[p] = None THEN 0 ELSE sends[p].n
Ends(p) == IF sends[p] = None THEN FALSE ELSE sends[p].ends

\* INCR and DECR start a key that is gone at 0 and leave its expiry alone.
AddSend(p, n) == [sends EXCEPT ![p] = [n |-> Sent(p) + n, ends |-> Ends(p)]]

CodesInit ==
  /\ otp = [k \in Keys |-> None]
  /\ sends = [p \in Phones |-> None]
  /\ managed = [p \in Phones |-> FALSE]
  /\ twilio = [p \in Phones |-> None]
  /\ inbox = [p \in Phones |-> {}]
  /\ issued = {}
  /\ req = [r \in Requests |-> Idle]

At(r, step) == req[r].at = step
Goto(r, step) == req' = [req EXCEPT ![r].at = step]
Done(r) == req' = [req EXCEPT ![r] = Idle]

(***************************************************************************)
(* A code is asked for.  A login is counted first, and the first of a       *)
(* window starts its clock; a request over the limit is refused.            *)
(***************************************************************************)

AskCode(r, key, phone) ==
  /\ At(r, "idle")
  /\ req' = [req EXCEPT ![r] =
       [at |-> IF IsLogin(key) THEN "count" ELSE "store",
        key |-> key, phone |-> phone, code |-> None, verify |-> FALSE]]
  /\ UNCHANGED codeVars

StartsWindow(n) == n = 1

Count(r) ==
  /\ At(r, "count")
  /\ LET p == req[r].phone
         n == Sent(p) + 1
     IN /\ sends' = AddSend(p, 1)
        /\ IF StartsWindow(n) THEN Goto(r, "expire")
           ELSE IF n > MaxSends THEN Done(r)
           ELSE Goto(r, "store")
  /\ UNCHANGED <<otp, managed, twilio, inbox, issued>>

\* EXPIRE on a key that is gone does nothing.
SetWindow(r) ==
  /\ At(r, "expire")
  /\ LET p == req[r].phone
     IN sends' = [sends EXCEPT ![p] =
                    IF @ = None THEN None ELSE [@ EXCEPT !.ends = TRUE]]
  /\ Goto(r, "store")
  /\ UNCHANGED <<otp, managed, twilio, inbox, issued>>

\* A code not issued before, whichever: codes are alike but for being different.
Fresh == CHOOSE c \in Codes : c \notin issued

\* The new code replaces whatever the key held.
Store(r) ==
  /\ At(r, "store")
  /\ Codes # issued
  /\ issued' = issued \cup {Fresh}
  /\ otp' = [otp EXCEPT ![req[r].key] =
               [code |-> Fresh, phone |-> req[r].phone, tries |-> 0]]
  /\ req' = [req EXCEPT ![r].at = "deliver", ![r].code = Fresh]
  /\ UNCHANGED <<sends, managed, twilio, inbox>>

\* deliverOtp walks the chain until a channel answers: one of ours takes the
\* code stored, Twilio Verify sends one of its own.  A channel that sent its code
\* and whose answer is lost counts as failed, and the next one sends too.
Deliver(r) ==
  /\ At(r, "deliver")
  /\ \E own, verify \in BOOLEAN :
       /\ own => "own" \in Channels
       /\ verify => "verify" \in Channels /\ Codes # issued
       /\ LET p == req[r].phone
              reach == (IF own THEN {req[r].code} ELSE {}) \cup (IF verify THEN {Fresh} ELSE {})
          IN /\ inbox' = [inbox EXCEPT ![p] = @ \cup reach]
             /\ issued' = IF verify THEN issued \cup {Fresh} ELSE issued
             /\ twilio' = IF verify THEN [twilio EXCEPT ![p] = Fresh] ELSE twilio
       /\ \/ own /\ Goto(r, "note")
          \/ verify /\ req' = [req EXCEPT ![r].at = "note", ![r].verify = TRUE]
          \/ Goto(r, "undo")
  /\ UNCHANGED <<otp, sends, managed>>

Note(r) ==
  /\ At(r, "note")
  /\ managed' = [managed EXCEPT ![req[r].phone] = req[r].verify]
  /\ Done(r)
  /\ UNCHANGED <<otp, sends, twilio, inbox, issued>>

\* What was not delivered is forgotten, and a login gets its send back.
Undo(r) ==
  /\ At(r, "undo")
  /\ otp' = [otp EXCEPT ![req[r].key] = None]
  /\ IF IsLogin(req[r].key) THEN Goto(r, "uncount") ELSE Done(r)
  /\ UNCHANGED <<sends, managed, twilio, inbox, issued>>

Uncount(r) ==
  /\ At(r, "uncount")
  /\ sends' = AddSend(req[r].phone, -1)
  /\ Done(r)
  /\ UNCHANGED <<otp, managed, twilio, inbox, issued>>

(***************************************************************************)
(* A code is entered: the entry is read, then checked (by Twilio when the   *)
(* map says so), then acted on.                                             *)
(***************************************************************************)

EnterCode(r, key, code) ==
  /\ At(r, "idle")
  /\ req' = [req EXCEPT ![r] = [at |-> "read", key |-> key, code |-> code]]
  /\ UNCHANGED codeVars

ReadEntry(r) ==
  /\ At(r, "read")
  /\ LET entry == otp[req[r].key]
     IN IF entry = None THEN Done(r)
        ELSE req' = [req EXCEPT ![r] =
               [at |-> "check", key |-> @.key, code |-> @.code,
                entry |-> entry]]
  /\ UNCHANGED codeVars

Approved(r) ==
  LET entry == req[r].entry
  IN IF managed[entry.phone] THEN twilio[entry.phone] = req[r].code
     ELSE entry.code = req[r].code

CheckCode(r) ==
  /\ At(r, "check")
  /\ LET p == req[r].entry.phone
         login == IsLogin(req[r].key)
     IN IF Approved(r)
        THEN /\ managed' = [managed EXCEPT ![p] = FALSE]
             /\ twilio' = [twilio EXCEPT ![p] = IF managed[p] THEN None ELSE @]
             /\ Goto(r, IF login THEN "spend" ELSE "write")
        ELSE /\ IF login THEN Goto(r, "miss") ELSE Done(r)
             /\ UNCHANGED <<managed, twilio>>
  /\ UNCHANGED <<otp, sends, inbox, issued>>

\* A wrong login code is counted on the entry that was read: the entry is
\* written back, or dropped at the last try.
Miss(r) ==
  /\ At(r, "miss")
  /\ LET tries == req[r].entry.tries + 1
     IN otp' = [otp EXCEPT ![req[r].key] =
                  IF tries >= MaxAttempts THEN None
                  ELSE [req[r].entry EXCEPT !.tries = tries]]
  /\ Done(r)
  /\ UNCHANGED <<sends, managed, twilio, inbox, issued>>

\* A login spends the code and its sends before it looks for the account.
Spend(r) ==
  /\ At(r, "spend")
  /\ otp' = [otp EXCEPT ![req[r].key] = None]
  /\ Goto(r, "forgive")
  /\ UNCHANGED <<sends, managed, twilio, inbox, issued>>

Forgive(r) ==
  /\ At(r, "forgive")
  /\ sends' = [sends EXCEPT ![req[r].entry.phone] = None]
  /\ Goto(r, "resolve")
  /\ UNCHANGED <<otp, managed, twilio, inbox, issued>>

\* The last step of a number put on an account; the code goes only now.
ClearCode(r) ==
  /\ At(r, "clear")
  /\ otp' = [otp EXCEPT ![req[r].key] = None]
  /\ Done(r)
  /\ UNCHANGED <<sends, managed, twilio, inbox, issued>>

\* Redis lets an entry, or a window with an end, run out.
RunOut ==
  /\ \/ /\ \E k \in Keys : otp[k] # None /\ otp' = [otp EXCEPT ![k] = None]
        /\ UNCHANGED sends
     \/ /\ \E p \in Phones :
             /\ Ends(p)
             /\ sends' = [sends EXCEPT ![p] = None]
        /\ UNCHANGED otp
  /\ UNCHANGED <<managed, twilio, inbox, issued, req>>

CodeStep(r) ==
  \/ Count(r) \/ SetWindow(r) \/ Store(r) \/ Deliver(r) \/ Note(r)
  \/ Undo(r) \/ Uncount(r)
  \/ ReadEntry(r) \/ CheckCode(r) \/ Miss(r) \/ Spend(r) \/ Forgive(r)
  \/ ClearCode(r)

\* Codes that someone can enter: any that reached some number, or none of them.
Enterable == (UNION {inbox[p] : p \in Phones}) \cup {Wrong}
=============================================================================
