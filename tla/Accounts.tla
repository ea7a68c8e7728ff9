------------------------------ MODULE Accounts ------------------------------
(* How people get and keep an account: sign-up with a password, Google or    *)
(* Apple, the first message on WhatsApp, sign-in by number, password reset,  *)
(* profile and deletion (apps/api-gateway http routes and onboarding), the   *)
(* rows they write (packages/db), and the bank account behind a wallet that  *)
(* provisionPouchAccount opens in the background.  Neither an e-mail nor a   *)
(* number is unique in the database, only the identity (privyDid) is; every  *)
(* query, write and call of a request is a step and requests cross.          *)
(* Codes and the numbers they prove are PhoneCodes'.                         *)
EXTENDS PhoneCodes, FiniteSetsExt

CONSTANTS
  Emails,
  Jobs,        \* provisionings under way at once
  MaxOpened,   \* bound: accounts Pouch opens for a customer, counted up to it
  Roles,       \* the roles people sign up with
  Traffics     \* what people do (doors) with which numbers, and bounds: requests
               \* but for WhatsApp messages, restarts and calls that fail

ASSUME AccountsAssumption ==
  /\ Rows = 1 .. Cardinality(Rows)
  /\ Roles \subseteq {"RIDER", "DRIVER", "BOTH"}
  /\ MaxOpened \in Nat \ {0}
  /\ \A t \in Traffics : t.requests \in Nat /\ t.faults \in Nat /\ t.numbers \subseteq Phones

VARIABLES
  users,      \* users: identity, e-mail, number, has a password, role, customer
  drivers,   \* accounts with a driver row
  wallets,   \* accounts with a wallet
  va,        \* the virtual account recorded for an account: which one at Pouch
  pouch,     \* Pouch, by customer reference: has a customer, accounts opened
  job,       \* provisionings under way
  answered,  \* the account WhatsApp messages of a number were last served as
  verified,  \* phone_verified: the numbers accounts proved
  left,     \* requests still to come
  faults,   \* failures and restarts still to come
  traffic

accountVars == <<users, drivers, wallets, va, pouch, job, answered, verified>>
everything == <<codeVars, req, accountVars, left, faults, traffic>>

\* Doors: signup, social, whatsapp, login, verify, reset, profile, delete,
\* provision.
Numbers == traffic.numbers
Drives(role) == role \in {"DRIVER", "BOTH"}

Local(u) == <<"local", u>>
Social(provider, e) == <<provider, e>>
Whatsapp(p) == <<"whatsapp", p>>
Deleted(u) == <<"deleted", u>>

Identities ==
  ({"local", "deleted"} \X Rows) \cup ({"google", "apple"} \X Emails)
    \cup ({"whatsapp"} \X Phones)

\* A row of users, as far as it matters here.
Users == [did : Identities, email : Emails \cup {None}, phone : Phones \cup {None},
          hash : BOOLEAN, role : Roles \cup {"RIDER", "BOTH"}, customer : BOOLEAN]

ASSUME NoneIsNoUser == None \notin Users

Used == {u \in Rows : users[u] # None}
Living == {u \in Used : users[u].did # Deleted(u)}
NextRow == CHOOSE u \in Rows : u \notin Used /\ \A v \in Rows : v < u => v \in Used

ByDid(d) == {u \in Used : users[u].did = d}
ByEmail(e) == {u \in Used : users[u].email = e}
\* findByPhone: the oldest of the rows with the number.
ByPhone(p) == LET us == {u \in Used : users[u].phone = p}
              IN {u \in us : \A v \in us : u <= v}

\* privyDid is unique: a create that loses the race fails (P2002).
AlwaysFree(d) == TRUE
Free(d) == ByDid(d) = {}

\* userClient.create of the next row; it fails when the rows of the model are
\* used up.
Create(d, e, p, hash, role) ==
  /\ Used # Rows /\ Free(d)
  /\ users' = [users EXCEPT ![NextRow] =
       [did |-> d, email |-> e, phone |-> p, hash |-> hash, role |-> role,
        customer |-> FALSE]]

(***************************************************************************)
(* Sign-up with a password: claims the passwordless row of the e-mail, or   *)
(* creates one.                                                             *)
(***************************************************************************)

Comes(r, door, request) ==
  /\ door \in traffic.doors /\ left > 0
  /\ At(r, "idle")
  /\ left' = left - 1
  /\ req' = [req EXCEPT ![r] = request]
  /\ UNCHANGED <<codeVars, accountVars, faults, traffic>>

rest == <<codeVars, left, faults, traffic>>
restButFaults == <<codeVars, left, traffic>>

\* A query, a publish or a call fails.
Fault == faults > 0 /\ faults' = faults - 1

Signup(r) ==
  \E e \in Emails, role \in Roles, p \in Numbers \cup {None} :
    Comes(r, "signup",
          [at |-> "signup", email |-> e, role |-> role, phone |-> p])

\* findByEmail returns any of the rows with the e-mail.
SignupFinds(r) ==
  /\ At(r, "signup")
  /\ LET found == ByEmail(req[r].email)
     IN \/ found = {} /\ Goto(r, "create")
        \/ \E u \in found :
             IF users[u].hash THEN Done(r)
             ELSE req' = [req EXCEPT ![r] =
                    [at |-> "claim", row |-> u, role |-> @.role,
                     phone |-> IF users[u].phone = None THEN @.phone ELSE None,
                     upgrade |-> Drives(@.role) /\ users[u].role = "RIDER"]]
  /\ UNCHANGED <<accountVars, rest>>

Claim(r) ==
  /\ At(r, "claim")
  /\ users' = [users EXCEPT ![req[r].row].hash = TRUE,
       ![req[r].row].phone = IF req[r].phone = None THEN @ ELSE req[r].phone]
  /\ Goto(r, IF req[r].upgrade THEN "upgrade"
             ELSE IF Drives(req[r].role) THEN "ensure" ELSE "wallet")
  /\ UNCHANGED <<drivers, wallets, va, pouch, job, answered, verified, rest>>

Upgrade(r) ==
  /\ At(r, "upgrade")
  /\ users' = [users EXCEPT ![req[r].row].role = "BOTH"]
  /\ Goto(r, "ensure")
  /\ UNCHANGED <<drivers, wallets, va, pouch, job, answered, verified, rest>>

SignupCreates(r) ==
  /\ At(r, "create")
  /\ \/ /\ Create(Local(NextRow), req[r].email, req[r].phone, TRUE, req[r].role)
        /\ req' = [req EXCEPT ![r] =
             [at |-> IF Drives(@.role) THEN "ensure" ELSE "publish",
              row |-> NextRow, role |-> @.role, new |-> TRUE]]
     \/ Used = Rows /\ Done(r) /\ UNCHANGED users
  /\ UNCHANGED <<drivers, wallets, va, pouch, job, answered, verified, rest>>

\* driverClient.ensure, not caught: its failure ends the request.
EnsureDriver(r) ==
  /\ At(r, "ensure")
  /\ \/ /\ drivers' = drivers \cup {req[r].row}
        /\ Goto(r, IF "new" \in DOMAIN req[r] THEN "publish" ELSE "wallet")
        /\ UNCHANGED faults
     \/ Fault /\ Done(r) /\ UNCHANGED drivers
  /\ UNCHANGED <<users, wallets, va, pouch, job, answered, verified,
                 restButFaults>>

\* USER_CREATED is awaited and not caught either.
PublishCreated(r) ==
  /\ At(r, "publish")
  /\ \/ Goto(r, "wallet") /\ UNCHANGED faults
     \/ Fault /\ Done(r)
  /\ UNCHANGED <<accountVars, restButFaults>>

(***************************************************************************)
(* The background job.  An account of the background starts with whether    *)
(* there is a virtual account; the wallet screen's own route ("route") runs *)
(* the same calls with its own answer to a customer that exists.            *)
(***************************************************************************)

Spawned(u) ==
  \E j \in Jobs :
    /\ job[j] = Idle
    /\ job' = [job EXCEPT ![j] = [at |-> "va", row |-> u, route |-> FALSE]]

\* The wallet is ensured; a failure is logged and the request goes on, with the
\* job unless an account was claimed.
Claims(r) == "upgrade" \in DOMAIN req[r]

EnsureWallet(r) ==
  /\ At(r, "wallet")
  /\ \/ wallets' = wallets \cup {req[r].row} /\ UNCHANGED faults
     \/ Fault /\ UNCHANGED wallets
  /\ IF Claims(r) THEN UNCHANGED job ELSE Spawned(req[r].row)
  /\ IF "from" \in DOMAIN req[r]
     THEN answered' = [answered EXCEPT ![req[r].from] = req[r].row]
     ELSE UNCHANGED answered
  /\ Done(r)
  /\ UNCHANGED <<users, drivers, va, pouch, verified, restButFaults>>

JobDone(j) == job' = [job EXCEPT ![j] = Idle]
JobGoto(j, step) == job' = [job EXCEPT ![j].at = step]

LooksForAccount(j) ==
  /\ job[j].at = "va"
  /\ IF va[job[j].row] # 0 THEN JobDone(j)
     ELSE JobGoto(j, IF users[job[j].row].customer THEN "account" ELSE "customer")
  /\ UNCHANGED <<req, users, drivers, wallets, va, pouch, answered, verified,
                 rest>>

\* DUPLICATE_CUSTOMER_REFERENCE: the background job goes on with the customer
\* that exists, the route gives up.
StopsAtDuplicate(j) == JobDone(j)
FindsDuplicate(j) == IF job[j].route THEN JobDone(j) ELSE JobGoto(j, "save")

CreatesCustomer(j) ==
  /\ job[j].at = "customer"
  /\ LET u == job[j].row
     IN IF pouch[u].customer THEN FindsDuplicate(j) /\ UNCHANGED pouch
        ELSE /\ pouch' = [pouch EXCEPT ![u].customer = TRUE]
             /\ JobGoto(j, "save")
  /\ UNCHANGED <<req, users, drivers, wallets, va, answered, verified, rest>>

SavesCustomer(j) ==
  /\ job[j].at = "save"
  /\ users' = [users EXCEPT ![job[j].row].customer = TRUE]
  /\ JobGoto(j, "account")
  /\ UNCHANGED <<req, drivers, wallets, va, pouch, answered, verified, rest>>

\* The job's idempotency key has the time in it, so each call opens an account;
\* the route's is the user's, so Pouch answers with the one it opened for it.
OpensAccount(j) ==
  /\ job[j].at = "account"
  /\ LET u == job[j].row
         kept == job[j].route /\ pouch[u].routes # 0
         n == IF kept THEN pouch[u].routes
              ELSE Min({pouch[u].opened + 1, MaxOpened})
     IN /\ pouch' = [pouch EXCEPT ![u].opened = IF kept THEN @ ELSE n,
                                  ![u].routes = IF job[j].route THEN n ELSE @]
        /\ job' = [job EXCEPT ![j] = [at |-> "record", row |-> u,
                                      route |-> @.route, va |-> n]]
  /\ UNCHANGED <<req, users, drivers, wallets, va, answered, verified, rest>>

\* One row per account: the create that comes second is ignored.
RecordsAccount(j) ==
  /\ job[j].at = "record"
  /\ va' = [va EXCEPT ![job[j].row] = IF @ = 0 THEN job[j].va ELSE @]
  /\ JobDone(j)
  /\ UNCHANGED <<req, users, drivers, wallets, pouch, answered, verified, rest>>

\* A call to Pouch or the database fails: the job is dropped, and logged.
JobFails(j) ==
  /\ job[j] # Idle
  /\ Fault /\ JobDone(j)
  /\ UNCHANGED <<req, users, drivers, wallets, va, pouch, answered, verified,
                 restButFaults>>

JobSucceeds(j) ==
  \/ LooksForAccount(j) \/ CreatesCustomer(j) \/ SavesCustomer(j)
  \/ OpensAccount(j) \/ RecordsAccount(j)

\* The wallet screen asks for the account: the wallet first, then the calls.
AsksForAccount ==
  /\ "provision" \in traffic.doors /\ left > 0
  /\ \E u \in Living, j \in Jobs :
       /\ job[j] = Idle /\ va[u] = 0
       /\ wallets' = wallets \cup {u}
       /\ job' = [job EXCEPT ![j] =
            [at |-> IF users[u].customer THEN "account" ELSE "customer",
             row |-> u, route |-> TRUE]]
  /\ left' = left - 1
  /\ UNCHANGED <<codeVars, req, users, drivers, va, pouch, answered, verified,
                 faults, traffic>>

(***************************************************************************)
(* Google and Apple: the identity, else the verified e-mail, else a new     *)
(* account.  The e-mail of a person stands for the provider's subject too.  *)
(***************************************************************************)

\* What a token of a provider may say: Google whether the e-mail is verified;
\* Apple's e-mail, which comes or not, is taken for verified.
Says(provider, e, email, isVerified) ==
  [did |-> Social(provider, e), email |-> email,
   trusted |-> email # None /\ isVerified]
GoogleSays(e) == {Says("google", e, e, v) : v \in BOOLEAN}
AppleSays(e) == {Says("apple", e, email, TRUE) : email \in {e, None}}

SignsIn(r, tokens) ==
  \E token \in tokens, role \in Roles :
    Comes(r, "social", [at |-> "social", did |-> token.did, email |-> token.email,
                        trusted |-> token.trusted, role |-> role])

GoogleSignIn(r) == \E e \in Emails : SignsIn(r, GoogleSays(e))
AppleSignIn(r) == \E e \in Emails : SignsIn(r, AppleSays(e))

Serve(r, u) ==
  /\ Spawned(u)
  /\ Done(r)
  /\ UNCHANGED <<users, drivers, wallets, va, pouch, answered, verified, rest>>

SocialFinds(r) ==
  /\ At(r, "social")
  /\ LET found == ByDid(req[r].did)
     IN IF found # {} THEN \E u \in found : Serve(r, u)
        ELSE /\ Goto(r, IF req[r].trusted THEN "socialEmail" ELSE "socialCreate")
             /\ UNCHANGED <<accountVars, rest>>

SocialLinks(r) ==
  /\ At(r, "socialEmail")
  /\ LET found == ByEmail(req[r].email)
     IN IF found # {} THEN \E u \in found : Serve(r, u)
        ELSE Goto(r, "socialCreate") /\ UNCHANGED <<accountVars, rest>>

SocialCreates(r) ==
  /\ At(r, "socialCreate")
  /\ \/ /\ Create(req[r].did, req[r].email, None, FALSE, req[r].role)
        /\ req' = [req EXCEPT ![r] =
             [at |-> IF Drives(@.role) THEN "driver" ELSE "wallet",
              row |-> NextRow]]
     \/ (~Free(req[r].did) \/ Used = Rows) /\ Done(r) /\ UNCHANGED users
  /\ UNCHANGED <<drivers, wallets, va, pouch, job, answered, verified, rest>>

CreateDriver(r) ==
  /\ At(r, "driver")
  /\ \/ /\ drivers' = drivers \cup {req[r].row} /\ Goto(r, "wallet")
        /\ UNCHANGED faults
     \/ Fault /\ Done(r) /\ UNCHANGED drivers
  /\ UNCHANGED <<users, wallets, va, pouch, job, answered, verified,
                 restButFaults>>

(***************************************************************************)
(* The first message on WhatsApp opens an account, every later one repairs  *)
(* what is missing.  People may write for ever.                             *)
(***************************************************************************)

Message(r, p) ==
  /\ "whatsapp" \in traffic.doors /\ p \in Numbers
  /\ At(r, "idle")
  /\ req' = [req EXCEPT ![r] = [at |-> "onboard", from |-> p]]
  /\ UNCHANGED <<accountVars, rest>>

Onboards(r) ==
  /\ At(r, "onboard")
  /\ LET p == req[r].from
         found == ByDid(Whatsapp(p))
     IN IF found = {} THEN Goto(r, "waCreate")
        ELSE req' = [req EXCEPT ![r] =
               [at |-> "wallet", from |-> p, row |-> CHOOSE u \in found : TRUE]]
  /\ UNCHANGED <<accountVars, rest>>

WhatsappCreates(r) ==
  /\ At(r, "waCreate")
  /\ LET p == req[r].from
     IN \/ /\ Create(Whatsapp(p), None, p, FALSE, "RIDER")
           /\ req' = [req EXCEPT ![r] =
                [at |-> "wallet", from |-> p, row |-> NextRow]]
        \/ ~Free(Whatsapp(p)) /\ Goto(r, "raced") /\ UNCHANGED users
        \/ Free(Whatsapp(p)) /\ Used = Rows /\ Done(r) /\ UNCHANGED users
  /\ UNCHANGED <<drivers, wallets, va, pouch, job, answered, verified, rest>>

\* The message that lost the race is served as the account that won it, and
\* repairs nothing.  The account can be deleted by then: the message fails.
Raced(r) ==
  /\ At(r, "raced")
  /\ LET p == req[r].from
     IN answered' = [answered EXCEPT ![p] =
          IF ByDid(Whatsapp(p)) = {} THEN @
          ELSE CHOOSE u \in ByDid(Whatsapp(p)) : TRUE]
  /\ Done(r)
  /\ UNCHANGED <<users, drivers, wallets, va, pouch, job, verified, rest>>

(***************************************************************************)
(* Numbers: a code is asked for and entered (PhoneCodes), then a number is  *)
(* put on the account, or the account of the number is found.               *)
(***************************************************************************)

UsesKey(key) == IF IsLogin(key) THEN "login" \in traffic.doors /\ key[2] \in Numbers
                ELSE "verify" \in traffic.doors /\ key[2] \in Living

AsksCode(r) ==
  /\ left > 0
  /\ \E key \in Keys, p \in Numbers :
       /\ UsesKey(key)
       /\ IsLogin(key) => key[2] = p
       /\ AskCode(r, key, p)
  /\ left' = left - 1
  /\ UNCHANGED <<accountVars, faults, traffic>>

EntersCode(r) ==
  /\ left > 0
  /\ \E key \in Keys, c \in Enterable :
       UsesKey(key) /\ EnterCode(r, key, c)
  /\ left' = left - 1
  /\ UNCHANGED <<accountVars, faults, traffic>>

\* The number of the entry that was read and checked.
NumberNow(r) == IF otp[req[r].key] = None THEN req[r].entry.phone
                ELSE otp[req[r].key].phone
ProvedNumber(r) == req[r].entry.phone

PutsNumber(r) ==
  /\ At(r, "write")
  /\ LET u == req[r].key[2]
         p == ProvedNumber(r)
     IN /\ users' = [users EXCEPT ![u].phone = p]
        /\ verified' = verified \cup {<<u, p>>}
  /\ Goto(r, "clear")
  /\ UNCHANGED <<drivers, wallets, va, pouch, job, answered, rest>>

\* resolveUserForPhone: the WhatsApp identity, else the oldest row with the
\* number, else the account a first message would open.
ResolvesLogin(r) ==
  /\ At(r, "resolve")
  /\ LET p == req[r].entry.phone
     IN IF ByDid(Whatsapp(p)) \cup ByPhone(p) # {} THEN Done(r)
        ELSE req' = [req EXCEPT ![r] = [at |-> "onboard", from |-> p]]
  /\ UNCHANGED <<accountVars, rest>>

(***************************************************************************)
(* Password reset, profile, driver papers, deletion.                        *)
(***************************************************************************)

\* The code in the e-mail is right; findByEmail picks any row, which the
\* password goes to.
ResetPassword(r) ==
  \E e \in Emails :
    /\ \E u \in ByEmail(e) : users[u].hash
    /\ Comes(r, "reset", [at |-> "reset", email |-> e])

ResetFinds(r) ==
  /\ At(r, "reset")
  /\ LET found == ByEmail(req[r].email)
     IN \/ found = {} /\ Done(r)
        \/ \E u \in found :
             req' = [req EXCEPT ![r] = [at |-> "hash", row |-> u]]
  /\ UNCHANGED <<accountVars, rest>>

SetsPassword(r) ==
  /\ At(r, "hash")
  /\ users' = [users EXCEPT ![req[r].row].hash = TRUE]
  /\ Done(r)
  /\ UNCHANGED <<drivers, wallets, va, pouch, job, answered, verified, rest>>

\* The profile screen writes an e-mail or a number as typed; so does a driver's
\* KYC form with the number.
UpdatesProfile ==
  /\ "profile" \in traffic.doors /\ left > 0
  /\ \E u \in Living :
       \/ \E e \in Emails : users' = [users EXCEPT ![u].email = e]
       \/ \E p \in Numbers : users' = [users EXCEPT ![u].phone = p]
  /\ left' = left - 1
  /\ UNCHANGED <<codeVars, req, drivers, wallets, va, pouch, job, answered,
                 verified, faults, traffic>>

\* softDelete: the row stays without identity, e-mail, number and password,
\* with its role, driver row, wallet, customer and virtual account.
DeletesAccount ==
  /\ "delete" \in traffic.doors /\ left > 0
  /\ \E u \in Living :
       users' = [users EXCEPT ![u].did = Deleted(u), ![u].email = None,
                            ![u].phone = None, ![u].hash = FALSE]
  /\ left' = left - 1
  /\ UNCHANGED <<codeVars, req, drivers, wallets, va, pouch, job, answered,
                 verified, faults, traffic>>

\* The gateway restarts: requests, jobs and the map of numbers are gone.
Dies ==
  /\ Fault
  /\ req' = [r \in Requests |-> Idle]
  /\ job' = [j \in Jobs |-> Idle]
  /\ managed' = [p \in Phones |-> FALSE]
  /\ UNCHANGED <<otp, sends, twilio, inbox, issued, users, drivers, wallets, va,
                 pouch, answered, verified, left, traffic>>

\* The state of a run starts with one account when its people are signed in.
AccountsInit ==
  /\ CodesInit
  /\ traffic \in Traffics
  /\ users = [u \in Rows |->
       IF u = 1 /\ "verify" \in traffic.doors
       THEN [did |-> Local(1), email |-> None, phone |-> None, hash |-> TRUE,
             role |-> "RIDER", customer |-> FALSE]
       ELSE None]
  /\ drivers = {} /\ wallets = {} /\ verified = {}
  /\ va = [u \in Rows |-> 0]
  /\ pouch = [u \in Rows |-> [customer |-> FALSE, opened |-> 0, routes |-> 0]]
  /\ job = [j \in Jobs |-> Idle]
  /\ answered = [p \in Phones |-> None]
  /\ left = traffic.requests /\ faults = traffic.faults

Continues(r) ==
  \/ SignupFinds(r) \/ Claim(r) \/ Upgrade(r) \/ SignupCreates(r)
  \/ EnsureDriver(r) \/ PublishCreated(r) \/ EnsureWallet(r)
  \/ SocialFinds(r) \/ SocialLinks(r) \/ SocialCreates(r) \/ CreateDriver(r)
  \/ Onboards(r) \/ WhatsappCreates(r) \/ Raced(r)
  \/ PutsNumber(r) \/ ResolvesLogin(r) \/ ResetFinds(r) \/ SetsPassword(r)
  \/ CodeStep(r) /\ UNCHANGED <<accountVars, left, faults, traffic>>

AccountsNext ==
  \/ \E r \in Requests :
       \/ Signup(r) \/ GoogleSignIn(r) \/ AppleSignIn(r) \/ ResetPassword(r)
       \/ \E p \in Phones : Message(r, p)
       \/ AsksCode(r) \/ EntersCode(r) \/ Continues(r)
  \/ \E j \in Jobs : JobSucceeds(j) \/ JobFails(j)
  \/ AsksForAccount \/ UpdatesProfile \/ DeletesAccount \/ Dies
  \/ RunOut /\ UNCHANGED <<accountVars, left, faults, traffic>>

\* The gateway gets on with what it has in hand, and people go on writing.
AccountsFairness ==
  /\ \A r \in Requests : SF_everything(Continues(r))
  /\ \A j \in Jobs : WF_everything(JobSucceeds(j))
  /\ \A p \in Phones : SF_everything(\E r \in Requests : Message(r, p))

AccountsSpec == AccountsInit /\ [][AccountsNext]_everything /\ AccountsFairness

-----------------------------------------------------------------------------

\* A number an account proved was proved by a code that had reached the number,
\* however sends and checks for other numbers of the account crossed, and
\* through restarts that forget whose code went out (phone.route.ts).
NumberWasProven ==
  [][\A u \in Rows, p \in Phones :
       <<u, p>> \in verified' \ verified =>
         \E r \in Requests :
           /\ At(r, "write") /\ req[r].key = AccountKey(u)
           /\ req[r].code \in inbox[p]]_everything

\* The messages of a number are served as one account until it is deleted, two
\* first messages at once included (onboardWhatsappUser).
OneAccountPerWriter ==
  [][\A p \in Phones :
       answered'[p] # answered[p] /\ answered[p] # None =>
         \E u \in {answered[p], answered'[p]} : u \notin Living']_everything

\* Someone who goes on writing on WhatsApp gets a wallet and a virtual account,
\* whatever failed or was cut short by restarts before (provisionPouchAccount).
WriterIsBanked ==
  \A u \in Rows :
    ("whatsapp" \in traffic.doors /\ \E p \in Numbers : u \in ByDid(Whatsapp(p)))
      ~> (u \notin Living \/ (u \in wallets /\ va[u] # 0))
=============================================================================
