----------------------------- MODULE Idempotency -----------------------------
(***************************************************************************)
(* The Idempotency-Key wrapper of the gateway's write routes               *)
(* (runIdempotentJsonRequest in idempotency.ts): one Redis record per      *)
(* user, route and key, taken with SET NX, replaced by the response once   *)
(* the route's own work is over, deleted when that work throws.  The calls *)
(* of this module all carry one key: a client's request and its retries,   *)
(* or the same key used for another body.  What a route does in between is *)
(* left to the module that extends this one.                               *)
(***************************************************************************)
EXTENDS Naturals, FiniteSets

CONSTANTS
    Calls,     \* HTTP requests that carry the key
    Bodies,    \* what the fingerprint tells apart
    BodyOf     \* the body of each call

ASSUME BodyOfAssumption == BodyOf \in [Calls -> Bodies]

VARIABLES
    record,    \* the value under the Redis key
    call,      \* where each call is
    answer,    \* what it was answered
    lapsed     \* the record ran out or Redis lost a write while it mattered, or
               \* work that was done was taken for work that failed

idempotencyVars == <<record, call, answer, lapsed>>

NoCall == "nobody"
NoRecord == [state |-> "none"]
Processing(c) == [state |-> "processing", body |-> BodyOf[c]]
Completed(c) == [state |-> "completed", body |-> BodyOf[c], result |-> c]

Unanswered == [kind |-> "none", result |-> NoCall]
Busy == [kind |-> "busy", result |-> NoCall]
Mismatch == [kind |-> "mismatch", result |-> NoCall]
Failed == [kind |-> "failed", result |-> NoCall]
ResultOf(c) == [kind |-> "result", result |-> c]

(* Faulty variants, each one slip in the code it stands for. *)
SetWhenNotCompleted(c, otherwise) ==
    IF record.state # "completed"
    THEN /\ record' = Processing(c)
         /\ call' = [call EXCEPT ![c] = "executing"]
    ELSE /\ call' = [call EXCEPT ![c] = otherwise]
         /\ UNCHANGED record
StoredWithoutBody(c) ==
    CASE record.state = "none" -> Unanswered
      [] record.state = "completed" -> ResultOf(record.result)
      [] OTHER -> Busy
-----------------------------------------------------------------------------

IdempotencyInit ==
    /\ record = NoRecord
    /\ answer = [c \in Calls |-> Unanswered]
    /\ lapsed = FALSE

(* tryAcquireRequestLock: SET NX. *)
Acquire(c, otherwise) ==
    IF record = NoRecord
    THEN /\ record' = Processing(c)
         /\ call' = [call EXCEPT ![c] = "executing"]
    ELSE /\ call' = [call EXCEPT ![c] = otherwise]
         /\ UNCHANGED record

(* What a stored record says to a call that did not get the lock. *)
Stored(c) ==
    CASE record.state = "none" -> Unanswered
      [] record.state # "none" /\ record.body # BodyOf[c] -> Mismatch
      [] record.state = "completed" /\ record.body = BodyOf[c] -> ResultOf(record.result)
      [] OTHER -> Busy

Arrive(c) ==
    /\ call[c] = "client"
    /\ Acquire(c, "look")
    /\ UNCHANGED <<answer, lapsed>>

Look(c) ==
    /\ call[c] = "look"
    /\ answer' = [answer EXCEPT ![c] = Stored(c)]
    /\ call' = [call EXCEPT ![c] = IF record = NoRecord THEN "again" ELSE "answered"]
    /\ UNCHANGED <<record, lapsed>>

(* The record ran out between SET NX and GET: one more try. *)
AcquireAgain(c) ==
    /\ call[c] = "again"
    /\ Acquire(c, "answered")
    /\ answer' = [answer EXCEPT ![c] = IF record = NoRecord THEN @ ELSE Busy]
    /\ UNCHANGED lapsed

(* execute returned: the response is stored for 24 hours, over whatever is *)
(* there.                                                                  *)
StoreResponse(c) ==
    /\ call[c] = "storing"
    /\ record' = Completed(c)
    /\ answer' = [answer EXCEPT ![c] = ResultOf(c)]
    /\ call' = [call EXCEPT ![c] = "answered"]
    /\ UNCHANGED lapsed

(* Redis refuses: the catch deletes the key, and the client gets an error  *)
(* for work that was done.                                                 *)
StoreRefused(c) ==
    /\ call[c] = "storing"
    /\ call' = [call EXCEPT ![c] = "undoing"]
    /\ lapsed' = TRUE
    /\ UNCHANGED <<record, answer>>

(* The catch: del, its own failure swallowed, and the error goes on. *)
Undone(c) ==
    /\ call[c] = "undoing"
    /\ answer' = [answer EXCEPT ![c] = Failed]
    /\ call' = [call EXCEPT ![c] = "answered"]
    /\ UNCHANGED lapsed

DeleteKey(c) == Undone(c) /\ record' = NoRecord
DeleteRefused(c) == Undone(c) /\ UNCHANGED record

(* The TTL of the lock (10 minutes) or of the response (24 hours) is over; *)
(* nothing renews the lock of an execute that takes longer.                *)
Expire ==
    /\ record # NoRecord
    /\ record' = NoRecord
    /\ lapsed' = TRUE
    /\ UNCHANGED <<call, answer>>

(* The gateway dies with the call, before or after the work. *)
Die(c) ==
    /\ call[c] \in {"look", "again", "executing", "storing", "undoing"}
    /\ call' = [call EXCEPT ![c] = "lost"]
    /\ UNCHANGED <<record, answer, lapsed>>

(* The route's own work ends, by its result or by throwing. *)
Executed(c, ok) ==
    /\ call[c] = "executing"
    /\ call' = [call EXCEPT ![c] = IF ok THEN "storing" ELSE "undoing"]
    /\ UNCHANGED <<record, answer, lapsed>>

(* The work is done, and it throws. *)
DoneAndThrown(c) ==
    /\ call[c] = "executing"
    /\ call' = [call EXCEPT ![c] = "undoing"]
    /\ lapsed' = TRUE
    /\ UNCHANGED <<record, answer>>

IdempotencySteps(c) ==
    Arrive(c) \/ Look(c) \/ AcquireAgain(c) \/ StoreResponse(c) \/ DeleteKey(c)

IdempotencyFaults(c) == StoreRefused(c) \/ DeleteRefused(c)

IdempotencyTypeOK ==
    /\ record \in {NoRecord} \cup {Processing(c) : c \in Calls} \cup {Completed(c) : c \in Calls}
    /\ call \in [Calls -> {"client", "look", "again", "executing", "storing",
                           "undoing", "answered", "lost"}]
    /\ answer \in [Calls -> [kind : {"none", "busy", "mismatch", "failed", "result"},
                             result : Calls \cup {NoCall}]]
    /\ lapsed \in BOOLEAN

(* A call is only ever answered with the result of a call with the same    *)
(* body, its own or the stored one: a key used twice for two different     *)
(* requests never hands one of them the other's response.                  *)
AnswerIsForBody ==
    \A c \in Calls : answer[c].kind = "result" => BodyOf[answer[c].result] = BodyOf[c]
=============================================================================
