----------------------------- MODULE OtpService -----------------------------
(***************************************************************************)
(* The one-time-password store of pkg/auth/otp.go, as the use case drives  *)
(* it (verifyAndDeleteOTP of internal/usecase/otp.go).                     *)
(*                                                                         *)
(* A code lives in one Redis document per key (purpose and e-mail).        *)
(* ValidateOTP reads it, and by what it read alone decides which further   *)
(* Redis calls to make: increment "retry", delete the document.  Nothing   *)
(* ties those calls to the document that was read, so other requests, a    *)
(* resend or the TTL may come in between.  One action per Redis call.      *)
(***************************************************************************)
EXTENDS Integers, FiniteSets

CONSTANTS
  Req,         \* request goroutines; each serves one validation at a time
  Key,         \* Redis keys: a purpose with an e-mail address
  Code,        \* one-time codes
  MaxRetries,  \* maxRetries of otp.go (5)
  MaxFaults,   \* bound: ignored Redis errors, aborted requests
  NoDoc        \* the key is absent

OTPData == [code : Code, retry : Nat]

ASSUME ReqAssumption == IsFiniteSet(Req)
ASSUME RetryAssumption == MaxRetries \in Nat \ {0}
ASSUME FaultAssumption == MaxFaults \in Nat
ASSUME NoDocAssumption == NoDoc \notin OTPData

VARIABLES
  otp,     \* Redis: key -> its document, or NoDoc
  pc,      \* request -> the Redis call it is about to make
  key,     \* request -> the key it validates
  seen,    \* request -> the retry count it read (data.Retry)
  result,  \* request -> its last answer
  \* History the code does not keep, for the properties:
  fresh,   \* requests whose key still holds the very document they read
  ledger,  \* key -> what has happened to the document it holds now
  faults   \* faults so far

vars == <<otp, pc, key, seen, result, fresh, ledger, faults>>

Call == {"idle", "increment", "evict", "consume"}
Answer == {"none", "expired", "error", "invalid", "locked", "verified"}

\* guesses: wrong codes judged against the document; stale: increments by
\* requests that judged an earlier one; lost: guesses that were never counted;
\* accepted: validations it passed; undeleted: of those, deletes that failed.
Ledger == [guesses : Nat, stale : Nat, lost : Nat, accepted : Nat, undeleted : Nat]
Blank == [guesses |-> 0, stale |-> 0, lost |-> 0, accepted |-> 0, undeleted |-> 0]

Init ==
  /\ otp = [k \in Key |-> NoDoc]
  /\ pc = [r \in Req |-> "idle"]
  /\ key \in [Req -> Key]
  /\ seen = [r \in Req |-> 0]
  /\ result = [r \in Req |-> "none"]
  /\ fresh = {}
  /\ ledger = [k \in Key |-> Blank]
  /\ faults = 0

-----------------------------------------------------------------------------
Live(k) == otp[k] # NoDoc

\* The document of k is replaced by d: whoever read the old one is now stale.
Replace(k, d) ==
  /\ otp' = [otp EXCEPT ![k] = d]
  /\ ledger' = [ledger EXCEPT ![k] = Blank]
  /\ fresh' = {r \in fresh : key[r] # k}

\* r answers a and is free again.
Return(r, a) ==
  /\ pc' = [pc EXCEPT ![r] = "idle"]
  /\ result' = [result EXCEPT ![r] = a]
  /\ seen' = [seen EXCEPT ![r] = 0]

\* StoreOTP: a send overwrites whatever code the key holds.  A SetJSON that
\* reports an error has either taken effect, or not happened.
StoreOTP(k, c) ==
  /\ Replace(k, [code |-> c, retry |-> 0])
  /\ UNCHANGED <<pc, key, seen, result, faults>>

\* The TTL of the document runs out.
Expire(k) ==
  /\ Live(k)
  /\ Replace(k, NoDoc)
  /\ UNCHANGED <<pc, key, seen, result, faults>>

\* The three decisions ValidateOTP makes on the numbers it has, each after a
\* form it must not take (used only to show that the properties notice).
NeverExhausted(d) == FALSE
Exhausted(d) == d.retry >= MaxRetries            \* before judging the code

Uncounted(d) == d
CountedDown(d) == [d EXCEPT !.retry = @ - 1]
Counted(d) == [d EXCEPT !.retry = @ + 1]         \* JSONIncrementField

OneTooSoon(n) == n + 2 >= MaxRetries
LastTry(n) == n + 1 >= MaxRetries                \* after a mismatch

(***************************************************************************)
(* ValidateOTP, up to and including its GetJSON: one action per branch.    *)
(***************************************************************************)
Begin(r, k) ==
  /\ pc[r] = "idle"
  /\ key' = [key EXCEPT ![r] = k]
  /\ UNCHANGED <<otp, faults>>

\* ErrCacheMiss ("expired"), or any other error of the read ("error").
ReadNothing(r, k) ==
  /\ Begin(r, k)
  /\ \/ ~Live(k) /\ Return(r, "expired")
     \/ Return(r, "error")
  /\ UNCHANGED <<fresh, ledger>>

\* Read a document and go on to call; remember the retry count.
ReadDocument(r, k, call) ==
  /\ Begin(r, k)
  /\ Live(k)
  /\ pc' = [pc EXCEPT ![r] = call]
  /\ seen' = [seen EXCEPT ![r] = otp[k].retry]
  /\ fresh' = fresh \cup {r}
  /\ UNCHANGED result

ReadLocked(r, k) ==
  /\ ReadDocument(r, k, "evict")
  /\ Exhausted(otp[k])
  /\ UNCHANGED ledger

ReadWrong(r, k, c) ==
  /\ ReadDocument(r, k, "increment")
  /\ ~Exhausted(otp[k])
  /\ otp[k].code # c
  /\ ledger' = [ledger EXCEPT ![k].guesses = @ + 1]

ReadRight(r, k, c) ==
  /\ ReadDocument(r, k, "consume")
  /\ ~Exhausted(otp[k])
  /\ otp[k].code = c
  /\ ledger' = [ledger EXCEPT ![k].accepted = @ + 1]

(***************************************************************************)
(* The rest of the validation.                                             *)
(***************************************************************************)
\* After the increment, whatever became of it: evict on data.Retry + 1, the
\* count this request read, not the count in Redis.
AfterIncrement(r) ==
  IF LastTry(seen[r])
  THEN /\ pc' = [pc EXCEPT ![r] = "evict"]
       /\ UNCHANGED <<seen, result, fresh>>
  ELSE /\ Return(r, "invalid")
       /\ fresh' = fresh \ {r}

\* JSONIncrementField bumps the document the key holds now; on an absent key
\* the command is an error, which is ignored.
Increment(r) ==
  /\ pc[r] = "increment"
  /\ AfterIncrement(r)
  /\ IF Live(key[r])
     THEN /\ otp' = [otp EXCEPT ![key[r]] = Counted(@)]
          /\ ledger' = IF r \in fresh THEN ledger
                       ELSE [ledger EXCEPT ![key[r]].stale = @ + 1]
     ELSE UNCHANGED <<otp, ledger>>
  /\ UNCHANGED <<key, faults>>

\* The guess r judged against the present document goes uncounted.
LoseGuess(r) ==
  ledger' = IF r \in fresh THEN [ledger EXCEPT ![key[r]].lost = @ + 1] ELSE ledger

\* The document r accepted stays.
KeepAccepted(r) ==
  ledger' = IF r \in fresh THEN [ledger EXCEPT ![key[r]].undeleted = @ + 1] ELSE ledger

Fault == faults < MaxFaults /\ faults' = faults + 1

\* The increment fails (Redis error, request context cancelled); ignored.
IncrementFails(r) ==
  /\ pc[r] = "increment"
  /\ Fault
  /\ AfterIncrement(r)
  /\ LoseGuess(r)
  /\ UNCHANGED <<otp, key>>

\* cache.Delete of the key, whatever document it holds now.
Delete(r, a) ==
  /\ Return(r, a)
  /\ Replace(key[r], NoDoc)
  /\ UNCHANGED <<key, faults>>

\* A delete whose error is ignored: the answer is the same.
DeleteFails(r, a) ==
  /\ Fault
  /\ Return(r, a)
  /\ fresh' = fresh \ {r}
  /\ UNCHANGED <<otp, key>>

Evict(r) == pc[r] = "evict" /\ Delete(r, "locked")

EvictFails(r) ==
  /\ pc[r] = "evict"
  /\ DeleteFails(r, "locked")
  /\ UNCHANGED ledger

\* DeleteOTP after a match (verifyAndDeleteOTP); first without the delete.
ConsumeForgotten(r) ==
  /\ pc[r] = "consume"
  /\ Return(r, "verified")
  /\ fresh' = fresh \ {r}
  /\ UNCHANGED <<otp, key, ledger, faults>>

Consume(r) == pc[r] = "consume" /\ Delete(r, "verified")

ConsumeFails(r) ==
  /\ pc[r] = "consume"
  /\ DeleteFails(r, "verified")
  /\ KeepAccepted(r)

\* The instance serving r dies: its remaining calls never happen.
Abort(r) ==
  /\ pc[r] # "idle"
  /\ Fault
  /\ Return(r, "none")
  /\ fresh' = fresh \ {r}
  /\ \/ pc[r] = "increment" /\ LoseGuess(r)
     \/ pc[r] = "consume" /\ KeepAccepted(r)
     \/ pc[r] = "evict" /\ UNCHANGED ledger
  /\ UNCHANGED <<otp, key>>

Step(r) ==
  \/ \E k \in Key : ReadNothing(r, k) \/ ReadLocked(r, k)
  \/ \E k \in Key, c \in Code : ReadWrong(r, k, c) \/ ReadRight(r, k, c)
  \/ Increment(r) \/ IncrementFails(r)
  \/ Evict(r) \/ EvictFails(r)
  \/ Consume(r) \/ ConsumeFails(r)
  \/ Abort(r)

Next ==
  \/ \E r \in Req : Step(r)
  \/ \E k \in Key : Expire(k)
  \/ \E k \in Key, c \in Code : StoreOTP(k, c)

Spec == Init /\ [][Next]_vars

-----------------------------------------------------------------------------
\* The types of the state.
TypeOK ==
  /\ otp \in [Key -> OTPData \cup {NoDoc}]
  /\ pc \in [Req -> Call]
  /\ key \in [Req -> Key]
  /\ seen \in [Req -> Nat]
  /\ result \in [Req -> Answer]
  /\ fresh \subseteq Req
  /\ ledger \in [Key -> Ledger]
  /\ faults \in 0 .. MaxFaults

\* Requests on k that judged the document k holds now and are about to call.
Pending(k, call) == {r \in fresh : pc[r] = call /\ key[r] = k}

(***************************************************************************)
(* However validations, resends, expiries and Redis errors interleave, the *)
(* retry counter of a stored document accounts for every wrong code judged *)
(* against it: what is not in the counter is an increment under way or one *)
(* that was lost, and what is too much came from requests that judged an   *)
(* earlier document.                                                       *)
(***************************************************************************)
RetryAccounting ==
  \A k \in Key : Live(k) =>
    ledger[k].guesses + ledger[k].stale =
      otp[k].retry + Cardinality(Pending(k, "increment")) + ledger[k].lost

(***************************************************************************)
(* What the retry limit of ValidateOTP really is: a document is never      *)
(* tried with more wrong codes than maxRetries - 1, one per request that   *)
(* may have read the counter before the others wrote it, and one per lost  *)
(* increment.                                                              *)
(***************************************************************************)
GuessBound ==
  \A k \in Key :
    ledger[k].guesses <= (MaxRetries - 1) + Cardinality(Req) + ledger[k].lost

(***************************************************************************)
(* No early lockout: a request about to evict the very document it read    *)
(* does so only when maxRetries wrong codes, those counted from requests   *)
(* of an earlier document included, have hit it.                           *)
(***************************************************************************)
NoEarlyLockout ==
  \A r \in fresh : pc[r] = "evict" =>
    ledger[key[r]].guesses + ledger[key[r]].stale >= MaxRetries

(***************************************************************************)
(* A code is used once up to concurrency: every validation a stored        *)
(* document has passed is either still about to delete it or failed to, so *)
(* a code that was accepted and answered for never passes again unless a   *)
(* Redis delete failed.                                                    *)
(***************************************************************************)
ReuseBound ==
  \A k \in Key : Live(k) =>
    ledger[k].accepted =
      Cardinality(Pending(k, "consume")) + ledger[k].undeleted

-----------------------------------------------------------------------------
\* docs/OTP_REDIS_INTEGRATION.md: "tối đa 5 lần nhập sai trước khi khóa (xóa
\* key)": at most maxRetries wrong codes are judged against one code.
AtMostFiveWrong == \A k \in Key : ledger[k].guesses <= MaxRetries
=============================================================================
