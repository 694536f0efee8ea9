-------------------------- MODULE OtpServiceProofs --------------------------
(***************************************************************************)
(* Theorems about OtpService for every number of requests, keys and codes, *)
(* every retry limit and every number of faults.                           *)
(***************************************************************************)
EXTENDS OtpService, FiniteSetTheorems, TLAPS

\* A request is fresh only while it is under way and its key is held.
FreshLive == \A r \in fresh : pc[r] # "idle" /\ Live(key[r])

\* A request that judged the present document has been counted against it.
SeenCounted ==
  \A r \in fresh :
    pc[r] = "increment" =>
      seen[r] + 1 <= ledger[key[r]].guesses + ledger[key[r]].stale

DeadBlank == \A k \in Key : ~Live(k) => ledger[k] = Blank

\* The inductive invariant.
IInv ==
  /\ TypeOK
  /\ FreshLive
  /\ DeadBlank
  /\ SeenCounted
  /\ RetryAccounting
  /\ ReuseBound
  /\ NoEarlyLockout
  /\ GuessBound

-----------------------------------------------------------------------------
\* The blank ledger is one.
LEMMA LedgerType == Blank \in Ledger
BY DEF Blank, Ledger

\* Adding one to an entry of the ledger leaves a ledger.
LEMMA EntryType ==
  ASSUME TypeOK, NEW k \in Key
  PROVE  /\ [ledger EXCEPT ![k].guesses = @ + 1] \in [Key -> Ledger]
         /\ [ledger EXCEPT ![k].stale = @ + 1] \in [Key -> Ledger]
         /\ [ledger EXCEPT ![k].lost = @ + 1] \in [Key -> Ledger]
         /\ [ledger EXCEPT ![k].accepted = @ + 1] \in [Key -> Ledger]
         /\ [ledger EXCEPT ![k].undeleted = @ + 1] \in [Key -> Ledger]
BY DEF TypeOK, Ledger

\* The types hold at the start.
LEMMA InitType == Init => TypeOK
BY LedgerType, FaultAssumption DEF Init, TypeOK, Call, Answer, OTPData

\* Every variable keeps its type in every step of the service.
LEMMA StepType == TypeOK /\ [Next]_vars => TypeOK'
<1> SUFFICES ASSUME TypeOK, [Next]_vars PROVE TypeOK'
  OBVIOUS
<1> USE LedgerType, FaultAssumption
        DEF TypeOK, OTPData, Call, Answer, Replace, Return
<1>1. ASSUME NEW k \in Key, NEW c \in Code, StoreOTP(k, c) PROVE TypeOK'
  BY <1>1 DEF StoreOTP
<1>2. ASSUME NEW k \in Key, Expire(k) PROVE TypeOK'
  BY <1>2 DEF Expire
<1>3. ASSUME NEW r \in Req, NEW k \in Key, ReadNothing(r, k) PROVE TypeOK'
  BY <1>3 DEF ReadNothing, Begin
<1>4. ASSUME NEW r \in Req, NEW k \in Key, ReadLocked(r, k) PROVE TypeOK'
  BY <1>4 DEF ReadLocked, ReadDocument, Begin, Live
<1>5. ASSUME NEW r \in Req, NEW k \in Key, NEW c \in Code, ReadWrong(r, k, c)
      PROVE  TypeOK'
  BY <1>5 DEF ReadWrong, ReadDocument, Begin, Live, Ledger
<1>6. ASSUME NEW r \in Req, NEW k \in Key, NEW c \in Code, ReadRight(r, k, c)
      PROVE  TypeOK'
  BY <1>6 DEF ReadRight, ReadDocument, Begin, Live, Ledger
<1>7. ASSUME NEW r \in Req, Increment(r) PROVE TypeOK'
  <2>1. otp' \in [Key -> OTPData \cup {NoDoc}]
    BY <1>7 DEF Increment, Live, Counted
  <2>2. ledger' \in [Key -> Ledger]
    <3>1. key[r] \in Key
      OBVIOUS
    <3>2. [ledger EXCEPT ![key[r]].stale = @ + 1] \in [Key -> Ledger]
      BY <3>1, EntryType
    <3> QED
      BY <1>7, <3>2, Zenon DEF Increment
  <2>3. /\ pc' \in [Req -> Call] /\ seen' \in [Req -> Nat]
        /\ result' \in [Req -> Answer] /\ fresh' \subseteq Req
    BY <1>7 DEF Increment, AfterIncrement
  <2> QED
    BY <1>7, <2>1, <2>2, <2>3 DEF Increment
<1>8. ASSUME NEW r \in Req, IncrementFails(r) PROVE TypeOK'
  <2>1. ledger' \in [Key -> Ledger]
    BY <1>8, EntryType DEF IncrementFails, LoseGuess
  <2>2. /\ pc' \in [Req -> Call] /\ seen' \in [Req -> Nat]
        /\ result' \in [Req -> Answer] /\ fresh' \subseteq Req
    BY <1>8 DEF IncrementFails, AfterIncrement
  <2> QED
    BY <1>8, <2>1, <2>2 DEF IncrementFails, Fault
<1>9. ASSUME NEW r \in Req, Evict(r) PROVE TypeOK'
  BY <1>9 DEF Evict, Delete
<1>10. ASSUME NEW r \in Req, EvictFails(r) PROVE TypeOK'
  BY <1>10 DEF EvictFails, DeleteFails, Fault
<1>11. ASSUME NEW r \in Req, Consume(r) PROVE TypeOK'
  BY <1>11 DEF Consume, Delete
<1>12. ASSUME NEW r \in Req, ConsumeFails(r) PROVE TypeOK'
  BY <1>12 DEF ConsumeFails, DeleteFails, Fault, KeepAccepted, Ledger
<1>13. ASSUME NEW r \in Req, Abort(r) PROVE TypeOK'
  <2>1. ledger' \in [Key -> Ledger]
    <3>1. key[r] \in Key
      OBVIOUS
    <3>2. /\ [ledger EXCEPT ![key[r]].lost = @ + 1] \in [Key -> Ledger]
          /\ [ledger EXCEPT ![key[r]].undeleted = @ + 1] \in [Key -> Ledger]
      BY <3>1, EntryType
    <3> QED
      BY <1>13, <3>2 DEF Abort, LoseGuess, KeepAccepted
  <2> QED
    BY <1>13, <2>1 DEF Abort, Fault
<1>14. CASE UNCHANGED vars
  BY <1>14 DEF vars
<1> QED
  BY <1>1, <1>2, <1>3, <1>4, <1>5, <1>6, <1>7, <1>8, <1>9, <1>10, <1>11,
     <1>12, <1>13, <1>14 DEF Next, Step

\* Type correctness of the one-time-password service.
THEOREM TypeCorrect == Spec => []TypeOK
<1>1. Init => TypeOK
  BY InitType
<1>2. TypeOK /\ [Next]_vars => TypeOK'
  BY StepType
<1> QED
  BY <1>1, <1>2, PTL DEF Spec

-----------------------------------------------------------------------------
(***************************************************************************)
(* How the requests pending on a key change with the kinds of step there   *)
(* are: a request joins them, leaves them, or the document goes away.      *)
(***************************************************************************)
LEMMA PendingFinite ==
  ASSUME TypeOK, NEW k, NEW call
  PROVE  /\ IsFiniteSet(Pending(k, call))
         /\ Cardinality(Pending(k, call)) \in Nat
         /\ Cardinality(Req) \in Nat
         /\ Cardinality(Pending(k, call)) <= Cardinality(Req)
<1>1. Pending(k, call) \subseteq Req
  BY DEF Pending, TypeOK
<1> QED
  BY <1>1, ReqAssumption, FS_Subset, FS_CardinalityType

\* A request that has read a document joins those at the call it goes to.
LEMMA Join ==
  ASSUME TypeOK, TypeOK', FreshLive, NEW r \in Req, NEW k \in Key,
         NEW call \in Call, ReadDocument(r, k, call),
         NEW j \in Key, NEW m \in {"increment", "consume"}
  PROVE  Cardinality(Pending(j, m)') =
           Cardinality(Pending(j, m)) + (IF j = k /\ m = call THEN 1 ELSE 0)
<1>1. r \notin fresh
  BY DEF ReadDocument, Begin, FreshLive
<1>2. CASE j = k /\ m = call
  <2>1. Pending(j, m)' = Pending(j, m) \cup {r}
    BY <1>1, <1>2 DEF Pending, ReadDocument, Begin, TypeOK
  <2>2. r \notin Pending(j, m)
    BY <1>1 DEF Pending
  <2> QED
    BY <1>2, <2>1, <2>2, PendingFinite, FS_AddElement
<1>3. CASE ~(j = k /\ m = call)
  <2>1. Pending(j, m)' = Pending(j, m)
    BY <1>1, <1>3 DEF Pending, ReadDocument, Begin, TypeOK
  <2> QED
    BY <1>3, <2>1, PendingFinite
<1> QED
  BY <1>2, <1>3

\* A request that has made its call leaves those who are still to make it.
LEMMA Leave ==
  ASSUME TypeOK, NEW r \in Req, NEW to \in {"idle", "evict"},
         pc' = [pc EXCEPT ![r] = to], key' = key,
         fresh' = fresh \/ fresh' = fresh \ {r},
         NEW j \in Key, NEW m \in {"increment", "consume"}
  PROVE  Cardinality(Pending(j, m)') =
           Cardinality(Pending(j, m)) - (IF r \in Pending(j, m) THEN 1 ELSE 0)
<1>1. Pending(j, m)' = Pending(j, m) \ {r}
  BY DEF Pending, TypeOK
<1>2. CASE r \in Pending(j, m)
  BY <1>1, <1>2, PendingFinite, FS_RemoveElement
<1>3. CASE r \notin Pending(j, m)
  <2>1. Pending(j, m)' = Pending(j, m)
    BY <1>1, <1>3
  <2> QED
    BY <1>3, <2>1, PendingFinite
<1> QED
  BY <1>2, <1>3

\* With another document in its place nobody is left who has read this one.
LEMMA Withdraw ==
  ASSUME TypeOK, NEW k \in Key, NEW d, Replace(k, d), key' = key,
         \A q \in Req : pc'[q] = pc[q] \/ key[q] = k,
         NEW j \in Key, NEW m
  PROVE  Pending(j, m)' = IF j = k THEN {} ELSE Pending(j, m)
BY DEF Pending, TypeOK, Replace

\* The invariant holds at the start.
LEMMA InitInv == Init => IInv
<1> SUFFICES ASSUME Init PROVE IInv
  OBVIOUS
<1>1. TypeOK
  BY InitType
<1>2. Cardinality(Req) \in Nat
  BY ReqAssumption, FS_CardinalityType
<1>3. FreshLive /\ DeadBlank /\ SeenCounted /\ NoEarlyLockout
  BY DEF Init, FreshLive, DeadBlank, SeenCounted, NoEarlyLockout, Live
<1>4. RetryAccounting /\ ReuseBound
  BY DEF Init, RetryAccounting, ReuseBound, Live
<1>5. GuessBound
  BY <1>2, RetryAssumption DEF Init, GuessBound, Blank
<1> QED
  BY <1>1, <1>3, <1>4, <1>5 DEF IInv
-----------------------------------------------------------------------------
(***************************************************************************)
(* A step that replaces or removes the document of k (a send, the TTL, a   *)
(* delete) keeps the invariant: the new document has no history, and no    *)
(* request is fresh on k any more.                                         *)
(***************************************************************************)
LEMMA ReplaceInv ==
  ASSUME IInv, TypeOK', NEW k \in Key, NEW d,
         Replace(k, d), d = NoDoc \/ d.retry = 0, key' = key,
         \A q \in Req : (pc'[q] = pc[q] /\ seen'[q] = seen[q]) \/ key[q] = k
  PROVE  IInv'
<1> USE DEF IInv
<1>1. \A j \in Key : j # k => otp'[j] = otp[j] /\ ledger'[j] = ledger[j]
  BY DEF Replace, TypeOK
<1>2. otp'[k] = d /\ ledger'[k] = Blank
  BY DEF Replace, TypeOK
<1>3. \A q \in fresh' :
        /\ q \in fresh /\ q \in Req /\ key'[q] = key[q] /\ key[q] # k
        /\ pc'[q] = pc[q] /\ seen'[q] = seen[q] /\ key[q] \in Key
  BY DEF Replace, TypeOK
<1>4. FreshLive'
  BY <1>1, <1>3 DEF FreshLive, Live
<1>5. DeadBlank'
  BY <1>1, <1>2 DEF DeadBlank, Live
<1>6. SeenCounted'
  BY <1>1, <1>3 DEF SeenCounted
<1>7. NoEarlyLockout'
  BY <1>1, <1>3 DEF NoEarlyLockout
<1>8. \A j \in Key, m \in {"increment", "consume"} :
        Pending(j, m)' = IF j = k THEN {} ELSE Pending(j, m)
  BY Withdraw
<1>9. RetryAccounting'
  <2> SUFFICES ASSUME NEW j \in Key, Live(j)'
               PROVE  ledger'[j].guesses + ledger'[j].stale =
                        otp'[j].retry + Cardinality(Pending(j, "increment")')
                        + ledger'[j].lost
    BY DEF RetryAccounting
  <2>1. CASE j = k
    <3>1. Cardinality(Pending(j, "increment")') = 0
      BY <1>8, <2>1, FS_EmptySet
    <3>2. otp'[j].retry = 0
      BY <1>2, <2>1 DEF Live
    <3> QED
      BY <1>2, <2>1, <3>1, <3>2 DEF Blank
  <2>2. CASE j # k
    BY <1>1, <1>8, <2>2 DEF RetryAccounting, Live
  <2> QED
    BY <2>1, <2>2
<1>10. ReuseBound'
  <2> SUFFICES ASSUME NEW j \in Key, Live(j)'
               PROVE  ledger'[j].accepted =
                        Cardinality(Pending(j, "consume")') + ledger'[j].undeleted
    BY DEF ReuseBound
  <2>1. CASE j = k
    <3>1. Cardinality(Pending(j, "consume")') = 0
      BY <1>8, <2>1, FS_EmptySet
    <3> QED
      BY <1>2, <2>1, <3>1 DEF Blank
  <2>2. CASE j # k
    BY <1>1, <1>8, <2>2 DEF ReuseBound, Live
  <2> QED
    BY <2>1, <2>2
<1>11. GuessBound'
  <2>1. Cardinality(Req) \in Nat
    BY ReqAssumption, FS_CardinalityType
  <2>2. 0 <= (MaxRetries - 1) + Cardinality(Req) + 0
    BY <2>1, RetryAssumption
  <2> QED
    BY <1>1, <1>2, <2>2 DEF GuessBound, Blank
<1> QED
  BY <1>4, <1>5, <1>6, <1>7, <1>9, <1>10, <1>11

\* A validation that finds no code preserves the invariant.
LEMMA ReadNothingInv ==
  ASSUME IInv, TypeOK', NEW r \in Req, NEW k \in Key, ReadNothing(r, k)
  PROVE  IInv'
<1> USE DEF IInv
<1>1. r \notin fresh
  BY DEF ReadNothing, Begin, FreshLive
<1>2. \A q \in fresh : /\ q \in Req /\ pc'[q] = pc[q] /\ key'[q] = key[q]
                        /\ seen'[q] = seen[q]
  BY <1>1 DEF ReadNothing, Begin, Return, TypeOK
<1>3. UNCHANGED <<otp, fresh, ledger>>
  BY DEF ReadNothing, Begin
<1>4. \A j \in Key, m \in Call : Pending(j, m)' = Pending(j, m)
  BY <1>2, <1>3 DEF Pending
<1>5. FreshLive' /\ SeenCounted' /\ NoEarlyLockout'
  BY <1>2, <1>3 DEF FreshLive, SeenCounted, NoEarlyLockout, Live
<1>6. RetryAccounting' /\ ReuseBound'
  BY <1>3, <1>4 DEF RetryAccounting, ReuseBound, Live, Call
<1>7. DeadBlank' /\ GuessBound'
  BY <1>3 DEF DeadBlank, GuessBound, Live
<1> QED
  BY <1>5, <1>6, <1>7
\* What reading a document changes, common to its three branches.
LEMMA ReadFrame ==
  ASSUME TypeOK, TypeOK', FreshLive, NEW r \in Req, NEW k \in Key,
         NEW call \in Call \ {"idle"}, ReadDocument(r, k, call)
  PROVE  /\ FreshLive'
         /\ key'[r] = k /\ pc'[r] = call /\ seen'[r] = otp[k].retry
         /\ otp' = otp /\ Live(k) /\ r \notin fresh /\ fresh' = fresh \cup {r}
         /\ \A q \in fresh : /\ q \in Req /\ q # r /\ pc'[q] = pc[q]
                              /\ key'[q] = key[q] /\ seen'[q] = seen[q]
         /\ otp[k].retry \in Nat
<1>1. r \notin fresh
  BY DEF ReadDocument, Begin, FreshLive
<1>2. /\ key'[r] = k /\ pc'[r] = call /\ seen'[r] = otp[k].retry
      /\ otp' = otp /\ Live(k) /\ fresh' = fresh \cup {r}
  BY DEF ReadDocument, Begin, TypeOK
<1>3. \A q \in fresh : /\ q \in Req /\ q # r /\ pc'[q] = pc[q]
                        /\ key'[q] = key[q] /\ seen'[q] = seen[q]
  BY <1>1 DEF ReadDocument, Begin, TypeOK
<1>4. FreshLive'
  BY <1>2, <1>3 DEF FreshLive, Live
<1>5. otp[k].retry \in Nat
  BY <1>2 DEF TypeOK, Live, OTPData
<1> QED
  BY <1>1, <1>2, <1>3, <1>4, <1>5

\* A validation that finds the key locked preserves the invariant.
LEMMA ReadLockedInv ==
  ASSUME IInv, TypeOK', NEW r \in Req, NEW k \in Key, ReadLocked(r, k)
  PROVE  IInv'
<1> USE DEF IInv
<1> DEFINE Frame == ReadDocument(r, k, "evict")
<1>0. Frame /\ "evict" \in Call \ {"idle"} /\ otp[k].retry >= MaxRetries /\ ledger' = ledger
  BY DEF ReadLocked, Exhausted, Call
<1>1. /\ FreshLive'
      /\ key'[r] = k /\ pc'[r] = "evict" /\ seen'[r] = otp[k].retry
      /\ otp' = otp /\ Live(k) /\ r \notin fresh /\ fresh' = fresh \cup {r}
      /\ \A q \in fresh : /\ q \in Req /\ q # r /\ pc'[q] = pc[q]
                           /\ key'[q] = key[q] /\ seen'[q] = seen[q]
      /\ otp[k].retry \in Nat
  BY <1>0, ReadFrame
<1>2. \A j \in Key, m \in {"increment", "consume"} :
        Cardinality(Pending(j, m)') = Cardinality(Pending(j, m))
  <2> TAKE j \in Key, m \in {"increment", "consume"}
  <2>1. Cardinality(Pending(j, m)') =
          Cardinality(Pending(j, m)) + (IF j = k /\ m = "evict" THEN 1 ELSE 0)
    BY <1>0, Join
  <2> QED
    BY <2>1, PendingFinite
<1>3. RetryAccounting' /\ ReuseBound'
  BY <1>0, <1>1, <1>2 DEF RetryAccounting, ReuseBound, Live
<1>4. SeenCounted'
  BY <1>0, <1>1 DEF SeenCounted
<1>5. ledger[k].guesses + ledger[k].stale >= MaxRetries
  <2>1. ledger[k].guesses + ledger[k].stale =
          otp[k].retry + Cardinality(Pending(k, "increment")) + ledger[k].lost
    BY <1>1 DEF RetryAccounting
  <2>2. ledger[k].lost \in Nat /\ Cardinality(Pending(k, "increment")) \in Nat
    BY PendingFinite DEF TypeOK, Ledger
  <2> QED
    BY <1>0, <1>1, <2>1, <2>2, RetryAssumption
<1>6. NoEarlyLockout'
  BY <1>0, <1>1, <1>5 DEF NoEarlyLockout
<1>7. DeadBlank' /\ GuessBound'
  BY <1>0, <1>1 DEF DeadBlank, GuessBound, Live
<1> QED
  BY <1>1, <1>3, <1>4, <1>6, <1>7

\* A validation with a wrong code preserves the invariant.
LEMMA ReadWrongInv ==
  ASSUME IInv, TypeOK', NEW r \in Req, NEW k \in Key, NEW c \in Code,
         ReadWrong(r, k, c)
  PROVE  IInv'
<1> USE DEF IInv
<1>0. /\ ReadDocument(r, k, "increment") /\ "increment" \in Call \ {"idle"}
      /\ otp[k].retry < MaxRetries
      /\ ledger' = [ledger EXCEPT ![k].guesses = @ + 1]
  BY RetryAssumption DEF ReadWrong, Exhausted, Call, ReadDocument, Live, TypeOK, OTPData
<1>1. /\ FreshLive'
      /\ key'[r] = k /\ pc'[r] = "increment" /\ seen'[r] = otp[k].retry
      /\ otp' = otp /\ Live(k) /\ r \notin fresh /\ fresh' = fresh \cup {r}
      /\ \A q \in fresh : /\ q \in Req /\ q # r /\ pc'[q] = pc[q]
                           /\ key'[q] = key[q] /\ seen'[q] = seen[q]
      /\ otp[k].retry \in Nat
  BY <1>0, ReadFrame
<1>2. /\ \A j \in Key : j # k => ledger'[j] = ledger[j]
      /\ ledger'[k].guesses = ledger[k].guesses + 1
      /\ ledger'[k].stale = ledger[k].stale
      /\ ledger'[k].lost = ledger[k].lost
      /\ ledger'[k].accepted = ledger[k].accepted
      /\ ledger'[k].undeleted = ledger[k].undeleted
  BY <1>0 DEF TypeOK, Ledger
<1>3. ledger[k].guesses \in Nat /\ ledger[k].stale \in Nat /\ ledger[k].lost \in Nat
  BY DEF TypeOK, Ledger
<1>4. \A j \in Key, m \in {"increment", "consume"} :
        /\ Cardinality(Pending(j, m)) \in Nat
        /\ Cardinality(Pending(j, m)') =
            Cardinality(Pending(j, m)) + (IF j = k /\ m = "increment" THEN 1 ELSE 0)
  BY <1>0, Join, PendingFinite
<1>5. RetryAccounting'
  <2> SUFFICES ASSUME NEW j \in Key, Live(j)
               PROVE  ledger'[j].guesses + ledger'[j].stale =
                        otp[j].retry + Cardinality(Pending(j, "increment")')
                        + ledger'[j].lost
    BY <1>1 DEF RetryAccounting, Live
  <2>1. ledger[j].guesses + ledger[j].stale =
          otp[j].retry + Cardinality(Pending(j, "increment")) + ledger[j].lost
    BY DEF RetryAccounting
  <2>2. CASE j = k
    BY <1>1, <1>2, <1>3, <1>4, <2>1, <2>2
  <2>3. CASE j # k
    <3>1. Cardinality(Pending(j, "increment")') = Cardinality(Pending(j, "increment"))
      BY <1>4, <2>3
    <3> QED
      BY <1>2, <2>1, <2>3, <3>1
  <2> QED
    BY <2>2, <2>3
<1>6. ReuseBound'
  <2>1. \A j \in Key : /\ ledger'[j].accepted = ledger[j].accepted
                       /\ ledger'[j].undeleted = ledger[j].undeleted
    BY <1>2
  <2>2. \A j \in Key : Cardinality(Pending(j, "consume")') =
                         Cardinality(Pending(j, "consume"))
    BY <1>4
  <2> QED
    BY <1>1, <2>1, <2>2 DEF ReuseBound, Live
<1>7. \A j \in Key : /\ ledger'[j].guesses + ledger'[j].stale >=
                            ledger[j].guesses + ledger[j].stale
                     /\ ledger[j].guesses + ledger[j].stale \in Nat
                     /\ ledger'[j].guesses + ledger'[j].stale \in Nat
  BY <1>2 DEF TypeOK, Ledger
<1>8. seen'[r] + 1 <= ledger'[k].guesses + ledger'[k].stale
  <2>1. Cardinality(Pending(k, "increment")') >= 1
    BY <1>4
  <2>2. ledger'[k].guesses + ledger'[k].stale =
          otp[k].retry + Cardinality(Pending(k, "increment")') + ledger'[k].lost
    BY <1>1, <1>5 DEF RetryAccounting, Live
  <2>3. Cardinality(Pending(k, "increment")') \in Nat
    BY <1>4
  <2> QED
    BY <1>1, <1>2, <1>3, <2>1, <2>2, <2>3
<1>9. SeenCounted'
  <2> SUFFICES ASSUME NEW q \in fresh', pc'[q] = "increment"
               PROVE  seen'[q] + 1 <= ledger'[key'[q]].guesses + ledger'[key'[q]].stale
    BY DEF SeenCounted
  <2>1. CASE q = r
    BY <1>1, <1>8, <2>1
  <2>2. CASE q # r
    <3>1. /\ q \in fresh /\ key[q] \in Key /\ seen[q] \in Nat
          /\ pc'[q] = pc[q] /\ key'[q] = key[q] /\ seen'[q] = seen[q]
      BY <1>1, <2>2 DEF TypeOK
    <3>2. seen[q] + 1 <= ledger[key[q]].guesses + ledger[key[q]].stale
      BY <3>1 DEF SeenCounted
    <3> QED
      BY <1>7, <3>1, <3>2
  <2> QED
    BY <2>1, <2>2
<1>10. NoEarlyLockout'
  <2> SUFFICES ASSUME NEW q \in fresh', pc'[q] = "evict"
               PROVE  ledger'[key'[q]].guesses + ledger'[key'[q]].stale >= MaxRetries
    BY DEF NoEarlyLockout
  <2>1. q \in fresh /\ key[q] \in Key /\ pc'[q] = pc[q] /\ key'[q] = key[q]
    BY <1>1 DEF TypeOK
  <2>2. ledger[key[q]].guesses + ledger[key[q]].stale >= MaxRetries
    BY <2>1 DEF NoEarlyLockout
  <2> QED
    BY <1>7, <2>1, <2>2, RetryAssumption
<1>11. DeadBlank'
  BY <1>1, <1>2 DEF DeadBlank, Live
<1>12. GuessBound'
  <2>1. \A j \in Key : j # k => ledger'[j] = ledger[j]
    BY <1>2
  <2>2. ledger'[k].guesses <= (MaxRetries - 1) + Cardinality(Req) + ledger'[k].lost
    <3>1. Cardinality(Pending(k, "increment")') <= Cardinality(Req)
      <4>1. Pending(k, "increment")' \subseteq Req
        BY DEF Pending, TypeOK
      <4> QED
        BY <4>1, ReqAssumption, FS_Subset
    <3>2. ledger'[k].guesses + ledger'[k].stale =
            otp[k].retry + Cardinality(Pending(k, "increment")') + ledger'[k].lost
      BY <1>1, <1>5 DEF RetryAccounting, Live
    <3>3. /\ Cardinality(Req) \in Nat
          /\ Cardinality(Pending(k, "increment")') \in Nat
      BY <1>4, ReqAssumption, FS_CardinalityType
    <3> QED
      BY <1>0, <1>1, <1>2, <1>3, <3>1, <3>2, <3>3, RetryAssumption
  <2> QED
    BY <2>1, <2>2 DEF GuessBound
<1> QED
  BY <1>1, <1>5, <1>6, <1>9, <1>10, <1>11, <1>12

\* A validation with the right code preserves the invariant.
LEMMA ReadRightInv ==
  ASSUME IInv, TypeOK', NEW r \in Req, NEW k \in Key, NEW c \in Code,
         ReadRight(r, k, c)
  PROVE  IInv'
<1> USE DEF IInv
<1>0. /\ ReadDocument(r, k, "consume") /\ "consume" \in Call \ {"idle"}
      /\ ledger' = [ledger EXCEPT ![k].accepted = @ + 1]
  BY DEF ReadRight, Call
<1>1. /\ FreshLive'
      /\ key'[r] = k /\ pc'[r] = "consume" /\ seen'[r] = otp[k].retry
      /\ otp' = otp /\ Live(k) /\ r \notin fresh /\ fresh' = fresh \cup {r}
      /\ \A q \in fresh : /\ q \in Req /\ q # r /\ pc'[q] = pc[q]
                           /\ key'[q] = key[q] /\ seen'[q] = seen[q]
      /\ otp[k].retry \in Nat
  BY <1>0, ReadFrame
<1>2. /\ \A j \in Key : /\ ledger'[j].guesses = ledger[j].guesses
                         /\ ledger'[j].stale = ledger[j].stale
                         /\ ledger'[j].lost = ledger[j].lost
                         /\ ledger'[j].undeleted = ledger[j].undeleted
      /\ \A j \in Key : j # k => ledger'[j] = ledger[j]
      /\ ledger'[k].accepted = ledger[k].accepted + 1
  BY <1>0 DEF TypeOK, Ledger
<1>3. \A j \in Key, m \in {"increment", "consume"} :
        /\ Cardinality(Pending(j, m)) \in Nat
        /\ Cardinality(Pending(j, m)') =
            Cardinality(Pending(j, m)) + (IF j = k /\ m = "consume" THEN 1 ELSE 0)
  BY <1>0, Join, PendingFinite
<1>4. RetryAccounting'
  <2>1. \A j \in Key : Cardinality(Pending(j, "increment")') =
                         Cardinality(Pending(j, "increment"))
    BY <1>3
  <2> QED
    BY <1>1, <1>2, <2>1 DEF RetryAccounting, Live
<1>5. ReuseBound'
  <2> SUFFICES ASSUME NEW j \in Key, Live(j)
               PROVE  ledger'[j].accepted =
                        Cardinality(Pending(j, "consume")') + ledger'[j].undeleted
    BY <1>1 DEF ReuseBound, Live
  <2>1. ledger[j].accepted = Cardinality(Pending(j, "consume")) + ledger[j].undeleted
    BY DEF ReuseBound
  <2>2. ledger[j].undeleted \in Nat
    BY DEF TypeOK, Ledger
  <2>3. CASE j = k
    BY <1>2, <1>3, <2>1, <2>2, <2>3
  <2>4. CASE j # k
    <3>1. Cardinality(Pending(j, "consume")') = Cardinality(Pending(j, "consume"))
      BY <1>3, <2>4
    <3> QED
      BY <1>2, <2>1, <2>4, <3>1
  <2> QED
    BY <2>3, <2>4
<1>6. SeenCounted' /\ NoEarlyLockout'
  <2>1. \A q \in fresh : key[q] \in Key
    BY DEF TypeOK
  <2> QED
    BY <1>1, <1>2, <2>1 DEF SeenCounted, NoEarlyLockout
<1>7. DeadBlank' /\ GuessBound'
  BY <1>1, <1>2 DEF DeadBlank, GuessBound, Live
<1> QED
  BY <1>1, <1>4, <1>5, <1>6, <1>7
(***************************************************************************)
(* A step in which r makes a Redis call, or never makes it, and that       *)
(* neither stores nor removes a document.  What each such step owes: the   *)
(* call of r is settled in the counter or in the ledger.                   *)
(***************************************************************************)
Settled(r, j) ==
  /\ Live(j)' <=> Live(j)
  /\ ~Live(j) => ledger'[j] = ledger[j]
  /\ ledger'[j].guesses = ledger[j].guesses
  /\ ledger'[j].accepted = ledger[j].accepted
  /\ ledger'[j].stale >= ledger[j].stale
  /\ ledger'[j].lost >= ledger[j].lost
  /\ Live(j) => (ledger'[j].stale - ledger[j].stale)
                  + (IF r \in Pending(j, "increment") THEN 1 ELSE 0)
                = (otp'[j].retry - otp[j].retry) + (ledger'[j].lost - ledger[j].lost)
  /\ ledger'[j].undeleted =
       ledger[j].undeleted + (IF r \in Pending(j, "consume") THEN 1 ELSE 0)

\* A request that is done with a call, its effects settled, preserves the invariant.
LEMMA SettleInv ==
  ASSUME IInv, TypeOK', NEW r \in Req, NEW to \in {"idle", "evict"},
         pc' = [pc EXCEPT ![r] = to], key' = key,
         \/ to = "idle" /\ fresh' = fresh \ {r}
         \/ /\ to = "evict" /\ fresh' = fresh
            /\ pc[r] = "increment" /\ seen[r] + 1 >= MaxRetries,
         \A q \in Req : q # r => seen'[q] = seen[q],
         \A j \in Key : Settled(r, j)
  PROVE  IInv'
<1> USE DEF IInv
<1>1. \A q \in fresh' :
        /\ q \in fresh /\ q \in Req /\ key'[q] = key[q] /\ key[q] \in Key
        /\ \/ /\ q # r /\ pc'[q] = pc[q] /\ seen'[q] = seen[q]
           \/ /\ q = r /\ pc'[q] = "evict" /\ pc[q] = "increment"
              /\ seen[q] + 1 >= MaxRetries
  BY DEF TypeOK
<1>2. \A j \in Key, m \in {"increment", "consume"} :
        /\ Cardinality(Pending(j, m)) \in Nat
        /\ Cardinality(Pending(j, m)') =
            Cardinality(Pending(j, m)) - (IF r \in Pending(j, m) THEN 1 ELSE 0)
  BY Leave, PendingFinite
<1>3. \A j \in Key :
        /\ ledger[j].guesses \in Nat /\ ledger[j].stale \in Nat /\ ledger[j].lost \in Nat
        /\ ledger[j].accepted \in Nat /\ ledger[j].undeleted \in Nat
        /\ ledger'[j].guesses \in Nat /\ ledger'[j].stale \in Nat
        /\ ledger'[j].lost \in Nat
  BY DEF TypeOK, Ledger
<1>4. FreshLive'
  <2> SUFFICES ASSUME NEW q \in fresh'
               PROVE  pc'[q] # "idle" /\ otp'[key'[q]] # NoDoc
    BY DEF FreshLive, Live
  <2>1. q \in fresh /\ q \in Req /\ key'[q] = key[q] /\ key[q] \in Key
    BY <1>1
  <2>2. pc[q] # "idle" /\ otp[key[q]] # NoDoc
    BY <2>1 DEF FreshLive, Live
  <2>3. otp'[key[q]] # NoDoc
    BY <2>1, <2>2 DEF Settled, Live
  <2>4. pc'[q] # "idle"
    BY <1>1, <2>2
  <2> QED
    BY <2>1, <2>3, <2>4
<1>5. DeadBlank'
  BY DEF DeadBlank, Settled
<1>6. RetryAccounting'
  <2> SUFFICES ASSUME NEW j \in Key, Live(j)'
               PROVE  ledger'[j].guesses + ledger'[j].stale =
                        otp'[j].retry + Cardinality(Pending(j, "increment")')
                        + ledger'[j].lost
    BY DEF RetryAccounting
  <2>1. /\ Live(j) /\ ledger'[j].guesses = ledger[j].guesses
        /\ (ledger'[j].stale - ledger[j].stale)
              + (IF r \in Pending(j, "increment") THEN 1 ELSE 0)
            = (otp'[j].retry - otp[j].retry) + (ledger'[j].lost - ledger[j].lost)
    BY DEF Settled
  <2>2. ledger[j].guesses + ledger[j].stale =
          otp[j].retry + Cardinality(Pending(j, "increment")) + ledger[j].lost
    BY <2>1 DEF RetryAccounting
  <2>3. otp[j].retry \in Nat /\ otp'[j].retry \in Nat
    BY <2>1 DEF TypeOK, Live, OTPData
  <2> QED
    BY <1>2, <1>3, <2>1, <2>2, <2>3
<1>7. ReuseBound'
  <2> SUFFICES ASSUME NEW j \in Key, Live(j)'
               PROVE  ledger'[j].accepted =
                        Cardinality(Pending(j, "consume")') + ledger'[j].undeleted
    BY DEF ReuseBound
  <2>1. /\ Live(j) /\ ledger'[j].accepted = ledger[j].accepted
        /\ ledger'[j].undeleted =
             ledger[j].undeleted + (IF r \in Pending(j, "consume") THEN 1 ELSE 0)
    BY DEF Settled
  <2>2. ledger[j].accepted = Cardinality(Pending(j, "consume")) + ledger[j].undeleted
    BY <2>1 DEF ReuseBound
  <2> QED
    BY <1>2, <1>3, <2>1, <2>2
<1>8. \A j \in Key : ledger'[j].guesses + ledger'[j].stale >=
                       ledger[j].guesses + ledger[j].stale
  BY <1>3 DEF Settled
<1>9. SeenCounted'
  <2> SUFFICES ASSUME NEW q \in fresh', pc'[q] = "increment"
               PROVE  seen'[q] + 1 <= ledger'[key'[q]].guesses + ledger'[key'[q]].stale
    BY DEF SeenCounted
  <2>1. /\ q # r /\ q \in fresh /\ key[q] \in Key /\ key'[q] = key[q]
        /\ pc[q] = "increment" /\ seen'[q] = seen[q] /\ seen[q] \in Nat
    BY <1>1 DEF TypeOK
  <2>2. seen[q] + 1 <= ledger[key[q]].guesses + ledger[key[q]].stale
    BY <2>1 DEF SeenCounted
  <2> QED
    BY <1>3, <1>8, <2>1, <2>2
<1>10. NoEarlyLockout'
  <2> SUFFICES ASSUME NEW q \in fresh', pc'[q] = "evict"
               PROVE  ledger'[key'[q]].guesses + ledger'[key'[q]].stale >= MaxRetries
    BY DEF NoEarlyLockout
  <2>1. q \in fresh /\ key[q] \in Key /\ key'[q] = key[q] /\ seen[q] \in Nat
    BY <1>1 DEF TypeOK
  <2>2. ledger[key[q]].guesses + ledger[key[q]].stale >= MaxRetries
    <3>1. CASE q = r
      <4>1. pc[q] = "increment" /\ seen[q] + 1 >= MaxRetries
        BY <1>1, <3>1
      <4>2. seen[q] + 1 <= ledger[key[q]].guesses + ledger[key[q]].stale
        BY <2>1, <4>1 DEF SeenCounted
      <4> QED
        BY <1>3, <2>1, <4>1, <4>2, RetryAssumption
    <3>2. CASE q # r
      BY <1>1, <2>1, <3>2 DEF NoEarlyLockout
    <3> QED
      BY <3>1, <3>2
  <2> QED
    BY <1>3, <1>8, <2>1, <2>2, RetryAssumption
<1>11. GuessBound'
  <2>1. Cardinality(Req) \in Nat
    BY ReqAssumption, FS_CardinalityType
  <2> SUFFICES ASSUME NEW j \in Key
               PROVE  ledger'[j].guesses <=
                        (MaxRetries - 1) + Cardinality(Req) + ledger'[j].lost
    BY DEF GuessBound
  <2>2. ledger[j].guesses <= (MaxRetries - 1) + Cardinality(Req) + ledger[j].lost
    BY DEF GuessBound
  <2>3. ledger'[j].guesses = ledger[j].guesses /\ ledger'[j].lost >= ledger[j].lost
    BY DEF Settled
  <2> QED
    BY <1>3, <2>1, <2>2, <2>3, RetryAssumption
<1> QED
  BY <1>4, <1>5, <1>6, <1>7, <1>9, <1>10, <1>11
\* The key of another request is settled when nothing of it changes.
LEMMA SettledElsewhere ==
  ASSUME TypeOK, NEW r \in Req, NEW j \in Key, otp'[j] = otp[j],
         ledger'[j] = ledger[j], r \notin Pending(j, "increment"),
         r \notin Pending(j, "consume")
  PROVE  Settled(r, j)
<1>1. Live(j) => otp[j].retry \in Nat
  BY DEF Live, TypeOK, OTPData
<1>2. /\ ledger[j].stale \in Nat /\ ledger[j].lost \in Nat
      /\ ledger[j].undeleted \in Nat
  BY DEF TypeOK, Ledger
<1> QED
  BY <1>1, <1>2 DEF Settled, Live

\* Where a request goes after its increment.
LEMMA AfterIncrementLeaves ==
  ASSUME TypeOK, NEW r \in Req, pc[r] = "increment", AfterIncrement(r)
  PROVE  /\ \/ /\ pc' = [pc EXCEPT ![r] = "idle"] /\ fresh' = fresh \ {r}
            \/ /\ pc' = [pc EXCEPT ![r] = "evict"] /\ fresh' = fresh
               /\ seen[r] + 1 >= MaxRetries
         /\ \A q \in Req : q # r => seen'[q] = seen[q]
BY DEF AfterIncrement, LastTry, Return, TypeOK

\* The increment preserves the invariant.
LEMMA IncrementInv ==
  ASSUME IInv, TypeOK', NEW r \in Req, Increment(r)
  PROVE  IInv'
<1> USE DEF IInv
<1>1. pc[r] = "increment" /\ AfterIncrement(r) /\ key' = key /\ key[r] \in Key
  BY DEF Increment, TypeOK
<1>2. \A j \in Key : Settled(r, j)
  <2> TAKE j \in Key
  <2>1. CASE j # key[r]
    <3>1. otp'[j] = otp[j] /\ ledger'[j] = ledger[j]
      BY <2>1 DEF Increment, TypeOK
    <3>2. r \notin Pending(j, "increment") /\ r \notin Pending(j, "consume")
      BY <2>1 DEF Pending
    <3> QED
      BY <3>1, <3>2, SettledElsewhere
  <2>2. CASE j = key[r] /\ ~Live(j)
    <3>1. otp'[j] = otp[j] /\ ledger'[j] = ledger[j]
      BY <2>2 DEF Increment
    <3>2. r \notin Pending(j, "increment") /\ r \notin Pending(j, "consume")
      BY <2>2 DEF Pending, FreshLive
    <3> QED
      BY <3>1, <3>2, SettledElsewhere
  <2>3. CASE j = key[r] /\ Live(j)
    <3>1. /\ otp[j] \in OTPData
          /\ otp' = [otp EXCEPT ![j] = Counted(@)]
          /\ ledger' = IF r \in fresh THEN ledger
                       ELSE [ledger EXCEPT ![j].stale = @ + 1]
      BY <2>3 DEF Increment, TypeOK, Live
    <3>2. /\ otp'[j] = [otp[j] EXCEPT !.retry = @ + 1]
          /\ otp[j].retry \in Nat /\ otp'[j].retry = otp[j].retry + 1
      BY <3>1 DEF TypeOK, OTPData, Counted
    <3>3. otp'[j] # NoDoc
      BY <3>1, <3>2, NoDocAssumption DEF OTPData
    <3>4. r \in Pending(j, "increment") <=> r \in fresh
      BY <1>1, <2>3 DEF Pending
    <3>5. r \notin Pending(j, "consume")
      BY <1>1 DEF Pending
    <3>6. /\ ledger[j].stale \in Nat /\ ledger[j].lost \in Nat
          /\ ledger[j].undeleted \in Nat
      BY DEF TypeOK, Ledger
    <3>7. CASE r \in fresh
      BY <2>3, <3>1, <3>2, <3>3, <3>4, <3>5, <3>6, <3>7 DEF Settled, Live
    <3>8. CASE r \notin fresh
      <4>1. /\ ledger'[j].stale = ledger[j].stale + 1
            /\ ledger'[j].guesses = ledger[j].guesses
            /\ ledger'[j].lost = ledger[j].lost
            /\ ledger'[j].accepted = ledger[j].accepted
            /\ ledger'[j].undeleted = ledger[j].undeleted
        BY <3>1, <3>8 DEF TypeOK, Ledger
      <4> QED
        BY <2>3, <3>2, <3>3, <3>4, <3>5, <3>6, <3>8, <4>1 DEF Settled, Live
    <3> QED
      BY <3>7, <3>8
  <2> QED
    BY <2>1, <2>2, <2>3
<1> QED
  BY <1>1, <1>2, AfterIncrementLeaves, SettleInv

\* A fresh guess that is lost settles its key, and so does a stale one.
LEMMA LoseGuessSettles ==
  ASSUME TypeOK, FreshLive, NEW r \in Req, pc[r] = "increment", LoseGuess(r),
         otp' = otp
  PROVE  \A j \in Key : Settled(r, j)
<1> TAKE j \in Key
<1>1. key[r] \in Key /\ r \notin Pending(j, "consume")
  BY DEF TypeOK, Pending
<1>2. CASE j = key[r] /\ r \in fresh
  <2>1. r \in Pending(j, "increment") /\ Live(j) /\ otp[j].retry \in Nat
    BY <1>2 DEF Pending, FreshLive, TypeOK, Live, OTPData
  <2>2. /\ ledger'[j].lost = ledger[j].lost + 1
        /\ ledger'[j].guesses = ledger[j].guesses
        /\ ledger'[j].stale = ledger[j].stale
        /\ ledger'[j].accepted = ledger[j].accepted
        /\ ledger'[j].undeleted = ledger[j].undeleted
    BY <1>2 DEF LoseGuess, TypeOK, Ledger
  <2>3. /\ ledger[j].stale \in Nat /\ ledger[j].lost \in Nat
        /\ ledger[j].undeleted \in Nat
    BY DEF TypeOK, Ledger
  <2> QED
    BY <1>1, <2>1, <2>2, <2>3 DEF Settled, Live
<1>3. CASE ~(j = key[r] /\ r \in fresh)
  <2>1. ledger'[j] = ledger[j]
    BY <1>1, <1>3 DEF LoseGuess, TypeOK
  <2>2. r \notin Pending(j, "increment")
    BY <1>3 DEF Pending
  <2> QED
    BY <1>1, <2>1, <2>2, SettledElsewhere
<1> QED
  BY <1>2, <1>3

\* An accepted document that stays is recorded, if it is the one accepted.
LEMMA KeepAcceptedSettles ==
  ASSUME TypeOK, FreshLive, NEW r \in Req, pc[r] = "consume", KeepAccepted(r),
         otp' = otp
  PROVE  \A j \in Key : Settled(r, j)
<1> TAKE j \in Key
<1>1. key[r] \in Key /\ r \notin Pending(j, "increment")
  BY DEF TypeOK, Pending
<1>2. CASE j = key[r] /\ r \in fresh
  <2>1. r \in Pending(j, "consume") /\ Live(j) /\ otp[j].retry \in Nat
    BY <1>2 DEF Pending, FreshLive, TypeOK, Live, OTPData
  <2>2. /\ ledger'[j].undeleted = ledger[j].undeleted + 1
        /\ ledger'[j].guesses = ledger[j].guesses
        /\ ledger'[j].stale = ledger[j].stale
        /\ ledger'[j].accepted = ledger[j].accepted
        /\ ledger'[j].lost = ledger[j].lost
    BY <1>2 DEF KeepAccepted, TypeOK, Ledger
  <2>3. /\ ledger[j].stale \in Nat /\ ledger[j].lost \in Nat
        /\ ledger[j].undeleted \in Nat
    BY DEF TypeOK, Ledger
  <2> QED
    BY <1>1, <2>1, <2>2, <2>3 DEF Settled, Live
<1>3. CASE ~(j = key[r] /\ r \in fresh)
  <2>1. ledger'[j] = ledger[j]
    BY <1>1, <1>3 DEF KeepAccepted, TypeOK
  <2>2. r \notin Pending(j, "consume")
    BY <1>3 DEF Pending
  <2> QED
    BY <1>1, <2>1, <2>2, SettledElsewhere
<1> QED
  BY <1>2, <1>3

\* Giving up an eviction owes nothing to the ledger.
LEMMA EvictSettles ==
  ASSUME TypeOK, NEW r \in Req, pc[r] = "evict", otp' = otp, ledger' = ledger
  PROVE  \A j \in Key : Settled(r, j)
BY SettledElsewhere DEF Pending
-----------------------------------------------------------------------------
(***************************************************************************)
(* The invariant is inductive: one step per action.                        *)
(***************************************************************************)
LEMMA StepInv == IInv /\ [Next]_vars => IInv'
<1> SUFFICES ASSUME IInv, [Next]_vars PROVE IInv'
  OBVIOUS
<1>0. TypeOK /\ FreshLive /\ TypeOK'
  BY StepType DEF IInv
<1>1. ASSUME NEW k \in Key, NEW c \in Code, StoreOTP(k, c) PROVE IInv'
  <2> DEFINE d == [code |-> c, retry |-> 0]
  <2>1. d.retry = 0 /\ Replace(k, d) /\ key' = key
    BY <1>1 DEF StoreOTP
  <2>2. \A q \in Req : pc'[q] = pc[q] /\ seen'[q] = seen[q]
    BY <1>1 DEF StoreOTP
  <2> HIDE DEF d
  <2> QED
    BY <1>0, <2>1, <2>2, ReplaceInv
<1>2. ASSUME NEW k \in Key, Expire(k) PROVE IInv'
  BY <1>0, <1>2, ReplaceInv DEF Expire
<1>3. ASSUME NEW r \in Req, NEW k \in Key, ReadNothing(r, k) PROVE IInv'
  BY <1>0, <1>3, ReadNothingInv
<1>4. ASSUME NEW r \in Req, NEW k \in Key, ReadLocked(r, k) PROVE IInv'
  BY <1>0, <1>4, ReadLockedInv
<1>5. ASSUME NEW r \in Req, NEW k \in Key, NEW c \in Code, ReadWrong(r, k, c)
      PROVE  IInv'
  BY <1>0, <1>5, ReadWrongInv
<1>6. ASSUME NEW r \in Req, NEW k \in Key, NEW c \in Code, ReadRight(r, k, c)
      PROVE  IInv'
  BY <1>0, <1>6, ReadRightInv
<1>7. ASSUME NEW r \in Req, Increment(r) PROVE IInv'
  BY <1>0, <1>7, IncrementInv
<1>8. ASSUME NEW r \in Req, IncrementFails(r) PROVE IInv'
  <2>1. /\ pc[r] = "increment" /\ AfterIncrement(r) /\ LoseGuess(r)
        /\ otp' = otp /\ key' = key
    BY <1>8 DEF IncrementFails
  <2>2. \A j \in Key : Settled(r, j)
    BY <1>0, <2>1, LoseGuessSettles
  <2> QED
    BY <1>0, <2>1, <2>2, AfterIncrementLeaves, SettleInv
<1>9. ASSUME NEW r \in Req, NEW a, Delete(r, a) PROVE IInv'
  <2>1. key[r] \in Key /\ Replace(key[r], NoDoc) /\ key' = key
    BY <1>0, <1>9 DEF Delete, TypeOK
  <2>2. \A q \in Req : (pc'[q] = pc[q] /\ seen'[q] = seen[q]) \/ key[q] = key[r]
    BY <1>0, <1>9 DEF Delete, Return, TypeOK
  <2> QED
    BY <1>0, <2>1, <2>2, ReplaceInv
<1>10. ASSUME NEW r \in Req, EvictFails(r) PROVE IInv'
  <2>1. /\ pc[r] = "evict" /\ pc' = [pc EXCEPT ![r] = "idle"]
        /\ fresh' = fresh \ {r} /\ otp' = otp /\ key' = key /\ ledger' = ledger
        /\ \A q \in Req : q # r => seen'[q] = seen[q]
    BY <1>0, <1>10 DEF EvictFails, DeleteFails, Return, TypeOK
  <2>2. \A j \in Key : Settled(r, j)
    BY <1>0, <2>1, EvictSettles
  <2> QED
    BY <1>0, <2>1, <2>2, SettleInv
<1>11. ASSUME NEW r \in Req, ConsumeFails(r) PROVE IInv'
  <2>1. /\ pc[r] = "consume" /\ pc' = [pc EXCEPT ![r] = "idle"]
        /\ fresh' = fresh \ {r} /\ otp' = otp /\ key' = key /\ KeepAccepted(r)
        /\ \A q \in Req : q # r => seen'[q] = seen[q]
    BY <1>0, <1>11 DEF ConsumeFails, DeleteFails, Return, TypeOK
  <2>2. \A j \in Key : Settled(r, j)
    BY <1>0, <2>1, KeepAcceptedSettles
  <2> QED
    BY <1>0, <2>1, <2>2, SettleInv
<1>12. ASSUME NEW r \in Req, Abort(r) PROVE IInv'
  <2>1. /\ pc' = [pc EXCEPT ![r] = "idle"] /\ fresh' = fresh \ {r}
        /\ otp' = otp /\ key' = key
        /\ \A q \in Req : q # r => seen'[q] = seen[q]
    BY <1>0, <1>12 DEF Abort, Return, TypeOK
  <2>2. \A j \in Key : Settled(r, j)
    BY <1>0, <1>12, <2>1, LoseGuessSettles, KeepAcceptedSettles, EvictSettles
       DEF Abort
  <2> QED
    BY <1>0, <2>1, <2>2, SettleInv
<1>13. CASE UNCHANGED vars
  BY <1>13 DEF vars, IInv, TypeOK, FreshLive, DeadBlank, SeenCounted,
     RetryAccounting, ReuseBound, NoEarlyLockout, GuessBound, Pending, Live
<1> QED
  BY <1>1, <1>2, <1>3, <1>4, <1>5, <1>6, <1>7, <1>8, <1>9, <1>10, <1>11,
     <1>12, <1>13 DEF Next, Step, Evict, Consume

\* The invariant always holds.
THEOREM Invariance == Spec => []IInv
BY InitInv, StepInv, PTL DEF Spec

\* Every document's retry counter accounts for every wrong code judged against
\* it, up to increments under way, lost, or made by stale requests.
THEOREM RetryAccountingHolds == Spec => []RetryAccounting
<1>1. IInv => RetryAccounting
  BY DEF IInv
<1> QED
  BY <1>1, Invariance, PTL

\* The true limit of the retry counter: maxRetries - 1 wrong codes, one more
\* for each concurrent request and one for each increment that was lost.
THEOREM GuessBoundHolds == Spec => []GuessBound
<1>1. IInv => GuessBound
  BY DEF IInv
<1> QED
  BY <1>1, Invariance, PTL

\* No request evicts the document it judged before maxRetries wrong codes.
THEOREM NoEarlyLockoutHolds == Spec => []NoEarlyLockout
<1>1. IInv => NoEarlyLockout
  BY DEF IInv
<1> QED
  BY <1>1, Invariance, PTL

\* A code passes again only beside a validation still deleting it, or after a
\* delete that failed.
THEOREM ReuseBoundHolds == Spec => []ReuseBound
<1>1. IInv => ReuseBound
  BY DEF IInv
<1> QED
  BY <1>1, Invariance, PTL
=============================================================================
