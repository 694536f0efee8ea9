---------------------------- MODULE Registration ----------------------------
(***************************************************************************)
(* Creating an account: SendOTP and VerifyOTP with purpose "register"      *)
(* (internal/usecase/otp.go), which end in RegisterWithVerifiedEmail, and  *)
(* the direct POST /register (Register), both of auth_keycloak.go.         *)
(*                                                                         *)
(* Requests are goroutines, of one or several instances, that share Redis  *)
(* (the code, the register lock) and Keycloak (the users).  One action per *)
(* remote call.  A call may fail before it takes effect, or take effect    *)
(* and lose its reply.  What a code can be tried for is the subject of     *)
(* OtpService; here a code is there or not, and is read and deleted in two *)
(* steps, as there.                                                        *)
(***************************************************************************)
EXTENDS Integers

CONSTANTS
  Req,        \* requests; each makes one call to the service
  Email, Name,
  MaxFaults,  \* bound: failed calls and crashes
  Free        \* the register lock of an e-mail is absent

ASSUME FreeAssumption == Free \notin Req
ASSUME FaultAssumption == MaxFaults \in Nat

VARIABLES
  email, name,  \* request -> what it asks for (never changes)
  pc,           \* request -> the call it is about to make
  path,         \* request -> "send", "otp" (verify) or "direct"
  result,       \* request -> its answer
  code,         \* e-mails with a register code in Redis
  lock,         \* Redis: register:lock:{email} -> who set it, or Free
  user,         \* Keycloak: creating request -> its user
  \* History for the properties:
  lapsed,       \* requests whose lock was gone before they were through
  overrun,      \* e-mails whose lock ran out under a registration
  faults

inputs == <<email, name>>
history == <<lapsed, overrun>>
vars == <<email, name, pc, path, result, code, lock, user, lapsed, overrun,
          faults>>

\* "none", or what CreateUser and SetPassword have made of it.
User == {"none", "bare", "complete"}
Result == {"none", "sent", "taken", "expired", "invalid", "busy", "failed",
           "registered", "crashed"}
\* RegisterWithVerifiedEmail, which runs under the lock, and its clean-up.
Section == {"create", "password", "login", "unlock"}
Locked(r) == path[r] = "otp" /\ pc[r] \in Section

Init ==
  /\ email \in [Req -> Email]
  /\ name \in [Req -> Name]
  /\ pc = [r \in Req |-> "start"]
  /\ path = [r \in Req |-> "none"]
  /\ result = [r \in Req |-> "none"]
  /\ code = {}
  /\ lock = [e \in Email |-> Free]
  /\ user = [r \in Req |-> "none"]
  /\ lapsed = {}
  /\ overrun = {}
  /\ faults = 0

-----------------------------------------------------------------------------
Goto(r, l) == pc' = [pc EXCEPT ![r] = l] /\ UNCHANGED result
Answer(r, a) ==
  /\ pc' = [pc EXCEPT ![r] = "done"]
  /\ result' = [result EXCEPT ![r] = a]
Fault == faults < MaxFaults /\ faults' = faults + 1

Start(r, p, l) ==
  /\ pc[r] = "start"
  /\ path' = [path EXCEPT ![r] = p]
  /\ Goto(r, l)
  /\ UNCHANGED <<inputs, code, lock, user, history, faults>>

\* Handlers of /otp/send, /otp/verify and /register.
Send(r) == Start(r, "send", "lookup")
Verify(r) == Start(r, "otp", "read")
Direct(r) == Start(r, "direct", "create")

\* Keycloak has a user with the e-mail (or, for CreateUser, the user name).
Registered(e) == \E q \in Req : user[q] # "none" /\ email[q] = e
Conflict(r) ==
  \E q \in Req : user[q] # "none" /\ (email[q] = email[r] \/ name[q] = name[r])

(***************************************************************************)
(* SendOTP with purpose "register".                                        *)
(***************************************************************************)
\* FindUserByEmail answered: refuse when it found a user.
Lookup(r) ==
  /\ pc[r] = "lookup"
  /\ IF Registered(email[r]) THEN Answer(r, "taken") ELSE Goto(r, "store")
  /\ UNCHANGED <<inputs, path, code, lock, user, history, faults>>

\* FindUserByEmail failed: err # nil is taken for "not registered".
LookupFails(r) ==
  /\ pc[r] = "lookup"
  /\ Fault
  /\ Goto(r, "store")
  /\ UNCHANGED <<inputs, path, code, lock, user, history>>

StoreCode(r) ==
  /\ pc[r] = "store"
  /\ code' = code \cup {email[r]}
  /\ Goto(r, "mail")
  /\ UNCHANGED <<inputs, path, lock, user, history, faults>>

StoreCodeFails(r) ==
  /\ pc[r] = "store"
  /\ Fault
  /\ code' \in {code, code \cup {email[r]}}
  /\ Answer(r, "failed")
  /\ UNCHANGED <<inputs, path, lock, user, history>>

\* SendOTPEmail; when it fails the stored code stays.
MailCode(r) ==
  /\ pc[r] = "mail"
  /\ \/ Answer(r, "sent") /\ UNCHANGED faults
     \/ Answer(r, "failed") /\ Fault
  /\ UNCHANGED <<inputs, path, code, lock, user, history>>

(***************************************************************************)
(* VerifyOTP with purpose "register": the code, the fields, the lock.      *)
(***************************************************************************)
\* ValidateOTP: no code in Redis, a code other than the stored one (of which
\* OtpService counts the tries), the stored one; or the read reports an error.
ReadCode(r) ==
  /\ pc[r] = "read"
  /\ \/ /\ IF email[r] \in code
           THEN Goto(r, "consume") \/ Answer(r, "invalid")
           ELSE Answer(r, "expired")
        /\ UNCHANGED faults
     \/ Answer(r, "failed") /\ Fault
  /\ UNCHANGED <<inputs, path, code, lock, user, history>>

\* The lock taken before the fields are checked, and not given back.
LockBeforeFields(r) ==
  /\ pc[r] = "consume"
  /\ code' = code \ {email[r]}
  /\ \/ Goto(r, "lock") /\ UNCHANGED lock
     \/ /\ lock[email[r]] = Free /\ lock' = [lock EXCEPT ![email[r]] = r]
        /\ Answer(r, "invalid")
  /\ UNCHANGED <<inputs, path, user, history, faults>>

\* DeleteOTP, its error ignored, then the check of the fields: a request with
\* an empty user name or a short password has spent its code.
ConsumeCode(r) ==
  /\ pc[r] = "consume"
  /\ \/ code' = code \ {email[r]} /\ UNCHANGED faults
     \/ UNCHANGED code /\ Fault
  /\ Goto(r, "lock") \/ Answer(r, "invalid")
  /\ UNCHANGED <<inputs, path, lock, user, history>>

\* The result of SetNX not looked at.
LockAnyway(r) ==
  /\ pc[r] = "lock"
  /\ lock' = [lock EXCEPT ![email[r]] = IF @ = Free THEN r ELSE @]
  /\ Goto(r, "create")
  /\ UNCHANGED <<inputs, path, code, user, history, faults>>

\* SetNX of the lock.
TakeLock(r) ==
  /\ pc[r] = "lock"
  /\ IF lock[email[r]] = Free
     THEN lock' = [lock EXCEPT ![email[r]] = r] /\ Goto(r, "create")
     ELSE UNCHANGED lock /\ Answer(r, "busy")
  /\ UNCHANGED <<inputs, path, code, user, history, faults>>

\* The pipeline reports an error; SetNX may have been done all the same.
TakeLockFails(r) ==
  /\ pc[r] = "lock"
  /\ Fault
  /\ \/ UNCHANGED lock
     \/ lock[email[r]] = Free /\ lock' = [lock EXCEPT ![email[r]] = r]
  /\ Answer(r, "failed")
  /\ UNCHANGED <<inputs, path, code, user, history>>

(***************************************************************************)
(* RegisterWithVerifiedEmail and Register.                                 *)
(***************************************************************************)
\* An error that ends the handler with nothing written.
FailUnanswered(r) == IF path[r] = "otp" THEN Goto(r, "unlock") ELSE Goto(r, "done")

\* An error return: the OTP path deletes the lock first.
Fail(r) == IF path[r] = "otp" THEN Goto(r, "unlock") ELSE Answer(r, "failed")

\* A conflict taken for a user that is there to be used.
CreateOrAdopt(r) ==
  /\ pc[r] = "create"
  /\ user' = [user EXCEPT ![r] = IF Conflict(r) THEN @ ELSE "bare"]
  /\ Goto(r, "password")
  /\ UNCHANGED <<inputs, path, code, lock, history, faults>>

CreateUser(r) ==
  /\ pc[r] = "create"
  /\ IF Conflict(r)
     THEN Fail(r) /\ UNCHANGED user
     ELSE Goto(r, "password") /\ user' = [user EXCEPT ![r] = "bare"]
  /\ UNCHANGED <<inputs, path, code, lock, history, faults>>

\* No admin token, or an error from CreateUser, which may have created it.
CreateUserFails(r) ==
  /\ pc[r] = "create"
  /\ Fault
  /\ \/ UNCHANGED user
     \/ ~Conflict(r) /\ user' = [user EXCEPT ![r] = "bare"]
  /\ Fail(r)
  /\ UNCHANGED <<inputs, path, code, lock, history>>

\* SetPassword; Register is done, the OTP path logs in.
SetPassword(r) ==
  /\ pc[r] = "password"
  /\ user' = [user EXCEPT ![r] = "complete"]
  /\ IF path[r] = "otp" THEN Goto(r, "login") ELSE Answer(r, "registered")
  /\ UNCHANGED <<inputs, path, code, lock, history, faults>>

\* The error of SetPassword dropped.
PasswordErrorDropped(r) ==
  /\ pc[r] = "password"
  /\ Fault
  /\ IF path[r] = "otp" THEN Goto(r, "login") ELSE Answer(r, "registered")
  /\ UNCHANGED <<inputs, path, code, lock, user, history>>

\* No roll-back: the user that CreateUser made stays.
SetPasswordFails(r) ==
  /\ pc[r] = "password"
  /\ Fault
  /\ user' \in {user, [user EXCEPT ![r] = "complete"]}
  /\ Fail(r)
  /\ UNCHANGED <<inputs, path, code, lock, history>>

\* Login after registration; on success the lock is left to its TTL.
LoginNew(r) ==
  /\ pc[r] = "login"
  /\ \/ Answer(r, "registered") /\ UNCHANGED faults
     \/ Fail(r) /\ Fault
  /\ UNCHANGED <<inputs, path, code, lock, user, history>>

\* The lock of e is gone: a request still at work under it, unless it is r
\* that gives it up, has lapsed.
Release(e, r) ==
  /\ lock' = [lock EXCEPT ![e] = Free]
  /\ lapsed' = lapsed \cup {q \in Req \ {r} : lock[e] = q /\ Locked(q)}

\* cache.Delete(lockKey): whoever holds the lock by now.
Unlock(r) ==
  /\ pc[r] = "unlock"
  /\ Answer(r, "failed")
  /\ Release(email[r], r)
  /\ UNCHANGED <<inputs, path, code, user, overrun, faults>>

UnlockFails(r) ==
  /\ pc[r] = "unlock"
  /\ Fault
  /\ Answer(r, "failed")
  /\ UNCHANGED <<inputs, path, code, lock, user, history>>

-----------------------------------------------------------------------------
\* The instance serving r dies.
Crash(r) ==
  /\ pc[r] \notin {"start", "done"}
  /\ Fault
  /\ Answer(r, "crashed")
  /\ UNCHANGED <<inputs, path, code, lock, user, history>>

\* The 30 s of the lock are over, perhaps before its request is.
ExpireLock(e) ==
  /\ lock[e] # Free
  /\ Release(e, Free)
  /\ overrun' = IF \E q \in Req : lock[e] = q /\ Locked(q)
                THEN overrun \cup {e} ELSE overrun
  /\ UNCHANGED <<inputs, pc, path, result, code, user, faults>>

\* The 60 s of the code are over.
ExpireCode(e) ==
  /\ e \in code
  /\ code' = code \ {e}
  /\ UNCHANGED <<inputs, pc, path, result, lock, user, history, faults>>

Begin(r) == Send(r) \/ Verify(r) \/ Direct(r)
Call(r) ==
  \/ Lookup(r) \/ LookupFails(r) \/ StoreCode(r) \/ StoreCodeFails(r) \/ MailCode(r)
  \/ ReadCode(r) \/ ConsumeCode(r) \/ TakeLock(r) \/ TakeLockFails(r)
  \/ CreateUser(r) \/ CreateUserFails(r) \/ SetPassword(r) \/ SetPasswordFails(r)
  \/ LoginNew(r) \/ Unlock(r) \/ UnlockFails(r)

Next ==
  \/ \E r \in Req : Begin(r) \/ Call(r) \/ Crash(r)
  \/ \E e \in Email : ExpireLock(e) \/ ExpireCode(e)

Spec == Init /\ [][Next]_vars

-----------------------------------------------------------------------------
\* The types of the state; a request is at its end exactly when it is answered.
TypeOK ==
  /\ email \in [Req -> Email] /\ name \in [Req -> Name]
  /\ pc \in [Req -> {"start", "lookup", "store", "mail", "read", "consume",
                     "lock", "done"} \cup Section]
  /\ path \in [Req -> {"none", "send", "otp", "direct"}]
  /\ result \in [Req -> Result]
  /\ \A r \in Req : pc[r] = "done" <=> result[r] # "none"
  /\ code \subseteq Email
  /\ lock \in [Email -> Req \cup {Free}]
  /\ user \in [Req -> User]
  /\ lapsed \subseteq Req /\ overrun \subseteq Email
  /\ faults \in 0 .. MaxFaults

(***************************************************************************)
(* The register lock works as long as its TTL does: two requests never     *)
(* register the same e-mail at the same time unless the lock of that       *)
(* e-mail has run out under one of them.  Unlocking deletes the lock of    *)
(* whoever holds it, so this needs that nobody unlocks who has not locked. *)
(***************************************************************************)
LockExcludes ==
  \A r, q \in Req :
    r # q /\ email[r] = email[q] /\ Locked(r) /\ Locked(q) =>
      email[r] \in overrun

(***************************************************************************)
(* Registration is idempotent: however requests for an e-mail or a user    *)
(* name overlap, fail and are retried, one of them at most is told that it *)
(* registered the account.                                                 *)
(***************************************************************************)
AtMostOneRegistered ==
  \A r, q \in Req :
    r # q /\ result[r] = "registered" /\ result[q] = "registered" =>
      email[r] # email[q] /\ name[r] # name[q]

(***************************************************************************)
(* A request that is told "registered" has left a user with its password;  *)
(* one that is turned away before CreateUser has left none.  A request     *)
(* that fails later may have left a user without a password, which the     *)
(* code never removes, and nobody else does.                               *)
(***************************************************************************)
AnswersTrue ==
  \A r \in Req :
    /\ result[r] = "registered" => user[r] = "complete"
    /\ user[r] = "bare" =>
         pc[r] \in {"password", "unlock"} \/ result[r] \in {"failed", "crashed"}

(***************************************************************************)
(* Nobody is told "registration in progress" for nothing, whatever fails:  *)
(* another verification for the e-mail has got past its code and its       *)
(* fields to the lock, and either registers under it still or has come to  *)
(* an end there: it registered, failed (the delete of the lock may have    *)
(* failed with it, or SetNX lost its reply) or died with its instance.     *)
(***************************************************************************)
BusyForAReason ==
  \A r \in Req : result[r] = "busy" =>
    \E q \in Req \ {r} :
      /\ email[q] = email[r] /\ path[q] = "otp"
      /\ Locked(q) \/ result[q] \in {"registered", "failed", "crashed"}
=============================================================================
