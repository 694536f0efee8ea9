----------------------------- MODULE EmailCode -----------------------------
(***************************************************************************)
(* What SendOTP and VerifyOTP (internal/usecase/otp.go) do for every       *)
(* purpose: a code is generated, stored in Redis under the e-mail, mailed, *)
(* shown, compared and deleted.  PasswordReset and Profile extend this     *)
(* module by what comes before and after it for their purpose.             *)
(*                                                                         *)
(* Requests are goroutines.  One action per remote call; a call may fail   *)
(* before it takes effect, or take effect and lose its reply.  A code is   *)
(* named by the request that generated it.  How often a code may be tried  *)
(* is the subject of OtpService.                                           *)
(***************************************************************************)
EXTENDS Integers

CONSTANTS
  Req,        \* requests; each makes one call
  Email,
  MaxFaults,  \* bound: failed calls
  None        \* no code, no e-mail; in the modules below also no user

ASSUME CodeNoneAssumption == None \notin Req \cup Email
ASSUME FaultAssumption == MaxFaults \in Nat

VARIABLES
  pc,      \* request -> the call it is about to make
  result,  \* request -> its answer
  email,   \* request -> the e-mail it is about
  input,   \* request -> the code (below also: token, password) it shows
  code,    \* Redis: e-mail -> its code
  mailed,  \* requests whose mail went out (history)
  faults

flow == <<pc, result, faults>>
codeVars == <<flow, email, input, code, mailed>>

CodeInit ==
  /\ pc = [r \in Req |-> "start"]
  /\ result = [r \in Req |-> "none"]
  /\ email = [r \in Req |-> None]
  /\ input = [r \in Req |-> None]
  /\ code = [e \in Email |-> None]
  /\ mailed = {}
  /\ faults = 0

-----------------------------------------------------------------------------
\* r goes on to the call l, or is answered a; a step that is a failed call
\* counts a fault, any other one is NoFault.  A call turns out badly because
\* of c, or because it fails; when c holds, failing makes no difference and is
\* not counted.
Goto(r, l) == pc' = [pc EXCEPT ![r] = l] /\ UNCHANGED result
Answer(r, a) ==
  /\ pc' = [pc EXCEPT ![r] = "done"]
  /\ result' = [result EXCEPT ![r] = a]
Fault == faults < MaxFaults /\ faults' = faults + 1
NoFault == UNCHANGED faults
Badly(c) == IF c THEN NoFault ELSE Fault

\* A request arrives about e, showing x; its first call is l.
Begin(r, l, e, x) ==
  /\ pc[r] = "start"
  /\ email' = [email EXCEPT ![r] = e]
  /\ input' = [input EXCEPT ![r] = x]
  /\ Goto(r, l)
  /\ NoFault
  /\ UNCHANGED <<code, mailed>>

\* GenerateOTP and StoreOTP: the new code replaces an older one.
StoreCode(r) ==
  /\ pc[r] = "store"
  /\ LET put == [code EXCEPT ![email[r]] = r] IN
       \/ code' = put /\ Goto(r, "mail") /\ NoFault
       \/ code' \in {code, put} /\ Answer(r, "failed") /\ Fault
  /\ UNCHANGED <<email, input, mailed>>

\* A failed mail that ends the handler with nothing written.
MailUnanswered(r) ==
  /\ pc[r] = "mail"
  /\ Goto(r, "done")
  /\ UNCHANGED <<faults, email, input, code, mailed>>

\* SendOTPEmail, SendEmail.  The server may have taken the mail when the end
\* of DATA fails; a code that was not mailed stays stored.  The dialogue has
\* no deadline: a request may stay here for ever.
MailCode(r) ==
  /\ pc[r] = "mail"
  /\ \/ mailed' = mailed \cup {r} /\ Answer(r, "sent") /\ NoFault
     \/ mailed' \in {mailed, mailed \cup {r}} /\ Answer(r, "failed") /\ Fault
  /\ UNCHANGED <<email, input, code>>

\* The code of the e-mail found, but not compared.
ReadAnyCode(r) ==
  /\ pc[r] = "read"
  /\ IF code[email[r]] = None THEN Answer(r, "expired") ELSE Goto(r, "consume")
  /\ UNCHANGED <<faults, email, input, code, mailed>>

\* ValidateOTP.
ReadCode(r) ==
  /\ pc[r] = "read"
  /\ \/ LET c == code[email[r]] IN
          /\ \/ c = None /\ Answer(r, "expired")
             \/ c # None /\ c = input[r] /\ Goto(r, "consume")
             \/ c # None /\ c # input[r] /\ Answer(r, "invalid")
          /\ NoFault
     \/ Answer(r, "failed") /\ Fault
  /\ UNCHANGED <<email, input, code, mailed>>

\* DeleteOTP deletes whatever code is there; its error is ignored.
ConsumeCode(r) ==
  /\ pc[r] = "consume"
  /\ \/ code' = [code EXCEPT ![email[r]] = None] /\ NoFault
     \/ code[email[r]] # None /\ UNCHANGED code /\ Fault
  /\ Goto(r, "verified")
  /\ UNCHANGED <<email, input, mailed>>

\* The TTL of a code.
ExpireCode(e) ==
  /\ code[e] # None
  /\ code' = [code EXCEPT ![e] = None]
  /\ UNCHANGED <<flow, email, input, mailed>>

CodeCall(r) == StoreCode(r) \/ MailCode(r) \/ ReadCode(r) \/ ConsumeCode(r)

-----------------------------------------------------------------------------
\* The types of the state, with the calls and answers of the extending module;
\* a request is at its end exactly when it is answered.
CodeTypeOK(calls, answers) ==
  /\ pc \in [Req -> calls \cup {"start", "store", "mail", "read", "consume",
                                "verified", "done"}]
  /\ result \in [Req -> answers \cup {"none", "sent", "expired", "invalid", "failed"}]
  /\ \A r \in Req : pc[r] = "done" <=> result[r] # "none"
  /\ email \in [Req -> Email \cup {None}]
  /\ input \in [Req -> Req \cup {None}]
  /\ code \in [Email -> Req \cup {None}]
  /\ mailed \subseteq Req
  /\ faults \in 0 .. MaxFaults
=============================================================================
