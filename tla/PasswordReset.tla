--------------------------- MODULE PasswordReset ---------------------------
(***************************************************************************)
(* Getting a new password: SendOTP and VerifyOTP with purpose              *)
(* "forgot-password" and ResetPassword (internal/usecase/otp.go), the      *)
(* reset tokens (pkg/auth/reset_token.go), ForgotPassword, which leaves    *)
(* all of it to Keycloak, and ChangePassword (auth_keycloak.go).           *)
(*                                                                         *)
(* The codes are those of EmailCode.  A token is named by the verification *)
(* that issued it, a password by the request that set it (None: the one of *)
(* before); the user stored with a token is the target of its verification.*)
(***************************************************************************)
EXTENDS EmailCode

CONSTANTS
  User,
  MaxMoves  \* bound: changes of a user's e-mail

ASSUME UserAssumption == None \notin User
ASSUME MoveAssumption == MaxMoves \in Nat

VARIABLES
  target,    \* request -> the user it is about to act on
  token,     \* Redis: the live reset tokens
  address,   \* Keycloak: user -> e-mail
  password,  \* Keycloak: user -> password
  \* History for the properties:
  kept,      \* tokens whose deletion failed
  aged,      \* tokens that ran out
  moves

vars == <<codeVars, target, token, address, password, kept, aged, moves>>
others == <<target, token, address, password, kept, aged, moves>>

Init ==
  /\ CodeInit
  /\ target = [r \in Req |-> None]
  /\ token = {}
  /\ address \in [User -> Email \cup {None}]
  /\ \A u, v \in User : address[u] = address[v] => u = v \/ address[u] = None
  /\ password = [u \in User |-> None]
  /\ kept = {}
  /\ aged = {}
  /\ moves = 0

-----------------------------------------------------------------------------
Codes == {c \in mailed : target[c] = None}
Links == mailed \ Codes
Issued == {r \in Req : result[r] = "issued"}
Owners(e) == {u \in User : address[u] = e}

\* SendOTP: POST /otp/send.
Send(r) ==
  /\ \E e \in Email : Begin(r, "find", e, None)
  /\ UNCHANGED others

\* VerifyOTP: POST /otp/verify, with a code that was mailed or a wrong one.
Verify(r) ==
  /\ \E e \in Email, c \in Codes \cup {None} : Begin(r, "read", e, c)
  /\ UNCHANGED others

\* ResetPassword: POST /reset-password, with a token that was issued or a wrong
\* one.
Reset(r) ==
  /\ \E t \in Issued \cup {None} : Begin(r, "read_token", None, t)
  /\ UNCHANGED others

\* ForgotPassword: POST /forgot-password.
Forgot(r) ==
  /\ \E e \in Email : Begin(r, "forgot", e, None)
  /\ UNCHANGED others

\* ChangePassword, which logs in with the same argument that it sets the
\* password of: its caller passes the user name.  The old password shown is
\* the user's or another one.
Change(r) ==
  /\ \E u \in User, p \in {password[v] : v \in User} :
       Begin(r, "login", None, p) /\ target' = [target EXCEPT ![r] = u]
  /\ UNCHANGED <<token, address, password, kept, aged, moves>>

(***************************************************************************)
(* SendOTP and VerifyOTP.                                                  *)
(***************************************************************************)
\* FindUserByEmail: a user, nobody, or an error told like nobody.
FindForSend(r) ==
  /\ pc[r] = "find"
  /\ \/ Owners(email[r]) # {} /\ Goto(r, "store") /\ NoFault
     \/ Badly(Owners(email[r]) = {}) /\ Answer(r, "unknown")
  /\ UNCHANGED <<email, input, code, mailed, others>>

\* FindUserByEmail once more: the e-mail may have another owner by now.
FindOwner(r) ==
  /\ pc[r] = "verified"
  /\ \/ /\ \E u \in Owners(email[r]) : target' = [target EXCEPT ![r] = u]
        /\ Goto(r, "generate") /\ NoFault
     \/ /\ Badly(Owners(email[r]) = {})
        /\ Answer(r, "unknown") /\ UNCHANGED target
  /\ UNCHANGED <<email, input, code, mailed, token, address, password, kept,
                 aged, moves>>

\* At most one live token per user.
OneTokenPerUser(r) ==
  /\ pc[r] = "generate"
  /\ token' = {t \in token : target[t] # target[r]} \cup {r}
  /\ Answer(r, "issued") /\ NoFault
  /\ UNCHANGED <<email, input, code, mailed, target, address, password, kept,
                 aged, moves>>

\* Generate: a token stored with the user; on an error nobody is told it.
Generate(r) ==
  /\ pc[r] = "generate"
  /\ \/ token' = token \cup {r} /\ Answer(r, "issued") /\ NoFault
     \/ token' \in {token, token \cup {r}} /\ Answer(r, "failed") /\ Fault
  /\ UNCHANGED <<email, input, code, mailed, target, address, password, kept,
                 aged, moves>>

(***************************************************************************)
(* ResetPassword and ChangePassword.                                       *)
(***************************************************************************)
\* Validate, the read.  A Redis error is told like a missing token.
ReadToken(r) ==
  /\ pc[r] = "read_token"
  /\ \/ /\ input[r] \in token
        /\ target' = [target EXCEPT ![r] = target[input[r]]]
        /\ Goto(r, "delete_token") /\ NoFault
     \/ /\ Badly(input[r] \notin token)
        /\ Answer(r, "invalid") /\ UNCHANGED target
  /\ UNCHANGED <<email, input, code, mailed, token, address, password, kept,
                 aged, moves>>

\* The token deleted under a key it is not stored under.
KeepToken(r) ==
  /\ pc[r] = "delete_token"
  /\ Goto(r, "set") /\ NoFault
  /\ UNCHANGED <<email, input, code, mailed, others>>

\* Validate, the deletion; its error is ignored.
DeleteToken(r) ==
  /\ pc[r] = "delete_token"
  /\ \/ token' = token \ {input[r]} /\ NoFault /\ UNCHANGED kept
     \/ kept' = kept \cup {input[r]} /\ Fault /\ UNCHANGED token
  /\ Goto(r, "set")
  /\ UNCHANGED <<email, input, code, mailed, target, address, password, aged, moves>>

\* A failed SetPassword reported as done.
SetIgnored(r) ==
  /\ pc[r] = "set" /\ Fault
  /\ Answer(r, "reset")
  /\ UNCHANGED <<email, input, code, mailed, others>>

\* SetPassword for the user of the token.  No admin token, a refusal or a lost
\* reply fail the reset, and the reset token is gone all the same.
SetPassword(r) ==
  /\ pc[r] = "set"
  /\ LET put == [password EXCEPT ![target[r]] = r] IN
       \/ password' = put /\ Answer(r, "reset") /\ NoFault
       \/ password' \in {password, put} /\ Answer(r, "not_reset") /\ Fault
  /\ UNCHANGED <<email, input, code, mailed, target, token, address, kept, aged, moves>>

\* Login as the user with the old password.
LoginOld(r) ==
  /\ pc[r] = "login"
  /\ \/ password[target[r]] = input[r] /\ Goto(r, "change") /\ NoFault
     \/ Badly(password[target[r]] # input[r]) /\ Answer(r, "unauthorized")
  /\ UNCHANGED <<email, input, code, mailed, others>>

\* SetPassword takes a user ID; ChangePassword gives it the user name, for
\* which Keycloak knows no user.
ChangeNew(r) ==
  /\ pc[r] = "change"
  /\ Answer(r, "not_changed")
  /\ NoFault \/ Fault
  /\ UNCHANGED <<email, input, code, mailed, others>>

(***************************************************************************)
(* ForgotPassword, and the link it has Keycloak mail.                      *)
(***************************************************************************)
\* GetUsers; whether there is such a user is not told.
FindForgotten(r) ==
  /\ pc[r] = "forgot"
  /\ \/ /\ \E u \in Owners(email[r]) : target' = [target EXCEPT ![r] = u]
        /\ Goto(r, "mail_link") /\ NoFault
     \/ Owners(email[r]) = {} /\ Answer(r, "answered") /\ NoFault /\ UNCHANGED target
     \/ Answer(r, "failed") /\ Fault /\ UNCHANGED target
  /\ UNCHANGED <<email, input, code, mailed, token, address, password, kept,
                 aged, moves>>

\* ExecuteActionsEmail for the user, to the e-mail he has by now.
MailLink(r) ==
  /\ pc[r] = "mail_link"
  /\ \/ /\ address[target[r]] # None
        /\ mailed' = mailed \cup {r}
        /\ Answer(r, "answered") /\ NoFault
     \/ /\ Badly(address[target[r]] = None)
        /\ UNCHANGED mailed /\ Answer(r, "failed")
     \/ /\ address[target[r]] # None /\ Fault
        /\ mailed' = mailed \cup {r} /\ Answer(r, "failed")
  /\ UNCHANGED <<email, input, code, others>>

-----------------------------------------------------------------------------
\* The user follows the link and sets a password in Keycloak.
FollowLink(r) ==
  /\ r \in Links
  /\ password' = [password EXCEPT ![target[r]] = r]
  /\ UNCHANGED <<codeVars, target, token, address, kept, aged, moves>>

\* The TTL of a token.
ExpireToken(t) ==
  /\ t \in token
  /\ token' = token \ {t}
  /\ aged' = aged \cup {t}
  /\ UNCHANGED <<codeVars, target, address, password, kept, moves>>

\* Elsewhere a user takes a free e-mail or drops his.
Move(u, e) ==
  /\ moves < MaxMoves
  /\ address[u] # e /\ (e # None => Owners(e) = {})
  /\ address' = [address EXCEPT ![u] = e]
  /\ moves' = moves + 1
  /\ UNCHANGED <<codeVars, target, token, password, kept, aged>>

Call(r) ==
  \/ CodeCall(r) /\ UNCHANGED others
  \/ FindForSend(r) \/ FindOwner(r) \/ Generate(r)
  \/ ReadToken(r) \/ DeleteToken(r) \/ SetPassword(r)
  \/ LoginOld(r) \/ ChangeNew(r) \/ FindForgotten(r) \/ MailLink(r)

Next ==
  \/ \E r \in Req :
       \/ Send(r) \/ Verify(r) \/ Reset(r) \/ Forgot(r) \/ Change(r)
       \/ Call(r) \/ FollowLink(r) \/ ExpireToken(r)
  \/ \E e \in Email : ExpireCode(e) /\ UNCHANGED others
  \/ \E u \in User, e \in Email \cup {None} : Move(u, e)

Spec == Init /\ [][Next]_vars

-----------------------------------------------------------------------------
\* The types of the state; a request is at its end exactly when it is answered.
TypeOK ==
  /\ CodeTypeOK({"find", "generate", "read_token", "delete_token", "set", "login",
                 "change", "forgot", "mail_link"},
                {"unknown", "issued", "reset", "not_reset", "unauthorized",
                 "not_changed", "answered"})
  /\ target \in [Req -> User \cup {None}]
  /\ token \subseteq Req /\ kept \subseteq Req /\ aged \subseteq Req
  /\ address \in [User -> Email \cup {None}]
  /\ password \in [User -> Req \cup {None}]
  /\ moves \in 0 .. MaxMoves

(***************************************************************************)
(* Whoever sets the password of a user has proved that the user's e-mail   *)
(* is his: he followed a link that was mailed to the user, or reset it     *)
(* with a token whose verification showed the code which an earlier send   *)
(* had mailed to the e-mail that the user owned at the verification.       *)
(***************************************************************************)
PasswordTraceable ==
  \A u \in User : password[u] # None =>
    LET r == password[u] IN
    LET t == input[r] IN
      /\ target[r] = u
      /\ \/ r \in Links
         \/ /\ result[t] = "issued" /\ target[t] = u
            /\ input[t] \in Codes /\ email[input[t]] = email[t]

(***************************************************************************)
(* A reset answers what is true.  "reset" is answered only for a password  *)
(* that took effect: it is in force until another reset or a link puts     *)
(* another one in its place.  A token that was issued is called invalid    *)
(* for a reason only: it ran out, a call failed, or another reset has it.  *)
(***************************************************************************)
AnswerIsTrue ==
  \A r \in Req :
    /\ result[r] = "reset" =>
         LET p == password[target[r]] IN p # None /\ target[p] = target[r]
    /\ result[r] = "invalid" /\ input[r] \in Issued /\ faults = 0 =>
         \/ input[r] \in aged
         \/ \E q \in Req \ {r} :
              input[q] = input[r] /\ (pc[q] = "set" \/ result[q] = "reset")

(***************************************************************************)
(* The reset tokens are one-time secrets: a reset is let in by the read of *)
(* Validate and crosses the token out by its deletion.                     *)
(***************************************************************************)
Past(r) == pc[r] = "set" \/ result[r] \in {"reset", "not_reset"}
Secrets ==
  INSTANCE OneTimeSecret WITH
    Client <- Req,
    Secret <- Req,
    inside <- [r \in Req |-> IF pc[r] = "delete_token" THEN input[r] ELSE None],
    used <- [r \in Req |-> IF Past(r) THEN input[r] ELSE None],
    failed <- kept,
    dead <- aged
ImplementsOneTimeSecret == Secrets!Spec

-----------------------------------------------------------------------------
\* handler/auth.go, "Change the authenticated user's password": with the right
\* old password this fails only when a call fails.
ChangeWorks == \A r \in Req : result[r] = "not_changed" => faults > 0
=============================================================================
