------------------------------ MODULE Profile ------------------------------
(***************************************************************************)
(* Changing a user's record in Keycloak: UpdateProfile and UpdateUserEmail *)
(* (auth_keycloak.go), the latter behind SendOTP and VerifyOTP with        *)
(* purpose "change-email" (usecase/otp.go), whose codes are those of       *)
(* EmailCode.  Both read the whole record, change some fields of the copy  *)
(* and write the whole copy back; nothing keeps two of them apart.         *)
(***************************************************************************)
EXTENDS EmailCode

CONSTANT User

ASSUME UserAssumption == None \notin User

VARIABLES
  user,    \* request -> whose token it carries
  ask,     \* request -> the fields it wants to have, a partial record
  copy,    \* request -> the record it has read
  record,  \* Keycloak: user -> record
  \* History for the properties:
  wrote,   \* requests whose write has been done
  prior    \* request -> the writes to the record done before it read

vars == <<codeVars, user, ask, copy, record, wrote, prior>>
others == <<user, ask, copy, record, wrote, prior>>

\* None is what a field was at the beginning; emailVerified was false.
Old == [name |-> None, email |-> None, username |-> None, verified |-> FALSE]

Init ==
  /\ CodeInit
  /\ user = [r \in Req |-> None]
  /\ ask = [r \in Req |-> <<>>]
  /\ copy = [r \in Req |-> Old]
  /\ record = [u \in User |-> Old]
  /\ wrote = {}
  /\ prior = [r \in Req |-> {}]

-----------------------------------------------------------------------------
\* UpdateProfile with a name, an e-mail, or nothing to change.  Fields are
\* handled one by one, so one at a time will do; two names are one field here.
Update(r) ==
  /\ \E u \in User, a \in {<<>>, [name |-> r]} \cup {[email |-> e] : e \in Email} :
       /\ Begin(r, "get", None, None)
       /\ user' = [user EXCEPT ![r] = u]
       /\ ask' = [ask EXCEPT ![r] = a]
  /\ UNCHANGED <<copy, record, wrote, prior>>

\* POST /otp/send for a new e-mail, or /otp/verify with a code that was mailed
\* or a wrong one; the e-mail is to be the user name too.
ChangeEmail(r) ==
  /\ \E e \in Email :
       \/ Begin(r, "find", e, None) /\ UNCHANGED <<user, ask>>
       \/ \E c \in mailed \cup {None}, u \in User \cup {None} :
            /\ Begin(r, "read", e, c)
            /\ user' = [user EXCEPT ![r] = u]
            /\ ask' = [ask EXCEPT ![r] = [email |-> e, username |-> e, verified |-> TRUE]]
  /\ UNCHANGED <<copy, record, wrote, prior>>

\* SendOTP: nobody may have the e-mail; an error is told like nobody.
FindForSend(r) ==
  /\ pc[r] = "find"
  /\ LET taken == \E u \in User : record[u].email = email[r] IN
       \/ Badly(~taken) /\ Goto(r, "store")
       \/ taken /\ NoFault /\ Answer(r, "taken")
  /\ UNCHANGED <<email, input, code, mailed, others>>

\* The admin token and GetUserByID, for a verified code only if the claims of
\* the caller name a user (afterVerifyChangeEmail); the code is gone by then.
Get(r) ==
  /\ pc[r] \in {"get", "verified"}
  /\ \/ /\ user[r] # None
        /\ copy' = [copy EXCEPT ![r] = record[user[r]]]
        /\ prior' = [prior EXCEPT ![r] = {q \in wrote : user[q] = user[r]}]
        /\ Goto(r, "put") /\ NoFault
     \/ Badly(user[r] = None) /\ Answer(r, "failed") /\ UNCHANGED <<copy, prior>>
  /\ UNCHANGED <<email, input, code, mailed, user, ask, record, wrote>>

\* The record k with the fields of the partial record a.
With(k, a) == [f \in DOMAIN k |-> IF f \in DOMAIN a THEN a[f] ELSE k[f]]

\* The copy with every field of the request, the empty ones too.
AllFields(r) == With([Old EXCEPT !.verified = copy[r].verified], ask[r])

\* The copy with the fields of the request that were sent.
Changed(r) == With(copy[r], ask[r])

\* Keycloak refuses an e-mail or a user name that another user has.
Taken(r) ==
  \E u \in User \ {user[r]} :
    \E e \in {Changed(r).email, Changed(r).username} \ {None} :
      e \in {record[u].email, record[u].username}

Write(r) ==
  /\ record' = [record EXCEPT ![user[r]] = Changed(r)]
  /\ wrote' = wrote \cup {r}

\* An error that ends the handler with nothing written.
PutUnanswered(r) ==
  /\ pc[r] = "put"
  /\ Goto(r, "done") /\ NoFault
  /\ UNCHANGED <<email, input, code, mailed, others>>

\* UpdateUser with the whole record; it is refused, or fails before or after
\* it has taken effect.  The copy ends with the handler.
Put(r) ==
  /\ pc[r] = "put"
  /\ copy' = [copy EXCEPT ![r] = Old]
  /\ \/ ~Taken(r) /\ Write(r) /\ Answer(r, "updated") /\ NoFault
     \/ Badly(Taken(r)) /\ Answer(r, "failed") /\ UNCHANGED <<record, wrote>>
     \/ ~Taken(r) /\ Write(r) /\ Answer(r, "failed") /\ Fault
  /\ UNCHANGED <<email, input, code, mailed, user, ask, prior>>

Next ==
  \/ \E r \in Req :
       \/ Update(r) \/ ChangeEmail(r) \/ FindForSend(r) \/ Get(r) \/ Put(r)
       \/ CodeCall(r) /\ UNCHANGED others
  \/ \E e \in Email : ExpireCode(e) /\ UNCHANGED others

Spec == Init /\ [][Next]_vars

-----------------------------------------------------------------------------
Record == [name : Req \cup {None}, email : Email \cup {None},
           username : Email \cup {None}, verified : BOOLEAN]

\* The types of the state; a request is at its end exactly when it is answered.
TypeOK ==
  /\ CodeTypeOK({"find", "get", "put"}, {"taken", "updated"})
  /\ user \in [Req -> User \cup {None}]
  /\ \A r \in Req : Changed(r) \in Record /\ copy[r] \in Record
  /\ record \in [User -> Record]
  /\ wrote \subseteq Req
  /\ prior \in [Req -> SUBSET Req]

(***************************************************************************)
(* An update that is answered "updated" stays in force until somebody asks *)
(* for another value of the field, or a request that had read the record   *)
(* before the update writes its old copy back.                             *)
(***************************************************************************)
LostOnlyByOverlap ==
  \A q \in Req : result[q] = "updated" =>
    \A f \in DOMAIN ask[q] : record[user[q]][f] # ask[q][f] =>
      \E r \in wrote \ {q} :
        user[r] = user[q] /\ (f \in DOMAIN ask[r] \/ q \notin prior[r])

(***************************************************************************)
(* A new e-mail is a user's name, or is marked as verified, only if the    *)
(* user has shown a code that was mailed to it; the mark may also stay     *)
(* behind from an earlier e-mail when UpdateProfile puts another one.      *)
(***************************************************************************)
ShownBy(u, e) ==
  \E r \in wrote : user[r] = u /\ email[r] = e /\ input[r] \in mailed /\ email[input[r]] = e
PutBy(u, e) ==
  \E r \in wrote :
    user[r] = u /\ email[r] = None /\ "email" \in DOMAIN ask[r] /\ ask[r].email = e
EmailShown ==
  \A u \in User :
    LET k == record[u] IN
      /\ k.username # None => ShownBy(u, k.username)
      /\ k.verified => ShownBy(u, k.email) \/ PutBy(u, k.email)
=============================================================================
