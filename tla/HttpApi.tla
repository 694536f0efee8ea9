------------------------------ MODULE HttpApi ------------------------------
(***************************************************************************)
(* The HTTP surface: the routes (router.go), the middleware that protects  *)
(* them (middleware/oidc.go, rbac.go), the handlers that need a token or   *)
(* hand one out (handler/auth.go, user.go, role.go, otp.go), and the calls *)
(* to Keycloak behind them (usecase/auth.go, keycloak.go,                  *)
(* auth_keycloak.go).  Registration, codes, reset tokens and social login  *)
(* have modules of their own.                                              *)
(*                                                                         *)
(* An access token is a signed copy of what Keycloak knew when it was      *)
(* issued; the service checks the copy.  A session, and the token a        *)
(* request was answered with, carry the name of the request they come      *)
(* from.  A call is two steps, what Keycloak does and what the service     *)
(* answers: others move between them, a call may fail before the first,    *)
(* and its reply may be lost before the second.                            *)
(***************************************************************************)
EXTENDS Integers, FiniteSets

CONSTANTS
  Req, User,
  FirstAdmins,  \* users that were made admin in Keycloak itself
  MaxFaults,    \* bound: failed calls and lost replies
  None          \* no request, no token, no claims

ASSUME NoneAssumption == None \notin Req
ASSUME AdminAssumption == FirstAdmins \subseteq User
ASSUME FaultAssumption == MaxFaults \in Nat

VARIABLES
  pc,       \* request -> the stage it is about to enter
  route,    \* request -> what it asks for
  bearer,   \* request -> its access token, or None for none or a forged one
  subject,  \* request -> the session or the user it is about
  claims,   \* request -> the claims the middleware put into its context
  result,   \* request -> HTTP status, 0 for none yet
  token,    \* request -> the claims of the token Keycloak issued for it
  live,     \* access tokens that have not run out
  session,  \* Keycloak: sessions that are alive
  admins,   \* Keycloak: users with realm role "admin"
  \* History for the properties:
  ever,     \* users that have been admins
  effect,   \* requests that have opened or ended a session or changed a role
  late,     \* requests that came about a session whose logout was answered 204
  faults

vars == <<pc, route, bearer, subject, claims, result, token, live, session,
          admins, ever, effect, late, faults>>
keycloak == <<token, live, session, admins, ever, effect>>

Public == {"login", "refresh", "logout", "me"}
Admin == {"list", "assign", "remove"}
Route == Public \cup Admin
\* Handlers that ask for claims: /auth/me, and /auth/password, /auth/profile and
\* the change of an e-mail by OTP, which do so in the same way.
NeedsClaims == {"me"}

Claims == [user : User, admin : BOOLEAN, session : Req]
\* None is not a record: the absence of claims is a set of its own.
NoClaims == {}
Some(x) == {x}

Init ==
  /\ pc = [r \in Req |-> "start"]
  /\ route = [r \in Req |-> "list"]
  /\ bearer = [r \in Req |-> None]
  /\ subject = [r \in Req |-> None]
  /\ claims = [r \in Req |-> NoClaims]
  /\ result = [r \in Req |-> 0]
  /\ token = [r \in Req |-> NoClaims]
  /\ live = {}
  /\ session = {}
  /\ admins = FirstAdmins
  /\ ever = FirstAdmins
  /\ effect = {}
  /\ late = {}
  /\ faults = 0

-----------------------------------------------------------------------------
Goto(r, l) == pc' = [pc EXCEPT ![r] = l] /\ UNCHANGED result
Answer(r, status) ==
  /\ pc' = [pc EXCEPT ![r] = "done"]
  /\ result' = [result EXCEPT ![r] = status]
Fault == faults < MaxFaults /\ faults' = faults + 1

\* Tokens there are, those that somebody was given, and the sessions their
\* owners can name: a session whose login got no answer is nobody's.
Issued == {q \in Req : token[q] # NoClaims}
Given == {q \in Issued : result[q] = 200}
Sessions == {q \in Given : route[q] = "login"}
LoggedOut == {subject[q] : q \in {l \in Req : route[l] = "logout" /\ result[l] = 204}}

\* What the routes can be about: a user for login and the roles, a session for
\* refresh and logout.
Subjects(p) ==
  CASE p \in {"login", "assign", "remove"} -> User
    [] p \in {"refresh", "logout"} -> Sessions \cup {None}
    [] OTHER -> {None}

\* NewRouter: the admin routes pass OIDC first, the others have no middleware.
Arrive(r) ==
  /\ pc[r] = "start"
  /\ \E p \in Route, b \in Given \cup {None} : \E s \in Subjects(p) :
       /\ route' = [route EXCEPT ![r] = p]
       /\ bearer' = [bearer EXCEPT ![r] = b]
       /\ subject' = [subject EXCEPT ![r] = s]
       /\ late' = IF p \in {"refresh", "logout"} /\ s \in LoggedOut
                  THEN late \cup {r} ELSE late
       /\ Goto(r, IF p \in Admin THEN "oidc" ELSE "handler")
  /\ UNCHANGED <<claims, keycloak, faults>>

\* ExtractBearerToken and VerifyToken: a token there is, its signature and its
\* expiry; Keycloak is not asked.
Verified(r) == bearer[r] \in live

Oidc(r) ==
  /\ pc[r] = "oidc"
  /\ IF Verified(r)
     THEN claims' = [claims EXCEPT ![r] = token[bearer[r]]] /\ Goto(r, "rbac")
     ELSE Answer(r, 401) /\ UNCHANGED claims
  /\ UNCHANGED <<route, bearer, subject, keycloak, late, faults>>

HasRealmRole(r) == \E c \in claims[r] : c.admin

\* 403 written, the chain not aborted.
RbacNoAbort(r) ==
  /\ pc[r] = "rbac"
  /\ Goto(r, "handler")
  /\ UNCHANGED <<route, bearer, subject, claims, keycloak, late, faults>>

\* RequireRealmRole("admin"), by the claims.
Rbac(r) ==
  /\ pc[r] = "rbac"
  /\ IF HasRealmRole(r) THEN Goto(r, "handler") ELSE Answer(r, 403)
  /\ UNCHANGED <<route, bearer, subject, claims, keycloak, late, faults>>

\* A body that cannot be read ends the handler with nothing written.
HandleUnanswered(r) ==
  /\ pc[r] = "handler"
  /\ Goto(r, "call") \/ Goto(r, "done")
  /\ UNCHANGED <<route, bearer, subject, claims, keycloak, late, faults>>

\* The handler: the claims it needs, the body, then the use case.
Handle(r) ==
  /\ pc[r] = "handler"
  /\ IF route[r] \in NeedsClaims
     THEN Answer(r, IF claims[r] = NoClaims THEN 401 ELSE 200)
     ELSE \/ route[r] # "list" /\ Answer(r, 400)
          \/ Goto(r, "call")
  /\ UNCHANGED <<route, bearer, subject, claims, keycloak, late, faults>>

\* A token for user u in session s.
Issue(r, u, s) ==
  /\ token' = [token EXCEPT ![r] = Some([user |-> u, admin |-> u \in admins,
                                         session |-> s])]
  /\ live' = live \cup {r}

\* What Keycloak does with a call: it grants it or refuses it.
\* Login, by the credentials.
Login(r) ==
  /\ pc[r] = "call" /\ route[r] = "login"
  /\ \/ /\ Issue(r, subject[r], r)
        /\ session' = session \cup {r}
        /\ effect' = effect \cup {r}
        /\ Goto(r, "granted")
     \/ Goto(r, "refused") /\ UNCHANGED <<token, live, session, effect>>
  /\ UNCHANGED <<route, bearer, subject, claims, admins, ever, late, faults>>

\* RefreshToken: a new token of a session that is alive.
Refresh(r) ==
  /\ pc[r] = "call" /\ route[r] = "refresh"
  /\ IF subject[r] \in session
     THEN /\ \A c \in token[subject[r]] : Issue(r, c.user, subject[r])
          /\ Goto(r, "granted")
     ELSE Goto(r, "refused") /\ UNCHANGED <<token, live>>
  /\ UNCHANGED <<route, bearer, subject, claims, session, admins, ever, effect, late,
                 faults>>

\* Logout, its error dropped.
LogoutQuietly(r) ==
  /\ pc[r] = "call" /\ route[r] = "logout"
  /\ session' \in {session, session \ {subject[r]}}
  /\ effect' = effect \cup {r}
  /\ Goto(r, "granted")
  /\ UNCHANGED <<route, bearer, subject, claims, token, live, admins, ever, late, faults>>

\* Logout: Keycloak ends the session; one it does not know it refuses.
Logout(r) ==
  /\ pc[r] = "call" /\ route[r] = "logout"
  /\ IF subject[r] \in session
     THEN /\ session' = session \ {subject[r]}
          /\ effect' = effect \cup {r}
          /\ Goto(r, "granted")
     ELSE Goto(r, "refused") /\ UNCHANGED <<session, effect>>
  /\ UNCHANGED <<route, bearer, subject, claims, token, live, admins, ever, late, faults>>

\* AssignRealmRoles, RemoveRealmRoles with role "admin", and the lists; what is
\* unknown to Keycloak is refused.
Roles(r) ==
  /\ pc[r] = "call" /\ route[r] \in Admin
  /\ \/ /\ admins' = CASE route[r] = "assign" -> admins \cup {subject[r]}
                       [] route[r] = "remove" -> admins \ {subject[r]}
                       [] OTHER -> admins
        /\ effect' = IF route[r] = "list" THEN effect ELSE effect \cup {r}
        /\ Goto(r, "granted")
     \/ Goto(r, "refused") /\ UNCHANGED <<admins, effect>>
  /\ ever' = ever \cup admins'
  /\ UNCHANGED <<route, bearer, subject, claims, token, live, session, late, faults>>

\* What a handler answers: to a call that was granted, and to one it has an error
\* from, whatever the error.
StatusOf(p) == IF p \in {"logout", "assign", "remove"} THEN 204 ELSE 200
ErrorOf(p) ==
  CASE p \in {"login", "refresh"} -> 401
    [] p = "logout" -> 400
    [] OTHER -> 502

Reply(r) ==
  /\ pc[r] \in {"granted", "refused"}
  /\ Answer(r, IF pc[r] = "granted" THEN StatusOf(route[r]) ELSE ErrorOf(route[r]))
  /\ UNCHANGED <<route, bearer, subject, claims, keycloak, late, faults>>

\* The error of a call dropped by the handler.
CallFailsQuietly(r) ==
  /\ pc[r] \in {"call", "granted"}
  /\ Fault
  /\ Answer(r, StatusOf(route[r]))
  /\ UNCHANGED <<route, bearer, subject, claims, keycloak, late>>

\* The call does not get to Keycloak, or its reply does not get back.
CallFails(r) ==
  /\ pc[r] \in {"call", "granted"}
  /\ Fault
  /\ Answer(r, ErrorOf(route[r]))
  /\ UNCHANGED <<route, bearer, subject, claims, keycloak, late>>

\* An access token runs out.
Expire(q) ==
  /\ q \in live
  /\ live' = live \ {q}
  /\ UNCHANGED <<pc, route, bearer, subject, claims, result, token, session, admins,
                 ever, effect, late, faults>>

Call(r) ==
  Login(r) \/ Refresh(r) \/ Logout(r) \/ Roles(r) \/ Reply(r) \/ CallFails(r)
Next ==
  \E r \in Req :
    Arrive(r) \/ Oidc(r) \/ Rbac(r) \/ Handle(r) \/ Call(r) \/ Expire(r)

Spec == Init /\ [][Next]_vars

-----------------------------------------------------------------------------
\* The types of the state; a request is at its end exactly when it is answered.
TypeOK ==
  /\ pc \in [Req -> {"start", "oidc", "rbac", "handler", "call", "granted", "refused", "done"}]
  /\ route \in [Req -> Route]
  /\ bearer \in [Req -> Req \cup {None}]
  /\ subject \in [Req -> User \cup Req \cup {None}]
  /\ \A r \in Req : claims[r] = NoClaims \/ \E c \in Claims : claims[r] = {c}
  /\ \A r \in Req : token[r] = NoClaims \/ \E c \in Claims : token[r] = {c}
  /\ DOMAIN claims = Req /\ DOMAIN token = Req
  /\ result \in [Req -> {0, 200, 204, 400, 401, 403, 502}]
  /\ \A r \in Req : pc[r] = "done" <=> result[r] # 0
  /\ live \subseteq Req /\ session \subseteq Req
  /\ effect \subseteq Req /\ late \subseteq Req
  /\ admins \subseteq User /\ ever \subseteq User
  /\ faults \in 0 .. MaxFaults

(***************************************************************************)
(* Admins come from admins: whoever changes a role, or reads the users,    *)
(* shows a token of a user that has been an admin, and the token still     *)
(* says so.  (Not that he is one now: a token outlives the role.)          *)
(***************************************************************************)
AdminsFromAdmins ==
  \A r \in Req : route[r] \in Admin /\ pc[r] \in {"call", "granted"} =>
    \E c \in claims[r] : c.admin /\ c.user \in ever /\ bearer[r] \in Given

(***************************************************************************)
(* An answer tells what was done.  Success of a login, a logout or a role  *)
(* change means that it has taken effect; a request the middleware turned  *)
(* away has changed nothing; and an error hides an effect only where a     *)
(* reply was lost, one reply for each: a login answered 401 that has       *)
(* opened a session, a logout answered 400 that has ended one, a role      *)
(* change answered 502 that was made.                                      *)
(***************************************************************************)
Changes == {"login", "logout", "assign", "remove"}
Hidden == {r \in effect : result[r] \in {400, 401, 403, 502}}
AnswerTellsEffect ==
  /\ \A r \in Req :
       /\ route[r] \in Changes /\ result[r] \in {200, 204} => r \in effect
       /\ route[r] \in Admin /\ result[r] \in {401, 403} => r \notin effect
  /\ Cardinality(Hidden) <= faults

(***************************************************************************)
(* A logout that is answered 204 is final: a refresh, or another logout,   *)
(* of that session that comes after the answer does not succeed.  (One     *)
(* that was under way may: Keycloak had granted it before the logout, and  *)
(* its answer, a token that works until it runs out, comes after the 204.) *)
(***************************************************************************)
LogoutFinal == \A r \in late : result[r] \notin {200, 204}

-----------------------------------------------------------------------------
\* docs/INTERGRATE.md, "GET /v1/auth-services/auth/auth/me, Auth: Bearer token
\* (JWT Keycloak)", 401 only for an invalid token: a token that is alive is let in.
BearerLetIn ==
  \A r \in Req : route[r] \in NeedsClaims /\ bearer[r] \in live => result[r] # 401
=============================================================================
