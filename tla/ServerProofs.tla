---------------------------- MODULE ServerProofs ----------------------------
(***************************************************************************)
(* Theorems about the server for any number of requests: first what its    *)
(* routes answer (HttpApi), for any users, admins and faults, then the     *)
(* process they are answered in (Lifecycle), from its start to its end.    *)
(* The two specifications have no variable in common; nothing is assumed   *)
(* of one in a theorem about the other.                                    *)
(***************************************************************************)
EXTENDS HttpApi, Lifecycle, FiniteSetTheorems, TLAPS

\* Sessions there have been, those whose login was never answered included.
Opened == {q \in Issued : route[q] = "login"}

\* A token is issued by a login, in the session it opens, or by a refresh in the
\* session of a login; it names an admin only if the user has been one.
TokensFromSessions ==
  /\ \A q \in Req : \A c \in token[q] :
       /\ pc[q] \in {"granted", "done"} /\ route[q] \in {"login", "refresh"}
       /\ c.session \in Opened /\ (c.admin => c.user \in ever)
       /\ route[q] = "login" => c.session = q
  /\ session \subseteq Opened /\ live \subseteq Issued

\* A request that has arrived brings a token somebody was given, or none, and is
\* about what its route can be about.
Carried ==
  \A r \in Req :
    /\ bearer[r] # None => bearer[r] \in Given
    /\ pc[r] # "start" => subject[r] \in Subjects(route[r])

\* What the middleware has established, by the stage a request is at.
Stages ==
  \A r \in Req :
    /\ pc[r] \in {"oidc", "rbac"} => route[r] \in Admin
    /\ route[r] \in Admin /\ pc[r] \in {"rbac", "handler", "call", "granted"} =>
         bearer[r] \in Given /\ claims[r] = token[bearer[r]]
    /\ route[r] \in Admin /\ pc[r] \in {"handler", "call", "granted"} => HasRealmRole(r)

\* A change is made when Keycloak grants it, and by nothing else.
Granted ==
  /\ \A r \in effect : pc[r] \in {"granted", "done"} /\ route[r] \in Changes
  /\ \A r \in Req : pc[r] = "granted" /\ route[r] \in Changes => r \in effect

\* A session that was ended was opened, and stays ended.
Ended == \A r \in effect : route[r] = "logout" => subject[r] \in Opened \ session

\* Whoever came too late is about an ended session and has been granted nothing.
Late ==
  \A r \in late :
    /\ route[r] \in {"refresh", "logout"} /\ subject[r] \in Opened \ session
    /\ pc[r] \notin {"start", "granted"} /\ result[r] \notin {200, 204}

EverAdmins == admins \subseteq ever

IInv ==
  /\ TypeOK
  /\ TokensFromSessions
  /\ Carried
  /\ Stages
  /\ Granted
  /\ Ended
  /\ Late
  /\ EverAdmins
  /\ AnswerTellsEffect
  /\ IsFiniteSet(Hidden)

-----------------------------------------------------------------------------
\* The invariant holds at the start.
LEMMA InitInv == Init => IInv
<1> SUFFICES ASSUME Init PROVE IInv
  OBVIOUS
<1>1. Hidden = {}
  BY DEF Init, Hidden
<1>2. IsFiniteSet(Hidden) /\ Cardinality(Hidden) = 0
  BY <1>1, FS_EmptySet
<1> QED
  BY <1>2, AdminAssumption, FaultAssumption
     DEF Init, IInv, TypeOK, TokensFromSessions, Carried, Stages, Granted, Ended, Late,
         EverAdmins, AnswerTellsEffect, Route, Public, Admin, NoClaims, Opened, Issued

\* A request has a single token, or none.
LEMMA OneToken ==
  ASSUME TypeOK, NEW q \in Issued
  PROVE  \E c \in Claims : token[q] = {c}
BY DEF TypeOK, Issued

\* Refresh by cases: the session is alive and its claims are copied, or not.
LEMMA RefreshCases ==
  ASSUME TypeOK, TokensFromSessions, NEW r \in Req, Refresh(r)
  PROVE  \/ \E c \in Claims :
              /\ token[subject[r]] = {c} /\ subject[r] \in session
              /\ Issue(r, c.user, subject[r])
              /\ Goto(r, "granted")
         \/ Goto(r, "refused") /\ UNCHANGED <<token, live>>
<1>1. CASE subject[r] \in session
  <2>1. PICK c \in Claims : token[subject[r]] = {c}
    BY <1>1, OneToken DEF TokensFromSessions, Opened
  <2>2. Issue(r, c.user, subject[r]) /\ Goto(r, "granted")
    BY <1>1, <2>1 DEF Refresh
  <2> QED
    BY <1>1, <2>1, <2>2
<1>2. CASE subject[r] \notin session
  BY <1>2 DEF Refresh
<1> QED
  BY <1>1, <1>2

\* The answer to a call: success for what was granted, and an error for the rest or
\* for what was granted and lost its reply.
Answered(r, a) ==
  /\ Answer(r, a)
  /\ UNCHANGED <<route, bearer, subject, claims, keycloak, late>>
  /\ a = 401 => route[r] \notin Admin
  /\ \/ a \in {200, 204} /\ pc[r] = "granted" /\ UNCHANGED faults
     \/ a \in {400, 401, 502} /\ pc[r] \in {"call", "refused"}
        /\ faults' \in {faults, faults + 1}
     \/ a \in {400, 401, 502} /\ pc[r] = "granted" /\ faults' = faults + 1
  /\ faults' <= MaxFaults

LEMMA AnswerCases ==
  ASSUME TypeOK, NEW r \in Req, Reply(r) \/ CallFails(r)
  PROVE  \E a \in {200, 204, 400, 401, 502} : Answered(r, a)
<1> DEFINE s == StatusOf(route[r])
           e == ErrorOf(route[r])
<1>1. s \in {200, 204} /\ e \in {400, 401, 502} /\ (e = 401 => route[r] \notin Admin)
  BY DEF StatusOf, ErrorOf, Admin
<1> USE FaultAssumption DEF TypeOK
<1>2. CASE Reply(r)
  <2>1. CASE pc[r] = "granted"
    <3>1. Answered(r, s)
      BY <1>1, <1>2, <2>1 DEF Reply, Answered, ErrorOf, StatusOf
    <3> QED
      BY <1>1, <3>1
  <2>2. CASE pc[r] = "refused"
    <3>1. Answered(r, e)
      BY <1>1, <1>2, <2>2 DEF Reply, Answered, ErrorOf, StatusOf
    <3> QED
      BY <1>1, <3>1
  <2> QED
    BY <1>2, <2>1, <2>2 DEF Reply
<1>3. CASE CallFails(r)
  <2>1. Answer(r, e) /\ pc[r] \in {"call", "granted"} /\ faults' = faults + 1
          /\ faults' <= MaxFaults
          /\ UNCHANGED <<route, bearer, subject, claims, keycloak, late>>
    BY <1>3 DEF CallFails, Fault, ErrorOf
  <2>2. Answered(r, e)
    BY <1>1, <2>1 DEF Answered
  <2> QED
    BY <1>1, <2>2
<1> QED
  BY <1>2, <1>3

\* The token Issue hands out is well-formed, the others stay.
LEMMA IssueToken ==
  ASSUME TypeOK, NEW r \in Req, NEW u \in User, NEW s \in Req, Issue(r, u, s)
  PROVE  LET c == [user |-> u, admin |-> u \in admins, session |-> s] IN
           /\ c \in Claims
           /\ token' = [token EXCEPT ![r] = {c}]
           /\ token'[r] = {c}
           /\ \A q \in Req : q # r => token'[q] = token[q]
           /\ DOMAIN token' = Req
           /\ \A q \in Req : token'[q] = NoClaims \/ \E d \in Claims : token'[q] = {d}
           /\ live' = live \cup {r}
<1> DEFINE c == [user |-> u, admin |-> u \in admins, session |-> s]
<1>1. c \in Claims
  BY DEF Claims
<1>2. token' = [token EXCEPT ![r] = {c}] /\ live' = live \cup {r}
  BY DEF Issue, Some
<1> HIDE DEF c
<1>3. DOMAIN token = Req
  BY DEF TypeOK
<1>4. /\ token'[r] = {c}
      /\ \A q \in Req : q # r => token'[q] = token[q]
      /\ DOMAIN token' = Req
  BY <1>2, <1>3
<1>5. \A q \in Req : token'[q] = NoClaims \/ \E d \in Claims : token'[q] = {d}
  BY <1>1, <1>4 DEF TypeOK
<1> QED
  BY <1>1, <1>2, <1>4, <1>5 DEF c

\* What a request is stays as it was when it arrived; what was granted stays granted
\* until it is answered, and what is answered stays as it is.
LEMMA ArrivedStays ==
  ASSUME TypeOK, TokensFromSessions, [Next]_vars, NEW q \in Req, pc[q] # "start"
  PROVE  /\ pc'[q] # "start" /\ route'[q] = route[q]
         /\ bearer'[q] = bearer[q] /\ subject'[q] = subject[q]
         /\ pc[q] = "granted" => pc'[q] \in {"granted", "done"}
         /\ pc[q] = "done" => pc'[q] = "done" /\ result'[q] = result[q]
         /\ pc[q] \in {"granted", "done"} =>
              token'[q] = token[q] /\ claims'[q] = claims[q]
<1> DEFINE Stays ==
         /\ pc'[q] # "start" /\ route'[q] = route[q]
         /\ bearer'[q] = bearer[q] /\ subject'[q] = subject[q]
         /\ pc[q] = "granted" => pc'[q] \in {"granted", "done"}
         /\ pc[q] = "done" => pc'[q] = "done" /\ result'[q] = result[q]
         /\ pc[q] \in {"granted", "done"} =>
              token'[q] = token[q] /\ claims'[q] = claims[q]
<1> SUFFICES Stays
  OBVIOUS
<1> USE DEF TypeOK, Goto, Answer, keycloak
<1>1. ASSUME NEW r \in Req, Arrive(r) PROVE Stays
  BY <1>1 DEF Arrive
<1>2. ASSUME NEW r \in Req, Oidc(r) \/ Rbac(r) \/ Handle(r) PROVE Stays
  BY <1>2 DEF Oidc, Rbac, Handle
<1>3. ASSUME NEW r \in Req, Login(r) PROVE Stays
  BY <1>3 DEF Login, Issue
<1>4. ASSUME NEW r \in Req, Refresh(r) PROVE Stays
  <2>1. \/ UNCHANGED token
        \/ \E c \in Claims : Issue(r, c.user, subject[r])
    BY <1>4, RefreshCases
  <2>2. q # r => token'[q] = token[q]
    <3>1. ASSUME NEW c \in Claims, Issue(r, c.user, subject[r]), q # r
          PROVE  token'[q] = token[q]
      BY <3>1 DEF Issue
    <3> QED
      BY <2>1, <3>1
  <2>3. \E l \in {"granted", "refused"} : Goto(r, l)
    BY <1>4, RefreshCases
  <2>4. pc[r] = "call" /\ UNCHANGED <<route, bearer, subject, claims>>
    BY <1>4 DEF Refresh
  <2> QED
    BY <2>2, <2>3, <2>4
<1>5. ASSUME NEW r \in Req, Logout(r) \/ Roles(r) \/ Expire(r) PROVE Stays
  <2>1. CASE Logout(r)
    BY <2>1 DEF Logout
  <2>2. CASE Roles(r)
    BY <2>2 DEF Roles
  <2>3. CASE Expire(r)
    BY <2>3 DEF Expire
  <2> QED
    BY <1>5, <2>1, <2>2, <2>3
<1>6. ASSUME NEW r \in Req, Reply(r) \/ CallFails(r) PROVE Stays
  <2>1. PICK a \in {200, 204, 400, 401, 502} : Answered(r, a)
    BY <1>6, AnswerCases
  <2> QED
    BY <2>1 DEF Answered
<1>7. CASE UNCHANGED vars
  BY <1>7 DEF vars
<1> QED
  BY <1>1, <1>2, <1>3, <1>4, <1>5, <1>6, <1>7 DEF Next, Call

\* How a token comes into the world: a login opens a session with it, a refresh
\* takes it from a session that is alive.
TokenFor(r, c) ==
  /\ pc[r] = "call" /\ c \in Claims
  /\ token' = [token EXCEPT ![r] = {c}] /\ live' = live \cup {r}
  /\ Goto(r, "granted")
  /\ UNCHANGED <<route, bearer, subject, claims, admins, ever, late, faults>>
  /\ c.admin => c.user \in ever
  /\ \/ /\ route[r] = "login" /\ c.session = r
        /\ session' = session \cup {r}
        /\ effect' = effect \cup {r}
     \/ /\ route[r] = "refresh" /\ subject[r] \in session /\ c.session = subject[r]
        /\ UNCHANGED <<session, effect>>

\* A login or a refresh issues a token or is refused.
LEMMA Issues ==
  ASSUME TypeOK, TokensFromSessions, Carried, EverAdmins,
         NEW r \in Req, Login(r) \/ Refresh(r)
  PROVE  \/ \E c \in Claims : TokenFor(r, c)
         \/ /\ pc[r] = "call" /\ Goto(r, "refused")
            /\ UNCHANGED <<route, bearer, subject, claims, keycloak, late, faults>>
<1>1. ASSUME Login(r), Issue(r, subject[r], r), session' = session \cup {r},
             effect' = effect \cup {r}, Goto(r, "granted")
      PROVE  \E c \in Claims : TokenFor(r, c)
  <2> DEFINE c == [user |-> subject[r], admin |-> subject[r] \in admins, session |-> r]
  <2>1. /\ pc[r] = "call" /\ route[r] = "login"
        /\ UNCHANGED <<route, bearer, subject, claims, admins, ever, late, faults>>
    BY <1>1 DEF Login
  <2>2. subject[r] \in User
    BY <2>1 DEF Carried, Subjects
  <2>3. c \in Claims /\ token' = [token EXCEPT ![r] = {c}] /\ live' = live \cup {r}
    BY <1>1, <2>2, IssueToken
  <2>4. c.session = r /\ (c.admin => c.user \in ever)
    BY DEF EverAdmins
  <2> HIDE DEF c
  <2> QED
    BY <1>1, <2>1, <2>3, <2>4 DEF TokenFor
<1>2. ASSUME NEW d \in Claims, Refresh(r), subject[r] \in session,
             Issue(r, d.user, subject[r]), Goto(r, "granted")
      PROVE  \E c \in Claims : TokenFor(r, c)
  <2> DEFINE c == [user |-> d.user, admin |-> d.user \in admins, session |-> subject[r]]
  <2>1. /\ pc[r] = "call" /\ route[r] = "refresh"
        /\ UNCHANGED <<route, bearer, subject, claims, session, admins, ever, effect,
                       late, faults>>
    BY <1>2 DEF Refresh
  <2>2. d.user \in User /\ subject[r] \in Req
    BY <1>2 DEF Claims, TypeOK
  <2>3. c \in Claims /\ token' = [token EXCEPT ![r] = {c}] /\ live' = live \cup {r}
    BY <1>2, <2>2, IssueToken
  <2>4. c.session = subject[r] /\ (c.admin => c.user \in ever)
    BY DEF EverAdmins
  <2> HIDE DEF c
  <2> QED
    BY <1>2, <2>1, <2>3, <2>4 DEF TokenFor
<1>3. CASE Login(r)
  BY <1>1, <1>3 DEF Login, keycloak
<1>4. CASE Refresh(r)
  BY <1>2, <1>4, RefreshCases DEF Refresh, keycloak
<1> QED
  BY <1>3, <1>4

\* A step leaves the tokens alone, but for ends of tokens and sessions, or is a
\* login or a refresh that issues one.
LEMMA TokenStep ==
  ASSUME TypeOK, TokensFromSessions, Carried, EverAdmins, [Next]_vars
  PROVE  \/ token' = token /\ live' \subseteq live /\ session' \subseteq session
         \/ \E r \in Req, c \in Claims : TokenFor(r, c)
<1>1. ASSUME NEW r \in Req, Arrive(r) \/ Oidc(r) \/ Rbac(r) \/ Handle(r)
      PROVE  token' = token /\ live' \subseteq live /\ session' \subseteq session
  BY <1>1 DEF Arrive, Oidc, Rbac, Handle, keycloak
<1>2. ASSUME NEW r \in Req, Login(r) \/ Refresh(r)
      PROVE  \/ token' = token /\ live' \subseteq live /\ session' \subseteq session
             \/ \E c \in Claims : TokenFor(r, c)
  BY <1>2, Issues DEF keycloak
<1>3. ASSUME NEW r \in Req, Logout(r) \/ Roles(r) \/ Expire(r)
      PROVE  token' = token /\ live' \subseteq live /\ session' \subseteq session
  BY <1>3 DEF Logout, Roles, Expire
<1>4. ASSUME NEW r \in Req, Reply(r) \/ CallFails(r)
      PROVE  token' = token /\ live' \subseteq live /\ session' \subseteq session
  BY <1>4 DEF Reply, CallFails, keycloak
<1>5. CASE UNCHANGED vars
  BY <1>5 DEF vars
<1> QED
  BY <1>1, <1>2, <1>3, <1>4, <1>5 DEF Next, Call

\* Tokens are never taken back, so what requests refer to stays there.
LEMMA TokensStay ==
  ASSUME TypeOK, TokensFromSessions, [Next]_vars
  PROVE  /\ Issued \subseteq Issued' /\ Opened \subseteq Opened'
         /\ Given \subseteq Given' /\ Sessions \subseteq Sessions'
         /\ \A q \in Issued : token'[q] = token[q]
         /\ \A p \in Route : Subjects(p) \subseteq Subjects(p)'
<1>1. ASSUME NEW q \in Issued
      PROVE  /\ token'[q] = token[q] /\ route'[q] = route[q]
             /\ result[q] = 200 => result'[q] = 200
  <2>1. q \in Req /\ pc[q] \in {"granted", "done"}
    BY OneToken DEF Issued, TokensFromSessions
  <2>2. result[q] = 200 => pc[q] = "done"
    BY <2>1 DEF TypeOK
  <2> QED
    BY <2>1, <2>2, ArrivedStays
<1>2. Issued \subseteq Issued' /\ Opened \subseteq Opened'
        /\ Given \subseteq Given' /\ Sessions \subseteq Sessions'
  BY <1>1 DEF Issued, Opened, Given, Sessions
<1> QED
  BY <1>1, <1>2 DEF Subjects

\* Every step preserves the types.
LEMMA StepType ==
  ASSUME TypeOK, TokensFromSessions, Carried, EverAdmins, [Next]_vars
  PROVE  TypeOK'
<1> USE AdminAssumption, FaultAssumption DEF TypeOK, Goto, Answer, keycloak
<1>1. ASSUME NEW r \in Req, Arrive(r) PROVE TypeOK'
  <2>1. PICK p \in Route, b \in Given \cup {None} : \E s \in Subjects(p) :
          /\ route' = [route EXCEPT ![r] = p]
          /\ bearer' = [bearer EXCEPT ![r] = b]
          /\ subject' = [subject EXCEPT ![r] = s]
          /\ late' \subseteq late \cup {r}
          /\ Goto(r, IF p \in Admin THEN "oidc" ELSE "handler")
    BY <1>1 DEF Arrive
  <2>2. Subjects(p) \subseteq User \cup Req \cup {None} /\ Given \subseteq Req
    BY DEF Subjects, Sessions, Given, Issued
  <2>3. pc' \in [Req -> {"start", "oidc", "rbac", "handler", "call", "granted", "refused",
                         "done"}]
    BY <2>1
  <2>4. \A q \in Req : pc'[q] = "done" <=> result'[q] # 0
    BY <1>1, <2>1 DEF Arrive
  <2> QED
    BY <1>1, <2>1, <2>2, <2>3, <2>4 DEF Arrive
<1>2. ASSUME NEW r \in Req, Oidc(r) PROVE TypeOK'
  <2>1. bearer[r] \in live => bearer[r] \in Issued
    BY DEF TokensFromSessions
  <2>2. /\ DOMAIN claims' = Req
        /\ \A q \in Req : claims'[q] = NoClaims \/ \E c \in Claims : claims'[q] = {c}
    <3>1. CASE Verified(r)
      <4>1. claims' = [claims EXCEPT ![r] = token[bearer[r]]]
        BY <1>2, <3>1 DEF Oidc
      <4>2. PICK c \in Claims : token[bearer[r]] = {c}
        BY <2>1, <3>1, OneToken DEF Verified
      <4> QED
        BY <4>1, <4>2
    <3>2. CASE ~Verified(r)
      BY <1>2, <3>2 DEF Oidc
    <3> QED
      BY <3>1, <3>2
  <2> QED
    BY <1>2, <2>2 DEF Oidc
<1>3. ASSUME NEW r \in Req, Rbac(r) \/ Handle(r) PROVE TypeOK'
  BY <1>3 DEF Rbac, Handle
<1>4. ASSUME NEW r \in Req, Login(r) \/ Refresh(r) PROVE TypeOK'
  <2>1. CASE /\ pc[r] = "call" /\ Goto(r, "refused")
             /\ UNCHANGED <<route, bearer, subject, claims, keycloak, late, faults>>
    BY <2>1
  <2>2. ASSUME NEW c \in Claims, TokenFor(r, c) PROVE TypeOK'
    <3>1. /\ token' = [token EXCEPT ![r] = {c}] /\ live' = live \cup {r}
          /\ session' \subseteq session \cup {r} /\ effect' \subseteq effect \cup {r}
          /\ pc[r] = "call" /\ Goto(r, "granted")
          /\ UNCHANGED <<route, bearer, subject, claims, admins, ever, late, faults>>
      BY <2>2 DEF TokenFor
    <3>2. /\ DOMAIN token' = Req
          /\ \A k \in Req : token'[k] = NoClaims \/ \E d \in Claims : token'[k] = {d}
      BY <3>1
    <3> QED
      BY <3>1, <3>2
  <2> QED
    BY <1>4, <2>1, <2>2, Issues
<1>5. ASSUME NEW r \in Req, Logout(r) PROVE TypeOK'
  BY <1>5 DEF Logout
<1>6. ASSUME NEW r \in Req, Roles(r) PROVE TypeOK'
  <2>1. route[r] \in {"assign", "remove"} => subject[r] \in User
    BY <1>6 DEF Roles, Carried, Subjects
  <2>2. admins' \subseteq User
    BY <1>6, <2>1 DEF Roles, Admin
  <2> QED
    BY <1>6, <2>2 DEF Roles
<1>7. ASSUME NEW r \in Req, Reply(r) \/ CallFails(r) PROVE TypeOK'
  <2>1. PICK a \in {200, 204, 400, 401, 502} : Answered(r, a)
    BY <1>7, AnswerCases
  <2>2. faults' \in 0 .. MaxFaults
    BY <2>1 DEF Answered
  <2> QED
    BY <2>1, <2>2 DEF Answered
<1>8. ASSUME NEW r \in Req, Expire(r) PROVE TypeOK'
  BY <1>8 DEF Expire
<1>9. CASE UNCHANGED vars
  BY <1>9 DEF vars
<1> QED
  BY <1>1, <1>2, <1>3, <1>4, <1>5, <1>6, <1>7, <1>8, <1>9 DEF Next, Call

\* Whoever has been an admin stays in "ever", and new admins get there at once.
LEMMA StepEver ==
  ASSUME TypeOK, EverAdmins, [Next]_vars
  PROVE  EverAdmins' /\ ever \subseteq ever'
<1> USE DEF EverAdmins, keycloak
<1>1. ASSUME NEW r \in Req, Arrive(r) \/ Oidc(r) \/ Rbac(r) \/ Handle(r) \/ Expire(r)
      PROVE  EverAdmins' /\ ever \subseteq ever'
  BY <1>1 DEF Arrive, Oidc, Rbac, Handle, Expire
<1>2. ASSUME NEW r \in Req, Call(r)
      PROVE  EverAdmins' /\ ever \subseteq ever'
  BY <1>2 DEF Call, Login, Refresh, Logout, Roles, Reply, CallFails
<1>3. CASE UNCHANGED vars
  BY <1>3 DEF vars
<1> QED
  BY <1>1, <1>2, <1>3 DEF Next

\* Every step preserves that tokens come from sessions.
LEMMA StepTokens ==
  ASSUME TypeOK, TokensFromSessions, Carried, EverAdmins, [Next]_vars
  PROVE  TokensFromSessions'
<1>1. ever \subseteq ever' /\ Opened \subseteq Opened' /\ Issued \subseteq Issued'
  BY StepEver, TokensStay
<1>2. ASSUME NEW q \in Req, NEW c \in token[q]
      PROVE  /\ pc'[q] \in {"granted", "done"} /\ route'[q] \in {"login", "refresh"}
             /\ c.session \in Opened' /\ (c.admin => c.user \in ever')
             /\ route'[q] = "login" => c.session = q
  <2>1. /\ pc[q] \in {"granted", "done"} /\ route[q] \in {"login", "refresh"}
        /\ c.session \in Opened /\ (c.admin => c.user \in ever)
        /\ route[q] = "login" => c.session = q
    BY <1>2 DEF TokensFromSessions
  <2> QED
    BY <1>1, <2>1, ArrivedStays
<1>3. CASE token' = token /\ live' \subseteq live /\ session' \subseteq session
  BY <1>1, <1>2, <1>3 DEF TokensFromSessions
<1>4. ASSUME NEW r \in Req, NEW c \in Claims, TokenFor(r, c)
      PROVE  TokensFromSessions'
  <2>1. pc'[r] = "granted" /\ route' = route /\ route[r] \in {"login", "refresh"}
    BY <1>4 DEF TokenFor, Goto, TypeOK
  <2>2. token'[r] = {c} /\ \A q \in Req : q # r => token'[q] = token[q]
    BY <1>4 DEF TokenFor, TypeOK
  <2>3. r \in Issued' /\ (route[r] = "login" => r \in Opened')
    BY <2>1, <2>2 DEF Issued, Opened, NoClaims
  <2>4. c.session \in Opened' /\ (c.admin => c.user \in ever')
          /\ (route[r] = "login" => c.session = r)
    BY <1>1, <1>4, <2>3 DEF TokenFor, TokensFromSessions
  <2>5. session' \subseteq Opened' /\ live' \subseteq Issued'
    BY <1>1, <1>4, <2>3 DEF TokenFor, TokensFromSessions
  <2>6. ASSUME NEW q \in Req, NEW d \in token'[q]
        PROVE  /\ pc'[q] \in {"granted", "done"} /\ route'[q] \in {"login", "refresh"}
               /\ d.session \in Opened' /\ (d.admin => d.user \in ever')
               /\ route'[q] = "login" => d.session = q
    <3>1. CASE q = r
      BY <2>1, <2>2, <2>4, <3>1
    <3>2. CASE q # r
      BY <1>2, <2>2, <3>2
    <3> QED
      BY <3>1, <3>2
  <2> QED
    BY <2>5, <2>6 DEF TokensFromSessions
<1> QED
  BY <1>3, <1>4, TokenStep

\* A request arrives in one step, with what Arrive gives it.
LEMMA Arrives ==
  ASSUME TypeOK, [Next]_vars, NEW q \in Req, pc[q] = "start", pc'[q] # "start"
  PROVE  Arrive(q)
<1> USE DEF TypeOK, Goto, Answer
<1>1. ASSUME NEW r \in Req, Arrive(r) PROVE r = q
  BY <1>1 DEF Arrive
<1>2. ASSUME NEW r \in Req, Oidc(r) \/ Rbac(r) \/ Handle(r) PROVE FALSE
  BY <1>2 DEF Oidc, Rbac, Handle
<1>3. ASSUME NEW r \in Req, Login(r) \/ Logout(r) \/ Roles(r) \/ Reply(r) \/ CallFails(r)
      PROVE  FALSE
  BY <1>3 DEF Login, Logout, Roles, Reply, CallFails, StatusOf, ErrorOf
<1>4. ASSUME NEW r \in Req, Refresh(r) PROVE FALSE
  <2>1. pc[r] = "call" /\ \E l \in {"granted", "refused"} : Goto(r, l)
    BY <1>4 DEF Refresh
  <2> QED
    BY <2>1
<1>5. ASSUME NEW r \in Req, Expire(r) PROVE FALSE
  BY <1>5 DEF Expire
<1>6. CASE UNCHANGED vars
  BY <1>6 DEF vars
<1> QED
  BY <1>1, <1>2, <1>3, <1>4, <1>5, <1>6 DEF Next, Call

\* Only an arrival makes something of a request that has not arrived.
LEMMA NotArrived ==
  ASSUME TypeOK, [Next]_vars, NEW q \in Req, pc[q] = "start", pc'[q] = "start"
  PROVE  route'[q] = route[q] /\ bearer'[q] = bearer[q] /\ subject'[q] = subject[q]
<1> USE DEF TypeOK, Goto
<1>1. ASSUME NEW r \in Req, Arrive(r)
      PROVE  route'[q] = route[q] /\ bearer'[q] = bearer[q] /\ subject'[q] = subject[q]
  <2>1. r # q
    BY <1>1 DEF Arrive
  <2> QED
    BY <1>1, <2>1 DEF Arrive
<1>2. ASSUME NEW r \in Req, Oidc(r) \/ Rbac(r) \/ Handle(r) \/ Call(r) \/ Expire(r)
      PROVE  UNCHANGED <<route, bearer, subject>>
  BY <1>2 DEF Oidc, Rbac, Handle, Call, Login, Refresh, Logout, Roles, Reply, CallFails,
              Expire
<1> QED
  BY <1>1, <1>2 DEF Next, vars

\* Every step preserves what requests bring.
LEMMA StepCarried ==
  ASSUME TypeOK, TokensFromSessions, Carried, [Next]_vars
  PROVE  Carried'
<1>1. Given \subseteq Given' /\ \A p \in Route : Subjects(p) \subseteq Subjects(p)'
  BY TokensStay
<1>2. ASSUME NEW q \in Req
      PROVE  /\ bearer'[q] # None => bearer'[q] \in Given'
             /\ pc'[q] # "start" => subject'[q] \in Subjects(route[q])'
  <2>1. CASE pc[q] # "start"
    <3>1. /\ route'[q] = route[q] /\ bearer'[q] = bearer[q] /\ subject'[q] = subject[q]
          /\ route[q] \in Route
      BY <2>1, ArrivedStays DEF TypeOK
    <3>2. /\ bearer[q] # None => bearer[q] \in Given
          /\ subject[q] \in Subjects(route[q])
      BY <2>1 DEF Carried
    <3> QED
      BY <1>1, <3>1, <3>2
  <2>2. CASE pc[q] = "start" /\ pc'[q] # "start"
    <3>1. PICK p \in Route, b \in Given \cup {None} : \E s \in Subjects(p) :
            /\ route' = [route EXCEPT ![q] = p]
            /\ bearer' = [bearer EXCEPT ![q] = b]
            /\ subject' = [subject EXCEPT ![q] = s]
      BY <2>2, Arrives DEF Arrive
    <3>2. route'[q] = p /\ bearer'[q] = b /\ subject'[q] \in Subjects(p)
      BY <3>1 DEF TypeOK
    <3> QED
      BY <1>1, <3>2
  <2>3. CASE pc[q] = "start" /\ pc'[q] = "start"
    BY <1>1, <2>3, NotArrived DEF Carried
  <2> QED
    BY <2>1, <2>2, <2>3
<1> QED
  BY <1>2 DEF Carried

\* An admin route goes through Oidc and Rbac: the claims come from the token,
\* and without the role there is no way to the handler.
LEMMA StepStages ==
  ASSUME TypeOK, TokensFromSessions, Carried, EverAdmins, Stages, [Next]_vars
  PROVE  Stages'
<1> USE DEF TypeOK, Stages, Goto, Answer, HasRealmRole, keycloak
<1>0. /\ Given \subseteq Given' /\ Given \subseteq Issued
      /\ \A q \in Given : token'[q] = token[q]
  BY TokensStay DEF Given
<1>1. ASSUME NEW r \in Req, Arrive(r) PROVE Stages'
  <2>1. PICK p \in Route : route' = [route EXCEPT ![r] = p]
          /\ Goto(r, IF p \in Admin THEN "oidc" ELSE "handler")
    BY <1>1 DEF Arrive
  <2>2. PICK b \in Given \cup {None} : bearer' = [bearer EXCEPT ![r] = b]
    BY <1>1 DEF Arrive
  <2> QED
    BY <1>0, <1>1, <2>1, <2>2 DEF Arrive
<1>2. ASSUME NEW r \in Req, Oidc(r) PROVE Stages'
  <2>1. bearer[r] \in live => bearer[r] # None /\ bearer[r] \in Given
    BY NoneAssumption DEF Carried
  <2> QED
    BY <1>0, <1>2, <2>1 DEF Oidc, Verified
<1>3. ASSUME NEW r \in Req, Rbac(r) PROVE Stages'
  BY <1>0, <1>3 DEF Rbac
<1>4. ASSUME NEW r \in Req, Handle(r) PROVE Stages'
  BY <1>0, <1>4 DEF Handle
<1>5. ASSUME NEW r \in Req, Login(r) \/ Refresh(r) PROVE Stages'
  <2>1. pc[r] = "call" /\ \E l \in {"granted", "refused"} : Goto(r, l)
    BY <1>5, Issues DEF TokenFor
  <2>2. UNCHANGED <<route, bearer, claims>>
    BY <1>5 DEF Login, Refresh
  <2> QED
    BY <1>0, <2>1, <2>2
<1>6. ASSUME NEW r \in Req, Logout(r) PROVE Stages'
  BY <1>0, <1>6 DEF Logout
<1>7. ASSUME NEW r \in Req, Roles(r) PROVE Stages'
  BY <1>0, <1>7 DEF Roles
<1>8. ASSUME NEW r \in Req, Reply(r) \/ CallFails(r) PROVE Stages'
  <2>1. PICK a \in {200, 204, 400, 401, 502} : Answered(r, a)
    BY <1>8, AnswerCases
  <2> QED
    BY <1>0, <2>1 DEF Answered
<1>9. ASSUME NEW r \in Req, Expire(r) PROVE Stages'
  BY <1>0, <1>9 DEF Expire
<1>10. CASE UNCHANGED vars
  BY <1>0, <1>10 DEF vars
<1> QED
  BY <1>1, <1>2, <1>3, <1>4, <1>5, <1>6, <1>7, <1>8, <1>9, <1>10 DEF Next, Call

\* Every step preserves that changes are what was granted.
LEMMA StepGranted ==
  ASSUME TypeOK, TokensFromSessions, Carried, EverAdmins, Granted, [Next]_vars
  PROVE  Granted'
<1> USE DEF TypeOK, Granted, Changes, Goto, Answer, keycloak
<1>1. ASSUME NEW r \in Req, Arrive(r) PROVE Granted'
  BY <1>1 DEF Arrive
<1>2. ASSUME NEW r \in Req, Oidc(r) \/ Rbac(r) \/ Handle(r) PROVE Granted'
  BY <1>2 DEF Oidc, Rbac, Handle
<1>3. ASSUME NEW r \in Req, Login(r) \/ Refresh(r) PROVE Granted'
  <2>1. ASSUME NEW c \in Claims, TokenFor(r, c) PROVE Granted'
    BY <2>1 DEF TokenFor
  <2> QED
    BY <1>3, <2>1, Issues
<1>4. ASSUME NEW r \in Req, Logout(r) PROVE Granted'
  BY <1>4 DEF Logout
<1>5. ASSUME NEW r \in Req, Roles(r) PROVE Granted'
  BY <1>5 DEF Roles, Admin
<1>6. ASSUME NEW r \in Req, Reply(r) \/ CallFails(r) PROVE Granted'
  <2>1. PICK a \in {200, 204, 400, 401, 502} : Answered(r, a)
    BY <1>6, AnswerCases
  <2> QED
    BY <2>1 DEF Answered
<1>7. ASSUME NEW r \in Req, Expire(r) PROVE Granted'
  BY <1>7 DEF Expire
<1>8. CASE UNCHANGED vars
  BY <1>8 DEF vars
<1> QED
  BY <1>1, <1>2, <1>3, <1>4, <1>5, <1>6, <1>7, <1>8 DEF Next, Call

\* A session that is over stays over: a login opens one of its own.
LEMMA OverStays ==
  ASSUME TypeOK, TokensFromSessions, Carried, EverAdmins, [Next]_vars
  PROVE  Opened \ session \subseteq Opened' \ session'
<1>1. Opened \subseteq Opened'
  BY TokensStay
<1>2. CASE session' \subseteq session
  BY <1>1, <1>2
<1>3. ASSUME NEW r \in Req, NEW c \in Claims, TokenFor(r, c), session' = session \cup {r}
      PROVE  Opened \ session \subseteq Opened' \ session'
  <2>1. r \notin Opened
    BY <1>3, OneToken DEF TokenFor, Opened, TokensFromSessions
  <2> QED
    BY <1>1, <1>3, <2>1
<1> QED
  BY <1>2, <1>3, TokenStep DEF TokenFor

\* What a step changes of the sessions and roles is one request's doing.
LEMMA Effects ==
  ASSUME TypeOK, TokensFromSessions, Carried, EverAdmins, [Next]_vars
  PROVE  \/ effect' = effect
         \/ \E r \in Req :
              /\ effect' = effect \cup {r} /\ pc[r] = "call"
              /\ UNCHANGED <<result, faults>>
              /\ Logout(r) \/ (route[r] # "logout" /\ UNCHANGED route)
<1> USE DEF keycloak, Goto
<1>1. ASSUME NEW r \in Req, Arrive(r) \/ Oidc(r) \/ Rbac(r) \/ Handle(r) \/ Expire(r)
      PROVE  effect' = effect
  BY <1>1 DEF Arrive, Oidc, Rbac, Handle, Expire
<1>2. ASSUME NEW r \in Req, Login(r) \/ Roles(r), effect' # effect
      PROVE  /\ effect' = effect \cup {r} /\ pc[r] = "call"
             /\ UNCHANGED <<result, faults>>
             /\ route[r] # "logout" /\ UNCHANGED route
  BY <1>2 DEF Login, Roles, Admin
<1>3. ASSUME NEW r \in Req, Logout(r), effect' # effect
      PROVE  /\ effect' = effect \cup {r} /\ pc[r] = "call"
             /\ UNCHANGED <<result, faults>>
  BY <1>3 DEF Logout
<1>4. ASSUME NEW r \in Req, Refresh(r) \/ Reply(r) \/ CallFails(r)
      PROVE  effect' = effect
  BY <1>4 DEF Refresh, Reply, CallFails
<1>5. CASE UNCHANGED vars
  BY <1>5 DEF vars
<1> QED
  BY <1>1, <1>2, <1>3, <1>4, <1>5 DEF Next, Call

\* Every step preserves that ended sessions stay ended.
LEMMA StepEnded ==
  ASSUME TypeOK, TokensFromSessions, Carried, EverAdmins, Granted, Ended, [Next]_vars
  PROVE  Ended'
<1>1. ASSUME NEW q \in effect, route'[q] = "logout"
      PROVE  subject'[q] \in Opened' \ session'
  <2>1. q \in Req /\ pc[q] # "start"
    BY DEF TypeOK, Granted
  <2>2. route'[q] = route[q] /\ subject'[q] = subject[q]
    BY <2>1, ArrivedStays
  <2> QED
    BY <1>1, <2>2, OverStays DEF Ended
<1>2. ASSUME NEW r \in Req, Logout(r), effect' = effect \cup {r}, r \notin effect
      PROVE  subject'[r] \in Opened' \ session'
  <2>1. /\ subject[r] \in session /\ session' = session \ {subject[r]}
        /\ subject' = subject
    BY <1>2 DEF Logout
  <2> QED
    BY <2>1, TokensStay DEF TokensFromSessions
<1> QED
  BY <1>1, <1>2, Effects DEF Ended

\* Every step preserves that who comes too late is granted nothing.
LEMMA StepLate ==
  ASSUME TypeOK, TokensFromSessions, Carried, EverAdmins, Granted, Ended, Late,
         AnswerTellsEffect, [Next]_vars
  PROVE  Late'
<1> DEFINE TooLate(q) ==
      /\ route[q] \in {"refresh", "logout"} /\ subject[q] \in Opened \ session
      /\ pc[q] \notin {"start", "granted"} /\ result[q] \notin {200, 204}
<1> USE DEF TypeOK, Goto, Answer, keycloak
<1>1. ASSUME NEW q \in Req, TooLate(q)
      PROVE  route'[q] \in {"refresh", "logout"} /\ subject'[q] \in Opened' \ session'
             /\ pc'[q] # "start"
  <2>1. route'[q] = route[q] /\ subject'[q] = subject[q] /\ pc'[q] # "start"
    BY <1>1, ArrivedStays
  <2> QED
    BY <1>1, <2>1, OverStays
<1>2. ASSUME NEW q \in Req, TooLate(q)
      PROVE  pc'[q] # "granted" /\ result'[q] \notin {200, 204}
  <2>1. ASSUME NEW r \in Req, Arrive(r) \/ Oidc(r) \/ Rbac(r) \/ Handle(r) \/ Expire(r)
        PROVE  pc'[q] # "granted" /\ result'[q] \notin {200, 204}
    BY <1>2, <2>1 DEF Arrive, Oidc, Rbac, Handle, Expire, NeedsClaims
  <2>2. ASSUME NEW r \in Req, Login(r) \/ Logout(r) \/ Roles(r)
        PROVE  pc'[q] # "granted" /\ result'[q] \notin {200, 204}
    BY <1>2, <2>2 DEF Login, Logout, Roles, Admin
  <2>3. ASSUME NEW r \in Req, Refresh(r)
        PROVE  pc'[q] # "granted" /\ result'[q] \notin {200, 204}
    <3>1. CASE r = q
      BY <1>2, <2>3, <3>1 DEF Refresh
    <3>2. CASE r # q
      <4>1. \E l \in {"granted", "refused"} : Goto(r, l)
        BY <2>3, RefreshCases
      <4> QED
        BY <1>2, <3>2, <4>1
    <3> QED
      BY <3>1, <3>2
  <2>4. ASSUME NEW r \in Req, Reply(r) \/ CallFails(r)
        PROVE  pc'[q] # "granted" /\ result'[q] \notin {200, 204}
    <3>1. PICK a \in {200, 204, 400, 401, 502} : Answered(r, a)
      BY <2>4, AnswerCases
    <3> QED
      BY <1>2, <3>1 DEF Answered
  <2>5. CASE UNCHANGED vars
    BY <1>2, <2>5 DEF vars
  <2> QED
    BY <2>1, <2>2, <2>3, <2>4, <2>5 DEF Next, Call
<1>3. ASSUME NEW r \in Req, Arrive(r), late' # late
      PROVE  /\ late' = late \cup {r}
             /\ route'[r] \in {"refresh", "logout"} /\ subject'[r] \in Opened' \ session'
             /\ pc'[r] \notin {"start", "granted"} /\ result'[r] \notin {200, 204}
  <2>1. PICK p \in Route : \E s \in Subjects(p) :
          /\ route' = [route EXCEPT ![r] = p]
          /\ subject' = [subject EXCEPT ![r] = s]
          /\ late' = IF p \in {"refresh", "logout"} /\ s \in LoggedOut
                     THEN late \cup {r} ELSE late
          /\ Goto(r, IF p \in Admin THEN "oidc" ELSE "handler")
    BY <1>3 DEF Arrive
  <2>2. /\ late' = late \cup {r}
        /\ route'[r] \in {"refresh", "logout"} /\ subject'[r] \in LoggedOut
        /\ pc'[r] \notin {"start", "granted"} /\ result'[r] = 0
    BY <1>3, <2>1 DEF Arrive
  <2>3. PICK l \in Req : subject'[r] = subject[l] /\ route[l] = "logout" /\ result[l] = 204
    BY <2>2 DEF LoggedOut
  <2>4. subject[l] \in Opened \ session
    BY <2>3 DEF AnswerTellsEffect, Changes, Ended
  <2> QED
    BY <2>2, <2>3, <2>4, OverStays
<1>4. ASSUME NEW r \in Req, Oidc(r) \/ Rbac(r) \/ Handle(r) \/ Call(r) \/ Expire(r)
      PROVE  late' = late
  BY <1>4 DEF Oidc, Rbac, Handle, Call, Login, Refresh, Logout, Roles, Reply, CallFails,
              Expire
<1>5. ASSUME NEW q \in late'
      PROVE  /\ route'[q] \in {"refresh", "logout"} /\ subject'[q] \in Opened' \ session'
             /\ pc'[q] \notin {"start", "granted"} /\ result'[q] \notin {200, 204}
  <2>1. CASE q \in late
    <3>1. q \in Req /\ TooLate(q)
      BY <2>1 DEF Late
    <3> HIDE DEF TooLate
    <3> QED
      BY <1>1, <1>2, <3>1
  <2>2. CASE q \notin late
    <3>1. late' # late
      BY <2>2
    <3>2. PICK r \in Req : Arrive(r)
      BY <1>4, <3>1 DEF Next, vars
    <3> QED
      BY <1>3, <2>2, <3>1, <3>2
  <2> QED
    BY <2>1, <2>2
<1> QED
  BY <1>5 DEF Late

\* An effect is hidden only by a lost reply: nobody else of those that have changed
\* something is answered with an error.
LEMMA StepHidden ==
  ASSUME TypeOK, TokensFromSessions, Carried, EverAdmins, Granted, [Next]_vars
  PROVE  \/ Hidden' = Hidden /\ faults <= faults'
         \/ \E r \in Req : Hidden' = Hidden \cup {r} /\ faults' = faults + 1
<1> USE FaultAssumption DEF TypeOK, Hidden, Granted, Goto, Answer, keycloak
<1>1. ASSUME NEW r \in Req, Arrive(r) \/ Oidc(r) \/ Rbac(r) \/ Handle(r) \/ Expire(r)
      PROVE  Hidden' = Hidden /\ faults <= faults'
  BY <1>1 DEF Arrive, Oidc, Rbac, Handle, Expire
<1>2. ASSUME NEW r \in Req, Login(r) \/ Refresh(r) \/ Logout(r) \/ Roles(r)
      PROVE  Hidden' = Hidden /\ faults <= faults'
  <2>1. UNCHANGED <<result, faults>>
    <3>1. CASE Refresh(r)
      BY <3>1, RefreshCases DEF Refresh
    <3> QED
      BY <1>2, <3>1 DEF Login, Logout, Roles
  <2>2. \A q \in Req : pc[q] = "call" => result[q] = 0
    OBVIOUS
  <2> QED
    BY <2>1, <2>2, Effects
<1>3. ASSUME NEW r \in Req, Reply(r) \/ CallFails(r)
      PROVE  \/ Hidden' = Hidden /\ faults <= faults'
             \/ Hidden' = Hidden \cup {r} /\ faults' = faults + 1
  <2>1. PICK a \in {200, 204, 400, 401, 502} : Answered(r, a)
    BY <1>3, AnswerCases
  <2>2. /\ effect' = effect /\ result' = [result EXCEPT ![r] = a]
        /\ pc[r] \in {"call", "granted", "refused"}
    BY <2>1 DEF Answered
  <2>3. Hidden' = Hidden \/ Hidden' = Hidden \cup {r}
    BY <2>2
  <2>4. CASE a \in {200, 204} \/ pc[r] # "granted"
    <3>1. Hidden' = Hidden
      BY <2>1, <2>2, <2>4 DEF Answered
    <3> QED
      BY <2>1, <3>1 DEF Answered
  <2>5. CASE a \in {400, 401, 502} /\ pc[r] = "granted"
    BY <2>1, <2>3, <2>5 DEF Answered
  <2> QED
    BY <2>4, <2>5
<1>4. CASE UNCHANGED vars
  BY <1>4 DEF vars
<1> QED
  BY <1>1, <1>2, <1>3, <1>4 DEF Next, Call

\* Every step preserves that answers tell what was done.
LEMMA StepAnswer ==
  ASSUME TypeOK, TokensFromSessions, Carried, EverAdmins, Granted, AnswerTellsEffect,
         IsFiniteSet(Hidden), [Next]_vars
  PROVE  AnswerTellsEffect' /\ IsFiniteSet(Hidden')
<1> DEFINE Told(r) ==
      /\ route[r] \in Changes /\ result[r] \in {200, 204} => r \in effect
      /\ route[r] \in Admin /\ result[r] \in {401, 403} => r \notin effect
<1>1. IsFiniteSet(Hidden') /\ Cardinality(Hidden)' <= faults'
  <2>1. Cardinality(Hidden) \in Nat /\ Cardinality(Hidden) <= faults /\ faults \in Nat
          /\ faults' \in Nat
    BY StepType, FS_CardinalityType, FaultAssumption DEF AnswerTellsEffect, TypeOK
  <2>2. ASSUME NEW r \in Req, Hidden' = Hidden \cup {r}, faults' = faults + 1
        PROVE  IsFiniteSet(Hidden') /\ Cardinality(Hidden)' <= faults'
    <3>1. IsFiniteSet(Hidden \cup {r}) /\ Cardinality(Hidden \cup {r})
            \in {Cardinality(Hidden), Cardinality(Hidden) + 1}
      BY FS_AddElement
    <3> QED
      BY <2>1, <2>2, <3>1
  <2>3. CASE Hidden' = Hidden /\ faults <= faults'
    BY <2>1, <2>3
  <2> QED
    BY <2>2, <2>3, StepHidden
<1>2. ASSUME NEW q \in Req PROVE Told(q)'
  <2> USE DEF AnswerTellsEffect, TypeOK, Granted, Changes, Admin, Goto, Answer, keycloak
  <2>1. ASSUME NEW r \in Req, Arrive(r) PROVE Told(q)'
    BY <2>1 DEF Arrive
  <2>2. ASSUME NEW r \in Req, Oidc(r) \/ Rbac(r) \/ Handle(r) PROVE Told(q)'
    BY <2>2 DEF Oidc, Rbac, Handle, NeedsClaims
  <2>3. ASSUME NEW r \in Req, Login(r) \/ Refresh(r) PROVE Told(q)'
    <3>1. ASSUME NEW c \in Claims, TokenFor(r, c) PROVE Told(q)'
      BY <3>1 DEF TokenFor
    <3> QED
      BY <2>3, <3>1, Issues
  <2>4. ASSUME NEW r \in Req, Logout(r) PROVE Told(q)'
    BY <2>4 DEF Logout
  <2>5. ASSUME NEW r \in Req, Roles(r) PROVE Told(q)'
    BY <2>5 DEF Roles
  <2>6. ASSUME NEW r \in Req, Reply(r) \/ CallFails(r) PROVE Told(q)'
    <3>1. PICK a \in {200, 204, 400, 401, 502} : Answered(r, a)
      BY <2>6, AnswerCases
    <3> QED
      BY <3>1 DEF Answered
  <2>7. ASSUME NEW r \in Req, Expire(r) PROVE Told(q)'
    BY <2>7 DEF Expire
  <2>8. CASE UNCHANGED vars
    BY <2>8 DEF vars
  <2> QED
    BY <2>1, <2>2, <2>3, <2>4, <2>5, <2>6, <2>7, <2>8 DEF Next, Call
<1> QED
  BY <1>1, <1>2 DEF AnswerTellsEffect

-----------------------------------------------------------------------------
\* Every step preserves the invariant.
LEMMA StepInv == IInv /\ [Next]_vars => IInv'
<1> SUFFICES ASSUME IInv, [Next]_vars PROVE IInv'
  OBVIOUS
<1>1. TypeOK' /\ TokensFromSessions' /\ Carried' /\ Stages' /\ EverAdmins'
  BY StepType, StepTokens, StepCarried, StepStages, StepEver DEF IInv
<1>2. Granted' /\ Ended' /\ Late'
  BY StepGranted, StepEnded, StepLate DEF IInv
<1>3. AnswerTellsEffect' /\ IsFiniteSet(Hidden')
  BY StepAnswer DEF IInv
<1> QED
  BY <1>1, <1>2, <1>3 DEF IInv

\* The invariant always holds.
LEMMA Invariance == Spec => []IInv
BY InitInv, StepInv, PTL DEF Spec

\* In every state the variables have their types, and a request is at its end
\* exactly when it is answered.
THEOREM TypeCorrect == Spec => []TypeOK
<1>1. IInv => TypeOK
  BY DEF IInv
<1> QED
  BY <1>1, Invariance, PTL

\* Roles are changed, and users read, for the bearer of an admin's token only:
\* RequireRealmRole looks at the claims Oidc took from a token that was issued,
\* and a token names an admin only if its user has been one.
THEOREM AdminsComeFromAdmins == Spec => []AdminsFromAdmins
<1>1. IInv => AdminsFromAdmins
  <2> SUFFICES ASSUME IInv, NEW r \in Req, route[r] \in Admin,
                      pc[r] \in {"call", "granted"}
               PROVE  \E c \in claims[r] : c.admin /\ c.user \in ever
                                             /\ bearer[r] \in Given
    BY DEF AdminsFromAdmins
  <2>1. bearer[r] \in Given /\ claims[r] = token[bearer[r]]
    BY DEF IInv, Stages
  <2>2. PICK c \in claims[r] : c.admin
    BY DEF IInv, Stages, HasRealmRole
  <2>3. c.user \in ever
    BY <2>1, <2>2 DEF IInv, TokensFromSessions, Given, Issued
  <2> QED
    BY <2>1, <2>2, <2>3
<1> QED
  BY <1>1, Invariance, PTL

\* Success is written for what was done, whoever was not let in has changed nothing,
\* and no more effects hide behind errors than replies were lost: a login that opened
\* a session and was answered 401 costs Keycloak's answer to it.
THEOREM AnswersTellEffects == Spec => []AnswerTellsEffect
<1>1. IInv => AnswerTellsEffect
  BY DEF IInv
<1> QED
  BY <1>1, Invariance, PTL

\* After a logout has been answered 204 no refresh and no logout that comes about the
\* session succeeds, whatever refreshes were under way, and whether or not they are
\* still answered: a session that was ended is opened by no call again.
THEOREM LogoutIsFinal == Spec => []LogoutFinal
<1>1. IInv => LogoutFinal
  BY DEF IInv, Late, LogoutFinal
<1> QED
  BY <1>1, Invariance, PTL

-----------------------------------------------------------------------------
(* The process the requests are handled in *)

\* The stages of the start come one after the other.
LEMMA NextStage ==
  /\ After("postgres") = "migrations" /\ After("migrations") = "redis"
  /\ After("redis") = "kafka" /\ After("kafka") = "cdc"
  /\ After("cdc") = "oidc" /\ After("oidc") = "listen"
  /\ After("listen") = "notify" /\ After("notify") = "serve"
<1>1. ASSUME NEW i \in 1 .. 8 PROVE After(Boot[i]) = Boot[i + 1]
  <2> DEFINE I == {j \in 1 .. Len(Boot) : Boot[j] = Boot[i]}
  <2>1. I = {i}
    BY DEF Boot
  <2>2. Min(I) = i
    BY <2>1 DEF Min
  <2>3. After(Boot[i]) = Boot[Min(I) + 1]
    BY <2>1 DEF After, SelectInSeq
  <2> QED
    BY <2>2, <2>3
<1>2. /\ Boot[1] = "postgres" /\ Boot[2] = "migrations" /\ Boot[3] = "redis"
      /\ Boot[4] = "kafka" /\ Boot[5] = "cdc" /\ Boot[6] = "oidc"
      /\ Boot[7] = "listen" /\ Boot[8] = "notify" /\ Boot[9] = "serve"
  BY DEF Boot
<1> QED
  BY <1>1, <1>2

\* A suffix, by the places of its elements (the library defines it by reversal).
LEMMA SuffixByPlace ==
  ASSUME NEW S, NEW s \in Seq(S), NEW t \in Seq(S)
  PROVE  IsSuffix(s, t) <=>
           /\ Len(s) <= Len(t)
           /\ \A i \in 1 .. Len(s) : s[i] = t[Len(t) - Len(s) + i]
<1>1. /\ Reverse(s) \in Seq(S) /\ Len(Reverse(s)) = Len(s)
      /\ Reverse(t) \in Seq(S) /\ Len(Reverse(t)) = Len(t)
      /\ \A i \in 1 .. Len(s) : Reverse(s)[i] = s[Len(s) - i + 1]
      /\ \A i \in 1 .. Len(t) : Reverse(t)[i] = t[Len(t) - i + 1]
  BY DEF Reverse
<1>2. IsSuffix(s, t) <=>
        Len(s) <= Len(t) /\ \A i \in 1 .. Len(s) : Reverse(s)[i] = Reverse(t)[i]
  BY <1>1 DEF IsSuffix, IsPrefix
<1>3. \A i \in 1 .. Len(s) : /\ Len(s) - i + 1 \in 1 .. Len(s)
                            /\ Len(s) - (Len(s) - i + 1) + 1 = i
  OBVIOUS
<1>4. ASSUME Len(s) <= Len(t),
             \A i \in 1 .. Len(s) : Reverse(s)[i] = Reverse(t)[i],
             NEW i \in 1 .. Len(s)
      PROVE  s[i] = t[Len(t) - Len(s) + i]
  <2> DEFINE j == Len(s) - i + 1
  <2>1. /\ j \in 1 .. Len(s) /\ j \in 1 .. Len(t)
        /\ Len(s) - j + 1 = i /\ Len(t) - j + 1 = Len(t) - Len(s) + i
    BY <1>4
  <2> HIDE DEF j
  <2> QED
    BY <1>4, <1>1, <2>1
<1>5. ASSUME Len(s) <= Len(t), \A i \in 1 .. Len(s) : s[i] = t[Len(t) - Len(s) + i],
             NEW i \in 1 .. Len(s)
      PROVE  Reverse(s)[i] = Reverse(t)[i]
  <2> DEFINE j == Len(s) - i + 1
  <2>1. j \in 1 .. Len(s) /\ i \in 1 .. Len(t) /\ Len(t) - Len(s) + j = Len(t) - i + 1
    BY <1>5
  <2> HIDE DEF j
  <2>2. s[j] = t[Len(t) - i + 1]
    BY <1>5, <2>1
  <2> QED
    BY <1>1, <2>1, <2>2 DEF j
<1> QED
  BY <1>2, <1>4, <1>5

\* The suffixes a request that runs through the checks needs: none of them yet,
\* all of them, and one fewer than before.
LEMMA EmptySuffix ==
  ASSUME NEW S, NEW t \in Seq(S)
  PROVE  IsSuffix(<< >>, t)
<1> DEFINE s == << >>
<1>1. s \in Seq(S) /\ Len(s) = 0 /\ Len(t) \in Nat
  OBVIOUS
<1> HIDE DEF s
<1>2. Len(s) <= Len(t) /\ \A i \in 1 .. Len(s) : s[i] = t[Len(t) - Len(s) + i]
  BY <1>1
<1>3. IsSuffix(s, t)
  BY <1>1, <1>2, SuffixByPlace
<1> QED
  BY <1>3 DEF s

LEMMA WholeSuffix ==
  ASSUME NEW S, NEW t \in Seq(S)
  PROVE  IsSuffix(t, t)
<1>1. Len(t) \in Nat /\ \A i \in 1 .. Len(t) : t[i] = t[Len(t) - Len(t) + i]
  OBVIOUS
<1> QED
  BY <1>1, SuffixByPlace

LEMMA TailSuffix ==
  ASSUME NEW S, NEW t \in Seq(S), NEW s \in Seq(S), IsSuffix(s, t), s # << >>
  PROVE  IsSuffix(Tail(s), t)
<1>1. /\ Len(s) <= Len(t) /\ Len(s) \in Nat \ {0} /\ Len(t) \in Nat
      /\ \A i \in 1 .. Len(s) : s[i] = t[Len(t) - Len(s) + i]
  BY SuffixByPlace
<1>2. /\ Tail(s) \in Seq(S) /\ Len(Tail(s)) = Len(s) - 1
      /\ \A i \in 1 .. Len(Tail(s)) : Tail(s)[i] = s[i + 1]
  OBVIOUS
<1>3. ASSUME NEW i \in 1 .. Len(Tail(s)) PROVE Tail(s)[i] = t[Len(t) - Len(Tail(s)) + i]
  <2>1. i + 1 \in 1 .. Len(s) /\ Len(t) - Len(s) + (i + 1) = Len(t) - Len(Tail(s)) + i
    BY <1>1, <1>2
  <2> QED
    BY <1>1, <1>2, <2>1
<1>4. Len(Tail(s)) <= Len(t)
  BY <1>1, <1>2
<1> QED
  BY <1>2, <1>3, <1>4, SuffixByPlace

\* A check that has run is out of those left to run, and no other is.
LEMMA SetOfTail ==
  ASSUME NEW S, NEW s \in Seq(S), s # << >>
  PROVE  /\ ToSet(s) = {Head(s)} \cup ToSet(Tail(s))
         /\ Head(s) \in S /\ Tail(s) \in Seq(S)
<1>1. /\ Len(s) \in Nat \ {0} /\ DOMAIN s = 1 .. Len(s)
      /\ Head(s) \in S /\ Head(s) = s[1] /\ Tail(s) \in Seq(S)
      /\ DOMAIN Tail(s) = 1 .. Len(s) - 1
      /\ \A j \in 1 .. Len(s) - 1 : Tail(s)[j] = s[j + 1]
  OBVIOUS
<1>2. ASSUME NEW j \in DOMAIN s, j # 1
      PROVE  j - 1 \in DOMAIN Tail(s) /\ s[j] = Tail(s)[j - 1]
  <2>1. j - 1 \in 1 .. Len(s) - 1 /\ (j - 1) + 1 = j
    BY <1>1, <1>2
  <2> QED
    BY <1>1, <2>1
<1>3. ASSUME NEW x \in ToSet(s) PROVE x = Head(s) \/ x \in ToSet(Tail(s))
  <2>1. PICK j \in DOMAIN s : s[j] = x
    BY DEF ToSet
  <2> QED
    BY <1>1, <1>2, <2>1 DEF ToSet
<1>4. Head(s) \in ToSet(s) /\ ToSet(Tail(s)) \subseteq ToSet(s)
  <2>1. \A j \in DOMAIN Tail(s) : j + 1 \in DOMAIN s
    BY <1>1
  <2> QED
    BY <1>1, <2>1 DEF ToSet
<1> QED
  BY <1>1, <1>3, <1>4

\* A check that is added comes to those already there.
LEMMA SetOfAppend ==
  ASSUME NEW S, NEW s \in Seq(S), NEW x \in S
  PROVE  Append(s, x) \in Seq(S) /\ ToSet(Append(s, x)) = ToSet(s) \cup {x}
<1>1. /\ DOMAIN Append(s, x) = 1 .. Len(s) + 1 /\ DOMAIN s = 1 .. Len(s) /\ Len(s) \in Nat
      /\ \A i \in 1 .. Len(s) : Append(s, x)[i] = s[i]
      /\ Append(s, x)[Len(s) + 1] = x /\ Append(s, x) \in Seq(S)
  OBVIOUS
<1> QED
  BY <1>1 DEF ToSet

-----------------------------------------------------------------------------
\* Until the server listens nobody has asked it for anything.
Unheard ==
  stage \in {"postgres", "migrations", "redis", "kafka", "cdc", "oidc", "listen"} =>
    ~listening /\ \A r \in Request : phase[r] = "none" /\ left[r] = << >>

\* Every store the process holds a connection to is checked.
Watched == linked \ {"cdc"} \subseteq ToSet(checks)

\* What works now, and what a check has passed, worked during the request.
Reached ==
  \A r \in Request :
    /\ phase[r] = "running" => up \subseteq sawUp[r]
    /\ Readiness(r) =>
         ToSet(checks) \ (ToSet(left[r]) \cup {"keycloak"}) \subseteq sawUp[r]

\* How far the way down has got.
WayDown ==
  /\ stage \notin {"close", "flush", "exited"} => open = linked
  /\ stage # "exited" => \A r \in Request : phase[r] # "cut"
  /\ stage \in {"drain", "close", "flush", "exited"} => ~listening
  /\ stage \in {"close", "flush", "exited"} => InFlight = {}

\* Together with the properties they are inductive.
LifeInv ==
  /\ ProcessTypeOK
  /\ Unheard
  /\ Watched
  /\ Reached
  /\ WayDown
  /\ ExitZeroMeansServed
  /\ ReadyMeansReached

-----------------------------------------------------------------------------
\* The stages of the start.
Starting ==
  {"postgres", "migrations", "redis", "kafka", "cdc", "oidc", "listen"}

\* No stage of the start leads back, or straight to the way down.
LEMMA BootStages ==
  /\ ToSet(Boot) = Starting \cup {"notify", "serve"}
  /\ \A s \in Starting \cup {"notify"} : After(s) \in ToSet(Boot)
  /\ \A s \in Starting \cup {"notify"} : After(s) \notin {"drain", "close", "flush", "exited"}
  /\ \A s \in Starting \cup {"notify"} :
       After(s) \in Starting => s \in Starting \ {"listen"}
<1>1. ToSet(Boot) = Starting \cup {"notify", "serve"}
  BY DEF ToSet, Boot, Starting
<1> QED
  BY <1>1, NextStage DEF Starting

\* The process begins with nothing connected, checked or asked.
LEMMA LifeInit == ProcessInit => LifeInv
<1> SUFFICES ASSUME ProcessInit PROVE LifeInv
  OBVIOUS
<1>1. << >> \in Seq(Dep) /\ ToSet(<< >>) = {}
  BY DEF ToSet
<1>2. IsSuffix(<< >>, << >>)
  BY <1>1, EmptySuffix
<1>3. stage \in ToSet(Boot) /\ stage \in Starting
  BY BootStages DEF ProcessInit, Starting
<1>4. ProcessTypeOK
  <2>1. /\ code \in 0 .. Running /\ code = Running
        /\ changes \in Nat /\ signals \in 0 .. 2
        /\ up \subseteq Dep /\ open \subseteq linked /\ linked \subseteq Link
    BY DEF ProcessInit, Running
  <2>2. /\ ToSet(checks) \subseteq Dep
        /\ \A r \in Request : IsSuffix(left[r], checks)
    BY <1>1, <1>2 DEF ProcessInit
  <2> QED
    BY <1>1, <1>3, <2>1, <2>2 DEF ProcessInit, ProcessTypeOK, Starting
<1>5. Unheard /\ Watched /\ Reached /\ WayDown
  BY DEF ProcessInit, Unheard, Watched, Reached, WayDown, Readiness
<1>6. ExitZeroMeansServed /\ ReadyMeansReached
  BY DEF ProcessInit, ExitZeroMeansServed, ReadyMeansReached
<1> QED
  BY <1>4, <1>5, <1>6 DEF LifeInv

\* The end of the process.
LEMMA ExitInv ==
  ASSUME LifeInv, NEW status \in 0 .. 2, Exit(status), status = 0 => stage = "flush"
  PROVE  LifeInv'
<1> USE DEF Exit, LifeInv, world
<1>1. ProcessTypeOK'
  <2>1. code' \in 0 .. Running /\ code' # Running /\ stage' = "exited"
    BY DEF Running
  <2> QED
    BY <2>1 DEF ProcessTypeOK
<1>2. Unheard' /\ Watched' /\ Reached' /\ ReadyMeansReached'
  BY DEF Unheard, Watched, Reached, Readiness, ReadyMeansReached, ProcessTypeOK
<1>3. WayDown' /\ ExitZeroMeansServed'
  BY DEF WayDown, InFlight, ExitZeroMeansServed, ProcessTypeOK
<1> QED
  BY <1>1, <1>2, <1>3

\* One stage of the start, whatever it connects and adds to the checks.
LEMMA BootInv ==
  ASSUME LifeInv, stage \in Starting \cup {"notify"}, Advance,
         linked' = open', linked' \subseteq Link,
         linked' \ {"cdc"} \subseteq ToSet(checks'), checks' \in Seq(Dep),
         stage = "notify" => linked' = linked /\ checks' = checks,
         listening' \in BOOLEAN,
         stage \notin {"listen", "notify"} => listening' = listening,
         UNCHANGED <<signals, code, requests, world>>
  PROVE  LifeInv'
<1> USE DEF LifeInv, Advance, requests, world
<1>1. /\ stage' \in ToSet(Boot) /\ stage' \notin {"drain", "close", "flush", "exited"}
      /\ stage' \in Starting => stage \in Starting \ {"listen"}
  BY BootStages
<1>2. stage \in Starting => \A r \in Request : phase[r] = "none" /\ left[r] = << >>
  BY DEF Unheard, Starting
<1>3. \A r \in Request : IsSuffix(left[r], checks')
  BY <1>2, EmptySuffix DEF ProcessTypeOK, Starting
<1>4. ProcessTypeOK'
  BY <1>1, <1>2, <1>3 DEF ProcessTypeOK, Starting
<1>5. Unheard'
  BY <1>1, <1>2 DEF Unheard, Starting
<1>6. Watched' /\ WayDown' /\ ExitZeroMeansServed'
  BY <1>1 DEF Watched, WayDown, InFlight, ExitZeroMeansServed, Starting
<1>7. Reached' /\ ReadyMeansReached'
  BY <1>2 DEF Reached, Readiness, ReadyMeansReached, ProcessTypeOK, Starting
<1> QED
  BY <1>4, <1>5, <1>6, <1>7

\* Every stage of the start is one of these, or the end of the process.
LEMMA StartInv ==
  ASSUME LifeInv, StartStep
  PROVE  LifeInv'
<1>1. /\ stage \notin {"close", "flush", "exited"} => linked = open
      /\ linked \subseteq Link /\ linked \ {"cdc"} \subseteq ToSet(checks)
      /\ checks \in Seq(Dep)
      /\ listening \in BOOLEAN
  BY DEF LifeInv, WayDown, ProcessTypeOK, Watched
<1>2. CASE StartFails
  BY <1>2, ExitInv DEF StartFails
<1>3. ASSUME NEW c \in Link, Connect(c) PROVE LifeInv'
  <2>1. c \in Dep /\ c \in Starting \ {"listen"}
    BY <1>3 DEF Connect, Link, Dep, Starting
  <2>2. checks' \in Seq(Dep) /\ ToSet(checks') = ToSet(checks) \cup {c}
    BY <1>1, <1>3, <2>1, SetOfAppend DEF Connect
  <2>3. /\ linked' = linked \cup {c} /\ open' = open \cup {c} /\ stage = c /\ Advance
        /\ UNCHANGED <<listening, signals, code, requests, world>>
    BY <1>3 DEF Connect, Connected
  <2> QED
    BY <1>1, <2>1, <2>2, <2>3, BootInv DEF Starting
<1>4. CASE DoWithout
  BY <1>1, <1>4, BootInv DEF DoWithout, Starting
<1>5. CASE Migrate
  BY <1>1, <1>5, BootInv DEF Migrate, Starting
<1>6. CASE StartCdc
  BY <1>1, <1>6, BootInv DEF StartCdc, Connected, Starting, Link
<1>7. CASE DiscoverOidc
  <2>1. /\ checks' \in Seq(Dep)
        /\ ToSet(checks') = ToSet(checks) \cup {"keycloak"}
    BY <1>1, <1>7, SetOfAppend DEF DiscoverOidc, Dep
  <2> QED
    BY <1>1, <1>7, <2>1, BootInv DEF DiscoverOidc, Starting
<1>8. CASE Listen
  BY <1>1, <1>8, BootInv DEF Listen, Starting
<1>9. CASE Notify
  BY <1>1, <1>9, BootInv DEF Notify, Starting
<1> QED
  BY <1>2, <1>3, <1>4, <1>5, <1>6, <1>7, <1>8, <1>9 DEF StartStep

\* The way down: once it has begun no request arrives, and nothing is closed
\* before the last one is answered.
LEMMA StopInv ==
  ASSUME LifeInv, StopStep
  PROVE  LifeInv'
<1> USE DEF LifeInv, requests, world
<1>1. CASE Signal
  <2>1. CASE Exit(Killed)
    BY <2>1, ExitInv DEF Killed
  <2>2. CASE /\ signals' = signals + 1 /\ signals < 2
             /\ UNCHANGED <<stage, linked, open, checks, listening, code, requests,
                            world>>
    <3>1. signals \in 0 .. 2
      BY DEF ProcessTypeOK
    <3>2. signals' \in 0 .. 2
      <4> HIDE DEF LifeInv
      <4> QED
        BY <2>2, <3>1
    <3>3. ProcessTypeOK'
      BY <2>2, <3>2 DEF ProcessTypeOK
    <3> QED
      BY <2>2, <3>3 DEF Unheard, Watched, Reached, WayDown, InFlight, Readiness,
                        ExitZeroMeansServed, ReadyMeansReached
  <2> QED
    BY <1>1, <2>1, <2>2 DEF Signal
<1>2. CASE ServeFails
  BY <1>2, ExitInv DEF ServeFails
<1>3. CASE Wake
  BY <1>3 DEF Wake, ProcessTypeOK, Unheard, Watched, Reached, WayDown, InFlight,
              Readiness, ExitZeroMeansServed, ReadyMeansReached
<1>4. CASE ForceOut \/ DrainTimeout
  BY <1>4, ExitInv DEF ForceOut, DrainTimeout
<1>5. CASE Drained
  BY <1>5 DEF Drained, CloseApp, Deferred, ProcessTypeOK, Unheard, Watched, Reached, WayDown,
              InFlight, Readiness, ExitZeroMeansServed, ReadyMeansReached
<1>6. CASE CloseNext
  <2>1. open' \subseteq open /\ stage \in {"close", "flush"}
    BY <1>6 DEF CloseNext
  <2> QED
    BY <1>6, <2>1
       DEF CloseNext, ProcessTypeOK, Unheard, Watched, Reached, WayDown, InFlight,
           Readiness, ExitZeroMeansServed, ReadyMeansReached
<1>7. CASE Closed \/ CloseTimeout
  <2>1. stage = "close" /\ Deferred("flush")
    BY <1>7 DEF Closed, CloseTimeout
  <2> QED
    BY <2>1 DEF Deferred, ProcessTypeOK, Unheard, Watched, Reached, WayDown,
                InFlight, Readiness, ExitZeroMeansServed, ReadyMeansReached
<1>8. CASE Flushed
  BY <1>8, ExitInv DEF Flushed
<1> QED
  BY <1>1, <1>2, <1>3, <1>4, <1>5, <1>6, <1>7, <1>8 DEF StopStep

\* An answer of a handler.
LEMMA RespondInv ==
  ASSUME LifeInv, NEW r \in Request, phase[r] = "running",
         NEW s \in {"ready", "not ready", "panic", "ok", "error"}, Respond(r, s),
         s = "ready" => Readiness(r) /\ left[r] = << >>
  PROVE  LifeInv'
<1> USE DEF LifeInv, Respond, main, world
<1>1. stage \notin Starting /\ stage \notin {"close", "flush", "exited"}
  BY DEF Unheard, Starting, WayDown, InFlight
<1>2. ProcessTypeOK'
  BY DEF ProcessTypeOK
<1>3. Unheard' /\ Watched' /\ ExitZeroMeansServed'
  BY <1>1 DEF Unheard, Watched, ExitZeroMeansServed, ProcessTypeOK, Starting
<1>4. Reached' /\ WayDown'
  BY <1>1 DEF Reached, WayDown, Readiness, InFlight, ProcessTypeOK
<1>5. s = "ready" => linked \ {"cdc"} \subseteq sawUp[r]
  <2> SUFFICES ASSUME s = "ready" PROVE linked \ {"cdc"} \subseteq sawUp[r]
    OBVIOUS
  <2>1. ToSet(left[r]) = {}
    BY DEF ToSet
  <2>2. ToSet(checks) \ {"keycloak"} \subseteq sawUp[r]
    BY <2>1 DEF Reached
  <2>3. linked \ {"cdc"} \subseteq ToSet(checks) /\ "keycloak" \notin linked
    BY DEF Watched, ProcessTypeOK, Link
  <2> QED
    BY <2>2, <2>3
<1>6. ReadyMeansReached'
  BY <1>5 DEF ReadyMeansReached, ProcessTypeOK
<1> QED
  BY <1>2, <1>3, <1>4, <1>6

\* A request runs through its own copy of the checks while the world changes.
LEMMA ServeInv ==
  ASSUME LifeInv, NEW r \in Request, Serve(r)
  PROVE  LifeInv'
<1> USE DEF LifeInv, main, world
<1>1. CASE Accept(r)
  <2> USE DEF Accept
  <2>1. stage \in {"notify", "serve"}
    BY <1>1, BootStages DEF Unheard, WayDown, ProcessTypeOK, Starting
  <2>2. ProcessTypeOK'
    BY <1>1, WholeSuffix DEF ProcessTypeOK
  <2>3. Unheard' /\ Watched' /\ ExitZeroMeansServed' /\ WayDown'
    BY <1>1, <2>1 DEF Unheard, Watched, ExitZeroMeansServed, WayDown, InFlight,
                      ProcessTypeOK
  <2>4. Reached'
    BY <1>1 DEF Reached, Readiness, ProcessTypeOK
  <2>5. ReadyMeansReached'
    BY <1>1 DEF ReadyMeansReached, ProcessTypeOK
  <2> QED
    BY <2>2, <2>3, <2>4, <2>5
<1>2. CASE Passes(r)
  <2> USE DEF Passes
  <2>1. /\ left[r] \in Seq(Dep) /\ left[r] # << >> /\ IsSuffix(left[r], checks)
        /\ left' = [left EXCEPT ![r] = Tail(left[r])] /\ phase[r] = "running"
    BY <1>2 DEF Readiness, ProcessTypeOK
  <2>2. /\ ToSet(left[r]) = {Head(left[r])} \cup ToSet(Tail(left[r]))
        /\ Tail(left[r]) \in Seq(Dep)
    BY <2>1, SetOfTail
  <2>3. IsSuffix(Tail(left[r]), checks)
    BY <2>1, <2>2, TailSuffix DEF ProcessTypeOK
  <2>4. ProcessTypeOK'
    BY <1>2, <2>1, <2>2, <2>3 DEF ProcessTypeOK
  <2>5. /\ Unheard' /\ Watched' /\ WayDown'
        /\ ExitZeroMeansServed' /\ ReadyMeansReached'
    BY <1>2, <2>1, <2>2
       DEF Unheard, Watched, ExitZeroMeansServed, WayDown, InFlight, ReadyMeansReached
  <2>6. Reached'
    BY <1>2, <2>1, <2>2 DEF Reached, Readiness, ProcessTypeOK
  <2> QED
    BY <2>4, <2>5, <2>6
<1>3. CASE CheckFails(r)
  BY <1>3, RespondInv DEF CheckFails, Readiness
<1>4. CASE AllPassed(r)
  BY <1>4, RespondInv DEF AllPassed, Readiness
<1>5. CASE UseOtp(r)
  BY <1>5, RespondInv DEF UseOtp
<1>6. CASE Work(r)
  BY <1>6, RespondInv DEF Work
<1> QED
  BY <1>1, <1>2, <1>3, <1>4, <1>5, <1>6 DEF Serve

\* An outage leaves what a request has already seen working.
LEMMA ChangeInv ==
  ASSUME LifeInv, NEW d \in Dep, Change(d)
  PROVE  LifeInv'
<1> USE DEF LifeInv, Change, main, requests
<1>1. up' \subseteq Dep /\ \A r \in Request : sawUp[r] \subseteq sawUp'[r]
  BY DEF ProcessTypeOK
<1>2. sawUp' \in [Request -> SUBSET Dep]
  <2>1. \A q \in Request : sawUp[q] \in SUBSET Dep
    BY DEF ProcessTypeOK
  <2> HIDE DEF LifeInv
  <2> QED
    BY <1>1, <2>1
<1>3. changes' \in Nat
  <2>1. changes \in Nat
    BY DEF ProcessTypeOK
  <2> HIDE DEF LifeInv
  <2> QED
    BY <2>1
<1>4. ProcessTypeOK'
  BY <1>1, <1>2, <1>3 DEF ProcessTypeOK
<1>5. Unheard' /\ Watched' /\ WayDown' /\ ExitZeroMeansServed'
  BY DEF Unheard, Watched, WayDown, InFlight, ExitZeroMeansServed
<1>6. Reached' /\ ReadyMeansReached'
  BY <1>1 DEF Reached, Readiness, ReadyMeansReached, ProcessTypeOK
<1> QED
  BY <1>4, <1>5, <1>6

\* The invariant is inductive.
LEMMA LifeStep == LifeInv /\ [ProcessNext]_processVars => LifeInv'
<1> SUFFICES ASSUME LifeInv, [ProcessNext]_processVars PROVE LifeInv'
  OBVIOUS
<1>1. CASE UNCHANGED processVars
  BY <1>1 DEF processVars, main, requests, world, LifeInv, ProcessTypeOK, Unheard,
              Watched, Reached, WayDown, InFlight, Readiness, ExitZeroMeansServed,
              ReadyMeansReached
<1> QED
  BY <1>1, StartInv, StopInv, ServeInv, ChangeInv DEF ProcessNext

\* It holds in every reachable state.
LEMMA LifeInvariance == ProcessSpec => []LifeInv
BY LifeInit, LifeStep, PTL DEF ProcessSpec

\* The state of the process has its shape, and a request has an answer exactly when
\* its handler is through (main.go, application.go, health.go).
THEOREM ProcessIsTyped == ProcessSpec => []ProcessTypeOK
<1>1. LifeInv => ProcessTypeOK
  BY DEF LifeInv
<1> QED
  BY <1>1, LifeInvariance, PTL

\* No connection is closed while a request is served, however many requests there
\* are (the order of Shutdown, os.Exit and the deferred app.Close in main.go).
THEOREM NoCloseUnderWork == ProcessSpec => []WorkBeforeClose
<1>1. LifeInv => WorkBeforeClose
  BY DEF LifeInv, WayDown, WorkBeforeClose
<1> QED
  BY <1>1, LifeInvariance, PTL

\* A process that ends with status 0 has answered every request it took.
THEOREM ExitZeroMeans == ProcessSpec => []ExitZeroMeansServed
<1>1. LifeInv => ExitZeroMeansServed
  BY DEF LifeInv
<1> QED
  BY <1>1, LifeInvariance, PTL

\* "ready" is answered only by an instance that reached each of its stores at some
\* time during that request (Readiness in health.go).
THEOREM ReadyMeans == ProcessSpec => []ReadyMeansReached
<1>1. LifeInv => ReadyMeansReached
  BY DEF LifeInv
<1> QED
  BY <1>1, LifeInvariance, PTL
=============================================================================
