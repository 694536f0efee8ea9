----------------------------- MODULE AdminToken -----------------------------
(***************************************************************************)
(* getAdminToken of internal/usecase/keycloak.go: one admin access token,  *)
(* cached in the process behind a mutex that is held across the login to   *)
(* Keycloak.  Every Keycloak operation of the service starts here, and the *)
(* Keycloak check of /readyz (Ping) is nothing but a call to it.           *)
(*                                                                         *)
(* The process dates the token from the arrival of the reply, Keycloak     *)
(* from the moment it signed it, so the cache believes in the token for    *)
(* longer than Keycloak does.  The 30 s margin has to cover that and the   *)
(* time the caller goes on using the token.                                *)
(***************************************************************************)
EXTENDS Integers

CONSTANTS
  Caller,      \* calls of getAdminToken in progress at one time
  Margin,      \* the 30 * time.Second taken off tokenExpiry
  Lifetime,    \* values of ExpiresIn that Keycloak answers with
  MaxLatency,  \* assumed: the longest a login takes
  MaxUse,      \* assumed: the longest a caller uses a token it was given
  MaxTime,     \* bound: the last instant of the clock
  NoToken,     \* cachedToken == ""
  Nobody       \* the mutex is free

ASSUME TimeAssumption ==
  MaxLatency \in Nat /\ MaxUse \in Nat /\ MaxTime \in Nat
ASSUME MarginAssumption ==
  Margin \in Nat /\ MaxLatency + MaxUse <= Margin
ASSUME LifetimeAssumption ==
  Lifetime \subseteq Nat /\ \A l \in Lifetime : l > MaxLatency + MaxUse
ASSUME NobodyAssumption == Nobody \notin Caller

\* exp: when Keycloak stops accepting the token; until: when the process
\* thinks it does (ExpiresIn itself, as long as the reply is under way).
Token == [exp : Nat, until : Nat]
ASSUME NoTokenAssumption == NoToken \notin Token

VARIABLES
  clock,   \* seconds, one unit a step
  up,      \* Keycloak answers
  mu,      \* holder of KeycloakUseCase.mu, or Nobody
  cached,  \* cachedToken with tokenExpiry, or NoToken
  pc,      \* caller -> where it is in the call, or in the use of its token
  tok,     \* caller -> the token issued to it or returned to it
  since,   \* caller -> when it sent its login, or was given its token
  heard    \* history: the last instant at which Keycloak answered

vars == <<clock, up, mu, cached, pc, tok, since, heard>>

Init ==
  /\ clock = 0
  /\ up \in BOOLEAN
  /\ mu = Nobody
  /\ cached = NoToken
  /\ pc = [c \in Caller |-> "idle"]
  /\ tok = [c \in Caller |-> NoToken]
  /\ since = [c \in Caller |-> 0]
  /\ heard = 0

-----------------------------------------------------------------------------
Goto(c, l, t, s) ==
  /\ pc' = [pc EXCEPT ![c] = l]
  /\ tok' = [tok EXCEPT ![c] = t]
  /\ since' = [since EXCEPT ![c] = s]

\* uc.mu.Lock() is called.
Ask(c) ==
  /\ pc[c] = "idle"
  /\ Goto(c, "lock", NoToken, 0)
  /\ UNCHANGED <<clock, up, mu, cached, heard>>

\* time.Now().Before(tokenExpiry - 30 s); before it, the test without margin.
UsableToTheEnd == cached # NoToken /\ clock < cached.until
Usable == cached # NoToken /\ clock < cached.until - Margin

\* The lock is granted and the cached token is good: return it, unlocking.
ReturnCached(c) ==
  /\ pc[c] = "lock" /\ mu = Nobody
  /\ Usable
  /\ Goto(c, "use", cached, clock)
  /\ UNCHANGED <<clock, up, mu, cached, heard>>

\* The same without the second look at the cache under the lock.
LoginUnchecked(c) ==
  /\ pc[c] = "lock" /\ mu = Nobody
  /\ mu' = c
  /\ Goto(c, "login", NoToken, clock)
  /\ UNCHANGED <<clock, up, cached, heard>>

\* The lock is granted and LoginAdmin is sent, with the lock held.
StartLogin(c) ==
  /\ pc[c] = "lock" /\ mu = Nobody
  /\ ~Usable
  /\ mu' = c
  /\ Goto(c, "login", NoToken, clock)
  /\ UNCHANGED <<clock, up, cached, heard>>

\* Keycloak signs a token of lifetime l; its reply is under way.
Issue(c, l) ==
  /\ pc[c] = "login" /\ up
  /\ Goto(c, "reply", [exp |-> clock + l, until |-> l], since[c])
  /\ UNCHANGED <<clock, up, mu, cached, heard>>

\* The same with the remaining time stored for the instant.
ReplyRemaining(c) ==
  /\ pc[c] = "reply"
  /\ cached' = [exp |-> tok[c].exp, until |-> tok[c].until - clock]
  /\ mu' = Nobody
  /\ Goto(c, "use", cached', clock)
  /\ UNCHANGED <<clock, up, heard>>

\* The reply arrives: cache the token from now on, unlock, return it.
Reply(c) ==
  /\ pc[c] = "reply"
  /\ cached' = [exp |-> tok[c].exp, until |-> clock + tok[c].until]
  /\ mu' = Nobody
  /\ Goto(c, "use", cached', clock)
  /\ UNCHANGED <<clock, up, heard>>

\* The same with the deferred unlock left out.
LoginFailsLocked(c) ==
  /\ pc[c] \in {"login", "reply"}
  /\ Goto(c, "idle", NoToken, 0)
  /\ UNCHANGED <<clock, up, mu, cached, heard>>

\* LoginAdmin returns an error (refused, reply lost, context cancelled): the
\* cache stays as it was, the lock is released, the caller gets the error.
LoginFails(c) ==
  /\ pc[c] \in {"login", "reply"}
  /\ mu' = Nobody
  /\ Goto(c, "idle", NoToken, 0)
  /\ UNCHANGED <<clock, up, cached, heard>>

\* The caller has made its Keycloak calls with the token.
Finish(c) ==
  /\ pc[c] = "use"
  /\ Goto(c, "idle", NoToken, 0)
  /\ UNCHANGED <<clock, up, mu, cached, heard>>

\* Keycloak goes away or comes back.
Toggle ==
  /\ up' = ~up
  /\ heard' = clock
  /\ UNCHANGED <<clock, mu, cached, pc, tok, since>>

\* Time passes, within what is assumed of logins and of the use of tokens.
Tick ==
  /\ clock < MaxTime
  /\ \A c \in Caller :
       /\ pc[c] \in {"login", "reply"} => clock < since[c] + MaxLatency
       /\ pc[c] = "use" => clock < since[c] + MaxUse
  /\ clock' = clock + 1
  /\ heard' = IF up THEN clock' ELSE heard
  /\ UNCHANGED <<up, mu, cached, pc, tok, since>>

Lock(c) == ReturnCached(c) \/ StartLogin(c)
Answer(c) == Reply(c) \/ LoginFails(c)

Next ==
  \/ \E c \in Caller :
       \/ Ask(c) \/ Lock(c) \/ Answer(c) \/ Finish(c)
       \/ \E l \in Lifetime : Issue(c, l)
  \/ Toggle \/ Tick

\* sync.Mutex hands the lock to a waiter that has starved, so a caller is not
\* passed over for ever; an HTTP call ends with a reply or with an error.
Fairness ==
  \A c \in Caller : SF_vars(Lock(c)) /\ WF_vars(Answer(c))

Spec == Init /\ [][Next]_vars
FairSpec == Spec /\ Fairness

-----------------------------------------------------------------------------
\* The types of the state.
TypeOK ==
  /\ clock \in Nat
  /\ up \in BOOLEAN
  /\ mu \in Caller \cup {Nobody}
  /\ cached \in Token \cup {NoToken}
  /\ pc \in [Caller -> {"idle", "lock", "login", "reply", "use"}]
  /\ tok \in [Caller -> Token \cup {NoToken}]
  /\ since \in [Caller -> Nat]
  /\ heard \in Nat

(***************************************************************************)
(* Logins to Keycloak are made one at a time, and only while the cache has *)
(* nothing usable: callers who waited behind a login find its token, they  *)
(* do not log in again.                                                    *)
(***************************************************************************)
LoginJustified ==
  \A c \in Caller : pc[c] \in {"login", "reply"} => mu = c /\ ~Usable

(***************************************************************************)
(* A caller is never left holding a token that Keycloak no longer accepts, *)
(* even though the cache dates the token from its arrival: the margin      *)
(* covers the latency of the login and the time of the use.                *)
(***************************************************************************)
HeldAlive == \A c \in Caller : pc[c] = "use" => clock < tok[c].exp

(***************************************************************************)
(* What a call that is given a token tells of Keycloak, and with it a      *)
(* passed check of /readyz: Keycloak has answered not longer ago than a    *)
(* lifetime less the margin, plus the latency of the login the process     *)
(* could not see; or the latency alone, when the call has logged in.       *)
(***************************************************************************)
ReadyIsRecent ==
  \A c \in Caller : pc[c] = "use" =>
    \/ since[c] <= heard + MaxLatency
    \/ \E l \in Lifetime : since[c] + Margin <= heard + l + MaxLatency

(***************************************************************************)
(* What the callers see is a TokenSource: each call is answered, and every *)
(* token outlives its use.                                                 *)
(***************************************************************************)
View(c) ==
  CASE pc[c] = "idle" -> [state |-> "idle"]
    [] pc[c] = "use" -> [state |-> "held", exp |-> tok[c].exp]
    [] OTHER -> [state |-> "asked"]

Source == INSTANCE TokenSource WITH granted <- [c \in Caller |-> View(c)]

ImplementsTokenSource == Source!Spec
=============================================================================
