---------------------------- MODULE SocialLogin ----------------------------
(***************************************************************************)
(* Social login: GET /social/login (SocialLoginURL) and GET                *)
(* /social/callback (SocialCallback and ExchangeCode, auth_keycloak.go).   *)
(*                                                                         *)
(* A login stores a state in Redis for ten minutes and sends the browser   *)
(* to Keycloak, which sends it back to the callback with a code and the    *)
(* state.  The browser may come back twice.  A state is named by the login *)
(* that generated it, a code by the login whose browser Keycloak gave it.  *)
(* One action per remote call; a call may fail before or after it has      *)
(* taken effect.                                                           *)
(***************************************************************************)
EXTENDS Integers

CONSTANTS
  Logins, Callbacks,  \* requests; each makes one call
  Provider,           \* what a login may ask for
  Allowed,            \* allowedProviders
  HasCache,           \* Redis was there when the service started
  MaxFaults,          \* bound: failed calls
  None                \* no state, no code, no provider

ASSUME NoneAssumption == None \notin Logins \cup Callbacks \cup Provider
ASSUME CacheAssumption == HasCache \in BOOLEAN
ASSUME FaultAssumption == MaxFaults \in Nat

Req == Logins \cup Callbacks

VARIABLES
  pc,        \* request -> the call it is about to make
  result,    \* request -> its answer
  provider,  \* request -> the provider a login asks for, or of stateData
  state,     \* callback -> the state it brings, or None
  grant,     \* callback -> the code it brings, or None
  stored,    \* Redis: state -> the provider stored with it, or None
  codes,     \* Keycloak: codes that can be exchanged
  events,    \* Kafka: what was emitted, a set of records
  \* History for the properties:
  kept,      \* states whose deletion failed
  aged,      \* states that ran out
  lapsed,    \* codes that ran out
  faults

request == <<provider, state, grant>>
history == <<kept, aged, lapsed>>
vars == <<pc, result, provider, state, grant, stored, codes, events, kept, aged,
          lapsed, faults>>

Result == {"none", "rejected", "failed", "redirected", "unauthorized", "tokens"}

Init ==
  /\ pc = [r \in Req |-> "start"]
  /\ result = [r \in Req |-> "none"]
  /\ provider = [r \in Req |-> None]
  /\ state = [c \in Callbacks |-> None]
  /\ grant = [c \in Callbacks |-> None]
  /\ stored = [l \in Logins |-> None]
  /\ codes = {}
  /\ events = {}
  /\ kept = {}
  /\ aged = {}
  /\ lapsed = {}
  /\ faults = 0

-----------------------------------------------------------------------------
Goto(r, l) == pc' = [pc EXCEPT ![r] = l] /\ UNCHANGED result
Answer(r, a) ==
  /\ pc' = [pc EXCEPT ![r] = "done"]
  /\ result' = [result EXCEPT ![r] = a]
Fault == faults < MaxFaults /\ faults' = faults + 1
Redirected == {l \in Logins : result[l] = "redirected"}

\* SocialLogin: the provider must be one of allowedProviders.
Login(l) ==
  /\ pc[l] = "start"
  /\ \E p \in Provider :
       /\ provider' = [provider EXCEPT ![l] = p]
       /\ IF p \in Allowed THEN Goto(l, "store") ELSE Answer(l, "rejected")
  /\ UNCHANGED <<state, grant, stored, codes, events, history, faults>>

\* One state per provider.
StoreByProvider(l) ==
  /\ pc[l] = "store"
  /\ stored' = [k \in Logins |-> IF k = l THEN provider[l]
                                ELSE IF stored[k] = provider[l] THEN None ELSE stored[k]]
  /\ Answer(l, "redirected")
  /\ UNCHANGED <<request, codes, events, history, faults>>

\* SetJSON of the state; without Redis the state is not kept anywhere.
StoreState(l) ==
  /\ pc[l] = "store"
  /\ LET put == [stored EXCEPT ![l] = provider[l]] IN
       \/ HasCache /\ stored' = put /\ Answer(l, "redirected") /\ UNCHANGED faults
       \/ ~HasCache /\ UNCHANGED stored /\ Answer(l, "redirected") /\ UNCHANGED faults
       \/ HasCache /\ stored' \in {stored, put} /\ Answer(l, "failed") /\ Fault
  /\ UNCHANGED <<request, codes, events, history>>

\* Keycloak logs the browser of l in and gives it a code.
Authorize(l) ==
  /\ l \in Redirected
  /\ l \notin codes \cup lapsed
  /\ \A c \in Callbacks : grant[c] # l
  /\ codes' = codes \cup {l}
  /\ UNCHANGED <<pc, result, request, stored, events, history, faults>>

\* SocialCallback: a request without a code or without a state goes no further.
\* A state and a code are what a browser got, or are known to nobody (None);
\* without Redis any state will do.
Callback(c) ==
  /\ pc[c] = "start"
  /\ \/ Answer(c, "rejected") /\ UNCHANGED <<state, grant>>
     \/ /\ \E s \in Redirected \cup {None}, g \in codes \cup {None} :
             state' = [state EXCEPT ![c] = s] /\ grant' = [grant EXCEPT ![c] = g]
        /\ Goto(c, IF HasCache THEN "get" ELSE "exchange")
  /\ UNCHANGED <<provider, stored, codes, events, history, faults>>

\* What Redis has for a state; nobody stored the unknown one.
Known(s) == s # None /\ stored[s] # None

\* GetJSON of the state: an error and a missing state are told alike.
GetState(c) ==
  /\ pc[c] = "get"
  /\ \/ /\ Known(state[c])
        /\ provider' = [provider EXCEPT ![c] = stored[state[c]]]
        /\ Goto(c, "delete")
        /\ UNCHANGED faults
     \/ ~Known(state[c]) /\ Answer(c, "rejected") /\ UNCHANGED <<provider, faults>>
     \/ Answer(c, "rejected") /\ Fault /\ UNCHANGED provider
  /\ UNCHANGED <<state, grant, stored, codes, events, history>>

\* The state left in place.
KeepState(c) ==
  /\ pc[c] = "delete"
  /\ Goto(c, "exchange")
  /\ UNCHANGED <<request, stored, codes, events, history, faults>>

\* Delete, its error ignored.
DeleteState(c) ==
  /\ pc[c] = "delete"
  /\ \/ stored' = [stored EXCEPT ![state[c]] = None] /\ UNCHANGED <<kept, faults>>
     \/ UNCHANGED stored /\ kept' = kept \cup {state[c]} /\ Fault
  /\ Goto(c, "exchange")
  /\ UNCHANGED <<request, codes, events, aged, lapsed>>

\* EmitAsync of auth.social.login under the key of the state.
Emit(c) ==
  events' =
    IF provider[c] = None THEN events
    ELSE events \cup {[key |-> state[c], provider |-> provider[c], by |-> c]}

\* The event emitted before the status of the reply is looked at.
EmitFirst(c) ==
  /\ pc[c] = "exchange"
  /\ codes' = codes \ {grant[c]}
  /\ Emit(c)
  /\ Answer(c, IF grant[c] \in codes THEN "tokens" ELSE "unauthorized")
  /\ UNCHANGED <<request, stored, history, faults>>

\* The code exchanged for tokens: Keycloak takes a code once.  An event is
\* emitted for a state that was read from Redis; the answer does not wait for
\* it, and it may get lost.
Exchange(c) ==
  /\ pc[c] = "exchange"
  /\ codes' = codes \ {grant[c]}
  /\ \/ /\ grant[c] \in codes /\ Answer(c, "tokens")
        /\ \/ Emit(c) /\ UNCHANGED faults
           \/ UNCHANGED events /\ Fault
     \/ grant[c] \notin codes /\ Answer(c, "unauthorized") /\ UNCHANGED <<events, faults>>
  /\ UNCHANGED <<request, stored, history>>

\* The reply thrown away with nothing written.
ExchangeUnanswered(c) ==
  /\ pc[c] = "exchange"
  /\ Goto(c, "done")
  /\ UNCHANGED <<request, stored, codes, events, history, faults>>

\* Keycloak cannot be reached, its reply cannot be read, or it has another
\* status than 200, which is told as a bad code; code and state are spent, the
\* state at least.
ExchangeFails(c) ==
  /\ pc[c] = "exchange"
  /\ Fault
  /\ codes' \in {codes, codes \ {grant[c]}}
  /\ Answer(c, "failed") \/ Answer(c, "unauthorized")
  /\ UNCHANGED <<request, stored, events, history>>

-----------------------------------------------------------------------------
\* The TTL of a state, ten minutes, and of a code.
ExpireState(l) ==
  /\ stored[l] # None
  /\ stored' = [stored EXCEPT ![l] = None]
  /\ aged' = aged \cup {l}
  /\ UNCHANGED <<pc, result, request, codes, events, kept, lapsed, faults>>

ExpireCode(l) ==
  /\ l \in codes
  /\ codes' = codes \ {l}
  /\ lapsed' = lapsed \cup {l}
  /\ UNCHANGED <<pc, result, request, stored, events, kept, aged, faults>>

Next ==
  \/ \E l \in Logins :
       Login(l) \/ StoreState(l) \/ Authorize(l) \/ ExpireState(l) \/ ExpireCode(l)
  \/ \E c \in Callbacks :
       Callback(c) \/ GetState(c) \/ DeleteState(c) \/ Exchange(c) \/ ExchangeFails(c)

Spec == Init /\ [][Next]_vars

-----------------------------------------------------------------------------
Event == [key : Logins, provider : Provider, by : Callbacks]

\* The types of the state; a request is at its end exactly when it is answered.
TypeOK ==
  /\ pc \in [Req -> {"start", "store", "get", "delete", "exchange", "done"}]
  /\ result \in [Req -> Result]
  /\ \A r \in Req : pc[r] = "done" <=> result[r] # "none"
  /\ provider \in [Req -> Provider \cup {None}]
  /\ state \in [Callbacks -> Logins \cup {None}]
  /\ grant \in [Callbacks -> Logins \cup {None}]
  /\ stored \in [Logins -> Provider \cup {None}]
  /\ codes \subseteq Logins
  /\ events \subseteq Event
  /\ kept \subseteq Logins /\ aged \subseteq Logins /\ lapsed \subseteq Logins
  /\ faults \in 0 .. MaxFaults

\* Callbacks whose state was accepted and which are at the exchange or past it.
Through ==
  {c \in Callbacks :
     pc[c] = "exchange" \/ result[c] \in {"tokens", "unauthorized", "failed"}}

(***************************************************************************)
(* Events and logins agree: with Redis only a callback that is answered    *)
(* with tokens has an event, every one has unless a call failed, and the   *)
(* event names the allowed provider which the login of its state had asked *)
(* for.                                                                    *)
(***************************************************************************)
EventsMatchLogins ==
  HasCache =>
    /\ \A e \in events : result[e.by] = "tokens"
    /\ faults = 0 =>
         \A c \in Callbacks : result[c] = "tokens" => \E e \in events : e.by = c
    /\ \A e \in events :
         e.key = state[e.by] /\ e.provider = provider[e.key] /\ e.provider \in Allowed

(***************************************************************************)
(* A callback that brings a state and a code is turned away for a reason   *)
(* only: a call failed, what it brings has run out, or another callback    *)
(* has gone through with the state or got tokens for the code.             *)
(***************************************************************************)
RejectedForAReason ==
  \A c \in Callbacks : state[c] # None /\ grant[c] # None /\ faults = 0 =>
    /\ result[c] = "rejected" =>
         state[c] \in aged \/ \E d \in Through : state[d] = state[c]
    /\ result[c] = "unauthorized" =>
         grant[c] \in lapsed
           \/ \E d \in Callbacks : result[d] = "tokens" /\ grant[d] = grant[c]

(***************************************************************************)
(* The states are one-time secrets: a callback is let in by GetJSON and    *)
(* crosses the state out by Delete.  Without Redis nothing is promised.    *)
(***************************************************************************)
Secrets ==
  INSTANCE OneTimeSecret WITH
    Client <- Callbacks,
    Secret <- Logins,
    inside <- [c \in Callbacks |-> IF pc[c] = "delete" THEN state[c] ELSE None],
    used <- [c \in Callbacks |-> IF HasCache /\ c \in Through THEN state[c] ELSE None],
    failed <- kept,
    dead <- aged
ImplementsOneTimeSecret == Secrets!Spec
=============================================================================
