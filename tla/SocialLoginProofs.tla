------------------------- MODULE SocialLoginProofs -------------------------
(***************************************************************************)
(* Theorems about SocialLogin for any number of logins, callbacks,         *)
(* providers and faults, with Redis or without.                            *)
(***************************************************************************)
EXTENDS SocialLogin, TLAPS

\* What a callback has in its hands, by the call it is about to make.
CallbackStages ==
  \A c \in Callbacks :
    /\ pc[c] \in {"start", "store"} => state[c] = None /\ grant[c] = None
    /\ pc[c] = "start" => provider[c] = None
    /\ pc[c] \in {"get", "exchange"} /\ provider[c] # None => state[c] # None
    /\ state[c] # None => state[c] \in Redirected
    /\ pc[c] = "delete" \/ (HasCache /\ pc[c] = "exchange") => state[c] # None
    /\ pc[c] \in {"get", "delete"} => HasCache
    /\ HasCache /\ pc[c] \in {"delete", "exchange"} =>
         provider[c] = provider[state[c]] /\ provider[c] \in Provider \cap Allowed

\* A state is stored with the provider its login asked for, once.
StatesKept ==
  \A l \in Logins :
    /\ pc[l] = "store" => provider[l] \in Provider \cap Allowed
    /\ stored[l] # None =>
         /\ pc[l] = "done" /\ l \notin aged
         /\ stored[l] = provider[l] /\ provider[l] \in Provider \cap Allowed
    /\ l \in aged => pc[l] = "done"

\* A callback is through only when its state is crossed out, or failed to be.
CrossedOut ==
  HasCache => \A c \in Through :
    state[c] # None => stored[state[c]] = None \/ state[c] \in kept

\* Where the state of a login and the code of a browser can have gone.
StatesGo ==
  HasCache /\ faults = 0 => \A l \in Redirected :
    stored[l] # None \/ l \in aged \/ \E d \in Through : state[d] = l
CodesGo ==
  faults = 0 => \A c \in Callbacks : grant[c] # None =>
    \/ grant[c] \in codes \/ grant[c] \in lapsed
    \/ \E d \in Callbacks : result[d] = "tokens" /\ grant[d] = grant[c]

IInv ==
  /\ TypeOK
  /\ CallbackStages
  /\ StatesKept
  /\ CrossedOut
  /\ StatesGo
  /\ CodesGo
  /\ EventsMatchLogins
  /\ RejectedForAReason

-----------------------------------------------------------------------------
\* The invariant holds at the start.
LEMMA InitInv == Init => IInv
BY FaultAssumption
   DEF Init, IInv, TypeOK, CallbackStages, StatesKept, CrossedOut, StatesGo, CodesGo,
       EventsMatchLogins, RejectedForAReason, Through, Redirected, Req, Result, Event

\* Every step preserves the types.
LEMMA StepType == 
  ASSUME TypeOK, CallbackStages, StatesKept, [Next]_vars
  PROVE  TypeOK'
<1> USE NoneAssumption, CacheAssumption, FaultAssumption
        DEF TypeOK, Req, Result, request, history, Goto, Answer, Fault
<1>1. ASSUME NEW l \in Logins, Login(l) PROVE TypeOK'
  BY <1>1 DEF Login
<1>2. ASSUME NEW l \in Logins, StoreState(l) PROVE TypeOK'
  BY <1>2 DEF StoreState
<1>3. ASSUME NEW l \in Logins, Authorize(l) PROVE TypeOK'
  BY <1>3 DEF Authorize
<1>4. ASSUME NEW l \in Logins, ExpireState(l) \/ ExpireCode(l) PROVE TypeOK'
  BY <1>4 DEF ExpireState, ExpireCode
<1>5. ASSUME NEW c \in Callbacks, Callback(c) PROVE TypeOK'
  BY <1>5 DEF Callback, Redirected
<1>6. ASSUME NEW c \in Callbacks, GetState(c) PROVE TypeOK'
  BY <1>6 DEF GetState, Known, CallbackStages, Redirected
<1>7. ASSUME NEW c \in Callbacks, DeleteState(c) PROVE TypeOK'
  BY <1>7 DEF DeleteState, CallbackStages, Redirected
<1>8. ASSUME NEW c \in Callbacks, Exchange(c) PROVE TypeOK'
  <2>1. events' \subseteq Event
    BY <1>8 DEF Exchange, Emit, Event, CallbackStages, Redirected
  <2> QED
    BY <1>8, <2>1 DEF Exchange
<1>9. ASSUME NEW c \in Callbacks, ExchangeFails(c) PROVE TypeOK'
  BY <1>9 DEF ExchangeFails
<1>10. CASE UNCHANGED vars
  BY <1>10 DEF vars
<1> QED
  BY <1>1, <1>2, <1>3, <1>4, <1>5, <1>6, <1>7, <1>8, <1>9, <1>10 DEF Next

\* What is done stays as it is.
LEMMA DoneStays ==
  ASSUME TypeOK, [Next]_vars
  PROVE  /\ \A r \in Req : pc[r] = "done" =>
              pc'[r] = "done" /\ result'[r] = result[r] /\ provider'[r] = provider[r]
         /\ \A c \in Callbacks : pc[c] # "start" => state'[c] = state[c] /\ grant'[c] = grant[c]
<1> DEFINE Goal ==
         /\ \A r \in Req : pc[r] = "done" =>
              pc'[r] = "done" /\ result'[r] = result[r] /\ provider'[r] = provider[r]
         /\ \A c \in Callbacks : pc[c] # "start" => state'[c] = state[c] /\ grant'[c] = grant[c]
<1> USE DEF TypeOK, Req, request, history, Goto, Answer
<1>1. ASSUME NEW l \in Logins, Login(l) \/ StoreState(l) PROVE Goal
  BY <1>1 DEF Login, StoreState
<1>2. ASSUME NEW l \in Logins, Authorize(l) \/ ExpireState(l) \/ ExpireCode(l) PROVE Goal
  BY <1>2 DEF Authorize, ExpireState, ExpireCode
<1>3. ASSUME NEW c \in Callbacks, Callback(c) PROVE Goal
  BY <1>3 DEF Callback
<1>4. ASSUME NEW c \in Callbacks, GetState(c) \/ DeleteState(c) PROVE Goal
  BY <1>4 DEF GetState, DeleteState
<1>5. ASSUME NEW c \in Callbacks, Exchange(c) \/ ExchangeFails(c) PROVE Goal
  BY <1>5 DEF Exchange, ExchangeFails
<1>6. CASE UNCHANGED vars
  BY <1>6 DEF vars
<1> QED
  BY <1>1, <1>2, <1>3, <1>4, <1>5, <1>6 DEF Next

\* Who is through stays through, and only the deletion of a state lets through.
LEMMA ThroughGrows ==
  ASSUME TypeOK, CallbackStages, [Next]_vars
  PROVE  /\ \A c \in Through : c \in Through' /\ state'[c] = state[c]
         /\ HasCache => \A d \in Through' \ Through : state'[d] # None =>
              pc[d] = "delete" /\ (stored'[state[d]] = None \/ state[d] \in kept')
<1> DEFINE Goal ==
         /\ \A c \in Through : c \in Through'
         /\ HasCache => \A d \in Through' \ Through : state'[d] # None =>
              pc[d] = "delete" /\ (stored'[state[d]] = None \/ state[d] \in kept')
<1>0. \A c \in Through : state'[c] = state[c]
  BY DoneStays DEF Through, TypeOK, Req
<1> USE DEF TypeOK, Req, request, history, Goto, Answer, Through
<1>1. ASSUME NEW l \in Logins, Login(l) PROVE Goal
  BY <1>1 DEF Login
<1>2. ASSUME NEW l \in Logins, StoreState(l) PROVE Goal
  BY <1>2 DEF StoreState, CallbackStages
<1>3. ASSUME NEW l \in Logins, Authorize(l) \/ ExpireState(l) \/ ExpireCode(l) PROVE Goal
  BY <1>3 DEF Authorize, ExpireState, ExpireCode
<1>4. ASSUME NEW c \in Callbacks, Callback(c) PROVE Goal
  BY <1>4 DEF Callback
<1>5. ASSUME NEW c \in Callbacks, GetState(c) PROVE Goal
  BY <1>5 DEF GetState
<1>6. ASSUME NEW c \in Callbacks, DeleteState(c) PROVE Goal
  BY <1>6 DEF DeleteState, CallbackStages
<1>7. ASSUME NEW c \in Callbacks, Exchange(c) PROVE Goal
  BY <1>7 DEF Exchange
<1>8. ASSUME NEW c \in Callbacks, ExchangeFails(c) PROVE Goal
  BY <1>8 DEF ExchangeFails
<1>9. CASE UNCHANGED vars
  BY <1>9 DEF vars
<1> QED
  BY <1>0, <1>1, <1>2, <1>3, <1>4, <1>5, <1>6, <1>7, <1>8, <1>9 DEF Next

\* Every step preserves what a request has in its hands.
LEMMA StepStages ==
  ASSUME TypeOK, CallbackStages, StatesKept, [Next]_vars
  PROVE  CallbackStages'
<1> USE NoneAssumption
        DEF TypeOK, Req, Result, CallbackStages, Redirected, request, history, Goto, Answer
<1>0. \A r \in Req : pc[r] = "done" =>
        pc'[r] = "done" /\ result'[r] = result[r] /\ provider'[r] = provider[r]
  BY DoneStays
<1>1. ASSUME NEW l \in Logins, Login(l) PROVE CallbackStages'
  BY <1>0, <1>1 DEF Login
<1>2. ASSUME NEW l \in Logins, StoreState(l) PROVE CallbackStages'
  BY <1>0, <1>2 DEF StoreState
<1>3. ASSUME NEW l \in Logins, Authorize(l) \/ ExpireState(l) \/ ExpireCode(l)
      PROVE  CallbackStages'
  BY <1>3 DEF Authorize, ExpireState, ExpireCode
<1>4. ASSUME NEW c \in Callbacks, Callback(c) PROVE CallbackStages'
  BY <1>0, <1>4 DEF Callback
<1>5. ASSUME NEW c \in Callbacks, GetState(c) PROVE CallbackStages'
  BY <1>0, <1>5 DEF GetState, Known, StatesKept
<1>6. ASSUME NEW c \in Callbacks, DeleteState(c) PROVE CallbackStages'
  BY <1>0, <1>6 DEF DeleteState
<1>7. ASSUME NEW c \in Callbacks, Exchange(c) PROVE CallbackStages'
  BY <1>0, <1>7 DEF Exchange
<1>8. ASSUME NEW c \in Callbacks, ExchangeFails(c) PROVE CallbackStages'
  BY <1>0, <1>8 DEF ExchangeFails
<1>9. CASE UNCHANGED vars
  BY <1>9 DEF vars
<1> QED
  BY <1>1, <1>2, <1>3, <1>4, <1>5, <1>6, <1>7, <1>8, <1>9 DEF Next

\* Every step preserves that a state is kept with the provider of its login.
LEMMA StepKept ==
  ASSUME TypeOK, CallbackStages, StatesKept, [Next]_vars
  PROVE  StatesKept'
<1> USE NoneAssumption
        DEF TypeOK, Req, Result, StatesKept, request, history, Goto, Answer
<1>1. ASSUME NEW l \in Logins, Login(l) PROVE StatesKept'
  BY <1>1 DEF Login
<1>2. ASSUME NEW l \in Logins, StoreState(l) PROVE StatesKept'
  BY <1>2 DEF StoreState
<1>3. ASSUME NEW l \in Logins, Authorize(l) PROVE StatesKept'
  BY <1>3 DEF Authorize
<1>4. ASSUME NEW l \in Logins, ExpireState(l) \/ ExpireCode(l) PROVE StatesKept'
  BY <1>4 DEF ExpireState, ExpireCode
<1>5. ASSUME NEW c \in Callbacks, Callback(c) PROVE StatesKept'
  BY <1>5 DEF Callback
<1>6. ASSUME NEW c \in Callbacks, GetState(c) PROVE StatesKept'
  BY <1>6 DEF GetState
<1>7. ASSUME NEW c \in Callbacks, DeleteState(c) PROVE StatesKept'
  BY <1>7 DEF DeleteState
<1>8. ASSUME NEW c \in Callbacks, Exchange(c) \/ ExchangeFails(c) PROVE StatesKept'
  BY <1>8 DEF Exchange, ExchangeFails
<1>9. CASE UNCHANGED vars
  BY <1>9 DEF vars
<1> QED
  BY <1>1, <1>2, <1>3, <1>4, <1>5, <1>6, <1>7, <1>8, <1>9 DEF Next

\* A state that was crossed out, or kept, does not come back: its login is done.
LEMMA StepCrossed ==
  ASSUME TypeOK, CallbackStages, StatesKept, CrossedOut, [Next]_vars
  PROVE  CrossedOut'
<1> SUFFICES ASSUME HasCache, NEW c \in Through', state'[c] # None
             PROVE  stored'[state'[c]] = None \/ state'[c] \in kept'
  BY DEF CrossedOut
<1>1. /\ kept \subseteq kept'
      /\ \A l \in Logins : pc[l] = "done" /\ stored[l] = None => stored'[l] = None
  <2> USE DEF TypeOK, Req, request, history, Goto, Answer
  <2>1. ASSUME NEW l \in Logins,
               Login(l) \/ StoreState(l) \/ Authorize(l) \/ ExpireState(l) \/ ExpireCode(l)
        PROVE  /\ kept \subseteq kept'
               /\ \A k \in Logins : pc[k] = "done" /\ stored[k] = None => stored'[k] = None
    BY <2>1 DEF Login, StoreState, Authorize, ExpireState, ExpireCode
  <2>2. ASSUME NEW d \in Callbacks,
               Callback(d) \/ GetState(d) \/ DeleteState(d) \/ Exchange(d) \/ ExchangeFails(d)
        PROVE  /\ kept \subseteq kept'
               /\ \A k \in Logins : pc[k] = "done" /\ stored[k] = None => stored'[k] = None
    BY <2>2 DEF Callback, GetState, DeleteState, Exchange, ExchangeFails
  <2>3. CASE UNCHANGED vars
    BY <2>3 DEF vars
  <2> QED
    BY <2>1, <2>2, <2>3 DEF Next
<1>2. c \in Callbacks
  BY DEF Through
<1>3. CASE c \in Through
  <2>1. state'[c] = state[c] /\ (stored[state[c]] = None \/ state[c] \in kept)
    BY <1>3, ThroughGrows DEF CrossedOut
  <2>2. state[c] \in Logins /\ pc[state[c]] = "done"
    BY <1>2, <2>1 DEF CallbackStages, Redirected, TypeOK, Req
  <2> QED
    BY <1>1, <2>1, <2>2
<1>4. CASE c \notin Through
  <2>1. pc[c] = "delete" /\ (stored'[state[c]] = None \/ state[c] \in kept')
    BY <1>4, ThroughGrows
  <2>2. state'[c] = state[c]
    BY <1>2, <2>1, DoneStays
  <2> QED
    BY <2>1, <2>2
<1> QED
  BY <1>3, <1>4

\* Without a failed call a state leaves Redis by its TTL or by a callback that
\* deletes it and goes on.
LEMMA StepStatesGo ==
  ASSUME TypeOK, CallbackStages, StatesKept, StatesGo, [Next]_vars
  PROVE  StatesGo'
<1> SUFFICES ASSUME HasCache, faults' = 0, NEW l \in Redirected'
             PROVE  stored'[l] # None \/ l \in aged' \/ \E d \in Through' : state'[d] = l
  BY DEF StatesGo
<1> DEFINE Goal == stored'[l] # None \/ l \in aged' \/ \E d \in Through' : state'[d] = l
<1>0. l \in Logins /\ result'[l] = "redirected"
  BY DEF Redirected
<1>1. ASSUME NEW k \in Logins, Login(k) PROVE l \in Redirected /\ UNCHANGED <<faults, stored, aged>>
  BY <1>0, <1>1 DEF Login, TypeOK, Req, Redirected, Goto, Answer, history
<1>2. ASSUME NEW k \in Logins, StoreState(k), l \notin Redirected PROVE Goal
  BY <1>0, <1>2, NoneAssumption
     DEF StoreState, StatesKept, TypeOK, Req, Redirected, Answer, Fault
<1>3. ASSUME NEW k \in Logins, StoreState(k), l \in Redirected
      PROVE  faults = 0 /\ (stored[l] # None => stored'[l] # None) /\ aged' = aged
  <2>1. k # l
    BY <1>0, <1>3 DEF StoreState, TypeOK, Req, Redirected
  <2> QED
    BY <1>0, <1>3, <2>1 DEF StoreState, TypeOK, Fault, history
<1>4. ASSUME NEW k \in Logins, Authorize(k) \/ ExpireState(k) \/ ExpireCode(k)
      PROVE  /\ faults = 0 /\ l \in Redirected /\ aged \subseteq aged'
             /\ stored[l] # None => stored'[l] # None \/ l \in aged'
  BY <1>0, <1>4 DEF Authorize, ExpireState, ExpireCode, TypeOK, Redirected, history, request
<1>5. ASSUME NEW c \in Callbacks, Callback(c) \/ GetState(c) \/ Exchange(c) \/ ExchangeFails(c)
      PROVE  faults = 0 /\ l \in Redirected /\ UNCHANGED <<stored, aged>>
  <2>1. faults = 0 /\ UNCHANGED <<stored, aged>>
    BY <1>5, FaultAssumption DEF Callback, GetState, Exchange, ExchangeFails, TypeOK, Fault, history
  <2>2. result[l] = "redirected"
    BY <1>0, <1>5 DEF Callback, GetState, Exchange, ExchangeFails, TypeOK, Req, Goto, Answer
  <2> QED
    BY <1>0, <2>1, <2>2 DEF Redirected
<1>6. ASSUME NEW c \in Callbacks, DeleteState(c)
      PROVE  /\ faults = 0 /\ l \in Redirected /\ aged' = aged
             /\ stored[l] # None => stored'[l] # None \/ \E d \in Through' : state'[d] = l
  <2>1. faults = 0 /\ UNCHANGED <<result, state, aged>> /\ stored' = [stored EXCEPT ![state[c]] = None]
          /\ pc'[c] = "exchange"
    BY <1>6, FaultAssumption DEF DeleteState, TypeOK, Req, Fault, Goto, request
  <2>2. c \in Through'
    BY <2>1 DEF Through
  <2> QED
    BY <1>0, <2>1, <2>2 DEF Redirected, TypeOK
<1>7. CASE UNCHANGED vars
  BY <1>7 DEF vars, StatesGo, Redirected, Through
<1>8. CASE /\ faults = 0 /\ l \in Redirected /\ aged \subseteq aged'
           /\ stored[l] # None => Goal
  <2>1. stored[l] # None \/ l \in aged \/ \E d \in Through : state[d] = l
    BY <1>8 DEF StatesGo
  <2>2. CASE \E d \in Through : state[d] = l
    BY <2>2, ThroughGrows
  <2> QED
    BY <1>8, <2>1, <2>2
<1> QED
  BY <1>1, <1>2, <1>3, <1>4, <1>5, <1>6, <1>7, <1>8 DEF Next

\* A code comes back from Keycloak once; it is exchanged or runs out.
LEMMA StepCodesGo ==
  ASSUME TypeOK, CallbackStages, CodesGo, [Next]_vars
  PROVE  CodesGo'
<1> SUFFICES ASSUME faults' = 0, NEW c \in Callbacks, grant'[c] # None
             PROVE  \/ grant'[c] \in codes' \/ grant'[c] \in lapsed'
                    \/ \E d \in Callbacks : result'[d] = "tokens" /\ grant'[d] = grant'[c]
  BY DEF CodesGo
<1> DEFINE Goal == \/ grant'[c] \in codes' \/ grant'[c] \in lapsed'
                   \/ \E d \in Callbacks : result'[d] = "tokens" /\ grant'[d] = grant'[c]
<1> USE FaultAssumption
        DEF TypeOK, Req, CodesGo, request, history, Goto, Answer, Fault
<1>0. faults = 0 /\ lapsed \subseteq lapsed'
  BY DEF Next, vars, Login, StoreState, Authorize, ExpireState, ExpireCode, Callback,
         GetState, DeleteState, Exchange, ExchangeFails
<1>1. \A d \in Callbacks : result[d] = "tokens" => result'[d] = "tokens" /\ grant'[d] = grant[d]
  BY DoneStays
<1>2. ASSUME NEW l \in Logins, Login(l) \/ StoreState(l) \/ Authorize(l) \/ ExpireState(l)
      PROVE  grant' = grant /\ codes \subseteq codes'
  BY <1>2 DEF Login, StoreState, Authorize, ExpireState
<1>3. ASSUME NEW l \in Logins, ExpireCode(l)
      PROVE  grant' = grant /\ codes \subseteq codes' \cup lapsed'
  BY <1>3 DEF ExpireCode
<1>4. ASSUME NEW d \in Callbacks, Callback(d)
      PROVE  grant'[c] \in codes' \/ (grant'[c] = grant[c] /\ codes' = codes)
  BY <1>4 DEF Callback
<1>5. ASSUME NEW d \in Callbacks, GetState(d) \/ DeleteState(d)
      PROVE  grant' = grant /\ codes' = codes
  BY <1>5 DEF GetState, DeleteState
<1>6. ASSUME NEW d \in Callbacks, Exchange(d)
      PROVE  /\ grant' = grant
             /\ grant[c] \in codes =>
                  grant[c] \in codes' \/ (result'[d] = "tokens" /\ grant[d] = grant[c])
  BY <1>6 DEF Exchange
<1>7. ASSUME NEW d \in Callbacks, ExchangeFails(d) PROVE FALSE
  BY <1>7 DEF ExchangeFails
<1>8. CASE UNCHANGED vars
  BY <1>8 DEF vars
<1>9. CASE grant'[c] = grant[c] /\ (grant[c] \in codes => Goal)
  BY <1>0, <1>1, <1>9
<1> QED
  BY <1>2, <1>3, <1>4, <1>5, <1>6, <1>7, <1>8, <1>9 DEF Next

\* A callback is turned away when the state or the code is gone, and those go
\* as StatesGo and CodesGo say.
LEMMA StepRejected ==
  ASSUME TypeOK, CallbackStages, StatesKept, StatesGo, CodesGo, RejectedForAReason,
         [Next]_vars
  PROVE  RejectedForAReason'
<1> SUFFICES ASSUME NEW c \in Callbacks, state'[c] # None, grant'[c] # None, faults' = 0
             PROVE  /\ result'[c] = "rejected" =>
                         state'[c] \in aged' \/ \E d \in Through' : state'[d] = state'[c]
                    /\ result'[c] = "unauthorized" =>
                         \/ grant'[c] \in lapsed'
                         \/ \E d \in Callbacks : result'[d] = "tokens" /\ grant'[d] = grant'[c]
  BY DEF RejectedForAReason
<1>0. faults = 0 /\ aged \subseteq aged' /\ lapsed \subseteq lapsed'
  BY FaultAssumption
     DEF Next, vars, Login, StoreState, Authorize, ExpireState, ExpireCode, Callback,
         GetState, DeleteState, Exchange, ExchangeFails, TypeOK, Fault, history
<1>1. \A d \in Callbacks : result[d] = "tokens" => result'[d] = "tokens" /\ grant'[d] = grant[d]
  BY DoneStays DEF TypeOK, Req
<1>2. \A d \in Through : d \in Through' /\ state'[d] = state[d]
  BY ThroughGrows
<1>3. CASE pc[c] = "done"
  <2>1. result'[c] = result[c] /\ state'[c] = state[c] /\ grant'[c] = grant[c]
    BY <1>3, DoneStays DEF Req
  <2> QED
    BY <1>0, <1>1, <1>2, <2>1 DEF RejectedForAReason
<1>4. ASSUME pc[c] # "done", result'[c] = "rejected"
      PROVE  state'[c] \in aged' \/ \E d \in Through' : state'[d] = state'[c]
  <2> USE <1>4 DEF TypeOK, Req, Goto, Answer
  <2>1. \/ pc[c] = "get" /\ HasCache /\ ~Known(state[c])
        \/ state'[c] = None
    <3>1. ASSUME NEW l \in Logins, Login(l) PROVE state'[c] = None
      BY <3>1 DEF Login, CallbackStages
    <3>2. ASSUME NEW l \in Logins,
                 StoreState(l) \/ Authorize(l) \/ ExpireState(l) \/ ExpireCode(l)
          PROVE  FALSE
      BY <3>2 DEF StoreState, Authorize, ExpireState, ExpireCode
    <3>3. ASSUME NEW d \in Callbacks, Callback(d) PROVE state'[c] = None
      BY <3>3 DEF Callback, CallbackStages
    <3>4. ASSUME NEW d \in Callbacks, GetState(d)
          PROVE  pc[c] = "get" /\ HasCache /\ ~Known(state[c])
      BY <1>0, <3>4, FaultAssumption DEF GetState, CallbackStages, Fault
    <3>5. ASSUME NEW d \in Callbacks, DeleteState(d) \/ Exchange(d) \/ ExchangeFails(d)
          PROVE  FALSE
      BY <3>5 DEF DeleteState, Exchange, ExchangeFails
    <3>6. CASE UNCHANGED vars
      BY <3>6 DEF vars
    <3> QED
      BY <3>1, <3>2, <3>3, <3>4, <3>5, <3>6 DEF Next
  <2>2. pc[c] = "get" /\ HasCache /\ stored[state[c]] = None /\ state'[c] = state[c]
    BY <2>1, DoneStays DEF Known
  <2>3. state[c] \in Redirected
    BY <2>2 DEF CallbackStages
  <2>4. state[c] \in aged \/ \E d \in Through : state[d] = state[c]
    BY <1>0, <2>2, <2>3 DEF StatesGo
  <2> QED
    BY <1>0, <1>2, <2>2, <2>4
<1>5. ASSUME pc[c] # "done", result'[c] = "unauthorized"
      PROVE  \/ grant'[c] \in lapsed'
             \/ \E d \in Callbacks : result'[d] = "tokens" /\ grant'[d] = grant'[c]
  <2> USE <1>5 DEF TypeOK, Req, Goto, Answer
  <2>1. pc[c] = "exchange" /\ grant[c] \notin codes
    <3>1. ASSUME NEW l \in Logins,
                 Login(l) \/ StoreState(l) \/ Authorize(l) \/ ExpireState(l) \/ ExpireCode(l)
          PROVE  FALSE
      BY <3>1 DEF Login, StoreState, Authorize, ExpireState, ExpireCode
    <3>2. ASSUME NEW d \in Callbacks,
                 Callback(d) \/ GetState(d) \/ DeleteState(d) \/ ExchangeFails(d)
          PROVE  FALSE
      BY <1>0, <3>2, FaultAssumption DEF Callback, GetState, DeleteState, ExchangeFails, Fault
    <3>3. ASSUME NEW d \in Callbacks, Exchange(d)
          PROVE  pc[c] = "exchange" /\ grant[c] \notin codes
      BY <3>3 DEF Exchange
    <3>4. CASE UNCHANGED vars
      BY <3>4 DEF vars
    <3> QED
      BY <3>1, <3>2, <3>3, <3>4 DEF Next
  <2>2. grant'[c] = grant[c]
    BY <2>1, DoneStays
  <2> QED
    BY <1>0, <1>1, <2>1, <2>2 DEF CodesGo
<1> QED
  BY <1>3, <1>4, <1>5

\* An event is emitted by the step that answers; what it names stays.
LEMMA StepEvents ==
  ASSUME TypeOK, TypeOK', CallbackStages, EventsMatchLogins, [Next]_vars
  PROVE  EventsMatchLogins'
<1> SUFFICES ASSUME HasCache
             PROVE  EventsMatchLogins'
  BY DEF EventsMatchLogins
<1> USE DEF TypeOK, Req, Goto, Answer, Fault, request, history
<1>0. faults' = 0 => faults = 0
  BY FaultAssumption
     DEF Next, vars, Login, StoreState, Authorize, ExpireState, ExpireCode, Callback,
         GetState, DeleteState, Exchange, ExchangeFails
<1>1. \A e \in events :
        /\ e.by \in Callbacks /\ result[e.by] = "tokens"
        /\ e.key = state[e.by] /\ e.provider = provider[e.key] /\ e.provider \in Allowed
  BY DEF EventsMatchLogins, Event
<1>2. ASSUME NEW e \in events
      PROVE  /\ result'[e.by] = "tokens"
             /\ e.key = state'[e.by] /\ e.provider = provider'[e.key]
             /\ e.provider \in Allowed
  <2>1. e.by \in Callbacks /\ result[e.by] = "tokens" /\ e.key \in Logins
    BY <1>1 DEF Event
  <2>2. result'[e.by] = result[e.by] /\ state'[e.by] = state[e.by]
    BY <2>1, DoneStays
  <2>3. pc[e.key] = "done"
    BY <1>1, <2>1, NoneAssumption DEF CallbackStages, Redirected
  <2>4. provider'[e.key] = provider[e.key]
    BY <2>1, <2>3, DoneStays
  <2> QED
    BY <1>1, <2>1, <2>2, <2>4
<1>3. CASE events' = events
           /\ \A c \in Callbacks : faults' = 0 /\ result'[c] = "tokens" => result[c] = "tokens"
  BY <1>0, <1>1, <1>2, <1>3 DEF EventsMatchLogins
<1>4. ASSUME NEW l \in Logins,
             Login(l) \/ StoreState(l) \/ Authorize(l) \/ ExpireState(l) \/ ExpireCode(l)
      PROVE  /\ events' = events
             /\ \A c \in Callbacks : result'[c] = "tokens" => result[c] = "tokens"
  BY <1>4 DEF Login, StoreState, Authorize, ExpireState, ExpireCode
<1>5. ASSUME NEW d \in Callbacks,
             Callback(d) \/ GetState(d) \/ DeleteState(d) \/ ExchangeFails(d)
      PROVE  /\ events' = events
             /\ \A c \in Callbacks : result'[c] = "tokens" => result[c] = "tokens"
  BY <1>5 DEF Callback, GetState, DeleteState, ExchangeFails
<1>6. ASSUME NEW d \in Callbacks, Exchange(d), grant[d] \notin codes \/ events' = events
      PROVE  /\ events' = events
             /\ \A c \in Callbacks : faults' = 0 /\ result'[c] = "tokens" => result[c] = "tokens"
  <2>1. CASE grant[d] \notin codes
    BY <1>6, <2>1 DEF Exchange
  <2>2. CASE grant[d] \in codes /\ Fault
    BY <1>6, <2>2, FaultAssumption DEF Exchange
  <2>3. CASE grant[d] \in codes /\ Emit(d) /\ events' = events
    <3>1. provider[d] # None
      BY <1>6, NoneAssumption DEF Exchange, CallbackStages
    <3>2. [key |-> state[d], provider |-> provider[d], by |-> d] \in events
      BY <2>3, <3>1 DEF Emit
    <3>3. result[d] = "tokens"
      BY <1>1, <3>2
    <3> QED
      BY <1>6, <3>3 DEF Exchange
  <2> QED
    BY <1>6, <2>1, <2>2, <2>3 DEF Exchange
<1>7. ASSUME NEW d \in Callbacks, Exchange(d), grant[d] \in codes, events' # events
      PROVE  EventsMatchLogins'
  <2> DEFINE new == [key |-> state[d], provider |-> provider[d], by |-> d]
  <2>1. pc[d] = "exchange" /\ UNCHANGED <<state, provider>>
          /\ result' = [result EXCEPT ![d] = "tokens"]
    BY <1>7 DEF Exchange
  <2>2. provider[d] = provider[state[d]] /\ provider[d] \in Provider \cap Allowed
    BY <2>1 DEF CallbackStages
  <2>3. events' = events \cup {new}
    BY <1>7, <2>2, NoneAssumption DEF Exchange, Emit
  <2>4. new.key = state[d] /\ new.provider = provider[d] /\ new.by = d
    OBVIOUS
  <2> HIDE DEF new
  <2>5. \A c \in Callbacks : result'[c] = "tokens" => c = d \/ result[c] = "tokens"
    BY <2>1
  <2> QED
    BY <1>0, <1>2, <2>1, <2>2, <2>3, <2>4, <2>5 DEF EventsMatchLogins
<1>8. CASE UNCHANGED vars
  BY <1>3, <1>8 DEF vars
<1> QED
  BY <1>3, <1>4, <1>5, <1>6, <1>7, <1>8 DEF Next

-----------------------------------------------------------------------------
\* Every step preserves the invariant.
LEMMA StepInv == IInv /\ [Next]_vars => IInv'
<1> SUFFICES ASSUME IInv, [Next]_vars PROVE IInv'
  OBVIOUS
<1>1. TypeOK' /\ CallbackStages' /\ StatesKept' /\ CrossedOut'
  BY StepType, StepStages, StepKept, StepCrossed DEF IInv
<1>2. StatesGo' /\ CodesGo' /\ RejectedForAReason' /\ EventsMatchLogins'
  BY <1>1, StepStatesGo, StepCodesGo, StepRejected, StepEvents DEF IInv
<1> QED
  BY <1>1, <1>2 DEF IInv

\* The invariant always holds.
LEMMA Invariance == Spec => []IInv
BY InitInv, StepInv, PTL DEF Spec

\* In every state the variables have their types, and a request is at its end
\* exactly when it is answered.
THEOREM TypeCorrect == Spec => []TypeOK
<1>1. IInv => TypeOK
  BY DEF IInv
<1> QED
  BY <1>1, Invariance, PTL

\* The events that reach Kafka are of callbacks answered with tokens, of all of
\* them unless a call failed, and name the provider the login had asked for.
THEOREM EventsAreLogins == Spec => []EventsMatchLogins
<1>1. IInv => EventsMatchLogins
  BY DEF IInv
<1> QED
  BY <1>1, Invariance, PTL

\* No callback is turned away without a failure, a TTL or another callback that
\* has used the state or the code.
THEOREM RejectionsHaveReasons == Spec => []RejectedForAReason
<1>1. IInv => RejectedForAReason
  BY DEF IInv
<1> QED
  BY <1>1, Invariance, PTL

-----------------------------------------------------------------------------
\* The mapping of the abstract variables, as SocialLogin gives it.
Inside == [c \in Callbacks |-> IF pc[c] = "delete" THEN state[c] ELSE None]
Used == [c \in Callbacks |-> IF HasCache /\ c \in Through THEN state[c] ELSE None]

\* The initial states are initial for the secrets.
LEMMA RefinesInit == Init => Secrets!Init
BY DEF Init, Secrets!Init, Through, Req

\* GetJSON of a state that is there lets the callback in.
LEMMA RefinesGetState ==
  ASSUME IInv, NEW c \in Callbacks, GetState(c)
  PROVE  [Secrets!Next]_(Secrets!vars)
<1> USE DEF IInv, TypeOK, Req, Goto, Answer, request, history
<1>1. UNCHANGED <<kept, aged, state>> /\ pc[c] = "get" /\ HasCache
        /\ result[c] = "none"
  BY DEF GetState, CallbackStages
<1>2. CASE Known(state[c]) /\ Goto(c, "delete")
  <2>1. pc' = [pc EXCEPT ![c] = "delete"] /\ result' = result
    BY <1>2
  <2>2. Through' = Through /\ c \notin Through
    BY <1>1, <2>1 DEF Through
  <2>3. Used' = Used /\ Used[c] = None /\ Inside[c] = None
    BY <1>1, <2>2 DEF Used, Inside
  <2>4. Inside' = [Inside EXCEPT ![c] = state[c]]
    BY <1>1, <2>1 DEF Inside
  <2>5. state[c] \in Logins /\ stored[state[c]] # None
    BY <1>2 DEF Known
  <2>6. state[c] \notin aged
    BY <2>5 DEF StatesKept
  <2>7. state[c] \in kept \/ \A d \in Callbacks : Used[d] # state[c]
    BY <1>1, <2>5, NoneAssumption DEF CrossedOut, Used
  <2> QED
    BY <1>1, <2>3, <2>4, <2>5, <2>6, <2>7
       DEF Secrets!Next, Secrets!LetIn, Secrets!Good, Secrets!vars, Inside, Used
<1>3. CASE Answer(c, "rejected")
  <2>1. Through' = Through
    BY <1>1, <1>3 DEF Through
  <2>2. Used' = Used /\ Inside' = Inside
    BY <1>1, <1>3, <2>1 DEF Used, Inside
  <2> QED
    BY <1>1, <2>2 DEF Secrets!vars, Used, Inside
<1> QED
  BY <1>2, <1>3 DEF GetState

\* Delete crosses the state out, whether or not Redis does as it is told.
LEMMA RefinesDeleteState ==
  ASSUME IInv, NEW c \in Callbacks, DeleteState(c)
  PROVE  Secrets!CrossOut(c)
<1> USE DEF IInv, TypeOK, Req, Goto, request
<1>1. /\ pc[c] = "delete" /\ HasCache /\ state[c] \in Logins
      /\ pc' = [pc EXCEPT ![c] = "exchange"]
      /\ UNCHANGED <<result, state, aged>>
      /\ kept' \in {kept, kept \cup {state[c]}}
  BY NoneAssumption DEF DeleteState, CallbackStages
<1>2. Through' = Through \cup {c}
  BY <1>1 DEF Through
<1>3. Inside[c] = state[c] /\ state[c] # None
  BY <1>1, NoneAssumption DEF Inside
<1>4. Inside' = [Inside EXCEPT ![c] = None] /\ Used' = [Used EXCEPT ![c] = Inside[c]]
  BY <1>1, <1>2, <1>3 DEF Inside, Used
<1> QED
  BY <1>1, <1>3, <1>4 DEF Secrets!CrossOut, Inside, Used

\* The other steps leave what is promised alone, but a TTL that runs out.
LEMMA RefinesOthers ==
  ASSUME IInv, [Next]_vars, \A c \in Callbacks : ~GetState(c) /\ ~DeleteState(c)
  PROVE  [Secrets!Next]_(Secrets!vars)
<1>0. TypeOK /\ TypeOK' /\ CallbackStages
  BY StepInv DEF IInv
<1>1. /\ \A c \in Callbacks : pc'[c] = "delete" <=> pc[c] = "delete"
      /\ kept' = kept
      /\ aged' = aged \/ \E l \in Logins : aged' = aged \cup {l}
  <2> USE <1>0 DEF TypeOK, Req, Goto, Answer, history
  <2>1. ASSUME NEW l \in Logins, Login(l) \/ StoreState(l) \/ Authorize(l)
        PROVE  (\A c \in Callbacks : pc'[c] = "delete" <=> pc[c] = "delete")
                 /\ kept' = kept /\ aged' = aged
    BY <2>1 DEF Login, StoreState, Authorize
  <2>2. ASSUME NEW l \in Logins, ExpireState(l) \/ ExpireCode(l)
        PROVE  pc' = pc /\ kept' = kept /\ (aged' = aged \/ aged' = aged \cup {l})
    BY <2>2 DEF ExpireState, ExpireCode
  <2>3. ASSUME NEW d \in Callbacks, Callback(d) \/ Exchange(d) \/ ExchangeFails(d)
        PROVE  (\A c \in Callbacks : pc'[c] = "delete" <=> pc[c] = "delete")
                 /\ kept' = kept /\ aged' = aged
    BY <2>3 DEF Callback, Exchange, ExchangeFails
  <2>4. CASE UNCHANGED vars
    BY <2>4 DEF vars
  <2> QED
    BY <2>1, <2>2, <2>3, <2>4 DEF Next
<1>2. Inside' = Inside
  <2>1. \A c \in Callbacks : pc[c] = "delete" => state'[c] = state[c]
    BY <1>0, DoneStays
  <2> QED
    BY <1>1, <2>1 DEF Inside
<1>3. Used' = Used
  <2>1. ASSUME HasCache, NEW c \in Through
        PROVE  c \in Through' /\ state'[c] = state[c]
    BY <1>0, <2>1, ThroughGrows
  <2>2. ASSUME HasCache, NEW c \in Through' \ Through
        PROVE  state'[c] = None
    <3>1. state'[c] # None => pc[c] = "delete" /\ c \in Callbacks
      BY <1>0, <2>2, ThroughGrows DEF Through
    <3>2. pc'[c] # "delete"
      BY <1>0, <2>2 DEF Through, TypeOK, Req
    <3> QED
      BY <1>1, <3>1, <3>2
  <2> QED
    BY <2>1, <2>2 DEF Used
<1> QED
  BY <1>1, <1>2, <1>3
     DEF Secrets!Next, Secrets!RunOut, Secrets!vars, Inside, Used

\* The states are one-time secrets: GetJSON lets a callback in, Delete crosses
\* the state out, and nobody is let in with a state another callback crossed
\* out while Redis did as it was told.
THEOREM StatesAreOneTimeSecrets == Spec => ImplementsOneTimeSecret
<1>1. IInv /\ [Next]_vars => [Secrets!Next]_(Secrets!vars)
  <2> SUFFICES ASSUME IInv, [Next]_vars PROVE [Secrets!Next]_(Secrets!vars)
    OBVIOUS
  <2>1. ASSUME NEW c \in Callbacks, GetState(c) PROVE [Secrets!Next]_(Secrets!vars)
    BY <2>1, RefinesGetState
  <2>2. ASSUME NEW c \in Callbacks, DeleteState(c) PROVE [Secrets!Next]_(Secrets!vars)
    BY <2>2, RefinesDeleteState DEF Secrets!Next
  <2>3. CASE \A c \in Callbacks : ~GetState(c) /\ ~DeleteState(c)
    BY <2>3, RefinesOthers
  <2> QED
    BY <2>1, <2>2, <2>3
<1> QED
  BY <1>1, RefinesInit, Invariance, PTL DEF Spec, ImplementsOneTimeSecret, Secrets!Spec
=============================================================================
