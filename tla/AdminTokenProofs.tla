-------------------------- MODULE AdminTokenProofs --------------------------
(***************************************************************************)
(* Theorems about AdminToken for any callers, lifetimes and times that     *)
(* satisfy its assumptions.                                                *)
(***************************************************************************)
EXTENDS AdminToken, TLAPS

\* The lock is held by exactly the caller that is logging in.
MutexHeld == \A c \in Caller : mu = c <=> pc[c] \in {"login", "reply"}

\* A token was signed at some time up to now, for one of the lifetimes.
Signed(t, now) == \E s \in 0 .. now, l \in Lifetime : t.exp = s + l

\* The cache believes in a token at most MaxLatency too long.
CachedHonest ==
  cached # NoToken =>
    Signed(cached, clock) /\ cached.until <= cached.exp + MaxLatency

LoginTimed ==
  \A c \in Caller :
    /\ pc[c] \in {"login", "reply"} =>
         since[c] <= clock /\ clock <= since[c] + MaxLatency
    /\ pc[c] = "reply" =>
         /\ tok[c] # NoToken /\ Signed(tok[c], clock)
         /\ tok[c].until \in Lifetime
         /\ since[c] + tok[c].until <= tok[c].exp

UseTimed ==
  \A c \in Caller : pc[c] = "use" =>
    /\ tok[c] # NoToken /\ Signed(tok[c], clock)
    /\ since[c] <= clock /\ clock <= since[c] + MaxUse
    /\ since[c] + MaxUse < tok[c].exp

\* The inductive invariant.
IInv ==
  /\ TypeOK
  /\ MutexHeld
  /\ CachedHonest
  /\ LoginTimed
  /\ UseTimed
  /\ LoginJustified

-----------------------------------------------------------------------------
\* The invariant holds at the start.
LEMMA InitInv == Init => IInv
BY NobodyAssumption
   DEF Init, IInv, TypeOK, MutexHeld, CachedHonest, LoginTimed, UseTimed,
       LoginJustified

\* Every step preserves the types.
LEMMA StepType == TypeOK /\ LoginTimed /\ [Next]_vars => TypeOK'
<1> SUFFICES ASSUME TypeOK, LoginTimed, [Next]_vars PROVE TypeOK'
  OBVIOUS
<1> USE TimeAssumption, LifetimeAssumption DEF TypeOK, Goto, Token
<1>1. ASSUME NEW c \in Caller, Ask(c) PROVE TypeOK'
  BY <1>1 DEF Ask
<1>2. ASSUME NEW c \in Caller, ReturnCached(c) PROVE TypeOK'
  BY <1>2 DEF ReturnCached, Usable
<1>3. ASSUME NEW c \in Caller, StartLogin(c) PROVE TypeOK'
  BY <1>3 DEF StartLogin
<1>4. ASSUME NEW c \in Caller, LoginFails(c) PROVE TypeOK'
  BY <1>4 DEF LoginFails
<1>5. ASSUME NEW c \in Caller, Finish(c) PROVE TypeOK'
  BY <1>5 DEF Finish
<1>6. ASSUME NEW c \in Caller, NEW l \in Lifetime, Issue(c, l) PROVE TypeOK'
  BY <1>6 DEF Issue
<1>7. CASE Toggle
  BY <1>7 DEF Toggle
<1>8. CASE Tick
  BY <1>8 DEF Tick
<1>9. ASSUME NEW c \in Caller, Reply(c) PROVE TypeOK'
  <2>1. tok[c] \in Token
    BY <1>9 DEF Reply, LoginTimed
  <2> QED
    BY <1>9, <2>1 DEF Reply
<1>10. CASE UNCHANGED vars
  BY <1>10 DEF vars
<1> QED
  BY <1>1, <1>2, <1>3, <1>4, <1>5, <1>6, <1>7, <1>8, <1>9, <1>10
     DEF Next, Lock, Answer

\* Every token signed by now has been signed by later.
LEMMA SignedStays ==
  ASSUME TypeOK, TypeOK', clock <= clock', NEW t, Signed(t, clock)
  PROVE  Signed(t, clock')
BY DEF Signed, TypeOK

\* The margin covers the latency of a login and the use of the token.
LEMMA CachedLives ==
  ASSUME IInv, Usable
  PROVE  clock + MaxUse < cached.exp /\ cached # NoToken /\ Signed(cached, clock)
<1>1. /\ cached # NoToken /\ clock < cached.until - Margin
      /\ cached.until <= cached.exp + MaxLatency /\ Signed(cached, clock)
  BY DEF IInv, CachedHonest, Usable
<1>2. cached.exp \in Nat /\ cached.until \in Nat /\ clock \in Nat
  BY <1>1 DEF IInv, TypeOK, Token
<1> QED
  BY <1>1, <1>2, TimeAssumption, MarginAssumption

\* A token that arrives with a reply outlives its use, and is believed in for at
\* most the latency longer than it lives.
LEMMA ReplyLives ==
  ASSUME IInv, NEW c \in Caller, pc[c] = "reply"
  PROVE  /\ clock + MaxUse < tok[c].exp
         /\ clock + tok[c].until <= tok[c].exp + MaxLatency
         /\ tok[c] # NoToken /\ Signed(tok[c], clock)
<1>1. /\ since[c] <= clock /\ clock <= since[c] + MaxLatency
      /\ tok[c] # NoToken /\ Signed(tok[c], clock)
      /\ tok[c].until \in Lifetime /\ since[c] + tok[c].until <= tok[c].exp
  BY DEF IInv, LoginTimed
<1>2. /\ tok[c].exp \in Nat /\ tok[c].until \in Nat /\ clock \in Nat
      /\ since[c] \in Nat /\ tok[c].until > MaxLatency + MaxUse
  BY <1>1, LifetimeAssumption DEF IInv, TypeOK, Token
<1> QED
  BY <1>1, <1>2, TimeAssumption

\* Every step preserves the invariant.
LEMMA StepInv == IInv /\ [Next]_vars => IInv'
<1> SUFFICES ASSUME IInv, [Next]_vars PROVE IInv'
  OBVIOUS
<1>0. TypeOK'
  BY StepType DEF IInv
<1> USE <1>0 DEF IInv
<1>1. ASSUME NEW c \in Caller, Ask(c) \/ Finish(c) PROVE IInv'
  <2>1. /\ UNCHANGED <<clock, up, mu, cached>> /\ pc[c] \in {"idle", "use"}
        /\ pc'[c] \in {"idle", "lock"}
        /\ \A d \in Caller : d # c =>
             pc'[d] = pc[d] /\ tok'[d] = tok[d] /\ since'[d] = since[d]
    BY <1>1 DEF Ask, Finish, Goto, TypeOK
  <2>2. MutexHeld' /\ LoginJustified'
    BY <2>1 DEF MutexHeld, LoginJustified, Usable
  <2>3. CachedHonest' /\ LoginTimed' /\ UseTimed'
    BY <2>1 DEF CachedHonest, LoginTimed, UseTimed
  <2> QED
    BY <2>2, <2>3
<1>2. ASSUME NEW c \in Caller, ReturnCached(c) PROVE IInv'
  <2>1. /\ UNCHANGED <<clock, up, mu, cached>> /\ pc[c] = "lock" /\ Usable
        /\ pc'[c] = "use" /\ tok'[c] = cached /\ since'[c] = clock
        /\ \A d \in Caller : d # c =>
             pc'[d] = pc[d] /\ tok'[d] = tok[d] /\ since'[d] = since[d]
    BY <1>2 DEF ReturnCached, Goto, TypeOK
  <2>2. clock + MaxUse < cached.exp /\ cached # NoToken /\ Signed(cached, clock)
    BY <2>1, CachedLives
  <2>3. MutexHeld' /\ LoginJustified'
    BY <2>1 DEF MutexHeld, LoginJustified, Usable
  <2>4. CachedHonest' /\ LoginTimed'
    BY <2>1 DEF CachedHonest, LoginTimed
  <2>5. UseTimed'
    BY <2>1, <2>2, TimeAssumption DEF UseTimed, TypeOK
  <2> QED
    BY <2>3, <2>4, <2>5
<1>3. ASSUME NEW c \in Caller, StartLogin(c) PROVE IInv'
  <2>1. /\ UNCHANGED <<clock, up, cached>> /\ pc[c] = "lock" /\ ~Usable
        /\ mu = Nobody /\ mu' = c /\ pc'[c] = "login" /\ since'[c] = clock
        /\ \A d \in Caller : d # c =>
             pc'[d] = pc[d] /\ tok'[d] = tok[d] /\ since'[d] = since[d]
    BY <1>3 DEF StartLogin, Goto, TypeOK
  <2>2. MutexHeld'
    BY <2>1, NobodyAssumption DEF MutexHeld
  <2>3. LoginJustified'
    BY <2>1, <2>2 DEF MutexHeld, LoginJustified, Usable
  <2>4. CachedHonest' /\ UseTimed'
    BY <2>1 DEF CachedHonest, UseTimed
  <2>5. LoginTimed'
    BY <2>1, TimeAssumption DEF LoginTimed, TypeOK
  <2> QED
    BY <2>2, <2>3, <2>4, <2>5
<1>4. ASSUME NEW c \in Caller, NEW l \in Lifetime, Issue(c, l) PROVE IInv'
  <2>1. /\ UNCHANGED <<clock, up, mu, cached>> /\ pc[c] = "login"
        /\ pc'[c] = "reply" /\ since'[c] = since[c]
        /\ tok'[c] = [exp |-> clock + l, until |-> l]
        /\ \A d \in Caller : d # c =>
             pc'[d] = pc[d] /\ tok'[d] = tok[d] /\ since'[d] = since[d]
    BY <1>4 DEF Issue, Goto, TypeOK
  <2>2. clock \in Nat /\ since[c] \in Nat /\ l \in Nat
    BY LifetimeAssumption DEF TypeOK
  <2>3. /\ tok'[c].exp = clock + l /\ tok'[c].until = l
        /\ tok'[c] \in Token /\ tok'[c] # NoToken
    BY <2>1, <2>2, NoTokenAssumption DEF Token
  <2>4. Signed(tok'[c], clock)
    BY <2>2, <2>3 DEF Signed
  <2>5. LoginTimed'
    <3>1. since[c] <= clock /\ clock <= since[c] + MaxLatency
      BY <2>1 DEF LoginTimed
    <3>2. since[c] + l <= clock + l
      BY <2>2, <3>1
    <3> QED
      BY <2>1, <2>3, <2>4, <3>1, <3>2 DEF LoginTimed
  <2>6. MutexHeld' /\ LoginJustified'
    BY <2>1 DEF MutexHeld, LoginJustified, Usable
  <2>7. CachedHonest' /\ UseTimed'
    BY <2>1 DEF CachedHonest, UseTimed
  <2> QED
    BY <2>5, <2>6, <2>7
<1>5. ASSUME NEW c \in Caller, Reply(c) PROVE IInv'
  <2>1. /\ UNCHANGED <<clock, up>> /\ pc[c] = "reply"
        /\ cached' = [exp |-> tok[c].exp, until |-> clock + tok[c].until]
        /\ mu' = Nobody /\ pc'[c] = "use" /\ tok'[c] = cached' /\ since'[c] = clock
        /\ \A d \in Caller : d # c =>
             pc'[d] = pc[d] /\ tok'[d] = tok[d] /\ since'[d] = since[d]
    BY <1>5 DEF Reply, Goto, TypeOK
  <2>2. /\ clock + MaxUse < tok[c].exp
        /\ clock + tok[c].until <= tok[c].exp + MaxLatency
        /\ tok[c] # NoToken /\ Signed(tok[c], clock)
    BY <2>1, ReplyLives
  <2>3. /\ cached'.exp = tok[c].exp /\ cached'.until = clock + tok[c].until
        /\ cached' \in Token
    <3>1. tok[c] \in Token /\ clock \in Nat
      BY <2>2 DEF TypeOK
    <3> QED
      BY <2>1, <3>1 DEF Token
  <2>4. cached' # NoToken /\ Signed(cached', clock)
    BY <2>2, <2>3, NoTokenAssumption DEF Signed
  <2>5. CachedHonest'
    BY <2>1, <2>2, <2>3, <2>4 DEF CachedHonest
  <2>6. mu = c /\ \A d \in Caller : d # c => pc[d] \notin {"login", "reply"}
    BY <2>1 DEF MutexHeld
  <2>7. MutexHeld' /\ LoginJustified' /\ LoginTimed'
    BY <2>1, <2>6, NobodyAssumption DEF MutexHeld, LoginJustified, LoginTimed
  <2>8. UseTimed'
    BY <2>1, <2>2, <2>3, <2>4, TimeAssumption DEF UseTimed, TypeOK
  <2> QED
    BY <2>5, <2>7, <2>8
<1>6. ASSUME NEW c \in Caller, LoginFails(c) PROVE IInv'
  <2>1. /\ UNCHANGED <<clock, up, cached>> /\ pc[c] \in {"login", "reply"}
        /\ mu' = Nobody /\ pc'[c] = "idle"
        /\ \A d \in Caller : d # c =>
             pc'[d] = pc[d] /\ tok'[d] = tok[d] /\ since'[d] = since[d]
    BY <1>6 DEF LoginFails, Goto, TypeOK
  <2>2. mu = c /\ \A d \in Caller : d # c => pc[d] \notin {"login", "reply"}
    BY <2>1 DEF MutexHeld
  <2>3. MutexHeld' /\ LoginJustified' /\ LoginTimed'
    BY <2>1, <2>2, NobodyAssumption DEF MutexHeld, LoginJustified, LoginTimed
  <2>4. CachedHonest' /\ UseTimed'
    BY <2>1 DEF CachedHonest, UseTimed
  <2> QED
    BY <2>3, <2>4
<1>7. CASE Tick
  <2>1. /\ UNCHANGED <<mu, cached, pc, tok, since>> /\ clock' = clock + 1
        /\ clock \in Nat /\ clock <= clock'
        /\ \A c \in Caller :
             /\ pc[c] \in {"login", "reply"} => clock < since[c] + MaxLatency
             /\ pc[c] = "use" => clock < since[c] + MaxUse
    BY <1>7 DEF Tick, TypeOK
  <2>2. \A t : Signed(t, clock) => Signed(t, clock')
    BY <2>1, SignedStays
  <2>3. \A c \in Caller : since[c] \in Nat
    BY DEF TypeOK
  <2>4. CachedHonest'
    BY <2>1, <2>2 DEF CachedHonest
  <2>5. LoginTimed'
    BY <2>1, <2>2, <2>3, TimeAssumption DEF LoginTimed
  <2>6. UseTimed'
    BY <2>1, <2>2, <2>3, TimeAssumption DEF UseTimed
  <2>7. ~Usable => ~Usable'
    BY <2>1, MarginAssumption DEF Usable, TypeOK, Token
  <2>8. MutexHeld' /\ LoginJustified'
    BY <2>1, <2>7 DEF MutexHeld, LoginJustified
  <2> QED
    BY <2>4, <2>5, <2>6, <2>8
<1>8. CASE Toggle \/ UNCHANGED vars
  <2>1. UNCHANGED <<clock, mu, cached, pc, tok, since>>
    BY <1>8 DEF Toggle, vars
  <2> QED
    BY <2>1 DEF MutexHeld, CachedHonest, LoginTimed, UseTimed, LoginJustified, Usable
<1> QED
  BY <1>1, <1>2, <1>3, <1>4, <1>5, <1>6, <1>7, <1>8 DEF Next, Lock, Answer

\* The invariant always holds.
THEOREM Invariance == Spec => []IInv
BY InitInv, StepInv, PTL DEF Spec

\* Type correctness of the admin-token cache.
THEOREM TypeCorrect == Spec => []TypeOK
<1>1. IInv => TypeOK
  BY DEF IInv
<1> QED
  BY <1>1, Invariance, PTL

\* Logins are made one at a time and only when the cache has nothing usable.
THEOREM LoginJustifiedHolds == Spec => []LoginJustified
<1>1. IInv => LoginJustified
  BY DEF IInv
<1> QED
  BY <1>1, Invariance, PTL

\* A token in use is one that Keycloak still accepts, whenever the margin is
\* at least the latency of a login plus the time of the use.
THEOREM HeldAliveHolds == Spec => []HeldAlive
<1>1. IInv => HeldAlive
  BY TimeAssumption DEF IInv, HeldAlive, UseTimed, TypeOK, Token
<1> QED
  BY <1>1, Invariance, PTL

(***************************************************************************)
(* How recent a readiness check is: every token was signed while Keycloak  *)
(* was last heard of, and a reply is no older than its login.              *)
(***************************************************************************)
Recent(c) ==
  since[c] <= heard + MaxLatency \/ since[c] + Margin <= tok[c].exp + MaxLatency

HeardInv ==
  /\ heard <= clock /\ (up => heard = clock)
  /\ cached # NoToken => Signed(cached, heard)
  /\ \A c \in Caller :
       /\ pc[c] = "reply" => since[c] <= heard /\ Signed(tok[c], heard)
       /\ pc[c] = "use" => Signed(tok[c], heard) /\ Recent(c)

\* Keycloak has been heard, at the start, by every token there is.
LEMMA InitHeard == Init => HeardInv
BY DEF Init, HeardInv

\* Every token signed while Keycloak was heard of so far stays one.
LEMMA SignedStaysHeard ==
  ASSUME heard \in Nat, heard' \in Nat, heard <= heard', NEW t, Signed(t, heard)
  PROVE  Signed(t, heard')
BY DEF Signed

\* Every step preserves what tokens tell of when Keycloak was heard.
LEMMA StepHeard == IInv /\ IInv' /\ HeardInv /\ [Next]_vars => HeardInv'
<1> SUFFICES ASSUME IInv, IInv', HeardInv, [Next]_vars PROVE HeardInv'
  OBVIOUS
<1>0. TypeOK /\ TypeOK'
  BY DEF IInv
<1>1. ASSUME NEW c \in Caller, Ask(c) \/ Finish(c) \/ StartLogin(c) \/ LoginFails(c)
      PROVE  HeardInv'
  <2>1. /\ UNCHANGED <<clock, up, cached, heard>>
        /\ pc'[c] \in {"lock", "idle", "login"}
        /\ \A d \in Caller : d # c =>
             pc'[d] = pc[d] /\ tok'[d] = tok[d] /\ since'[d] = since[d]
    BY <1>0, <1>1 DEF Ask, Finish, StartLogin, LoginFails, Goto, TypeOK
  <2> QED
    BY <2>1 DEF HeardInv, Recent, Signed
<1>2. ASSUME NEW c \in Caller, ReturnCached(c) PROVE HeardInv'
  <2>1. /\ UNCHANGED <<clock, up, cached, heard>> /\ Usable
        /\ pc'[c] = "use" /\ tok'[c] = cached /\ since'[c] = clock
        /\ \A d \in Caller : d # c =>
             pc'[d] = pc[d] /\ tok'[d] = tok[d] /\ since'[d] = since[d]
    BY <1>0, <1>2 DEF ReturnCached, Goto, TypeOK
  <2>2. /\ cached # NoToken /\ clock < cached.until - Margin
        /\ cached.until <= cached.exp + MaxLatency
    BY <2>1 DEF Usable, IInv, CachedHonest
  <2>3. clock \in Nat /\ cached.exp \in Nat /\ cached.until \in Nat
    BY <1>0, <2>2 DEF TypeOK, Token
  <2>4. Recent(c)'
    BY <2>1, <2>2, <2>3, TimeAssumption, MarginAssumption DEF Recent
  <2>5. Signed(tok'[c], heard')
    BY <2>1, <2>2 DEF HeardInv
  <2> QED
    BY <2>1, <2>4, <2>5 DEF HeardInv, Recent, Signed
<1>3. ASSUME NEW c \in Caller, NEW l \in Lifetime, Issue(c, l) PROVE HeardInv'
  <2>1. /\ UNCHANGED <<clock, up, cached, heard>> /\ up
        /\ pc[c] = "login" /\ pc'[c] = "reply" /\ since'[c] = since[c]
        /\ tok'[c].exp = clock + l
        /\ \A d \in Caller : d # c =>
             pc'[d] = pc[d] /\ tok'[d] = tok[d] /\ since'[d] = since[d]
    BY <1>0, <1>3 DEF Issue, Goto, TypeOK
  <2>2. heard = clock /\ since[c] <= heard
    BY <2>1 DEF HeardInv, IInv, LoginTimed
  <2>3. Signed(tok'[c], heard')
    BY <1>0, <2>1, <2>2 DEF Signed, TypeOK
  <2> QED
    BY <2>1, <2>2, <2>3 DEF HeardInv, Recent, Signed
<1>4. ASSUME NEW c \in Caller, Reply(c) PROVE HeardInv'
  <2>1. /\ UNCHANGED <<clock, up, heard>>
        /\ pc[c] = "reply" /\ pc'[c] = "use" /\ since'[c] = clock
        /\ cached'.exp = tok[c].exp /\ tok'[c] = cached'
        /\ \A d \in Caller : d # c =>
             pc'[d] = pc[d] /\ tok'[d] = tok[d] /\ since'[d] = since[d]
    BY <1>0, <1>4 DEF Reply, Goto, TypeOK
  <2>2. Signed(tok[c], heard) /\ since[c] <= heard /\ clock <= since[c] + MaxLatency
    BY <2>1 DEF HeardInv, IInv, LoginTimed
  <2>3. Signed(cached', heard') /\ Signed(tok'[c], heard')
    BY <2>1, <2>2 DEF Signed
  <2>4. Recent(c)'
    BY <1>0, <2>1, <2>2, TimeAssumption DEF Recent, TypeOK
  <2> QED
    BY <2>1, <2>3, <2>4 DEF HeardInv, Recent, Signed
<1>5. ASSUME Toggle \/ Tick PROVE HeardInv'
  <2>1. /\ heard <= heard' /\ heard' <= clock' /\ (up' => heard' = clock')
        /\ UNCHANGED <<cached, pc, tok, since>>
    BY <1>0, <1>5 DEF Toggle, Tick, HeardInv, TypeOK
  <2>2. cached' # NoToken => Signed(cached', heard')
    BY <1>0, <2>1, SignedStaysHeard DEF HeardInv, TypeOK
  <2>3. ASSUME NEW c \in Caller
        PROVE  /\ pc'[c] = "reply" => since'[c] <= heard' /\ Signed(tok'[c], heard')
               /\ pc'[c] = "use" => Signed(tok'[c], heard') /\ Recent(c)'
    <3>1. pc[c] \in {"reply", "use"} => Signed(tok[c], heard')
      BY <1>0, <2>1, SignedStaysHeard DEF HeardInv, TypeOK
    <3>2. /\ pc[c] = "reply" => since[c] <= heard'
          /\ pc[c] = "use" => Recent(c)'
      BY <1>0, <2>1, TimeAssumption DEF HeardInv, Recent, TypeOK
    <3> QED
      BY <2>1, <3>1, <3>2
  <2> QED
    BY <2>1, <2>2, <2>3 DEF HeardInv
<1>6. CASE UNCHANGED vars
  BY <1>6 DEF vars, HeardInv, Recent, Signed
<1> QED
  BY <1>1, <1>2, <1>3, <1>4, <1>5, <1>6 DEF Next, Lock, Answer

\* A call that is given a token, and so a passed check of /readyz, tells that
\* Keycloak answered within the last lifetime, less margin, plus latency.
THEOREM ReadyIsRecentHolds == Spec => []ReadyIsRecent
<1>1. IInv /\ HeardInv => ReadyIsRecent
  <2> SUFFICES ASSUME IInv, HeardInv, NEW c \in Caller, pc[c] = "use",
                      ~(since[c] <= heard + MaxLatency)
               PROVE  \E l \in Lifetime : since[c] + Margin <= heard + l + MaxLatency
    BY DEF ReadyIsRecent
  <2>1. Signed(tok[c], heard) /\ since[c] + Margin <= tok[c].exp + MaxLatency
    BY DEF HeardInv, Recent
  <2>2. PICK s \in 0 .. heard, l \in Lifetime : tok[c].exp = s + l
    BY <2>1 DEF Signed
  <2>3. s + l <= heard + l /\ s \in Nat /\ l \in Nat /\ since[c] \in Nat /\ heard \in Nat
    BY <2>2, LifetimeAssumption DEF IInv, TypeOK
  <2> QED
    BY <2>1, <2>2, <2>3, TimeAssumption, MarginAssumption
<1> QED
  BY <1>1, InitInv, StepInv, InitHeard, StepHeard, PTL DEF Spec
-----------------------------------------------------------------------------
(***************************************************************************)
(* The cache implements the token source: the steps of getAdminToken are   *)
(* steps of TokenSource under View, or leave it unchanged.                 *)
(***************************************************************************)
Granted == [c \in Caller |-> View(c)]

\* What a step of one caller does to the view of all.
LEMMA ViewOfStep ==
  ASSUME NEW c \in Caller,
         \A d \in Caller : d # c => pc'[d] = pc[d] /\ tok'[d] = tok[d]
  PROVE  Granted' = [Granted EXCEPT ![c] = View(c)']
BY DEF Granted, View

\* The initial states are initial for TokenSource.
LEMMA InitRefines == Init => Source!Init
BY DEF Init, Source!Init, Source!Idle, View

\* Every step is a step of TokenSource, or a stutter.
LEMMA StepRefines == IInv /\ [Next]_vars => [Source!Next]_<<clock, Granted>>
<1> SUFFICES ASSUME IInv, [Next]_vars
             PROVE  Source!Next \/ UNCHANGED <<clock, Granted>>
  OBVIOUS
<1> USE DEF IInv, Granted
<1>1. ASSUME NEW c \in Caller, Ask(c) PROVE Source!Next
  <2>1. /\ UNCHANGED clock /\ pc[c] = "idle" /\ pc'[c] = "lock"
        /\ \A d \in Caller : d # c => pc'[d] = pc[d] /\ tok'[d] = tok[d]
    BY <1>1 DEF Ask, Goto, TypeOK
  <2>2. View(c) = Source!Idle /\ View(c)' = Source!Asked
    BY <2>1 DEF View, Source!Idle, Source!Asked
  <2>3. Granted' = [Granted EXCEPT ![c] = Source!Asked]
    BY <2>1, <2>2, ViewOfStep
  <2> QED
    BY <2>1, <2>2, <2>3 DEF Source!Next, Source!Ask
<1>2. ASSUME NEW c \in Caller, pc[c] \in {"lock", "login", "reply"},
             pc'[c] = "use", tok'[c] # NoToken, Signed(tok'[c], clock),
             clock + MaxUse < tok'[c].exp, UNCHANGED clock,
             \A d \in Caller : d # c => pc'[d] = pc[d] /\ tok'[d] = tok[d]
      PROVE  Source!Next
  <2>1. PICK s \in 0 .. clock, l \in Lifetime : tok'[c].exp = s + l
    BY <1>2 DEF Signed
  <2>2. View(c) = Source!Asked /\ View(c)' = Source!Held(s + l)
    BY <1>2, <2>1 DEF View, Source!Asked, Source!Held
  <2>3. Granted' = [Granted EXCEPT ![c] = Source!Held(s + l)]
    BY <1>2, <2>2, ViewOfStep
  <2>4. s + l > clock + MaxUse
    BY <1>2, <2>1, LifetimeAssumption, TimeAssumption DEF TypeOK
  <2>5. Source!Grant(c)
    BY <1>2, <2>1, <2>2, <2>3, <2>4 DEF Source!Grant
  <2> QED
    BY <2>5 DEF Source!Next
<1>3. ASSUME NEW c \in Caller, ReturnCached(c) PROVE Source!Next
  <2>1. clock + MaxUse < cached.exp /\ cached # NoToken /\ Signed(cached, clock)
    BY <1>3, CachedLives DEF ReturnCached
  <2> QED
    BY <1>2, <1>3, <2>1 DEF ReturnCached, Goto, TypeOK
<1>4. ASSUME NEW c \in Caller, Reply(c) PROVE Source!Next
  <2>1. /\ UNCHANGED clock /\ pc[c] = "reply" /\ pc'[c] = "use"
        /\ tok'[c] = [exp |-> tok[c].exp, until |-> clock + tok[c].until]
        /\ \A d \in Caller : d # c => pc'[d] = pc[d] /\ tok'[d] = tok[d]
    BY <1>4 DEF Reply, Goto, TypeOK
  <2>2. /\ clock + MaxUse < tok[c].exp /\ tok[c] # NoToken
        /\ Signed(tok[c], clock)
    BY <2>1, ReplyLives
  <2>3. tok[c] \in Token /\ clock \in Nat
    BY <2>2 DEF TypeOK
  <2>4. /\ tok'[c].exp = tok[c].exp /\ tok'[c] \in Token
    BY <2>1, <2>3 DEF Token
  <2>5. tok'[c] # NoToken /\ Signed(tok'[c], clock)
    BY <2>2, <2>4, NoTokenAssumption DEF Signed
  <2> QED
    BY <1>2, <2>1, <2>2, <2>4, <2>5
<1>5. ASSUME NEW c \in Caller, LoginFails(c) PROVE Source!Next
  <2>1. /\ UNCHANGED clock /\ pc[c] \in {"login", "reply"} /\ pc'[c] = "idle"
        /\ \A d \in Caller : d # c => pc'[d] = pc[d] /\ tok'[d] = tok[d]
    BY <1>5 DEF LoginFails, Goto, TypeOK
  <2>2. View(c) = Source!Asked /\ View(c)' = Source!Idle
    BY <2>1 DEF View, Source!Idle, Source!Asked
  <2>3. Granted' = [Granted EXCEPT ![c] = Source!Idle]
    BY <2>1, <2>2, ViewOfStep
  <2> QED
    BY <2>1, <2>2, <2>3 DEF Source!Next, Source!Refuse
<1>6. ASSUME NEW c \in Caller, Finish(c) PROVE Source!Next
  <2>1. /\ UNCHANGED clock /\ pc[c] = "use" /\ pc'[c] = "idle"
        /\ \A d \in Caller : d # c => pc'[d] = pc[d] /\ tok'[d] = tok[d]
    BY <1>6 DEF Finish, Goto, TypeOK
  <2>2. View(c).state = "held" /\ View(c)' = Source!Idle
    BY <2>1 DEF View, Source!Idle
  <2>3. Granted' = [Granted EXCEPT ![c] = Source!Idle]
    BY <2>1, <2>2, ViewOfStep
  <2> QED
    BY <2>1, <2>2, <2>3 DEF Source!Next, Source!Finish
<1>7. ASSUME NEW c \in Caller, StartLogin(c) \/ \E l \in Lifetime : Issue(c, l)
      PROVE  UNCHANGED <<clock, Granted>>
  <2>1. /\ UNCHANGED clock /\ pc[c] \in {"lock", "login"}
        /\ pc'[c] \in {"login", "reply"}
        /\ \A d \in Caller : d # c => pc'[d] = pc[d] /\ tok'[d] = tok[d]
    BY <1>7 DEF StartLogin, Issue, Goto, TypeOK
  <2>2. View(c)' = View(c)
    BY <2>1 DEF View
  <2>3. Granted' = Granted
    BY <2>1, <2>2, ViewOfStep
  <2> QED
    BY <2>1, <2>3
<1>8. CASE Tick
  BY <1>8 DEF Tick, View, Source!Next, Source!Tick
<1>9. CASE Toggle \/ UNCHANGED vars
  BY <1>9 DEF Toggle, vars, View
<1> QED
  BY <1>1, <1>3, <1>4, <1>5, <1>6, <1>7, <1>8, <1>9 DEF Next, Lock, Answer

\* getAdminToken hands out only tokens that outlive their use: every behaviour
\* of the cache is a behaviour of TokenSource (without its fairness).
THEOREM ImplementsSource == Spec => Source!SafeSpec
<1>1. Init => Source!Init
  BY InitRefines
<1>2. IInv /\ [Next]_vars => [Source!Next]_<<clock, Granted>>
  BY StepRefines
<1>3. <<clock, Granted>> = <<clock, [c \in Caller |-> View(c)]>>
  BY DEF Granted
<1> QED
  BY <1>1, <1>2, <1>3, Invariance, PTL DEF Spec, Source!SafeSpec, Granted
=============================================================================
