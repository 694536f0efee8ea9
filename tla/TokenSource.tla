----------------------------- MODULE TokenSource -----------------------------
(***************************************************************************)
(* What getAdminToken promises its callers, whatever it caches: a call is  *)
(* answered with an admin token or an error, and a token that is handed    *)
(* out stays valid for as long as its caller may take to use it.           *)
(***************************************************************************)
EXTENDS Integers

CONSTANTS
  Caller,   \* requests of the service that need an admin token
  MaxUse,   \* the longest a caller goes on using one token
  Lifetime  \* the lifetimes Keycloak gives its tokens

VARIABLES clock, granted

\* granted: caller -> idle, waiting for its answer, or holding a token that
\* expires at exp.
Idle == [state |-> "idle"]
Asked == [state |-> "asked"]
Held(e) == [state |-> "held", exp |-> e]

Init == clock = 0 /\ granted = [c \in Caller |-> Idle]

Ask(c) ==
  /\ granted[c] = Idle
  /\ granted' = [granted EXCEPT ![c] = Asked]
  /\ UNCHANGED clock

\* A token signed now or earlier that outlives its use.
Grant(c) ==
  /\ granted[c] = Asked
  /\ \E t \in 0 .. clock, l \in Lifetime :
       /\ t + l > clock + MaxUse
       /\ granted' = [granted EXCEPT ![c] = Held(t + l)]
  /\ UNCHANGED clock

Refuse(c) ==
  /\ granted[c] = Asked
  /\ granted' = [granted EXCEPT ![c] = Idle]
  /\ UNCHANGED clock

Finish(c) ==
  /\ granted[c].state = "held"
  /\ granted' = [granted EXCEPT ![c] = Idle]
  /\ UNCHANGED clock

Tick == clock' = clock + 1 /\ UNCHANGED granted

Next == Tick \/ \E c \in Caller : Ask(c) \/ Grant(c) \/ Refuse(c) \/ Finish(c)

SafeSpec == Init /\ [][Next]_<<clock, granted>>

\* Every call is answered.
Spec ==
  /\ SafeSpec
  /\ \A c \in Caller : WF_<<clock, granted>>(Grant(c) \/ Refuse(c))
=============================================================================
