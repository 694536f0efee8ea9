----------------------------- MODULE Lifecycle -----------------------------
(***************************************************************************)
(* The life of the process: what main starts, in which order and with what *)
(* left out (connection.go, application.go), the server that then answers  *)
(* (main.go), readiness (handler/health.go), and the way down: a signal, a *)
(* drain with a deadline, the connections closed one after the other with  *)
(* a deadline of their own, the logger flushed with none.                  *)
(*                                                                         *)
(* Connecting succeeds or fails whatever the state of the other side: it   *)
(* may change the moment after.  What the requests do is in the other      *)
(* modules; here they only last.  The state has names of its own, and so   *)
(* has the specification: the process stands beside HttpApi, not in it.    *)
(***************************************************************************)
EXTENDS Naturals, Sequences, SequencesExt

CONSTANTS
  Request,
  MaxChanges  \* bound: outages and recoveries of the dependencies

ASSUME ChangeAssumption == MaxChanges \in Nat

VARIABLES
  stage,      \* what the main goroutine does next
  linked,     \* connections made at the start
  open,       \* those that Close has not closed yet
  checks,     \* health checks, in the order they were added
  listening,  \* the server takes new requests
  signals,    \* SIGINT and SIGTERM received
  code,       \* exit status, or Running
  up,         \* dependencies that work
  phase, kind, left, reply,  \* per request; left: readiness checks to run
  sawUp,      \* history: request -> what worked at some time of it
  changes

main == <<stage, linked, open, checks, listening, signals, code>>
requests == <<phase, kind, left, reply>>
world == <<up, sawUp, changes>>
processVars == <<main, requests, world>>

Dep == {"postgres", "redis", "kafka", "keycloak"}
Link == {"postgres", "redis", "kafka", "cdc"}
Running == 3
Killed == 2

\* The stages of the start, in order.
Boot == <<"postgres", "migrations", "redis", "kafka", "cdc", "oidc", "listen", "notify",
          "serve">>
After(s) == Boot[SelectInSeq(Boot, LAMBDA b : b = s) + 1]

\* connections.Close goes through them in this order.
CloseOrder == <<"cdc", "postgres", "kafka", "redis">>

ProcessInit ==
  /\ stage = "postgres"
  /\ linked = {} /\ open = {}
  /\ checks = << >>
  /\ listening = FALSE
  /\ signals = 0
  /\ code = Running
  /\ up \in SUBSET Dep
  /\ phase = [r \in Request |-> "none"]
  /\ kind = [r \in Request |-> "other"]
  /\ left = [r \in Request |-> << >>]
  /\ reply = [r \in Request |-> "none"]
  /\ sawUp = [r \in Request |-> {}]
  /\ changes = 0

InFlight == {r \in Request : phase[r] = "running"}

\* The process is gone, and every request with it.
Exit(status) ==
  /\ stage' = "exited"
  /\ code' = status
  /\ listening' = FALSE
  /\ phase' = [r \in Request |-> IF phase[r] = "running" THEN "cut" ELSE phase[r]]
  /\ UNCHANGED <<linked, open, checks, signals, kind, left, reply, world>>

Advance == stage' = After(stage)
Connected(c) == linked' = linked \cup {c} /\ open' = open \cup {c}

-----------------------------------------------------------------------------
(* Start *)

\* Fatalf: nothing is closed, the process ends.
StartFails == stage \in {"postgres", "migrations", "oidc"} /\ Exit(1)

\* A connection that is made and not watched: a mutant of Connect.
ConnectUnchecked(c) ==
  /\ stage = c
  /\ c \in Link \ {"cdc"}
  /\ Connected(c)
  /\ Advance
  /\ UNCHANGED <<checks, listening, signals, code, requests, world>>

Connect(c) ==
  /\ stage = c
  /\ c \in Link \ {"cdc"}
  /\ Connected(c)
  /\ checks' = Append(checks, c)
  /\ Advance
  /\ UNCHANGED <<listening, signals, code, requests, world>>

\* Redis, Kafka and the CDC consumer are optional: a warning, and on.
DoWithout ==
  /\ stage \in {"redis", "kafka", "cdc"}
  /\ Advance
  /\ UNCHANGED <<linked, open, checks, listening, signals, code, requests, world>>

Migrate ==
  /\ stage = "migrations"
  /\ Advance
  /\ UNCHANGED <<linked, open, checks, listening, signals, code, requests, world>>

StartCdc ==
  /\ stage = "cdc"
  /\ Connected("cdc")
  /\ Advance
  /\ UNCHANGED <<checks, listening, signals, code, requests, world>>

DiscoverOidc ==
  /\ stage = "oidc"
  /\ checks' = Append(checks, "keycloak")
  /\ Advance
  /\ UNCHANGED <<linked, open, listening, signals, code, requests, world>>

\* ListenAndServe runs in a goroutine of its own; it may not get its address.
Listen ==
  /\ stage = "listen"
  /\ listening' \in BOOLEAN
  /\ Advance
  /\ UNCHANGED <<linked, open, checks, signals, code, requests, world>>

Notify ==
  /\ stage = "notify"
  /\ Advance
  /\ UNCHANGED <<linked, open, checks, listening, signals, code, requests, world>>

-----------------------------------------------------------------------------
(* The way down *)

\* Before signal.Notify a signal has its default effect.
Signal ==
  /\ signals < 2
  /\ stage # "exited"
  /\ IF stage \in ToSet(Front(Boot))
     THEN Exit(Killed)
     ELSE /\ signals' = signals + 1
          /\ UNCHANGED <<stage, linked, open, checks, listening, code, requests, world>>

ServeFails == stage = "serve" /\ ~listening /\ Exit(1)

\* The select of Run takes the signal; Shutdown closes the listener.
Wake ==
  /\ stage = "serve"
  /\ signals > 0
  /\ stage' = "drain"
  /\ listening' = FALSE
  /\ UNCHANGED <<linked, open, checks, signals, code, requests, world>>

\* Forced out with the status of success: a mutant of ForceOut.
ForceOutQuietly == stage \in {"drain", "close", "flush"} /\ signals > 1 /\ Exit(0)
\* Waiting for it only until Run returns: a mutant of ForceOut.
ForceOutDraining == stage = "drain" /\ signals > 1 /\ Exit(1)
\* The goroutine that waits for the second signal; it outlives Run.
ForceOut == stage \in {"drain", "close", "flush"} /\ signals > 1 /\ Exit(1)

\* Run returns without an error and main's deferred calls begin: app.Close, and
\* after it logger.Shutdown.
Deferred(call) ==
  /\ stage' = call
  /\ UNCHANGED <<linked, open, checks, listening, signals, code, requests, world>>
CloseApp == Deferred("close")

Drained == stage = "drain" /\ InFlight = {} /\ CloseApp

\* The error of Shutdown dropped: a mutant of DrainTimeout.
DrainTimeoutIgnored == stage = "drain" /\ CloseApp
\* os.Exit(1): the deferred calls, app.Close among them, do not run.
DrainTimeout == stage = "drain" /\ Exit(1)

\* The goroutine of app.Close, which nobody stops when time is up; each of these
\* calls may also hang.
CloseNext ==
  /\ stage \in {"close", "flush"}
  /\ open # {}
  /\ open' = open \ {CloseOrder[SelectInSeq(CloseOrder, LAMBDA c : c \in open)]}
  /\ UNCHANGED <<stage, linked, checks, listening, signals, code, requests, world>>

Closed == stage = "close" /\ open = {} /\ Deferred("flush")

\* Waiting for <-done alone: a mutant of CloseTimeout.
CloseForever == Closed
\* Five seconds: app.Close returns all the same.
CloseTimeout == stage = "close" /\ Deferred("flush")

\* logger.Shutdown(context.Background()): it may take as long as it likes.
Flushed == stage = "flush" /\ Exit(0)

-----------------------------------------------------------------------------
(* Requests *)

Accept(r) ==
  /\ listening
  /\ phase[r] = "none"
  /\ phase' = [phase EXCEPT ![r] = "running"]
  /\ \E k \in {"ready", "otp", "other"} : kind' = [kind EXCEPT ![r] = k]
  /\ left' = [left EXCEPT ![r] = checks]
  /\ sawUp' = [sawUp EXCEPT ![r] = up]
  /\ UNCHANGED <<main, reply, up, changes>>

Respond(r, status) ==
  /\ phase' = [phase EXCEPT ![r] = "answered"]
  /\ reply' = [reply EXCEPT ![r] = status]
  /\ UNCHANGED <<main, kind, left, world>>

Readiness(r) == phase[r] = "running" /\ kind[r] = "ready"

\* Keycloak's check is getAdminToken, which may pass on a token it has in hand.
Passes(r) ==
  /\ Readiness(r)
  /\ left[r] # << >>
  /\ Head(left[r]) \in up \cup {"keycloak"}
  /\ left' = [left EXCEPT ![r] = Tail(@)]
  /\ UNCHANGED <<main, phase, kind, reply, world>>

\* The loop goes on after the 503: a mutant of CheckFails.
CheckFailsOn(r) ==
  /\ Readiness(r)
  /\ left[r] # << >>
  /\ Head(left[r]) \notin up
  /\ left' = [left EXCEPT ![r] = Tail(@)]
  /\ reply' = [reply EXCEPT ![r] = "not ready"]
  /\ UNCHANGED <<main, phase, kind, world>>

CheckFails(r) ==
  /\ Readiness(r)
  /\ left[r] # << >>
  /\ Head(left[r]) \notin up
  /\ Respond(r, "not ready")

AllPassed(r) == Readiness(r) /\ left[r] = << >> /\ Respond(r, "ready")

\* The OTP service holds whatever cache there was at the start, nil included:
\* a call through nil panics, and gin.Recovery turns it into a 500.
UseOtp(r) ==
  /\ phase[r] = "running"
  /\ kind[r] = "otp"
  /\ Respond(r, IF "redis" \notin linked THEN "panic"
               ELSE IF "redis" \in open \cap up THEN "ok" ELSE "error")

Work(r) == phase[r] = "running" /\ kind[r] = "other" /\ Respond(r, "ok")

\* A dependency goes down or comes back.
Change(d) ==
  /\ changes < MaxChanges
  /\ stage # "exited"
  /\ up' = IF d \in up THEN up \ {d} ELSE up \cup {d}
  /\ sawUp' = [r \in Request |-> sawUp[r] \cup IF phase[r] = "running" THEN up' ELSE {}]
  /\ changes' = changes + 1
  /\ UNCHANGED <<main, requests>>

-----------------------------------------------------------------------------
StartStep ==
  \/ StartFails \/ \E c \in Link : Connect(c)
  \/ DoWithout \/ Migrate \/ StartCdc \/ DiscoverOidc \/ Listen \/ Notify

StopStep ==
  \/ Signal \/ ServeFails \/ Wake \/ ForceOut \/ Drained \/ DrainTimeout
  \/ CloseNext \/ Closed \/ CloseTimeout \/ Flushed

Serve(r) ==
  \/ Accept(r) \/ Passes(r) \/ CheckFails(r) \/ AllPassed(r) \/ UseOtp(r) \/ Work(r)

ProcessNext ==
  \/ StartStep \/ StopStep
  \/ \E r \in Request : Serve(r)
  \/ \E d \in Dep : Change(d)

ProcessSpec == ProcessInit /\ [][ProcessNext]_processVars

(* Only what main and its goroutine do on a signal, and the two timers: a  *)
(* request, a closing connection and the flush may hang for good.          *)
Fairness ==
  /\ WF_processVars(Wake)
  /\ WF_processVars(ForceOut)
  /\ WF_processVars(DrainTimeout)
  /\ WF_processVars(CloseTimeout)
FairSpec == ProcessSpec /\ Fairness

-----------------------------------------------------------------------------
(* Properties *)

(* The state has its shape, and an answer is there when the handler is     *)
(* through and not before.                                                 *)
ProcessTypeOK ==
  /\ stage \in ToSet(Boot) \cup {"drain", "close", "flush", "exited"}
  /\ open \subseteq linked /\ linked \subseteq Link
  /\ checks \in Seq(Dep)
  /\ listening \in BOOLEAN
  /\ signals \in 0..2
  /\ code \in 0..Running /\ (code = Running <=> stage # "exited")
  /\ up \subseteq Dep
  /\ phase \in [Request -> {"none", "running", "answered", "cut"}]
  /\ kind \in [Request -> {"ready", "otp", "other"}]
  /\ left \in [Request -> Seq(Dep)] /\ \A r \in Request : IsSuffix(left[r], checks)
  /\ reply \in [Request -> {"none", "ready", "not ready", "panic", "ok", "error"}]
  /\ \A r \in Request : phase[r] = "answered" <=> reply[r] # "none"
  /\ sawUp \in [Request -> SUBSET Dep]
  /\ changes \in Nat

(* No connection is closed under a request: app.Close comes after the      *)
(* drain, or not at all (main.go, the order of Shutdown, os.Exit and the   *)
(* deferred Close).                                                        *)
WorkBeforeClose == InFlight # {} => open = linked

(* Status 0 says that every request the server took was answered: a        *)
(* request is cut off by a signal's second coming, by the drain's deadline *)
(* or by a failure, and each of these says so in the exit status.          *)
ExitZeroMeansServed == code = 0 => \A r \in Request : phase[r] # "cut"

(* An instance that says "ready" reached every store it holds a connection *)
(* to, each at some time during that very request (Readiness copies the    *)
(* checks and runs them one after the other).                              *)
ReadyMeansReached ==
  \A r \in Request : reply[r] = "ready" => linked \ {"cdc"} \subseteq sawUp[r]

(* A signal ends the work, even when requests hang and connections do not  *)
(* close (the deadlines of Run and app.Close): what is left to main is at  *)
(* most the flush of the logger, which has no deadline.                    *)
SignalEndsWork == signals > 0 ~> stage \in {"flush", "exited"}

(* A second signal ends the process, wherever the way down hangs: in a     *)
(* request, a connection or the flush (the goroutine of Run).              *)
SecondSignalEnds == signals > 1 ~> stage = "exited"
=============================================================================
