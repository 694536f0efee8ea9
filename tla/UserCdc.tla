------------------------------ MODULE UserCdc ------------------------------
(***************************************************************************)
(* The CDC consumer (internal/consumer/user_cdc_consumer.go): Debezium     *)
(* writes the changes of Keycloak's user_entity rows to a topic, the       *)
(* consumer reads them and emits application events.                       *)
(*                                                                         *)
(* A worker is the consumer of one instance of the service.  The consumer  *)
(* group gives the topic to one worker at a time (its partitions move      *)
(* together here); a worker that has lost it still finishes its batch.     *)
(* EmitAsync puts an event into the producer's buffer and returns: it is   *)
(* delivered later, in order within a topic, or is lost.  (Kafka orders    *)
(* the events of one key, the user's ID: what is said here of two records  *)
(* of a partition is said in Kafka of two records of a user.)              *)
(***************************************************************************)
EXTENDS Integers, Sequences, FiniteSets, SequencesExt

CONSTANTS
  Worker, Part,
  Logs,       \* possible contents of the topic: partition -> kinds of its records
  MaxLog,     \* bound: records in a partition
  MaxFaults,  \* bound: failed fetches, commits and deliveries, crashes
  MaxMoves,   \* bound: rebalances and shutdowns
  Nobody

\* Debezium's operations; "null" is a tombstone or a record without a row.
Kind == {"c", "r", "u", "d", "null", "bad"}
Topic == {"created", "updated"}

ASSUME LogsAssumption ==
  \A l \in Logs : DOMAIN l = Part /\ \A p \in Part : l[p] \in Seq(Kind) /\ Len(l[p]) <= MaxLog
ASSUME PartAssumption == IsFiniteSet(Part)
ASSUME NobodyAssumption == Nobody \notin Worker
ASSUME BoundAssumption == MaxLog \in Nat /\ MaxFaults \in Nat /\ MaxMoves \in Nat

VARIABLES
  log,        \* Kafka: partition -> kinds of its records (never changes)
  committed,  \* Kafka: partition -> committed offset of the group
  assigned,   \* Kafka: the worker that has the partitions
  published,  \* Kafka: application topic -> events, in order
  pc,         \* worker -> "down", "poll" or "work"
  closing,    \* worker -> "no", "cancelled" (Close) or "closed" (producer too)
  pos,        \* worker -> partition -> offset it has polled up to
  batch,      \* worker -> polled records it has not processed
  outbox,     \* worker -> topic -> events in the producer's buffer
  \* History for the properties:
  lost,       \* events that were given up at least once
  late,       \* events still buffered when their worker lost the partitions
  faults, moves

kafka == <<log, committed, assigned, published>>
worker == <<pc, closing, pos, batch, outbox>>
vars == <<log, committed, assigned, published, pc, closing, pos, batch, outbox,
          lost, late, faults, moves>>

\* A record, and the event made of it, is known by its place.
Place == Part \X (1 .. MaxLog)

\* processRecord: the topic of the event for a record, if there is one.
TopicOf(k) ==
  CASE k \in {"c", "r"} -> {"created"}
    [] k = "u" -> {"updated"}
    [] OTHER -> {}
Topics(x) == TopicOf(log[x[1]][x[2]])

Buffered(w) == UNION {ToSet(outbox[w][t]) : t \in Topic}
Empty == [t \in Topic |-> << >>]

Init ==
  /\ log \in Logs
  /\ committed = [p \in Part |-> 0]
  /\ assigned = Nobody
  /\ published = Empty
  /\ pc = [w \in Worker |-> "down"]
  /\ closing = [w \in Worker |-> "no"]
  /\ pos = [w \in Worker |-> [p \in Part |-> 0]]
  /\ batch = [w \in Worker |-> << >>]
  /\ outbox = [w \in Worker |-> Empty]
  /\ lost = {}
  /\ late = {}
  /\ faults = 0
  /\ moves = 0

Fault == faults < MaxFaults /\ faults' = faults + 1
Moves == moves < MaxMoves /\ moves' = moves + 1

-----------------------------------------------------------------------------
\* NewUserCDCConsumer and Start in a fresh process.
Start(w) ==
  /\ pc[w] = "down"
  /\ pc' = [pc EXCEPT ![w] = "poll"]
  /\ UNCHANGED <<kafka, closing, pos, batch, outbox, lost, late, faults, moves>>

\* The group gives the partitions to a worker, at the committed offsets; the
\* client joins in the background, also while the loop is at work on a batch
\* from before.
Assign(w) ==
  /\ assigned = Nobody
  /\ pc[w] # "down" /\ closing[w] = "no"
  /\ assigned' = w
  /\ pos' = [pos EXCEPT ![w] = committed]
  /\ UNCHANGED <<log, committed, published, pc, closing, batch, outbox, lost,
                 late, faults, moves>>

\* w has the partitions no more.
Unassign(w) ==
  IF assigned = w
  THEN assigned' = Nobody /\ late' = late \cup Buffered(w)
  ELSE UNCHANGED <<assigned, late>>

\* A rebalance takes them away.
Revoke(w) ==
  /\ assigned = w
  /\ Moves
  /\ Unassign(w)
  /\ UNCHANGED <<log, committed, published, worker, lost, faults>>

\* The records that w has not read, up to "to".
Unread(w, to) == {x \in Place : pos[w][x[1]] < x[2] /\ x[2] <= to[x[1]]}
\* What a poll of w returns when it reads up to "to": the records of a partition
\* together and in their order, the partitions in any order.
Fetched(w, to) ==
  {s \in [1 .. Cardinality(Unread(w, to)) -> Unread(w, to)] :
     /\ ToSet(s) = Unread(w, to)
     /\ \A i, j \in DOMAIN s : i < j /\ s[i][1] = s[j][1] =>
          s[i][2] < s[j][2] /\ \A k \in i .. j : s[k][1] = s[i][1]}
\* How far a poll may read.
Reach(w) == {to \in [Part -> 0 .. MaxLog] :
               \A p \in Part : pos[w][p] <= to[p] /\ to[p] <= Len(log[p])}
Polling(w) == pc[w] = "poll" /\ closing[w] = "no" /\ assigned = w

Poll(w) ==
  /\ Polling(w)
  /\ \E to \in Reach(w) \ {pos[w]} :
       /\ pos' = [pos EXCEPT ![w] = to]
       /\ \E s \in Fetched(w, to) : batch' = [batch EXCEPT ![w] = s]
  /\ pc' = [pc EXCEPT ![w] = "work"]
  /\ UNCHANGED <<kafka, closing, outbox, lost, late, faults, moves>>

\* Fetches with an error of partition p: the loop continues, the records that
\* came with it from the other partitions are not processed, and the client
\* does not return them again.
PollError(w, p) ==
  /\ Polling(w)
  /\ Fault
  /\ \E to \in Reach(w) :
       /\ to[p] = pos[w][p]
       /\ pos' = [pos EXCEPT ![w] = to]
       /\ lost' = lost \cup Unread(w, to)
  /\ UNCHANGED <<kafka, pc, closing, batch, outbox, late, moves>>

\* EmitAsync of the event for x, if it calls for one: into the buffer, or
\* nowhere when the producer has been closed.
Emit(w, x) ==
  IF closing[w] = "closed"
  THEN lost' = lost \cup {x} /\ UNCHANGED outbox
  ELSE /\ outbox' = [outbox EXCEPT ![w] =
             [t \in Topic |-> IF t \in Topics(x) THEN Append(@[t], x) ELSE @[t]]]
       /\ UNCHANGED lost

\* A goroutine for each record.
ProcessAny(w) ==
  /\ pc[w] = "work"
  /\ \E i \in DOMAIN batch[w] :
       /\ Emit(w, batch[w][i])
       /\ batch' = [batch EXCEPT ![w] = RemoveAt(@, i)]
  /\ UNCHANGED <<kafka, pc, closing, pos, late, faults, moves>>

\* An update skipped.
SkipUpdates(w) ==
  /\ pc[w] = "work" /\ batch[w] # << >>
  /\ IF "updated" \in Topics(Head(batch[w]))
     THEN UNCHANGED <<outbox, lost>>
     ELSE Emit(w, Head(batch[w]))
  /\ batch' = [batch EXCEPT ![w] = Tail(@)]
  /\ UNCHANGED <<kafka, pc, closing, pos, late, faults, moves>>

\* EachRecord calls processRecord.
Process(w) ==
  /\ pc[w] = "work" /\ batch[w] # << >>
  /\ Emit(w, Head(batch[w]))
  /\ batch' = [batch EXCEPT ![w] = Tail(@)]
  /\ UNCHANGED <<kafka, pc, closing, pos, late, faults, moves>>

\* Offsets committed before the records are processed.
CommitEarly(w) ==
  /\ pc[w] = "work"
  /\ committed' = IF assigned = w THEN pos[w] ELSE committed
  /\ pc' = [pc EXCEPT ![w] = IF batch[w] = << >> THEN "poll" ELSE @]
  /\ UNCHANGED <<log, assigned, published, closing, pos, batch, outbox, lost,
                 late, faults, moves>>

\* The commit made by a timer, which ends the round.
CommitUnfinished(w) ==
  /\ pc[w] = "work"
  /\ pc' = [pc EXCEPT ![w] = "poll"]
  /\ committed' = IF assigned = w /\ batch[w] = << >> THEN pos[w] ELSE committed
  /\ UNCHANGED <<log, assigned, published, closing, pos, batch, outbox, lost, late,
                 faults, moves>>

\* CommitUncommittedOffsets: all that was polled.  A worker that has lost the
\* partitions or is closing commits nothing.
Commit(w) ==
  /\ pc[w] = "work" /\ batch[w] = << >>
  /\ pc' = [pc EXCEPT ![w] = "poll"]
  /\ \/ /\ committed' = IF assigned = w /\ closing[w] = "no" THEN pos[w] ELSE committed
        /\ UNCHANGED faults
     \/ UNCHANGED committed /\ Fault
  /\ UNCHANGED <<log, assigned, published, closing, pos, batch, outbox, lost, late, moves>>

\* The producer delivers its oldest event of a topic, or gives it up.
Deliver(w, t) ==
  /\ outbox[w][t] # << >>
  /\ outbox' = [outbox EXCEPT ![w][t] = Tail(@)]
  /\ \/ /\ published' = [published EXCEPT ![t] = Append(@, Head(outbox[w][t]))]
        /\ UNCHANGED <<lost, faults>>
     \/ lost' = lost \cup {Head(outbox[w][t])} /\ Fault /\ UNCHANGED published
  /\ UNCHANGED <<log, committed, assigned, pc, closing, pos, batch, late, moves>>

-----------------------------------------------------------------------------
\* Close of the consumer: cancels the loop and leaves the group.  Nothing
\* waits for the loop, which goes on with its batch.
Close(w) ==
  /\ pc[w] # "down" /\ closing[w] = "no"
  /\ Moves
  /\ closing' = [closing EXCEPT ![w] = "cancelled"]
  /\ Unassign(w)
  /\ UNCHANGED <<log, committed, published, pc, pos, batch, outbox, lost, faults>>

Discard(w) ==
  /\ lost' = lost \cup Buffered(w)
  /\ outbox' = [outbox EXCEPT ![w] = Empty]

\* Then connections.Close closes the producer and what it still holds.
CloseProducer(w) ==
  /\ closing[w] = "cancelled"
  /\ closing' = [closing EXCEPT ![w] = "closed"]
  /\ Discard(w)
  /\ UNCHANGED <<kafka, pc, pos, batch, late, faults, moves>>

Down(w) ==
  /\ pc' = [pc EXCEPT ![w] = "down"]
  /\ closing' = [closing EXCEPT ![w] = "no"]
  /\ pos' = [pos EXCEPT ![w] = [p \in Part |-> 0]]
  /\ batch' = [batch EXCEPT ![w] = << >>]
  /\ Discard(w)

\* The process ends: after Close, after its time-out, or by a crash.
Exit(w) ==
  /\ closing[w] # "no"
  /\ Down(w)
  /\ UNCHANGED <<kafka, late, faults, moves>>

Crash(w) ==
  /\ pc[w] # "down"
  /\ Fault
  /\ Down(w)
  /\ assigned' = IF assigned = w THEN Nobody ELSE assigned
  /\ UNCHANGED <<log, committed, published, late, moves>>

Next ==
  \E w \in Worker :
    \/ Start(w) \/ Assign(w) \/ Revoke(w)
    \/ Poll(w) \/ Process(w) \/ Commit(w)
    \/ \E p \in Part : PollError(w, p)
    \/ \E t \in Topic : Deliver(w, t)
    \/ Close(w) \/ CloseProducer(w) \/ Exit(w) \/ Crash(w)

Spec == Init /\ [][Next]_vars

\* The group assigns its partitions, the loop goes round, the producer sends.
\* Nothing makes a worker start.
Fairness ==
  \A w \in Worker :
    /\ WF_vars(Assign(w))
    /\ WF_vars(Poll(w)) /\ WF_vars(Process(w)) /\ WF_vars(Commit(w))
    /\ \A t \in Topic : WF_vars(Deliver(w, t))
FairSpec == Spec /\ Fairness

-----------------------------------------------------------------------------
Published(x) == \E t \in Topic : x \in ToSet(published[t])
\* The places whose record calls for an event.
Due == {x \in Place : x[2] <= Len(log[x[1]]) /\ Topics(x) # {}}

\* The types of the state; a worker has a batch only while it works.
TypeOK ==
  /\ log \in Logs
  /\ DOMAIN committed = Part /\ \A p \in Part : committed[p] \in 0 .. Len(log[p])
  /\ assigned \in Worker \cup {Nobody}
  /\ published \in [Topic -> Seq(Place)]
  /\ pc \in [Worker -> {"down", "poll", "work"}]
  /\ closing \in [Worker -> {"no", "cancelled", "closed"}]
  /\ pos \in [Worker -> [Part -> 0 .. MaxLog]]
  /\ batch \in [Worker -> Seq(Place)]
  /\ outbox \in [Worker -> [Topic -> Seq(Place)]]
  /\ \A w \in Worker : batch[w] # << >> => pc[w] = "work"
  /\ lost \subseteq Place /\ late \subseteq Place
  /\ faults \in 0 .. MaxFaults /\ moves \in 0 .. MaxMoves

(***************************************************************************)
(* Every record below a committed offset is accounted for: its event has   *)
(* been published, is in the buffer of a live producer, or was given up.   *)
(* Rebalances, restarts and commits that fail must not lose another one.   *)
(***************************************************************************)
CommittedAccounted ==
  \A x \in Due : x[2] <= committed[x[1]] =>
    Published(x) \/ x \in lost \/ \E w \in Worker : x \in Buffered(w)

(***************************************************************************)
(* Events of a partition, and so of a user, reach a topic in the order of  *)
(* their records: whatever is published again after a restart or by two    *)
(* workers, a newer state of a user is never there before an older one.    *)
(* The exceptions are an older event that was given up, and one that was   *)
(* committed but still in the buffer of a worker that had to hand over.    *)
(***************************************************************************)
FirstInOrder ==
  \A t \in Topic : \A j \in DOMAIN published[t] :
    LET y == published[t][j] IN
      \A x \in Due \ (lost \cup late) :
        x[1] = y[1] /\ x[2] < y[2] /\ t \in Topics(x) =>
          \E i \in 1 .. j : published[t][i] = x

(***************************************************************************)
(* If some worker keeps running from some time on, every change that calls *)
(* for an event is published in the end, unless its event was given up.    *)
(***************************************************************************)
KeepsRunning(w) == <>[](pc[w] # "down" /\ closing[w] = "no")
EventuallyPublished ==
  (\E w \in Worker : KeepsRunning(w)) =>
    \A x \in Place : (x \in Due) ~> (Published(x) \/ x \in lost)
=============================================================================
