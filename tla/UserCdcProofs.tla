--------------------------- MODULE UserCdcProofs ---------------------------
(***************************************************************************)
(* Theorems about UserCdc for any number of workers, partitions, records   *)
(* and faults.                                                             *)
(***************************************************************************)
EXTENDS UserCdc, FiniteSetTheorems, TLAPS

\* Nothing is polled that is not there.
Offsets ==
  /\ committed \in [Part -> 0 .. MaxLog]
  /\ \A w \in Worker, p \in Part : pos[w][p] <= Len(log[p])

\* The records that FirstInOrder speaks of for a topic, and what it says is
\* already there when y is.
Tracked(t) == {x \in Due \ (lost \cup late) : t \in Topics(x)}
Older(x, y) == x[1] = y[1] /\ x[2] < y[2]
UpTo(s, j, x) == \E i \in 1 .. j : s[i] = x

\* An event of worker w that is on its way or has arrived.
Sent(w, t, x) == x \in ToSet(published[t]) \/ x \in ToSet(outbox[w][t])

\* The events of a buffer, and the records of a batch, follow the older ones.
OutboxInOrder ==
  \A w \in Worker, t \in Topic : \A j \in DOMAIN outbox[w][t] : \A x \in Tracked(t) :
    Older(x, outbox[w][t][j]) => x \in ToSet(published[t]) \/ UpTo(outbox[w][t], j, x)
BatchInOrder ==
  \A w \in Worker, t \in Topic : \A j \in DOMAIN batch[w] : \A x \in Tracked(t) :
    Older(x, batch[w][j]) => Sent(w, t, x) \/ UpTo(batch[w], j, x)

\* What was polled has been sent or waits in the batch; what was committed has
\* been sent by whoever has the partitions, or published.
PolledSent ==
  \A w \in Worker, t \in Topic : \A x \in Tracked(t) :
    x[2] <= pos[w][x[1]] => Sent(w, t, x) \/ x \in ToSet(batch[w])
CommittedSent ==
  \A t \in Topic : \A x \in Tracked(t) : x[2] <= committed[x[1]] =>
    \/ x \in ToSet(published[t])
    \/ assigned \in Worker /\ x \in ToSet(outbox[assigned][t])

\* A late event is still in a buffer, or was published or given up.
Accounted(x) == Published(x) \/ x \in lost \/ \E w \in Worker : x \in Buffered(w)
LateAccounted == \A x \in late : Accounted(x)

IInv ==
  /\ TypeOK
  /\ Offsets
  /\ FirstInOrder
  /\ OutboxInOrder
  /\ BatchInOrder
  /\ PolledSent
  /\ CommittedSent
  /\ LateAccounted

-----------------------------------------------------------------------------
\* What sequences hold.
LEMMA Appended ==
  ASSUME NEW S, NEW s \in Seq(S), NEW x
  PROVE  /\ ToSet(Append(s, x)) = ToSet(s) \cup {x}
         /\ DOMAIN Append(s, x) = 1 .. Len(s) + 1 /\ DOMAIN s = 1 .. Len(s)
         /\ \A i \in 1 .. Len(s) : Append(s, x)[i] = s[i]
         /\ Append(s, x)[Len(s) + 1] = x
BY DEF ToSet

\* A sequence is its head and its tail.
LEMMA Beheaded ==
  ASSUME NEW S, NEW s \in Seq(S), s # << >>
  PROVE  /\ ToSet(s) = {Head(s)} \cup ToSet(Tail(s))
         /\ Head(s) \in S /\ Head(s) = s[1] /\ 1 \in DOMAIN s
         /\ Tail(s) \in Seq(S)
         /\ \A j \in DOMAIN Tail(s) : j \in Nat /\ j + 1 \in DOMAIN s /\ Tail(s)[j] = s[j + 1]
         /\ \A j \in DOMAIN s : j \in Nat /\ (j > 1 => j - 1 \in DOMAIN Tail(s))
<1>1. /\ Len(s) \in Nat \ {0} /\ DOMAIN s = 1 .. Len(s)
      /\ Head(s) \in S /\ Head(s) = s[1] /\ Tail(s) \in Seq(S)
      /\ DOMAIN Tail(s) = 1 .. Len(s) - 1
      /\ \A j \in 1 .. Len(s) - 1 : Tail(s)[j] = s[j + 1]
  OBVIOUS
<1>2. ASSUME NEW j \in DOMAIN s, j # 1
      PROVE  j - 1 \in DOMAIN Tail(s) /\ s[j] = Tail(s)[j - 1]
  <2>1. j - 1 \in 1 .. Len(s) - 1 /\ (j - 1) + 1 = j
    BY <1>1, <1>2
  <2> QED
    BY <1>1, <2>1
<1>3. \A j \in DOMAIN Tail(s) : j + 1 \in DOMAIN s /\ Tail(s)[j] = s[j + 1]
  BY <1>1
<1>4. ToSet(s) = {Head(s)} \cup ToSet(Tail(s))
  <2>1. ASSUME NEW x \in ToSet(s) PROVE x = Head(s) \/ x \in ToSet(Tail(s))
    <3>1. PICK j \in DOMAIN s : s[j] = x
      BY DEF ToSet
    <3> QED
      BY <1>1, <1>2, <3>1 DEF ToSet
  <2>2. Head(s) \in ToSet(s) /\ ToSet(Tail(s)) \subseteq ToSet(s)
    BY <1>1, <1>3 DEF ToSet
  <2> QED
    BY <2>1, <2>2
<1> QED
  BY <1>1, <1>2, <1>3, <1>4

\* What is in front of the j-th of a sequence without its head.
LEMMA UpToTail ==
  ASSUME NEW S, NEW s \in Seq(S), s # << >>, NEW j \in DOMAIN Tail(s), NEW x,
         UpTo(s, j + 1, x)
  PROVE  x = Head(s) \/ UpTo(Tail(s), j, x)
<1>1. PICK i \in 1 .. j + 1 : s[i] = x
  BY DEF UpTo
<1>2. CASE i = 1
  BY <1>1, <1>2, Beheaded
<1>3. CASE i > 1
  <2>1. j \in 1 .. Len(s) - 1
    OBVIOUS
  <2>2. i - 1 \in 1 .. j /\ Tail(s)[i - 1] = s[i]
    BY <1>3, <2>1
  <2> QED
    BY <1>1, <2>2 DEF UpTo
<1> QED
  BY <1>2, <1>3

\* Every event has a topic, and every record of the log a place.
LEMMA TopicsAreTopics == \A x : Topics(x) \subseteq Topic
BY DEF Topics, TopicOf, Topic

\* What a poll returns: all that is unread, in order.
LEMMA FetchedRecords ==
  ASSUME TypeOK, NEW w \in Worker, NEW to \in Reach(w), NEW s \in Fetched(w, to)
  PROVE  /\ s \in Seq(Place) /\ ToSet(s) = Unread(w, to)
         /\ \A i, j \in DOMAIN s : i < j /\ s[i][1] = s[j][1] => s[i][2] < s[j][2]
<1>1. IsFiniteSet(Place)
  <2>1. IsFiniteSet(1 .. MaxLog)
    BY BoundAssumption, FS_Interval
  <2> QED
    BY <2>1, PartAssumption, FS_Product DEF Place
<1>2. Cardinality(Unread(w, to)) \in Nat
  <2>1. Unread(w, to) \in SUBSET Place
    BY DEF Unread
  <2> QED
    BY <1>1, <2>1, FS_Subset, FS_CardinalityType
<1>3. /\ s \in [1 .. Cardinality(Unread(w, to)) -> Place] /\ ToSet(s) = Unread(w, to)
      /\ \A i, j \in DOMAIN s : i < j /\ s[i][1] = s[j][1] => s[i][2] < s[j][2]
  BY DEF Fetched, Unread
<1> QED
  BY <1>2, <1>3

\* The invariant holds at the start.
LEMMA InitInv == Init => IInv
<1> SUFFICES ASSUME Init PROVE IInv
  OBVIOUS
<1> USE DEF Init, Empty
<1>1. TypeOK
  BY LogsAssumption, BoundAssumption DEF TypeOK
<1>2. Offsets
  BY LogsAssumption, BoundAssumption DEF Offsets
<1>3. FirstInOrder /\ OutboxInOrder /\ BatchInOrder /\ LateAccounted
  BY DEF FirstInOrder, OutboxInOrder, BatchInOrder, LateAccounted
<1>4. PolledSent /\ CommittedSent
  BY DEF PolledSent, CommittedSent, Tracked, Due, Place
<1> QED
  BY <1>1, <1>2, <1>3, <1>4 DEF IInv

-----------------------------------------------------------------------------
\* What a step does to the events of a worker for a topic: nothing, or it adds
\* one for the record in hand, sends the oldest or gives it up, or drops all.
LEMMA OutboxSteps ==
  ASSUME TypeOK, [Next]_vars, NEW w \in Worker, NEW t \in Topic
  PROVE  \/ outbox'[w][t] = outbox[w][t]
         \/ /\ batch[w] # << >> /\ t \in Topics(Head(batch[w]))
            /\ batch'[w] = Tail(batch[w])
            /\ outbox'[w][t] = Append(outbox[w][t], Head(batch[w]))
         \/ /\ outbox[w][t] # << >>
            /\ outbox'[w][t] = Tail(outbox[w][t])
            /\ \/ published'[t] = Append(published[t], Head(outbox[w][t]))
               \/ Head(outbox[w][t]) \in lost'
         \/ outbox'[w][t] = << >> /\ ToSet(outbox[w][t]) \subseteq lost'
<1> DEFINE Goal ==
         \/ outbox'[w][t] = outbox[w][t]
         \/ /\ batch[w] # << >> /\ t \in Topics(Head(batch[w]))
            /\ batch'[w] = Tail(batch[w])
            /\ outbox'[w][t] = Append(outbox[w][t], Head(batch[w]))
         \/ /\ outbox[w][t] # << >>
            /\ outbox'[w][t] = Tail(outbox[w][t])
            /\ \/ published'[t] = Append(published[t], Head(outbox[w][t]))
               \/ Head(outbox[w][t]) \in lost'
         \/ outbox'[w][t] = << >> /\ ToSet(outbox[w][t]) \subseteq lost'
<1>0. /\ outbox \in [Worker -> [Topic -> Seq(Place)]] /\ batch \in [Worker -> Seq(Place)]
      /\ published \in [Topic -> Seq(Place)]
  BY DEF TypeOK
<1>1. ASSUME NEW v \in Worker,
             Start(v) \/ Assign(v) \/ Revoke(v) \/ Poll(v) \/ Commit(v) \/ Close(v)
               \/ \E p \in Part : PollError(v, p)
      PROVE  Goal
  BY <1>1 DEF Start, Assign, Revoke, Poll, Commit, Close, PollError, worker
<1>2. ASSUME NEW v \in Worker, Process(v) PROVE Goal
  <2>1. CASE outbox' = outbox
    BY <2>1
  <2>2. CASE outbox' = [outbox EXCEPT ![v] =
               [s \in Topic |-> IF s \in Topics(Head(batch[v]))
                                THEN Append(outbox[v][s], Head(batch[v])) ELSE outbox[v][s]]]
    <3>1. batch[v] # << >> /\ batch'[v] = Tail(batch[v])
      BY <1>0, <1>2 DEF Process
    <3>2. outbox'[w][t] = IF w = v /\ t \in Topics(Head(batch[v]))
                          THEN Append(outbox[v][t], Head(batch[v])) ELSE outbox[w][t]
      BY <1>0, <2>2
    <3> QED
      BY <3>1, <3>2
  <2> QED
    BY <1>2, <2>1, <2>2 DEF Process, Emit
<1>3. ASSUME NEW v \in Worker, NEW s \in Topic, Deliver(v, s) PROVE Goal
  BY <1>0, <1>3 DEF Deliver
<1>4. ASSUME NEW v \in Worker, Discard(v) PROVE Goal
  BY <1>0, <1>4 DEF Discard, Buffered, Empty
<1>5. ASSUME NEW v \in Worker, CloseProducer(v) \/ Exit(v) \/ Crash(v) PROVE Goal
  BY <1>4, <1>5 DEF CloseProducer, Exit, Crash, Down
<1>6. CASE UNCHANGED vars
  BY <1>6 DEF vars
<1> QED
  BY <1>1, <1>2, <1>3, <1>5, <1>6 DEF Next

\* What a step does to a topic of events: nothing, or a worker adds its oldest.
LEMMA PublishedSteps ==
  ASSUME TypeOK, [Next]_vars, NEW t \in Topic
  PROVE  \/ published'[t] = published[t]
         \/ \E w \in Worker :
              /\ outbox[w][t] # << >>
              /\ published'[t] = Append(published[t], Head(outbox[w][t]))
<1>1. ASSUME NEW v \in Worker, NEW s \in Topic, Deliver(v, s)
      PROVE  \/ published'[t] = published[t]
             \/ /\ outbox[v][t] # << >>
                /\ published'[t] = Append(published[t], Head(outbox[v][t]))
  BY <1>1 DEF Deliver, TypeOK
<1>2. ASSUME NEW v \in Worker,
             Start(v) \/ Assign(v) \/ Revoke(v) \/ Poll(v) \/ Process(v) \/ Commit(v)
               \/ Close(v) \/ CloseProducer(v) \/ Exit(v) \/ Crash(v)
               \/ \E p \in Part : PollError(v, p)
      PROVE  published' = published
  BY <1>2 DEF Start, Assign, Revoke, Poll, Process, Commit, Close, CloseProducer, Exit,
              Crash, PollError, kafka
<1>3. CASE UNCHANGED vars
  BY <1>3 DEF vars
<1> QED
  BY <1>1, <1>2, <1>3 DEF Next

\* What a step does to the records of a worker: nothing, or it starts reading at
\* the committed offsets, skips records that it gives up, polls, processes one
\* (into the buffer, or for nothing), or is gone.
LEMMA BatchSteps ==
  ASSUME TypeOK, [Next]_vars, NEW w \in Worker
  PROVE  \/ batch'[w] = batch[w] /\ pos'[w] = pos[w]
         \/ batch'[w] = batch[w] /\ pos'[w] = committed /\ assigned = Nobody
         \/ /\ batch'[w] = batch[w]
            /\ pos'[w] \in Reach(w) /\ Unread(w, pos'[w]) \subseteq lost'
         \/ /\ batch[w] = << >>
            /\ pos'[w] \in Reach(w) /\ batch'[w] \in Fetched(w, pos'[w])
         \/ /\ batch[w] # << >> /\ pos'[w] = pos[w] /\ batch'[w] = Tail(batch[w])
            /\ \/ Head(batch[w]) \in lost'
               \/ \A t \in Topics(Head(batch[w])) :
                    outbox'[w][t] = Append(outbox[w][t], Head(batch[w]))
         \/ batch'[w] = << >> /\ pos'[w] = [p \in Part |-> 0]
<1> DEFINE Goal ==
         \/ batch'[w] = batch[w] /\ pos'[w] = pos[w]
         \/ batch'[w] = batch[w] /\ pos'[w] = committed /\ assigned = Nobody
         \/ /\ batch'[w] = batch[w]
            /\ pos'[w] \in Reach(w) /\ Unread(w, pos'[w]) \subseteq lost'
         \/ /\ batch[w] = << >>
            /\ pos'[w] \in Reach(w) /\ batch'[w] \in Fetched(w, pos'[w])
         \/ /\ batch[w] # << >> /\ pos'[w] = pos[w] /\ batch'[w] = Tail(batch[w])
            /\ \/ Head(batch[w]) \in lost'
               \/ \A t \in Topics(Head(batch[w])) :
                    outbox'[w][t] = Append(outbox[w][t], Head(batch[w]))
         \/ batch'[w] = << >> /\ pos'[w] = [p \in Part |-> 0]
<1>0. /\ outbox \in [Worker -> [Topic -> Seq(Place)]] /\ batch \in [Worker -> Seq(Place)]
      /\ pos \in [Worker -> [Part -> 0 .. MaxLog]]
      /\ \A v \in Worker : pc[v] = "poll" => batch[v] = << >>
  BY DEF TypeOK
<1>1. ASSUME NEW v \in Worker,
             Start(v) \/ Revoke(v) \/ Commit(v) \/ Close(v) \/ CloseProducer(v)
               \/ \E t \in Topic : Deliver(v, t)
      PROVE  Goal
  BY <1>1 DEF Start, Revoke, Commit, Close, CloseProducer, Deliver, worker
<1>2. ASSUME NEW v \in Worker, Assign(v) PROVE Goal
  BY <1>0, <1>2 DEF Assign
<1>3. ASSUME NEW v \in Worker, NEW p \in Part, PollError(v, p) PROVE Goal
  BY <1>0, <1>3 DEF PollError
<1>4. ASSUME NEW v \in Worker, Poll(v) PROVE Goal
  BY <1>0, <1>4 DEF Poll, Polling
<1>5. ASSUME NEW v \in Worker, Process(v) PROVE Goal
  BY <1>0, <1>5, TopicsAreTopics DEF Process, Emit
<1>6. ASSUME NEW v \in Worker, Exit(v) \/ Crash(v) PROVE Goal
  BY <1>0, <1>6 DEF Exit, Crash, Down
<1>7. CASE UNCHANGED vars
  BY <1>7 DEF vars
<1> QED
  BY <1>1, <1>2, <1>3, <1>4, <1>5, <1>6, <1>7 DEF Next

\* What a step does to the offsets: a worker that has the partitions commits all
\* that it has polled, when it has no record left; what a worker that hands the
\* partitions over still holds is late, and what one takes with it is lost.
LEMMA GroupSteps ==
  ASSUME TypeOK, [Next]_vars
  PROVE  \/ committed' = committed /\ assigned' = assigned
         \/ /\ assigned \in Worker /\ assigned' = assigned
            /\ batch[assigned] = << >> /\ committed' = pos[assigned]
         \/ committed' = committed /\ assigned = Nobody /\ assigned' \in Worker
         \/ /\ committed' = committed /\ assigned \in Worker /\ assigned' = Nobody
            /\ Buffered(assigned) \subseteq late' \cup lost'
<1> DEFINE Goal ==
         \/ committed' = committed /\ assigned' = assigned
         \/ /\ assigned \in Worker /\ assigned' = assigned
            /\ batch[assigned] = << >> /\ committed' = pos[assigned]
         \/ committed' = committed /\ assigned = Nobody /\ assigned' \in Worker
         \/ /\ committed' = committed /\ assigned \in Worker /\ assigned' = Nobody
            /\ Buffered(assigned) \subseteq late' \cup lost'
<1>1. ASSUME NEW v \in Worker,
             Start(v) \/ Poll(v) \/ Process(v) \/ CloseProducer(v) \/ Exit(v)
               \/ (\E p \in Part : PollError(v, p)) \/ (\E t \in Topic : Deliver(v, t))
      PROVE  Goal
  BY <1>1 DEF Start, Poll, Process, CloseProducer, Exit, PollError, Deliver, kafka
<1>2. ASSUME NEW v \in Worker, Assign(v) PROVE Goal
  BY <1>2 DEF Assign
<1>3. ASSUME NEW v \in Worker, Revoke(v) \/ Close(v) PROVE Goal
  BY <1>3 DEF Revoke, Close, Unassign
<1>4. ASSUME NEW v \in Worker, Commit(v) PROVE Goal
  BY <1>4 DEF Commit
<1>5. ASSUME NEW v \in Worker, Crash(v) PROVE Goal
  BY <1>5 DEF Crash, Down, Discard
<1>6. CASE UNCHANGED vars
  BY <1>6 DEF vars
<1> QED
  BY <1>1, <1>2, <1>3, <1>4, <1>5, <1>6 DEF Next

-----------------------------------------------------------------------------
\* Every step preserves the types.
LEMMA StepType ==
  ASSUME TypeOK, Offsets, [Next]_vars
  PROVE  TypeOK'
<1> USE BoundAssumption DEF TypeOK, Fault, Moves
<1>0. /\ \A v \in Worker, p \in Part : pos[v][p] <= Len(log[p])
      /\ committed \in [Part -> 0 .. MaxLog]
      /\ \A p \in Part : log[p] \in Seq(Kind) /\ Len(log[p]) \in 0 .. MaxLog
      /\ \A v \in Worker : Buffered(v) \subseteq Place
      /\ Empty \in [Topic -> Seq(Place)]
  BY LogsAssumption DEF Offsets, Buffered, ToSet, Empty
<1>1. ASSUME NEW v \in Worker, Start(v) PROVE TypeOK'
  BY <1>1 DEF Start, kafka
<1>2. ASSUME NEW v \in Worker, Assign(v) PROVE TypeOK'
  BY <1>0, <1>2 DEF Assign
<1>3. ASSUME NEW v \in Worker, Revoke(v) PROVE TypeOK'
  BY <1>0, <1>3 DEF Revoke, Unassign, worker
<1>4. ASSUME NEW v \in Worker, Poll(v) PROVE TypeOK'
  <2>1. PICK to \in Reach(v) : /\ pos' = [pos EXCEPT ![v] = to]
                               /\ \E s \in Fetched(v, to) : batch' = [batch EXCEPT ![v] = s]
    BY <1>4 DEF Poll
  <2>2. PICK s \in Fetched(v, to) : batch' = [batch EXCEPT ![v] = s]
    BY <2>1
  <2>3. s \in Seq(Place) /\ to \in [Part -> 0 .. MaxLog]
    BY FetchedRecords DEF Reach
  <2> HIDE DEF Fault, Moves
  <2> QED
    BY <1>4, <2>1, <2>2, <2>3 DEF Poll, kafka
<1>5. ASSUME NEW v \in Worker, NEW p \in Part, PollError(v, p) PROVE TypeOK'
  BY <1>5 DEF PollError, Reach, Unread, kafka
<1>6. ASSUME NEW v \in Worker, Process(v) PROVE TypeOK'
  <2>1. Head(batch[v]) \in Place /\ Tail(batch[v]) \in Seq(Place)
    BY <1>6 DEF Process
  <2>2. lost' \subseteq Place /\ outbox' \in [Worker -> [Topic -> Seq(Place)]]
    <3> DEFINE x == Head(batch[v])
               more == [t \in Topic |-> IF t \in Topics(x) THEN Append(outbox[v][t], x)
                                        ELSE outbox[v][t]]
    <3>1. \/ lost' = lost \cup {x} /\ outbox' = outbox
          \/ lost' = lost /\ outbox' = [outbox EXCEPT ![v] = more]
      BY <1>6 DEF Process, Emit
    <3>2. more \in [Topic -> Seq(Place)]
      BY <2>1
    <3> HIDE DEF more
    <3> QED
      BY <2>1, <3>1, <3>2
  <2> QED
    BY <1>6, <2>1, <2>2 DEF Process, kafka
<1>7. ASSUME NEW v \in Worker, Commit(v) PROVE TypeOK'
  <2>1. DOMAIN committed' = Part /\ \A p \in Part : committed'[p] \in 0 .. Len(log[p])
    BY <1>0, <1>7 DEF Commit
  <2> QED
    BY <1>7, <2>1 DEF Commit
<1>8. ASSUME NEW v \in Worker, NEW t \in Topic, Deliver(v, t) PROVE TypeOK'
  <2>1. Head(outbox[v][t]) \in Place /\ Tail(outbox[v][t]) \in Seq(Place)
    BY <1>8 DEF Deliver
  <2>2. outbox' \in [Worker -> [Topic -> Seq(Place)]]
    BY <1>8, <2>1 DEF Deliver
  <2>3. published' \in [Topic -> Seq(Place)] /\ lost' \subseteq Place
    <3>1. Append(published[t], Head(outbox[v][t])) \in Seq(Place)
      BY <2>1
    <3> QED
      BY <1>8, <2>1, <3>1 DEF Deliver
  <2> QED
    BY <1>8, <2>2, <2>3 DEF Deliver
<1>9. ASSUME NEW v \in Worker, Close(v) PROVE TypeOK'
  BY <1>0, <1>9 DEF Close, Unassign
<1>10. ASSUME NEW v \in Worker, CloseProducer(v) PROVE TypeOK'
  BY <1>0, <1>10 DEF CloseProducer, Discard, kafka
<1>11. ASSUME NEW v \in Worker, Exit(v) PROVE TypeOK'
  BY <1>0, <1>11 DEF Exit, Down, Discard, kafka
<1>12. ASSUME NEW v \in Worker, Crash(v) PROVE TypeOK'
  BY <1>0, <1>12 DEF Crash, Down, Discard
<1>13. CASE UNCHANGED vars
  BY <1>13 DEF vars
<1> QED
  BY <1>1, <1>2, <1>3, <1>4, <1>5, <1>6, <1>7, <1>8, <1>9, <1>10, <1>11, <1>12, <1>13
     DEF Next

\* The log stays, and what is published, lost or late stays so.
LEMMA Grows ==
  ASSUME TypeOK, [Next]_vars
  PROVE  /\ log' = log /\ lost \subseteq lost' /\ late \subseteq late'
         /\ \A t \in Topic : ToSet(published[t]) \subseteq ToSet(published'[t])
         /\ \A t \in Topic : Tracked(t)' \subseteq Tracked(t)
<1>1. log' = log
  BY DEF Next, vars, kafka, Start, Assign, Revoke, Poll, PollError, Process, Commit,
         Deliver, Close, CloseProducer, Exit, Crash
<1>2. lost \subseteq lost'
  BY DEF Next, vars, Start, Assign, Revoke, Poll, PollError, Process, Emit, Commit,
         Deliver, Close, CloseProducer, Exit, Crash, Down, Discard
<1>3. late \subseteq late'
  BY DEF Next, vars, Start, Assign, Revoke, Unassign, Poll, PollError, Process, Commit,
         Deliver, Close, CloseProducer, Exit, Crash
<1>4. ASSUME NEW t \in Topic PROVE ToSet(published[t]) \subseteq ToSet(published'[t])
  <2>1. published[t] \in Seq(Place)
    BY DEF TypeOK
  <2>2. \A y : ToSet(Append(published[t], y)) = ToSet(published[t]) \cup {y}
    BY <2>1, Appended
  <2> QED
    BY <2>2, PublishedSteps
<1>5. Due' = Due /\ \A x : Topics(x)' = Topics(x)
  BY <1>1 DEF Due, Topics
<1> QED
  BY <1>1, <1>2, <1>3, <1>4, <1>5 DEF Tracked

\* What is sent stays sent, or is given up.
LEMMA SentStays ==
  ASSUME TypeOK, [Next]_vars, NEW w \in Worker, NEW t \in Topic, NEW x,
         Sent(w, t, x), x \notin lost'
  PROVE  Sent(w, t, x)'
<1>1. CASE x \in ToSet(published[t])
  BY <1>1, Grows DEF Sent
<1>2. CASE x \in ToSet(outbox[w][t])
  <2>0. outbox[w][t] \in Seq(Place) /\ published[t] \in Seq(Place)
    BY DEF TypeOK
  <2>1. CASE outbox'[w][t] = outbox[w][t]
    BY <1>2, <2>1 DEF Sent
  <2>2. CASE outbox'[w][t] = Append(outbox[w][t], Head(batch[w]))
    BY <1>2, <2>0, <2>2, Appended DEF Sent
  <2>3. CASE /\ outbox[w][t] # << >>
             /\ outbox'[w][t] = Tail(outbox[w][t])
             /\ \/ published'[t] = Append(published[t], Head(outbox[w][t]))
                \/ Head(outbox[w][t]) \in lost'
    <3>1. x = Head(outbox[w][t]) \/ x \in ToSet(Tail(outbox[w][t]))
      BY <1>2, <2>0, <2>3, Beheaded
    <3>2. \A y : ToSet(Append(published[t], y)) = ToSet(published[t]) \cup {y}
      BY <2>0, Appended
    <3> QED
      BY <2>3, <3>1, <3>2 DEF Sent
  <2> QED
    BY <1>2, <2>1, <2>2, <2>3, OutboxSteps
<1> QED
  BY <1>1, <1>2 DEF Sent

\* Every step preserves that offsets are within the log.
LEMMA StepOffsets ==
  ASSUME TypeOK, Offsets, [Next]_vars
  PROVE  Offsets'
<1>0. /\ log' = log /\ pos \in [Worker -> [Part -> 0 .. MaxLog]]
      /\ \A p \in Part : Len(log[p]) \in Nat /\ committed[p] <= Len(log[p])
  BY Grows, LogsAssumption DEF TypeOK
<1>1. committed' \in [Part -> 0 .. MaxLog]
  BY <1>0, GroupSteps DEF Offsets
<1>2. ASSUME NEW w \in Worker, NEW p \in Part PROVE pos'[w][p] <= Len(log[p])
  BY <1>0, BatchSteps DEF Offsets, Reach
<1> QED
  BY <1>0, <1>1, <1>2 DEF Offsets

\* FirstInOrder, said of the tracked records.
LEMMA FirstIsTracked ==
  FirstInOrder <=>
    \A t \in Topic : \A j \in DOMAIN published[t] : \A x \in Tracked(t) :
      Older(x, published[t][j]) => UpTo(published[t], j, x)
BY DEF FirstInOrder, Tracked, Older, UpTo

\* Every step preserves FirstInOrder.
LEMMA StepFirst ==
  ASSUME IInv, [Next]_vars
  PROVE  FirstInOrder'
<1>0. TypeOK
  BY DEF IInv
<1>1. ASSUME NEW t \in Topic, NEW j \in DOMAIN published'[t], NEW x \in Tracked(t)',
             Older(x, published'[t][j])
      PROVE  UpTo(published'[t], j, x)
  <2>0. x \in Tracked(t) /\ x \in Place /\ published[t] \in Seq(Place)
    BY <1>0, Grows DEF Tracked, Due, TypeOK
  <2>1. CASE published'[t] = published[t]
    BY <1>1, <2>0, <2>1, FirstIsTracked DEF IInv
  <2>2. ASSUME NEW w \in Worker, outbox[w][t] # << >>,
               published'[t] = Append(published[t], Head(outbox[w][t]))
        PROVE  UpTo(published'[t], j, x)
    <3> DEFINE s == published[t]
               y == Head(outbox[w][t])
    <3>1. outbox[w][t] \in Seq(Place)
      BY <1>0 DEF TypeOK
    <3>2. y = outbox[w][t][1] /\ 1 \in DOMAIN outbox[w][t] /\ y \in Place
      BY <2>2, <3>1, Beheaded
    <3>3. /\ j \in 1 .. Len(s) + 1 /\ DOMAIN s = 1 .. Len(s) /\ Len(s) \in Nat
          /\ \A i \in 1 .. Len(s) : published'[t][i] = s[i]
          /\ published'[t][Len(s) + 1] = y
      BY <2>0, <2>2, Appended
    <3>4. CASE j \in 1 .. Len(s)
      <4>1. UpTo(s, j, x)
        BY <1>1, <2>0, <3>3, <3>4, FirstIsTracked DEF IInv
      <4> QED
        BY <3>3, <3>4, <4>1 DEF UpTo
    <3>5. CASE j = Len(s) + 1
      <4>1. Older(x, y)
        BY <1>1, <3>3, <3>5
      <4>2. x \in ToSet(s) \/ UpTo(outbox[w][t], 1, x)
        BY <2>0, <3>2, <4>1 DEF IInv, OutboxInOrder
      <4>3. ~UpTo(outbox[w][t], 1, x)
        BY <2>0, <3>2, <4>1 DEF UpTo, Older, Place
      <4> QED
        BY <3>3, <3>5, <4>2, <4>3 DEF UpTo, ToSet
    <3> QED
      BY <3>3, <3>4, <3>5
  <2> QED
    BY <1>0, <2>1, <2>2, PublishedSteps
<1> QED
  BY <1>1, FirstIsTracked DEF FirstInOrder, Tracked, Older, UpTo

\* Every step preserves the order in the buffers.
LEMMA StepOutbox ==
  ASSUME IInv, [Next]_vars
  PROVE  OutboxInOrder'
<1>0. TypeOK
  BY DEF IInv
<1>1. ASSUME NEW w \in Worker, NEW t \in Topic, NEW j \in DOMAIN outbox'[w][t],
             NEW x \in Tracked(t)', Older(x, outbox'[w][t][j])
      PROVE  x \in ToSet(published'[t]) \/ UpTo(outbox'[w][t], j, x)
  <2> DEFINE s == outbox[w][t]
  <2>0. /\ x \in Tracked(t) /\ x \in Place /\ x \notin lost'
        /\ s \in Seq(Place) /\ batch[w] \in Seq(Place) /\ published[t] \in Seq(Place)
        /\ ToSet(published[t]) \subseteq ToSet(published'[t])
    BY <1>0, Grows DEF Tracked, Due, TypeOK
  <2>1. \A i \in DOMAIN s : Older(x, s[i]) => x \in ToSet(published[t]) \/ UpTo(s, i, x)
    BY <2>0 DEF IInv, OutboxInOrder
  <2>2. CASE outbox'[w][t] = s
    BY <1>1, <2>0, <2>1, <2>2
  <2>3. CASE batch[w] # << >> /\ outbox'[w][t] = Append(s, Head(batch[w]))
    <3> DEFINE y == Head(batch[w])
    <3>1. y = batch[w][1] /\ 1 \in DOMAIN batch[w] /\ y \in Place
      BY <2>0, <2>3, Beheaded
    <3>2. /\ j \in 1 .. Len(s) + 1 /\ DOMAIN s = 1 .. Len(s) /\ Len(s) \in Nat
          /\ \A i \in 1 .. Len(s) : outbox'[w][t][i] = s[i]
          /\ outbox'[w][t][Len(s) + 1] = y
      BY <2>0, <2>3, Appended
    <3>3. CASE j \in 1 .. Len(s)
      <4>1. Older(x, s[j])
        BY <1>1, <3>2, <3>3
      <4>2. x \in ToSet(published[t]) \/ UpTo(s, j, x)
        BY <2>1, <3>2, <3>3, <4>1
      <4>3. UpTo(s, j, x) => UpTo(outbox'[w][t], j, x)
        BY <3>2, <3>3 DEF UpTo
      <4> QED
        BY <2>0, <4>2, <4>3
    <3>4. CASE j = Len(s) + 1
      <4>1. Older(x, y)
        BY <1>1, <3>2, <3>4
      <4>2. Sent(w, t, x) \/ UpTo(batch[w], 1, x)
        BY <2>0, <3>1, <4>1 DEF IInv, BatchInOrder
      <4>3. ~UpTo(batch[w], 1, x)
        BY <2>0, <3>1, <4>1 DEF UpTo, Older, Place
      <4>4. CASE x \in ToSet(s)
        <5>1. PICK i \in 1 .. Len(s) : s[i] = x
          BY <3>2, <4>4 DEF ToSet
        <5>2. i \in 1 .. j /\ outbox'[w][t][i] = x
          BY <3>2, <3>4, <5>1
        <5> QED
          BY <5>2 DEF UpTo
      <4> QED
        BY <2>0, <4>2, <4>3, <4>4 DEF Sent
    <3> QED
      BY <3>2, <3>3, <3>4
  <2>4. CASE /\ s # << >> /\ outbox'[w][t] = Tail(s)
             /\ \/ published'[t] = Append(published[t], Head(s))
                \/ Head(s) \in lost'
    <3>1. j + 1 \in DOMAIN s /\ outbox'[w][t][j] = s[j + 1]
      BY <2>0, <2>4, Beheaded
    <3>2. x \in ToSet(published[t]) \/ UpTo(s, j + 1, x)
      BY <1>1, <2>1, <3>1
    <3>3. UpTo(s, j + 1, x) => x = Head(s) \/ UpTo(Tail(s), j, x)
      BY <2>0, <2>4, UpToTail
    <3>4. published'[t] = Append(published[t], Head(s)) => Head(s) \in ToSet(published'[t])
      BY <2>0, Appended
    <3> QED
      BY <2>0, <2>4, <3>2, <3>3, <3>4
  <2>5. CASE outbox'[w][t] = << >>
    BY <2>5
  <2> QED
    BY <1>0, <2>2, <2>3, <2>4, <2>5, OutboxSteps
<1> QED
  BY <1>1 DEF OutboxInOrder

\* Every step preserves the order in the batches.
LEMMA StepBatch ==
  ASSUME IInv, [Next]_vars
  PROVE  BatchInOrder'
<1>0. TypeOK
  BY DEF IInv
<1>1. ASSUME NEW w \in Worker, NEW t \in Topic, NEW j \in DOMAIN batch'[w],
             NEW x \in Tracked(t)', Older(x, batch'[w][j])
      PROVE  Sent(w, t, x)' \/ UpTo(batch'[w], j, x)
  <2> DEFINE s == batch[w]
  <2>0. /\ x \in Tracked(t) /\ x \in Place /\ x \notin lost' /\ t \in Topics(x)
        /\ s \in Seq(Place) /\ outbox[w][t] \in Seq(Place)
        /\ pos[w] \in [Part -> 0 .. MaxLog]
        /\ (Sent(w, t, x) => Sent(w, t, x)')
    BY <1>0, Grows, SentStays DEF Tracked, Due, TypeOK
  <2>1. \A i \in DOMAIN s : Older(x, s[i]) => Sent(w, t, x) \/ UpTo(s, i, x)
    BY <2>0 DEF IInv, BatchInOrder
  <2>2. CASE batch'[w] = s
    BY <1>1, <2>0, <2>1, <2>2
  <2>3. CASE /\ s = << >>
             /\ pos'[w] \in Reach(w) /\ batch'[w] \in Fetched(w, pos'[w])
    <3>1. PICK to \in Reach(w) : batch'[w] \in Fetched(w, to)
      BY <2>3
    <3>2. /\ batch'[w] \in Seq(Place) /\ ToSet(batch'[w]) = Unread(w, to)
          /\ \A i, k \in DOMAIN batch'[w] :
               i < k /\ batch'[w][i][1] = batch'[w][k][1] => batch'[w][i][2] < batch'[w][k][2]
      BY <1>0, <3>1, FetchedRecords
    <3>3. batch'[w][j] \in Unread(w, to) /\ batch'[w][j] \in Place
      BY <3>2 DEF ToSet, Unread
    <3>4. CASE x[2] <= pos[w][x[1]]
      <4>1. Sent(w, t, x) \/ x \in ToSet(s)
        BY <2>0, <3>4 DEF IInv, PolledSent
      <4> QED
        BY <2>0, <2>3, <4>1 DEF ToSet
    <3>5. CASE ~(x[2] <= pos[w][x[1]])
      <4>1. x \in Unread(w, to)
        BY <1>1, <2>0, <3>1, <3>3, <3>5 DEF Unread, Older, Place, Reach
      <4>2. PICK i \in DOMAIN batch'[w] : batch'[w][i] = x
        BY <3>2, <4>1 DEF ToSet
      <4>3. ~(j < i)
        <5>1. x[1] = batch'[w][j][1] /\ x[2] < batch'[w][j][2]
          BY <1>1 DEF Older
        <5>2. x[2] \in Int /\ batch'[w][j][2] \in Int
          BY <2>0, <3>3 DEF Place
        <5>3. j < i => batch'[w][j][2] < x[2]
          BY <3>2, <4>2, <5>1
        <5> QED
          BY <5>1, <5>2, <5>3
      <4>4. i \in 1 .. j
        BY <3>2, <4>3
      <4> QED
        BY <4>2, <4>4 DEF UpTo
    <3> QED
      BY <3>4, <3>5
  <2>4. CASE /\ s # << >> /\ batch'[w] = Tail(s)
             /\ \/ Head(s) \in lost'
                \/ \A u \in Topics(Head(s)) : outbox'[w][u] = Append(outbox[w][u], Head(s))
    <3>1. j + 1 \in DOMAIN s /\ batch'[w][j] = s[j + 1]
      BY <2>0, <2>4, Beheaded
    <3>2. Sent(w, t, x) \/ UpTo(s, j + 1, x)
      BY <1>1, <2>1, <3>1
    <3>3. UpTo(s, j + 1, x) => x = Head(s) \/ UpTo(Tail(s), j, x)
      BY <2>0, <2>4, UpToTail
    <3>4. x = Head(s) => Sent(w, t, x)'
      <4>1. x \in ToSet(Append(outbox[w][t], x))
        BY <2>0, Appended
      <4> QED
        BY <2>0, <2>4, <4>1 DEF Sent
    <3> QED
      BY <2>0, <2>4, <3>2, <3>3, <3>4
  <2>5. CASE batch'[w] = << >>
    BY <2>5
  <2> QED
    BY <1>0, <2>2, <2>3, <2>4, <2>5, BatchSteps
<1> QED
  BY <1>1 DEF BatchInOrder

\* Every step preserves that what was polled was sent or waits.
LEMMA StepPolled ==
  ASSUME IInv, [Next]_vars
  PROVE  PolledSent'
<1>0. TypeOK
  BY DEF IInv
<1>1. ASSUME NEW w \in Worker, NEW t \in Topic, NEW x \in Tracked(t)', x[2] <= pos'[w][x[1]]
      PROVE  Sent(w, t, x)' \/ x \in ToSet(batch'[w])
  <2> DEFINE s == batch[w]
  <2>0. /\ x \in Tracked(t) /\ x \in Place /\ x \notin lost' /\ t \in Topics(x)
        /\ s \in Seq(Place) /\ outbox[w][t] \in Seq(Place)
        /\ pos[w] \in [Part -> 0 .. MaxLog]
        /\ (Sent(w, t, x) => Sent(w, t, x)')
    BY <1>0, Grows, SentStays DEF Tracked, Due, TypeOK
  <2>1. x[2] <= pos[w][x[1]] => Sent(w, t, x) \/ x \in ToSet(s)
    BY <2>0 DEF IInv, PolledSent
  <2>2. CASE batch'[w] = s /\ pos'[w] = pos[w]
    BY <1>1, <2>0, <2>1, <2>2
  <2>3. CASE pos'[w] = committed /\ assigned = Nobody
    <3>1. x \in ToSet(published[t])
      BY <1>1, <2>0, <2>3, NobodyAssumption DEF IInv, CommittedSent
    <3> QED
      BY <2>0, <3>1 DEF Sent
  <2>4. ASSUME pos'[w] \in Reach(w), ~(x[2] <= pos[w][x[1]])
        PROVE  x \in Unread(w, pos'[w])
    BY <1>1, <2>0, <2>4 DEF Unread, Place, Reach
  <2>5. CASE batch'[w] = s /\ pos'[w] \in Reach(w) /\ Unread(w, pos'[w]) \subseteq lost'
    BY <2>0, <2>1, <2>4, <2>5
  <2>6. CASE /\ s = << >>
             /\ pos'[w] \in Reach(w) /\ batch'[w] \in Fetched(w, pos'[w])
    <3>1. PICK to \in Reach(w) : to = pos'[w] /\ batch'[w] \in Fetched(w, to)
      BY <2>6
    <3>2. ToSet(batch'[w]) = Unread(w, to)
      BY <1>0, <3>1, FetchedRecords
    <3>3. x \notin ToSet(s)
      BY <2>6 DEF ToSet
    <3> QED
      BY <2>0, <2>1, <2>4, <2>6, <3>1, <3>2, <3>3
  <2>7. CASE /\ s # << >> /\ pos'[w] = pos[w] /\ batch'[w] = Tail(s)
             /\ \/ Head(s) \in lost'
                \/ \A u \in Topics(Head(s)) : outbox'[w][u] = Append(outbox[w][u], Head(s))
    <3>1. Sent(w, t, x) \/ x = Head(s) \/ x \in ToSet(Tail(s))
      BY <1>1, <2>0, <2>1, <2>7, Beheaded
    <3>2. x \in ToSet(Append(outbox[w][t], x))
      BY <2>0, Appended
    <3> QED
      BY <2>0, <2>7, <3>1, <3>2 DEF Sent
  <2>8. CASE pos'[w] = [p \in Part |-> 0]
    BY <1>1, <2>0, <2>8 DEF Place
  <2> QED
    BY <1>0, <2>2, <2>3, <2>5, <2>6, <2>7, <2>8, BatchSteps
<1> QED
  BY <1>1 DEF PolledSent

\* Every step preserves that what was committed was sent.
LEMMA StepCommitted ==
  ASSUME IInv, [Next]_vars
  PROVE  CommittedSent'
<1>0. TypeOK /\ Nobody \notin Worker
  BY NobodyAssumption DEF IInv
<1>1. ASSUME NEW t \in Topic, NEW x \in Tracked(t)', x[2] <= committed'[x[1]]
      PROVE  \/ x \in ToSet(published'[t])
             \/ assigned' \in Worker /\ x \in ToSet(outbox'[assigned'][t])
  <2>0. /\ x \in Tracked(t) /\ x \notin lost' /\ x \notin late'
        /\ ToSet(published[t]) \subseteq ToSet(published'[t])
    BY <1>0, Grows DEF Tracked
  <2>1. x[2] <= committed[x[1]] =>
          \/ x \in ToSet(published[t])
          \/ assigned \in Worker /\ x \in ToSet(outbox[assigned][t])
    BY <2>0 DEF IInv, CommittedSent
  <2>2. assigned \in Worker /\ Sent(assigned, t, x) =>
          x \in ToSet(published'[t]) \/ x \in ToSet(outbox'[assigned][t])
    <3>1. ASSUME NEW w \in Worker, Sent(w, t, x)
          PROVE  x \in ToSet(published'[t]) \/ x \in ToSet(outbox'[w][t])
      BY <1>0, <2>0, <3>1, SentStays DEF Sent
    <3> QED
      BY <3>1
  <2>3. CASE committed' = committed /\ assigned' = assigned
    BY <1>1, <2>0, <2>1, <2>2, <2>3 DEF Sent
  <2>4. CASE /\ assigned \in Worker /\ assigned' = assigned
             /\ batch[assigned] = << >> /\ committed' = pos[assigned]
    <3>1. Sent(assigned, t, x) \/ x \in ToSet(batch[assigned])
      BY <1>1, <2>0, <2>4 DEF IInv, PolledSent
    <3> QED
      BY <2>2, <2>4, <3>1 DEF ToSet
  <2>5. CASE committed' = committed /\ assigned = Nobody
    BY <1>0, <1>1, <2>0, <2>1, <2>5
  <2>6. CASE /\ committed' = committed /\ assigned \in Worker
             /\ Buffered(assigned) \subseteq late' \cup lost'
    BY <1>1, <2>0, <2>1, <2>6 DEF Buffered
  <2> QED
    BY <1>0, <2>3, <2>4, <2>5, <2>6, GroupSteps
<1> QED
  BY <1>1 DEF CommittedSent

\* Nothing that is accounted for is forgotten.
LEMMA AccountedStays ==
  ASSUME TypeOK, [Next]_vars, NEW x, Accounted(x)
  PROVE  Accounted(x)'
<1>1. ASSUME NEW w \in Worker, NEW t \in Topic, Sent(w, t, x), x \notin lost'
      PROVE  Accounted(x)'
  BY <1>1, SentStays DEF Sent, Accounted, Published, Buffered
<1>2. CASE Published(x)
  BY <1>2, Grows DEF Accounted, Published
<1>3. CASE \E w \in Worker : x \in Buffered(w)
  <2>1. PICK w \in Worker, t \in Topic : x \in ToSet(outbox[w][t])
    BY <1>3 DEF Buffered
  <2> QED
    BY <1>1, <2>1 DEF Sent, Accounted
<1>4. CASE x \in lost
  BY <1>4, Grows DEF Accounted
<1> QED
  BY <1>2, <1>3, <1>4 DEF Accounted

\* Every step preserves that late events are accounted for.
LEMMA StepLate ==
  ASSUME IInv, [Next]_vars
  PROVE  LateAccounted'
<1>1. \A x \in late' \ late : \E w \in Worker : x \in Buffered(w)
  BY DEF Next, vars, Start, Assign, Revoke, Unassign, Poll, PollError, Process, Commit,
         Deliver, Close, CloseProducer, Exit, Crash
<1>2. \A x \in late' : Accounted(x)
  BY <1>1 DEF IInv, LateAccounted, Accounted
<1> QED
  BY <1>2, AccountedStays DEF IInv, LateAccounted

-----------------------------------------------------------------------------
\* Every step preserves the invariant.
LEMMA StepInv == IInv /\ [Next]_vars => IInv'
<1> SUFFICES ASSUME IInv, [Next]_vars PROVE IInv'
  OBVIOUS
<1>1. TypeOK' /\ Offsets'
  BY StepType, StepOffsets DEF IInv
<1>2. FirstInOrder' /\ OutboxInOrder' /\ BatchInOrder'
  BY StepFirst, StepOutbox, StepBatch
<1>3. PolledSent' /\ CommittedSent' /\ LateAccounted'
  BY StepPolled, StepCommitted, StepLate
<1> QED
  BY <1>1, <1>2, <1>3 DEF IInv

\* The invariant always holds.
LEMMA Invariance == Spec => []IInv
BY InitInv, StepInv, PTL DEF Spec

\* In every state the variables have their types, and a worker has a batch only
\* while it works.
THEOREM TypeCorrect == Spec => []TypeOK
<1>1. IInv => TypeOK
  BY DEF IInv
<1> QED
  BY <1>1, Invariance, PTL

\* Every record below a committed offset has had its event published, still in a
\* live producer's buffer, or given up.
THEOREM CommittedIsAccounted == Spec => []CommittedAccounted
<1>1. IInv => CommittedAccounted
  <2> SUFFICES ASSUME IInv, NEW x \in Due, x[2] <= committed[x[1]] PROVE Accounted(x)
    BY DEF CommittedAccounted, Accounted
  <2>1. PICK t \in Topic : t \in Topics(x)
    BY TopicsAreTopics DEF Due
  <2>2. CASE x \in late
    BY <2>2 DEF IInv, LateAccounted
  <2>3. CASE x \in lost
    BY <2>3 DEF Accounted
  <2>4. CASE x \in Tracked(t)
    <3>1. \/ x \in ToSet(published[t])
          \/ assigned \in Worker /\ x \in ToSet(outbox[assigned][t])
      BY <2>4 DEF IInv, CommittedSent
    <3> QED
      BY <3>1 DEF Accounted, Published, Buffered
  <2> QED
    BY <2>1, <2>2, <2>3, <2>4 DEF Tracked
<1> QED
  BY <1>1, Invariance, PTL

\* On each topic the first event of a record comes after those of the older
\* records of its partition, but for the lost and the late.
THEOREM EventsComeInOrder == Spec => []FirstInOrder
<1>1. IInv => FirstInOrder
  BY DEF IInv
<1> QED
  BY <1>1, Invariance, PTL
=============================================================================
