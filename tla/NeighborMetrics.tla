---------------------------- MODULE NeighborMetrics ----------------------------
(***************************************************************************)
(* The neighbour and queue metrics a radio model keeps through the         *)
(* framework: three accounts of every neighbour (what the next R2RI report *)
(* tells, what the next status table update tells, and the totals behind   *)
(* the neighbour metric table) and the high-water marks of its queues.     *)
(*                                                                         *)
(* All calls come from the layer's own worker, one after the other; what   *)
(* comes in any order are the frames of a neighbour, which the network may *)
(* lose, reorder or repeat, and whose sender may restart its numbering.    *)
(* A sender numbers its frames from 0, which is also the number an account *)
(* begins with.                                                            *)
(* The identity of the sending process is not passed on: the framework     *)
(* gives every reception the same zero uuid, so the branch for a new       *)
(* sender is never taken.                                                  *)
(***************************************************************************)
EXTENDS Integers, Sequences, FiniteSets

CONSTANTS
    Neighbors,       \* NEMs heard and sent to
    Broadcast,       \* the broadcast address, an index of its own
    Rates,           \* data rates of frames, positive
    Queues,          \* queue ids
    QueueSamples,    \* [max, depth, discards, delay] a model may report
    DeleteAge,       \* ticks after which an unheard neighbour is dropped
    Start,           \* the clock when the emulation starts
    MaxSequence,     \* bound: frames a neighbour sends
    MaxSteps         \* bound: steps of a behaviour

ConstantsOK ==
    /\ Rates \subseteq Nat \ {0}
    /\ Broadcast \notin Neighbors
    /\ {Start, DeleteAge} \subseteq Nat
    /\ \A s \in QueueSamples : {s.max, s.depth} \subseteq Nat /\ s.depth <= s.max

VARIABLES
    now,
    sent,            \* neighbour -> sequence number of its next frame
    air,             \* frames on their way, <<neighbour, sequence>>
    r2ri,            \* neighbour -> account since the last R2RI report
    interval,        \* index -> account since the last status update
    totals,          \* index -> account since the start
    table,           \* rows of NeighborMetricTable
    queues,          \* queue id -> its metric
    history,         \* history: index -> what really happened and was told
    lastReport,      \* history: when the last R2RI report was made
    lateReport,      \* history: two reports were further apart than DeleteAge
    steps

vars == << now, sent, air, r2ri, interval, totals, table, queues, history,
           lastReport, lateReport, steps >>

Indices == Neighbors \cup {Broadcast}

NeighborData ==
    [lastSeq |-> 0, heard |-> FALSE, lastRx |-> 0, rx |-> 0, missed |-> 0, tx |-> 0,
     busy |-> 0, rxRate |-> 0, txRate |-> 0]

ClearData(d) ==
    [d EXCEPT !.rx = 0, !.missed = 0, !.tx = 0, !.busy = 0, !.rxRate = 0, !.txRate = 0]

QueueData == [max |-> 0, highWater |-> 0, samples |-> 0, discards |-> 0, delay |-> 0]

NoHistory ==
    [rx |-> 0, tx |-> 0, late |-> 0, zero |-> "none", irregular |-> FALSE, removed |-> FALSE,
     reported |-> [rx |-> 0, tx |-> 0, missed |-> 0],
     status |-> [rx |-> 0, tx |-> 0, missed |-> 0]]

Init ==
    /\ now = Start
    /\ sent = [n \in Neighbors |-> 0]
    /\ air = {}
    /\ r2ri = << >>
    /\ interval = << >>
    /\ totals = << >>
    /\ table = << >>
    /\ queues = << >>
    /\ history = [i \in Indices |-> NoHistory]
    /\ lastReport = Start
    /\ lateReport = FALSE
    /\ steps = 0

Step == steps < MaxSteps /\ steps' = steps + 1

(* The entry of an index, made when it is looked up for the first time. *)
Lookup(accounts, i) == IF i \in DOMAIN accounts THEN accounts[i] ELSE NeighborData
With(accounts, i, d) ==
    [x \in DOMAIN accounts \cup {i} |-> IF x = i THEN d ELSE accounts[x]]

(***************************************************************************)
(* What one reception and one transmission do to an account.               *)
(***************************************************************************)
RunningAverage(avg, count, rate) ==
    IF count = 1 THEN rate ELSE (avg * (count - 1) + rate) \div count

UpdateTxActivity(d, rate) ==
    [d EXCEPT !.tx = @ + 1, !.txRate = RunningAverage(@, d.tx + 1, rate)]

(* Slip: a frame that comes late leaves the missed frames as they are. *)
MissedForGood(d, seq) ==
    IF seq > d.lastSeq THEN d.missed + (seq - d.lastSeq - 1) ELSE d.missed

(* A gap counts as missed; a frame that comes late is taken off again. *)
Missed(d, seq) ==
    IF seq > d.lastSeq THEN d.missed + (seq - d.lastSeq - 1)
    ELSE IF d.missed > 0 THEN d.missed - 1
    ELSE d.missed

UpdateRxActivity(d, seq, time) ==
    [d EXCEPT !.missed = Missed(d, seq),
              !.lastSeq = IF seq > d.lastSeq THEN seq ELSE d.lastSeq,
              !.rx = @ + 1,
              !.lastRx = time,
              !.heard = TRUE]

UpdateRxChannel(d, duration, rate) ==
    [d EXCEPT !.busy = @ + duration, !.rxRate = RunningAverage(@, d.rx, rate)]

Received(d, seq, rate) == UpdateRxChannel(UpdateRxActivity(d, seq, now), 1, rate)

(* A row of the metric table is the status of the total account. *)
MetricStatus(d) ==
    [rx |-> d.rx, tx |-> d.tx, missed |-> d.missed, busy |-> d.busy, lastRx |-> d.lastRx,
     rxRate |-> d.rxRate, txRate |-> d.txRate]

(***************************************************************************)
(* The senders, the network and the clock.                                 *)
(***************************************************************************)
NeighborSends(n) ==
    /\ Step
    /\ sent[n] < MaxSequence
    /\ sent' = [sent EXCEPT ![n] = @ + 1]
    /\ air' = air \cup {<<n, sent[n]>>}
    /\ UNCHANGED << now, r2ri, interval, totals, table, queues, history, lastReport, lateReport >>

NeighborRestarts(n) ==
    /\ Step
    /\ sent[n] > 0
    /\ sent' = [sent EXCEPT ![n] = 0]
    /\ history' = [history EXCEPT ![n].irregular = TRUE]
    /\ UNCHANGED << now, air, r2ri, interval, totals, table, queues, lastReport, lateReport >>

Tick ==
    /\ Step
    /\ now' = now + 1
    /\ UNCHANGED << sent, air, r2ri, interval, totals, table, queues, history, lastReport,
                    lateReport >>

(***************************************************************************)
(* The calls of the radio model.                                           *)
(***************************************************************************)
UpdateNeighborRx(n, seq, rate, again) ==
    /\ Step
    /\ <<n, seq>> \in air
    /\ air' = IF again THEN air ELSE air \ {<<n, seq>>}
    /\ r2ri' = With(r2ri, n, Received(Lookup(r2ri, n), seq, rate))
    /\ interval' = With(interval, n, Received(Lookup(interval, n), seq, rate))
    /\ totals' = With(totals, n, Received(Lookup(totals, n), seq, rate))
    /\ table' = With(table, n, MetricStatus(totals'[n]))
    /\ history' = [history EXCEPT
          ![n].rx = @ + 1,
          ![n].late = IF seq < Lookup(totals, n).lastSeq THEN @ + 1 ELSE @,
          ![n].zero = IF seq # 0 \/ @ # "none" THEN @
                      ELSE IF Lookup(totals, n).lastSeq = 0 THEN "first" ELSE "late",
          ![n].irregular = @ \/ again]
    /\ UNCHANGED << now, sent, queues, lastReport, lateReport >>

(* A broadcast frame is in no neighbour's R2RI account. *)
UpdateNeighborTx(i, rate) ==
    /\ Step
    /\ r2ri' = IF i = Broadcast THEN r2ri
               ELSE With(r2ri, i, UpdateTxActivity(Lookup(r2ri, i), rate))
    /\ interval' = With(interval, i, UpdateTxActivity(Lookup(interval, i), rate))
    /\ totals' = With(totals, i, UpdateTxActivity(Lookup(totals, i), rate))
    /\ table' = With(table, i, MetricStatus(totals'[i]))
    /\ history' = [history EXCEPT ![i].tx = @ + 1]
    /\ UNCHANGED << now, sent, air, queues, lastReport, lateReport >>

QueueUpdated(d, s) ==
    LET mark == IF d.max # s.max THEN 0 ELSE d.highWater IN
    [max |-> s.max,
     highWater |-> IF mark < s.depth THEN s.depth ELSE mark,
     samples |-> d.samples + 1,
     discards |-> IF d.discards < s.discards THEN s.discards ELSE d.discards,
     delay |-> d.delay + s.delay]

UpdateQueueMetric(q, s) ==
    /\ Step
    /\ queues' = With(queues, q, QueueUpdated(IF q \in DOMAIN queues THEN queues[q] ELSE QueueData, s))
    /\ UNCHANGED << now, sent, air, r2ri, interval, totals, table, history, lastReport,
                    lateReport >>

(***************************************************************************)
(* The report: queue metrics, then the status table, then the neighbours,  *)
(* each account cleared as it is told.  A neighbour not heard for the      *)
(* delete age goes, with what it still had to tell; one that was only ever *)
(* sent to was never heard and goes at once.                               *)
(***************************************************************************)
QueueMetrics(qs) == [q \in DOMAIN qs |-> [QueueData EXCEPT !.max = qs[q].max]]

Told(sum, d) == [rx |-> sum.rx + d.rx, tx |-> sum.tx + d.tx, missed |-> sum.missed + d.missed]

Aged == {n \in DOMAIN r2ri : now - r2ri[n].lastRx > DeleteAge}

NeighborMetricsLeft == [n \in DOMAIN r2ri \ Aged |-> ClearData(r2ri[n])]

NeighborStatuses == [i \in DOMAIN interval |-> ClearData(interval[i])]

PublishR2RI ==
    /\ Step
    /\ queues' = QueueMetrics(queues)
    /\ interval' = NeighborStatuses
    /\ r2ri' = NeighborMetricsLeft
    /\ history' = [i \in Indices |->
          [history[i] EXCEPT
             !.status = IF i \in DOMAIN interval THEN Told(@, interval[i]) ELSE @,
             !.reported = IF i \in DOMAIN r2ri \ Aged THEN Told(@, r2ri[i]) ELSE @,
             !.removed = @ \/ i \in Aged]]
    /\ lastReport' = now
    /\ lateReport' = (lateReport \/ now - lastReport > DeleteAge)
    /\ UNCHANGED << now, sent, air, totals, table >>

Next ==
    \/ \E n \in Neighbors : NeighborSends(n) \/ NeighborRestarts(n)
    \/ Tick
    \/ \E f \in air, rate \in Rates, again \in BOOLEAN : UpdateNeighborRx(f[1], f[2], rate, again)
    \/ \E i \in Indices, rate \in Rates : UpdateNeighborTx(i, rate)
    \/ \E q \in Queues, s \in QueueSamples : UpdateQueueMetric(q, s)
    \/ PublishR2RI

Spec == Init /\ [][Next]_vars

--------------------------------------------------------------------------------
Pending(i) == Lookup(r2ri, i)
Sum(i, field) == history[i].reported[field] + Pending(i)[field]

(* Nothing received goes untold: reports and the account still open make up
   all receptions, unless reports were further apart than the delete age;
   and all transmissions, unless the neighbour was dropped. *)
ReportsComplete ==
    \A n \in Neighbors :
       /\ ~lateReport => Sum(n, "rx") = history[n].rx
       /\ ~history[n].removed => Sum(n, "tx") = history[n].tx
       /\ history[n].status.rx + Lookup(interval, n).rx = history[n].rx
       /\ history[n].status.tx + Lookup(interval, n).tx = history[n].tx

(* Frames up to the highest number that have not come; number 0 is never
   among them, for an account begins as if it had come. *)
ZeroCame(n) == IF history[n].zero = "none" THEN 0 ELSE 1

Gaps(n) == Lookup(totals, n).lastSeq - (Lookup(totals, n).rx - ZeroCame(n))

(* Missed frames: as long as the numbering is regular (no frame twice, no
   restart) the total is the number of frames still to come, in whatever
   order they come.  Only a frame 0 that comes after a later one takes one
   off that it never added.  The reports never tell fewer, and tell more
   only for frames that came after their gap had been reported. *)
MissedRight ==
    \A n \in Neighbors :
       LET missed == Lookup(totals, n).missed IN
       ~history[n].irregular =>
          /\ missed = Gaps(n) \/ (history[n].zero = "late" /\ missed = Gaps(n) - 1)
          /\ ~history[n].removed => Sum(n, "missed") - missed \in 0 .. history[n].late

(* The metric table shows the totals, and an average rate is one the frames
   of the account could have. *)
TableCurrent ==
    \A i \in Indices :
       /\ i \in DOMAIN totals =>
             /\ table[i] = MetricStatus(totals[i])
             /\ totals[i].rx = history[i].rx /\ totals[i].tx = history[i].tx
       /\ \A accounts \in {r2ri, interval, totals} :
             LET d == Lookup(accounts, i) IN
             /\ d.rx > 0 => \E lo, hi \in Rates : d.rxRate \in lo .. hi
             /\ d.tx > 0 => \E lo, hi \in Rates : d.txRate \in lo .. hi

(* A queue is never reported deeper than its size, also when the size was
   reconfigured while the mark was up. *)
QueueDepthFits == \A q \in DOMAIN queues : queues[q].highWater <= queues[q].max

(* The metrics tell what happened, however the network treats the frames. *)
MetricsTrue == ReportsComplete /\ MissedRight /\ TableCurrent /\ QueueDepthFits

================================================================================
