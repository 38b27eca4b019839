--------------------------- MODULE RadioModelProofs ---------------------------
(***************************************************************************)
(* Proofs about the radio models.  The RF-pipe MAC, for any queue          *)
(* capacity, report interval and settings: any number of packets, any      *)
(* delays and air times.  Then the IEEE 802.11abg and bent-pipe models and *)
(* the metrics of neighbours and queues, as MCMacModels puts them          *)
(* together, for any settings, packets, neighbours and rates.              *)
(***************************************************************************)
EXTENDS RfPipeMac, MCMacModels, SequenceTheorems, FiniteSetTheorems,
        WellFoundedInduction, NaturalsInduction, TLAPS

(* A MAC that is not started holds no packet and expects no wakeup. *)
MainAgrees ==
    /\ started <=> main \in {"grant", "arm report", "note report", "running"}
    /\ ~started => queue = <<>> /\ next_transmit_wakeup = 0

(* The packets waiting are in the order they came, and come after the one  *)
(* being sent, which comes after those that were sent.                     *)
QueueInOrder ==
    /\ \A i \in 1..Len(queue) : queue[i].id <= arrived
    /\ \A i, j \in 1..Len(queue) : i < j => queue[i].id < queue[j].id
    /\ step = "send" => handed.id <= arrived
    /\ step = "send" => \A i \in 1..Len(queue) : handed.id < queue[i].id

SentInOrder ==
    /\ OneAtATime
    /\ \A i \in 1..Len(sent) :
         /\ sent[i].id <= arrived
         /\ \A j \in 1..Len(queue) : sent[i].id < queue[j].id
         /\ sent[i].begin <= now
         /\ step = "send" => sent[i].id < handed.id /\ sent[i].end <= seen + sent[i].late
         /\ step # "send" => sent[i].end <= current_end_of_transmission + sent[i].late
    /\ step = "send" => current_end_of_transmission = seen + handed.duration

(* No timed event is coming twice. *)
TimersDistinct ==
    /\ \A t \in armed : t.id <= ids
    /\ \A t, u \in armed : t.id = u.id => t = u
    /\ \A i \in 1..Len(fired) : fired[i].id <= ids
    /\ \A i, j \in 1..Len(fired) : fired[i].id = fired[j].id => i = j
    /\ \A t \in armed, i \in 1..Len(fired) : t.id # fired[i].id

Wakeup(kind, data) == \E t \in Coming : t.kind = kind /\ t.data = data

Arming(kind, data) == step = "arm" /\ event.kind = kind /\ event.data = data

(* The time at which the first packet could go. *)
Due == Later(Later(Head(queue).ready_at, current_end_of_transmission), seen)

(* The wakeup that is expected is coming or about to be armed; and while   *)
(* packets wait one is expected, or the worker is on its way to ask for it.*)
WakeupKnown ==
    /\ next_transmit_wakeup # 0 =>
         \/ Wakeup("transmit", next_transmit_wakeup)
         \/ Arming("transmit", next_transmit_wakeup)
    /\ step = "drive" => seen > 0
    /\ step = "schedule" => when > 0
    /\ queue # <<>> =>
         \/ next_transmit_wakeup # 0
         \/ step = "drive"
         \/ step \in {"send", "schedule"} /\ when > 0
    /\ queue # <<>> /\ ~overflowed =>
         \/ next_transmit_wakeup # 0 /\ next_transmit_wakeup <= Due
         \/ step = "drive"
         \/ step \in {"send", "schedule"} /\ when > 0 /\ when <= Due

(* A reception under way has its end coming, and is not passed up yet. *)
ReceptionsKnown ==
    /\ started \/ main = "new" =>
         \A r \in pending_receptions : Wakeup("receive", r) \/ Arming("receive", r)
    /\ \A i \in 1..Len(delivered) :
         delivered[i] <= heard /\ delivered[i] \notin pending_receptions
    /\ \A i, j \in 1..Len(delivered) : delivered[i] = delivered[j] => i = j

Reports == {t \in Coming : t.kind = "report"}

ArmingReport == step = "arm" /\ event.kind = "report"

(* The chain of report timers has one link at any time. *)
ReportOnce ==
    setting.radiometric =>
      /\ main \in {"new", "grant", "arm report"} =>
           Reports = {} /\ ~ArmingReport
      /\ main \in {"note report", "running"} =>
           \/ Reports = {} /\ ArmingReport
           \/ ~ArmingReport /\ \E t \in Coming : Reports = {t}

(* The inductive invariant. *)
IInv ==
    /\ TypeOK
    /\ MainAgrees
    /\ TokensAccounted
    /\ QueueInOrder
    /\ SentInOrder
    /\ TimersDistinct
    /\ WakeupKnown
    /\ ReceptionsKnown
    /\ ReportOnce

-----------------------------------------------------------------------------
(***************************************************************************)
(* Facts about settings, sequences and records.                            *)
(***************************************************************************)
(* A setting gives natural delays and tokens, and air times above zero.    *)
LEMMA SettingFacts ==
  ASSUME PlacesOK
  PROVE  /\ setting.delays \subseteq Nat /\ setting.durations \subseteq Nat \ {0}
         /\ setting.tokens \subseteq Nat /\ setting.radiometric \in BOOLEAN
         /\ QueueCapacity \in Nat \ {0} /\ ReportInterval \in Nat \ {0}
  BY MacAssumption DEF PlacesOK

(* The later of two times.                                                 *)
LEMMA LaterFacts ==
  ASSUME NEW a \in Nat, NEW b \in Nat
  PROVE  Later(a, b) \in Nat /\ Later(a, b) >= a /\ Later(a, b) >= b
  BY DEF Later

(* Tokens given back never exceed the configured number, and are all given *)
(* back as long as they fit under it.                                      *)
LEMMA CreditedFacts ==
  ASSUME flow_control_tokens \in Nat, NEW a \in Nat, NEW n \in Nat
  PROVE  /\ Credited(a, n) \in 0..flow_control_tokens
         /\ a + n <= flow_control_tokens => Credited(a, n) = a + n
  BY DEF Credited

(* The first element of a sequence, and what is left.                      *)
LEMMA FirstOf ==
  ASSUME NEW S, NEW s \in Seq(S), s # <<>>
  PROVE  /\ Head(s) \in S /\ Head(s) = s[1] /\ Tail(s) \in Seq(S)
         /\ Len(s) \in Nat \ {0} /\ Len(Tail(s)) = Len(s) - 1
         /\ \A k \in 1..Len(Tail(s)) : k + 1 \in 1..Len(s) /\ Tail(s)[k] = s[k + 1]
<1>1. Len(s) \in Nat \ {0}
  BY EmptySeq, LenProperties
<1> QED
  BY <1>1, HeadTailProperties

(* A sequence with one element more.                                       *)
LEMMA LastOf ==
  ASSUME NEW S, NEW s \in Seq(S), NEW e \in S
  PROVE  /\ Append(s, e) \in Seq(S) /\ Append(s, e) # <<>>
         /\ Len(s) \in Nat /\ Len(Append(s, e)) = Len(s) + 1
         /\ Append(s, e)[Len(s) + 1] = e
         /\ \A k \in 1..Len(s) : Append(s, e)[k] = s[k]
  BY AppendProperties, LenProperties

(* The queue after a full one has lost its first packet. *)
LEMMA KeptFacts ==
  ASSUME PacketsOK, PlacesOK
  PROVE  /\ Kept \in Seq(Packets)
         /\ Len(queue) \in Nat /\ Len(Kept) \in Nat
         /\ Len(Kept) < QueueCapacity
         /\ Len(queue) - Len(Kept) \in {0, 1}
         /\ Kept # queue => Len(queue) = QueueCapacity
         /\ \A i \in 1..Len(Kept) :
              /\ i + (Len(queue) - Len(Kept)) \in 1..Len(queue)
              /\ Kept[i] = queue[i + (Len(queue) - Len(Kept))]
<1>1. /\ queue \in Seq(Packets) /\ Len(queue) \in Nat /\ Len(queue) <= QueueCapacity
      /\ QueueCapacity \in Nat \ {0}
  BY SettingFacts, LenProperties DEF PacketsOK
<1>2. CASE Len(queue) < QueueCapacity
  BY <1>1, <1>2 DEF Kept
<1>3. CASE Len(queue) = QueueCapacity
  <2>1. Kept = SubSeq(queue, 2, Len(queue))
    BY <1>1, <1>3 DEF Kept
  <2>2. queue # <<>>
    BY <1>1, <1>3
  <2>3. Kept = Tail(queue)
    BY <1>1, <2>1, <2>2, TailIsSubSeq
  <2> QED
    BY <1>1, <1>3, <2>2, <2>3, FirstOf
<1> QED
  BY <1>1, <1>2, <1>3

(* The timed event a step of process_timed_event takes. *)
LEMMA Taken ==
  ASSUME TimersOK, NEW kind, Take(kind)
  PROVE  /\ Head(fired) \in Timers /\ Head(fired).kind = kind
         /\ Head(fired).id \in Nat /\ Head(fired).data \in Nat
         /\ fired # <<>> /\ fired' = Tail(fired) /\ fired' \in Seq(Timers)
         /\ timers' \subseteq timers
<1>1. fired # <<>> /\ fired \in Seq(Timers) /\ fired' = Tail(fired) /\ timers' \subseteq timers
      /\ Head(fired).kind = kind
  BY DEF Take, TimersOK
<1>2. Head(fired) \in Timers /\ Tail(fired) \in Seq(Timers)
  BY <1>1, FirstOf
<1>3. \A t \in Timers : t.id \in Nat /\ t.data \in Nat
  BY DEF Timers
<1> QED
  BY <1>1, <1>2, <1>3

(* The timer a step arms. *)
Armed(e, time) == [id |-> e.id, kind |-> e.kind, data |-> e.data,
                   expire |-> Later(time, now)]

(* The timer that is armed is a timer, with what the caller gave it.       *)
LEMMA ArmedFacts ==
  ASSUME ClockOK, NEW e \in [id : Nat, kind : Kinds, data : Nat], NEW time \in Nat
  PROVE  /\ Armed(e, time) \in Timers
         /\ Armed(e, time).id = e.id /\ Armed(e, time).kind = e.kind
         /\ Armed(e, time).data = e.data
<1>1. Later(time, now) \in Nat
  BY LaterFacts DEF ClockOK
<1> QED
  BY <1>1 DEF Armed, Timers

-----------------------------------------------------------------------------
(***************************************************************************)
(* Every step keeps the types.                                             *)
(***************************************************************************)
(* The clock and the times the worker carries. *)
LEMMA ClockKept ==
  ASSUME IInv, [Next]_vars
  PROVE  ClockOK'
<1> USE DEF IInv, TypeOK, config, transmit, call, timing, counts, history
<1>1. CASE \E delay \in setting.delays,
           duration \in setting.durations : AcceptDownstream(delay, duration)
  <2> PICK delay \in setting.delays,
  duration \in setting.durations : AcceptDownstream(delay, duration)
    BY <1>1
  <2>1. delay \in Nat /\ now \in Nat /\ current_end_of_transmission \in Nat
    BY SettingFacts DEF ClockOK
  <2>2. now + delay \in Nat
    BY <2>1
  <2>3. Later(now + delay, current_end_of_transmission) \in Nat
    BY <2>1, <2>2, LaterFacts
  <2> QED
    BY <2>3 DEF AcceptDownstream, ClockOK
<1>2. CASE \E duration \in setting.durations : AcceptUpstream(duration)
  <2> PICK duration \in setting.durations : AcceptUpstream(duration)
    BY <1>2
  <2>1. duration \in Nat
    BY SettingFacts
  <2> QED
    BY <2>1 DEF AcceptUpstream, ClockOK
<1>3. CASE DriveTransmit
  <2>1. /\ queue # <<>> /\ queue \in Seq(Packets) /\ seen \in Nat
        /\ seen + Head(queue).duration = current_end_of_transmission'
        /\ NextWakeup(Tail(queue), current_end_of_transmission')
    BY <1>3 DEF DriveTransmit, CanSend, PacketsOK, ClockOK
  <2>2. current_end_of_transmission' \in Nat
    <3>1. Head(queue) \in Packets
      BY <2>1, FirstOf
    <3>2. Head(queue).duration \in Nat
      BY <3>1 DEF Packets
    <3> QED
      BY <2>1, <3>2
  <2>3. when' \in Nat
    <3>1. CASE Tail(queue) = <<>>
      BY <2>1, <3>1 DEF NextWakeup
    <3>2. CASE Tail(queue) # <<>>
      <4>1. Tail(queue) \in Seq(Packets)
        BY <2>1, FirstOf
      <4>2. Head(Tail(queue)) \in Packets
        BY <3>2, <4>1, FirstOf
      <4>3. Head(Tail(queue)).ready_at \in Nat
        BY <4>2 DEF Packets
      <4> QED
        BY <2>1, <2>2, <3>2, <4>3 DEF NextWakeup, Later
    <3> QED
      BY <3>1, <3>2
  <2> QED
    BY <1>3, <2>2, <2>3 DEF DriveTransmit, ClockOK
<1>4. CASE DriveFindsNothing
  <2>1. ASSUME queue # <<>>, NextWakeup(queue, current_end_of_transmission)
        PROVE  when' \in Nat
    <3>1. Head(queue) \in Packets
      BY <2>1, FirstOf DEF PacketsOK
    <3>2. Head(queue).ready_at \in Nat
      BY <3>1 DEF Packets
    <3> QED
      BY <2>1, <3>2 DEF NextWakeup, Later, ClockOK
  <2> QED
    BY <1>4, <2>1 DEF DriveFindsNothing, ClockOK
<1>5. CASE TransmitWakeup
  <2>1. seen' \in {seen, now} /\ next_transmit_wakeup' \in {next_transmit_wakeup, 0}
    BY <1>5 DEF TransmitWakeup
  <2> QED
    BY <1>5, <2>1 DEF TransmitWakeup, ClockOK
<1>6. CASE Report
  <2>1. when' \in {when, now + ReportInterval}
    BY <1>6 DEF Report
  <2>2. now + ReportInterval \in Nat
    BY SettingFacts DEF ClockOK
  <2> QED
    BY <1>6, <2>1, <2>2 DEF Report, ClockOK
<1>7. CASE Tick
  <2>1. now' = now + 1 /\ now \in Nat \ {0} /\ seen \in 0..now
    BY <1>7 DEF Tick, ClockOK
  <2>2. now' \in Nat \ {0} /\ seen \in 0..now'
    BY <2>1
  <2> QED
    BY <1>7, <2>2 DEF Tick, ClockOK
<1>8. CASE RefuseDownstream \/ SendPacket \/ ScheduleTransmit \/ Arm
  BY <1>8
     DEF RefuseDownstream, SendPacket, ScheduleTransmit, Arm, ClockOK
<1>9. CASE NoteTimer \/ ReceptionEnds \/ Start \/ StartFails
  BY <1>9
     DEF NoteTimer, ReceptionEnds, Start, StartFails, Take, ClockOK
<1>10. CASE GrantAtStart \/ ArmReport \/ NoteReport \/ CloseQueue
  BY <1>10
     DEF GrantAtStart, ArmReport, NoteReport, CloseQueue, ClockOK
<1>11. CASE Stop
  BY <1>11
     DEF Stop, ClockOK
<1>12. CASE \E id \in cancelling : CancelTimer(id)
  BY <1>12 DEF CancelTimer, ClockOK
<1>13. CASE \E t \in armed : TimerFires(t)
  BY <1>13 DEF TimerFires, ClockOK
<1>14. CASE UNCHANGED vars
  BY <1>14 DEF vars, ClockOK
<1> QED
  BY <1>1, <1>2, <1>3, <1>4, <1>5, <1>6, <1>7, <1>8, <1>9, <1>10, <1>11, <1>12, <1>13, <1>14
     DEF Next, WorkerStep, Packet, MainStep

(* Where the two threads are. *)
LEMMA PlacesKept ==
  ASSUME IInv, [Next]_vars
  PROVE  PlacesOK'
<1> USE DEF IInv, TypeOK, config, transmit, call, timing, counts, history
<1>1. CASE RefuseDownstream \/ DriveTransmit \/ DriveFindsNothing \/ SendPacket
           \/ ScheduleTransmit
  BY <1>1
     DEF RefuseDownstream, DriveTransmit, DriveFindsNothing, SendPacket,
     ScheduleTransmit, PlacesOK
<1>2. CASE Arm \/ NoteTimer \/ TransmitWakeup \/ ReceptionEnds \/ Report
  BY <1>2
     DEF Arm, NoteTimer, TransmitWakeup, ReceptionEnds, Report, Take, PlacesOK
<1>3. CASE Start \/ StartFails \/ GrantAtStart \/ ArmReport \/ NoteReport
  BY <1>3
     DEF Start, StartFails, GrantAtStart, ArmReport, NoteReport, PlacesOK
<1>4. CASE CloseQueue \/ Stop \/ Tick
  BY <1>4
     DEF CloseQueue, Stop, Tick, PlacesOK
<1>5. CASE \E delay \in setting.delays,
           duration \in setting.durations : AcceptDownstream(delay, duration)
  BY <1>5 DEF AcceptDownstream, PlacesOK
<1>6. CASE \E duration \in setting.durations : AcceptUpstream(duration)
  BY <1>6 DEF AcceptUpstream, PlacesOK
<1>7. CASE \E id \in cancelling : CancelTimer(id)
  BY <1>7 DEF CancelTimer, PlacesOK
<1>8. CASE \E t \in armed : TimerFires(t)
  BY <1>8 DEF TimerFires, PlacesOK
<1>9. CASE UNCHANGED vars
  BY <1>9 DEF vars, PlacesOK
<1> QED
  BY <1>1, <1>2, <1>3, <1>4, <1>5, <1>6, <1>7, <1>8, <1>9
     DEF Next, WorkerStep, Packet, MainStep

(* The token counts are within what was configured. *)
LEMMA TokensOKKept ==
  ASSUME IInv, [Next]_vars
  PROVE  TokensOK'
<1> USE DEF IInv, TypeOK, config, transmit, call, timing, counts, history
<1>1. CASE \E delay \in setting.delays,
           duration \in setting.durations : AcceptDownstream(delay, duration)
  <2> PICK delay \in setting.delays,
  duration \in setting.durations : AcceptDownstream(delay, duration)
    BY <1>1
  <2>1. /\ available_tokens \in 0..flow_control_tokens /\ flow_control_tokens \in Nat
        /\ flow_control_enable => available_tokens # 0
    BY DEF AcceptDownstream, Admits, TokensOK
  <2>2. Len(queue) - Len(Kept) \in Nat
    BY KeptFacts
  <2>3. flow_control_enable => TokensAfterAdmission \in 0..flow_control_tokens
    <3>1. flow_control_enable => available_tokens - 1 \in Nat
      BY <2>1
    <3> QED
      BY <2>1, <2>2, <3>1, CreditedFacts DEF TokensAfterAdmission
  <2> QED
    BY <2>3 DEF AcceptDownstream, TokensOK
<1>2. CASE DriveTransmit
  <2>1. Credited(available_tokens, 1) \in 0..flow_control_tokens
    BY CreditedFacts DEF TokensOK
  <2> QED
    BY <1>2, <2>1 DEF DriveTransmit, TokensOK
<1>3. CASE Start
  <2>1. available_tokens' = flow_control_tokens
    BY <1>3 DEF Start
  <2> QED
    BY <1>3, <2>1 DEF Start, TokensOK
<1>4. CASE GrantAtStart
  <2>1. granted' \in {granted, flow_control_tokens} /\ flow_control_tokens \in Nat
    BY <1>4 DEF GrantAtStart, TokensOK
  <2>2. granted' \in 0..flow_control_tokens
    BY <2>1 DEF TokensOK
  <2> QED
    BY <1>4, <2>2 DEF GrantAtStart, TokensOK
<1>5. CASE RefuseDownstream \/ DriveFindsNothing \/ SendPacket \/ ScheduleTransmit
  BY <1>5
     DEF RefuseDownstream, DriveFindsNothing, SendPacket, ScheduleTransmit, TokensOK
<1>6. CASE Arm \/ NoteTimer \/ TransmitWakeup \/ ReceptionEnds
  BY <1>6
     DEF Arm, NoteTimer, TransmitWakeup, ReceptionEnds, Take, TokensOK
<1>7. CASE Report \/ StartFails \/ ArmReport \/ NoteReport
  BY <1>7
     DEF Report, StartFails, ArmReport, NoteReport, Take, TokensOK
<1>8. CASE CloseQueue \/ Stop \/ Tick
  BY <1>8
     DEF CloseQueue, Stop, Tick, TokensOK
<1>9. CASE \E duration \in setting.durations : AcceptUpstream(duration)
  BY <1>9 DEF AcceptUpstream, TokensOK
<1>10. CASE \E id \in cancelling : CancelTimer(id)
  BY <1>10 DEF CancelTimer, TokensOK
<1>11. CASE \E t \in armed : TimerFires(t)
  BY <1>11 DEF TimerFires, TokensOK
<1>12. CASE UNCHANGED vars
  BY <1>12 DEF vars, TokensOK
<1> QED
  BY <1>1, <1>2, <1>3, <1>4, <1>5, <1>6, <1>7, <1>8, <1>9, <1>10, <1>11, <1>12
     DEF Next, WorkerStep, Packet, MainStep

(* The packets in the queue, in the worker's hands and sent. *)
LEMMA PacketsKept ==
  ASSUME IInv, [Next]_vars
  PROVE  PacketsOK'
<1> USE DEF IInv, TypeOK, config, transmit, call, timing, counts, history
<1>1. CASE \E delay \in setting.delays,
           duration \in setting.durations : AcceptDownstream(delay, duration)
  <2> PICK delay \in setting.delays,
  duration \in setting.durations : AcceptDownstream(delay, duration)
    BY <1>1
  <2> DEFINE new == [id |-> arrived + 1, ready_at |-> now + delay, duration |-> duration]
  <2>1. new \in Packets
    BY SettingFacts DEF ClockOK, PacketsOK, Packets
  <2>2. queue' = Append(Kept, new) /\ arrived' = arrived + 1 /\ UNCHANGED <<handed, sent>>
    BY DEF AcceptDownstream
  <2> HIDE DEF new
  <2>3. Kept \in Seq(Packets) /\ Len(Kept) + 1 <= QueueCapacity
    BY KeptFacts, SettingFacts
  <2>4. queue' \in Seq(Packets) /\ Len(queue') <= QueueCapacity
    BY <2>1, <2>2, <2>3, LastOf
  <2> QED
    BY <2>2, <2>4 DEF PacketsOK
<1>2. CASE Stop
  <2>1. queue' = <<>> /\ <<>> \in Seq(Packets) /\ Len(<<>>) = 0
    BY <1>2, EmptySeq DEF Stop
  <2>2. Len(queue') <= QueueCapacity
    BY <2>1, SettingFacts
  <2> QED
    BY <1>2, <2>1, <2>2 DEF Stop, PacketsOK
<1>3. CASE RefuseDownstream
  <2>1. arrived' \in Nat
    BY <1>3 DEF RefuseDownstream, PacketsOK
  <2> QED
    BY <1>3, <2>1 DEF RefuseDownstream, PacketsOK
<1>4. CASE DriveTransmit
  <2>1. /\ queue # <<>> /\ queue \in Seq(Packets) /\ queue' = Tail(queue)
        /\ handed' = Head(queue) /\ UNCHANGED <<arrived, sent>>
    BY <1>4 DEF DriveTransmit, CanSend, PacketsOK
  <2>2. Len(queue') <= QueueCapacity
    BY <2>1, FirstOf, SettingFacts DEF PacketsOK
  <2> QED
    BY <2>1, <2>2, FirstOf DEF PacketsOK
<1>5. CASE SendPacket
  <2> DEFINE S == Transmissions
             new == Transmission
  <2>1. new \in S
    BY DEF ClockOK, PacketsOK, Packets, Transmission, Transmissions
  <2>2. sent' = Append(sent, new) /\ handed' = NoPacket /\ UNCHANGED <<queue, arrived>>
    BY <1>5 DEF SendPacket
  <2>3. NoPacket \in Packets
    BY DEF NoPacket, Packets
  <2>4. sent \in Seq(S)
    BY DEF PacketsOK
  <2> HIDE DEF new, S
  <2>5. sent' \in Seq(S)
    BY <2>1, <2>2, <2>4, LastOf
  <2> QED
    BY <2>2, <2>3, <2>5 DEF PacketsOK, S
<1>6. CASE DriveFindsNothing \/ ScheduleTransmit \/ Arm \/ NoteTimer
  BY <1>6
     DEF DriveFindsNothing, ScheduleTransmit, Arm, NoteTimer, PacketsOK
<1>7. CASE TransmitWakeup \/ ReceptionEnds \/ Report \/ Start
  BY <1>7
     DEF TransmitWakeup, ReceptionEnds, Report, Start, Take, PacketsOK
<1>8. CASE StartFails \/ GrantAtStart \/ ArmReport \/ NoteReport
  BY <1>8
     DEF StartFails, GrantAtStart, ArmReport, NoteReport, PacketsOK
<1>9. CASE CloseQueue \/ Tick
  BY <1>9
     DEF CloseQueue, Tick, PacketsOK
<1>10. CASE \E duration \in setting.durations : AcceptUpstream(duration)
  BY <1>10 DEF AcceptUpstream, PacketsOK
<1>11. CASE \E id \in cancelling : CancelTimer(id)
  BY <1>11 DEF CancelTimer, PacketsOK
<1>12. CASE \E t \in armed : TimerFires(t)
  BY <1>12 DEF TimerFires, PacketsOK
<1>13. CASE UNCHANGED vars
  BY <1>13 DEF vars, PacketsOK
<1> QED
  BY <1>1, <1>2, <1>3, <1>4, <1>5, <1>6, <1>7, <1>8, <1>9, <1>10, <1>11, <1>12, <1>13
     DEF Next, WorkerStep, Packet, MainStep

(* Timers, timed events and receptions. *)
LEMMA TimersKept ==
  ASSUME IInv, [Next]_vars
  PROVE  TimersOK'
<1> USE DEF IInv, TypeOK, config, transmit, call, timing, counts, history
<1>1. CASE StartFails
  <2>1. fired' = <<>> /\ <<>> \in Seq(Timers)
    BY <1>1, EmptySeq DEF StartFails
  <2> QED
    BY <1>1, <2>1 DEF StartFails, TimersOK
<1>2. CASE CloseQueue
  <2>1. fired' = <<>> /\ <<>> \in Seq(Timers)
    BY <1>2, EmptySeq DEF CloseQueue
  <2> QED
    BY <1>2, <2>1 DEF CloseQueue, TimersOK
<1>3. CASE \E duration \in setting.durations : AcceptUpstream(duration)
  <2> PICK duration \in setting.durations : AcceptUpstream(duration)
    BY <1>3
  <2>1. heard' = heard + 1 /\ heard \in Nat /\ ids \in Nat
    BY DEF AcceptUpstream, TimersOK
  <2>2. pending_receptions' \subseteq 1..heard'
    BY <2>1 DEF AcceptUpstream, TimersOK
  <2>3. event' \in [id : 0..ids, kind : Kinds \cup {"none"},
  data : Nat] /\ event'.kind # "none"
    BY <2>1 DEF AcceptUpstream, Kinds
  <2> QED
    BY <2>1, <2>2, <2>3 DEF AcceptUpstream, TimersOK
<1>4. CASE ScheduleTransmit
  <2>1. CASE Superseded
    BY <1>4, <2>1 DEF ScheduleTransmit, TimersOK
  <2>2. CASE ~Superseded
    <3>1. event' \in [id : 0..ids, kind : Kinds \cup {"none"},
    data : Nat] /\ event'.kind # "none"
      BY <1>4, <2>2 DEF ScheduleTransmit, Kinds, ClockOK, TimersOK
    <3> QED
      BY <1>4, <2>2, <3>1 DEF ScheduleTransmit, TimersOK
  <2> QED
    BY <2>1, <2>2
<1>5. CASE Arm
  <2> DEFINE e == [event EXCEPT !.id = ids + 1]
  <2>1. /\ ids' = ids + 1 /\ ids \in Nat /\ step' = "note" /\ event' = e
        /\ armed' = armed \cup {Armed(e, when)}
        /\ UNCHANGED <<heard, report, timers, cancelling, fired, pending_receptions,
                       delivered>>
    BY <1>5 DEF Arm, Schedule, Armed, TimersOK
  <2>2. e \in [id : Nat, kind : Kinds, data : Nat] /\ e.id = ids + 1
    BY <1>5 DEF Arm, TimersOK
  <2> HIDE DEF e
  <2>3. Armed(e, when) \in Timers
    BY <2>2, ArmedFacts DEF ClockOK
  <2>4. event' \in [id : 0..ids', kind : Kinds \cup {"none"}, data : Nat]
    BY <2>1, <2>2
  <2>5. report \in 0..ids' /\ timers \subseteq 0..ids' /\ cancelling \subseteq 0..ids'
    BY <2>1 DEF TimersOK
  <2> QED
    BY <2>1, <2>3, <2>4, <2>5 DEF TimersOK
<1>6. CASE TransmitWakeup
  <2>1. fired' \in Seq(Timers) /\ timers' \subseteq timers
    BY <1>6, Taken DEF TransmitWakeup
  <2> QED
    BY <1>6, <2>1 DEF TransmitWakeup, Take, TimersOK
<1>7. CASE ReceptionEnds
  <2>1. fired' \in Seq(Timers) /\ timers' \subseteq timers /\ Head(fired).data \in Nat
    BY <1>7, Taken DEF ReceptionEnds
  <2>2. delivered' \in Seq(Nat)
    BY <1>7, <2>1, LastOf DEF ReceptionEnds, TimersOK
  <2> QED
    BY <1>7, <2>1, <2>2 DEF ReceptionEnds, TimersOK
<1>8. CASE Report
  <2>1. fired' \in Seq(Timers) /\ timers' \subseteq timers
    BY <1>8, Taken DEF Report
  <2>2. CASE started
    <3>1. event' \in [id : 0..ids, kind : Kinds \cup {"none"},
    data : Nat] /\ event'.kind # "none"
      BY <1>8, <2>2 DEF Report, Kinds, TimersOK
    <3> QED
      BY <1>8, <2>1, <2>2, <3>1 DEF Report, TimersOK
  <2>3. CASE ~started
    BY <1>8, <2>1, <2>3 DEF Report, TimersOK
  <2> QED
    BY <2>2, <2>3
<1>9. CASE ArmReport
  <2> DEFINE e == [id |-> ids + 1, kind |-> "report", data |-> 0]
             time == now + ReportInterval
  <2>1. /\ ids' = ids + 1 /\ ids \in Nat /\ report' = ids + 1
        /\ armed' = armed \cup {Armed(e, time)}
        /\ UNCHANGED <<heard, timers, cancelling, step, event, fired, pending_receptions,
                       delivered>>
    BY <1>9 DEF ArmReport, Schedule, Armed, TimersOK
  <2>2. e \in [id : Nat, kind : Kinds, data : Nat] /\ time \in Nat
    BY SettingFacts DEF TimersOK, Kinds, ClockOK
  <2> HIDE DEF e, time
  <2>3. Armed(e, time) \in Timers
    BY <2>2, ArmedFacts
  <2>4. event' \in [id : 0..ids', kind : Kinds \cup {"none"}, data : Nat]
    BY <2>1 DEF TimersOK
  <2>5. report' \in 0..ids' /\ timers \subseteq 0..ids' /\ cancelling \subseteq 0..ids'
    BY <2>1 DEF TimersOK
  <2> QED
    BY <2>1, <2>3, <2>4, <2>5 DEF TimersOK
<1>10. CASE \E t \in armed : TimerFires(t)
  <2> PICK t \in armed : TimerFires(t)
    BY <1>10
  <2>1. t \in Timers /\ fired \in Seq(Timers)
    BY DEF TimersOK
  <2>2. fired' \in Seq(Timers)
    BY <2>1, LastOf DEF TimerFires
  <2> QED
    BY <2>2 DEF TimerFires, TimersOK
<1>11. CASE RefuseDownstream \/ DriveTransmit \/ DriveFindsNothing
  BY <1>11
     DEF RefuseDownstream, DriveTransmit, DriveFindsNothing, TimersOK
<1>12. CASE SendPacket \/ NoteTimer \/ Start
  BY <1>12
     DEF SendPacket, NoteTimer, Start, TimersOK
<1>13. CASE GrantAtStart \/ NoteReport \/ Stop
  BY <1>13
     DEF GrantAtStart, NoteReport, Stop, TimersOK
<1>14. CASE Tick
  BY <1>14
     DEF Tick, TimersOK
<1>15. CASE \E delay \in setting.delays,
            duration \in setting.durations : AcceptDownstream(delay, duration)
  BY <1>15 DEF AcceptDownstream, TimersOK
<1>16. CASE \E id \in cancelling : CancelTimer(id)
  BY <1>16 DEF CancelTimer, TimersOK
<1>17. CASE UNCHANGED vars
  BY <1>17 DEF vars, TimersOK
<1> QED
  BY <1>1, <1>2, <1>3, <1>4, <1>5, <1>6, <1>7, <1>8, <1>9, <1>10, <1>11, <1>12, <1>13,
     <1>14, <1>15, <1>16, <1>17
     DEF Next, WorkerStep, Packet, MainStep

(* All of them together.                                                   *)
LEMMA TypesKept ==
  ASSUME IInv, [Next]_vars
  PROVE  TypeOK'
  BY ClockKept, PlacesKept, TokensOKKept, PacketsKept, TimersKept DEF TypeOK

(* The first state satisfies the inductive invariant.                      *)
LEMMA InitIInv == Init => IInv
<1> SUFFICES ASSUME Init PROVE IInv
  OBVIOUS
<1> USE DEF Init
<1>1. setting.tokens \subseteq Nat /\ QueueCapacity \in Nat \ {0}
  BY MacAssumption
<1>2. ClockOK /\ PlacesOK /\ TokensOK
  <2>1. ClockOK
    BY DEF ClockOK
  <2>4. PlacesOK
    BY DEF PlacesOK
  <2>2. flow_control_tokens \in Nat
    BY <1>1
  <2>3. TokensOK
    BY <2>2 DEF TokensOK
  <2> QED
    BY <2>1, <2>3, <2>4
<1>3. NoPacket \in Packets
  BY DEF NoPacket, Packets
<1>4. PacketsOK
  <2>1. queue \in Seq(Packets) /\ sent \in Seq(Transmissions)
        /\ Len(queue) = 0
    BY EmptySeq
  <2> QED
    BY <1>1, <1>3, <2>1 DEF PacketsOK
<1>5. TimersOK
  <2>1. fired \in Seq(Timers) /\ delivered \in Seq(Nat)
    BY EmptySeq
  <2> QED
    BY <2>1 DEF TimersOK, None, Kinds
<1>6. Len(queue) = 0 /\ Len(sent) = 0 /\ Len(fired) = 0 /\ Len(delivered) = 0
  BY EmptySeq
<1>7. MainAgrees /\ TokensAccounted
  BY DEF MainAgrees, TokensAccounted
<1>8. QueueInOrder /\ SentInOrder
  BY <1>6 DEF QueueInOrder, SentInOrder, OneAtATime
<1>9. TimersDistinct
  BY <1>6 DEF TimersDistinct
<1>10. WakeupKnown
  BY DEF WakeupKnown
<1>11. ReceptionsKnown
  BY <1>6 DEF ReceptionsKnown
<1>12. ReportOnce
  BY <1>6 DEF ReportOnce, Reports, Coming, ArmingReport
<1> QED
  BY <1>2, <1>4, <1>5, <1>7, <1>8, <1>9, <1>10, <1>11, <1>12 DEF IInv, TypeOK

(* start and stop, and what they leave. *)
LEMMA MainKept ==
  ASSUME IInv, [Next]_vars
  PROVE  MainAgrees'
<1> USE DEF IInv, TypeOK, PlacesOK, config, transmit, call, timing, counts, history
<1>1. CASE RefuseDownstream
  BY <1>1
     DEF RefuseDownstream, Admits, Superseded, MainAgrees
<1>2. CASE DriveTransmit
  BY <1>2
     DEF DriveTransmit, Admits, Superseded, MainAgrees
<1>3. CASE DriveFindsNothing
  BY <1>3
     DEF DriveFindsNothing, Admits, Superseded, MainAgrees
<1>4. CASE SendPacket
  BY <1>4
     DEF SendPacket, Admits, Superseded, MainAgrees
<1>5. CASE ScheduleTransmit
  BY <1>5
     DEF ScheduleTransmit, Admits, Superseded, MainAgrees
<1>6. CASE Arm
  BY <1>6
     DEF Arm, Admits, Superseded, MainAgrees
<1>7. CASE NoteTimer
  BY <1>7
     DEF NoteTimer, Admits, Superseded, MainAgrees
<1>8. CASE TransmitWakeup
  BY <1>8
     DEF TransmitWakeup, Take, Admits, Superseded, MainAgrees
<1>9. CASE ReceptionEnds
  BY <1>9
     DEF ReceptionEnds, Take, Admits, Superseded, MainAgrees
<1>10. CASE Report
  BY <1>10
     DEF Report, Take, Admits, Superseded, MainAgrees
<1>11. CASE Start
  BY <1>11
     DEF Start, Admits, Superseded, MainAgrees
<1>12. CASE StartFails
  BY <1>12
     DEF StartFails, Admits, Superseded, MainAgrees
<1>13. CASE GrantAtStart
  BY <1>13
     DEF GrantAtStart, Admits, Superseded, MainAgrees
<1>14. CASE ArmReport
  BY <1>14
     DEF ArmReport, Admits, Superseded, MainAgrees
<1>15. CASE NoteReport
  BY <1>15
     DEF NoteReport, Admits, Superseded, MainAgrees
<1>16. CASE CloseQueue
  BY <1>16
     DEF CloseQueue, Admits, Superseded, MainAgrees
<1>17. CASE Stop
  BY <1>17
     DEF Stop, Admits, Superseded, MainAgrees
<1>18. CASE Tick
  BY <1>18
     DEF Tick, Admits, Superseded, MainAgrees
<1>19. CASE \E delay \in setting.delays,
            duration \in setting.durations : AcceptDownstream(delay, duration)
  <2> PICK delay \in setting.delays,
  duration \in setting.durations : AcceptDownstream(delay, duration)
    BY <1>19
  <2> QED
    BY  DEF AcceptDownstream, Admits, Superseded, MainAgrees
<1>20. CASE \E duration \in setting.durations : AcceptUpstream(duration)
  <2> PICK duration \in setting.durations : AcceptUpstream(duration)
    BY <1>20
  <2> QED
    BY  DEF AcceptUpstream, Admits, Superseded, MainAgrees
<1>21. CASE \E id \in cancelling : CancelTimer(id)
  <2> PICK id \in cancelling : CancelTimer(id)
    BY <1>21
  <2> QED
    BY  DEF CancelTimer, Admits, Superseded, MainAgrees
<1>22. CASE \E t \in armed : TimerFires(t)
  <2> PICK t \in armed : TimerFires(t)
    BY <1>22
  <2> QED
    BY  DEF TimerFires, Admits, Superseded, MainAgrees
<1>23. CASE UNCHANGED vars
  BY <1>23 DEF vars, Admits, Superseded, MainAgrees
<1> QED
  BY <1>1, <1>2, <1>3, <1>4, <1>5, <1>6, <1>7, <1>8, <1>9, <1>10, <1>11, <1>12, <1>13,
     <1>14, <1>15, <1>16, <1>17, <1>18, <1>19, <1>20, <1>21, <1>22, <1>23
     DEF Next, WorkerStep, Packet, MainStep

(* Every token is in one place. *)
LEMMA TokensKept ==
  ASSUME IInv, [Next]_vars
  PROVE  TokensAccounted'
<1> USE DEF IInv, TypeOK, config, transmit, call, timing, counts, history
<1>1. CASE \E delay \in setting.delays,
           duration \in setting.durations : AcceptDownstream(delay, duration)
  <2> PICK delay \in setting.delays,
  duration \in setting.durations : AcceptDownstream(delay, duration)
    BY <1>1
  <2>1. ASSUME flow_control_enable, started
        PROVE  available_tokens' + Len(queue') = flow_control_tokens
    <3>1. /\ available_tokens \in Nat /\ available_tokens # 0 /\ flow_control_tokens \in Nat
          /\ available_tokens + Len(queue) = flow_control_tokens
      BY <2>1 DEF AcceptDownstream, Admits, TokensAccounted, TokensOK
    <3>2. /\ Len(queue) \in Nat /\ Len(Kept) \in Nat /\ Len(queue) - Len(Kept) \in {0, 1}
          /\ Kept \in Seq(Packets)
      BY KeptFacts
    <3>3. PICK new : queue' = Append(Kept, new)
      BY DEF AcceptDownstream
    <3>4. Len(queue') = Len(Kept) + 1
      BY <3>2, <3>3
    <3>5. available_tokens' = Credited(available_tokens - 1, Len(queue) - Len(Kept))
      BY <2>1 DEF AcceptDownstream, TokensAfterAdmission
    <3>6. available_tokens' = available_tokens - 1 + (Len(queue) - Len(Kept))
      BY <3>1, <3>2, <3>5 DEF Credited
    <3> QED
      BY <3>1, <3>2, <3>4, <3>6
  <2> QED
    BY <2>1 DEF AcceptDownstream, TokensAccounted
<1>2. CASE DriveTransmit
  <2>1. ASSUME flow_control_enable, started
        PROVE  available_tokens' + Len(queue') = flow_control_tokens
    <3>1. /\ available_tokens \in Nat /\ flow_control_tokens \in Nat
          /\ available_tokens + Len(queue) = flow_control_tokens
      BY <2>1 DEF TokensAccounted, TokensOK
    <3>2. queue # <<>> /\ queue \in Seq(Packets) /\ queue' = Tail(queue)
      BY <1>2 DEF DriveTransmit, CanSend, PacketsOK
    <3>3. Len(queue) \in Nat \ {0} /\ Len(queue') = Len(queue) - 1
      BY <3>2, FirstOf
    <3>4. available_tokens' = Credited(available_tokens, 1)
      BY <1>2, <2>1 DEF DriveTransmit
    <3> QED
      BY <3>1, <3>3, <3>4 DEF Credited
  <2> QED
    BY <1>2, <2>1 DEF DriveTransmit, TokensAccounted
<1>3. CASE Start
  <2>1. queue' = <<>> /\ available_tokens' = flow_control_tokens
    BY <1>3 DEF Start, MainAgrees
  <2> QED
    BY <1>3, <2>1, EmptySeq DEF Start, TokensAccounted, TokensOK
<1>4. CASE RefuseDownstream \/ DriveFindsNothing \/ SendPacket \/ ScheduleTransmit
  BY <1>4
     DEF RefuseDownstream, DriveFindsNothing, SendPacket, ScheduleTransmit, TokensAccounted
<1>5. CASE Arm \/ NoteTimer \/ TransmitWakeup \/ ReceptionEnds
  BY <1>5
     DEF Arm, NoteTimer, TransmitWakeup, ReceptionEnds, Take, TokensAccounted
<1>6. CASE Report \/ StartFails \/ GrantAtStart \/ ArmReport
  BY <1>6
     DEF Report, StartFails, GrantAtStart, ArmReport, Take, TokensAccounted
<1>7. CASE NoteReport \/ CloseQueue \/ Stop \/ Tick
  BY <1>7
     DEF NoteReport, CloseQueue, Stop, Tick, TokensAccounted
<1>8. CASE \E duration \in setting.durations : AcceptUpstream(duration)
  BY <1>8 DEF AcceptUpstream, TokensAccounted
<1>9. CASE \E id \in cancelling : CancelTimer(id)
  BY <1>9 DEF CancelTimer, TokensAccounted
<1>10. CASE \E t \in armed : TimerFires(t)
  BY <1>10 DEF TimerFires, TokensAccounted
<1>11. CASE UNCHANGED vars
  BY <1>11 DEF vars, TokensAccounted
<1> QED
  BY <1>1, <1>2, <1>3, <1>4, <1>5, <1>6, <1>7, <1>8, <1>9, <1>10, <1>11
     DEF Next, WorkerStep, Packet, MainStep

-----------------------------------------------------------------------------
(***************************************************************************)
(* The order of packets.                                                   *)
(***************************************************************************)
(* What the types say of the packets that wait and that were sent.         *)
LEMMA PacketFacts ==
  ASSUME PacketsOK
  PROVE  /\ Len(queue) \in Nat /\ Len(sent) \in Nat /\ arrived \in Nat
         /\ \A i \in 1..Len(queue) : /\ queue[i].id \in Nat /\ queue[i].ready_at \in Nat
                                     /\ queue[i].duration \in Nat \ {0}
         /\ handed.id \in Nat /\ handed.duration \in Nat \ {0}
         /\ \A i \in 1..Len(sent) : /\ sent[i].id \in Nat /\ sent[i].begin \in Nat
                                    /\ sent[i].end \in Nat /\ sent[i].late \in Nat
<1> DEFINE S == Transmissions
<1>1. queue \in Seq(Packets) /\ handed \in Packets /\ arrived \in Nat /\ sent \in Seq(S)
  BY DEF PacketsOK
<1>2. \A p \in Packets : p.id \in Nat /\ p.ready_at \in Nat /\ p.duration \in Nat \ {0}
  BY DEF Packets
<1>3. \A p \in S : p.id \in Nat /\ p.begin \in Nat /\ p.end \in Nat /\ p.late \in Nat
  BY DEF Transmissions
<1> HIDE DEF S
<1>4. \A i \in 1..Len(queue) : queue[i] \in Packets
  BY <1>1, ElementOfSeq
<1>5. \A i \in 1..Len(sent) : sent[i] \in S
  BY <1>1, ElementOfSeq
<1> QED
  BY <1>1, <1>2, <1>3, <1>4, <1>5, LenProperties

(* The queue after a packet was admitted: the new packet is the last, and  *)
(* those before it are the old ones without the d that were lost.          *)
LEMMA Admitted ==
  ASSUME TypeOK, NEW delay \in setting.delays, NEW duration \in setting.durations,
         AcceptDownstream(delay, duration)
  PROVE  \E d \in {0, 1} :
           /\ Len(queue) \in Nat /\ Len(queue') \in Nat /\ Len(queue') = Len(queue) - d + 1
           /\ queue' # <<>> /\ (Kept = queue => d = 0)
           /\ \A i \in 1..Len(queue') :
                \/ /\ i = Len(queue') /\ queue'[i].id = arrived + 1
                   /\ queue'[i].ready_at = now + delay
                \/ i < Len(queue') /\ i + d \in 1..Len(queue) /\ queue'[i] = queue[i + d]
<1> DEFINE new == [id |-> arrived + 1, ready_at |-> now + delay, duration |-> duration]
<1>1. queue' = Append(Kept, new)
  BY DEF AcceptDownstream
<1>2. new \in Packets /\ new.id = arrived + 1 /\ new.ready_at = now + delay
  BY SettingFacts DEF TypeOK, ClockOK, PacketsOK, Packets
<1> HIDE DEF new
<1> DEFINE d == Len(queue) - Len(Kept)
<1>3. /\ Kept \in Seq(Packets) /\ Len(queue) \in Nat /\ Len(Kept) \in Nat /\ d \in {0, 1}
      /\ \A i \in 1..Len(Kept) : i + d \in 1..Len(queue) /\ Kept[i] = queue[i + d]
  BY KeptFacts DEF TypeOK
<1>4. /\ queue' # <<>> /\ Len(queue') = Len(Kept) + 1 /\ queue'[Len(Kept) + 1] = new
      /\ \A k \in 1..Len(Kept) : queue'[k] = Kept[k]
  BY <1>1, <1>2, <1>3, LastOf
<1>5. Kept = queue => d = 0
  BY <1>3
<1>6. Len(queue') \in Nat /\ Len(queue') = Len(queue) - d + 1
  BY <1>3, <1>4
<1>7. ASSUME NEW i \in 1..Len(queue')
      PROVE  \/ /\ i = Len(queue') /\ queue'[i].id = arrived + 1
                /\ queue'[i].ready_at = now + delay
             \/ i < Len(queue') /\ i + d \in 1..Len(queue) /\ queue'[i] = queue[i + d]
  <2>1. CASE i = Len(Kept) + 1
    BY <1>2, <1>4, <2>1
  <2>2. CASE i \in 1..Len(Kept)
    BY <1>3, <1>4, <2>2
  <2> QED
    BY <1>3, <1>4, <2>1, <2>2
<1> HIDE DEF d
<1> QED
  BY <1>3, <1>4, <1>5, <1>6, <1>7

(* The queue after its first packet was taken to be sent. *)
LEMMA Sending ==
  ASSUME TypeOK, DriveTransmit
  PROVE  /\ Len(queue) \in Nat \ {0} /\ Len(queue') = Len(queue) - 1
         /\ handed' = queue[1] /\ Head(queue) = queue[1]
         /\ \A k \in 1..Len(queue') : k + 1 \in 1..Len(queue) /\ queue'[k] = queue[k + 1]
<1>1. /\ queue # <<>> /\ queue \in Seq(Packets) /\ queue' = Tail(queue)
      /\ handed' = Head(queue)
  BY DEF DriveTransmit, CanSend, TypeOK, PacketsOK
<1> QED
  BY <1>1, FirstOf

(* Packets wait in the order they came. *)
LEMMA QueueOrderKept ==
  ASSUME IInv, [Next]_vars
  PROVE  QueueInOrder'
<1> USE DEF IInv, TypeOK, config, transmit, call, timing, counts, history
<1>1. CASE \E delay \in setting.delays,
           duration \in setting.durations : AcceptDownstream(delay, duration)
  <2> PICK delay \in setting.delays,
  duration \in setting.durations : AcceptDownstream(delay, duration)
    BY <1>1
  <2>1. PICK d \in {0, 1} :
          /\ Len(queue) \in Nat /\ Len(queue') \in Nat /\ Len(queue') = Len(queue) - d + 1
          /\ \A i \in 1..Len(queue') :
               \/ i = Len(queue') /\ queue'[i].id = arrived + 1
               \/ i < Len(queue') /\ i + d \in 1..Len(queue) /\ queue'[i] = queue[i + d]
    BY Admitted
  <2>2. arrived' = arrived + 1 /\ step' # "send"
    BY DEF AcceptDownstream
  <2>3. /\ arrived \in Nat
        /\ \A i \in 1..Len(queue) : queue[i].id \in Nat /\ queue[i].id <= arrived
        /\ \A i, j \in 1..Len(queue) : i < j => queue[i].id < queue[j].id
    BY PacketFacts DEF QueueInOrder
  <2>4. ASSUME NEW i \in 1..Len(queue')
        PROVE  queue'[i].id <= arrived'
    <3>1. CASE queue'[i].id = arrived + 1
      BY <2>2, <2>3, <3>1
    <3>2. CASE i + d \in 1..Len(queue) /\ queue'[i] = queue[i + d]
      <4>1. queue[i + d].id \in Nat /\ queue[i + d].id <= arrived
        BY <2>3, <3>2
      <4> QED
        BY <2>2, <2>3, <3>2, <4>1
    <3> QED
      BY <2>1, <3>1, <3>2
  <2>5. ASSUME NEW i \in 1..Len(queue'), NEW j \in 1..Len(queue'), i < j
        PROVE  queue'[i].id < queue'[j].id
    <3>1. i < Len(queue') /\ i + d \in 1..Len(queue) /\ queue'[i] = queue[i + d]
      <4>1. i # Len(queue')
        BY <2>1, <2>5
      <4> QED
        BY <2>1, <4>1
    <3>2. CASE j = Len(queue') /\ queue'[j].id = arrived + 1
      BY <2>3, <3>1, <3>2
    <3>3. CASE j + d \in 1..Len(queue) /\ queue'[j] = queue[j + d]
      <4>1. i + d < j + d
        BY <2>1, <2>5
      <4> QED
        BY <2>3, <3>1, <3>3, <4>1
    <3> QED
      BY <2>1, <3>2, <3>3
  <2> QED
    BY <2>2, <2>4, <2>5 DEF QueueInOrder
<1>2. CASE RefuseDownstream
  <2>1. /\ arrived' = arrived + 1 /\ UNCHANGED <<queue, step, handed>> /\ arrived \in Nat
    BY <1>2 DEF RefuseDownstream, PacketsOK
  <2>2. \A i \in 1..Len(queue) : queue[i].id <= arrived'
    BY <2>1, PacketFacts DEF QueueInOrder
  <2>3. step = "send" => handed.id <= arrived'
    BY <2>1, PacketFacts DEF QueueInOrder
  <2> QED
    BY <2>1, <2>2, <2>3 DEF QueueInOrder
<1>3. CASE DriveTransmit
  <2>1. /\ Len(queue) \in Nat \ {0} /\ Len(queue') = Len(queue) - 1 /\ handed' = queue[1]
        /\ \A k \in 1..Len(queue') : k + 1 \in 1..Len(queue) /\ queue'[k] = queue[k + 1]
    BY <1>3, Sending
  <2>2. arrived' = arrived
    BY <1>3 DEF DriveTransmit
  <2>3. 1 \in 1..Len(queue) /\ \A k \in 1..Len(queue') : k \in Int /\ 1 < k + 1
    BY <2>1
  <2>4. \A i \in 1..Len(queue') : queue'[i].id <= arrived' /\ handed'.id < queue'[i].id
    BY <2>1, <2>2, <2>3 DEF QueueInOrder
  <2>5. handed'.id <= arrived'
    BY <2>1, <2>2, <2>3 DEF QueueInOrder
  <2>6. \A i, j \in 1..Len(queue') : i < j => queue'[i].id < queue'[j].id
    <3>1. \A i, j \in 1..Len(queue') : i < j => i + 1 < j + 1
      BY <2>1
    <3> QED
      BY <2>1, <3>1 DEF QueueInOrder
  <2> QED
    BY <2>4, <2>5, <2>6 DEF QueueInOrder
<1>4. CASE Stop
  <2>1. Len(queue') = 0 /\ UNCHANGED <<step, handed, arrived>>
    BY <1>4, EmptySeq DEF Stop
  <2> QED
    BY <2>1 DEF QueueInOrder
<1>5. CASE DriveFindsNothing \/ SendPacket \/ ScheduleTransmit \/ Arm
  BY <1>5
     DEF DriveFindsNothing, SendPacket, ScheduleTransmit, Arm, QueueInOrder
<1>6. CASE NoteTimer \/ TransmitWakeup \/ ReceptionEnds \/ Report
  BY <1>6
     DEF NoteTimer, TransmitWakeup, ReceptionEnds, Report, Take, QueueInOrder
<1>7. CASE Start \/ StartFails \/ GrantAtStart \/ ArmReport
  BY <1>7
     DEF Start, StartFails, GrantAtStart, ArmReport, QueueInOrder
<1>8. CASE NoteReport \/ CloseQueue \/ Tick
  BY <1>8
     DEF NoteReport, CloseQueue, Tick, QueueInOrder
<1>9. CASE \E duration \in setting.durations : AcceptUpstream(duration)
  BY <1>9 DEF AcceptUpstream, QueueInOrder
<1>10. CASE \E id \in cancelling : CancelTimer(id)
  BY <1>10 DEF CancelTimer, QueueInOrder
<1>11. CASE \E t \in armed : TimerFires(t)
  BY <1>11 DEF TimerFires, QueueInOrder
<1>12. CASE UNCHANGED vars
  BY <1>12 DEF vars, QueueInOrder
<1> QED
  BY <1>1, <1>2, <1>3, <1>4, <1>5, <1>6, <1>7, <1>8, <1>9, <1>10, <1>11, <1>12
     DEF Next, WorkerStep, Packet, MainStep

(* Packets are sent in that order, one after the other. *)
LEMMA SentOrderKept ==
  ASSUME IInv, [Next]_vars
  PROVE  SentInOrder'
<1> USE DEF IInv, TypeOK, config, transmit, call, timing, counts, history
<1>1. CASE \E delay \in setting.delays,
           duration \in setting.durations : AcceptDownstream(delay, duration)
  <2> PICK delay \in setting.delays,
  duration \in setting.durations : AcceptDownstream(delay, duration)
    BY <1>1
  <2>1. PICK d \in {0, 1} :
          \A i \in 1..Len(queue') :
            \/ i = Len(queue') /\ queue'[i].id = arrived + 1
            \/ i < Len(queue') /\ i + d \in 1..Len(queue) /\ queue'[i] = queue[i + d]
    BY Admitted
  <2>2. /\ arrived' = arrived + 1 /\ step' # "send" /\ step # "send"
        /\ UNCHANGED <<now, sent, current_end_of_transmission>>
    BY DEF AcceptDownstream
  <2>3. \A i \in 1..Len(sent) : sent[i].id \in Nat /\ sent[i].id <= arrived /\ arrived \in Nat
    BY PacketFacts DEF SentInOrder
  <2>4. \A i \in 1..Len(sent) : sent[i].id < arrived + 1 /\ sent[i].id <= arrived + 1
    BY <2>3
  <2>5. \A i \in 1..Len(sent) : \A j \in 1..Len(queue') : sent[i].id < queue'[j].id
    BY <2>1, <2>4 DEF SentInOrder
  <2> QED
    BY <2>2, <2>4, <2>5 DEF SentInOrder, OneAtATime
<1>2. CASE RefuseDownstream
  <2>1. /\ arrived' = arrived + 1
        /\ UNCHANGED <<now, queue, step, handed, seen, sent, current_end_of_transmission>>
    BY <1>2 DEF RefuseDownstream
  <2>2. \A i \in 1..Len(sent) : sent[i].id <= arrived'
    BY <2>1, PacketFacts DEF SentInOrder
  <2> QED
    BY <2>1, <2>2 DEF SentInOrder, OneAtATime
<1>3. CASE DriveTransmit
  <2>1. /\ Len(queue) \in Nat \ {0} /\ handed' = queue[1] /\ Head(queue) = queue[1]
        /\ \A k \in 1..Len(queue') : k + 1 \in 1..Len(queue) /\ queue'[k] = queue[k + 1]
    BY <1>3, Sending
  <2>2. 1 \in 1..Len(queue)
    BY <2>1
  <2>3. /\ step = "drive" /\ current_end_of_transmission <= seen /\ step' = "send"
        /\ UNCHANGED <<now, arrived, sent, seen>>
        /\ current_end_of_transmission' = seen + Head(queue).duration
    BY <1>3 DEF DriveTransmit, CanSend
  <2>4. \A i \in 1..Len(sent) : sent[i].end <= seen + sent[i].late
    <3>1. \A i \in 1..Len(sent) :
            /\ sent[i].end \in Nat /\ sent[i].late \in Nat
            /\ sent[i].end <= current_end_of_transmission + sent[i].late
      BY <2>3, PacketFacts DEF SentInOrder
    <3>2. current_end_of_transmission \in Nat /\ seen \in Nat
      BY DEF ClockOK
    <3> QED
      BY <2>3, <3>1, <3>2
  <2>5. \A i \in 1..Len(sent) : \A j \in 1..Len(queue') : sent[i].id < queue'[j].id
    BY <2>1 DEF SentInOrder
  <2>6. \A i \in 1..Len(sent) : sent[i].id < handed'.id
    BY <2>1, <2>2 DEF SentInOrder
  <2> QED
    BY <2>1, <2>3, <2>4, <2>5, <2>6 DEF SentInOrder, OneAtATime
<1>4. CASE SendPacket
  <2> DEFINE new == Transmission
             S == Transmissions
  <2>1. /\ sent' = Append(sent, new) /\ step = "send" /\ step' # "send"
        /\ UNCHANGED <<now, queue, arrived, seen, current_end_of_transmission>>
    BY <1>4 DEF SendPacket
  <2>2. /\ new \in S /\ new.id = handed.id /\ new.begin = now /\ seen <= now
        /\ new.end = seen + handed.duration + new.late /\ new.late \in Nat
        /\ seen \in Nat /\ now \in Nat
    BY PacketFacts DEF ClockOK, Transmission, Transmissions
  <2>3. sent \in Seq(S)
    BY DEF PacketsOK
  <2> HIDE DEF new, S
  <2>4. /\ Len(sent) \in Nat /\ Len(sent') = Len(sent) + 1 /\ sent'[Len(sent) + 1] = new
        /\ \A k \in 1..Len(sent) : sent'[k] = sent[k]
    BY <2>1, <2>2, <2>3, LastOf
  <2>5. /\ \A k \in 1..Len(sent) : /\ sent[k].id < new.id /\ sent[k].begin <= new.begin
                                     /\ sent[k].end <= new.begin + sent[k].late
        /\ new.end = current_end_of_transmission + new.late
    <3>1. ASSUME NEW k \in 1..Len(sent)
          PROVE  /\ sent[k].id < new.id /\ sent[k].begin <= new.begin
                 /\ sent[k].end <= new.begin + sent[k].late
      <4>1. /\ sent[k].id < handed.id /\ sent[k].begin <= now
            /\ sent[k].end <= seen + sent[k].late
        BY <2>1 DEF SentInOrder
      <4>2. sent[k].end \in Nat /\ sent[k].late \in Nat
        BY PacketFacts
      <4> QED
        BY <2>2, <4>1, <4>2
    <3>2. current_end_of_transmission = seen + handed.duration
      BY <2>1 DEF SentInOrder
    <3> QED
      BY <2>2, <3>1, <3>2
  <2>6. \A k \in 1..Len(sent') : k \in 1..Len(sent) \/ k = Len(sent) + 1
    BY <2>4
  <2>7. OneAtATime'
    <3> SUFFICES ASSUME NEW i \in 1..Len(sent'), NEW j \in 1..Len(sent'), i < j
                 PROVE  /\ sent'[i].end <= sent'[j].begin + sent'[i].late
                        /\ sent'[i].begin <= sent'[j].begin /\ sent'[i].id < sent'[j].id
      BY DEF OneAtATime
    <3>1. i \in 1..Len(sent)
      BY <2>4
    <3>2. CASE j \in 1..Len(sent)
      BY <2>4, <3>1, <3>2 DEF SentInOrder, OneAtATime
    <3>3. CASE j = Len(sent) + 1
      BY <2>4, <2>5, <3>1, <3>3
    <3> QED
      BY <2>6, <3>2, <3>3
  <2>8. ASSUME NEW i \in 1..Len(sent')
        PROVE  /\ sent'[i].id <= arrived
               /\ \A j \in 1..Len(queue) : sent'[i].id < queue[j].id
               /\ sent'[i].begin <= now
               /\ sent'[i].end <= current_end_of_transmission + sent'[i].late
    <3>1. CASE i = Len(sent) + 1
      <4>1. /\ new.end <= current_end_of_transmission + new.late
            /\ new.begin <= now
        BY <2>2, <2>5, PacketFacts DEF ClockOK
      <4> QED
        BY <2>1, <2>2, <2>4, <2>5, <3>1, <4>1 DEF QueueInOrder
    <3>2. CASE i \in 1..Len(sent)
      <4>1. /\ sent[i].end \in Nat /\ sent[i].late \in Nat /\ seen \in Nat
            /\ sent[i].end <= seen + sent[i].late
            /\ handed.duration \in Nat /\ current_end_of_transmission = seen + handed.duration
        BY <2>1, <3>2, PacketFacts DEF SentInOrder, ClockOK
      <4>2. sent[i].end <= current_end_of_transmission + sent[i].late
        BY <4>1
      <4> QED
        BY <2>4, <3>2, <4>2 DEF SentInOrder
    <3> QED
      BY <2>6, <3>1, <3>2
  <2> QED
    BY <2>1, <2>7, <2>8 DEF SentInOrder
<1>5. CASE TransmitWakeup
  <2>1. /\ step # "send" /\ step' # "send"
        /\ UNCHANGED <<now, queue, arrived, sent, current_end_of_transmission>>
    BY <1>5 DEF TransmitWakeup, Take
  <2> QED
    BY <2>1 DEF SentInOrder, OneAtATime
<1>6. CASE Stop
  <2>1. /\ Len(queue') = 0
        /\ UNCHANGED <<now, step, handed, arrived, seen, sent, current_end_of_transmission>>
    BY <1>6, EmptySeq DEF Stop
  <2> QED
    BY <2>1 DEF SentInOrder, OneAtATime
<1>7. CASE DriveFindsNothing \/ ScheduleTransmit \/ Arm \/ NoteTimer
  BY <1>7
     DEF DriveFindsNothing, ScheduleTransmit, Arm, NoteTimer, SentInOrder, OneAtATime
<1>8. CASE ReceptionEnds \/ Report \/ Start \/ StartFails
  BY <1>8
     DEF ReceptionEnds, Report, Start, StartFails, Take, SentInOrder, OneAtATime
<1>9. CASE GrantAtStart \/ ArmReport \/ NoteReport \/ CloseQueue
  BY <1>9
     DEF GrantAtStart, ArmReport, NoteReport, CloseQueue, SentInOrder, OneAtATime
<1>10. CASE Tick
  <2>1. \A i \in 1..Len(sent) : sent[i].begin <= now'
    BY <1>10, PacketFacts DEF Tick, SentInOrder, ClockOK
  <2> QED
    BY <1>10, <2>1 DEF Tick, SentInOrder, OneAtATime
<1>11. CASE \E duration \in setting.durations : AcceptUpstream(duration)
  BY <1>11 DEF AcceptUpstream, SentInOrder, OneAtATime
<1>12. CASE \E id \in cancelling : CancelTimer(id)
  BY <1>12 DEF CancelTimer, SentInOrder, OneAtATime
<1>13. CASE \E t \in armed : TimerFires(t)
  BY <1>13 DEF TimerFires, SentInOrder, OneAtATime
<1>14. CASE UNCHANGED vars
  BY <1>14 DEF vars, SentInOrder, OneAtATime
<1> QED
  BY <1>1, <1>2, <1>3, <1>4, <1>5, <1>6, <1>7, <1>8, <1>9, <1>10, <1>11, <1>12, <1>13, <1>14
     DEF Next, WorkerStep, Packet, MainStep

-----------------------------------------------------------------------------
(***************************************************************************)
(* The timed events that are coming.                                       *)
(***************************************************************************)
(* What the types say of the timers and of the timed events.               *)
LEMMA TimerFacts ==
  ASSUME TimersOK
  PROVE  /\ ids \in Nat /\ Len(fired) \in Nat
         /\ \A t \in armed : t.id \in Nat
         /\ \A i \in 1..Len(fired) : fired[i].id \in Nat
<1>1. ids \in Nat /\ fired \in Seq(Timers) /\ armed \subseteq Timers
  BY DEF TimersOK
<1>2. \A t \in Timers : t.id \in Nat
  BY DEF Timers
<1>3. \A i \in 1..Len(fired) : fired[i] \in Timers
  BY <1>1, ElementOfSeq
<1> QED
  BY <1>1, <1>2, <1>3, LenProperties

(* A timer that is armed gets a number of its own.                         *)
LEMMA Scheduled ==
  ASSUME TypeOK, TimersDistinct, NEW e \in [id : Nat, kind : Kinds, data : Nat],
         NEW time \in Nat, e.id = ids + 1, Schedule(e, time), UNCHANGED fired
  PROVE  /\ TimersDistinct'
         /\ Coming' = Coming \cup {Armed(e, time)}
<1>1. armed' = armed \cup {Armed(e, time)} /\ ids' = ids + 1
  BY DEF Schedule, Armed
<1>2. Armed(e, time).id = ids + 1
  BY ArmedFacts DEF TypeOK
<1>3. /\ \A t \in armed : t.id < ids + 1 /\ t.id # ids + 1 /\ t.id <= ids'
      /\ \A i \in 1..Len(fired) : fired[i].id # ids + 1 /\ fired[i].id <= ids'
      /\ ids + 1 <= ids'
  <2>1. /\ ids \in Nat /\ \A t \in armed : t.id \in Nat
        /\ \A i \in 1..Len(fired) : fired[i].id \in Nat
    BY TimerFacts DEF TypeOK
  <2>2. /\ \A t \in armed : t.id <= ids
        /\ \A i \in 1..Len(fired) : fired[i].id <= ids
    BY DEF TimersDistinct
  <2> QED
    BY <1>1, <2>1, <2>2
<1>4. TimersDistinct'
  BY <1>1, <1>2, <1>3 DEF TimersDistinct
<1> QED
  BY <1>1, <1>4 DEF Coming

(* A timed event that is processed is no longer coming, and is the only one*)
(* of that number.                                                         *)
LEMMA TakenAway ==
  ASSUME TypeOK, TimersDistinct, NEW kind, Take(kind), UNCHANGED <<armed, ids>>
  PROVE  /\ TimersDistinct'
         /\ Head(fired) \in Coming
         /\ Coming' = Coming \ {Head(fired)}
<1>1. fired \in Seq(Timers) /\ fired # <<>> /\ fired' = Tail(fired)
  BY Taken DEF TypeOK, TimersOK
<1>2. /\ Head(fired) = fired[1] /\ Len(fired) \in Nat \ {0} /\ Len(fired') = Len(fired) - 1
      /\ \A k \in 1..Len(fired') : k + 1 \in 1..Len(fired) /\ fired'[k] = fired[k + 1]
  BY <1>1, FirstOf
<1>3. 1 \in 1..Len(fired) /\ \A k \in 1..Len(fired') : k + 1 # 1
  BY <1>2
<1>4. \A k \in 1..Len(fired) : k = 1 \/ (k - 1 \in 1..Len(fired') /\ fired'[k - 1] = fired[k])
  <2> TAKE k \in 1..Len(fired)
  <2>1. CASE k # 1
    <3>1. k - 1 \in 1..Len(fired') /\ (k - 1) + 1 = k
      BY <1>2, <2>1
    <3> QED
      BY <1>2, <3>1
  <2> QED
    BY <2>1
<1>5. TimersDistinct'
  <2>1. \A i, j \in 1..Len(fired') : fired'[i].id = fired'[j].id => i = j
    <3> SUFFICES ASSUME NEW i \in 1..Len(fired'), NEW j \in 1..Len(fired'),
                        fired'[i].id = fired'[j].id
                 PROVE  i = j
      OBVIOUS
    <3>1. i + 1 = j + 1
      BY <1>2 DEF TimersDistinct
    <3> QED
      BY <1>2, <3>1
  <2> QED
    BY <1>2, <2>1 DEF TimersDistinct
<1>6. Head(fired) \notin armed
  BY <1>2, <1>3 DEF TimersDistinct
<1>7. \A k \in 1..Len(fired') : fired'[k] # Head(fired)
  BY <1>2, <1>3 DEF TimersDistinct
<1>8. Coming' = Coming \ {Head(fired)}
  <2>1. ASSUME NEW t \in Coming' PROVE t \in Coming /\ t # Head(fired)
    <3>1. CASE t \in armed
      BY <1>6, <3>1 DEF Coming
    <3>2. CASE \E k \in 1..Len(fired') : t = fired'[k]
      BY <1>2, <1>7, <3>2 DEF Coming
    <3> QED
      BY <2>1, <3>1, <3>2 DEF Coming
  <2>2. ASSUME NEW t \in Coming, t # Head(fired) PROVE t \in Coming'
    <3>1. CASE t \in armed
      BY <3>1 DEF Coming
    <3>2. CASE \E k \in 1..Len(fired) : t = fired[k]
      BY <1>2, <1>4, <2>2, <3>2 DEF Coming
    <3> QED
      BY <2>2, <3>1, <3>2 DEF Coming
  <2> QED
    BY <2>1, <2>2
<1> QED
  BY <1>2, <1>3, <1>5, <1>8 DEF Coming

(* A timer that fires before close turns into a timed event that is coming.*)
LEMMA Fired ==
  ASSUME TypeOK, TimersDistinct, NEW t \in armed, TimerFires(t)
  PROVE  /\ TimersDistinct'
         /\ main # "closed" => Coming' = Coming
<1>1. t \in Timers /\ fired \in Seq(Timers) /\ armed' = armed \ {t} /\ ids' = ids
  BY DEF TypeOK, TimersOK, TimerFires, timing
<1>2. CASE main = "closed"
  <2>1. fired' = fired
    BY <1>2 DEF TimerFires
  <2> QED
    BY <1>1, <1>2, <2>1 DEF TimersDistinct
<1>3. CASE main # "closed"
  <2>1. fired' = Append(fired, t)
    BY <1>3 DEF TimerFires
  <2>2. /\ Len(fired) \in Nat /\ Len(fired') = Len(fired) + 1 /\ fired'[Len(fired) + 1] = t
        /\ \A k \in 1..Len(fired) : fired'[k] = fired[k]
    BY <1>1, <2>1, LastOf
  <2>3. /\ \A k \in 1..Len(fired') : k \in 1..Len(fired) \/ k = Len(fired) + 1
        /\ \A k \in 1..Len(fired) : k \in 1..Len(fired')
        /\ Len(fired) + 1 \in 1..Len(fired')
    BY <2>2
  <2>4. /\ \A u \in armed' : u \in armed /\ u.id # t.id
        /\ \A k \in 1..Len(fired) : fired[k].id # t.id
    BY <1>1 DEF TimersDistinct
  <2>5. TimersDistinct'
    <3>1. \A i \in 1..Len(fired') : fired'[i].id <= ids
      BY <2>2, <2>3 DEF TimersDistinct
    <3>2. \A i, j \in 1..Len(fired') : fired'[i].id = fired'[j].id => i = j
      BY <2>2, <2>3, <2>4 DEF TimersDistinct
    <3>3. \A u \in armed', i \in 1..Len(fired') : u.id # fired'[i].id
      BY <2>2, <2>3, <2>4 DEF TimersDistinct
    <3> QED
      BY <1>1, <2>4, <3>1, <3>2, <3>3 DEF TimersDistinct
  <2>6. Coming' = Coming
    BY <1>1, <2>2, <2>3 DEF Coming
  <2> QED
    BY <2>5, <2>6
<1> QED
  BY <1>2, <1>3

(* The timer that a call of the worker arms. *)
LEMMA ArmedByCall ==
  ASSUME TypeOK, TimersDistinct, Arm
  PROVE  /\ TimersDistinct'
         /\ \E t \in Timers : /\ t.kind = event.kind /\ t.data = event.data
                              /\ Coming' = Coming \cup {t}
<1> DEFINE e == [event EXCEPT !.id = ids + 1]
<1>1. Schedule(e, when) /\ UNCHANGED fired /\ when \in Nat
  BY DEF Arm, TypeOK, ClockOK
<1>2. /\ e \in [id : Nat, kind : Kinds, data : Nat] /\ e.id = ids + 1
      /\ e.kind = event.kind /\ e.data = event.data
  BY DEF Arm, TypeOK, TimersOK
<1> HIDE DEF e
<1>3. TimersDistinct' /\ Coming' = Coming \cup {Armed(e, when)}
  BY <1>1, <1>2, Scheduled
<1>4. /\ Armed(e, when) \in Timers /\ Armed(e, when).kind = e.kind
      /\ Armed(e, when).data = e.data
  BY <1>1, <1>2, ArmedFacts DEF TypeOK
<1> QED
  BY <1>2, <1>3, <1>4

(* The report timer that start arms. *)
LEMMA ArmedByStart ==
  ASSUME TypeOK, TimersDistinct, ArmReport
  PROVE  /\ TimersDistinct'
         /\ \E t \in Timers : t.kind = "report" /\ Coming' = Coming \cup {t}
<1> DEFINE e == [id |-> ids + 1, kind |-> "report", data |-> 0]
           time == now + ReportInterval
<1>1. Schedule(e, time) /\ UNCHANGED fired
  BY DEF ArmReport
<1>2. time \in Nat
  BY SettingFacts DEF TypeOK, ClockOK
<1>3. e \in [id : Nat, kind : Kinds, data : Nat] /\ e.id = ids + 1 /\ e.kind = "report"
  BY DEF TypeOK, TimersOK, Kinds
<1> HIDE DEF e, time
<1>4. TimersDistinct' /\ Coming' = Coming \cup {Armed(e, time)}
  BY <1>1, <1>2, <1>3, Scheduled
<1>5. Armed(e, time) \in Timers /\ Armed(e, time).kind = "report"
  BY <1>2, <1>3, ArmedFacts DEF TypeOK
<1> QED
  BY <1>4, <1>5

(* No timed event is coming twice. *)
LEMMA DistinctKept ==
  ASSUME IInv, [Next]_vars
  PROVE  TimersDistinct'
<1> USE DEF IInv, TypeOK, config, transmit, call, timing, counts, history
<1>1. CASE Arm
  <2> QED
    BY <1>1, ArmedByCall
<1>2. CASE ArmReport
  <2> QED
    BY <1>2, ArmedByStart
<1>3. CASE TransmitWakeup
  <2> QED
    BY <1>3, TakenAway DEF TransmitWakeup
<1>4. CASE ReceptionEnds
  <2> QED
    BY <1>4, TakenAway DEF ReceptionEnds
<1>5. CASE Report
  <2> QED
    BY <1>5, TakenAway DEF Report
<1>6. CASE \E t \in armed : TimerFires(t)
  <2> PICK t \in armed : TimerFires(t)
    BY <1>6
  <2> QED
    BY Fired
<1>7. CASE StartFails
  <2>1. Len(fired') = 0 /\ UNCHANGED <<armed, ids>>
    BY <1>7, EmptySeq DEF StartFails
  <2> QED
    BY <2>1 DEF TimersDistinct
<1>8. CASE CloseQueue
  <2>1. Len(fired') = 0 /\ UNCHANGED <<armed, ids>>
    BY <1>8, EmptySeq DEF CloseQueue
  <2> QED
    BY <2>1 DEF TimersDistinct
<1>9. CASE RefuseDownstream \/ DriveTransmit \/ DriveFindsNothing
  BY <1>9
     DEF RefuseDownstream, DriveTransmit, DriveFindsNothing, TimersDistinct
<1>10. CASE SendPacket \/ ScheduleTransmit \/ NoteTimer
  BY <1>10
     DEF SendPacket, ScheduleTransmit, NoteTimer, TimersDistinct
<1>11. CASE Start \/ GrantAtStart \/ NoteReport
  BY <1>11
     DEF Start, GrantAtStart, NoteReport, TimersDistinct
<1>12. CASE Stop \/ Tick
  BY <1>12
     DEF Stop, Tick, TimersDistinct
<1>13. CASE \E delay \in setting.delays,
            duration \in setting.durations : AcceptDownstream(delay, duration)
  BY <1>13 DEF AcceptDownstream, TimersDistinct
<1>14. CASE \E duration \in setting.durations : AcceptUpstream(duration)
  BY <1>14 DEF AcceptUpstream, TimersDistinct
<1>15. CASE \E id \in cancelling : CancelTimer(id)
  BY <1>15 DEF CancelTimer, TimersDistinct
<1>16. CASE UNCHANGED vars
  BY <1>16 DEF vars, TimersDistinct
<1> QED
  BY <1>1, <1>2, <1>3, <1>4, <1>5, <1>6, <1>7, <1>8, <1>9, <1>10, <1>11, <1>12, <1>13,
     <1>14, <1>15, <1>16
     DEF Next, WorkerStep, Packet, MainStep

-----------------------------------------------------------------------------
(***************************************************************************)
(* Wakeups, receptions and reports.                                        *)
(***************************************************************************)
(* When the packet at the head of the queue may be sent.                   *)
LEMMA DueFacts ==
  ASSUME TypeOK, queue # <<>>
  PROVE  /\ Head(queue) = queue[1] /\ queue[1].ready_at \in Nat /\ Due \in Nat
         /\ Due >= current_end_of_transmission /\ Due >= seen
<1>1. Head(queue) \in Packets /\ Head(queue) = queue[1]
  BY FirstOf DEF TypeOK, PacketsOK
<1>2. Head(queue).ready_at \in Nat
  BY <1>1 DEF Packets
<1>3. current_end_of_transmission \in Nat /\ seen \in Nat
  BY DEF TypeOK, ClockOK
<1> QED
  BY <1>1, <1>2, <1>3 DEF Due, Later

(* What is coming is what the timers and the timed events say.             *)
LEMMA ComingSame ==
  ASSUME UNCHANGED <<armed, fired>>
  PROVE  Coming' = Coming
  BY DEF Coming

(* The wakeup that packets wait for is coming or asked for. *)
LEMMA WakeupKept ==
  ASSUME IInv, [Next]_vars
  PROVE  WakeupKnown'
<1> USE DEF IInv, TypeOK, config, transmit, call, timing, counts, history
<1>1. CASE \E delay \in setting.delays,
           duration \in setting.durations : AcceptDownstream(delay, duration)
  <2> PICK delay \in setting.delays,
  duration \in setting.durations : AcceptDownstream(delay, duration)
    BY <1>1
  <2>1. Coming' = Coming
    BY ComingSame DEF AcceptDownstream
  <2>2. /\ UNCHANGED <<current_end_of_transmission, next_transmit_wakeup>> /\ step = "idle"
        /\ overflowed' = (overflowed \/ Kept # queue)
    BY DEF AcceptDownstream
  <2> DEFINE ready == Later(now + delay, current_end_of_transmission)
  <2>3. next_transmit_wakeup # 0 => Wakeup("transmit", next_transmit_wakeup)'
    BY <2>1, <2>2 DEF WakeupKnown, Wakeup, Arming
  <2>4. CASE ready <= now
    <3>1. step' = "drive" /\ seen' = now /\ now > 0
      BY <2>4 DEF AcceptDownstream, ClockOK
    <3> QED
      BY <2>2, <2>3, <3>1 DEF WakeupKnown
  <2>5. CASE ~(ready <= now)
    <3>1. step' = "schedule" /\ when' = ready /\ seen' = seen
      BY <2>5 DEF AcceptDownstream
    <3>2. now \in Nat /\ delay \in Nat /\ current_end_of_transmission \in Nat /\ seen \in Nat
      BY SettingFacts DEF ClockOK
    <3>3. ready \in Nat /\ ready > 0
      BY <2>5, <3>2 DEF Later
    <3>4. ASSUME ~overflowed'
          PROVE  \/ next_transmit_wakeup # 0 /\ next_transmit_wakeup <= Due'
                 \/ when' <= Due'
      <4>1. PICK d \in {0, 1} :
              /\ Len(queue) \in Nat /\ Len(queue') \in Nat
              /\ Len(queue') = Len(queue) - d + 1
              /\ queue' # <<>> /\ (Kept = queue => d = 0)
              /\ \A i \in 1..Len(queue') :
                   \/ i = Len(queue') /\ queue'[i].ready_at = now + delay
                   \/ i < Len(queue') /\ i + d \in 1..Len(queue) /\ queue'[i] = queue[i + d]
        BY Admitted
      <4>2. d = 0 /\ ~overflowed
        BY <2>2, <3>4, <4>1
      <4>3. Head(queue') = queue'[1]
        BY <4>1, FirstOf, PacketsKept DEF PacketsOK
      <4>4. CASE queue = <<>>
        <5>1. Len(queue) = 0
          BY <4>4
        <5>2. 1 \in 1..Len(queue') /\ 1 = Len(queue')
          BY <4>1, <4>2, <5>1
        <5>3. Head(queue').ready_at = now + delay
          BY <4>1, <4>3, <5>2
        <5> QED
          BY <2>2, <3>1, <3>2, <5>3 DEF Due, Later
      <4>5. CASE queue # <<>>
        <5>1. Len(queue) # 0
          BY <4>5, EmptySeq DEF PacketsOK
        <5>2. 1 \in 1..Len(queue') /\ 1 # Len(queue') /\ 1 + d = 1
          BY <4>1, <4>2, <5>1
        <5>3. queue'[1] = queue[1] /\ Head(queue) = queue[1]
          BY <4>1, <4>5, <5>2, DueFacts
        <5>4. Due' = Due
          BY <2>2, <3>1, <4>3, <5>3 DEF Due
        <5> QED
          BY <2>2, <4>2, <4>5, <5>4 DEF WakeupKnown
      <4> QED
        BY <4>4, <4>5
    <3> HIDE DEF ready
    <3> QED
      BY <2>2, <2>3, <3>1, <3>3, <3>4 DEF WakeupKnown
  <2> QED
    BY <2>4, <2>5
<1>2. CASE DriveTransmit
  <2>1. Coming' = Coming
    BY <1>2, ComingSame DEF DriveTransmit
  <2>2. /\ UNCHANGED <<next_transmit_wakeup, seen, overflowed>> /\ queue' = Tail(queue)
        /\ step = "drive" /\ step' = "send"
        /\ current_end_of_transmission' = seen + Head(queue).duration
        /\ NextWakeup(queue', current_end_of_transmission')
    BY <1>2 DEF DriveTransmit
  <2>3. seen \in Nat /\ seen > 0
    BY <2>2 DEF WakeupKnown, ClockOK
  <2>4. queue' # <<>> => when' = Due'
    BY <2>2 DEF NextWakeup, Due
  <2>5. queue' # <<>> => Due' \in Nat /\ Due' >= seen'
    <3>1. /\ queue' \in Seq(Packets) /\ current_end_of_transmission' \in Nat
          /\ seen' \in Nat
      BY TypesKept DEF PacketsOK, ClockOK
    <3>2. queue' # <<>> => Head(queue') \in Packets
      BY <3>1, FirstOf
    <3>3. queue' # <<>> => Head(queue').ready_at \in Nat
      BY <3>2 DEF Packets
    <3> QED
      BY <3>1, <3>3 DEF Due, Later
  <2>6. queue' # <<>> => when' > 0 /\ when' <= Due'
    BY <2>2, <2>3, <2>4, <2>5
  <2> QED
    BY <2>1, <2>2, <2>6 DEF WakeupKnown, Wakeup, Arming
<1>3. CASE DriveFindsNothing
  <2>1. Coming' = Coming
    BY <1>3, ComingSame DEF DriveFindsNothing
  <2>2. /\ UNCHANGED <<queue, current_end_of_transmission, next_transmit_wakeup, seen,
                       overflowed>>
        /\ step = "drive"
    BY <1>3 DEF DriveFindsNothing
  <2>3. CASE queue # <<>>
    <3>1. started
      BY <2>3 DEF MainAgrees
    <3>2. step' = "schedule" /\ when' = Due
      BY <1>3, <2>3, <3>1 DEF DriveFindsNothing, NextWakeup, Due
    <3>3. Due \in Nat /\ Due >= seen /\ seen \in Nat /\ seen > 0
      BY <2>2, <2>3, DueFacts DEF WakeupKnown, ClockOK
    <3>4. Due' = Due
      BY <2>2 DEF Due
    <3>5. when' > 0 /\ when' <= Due'
      BY <3>2, <3>3, <3>4
    <3> QED
      BY <2>1, <2>2, <3>2, <3>5 DEF WakeupKnown, Wakeup, Arming
  <2>4. CASE queue = <<>>
    <3>1. step' = "idle"
      BY <1>3, <2>4 DEF DriveFindsNothing
    <3> QED
      BY <2>1, <2>2, <2>4, <3>1 DEF WakeupKnown, Wakeup, Arming
  <2> QED
    BY <2>3, <2>4
<1>4. CASE SendPacket
  <2>1. Coming' = Coming
    BY <1>4, ComingSame DEF SendPacket
  <2>2. /\ UNCHANGED <<queue, current_end_of_transmission, next_transmit_wakeup, seen, when,
                       overflowed>>
        /\ step = "send" /\ step' = (IF when = 0 THEN "idle" ELSE "schedule")
    BY <1>4 DEF SendPacket
  <2>3. when \in Nat
    BY DEF ClockOK
  <2> QED
    BY <2>1, <2>2, <2>3 DEF WakeupKnown, Wakeup, Arming, Due
<1>5. CASE ScheduleTransmit
  <2>1. Coming' = Coming
    BY <1>5, ComingSame DEF ScheduleTransmit
  <2>2. /\ UNCHANGED <<queue, current_end_of_transmission, seen, when, overflowed>>
        /\ step = "schedule" /\ when > 0 /\ when \in Nat /\ next_transmit_wakeup \in Nat
    BY <1>5 DEF ScheduleTransmit, WakeupKnown, ClockOK
  <2>3. queue # <<>> => Due \in Nat /\ started /\ Due' = Due
    BY <2>2, DueFacts DEF MainAgrees, Due
  <2>4. CASE Superseded
    <3>1. step' = "idle" /\ next_transmit_wakeup' = next_transmit_wakeup
      BY <1>5, <2>4 DEF ScheduleTransmit
    <3>2. queue # <<>> => next_transmit_wakeup # 0 /\ next_transmit_wakeup <= when
      BY <2>3, <2>4 DEF Superseded
    <3>3. queue # <<>> /\ ~overflowed => next_transmit_wakeup <= Due
      BY <2>2, <2>3, <3>2 DEF WakeupKnown
    <3> QED
      BY <2>1, <2>2, <2>3, <3>1, <3>2, <3>3 DEF WakeupKnown, Wakeup, Arming
  <2>5. CASE ~Superseded
    <3>1. /\ next_transmit_wakeup' = when /\ step' = "arm"
          /\ event' = [id |-> 0, kind |-> "transmit", data |-> when]
      BY <1>5, <2>5 DEF ScheduleTransmit
    <3>2. Arming("transmit", next_transmit_wakeup)'
      BY <3>1 DEF Arming
    <3>3. next_transmit_wakeup = 0 \/ when < next_transmit_wakeup
      BY <2>2, <2>5 DEF Superseded
    <3>4. queue # <<>> /\ ~overflowed => when <= Due
      BY <2>2, <2>3, <3>3 DEF WakeupKnown
    <3> QED
      BY <2>2, <2>3, <3>1, <3>2, <3>4 DEF WakeupKnown
  <2> QED
    BY <2>4, <2>5
<1>6. CASE Arm
  <2>1. /\ UNCHANGED <<queue, current_end_of_transmission, next_transmit_wakeup, seen, when,
                       overflowed>>
        /\ step = "arm" /\ step' = "note"
    BY <1>6 DEF Arm
  <2>2. PICK t : t.kind = event.kind /\ t.data = event.data /\ Coming' = Coming \cup {t}
    BY <1>6, ArmedByCall
  <2>3. next_transmit_wakeup # 0 => Wakeup("transmit", next_transmit_wakeup)'
    BY <2>1, <2>2 DEF WakeupKnown, Wakeup, Arming
  <2> QED
    BY <2>1, <2>3 DEF WakeupKnown, Due
<1>7. CASE NoteTimer
  <2>1. Coming' = Coming
    BY <1>7, ComingSame DEF NoteTimer
  <2>2. /\ UNCHANGED <<queue, current_end_of_transmission, next_transmit_wakeup, seen, when,
                       overflowed>>
        /\ step = "note" /\ step' = "idle"
    BY <1>7 DEF NoteTimer
  <2> QED
    BY <2>1, <2>2 DEF WakeupKnown, Wakeup, Arming, Due
<1>8. CASE \E duration \in setting.durations : AcceptUpstream(duration)
  <2> PICK duration \in setting.durations : AcceptUpstream(duration)
    BY <1>8
  <2>1. Coming' = Coming
    BY ComingSame DEF AcceptUpstream
  <2>2. /\ UNCHANGED <<queue, current_end_of_transmission, next_transmit_wakeup, seen,
                       overflowed>>
        /\ step = "idle" /\ step' = "arm"
    BY DEF AcceptUpstream
  <2> QED
    BY <2>1, <2>2 DEF WakeupKnown, Wakeup, Arming, Due
<1>9. CASE TransmitWakeup
  <2>1. Coming' = Coming \ {Head(fired)}
    BY <1>9, TakenAway DEF TransmitWakeup
  <2>2. /\ UNCHANGED <<queue, current_end_of_transmission, overflowed>>
        /\ step = "idle" /\ now > 0
    BY <1>9 DEF TransmitWakeup, Take, ClockOK
  <2>3. CASE Head(fired).data = next_transmit_wakeup
    <3>1. next_transmit_wakeup' = 0 /\ step' = "drive" /\ seen' = now
      BY <1>9, <2>3 DEF TransmitWakeup
    <3> QED
      BY <2>2, <3>1 DEF WakeupKnown
  <2>4. CASE Head(fired).data # next_transmit_wakeup
    <3>1. UNCHANGED <<next_transmit_wakeup, step, seen>>
      BY <1>9, <2>4 DEF TransmitWakeup
    <3>2. next_transmit_wakeup # 0 => Wakeup("transmit", next_transmit_wakeup)'
      BY <2>1, <2>2, <2>4, <3>1 DEF WakeupKnown, Wakeup, Arming
    <3> QED
      BY <2>2, <3>1, <3>2 DEF WakeupKnown, Due
  <2> QED
    BY <2>3, <2>4
<1>10. CASE ReceptionEnds
  <2>1. Coming' = Coming \ {Head(fired)} /\ Head(fired).kind = "receive"
    BY <1>10, TakenAway DEF ReceptionEnds, Take
  <2>2. /\ UNCHANGED <<queue, current_end_of_transmission, next_transmit_wakeup, seen,
                       overflowed>>
        /\ step = "idle" /\ step' \in {"idle", "arm"}
    BY <1>10 DEF ReceptionEnds, Take
  <2>3. next_transmit_wakeup # 0 => Wakeup("transmit", next_transmit_wakeup)'
    BY <2>1, <2>2 DEF WakeupKnown, Wakeup, Arming
  <2> QED
    BY <2>2, <2>3 DEF WakeupKnown, Due
<1>11. CASE Report
  <2>1. Coming' = Coming \ {Head(fired)} /\ Head(fired).kind = "report"
    BY <1>11, TakenAway DEF Report, Take
  <2>2. /\ UNCHANGED <<queue, current_end_of_transmission, next_transmit_wakeup, seen,
                       overflowed>>
        /\ step = "idle" /\ step' \in {"idle", "arm"}
    BY <1>11 DEF Report, Take
  <2>3. next_transmit_wakeup # 0 => Wakeup("transmit", next_transmit_wakeup)'
    BY <2>1, <2>2 DEF WakeupKnown, Wakeup, Arming
  <2> QED
    BY <2>2, <2>3 DEF WakeupKnown, Due
<1>12. CASE ArmReport
  <2>1. UNCHANGED <<queue, current_end_of_transmission, next_transmit_wakeup, step, seen,
                    when, event, overflowed>>
    BY <1>12 DEF ArmReport
  <2>2. \A t \in Coming : t \in Coming'
    BY <1>12, ArmedByStart
  <2> QED
    BY <2>1, <2>2 DEF WakeupKnown, Wakeup, Arming, Due
<1>13. CASE Stop
  <2>1. queue' = <<>> /\ next_transmit_wakeup' = 0 /\ UNCHANGED <<step, seen, when>>
    BY <1>13 DEF Stop
  <2> QED
    BY <2>1 DEF WakeupKnown
<1>14. CASE \E t \in armed : TimerFires(t)
  <2> PICK t \in armed : TimerFires(t)
    BY <1>14
  <2>1. UNCHANGED <<queue, current_end_of_transmission, next_transmit_wakeup, step, seen,
                    when, event, overflowed>>
    BY DEF TimerFires
  <2>2. CASE main = "closed"
    <3>1. queue = <<>> /\ next_transmit_wakeup = 0
      BY <2>2 DEF MainAgrees
    <3> QED
      BY <2>1, <3>1 DEF WakeupKnown
  <2>3. CASE main # "closed"
    <3>1. Coming' = Coming
      BY <2>3, Fired
    <3> QED
      BY <2>1, <3>1 DEF WakeupKnown, Wakeup, Arming, Due
  <2> QED
    BY <2>2, <2>3
<1>15. CASE \E id \in cancelling : CancelTimer(id)
  <2> PICK id \in cancelling : CancelTimer(id)
    BY <1>15
  <2>1. /\ queue = <<>> /\ next_transmit_wakeup = 0
        /\ UNCHANGED <<queue, next_transmit_wakeup, step, seen, when>>
    BY DEF CancelTimer, MainAgrees
  <2> QED
    BY <2>1 DEF WakeupKnown
<1>16. CASE StartFails \/ CloseQueue
  <2>1. /\ queue = <<>> /\ next_transmit_wakeup = 0
        /\ UNCHANGED <<queue, next_transmit_wakeup, step, seen, when>>
    BY <1>16 DEF StartFails, CloseQueue, MainAgrees
  <2> QED
    BY <2>1 DEF WakeupKnown
<1>17. CASE RefuseDownstream \/ Start \/ GrantAtStart \/ NoteReport \/ Tick
            \/ UNCHANGED vars
  <2>1. Coming' = Coming
    BY <1>17, ComingSame DEF RefuseDownstream, Start, GrantAtStart, NoteReport, Tick, vars
  <2>2. UNCHANGED <<queue, current_end_of_transmission, next_transmit_wakeup, step, seen,
                    when, event, overflowed>>
    BY <1>17 DEF RefuseDownstream, Start, GrantAtStart, NoteReport, Tick, vars
  <2> QED
    BY <2>1, <2>2 DEF WakeupKnown, Wakeup, Arming, Due
<1> QED
  BY <1>1, <1>2, <1>3, <1>4, <1>5, <1>6, <1>7, <1>8, <1>9, <1>10, <1>11, <1>12, <1>13,
     <1>14, <1>15, <1>16, <1>17
     DEF Next, WorkerStep, Packet, MainStep

(* Receptions under way have their ends coming. *)
LEMMA ReceptionsKept ==
  ASSUME IInv, [Next]_vars
  PROVE  ReceptionsKnown'
<1> USE DEF IInv, TypeOK, config, transmit, call, timing, counts, history
<1>1. CASE \E duration \in setting.durations : AcceptUpstream(duration)
  <2> PICK duration \in setting.durations : AcceptUpstream(duration)
    BY <1>1
  <2>1. Coming' = Coming
    BY ComingSame DEF AcceptUpstream
  <2>2. /\ UNCHANGED <<delivered, started, main>> /\ step = "idle" /\ step' = "arm"
        /\ heard' = heard + 1 /\ heard \in Nat
        /\ pending_receptions' = pending_receptions \cup {heard + 1}
        /\ event' = [id |-> 0, kind |-> "receive", data |-> heard + 1]
    BY DEF AcceptUpstream, TimersOK
  <2>3. \A r : Wakeup("receive", r) => Wakeup("receive", r)'
    BY <2>1 DEF Wakeup
  <2>4. \A r : r = heard + 1 => Arming("receive", r)'
    BY <2>2 DEF Arming
  <2>5. started' \/ main' = "new" =>
          \A r \in pending_receptions' : Wakeup("receive", r)' \/ Arming("receive", r)'
    BY <2>2, <2>3, <2>4 DEF ReceptionsKnown, Arming
  <2>6. \A i \in 1..Len(delivered) : delivered[i] \in Nat
    BY ElementOfSeq DEF TimersOK
  <2>7. \A i \in 1..Len(delivered) : delivered[i] <= heard + 1 /\ delivered[i] # heard + 1
    BY <2>2, <2>6 DEF ReceptionsKnown
  <2> QED
    BY <2>2, <2>5, <2>7 DEF ReceptionsKnown
<1>2. CASE Arm
  <2>1. UNCHANGED <<pending_receptions, delivered, heard, started, main>>
    BY <1>2 DEF Arm
  <2>2. PICK t : t.kind = event.kind /\ t.data = event.data /\ Coming' = Coming \cup {t}
    BY <1>2, ArmedByCall
  <2>3. \A r : Wakeup("receive", r) \/ Arming("receive", r) => Wakeup("receive", r)'
    BY <2>2 DEF Wakeup, Arming
  <2> QED
    BY <2>1, <2>3 DEF ReceptionsKnown
<1>3. CASE ArmReport
  <2>1. UNCHANGED <<pending_receptions, delivered, heard, started, step, event>>
        /\ started /\ main' # "new"
    BY <1>3 DEF ArmReport, MainAgrees
  <2>2. \A t \in Coming : t \in Coming'
    BY <1>3, ArmedByStart
  <2>3. \A r : Wakeup("receive", r) => Wakeup("receive", r)'
    BY <2>2 DEF Wakeup
  <2> QED
    BY <2>1, <2>3 DEF ReceptionsKnown, Arming
<1>4. CASE TransmitWakeup
  <2>1. Coming' = Coming \ {Head(fired)} /\ Head(fired).kind # "receive"
    BY <1>4, TakenAway DEF TransmitWakeup, Take
  <2>2. UNCHANGED <<pending_receptions, delivered, heard, started, main>> /\ step = "idle"
    BY <1>4 DEF TransmitWakeup, Take
  <2>3. \A r : Wakeup("receive", r) => Wakeup("receive", r)'
    BY <2>1 DEF Wakeup
  <2> QED
    BY <2>2, <2>3 DEF ReceptionsKnown, Arming
<1>5. CASE Report
  <2>1. Coming' = Coming \ {Head(fired)} /\ Head(fired).kind # "receive"
    BY <1>5, TakenAway DEF Report, Take
  <2>2. UNCHANGED <<pending_receptions, delivered, heard, started, main>> /\ step = "idle"
    BY <1>5 DEF Report, Take
  <2>3. \A r : Wakeup("receive", r) => Wakeup("receive", r)'
    BY <2>1 DEF Wakeup
  <2> QED
    BY <2>2, <2>3 DEF ReceptionsKnown, Arming
<1>6. CASE ReceptionEnds
  <2> DEFINE r == Head(fired).data
  <2>1. Coming' = Coming \ {Head(fired)} /\ r \in Nat
    BY <1>6, TakenAway, Taken DEF ReceptionEnds
  <2>2. /\ UNCHANGED <<heard, started, main>> /\ step = "idle"
        /\ pending_receptions' = pending_receptions \ {r}
        /\ delivered' = IF r \in pending_receptions THEN Append(delivered, r) ELSE delivered
    BY <1>6 DEF ReceptionEnds, Take
  <2> HIDE DEF r
  <2>3. \A q : q # r /\ Wakeup("receive", q) => Wakeup("receive", q)'
    BY <2>1 DEF Wakeup, r
  <2>4. started' \/ main' = "new" =>
          \A q \in pending_receptions' : Wakeup("receive", q)' \/ Arming("receive", q)'
    BY <2>2, <2>3 DEF ReceptionsKnown, Arming
  <2>5. CASE r \in pending_receptions
    <3>1. delivered \in Seq(Nat) /\ r \in Nat /\ r <= heard
      BY <2>1, <2>5 DEF TimersOK
    <3>2. /\ Len(delivered) \in Nat /\ Len(delivered') = Len(delivered) + 1
          /\ delivered'[Len(delivered) + 1] = r
          /\ \A k \in 1..Len(delivered) : delivered'[k] = delivered[k]
      BY <2>2, <2>5, <3>1, LastOf
    <3>3. \A k \in 1..Len(delivered') : k \in 1..Len(delivered) \/ k = Len(delivered) + 1
      BY <3>2
    <3>4. \A k \in 1..Len(delivered) : delivered[k] # r
      BY <2>5 DEF ReceptionsKnown
    <3>5. \A k \in 1..Len(delivered') :
            delivered'[k] <= heard /\ delivered'[k] \notin pending_receptions'
      BY <2>2, <3>1, <3>2, <3>3 DEF ReceptionsKnown
    <3>6. \A i, j \in 1..Len(delivered') : delivered'[i] = delivered'[j] => i = j
      BY <3>2, <3>3, <3>4 DEF ReceptionsKnown
    <3> QED
      BY <2>2, <2>4, <3>5, <3>6 DEF ReceptionsKnown
  <2>6. CASE r \notin pending_receptions
    BY <2>2, <2>4, <2>6 DEF ReceptionsKnown
  <2> QED
    BY <2>5, <2>6
<1>7. CASE Stop
  <2>1. /\ ~started' /\ main' # "new" /\ UNCHANGED <<delivered, heard>>
        /\ pending_receptions' = {}
    BY <1>7 DEF Stop
  <2> QED
    BY <2>1 DEF ReceptionsKnown
<1>8. CASE \E t \in armed : TimerFires(t)
  <2> PICK t \in armed : TimerFires(t)
    BY <1>8
  <2>1. UNCHANGED <<pending_receptions, delivered, heard, started, main, step, event>>
    BY DEF TimerFires
  <2>2. CASE main = "closed"
    BY <2>1, <2>2 DEF ReceptionsKnown, MainAgrees
  <2>3. CASE main # "closed"
    <3>1. Coming' = Coming
      BY <2>3, Fired
    <3> QED
      BY <2>1, <3>1 DEF ReceptionsKnown, Wakeup, Arming
  <2> QED
    BY <2>2, <2>3
<1>9. CASE \E id \in cancelling : CancelTimer(id)
  <2> PICK id \in cancelling : CancelTimer(id)
    BY <1>9
  <2>1. ~started' /\ main' # "new" /\ UNCHANGED <<pending_receptions, delivered, heard>>
    BY DEF CancelTimer, MainAgrees
  <2> QED
    BY <2>1 DEF ReceptionsKnown
<1>10. CASE \E delay \in setting.delays,
            duration \in setting.durations : AcceptDownstream(delay, duration)
  <2> PICK delay \in setting.delays,
  duration \in setting.durations : AcceptDownstream(delay, duration)
    BY <1>10
  <2>1. Coming' = Coming
    BY ComingSame DEF AcceptDownstream
  <2>2. /\ UNCHANGED <<pending_receptions, delivered, heard, started, main>>
        /\ step # "arm"
    BY DEF AcceptDownstream
  <2>3. \A r : Wakeup("receive", r) => Wakeup("receive", r)'
    BY <2>1 DEF Wakeup
  <2> QED
    BY <2>2, <2>3 DEF ReceptionsKnown, Arming
<1>11. CASE DriveTransmit \/ DriveFindsNothing \/ SendPacket \/ ScheduleTransmit
            \/ NoteTimer
  <2>1. Coming' = Coming
    BY <1>11, ComingSame DEF DriveTransmit, DriveFindsNothing, SendPacket,
       ScheduleTransmit, NoteTimer
  <2>2. /\ UNCHANGED <<pending_receptions, delivered, heard, started, main>>
        /\ step # "arm"
    BY <1>11 DEF DriveTransmit, DriveFindsNothing, SendPacket, ScheduleTransmit, NoteTimer
  <2>3. \A r : Wakeup("receive", r) => Wakeup("receive", r)'
    BY <2>1 DEF Wakeup
  <2> QED
    BY <2>2, <2>3 DEF ReceptionsKnown, Arming
<1>12. CASE StartFails
  <2>1. ~started' /\ main' # "new" /\ UNCHANGED <<pending_receptions, delivered, heard>>
    BY <1>12 DEF StartFails, MainAgrees
  <2> QED
    BY <2>1 DEF ReceptionsKnown
<1>13. CASE CloseQueue
  <2>1. ~started' /\ main' # "new" /\ UNCHANGED <<pending_receptions, delivered, heard>>
    BY <1>13 DEF CloseQueue, MainAgrees
  <2> QED
    BY <2>1 DEF ReceptionsKnown
<1>14. CASE Start \/ GrantAtStart \/ NoteReport
  <2>1. Coming' = Coming
    BY <1>14, ComingSame DEF Start, GrantAtStart, NoteReport
  <2>2. /\ UNCHANGED <<pending_receptions, delivered, heard, step, event>>
        /\ main = "new" \/ (started' = started /\ main' # "new")
    BY <1>14 DEF Start, GrantAtStart, NoteReport, PlacesOK
  <2> QED
    BY <2>1, <2>2 DEF ReceptionsKnown, Wakeup, Arming
<1>15. CASE RefuseDownstream \/ Tick \/ UNCHANGED vars
  <2>1. Coming' = Coming
    BY <1>15, ComingSame DEF RefuseDownstream, Tick, vars
  <2>2. UNCHANGED <<pending_receptions, delivered, heard, step, event, started, main>>
    BY <1>15 DEF RefuseDownstream, Tick, vars
  <2> QED
    BY <2>1, <2>2 DEF ReceptionsKnown, Wakeup, Arming
<1> QED
  BY <1>1, <1>2, <1>3, <1>4, <1>5, <1>6, <1>7, <1>8, <1>9, <1>10, <1>11, <1>12, <1>13,
     <1>14, <1>15
     DEF Next, WorkerStep, Packet, MainStep

(* The report timers make one chain. *)
LEMMA ReportKept ==
  ASSUME IInv, [Next]_vars
  PROVE  ReportOnce'
<1> USE DEF IInv, TypeOK, config, transmit, call, timing, counts, history
<1>1. CASE \E delay \in setting.delays,
           duration \in setting.durations : AcceptDownstream(delay, duration)
  <2> PICK delay \in setting.delays,
  duration \in setting.durations : AcceptDownstream(delay, duration)
    BY <1>1
  <2>1. Reports' = Reports
    BY ComingSame DEF AcceptDownstream, Reports
  <2>2. /\ UNCHANGED <<setting, main>> /\ ~ArmingReport /\ ~ArmingReport'
    BY DEF AcceptDownstream, ArmingReport, Superseded
  <2> QED
    BY <2>1, <2>2 DEF ReportOnce, Reports
<1>2. CASE \E duration \in setting.durations : AcceptUpstream(duration)
  <2> PICK duration \in setting.durations : AcceptUpstream(duration)
    BY <1>2
  <2>1. Reports' = Reports
    BY ComingSame DEF AcceptUpstream, Reports
  <2>2. /\ UNCHANGED <<setting, main>> /\ ~ArmingReport /\ ~ArmingReport'
    BY DEF AcceptUpstream, ArmingReport, Superseded
  <2> QED
    BY <2>1, <2>2 DEF ReportOnce, Reports
<1>3. CASE \E id \in cancelling : CancelTimer(id)
  <2> PICK id \in cancelling : CancelTimer(id)
    BY <1>3
  <2>1. main' \in {"cancel", "closed"}
    BY DEF CancelTimer
  <2> QED
    BY <2>1 DEF ReportOnce
<1>4. CASE TransmitWakeup
  <2>1. Coming' = Coming \ {Head(fired)} /\ Head(fired).kind # "report"
    BY <1>4, TakenAway DEF TransmitWakeup, Take
  <2>2. UNCHANGED <<setting, main, event>> /\ step = "idle" /\ step' # "arm"
    BY <1>4 DEF TransmitWakeup, Take
  <2>3. Reports' = Reports
    BY <2>1 DEF Reports
  <2> QED
    BY <2>2, <2>3 DEF ReportOnce, ArmingReport, Reports
<1>5. CASE ReceptionEnds
  <2>1. Coming' = Coming \ {Head(fired)} /\ Head(fired).kind # "report"
    BY <1>5, TakenAway DEF ReceptionEnds, Take
  <2>2. UNCHANGED <<setting, main, event>> /\ step = "idle" /\ step' # "arm"
    BY <1>5 DEF ReceptionEnds, Take
  <2>3. Reports' = Reports
    BY <2>1 DEF Reports
  <2> QED
    BY <2>2, <2>3 DEF ReportOnce, ArmingReport, Reports
<1>6. CASE Report
  <2>1. /\ Coming' = Coming \ {Head(fired)} /\ Head(fired).kind = "report"
        /\ Head(fired) \in Coming
    BY <1>6, TakenAway DEF Report, Take
  <2>2. UNCHANGED <<setting, main>> /\ step = "idle"
    BY <1>6 DEF Report, Take
  <2>3. Head(fired) \in Reports /\ Reports' = Reports \ {Head(fired)}
    BY <2>1 DEF Reports
  <2>4. ASSUME setting.radiometric, main \in {"note report", "running"}
        PROVE  Reports' = {} /\ ArmingReport'
    <3>1. started
      BY <2>4 DEF MainAgrees
    <3>2. ArmingReport'
      BY <1>6, <3>1 DEF Report, ArmingReport
    <3>3. PICK t : Reports = {t}
      BY <2>3, <2>4 DEF ReportOnce
    <3> QED
      BY <2>3, <3>2, <3>3
  <2>5. setting.radiometric => main \notin {"new", "grant", "arm report"}
    BY <2>3 DEF ReportOnce
  <2> QED
    BY <2>2, <2>4, <2>5 DEF ReportOnce
<1>7. CASE Arm
  <2>1. UNCHANGED <<setting, main>> /\ step = "arm" /\ ~ArmingReport'
    BY <1>7 DEF Arm, ArmingReport
  <2>2. PICK t : t.kind = event.kind /\ Coming' = Coming \cup {t}
    BY <1>7, ArmedByCall
  <2>3. CASE event.kind = "report"
    <3>1. ArmingReport /\ Reports' = Reports \cup {t} /\ t \in Coming'
      BY <2>1, <2>2, <2>3 DEF ArmingReport, Reports
    <3> QED
      BY <2>1, <3>1 DEF ReportOnce
  <2>4. CASE event.kind # "report"
    <3>1. ~ArmingReport /\ Reports' = Reports /\ \A u \in Coming : u \in Coming'
      BY <2>2, <2>4 DEF ArmingReport, Reports
    <3> QED
      BY <2>1, <3>1 DEF ReportOnce
  <2> QED
    BY <2>3, <2>4
<1>8. CASE ArmReport
  <2>1. /\ main = "arm report" /\ main' = "note report"
        /\ UNCHANGED <<setting, step, event>>
    BY <1>8 DEF ArmReport
  <2>2. PICK t : t.kind = "report" /\ Coming' = Coming \cup {t}
    BY <1>8, ArmedByStart
  <2>3. Reports' = Reports \cup {t} /\ t \in Coming'
    BY <2>2 DEF Reports
  <2>4. setting.radiometric => Reports' = {t} /\ ~ArmingReport'
    BY <2>1, <2>3 DEF ReportOnce, ArmingReport
  <2> QED
    BY <2>1, <2>3, <2>4 DEF ReportOnce
<1>9. CASE \E t \in armed : TimerFires(t)
  <2> PICK t \in armed : TimerFires(t)
    BY <1>9
  <2>1. UNCHANGED <<setting, main, step, event>>
    BY DEF TimerFires
  <2>2. CASE main = "closed"
    BY <2>1, <2>2 DEF ReportOnce
  <2>3. CASE main # "closed"
    <3>1. Coming' = Coming
      BY <2>3, Fired
    <3> QED
      BY <2>1, <3>1 DEF ReportOnce, ArmingReport, Reports
  <2> QED
    BY <2>2, <2>3
<1>10. CASE DriveTransmit \/ DriveFindsNothing \/ SendPacket \/ ScheduleTransmit
            \/ NoteTimer
  <2>1. Reports' = Reports
    BY <1>10, ComingSame DEF DriveTransmit, DriveFindsNothing, SendPacket,
       ScheduleTransmit, NoteTimer, Reports
  <2>2. /\ UNCHANGED <<setting, main>> /\ ~ArmingReport /\ ~ArmingReport'
    BY <1>10 DEF DriveTransmit, DriveFindsNothing, SendPacket, ScheduleTransmit,
       NoteTimer, ArmingReport, Superseded
  <2> QED
    BY <2>1, <2>2 DEF ReportOnce, Reports
<1>11. CASE StartFails \/ CloseQueue \/ Stop
  <2>1. main' \in {"cancel", "closed"}
    BY <1>11 DEF StartFails, CloseQueue, Stop
  <2> QED
    BY <2>1 DEF ReportOnce
<1>12. CASE Start \/ GrantAtStart \/ NoteReport
  <2>1. Reports' = Reports
    BY <1>12, ComingSame DEF Start, GrantAtStart, NoteReport, Reports
  <2>2. UNCHANGED <<setting, step, event>>
    BY <1>12 DEF Start, GrantAtStart, NoteReport
  <2>3. setting.radiometric => \/ {main, main'} \subseteq {"new", "grant", "arm report"}
                               \/ {main, main'} \subseteq {"note report", "running"}
    BY <1>12 DEF Start, GrantAtStart, NoteReport
  <2> QED
    BY <2>1, <2>2, <2>3 DEF ReportOnce, ArmingReport, Reports
<1>13. CASE RefuseDownstream \/ Tick \/ UNCHANGED vars
  <2>1. Reports' = Reports
    BY <1>13, ComingSame DEF RefuseDownstream, Tick, vars, Reports
  <2>2. UNCHANGED <<setting, main, step, event>>
    BY <1>13 DEF RefuseDownstream, Tick, vars
  <2> QED
    BY <2>1, <2>2 DEF ReportOnce, ArmingReport, Reports
<1> QED
  BY <1>1, <1>2, <1>3, <1>4, <1>5, <1>6, <1>7, <1>8, <1>9, <1>10, <1>11, <1>12, <1>13
     DEF Next, WorkerStep, Packet, MainStep

-----------------------------------------------------------------------------
(***************************************************************************)
(* The theorems.                                                           *)
(***************************************************************************)
(* Every step keeps the inductive invariant.                               *)
LEMMA NextIInv == IInv /\ [Next]_vars => IInv'
  BY TypesKept, MainKept, TokensKept, QueueOrderKept, SentOrderKept, DistinctKept,
     WakeupKept, ReceptionsKept, ReportKept
     DEF IInv

(* The inductive invariant holds in every state of the MAC, whatever the   *)
(* configuration, the packets, their delays and their air times are.       *)
THEOREM Invariance == Spec => []IInv
  BY InitIInv, NextIInv, PTL DEF Spec

(* The state is well formed: the queue is never longer than its capacity,  *)
(* and the token counts never exceed what was configured.                  *)
THEOREM Typed == Spec => []TypeOK
<1>1. IInv => TypeOK
  BY DEF IInv
<1> QED
  BY <1>1, Invariance, PTL

(* process_downstream, drive_transmit, start and stop never lose a token   *)
(* or make one up: what is available and what the queue holds make up the  *)
(* configured number, even when a full queue loses its oldest packet.      *)
THEOREM TokensConserved == Spec => []TokensAccounted
<1>1. IInv => TokensAccounted
  BY DEF IInv
<1> QED
  BY <1>1, Invariance, PTL

(* drive_transmit never decides on a transmission before the end set for   *)
(* the one before it: as send_packet stamps them, one reaches into the     *)
(* next by no more than its own stamp was late.  Packets leave in the      *)
(* order they came, whatever their delays are.                             *)
THEOREM MediumCarriesOne == Spec => []OneAtATime
<1>1. IInv => OneAtATime
  BY DEF IInv, SentInOrder
<1> QED
  BY <1>1, Invariance, PTL

(* No interleaving of the worker, the timer thread, start and stop loses   *)
(* the wakeup that waiting packets need, the end of a reception or the     *)
(* report timer, and none passes a reception up twice.                     *)
THEOREM NoTimerIsLost == Spec => []TimersComing
<1>1. ASSUME IInv PROVE TimersComing
  <2> USE <1>1 DEF IInv
  <2>1. step = "idle" => \A kind, data : ~Arming(kind, data)
    BY DEF Arming
  <2>2. ASSUME started, queue # <<>>, step = "idle"
        PROVE  /\ \E t \in Coming : t.kind = "transmit" /\ t.data = next_transmit_wakeup
               /\ ~overflowed =>
                    next_transmit_wakeup
                      <= Later(Later(Head(queue).ready_at, current_end_of_transmission), seen)
    BY <2>1, <2>2 DEF WakeupKnown, Wakeup, Due
  <2>3. ASSUME started, step = "idle", NEW r \in pending_receptions
        PROVE  \E t \in Coming : t.kind = "receive" /\ t.data = r
    BY <2>1, <2>3 DEF ReceptionsKnown, Wakeup
  <2>4. \A i, j \in 1..Len(delivered) : delivered[i] = delivered[j] => i = j
    BY DEF ReceptionsKnown
  <2>5. ASSUME setting.radiometric, main = "running", step = "idle"
        PROVE  Cardinality({t \in Coming : t.kind = "report"}) = 1
    <3>1. PICK t : Reports = {t}
      BY <2>5 DEF ReportOnce, ArmingReport
    <3>2. Cardinality({t}) = 1
      BY FS_Singleton
    <3> QED
      BY <3>1, <3>2 DEF Reports
  <2>6. main \in {"cancel", "closed"} => queue = <<>> /\ next_transmit_wakeup = 0
    BY DEF MainAgrees
  <2> QED
    BY <2>2, <2>3, <2>4, <2>5, <2>6 DEF TimersComing
<1> QED
  BY <1>1, Invariance, PTL
-----------------------------------------------------------------------------
(***************************************************************************)
(* The IEEE 802.11abg model.                                               *)
(***************************************************************************)
WifiPackets ==
    [id : Nat, category : Int, unicast : BOOLEAN, acquired_at : Nat,
     phase : {"Idle", "Pre", "Post"}, ready_at : Nat, post_delay : Nat,
     collision : BOOLEAN, retries : Nat, sequence : Int]

WifiTypes ==
    /\ W!ConstantsOK /\ chosen \in WifiSettings /\ clock \in Nat /\ up \in BOOLEAN
    /\ lives \in Nat /\ tokens \in Int /\ sequence \in Nat /\ next_wakeup \in Nat
    /\ offered \in Nat /\ place \in {"idle", "expire", "loop", "schedule"}
    /\ queues \in [W!Categories -> Seq(WifiPackets)]
    /\ \A c \in W!Categories : Len(queues[c]) <= chosen.depth
    /\ IsFiniteSet(W!Places)
    /\ active_tx = {} \/ \E p \in WifiPackets : active_tx = {p}

(* A station that is not started holds nothing. *)
WifiDown ==
    ~up => /\ place = "idle" /\ active_tx = {} /\ wakeups = {} /\ pending_rx = {}
           /\ \A c \in W!Categories : queues[c] = <<>>

(* TokensAccounted also holds inside a call. *)
WifiTokens == up /\ chosen.flow => tokens + W!InMac = chosen.tokens

(* The wakeup expected is armed. *)
WifiWoken == W!WakeupComing /\ (next_wakeup # 0 => next_wakeup \in wakeups)

(* A station never started has heard nobody. *)
WifiKnown ==
    /\ W!NeighborsPublished
    /\ up => lives >= 1
    /\ lives = 0 => \A s \in W!Stations : DOMAIN channel_activity[s] = {}
    /\ DOMAIN channel_activity = W!Stations
    /\ DOMAIN rows = W!Stations /\ DOMAIN published = W!Stations

WifiInv == WifiTypes /\ WifiDown /\ WifiTokens /\ WifiWoken /\ WifiKnown

(* The two names of Cardinality are one operator. *)
LEMMA WifiCount == \A S : W!Cardinality(S) = Cardinality(S)
  BY DEF W!Cardinality, Cardinality

(* What the assumption says of the setting. *)
LEMMA WifiSettingFacts ==
  ASSUME WifiTypes
  PROVE  /\ chosen.categories \in Nat /\ chosen.tokens \in Nat /\ chosen.depth \in Nat
         /\ chosen.flow \in BOOLEAN /\ W!Categories \subseteq Nat
         /\ PreDelays \subseteq Nat /\ PostDelays \subseteq Nat /\ AirTimes \subseteq Nat
  BY DEF WifiTypes, W!ConstantsOK, W!Categories

(* Each place in a queue is a pair. *)
LEMMA WifiPlaces ==
  /\ \A x : x \in W!Places <=> \E d \in W!Categories : \E j \in 1..Len(queues[d]) : x = <<d, j>>
  /\ \A x : x \in W!Places' <=>
              \E d \in W!Categories' : \E j \in 1..Len(queues'[d]) : x = <<d, j>>
  BY DEF W!Places

(* One packet more waits. *)
LEMMA WifiOneMore ==
  ASSUME IsFiniteSet(W!Places), UNCHANGED chosen, NEW c \in W!Categories,
         Len(queues[c]) \in Nat, Len(queues'[c]) = Len(queues[c]) + 1,
         \A d \in W!Categories : d # c => Len(queues'[d]) = Len(queues[d])
  PROVE  IsFiniteSet(W!Places') /\ Cardinality(W!Places') = Cardinality(W!Places) + 1
<1>1. W!Places' = W!Places \cup {<<c, Len(queues[c]) + 1>>}
  <2>1. ASSUME NEW x
        PROVE  x \in W!Places' <=> x \in W!Places \/ x = <<c, Len(queues[c]) + 1>>
    <3>1. W!Categories' = W!Categories
      BY DEF W!Categories
    <3>2. 1..Len(queues'[c]) = (1..Len(queues[c])) \cup {Len(queues[c]) + 1}
      OBVIOUS
    <3> QED
      BY <3>1, <3>2, WifiPlaces
  <2> QED
    BY <2>1
<1>2. <<c, Len(queues[c]) + 1>> \notin W!Places
  BY WifiPlaces
<1> QED
  BY <1>1, <1>2, FS_AddElement

(* One packet less waits. *)
LEMMA WifiOneLess ==
  ASSUME IsFiniteSet(W!Places), UNCHANGED chosen, NEW c \in W!Categories,
         Len(queues[c]) \in Nat \ {0}, Len(queues'[c]) = Len(queues[c]) - 1,
         \A d \in W!Categories : d # c => Len(queues'[d]) = Len(queues[d])
  PROVE  /\ IsFiniteSet(W!Places') /\ Cardinality(W!Places') = Cardinality(W!Places) - 1
         /\ Cardinality(W!Places) \in Nat \ {0}
<1>1. W!Places' = W!Places \ {<<c, Len(queues[c])>>}
  <2>1. ASSUME NEW x
        PROVE  x \in W!Places' <=> x \in W!Places /\ x # <<c, Len(queues[c])>>
    <3>1. W!Categories' = W!Categories
      BY DEF W!Categories
    <3>2. 1..Len(queues'[c]) = (1..Len(queues[c])) \ {Len(queues[c])}
      OBVIOUS
    <3> QED
      BY <3>1, <3>2, WifiPlaces
  <2> QED
    BY <2>1
<1>2. <<c, Len(queues[c])>> \in W!Places
  BY WifiPlaces
<1>3. Cardinality(W!Places) \in Nat /\ Cardinality(W!Places) # 0
  BY <1>2, FS_CardinalityType, FS_EmptySet
<1> QED
  BY <1>1, <1>2, <1>3, FS_RemoveElement

(* As many wait in each queue. *)
LEMMA WifiAsMany ==
  ASSUME UNCHANGED chosen, \A d \in W!Categories : Len(queues'[d]) = Len(queues[d])
  PROVE  W!Places' = W!Places
<1>1. W!Categories' = W!Categories
  BY DEF W!Categories
<1>2. \A x : x \in W!Places' <=> x \in W!Places
  BY <1>1, WifiPlaces
<1> QED
  BY <1>2

(* The packets in the MAC are counted. *)
LEMMA WifiInMac ==
  /\ W!InMac = Cardinality(active_tx) + Cardinality(W!Places)
  /\ W!InMac' = Cardinality(active_tx') + Cardinality(W!Places')
  /\ Cardinality({}) = 0
  /\ \A p : Cardinality({p}) = 1
<1>1. Cardinality({}) = 0 /\ \A p : Cardinality({p}) = 1
  BY FS_EmptySet, FS_Singleton
<1> QED
  BY <1>1, WifiCount DEF W!InMac

(* A queue without its head. *)
LEMMA WifiTail ==
  ASSUME WifiTypes, UNCHANGED chosen, NEW c \in W!Categories, queues[c] # <<>>,
         queues' = [queues EXCEPT ![c] = Tail(@)]
  PROVE  /\ queues' \in [W!Categories' -> Seq(WifiPackets)]
         /\ \A d \in W!Categories' : Len(queues'[d]) <= chosen'.depth
         /\ IsFiniteSet(W!Places') /\ Cardinality(W!Places') = Cardinality(W!Places) - 1
         /\ Cardinality(W!Places) \in Nat \ {0}
         /\ Head(queues[c]) \in WifiPackets
<1>1. queues \in [W!Categories -> Seq(WifiPackets)] /\ queues[c] \in Seq(WifiPackets)
      /\ chosen.depth \in Nat
  BY WifiSettingFacts DEF WifiTypes
<1>2. /\ Tail(queues[c]) \in Seq(WifiPackets) /\ Head(queues[c]) \in WifiPackets
      /\ Len(Tail(queues[c])) = Len(queues[c]) - 1 /\ Len(queues[c]) \in Nat \ {0}
  BY <1>1, HeadTailProperties, LenProperties, EmptySeq
<1>3. W!Categories' = W!Categories
  BY DEF W!Categories
<1>4. queues' \in [W!Categories -> Seq(WifiPackets)]
  BY <1>1, <1>2
<1>5. queues'[c] = Tail(queues[c]) /\ \A d \in W!Categories : d # c => queues'[d] = queues[d]
  BY <1>1
<1>6. \A d \in W!Categories : Len(queues'[d]) <= chosen.depth
  BY <1>1, <1>2, <1>5 DEF WifiTypes
<1>7. /\ IsFiniteSet(W!Places') /\ Cardinality(W!Places') = Cardinality(W!Places) - 1
      /\ Cardinality(W!Places) \in Nat \ {0}
  BY <1>2, <1>5, WifiOneLess DEF WifiTypes
<1> QED
  BY <1>2, <1>3, <1>4, <1>6, <1>7

-----------------------------------------------------------------------------
(* Each step of the sender keeps what is known of the neighbours, and each *)
(* step of the receiver what is known of the sender.                       *)
LEMMA WifiSenderKnows ==
  ASSUME WifiKnown, UNCHANGED <<channel_activity, rows, published>>,
         UNCHANGED <<up, lives>>
  PROVE  WifiKnown'
  BY DEF WifiKnown, W!NeighborsPublished

(* A step that leaves the sender alone. *)
LEMMA WifiSenderKept ==
  ASSUME WifiInv, UNCHANGED <<chosen, W!sender>>, clock' \in Nat, clock <= clock',
         up \/ pending_rx' = {}
  PROVE  WifiTypes' /\ WifiDown' /\ WifiTokens' /\ WifiWoken'
<1>0. WifiTypes /\ WifiDown /\ WifiTokens /\ WifiWoken
  BY DEF WifiInv
<1>1. /\ UNCHANGED <<up, lives, tokens, queues, active_tx, sequence, next_wakeup, wakeups,
                     place, offered>>
      /\ W!Categories' = W!Categories
  BY DEF W!sender, W!Categories
<1>2. W!Places' = W!Places
  BY <1>1, WifiAsMany
<1>3. WifiTypes'
  BY <1>0, <1>1, <1>2 DEF WifiTypes, W!ConstantsOK
<1>4. WifiDown'
  BY <1>0, <1>1 DEF WifiDown
<1>5. WifiTokens'
  BY <1>0, <1>1, <1>2, WifiInMac DEF WifiTokens
<1>6. WifiWoken'
  <2>1. \A p \in active_tx : p.ready_at \in Nat
    BY <1>0 DEF WifiTypes, WifiPackets
  <2>2. clock \in Nat /\ next_wakeup \in Nat
    BY <1>0 DEF WifiTypes
  <2> QED
    BY <1>0, <1>1, <2>1, <2>2 DEF WifiWoken, W!WakeupComing
<1> QED
  BY <1>3, <1>4, <1>5, <1>6

-----------------------------------------------------------------------------
(* Start. *)
LEMMA WifiStart ==
  ASSUME WifiInv, W!Start
  PROVE  WifiInv'
<1>0. WifiTypes /\ WifiDown /\ WifiTokens /\ WifiWoken /\ WifiKnown
  BY DEF WifiInv
<1>1. /\ place = "idle" /\ up = FALSE /\ up' = TRUE /\ lives' = lives + 1
      /\ tokens' = chosen.tokens /\ channel_activity' = [s \in W!Stations |-> W!Empty]
      /\ UNCHANGED <<clock, chosen, queues, active_tx, sequence, next_wakeup, wakeups, place,
                     offered, published, rows>>
  BY <1>0 DEF W!Start, WifiTypes
<1>2. W!Categories' = W!Categories
  BY <1>1 DEF W!Categories
<1>3. W!Places' = W!Places
  BY <1>1, WifiAsMany
<1>4. WifiTypes'
  BY <1>0, <1>1, <1>2, <1>3, WifiSettingFacts DEF WifiTypes, W!ConstantsOK
<1>5. WifiDown' /\ WifiWoken'
  BY <1>0, <1>1 DEF WifiDown, WifiWoken, W!WakeupComing
<1>6. WifiTokens'
  <2>1. active_tx = {} /\ \A c \in W!Categories : queues[c] = <<>>
    BY <1>0, <1>1 DEF WifiDown
  <2>2. W!Places = {}
    <3>1. \A c \in W!Categories : Len(queues[c]) = 0
      BY <2>1
    <3> QED
      BY <3>1, WifiPlaces
  <2>3. W!InMac' = 0 + 0
    <3>1. active_tx' = {} /\ W!Places' = {}
      BY <1>1, <1>3, <2>1, <2>2
    <3> QED
      BY <3>1, WifiInMac
  <2>4. chosen.tokens \in Nat
    BY <1>0, WifiSettingFacts
  <2> QED
    BY <1>1, <2>3, <2>4 DEF WifiTokens
<1>7. WifiKnown'
  <2>1. \A s \in W!Stations : DOMAIN channel_activity'[s] = {}
    BY <1>1 DEF W!Empty
  <2>2. lives \in Nat
    BY <1>0 DEF WifiTypes
  <2>3. lives' < 2 => lives = 0
    BY <1>1, <2>2
  <2>4. lives = 0 => \A s \in W!Stations : published[s] = {} /\ rows[s] = {}
    BY <1>0 DEF WifiKnown, W!NeighborsPublished
  <2>5. /\ DOMAIN channel_activity' = W!Stations
        /\ DOMAIN rows' = W!Stations /\ DOMAIN published' = W!Stations
    BY <1>0, <1>1 DEF WifiKnown
  <2>6. ASSUME NEW s \in W!Stations
        PROVE  /\ DOMAIN channel_activity'[s] \subseteq rows'[s]
               /\ lives' < 2 => published'[s] = DOMAIN channel_activity'[s] /\ rows'[s] = published'[s]
    BY <1>1, <2>1, <2>3, <2>4
  <2>7. W!NeighborsPublished'
    BY <2>6 DEF W!NeighborsPublished
  <2>8. lives' >= 1 /\ lives' # 0
    BY <1>1, <2>2
  <2> QED
    BY <2>5, <2>7, <2>8 DEF WifiKnown
<1> QED
  BY <1>4, <1>5, <1>6, <1>7 DEF WifiInv

(* Stop. *)
LEMMA WifiStop ==
  ASSUME WifiInv, W!Stop
  PROVE  WifiInv'
<1>0. WifiTypes /\ WifiDown /\ WifiTokens /\ WifiWoken /\ WifiKnown
  BY DEF WifiInv
<1>1. /\ place = "idle" /\ up' = FALSE /\ queues' = [c \in W!Categories |-> <<>>]
      /\ active_tx' = {} /\ pending_rx' = {} /\ next_wakeup' = 0 /\ wakeups' = {}
      /\ UNCHANGED <<clock, chosen, lives, tokens, sequence, place, offered, published, rows,
                     channel_activity>>
  BY DEF W!Stop, W!neighbours
<1>2. W!Categories' = W!Categories
  BY <1>1 DEF W!Categories
<1>3. \A c \in W!Categories : queues'[c] = <<>> /\ Len(queues'[c]) = 0
  BY <1>1
<1>4. W!Places' = {}
  BY <1>2, <1>3, WifiPlaces
<1>5. queues' \in [W!Categories' -> Seq(WifiPackets)]
  BY <1>1, <1>2
<1>6. WifiTypes'
  <2>1. IsFiniteSet(W!Places')
    BY <1>4, FS_EmptySet
  <2>2. \A c \in W!Categories' : Len(queues'[c]) <= chosen'.depth
    BY <1>0, <1>1, <1>2, <1>3, WifiSettingFacts
  <2> QED
    BY <1>0, <1>1, <1>5, <2>1, <2>2 DEF WifiTypes, W!ConstantsOK
<1>7. WifiDown' /\ WifiTokens' /\ WifiWoken'
  BY <1>1, <1>2, <1>3 DEF WifiDown, WifiTokens, WifiWoken, W!WakeupComing
<1>8. WifiKnown'
  BY <1>0, <1>1 DEF WifiKnown, W!NeighborsPublished
<1> QED
  BY <1>6, <1>7, <1>8 DEF WifiInv

(* A packet comes from above; a full queue loses its oldest. *)
LEMMA WifiAccept ==
  ASSUME WifiInv, NEW c \in W!Categories, NEW unicast \in BOOLEAN,
         W!AcceptDownstream(c, unicast)
  PROVE  WifiInv'
<1>0. WifiTypes /\ WifiDown /\ WifiTokens /\ WifiWoken /\ WifiKnown
  BY DEF WifiInv
<1> DEFINE packet == [id |-> offered + 1, category |-> c, unicast |-> unicast,
                      acquired_at |-> clock, phase |-> "Idle", ready_at |-> clock,
                      post_delay |-> 0, collision |-> FALSE, retries |-> 0,
                      sequence |-> -1]
           room == W!MakeRoom(queues[c])
<1>1. /\ place = "idle" /\ up /\ chosen.depth > 0 /\ offered' = offered + 1
      /\ queues' = [queues EXCEPT ![c] = Append(room[1], packet)]
      /\ tokens' = IF chosen.flow THEN W!Credited(tokens - 1, room[2]) ELSE tokens
      /\ place' = "expire"
      /\ UNCHANGED <<clock, chosen, up, lives, active_tx, sequence, next_wakeup, wakeups>>
      /\ UNCHANGED <<W!neighbours, W!receiver>>
  BY DEF W!AcceptDownstream, W!Admits, W!FlowControl
<1>2. /\ chosen.depth \in Nat \ {0} /\ chosen.tokens \in Nat /\ W!Categories \subseteq Nat
      /\ W!Categories' = W!Categories /\ chosen.flow \in BOOLEAN
  BY <1>0, <1>1, WifiSettingFacts DEF W!Categories
<1>3. /\ queues \in [W!Categories -> Seq(WifiPackets)] /\ queues[c] \in Seq(WifiPackets)
      /\ Len(queues[c]) \in Nat /\ Len(queues[c]) <= chosen.depth
      /\ packet \in WifiPackets /\ tokens \in Int
  BY <1>0, <1>2, LenProperties DEF WifiTypes, WifiPackets
<1>4. /\ room[1] \in Seq(WifiPackets)
      /\ \/ room[2] = 0 /\ Len(room[1]) = Len(queues[c]) /\ Len(queues[c]) < chosen.depth
         \/ /\ room[2] = 1 /\ Len(room[1]) = Len(queues[c]) - 1
            /\ Len(queues[c]) = chosen.depth
  <2>1. CASE Len(queues[c]) < chosen.depth
    BY <1>3, <2>1 DEF W!MakeRoom
  <2>2. CASE Len(queues[c]) = chosen.depth
    <3>1. /\ room[1] = SubSeq(queues[c], 2, Len(queues[c])) /\ room[2] = 1
      BY <1>2, <1>3, <2>2 DEF W!MakeRoom
    <3>2. /\ SubSeq(queues[c], 2, Len(queues[c])) \in Seq(WifiPackets)
          /\ Len(SubSeq(queues[c], 2, Len(queues[c]))) = Len(queues[c]) - 1
      BY <1>2, <1>3, <2>2, SubSeqProperties
    <3> QED
      BY <2>2, <3>1, <3>2
  <2> QED
    BY <1>2, <1>3, <2>1, <2>2
<1>5. /\ Append(room[1], packet) \in Seq(WifiPackets)
      /\ Len(Append(room[1], packet)) = Len(room[1]) + 1
  BY <1>3, <1>4, AppendProperties
<1>6. /\ queues' \in [W!Categories -> Seq(WifiPackets)]
      /\ queues'[c] = Append(room[1], packet)
      /\ \A d \in W!Categories : d # c => queues'[d] = queues[d]
  BY <1>1, <1>3, <1>5
<1>7. \A d \in W!Categories : Len(queues'[d]) <= chosen.depth
  <2>1. Len(queues'[c]) <= chosen.depth
    BY <1>2, <1>3, <1>4, <1>5, <1>6
  <2>2. \A d \in W!Categories : d # c => Len(queues'[d]) <= chosen.depth
    BY <1>0, <1>6 DEF WifiTypes
  <2> QED
    BY <2>1, <2>2
<1>8. /\ IsFiniteSet(W!Places')
      /\ Cardinality(W!Places') = Cardinality(W!Places) + 1 - room[2]
  <2>1. IsFiniteSet(W!Places) /\ Cardinality(W!Places) \in Nat
    BY <1>0, FS_CardinalityType DEF WifiTypes
  <2>2. CASE room[2] = 0
    BY <1>1, <1>3, <1>4, <1>5, <1>6, <2>1, <2>2, WifiOneMore
  <2>3. CASE room[2] = 1
    <3>1. Len(queues'[c]) = Len(queues[c])
      BY <1>3, <1>4, <1>5, <1>6, <2>3
    <3>2. W!Places' = W!Places
      BY <1>1, <1>6, <3>1, WifiAsMany
    <3> QED
      BY <2>1, <2>3, <3>2
  <2> QED
    BY <1>4, <2>2, <2>3
<1>9. WifiTokens'
  <2>1. ASSUME chosen.flow PROVE tokens' + W!InMac' = chosen.tokens
    <3>1. tokens + W!InMac = chosen.tokens
      BY <1>0, <1>1, <2>1 DEF WifiTokens
    <3>2. Cardinality(active_tx) \in Nat /\ Cardinality(W!Places) \in Nat
      <4>1. Cardinality(W!Places) \in Nat
        BY <1>0, FS_CardinalityType DEF WifiTypes
      <4>2. Cardinality(active_tx) \in {0, 1}
        BY <1>0, WifiInMac DEF WifiTypes
      <4> QED
        BY <4>1, <4>2
    <3>3. tokens' = tokens - 1 + room[2]
      <4>1. tokens - 1 + room[2] <= chosen.tokens
        BY <1>2, <1>3, <1>4, <3>1, <3>2, WifiInMac
      <4> QED
        BY <1>1, <1>2, <1>3, <1>4, <2>1, <4>1 DEF W!Credited, W!FlowControl
    <3>4. W!InMac' = Cardinality(active_tx) + Cardinality(W!Places')
      BY <1>1, WifiInMac
    <3>5. W!InMac = Cardinality(active_tx) + Cardinality(W!Places)
      BY WifiInMac
    <3>6. room[2] \in {0, 1}
      BY <1>4
    <3>7. Cardinality(W!Places') = Cardinality(W!Places) + 1 - room[2] /\ tokens \in Int
      BY <1>3, <1>8
    <3>8. \A t, r \in Int : \A a, k \in Nat :
            (t - 1 + r) + (a + (k + 1 - r)) = t + (a + k)
      OBVIOUS
    <3> HIDE DEF room, packet
    <3>9. tokens' + W!InMac' = tokens + W!InMac
      BY <3>2, <3>3, <3>4, <3>5, <3>6, <3>7, <3>8
    <3> QED
      BY <3>1, <3>9
  <2> QED
    BY <1>1, <2>1 DEF WifiTokens
<1>10. tokens' \in Int
  BY <1>1, <1>2, <1>3, <1>4 DEF W!Credited
<1>11. WifiTypes'
  <2>1. offered' \in Nat
    BY <1>0, <1>1 DEF WifiTypes
  <2> QED
    BY <1>0, <1>1, <1>2, <1>6, <1>7, <1>8, <1>10, <2>1 DEF WifiTypes, W!ConstantsOK
<1>12. WifiDown' /\ WifiWoken'
  BY <1>0, <1>1 DEF WifiDown, WifiWoken, W!WakeupComing
<1>13. WifiKnown'
  BY <1>0, <1>1, WifiSenderKnows DEF W!neighbours
<1> QED
  BY <1>9, <1>11, <1>12, <1>13 DEF WifiInv

(* A token comes back for a packet that left the MAC. *)
LEMMA WifiTokenBack ==
  ASSUME WifiTypes, WifiTokens, UNCHANGED <<chosen, up>>, up,
         tokens' = W!Credited(tokens, 1), W!InMac \in Nat \ {0}, W!InMac' = W!InMac - 1
  PROVE  WifiTokens' /\ tokens' \in Int
<1>1. chosen.tokens \in Nat /\ tokens \in Int /\ chosen.flow \in BOOLEAN
  BY WifiSettingFacts DEF WifiTypes
<1>2. tokens' \in Int
  BY <1>1 DEF W!Credited
<1>3. ASSUME chosen.flow PROVE tokens' + W!InMac' = chosen.tokens
  <2>1. tokens + W!InMac = chosen.tokens
    BY <1>3 DEF WifiTokens
  <2>2. tokens' = tokens + 1
    BY <1>1, <1>3, <2>1 DEF W!Credited, W!FlowControl
  <2> QED
    BY <1>1, <2>1, <2>2
<1> QED
  BY <1>2, <1>3 DEF WifiTokens

(* The head of a queue has expired. *)
LEMMA WifiExpire ==
  ASSUME WifiInv, NEW c \in W!Categories, W!ExpireHead(c)
  PROVE  WifiInv'
<1>0. WifiTypes /\ WifiDown /\ WifiTokens /\ WifiWoken /\ WifiKnown
  BY DEF WifiInv
<1>1. /\ place = "expire" /\ queues[c] # <<>> /\ queues' = [queues EXCEPT ![c] = Tail(@)]
      /\ tokens' = W!Credited(tokens, 1)
      /\ UNCHANGED <<clock, chosen, up, lives, active_tx, sequence, next_wakeup, wakeups, place,
                     offered>>
      /\ UNCHANGED <<W!neighbours, W!receiver>>
  BY DEF W!ExpireHead, W!HeadExpired
<1>2. up
  BY <1>0, <1>1 DEF WifiDown
<1>3. /\ queues' \in [W!Categories' -> Seq(WifiPackets)]
      /\ \A d \in W!Categories' : Len(queues'[d]) <= chosen'.depth
      /\ IsFiniteSet(W!Places') /\ Cardinality(W!Places') = Cardinality(W!Places) - 1
      /\ Cardinality(W!Places) \in Nat \ {0}
  BY <1>0, <1>1, WifiTail
<1>4. W!InMac \in Nat \ {0} /\ W!InMac' = W!InMac - 1
  <2>1. Cardinality(active_tx) \in {0, 1}
    BY <1>0, WifiInMac DEF WifiTypes
  <2>2. /\ W!InMac = Cardinality(active_tx) + Cardinality(W!Places)
        /\ W!InMac' = Cardinality(active_tx) + Cardinality(W!Places')
    BY <1>1, WifiInMac
  <2> QED
    BY <1>3, <2>1, <2>2
<1>5. WifiTokens' /\ tokens' \in Int
  BY <1>0, <1>1, <1>2, <1>4, WifiTokenBack
<1>6. WifiTypes'
  BY <1>0, <1>1, <1>3, <1>5 DEF WifiTypes, W!ConstantsOK
<1>7. WifiDown' /\ WifiWoken'
  BY <1>0, <1>1, <1>2 DEF WifiDown, WifiWoken, W!WakeupComing
<1>8. WifiKnown'
  BY <1>0, <1>1, WifiSenderKnows DEF W!neighbours
<1> QED
  BY <1>5, <1>6, <1>7, <1>8 DEF WifiInv

(* Steps that only move the call or the wakeups, or refuse a packet. *)
LEMMA WifiQuiet ==
  ASSUME WifiInv, W!NoneExpired \/ W!RefuseDownstream \/ W!ScheduleTransmit \/ W!TransmitWakeup
  PROVE  WifiInv'
<1>0. WifiTypes /\ WifiDown /\ WifiTokens /\ WifiWoken /\ WifiKnown
  BY DEF WifiInv
<1>1. /\ UNCHANGED <<clock, chosen, up, lives, tokens, queues, active_tx, sequence>>
      /\ UNCHANGED <<W!neighbours, W!receiver>>
      /\ offered' \in Nat /\ place' \in {"idle", "expire", "loop", "schedule"}
  BY <1>0 DEF W!NoneExpired, W!RefuseDownstream, W!ScheduleTransmit, W!TransmitWakeup, WifiTypes
<1>2. W!Places' = W!Places /\ W!Categories' = W!Categories
  BY <1>1, WifiAsMany DEF W!Categories
<1>3. \A p \in active_tx : p.ready_at \in Nat
  BY <1>0 DEF WifiTypes, WifiPackets
<1>4. WifiTokens'
  BY <1>0, <1>1, <1>2, WifiInMac DEF WifiTokens
<1>5. WifiKnown'
  BY <1>0, <1>1, WifiSenderKnows DEF W!neighbours
<1>6. /\ next_wakeup' \in Nat /\ WifiWoken'
      /\ ~up => place' = "idle" /\ wakeups' = {}
  <2>1. ~up => place = "idle" /\ active_tx = {} /\ wakeups = {}
    BY <1>0 DEF WifiDown
  <2>2. next_wakeup \in Nat /\ clock \in Nat
    BY <1>0 DEF WifiTypes
  <2>3. CASE W!NoneExpired \/ W!RefuseDownstream
    BY <1>0, <1>1, <2>1, <2>2, <2>3
    DEF W!NoneExpired, W!RefuseDownstream, WifiWoken, W!WakeupComing
  <2>4. CASE W!ScheduleTransmit
    <3>1. CASE active_tx = {}
      BY <1>0, <1>1, <2>1, <2>2, <2>4, <3>1 DEF W!ScheduleTransmit, WifiWoken, W!WakeupComing
    <3>2. CASE active_tx # {}
      <4>1. PICK p \in WifiPackets : active_tx = {p}
        BY <1>0, <3>2 DEF WifiTypes
      <4>2. (CHOOSE q \in active_tx : TRUE) = p
        BY <4>1
      <4>3. p.ready_at \in Nat
        BY <1>3, <4>1
      <4>4. \/ /\ next_wakeup # 0 /\ next_wakeup <= p.ready_at
               /\ next_wakeup' = next_wakeup /\ wakeups' = wakeups
            \/ next_wakeup' = p.ready_at /\ wakeups' = wakeups \cup {p.ready_at}
        BY <2>4, <3>2, <4>2 DEF W!ScheduleTransmit
      <4> QED
        BY <1>0, <1>1, <2>1, <2>2, <3>2, <4>1, <4>3, <4>4 DEF WifiWoken, W!WakeupComing
    <3> QED
      BY <3>1, <3>2
  <2>5. CASE W!TransmitWakeup
    <3>1. PICK t \in wakeups :
            /\ wakeups' = wakeups \ {t}
            /\ IF t = next_wakeup THEN next_wakeup' = 0 /\ place' = "expire"
               ELSE UNCHANGED <<next_wakeup, place>>
      BY <2>5 DEF W!TransmitWakeup
    <3>2. up /\ place = "idle"
      BY <2>1, <2>5, <3>1 DEF W!TransmitWakeup
    <3> QED
      BY <1>0, <1>1, <2>2, <3>1, <3>2 DEF WifiWoken, W!WakeupComing
  <2> QED
    BY <2>3, <2>4, <2>5
<1>7. WifiTypes'
  BY <1>0, <1>1, <1>2, <1>6 DEF WifiTypes, W!ConstantsOK
<1>8. WifiDown'
  BY <1>0, <1>1, <1>2, <1>6 DEF WifiDown, W!receiver
<1> QED
  BY <1>4, <1>5, <1>6, <1>7, <1>8 DEF WifiInv

(* The next packet to work on is chosen. *)
LEMMA WifiSelect ==
  ASSUME WifiInv, W!SelectPacket
  PROVE  WifiInv'
<1>0. WifiTypes /\ WifiDown /\ WifiTokens /\ WifiWoken /\ WifiKnown
  BY DEF WifiInv
<1>1. /\ place = "loop" /\ active_tx = {}
      /\ UNCHANGED <<clock, chosen, up, lives, tokens, sequence, next_wakeup, wakeups, offered>>
      /\ UNCHANGED <<W!neighbours, W!receiver>>
  BY DEF W!SelectPacket
<1>2. up
  BY <1>0, <1>1 DEF WifiDown
<1>3. WifiKnown'
  BY <1>0, <1>1, WifiSenderKnows DEF W!neighbours
<1>4. CASE place' = "schedule" /\ UNCHANGED <<queues, active_tx>>
  <2>1. W!Places' = W!Places /\ W!Categories' = W!Categories
    BY <1>1, <1>4, WifiAsMany DEF W!Categories
  <2>2. WifiTypes' /\ WifiDown' /\ WifiWoken'
    BY <1>0, <1>1, <1>2, <1>4, <2>1
    DEF WifiTypes, WifiDown, WifiWoken, W!WakeupComing, W!ConstantsOK
  <2>3. WifiTokens'
    BY <1>0, <1>1, <1>4, <2>1, WifiInMac DEF WifiTokens
  <2> QED
    BY <1>3, <2>2, <2>3 DEF WifiInv
<1>5. ASSUME NEW c \in W!Categories, queues[c] # <<>>, active_tx' = {Head(queues[c])},
             queues' = [queues EXCEPT ![c] = Tail(@)], UNCHANGED place
      PROVE  WifiInv'
  <2>1. /\ queues' \in [W!Categories' -> Seq(WifiPackets)]
        /\ \A d \in W!Categories' : Len(queues'[d]) <= chosen'.depth
        /\ IsFiniteSet(W!Places') /\ Cardinality(W!Places') = Cardinality(W!Places) - 1
        /\ Cardinality(W!Places) \in Nat \ {0} /\ Head(queues[c]) \in WifiPackets
    BY <1>0, <1>1, <1>5, WifiTail
  <2>2. WifiTypes'
    BY <1>0, <1>1, <1>5, <2>1 DEF WifiTypes, W!ConstantsOK
  <2>3. WifiDown' /\ WifiWoken'
    BY <1>0, <1>1, <1>2, <1>5 DEF WifiDown, WifiWoken, W!WakeupComing
  <2>4. W!InMac = Cardinality(W!Places) /\ W!InMac' = 1 + Cardinality(W!Places')
    <3>1. W!InMac = 0 + Cardinality(W!Places) /\ W!InMac' = 1 + Cardinality(W!Places')
      BY <1>1, <1>5, WifiInMac
    <3> QED
      BY <2>1, <3>1
  <2>5. W!InMac' = W!InMac
    BY <2>1, <2>4
  <2>6. WifiTokens'
    BY <1>0, <1>1, <2>5 DEF WifiTokens
  <2> QED
    BY <1>3, <2>2, <2>3, <2>6 DEF WifiInv
<1> QED
  BY <1>4, <1>5 DEF W!SelectPacket, W!Waiting

(* The packet being worked on leaves the MAC. *)
LEMMA WifiLeaves ==
  ASSUME WifiInv, NEW p \in active_tx, W!Leave(p), up, UNCHANGED <<chosen, up, queues>>
  PROVE  WifiTokens' /\ tokens' \in Int /\ active_tx' = {}
<1>0. WifiTypes /\ WifiTokens
  BY DEF WifiInv
<1>1. active_tx = {p}
  BY <1>0 DEF WifiTypes
<1>2. W!Places' = W!Places /\ Cardinality(W!Places) \in Nat
  BY <1>0, WifiAsMany, FS_CardinalityType DEF WifiTypes
<1>3. W!InMac = 1 + Cardinality(W!Places) /\ W!InMac' = 0 + Cardinality(W!Places)
  BY <1>1, <1>2, WifiInMac DEF W!Leave
<1>4. W!InMac \in Nat \ {0} /\ W!InMac' = W!InMac - 1
  BY <1>2, <1>3
<1> QED
  BY <1>0, <1>4, WifiTokenBack DEF W!Leave

(* A packet whose fields change is a packet. *)
LEMMA WifiChanged ==
  /\ \A p \in WifiPackets, n, m \in Nat, b \in BOOLEAN :
       [p EXCEPT !.phase = "Pre", !.ready_at = n, !.post_delay = m, !.collision = b]
         \in WifiPackets
  /\ \A p \in WifiPackets, n \in Nat, i \in Int :
       [p EXCEPT !.phase = "Post", !.sequence = i, !.ready_at = n] \in WifiPackets
  /\ \A p \in WifiPackets, n \in Nat :
       [p EXCEPT !.retries = n, !.phase = "Idle"] \in WifiPackets
<1>1. ASSUME NEW p \in WifiPackets, NEW n \in Nat, NEW m \in Nat, NEW b \in BOOLEAN
      PROVE  [p EXCEPT !.phase = "Pre", !.ready_at = n, !.post_delay = m, !.collision = b]
               \in WifiPackets
  BY Zenon DEF WifiPackets
<1>2. ASSUME NEW p \in WifiPackets, NEW n \in Nat, NEW i \in Int
      PROVE  [p EXCEPT !.phase = "Post", !.sequence = i, !.ready_at = n] \in WifiPackets
  BY DEF WifiPackets
<1>3. ASSUME NEW p \in WifiPackets, NEW n \in Nat
      PROVE  [p EXCEPT !.retries = n, !.phase = "Idle"] \in WifiPackets
  BY DEF WifiPackets
<1> QED
  BY <1>1, <1>2, <1>3

(* A neighbour is heard, or the station transmits itself. *)
LEMMA WifiHears ==
  ASSUME WifiKnown, NEW s \in W!Stations, NEW source, NEW at, W!NoteOneHop(s, source, at),
         lives # 0, UNCHANGED <<up, lives>>
  PROVE  WifiKnown'
<1>1. /\ DOMAIN channel_activity = W!Stations
      /\ DOMAIN rows = W!Stations /\ DOMAIN published = W!Stations
  BY DEF WifiKnown
<1>2. /\ DOMAIN channel_activity' = W!Stations
      /\ DOMAIN rows' = W!Stations /\ DOMAIN published' = W!Stations
  BY <1>1 DEF W!NoteOneHop, W!Publish
<1>3. /\ DOMAIN channel_activity'[s] = DOMAIN channel_activity[s] \cup {source}
      /\ IF source \in DOMAIN channel_activity[s]
         THEN rows'[s] = rows[s] /\ published'[s] = published[s]
         ELSE rows'[s] = rows[s] \cup {source} /\ published'[s] = DOMAIN channel_activity'[s]
  BY <1>1 DEF W!NoteOneHop, W!Publish
<1>4. \A t \in W!Stations \ {s} :
        /\ channel_activity'[t] = channel_activity[t]
        /\ rows'[t] = rows[t] /\ published'[t] = published[t]
  BY <1>1 DEF W!NoteOneHop, W!Publish
<1>5. ASSUME NEW t \in W!Stations
      PROVE  /\ DOMAIN channel_activity'[t] \subseteq rows'[t]
             /\ lives' < 2 => published'[t] = DOMAIN channel_activity'[t] /\ rows'[t] = published'[t]
  <2>1. /\ DOMAIN channel_activity[t] \subseteq rows[t]
        /\ lives < 2 => published[t] = DOMAIN channel_activity[t] /\ rows[t] = published[t]
    BY DEF WifiKnown, W!NeighborsPublished
  <2>2. CASE t = s
    BY <1>3, <2>1, <2>2
  <2>3. CASE t # s
    BY <1>4, <2>1, <2>3
  <2> QED
    BY <2>2, <2>3
<1> QED
  BY <1>2, <1>5 DEF WifiKnown, W!NeighborsPublished

(* A station forgets those it has not heard for long. *)
LEMMA WifiEstimates ==
  ASSUME WifiKnown, NEW s \in W!Stations, W!EstimateChannel(s), lives # 0, UNCHANGED <<up, lives>>
  PROVE  WifiKnown'
<1> DEFINE removed == DOMAIN channel_activity[s] \ DOMAIN channel_activity'[s]
<1>1. /\ DOMAIN channel_activity = W!Stations
      /\ DOMAIN rows = W!Stations /\ DOMAIN published = W!Stations
  BY DEF WifiKnown
<1>2. /\ DOMAIN channel_activity' = W!Stations
      /\ DOMAIN rows' = W!Stations /\ DOMAIN published' = W!Stations
  BY <1>1 DEF W!EstimateChannel, W!Publish
<1>3. /\ channel_activity'[s] = W!Recent(channel_activity[s]) /\ rows'[s] = rows[s] \ removed
      /\ IF removed = {} THEN published'[s] = published[s]
         ELSE published'[s] = DOMAIN channel_activity'[s]
  BY <1>1 DEF W!EstimateChannel, W!Publish
<1>4. \A t \in W!Stations \ {s} :
        /\ channel_activity'[t] = channel_activity[t]
        /\ rows'[t] = rows[t] /\ published'[t] = published[t]
  BY <1>1 DEF W!EstimateChannel, W!Publish
<1>5. DOMAIN channel_activity'[s] \subseteq DOMAIN channel_activity[s]
  BY <1>3 DEF W!Recent
<1>6. ASSUME NEW t \in W!Stations
      PROVE  /\ DOMAIN channel_activity'[t] \subseteq rows'[t]
             /\ lives' < 2 => published'[t] = DOMAIN channel_activity'[t] /\ rows'[t] = published'[t]
  <2>1. /\ DOMAIN channel_activity[t] \subseteq rows[t]
        /\ lives < 2 => published[t] = DOMAIN channel_activity[t] /\ rows[t] = published[t]
    BY DEF WifiKnown, W!NeighborsPublished
  <2>2. CASE t = s
    BY <1>3, <1>5, <2>1, <2>2
  <2>3. CASE t # s
    BY <1>4, <2>1, <2>3
  <2> QED
    BY <2>2, <2>3
<1> QED
  BY <1>2, <1>6 DEF WifiKnown, W!NeighborsPublished

(* One round of the loop for the packet being worked on. *)
LEMMA WifiWorks ==
  ASSUME WifiInv, NEW p \in active_tx, W!WorkOn(p)
  PROVE  WifiInv'
<1>0. WifiTypes /\ WifiDown /\ WifiTokens /\ WifiWoken /\ WifiKnown
  BY DEF WifiInv
<1>1. /\ place = "loop"
      /\ UNCHANGED <<clock, chosen, up, lives, queues, next_wakeup, wakeups, offered>>
      /\ UNCHANGED W!receiver
  BY DEF W!WorkOn
<1>2. up
  BY <1>0, <1>1 DEF WifiDown
<1>3. WifiKnown'
  <2>1. \/ UNCHANGED <<channel_activity, rows, published>>
        \/ W!NoteOneHop("sender", "sender", clock)
    BY DEF W!WorkOn, W!PhaseIdle, W!PhasePre, W!PhasePost, W!neighbours
  <2>2. lives # 0
    BY <1>0, <1>2 DEF WifiKnown, WifiTypes
  <2>3. "sender" \in W!Stations
    BY DEF W!Stations
  <2> QED
    BY <1>0, <1>1, <2>1, <2>2, <2>3, WifiSenderKnows, WifiHears
<1>4. active_tx = {p} /\ p \in WifiPackets /\ clock \in Nat /\ sequence \in Nat
  BY <1>0 DEF WifiTypes
<1>5. W!Places' = W!Places /\ W!Categories' = W!Categories
  BY <1>1, WifiAsMany DEF W!Categories
<1>6. /\ sequence' \in Nat /\ place' \in {"loop", "schedule"}
      /\ \/ W!Leave(p)
         \/ tokens' = tokens /\ \E q \in WifiPackets : active_tx' = {q}
  <2>1. CASE \E d \in W!TxDelays : W!PhaseIdle(p, d)
    <3>1. PICK d \in W!TxDelays : W!PhaseIdle(p, d)
      BY <2>1
    <3>2. d.pre \in Nat /\ d.post \in Nat /\ d.collision \in BOOLEAN
      BY <1>0, WifiSettingFacts DEF W!TxDelays
    <3> DEFINE collides == d.collision /\ p.unicast
               q == [p EXCEPT !.phase = "Pre", !.ready_at = clock + d.pre,
                              !.post_delay = d.post, !.collision = collides]
    <3>3. q \in WifiPackets
      <4>1. clock + d.pre \in Nat /\ p.unicast \in BOOLEAN
        BY <1>4, <3>2 DEF WifiPackets
      <4>2. collides \in BOOLEAN
        OBVIOUS
      <4> HIDE DEF collides
      <4> QED
        BY <1>4, <3>2, <4>1, <4>2, WifiChanged
    <3>4. sequence' = sequence /\ (W!Leave(p) \/ (active_tx' = {q} /\ UNCHANGED <<tokens, place>>))
      BY <3>1 DEF W!PhaseIdle
    <3> QED
      BY <1>1, <1>4, <3>3, <3>4 DEF W!Leave
  <2>2. CASE \E duration \in AirTimes : W!PhasePre(p, duration)
    <3>1. PICK duration \in AirTimes : W!PhasePre(p, duration)
      BY <2>2
    <3>2. duration \in Nat
      BY <1>0, WifiSettingFacts
    <3>3. W!SequenceOf(p) \in Int
      BY <1>4 DEF W!SequenceOf, WifiPackets
    <3> DEFINE q == [p EXCEPT !.phase = "Post", !.sequence = W!SequenceOf(p),
                              !.ready_at = clock + duration + p.post_delay]
    <3>4. q \in WifiPackets
      <4>1. clock + duration + p.post_delay \in Nat
        BY <1>4, <3>2 DEF WifiPackets
      <4> QED
        BY <1>4, <3>3, <4>1, WifiChanged
    <3>5. /\ sequence' = sequence \/ sequence' = sequence + 1
          /\ active_tx' = active_tx \/ active_tx' = {q}
          /\ tokens' = tokens /\ place' = "schedule"
      BY <3>1 DEF W!PhasePre
    <3> QED
      BY <1>4, <3>4, <3>5
  <2>3. CASE W!PhasePost(p)
    <3> DEFINE q == [p EXCEPT !.retries = @ + 1, !.phase = "Idle"]
    <3>1. q \in WifiPackets
      <4>1. p.retries + 1 \in Nat
        BY <1>4 DEF WifiPackets
      <4> QED
        BY <1>4, <4>1, WifiChanged
    <3>2. /\ sequence' = sequence
          /\ \/ place' = "schedule" /\ UNCHANGED <<active_tx, tokens>>
             \/ active_tx' = {q} /\ UNCHANGED <<place, tokens>>
             \/ W!Leave(p)
      BY <2>3 DEF W!PhasePost
    <3> QED
      BY <1>1, <1>4, <3>1, <3>2 DEF W!Leave
  <2> QED
    BY <2>1, <2>2, <2>3 DEF W!WorkOn
<1>7. /\ WifiTokens' /\ tokens' \in Int
      /\ active_tx' = {} \/ \E q \in WifiPackets : active_tx' = {q}
  <2>1. CASE W!Leave(p)
    BY <1>1, <1>2, <2>1, WifiLeaves
  <2>2. ASSUME tokens' = tokens, NEW q \in WifiPackets, active_tx' = {q}
        PROVE  WifiTokens' /\ tokens' \in Int
    <3>1. W!InMac' = W!InMac
      BY <1>4, <1>5, <2>2, WifiInMac
    <3> QED
      BY <1>0, <1>1, <2>2, <3>1 DEF WifiTokens, WifiTypes
  <2> QED
    BY <1>6, <2>1, <2>2, WifiLeaves, <1>1, <1>2
<1>8. WifiTypes'
  BY <1>0, <1>1, <1>5, <1>6, <1>7 DEF WifiTypes, W!ConstantsOK
<1>9. WifiDown' /\ WifiWoken'
  BY <1>0, <1>1, <1>2, <1>6 DEF WifiDown, WifiWoken, W!WakeupComing
<1> QED
  BY <1>3, <1>7, <1>8, <1>9 DEF WifiInv

(* The steps of the receiver, the estimates and the clock. *)
LEMMA WifiReceiver ==
  ASSUME WifiInv, W!ReceiverStep \/ (\E s \in W!Stations : W!EstimateChannel(s)) \/ W!Tick
  PROVE  WifiInv'
<1>0. WifiTypes /\ WifiDown /\ WifiKnown
  BY DEF WifiInv
<1>1. UNCHANGED <<chosen, W!sender>> /\ clock' \in Nat /\ clock <= clock'
  BY <1>0 DEF W!ReceiverStep, W!Tick, W!Lose, W!AcceptUpstream, W!QueryFails,
     W!CompleteReceive, W!CompleteCts, W!OverhearCts, W!EstimateChannel, WifiTypes
<1>2. UNCHANGED <<up, lives>>
  BY <1>1 DEF W!sender
<1>3. ~up => pending_rx = {}
  BY <1>0 DEF WifiDown
<1>4. "receiver" \in W!Stations
  BY DEF W!Stations
<1>5. /\ up \/ pending_rx' = {}
      /\ \/ UNCHANGED <<channel_activity, rows, published>>
         \/ up /\ \E source, at : W!NoteOneHop("receiver", source, at)
         \/ up /\ \E s \in W!Stations : W!EstimateChannel(s)
  <2>1. CASE \E f \in air : W!Lose(f) \/ W!AcceptUpstream(f)
    BY <1>3, <2>1 DEF W!Lose, W!AcceptUpstream, W!receiver, W!neighbours
  <2>2. CASE \E f \in pending_rx : W!QueryFails(f)
    BY <1>3, <2>2 DEF W!QueryFails, W!neighbours
  <2>3. CASE \E f \in pending_rx : W!CompleteCts(f) \/ \E ok \in W!Tries : W!CompleteReceive(f, ok)
    BY <1>3, <2>3 DEF W!CompleteCts, W!CompleteReceive
  <2>4. CASE \E duration \in AirTimes : W!OverhearCts(duration)
    BY <1>3, <2>4 DEF W!OverhearCts, W!neighbours
  <2>5. CASE \E s \in W!Stations : W!EstimateChannel(s)
    BY <1>3, <2>5 DEF W!EstimateChannel
  <2>6. CASE W!Tick
    BY <1>3, <2>6 DEF W!Tick, W!receiver, W!neighbours
  <2> QED
    BY <2>1, <2>2, <2>3, <2>4, <2>5, <2>6 DEF W!ReceiverStep
<1>6. up => lives # 0
  BY <1>0 DEF WifiKnown, WifiTypes
<1>7. WifiKnown'
  <2>1. CASE UNCHANGED <<channel_activity, rows, published>>
    BY <1>0, <1>2, <2>1, WifiSenderKnows
  <2>2. CASE up /\ \E source, at : W!NoteOneHop("receiver", source, at)
    BY <1>0, <1>2, <1>4, <1>6, <2>2, WifiHears
  <2>3. CASE up /\ \E s \in W!Stations : W!EstimateChannel(s)
    BY <1>0, <1>2, <1>6, <2>3, WifiEstimates
  <2> QED
    BY <1>5, <2>1, <2>2, <2>3
<1> QED
  BY <1>1, <1>5, <1>7, WifiSenderKept DEF WifiInv

-----------------------------------------------------------------------------
LEMMA WifiInit ==
  ASSUME W!ConstantsOK, W!Init
  PROVE  WifiInv
<1>1. /\ clock = 1 /\ chosen \in WifiSettings /\ up = FALSE /\ lives = 0
      /\ tokens = chosen.tokens /\ queues = [c \in W!Categories |-> <<>>]
      /\ active_tx = {} /\ sequence = 0 /\ next_wakeup = 0 /\ wakeups = {} /\ place = "idle"
      /\ offered = 0 /\ pending_rx = {}
      /\ channel_activity = [s \in W!Stations |-> W!Empty]
      /\ published = [s \in W!Stations |-> {}] /\ rows = [s \in W!Stations |-> {}]
  BY DEF W!Init
<1>2. chosen.depth \in Nat /\ chosen.tokens \in Nat
  BY <1>1 DEF W!ConstantsOK
<1>3. \A c \in W!Categories : queues[c] = <<>> /\ Len(queues[c]) = 0
  BY <1>1
<1>4. W!Places = {}
  BY <1>3, WifiPlaces
<1>5. IsFiniteSet(W!Places)
  BY <1>4, FS_EmptySet
<1>6. WifiTypes
  <2>1. queues \in [W!Categories -> Seq(WifiPackets)]
    BY <1>1
  <2>2. \A c \in W!Categories : Len(queues[c]) <= chosen.depth
    BY <1>2, <1>3
  <2>3. clock \in Nat /\ lives \in Nat /\ tokens \in Int /\ sequence \in Nat
        /\ next_wakeup \in Nat /\ offered \in Nat
    BY <1>1, <1>2
  <2> QED
    BY <1>1, <1>5, <2>1, <2>2, <2>3 DEF WifiTypes
<1>7. \A s \in W!Stations : DOMAIN channel_activity[s] = {} /\ rows[s] = {} /\ published[s] = {}
  BY <1>1 DEF W!Empty
<1> QED
  BY <1>1, <1>3, <1>6, <1>7
  DEF WifiInv, WifiDown, WifiTokens, WifiWoken, WifiKnown, W!WakeupComing, W!NeighborsPublished

LEMMA WifiNext ==
  ASSUME WifiInv, W!Next
  PROVE  WifiInv'
<1>1. CASE W!ReceiverStep \/ (\E s \in W!Stations : W!EstimateChannel(s)) \/ W!Tick
  BY <1>1, WifiReceiver
<1>2. CASE W!SenderStep
  BY <1>2, WifiStart, WifiStop, WifiAccept, WifiExpire, WifiQuiet, WifiSelect, WifiWorks
  DEF W!SenderStep
<1> QED
  BY <1>1, <1>2 DEF W!Next

(* The invariant says what the run checks. *)
LEMMA WifiHolds ==
  ASSUME WifiInv
  PROVE  W!TokensAccounted /\ W!WakeupComing /\ W!NeighborsPublished
  BY DEF WifiInv, WifiTokens, WifiWoken, WifiKnown, W!TokensAccounted, W!FlowControl
-----------------------------------------------------------------------------
(***************************************************************************)
(* The bent-pipe model.                                                    *)
(***************************************************************************)
BentPackets ==
    [id : Nat \X Nat, size : Nat, sequence : Nat, offset : Nat, index : Nat, ready : Nat]

BentTypes ==
    /\ B!ConstantsOK /\ chosen \in BentSettings /\ clock \in Nat /\ up \in BOOLEAN
    /\ life \in Nat /\ offered \in Nat /\ packet_sequence \in Nat /\ current_eot \in Nat
    /\ waiting \in Seq(BentPackets) /\ wakeup \in Nat \cup {-1} /\ alarms \subseteq Nat

(* The wakeup expected has a timer. *)
BentArmed == wakeup = -1 \/ wakeup \in alarms

(* Timers of a slotted sender carry the beginning of an own slot, or the   *)
(* time a relayed packet asked for.                                        *)
BentAligned ==
    B!Slotted => \A t \in alarms : \/ t \in relay_times
                                   \/ t % chosen.slotSize = 0 /\ B!InSlot(t)

(* What drive decided on: the wakeup is for an own slot, and a frame was   *)
(* due in one, or for a relayed packet.                                    *)
BentCall ==
    /\ driving.next \in Nat \cup {-1} /\ driving.bytes \in Nat /\ driving.decided \in Nat
    /\ driving.decided <= clock
    /\ driving.busy \/ driving = B!Idle
    /\ B!Slotted =>
         /\ driving.next # -1 =>
              driving.next % chosen.slotSize = 0 /\ B!InSlot(driving.next)
         /\ driving.bytes > 0 => \/ B!InSlot(driving.decided)
                                \/ /\ driving.expected \in relay_times
                                   /\ driving.decided < driving.expected + chosen.slotSize

(* The end of transmission is that of the last one of this life, counted   *)
(* from when it was decided on, or that of the one in hand, which comes    *)
(* after it.                                                               *)
BentOrder ==
    /\ last.life \in Nat /\ last.life <= life
    /\ {last.start, last.decided, last.end} \subseteq Nat
    /\ driving.bytes > 0 => current_eot = driving.decided + B!AirTime(driving.bytes)
    /\ last.life = life =>
         last.end - last.start + last.decided
           <= IF driving.bytes > 0 THEN driving.decided ELSE current_eot

BentInv == BentTypes /\ BentArmed /\ BentAligned /\ BentCall /\ BentOrder /\ B!WakeupComing

(* A number lies between a multiple of D and the next. *)
LEMMA Divided ==
  ASSUME NEW n \in Nat, NEW D \in Nat \ {0}
  PROVE  /\ n \div D \in Nat /\ (n \div D) * D \in Nat
         /\ (n \div D) * D <= n /\ n < (n \div D) * D + D
<1>1. (n \div D) * D <= n
  OBVIOUS
<1>2. n < (n \div D) * D + D
  OBVIOUS
<1>3. n \div D \in Nat
  OBVIOUS
<1> QED
  BY <1>1, <1>2, <1>3

(* What starts by a time is not later than the slot of that time. *)
LEMMA SlotOfTime ==
  ASSUME NEW n \in Nat, NEW D \in Nat \ {0}, NEW x \in Nat, x * D <= n
  PROVE  x <= n \div D
  OBVIOUS

(* A quotient and a remainder. *)
LEMMA Quotient ==
  ASSUME NEW n \in Nat, NEW D \in Nat \ {0}
  PROVE  \E q \in Nat, m \in 0..(D - 1) : n = q * D + m
<1> DEFINE q0 == n \div D
           m0 == n - q0 * D
<1>1. q0 \in Nat /\ q0 * D \in Nat /\ q0 * D <= n /\ n < q0 * D + D
  BY Divided
<1>2. m0 \in 0..(D - 1) /\ n = q0 * D + m0
  BY <1>1
<1> QED
  BY <1>1, <1>2

(* A multiple of D leaves no remainder. *)
LEMMA Multiple ==
  ASSUME NEW n \in Nat, NEW D \in Nat \ {0}
  PROVE  n * D \in Nat /\ (n * D) % D = 0 /\ (n * D) \div D = n
<1>1. n * D \in Nat
  OBVIOUS
<1>2. (n * D) % D = 0
  OBVIOUS
<1>3. (n * D) \div D = n
  OBVIOUS
<1> QED
  BY <1>1, <1>2, <1>3

(* Multiples of D follow each other at the distance of D. *)
LEMMA Multiples ==
  ASSUME NEW n \in Nat, NEW m \in Nat, NEW D \in Nat
  PROVE  (n + m) * D = n * D + m * D
  OBVIOUS

(* Every remainder occurs in a window as long as the divisor. *)
LEMMA Window ==
  ASSUME NEW a \in Nat, NEW D \in Nat \ {0}, NEW r \in 0..(D - 1)
  PROVE  \E n \in a..(a + D - 1) : n % D = r
<1>1. PICK q \in Nat, m \in 0..(D - 1) : a = q * D + m
  BY Quotient
<1>2. (q * D + r) % D = r /\ ((q + 1) * D + r) % D = r
  OBVIOUS
<1>3. q * D \in Int /\ (q + 1) * D = q * D + D
  OBVIOUS
<1>4. CASE r >= m
  <2>1. q * D + r \in a..(a + D - 1)
    BY <1>1, <1>3, <1>4
  <2> QED
    BY <1>2, <2>1
<1>5. CASE r < m
  <2>1. (q + 1) * D + r \in a..(a + D - 1)
    BY <1>1, <1>3, <1>5
  <2> QED
    BY <1>2, <2>1
<1> QED
  BY <1>4, <1>5

(* A set of natural numbers has a least one. *)
LEMMA Least ==
  ASSUME NEW S, S \subseteq Nat, S # {}
  PROVE  \E i \in S : \A j \in S : i <= j
<1> DEFINE R == OpToRel(<, Nat)
<1>1. IsWellFoundedOn(R, Nat)
  BY NatLessThanWellFounded
<1>2. PICK x \in S : TRUE
  OBVIOUS
<1>3. PICK i \in S : \A j \in S : ~(<<j, i>> \in R)
  BY <1>1, <1>2, WFMin
<1>4. ASSUME NEW j \in S
      PROVE  i <= j
  <2>1. ~(j < i)
    BY <1>3 DEF OpToRel
  <2> QED
    BY <2>1
<1> QED
  BY <1>4

(* The least of a set of natural numbers is in it. *)
LEMMA BentMin ==
  ASSUME NEW S, S \subseteq Nat, S # {}
  PROVE  B!Min(S) \in S
<1>1. \E i \in S : \A j \in S : i <= j
  BY Least
<1> QED
  BY <1>1 DEF B!Min

(* A time within a slot's length after the beginning of a slot is in it. *)
LEMMA SameSlot ==
  ASSUME NEW t \in Nat, NEW n \in Nat, NEW D \in Nat \ {0}, t % D = 0, t <= n, n < t + D
  PROVE  n \div D = t \div D
<1>1. PICK q \in Nat : t = q * D
  <2>1. PICK q \in Nat, m \in 0..(D - 1) : t = q * D + m
    BY Quotient
  <2>2. (q * D + m) % D = m
    OBVIOUS
  <2> QED
    BY <2>1, <2>2
<1>2. t \div D = q
  BY <1>1
<1>3. n \div D \in Nat /\ (n \div D) * D <= n /\ n < (n \div D) * D + D
  BY Divided
<1>4. q <= n \div D
  BY <1>1, SlotOfTime
<1>5. ~(n \div D >= q + 1)
  <2>1. ASSUME n \div D >= q + 1
        PROVE  FALSE
    <3>1. (n \div D) * D >= (q + 1) * D
      BY <1>3, <2>1
    <3>2. (q + 1) * D = t + D
      BY <1>1
    <3> QED
      BY <1>3, <3>1, <3>2
  <2> QED
    BY <2>1
<1> QED
  BY <1>2, <1>3, <1>4, <1>5

(* What the assumption says of the setting. *)
LEMMA BentSettingFacts ==
  ASSUME BentTypes
  PROVE  /\ chosen.mtu \in Nat /\ chosen.rate \in Nat \ {0} /\ chosen.depth \in Nat
         /\ chosen.delay \in Nat /\ chosen.time \in Nat
         /\ chosen.slotsPerFrame \in Nat \ {0} /\ chosen.slotSize \in Nat \ {0}
         /\ chosen.slots \subseteq 0..(chosen.slotsPerFrame - 1)
         /\ Sizes \subseteq Nat
  BY DEF BentTypes, B!ConstantsOK

(* There is a next slot, it begins an own slot, and it is not before t.    *)
LEMMA BentNextSlot ==
  ASSUME BentTypes, NEW t \in Nat
  PROVE  /\ B!NextSlot(t) \in Nat /\ B!NextSlot(t) >= t
         /\ B!Slotted => B!NextSlot(t) % chosen.slotSize = 0 /\ B!InSlot(B!NextSlot(t))
<1> DEFINE D == chosen.slotSize
           P == chosen.slotsPerFrame
           S == {u \in t..t + (P + 1) * D : u % D = 0 /\ B!InSlot(u)}
<1>1. D \in Nat \ {0} /\ P \in Nat \ {0} /\ chosen.slots \subseteq 0..(P - 1)
  BY BentSettingFacts
<1>2. CASE ~B!Slotted
  BY <1>2 DEF B!NextSlot
<1>3. CASE B!Slotted
  <2>1. PICK s \in chosen.slots : s \in 0..(P - 1)
    BY <1>1, <1>3 DEF B!Slotted
  <2> DEFINE a == t \div D + 1
  <2>2. /\ a \in Nat /\ t \div D \in Nat /\ (t \div D) * D \in Nat
        /\ (t \div D) * D <= t /\ t < (t \div D) * D + D
    <3> HIDE DEF D
    <3>1. /\ t \div D \in Nat /\ (t \div D) * D \in Nat
          /\ (t \div D) * D <= t /\ t < (t \div D) * D + D
      BY <1>1, Divided
    <3> QED
      BY <3>1
  <2>3. PICK n \in a..(a + P - 1) : n % P = s
    <3> HIDE DEF a, P
    <3>1. \A x \in Nat, d \in Nat \ {0} : \A r \in 0..(d - 1) :
            \E n \in x..(x + d - 1) : n % d = r
      BY Window
    <3>2. a \in Nat /\ P \in Nat \ {0} /\ s \in 0..(P - 1)
      BY <1>1, <2>1, <2>2
    <3> QED
      BY <3>1, <3>2, Zenon
  <2>4. n \in Nat
    <3> HIDE DEF a, P
    <3> QED
      BY <1>1, <2>2, <2>3
  <2>5. a * D <= n * D /\ n * D <= (a + P - 1) * D
    <3>1. \A x, y \in Nat : x <= y => x * D <= y * D
      BY <1>1
    <3>2. a <= n /\ n <= a + P - 1 /\ a + P - 1 \in Nat
      <4> HIDE DEF a, P
      <4> QED
        BY <1>1, <2>2, <2>3
    <3> HIDE DEF a, P, D
    <3> QED
      BY <2>2, <2>4, <3>1, <3>2
  <2>6. /\ a * D = (t \div D) * D + D
        /\ (a + P - 1) * D = (t \div D) * D + P * D
    <3> DEFINE q == t \div D
    <3>1. q \in Nat /\ a = q + 1 /\ a + P - 1 = q + P
      BY <1>1, <2>2
    <3> HIDE DEF q, a, P, D
    <3>2. (q + 1) * D = q * D + 1 * D /\ (q + P) * D = q * D + P * D
      BY <1>1, <3>1, Multiples
    <3>3. 1 * D = D
      BY <1>1
    <3>4. a * D = q * D + D /\ (a + P - 1) * D = q * D + P * D
      BY <3>1, <3>2, <3>3
    <3> QED
      BY <3>4 DEF q
  <2>7. t <= n * D /\ n * D <= t + (P + 1) * D
    <3>1. (P + 1) * D = P * D + 1 * D /\ 1 * D = D /\ P * D \in Nat
      <4> HIDE DEF P, D
      <4>1. (P + 1) * D = P * D + 1 * D
        BY <1>1, Multiples
      <4>2. 1 * D = D
        BY <1>1
      <4>3. P * D \in Nat
        BY <1>1, Multiple
      <4> QED
        BY <4>1, <4>2, <4>3
    <3>2. n * D \in Nat
      <4> HIDE DEF D
      <4> QED
        BY <1>1, <2>4, Multiple
    <3> DEFINE q == t \div D
    <3> DEFINE qd == q * D
               pd == P * D
               nd == n * D
               ad == a * D
               bd == (a + P - 1) * D
               cd == (P + 1) * D
    <3>3. /\ qd \in Nat /\ qd <= t /\ t < qd + D /\ ad <= nd /\ nd <= bd
          /\ ad = qd + D /\ bd = qd + pd /\ cd = pd + D /\ pd \in Nat /\ nd \in Nat
          /\ D \in Nat
      BY <1>1, <2>2, <2>5, <2>6, <3>1, <3>2
    <3>4. t <= nd /\ nd <= t + cd
      <4> HIDE DEF qd, pd, nd, ad, bd, cd, D
      <4> QED
        BY <3>3
    <3> QED
      BY <3>4
  <2>8. n * D \in Nat /\ (n * D) % D = 0 /\ (n * D) \div D = n
    <3> HIDE DEF D
    <3> QED
      BY <1>1, <2>4, Multiple
  <2>9. n * D \in S
    BY <1>1, <2>1, <2>3, <2>4, <2>7, <2>8 DEF B!InSlot
  <2>10. S \subseteq Nat
    BY <1>1
  <2>11. B!Min(S) \in S
    BY <2>9, <2>10, BentMin
  <2>12. B!NextSlot(t) = B!Min(S)
    BY <1>3 DEF B!NextSlot
  <2> QED
    BY <2>10, <2>11, <2>12
<1> QED
  BY <1>2, <1>3

(* A part of the queue is a queue. *)
LEMMA BentPart ==
  ASSUME NEW q \in Seq(BentPackets), NEW m \in Nat \ {0}, NEW n \in Int, n <= Len(q)
  PROVE  SubSeq(q, m, n) \in Seq(BentPackets)
<1>1. Len(q) \in Nat /\ \A i \in 1..Len(q) : q[i] \in BentPackets
  BY LenProperties, ElementOfSeq
<1>2. \A i \in m..n : q[i] \in BentPackets
  BY <1>1
<1> QED
  BY <1>2, SubSeqProperties

(* enqueue makes a queue of packets. *)
LEMMA BentEnqueued ==
  ASSUME BentTypes, NEW size \in Nat, NEW ready \in Nat
  PROVE  B!Enqueue(size, ready) \in Seq(BentPackets)
<1> DEFINE packet == [id |-> <<life, offered>>, size |-> size, sequence |-> packet_sequence,
                      offset |-> 0, index |-> 0, ready |-> ready]
           v == B!Victim(waiting)
<1>1. waiting \in Seq(BentPackets) /\ Len(waiting) \in Nat /\ chosen.depth \in Nat
  BY BentSettingFacts, LenProperties DEF BentTypes
<1>2. packet \in BentPackets
  BY DEF BentTypes, BentPackets
<1>3. ASSUME Len(waiting) >= chosen.depth, chosen.depth # 0
      PROVE  v \in 1..Len(waiting)
  <2> DEFINE unsent == {i \in 1..Len(waiting) : waiting[i].offset = 0}
  <2>1. unsent \subseteq Nat
    BY <1>1
  <2>2. unsent # {} => B!Min(unsent) \in unsent
    BY <2>1, BentMin
  <2>3. v = IF unsent = {} THEN 1 ELSE B!Min(unsent)
    BY DEF B!Victim
  <2> QED
    BY <1>1, <1>3, <2>2, <2>3
<1>4. ASSUME Len(waiting) >= chosen.depth, chosen.depth # 0
      PROVE  B!Without(waiting, v) \in Seq(BentPackets)
  <2>1. v \in Nat \ {0} /\ v <= Len(waiting) /\ v - 1 \in Int /\ v - 1 <= Len(waiting)
        /\ v + 1 \in Nat \ {0}
    <3> HIDE DEF v
    <3> QED
      BY <1>1, <1>3, <1>4
  <2> HIDE DEF v
  <2>2. SubSeq(waiting, 1, v - 1) \in Seq(BentPackets)
        /\ SubSeq(waiting, v + 1, Len(waiting)) \in Seq(BentPackets)
    BY <1>1, <2>1, BentPart
  <2> QED
    BY <2>2, ConcatProperties DEF B!Without
<1> HIDE DEF packet, v
<1>5. B!Enqueue(size, ready) =
        IF chosen.depth = 0 THEN waiting
        ELSE Append(IF Len(waiting) >= chosen.depth THEN B!Without(waiting, v) ELSE waiting,
                    packet)
  BY DEF B!Enqueue, packet, v
<1> QED
  BY <1>1, <1>2, <1>4, <1>5, AppendProperties

(* A packet part of which is sent is still one. *)
LEMMA BentCut ==
  ASSUME NEW p \in BentPackets, NEW k \in Nat
  PROVE  [p EXCEPT !.offset = @ + k, !.index = @ + 1] \in BentPackets
<1>1. p.offset + k \in Nat /\ p.index + 1 \in Nat
  BY DEF BentPackets
<1>2. [p EXCEPT !.offset = p.offset + k] \in BentPackets
  BY <1>1 DEF BentPackets
<1>3. [[p EXCEPT !.offset = p.offset + k] EXCEPT !.index = p.index + 1] \in BentPackets
  BY <1>1, <1>2 DEF BentPackets
<1>4. [p EXCEPT !.offset = @ + k, !.index = @ + 1]
        = [[p EXCEPT !.offset = p.offset + k] EXCEPT !.index = p.index + 1]
  BY DEF BentPackets
<1> QED
  BY <1>3, <1>4

(* What is left of the queue when a frame is taken is a queue, and the     *)
(* frame has a number of bytes.                                            *)
LEMMA BentDequeued ==
  ASSUME BentTypes, NEW q \in Seq(BentPackets), NEW frame \in B!Dequeued(q)
  PROVE  frame.queue \in Seq(BentPackets) /\ frame.bytes \in Nat
<1>1. PICK used \in B!Filling(q), n \in 0..Len(q) :
        B!Ends(q, used, n) /\ frame = B!Taken(q, used, n)
  BY DEF B!Dequeued
<1>2. used \in [0..Len(q) -> 0..chosen.mtu] /\ chosen.mtu \in Nat /\ Len(q) \in Nat
  BY BentSettingFacts, LenProperties DEF B!Filling
<1>3. used[n] \in 0..chosen.mtu /\ used[n] \in Nat
  BY <1>1, <1>2
<1>4. CASE B!Closed(q, used, n)
  <2>1. frame.queue = SubSeq(q, n + 1, Len(q)) /\ frame.bytes = used[n]
    BY <1>1, <1>4 DEF B!Taken
  <2> QED
    BY <1>1, <1>2, <1>3, <2>1, BentPart
<1>5. CASE ~B!Closed(q, used, n)
  <2> DEFINE available == chosen.mtu - used[n]
             p == [q[n + 1] EXCEPT !.offset = @ + available, !.index = @ + 1]
  <2>1. frame.queue = <<p>> \o SubSeq(q, n + 2, Len(q)) /\ frame.bytes = chosen.mtu
    BY <1>1, <1>5 DEF B!Taken
  <2>2. n + 1 \in 1..Len(q)
    BY <1>1, <1>2, <1>5 DEF B!Closed
  <2>3. q[n + 1] \in BentPackets
    BY <2>2, ElementOfSeq
  <2>4. available \in Nat
    BY <1>2, <1>3
  <2>5. p \in BentPackets
    <3> HIDE DEF available
    <3> QED
      BY <2>3, <2>4, BentCut
  <2>6. SubSeq(q, n + 2, Len(q)) \in Seq(BentPackets)
    BY <1>1, <1>2, BentPart
  <2> HIDE DEF p
  <2>7. <<p>> \in Seq(BentPackets)
    BY <2>5
  <2> QED
    BY <1>2, <2>1, <2>6, <2>7, ConcatProperties
<1> QED
  BY <1>4, <1>5

(* The same for what drive does; a frame is only sent when it may be. *)
LEMMA BentFrames ==
  ASSUME BentTypes, NEW q \in Seq(BentPackets), NEW expected, NEW frame \in B!Frames(q, expected)
  PROVE  /\ frame.queue \in Seq(BentPackets) /\ frame.bytes \in Nat
         /\ frame.bytes > 0 => ~B!Missed(expected) /\ B!CanSend(q, expected)
<1>1. CASE ~B!Missed(expected) /\ B!CanSend(q, expected)
  BY <1>1, BentDequeued DEF B!Frames
<1>2. CASE ~(~B!Missed(expected) /\ B!CanSend(q, expected))
  <2>1. frame = [queue |-> q, pieces |-> <<>>, bytes |-> 0]
    BY <1>2 DEF B!Frames
  <2> QED
    BY <2>1
<1> QED
  BY <1>1, <1>2

(* Airtime is a number. *)
LEMMA BentAirTime ==
  ASSUME BentTypes, NEW bytes \in Nat
  PROVE  B!AirTime(bytes) \in Nat
<1> DEFINE r == chosen.rate
           b == bytes + r - 1
<1>1. r \in Nat \ {0}
  BY BentSettingFacts
<1>2. b \in Nat
  <2> HIDE DEF r
  <2> QED
    BY <1>1
<1>3. b \div r \in Nat
  <2> HIDE DEF r, b
  <2> QED
    BY <1>1, <1>2, Divided
<1> QED
  BY <1>3 DEF B!AirTime

(* schedule_transmit leaves a started sender with a wakeup that has a      *)
(* timer, and arms no other than the one it is asked for.                  *)
LEMMA BentScheduled ==
  ASSUME up \in BOOLEAN, NEW old \in Nat \cup {-1}, NEW kept \in SUBSET Nat,
         old = -1 \/ old \in kept,
         NEW due \in Nat, B!ScheduleTransmit(old, kept, due)
  PROVE  /\ wakeup' \in Nat \cup {-1} /\ alarms' \subseteq Nat /\ BentArmed'
         /\ alarms' \subseteq kept \cup {due}
         /\ up => wakeup' \in alarms'
<1>1. CASE ~up \/ (old # -1 /\ old <= due)
  <2>1. wakeup' = old /\ alarms' = kept
    BY <1>1 DEF B!ScheduleTransmit
  <2> QED
    BY <1>1, <2>1 DEF BentArmed
<1>2. CASE ~(~up \/ (old # -1 /\ old <= due))
  <2>1. wakeup' = due /\ alarms' = kept \cup {due}
    BY <1>2 DEF B!ScheduleTransmit
  <2> QED
    BY <2>1 DEF BentArmed
<1> QED
  BY <1>1, <1>2

(* Timers stay aligned when one for an own slot or a relayed packet comes. *)
LEMMA BentAlignedKept ==
  ASSUME BentAligned, UNCHANGED chosen, relay_times \subseteq relay_times', NEW due,
         alarms' \subseteq alarms \cup {due},
         B!Slotted => \/ due \in alarms \/ due \in relay_times'
                      \/ due % chosen.slotSize = 0 /\ B!InSlot(due)
  PROVE  BentAligned'
<1>1. B!Slotted' <=> B!Slotted
  BY DEF B!Slotted
<1>2. \A t : B!InSlot(t)' <=> B!InSlot(t)
  BY DEF B!InSlot
<1>3. ASSUME B!Slotted', NEW t \in alarms'
      PROVE  (t \in relay_times \/ t \in relay_times' \/ (t % chosen.slotSize = 0 /\ B!InSlot(t)))
  BY <1>1, <1>3 DEF BentAligned
<1>4. ASSUME B!Slotted', NEW t \in alarms'
      PROVE  t \in relay_times' \/ (t % chosen'.slotSize = 0 /\ B!InSlot(t)')
  BY <1>2, <1>3, <1>4
<1> QED
  BY <1>4 DEF BentAligned, B!InSlot, B!Slotted

(* A transmission that may begin is in an own slot, or follows the wakeup  *)
(* of a relayed packet within a slot's length.                             *)
LEMMA BentInSlot ==
  ASSUME BentTypes, BentAligned, NEW q, NEW expected \in alarms \cup {-1},
         B!Slotted, ~B!Missed(expected), B!CanSend(q, expected)
  PROVE  \/ B!InSlot(clock)
         \/ expected \in relay_times /\ clock < expected + chosen.slotSize
<1>1. clock \in Nat /\ alarms \subseteq Nat /\ chosen.slotSize \in Nat \ {0}
  BY BentSettingFacts DEF BentTypes
<1>2. B!Allowed(expected) <= clock
  BY DEF B!CanSend
<1>3. CASE expected = -1
  <2>1. B!NextSlot(clock) <= clock
    BY <1>2, <1>3 DEF B!Allowed
  <2>2. B!NextSlot(clock) \in Nat /\ B!NextSlot(clock) >= clock
        /\ B!InSlot(B!NextSlot(clock))
    BY <1>1, BentNextSlot
  <2>3. B!NextSlot(clock) = clock
    BY <1>1, <2>1, <2>2
  <2> QED
    BY <2>2, <2>3
<1>4. CASE expected # -1
  <2>1. expected <= clock /\ clock < expected + chosen.slotSize /\ expected \in alarms
        /\ expected \in Nat
    BY <1>1, <1>2, <1>4 DEF B!Allowed, B!Missed
  <2>2. CASE expected \in relay_times
    BY <2>1, <2>2
  <2>3. CASE expected \notin relay_times
    <3>1. expected % chosen.slotSize = 0 /\ B!InSlot(expected)
      BY <2>1, <2>3 DEF BentAligned
    <3> DEFINE D == chosen.slotSize
    <3>2. clock \div D = expected \div D
      <4>1. D \in Nat \ {0} /\ expected % D = 0 /\ expected <= clock /\ clock < expected + D
        BY <1>1, <2>1, <3>1
      <4> HIDE DEF D
      <4> QED
        BY <1>1, <2>1, <4>1, SameSlot
    <3> QED
      BY <3>1, <3>2 DEF B!InSlot
  <2> QED
    BY <2>2, <2>3
<1> QED
  BY <1>3, <1>4

(* drive decides: with what it takes from the queue. *)
LEMMA BentDrives ==
  ASSUME BentInv, NEW q \in Seq(BentPackets), NEW old \in Nat \cup {-1},
         NEW kept \in SUBSET alarms, old = -1 \/ old \in kept,
         NEW expected \in alarms \cup {-1}, B!Drive(q, old, kept, expected),
         UNCHANGED <<clock, chosen, up, life, relay_times, last>>,
         offered' \in Nat, packet_sequence' \in Nat
  PROVE  BentInv' /\ B!SlotDiscipline
<1>0. BentTypes /\ BentArmed /\ BentAligned /\ BentCall /\ BentOrder
  BY DEF BentInv
<1>1. PICK frame \in B!Frames(q, expected) : B!DriveWith(frame, old, kept, expected)
  BY DEF B!Drive
<1>2. /\ frame.queue \in Seq(BentPackets) /\ frame.bytes \in Nat
      /\ frame.bytes > 0 => ~B!Missed(expected) /\ B!CanSend(q, expected)
  BY <1>0, BentFrames
<1>3. clock \in Nat /\ current_eot \in Nat /\ up \in BOOLEAN /\ alarms \subseteq Nat
      /\ life \in Nat
  BY <1>0 DEF BentTypes
<1> DEFINE eot == IF frame.bytes > 0 THEN clock + B!AirTime(frame.bytes) ELSE current_eot
           ready == B!Later(Head(frame.queue).ready, eot)
           next == IF B!Missed(expected) THEN B!NextSlot(clock)
                   ELSE IF frame.queue # <<>> THEN B!NextSlot(B!Later(ready, clock)) ELSE -1
<1>4. eot \in Nat /\ B!AirTime(frame.bytes) \in Nat
  <2>1. B!AirTime(frame.bytes) \in Nat
    BY <1>0, <1>2, BentAirTime
  <2> QED
    BY <1>3, <2>1
<1>5. /\ waiting' = frame.queue /\ current_eot' = eot /\ wakeup' = old /\ alarms' = kept
      /\ driving' = [busy |-> TRUE, pieces |-> frame.pieces, bytes |-> frame.bytes,
                     decided |-> clock, expected |-> expected, next |-> next]
  BY <1>1 DEF B!DriveWith
<1>6. /\ next \in Nat \cup {-1}
      /\ B!Slotted /\ next # -1 => next % chosen.slotSize = 0 /\ B!InSlot(next)
      /\ frame.queue # <<>> => next # -1
  <2>1. CASE B!Missed(expected)
    <3>1. /\ B!NextSlot(clock) \in Nat
          /\ B!Slotted => B!NextSlot(clock) % chosen.slotSize = 0 /\ B!InSlot(B!NextSlot(clock))
      BY <1>0, <1>3, BentNextSlot
    <3>2. next = B!NextSlot(clock)
      BY <2>1
    <3> HIDE DEF next
    <3> QED
      BY <3>1, <3>2
  <2>2. CASE ~B!Missed(expected) /\ frame.queue # <<>>
    <3>1. Head(frame.queue) \in BentPackets
      BY <1>2, <2>2, HeadTailProperties
    <3>2. Head(frame.queue).ready \in Nat
      BY <3>1 DEF BentPackets
    <3>3. ready \in Nat
      <4> HIDE DEF eot
      <4> QED
        BY <1>4, <3>2 DEF B!Later
    <3>4. B!Later(ready, clock) \in Nat
      <4> HIDE DEF ready
      <4> QED
        BY <1>3, <3>3 DEF B!Later
    <3>5. next = B!NextSlot(B!Later(ready, clock))
      BY <2>2
    <3> DEFINE due == B!Later(ready, clock)
    <3>6. due \in Nat /\ next = B!NextSlot(due)
      BY <3>4, <3>5
    <3> HIDE DEF next, due
    <3>7. /\ B!NextSlot(due) \in Nat
          /\ B!Slotted => B!NextSlot(due) % chosen.slotSize = 0 /\ B!InSlot(B!NextSlot(due))
      BY <1>0, <3>6, BentNextSlot
    <3> QED
      BY <3>6, <3>7
  <2>3. CASE ~B!Missed(expected) /\ frame.queue = <<>>
    BY <2>3
  <2> QED
    BY <2>1, <2>2, <2>3
<1> HIDE DEF eot, ready, next
<1>7. BentArmed' /\ wakeup' \in Nat \cup {-1} /\ alarms' \subseteq alarms
  BY <1>5 DEF BentArmed
<1>8. BentTypes'
  BY <1>0, <1>2, <1>3, <1>4, <1>5, <1>7 DEF BentTypes, B!ConstantsOK
<1>9. BentAligned'
  BY <1>0, <1>7 DEF BentAligned, B!Slotted, B!InSlot
<1>10. /\ driving'.busy /\ driving'.bytes = frame.bytes /\ driving'.decided = clock
       /\ driving'.expected = expected /\ driving'.next = next
  BY <1>5
<1>11. B!WakeupComing'
  BY <1>5, <1>6, <1>10 DEF B!WakeupComing
<1>12. BentCall'
  <2>1. B!Slotted /\ frame.bytes > 0 =>
          \/ B!InSlot(clock)
          \/ expected \in relay_times /\ clock < expected + chosen.slotSize
    BY <1>0, <1>2, BentInSlot
  <2>2. driving'.next \in Nat \cup {-1} /\ driving'.bytes \in Nat /\ driving'.decided \in Nat
        /\ driving'.decided <= clock'
    BY <1>2, <1>3, <1>6, <1>10
  <2>3. B!Slotted' <=> B!Slotted
    BY DEF B!Slotted
  <2>4. B!Slotted' =>
         /\ driving'.next # -1 =>
              driving'.next % chosen'.slotSize = 0 /\ B!InSlot(driving.next)'
         /\ driving'.bytes > 0 => \/ B!InSlot(driving.decided)'
                                 \/ /\ driving'.expected \in relay_times'
                                    /\ driving'.decided < driving'.expected + chosen'.slotSize
    BY <1>6, <1>10, <2>1, <2>3 DEF B!InSlot
  <2> QED
    BY <1>10, <2>2, <2>4 DEF BentCall
<1>13. BentOrder'
  <2>1. frame.bytes > 0 => current_eot <= clock
    BY <1>2 DEF B!CanSend
  <2>2. last'.life = life' => last'.end - last'.start + last'.decided
           <= IF driving'.bytes > 0 THEN driving'.decided ELSE current_eot'
    <3>1. driving.bytes = 0
      BY <1>0 DEF BentCall, B!Drive, B!Idle
    <3>2. last.life = life => last.end - last.start + last.decided <= current_eot
      BY <1>0, <3>1 DEF BentOrder
    <3> QED
      BY <1>0, <1>2, <1>3, <1>5, <1>10, <2>1, <3>2 DEF BentOrder, eot
  <2>3. driving'.bytes > 0 => current_eot' = driving'.decided + B!AirTime(driving.bytes)'
    BY <1>5, <1>10 DEF eot, B!AirTime
  <2> QED
    BY <1>0, <2>2, <2>3 DEF BentOrder
<1> QED
  BY <1>7, <1>8, <1>9, <1>11, <1>12, <1>13 DEF BentInv, B!SlotDiscipline

(* drive sends what it decided on, and arms the timer. *)
LEMMA BentSendAndArm ==
  ASSUME BentInv, B!SendAndArm
  PROVE  BentInv' /\ B!SlotDiscipline
<1>0. BentTypes /\ BentArmed /\ BentAligned /\ BentCall /\ BentOrder /\ B!WakeupComing
  BY DEF BentInv
<1>1. /\ driving.busy /\ driving' = B!Idle
      /\ UNCHANGED <<clock, chosen, up, life, waiting, packet_sequence, current_eot, left_over,
                     offered, relay_times>>
      /\ IF driving.next # -1 THEN B!ScheduleTransmit(wakeup, alarms, driving.next)
         ELSE UNCHANGED <<wakeup, alarms>>
  BY DEF B!SendAndArm
<1>2. IF driving.bytes > 0
        THEN last' = [start |-> clock, end |-> clock + B!AirTime(driving.bytes),
                      decided |-> driving.decided, life |-> life,
                      expected |-> driving.expected]
        ELSE last' = last
  BY DEF B!SendAndArm
<1>3. /\ clock \in Nat /\ up \in BOOLEAN /\ alarms \subseteq Nat /\ life \in Nat
      /\ wakeup \in Nat \cup {-1} /\ (wakeup = -1 \/ wakeup \in alarms) /\ current_eot \in Nat
      /\ driving.next \in Nat \cup {-1} /\ driving.bytes \in Nat /\ driving.decided \in Nat
      /\ driving.decided <= clock
  BY <1>0 DEF BentTypes, BentArmed, BentCall
<1>4. /\ driving'.bytes = 0 /\ driving'.next = -1 /\ driving'.decided = 0
  BY <1>1 DEF B!Idle
<1>5. /\ wakeup' \in Nat \cup {-1} /\ alarms' \subseteq Nat /\ BentArmed'
      /\ BentAligned' /\ B!WakeupComing'
  <2>1. CASE driving.next # -1
    <3>1. /\ wakeup' \in Nat \cup {-1} /\ alarms' \subseteq Nat /\ BentArmed'
          /\ alarms' \subseteq alarms \cup {driving.next}
          /\ up => wakeup' \in alarms'
      BY <1>1, <1>3, <2>1, BentScheduled
    <3>2. B!Slotted => driving.next % chosen.slotSize = 0 /\ B!InSlot(driving.next)
      BY <1>0, <2>1 DEF BentCall
    <3>3. BentAligned'
      BY <1>0, <1>1, <3>1, <3>2, BentAlignedKept
    <3> QED
      BY <1>1, <3>1, <3>3 DEF B!WakeupComing
  <2>2. CASE driving.next = -1
    <3>1. UNCHANGED <<wakeup, alarms>>
      BY <1>1, <2>2
    <3>2. BentAligned'
      BY <1>0, <1>1, <3>1 DEF BentAligned, B!Slotted, B!InSlot
    <3>3. B!WakeupComing'
      BY <1>0, <1>1, <2>2, <3>1 DEF B!WakeupComing
    <3> QED
      BY <1>0, <1>3, <3>1, <3>2, <3>3 DEF BentArmed
  <2> QED
    BY <2>1, <2>2
<1>6. BentTypes'
  BY <1>0, <1>1, <1>5 DEF BentTypes, B!ConstantsOK
<1>7. BentCall'
  BY <1>1, <1>3, <1>4 DEF BentCall
<1>8. B!AirTime(driving.bytes) \in Nat
  BY <1>0, <1>3, BentAirTime
<1>9. BentOrder' /\ B!SlotDiscipline
  <2>1. CASE driving.bytes > 0
    <3>1. /\ last'.start = clock /\ last'.end = clock + B!AirTime(driving.bytes)
          /\ last'.decided = driving.decided /\ last'.life = life
          /\ last'.expected = driving.expected
      BY <1>2, <2>1
    <3>2. current_eot = driving.decided + B!AirTime(driving.bytes)
          /\ (last.life = life => last.end - last.start + last.decided <= driving.decided)
          /\ {last.start, last.decided, last.end} \subseteq Nat
      BY <1>0, <2>1 DEF BentOrder
    <3>3. BentOrder'
      BY <1>1, <1>3, <1>4, <1>8, <3>1, <3>2 DEF BentOrder
    <3>4. B!Slotted => \/ B!InSlot(last'.decided)
                       \/ /\ last'.expected \in relay_times
                          /\ last'.decided < last'.expected + chosen.slotSize
      BY <1>0, <2>1, <3>1 DEF BentCall
    <3>5. last'.life = last.life => last.end <= last'.decided + (last.start - last.decided)
      BY <1>3, <3>1, <3>2
    <3> QED
      BY <1>3, <3>1, <3>3, <3>4, <3>5 DEF B!SlotDiscipline
  <2>2. CASE ~(driving.bytes > 0)
    <3>1. last' = last
      BY <1>2, <2>2
    <3> QED
      BY <1>0, <1>1, <1>4, <2>2, <3>1 DEF BentOrder, B!SlotDiscipline
  <2> QED
    BY <2>1, <2>2
<1> QED
  BY <1>5, <1>6, <1>7, <1>9 DEF BentInv

(* A packet from above. *)
LEMMA BentDownstream ==
  ASSUME BentInv, NEW size \in Sizes, B!Downstream(size)
  PROVE  BentInv' /\ B!SlotDiscipline
<1>1. BentTypes /\ BentArmed
  BY DEF BentInv
<1>2. size \in Nat /\ clock \in Nat
  BY <1>1, BentSettingFacts DEF BentTypes
<1>3. B!Enqueue(size, clock) \in Seq(BentPackets)
  BY <1>1, <1>2, BentEnqueued
<1>4. offered' \in Nat /\ packet_sequence' \in Nat
  BY <1>1 DEF B!Downstream, B!Numbered, BentTypes
<1>5. /\ B!Drive(B!Enqueue(size, clock), wakeup, alarms, -1)
      /\ UNCHANGED <<clock, chosen, up, life, relay_times, last>>
  BY DEF B!Downstream
<1>6. wakeup \in Nat \cup {-1} /\ (wakeup = -1 \/ wakeup \in alarms)
  BY <1>1 DEF BentTypes, BentArmed
<1> QED
  BY <1>3, <1>4, <1>5, <1>6, BentDrives

(* What was decided on and sent stays as it is while time passes. *)
LEMMA BentCallKept ==
  ASSUME BentTypes, BentCall, BentOrder, clock' \in Nat, clock <= clock',
         UNCHANGED <<chosen, life, driving, current_eot, last>>,
         relay_times \subseteq relay_times'
  PROVE  BentCall' /\ BentOrder'
<1>1. driving.decided \in Nat /\ clock \in Nat
  BY DEF BentCall, BentTypes
<1>2. BentCall'
  BY <1>1 DEF BentCall, B!Slotted, B!InSlot
<1>3. BentOrder'
  BY DEF BentOrder, B!AirTime
<1> QED
  BY <1>2, <1>3

(* A relayed packet. *)
LEMMA BentRelay ==
  ASSUME BentInv, NEW size \in Sizes, NEW end \in clock..clock + 1, B!Relay(size, end)
  PROVE  BentInv' /\ B!SlotDiscipline
<1> DEFINE due == B!Later(end, clock) + chosen.delay
<1>1. BentTypes /\ BentArmed /\ BentAligned /\ BentCall /\ BentOrder /\ B!WakeupComing
  BY DEF BentInv
<1>2. size \in Nat /\ clock \in Nat /\ chosen.delay \in Nat
  BY <1>1, BentSettingFacts DEF BentTypes
<1>3. due \in Nat
  BY <1>2 DEF B!Later
<1> HIDE DEF due
<1>4. B!Enqueue(size, due) \in Seq(BentPackets)
  BY <1>1, <1>2, <1>3, BentEnqueued
<1>5. offered' \in Nat /\ packet_sequence' \in Nat
  BY <1>1 DEF B!Relay, B!Numbered, BentTypes
<1>6. wakeup \in Nat \cup {-1} /\ (wakeup = -1 \/ wakeup \in alarms)
  BY <1>1 DEF BentTypes, BentArmed
<1>7. UNCHANGED <<clock, chosen, up, life, last>>
  BY DEF B!Relay
<1>8. CASE due <= clock
  <2>1. B!Drive(B!Enqueue(size, due), wakeup, alarms, -1) /\ UNCHANGED relay_times
    BY <1>8 DEF B!Relay, due
  <2> QED
    BY <1>4, <1>5, <1>6, <1>7, <2>1, BentDrives
<1>9. CASE ~(due <= clock)
  <2>1. /\ waiting' = B!Enqueue(size, due) /\ B!ScheduleTransmit(wakeup, alarms, due)
        /\ relay_times' = relay_times \cup {due}
        /\ UNCHANGED <<current_eot, driving, left_over>>
    BY <1>9 DEF B!Relay, due
  <2>2. /\ wakeup' \in Nat \cup {-1} /\ alarms' \subseteq Nat /\ BentArmed'
        /\ alarms' \subseteq alarms \cup {due}
        /\ up => wakeup' \in alarms'
    BY <1>1, <1>3, <1>6, <2>1, BentScheduled DEF BentTypes
  <2>3. BentAligned'
    BY <1>1, <1>7, <2>1, <2>2, BentAlignedKept
  <2>4. BentTypes'
    BY <1>1, <1>4, <1>5, <1>7, <2>1, <2>2 DEF BentTypes, B!ConstantsOK
  <2>5. BentCall' /\ BentOrder'
    BY <1>1, <1>7, <2>1, BentCallKept DEF BentTypes
  <2>6. B!WakeupComing' /\ B!SlotDiscipline
    BY <1>1, <1>7, <2>1, <2>2 DEF B!WakeupComing, B!SlotDiscipline
  <2> QED
    BY <2>2, <2>3, <2>4, <2>5, <2>6 DEF BentInv
<1> QED
  BY <1>8, <1>9

(* A transmit timer. *)
LEMMA BentTimed ==
  ASSUME BentInv, NEW t \in alarms, B!TransmitWakeup(t)
  PROVE  BentInv' /\ B!SlotDiscipline
<1>1. BentTypes /\ BentArmed /\ BentAligned /\ BentCall /\ BentOrder /\ B!WakeupComing
  BY DEF BentInv
<1>2. UNCHANGED <<clock, chosen, up, life, packet_sequence, offered, relay_times, last>>
  BY DEF B!TransmitWakeup
<1>3. CASE t = wakeup
  <2>1. B!Drive(waiting, -1, alarms \ {t}, t)
    BY <1>3 DEF B!TransmitWakeup
  <2>2. waiting \in Seq(BentPackets) /\ offered' \in Nat /\ packet_sequence' \in Nat
    BY <1>1, <1>2 DEF BentTypes
  <2> QED
    BY <1>2, <2>1, <2>2, BentDrives
<1>4. CASE t # wakeup
  <2>1. alarms' = alarms \ {t} /\ UNCHANGED <<waiting, current_eot, wakeup, driving, left_over>>
    BY <1>4 DEF B!TransmitWakeup
  <2>2. BentTypes'
    BY <1>1, <1>2, <2>1 DEF BentTypes, B!ConstantsOK
  <2>3. BentAligned'
    BY <1>1, <1>2, <2>1, BentAlignedKept
  <2>4. BentArmed' /\ B!WakeupComing' /\ B!SlotDiscipline
    BY <1>1, <1>2, <1>4, <2>1 DEF BentArmed, B!WakeupComing, B!SlotDiscipline
  <2>5. BentCall' /\ BentOrder'
    BY <1>1, <1>2, <2>1, BentCallKept DEF BentTypes
  <2> QED
    BY <2>2, <2>3, <2>4, <2>5 DEF BentInv
<1> QED
  BY <1>3, <1>4

(* The sender stops, starts, or is a new process. *)
LEMMA BentRestarts ==
  ASSUME BentInv, B!Stop \/ B!Start \/ B!NewProcess
  PROVE  BentInv' /\ B!SlotDiscipline
<1>1. BentTypes /\ BentArmed /\ BentAligned /\ BentCall /\ BentOrder /\ B!WakeupComing
  BY DEF BentInv
<1>2. CASE B!Stop
  <2>1. /\ UNCHANGED <<clock, chosen, life, packet_sequence, current_eot, driving, left_over,
                       offered, relay_times, last>>
        /\ up' = FALSE /\ waiting' = <<>> /\ wakeup' = -1 /\ alarms' = {}
    BY <1>2 DEF B!Stop
  <2>2. BentTypes'
    <3>1. life' \in Nat /\ waiting' \in Seq(BentPackets)
      BY <1>1, <2>1 DEF BentTypes
    <3> QED
      BY <1>1, <2>1, <3>1 DEF BentTypes, B!ConstantsOK
  <2>3. BentCall' /\ BentOrder'
    BY <1>1, <2>1, BentCallKept DEF BentTypes
  <2> QED
    BY <1>1, <2>1, <2>2, <2>3
    DEF BentInv, BentArmed, BentAligned, B!WakeupComing, B!SlotDiscipline
<1>3. CASE B!Start
  <2>1. /\ UNCHANGED <<clock, chosen, life, waiting, packet_sequence, current_eot, wakeup,
                       alarms, driving, offered, relay_times, last>>
        /\ up' = TRUE /\ left_over' = (waiting # <<>>)
    BY <1>3 DEF B!Start
  <2>2. BentTypes'
    BY <1>1, <2>1 DEF BentTypes, B!ConstantsOK
  <2>3. BentAligned'
    BY <1>1, <2>1 DEF BentAligned, B!Slotted, B!InSlot
  <2>4. BentCall' /\ BentOrder'
    BY <1>1, <2>1, BentCallKept DEF BentTypes
  <2> QED
    BY <1>1, <2>1, <2>2, <2>3, <2>4
    DEF BentInv, BentArmed, B!WakeupComing, B!SlotDiscipline
<1>4. CASE B!NewProcess
  <2>1. /\ UNCHANGED <<clock, chosen, offered, last>>
        /\ life' = life + 1 /\ up' = TRUE /\ waiting' = <<>> /\ packet_sequence' = 0
        /\ current_eot' = 0 /\ wakeup' = -1 /\ alarms' = {} /\ driving' = B!Idle
    BY <1>4 DEF B!NewProcess
  <2>2. BentTypes'
    BY <1>1, <2>1 DEF BentTypes, B!ConstantsOK
  <2>3. driving'.bytes = 0 /\ driving'.next = -1 /\ driving'.decided = 0
    BY <2>1 DEF B!Idle
  <2>4. BentCall'
    BY <1>1, <2>1, <2>3 DEF BentCall, BentTypes
  <2>5. BentOrder'
    BY <1>1, <2>1, <2>3 DEF BentOrder, BentTypes
  <2> QED
    BY <1>1, <2>1, <2>2, <2>3, <2>4, <2>5
    DEF BentInv, BentArmed, BentAligned, B!WakeupComing, B!SlotDiscipline
<1> QED
  BY <1>2, <1>3, <1>4

(* What leaves the sender alone, the clock apart. *)
LEMMA BentSenderKept ==
  ASSUME BentInv, UNCHANGED <<chosen, B!sender>>, clock' \in Nat, clock <= clock'
  PROVE  BentInv' /\ B!SlotDiscipline
<1>1. BentTypes /\ BentArmed /\ BentAligned /\ BentCall /\ BentOrder /\ B!WakeupComing
  BY DEF BentInv
<1>2. UNCHANGED <<up, life, waiting, packet_sequence, current_eot, wakeup, alarms, driving,
                  left_over, offered, relay_times, last>>
  BY DEF B!sender
<1>3. BentTypes'
  BY <1>1, <1>2 DEF BentTypes, B!ConstantsOK
<1>4. BentAligned'
  BY <1>1, <1>2 DEF BentAligned, B!Slotted, B!InSlot
<1>5. BentCall' /\ BentOrder'
  BY <1>1, <1>2, BentCallKept
<1> QED
  BY <1>1, <1>2, <1>3, <1>4, <1>5
  DEF BentInv, BentArmed, B!WakeupComing, B!SlotDiscipline

(* The model starts with nothing queued and nothing sent. *)
LEMMA BentInit ==
  ASSUME B!ConstantsOK, B!Init
  PROVE  BentInv
<1>1. /\ clock = 0 /\ chosen \in BentSettings /\ up = TRUE /\ life = 1 /\ waiting = <<>>
      /\ packet_sequence = 0 /\ current_eot = 0 /\ wakeup = -1 /\ alarms = {} /\ offered = 0
      /\ last = B!NoFrame /\ driving = B!Idle
  BY DEF B!Init
<1>2. BentTypes
  BY <1>1 DEF BentTypes
<1>3. /\ last.life = 0 /\ last.start = 0 /\ last.end = 0 /\ last.decided = 0
      /\ driving.bytes = 0 /\ driving.next = -1 /\ driving.decided = 0
  BY <1>1 DEF B!NoFrame, B!Idle
<1> QED
  BY <1>1, <1>2, <1>3
  DEF BentInv, BentArmed, BentAligned, BentCall, BentOrder, B!WakeupComing

(* Every step keeps the invariant and the slots. *)
LEMMA BentNext ==
  ASSUME BentInv, B!Next
  PROVE  BentInv' /\ B!SlotDiscipline
<1>1. CASE \E size \in Sizes : B!Downstream(size)
                               \/ \E end \in clock..clock + 1 : B!Relay(size, end)
  BY <1>1, BentDownstream, BentRelay
<1>2. CASE \E t \in alarms : B!TransmitWakeup(t)
  BY <1>2, BentTimed
<1>8. CASE B!SendAndArm
  BY <1>8, BentSendAndArm
<1>3. CASE B!Stop \/ B!Start \/ B!NewProcess
  BY <1>3, BentRestarts
<1>4. clock \in Nat
  BY DEF BentInv, BentTypes
<1>5. CASE B!Tick
  BY <1>4, <1>5, BentSenderKept DEF B!Tick
<1>6. CASE \E f \in air : B!Lose(f) \/ \E received \in BOOLEAN : B!Upstream(f, received)
  BY <1>4, <1>6, BentSenderKept DEF B!Lose, B!Upstream
<1>7. CASE (\E r \in receptions : B!Receive(r)) \/ B!ReassemblyCheck \/ B!RestartReceiver
  BY <1>4, <1>7, BentSenderKept DEF B!Receive, B!ReassemblyCheck, B!RestartReceiver
<1> QED
  BY <1>1, <1>2, <1>3, <1>5, <1>6, <1>7, <1>8 DEF B!Next
-----------------------------------------------------------------------------
(***************************************************************************)
(* The metrics of neighbours and queues.                                   *)
(***************************************************************************)
MetricData ==
    [lastSeq : Nat, heard : BOOLEAN, lastRx : Nat, rx : Nat, missed : Nat, tx : Nat,
     busy : Nat, rxRate : Nat, txRate : Nat]

MetricNotes ==
    [rx : Nat, tx : Nat, late : Nat, zero : {"none", "first", "late"},
     irregular : BOOLEAN, removed : BOOLEAN,
     reported : [rx : Nat, tx : Nat, missed : Nat],
     status : [rx : Nat, tx : Nat, missed : Nat]]

(* An average rate lies between rates of frames. *)
RateRight(count, rate) == count > 0 => \E lo, hi \in Rates : rate \in lo..hi

DataOK(d) == d \in MetricData /\ RateRight(d.rx, d.rxRate) /\ RateRight(d.tx, d.txRate)

AccountOK(accounts) == \A i \in DOMAIN accounts : DataOK(accounts[i])

MetricTypes ==
    /\ M!ConstantsOK /\ clock \in Nat /\ lastReport \in Nat /\ lastReport <= clock
    /\ lateReport \in BOOLEAN /\ last_sent \in [Neighbors -> Nat]
    /\ air \subseteq Neighbors \X Nat
    /\ AccountOK(r2ri) /\ AccountOK(interval) /\ AccountOK(totals)
    /\ noted \in [M!Indices -> MetricNotes]

QueuesFit ==
    \A q \in DOMAIN queues : /\ queues[q].max \in Nat /\ queues[q].highWater \in Nat
                             /\ queues[q].highWater <= queues[q].max

(* What the next report tells was received after the last one. *)
ReportsRecent ==
    \A n \in Neighbors : M!Lookup(r2ri, n).rx > 0 => M!Lookup(r2ri, n).lastRx >= lastReport

(* The numbers received of a neighbour, 0 apart: none above the highest    *)
(* one, which is among them, and none still on its way.                    *)
Distinct(n, numbers) ==
    /\ numbers \subseteq 1..M!Lookup(totals, n).lastSeq
    /\ Cardinality(numbers) = M!Lookup(totals, n).rx - M!ZeroCame(n)
    /\ M!Lookup(totals, n).lastSeq \in numbers \cup {0}
    /\ \A s \in numbers : <<n, s>> \notin air
    /\ noted[n].zero # "none" => <<n, 0>> \notin air

(* What came and what is on its way was sent. *)
Sequenced(n) ==
    /\ M!Lookup(totals, n).lastSeq < last_sent[n] \/ M!Lookup(totals, n).lastSeq = 0
    /\ noted[n].zero # "none" => last_sent[n] > 0
    /\ \A s : <<n, s>> \in air => s < last_sent[n]

(* As long as a neighbour numbers its frames regularly. *)
NumbersKnown ==
    \A n \in Neighbors :
       ~noted[n].irregular =>
          /\ Sequenced(n)
          /\ \E numbers : Distinct(n, numbers)
          /\ ~noted[n].removed => M!Lookup(r2ri, n).lastSeq = M!Lookup(totals, n).lastSeq

(* The totals are what happened, and the table shows them. *)
TotalsTrue ==
    \A i \in M!Indices :
       /\ M!Lookup(totals, i).rx = noted[i].rx /\ M!Lookup(totals, i).tx = noted[i].tx
       /\ i \in DOMAIN totals => i \in DOMAIN table /\ table[i] = M!MetricStatus(totals[i])

MetricInv ==
    /\ MetricTypes /\ QueuesFit /\ ReportsRecent /\ NumbersKnown /\ TotalsTrue
    /\ M!ReportsComplete /\ M!MissedRight

(* What is looked up is an account entry. *)
LEMMA MetricLookup ==
  ASSUME NEW accounts, AccountOK(accounts), NEW i
  PROVE  DataOK(M!Lookup(accounts, i)) /\ M!Lookup(accounts, i) \in MetricData
<1>1. DataOK(M!NeighborData) /\ M!NeighborData \in MetricData
  BY DEF DataOK, MetricData, RateRight, M!NeighborData
<1> QED
  BY <1>1 DEF AccountOK, M!Lookup, DataOK

(* One entry is replaced. *)
LEMMA MetricWith ==
  ASSUME NEW accounts, NEW i, NEW d
  PROVE  /\ DOMAIN M!With(accounts, i, d) = DOMAIN accounts \cup {i}
         /\ M!With(accounts, i, d)[i] = d
         /\ \A j \in DOMAIN accounts : j # i => M!With(accounts, i, d)[j] = accounts[j]
         /\ \A j : M!Lookup(M!With(accounts, i, d), j)
                     = IF j = i THEN d ELSE M!Lookup(accounts, j)
         /\ AccountOK(accounts) /\ DataOK(d) => AccountOK(M!With(accounts, i, d))
  BY DEF M!With, M!Lookup, AccountOK

(* The average of an average and a rate lies between them. *)
LEMMA MetricAverage ==
  ASSUME NEW avg \in Nat, NEW c \in Nat \ {0}, NEW rate \in Nat, NEW lo \in Nat, NEW hi \in Nat,
         lo <= avg, avg <= hi, lo <= rate, rate <= hi
  PROVE  (avg * c + rate) \div (c + 1) \in lo..hi
<1> DEFINE D == c + 1
           X == avg * c + rate
           Q == X \div D
<1>1. D \in Nat \ {0} /\ X \in Nat
  OBVIOUS
<1>2. lo * c <= avg * c /\ avg * c <= hi * c /\ lo * c \in Nat /\ hi * c \in Nat
      /\ avg * c \in Nat
  OBVIOUS
<1>3. lo * D = lo * c + lo /\ hi * D = hi * c + hi
  OBVIOUS
<1>4. lo * D <= X /\ X <= hi * D
  BY <1>2, <1>3
<1> HIDE DEF D, X
<1>5. lo <= Q
  BY <1>1, <1>4, SlotOfTime
<1>6. Q \in Nat /\ Q * D <= X
  BY <1>1, Divided
<1> HIDE DEF Q
<1>7. ~(Q >= hi + 1)
  <2>1. ASSUME Q >= hi + 1
        PROVE  FALSE
    <3>1. Q * D >= (hi + 1) * D
      BY <1>1, <1>6, <2>1
    <3>2. (hi + 1) * D = hi * D + 1 * D /\ 1 * D = D
      BY <1>1, Multiples
    <3>3. Q * D \in Nat /\ hi * D \in Nat
      BY <1>1, <1>6
    <3> QED
      BY <1>1, <1>4, <1>6, <3>1, <3>2, <3>3
  <2> QED
    BY <2>1
<1>8. Q \in lo..hi
  BY <1>5, <1>6, <1>7
<1> QED
  BY <1>8 DEF Q, X, D

(* The running average stays between the rates of frames. *)
LEMMA MetricRunning ==
  ASSUME M!ConstantsOK, NEW avg \in Nat, NEW count \in Nat, NEW rate \in Rates,
         RateRight(count, avg)
  PROVE  /\ M!RunningAverage(avg, count + 1, rate) \in Nat
         /\ RateRight(count + 1, M!RunningAverage(avg, count + 1, rate))
<1>1. Rates \subseteq Nat
  BY DEF M!ConstantsOK
<1>2. CASE count = 0
  <2>1. M!RunningAverage(avg, count + 1, rate) = rate
    BY <1>2 DEF M!RunningAverage
  <2> QED
    BY <1>1, <2>1 DEF RateRight
<1>3. CASE count # 0
  <2>1. PICK lo \in Rates, hi \in Rates : avg \in lo..hi
    BY <1>3 DEF RateRight
  <2>2. M!RunningAverage(avg, count + 1, rate) = (avg * count + rate) \div (count + 1)
    BY <1>3 DEF M!RunningAverage
  <2>3. PICK low \in Rates, high \in Rates :
          low <= avg /\ avg <= high /\ low <= rate /\ rate <= high
    BY <1>1, <2>1
  <2>4. (avg * count + rate) \div (count + 1) \in low..high
    BY <1>1, <1>3, <2>3, MetricAverage
  <2>5. M!RunningAverage(avg, count + 1, rate) \in low..high
    BY <2>2, <2>4
  <2> QED
    BY <1>1, <2>5 DEF RateRight
<1> QED
  BY <1>2, <1>3

(* The fields of an account entry. *)
LEMMA MetricFields ==
  ASSUME NEW d \in MetricData
  PROVE  /\ d.lastSeq \in Nat /\ d.lastRx \in Nat /\ d.rx \in Nat /\ d.missed \in Nat
         /\ d.tx \in Nat /\ d.busy \in Nat /\ d.rxRate \in Nat /\ d.txRate \in Nat
  BY DEF MetricData

(* What a reception does to an account entry. *)
LEMMA MetricReceived ==
  ASSUME M!ConstantsOK, clock \in Nat, NEW d, DataOK(d), NEW seq \in Nat,
         NEW rate \in Rates
  PROVE  LET e == M!Received(d, seq, rate) IN
         /\ DataOK(e) /\ e.rx = d.rx + 1 /\ e.tx = d.tx /\ e.lastRx = clock
         /\ e.missed = M!Missed(d, seq)
         /\ e.lastSeq = IF seq > d.lastSeq THEN seq ELSE d.lastSeq
<1> DEFINE a == M!UpdateRxActivity(d, seq, clock)
           e == M!Received(d, seq, rate)
           missed == M!Missed(d, seq)
           high == IF seq > d.lastSeq THEN seq ELSE d.lastSeq
           average == M!RunningAverage(d.rxRate, d.rx + 1, rate)
           count == d.rx + 1
<1>1. d \in MetricData /\ RateRight(d.rx, d.rxRate) /\ RateRight(d.tx, d.txRate)
  BY DEF DataOK
<1>2. /\ d.lastSeq \in Nat /\ d.rx \in Nat /\ d.missed \in Nat /\ d.rxRate \in Nat
  BY <1>1, MetricFields
<1>3. missed \in Nat /\ high \in Nat /\ count \in Nat
  BY <1>2 DEF M!Missed
<1>4. average \in Nat /\ RateRight(count, average)
  BY <1>1, <1>2, MetricRunning
<1>5. a = [d EXCEPT !.missed = missed, !.lastSeq = high, !.rx = count, !.lastRx = clock,
                    !.heard = TRUE]
  BY DEF M!UpdateRxActivity
<1> HIDE DEF missed, high, average, a
<1>6. /\ a \in MetricData /\ a.missed = missed /\ a.lastSeq = high /\ a.rx = count
      /\ a.lastRx = clock /\ a.tx = d.tx /\ a.txRate = d.txRate /\ a.rxRate = d.rxRate
  <2> HIDE DEF count
  <2> QED
    BY <1>1, <1>3, <1>5 DEF MetricData
<1>7. e = [a EXCEPT !.busy = a.busy + 1, !.rxRate = average]
  BY <1>6 DEF M!Received, M!UpdateRxChannel, a, average
<1>8. a.busy + 1 \in Nat
  BY <1>6, MetricFields
<1> DEFINE busy == a.busy + 1
<1> HIDE DEF e, count, busy
<1>9. /\ e \in MetricData /\ e.missed = a.missed /\ e.lastSeq = a.lastSeq
      /\ e.rx = a.rx /\ e.lastRx = a.lastRx /\ e.tx = a.tx /\ e.txRate = a.txRate
      /\ e.rxRate = average
  <2>1. busy \in Nat /\ e = [a EXCEPT !.busy = busy, !.rxRate = average]
    BY <1>7, <1>8 DEF busy
  <2> QED
    BY <1>4, <1>6, <2>1 DEF MetricData
<1>10. DataOK(e)
  BY <1>1, <1>4, <1>6, <1>9 DEF DataOK
<1> QED
  BY <1>6, <1>9, <1>10 DEF e, missed, high, count

(* What a transmission does to an account entry. *)
LEMMA MetricSent ==
  ASSUME M!ConstantsOK, NEW d, DataOK(d), NEW rate \in Rates
  PROVE  LET e == M!UpdateTxActivity(d, rate) IN
         /\ DataOK(e) /\ e.rx = d.rx /\ e.tx = d.tx + 1 /\ e.lastRx = d.lastRx
         /\ e.missed = d.missed /\ e.lastSeq = d.lastSeq
<1> DEFINE e == M!UpdateTxActivity(d, rate)
           average == M!RunningAverage(d.txRate, d.tx + 1, rate)
           count == d.tx + 1
<1>1. d \in MetricData /\ RateRight(d.rx, d.rxRate) /\ RateRight(d.tx, d.txRate)
  BY DEF DataOK
<1>2. d.tx \in Nat /\ d.txRate \in Nat
  BY <1>1, MetricFields
<1>3. count \in Nat /\ average \in Nat /\ RateRight(count, average)
  BY <1>1, <1>2, MetricRunning
<1>4. e = [d EXCEPT !.tx = count, !.txRate = average]
  BY DEF M!UpdateTxActivity
<1> HIDE DEF e, average, count
<1>5. /\ e \in MetricData /\ e.missed = d.missed /\ e.lastSeq = d.lastSeq
      /\ e.rx = d.rx /\ e.lastRx = d.lastRx /\ e.tx = count /\ e.txRate = average
      /\ e.rxRate = d.rxRate
  BY <1>1, <1>3, <1>4 DEF MetricData
<1>6. DataOK(e)
  BY <1>1, <1>3, <1>5 DEF DataOK
<1> QED
  BY <1>5, <1>6 DEF e, count

(* What a report does to an account entry. *)
LEMMA MetricCleared ==
  ASSUME NEW d, DataOK(d)
  PROVE  LET e == M!ClearData(d) IN
         /\ DataOK(e) /\ e.rx = 0 /\ e.tx = 0 /\ e.missed = 0 /\ e.lastSeq = d.lastSeq
<1> DEFINE e == M!ClearData(d)
<1>1. d \in MetricData
  BY DEF DataOK
<1>2. e \in MetricData /\ e.rx = 0 /\ e.tx = 0 /\ e.missed = 0 /\ e.lastSeq = d.lastSeq
  BY <1>1 DEF MetricData, M!ClearData
<1> HIDE DEF e
<1>3. DataOK(e)
  BY <1>2 DEF DataOK, RateRight
<1> QED
  BY <1>2, <1>3 DEF e

(* No account holds anything in the beginning. *)
LEMMA MetricInit ==
  ASSUME M!ConstantsOK, M!Init
  PROVE  MetricInv
<1>1. /\ clock = StartTime /\ last_sent = [n \in Neighbors |-> 0] /\ air = {} /\ r2ri = <<>>
      /\ interval = <<>> /\ totals = <<>> /\ queues = <<>>
      /\ noted = [i \in M!Indices |-> M!NoHistory] /\ lastReport = StartTime
      /\ lateReport = FALSE
  BY DEF M!Init
<1>2. DOMAIN <<>> = {} /\ StartTime \in Nat
  BY DEF M!ConstantsOK
<1>3. MetricTypes
  <2>1. M!NoHistory \in MetricNotes
    BY DEF M!NoHistory, MetricNotes
  <2>2. AccountOK(r2ri) /\ AccountOK(interval) /\ AccountOK(totals)
    BY <1>1, <1>2 DEF AccountOK
  <2>3. noted \in [M!Indices -> MetricNotes] /\ last_sent \in [Neighbors -> Nat]
    BY <1>1, <2>1
  <2>4. clock \in Nat /\ lastReport \in Nat /\ lastReport <= clock
    BY <1>1, <1>2
  <2>5. lateReport \in BOOLEAN /\ air \subseteq Neighbors \X Nat
    BY <1>1
  <2> QED
    BY <2>2, <2>3, <2>4, <2>5 DEF MetricTypes
<1>4. QueuesFit
  BY <1>1, <1>2 DEF QueuesFit
<1>5. \A i : /\ M!Lookup(r2ri, i) = M!NeighborData /\ M!Lookup(interval, i) = M!NeighborData
             /\ M!Lookup(totals, i) = M!NeighborData
  BY <1>1, <1>2 DEF M!Lookup
<1>6. M!NeighborData.rx = 0 /\ M!NeighborData.tx = 0 /\ M!NeighborData.missed = 0
      /\ M!NeighborData.lastSeq = 0
  BY DEF M!NeighborData
<1>7. \A i \in M!Indices : /\ noted[i].rx = 0 /\ noted[i].tx = 0 /\ noted[i].late = 0
                           /\ noted[i].reported = [rx |-> 0, tx |-> 0, missed |-> 0]
                           /\ noted[i].status = [rx |-> 0, tx |-> 0, missed |-> 0]
  BY <1>1 DEF M!NoHistory
<1>11. Neighbors \subseteq M!Indices
  BY DEF M!Indices
<1>14. \A i \in M!Indices : noted[i].zero = "none"
  BY <1>1 DEF M!NoHistory
<1>8. ReportsRecent
  BY <1>5, <1>6 DEF ReportsRecent
<1>9. NumbersKnown
  <2>1. ASSUME NEW n \in Neighbors
        PROVE  Distinct(n, {})
    BY <1>1, <1>5, <1>6, <1>11, <1>14, FS_EmptySet DEF Distinct, M!ZeroCame
  <2> QED
    BY <1>1, <1>5, <1>6, <1>11, <1>14, <2>1 DEF NumbersKnown, Sequenced
<1>10. TotalsTrue
  BY <1>1, <1>2, <1>5, <1>6, <1>7 DEF TotalsTrue
<1>12. M!ReportsComplete
  BY <1>5, <1>6, <1>7, <1>11 DEF M!ReportsComplete, M!Sum, M!Pending
<1>13. M!MissedRight
  <2>1. \A n \in Neighbors : M!Gaps(n) = 0 /\ M!Sum(n, "missed") = 0
    BY <1>5, <1>6, <1>7, <1>11, <1>14 DEF M!Gaps, M!ZeroCame, M!Sum, M!Pending
  <2> QED
    BY <1>5, <1>6, <1>7, <1>11, <2>1 DEF M!MissedRight
<1> QED
  BY <1>3, <1>4, <1>8, <1>9, <1>10, <1>12, <1>13 DEF MetricInv

(* The accounts of an index. *)
LEMMA MetricEntries ==
  ASSUME MetricTypes, NEW i
  PROVE  /\ DataOK(M!Lookup(r2ri, i)) /\ M!Lookup(r2ri, i) \in MetricData
         /\ DataOK(M!Lookup(interval, i)) /\ M!Lookup(interval, i) \in MetricData
         /\ DataOK(M!Lookup(totals, i)) /\ M!Lookup(totals, i) \in MetricData
  BY MetricLookup DEF MetricTypes

(* What was noted of an index. *)
LEMMA MetricNoted ==
  ASSUME NEW h \in MetricNotes
  PROVE  /\ h.rx \in Nat /\ h.tx \in Nat /\ h.late \in Nat
         /\ h.zero \in {"none", "first", "late"}
         /\ h.irregular \in BOOLEAN /\ h.removed \in BOOLEAN
         /\ h.reported.rx \in Nat /\ h.reported.tx \in Nat /\ h.reported.missed \in Nat
         /\ h.status.rx \in Nat /\ h.status.tx \in Nat
  BY DEF MetricNotes

(* Steps that leave the accounts alone. *)
LEMMA MetricKept ==
  ASSUME UNCHANGED <<r2ri, interval, totals, table, noted, lastReport, lateReport>>
  PROVE  /\ ReportsRecent => ReportsRecent'
         /\ TotalsTrue => TotalsTrue'
         /\ M!ReportsComplete => M!ReportsComplete'
         /\ M!MissedRight => M!MissedRight'
<1>1. \A i : /\ M!Lookup(r2ri', i) = M!Lookup(r2ri, i)
             /\ M!Lookup(interval', i) = M!Lookup(interval, i)
             /\ M!Lookup(totals', i) = M!Lookup(totals, i)
  OBVIOUS
<1>2. ReportsRecent => ReportsRecent'
  BY DEF ReportsRecent
<1>3. TotalsTrue => TotalsTrue'
  BY DEF TotalsTrue
<1>4. M!ReportsComplete => M!ReportsComplete'
  BY DEF M!ReportsComplete, M!Sum, M!Pending
<1>5. M!MissedRight => M!MissedRight'
  BY DEF M!MissedRight, M!Gaps, M!ZeroCame, M!Sum, M!Pending
<1> QED
  BY <1>2, <1>3, <1>4, <1>5

(* The clock, and the queues. *)
LEMMA MetricQuiet ==
  ASSUME MetricInv,
         M!Tick \/ \E q \in Queues, s \in QueueSamples : M!UpdateQueueMetric(q, s)
  PROVE  MetricInv'
<1>0. /\ MetricTypes /\ QueuesFit /\ ReportsRecent /\ NumbersKnown /\ TotalsTrue
      /\ M!ReportsComplete /\ M!MissedRight
  BY DEF MetricInv
<1>1. /\ UNCHANGED <<last_sent, air, r2ri, interval, totals, table, noted, lastReport, lateReport>>
      /\ clock' \in {clock, clock + 1}
  BY DEF M!Tick, M!UpdateQueueMetric
<1>2. NumbersKnown'
  BY <1>0, <1>1 DEF NumbersKnown, Distinct, Sequenced, M!ZeroCame
<1>3. MetricTypes'
  <2>1. clock' \in Nat /\ lastReport' <= clock'
    BY <1>0, <1>1 DEF MetricTypes
  <2> QED
    BY <1>0, <1>1, <2>1 DEF MetricTypes, M!ConstantsOK, AccountOK
<1>4. QueuesFit'
  <2>1. CASE M!Tick
    BY <1>0, <2>1 DEF M!Tick, QueuesFit
  <2>2. CASE \E q \in Queues, s \in QueueSamples : M!UpdateQueueMetric(q, s)
    <3>1. PICK q \in Queues, s \in QueueSamples : M!UpdateQueueMetric(q, s)
      BY <2>2
    <3> DEFINE old == IF q \in DOMAIN queues THEN queues[q] ELSE M!QueueData
               new == M!QueueUpdated(old, s)
    <3>2. queues' = M!With(queues, q, new)
      BY <3>1 DEF M!UpdateQueueMetric
    <3>3. s.max \in Nat /\ s.depth \in Nat /\ s.depth <= s.max
      BY <1>0 DEF MetricTypes, M!ConstantsOK
    <3>4. old.max \in Nat /\ old.highWater \in Nat /\ old.highWater <= old.max
      BY <1>0 DEF QueuesFit, M!QueueData
    <3>5. new.max \in Nat /\ new.highWater \in Nat /\ new.highWater <= new.max
      <4> HIDE DEF old
      <4> QED
        BY <3>3, <3>4 DEF M!QueueUpdated
    <3> HIDE DEF new
    <3>6. /\ DOMAIN queues' = DOMAIN queues \cup {q} /\ queues'[q] = new
          /\ \A x \in DOMAIN queues : x # q => queues'[x] = queues[x]
      BY <3>2 DEF M!With
    <3> QED
      BY <1>0, <3>5, <3>6 DEF QueuesFit
  <2> QED
    BY <2>1, <2>2
<1> QED
  BY <1>0, <1>1, <1>2, <1>3, <1>4, MetricKept DEF MetricInv

(* A neighbour sends a frame. *)
LEMMA MetricSends ==
  ASSUME MetricInv, NEW n \in Neighbors, M!NeighborSends(n)
  PROVE  MetricInv'
<1>0. /\ MetricTypes /\ QueuesFit /\ ReportsRecent /\ NumbersKnown /\ TotalsTrue
      /\ M!ReportsComplete /\ M!MissedRight
  BY DEF MetricInv
<1>1. /\ last_sent' = [last_sent EXCEPT ![n] = @ + 1]
      /\ air' = air \cup {<<n, last_sent[n]>>}
      /\ UNCHANGED <<clock, r2ri, interval, totals, table, queues, noted, lastReport, lateReport>>
  BY DEF M!NeighborSends
<1>2. last_sent \in [Neighbors -> Nat] /\ last_sent[n] \in Nat
  BY <1>0 DEF MetricTypes
<1>3. \A m \in Neighbors : last_sent'[m] = IF m = n THEN last_sent[n] + 1 ELSE last_sent[m]
  BY <1>1, <1>2
<1>4. MetricTypes'
  <2>1. last_sent' \in [Neighbors -> Nat]
    BY <1>1, <1>2
  <2>2. air' \subseteq Neighbors \X Nat
    BY <1>0, <1>1, <1>2 DEF MetricTypes
  <2> QED
    BY <1>0, <1>1, <2>1, <2>2 DEF MetricTypes, M!ConstantsOK, AccountOK
<1>5. NumbersKnown'
  <2> SUFFICES ASSUME NEW m \in Neighbors, ~noted[m].irregular
               PROVE  /\ Sequenced(m)'
                      /\ \E numbers : Distinct(m, numbers)'
                      /\ ~noted[m].removed => M!Lookup(r2ri, m).lastSeq = M!Lookup(totals, m).lastSeq
    BY <1>1 DEF NumbersKnown
  <2>1. /\ Sequenced(m)
        /\ ~noted[m].removed => M!Lookup(r2ri, m).lastSeq = M!Lookup(totals, m).lastSeq
    BY <1>0 DEF NumbersKnown
  <2>2. PICK numbers : Distinct(m, numbers)
    BY <1>0 DEF NumbersKnown
  <2>3. M!Lookup(totals, m).lastSeq \in Nat /\ last_sent[m] \in Nat
    BY <1>0, <1>2, MetricEntries, MetricFields
  <2>4. Distinct(m, numbers)'
    <3>1. \A s \in numbers : s \in Nat /\ s <= M!Lookup(totals, m).lastSeq /\ s # 0
      BY <2>2, <2>3 DEF Distinct
    <3>2. \A s \in numbers : s < last_sent[m]
      BY <2>1, <2>3, <3>1 DEF Sequenced
    <3>3. \A s \in numbers : <<m, s>> \notin air'
      BY <1>1, <2>2, <2>3, <3>1, <3>2 DEF Distinct
    <3>4. noted[m].zero # "none" => <<m, 0>> \notin air'
      BY <1>1, <2>1, <2>2, <2>3 DEF Distinct, Sequenced
    <3> QED
      BY <1>1, <2>2, <3>3, <3>4 DEF Distinct, M!ZeroCame
  <2>5. Sequenced(m)'
    <3>1. \A s : <<m, s>> \in air => s \in Nat
      BY <1>0 DEF MetricTypes
    <3> QED
      BY <1>1, <1>3, <2>1, <2>3, <3>1 DEF Sequenced
  <2> QED
    BY <2>1, <2>4, <2>5
<1>6. QueuesFit'
  BY <1>0, <1>1 DEF QueuesFit
<1> QED
  BY <1>0, <1>1, <1>4, <1>5, <1>6, MetricKept DEF MetricInv

(* A neighbour starts its numbering again. *)
LEMMA MetricRestarts ==
  ASSUME MetricInv, NEW n \in Neighbors, M!NeighborRestarts(n)
  PROVE  MetricInv'
<1>0. /\ MetricTypes /\ QueuesFit /\ ReportsRecent /\ NumbersKnown /\ TotalsTrue
      /\ M!ReportsComplete /\ M!MissedRight
  BY DEF MetricInv
<1>1. /\ last_sent' = [last_sent EXCEPT ![n] = 0]
      /\ noted' = [noted EXCEPT ![n].irregular = TRUE]
      /\ UNCHANGED <<clock, air, r2ri, interval, totals, table, queues, lastReport, lateReport>>
  BY DEF M!NeighborRestarts
<1>2. last_sent \in [Neighbors -> Nat] /\ noted \in [M!Indices -> MetricNotes]
      /\ Neighbors \subseteq M!Indices
  BY <1>0 DEF MetricTypes, M!Indices
<1>3. \A m \in Neighbors : m # n => last_sent'[m] = last_sent[m]
  BY <1>1, <1>2
<1>4. noted[n] \in MetricNotes
  BY <1>2
<1> DEFINE h == noted[n]
           new == [h EXCEPT !.irregular = TRUE]
<1>5. noted' = [noted EXCEPT ![n] = new]
  BY <1>1
<1>6. /\ new \in MetricNotes /\ new.irregular = TRUE /\ new.rx = h.rx /\ new.tx = h.tx
      /\ new.late = h.late /\ new.zero = h.zero /\ new.removed = h.removed
      /\ new.reported = h.reported /\ new.status = h.status
  <2> HIDE DEF h
  <2> QED
    BY <1>4 DEF MetricNotes, h
<1> HIDE DEF new
<1>7. /\ noted' \in [M!Indices -> MetricNotes]
      /\ \A i \in M!Indices : noted'[i] = IF i = n THEN new ELSE noted[i]
  BY <1>2, <1>5, <1>6
<1>8. MetricTypes'
  <2>1. last_sent' \in [Neighbors -> Nat]
    BY <1>1, <1>2
  <2> QED
    BY <1>0, <1>1, <1>7, <2>1 DEF MetricTypes, M!ConstantsOK, AccountOK
<1>9. NumbersKnown'
  <2>1. ASSUME NEW m \in Neighbors, ~noted'[m].irregular
        PROVE  m # n /\ noted'[m] = noted[m] /\ last_sent'[m] = last_sent[m]
    BY <1>2, <1>3, <1>6, <1>7, <2>1
  <2> QED
    BY <1>0, <1>1, <2>1 DEF NumbersKnown, Distinct, Sequenced, M!ZeroCame
<1>10. QueuesFit' /\ ReportsRecent'
  BY <1>0, <1>1 DEF QueuesFit, ReportsRecent
<1>11. TotalsTrue'
  BY <1>0, <1>1, <1>6, <1>7 DEF TotalsTrue
<1>12. M!ReportsComplete'
  BY <1>0, <1>1, <1>2, <1>6, <1>7 DEF M!ReportsComplete, M!Sum, M!Pending
<1>13. M!MissedRight'
  <2>1. ASSUME NEW m \in Neighbors, ~noted'[m].irregular
        PROVE  m # n /\ noted'[m] = noted[m]
    BY <1>2, <1>6, <1>7, <2>1
  <2> QED
    BY <1>0, <1>1, <2>1 DEF M!MissedRight, M!Gaps, M!ZeroCame, M!Sum, M!Pending
<1> QED
  BY <1>8, <1>9, <1>10, <1>11, <1>12, <1>13 DEF MetricInv

(* One more number. *)
LEMMA MetricNumbers ==
  ASSUME NEW L \in Nat, NEW numbers \in SUBSET (1..L), NEW s \in Nat \ {0}, s \notin numbers
  PROVE  /\ Cardinality(numbers) \in Nat /\ Cardinality(numbers) <= L
         /\ Cardinality(numbers \cup {s}) = Cardinality(numbers) + 1
         /\ s <= L => Cardinality(numbers) + 1 <= L
<1>1. IsFiniteSet(1..L) /\ Cardinality(1..L) = L
  BY FS_Interval
<1>2. IsFiniteSet(numbers) /\ Cardinality(numbers) \in Nat /\ Cardinality(numbers) <= L
  BY <1>1, FS_Subset, FS_CardinalityType
<1>3. Cardinality(numbers \cup {s}) = Cardinality(numbers) + 1
  BY <1>2, FS_AddElement
<1>4. ASSUME s <= L
      PROVE  Cardinality(numbers \cup {s}) <= L
  <2>1. numbers \cup {s} \in SUBSET (1..L)
    BY <1>4
  <2> QED
    BY <1>1, <2>1, FS_Subset
<1> QED
  BY <1>2, <1>3, <1>4

(* The account d of a regular neighbour: the numbers it has received, of   *)
(* which seq is not one; z frames numbered 0 have come, late or not.       *)
Regular(d, numbers, seq, z, late) ==
    /\ numbers \in SUBSET (1..d.lastSeq) /\ Cardinality(numbers) = d.rx - z
    /\ d.lastSeq \in numbers \cup {0} /\ seq \notin numbers
    /\ (seq = 0 => z = 0) /\ (late = 1 => z = 1)
    /\ \/ d.missed = d.lastSeq - (d.rx - z)
       \/ late = 1 /\ d.missed = d.lastSeq - (d.rx - z) - 1

(* Its missed frames once seq has come. *)
MissedAfter(d, seq, z, late) ==
    LET gaps == (IF seq > d.lastSeq THEN seq ELSE d.lastSeq)
                  - (d.rx + 1 - IF seq = 0 THEN 1 ELSE z)
    IN  \/ M!Missed(d, seq) = gaps
        \/ /\ late = 1 \/ (seq = 0 /\ d.lastSeq # 0)
           /\ M!Missed(d, seq) = gaps - 1

(* How far another account p is from it then. *)
DriftAfter(p, d, seq) ==
    p.lastSeq = d.lastSeq =>
      \/ M!Missed(p, seq) - M!Missed(d, seq) = p.missed - d.missed
      \/ /\ seq < d.lastSeq
         /\ M!Missed(p, seq) - M!Missed(d, seq) = p.missed - d.missed + 1
      \/ /\ M!Missed(d, seq) = 0
         /\ M!Missed(p, seq) - M!Missed(d, seq) = p.missed - d.missed - 1

(* What a reception of a regular neighbour does to the missed frames: the  *)
(* totals lose the frame that comes late, an account that was told its gap *)
(* already may not.                                                        *)
LEMMA MetricMissed ==
  ASSUME NEW d, DataOK(d), NEW p, DataOK(p), NEW seq \in Nat, NEW numbers,
         NEW z \in {0, 1}, NEW late \in {0, 1}, Regular(d, numbers, seq, z, late)
  PROVE  MissedAfter(d, seq, z, late) /\ DriftAfter(p, d, seq)
<1>0. /\ numbers \in SUBSET (1..d.lastSeq) /\ Cardinality(numbers) = d.rx - z
      /\ d.lastSeq \in numbers \cup {0} /\ seq \notin numbers
      /\ (seq = 0 => z = 0) /\ (late = 1 => z = 1)
      /\ \/ d.missed = d.lastSeq - (d.rx - z)
         \/ late = 1 /\ d.missed = d.lastSeq - (d.rx - z) - 1
  BY DEF Regular
<1>1. d \in MetricData /\ p \in MetricData
  BY DEF DataOK
<1>2. d.lastSeq \in Nat /\ d.rx \in Nat /\ d.missed \in Nat /\ p.missed \in Nat
      /\ p.lastSeq \in Nat
  BY <1>1, MetricFields
<1> DEFINE c == d.rx - z
<1>3. c \in Nat /\ c <= d.lastSeq /\ (seq # 0 /\ seq <= d.lastSeq => c + 1 <= d.lastSeq)
  <2> DEFINE L == d.lastSeq
             above == L + 1
  <2>1. L \in Nat /\ above \in Nat \ {0} /\ above \notin numbers /\ numbers \in SUBSET (1..L)
    BY <1>0, <1>2
  <2> HIDE DEF L, above
  <2>4. Cardinality(numbers) \in Nat /\ Cardinality(numbers) <= L
    BY <2>1, MetricNumbers
  <2>2. Cardinality(numbers) \in Nat /\ Cardinality(numbers) <= d.lastSeq
    BY <2>4 DEF L
  <2>3. seq # 0 /\ seq <= d.lastSeq => Cardinality(numbers) + 1 <= d.lastSeq
    BY <1>0, <1>2, MetricNumbers
  <2> QED
    BY <1>0, <2>2, <2>3
<1>4. /\ d.missed = d.lastSeq - c \/ (late = 1 /\ d.missed = d.lastSeq - c - 1)
      /\ d.rx + 1 - z = c + 1
  BY <1>0, <1>2
<1> HIDE DEF c
<1>5. seq # 0 => seq # d.lastSeq
  BY <1>0
<1>6. CASE seq > d.lastSeq
  <2>1. M!Missed(d, seq) = d.missed + (seq - d.lastSeq - 1) /\ seq # 0
        /\ (p.lastSeq = d.lastSeq => M!Missed(p, seq) = p.missed + (seq - d.lastSeq - 1))
    BY <1>2, <1>6 DEF M!Missed
  <2> QED
    BY <1>2, <1>3, <1>4, <1>6, <2>1 DEF MissedAfter, DriftAfter
<1>7. CASE ~(seq > d.lastSeq)
  <2>1. /\ M!Missed(d, seq) = IF d.missed > 0 THEN d.missed - 1 ELSE d.missed
        /\ p.lastSeq = d.lastSeq =>
             M!Missed(p, seq) = IF p.missed > 0 THEN p.missed - 1 ELSE p.missed
    BY <1>7 DEF M!Missed
  <2>2. CASE seq # 0
    <3>1. seq < d.lastSeq /\ c + 1 <= d.lastSeq
      BY <1>2, <1>3, <1>5, <1>7, <2>2
    <3>2. \/ M!Missed(d, seq) = d.lastSeq - (c + 1)
          \/ late = 1 /\ M!Missed(d, seq) = d.lastSeq - (c + 1) - 1
      BY <1>2, <1>3, <1>4, <2>1, <3>1
    <3>3. p.lastSeq = d.lastSeq =>
            \/ M!Missed(p, seq) - M!Missed(d, seq) = p.missed - d.missed
            \/ M!Missed(p, seq) - M!Missed(d, seq) = p.missed - d.missed + 1
            \/ /\ M!Missed(d, seq) = 0
               /\ M!Missed(p, seq) - M!Missed(d, seq) = p.missed - d.missed - 1
      BY <1>2, <2>1
    <3> QED
      BY <1>4, <1>7, <2>2, <3>1, <3>2, <3>3 DEF MissedAfter, DriftAfter
  <2>3. CASE seq = 0 /\ d.lastSeq # 0
    <3>4. z = 0
      BY <1>0, <2>3
    <3>5. late = 0
      BY <1>0, <3>4
    <3>1. z = 0 /\ late = 0 /\ d.rx = c
      BY <1>2, <1>3, <1>4, <3>4, <3>5
    <3>2. d.missed = d.lastSeq - c /\ d.rx + 1 - 1 = c /\ seq < d.lastSeq
      BY <1>2, <1>4, <2>3, <3>1
    <3>3. \/ M!Missed(d, seq) = d.lastSeq - c
          \/ M!Missed(d, seq) = d.lastSeq - c - 1
      BY <1>2, <1>3, <2>1, <3>2
    <3>6. p.lastSeq = d.lastSeq =>
            \/ M!Missed(p, seq) - M!Missed(d, seq) = p.missed - d.missed
            \/ M!Missed(p, seq) - M!Missed(d, seq) = p.missed - d.missed + 1
            \/ /\ M!Missed(d, seq) = 0
               /\ M!Missed(p, seq) - M!Missed(d, seq) = p.missed - d.missed - 1
      BY <1>2, <2>1
    <3> QED
      BY <1>7, <2>3, <3>2, <3>3, <3>6 DEF MissedAfter, DriftAfter
  <2>4. CASE seq = 0 /\ d.lastSeq = 0
    <3>4. c = 0 /\ z = 0
      BY <1>0, <1>2, <1>3, <2>4
    <3>5. late = 0
      BY <1>0, <3>4
    <3>1. c = 0 /\ z = 0 /\ d.rx = 0 /\ d.missed = 0
      BY <1>2, <1>4, <2>4, <3>4, <3>5
    <3>2. M!Missed(d, seq) = 0
      BY <2>1, <3>1
    <3>3. p.lastSeq = d.lastSeq =>
            \/ M!Missed(p, seq) - M!Missed(d, seq) = p.missed - d.missed
            \/ M!Missed(p, seq) - M!Missed(d, seq) = p.missed - d.missed - 1
      BY <1>2, <2>1, <3>1, <3>2
    <3> QED
      BY <1>7, <2>4, <3>1, <3>2, <3>3 DEF MissedAfter, DriftAfter
  <2> QED
    BY <2>2, <2>3, <2>4
<1> QED
  BY <1>6, <1>7

(* A frame is received. *)
LEMMA MetricRx ==
  ASSUME MetricInv, NEW n, NEW seq, NEW rate \in Rates, NEW again \in BOOLEAN,
         M!UpdateNeighborRx(n, seq, rate, again)
  PROVE  MetricInv'
<1>0. /\ MetricTypes /\ QueuesFit /\ ReportsRecent /\ NumbersKnown /\ TotalsTrue
      /\ M!ReportsComplete /\ M!MissedRight
  BY DEF MetricInv
<1> DEFINE p == M!Lookup(r2ri, n)
           v == M!Lookup(interval, n)
           d == M!Lookup(totals, n)
           p1 == M!Received(p, seq, rate)
           v1 == M!Received(v, seq, rate)
           d1 == M!Received(d, seq, rate)
           h == noted[n]
           late == IF seq < d.lastSeq THEN h.late + 1 ELSE h.late
           zero == IF seq # 0 \/ h.zero # "none" THEN h.zero
                   ELSE IF d.lastSeq = 0 THEN "first" ELSE "late"
           h1 == [h EXCEPT !.rx = @ + 1, !.late = late, !.zero = zero,
                           !.irregular = @ \/ again]
<1>1. /\ <<n, seq>> \in air
      /\ air' = IF again THEN air ELSE air \ {<<n, seq>>}
      /\ r2ri' = M!With(r2ri, n, p1) /\ interval' = M!With(interval, n, v1)
      /\ totals' = M!With(totals, n, d1)
      /\ table' = M!With(table, n, M!MetricStatus(totals'[n]))
      /\ UNCHANGED <<clock, last_sent, queues, lastReport, lateReport>>
  BY DEF M!UpdateNeighborRx
<1>2. n \in Neighbors /\ seq \in Nat /\ clock \in Nat /\ M!ConstantsOK
  BY <1>0, <1>1 DEF MetricTypes
<1>3. noted \in [M!Indices -> MetricNotes] /\ Neighbors \subseteq M!Indices /\ n \in M!Indices
  BY <1>0, <1>2 DEF MetricTypes, M!Indices
<1>4. h \in MetricNotes
  BY <1>3
<1>5. noted' = [noted EXCEPT ![n] = h1]
  BY <1>3 DEF M!UpdateNeighborRx
<1>6. DataOK(p) /\ DataOK(v) /\ DataOK(d) /\ p \in MetricData /\ v \in MetricData /\ d \in MetricData
  BY <1>0, MetricEntries
<1>7. /\ d.lastSeq \in Nat /\ d.rx \in Nat /\ d.missed \in Nat /\ d.tx \in Nat
      /\ p.lastSeq \in Nat /\ p.rx \in Nat /\ p.missed \in Nat /\ p.tx \in Nat
      /\ v.rx \in Nat /\ v.tx \in Nat
  BY <1>6, MetricFields
<1>8. /\ h.rx \in Nat /\ h.tx \in Nat /\ h.late \in Nat
      /\ h.zero \in {"none", "first", "late"} /\ h.irregular \in BOOLEAN /\ h.removed \in BOOLEAN
      /\ h.reported.rx \in Nat /\ h.reported.tx \in Nat /\ h.reported.missed \in Nat
      /\ h.status.rx \in Nat /\ h.status.tx \in Nat
  BY <1>4, MetricNoted
<1> HIDE DEF p, v, d, h
<1>9. late \in Nat /\ zero \in {"none", "first", "late"}
  BY <1>7, <1>8
<1> HIDE DEF late, zero
<1>10. /\ h1 \in MetricNotes /\ h1.rx = h.rx + 1 /\ h1.tx = h.tx /\ h1.late = late /\ h1.zero = zero
       /\ h1.irregular = (h.irregular \/ again) /\ h1.removed = h.removed
       /\ h1.reported = h.reported /\ h1.status = h.status
  <2> DEFINE c == h.rx + 1
             b == (h.irregular \/ again)
  <2>1. c \in Nat /\ b \in BOOLEAN
    BY <1>8
  <2>2. h1 = [h EXCEPT !.rx = c, !.late = late, !.zero = zero, !.irregular = b]
    OBVIOUS
  <2> HIDE DEF c, b, h1
  <2>3. /\ h1 \in MetricNotes /\ h1.rx = c /\ h1.tx = h.tx /\ h1.late = late /\ h1.zero = zero
        /\ h1.irregular = b /\ h1.removed = h.removed
        /\ h1.reported = h.reported /\ h1.status = h.status
    BY <1>4, <1>9, <2>1, <2>2 DEF MetricNotes
  <2> QED
    BY <2>3 DEF c, b
<1> HIDE DEF h1
<1>11. /\ noted' \in [M!Indices -> MetricNotes]
       /\ \A i \in M!Indices : noted'[i] = IF i = n THEN h1 ELSE noted[i]
  BY <1>3, <1>5, <1>10
<1>12. /\ DataOK(p1) /\ p1.rx = p.rx + 1 /\ p1.tx = p.tx /\ p1.lastRx = clock
       /\ p1.missed = M!Missed(p, seq)
       /\ p1.lastSeq = IF seq > p.lastSeq THEN seq ELSE p.lastSeq
  BY <1>2, <1>6, MetricReceived
<1>13. /\ DataOK(v1) /\ v1.rx = v.rx + 1 /\ v1.tx = v.tx
  BY <1>2, <1>6, MetricReceived
<1>14. /\ DataOK(d1) /\ d1.rx = d.rx + 1 /\ d1.tx = d.tx
       /\ d1.missed = M!Missed(d, seq)
       /\ d1.lastSeq = IF seq > d.lastSeq THEN seq ELSE d.lastSeq
  BY <1>2, <1>6, MetricReceived
<1> HIDE DEF p1, v1, d1
<1>15. \A i : /\ M!Lookup(r2ri', i) = IF i = n THEN p1 ELSE M!Lookup(r2ri, i)
              /\ M!Lookup(interval', i) = IF i = n THEN v1 ELSE M!Lookup(interval, i)
              /\ M!Lookup(totals', i) = IF i = n THEN d1 ELSE M!Lookup(totals, i)
  <2>1. \A i : M!Lookup(r2ri', i) = IF i = n THEN p1 ELSE M!Lookup(r2ri, i)
    BY <1>1 DEF M!With, M!Lookup
  <2>2. \A i : M!Lookup(interval', i) = IF i = n THEN v1 ELSE M!Lookup(interval, i)
    BY <1>1 DEF M!With, M!Lookup
  <2>3. \A i : M!Lookup(totals', i) = IF i = n THEN d1 ELSE M!Lookup(totals, i)
    BY <1>1 DEF M!With, M!Lookup
  <2> QED
    BY <2>1, <2>2, <2>3
<1>16. AccountOK(r2ri') /\ AccountOK(interval') /\ AccountOK(totals')
  BY <1>0, <1>1, <1>12, <1>13, <1>14, MetricWith DEF MetricTypes
<1>17. MetricTypes'
  <2>1. air' \subseteq Neighbors \X Nat
    BY <1>0, <1>1 DEF MetricTypes
  <2> QED
    BY <1>0, <1>1, <1>11, <1>16, <2>1 DEF MetricTypes, M!ConstantsOK
<1>18. QueuesFit'
  BY <1>0, <1>1 DEF QueuesFit
<1>19. ReportsRecent'
  <2>1. lastReport <= clock
    BY <1>0 DEF MetricTypes
  <2> QED
    BY <1>0, <1>1, <1>12, <1>15, <2>1 DEF ReportsRecent
<1>20. TotalsTrue'
  <2>1. d.rx = h.rx /\ d.tx = h.tx
    BY <1>0, <1>3 DEF TotalsTrue, d, h
  <2>2. \A i \in M!Indices :
          /\ M!Lookup(totals', i).rx = noted'[i].rx /\ M!Lookup(totals', i).tx = noted'[i].tx
    BY <1>0, <1>10, <1>11, <1>14, <1>15, <2>1 DEF TotalsTrue
  <2>3. ASSUME NEW i \in M!Indices, i \in DOMAIN totals'
        PROVE  i \in DOMAIN table' /\ table'[i] = M!MetricStatus(totals'[i])
    <3>1. CASE i = n
      BY <1>1, <3>1 DEF M!With
    <3>2. CASE i # n
      <4>1. i \in DOMAIN totals /\ totals'[i] = totals[i]
        BY <1>1, <2>3, <3>2 DEF M!With
      <4>2. i \in DOMAIN table /\ table[i] = M!MetricStatus(totals[i])
        BY <1>0, <4>1 DEF TotalsTrue
      <4>3. i \in DOMAIN table' /\ table'[i] = table[i]
        BY <1>1, <3>2, <4>2 DEF M!With
      <4> QED
        BY <4>1, <4>2, <4>3
    <3> QED
      BY <3>1, <3>2
  <2> QED
    BY <2>2, <2>3 DEF TotalsTrue
<1>25. M!ReportsComplete'
  <2>1. /\ ~lateReport => h.reported.rx + p.rx = h.rx
        /\ ~h.removed => h.reported.tx + p.tx = h.tx
        /\ h.status.rx + v.rx = h.rx
        /\ h.status.tx + v.tx = h.tx
    BY <1>0, <1>2 DEF M!ReportsComplete, M!Sum, M!Pending, h, p, v
  <2>2. /\ ~lateReport => h1.reported.rx + p1.rx = h1.rx
        /\ ~h1.removed => h1.reported.tx + p1.tx = h1.tx
        /\ h1.status.rx + v1.rx = h1.rx
        /\ h1.status.tx + v1.tx = h1.tx
    BY <1>7, <1>8, <1>10, <1>12, <1>13, <2>1
  <2> QED
    BY <1>0, <1>1, <1>3, <1>11, <1>15, <2>2 DEF M!ReportsComplete, M!Sum, M!Pending
<1>21. ASSUME ~h1.irregular
       PROVE  ~h.irregular /\ ~again
  BY <1>8, <1>10, <1>21
<1>22. ASSUME ~h1.irregular
       PROVE  /\ Sequenced(n)'
              /\ \E numbers : Distinct(n, numbers)'
              /\ ~h1.removed => p1.lastSeq = d1.lastSeq
              /\ \/ d1.missed = M!Gaps(n)'
                 \/ h1.zero = "late" /\ d1.missed = M!Gaps(n)' - 1
              /\ ~h1.removed => h1.reported.missed + p1.missed - d1.missed \in 0..h1.late
  <2> DEFINE z == M!ZeroCame(n)
             z1 == M!ZeroCame(n)'
             behind == IF h.zero = "late" THEN 1 ELSE 0
  <2>1. ~h.irregular /\ ~again
    BY <1>21, <1>22
  <2>2. /\ Sequenced(n)
        /\ \E numbers : Distinct(n, numbers)
        /\ ~h.removed => p.lastSeq = d.lastSeq
    BY <1>0, <1>2, <2>1 DEF NumbersKnown, h, p, d
  <2>3. /\ d.missed = d.lastSeq - (d.rx - z) \/ (behind = 1 /\ d.missed = d.lastSeq - (d.rx - z) - 1)
        /\ ~h.removed => h.reported.missed + p.missed - d.missed \in 0..h.late
    <3>1. /\ \/ M!Lookup(totals, n).missed = M!Gaps(n)
             \/ noted[n].zero = "late" /\ M!Lookup(totals, n).missed = M!Gaps(n) - 1
          /\ ~h.removed => M!Sum(n, "missed") - M!Lookup(totals, n).missed \in 0..h.late
      BY <1>0, <1>2, <2>1 DEF M!MissedRight, h
    <3>2. M!Sum(n, "missed") = h.reported.missed + p.missed
      BY DEF M!Sum, M!Pending, h, p
    <3>3. M!Gaps(n) = d.lastSeq - (d.rx - z)
      BY DEF M!Gaps, d
    <3>4. /\ d.missed = M!Gaps(n) \/ (behind = 1 /\ d.missed = M!Gaps(n) - 1)
          /\ ~h.removed => M!Sum(n, "missed") - d.missed \in 0..h.late
      BY <3>1 DEF d, h
    <3> HIDE DEF z, behind
    <3> QED
      BY <1>7, <1>8, <3>2, <3>3, <3>4
  <2>4. PICK numbers : Distinct(n, numbers)
    BY <2>2
  <2>5. /\ numbers \in SUBSET (1..d.lastSeq) /\ Cardinality(numbers) = d.rx - z
        /\ d.lastSeq \in numbers \cup {0} /\ \A s \in numbers : <<n, s>> \notin air
        /\ h.zero # "none" => <<n, 0>> \notin air
    BY <2>4 DEF Distinct, d, h
  <2>6. seq \notin numbers /\ (seq = 0 => h.zero = "none")
    BY <1>1, <2>5
  <2>7. /\ z = IF h.zero = "none" THEN 0 ELSE 1
        /\ z1 = IF h1.zero = "none" THEN 0 ELSE 1
    BY <1>3, <1>11 DEF M!ZeroCame, h
  <2>8. /\ z \in {0, 1} /\ z1 = (IF seq = 0 THEN 1 ELSE z) /\ (seq = 0 => z = 0)
        /\ (behind = 1 => z = 1) /\ behind \in {0, 1}
        /\ h1.zero = "late" <=> behind = 1 \/ (seq = 0 /\ d.lastSeq # 0)
    BY <1>8, <1>10, <2>6, <2>7 DEF zero
  <2> HIDE DEF z, z1, behind
  <2>9. MissedAfter(d, seq, z, behind) /\ DriftAfter(p, d, seq)
    <3>1. Regular(d, numbers, seq, z, behind)
      BY <2>3, <2>5, <2>6, <2>8 DEF Regular
    <3> QED
      BY <1>2, <1>6, <2>8, <3>1, MetricMissed, Zenon
  <2>10. M!Gaps(n)' = d1.lastSeq - (d1.rx - z1)
    BY <1>15 DEF M!Gaps, z1
  <2>11. d1.missed = M!Gaps(n)' \/ (h1.zero = "late" /\ d1.missed = M!Gaps(n)' - 1)
    <3>1. d1.rx - z1 = d.rx + 1 - IF seq = 0 THEN 1 ELSE z
      BY <1>7, <1>14, <2>8
    <3> QED
      BY <1>14, <2>8, <2>9, <2>10, <3>1 DEF MissedAfter
  <2>12. Sequenced(n)'
    <3>1. /\ d.lastSeq < last_sent[n] \/ d.lastSeq = 0
          /\ \A s : <<n, s>> \in air => s < last_sent[n]
      BY <2>2 DEF Sequenced, d
    <3>2. seq < last_sent[n] /\ last_sent[n] \in Nat
      BY <1>0, <1>1, <1>2, <3>1 DEF MetricTypes
    <3>3. d1.lastSeq < last_sent[n] \/ d1.lastSeq = 0
      BY <1>14, <3>1, <3>2
    <3>4. last_sent[n] > 0
      BY <1>2, <3>2
    <3> QED
      BY <1>1, <1>15, <3>1, <3>3, <3>4 DEF Sequenced
  <2>13. \E ns : Distinct(n, ns)'
    <3>1. CASE seq # 0
      <4>1. Cardinality(numbers \cup {seq}) = d1.rx - z1
        <5>1. Cardinality(numbers \cup {seq}) = Cardinality(numbers) + 1
          BY <1>2, <1>7, <2>5, <2>6, <3>1, MetricNumbers
        <5>2. z1 = z
          BY <2>8, <3>1
        <5> QED
          BY <1>7, <1>14, <2>5, <2>8, <5>1, <5>2
      <4>2. numbers \cup {seq} \subseteq 1..d1.lastSeq /\ d1.lastSeq \in numbers \cup {seq}
        BY <1>2, <1>7, <1>14, <2>5, <3>1
      <4>3. \A s \in numbers \cup {seq} : <<n, s>> \notin air'
        BY <1>1, <2>1, <2>5
      <4>4. h1.zero # "none" => <<n, 0>> \notin air'
        BY <1>1, <1>10, <2>5, <3>1 DEF zero
      <4>5. noted'[n] = h1
        BY <1>3, <1>11
      <4>6. Distinct(n, numbers \cup {seq})'
        BY <1>15, <4>1, <4>2, <4>3, <4>4, <4>5 DEF Distinct, z1
      <4> QED
        BY <4>6
    <3>2. CASE seq = 0
      <4>1. d1.lastSeq = d.lastSeq /\ d1.rx - z1 = d.rx - z
        BY <1>7, <1>14, <2>8, <3>2
      <4>2. \A s \in numbers : <<n, s>> \notin air'
        BY <1>1, <2>1, <2>5
      <4>3. <<n, 0>> \notin air'
        BY <1>1, <2>1, <3>2
      <4>4. Distinct(n, numbers)'
        BY <1>15, <2>5, <4>1, <4>2, <4>3 DEF Distinct, z1
      <4> QED
        BY <4>4
    <3> QED
      BY <3>1, <3>2
  <2>14. ~h1.removed => p1.lastSeq = d1.lastSeq
    BY <1>10, <1>12, <1>14, <2>2
  <2>15. ASSUME ~h1.removed
         PROVE  h1.reported.missed + p1.missed - d1.missed \in 0..h1.late
    <3>1. p.lastSeq = d.lastSeq /\ h.reported.missed + p.missed - d.missed \in 0..h.late
      BY <1>10, <2>2, <2>3, <2>15
    <3>2. p1.missed \in Nat /\ d1.missed \in Nat
      BY <1>12, <1>14, MetricFields DEF DataOK
    <3>3. \/ p1.missed - d1.missed = p.missed - d.missed
          \/ seq < d.lastSeq /\ p1.missed - d1.missed = p.missed - d.missed + 1
          \/ d1.missed = 0 /\ p1.missed - d1.missed = p.missed - d.missed - 1
      BY <1>12, <1>14, <2>9, <3>1 DEF DriftAfter
    <3>4. late = h.late \/ (seq < d.lastSeq /\ late = h.late + 1)
      BY DEF late
    <3>5. seq < d.lastSeq => late = h.late + 1
      BY DEF late
    <3> QED
      BY <1>7, <1>8, <1>10, <3>1, <3>2, <3>3, <3>4, <3>5
  <2> QED
    BY <2>11, <2>12, <2>13, <2>14, <2>15
<1>23. NumbersKnown'
  <2> SUFFICES ASSUME NEW m \in Neighbors, ~noted'[m].irregular
               PROVE  /\ Sequenced(m)'
                      /\ \E numbers : Distinct(m, numbers)'
                      /\ ~noted'[m].removed =>
                           M!Lookup(r2ri', m).lastSeq = M!Lookup(totals', m).lastSeq
    BY <1>1 DEF NumbersKnown
  <2>1. CASE m = n
    BY <1>3, <1>11, <1>15, <1>22, <2>1
  <2>2. CASE m # n
    <3>1. noted'[m] = noted[m] /\ M!Lookup(totals', m) = M!Lookup(totals, m)
          /\ M!Lookup(r2ri', m) = M!Lookup(r2ri, m)
      BY <1>3, <1>11, <1>15, <2>2
    <3>2. PICK numbers : Distinct(m, numbers)
      BY <1>0, <3>1 DEF NumbersKnown
    <3>3. Distinct(m, numbers)'
      BY <1>1, <3>1, <3>2 DEF Distinct, M!ZeroCame
    <3>4. Sequenced(m)
      BY <1>0, <3>1 DEF NumbersKnown
    <3>5. Sequenced(m)'
      BY <1>1, <3>1, <3>4 DEF Sequenced
    <3> QED
      BY <1>0, <1>1, <3>1, <3>3, <3>5 DEF NumbersKnown
  <2> QED
    BY <2>1, <2>2
<1>24. M!MissedRight'
  <2> SUFFICES ASSUME NEW m \in Neighbors, ~noted'[m].irregular
               PROVE  /\ \/ M!Lookup(totals', m).missed = M!Gaps(m)'
                         \/ /\ noted'[m].zero = "late"
                            /\ M!Lookup(totals', m).missed = M!Gaps(m)' - 1
                      /\ ~noted'[m].removed =>
                           M!Sum(m, "missed")' - M!Lookup(totals', m).missed
                             \in 0..noted'[m].late
    BY DEF M!MissedRight
  <2>1. /\ M!Sum(m, "missed")' = noted'[m].reported.missed + M!Lookup(r2ri', m).missed
        /\ M!Sum(m, "missed") = noted[m].reported.missed + M!Lookup(r2ri, m).missed
    BY DEF M!Sum, M!Pending
  <2>2. CASE m = n
    <3>1. noted'[m] = h1 /\ M!Lookup(totals', m) = d1 /\ M!Lookup(r2ri', m) = p1
      BY <1>3, <1>11, <1>15, <2>2
    <3>2. M!Sum(m, "missed")' = h1.reported.missed + p1.missed
      BY <2>1, <3>1
    <3>3. /\ d1.missed = M!Gaps(n)' \/ (h1.zero = "late" /\ d1.missed = M!Gaps(n)' - 1)
          /\ ~h1.removed => h1.reported.missed + p1.missed - d1.missed \in 0..h1.late
      BY <1>22, <2>2, <3>1
    <3>4. p1.missed \in Nat /\ d1.missed \in Nat /\ h1.reported.missed \in Nat
      BY <1>8, <1>10, <1>12, <1>14, MetricFields DEF DataOK
    <3>5. ~h1.removed => M!Sum(m, "missed")' - d1.missed \in 0..h1.late
      BY <3>2, <3>3, <3>4
    <3> QED
      BY <2>2, <3>1, <3>3, <3>5
  <2>3. CASE m # n
    <3>1. noted'[m] = noted[m] /\ M!Lookup(totals', m) = M!Lookup(totals, m)
          /\ M!Lookup(r2ri', m) = M!Lookup(r2ri, m)
      BY <1>3, <1>11, <1>15, <2>3
    <3>2. M!Gaps(m)' = M!Gaps(m)
      BY <3>1 DEF M!Gaps, M!ZeroCame
    <3> QED
      BY <1>0, <2>1, <3>1, <3>2 DEF M!MissedRight
  <2> QED
    BY <2>2, <2>3
<1> QED
  BY <1>17, <1>18, <1>19, <1>20, <1>25, <1>23, <1>24 DEF MetricInv

(* A frame is sent. *)
LEMMA MetricTx ==
  ASSUME MetricInv, NEW n \in M!Indices, NEW rate \in Rates, M!UpdateNeighborTx(n, rate)
  PROVE  MetricInv'
<1>0. /\ MetricTypes /\ QueuesFit /\ ReportsRecent /\ NumbersKnown /\ TotalsTrue
      /\ M!ReportsComplete /\ M!MissedRight
  BY DEF MetricInv
<1> DEFINE p == M!Lookup(r2ri, n)
           v == M!Lookup(interval, n)
           d == M!Lookup(totals, n)
           p1 == M!UpdateTxActivity(p, rate)
           v1 == M!UpdateTxActivity(v, rate)
           d1 == M!UpdateTxActivity(d, rate)
           h == noted[n]
           h1 == [h EXCEPT !.tx = @ + 1]
<1>1. /\ r2ri' = IF n = Broadcast THEN r2ri ELSE M!With(r2ri, n, p1)
      /\ interval' = M!With(interval, n, v1)
      /\ totals' = M!With(totals, n, d1)
      /\ table' = M!With(table, n, M!MetricStatus(totals'[n]))
      /\ UNCHANGED <<clock, last_sent, air, queues, lastReport, lateReport>>
  BY DEF M!UpdateNeighborTx
<1>2. M!ConstantsOK
  BY <1>0 DEF MetricTypes
<1>3. noted \in [M!Indices -> MetricNotes] /\ Neighbors \subseteq M!Indices
      /\ Broadcast \notin Neighbors
  BY <1>0, <1>2 DEF MetricTypes, M!Indices, M!ConstantsOK
<1>4. h \in MetricNotes
  BY <1>3
<1>5. noted' = [noted EXCEPT ![n] = h1]
  BY <1>3 DEF M!UpdateNeighborTx
<1>6. DataOK(p) /\ DataOK(v) /\ DataOK(d) /\ p \in MetricData /\ v \in MetricData /\ d \in MetricData
  BY <1>0, MetricEntries
<1>7. /\ d.rx \in Nat /\ d.tx \in Nat /\ p.rx \in Nat /\ p.tx \in Nat
      /\ v.rx \in Nat /\ v.tx \in Nat
  BY <1>6, MetricFields
<1>8. /\ h.rx \in Nat /\ h.tx \in Nat /\ h.late \in Nat
      /\ h.irregular \in BOOLEAN /\ h.removed \in BOOLEAN
      /\ h.reported.rx \in Nat /\ h.reported.tx \in Nat /\ h.reported.missed \in Nat
      /\ h.status.rx \in Nat /\ h.status.tx \in Nat
  BY <1>4, MetricNoted
<1> HIDE DEF p, v, d, h
<1>10. /\ h1 \in MetricNotes /\ h1.rx = h.rx /\ h1.tx = h.tx + 1 /\ h1.late = h.late
       /\ h1.zero = h.zero
       /\ h1.irregular = h.irregular /\ h1.removed = h.removed
       /\ h1.reported = h.reported /\ h1.status = h.status
  <2> DEFINE c == h.tx + 1
  <2>1. c \in Nat
    BY <1>8
  <2>2. h1 = [h EXCEPT !.tx = c]
    OBVIOUS
  <2> HIDE DEF c, h1
  <2>3. /\ h1 \in MetricNotes /\ h1.rx = h.rx /\ h1.tx = c /\ h1.late = h.late
        /\ h1.zero = h.zero
        /\ h1.irregular = h.irregular /\ h1.removed = h.removed
        /\ h1.reported = h.reported /\ h1.status = h.status
    BY <1>4, <2>1, <2>2 DEF MetricNotes
  <2> QED
    BY <2>3 DEF c
<1> HIDE DEF h1
<1>11. /\ noted' \in [M!Indices -> MetricNotes]
       /\ \A i \in M!Indices : noted'[i] = IF i = n THEN h1 ELSE noted[i]
  BY <1>3, <1>5, <1>10
<1>12. /\ DataOK(p1) /\ p1.rx = p.rx /\ p1.tx = p.tx + 1 /\ p1.lastRx = p.lastRx
       /\ p1.missed = p.missed /\ p1.lastSeq = p.lastSeq
  BY <1>2, <1>6, MetricSent
<1>13. /\ DataOK(v1) /\ v1.rx = v.rx /\ v1.tx = v.tx + 1
  BY <1>2, <1>6, MetricSent
<1>14. /\ DataOK(d1) /\ d1.rx = d.rx /\ d1.tx = d.tx + 1
       /\ d1.missed = d.missed /\ d1.lastSeq = d.lastSeq
  BY <1>2, <1>6, MetricSent
<1> HIDE DEF p1, v1, d1
<1>15. \A i : /\ i # Broadcast =>
                   M!Lookup(r2ri', i) = IF i = n THEN p1 ELSE M!Lookup(r2ri, i)
              /\ M!Lookup(interval', i) = IF i = n THEN v1 ELSE M!Lookup(interval, i)
              /\ M!Lookup(totals', i) = IF i = n THEN d1 ELSE M!Lookup(totals, i)
  <2>1. \A i : i # Broadcast =>
                 M!Lookup(r2ri', i) = IF i = n THEN p1 ELSE M!Lookup(r2ri, i)
    <3>1. CASE n = Broadcast
      BY <1>1, <3>1
    <3>2. CASE n # Broadcast
      BY <1>1, <3>2 DEF M!With, M!Lookup
    <3> QED
      BY <3>1, <3>2
  <2>2. \A i : M!Lookup(interval', i) = IF i = n THEN v1 ELSE M!Lookup(interval, i)
    BY <1>1 DEF M!With, M!Lookup
  <2>3. \A i : M!Lookup(totals', i) = IF i = n THEN d1 ELSE M!Lookup(totals, i)
    BY <1>1 DEF M!With, M!Lookup
  <2> QED
    BY <2>1, <2>2, <2>3
<1>16. AccountOK(r2ri') /\ AccountOK(interval') /\ AccountOK(totals')
  <2>1. AccountOK(interval') /\ AccountOK(totals') /\ AccountOK(M!With(r2ri, n, p1))
    BY <1>0, <1>1, <1>12, <1>13, <1>14, MetricWith DEF MetricTypes
  <2> QED
    BY <1>0, <1>1, <2>1 DEF MetricTypes
<1>17. MetricTypes'
  BY <1>0, <1>1, <1>11, <1>16 DEF MetricTypes, M!ConstantsOK
<1>18. QueuesFit'
  BY <1>0, <1>1 DEF QueuesFit
<1>19. ReportsRecent'
  <2>1. ASSUME NEW m \in Neighbors
        PROVE  /\ M!Lookup(r2ri', m).rx = M!Lookup(r2ri, m).rx
               /\ M!Lookup(r2ri', m).lastRx = M!Lookup(r2ri, m).lastRx
    BY <1>3, <1>12, <1>15 DEF p
  <2> QED
    BY <1>0, <1>1, <2>1 DEF ReportsRecent
<1>20. TotalsTrue'
  <2>1. d.rx = h.rx /\ d.tx = h.tx
    BY <1>0, <1>3 DEF TotalsTrue, d, h
  <2>2. \A i \in M!Indices :
          /\ M!Lookup(totals', i).rx = noted'[i].rx /\ M!Lookup(totals', i).tx = noted'[i].tx
    BY <1>0, <1>10, <1>11, <1>14, <1>15, <2>1 DEF TotalsTrue
  <2>3. ASSUME NEW i \in M!Indices, i \in DOMAIN totals'
        PROVE  i \in DOMAIN table' /\ table'[i] = M!MetricStatus(totals'[i])
    <3>1. CASE i = n
      BY <1>1, <3>1 DEF M!With
    <3>2. CASE i # n
      <4>1. i \in DOMAIN totals /\ totals'[i] = totals[i]
        BY <1>1, <2>3, <3>2 DEF M!With
      <4>2. i \in DOMAIN table /\ table[i] = M!MetricStatus(totals[i])
        BY <1>0, <4>1 DEF TotalsTrue
      <4>3. i \in DOMAIN table' /\ table'[i] = table[i]
        BY <1>1, <3>2, <4>2 DEF M!With
      <4> QED
        BY <4>1, <4>2, <4>3
    <3> QED
      BY <3>1, <3>2
  <2> QED
    BY <2>2, <2>3 DEF TotalsTrue
<1>25. M!ReportsComplete'
  <2> SUFFICES ASSUME NEW m \in Neighbors
               PROVE  /\ ~lateReport => noted'[m].reported.rx + M!Lookup(r2ri', m).rx = noted'[m].rx
                      /\ ~noted'[m].removed =>
                           noted'[m].reported.tx + M!Lookup(r2ri', m).tx = noted'[m].tx
                      /\ noted'[m].status.rx + M!Lookup(interval', m).rx = noted'[m].rx
                      /\ noted'[m].status.tx + M!Lookup(interval', m).tx = noted'[m].tx
    BY <1>1 DEF M!ReportsComplete, M!Sum, M!Pending
  <2>1. /\ ~lateReport => noted[m].reported.rx + M!Lookup(r2ri, m).rx = noted[m].rx
        /\ ~noted[m].removed => noted[m].reported.tx + M!Lookup(r2ri, m).tx = noted[m].tx
        /\ noted[m].status.rx + M!Lookup(interval, m).rx = noted[m].rx
        /\ noted[m].status.tx + M!Lookup(interval, m).tx = noted[m].tx
    BY <1>0 DEF M!ReportsComplete, M!Sum, M!Pending
  <2>2. CASE m = n
    <3>1. noted'[m] = h1 /\ M!Lookup(r2ri', m) = p1 /\ M!Lookup(interval', m) = v1
      BY <1>3, <1>11, <1>15, <2>2
    <3>2. /\ ~lateReport => h.reported.rx + p.rx = h.rx
          /\ ~h.removed => h.reported.tx + p.tx = h.tx
          /\ h.status.rx + v.rx = h.rx
          /\ h.status.tx + v.tx = h.tx
      BY <2>1, <2>2 DEF h, p, v
    <3>3. /\ ~lateReport => h1.reported.rx + p1.rx = h1.rx
          /\ ~h1.removed => h1.reported.tx + p1.tx = h1.tx
          /\ h1.status.rx + v1.rx = h1.rx
          /\ h1.status.tx + v1.tx = h1.tx
      BY <1>7, <1>8, <1>10, <1>12, <1>13, <3>2
    <3> QED
      BY <3>1, <3>3
  <2>3. CASE m # n
    <3>1. noted'[m] = noted[m] /\ M!Lookup(r2ri', m) = M!Lookup(r2ri, m)
          /\ M!Lookup(interval', m) = M!Lookup(interval, m)
      BY <1>3, <1>11, <1>15, <2>3
    <3> QED
      BY <2>1, <3>1
  <2> QED
    BY <2>2, <2>3
<1>22. ASSUME NEW m \in Neighbors
       PROVE  /\ noted'[m].irregular = noted[m].irregular /\ noted'[m].removed = noted[m].removed
              /\ noted'[m].zero = noted[m].zero
              /\ noted'[m].late = noted[m].late /\ noted'[m].reported = noted[m].reported
              /\ M!Lookup(totals', m).missed = M!Lookup(totals, m).missed
              /\ M!Lookup(totals', m).lastSeq = M!Lookup(totals, m).lastSeq
              /\ M!Lookup(totals', m).rx = M!Lookup(totals, m).rx
              /\ M!Lookup(r2ri', m).missed = M!Lookup(r2ri, m).missed
              /\ M!Lookup(r2ri', m).lastSeq = M!Lookup(r2ri, m).lastSeq
  <2>1. CASE m = n
    BY <1>3, <1>10, <1>11, <1>12, <1>14, <1>15, <2>1 DEF h, p, d
  <2>2. CASE m # n
    BY <1>3, <1>11, <1>15, <2>2
  <2> QED
    BY <2>1, <2>2
<1>23. NumbersKnown'
  <2> SUFFICES ASSUME NEW m \in Neighbors, ~noted'[m].irregular
               PROVE  /\ Sequenced(m)'
                      /\ \E numbers : Distinct(m, numbers)'
                      /\ ~noted'[m].removed =>
                           M!Lookup(r2ri', m).lastSeq = M!Lookup(totals', m).lastSeq
    BY <1>1 DEF NumbersKnown
  <2>1. PICK numbers : Distinct(m, numbers)
    BY <1>0, <1>22 DEF NumbersKnown
  <2>2. Distinct(m, numbers)'
    BY <1>1, <1>22, <2>1 DEF Distinct, M!ZeroCame
  <2>3. Sequenced(m)
    BY <1>0, <1>22 DEF NumbersKnown
  <2>4. Sequenced(m)'
    BY <1>1, <1>22, <2>3 DEF Sequenced
  <2> QED
    BY <1>0, <1>22, <2>2, <2>4 DEF NumbersKnown
<1>24. M!MissedRight'
  BY <1>0, <1>22 DEF M!MissedRight, M!Gaps, M!ZeroCame, M!Sum, M!Pending
<1> QED
  BY <1>17, <1>18, <1>19, <1>20, <1>25, <1>23, <1>24 DEF MetricInv

(* The report. *)
LEMMA MetricReport ==
  ASSUME MetricInv, M!PublishR2RI
  PROVE  MetricInv'
<1>0. /\ MetricTypes /\ QueuesFit /\ ReportsRecent /\ NumbersKnown /\ TotalsTrue
      /\ M!ReportsComplete /\ M!MissedRight
  BY DEF MetricInv
<1> DEFINE new(i) ==
             [noted[i] EXCEPT
                !.status = IF i \in DOMAIN interval THEN M!Told(@, interval[i]) ELSE @,
                !.reported = IF i \in DOMAIN r2ri \ M!Aged THEN M!Told(@, r2ri[i]) ELSE @,
                !.removed = @ \/ i \in M!Aged]
<1>1. /\ queues' = M!QueueMetrics(queues) /\ interval' = M!NeighborStatuses
      /\ r2ri' = M!NeighborMetricsLeft
      /\ noted' = [i \in M!Indices |-> new(i)]
      /\ lastReport' = clock
      /\ lateReport' = (lateReport \/ clock - lastReport > DeleteAge)
      /\ UNCHANGED <<clock, last_sent, air, totals, table>>
  BY DEF M!PublishR2RI
<1>2. /\ clock \in Nat /\ lastReport \in Nat /\ DeleteAge \in Nat /\ lastReport <= clock
      /\ lateReport \in BOOLEAN
      /\ noted \in [M!Indices -> MetricNotes] /\ Neighbors \subseteq M!Indices
  BY <1>0 DEF MetricTypes, M!Indices, M!ConstantsOK
<1>3. ASSUME NEW i
      PROVE  LET v == M!Lookup(interval, i) IN
             LET v1 == M!Lookup(interval', i) IN
             /\ i \in DOMAIN interval' <=> i \in DOMAIN interval
             /\ DataOK(v1) /\ v1.rx = 0 /\ v1.tx = 0
             /\ i \notin DOMAIN interval => v.rx = 0 /\ v.tx = 0
  <2>1. CASE i \in DOMAIN interval
    <3>1. i \in DOMAIN interval' /\ interval'[i] = M!ClearData(interval[i])
      BY <1>1, <2>1 DEF M!NeighborStatuses
    <3>2. DataOK(interval[i])
      BY <1>0, <2>1 DEF MetricTypes, AccountOK
    <3>3. M!Lookup(interval', i) = M!ClearData(interval[i])
      BY <3>1 DEF M!Lookup
    <3> QED
      BY <2>1, <3>1, <3>2, <3>3, MetricCleared
  <2>2. CASE i \notin DOMAIN interval
    <3>1. i \notin DOMAIN interval'
      BY <1>1, <2>2 DEF M!NeighborStatuses
    <3>2. M!Lookup(interval', i) = M!NeighborData /\ M!Lookup(interval, i) = M!NeighborData
      BY <2>2, <3>1 DEF M!Lookup
    <3>3. DataOK(M!NeighborData) /\ M!NeighborData.rx = 0 /\ M!NeighborData.tx = 0
      BY DEF DataOK, MetricData, RateRight, M!NeighborData
    <3> QED
      BY <2>2, <3>1, <3>2, <3>3
  <2> QED
    BY <2>1, <2>2
<1>4. ASSUME NEW i
      PROVE  LET p == M!Lookup(r2ri, i) IN
             LET p1 == M!Lookup(r2ri', i) IN
             /\ i \in DOMAIN r2ri' <=> i \in DOMAIN r2ri \ M!Aged
             /\ DataOK(p1) /\ p1.rx = 0 /\ p1.tx = 0 /\ p1.missed = 0
             /\ i \notin M!Aged => p1.lastSeq = p.lastSeq
             /\ i \notin DOMAIN r2ri => p.rx = 0 /\ p.tx = 0 /\ p.missed = 0
  <2>1. CASE i \in DOMAIN r2ri \ M!Aged
    <3>1. i \in DOMAIN r2ri' /\ r2ri'[i] = M!ClearData(r2ri[i])
      BY <1>1, <2>1 DEF M!NeighborMetricsLeft
    <3>2. DataOK(r2ri[i])
      BY <1>0, <2>1 DEF MetricTypes, AccountOK
    <3>3. M!Lookup(r2ri', i) = M!ClearData(r2ri[i]) /\ M!Lookup(r2ri, i) = r2ri[i]
      BY <2>1, <3>1 DEF M!Lookup
    <3> QED
      BY <2>1, <3>1, <3>2, <3>3, MetricCleared
  <2>2. CASE i \notin DOMAIN r2ri \ M!Aged
    <3>1. i \notin DOMAIN r2ri'
      BY <1>1, <2>2 DEF M!NeighborMetricsLeft
    <3>2. M!Lookup(r2ri', i) = M!NeighborData
          /\ (i \notin DOMAIN r2ri => M!Lookup(r2ri, i) = M!NeighborData)
      BY <2>2, <3>1 DEF M!Lookup
    <3>3. DataOK(M!NeighborData) /\ M!NeighborData.rx = 0 /\ M!NeighborData.tx = 0
          /\ M!NeighborData.missed = 0
      BY DEF DataOK, MetricData, RateRight, M!NeighborData
    <3> QED
      BY <2>2, <3>1, <3>2, <3>3
  <2> QED
    BY <2>1, <2>2
<1>5. ASSUME NEW i \in M!Indices
      PROVE  LET h == noted[i] IN
             LET h1 == noted'[i] IN
             LET p == M!Lookup(r2ri, i) IN
             LET v == M!Lookup(interval, i) IN
             /\ h1 \in MetricNotes /\ h1.rx = h.rx /\ h1.tx = h.tx /\ h1.late = h.late
             /\ h1.zero = h.zero
             /\ h1.irregular = h.irregular /\ h1.removed = (h.removed \/ i \in M!Aged)
             /\ h1.status.rx = h.status.rx + v.rx /\ h1.status.tx = h.status.tx + v.tx
             /\ i \notin M!Aged => /\ h1.reported.rx = h.reported.rx + p.rx
                                   /\ h1.reported.tx = h.reported.tx + p.tx
                                   /\ h1.reported.missed = h.reported.missed + p.missed
             /\ i \in M!Aged => h1.reported = h.reported
  <2> DEFINE h == noted[i]
             p == M!Lookup(r2ri, i)
             v == M!Lookup(interval, i)
             s == IF i \in DOMAIN interval THEN M!Told(h.status, interval[i]) ELSE h.status
             r == IF i \in DOMAIN r2ri \ M!Aged THEN M!Told(h.reported, r2ri[i]) ELSE h.reported
             g == (h.removed \/ i \in M!Aged)
             e == noted'[i]
             Sums == [rx : Nat, tx : Nat, missed : Nat]
  <2>1. h \in MetricNotes /\ h.status \in Sums /\ h.reported \in Sums /\ h.removed \in BOOLEAN
    <3>1. h \in MetricNotes
      BY <1>2
    <3> HIDE DEF h
    <3> QED
      BY <3>1 DEF MetricNotes
  <2>2. p \in MetricData /\ v \in MetricData
    BY <1>0, MetricEntries
  <2>3. e = [h EXCEPT !.status = s, !.reported = r, !.removed = g]
    BY <1>1
  <2>4. p.rx \in Nat /\ p.tx \in Nat /\ p.missed \in Nat /\ v.rx \in Nat /\ v.tx \in Nat
        /\ v.missed \in Nat
    BY <2>2, MetricFields
  <2>5. s \in Sums /\ s.rx = h.status.rx + v.rx /\ s.tx = h.status.tx + v.tx
    <3>1. CASE i \in DOMAIN interval
      <4>1. v = interval[i]
        BY <3>1 DEF M!Lookup
      <4>2. s = [rx |-> h.status.rx + v.rx, tx |-> h.status.tx + v.tx,
                 missed |-> h.status.missed + v.missed]
        BY <3>1, <4>1 DEF M!Told
      <4> HIDE DEF h, v, s
      <4> QED
        BY <2>1, <2>4, <4>2
    <3>2. CASE i \notin DOMAIN interval
      <4>1. s = h.status /\ v.rx = 0 /\ v.tx = 0
        BY <1>3, <3>2
      <4> HIDE DEF h, v, s
      <4> QED
        BY <2>1, <4>1
    <3> QED
      BY <3>1, <3>2
  <2>6. /\ r \in Sums
        /\ i \notin M!Aged => /\ r.rx = h.reported.rx + p.rx /\ r.tx = h.reported.tx + p.tx
                              /\ r.missed = h.reported.missed + p.missed
        /\ i \in M!Aged => r = h.reported
    <3>1. CASE i \in DOMAIN r2ri \ M!Aged
      <4>1. p = r2ri[i]
        BY <3>1 DEF M!Lookup
      <4>2. r = [rx |-> h.reported.rx + p.rx, tx |-> h.reported.tx + p.tx,
                 missed |-> h.reported.missed + p.missed]
        BY <3>1, <4>1 DEF M!Told
      <4> HIDE DEF h, p, r
      <4> QED
        BY <2>1, <2>4, <3>1, <4>2
    <3>2. CASE i \notin DOMAIN r2ri \ M!Aged
      <4>1. r = h.reported
            /\ (i \notin M!Aged => p.rx = 0 /\ p.tx = 0 /\ p.missed = 0)
        BY <1>4, <3>2
      <4> HIDE DEF h, p, r
      <4> QED
        BY <2>1, <4>1
    <3> QED
      BY <3>1, <3>2
  <2>7. g \in BOOLEAN
    BY <2>1
  <2> HIDE DEF h, p, v, s, r, g, e
  <2>8. /\ e \in MetricNotes /\ e.rx = h.rx /\ e.tx = h.tx /\ e.late = h.late
        /\ e.zero = h.zero /\ e.irregular = h.irregular /\ e.removed = g /\ e.status = s /\ e.reported = r
    BY <2>1, <2>3, <2>5, <2>6, <2>7 DEF MetricNotes
  <2> QED
    BY <2>5, <2>6, <2>8 DEF h, p, v, g, e
<1>6. MetricTypes'
  <2>1. noted' \in [M!Indices -> MetricNotes]
    BY <1>1, <1>5
  <2>2. AccountOK(interval')
    BY <1>3 DEF AccountOK, M!Lookup
  <2>3. AccountOK(r2ri')
    BY <1>4 DEF AccountOK, M!Lookup
  <2>4. lateReport' \in BOOLEAN
    BY <1>1
  <2>5. lastReport' \in Nat /\ lastReport' <= clock'
    <3>1. lastReport' = clock /\ clock' = clock
      BY <1>1
    <3> QED
      BY <1>2, <3>1
  <2> QED
    BY <1>0, <1>1, <2>1, <2>2, <2>3, <2>4, <2>5 DEF MetricTypes, M!ConstantsOK, AccountOK
<1>7. QueuesFit'
  <2>1. ASSUME NEW q \in DOMAIN queues'
        PROVE  queues'[q].max \in Nat /\ queues'[q].highWater = 0
    <3>1. q \in DOMAIN queues /\ queues'[q] = [M!QueueData EXCEPT !.max = queues[q].max]
      BY <1>1 DEF M!QueueMetrics
    <3>2. queues[q].max \in Nat
      BY <1>0, <3>1 DEF QueuesFit
    <3> QED
      BY <3>1, <3>2 DEF M!QueueData
  <2> QED
    BY <2>1 DEF QueuesFit
<1>8. ReportsRecent'
  BY <1>4 DEF ReportsRecent
<1>9. TotalsTrue'
  <2>1. \A i \in M!Indices : noted'[i].rx = noted[i].rx /\ noted'[i].tx = noted[i].tx
    BY <1>5
  <2> QED
    BY <1>0, <1>1, <2>1 DEF TotalsTrue
<1>10. M!ReportsComplete'
  <2> SUFFICES ASSUME NEW m \in Neighbors
               PROVE  /\ ~lateReport' => noted'[m].reported.rx + M!Lookup(r2ri', m).rx = noted'[m].rx
                      /\ ~noted'[m].removed =>
                           noted'[m].reported.tx + M!Lookup(r2ri', m).tx = noted'[m].tx
                      /\ noted'[m].status.rx + M!Lookup(interval', m).rx = noted'[m].rx
                      /\ noted'[m].status.tx + M!Lookup(interval', m).tx = noted'[m].tx
    BY DEF M!ReportsComplete, M!Sum, M!Pending
  <2> DEFINE h == noted[m]
             h1 == noted'[m]
             p == M!Lookup(r2ri, m)
             v == M!Lookup(interval, m)
             p1 == M!Lookup(r2ri', m)
             v1 == M!Lookup(interval', m)
  <2>1. /\ ~lateReport => h.reported.rx + p.rx = h.rx
        /\ ~h.removed => h.reported.tx + p.tx = h.tx
        /\ h.status.rx + v.rx = h.rx
        /\ h.status.tx + v.tx = h.tx
    BY <1>0 DEF M!ReportsComplete, M!Sum, M!Pending
  <2>2. h \in MetricNotes /\ p \in MetricData /\ v \in MetricData
    BY <1>0, <1>2, MetricEntries
  <2>3. /\ h.rx \in Nat /\ h.tx \in Nat /\ h.reported.rx \in Nat /\ h.reported.tx \in Nat
        /\ h.status.rx \in Nat /\ h.status.tx \in Nat
        /\ p.rx \in Nat /\ p.tx \in Nat /\ v.rx \in Nat /\ v.tx \in Nat /\ p.lastRx \in Nat
    <3> HIDE DEF h, p, v
    <3> QED
      BY <2>2, MetricNoted, MetricFields
  <2>4. /\ h1.rx = h.rx /\ h1.tx = h.tx /\ h1.removed = (h.removed \/ m \in M!Aged)
        /\ h1.status.rx = h.status.rx + v.rx /\ h1.status.tx = h.status.tx + v.tx
        /\ m \notin M!Aged => /\ h1.reported.rx = h.reported.rx + p.rx
                              /\ h1.reported.tx = h.reported.tx + p.tx
        /\ m \in M!Aged => h1.reported = h.reported
    BY <1>2, <1>5
  <2>5. p1.rx = 0 /\ p1.tx = 0 /\ v1.rx = 0 /\ v1.tx = 0
    BY <1>3, <1>4
  <2>6. m \in M!Aged => clock - p.lastRx > DeleteAge
    BY DEF M!Aged, M!Lookup
  <2>7. p.rx > 0 => p.lastRx >= lastReport
    BY <1>0 DEF ReportsRecent
  <2>8. ~lateReport' => ~lateReport /\ ~(clock - lastReport > DeleteAge)
    BY <1>1, <1>2
  <2> HIDE DEF h, h1, p, v, p1, v1
  <2>9. ~lateReport' /\ m \in M!Aged => p.rx = 0
    BY <1>2, <2>3, <2>6, <2>7, <2>8
  <2>10. ~lateReport' => h1.reported.rx + p1.rx = h1.rx
    BY <2>1, <2>3, <2>4, <2>5, <2>8, <2>9
  <2>11. ASSUME ~h1.removed
         PROVE  h1.reported.tx + p1.tx = h1.tx
    <3>1. ~h.removed /\ m \notin M!Aged
      BY <2>4, <2>11
    <3> QED
      BY <2>1, <2>3, <2>4, <2>5, <3>1
  <2>12. h1.status.rx + v1.rx = h1.rx /\ h1.status.tx + v1.tx = h1.tx
    BY <2>1, <2>3, <2>4, <2>5
  <2> QED
    BY <2>10, <2>11, <2>12 DEF h1, p1, v1
<1>11. NumbersKnown'
  <2> SUFFICES ASSUME NEW m \in Neighbors, ~noted'[m].irregular
               PROVE  /\ Sequenced(m)'
                      /\ \E numbers : Distinct(m, numbers)'
                      /\ ~noted'[m].removed =>
                           M!Lookup(r2ri', m).lastSeq = M!Lookup(totals, m).lastSeq
    BY <1>1 DEF NumbersKnown
  <2>1. ~noted[m].irregular /\ (~noted'[m].removed => ~noted[m].removed /\ m \notin M!Aged)
    BY <1>2, <1>5
  <2>5. noted'[m].zero = noted[m].zero
    BY <1>2, <1>5
  <2>2. PICK numbers : Distinct(m, numbers)
    BY <1>0, <2>1 DEF NumbersKnown
  <2>3. Distinct(m, numbers)'
    BY <1>1, <2>2, <2>5 DEF Distinct, M!ZeroCame
  <2>6. Sequenced(m)
    BY <1>0, <2>1 DEF NumbersKnown
  <2>7. Sequenced(m)'
    BY <1>1, <2>5, <2>6 DEF Sequenced
  <2>4. ~noted'[m].removed => M!Lookup(r2ri', m).lastSeq = M!Lookup(r2ri, m).lastSeq
    BY <1>4, <2>1
  <2> QED
    BY <1>0, <2>1, <2>3, <2>4, <2>7 DEF NumbersKnown
<1>12. M!MissedRight'
  <2> SUFFICES ASSUME NEW m \in Neighbors, ~noted'[m].irregular
               PROVE  /\ \/ M!Lookup(totals, m).missed = M!Gaps(m)
                         \/ /\ noted[m].zero = "late"
                            /\ M!Lookup(totals, m).missed = M!Gaps(m) - 1
                      /\ ~noted'[m].removed =>
                           M!Sum(m, "missed")' - M!Lookup(totals, m).missed
                             \in 0..noted'[m].late
    <3>1. \A m \in Neighbors : noted'[m].zero = noted[m].zero /\ M!Gaps(m)' = M!Gaps(m)
      BY <1>1, <1>2, <1>5 DEF M!Gaps, M!ZeroCame
    <3> QED
      BY <1>1, <3>1 DEF M!MissedRight
  <2>1. ~noted[m].irregular /\ noted'[m].late = noted[m].late
        /\ (~noted'[m].removed => ~noted[m].removed /\ m \notin M!Aged)
    BY <1>2, <1>5
  <2>2. /\ M!Sum(m, "missed")' = noted'[m].reported.missed + M!Lookup(r2ri', m).missed
        /\ M!Sum(m, "missed") = noted[m].reported.missed + M!Lookup(r2ri, m).missed
    BY DEF M!Sum, M!Pending
  <2>3. ~noted'[m].removed =>
          /\ M!Lookup(r2ri', m).missed = 0
          /\ noted'[m].reported.missed = noted[m].reported.missed + M!Lookup(r2ri, m).missed
    BY <1>2, <1>4, <1>5, <2>1
  <2>4. noted[m].reported.missed \in Nat /\ M!Lookup(r2ri, m).missed \in Nat
    BY <1>0, <1>2, MetricEntries, MetricFields, MetricNoted
  <2>5. ~noted'[m].removed => M!Sum(m, "missed")' = M!Sum(m, "missed")
    BY <2>2, <2>3, <2>4
  <2> QED
    BY <1>0, <2>1, <2>5 DEF M!MissedRight
<1> QED
  BY <1>6, <1>7, <1>8, <1>9, <1>10, <1>11, <1>12 DEF MetricInv

(* Every step keeps the invariant. *)
LEMMA MetricNext ==
  ASSUME MetricInv, M!Next
  PROVE  MetricInv'
<1>1. CASE \E n \in Neighbors : M!NeighborSends(n) \/ M!NeighborRestarts(n)
  BY <1>1, MetricSends, MetricRestarts
<1>2. CASE M!Tick \/ \E q \in Queues, s \in QueueSamples : M!UpdateQueueMetric(q, s)
  BY <1>2, MetricQuiet
<1>3. CASE \E f \in air, rate \in Rates, again \in BOOLEAN :
             M!UpdateNeighborRx(f[1], f[2], rate, again)
  BY <1>3, MetricRx
<1>4. CASE \E i \in M!Indices, rate \in Rates : M!UpdateNeighborTx(i, rate)
  BY <1>4, MetricTx
<1>5. CASE M!PublishR2RI
  BY <1>5, MetricReport
<1> QED
  BY <1>1, <1>2, <1>3, <1>4, <1>5 DEF M!Next

(* The invariant says what the run checks. *)
LEMMA MetricHolds ==
  ASSUME MetricInv
  PROVE  M!MetricsTrue
<1>1. MetricTypes /\ QueuesFit /\ TotalsTrue /\ M!ReportsComplete /\ M!MissedRight
  BY DEF MetricInv
<1>2. M!QueueDepthFits
  BY <1>1 DEF QueuesFit, M!QueueDepthFits
<1>3. M!TableCurrent
  <2> SUFFICES ASSUME NEW i \in M!Indices
               PROVE  /\ i \in DOMAIN totals =>
                           /\ table[i] = M!MetricStatus(totals[i])
                           /\ totals[i].rx = noted[i].rx /\ totals[i].tx = noted[i].tx
                      /\ \A accounts \in {r2ri, interval, totals} :
                           LET d == M!Lookup(accounts, i) IN
                           /\ d.rx > 0 => \E lo, hi \in Rates : d.rxRate \in lo .. hi
                           /\ d.tx > 0 => \E lo, hi \in Rates : d.txRate \in lo .. hi
    BY DEF M!TableCurrent
  <2>1. i \in DOMAIN totals => /\ table[i] = M!MetricStatus(totals[i])
                               /\ totals[i].rx = noted[i].rx /\ totals[i].tx = noted[i].tx
    BY <1>1 DEF TotalsTrue, M!Lookup
  <2>2. \A accounts \in {r2ri, interval, totals} : DataOK(M!Lookup(accounts, i))
    BY <1>1, MetricEntries
  <2> QED
    BY <2>1, <2>2 DEF DataOK, RateRight
<1> QED
  BY <1>1, <1>2, <1>3 DEF M!MetricsTrue
-----------------------------------------------------------------------------
(***************************************************************************)
(* The models together.                                                    *)
(***************************************************************************)
ModelsInv ==
    /\ model = "wifi" => WifiInv
    /\ model = "bentpipe" => BentInv
    /\ model = "metrics" => MetricInv

(* Each model starts well. *)
LEMMA ModelsStart == ModelsInit => ModelsInv
  BY ModelsAssumption, WifiInit, BentInit, MetricInit DEF ModelsInit, ModelsInv

(* Nothing moves. *)
LEMMA ModelsStutter ==
  ASSUME ModelsInv, UNCHANGED modelVars
  PROVE  ModelsInv'
<1>1. ASSUME WifiInv PROVE WifiInv'
  <2>1. WifiTypes /\ WifiDown /\ WifiKnown
    BY <1>1 DEF WifiInv
  <2>2. UNCHANGED <<chosen, W!sender>> /\ clock' = clock
        /\ UNCHANGED <<channel_activity, rows, published, up, lives, pending_rx>>
    BY DEF modelVars, wifiOnly, W!sender
  <2>3. clock \in Nat /\ up \in BOOLEAN
    BY <2>1 DEF WifiTypes
  <2>4. up \/ pending_rx' = {}
    BY <2>1, <2>2, <2>3 DEF WifiDown
  <2>5. WifiKnown'
    BY <2>1, <2>2, WifiSenderKnows
  <2>6. clock' \in Nat /\ clock <= clock'
    BY <2>2, <2>3
  <2> QED
    BY <1>1, <2>2, <2>4, <2>5, <2>6, WifiSenderKept DEF WifiInv
<1>2. ASSUME BentInv PROVE BentInv'
  <2>1. UNCHANGED <<chosen, B!sender>> /\ clock' = clock
    BY DEF modelVars, bentOnly, B!sender
  <2>2. clock' \in Nat
    BY <1>2, <2>1 DEF BentInv, BentTypes
  <2> QED
    BY <1>2, <2>1, <2>2, BentSenderKept
<1>3. ASSUME MetricInv PROVE MetricInv'
  <2>0. /\ MetricTypes /\ QueuesFit /\ ReportsRecent /\ NumbersKnown /\ TotalsTrue
        /\ M!ReportsComplete /\ M!MissedRight
    BY <1>3 DEF MetricInv
  <2>1. UNCHANGED <<clock, last_sent, air, r2ri, interval, totals, table, queues, noted,
                    lastReport, lateReport>>
    BY DEF modelVars, metricsOnly
  <2>2. MetricTypes' /\ QueuesFit' /\ NumbersKnown'
    BY <2>0, <2>1 DEF MetricTypes, M!ConstantsOK, AccountOK, QueuesFit, NumbersKnown, Distinct,
       Sequenced, M!ZeroCame
  <2> QED
    BY <2>0, <2>1, <2>2, MetricKept DEF MetricInv
<1>4. model' = model
  BY DEF modelVars
<1> QED
  BY <1>1, <1>2, <1>3, <1>4 DEF ModelsInv

(* Each step is one of the model a behaviour is about. *)
LEMMA ModelsStep ==
  ASSUME ModelsInv, [ModelsNext]_modelVars
  PROVE  ModelsInv'
<1>1. CASE model = "wifi" /\ W!Next /\ UNCHANGED <<model, bentOnly, metricsOnly>>
  BY <1>1, WifiNext DEF ModelsInv
<1>2. CASE model = "bentpipe" /\ B!Next /\ UNCHANGED <<model, queues, wifiOnly, metricsOnly>>
  BY <1>2, BentNext DEF ModelsInv
<1>3. CASE /\ model = "metrics" /\ M!Next
           /\ UNCHANGED <<model, chosen, up, offered, wifiOnly, bentOnly>>
  BY <1>3, MetricNext DEF ModelsInv
<1>4. CASE UNCHANGED modelVars
  BY <1>4, ModelsStutter
<1> QED
  BY <1>1, <1>2, <1>3, <1>4 DEF ModelsNext

(* The invariants of the IEEE 802.11abg and bent-pipe models and of the    *)
(* metrics hold in every state, for every setting.                         *)
THEOREM ModelsInvariance == ModelsSpec => []ModelsInv
<1>1. ModelsInv /\ [ModelsNext]_modelVars => ModelsInv'
  BY ModelsStep
<1> QED
  BY <1>1, ModelsStart, PTL DEF ModelsSpec

(* Accepting, expiring, retrying and dropping packets, stop and start      *)
(* never lose a token of the IEEE 802.11abg model nor make one up; the     *)
(* packet it works on is woken by an armed timer when it is ready; and at  *)
(* each station the table and the event show exactly the neighbours it has *)
(* heard of.                                                               *)
THEOREM WifiAccountsAlways == ModelsSpec => []WifiAccounts
<1>1. ModelsInv => WifiAccounts
  BY WifiHolds DEF ModelsInv, WifiAccounts
<1> QED
  BY <1>1, ModelsInvariance, PTL

(* In the bent-pipe model, drive, schedule_transmit, relaying, missed      *)
(* slots and superseded timers never leave a queued packet without a       *)
(* wakeup; transmissions are decided on in own slots, or within a slot's   *)
(* length of a relayed packet's time; as send_downstream stamps them, one  *)
(* reaches into the next by no more than its own stamp was late.           *)
THEOREM BentSendsAlways == ModelsSpec => BentSends
<1>1. ModelsInv => (model = "bentpipe" => B!WakeupComing)
  BY DEF ModelsInv, BentInv
<1>2. ASSUME ModelsInv, [ModelsNext]_modelVars
      PROVE  [B!SlotDiscipline]_modelVars
  <2>1. CASE model = "bentpipe" /\ B!Next
    BY <1>2, <2>1, BentNext DEF ModelsInv
  <2>2. CASE UNCHANGED bentOnly
    BY <2>2 DEF bentOnly, B!SlotDiscipline
  <2>3. CASE UNCHANGED modelVars
    BY <2>3
  <2> QED
    BY <1>2, <2>1, <2>2, <2>3 DEF ModelsNext
<1>3. ModelsInv /\ [ModelsNext]_modelVars => [B!SlotDiscipline]_modelVars
  BY <1>2
<1>4. ModelsSpec => [](model = "bentpipe" => B!WakeupComing)
  BY <1>1, ModelsInvariance, PTL
<1>5. ModelsSpec => [][B!SlotDiscipline]_modelVars
  BY <1>3, ModelsInvariance, PTL DEF ModelsSpec
<1> QED
  BY <1>4, <1>5 DEF BentSends

(* The reports of neighbours leave no reception untold unless they are     *)
(* further apart than the delete age; frames missed are counted right in   *)
(* whatever order frames come, as long as a neighbour numbers them         *)
(* regularly, but for a frame 0 that comes late; the table shows the       *)
(* totals, averages lie between rates that occurred, and no queue is       *)
(* reported deeper than its size.                                          *)
THEOREM MetricsAlways == ModelsSpec => []MetricsTrue
<1>1. ModelsInv => MetricsTrue
  BY MetricHolds DEF ModelsInv, MetricsTrue
<1> QED
  BY <1>1, ModelsInvariance, PTL
=============================================================================
