---------------------------- MODULE MCMacModels ----------------------------
(***************************************************************************)
(* The IEEE 802.11abg and the bent-pipe radio models, and the metrics that *)
(* radio models keep of their neighbours and queues, one at a time: model  *)
(* says which one a behaviour is about.  Variables that two of them have   *)
(* are shared; those of the others alone do not move.  Variables that      *)
(* RfPipeMac has too are named apart from its own, so that                 *)
(* RadioModelProofs can speak of both.                                     *)
(***************************************************************************)
EXTENDS Integers, Sequences

CONSTANTS WifiSettings, PreDelays, PostDelays, AirTimes, HistorySize, Validity,
          NeighborTimeout,
          BentSettings, Sizes, FragmentTimeout, CheckInterval,
          Neighbors, Broadcast, Rates, Queues, QueueSamples, DeleteAge, StartTime,
          MaxSequence, MaxMetricSteps

VARIABLES
    model, clock, chosen, up, offered, air, queues,
    lives, tokens, active_tx, sequence, next_wakeup, wakeups, place,
    pending_rx, duplicate_history, channel_activity, two_hop_activity,
    next_estimate, published, rows, overheard, passed,
    life, waiting, packet_sequence, current_eot, wakeup, alarms, driving, left_over,
    relay_times, last, receive_end, reassembly, receptions, next_check, passed_up,
    last_sent, r2ri, interval, totals, table, noted, lastReport, lateReport, steps

wifiOnly == <<lives, tokens, active_tx, sequence, next_wakeup, wakeups, place, pending_rx,
              duplicate_history, channel_activity, two_hop_activity, next_estimate,
              published, rows, overheard, passed>>
bentOnly == <<life, waiting, packet_sequence, current_eot, wakeup, alarms, driving,
              left_over, relay_times, last, receive_end, reassembly, receptions, next_check,
              passed_up>>
metricsOnly == <<last_sent, r2ri, interval, totals, table, noted, lastReport, lateReport,
                 steps>>
modelVars == <<model, clock, chosen, up, offered, air, queues, wifiOnly, bentOnly,
               metricsOnly>>

W == INSTANCE Ieee80211Mac WITH
       now <- clock, setting <- chosen, started <- up, arrived <- offered,
       available_tokens <- tokens, step <- place, delivered <- passed
B == INSTANCE BentPipe WITH
       now <- clock, setting <- chosen, started <- up, arrived <- offered,
       queue <- waiting, timers <- alarms, pending_receptions <- receptions
M == INSTANCE NeighborMetrics WITH
       now <- clock, sent <- last_sent, history <- noted, Start <- StartTime,
       MaxSteps <- MaxMetricSteps

ASSUME ModelsAssumption == W!ConstantsOK /\ B!ConstantsOK /\ M!ConstantsOK

-----------------------------------------------------------------------------
(* Two categories with a transmit opportunity and tokens; then retries,    *)
(* neighbours and a restart.                                               *)
MCWifiSettings ==
    {[categories |-> 2, flow |-> TRUE, tokens |-> 2, depth |-> 1, txop |-> 1,
      retries |-> 1, estimate |-> 9, packets |-> 3, overheard |-> 0, lives |-> 1,
      time |-> 4],
     [categories |-> 1, flow |-> FALSE, tokens |-> 0, depth |-> 2, txop |-> 0,
      retries |-> 2, estimate |-> 2, packets |-> 1, overheard |-> 1, lives |-> 2,
      time |-> 5]}

MCUnslotted ==
    [mtu |-> 2, rate |-> 2, depth |-> 2, aggregate |-> TRUE, fragment |-> TRUE,
     slots |-> {}, slotsPerFrame |-> 1, slotSize |-> 1, delay |-> 0, relays |-> FALSE,
     hears |-> TRUE, restart |-> FALSE, packets |-> 2, lives |-> 2, time |-> 4]

(* Fragments and a sender that restarts; slots and relaying; no            *)
(* fragmentation and a receiver that restarts.                             *)
MCBentSettings ==
    {MCUnslotted,
     [MCUnslotted EXCEPT !.slots = {1}, !.slotsPerFrame = 2, !.slotSize = 2, !.relays = TRUE,
        !.delay = 1, !.hears = FALSE, !.packets = 3, !.lives = 1, !.time = 5],
     [MCUnslotted EXCEPT !.aggregate = FALSE, !.fragment = FALSE, !.restart = TRUE,
        !.depth = 1, !.lives = 1, !.time = 3]}

MCQueueSamples ==
    {[max |-> m, depth |-> d, discards |-> 1, delay |-> 1] : m \in {3}, d \in {1, 3}}
      \cup {[max |-> 1, depth |-> 1, discards |-> 1, delay |-> 1]}

-----------------------------------------------------------------------------
NoWifi ==
    /\ lives = 0 /\ tokens = 0 /\ active_tx = 0 /\ sequence = 0 /\ next_wakeup = 0
    /\ wakeups = 0 /\ place = 0 /\ pending_rx = 0 /\ duplicate_history = 0
    /\ channel_activity = 0 /\ two_hop_activity = 0 /\ next_estimate = 0 /\ published = 0
    /\ rows = 0 /\ overheard = 0 /\ passed = 0

NoBent ==
    /\ life = 0 /\ waiting = 0 /\ packet_sequence = 0 /\ current_eot = 0 /\ wakeup = 0
    /\ alarms = 0 /\ driving = 0 /\ left_over = 0 /\ relay_times = 0 /\ last = 0 /\ receive_end = 0
    /\ reassembly = 0 /\ receptions = 0 /\ next_check = 0 /\ passed_up = 0

NoMetrics ==
    /\ last_sent = 0 /\ r2ri = 0 /\ interval = 0 /\ totals = 0 /\ table = 0
    /\ noted = 0 /\ lastReport = 0 /\ lateReport = 0 /\ steps = 0

ModelsInit ==
    \/ model = "wifi" /\ W!Init /\ NoBent /\ NoMetrics
    \/ model = "bentpipe" /\ B!Init /\ queues = 0 /\ NoWifi /\ NoMetrics
    \/ /\ model = "metrics" /\ M!Init /\ chosen = 0 /\ up = 0 /\ offered = 0
       /\ NoWifi /\ NoBent

ModelsNext ==
    \/ model = "wifi" /\ W!Next /\ UNCHANGED <<model, bentOnly, metricsOnly>>
    \/ model = "bentpipe" /\ B!Next /\ UNCHANGED <<model, queues, wifiOnly, metricsOnly>>
    \/ /\ model = "metrics" /\ M!Next
       /\ UNCHANGED <<model, chosen, up, offered, wifiOnly, bentOnly>>

ModelsSpec == ModelsInit /\ [][ModelsNext]_modelVars

-----------------------------------------------------------------------------
(* Ieee80211Mac!TokensAccounted, WakeupComing and NeighborsPublished:      *)
(* every flow-control token is with the transport or with a packet the MAC *)
(* holds, the packet being worked on is woken in time, and table and event *)
(* show the neighbours heard of.                                           *)
WifiAccounts ==
    model = "wifi" => W!TokensAccounted /\ W!WakeupComing /\ W!NeighborsPublished

(* BentPipe!WakeupComing and SlotDiscipline: a queued packet has a wakeup  *)
(* and a timer coming, transmissions keep to the slots as they are decided *)
(* on, and as they are stamped overlap by the delay of the stamp at most.  *)
BentSends ==
    /\ [](model = "bentpipe" => B!WakeupComing)
    /\ [][B!SlotDiscipline]_modelVars

(* NeighborMetrics!MetricsTrue: what is reported of neighbours and queues  *)
(* is what happened, however the network treats the frames.                *)
MetricsTrue == model = "metrics" => M!MetricsTrue

(* Ieee80211Mac!DeliveredOnce: a packet sent again is passed up once.      *)
(* BentPipe!WholeOrRecent: what is passed up is a whole packet.            *)
RadioDelivers ==
    /\ model = "wifi" => W!DeliveredOnce
    /\ model = "bentpipe" => B!WholeOrRecent
============================================================================
