--------------------------- MODULE MCUpperLayers ---------------------------
(***************************************************************************)
(* What sits above and beside a MAC, one part at a time: the transport and *)
(* its token count, the exported flow-control pair, the boundary endpoint, *)
(* the comm-effect shim, and the scenario that is published to the layers. *)
(* part says which one a behaviour is about; variables two parts have in   *)
(* common are shared, those of the other parts do not move.                *)
(***************************************************************************)
EXTENDS Integers, Sequences, FiniteSets, TLC

CONSTANTS Total, QueueCapacity, TokenModulus, MaxFrames,
          Totals, MaxRestarts, MaxSends,
          Protocols, HeaderLength, Lengths,
          EffectSettings, Effects, Frames, Sources, MaxPackets, MaxEvents,
          Nems, MaxTime, MaxRecords, MaxCells, MaxDepartures

(* The MAC has a token to give, counts are natural numbers, and no message *)
(* is shorter than its header.  Times, sizes and rates of effects are not  *)
(* negative, and a jitter has a whole number of ticks.                     *)
EffectsOf(effects) ==
    \A e \in effects : /\ {e.latency, e.jitter, e.loss, e.duplicate} \subseteq Nat
                       /\ {e.unicast, e.broadcast} \subseteq Nat

ASSUME UpperAssumption ==
    /\ Total \in Nat \ {0} /\ QueueCapacity \in Nat \ {0} /\ TokenModulus \in Nat \ {0}
    /\ Totals \subseteq Nat
    /\ Protocols \subseteq {"udp", "tcp"}
    /\ HeaderLength \in Nat \ {0} /\ Lengths \in Seq(Nat)
    /\ \A m \in 1..Len(Lengths) : Lengths[m] >= HeaderLength
    /\ EffectsOf(Effects) /\ \A f \in Frames : f.size \in Nat
    /\ \A s \in EffectSettings :
         /\ s.buffer \in Nat /\ DOMAIN s.filters = 1..Len(s.filters)
         /\ EffectsOf({s.filters[i].effect : i \in 1..Len(s.filters)})

VARIABLES
    part, arrived, down, up, started, queue, cancel, starts,
    flow_control_tokens, pending_transport_frames, reader, worker, granting,
    available_tokens, stopping, stranded,
    tokens_available, total_tokens_available, shadow_token_count, last_tokens_update,
    ack_pending, in_service, client_tokens, waiting, client_starts, sends,
    in_hand, overtaken, underflow,
    protocol, manager, routed, holder, sender, receiver, received, wire, sent, handed, order,
    now, setting, life, default_connectivity, profiles, end_of_reception, copies,
    events, receptions, outcome,
    loaders, progress, current, pending, due, cancelled, channel, users, view,
    statements, announced, missed, departures

transportOnly == <<flow_control_tokens, pending_transport_frames, reader, worker, granting,
                   available_tokens, stopping, stranded>>
flowOnly == <<tokens_available, total_tokens_available, shadow_token_count,
              last_tokens_update, ack_pending, in_service, client_tokens, waiting,
              client_starts, sends, in_hand, overtaken, underflow>>
boundaryOnly == <<protocol, manager, routed, holder, sender, receiver, received, wire, sent,
                  handed, order>>
effectOnly == <<now, setting, life, default_connectivity, profiles, end_of_reception,
                copies, events, receptions, outcome>>
scenarioOnly == <<loaders, progress, current, pending, due, cancelled, channel, users,
                  view, statements, announced, missed, departures>>
vars == <<part, arrived, down, up, started, queue, cancel, starts, transportOnly, flowOnly,
          boundaryOnly, effectOnly, scenarioOnly>>

(* Headers of two units: a message without payload, and longer ones. *)
PeerLengths == <<2, 3, 4>>

Frame == [ipv4 |-> TRUE, source |-> 1, address |-> 2, tos |-> 0, ttl |-> 1,
          total_length |-> 3, protocol |-> 17, truncated |-> FALSE, sport |-> 5,
          dport |-> 6, size |-> 2, destination |-> "me"]

MCFrames == {Frame, [Frame EXCEPT !.destination = "other"],
             [Frame EXCEPT !.protocol = 6, !.destination = "broadcast"]}

Effect == [latency |-> 1, jitter |-> 0, loss |-> 0, duplicate |-> 100, unicast |-> 1,
           broadcast |-> 1]

MCEffects == {Effect, [Effect EXCEPT !.jitter = 1, !.duplicate = 0, !.loss = 50]}

AnyPacket == [source |-> {}, destination |-> {}, tos |-> {}, ttl |-> {},
              total_length |-> {}, protocols |-> {}]

(* A rule on a UDP port, then one on a protocol number and an address. *)
Filters ==
    <<[target |-> {[AnyPacket EXCEPT
         !.protocols = {[kind |-> "udp", source |-> {5}, destination |-> {}]}]},
       effect |-> [Effect EXCEPT !.unicast = 2, !.duplicate = 50]],
      [target |-> {[AnyPacket EXCEPT !.source = {1},
         !.protocols = {[kind |-> "number", number |-> 6]}]},
       effect |-> [Effect EXCEPT !.loss = 100]]>>

MCEffectSettings ==
    {[promiscuous |-> FALSE, connectivity |-> TRUE, buffer |-> 1, filters |-> <<>>,
      time |-> 3],
     [promiscuous |-> TRUE, connectivity |-> FALSE, buffer |-> 0, filters |-> Filters,
      time |-> 2]}

(* One library of each kind in each mode, two together, and two that       *)
(* would load the same events.                                             *)
Libraries ==
    {"location", "antennaprofile", "pathloss", "pathlossex", "commeffect", "fadingselection"}

TypesOf(l) == IF l = "location" THEN {"location", "orientation", "velocity"} ELSE {l}

Loader(types, library, m) == [types |-> types, library |-> library, mode |-> m]

Specifications ==
    {<<Loader(TypesOf(l), l, m)>> : l \in Libraries, m \in {"delta", "full"}}
      \cup {<<Loader({"pathloss"}, "pathloss", "delta"),
              Loader({"antennaprofile"}, "antennaprofile", "full")>>,
            <<Loader({"location"}, "location", "delta"),
              Loader({"location"}, "pathloss", "full")>>}

Argument(other, frequency, forward, reverse) ==
    [ok |-> TRUE, nem |-> other, frequency |-> frequency, forward |-> forward,
     reverse |-> reverse]

Record(t, n, y, a) ==
    [malformed |-> FALSE, time |-> t, module |-> "nem", nem |-> n, type |-> y, arguments |-> a]

GoodRecords ==
    {Record(t, n, y, <<Argument(3 - n, n, n, t + 1)>>) :
       t \in 1..MaxTime, n \in Nems, y \in Libraries \ {"location", "antennaprofile"}}
      \cup {Record(t, n, y, <<Argument(0, 0, t, t)>>) :
              t \in 1..MaxTime, n \in Nems, y \in {"location", "antennaprofile"}}
      \cup {Record(t, 1, "orientation", <<Argument(0, 0, t, t)>>) : t \in 1..MaxTime}
      \cup {Record(1, 1, "pathlossex", [f \in 1..3 |-> Argument(2, f, f, f + 1)])}

BadRecords ==
    {[Record(1, 1, "pathloss", << >>) EXCEPT !.malformed = TRUE],
     [Record(2, 1, "pathloss", << >>) EXCEPT !.module = "bad"],
     [Record(2, 1, "location", << >>) EXCEPT !.module = "other"],
     Record(2, 1, "pathloss", <<Argument(2, 0, 1, 2), [ok |-> FALSE]>>),
     Record(2, 1, "location", << >>),
     Record(2, 1, "unknown", <<Argument(2, 0, 1, 1)>>)}

Records ==
    [L \in SUBSET Libraries |->
       {r \in GoodRecords :
          (\E l \in L : r.type \in TypesOf(l)) /\ (r.nem = 1 \/ Cardinality(L) = 1)}
         \cup BadRecords]

T == INSTANCE TransportFlow
F == INSTANCE FlowControl
B == INSTANCE BoundaryEndpoint
E == INSTANCE CommEffect
S == INSTANCE Scenario

NoTransport ==
    /\ flow_control_tokens = 0 /\ pending_transport_frames = 0 /\ reader = 0 /\ worker = 0
    /\ granting = 0 /\ available_tokens = 0 /\ stopping = 0 /\ stranded = 0

NoFlow ==
    /\ tokens_available = 0 /\ total_tokens_available = 0 /\ shadow_token_count = 0
    /\ last_tokens_update = 0 /\ ack_pending = 0 /\ in_service = 0 /\ client_tokens = 0
    /\ waiting = 0 /\ client_starts = 0 /\ sends = 0 /\ underflow = 0
    /\ in_hand = 0 /\ overtaken = 0

NoBoundary ==
    /\ protocol = 0 /\ manager = 0 /\ routed = 0 /\ holder = 0 /\ sender = 0
    /\ receiver = 0 /\ received = 0 /\ wire = 0 /\ sent = 0 /\ handed = 0 /\ order = 0

NoEffect ==
    /\ now = 0 /\ setting = 0 /\ life = 0 /\ default_connectivity = 0 /\ profiles = 0
    /\ end_of_reception = 0 /\ copies = 0 /\ events = 0 /\ receptions = 0 /\ outcome = 0

NoScenario ==
    /\ loaders = 0 /\ progress = 0 /\ current = 0 /\ pending = 0 /\ due = 0 /\ cancelled = 0
    /\ channel = 0 /\ users = 0 /\ view = 0 /\ statements = 0 /\ announced = 0 /\ missed = 0
    /\ departures = 0

Init ==
    \/ /\ part = "transport" /\ T!Init /\ NoFlow /\ NoBoundary /\ NoEffect /\ NoScenario
    \/ /\ part = "flow" /\ F!Init /\ NoTransport /\ NoBoundary /\ NoEffect /\ NoScenario
       /\ arrived = 0 /\ started = 0 /\ queue = 0
    \/ /\ part = "boundary" /\ B!Init /\ NoTransport /\ NoFlow /\ NoEffect /\ NoScenario
       /\ arrived = 0 /\ down = 0 /\ up = 0 /\ started = 0 /\ starts = 0
    \/ /\ part = "effect" /\ E!Init /\ NoTransport /\ NoFlow /\ NoBoundary /\ NoScenario
       /\ down = 0 /\ up = 0 /\ started = 0 /\ cancel = 0 /\ starts = 0
    \/ /\ part = "scenario" /\ S!Init /\ NoTransport /\ NoFlow /\ NoBoundary /\ NoEffect
       /\ arrived = 0 /\ down = 0 /\ up = 0 /\ started = 0 /\ queue = 0 /\ cancel = 0
       /\ starts = 0

OthersOfBoundary ==
    <<part, transportOnly, flowOnly, effectOnly, scenarioOnly, arrived, down, up, started,
      starts>>

Next ==
    \/ /\ part = "transport" /\ T!Next
       /\ UNCHANGED <<part, flowOnly, boundaryOnly, effectOnly, scenarioOnly>>
    \/ /\ part = "flow" /\ F!Next
       /\ UNCHANGED <<part, transportOnly, boundaryOnly, effectOnly, scenarioOnly, arrived, started,
                      queue>>
    \/ /\ part = "boundary" /\ B!Next
       /\ UNCHANGED OthersOfBoundary
    \/ /\ part = "effect" /\ E!Next
       /\ UNCHANGED <<part, transportOnly, flowOnly, boundaryOnly, scenarioOnly, down, up, started,
                      cancel, starts>>
    \/ /\ part = "scenario" /\ S!Next
       /\ UNCHANGED <<part, transportOnly, flowOnly, boundaryOnly, effectOnly, arrived, down,
                      up, started, queue, cancel, starts>>

(* The fairness of BoundaryEndpoint. *)
Spec ==
    /\ Init /\ [][Next]_vars
    /\ WF_vars(part = "boundary" /\ B!ThreadProgress /\ UNCHANGED OthersOfBoundary)
    /\ WF_vars(part = "boundary" /\ B!SenderProgress /\ UNCHANGED OthersOfBoundary)
    /\ WF_vars(part = "boundary" /\ B!StopProgress /\ UNCHANGED OthersOfBoundary)

-----------------------------------------------------------------------------
(* TransportFlow!FlowSettles and FlowControl!CreditsAgree: the transport's *)
(* unguarded token count comes right again once everything is at rest, and *)
(* the flow-control manager and its client agree.                          *)
TokensAgree ==
    /\ part = "transport" => T!FlowSettles
    /\ part = "flow" => F!CreditsAgree

(* BoundaryEndpoint!HandedWhole: a layer is handed whole messages, in      *)
(* order, whatever the reads and the connections of the endpoint.          *)
HandedWhole == part = "boundary" => B!HandedWhole

(* BoundaryEndpoint!CloseReturns: unless the peer leaves a write blocked   *)
(* for ever, close of the endpoint joins its thread, or, when the thread   *)
(* runs a handler itself, the two wait for each other.                     *)
CloseReturns ==
    []<>~(part = "boundary" /\ B!Writing) =>
      /\ (part = "boundary" /\ B!StopBegins /\ B!Queued) ~> (part = "boundary" /\ manager = "stopped")
      /\ (part = "boundary" /\ B!StopBegins) ~>
           (part = "boundary" /\ (manager = "stopped" \/ B!Deadlocked))

(* CommEffect!EffectsKept: delay, bit rate and buffer of the effects hold. *)
EffectsKept == part = "effect" => E!EffectsKept

(* Scenario!ScenarioFollowed: layers know what the published records say,  *)
(* unless events were lost.                                                *)
ScenarioFollowed == part = "scenario" => S!ScenarioFollowed
============================================================================
