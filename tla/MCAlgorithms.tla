---------------------------- MODULE MCAlgorithms ----------------------------
(***************************************************************************)
(* The sequential parts, one at a time: the configuration of the plugins,  *)
(* the spectrum monitor, the physical layer, the statistics and the        *)
(* over-the-air headers.  part says which one a behaviour is about;        *)
(* variables of the same name are shared, those of the other parts do not  *)
(* move.                                                                   *)
(***************************************************************************)
EXTENDS Integers, Sequences, FiniteSets, TLC

CONSTANTS
    MaxUpdates,
    BinSize, MaxOffset, MaxPropagation, MaxDuration, TimeSync, Sensitivity, Clamp,
    MaxTransmissions, MaxTunings,
    MaxPhySteps,
    NotFinite, RowLimit, MaxStatisticSteps,
    MaxHeader, SequenceLimit, MaxSent

VARIABLES
    part,
    kind, values, fields, listening, recorded, update, phase, requested, agreed, refused,
    unrestored, now, mode, foi, bandwidth, recorders, bandCache, maskCache, last,
    stopped, heard, stale, wiped, received, tunings, config, locations, pathloss,
    profiles, selections, fades, gainCache, antennas, sent, log, renamed, made, steps,
    entries, store, nextHandle, held, writer, owner, noted, phySequence, channel,
    boundary, handed

configOnly ==
    <<kind, values, fields, listening, recorded, update, phase, requested, agreed, refused,
      unrestored>>
spectrumOnly ==
    <<mode, bandwidth, recorders, bandCache, maskCache, stopped, heard, wiped,
      received, tunings>>
phyOnly ==
    <<config, locations, pathloss, profiles, selections, fades, gainCache, antennas,
      renamed, made>>
statisticsOnly ==
    <<entries, store, nextHandle, held, writer, owner, noted>>
wireOnly ==
    <<phySequence, channel, boundary, handed>>
sharedVars ==
    <<now, foi, last, stale, sent, log, steps>>
vars == <<part, configOnly, spectrumOnly, phyOnly, statisticsOnly, wireOnly, sharedVars>>

-----------------------------------------------------------------------------
(* PluginConfiguration *)

Item(p, t, v) == [name |-> p, key |-> t, value |-> v]

Given(numbers) == [p \in DOMAIN numbers |-> 0 :> numbers[p]]

(* A field that is "na" in the bent-pipe configurations is -1; -2 is a     *)
(* value out of range.  Transponder 1 of the second one is slotted.        *)
Supplied ==
    {<<"emanephy", Given([txpower |-> 1])>>,
     <<"emanephy", Given([distance0 |-> 1, distance1 |-> 3, dlthresh |-> 1, duthresh |-> 1])>>,
     <<"rfpipe", Given([datarate |-> 1])>>,
     <<"tdma", Given([enablepromiscuousmode |-> 1])>>,
     <<"ieee80211abg", Given([cwmin0 |-> 1, cwmax0 |-> 2])>>,
     <<"ieee80211abg", Given([mode |-> 1, unicastrate |-> 5])>>,
     <<"bentpipe", [frequency |-> <<1, 2>>, mtu |-> <<1, 1>>, slotperframe |-> <<-1, -1>>,
                    slotsize |-> <<-1, -1>>, txslots |-> <<0, 0>>]>>,
     <<"bentpipe", [frequency |-> <<1, 2>>, mtu |-> <<-1, 1>>, slotperframe |-> <<2, -1>>,
                    slotsize |-> <<1, -1>>, txslots |-> <<2, 0>>]>>}

(* Updates of two parameters, in order, or of one with two values; good,   *)
(* bad, and good only together.                                            *)
Pairs(names, numbers) ==
    {<<Item(p, 0, v), Item(q, IF p = q THEN 1 ELSE 0, w)>> :
       p \in names, q \in names, v \in numbers, w \in numbers}

BentItems ==
    {Item(p, t, v) : p \in {"frequency", "mtu"}, t \in 1..3, v \in {-2, 3}}
      \cup {Item(p, t, v) : p \in {"slotperframe", "slotsize"}, t \in 1..2, v \in {-1, 1}}
      \cup {Item("txslots", t, v) : t \in 1..2, v \in {0, 3}}

Updates ==
    [emanephy |-> Pairs({"txpower", "distance0", "distance1"}, {-1, 4})
                    \cup Pairs({"dlthresh", "duthresh"}, {0, 2})
                    \cup {<<Item("txpower", 0, 4), Item("duthresh", 0, -3)>>},
     rfpipe |-> Pairs({"datarate", "neighbormetricdeletetime"}, {-2, 2}),
     tdma |-> Pairs({"enablepromiscuousmode", "neighbormetricdeletetime"}, {-2, 1, 2}),
     ieee80211abg |-> Pairs({"unicastrate", "cwmin0", "cwmax0", "mode"}, {-2, 3, 5}),
     bentpipe |-> {<<i>> : i \in BentItems}
                    \cup {<<i, j>> : i \in {k \in BentItems : k.name = "frequency"},
                                     j \in {k \in BentItems : k.value = -2}}
                    \cup {<<Item("frequency", 1, 2), Item("frequency", 2, 1)>>,
                          <<Item("slotperframe", 1, 2), Item("slotsize", 1, 1),
                            Item("txslots", 1, 2)>>,
                          <<Item("slotperframe", 1, 2), Item("slotsize", 1, -2)>>,
                          <<Item("bandwidth", 1, 2)>>}]

(* SpectrumMonitor: narrow and wide, late and early, masked and shifted. *)

Transmitters == {1, 2}

Ticks == {1, 5, 13}
Modes == {"outofband", "passthrough"}

Masks == <<{[offset |-> 0, width |-> 2, weight |-> 1], [offset |-> 6, width |-> 2, weight |-> 1]}>>

ReceiverTunings == {<<{4, 10}, 4>>, <<{6, 12}, 4>>}

Tx(sources, segments, mask, ahead, inBand) ==
    [sources |-> sources, segments |-> segments, width |-> 4, mask |-> mask, shift |-> 0,
     density |-> 1, ahead |-> ahead, propagation |-> 0, inBand |-> inBand]

Segment(f, o, d) == [frequency |-> f, offset |-> o, duration |-> d]

Transmissions ==
    {Tx({1}, <<Segment(4, 0, 3)>>, 0, 0, TRUE),
     Tx({1}, <<Segment(4, 0, 1)>>, 0, -2, TRUE),
     Tx({2}, <<Segment(6, 1, 2), Segment(10, 2, 4)>>, 0, 1, FALSE),
     Tx({1, 2}, <<Segment(6, 0, 4)>>, 1, 0, FALSE),
     [Tx({2}, <<Segment(6, 0, 4), Segment(4, 0, 5)>>, 0, 0, FALSE) EXCEPT !.propagation = 2],
     [Tx({2}, <<Segment(7, 0, 4)>>, 0, 0, FALSE) EXCEPT !.shift = -1]}
(* PhyLayer *)

Self == 1
Nems == 1..3
Profiles == {1}
Hidden == {<<0, 2>>, <<2, 0>>}

PhyConfig(compat, fixed, model, fading) ==
    [mode |-> compat, fixed |-> fixed, gain |-> 1, model |-> model, fading |-> fading, sub |-> 1,
     frequency |-> 1, promiscuous |-> compat = 2, silence |-> fading = "lognormal"]

Configs == {PhyConfig(1, FALSE, "precomputed", "none"), PhyConfig(2, FALSE, "freespace", "event"),
            PhyConfig(2, TRUE, "precomputed", "lognormal")}

At(n, place, facing, velocity) ==
    [nem |-> n, ok |-> place < 3, place |-> place, facing |-> facing, velocity |-> velocity]

Of(n, frequency, value) == [nem |-> n, ok |-> TRUE, frequency |-> frequency, value |-> value]

Events ==
    {[kind |-> "location", entries |-> e] :
       e \in {<<At(1, 1, -1, -1), At(2, 0, -1, -1)>>, <<At(2, 0, -1, 1)>>,
              <<At(2, 0, 1, -1), At(1, 3, 0, 0)>>,
              <<At(1, 0, -1, -1), At(2, 2, -1, -1)>>}}
      \cup {[kind |-> "pathloss", entries |-> e] :
              e \in {<<Of(2, 0, 5), Of(3, 0, 6)>>, <<Of(2, 1, 7)>>}}
      \cup {[kind |-> "profile", entries |-> <<Of(1, 0, 1), Of(2, 0, 1)>>],
            [kind |-> "fading", entries |-> <<Of(2, 0, "nakagami"), Of(3, 0, "lognormal")>>]}

PhyTunings ==
    {[kind |-> "interest", frequencies |-> {2}],
     [kind |-> "add", index |-> 1, frequencies |-> {1}, pattern |-> <<0, 0>>],
     [kind |-> "add", index |-> 2, frequencies |-> {2}, pattern |-> <<1, 2>>],
     [kind |-> "remove", index |-> 1]}

Ant(g, p) == [group |-> g, pattern |-> p]

Packet(antennas_, groups, transmitters) ==
    [antennas |-> antennas_, groups |-> groups, segments |-> <<1>>, transmitters |-> transmitters,
     profile |-> 0, sub |-> 1, plain |-> FALSE, tooMany |-> FALSE]

PhyPackets ==
    {Packet(<<>>, <<>>, <<2>>), [Packet(<<>>, <<>>, <<2>>) EXCEPT !.plain = TRUE],
     [Packet(<<>>, <<>>, <<2>>) EXCEPT !.tooMany = TRUE],
     Packet(<<Ant(1, <<2, 1>>)>>, <<<<1, 2>>>>, <<2>>),
     Packet(<<Ant(1, <<0, 0>>), Ant(2, <<1, 0>>)>>, <<<<1>>, <<2>>>>, <<2, 3>>),
     Packet(<<Ant(2, <<0, 0>>)>>, <<<<1>>>>, <<2>>),
     [Packet(<<>>, <<>>, <<2>>) EXCEPT !.sub = 2, !.profile = 1]}

Request(frequency, segments, antennas_, groups, transmitters) ==
    [frequency |-> frequency, segments |-> segments, antennas |-> antennas_, groups |-> groups,
     transmitters |-> transmitters, sub |-> 0]

PhyRequests == {Request(0, <<>>, <<>>, <<>>, <<>>), Request(2, <<0, 1>>, <<>>, <<>>, <<2>>),
             Request(0, <<>>, <<Ant(1, <<0, 0>>), Ant(2, <<2, 1>>)>>, <<<<0, 2>>, <<1>>>>,
                     <<3, 1>>)}

(* Statistics: the OTA manager, registered twice over, and a radio. *)

Statistic(n, k, clearable) == [name |-> n, kind |-> k, clearable |-> clearable]

Clients == {"ota", "again", "phy"}
BuildOf == [c \in Clients |-> IF c = "phy" THEN 2 ELSE 1]

Registered ==
    <<<<Statistic("packets", "counter", TRUE), Statistic("longest", "peak", FALSE),
        Statistic("counts", "table", TRUE)>>,
      <<Statistic("mean", "average", TRUE), Statistic("load", "double", TRUE),
        Statistic("receive", "rf", TRUE), Statistic("neighbors", "table", TRUE)>>>>

Averaging == {[antennas |-> TRUE, frequencies |-> FALSE]}

ClearLists ==
    {<< >>, <<"packets", "longest">>, <<"counts", "other">>, <<"counts">>, <<"mean", "load">>,
     <<"receive">>, <<"neighbors">>}

(* OtaWire: NEMs 1 and 2 share a process, 3 has its own, 4 is a transport  *)
(* behind a boundary.                                                      *)

ProcessOf == <<1, 1, 2, 3>>

HeaderOf(r) == [registration |-> r, sequence |-> 3, kind |-> IF r = 2 THEN 1 ELSE 0, detail |-> 8]

OnAir(f, o) == [frequency |-> f, power |-> 5, duration |-> 2, offset |-> o]
Plain(f, o) == [frequency |-> f, duration |-> 2, offset |-> o]

From(group, antenna, mask, pattern) ==
    [group |-> group, antenna |-> antenna, bandwidth |-> 20, mask |-> mask, pattern |-> pattern]

NoMessages ==
    [header |-> << >>, tx |-> << >>, segments |-> << >>, transmitters |-> << >>,
     mimo |-> << >>, effect |-> << >>, other |-> {}]

(* What the physical layer sends: the properties agree with the first     *)
(* antenna.                                                               *)
Radio(r, groups, from, transmitters, segments) ==
    [NoMessages EXCEPT
       !.header = <<HeaderOf(r)>>,
       !.tx = <<[frequency |-> 100, bandwidth |-> 20, power |-> 5, offset |-> 1, time |-> 50,
                 duration |-> 2 * Len(groups[from[1].group]), sub |-> 1,
                 antenna |-> from[1].antenna, mask |-> from[1].mask]>>,
       !.mimo = <<[groups |-> groups, antennas |-> from]>>,
       !.transmitters = transmitters, !.segments = segments, !.other = {"profile"}]

One == <<OnAir(100, 1)>>
Two == <<OnAir(100, 1), OnAir(200, 3)>>

Messages(n) ==
    {Radio(1, <<One>>, <<From(1, 0, 0, "default")>>, << >>, << >>),
     Radio(2, <<One, Two>>, <<From(2, 4, 3, "profile"), From(1, 5, 0, "omni")>>, << >>,
           << <<Plain(100, 1), Plain(200, 3)>> >>),
     Radio(1, <<Two>>, <<From(1, 0, 0, "omni")>>,
           << <<[nem |-> n, power |-> 5], [nem |-> (n % 3) + 1, power |-> 7]>> >>, << >>),
     Radio(1, <<Two, Two>>, <<From(1, 0, 0, "omni"), From(2, 1, 0, "omni")>>, << >>, << >>),
     [NoMessages EXCEPT !.effect = <<[group |-> 2, sequence |-> 4, time |-> 50]>>],
     [NoMessages EXCEPT !.header = <<HeaderOf(9)>>, !.other = {"bypass"}],
     NoMessages}

WirePackets == [n \in 1 .. 4 |-> {[payload |-> n, controls |-> c] : c \in Messages(n)}]

-----------------------------------------------------------------------------
C == INSTANCE PluginConfiguration WITH Requests <- Updates
S == INSTANCE SpectrumMonitor WITH Tunings <- ReceiverTunings
P == INSTANCE PhyLayer WITH
       Tunings <- PhyTunings, Packets <- PhyPackets, Requests <- PhyRequests,
       MaxSteps <- MaxPhySteps
T == INSTANCE Statistics WITH
       Keys <- {1, 2}, Samples <- {2, 5, NotFinite}, Antennas <- {1, 2}, Frequencies <- {1},
       MaxSteps <- MaxStatisticSteps
W == INSTANCE OtaWire WITH
       NEMs <- 1 .. 4, External <- {4}, Packets <- WirePackets, Bentpipe <- 2,
       MaxTransmissions <- MaxSent

No_config ==
    /\ kind = 0 /\ values = 0 /\ fields = 0 /\ listening = 0 /\ recorded = 0
    /\ update = 0 /\ phase = 0
    /\ requested = 0 /\ agreed = 0 /\ refused = 0 /\ unrestored = 0

No_spectrum ==
    /\ mode = 0 /\ bandwidth = 0 /\ recorders = 0 /\ bandCache = 0 /\ maskCache = 0
    /\ stopped = 0 /\ heard = 0 /\ wiped = 0 /\ received = 0 /\ tunings = 0

No_phy ==
    /\ config = 0 /\ locations = 0 /\ pathloss = 0 /\ profiles = 0 /\ selections = 0
    /\ fades = 0 /\ gainCache = 0 /\ antennas = 0 /\ renamed = 0 /\ made = 0

No_statistics ==
    /\ entries = 0 /\ store = 0 /\ nextHandle = 0 /\ held = 0 /\ writer = 0
    /\ owner = 0 /\ noted = 0

No_wire ==
    /\ phySequence = 0 /\ channel = 0 /\ boundary = 0 /\ handed = 0

Init ==
    \/ /\ part = "config" /\ C!Init
       /\ No_spectrum /\ No_phy /\ No_statistics /\ No_wire
       /\ now = 0 /\ foi = 0 /\ last = 0 /\ stale = 0 /\ sent = 0 /\ log = 0
       /\ steps = 0
    \/ /\ part = "spectrum" /\ S!Init
       /\ No_config /\ No_phy /\ No_statistics /\ No_wire
       /\ sent = 0 /\ log = 0 /\ steps = 0
    \/ /\ part = "phy" /\ P!Init
       /\ No_config /\ No_spectrum /\ No_statistics /\ No_wire
       /\ now = 0 /\ stale = 0
    \/ /\ part = "statistics" /\ T!Init
       /\ No_config /\ No_spectrum /\ No_phy /\ No_wire
       /\ now = 0 /\ foi = 0 /\ last = 0 /\ sent = 0 /\ log = 0
    \/ /\ part = "wire" /\ W!Init
       /\ No_config /\ No_spectrum /\ No_phy /\ No_statistics
       /\ now = 0 /\ foi = 0 /\ last = 0 /\ stale = 0 /\ sent = 0 /\ steps = 0

Next ==
    \/ /\ part = "config" /\ C!Next
       /\ UNCHANGED <<part, spectrumOnly, phyOnly, statisticsOnly, wireOnly>>
       /\ UNCHANGED <<now, foi, last, stale, sent, log, steps>>
    \/ /\ part = "spectrum" /\ S!Next
       /\ UNCHANGED <<part, configOnly, phyOnly, statisticsOnly, wireOnly>>
       /\ UNCHANGED <<sent, log, steps>>
    \/ /\ part = "phy" /\ P!Next
       /\ UNCHANGED <<part, configOnly, spectrumOnly, statisticsOnly, wireOnly>>
       /\ UNCHANGED <<now, stale>>
    \/ /\ part = "statistics" /\ T!Next
       /\ UNCHANGED <<part, configOnly, spectrumOnly, phyOnly, wireOnly>>
       /\ UNCHANGED <<now, foi, last, sent, log>>
    \/ /\ part = "wire" /\ W!Next
       /\ UNCHANGED <<part, configOnly, spectrumOnly, phyOnly, statisticsOnly>>
       /\ UNCHANGED <<now, foi, last, stale, sent, steps>>

Spec == Init /\ [][Next]_vars

-----------------------------------------------------------------------------
(* PluginConfiguration!ConfigurationFollows: a component has the values    *)
(* the last accepted update left, whatever was refused since.              *)
ConfigurationFollows == part = "config" => C!ConfigurationFollows

(* SpectrumMonitor!SpectrumTrue: the recorded energy is what was received. *)
SpectrumTrue == part = "spectrum" => S!SpectrumTrue

(* PhyLayer!PhyFollowsEvents: packets are judged by the latest events.     *)
PhyFollowsEvents == part = "phy" => P!PhyFollowsEvents

(* Statistics!StatisticsTrue: what is reported is what happened, whatever  *)
(* is cleared in between.                                                  *)
StatisticsTrue == part = "statistics" => T!StatisticsTrue

(* OtaWire!RemoteHearsAlike: NEMs of other processes hear what those of    *)
(* the sender's process hear.                                              *)
RemoteHearsAlike == part = "wire" => W!RemoteHearsAlike
=============================================================================
