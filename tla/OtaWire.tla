-------------------------------- MODULE OtaWire --------------------------------
(***************************************************************************)
(* A transmission on its way from one NEM to the others: handed as it is   *)
(* to the NEMs of the same process, and put on the over-the-air channel    *)
(* for those of other processes, where the control messages that go with   *)
(* the packet are written as the common PHY and MAC headers and made up    *)
(* again from them.                                                        *)
(*                                                                         *)
(* Control messages of a packet are one record; a message that may be      *)
(* missing is a sequence of at most one element.  Bytes are left out: a    *)
(* header is the record of its fields, its length the number of its parts. *)
(* How the channel loses and reorders packets is module OtaManager's.      *)
(***************************************************************************)
EXTENDS Integers, Sequences, FiniteSets, SequencesExt

CONSTANTS
    NEMs,            \* all NEMs
    ProcessOf,       \* the process each NEM runs in
    External,        \* NEMs whose lower layers are behind a boundary
    Packets,         \* [payload, controls] that reach the end of a stack
    Bentpipe,        \* the registration id of the bent-pipe model
    MaxHeader,       \* parts of a PHY header that fit its 16 bit length
    SequenceLimit,   \* 2^16 in the code: PHY sequence numbers wrap
    MaxTransmissions \* bound: packets sent in a behaviour

VARIABLES
    phySequence,     \* NEM -> its next PHY sequence number
    channel,         \* frames not yet delivered
    boundary,        \* packets given to boundary endpoints
    handed,          \* NEM -> packets handed to its lowest layer
    log              \* history: transmissions in order

vars == << phySequence, channel, boundary, handed, log >>

Framework == 7
CommEffect == 5

NoControls ==
    [header |-> << >>, tx |-> << >>, segments |-> << >>, transmitters |-> << >>,
     mimo |-> << >>, effect |-> << >>, other |-> {}]

Present(control) == control # << >>
OrElse(control, default) == IF Present(control) THEN control[1] ELSE default
NotNegative(t) == IF t < 0 THEN 0 ELSE t

Init ==
    /\ phySequence = [n \in NEMs |-> 0]
    /\ channel = {}
    /\ boundary = << >>
    /\ handed = [n \in NEMs |-> << >>]
    /\ log = << >>

(***************************************************************************)
(* Encoding.  What the sender leaves out is filled in from the transmit    *)
(* properties.                                                             *)
(***************************************************************************)
FindTransmitters(source, c) ==
    OrElse(c.transmitters, << [nem |-> source, power |-> c.tx[1].power] >>)

DefaultGroup(c) ==
    LET tx == c.tx[1]
        plain == << [frequency |-> tx.frequency, duration |-> tx.duration, offset |-> tx.offset] >>
        list == OrElse(c.segments, plain)
    IN [i \in DOMAIN list |->
           [frequency |-> list[i].frequency, power |-> tx.power,
            duration |-> list[i].duration, offset |-> list[i].offset]]

FindMimo(c) ==
    LET tx == c.tx[1] IN
    OrElse(c.mimo,
        [groups |-> << DefaultGroup(c) >>,
         antennas |-> << [group |-> 1, antenna |-> tx.antenna, bandwidth |-> tx.bandwidth,
                          mask |-> tx.mask, pattern |-> "default"] >>])

FrequencyGroups(mimo) == mimo.groups

(* Slip: the group an antenna uses is taken for its place in the list. *)
TransmitAntennasByPlace(mimo) ==
    [i \in DOMAIN mimo.antennas |->
        [mimo.antennas[i] EXCEPT !.bandwidth = IF mimo.antennas[i].mask = 0 THEN @ ELSE 0,
                                 !.group = 1]]

(* A bandwidth is only written for an antenna without a spectral mask. *)
TransmitAntennas(mimo) ==
    [i \in DOMAIN mimo.antennas |->
        [mimo.antennas[i] EXCEPT !.bandwidth = IF mimo.antennas[i].mask = 0 THEN @ ELSE 0]]

CommonPhyHeader(source, c, sequence) ==
    LET mimo == FindMimo(c) IN
    [registration |-> Framework,
     sub |-> c.tx[1].sub,
     sequence |-> sequence,
     time |-> NotNegative(c.tx[1].time),
     transmitters |-> FindTransmitters(source, c),
     groups |-> FrequencyGroups(mimo),
     antennas |-> TransmitAntennas(mimo)]

EffectPhyHeader(source, header) ==
    [registration |-> CommEffect,
     sub |-> header.sequence,
     sequence |-> 0,
     time |-> NotNegative(header.time),
     transmitters |-> << [nem |-> source, power |-> 0] >>,
     groups |-> << << [frequency |-> 0, power |-> 0, duration |-> 0, offset |-> 0] >> >>,
     antennas |-> << >>]

Parts(phy) ==
    Len(phy.transmitters) + Len(phy.antennas) + FoldSeq(LAMBDA g, n : n + Len(g), 0, phy.groups)

Framed(phy, mac, shim, payload) ==
    IF Parts(phy) > MaxHeader THEN << >>
    ELSE << [phy |-> phy, mac |-> mac, shim |-> shim, payload |-> payload] >>

EncodeCommEffect(source, p) ==
    IF ~Present(p.controls.effect) THEN << >>
    ELSE LET header == p.controls.effect[1] IN
         Framed(EffectPhyHeader(source, header), << >>,
                << [header EXCEPT !.time = NotNegative(@)] >>, p.payload)

EncodeLegacy(source, p, sequence) ==
    LET c == p.controls IN
    IF ~Present(c.header) THEN EncodeCommEffect(source, p)
    ELSE IF ~Present(c.tx) THEN << >>
    ELSE Framed(CommonPhyHeader(source, c, sequence),
                << [registration |-> c.header[1].registration, sequence |-> c.header[1].sequence] >>,
                << >>, p.payload)

(* Without the common headers the messages travel as they are. *)
EncodeControls(c) == c

(***************************************************************************)
(* Decoding.                                                               *)
(***************************************************************************)
DecodeCommEffect(wire) == [NoControls EXCEPT !.effect = wire.shim]

SpanOf(group) ==
    LET start == CHOOSE t \in {group[i].offset : i \in DOMAIN group} :
                    \A i \in DOMAIN group : t <= group[i].offset
        stop == CHOOSE t \in {group[i].offset + group[i].duration : i \in DOMAIN group} :
                    \A i \in DOMAIN group : group[i].offset + group[i].duration <= t
    IN [start |-> start, duration |-> IF stop - start < 1 THEN 1 ELSE stop - start]

DecodeTx(phy, antenna, group) ==
    [frequency |-> group[1].frequency, bandwidth |-> antenna.bandwidth,
     power |-> group[1].power, duration |-> SpanOf(group).duration,
     offset |-> SpanOf(group).start, time |-> phy.time, antenna |-> antenna.antenna,
     mask |-> antenna.mask, sub |-> phy.sub]

DecodeSegments(group) ==
    [i \in DOMAIN group |->
        [frequency |-> group[i].frequency, duration |-> group[i].duration,
         offset |-> group[i].offset]]

DecodeMimo(phy) == [groups |-> phy.groups, antennas |-> phy.antennas]

(* Only the registration and the sequence come back of the model header;
   the message type is made up for the bent-pipe model. *)
DecodeHeader(mac) ==
    [i \in DOMAIN mac |->
        [registration |-> mac[i].registration, sequence |-> mac[i].sequence,
         kind |-> IF mac[i].registration = Bentpipe THEN 1 ELSE 0, detail |-> 0]]

(* A PHY header without its source, an antenna or the antenna's segments
   is not taken for one. *)
Decodable(phy, source) ==
    /\ \E i \in DOMAIN phy.transmitters : phy.transmitters[i].nem = source
    /\ phy.antennas # << >>
    /\ phy.antennas[1].group \in DOMAIN phy.groups
    /\ phy.groups[phy.antennas[1].group] # << >>

DecodeLegacy(wire, source) ==
    LET phy == wire.phy
        antenna == phy.antennas[1]
        group == phy.groups[antenna.group]
    IN IF phy.registration = CommEffect THEN << DecodeCommEffect(wire) >>
       ELSE IF ~Decodable(phy, source) THEN << >>
       ELSE << [NoControls EXCEPT
                  !.header = DecodeHeader(wire.mac),
                  !.tx = << DecodeTx(phy, antenna, group) >>,
                  !.segments = << DecodeSegments(group) >>,
                  !.transmitters = << phy.transmitters >>,
                  !.mimo = << DecodeMimo(phy) >>] >>

DecodeControls(c) == c

(***************************************************************************)
(* A packet leaves the lowest layer of its stack: over the boundary where  *)
(* there is one; else on the channel, and to the lowest layer of every     *)
(* other stack of the process that is not among the transmitters.          *)
(***************************************************************************)
NextPhySequence(n) == (phySequence[n] + 1) % SequenceLimit

Transmitting(c) ==
    IF ~Present(c.transmitters) THEN {}
    ELSE {c.transmitters[1][i].nem : i \in DOMAIN c.transmitters[1]}

Handed(source, payload, controls, id) ==
    [source |-> source, payload |-> payload, controls |-> controls, id |-> id]

RouteDownstream(n, p) ==
    LET counted == Present(p.controls.header) /\ Present(p.controls.tx)
        legacy == EncodeLegacy(n, p, IF counted THEN phySequence[n] ELSE 0)
        id == Len(log) + 1
        local == {x \in NEMs : /\ x # n
                               /\ ProcessOf[x] = ProcessOf[n]
                               /\ x \notin Transmitting(p.controls)}
    IN /\ Len(log) < MaxTransmissions
       /\ log' = Append(log, [source |-> n, packet |-> p])
       /\ IF n \in External
          THEN /\ boundary' = Append(boundary, Handed(n, p.payload, p.controls, id))
               /\ UNCHANGED << phySequence, channel, handed >>
          ELSE /\ phySequence' = IF counted THEN [phySequence EXCEPT ![n] = NextPhySequence(n)]
                                 ELSE phySequence
               /\ channel' = channel \cup
                     {[source |-> n, to |-> q, legacy |-> legacy, payload |-> p.payload, id |-> id,
                       controls |-> IF Present(legacy) THEN NoControls
                                    ELSE EncodeControls(p.controls)] :
                      q \in {ProcessOf[x] : x \in NEMs} \ {ProcessOf[n]}}
               /\ handed' = [x \in NEMs |->
                     IF x \in local THEN Append(handed[x], Handed(n, p.payload, p.controls, id))
                     ELSE handed[x]]
               /\ UNCHANGED boundary

(* A process hands a frame to each of its stacks in turn. *)
OtaPacket(frame) ==
    LET decoded == IF Present(frame.legacy) THEN DecodeLegacy(frame.legacy[1], frame.source)
                   ELSE << >>
        controls == OrElse(decoded, DecodeControls(frame.controls))
        payload == IF Present(decoded) THEN frame.legacy[1].payload ELSE frame.payload
    IN /\ frame \in channel
       /\ channel' = channel \ {frame}
       /\ handed' = [x \in NEMs |->
             IF /\ ProcessOf[x] = frame.to
                /\ x \notin External
                /\ x \notin Transmitting(controls)
             THEN Append(handed[x], Handed(frame.source, payload, controls, frame.id))
             ELSE handed[x]]
       /\ UNCHANGED << phySequence, boundary, log >>

Next ==
    \/ \E n \in NEMs : \E p \in Packets[n] : RouteDownstream(n, p)
    \/ \E frame \in channel : OtaPacket(frame)

Spec == Init /\ [][Next]_vars

--------------------------------------------------------------------------------
(***************************************************************************)
(* What the layers above learn from the control messages of a packet.      *)
(***************************************************************************)
AntennaView(mimo) ==
    [i \in DOMAIN mimo.antennas |->
        LET a == mimo.antennas[i] IN
        [antenna |-> a.antenna, mask |-> a.mask, pattern |-> a.pattern,
         width |-> IF a.mask = 0 THEN a.bandwidth ELSE 0,
         segments |-> mimo.groups[a.group]]]

RadioView(source, c) ==
    LET tx == c.tx[1] IN
    << c.header[1].registration, c.header[1].sequence,
       FindTransmitters(source, c), AntennaView(FindMimo(c)),
       [tx EXCEPT !.bandwidth = IF tx.mask = 0 THEN @ ELSE 0] >>

IsRadio(c) == Present(c.header) /\ Present(c.tx)
IsEffect(c) == ~Present(c.header) /\ Present(c.effect)

Alike(source, sent, got) ==
    \/ sent = got
    \/ IsRadio(sent) /\ IsRadio(got) /\ RadioView(source, sent) = RadioView(source, got)
    \/ IsEffect(sent) /\ IsEffect(got) /\ sent.effect = got.effect

Pending(i) == {frame \in channel : frame.id = i}

(* Where a NEM runs makes no difference to what it hears: of every
   transmission, each NEM other than the sender and its co-transmitters is
   handed one copy, once the channel has delivered it, with the sender's
   payload, and with control messages that tell the same transmitters,
   powers, antennas, masks, patterns, segments, times and model sequence
   numbers, whether they came through the headers or not.  (The bandwidth
   of an antenna with a mask is not among them, nor the rest of the model
   header.) *)
RemoteHearsAlike ==
    \A i \in DOMAIN log :
       LET n == log[i].source
           p == log[i].packet
           copies(x) == {j \in DOMAIN handed[x] : handed[x][j].id = i}
           due == {x \in NEMs : /\ x # n /\ n \notin External
                                /\ x \notin Transmitting(p.controls)
                                /\ x \notin External
                                /\ ~\E frame \in Pending(i) : frame.to = ProcessOf[x]}
       IN \A x \in NEMs \ External :
             /\ Cardinality(copies(x)) = IF x \in due THEN 1 ELSE 0
             /\ \A j \in copies(x) :
                   /\ handed[x][j].payload = p.payload
                   /\ Alike(n, p.controls, handed[x][j].controls)

================================================================================
