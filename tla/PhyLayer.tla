----------------------------- MODULE PhyLayer -----------------------------
(***************************************************************************)
(* The physical layer of one NEM.  Events tell it where NEMs are, which    *)
(* antenna profile each has, what the path loss from each is and how it    *)
(* fades; the MAC tells it which frequencies to listen to and with which   *)
(* antennas.  A packet from below is refused when something needed to work *)
(* out its power is not known, and judged by the spectrum monitor          *)
(* otherwise.                                                              *)
(*                                                                         *)
(* Powers are not computed: a gain, a path loss or a fade is the tuple of  *)
(* what it is computed from, so two of them are the same only when the     *)
(* program has used the same inputs.  What the monitor answers is chosen   *)
(* freely (it is the subject of SpectrumMonitor).                          *)
(***************************************************************************)
EXTENDS Integers, Sequences, SequencesExt, FiniteSets

CONSTANTS
    Self,
    Nems,          \* with Self
    Profiles,      \* the antenna profiles that are loaded
    Hidden,        \* pairs of places that are below each other's horizon
    Configs,       \* the configurations tried
    Events,        \* the events tried: kind and entries
    Tunings,       \* the MAC's control messages tried
    Packets,       \* the packets that arrive
    Requests,      \* the packets the MAC sends down
    MaxSteps

VARIABLES
    config,
    locations, pathloss, profiles, selections,
    fades,         \* the NEMs that have a state of lognormal fading
    gainCache,
    foi, antennas, \* receive antennas: index -> frequencies and pattern
    last,          \* what became of the last packet from below
    sent,          \* the last packet sent down
    log,           \* history: the locations and path losses so far
    renamed,       \* history: the MAC has named frequencies of interest
    made,          \* history: gain key -> the locations the gain was computed for
    steps

vars == <<config, locations, pathloss, profiles, selections, fades, gainCache, foi, antennas,
          last, sent, log, made, renamed, steps>>

(* Place 0 with no orientation is written as zeros, and so is no location. *)
Nowhere == [known |-> FALSE, place |-> 0, facing |-> 0, velocity |-> 0]

Nothing == [code |-> 0, up |-> FALSE, paths |-> <<>>, fresh |-> <<>>, same |-> TRUE,
            x |-> <<>>]

Init ==
    /\ config \in Configs
    /\ locations = [n \in Nems |-> Nowhere]
    /\ pathloss = [n \in Nems |-> <<>>]
    /\ profiles = <<>> /\ selections = <<>>
    /\ fades = {}
    /\ gainCache = <<>>
    /\ foi = {config.frequency}
    /\ antennas = <<>>
    /\ last = Nothing
    /\ sent = <<>>
    /\ log = <<>> /\ made = <<>> /\ renamed = FALSE
    /\ steps = 0

Step == steps < MaxSteps /\ steps' = steps + 1

-----------------------------------------------------------------------------
(***************************************************************************)
(* Events.  Entries that are out of range are passed over.  A location     *)
(* without an orientation or a velocity (-1) keeps the ones known.         *)
(***************************************************************************)
Put(f, k, v) == [j \in DOMAIN f \cup {k} |-> IF j = k THEN v ELSE f[j]]

(* Slip: a location without an orientation has the default one. *)
LocatedAfresh(l, e) ==
    [l EXCEPT ![e.nem] =
       [known |-> TRUE, place |-> e.place,
        facing |-> IF e.facing < 0 THEN 0 ELSE e.facing,
        velocity |-> IF e.velocity < 0 THEN @.velocity ELSE e.velocity]]

Located(l, e) ==
    [l EXCEPT ![e.nem] =
       [known |-> TRUE, place |-> e.place,
        facing |-> IF e.facing < 0 THEN @.facing ELSE e.facing,
        velocity |-> IF e.velocity < 0 THEN @.velocity ELSE e.velocity]]

Good(entries) == SelectSeq(entries, LAMBDA e : e.ok)

LocationsAfter(entries) == FoldLeft(Located, locations, entries)

(* A path loss of frequency 0 is that of every frequency without its own.  *)
PathlossAfter(entries) ==
    FoldLeft(LAMBDA p, e : [p EXCEPT ![e.nem] = Put(@, e.frequency, e.value)], pathloss, entries)

ProfilesAfter(entries) == FoldLeft(LAMBDA p, e : Put(p, e.nem, e.value), profiles, entries)

(* A NEM for which a fading model is selected starts it afresh. *)
SelectionsAfter(entries) == FoldLeft(LAMBDA s, e : Put(s, e.nem, e.value), selections, entries)

Event(v) ==
    LET entries == Good(v.entries)
    IN  /\ Step
        /\ locations' = IF v.kind = "location" THEN LocationsAfter(entries) ELSE locations
        /\ pathloss' = IF v.kind = "pathloss" THEN PathlossAfter(entries) ELSE pathloss
        /\ profiles' = IF v.kind = "profile" THEN ProfilesAfter(entries) ELSE profiles
        /\ selections' = IF v.kind = "fading" THEN SelectionsAfter(entries) ELSE selections
        /\ fades' = IF v.kind = "fading" THEN fades \ {entries[n].nem : n \in DOMAIN entries}
                    ELSE fades
        /\ log' = IF v.kind \in {"location", "pathloss"}
                  THEN log \o [n \in DOMAIN entries |-> [kind |-> v.kind, entry |-> entries[n]]]
                  ELSE log
        /\ last' = Nothing /\ sent' = <<>>
        /\ UNCHANGED <<config, gainCache, foi, antennas, made, renamed>>

-----------------------------------------------------------------------------
(***************************************************************************)
(* What the MAC asks for.  A message of frequencies of interest replaces   *)
(* them; an antenna added or changed makes them those of all antennas; an  *)
(* antenna removed leaves them as they are.  The monitor is set up anew    *)
(* with them each time they change.                                        *)
(***************************************************************************)
Listening(a) == UNION {a[i].frequencies : i \in DOMAIN a}

Tune(t) ==
    /\ Step
    /\ antennas' = CASE t.kind = "add" -> Put(antennas, t.index, [frequencies |-> t.frequencies,
                                                                  pattern |-> t.pattern])
                     [] t.kind = "remove" -> [i \in DOMAIN antennas \ {t.index} |-> antennas[i]]
                     [] OTHER -> antennas
    /\ foi' = CASE t.kind = "interest" -> t.frequencies
                [] t.kind = "add" -> Listening(antennas')
                [] OTHER -> foi
    /\ renamed' = (renamed \/ t.kind = "interest")
    /\ last' = Nothing /\ sent' = <<>>
    /\ UNCHANGED <<config, locations, pathloss, profiles, selections, fades, gainCache, log, made>>

-----------------------------------------------------------------------------
(***************************************************************************)
(* Gains.  A pattern is a pair: 0 the default, 1 an ideal antenna, 2 a     *)
(* profile.  A result has the code the packet is dropped with, or 0.       *)
(***************************************************************************)
Default == <<0, 0>>
Omni(g) == <<1, g>>
Profile(p) == <<2, p>>

Result(value) == [code |-> 0, value |-> value]
Failed(c) == [code |-> c, value |-> <<>>]

(* default_antenna_pattern: the fixed gain, whosever antenna it is, or the *)
(* profile last selected, or none.                                         *)
DefaultPattern(n) ==
    IF config.fixed THEN Omni(config.gain)
    ELSE IF n \in DOMAIN profiles THEN Profile(profiles[n])
    ELSE Default

Resolved(pattern, n) == IF pattern = Default THEN DefaultPattern(n) ELSE pattern

Usable(pattern) == pattern # Default /\ (pattern[1] = 2 => pattern[2] \in Profiles)

(* The gain of two patterns at two places, worked out.  Of a profile it    *)
(* depends on the direction, and that on place, orientation and velocity.  *)
Gain(mine, theirs, here, there) ==
    LET both == here.known /\ there.known
        profiled == mine[1] = 2 \/ theirs[1] = 2
    IN  IF profiled /\ ~both THEN Failed(4)
        ELSE IF both /\ <<here.place, there.place>> \in Hidden THEN Failed(5)
        ELSE IF ~profiled THEN Result(<<mine, theirs>>)
        ELSE IF here.place = there.place THEN Failed(6)
        ELSE Result(<<mine, theirs, here, there>>)

Spot(l) == <<l.place, l.facing>>

GainKey(mine, theirs, n) == <<n, mine, theirs, Spot(locations[Self]), Spot(locations[n])>>

(* antenna_pair_gains: from the cache, or worked out and kept. *)
PairGain(s, n, mine, theirs) ==
    LET my == Resolved(mine, Self)
        their == Resolved(theirs, n)
        key == GainKey(my, their, n)
        gain == Gain(my, their, locations[Self], locations[n])
    IN  IF ~Usable(my) \/ ~Usable(their) THEN [s EXCEPT !.code = 6]
        ELSE IF key \in DOMAIN s.cache
        THEN [s EXCEPT !.gains = @ \cup {s.cache[key]}, !.fresh = @ \cup {gain.value},
                       !.same = @ /\ (key \in DOMAIN made =>
                                        made[key] = <<locations[Self], locations[n]>>)]
        ELSE IF gain.code # 0 THEN [s EXCEPT !.code = gain.code]
        ELSE [s EXCEPT !.gains = @ \cup {gain.value}, !.fresh = @ \cup {gain.value},
                       !.cache = Put(@, key, gain.value)]

-----------------------------------------------------------------------------
(***************************************************************************)
(* Propagation and fading.                                                 *)
(***************************************************************************)
Propagation(n, f) ==
    IF config.model = "precomputed"
    THEN IF f \in DOMAIN pathloss[n] THEN Result(<<pathloss[n][f]>>)
         ELSE IF 0 \in DOMAIN pathloss[n] THEN Result(<<pathloss[n][0]>>)
         ELSE Failed(3)
    ELSE IF locations[Self].known /\ locations[n].known
    THEN Result(<<locations[Self].place, locations[n].place>>)
    ELSE Failed(3)

FadingOf(n) ==
    IF config.fading # "event" THEN config.fading
    ELSE IF n \in DOMAIN selections THEN selections[n] ELSE "unselected"

(* The algorithm may come to no power, or to none that is a number. *)
Fading(n, comes) ==
    CASE FadingOf(n) = "unselected" -> Failed(11)
      [] FadingOf(n) = "nakagami" /\ ~(locations[Self].known /\ locations[n].known) -> Failed(9)
      [] FadingOf(n) \in {"nakagami", "lognormal"} /\ ~comes -> Failed(10)
      [] OTHER -> Result(<<>>)

(***************************************************************************)
(* The paths of a packet: every transmitter on every segment, with the     *)
(* pattern of the antenna it leaves from.  In compatibility mode 2 the     *)
(* segments are those of the transmit antennas; in mode 1 the packet's     *)
(* own, and only its first antenna is looked at.  A packet without antenna *)
(* information uses the transmitter's profile, or the fixed gains.         *)
(***************************************************************************)
Segments(x) ==
    IF config.mode = 2 /\ x.antennas # <<>>
    THEN FlattenSeq([a \in DOMAIN x.antennas |->
           [k \in DOMAIN x.groups[x.antennas[a].group] |->
              [frequency |-> x.groups[x.antennas[a].group][k], pattern |-> x.antennas[a].pattern]]])
    ELSE [k \in DOMAIN x.segments |->
            [frequency |-> x.segments[k],
             pattern |-> IF x.antennas = <<>> THEN Default ELSE x.antennas[1].pattern]]

Paths(x) ==
    FlattenSeq([t \in DOMAIN x.transmitters |->
      [k \in DOMAIN Segments(x) |-> [source |-> x.transmitters[t]] @@ Segments(x)[k]]])

(* The receive antennas in some order, or the default antenna. *)
Orders == SetToSeqs(DOMAIN antennas)

Ours(order) ==
    IF order = <<>> THEN <<DefaultPattern(Self)>>
    ELSE [i \in DOMAIN order |-> antennas[order[i]].pattern]

(* The gain of a path is that of the best receive antenna: here the set of *)
(* those it is chosen from.                                                *)
PathGains(s, x, p, order) ==
    IF x.antennas # <<>>
    THEN FoldLeft(LAMBDA r, mine : IF r.code # 0 THEN r ELSE PairGain(r, p.source, mine, p.pattern),
                  s, Ours(order))
    ELSE IF config.fixed THEN PairGain(s, p.source, Omni(config.gain), Omni(0))
    ELSE PairGain(s, p.source, Default, IF x.profile = 0 THEN Default ELSE Profile(x.profile))

(* One path; spoilt is the number of the path whose fading fails. *)
OnePath(s, x, p, order, spoilt) ==
    LET g == PathGains([s EXCEPT !.gains = {}, !.fresh = {}], x, p, order)
        loss == Propagation(p.source, p.frequency)
        fade == Fading(p.source, spoilt # Len(s.used) + 1)
        fading == IF FadingOf(p.source) = "lognormal" THEN s.fades \cup {p.source} ELSE s.fades
        used(gains) == [source |-> p.source, frequency |-> p.frequency, gains |-> gains,
                        loss |-> loss.value, fading |-> FadingOf(p.source)]
    IN  IF s.code # 0 THEN s
        ELSE IF g.code # 0 THEN g
        ELSE IF loss.code # 0 THEN [g EXCEPT !.code = loss.code]
        ELSE IF fade.code # 0 THEN [g EXCEPT !.code = fade.code, !.fades = fading]
        ELSE [g EXCEPT !.used = Append(@, used(g.gains)), !.anew = Append(@, used(g.fresh)),
                       !.fades = fading]

Judged(x, order, spoilt) ==
    FoldLeft(LAMBDA s, p : OnePath(s, x, p, order, spoilt),
             [code |-> 0, gains |-> {}, fresh |-> {}, same |-> TRUE, used |-> <<>>,
              anew |-> <<>>, cache |-> gainCache, fades |-> fades],
             Paths(x))

(* The path whose fading fails, if one is asked for, or 0 for none. *)
Spoilt(x) ==
    {0} \cup {k \in DOMAIN Paths(x) : FadingOf(Paths(x)[k].source) \in {"nakagami", "lognormal"}}

-----------------------------------------------------------------------------
(***************************************************************************)
(* A packet from below.                                                    *)
(***************************************************************************)
Dropped(x, code) == last' = [Nothing EXCEPT !.code = code, !.x = x]

(* Packets refused before their paths are looked at, and packets without   *)
(* transmit properties, which pass.                                        *)
Refused(x) ==
    IF x.tooMany THEN 14
    ELSE IF config.mode = 2 /\ antennas = <<>> THEN 14
    ELSE IF config.mode = 2 /\ \E a \in DOMAIN x.antennas : x.antennas[a].group > Len(x.groups)
    THEN 12
    ELSE 0

(* The monitor's answer is an error, or whether any segment is reported,   *)
(* and whether as in band.                                                 *)
Verdicts == [error : {TRUE}, heard : {FALSE}, inBand : {FALSE}]
              \cup [error : {FALSE}, heard : BOOLEAN, inBand : BOOLEAN]

(* Whether for any pair of a receive and a transmit antenna that antenna's *)
(* own monitor reports the packet in band.                                 *)
Pairings == BOOLEAN

(* A packet not loud enough goes up only to a promiscuous layer in mode 2, *)
(* and bare.                                                               *)
Missed == [code |-> 2, up |-> config.mode = 2 /\ config.promiscuous]

(* The receive properties that go up with a packet: the packet's own in    *)
(* mode 1, those of its antenna pairs in mode 2, which must have one.      *)
Passed(x, paired) ==
    IF config.mode = 2 /\ ~(paired /\ x.antennas # <<>>) THEN Missed
    ELSE [code |-> 0, up |-> TRUE]

Verdict(x, v, paired) ==
    IF v.error THEN [code |-> 8, up |-> FALSE]
    ELSE IF ~v.inBand THEN [code |-> IF x.sub = config.sub THEN 7 ELSE 1, up |-> FALSE]
    ELSE IF ~v.heard THEN Missed
    ELSE Passed(x, paired)

(* A packet with no path, or with a segment that comes to no power at all, *)
(* is dropped with code 3 after its paths are worked out.                  *)
Upstream(x) ==
    /\ Step
    /\ \/ /\ x.plain /\ ~x.tooMany
          /\ last' = [Nothing EXCEPT !.up = TRUE, !.x = x]
          /\ UNCHANGED <<gainCache, made, fades>>
       \/ /\ Refused(x) # 0 /\ (x.plain => x.tooMany)
          /\ Dropped(x, Refused(x))
          /\ UNCHANGED <<gainCache, made, fades>>
       \/ /\ ~x.plain /\ Refused(x) = 0
          /\ \E order \in Orders, spoilt \in Spoilt(x) :
               LET s == Judged(x, order, spoilt)
                   judged == [Nothing EXCEPT !.code = s.code, !.paths = s.used, !.fresh = s.anew,
                                             !.same = s.same, !.x = x]
               IN  /\ gainCache' = s.cache
                   /\ made' = [k \in DOMAIN s.cache |->
                                 IF k \in DOMAIN made THEN made[k]
                                 ELSE <<locations[Self], locations[k[1]]>>]
                   /\ fades' = s.fades
                   /\ \/ s.code # 0 /\ last' = judged
                      \/ s.code = 0 /\ last' = [judged EXCEPT !.code = 3]
                      \/ /\ s.code = 0 /\ Paths(x) # <<>>
                         /\ \E v \in Verdicts, paired \in Pairings :
                              last' = [judged EXCEPT !.code = Verdict(x, v, paired).code,
                                                     !.up = Verdict(x, v, paired).up]
    /\ sent' = <<>>
    /\ UNCHANGED <<config, locations, pathloss, profiles, selections, foi, antennas, log, renamed>>

-----------------------------------------------------------------------------
(***************************************************************************)
(* A packet from above.  What the MAC leaves open is filled in: the        *)
(* configured frequency for 0, one antenna with the default pattern when   *)
(* it names none (or the mode has none), the sender itself among the       *)
(* transmitters.                                                           *)
(***************************************************************************)
Filled(group, frequency) == [k \in DOMAIN group |-> IF group[k] = 0 THEN frequency ELSE group[k]]

Outgoing(r) ==
    LET frequency == IF r.frequency = 0 THEN config.frequency ELSE r.frequency
        segments == IF r.segments = <<>> THEN <<frequency>> ELSE Filled(r.segments, frequency)
        named == config.mode = 2 /\ r.antennas # <<>>
        groups == IF named THEN [g \in DOMAIN r.groups |-> Filled(r.groups[g], segments[1])]
                  ELSE <<segments>>
        sending == IF named
                   THEN [a \in DOMAIN r.antennas |->
                           [r.antennas[a] EXCEPT !.pattern = Resolved(@, Self)]]
                   ELSE <<[group |-> 1, pattern |-> DefaultPattern(Self)]>>
        first == sending[1].group
        by == r.transmitters
    IN  [frequency |-> IF first \in DOMAIN groups THEN groups[first][1] ELSE segments[1],
         segments |-> segments, groups |-> groups, antennas |-> sending,
         transmitters |-> IF by = <<>> \/ Self \in ToSet(by) THEN by ELSE Append(by, Self),
         sub |-> IF r.sub = 0 THEN config.sub ELSE r.sub]

Downstream(r) ==
    /\ Step
    /\ sent' = IF config.silence THEN <<>> ELSE <<Outgoing(r)>>
    /\ last' = Nothing
    /\ UNCHANGED <<config, locations, pathloss, profiles, selections, fades, gainCache, foi,
                   antennas, log, made, renamed>>

Next ==
    \/ \E v \in Events : Event(v)
    \/ \E t \in Tunings : Tune(t)
    \/ \E x \in Packets : Upstream(x)
    \/ \E r \in Requests : Downstream(r)

Spec == Init /\ [][Next]_vars

-----------------------------------------------------------------------------
(***************************************************************************)
(* What the events say: the last value given, whatever came between.       *)
(***************************************************************************)
Said(kind, n, P(_)) ==
    {k \in DOMAIN log : log[k].kind = kind /\ log[k].entry.nem = n /\ P(log[k].entry)}

LastOf(numbers) == CHOOSE k \in numbers : \A j \in numbers : j <= k

LastSaid(numbers, Field(_)) == IF numbers = {} THEN 0 ELSE Field(log[LastOf(numbers)].entry)

LocationSaid(n) ==
    [known |-> Said("location", n, LAMBDA e : TRUE) # {},
     place |-> LastSaid(Said("location", n, LAMBDA e : TRUE), LAMBDA e : e.place),
     facing |-> LastSaid(Said("location", n, LAMBDA e : e.facing >= 0), LAMBDA e : e.facing),
     velocity |-> LastSaid(Said("location", n, LAMBDA e : e.velocity >= 0), LAMBDA e : e.velocity)]

PathlossSaid(n, f) ==
    LET own == Said("pathloss", n, LAMBDA e : e.frequency = f)
        general == Said("pathloss", n, LAMBDA e : e.frequency = 0)
    IN  LastSaid(IF own = {} THEN general ELSE own, LAMBDA e : e.value)

(* Every path of a packet that is let through was judged by what the       *)
(* events last said of its transmitter.                                    *)
PathsFollowEvents ==
    /\ \A n \in Nems : locations[n] = LocationSaid(n)
    /\ \A k \in DOMAIN last.paths :
         LET p == last.paths[k]
         IN  config.model = "precomputed" => p.loss = <<PathlossSaid(p.source, p.frequency)>>

(* Two locations the key does not tell apart: they differ in the velocity, *)
(* or one is the origin and the other is not known.                        *)
AlikeFor(l, m) == l.place = m.place /\ l.facing = m.facing

(* A gain from the cache is the gain as it would be worked out now, unless *)
(* since then only a velocity has changed, or a NEM not located before has *)
(* turned up at the origin.                                                *)
GainsAreFresh ==
    last.paths # last.fresh =>
      /\ ~last.same
      /\ \E key \in DOMAIN made :
           /\ made[key] # <<locations[Self], locations[key[1]]>>
           /\ AlikeFor(made[key][1], locations[Self])
           /\ AlikeFor(made[key][2], locations[key[1]])

(* Every receive antenna's frequencies are listened to, unless the MAC has *)
(* named frequencies itself.                                               *)
AntennasAreHeard == renamed \/ Listening(antennas) \subseteq foi

(* What is sent down names a frequency for every segment, and the sender.  *)
SentComplete ==
    \A k \in DOMAIN sent :
      /\ 0 \notin UNION {ToSet(sent[k].groups[g]) : g \in DOMAIN sent[k].groups}
      /\ sent[k].antennas # <<>>
      /\ sent[k].transmitters = <<>> \/ Self \in ToSet(sent[k].transmitters)

(* The physical layer judges packets by the latest events, in spite of its *)
(* cache, listens with all its antennas and sends complete packets.        *)
PhyFollowsEvents == PathsFollowEvents /\ GainsAreFresh /\ AntennasAreHeard /\ SentComplete
=============================================================================
