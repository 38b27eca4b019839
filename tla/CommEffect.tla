----------------------------- MODULE CommEffect -----------------------------
(***************************************************************************)
(* The comm-effect shim of a receiving node: each packet from below meets  *)
(* the effect of the first filter that matches it or of its source's       *)
(* profile, and is delayed, lost or duplicated accordingly.                *)
(*                                                                         *)
(* A handler call is one step.  Random draws are choices.  Loss and        *)
(* duplication are percentages; times are in ticks, sizes in bits and bit  *)
(* rates in bits per tick.  The copies of a packet are timed events of the *)
(* framework, which stop does not cancel: like packets and events, they    *)
(* come as long as the layer's queue runs, and the manager stops the queue *)
(* only after the plugin.                                                  *)
(***************************************************************************)
EXTENDS Integers, Sequences, FiniteSets

CONSTANTS
    EffectSettings,  \* records: promiscuous, connectivity, buffer, filters, time
    Effects,         \* effects that events may bring
    Sources,         \* nodes packets come from
    Frames,          \* records: what a filter looks at, with size and destination
    MaxPackets,      \* bound on the packets
    MaxEvents        \* bound on the comm-effect events

VARIABLES
    now, setting,
    queue,             \* "running", "stopping" (the plugin was told to), "stopped"
    life,              \* one more than how often the plugin was stopped
    default_connectivity,
    profiles,          \* source -> effect, for the sources events have named
    end_of_reception,  \* source -> when its last packet is received
    copies,            \* timed events: packets to pass up
    arrived, events,
    receptions,        \* history: the time each packet took to receive
    outcome            \* history: packet -> what became of it

shim == <<queue, life, default_connectivity, profiles, end_of_reception, copies>>
vars == <<now, setting, shim, arrived, events, receptions, outcome>>

None == [n \in {} |-> n]

(* Bound on the starts. *)
Lives == 2

(* Calls of the handlers are queued and made. *)
Serves == queue \in {"running", "stopping"}

Init ==
    /\ now = 0
    /\ setting \in EffectSettings
    /\ queue = "running"
    /\ life = 1
    /\ default_connectivity = setting.connectivity
    /\ profiles = None
    /\ end_of_reception = None
    /\ copies = {}
    /\ arrived = 0
    /\ events = 0
    /\ receptions = {}
    /\ outcome = <<>>

-----------------------------------------------------------------------------
(***************************************************************************)
(* Target::matches.  A target has at most one rule; the fields of a rule   *)
(* are sets of at most one value.  An empty one asks for nothing, and so   *)
(* does an empty list of protocols.                                        *)
(***************************************************************************)
Asks(field, value) == field = {} \/ field = {value}

ProtocolMatches(p, frame) ==
    IF p.kind = "number" THEN frame.protocol = p.number
    ELSE /\ frame.protocol = 17 /\ ~frame.truncated
         /\ Asks(p.source, frame.sport)
         /\ Asks(p.destination, frame.dport)

Matches(target, frame) ==
    \A rule \in target :
        /\ frame.ipv4
        /\ Asks(rule.source, frame.source)
        /\ Asks(rule.destination, frame.address)
        /\ Asks(rule.total_length, frame.total_length)
        /\ Asks(rule.tos, frame.tos)
        /\ Asks(rule.ttl, frame.ttl)
        /\ rule.protocols = {} \/ \E p \in rule.protocols : ProtocolMatches(p, frame)

MatchingFilters(frame) ==
    {i \in 1..Len(setting.filters) : Matches(setting.filters[i].target, frame)}

(* The first filter that matches, else the source's profile; {} for none. *)
EffectOf(source, frame) ==
    IF MatchingFilters(frame) # {}
      THEN {setting.filters[CHOOSE i \in MatchingFilters(frame) :
                              \A j \in MatchingFilters(frame) : i <= j].effect}
      ELSE IF source \in DOMAIN profiles THEN {profiles[source]} ELSE {}

(* task_count: how many copies the draws may come to. *)
TaskCounts(effect) ==
    LET kept == {1 + effect.duplicate \div 100} \cup
                (IF effect.duplicate % 100 > 0 THEN {2 + effect.duplicate \div 100} ELSE {})
    IN  IF effect.loss >= 100 THEN {0}
        ELSE IF effect.loss > 0 THEN {0} \cup kept ELSE kept

Later(a, b) == IF a > b THEN a ELSE b

(* When a copy may come: latency and jitter on top of the end of reception.*)
Expirations(effect, end) ==
    IF effect.jitter = 0 THEN {end + effect.latency}
    ELSE {Later(end + effect.latency + j, IF j < 0 THEN now ELSE 0) :
            j \in -effect.jitter..effect.jitter - 1}

ReceptionTime(effect, frame) ==
    LET rate == IF frame.destination = "broadcast" THEN effect.broadcast ELSE effect.unicast
    IN  IF rate = 0 THEN 0 ELSE frame.size \div rate

-----------------------------------------------------------------------------
Drop(reason) ==
    /\ outcome' = Append(outcome, reason)
    /\ UNCHANGED <<end_of_reception, copies, receptions>>

(* No effect applies: the packet passes at once, or not at all. *)
WithoutEffect ==
    /\ outcome' = Append(outcome, IF default_connectivity THEN "passed" ELSE "no profile")
    /\ UNCHANGED <<end_of_reception, copies, receptions>>

(* Slip: the packet before is not waited for. *)
EndWithoutQueue(source, effect, frame) == now + ReceptionTime(effect, frame)

(* A packet is received after those of the same source before it. *)
EndOf(source, effect, frame) ==
    Later(now, IF source \in DOMAIN end_of_reception THEN end_of_reception[source] ELSE now)
      + ReceptionTime(effect, frame)

BufferFull(source) ==
    /\ setting.buffer # 0 /\ source \in DOMAIN end_of_reception
    /\ end_of_reception[source] - now > setting.buffer

Scheduling(n, failed) ==
    IF n = 0 THEN "effect" ELSE IF failed # {} THEN "timer" ELSE "scheduled"

(* What a packet that meets effect becomes; the end moves even if it is    *)
(* lost.  The packet counts as dropped when a timer cannot be scheduled    *)
(* for one of its copies, and the others come all the same.                *)
WithEffect(source, effect, frame) ==
    IF BufferFull(source) THEN Drop("receive buffer")
    ELSE LET end == EndOf(source, effect, frame)
         IN  /\ end_of_reception' = [s \in DOMAIN end_of_reception \cup {source} |->
                                       IF s = source THEN end ELSE end_of_reception[s]]
             /\ receptions' = receptions \cup
                  {[source |-> source, life |-> life, end |-> end,
                    span |-> ReceptionTime(effect, frame)]}
             /\ \E n \in TaskCounts(effect) :
                  \E at \in [1..n -> Expirations(effect, end)], failed \in SUBSET (1..n) :
                    /\ copies' = copies \cup
                         {[id |-> arrived', copy |-> c, at |-> at[c],
                           earliest |-> end + effect.latency - effect.jitter] :
                            c \in (1..n) \ failed}
                    /\ outcome' = Append(outcome, Scheduling(n, failed))

(* upstream, for a packet with the shim's header; group tells whether the  *)
(* header's group is the node's own.                                       *)
Upstream(source, frame, group) ==
    /\ Serves /\ arrived < MaxPackets
    /\ arrived' = arrived + 1
    /\ IF ~setting.promiscuous /\ frame.destination = "other" THEN Drop("destination")
       ELSE IF ~group THEN Drop("group")
       ELSE IF EffectOf(source, frame) = {} THEN WithoutEffect
       ELSE \E effect \in EffectOf(source, frame) : WithEffect(source, effect, frame)
    /\ UNCHANGED <<now, setting, queue, life, default_connectivity, profiles, events>>

(* upstream, for a packet without a header, or with one that is no header. *)
UpstreamUnmarked ==
    /\ Serves /\ arrived < MaxPackets
    /\ arrived' = arrived + 1
    /\ Drop("registration")
    /\ UNCHANGED <<now, setting, queue, life, default_connectivity, profiles, events>>

(* timed: a copy is passed up. *)
Timed(c) ==
    /\ Serves /\ c.at <= now
    /\ copies' = copies \ {c}
    /\ outcome' = [outcome EXCEPT ![c.id] = "passed"]
    /\ UNCHANGED <<now, setting, queue, life, default_connectivity, profiles,
                   end_of_reception, arrived, events, receptions>>

(* event: profiles for some nodes; the default connectivity ends. *)
Event(named, effect) ==
    /\ Serves /\ events < MaxEvents
    /\ events' = events + 1
    /\ profiles' = [s \in DOMAIN profiles \cup named |->
                      IF s \in named THEN effect ELSE profiles[s]]
    /\ default_connectivity' = FALSE
    /\ UNCHANGED <<now, setting, queue, life, end_of_reception, copies, arrived,
                   receptions, outcome>>

(* The plugin's stop; what comes before the queue is stopped is received   *)
(* all the same, as if it were of the next life.                           *)
Stop ==
    /\ queue = "running"
    /\ queue' = "stopping"
    /\ life' = life + 1
    /\ end_of_reception' = None
    /\ UNCHANGED <<now, setting, default_connectivity, profiles, copies, arrived, events,
                   receptions, outcome>>

StopQueue ==
    /\ queue = "stopping"
    /\ queue' = "stopped"
    /\ UNCHANGED <<now, setting, life, default_connectivity, profiles, end_of_reception,
                   copies, arrived, events, receptions, outcome>>

(* start loads the filters; everything else stays as it was. *)
Start ==
    /\ queue = "stopped" /\ life <= Lives
    /\ queue' = "running"
    /\ UNCHANGED <<now, setting, life, default_connectivity, profiles, end_of_reception,
                   copies, arrived, events, receptions, outcome>>

Tick ==
    /\ now < setting.time
    /\ now' = now + 1
    /\ UNCHANGED <<setting, shim, arrived, events, receptions, outcome>>

Next ==
    \/ \E s \in Sources, f \in Frames, group \in BOOLEAN : Upstream(s, f, group)
    \/ UpstreamUnmarked
    \/ \E c \in copies : Timed(c)
    \/ \E named \in SUBSET Sources, e \in Effects : Event(named, e)
    \/ Stop \/ StopQueue
    \/ Start
    \/ Tick

Spec == Init /\ [][Next]_vars

-----------------------------------------------------------------------------
(* From one stop of the plugin to the next the packets of a source are     *)
(* received one after the other at their rate, lost ones included, also    *)
(* those between the plugin's stop and the queue's; what waits to be       *)
(* received is bounded by the buffer and one packet; no copy comes up      *)
(* before the end of its own reception, its latency and its jitter allow;  *)
(* and a packet all of whose timers were scheduled has a copy to come      *)
(* until it was passed up.                                                 *)
EffectsKept ==
    /\ \A r, q \in receptions :
         r.source = q.source /\ r.life = q.life /\ r.end < q.end => r.end <= q.end - q.span
    /\ setting.buffer # 0 =>
         \A r \in receptions :
            r.source \in DOMAIN end_of_reception /\ r.life = life
            /\ r.end = end_of_reception[r.source] => r.end - now <= setting.buffer + r.span
    /\ \A c \in copies : c.at >= c.earliest
    /\ \A i \in 1..Len(outcome) :
         outcome[i] = "scheduled" => \E c \in copies : c.id = i
=============================================================================
