------------------------ MODULE PluginConfiguration ------------------------
(***************************************************************************)
(* Configuration of a running component: the registry that answers for its *)
(* values, and the component's configure handler, which changes its fields *)
(* one by one and checks at the end that they fit together.  A handler     *)
(* that refuses an update has applied the items before the one it refused; *)
(* the registry then calls it again with the values it has on record.      *)
(*                                                                         *)
(* The values of a parameter have keys: of the bent-pipe model the         *)
(* transponder they name, of the other components their places, the first  *)
(* of which is 0.  Na stands for the value "na" of the bent-pipe model,    *)
(* which leaves a number as it is, and is a number elsewhere; Bad for a    *)
(* value out of range, Unfit for one of another type than the one on       *)
(* record, or for no value at all.  A set of slots is a bit mask.          *)
(* RuntimeConfiguration has the queue and the time limit between the two.  *)
(***************************************************************************)
EXTENDS Integers, Sequences, FiniteSets, SequencesExt

CONSTANTS
    Supplied,    \* pairs of a kind and the values its configuration file gives
    Requests,    \* for a kind, the updates asked for: sequences of items
    MaxUpdates   \* bound on the updates

VARIABLES
    kind,
    values,      \* the registry: parameter -> key -> value, for the keys it knows
    fields,      \* the component: parameter -> key -> number
    listening,   \* the frequencies the physical layer was told to receive
    recorded,    \* the spectrum monitor of the physical layer has recordings
    update, phase, requested,
    agreed,      \* history: the fields after the last accepted update
    refused,     \* history: what refused updates named since
    unrestored   \* history: a previous configuration could not be restored

vars == <<kind, values, fields, listening, recorded, update, phase, requested, agreed,
          refused, unrestored>>

Na == -1
Bad == -2
Unfit == -3

(***************************************************************************)
(* The parameters of each kind, one or two for each way in which they are  *)
(* checked: what the registry answers before any is given, what a          *)
(* component has before any is given, those the file must give, and those  *)
(* an update may change.                                                   *)
(***************************************************************************)
Defaults ==
    [emanephy |-> [txpower |-> 0, distance0 |-> 100, distance1 |-> 250, dlthresh |-> 25,
                   duthresh |-> 75],
     rfpipe |-> [datarate |-> 1000, neighbormetricdeletetime |-> 60],
     tdma |-> [enablepromiscuousmode |-> 0, neighbormetricdeletetime |-> 60],
     ieee80211abg |-> [mode |-> 0, unicastrate |-> 4, cwmin0 |-> 32, cwmax0 |-> 1024]]

PhyNew == [txpower |-> 0, distance0 |-> 100, distance1 |-> 250, dlthresh |-> 25, duthresh |-> 75]

RfpipeNew == [datarate |-> 1000, neighbormetricdeletetime |-> 60]

TdmaNew == [enablepromiscuousmode |-> 0, neighbormetricdeletetime |-> 60]

WifiNew == [mode |-> 0, unicastrate |-> 4, cwmin0 |-> 32, cwmax0 |-> 1024]

New(k) ==
    CASE k = "emanephy" -> PhyNew
      [] k = "rfpipe" -> RfpipeNew
      [] k = "tdma" -> TdmaNew
      [] k = "ieee80211abg" -> WifiNew

Required(k) ==
    IF k = "bentpipe" THEN {"frequency", "mtu", "slotperframe", "slotsize", "txslots"} ELSE {}

(* Slots of the bit mask mask exist in a frame of n. *)
SlotsExist(mask, n) == mask < 2 ^ n

Modifiable(k) ==
    CASE k = "emanephy" -> {"txpower", "distance0", "distance1", "dlthresh", "duthresh"}
      [] k = "rfpipe" -> {"datarate", "neighbormetricdeletetime"}
      [] k = "tdma" -> {"enablepromiscuousmode", "neighbormetricdeletetime"}
      [] k = "ieee80211abg" -> {"unicastrate", "cwmin0", "cwmax0"}
      [] k = "bentpipe" -> {"frequency", "mtu", "slotperframe", "slotsize", "txslots"}

-----------------------------------------------------------------------------
(***************************************************************************)
(* What the handlers check once all items are applied.                     *)
(***************************************************************************)
PhyConsistent(f) ==
    /\ f["distance0"][0] < f["distance1"][0]
    /\ f["dlthresh"][0] <= f["duthresh"][0]

ValidRate(mode, rate) ==
    \/ mode \in {0, 2} /\ rate \in 1..4
    \/ mode = 1 /\ rate \in 5..12
    \/ mode = 3 /\ rate \in 1..12

WifiConsistent(f) ==
    /\ f["cwmin0"][0] <= f["cwmax0"][0]
    /\ ValidRate(f["mode"][0], f["unicastrate"][0])

EffectiveMtu(f, t) == IF f["mtu"][t] # 0 THEN f["mtu"][t] ELSE f["slotsize"][t]

(* Slots are given in full or not at all; no two transponders, which share *)
(* the receive antenna, have one frequency.                                *)
BentConsistent(f) ==
    \A t \in DOMAIN f["mtu"] :
      LET given == {p \in {"slotperframe", "slotsize", "txslots"} : f[p][t] # 0}
      IN  /\ f["frequency"][t] # 0
          /\ EffectiveMtu(f, t) # 0
          /\ Cardinality(given) \in {0, 3}
          /\ SlotsExist(f["txslots"][t], f["slotperframe"][t])
          /\ \A u \in DOMAIN f["mtu"] \ {t} : f["frequency"][u] # f["frequency"][t]

Consistent(f) ==
    CASE kind = "emanephy" -> PhyConsistent(f)
      [] kind = "ieee80211abg" -> WifiConsistent(f)
      [] kind = "bentpipe" -> BentConsistent(f)
      [] OTHER -> TRUE

-----------------------------------------------------------------------------
(***************************************************************************)
(* A component is built with its own values, configured with the ones the  *)
(* file gives, and registered with these over the registry's defaults.     *)
(***************************************************************************)
Scalars(numbers) == [p \in DOMAIN numbers |-> 0 :> numbers[p]]

Numbers(v) == [p \in DOMAIN v |-> [t \in DOMAIN v[p] |-> IF v[p][t] = Na THEN 0 ELSE v[p][t]]]

Registered(k, given) == IF k = "bentpipe" THEN given ELSE given @@ Scalars(Defaults[k])

Built(k, given) == IF k = "bentpipe" THEN Numbers(given) ELSE given @@ Scalars(New(k))

Frequencies(f) == IF kind = "bentpipe" THEN f["frequency"] ELSE <<>>

Init ==
    /\ \E c \in Supplied :
         /\ kind = c[1]
         /\ Required(kind) \subseteq DOMAIN c[2]
         /\ values = Registered(kind, c[2])
         /\ fields = Built(kind, c[2])
    /\ Consistent(fields)
    /\ listening = Frequencies(fields)
    /\ recorded = FALSE
    /\ update = <<>>
    /\ phase = "idle"
    /\ requested = 0
    /\ agreed = fields
    /\ refused = {}
    /\ unrestored = FALSE

(***************************************************************************)
(* configure: the items up to the first that is bad are applied, the later *)
(* of two for one field last.  Of the values of a scalar parameter all but *)
(* the first are ignored; the handler of ieee80211abg refuses an update    *)
(* with more than one before it applies any.                               *)
(***************************************************************************)
PhyTakes(p, v) == v # Bad /\ (p \in {"distance0", "distance1"} => v >= 0)

RfpipeTakes(p, v) ==
    IF p = "datarate" THEN v \in Nat \ {0} ELSE v \in 1..3660

TdmaTakes(p, v) ==
    IF p = "enablepromiscuousmode" THEN v \in {0, 1} ELSE v \in 1..3660

WifiTakes(p, v) ==
    CASE p = "mode" -> v \in 0..3
      [] p = "unicastrate" -> v \in 1..12
      [] p \in {"cwmin0", "cwmax0"} -> v \in 1..65535

(* "na" is a number for none but these; an entry names its transponder. *)
BentTakes(p, v) ==
    \/ v \in Nat
    \/ v = Na /\ p \in {"mtu", "slotperframe", "slotsize"}

Takes(p, v) ==
    CASE kind = "emanephy" -> PhyTakes(p, v)
      [] kind = "rfpipe" -> RfpipeTakes(p, v)
      [] kind = "tdma" -> TdmaTakes(p, v)
      [] kind = "ieee80211abg" -> WifiTakes(p, v)
      [] kind = "bentpipe" -> BentTakes(p, v)

Ignored(item) == kind # "bentpipe" /\ item.key # 0

IsBad(f, item) ==
    ~Ignored(item) /\ (item.key \notin DOMAIN f[item.name] \/ ~Takes(item.name, item.value))

Malformed(items) == kind = "ieee80211abg" /\ \E i \in 1..Len(items) : Ignored(items[i])

Applied(f, items) ==
    {i \in 1..Len(items) : ~Malformed(items) /\ \A j \in 1..i : ~IsBad(f, items[j])}

WritesNothing(v) == kind = "bentpipe" /\ v = Na

Writes(f, items, p, t) ==
    {i \in Applied(f, items) :
       items[i].name = p /\ items[i].key = t /\ ~WritesNothing(items[i].value)}

FieldsAfter(f, items) ==
    [p \in DOMAIN f |-> [t \in DOMAIN f[p] |->
       LET writes == Writes(f, items, p, t)
       IN  IF writes = {} THEN f[p][t]
           ELSE items[CHOOSE i \in writes : \A j \in writes : j <= i].value]]

Accepts(f, items) ==
    Cardinality(Applied(f, items)) = Len(items) /\ Consistent(FieldsAfter(f, items))

(* The bent-pipe handler tells the physical layer, when it accepts, what   *)
(* its antennas receive, if the items named a frequency.                   *)
ListeningAfter(f, items) ==
    IF \E i \in 1..Len(items) : items[i].name = "frequency"
    THEN Frequencies(FieldsAfter(f, items)) ELSE listening

-----------------------------------------------------------------------------
(***************************************************************************)
(* update of the registry.  An item of the update is a value for one key;  *)
(* the values of a parameter are consecutive items.                        *)
(***************************************************************************)
Names(items) == {items[i].name : i \in 1..Len(items)}

(* Duplicates, what cannot be modified and values of another type are      *)
(* refused beforehand.                                                     *)
Refuse(items) ==
    /\ phase = "idle" /\ requested < MaxUpdates
    /\ \/ ~(Names(items) \subseteq Modifiable(kind))
       \/ \E i \in 1..Len(items) : items[i].value = Unfit
       \/ \E i, j \in 1..Len(items) :
            /\ i < j /\ items[i].name = items[j].name
            /\ \E k \in i..j : items[k].name # items[i].name
    /\ requested' = requested + 1
    /\ UNCHANGED <<kind, values, fields, listening, recorded, update, phase, agreed, refused,
                   unrestored>>

Update(items) ==
    /\ phase = "idle" /\ requested < MaxUpdates
    /\ Names(items) \subseteq Modifiable(kind)
    /\ \A i \in 1..Len(items) : items[i].value # Unfit
    /\ \A i, j \in 1..Len(items) :
         i < j /\ items[i].name = items[j].name =>
           \A k \in i..j : items[k].name = items[i].name
    /\ requested' = requested + 1
    /\ update' = items
    /\ phase' = "apply"
    /\ UNCHANGED <<kind, values, fields, listening, recorded, agreed, refused, unrestored>>

(* The physical layer, when it accepts, sets up its spectrum monitor anew. *)
RecordedAfter == recorded /\ kind # "emanephy"

(* The whole value of each parameter named is replaced on record. *)
ValuesAfter ==
    [p \in DOMAIN values |->
       IF p \notin Names(update) THEN values[p]
       ELSE LET items == {i \in 1..Len(update) : update[i].name = p}
                last(t) == CHOOSE i \in items :
                             /\ update[i].key = t
                             /\ \A j \in items : update[j].key = t => j <= i
            IN  [t \in {update[i].key : i \in items} |-> update[last(t)].value]]

Accept ==
    /\ phase = "apply" /\ Accepts(fields, update)
    /\ fields' = FieldsAfter(fields, update)
    /\ listening' = ListeningAfter(fields, update)
    /\ recorded' = RecordedAfter
    /\ values' = ValuesAfter
    /\ agreed' = fields'
    /\ refused' = {}
    /\ phase' = "idle"
    /\ update' = <<>>
    /\ UNCHANGED <<kind, requested, unrestored>>

(* The handler refuses; what came before the bad item stays applied. *)
Decline ==
    /\ phase = "apply" /\ ~Accepts(fields, update)
    /\ fields' = FieldsAfter(fields, update)
    /\ refused' = refused \cup {<<update[i].name, update[i].key>> : i \in 1..Len(update)}
    /\ phase' = "restore"
    /\ UNCHANGED <<kind, values, listening, recorded, update, requested, agreed, unrestored>>

(* Slip: only the first parameter of the update is given back. *)
PreviousOfFirst(items) ==
    LET p == items[1].name
    IN  {[name |-> p, key |-> t, value |-> values[p][t]] : t \in DOMAIN values[p]}

(* The values on record of every parameter the update named; all are good, *)
(* so their order does not matter.                                         *)
Previous(items) ==
    UNION {{[name |-> p, key |-> t, value |-> values[p][t]] : t \in DOMAIN values[p]}
             : p \in Names(items)}

Restore ==
    /\ phase = "restore"
    /\ LET items == SetToSeq(Previous(update))
           accepted == Accepts(fields, items)
       IN  /\ fields' = FieldsAfter(fields, items)
           /\ listening' = IF accepted THEN ListeningAfter(fields, items) ELSE listening
           /\ recorded' = IF accepted THEN RecordedAfter ELSE recorded
           /\ unrestored' = (unrestored \/ ~accepted)
    /\ phase' = "idle"
    /\ update' = <<>>
    /\ UNCHANGED <<kind, values, requested, agreed, refused>>

(* A transmission is received between the calls of the handler. *)
Receive ==
    /\ kind = "emanephy" /\ ~recorded
    /\ recorded' = TRUE
    /\ UNCHANGED <<kind, values, fields, listening, update, phase, requested, agreed, refused,
                   unrestored>>

Next ==
    \/ Receive
    \/ \E items \in Requests[kind] : Refuse(items) \/ Update(items)
    \/ Accept
    \/ Decline
    \/ Restore

Spec == Init /\ [][Next]_vars

-----------------------------------------------------------------------------
(* Between updates a component has every value the registry answers for,   *)
(* whatever was refused before, and the physical layer listens where the   *)
(* component is tuned; only of a second value for a scalar parameter does  *)
(* the registry know alone.  A field whose value is not on record, because *)
(* it is "na" or a later update of the parameter left its transponder out, *)
(* is the only kind that may keep what a refused update wrote.  The fields *)
(* fit together unless the restore of a bent-pipe configuration failed.    *)
ConfigurationFollows ==
    phase = "idle" =>
      /\ \A p \in DOMAIN values : \A t \in DOMAIN values[p] :
           IF t \in DOMAIN fields[p]
             THEN WritesNothing(values[p][t]) \/ fields[p][t] = values[p][t]
             ELSE kind # "bentpipe" /\ t # 0
      /\ \A p \in DOMAIN fields : \A t \in DOMAIN fields[p] :
           fields[p][t] # agreed[p][t] =>
             /\ <<p, t>> \in refused
             /\ t \notin DOMAIN values[p] \/ WritesNothing(values[p][t])
      /\ ~Consistent(fields) => unrestored
      /\ ~unrestored => listening = Frequencies(fields)
      /\ unrestored => kind = "bentpipe"
============================================================================
