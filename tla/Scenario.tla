------------------------------ MODULE Scenario ------------------------------
(***************************************************************************)
(* The event service program: an EEL generator reads a scenario, its       *)
(* loaders keep what the records say, and at each time of the scenario     *)
(* publish it as events, by multicast, to the layers of an emulator.       *)
(*                                                                         *)
(* A loader has two caches, all it was ever told (full) and what it was    *)
(* told since it last published (delta), both functions from cells to      *)
(* values.  A cell is <<destination, NEM>>, or <<destination, NEM,         *)
(* frequency>>; destination 0 is every NEM.                                *)
(*                                                                         *)
(* The text of a record is left out: a record is good, or has one of the   *)
(* faults the parser or a loader can find.  The clock is left out too: the *)
(* wait for the time of a publication may end whenever it is not stopped.  *)
(***************************************************************************)
EXTENDS Integers, Sequences, FiniteSets, TLC, SequencesExt

CONSTANTS
    Nems,           \* the NEMs of the emulator, positive numbers
    Specifications, \* the sequences of loader specifications tried
    Records,        \* the records tried, by the libraries that are loaded
    MaxTime,        \* the last time of a scenario
    MaxRecords,     \* how many records are read
    MaxCells,       \* what an event may hold and still fit a datagram
    MaxDepartures   \* how often layers leave the event service

VARIABLES
    loaders,    \* library |-> its mode, its event types and its two caches
    progress,     \* "reading", "waiting", "publishing", "ended" or "failed"
    current,    \* the time of the records being read, 0 before the first
    pending,    \* the record of a later time, or << >>
    due,        \* libraries whose loader has still to publish
    cancelled,  \* the stop flag of the generator
    channel,    \* datagrams under way
    users,      \* NEMs whose layers are registered with the event service
    view,       \* NEM |-> library |-> cells its layers were told
    statements, \* what the scenario said so far: one per argument
    announced,  \* the last time that was published
    missed,     \* <<NEM, library>> with an event that was lost
    departures

vars == <<loaders, progress, current, pending, due, cancelled, channel, users, view,
          statements, announced, missed, departures>>

-----------------------------------------------------------------------------
(* What an argument of a record writes.                                    *)

NoLocation == [location |-> 0, orientation |-> 0, velocity |-> 0]

(* The entry keeps its other parts: what is published is all of it.        *)
LocationCells(full, r, a) ==
    LET cell == <<0, r.nem>>
    IN cell :> [IF cell \in DOMAIN full THEN full[cell] ELSE NoLocation
                  EXCEPT ![r.type] = a.forward]

AntennaProfileCells(r, a) == <<0, r.nem>> :> a.forward

(* Slip: the other end is told the directions of this one. *)
PathlossCellsUnturned(r, a) ==
    (<<r.nem, a.nem>> :> <<a.forward, a.reverse>>) @@ (<<a.nem, r.nem>> :> <<a.forward, a.reverse>>)

(* Both ends of a link learn of it, each with its own forward direction.   *)
PathlossCells(r, a) ==
    (<<r.nem, a.nem>> :> <<a.reverse, a.forward>>) @@ (<<a.nem, r.nem>> :> <<a.forward, a.reverse>>)

PathlossExCells(r, a) ==
    (<<r.nem, a.nem, a.frequency>> :> a.reverse) @@ (<<a.nem, r.nem, a.frequency>> :> a.forward)

CommEffectCells(r, a) == <<a.nem, r.nem>> :> a.forward

FadingSelectionCells(r, a) == <<r.nem, a.nem>> :> a.forward

CellsOf(library, full, r, a) ==
    CASE library = "location" -> LocationCells(full, r, a)
      [] library = "antennaprofile" -> AntennaProfileCells(r, a)
      [] library = "pathloss" -> PathlossCells(r, a)
      [] library = "pathlossex" -> PathlossExCells(r, a)
      [] library = "commeffect" -> CommEffectCells(r, a)
      [] library = "fadingselection" -> FadingSelectionCells(r, a)

(* Arguments are loaded in order up to the first bad one; a module that is *)
(* no NEM is passed over.                                                  *)
Loadable(r) ==
    IF r.module # "nem" THEN << >>
    ELSE SubSeq(r.arguments, 1, SelectInSeq(Append(r.arguments, [ok |-> FALSE]),
                                            LAMBDA a : ~a.ok) - 1)

LoaderFails(r) ==
    r.module = "nem" /\ (r.arguments = << >> \/ Len(Loadable(r)) < Len(r.arguments))

Loaded(loader, library, r) ==
    LET enter(cache, a) == CellsOf(library, loader.full, r, a) @@ cache
    IN [loader EXCEPT !.full = FoldLeft(enter, @, Loadable(r)),
                      !.delta = FoldLeft(enter, @, Loadable(r))]

-----------------------------------------------------------------------------
(* The events of a publication: destinations and the cells they are told.  *)

Held(loader) == IF loader.mode = "delta" THEN loader.delta ELSE loader.full

Everyone(cache) == <<[nem |-> 0, cells |-> cache]>>

Destinations(cache) == {cell[1] : cell \in DOMAIN cache}

ByDestination(cache) ==
    [i \in 1 .. Cardinality(Destinations(cache)) |->
       LET d == SetToSortSeq(Destinations(cache), <)[i]
       IN [nem |-> d, cells |-> [c \in {c \in DOMAIN cache : c[1] = d} |-> cache[c]]]]

(* Locations and pathlosses are published only after a change, in full    *)
(* mode too.                                                               *)
LocationEvents(loader) ==
    IF loader.delta = << >> THEN << >> ELSE Everyone(Held(loader))

PathlossEvents(loader) ==
    IF loader.delta = << >> THEN << >> ELSE ByDestination(Held(loader))

PathlossExEvents(loader) ==
    IF loader.delta = << >> THEN << >> ELSE ByDestination(Held(loader))

(* The others are published again, in full mode, at every time.           *)
AntennaProfileEvents(loader) ==
    IF Held(loader) = << >> THEN << >> ELSE Everyone(Held(loader))

CommEffectEvents(loader) == ByDestination(Held(loader))

FadingSelectionEvents(loader) == ByDestination(Held(loader))

Publications(library) ==
    CASE library = "location" -> LocationEvents(loaders[library])
      [] library = "antennaprofile" -> AntennaProfileEvents(loaders[library])
      [] library = "pathloss" -> PathlossEvents(loaders[library])
      [] library = "pathlossex" -> PathlossExEvents(loaders[library])
      [] library = "commeffect" -> CommEffectEvents(loaders[library])
      [] library = "fadingselection" -> FadingSelectionEvents(loaders[library])

(* No layer of the generator's own process is told.                       *)
Datagrams(l) ==
    [i \in DOMAIN Publications(l) |->
       [library |-> l, mode |-> loaders[l].mode, event |-> Publications(l)[i]]]

Fits(event) == Cardinality(DOMAIN event.cells) <= MaxCells

(* Whom an event is for. *)
Addressed(event) == {n \in Nems : event.nem \in {0, n}}

-----------------------------------------------------------------------------
(* The generator *)

(* Every event type has one loader.  A library named twice would have two  *)
(* loaders, each with caches of its own; Specifications name them once.    *)
Accepted(specs) ==
    /\ specs # << >>
    /\ \A i \in DOMAIN specs : specs[i].types # {} /\ specs[i].mode \in {"delta", "full"}
    /\ \A i, j \in DOMAIN specs : i # j => specs[i].types \cap specs[j].types = {}

NewLoaders(specs) ==
    [l \in {specs[i].library : i \in DOMAIN specs} |->
       LET s == CHOOSE s \in {specs[i] : i \in DOMAIN specs} : s.library = l
       IN [mode |-> s.mode, types |-> s.types, full |-> << >>, delta |-> << >>]]

Init ==
    /\ \E specs \in Specifications :
         IF Accepted(specs) THEN loaders = NewLoaders(specs) /\ progress = "reading"
                            ELSE loaders = << >> /\ progress = "failed"
    /\ current = 0 /\ pending = << >> /\ due = {} /\ cancelled = FALSE
    /\ channel = << >> /\ users = {} /\ view = [n \in Nems |-> [l \in DOMAIN loaders |-> << >>]]
    /\ statements = << >> /\ announced = 0 /\ missed = {} /\ departures = 0

Statement(library, r, a) ==
    [library |-> library, type |-> r.type, time |-> r.time, nem |-> r.nem, argument |-> a]

(* The end of a turn of the loop in run: the loader of the record's type.  *)
Load(r) ==
    /\ current' = r.time
    /\ pending' = << >>
    /\ \/ /\ r.module # "bad"
          /\ \E l \in DOMAIN loaders :
               /\ r.type \in loaders[l].types
               /\ loaders' = [loaders EXCEPT ![l] = Loaded(@, l, r)]
               /\ statements' = statements \o
                    [i \in DOMAIN Loadable(r) |-> Statement(l, r, Loadable(r)[i])]
               /\ progress' = IF LoaderFails(r) THEN "failed" ELSE "reading"
       \/ /\ r.module = "bad" \/ \A l \in DOMAIN loaders : r.type \notin loaders[l].types
          /\ progress' = "failed"
          /\ UNCHANGED <<loaders, statements>>

Delivery == <<channel, users, view, missed, departures>>

(* The checks before anything is published, and the record that waits for  *)
(* the publication of the time before it.  Blank lines change nothing.     *)
Read(r) ==
    /\ progress = "reading" /\ ~cancelled
    /\ Len(statements) < MaxRecords
    /\ \/ /\ r.malformed \/ r.time < current
          /\ progress' = "failed"
          /\ UNCHANGED <<loaders, current, pending, statements>>
       \/ /\ ~r.malformed /\ current # 0 /\ r.time > current
          /\ progress' = "waiting" /\ pending' = <<r>>
          /\ UNCHANGED <<loaders, current, statements>>
       \/ /\ ~r.malformed /\ (current = 0 \/ r.time = current)
          /\ Load(r)
    /\ UNCHANGED <<due, cancelled, announced, Delivery>>

EndOfFiles ==
    /\ progress = "reading" /\ ~cancelled
    /\ progress' = IF current = 0 THEN "ended" ELSE "waiting"
    /\ UNCHANGED <<loaders, current, pending, due, cancelled, statements, announced, Delivery>>

(* publish: the time has come. *)
BeginPublishing ==
    /\ progress = "waiting" /\ ~cancelled
    /\ progress' = "publishing" /\ due' = DOMAIN loaders
    /\ announced' = current
    /\ UNCHANGED <<loaders, current, pending, cancelled, statements, Delivery>>

(* One loader, in no fixed order.  An event too large for a datagram is    *)
(* not sent, though its changes are forgotten with the others: it is kept  *)
(* here as one that can only be lost.                                      *)
Publish(l) ==
    /\ progress = "publishing" /\ l \in due
    /\ due' = due \ {l}
    /\ loaders' = [loaders EXCEPT ![l].delta = << >>]
    /\ channel' = channel \o Datagrams(l)
    /\ UNCHANGED <<progress, current, pending, cancelled, users, view, statements, announced,
                   missed, departures>>

Resume ==
    /\ progress = "publishing" /\ due = {}
    /\ \/ pending # << >> /\ Load(pending[1])
       \/ /\ pending = << >> /\ progress' = "ended"
          /\ UNCHANGED <<loaders, current, pending, statements>>
    /\ UNCHANGED <<due, cancelled, announced, Delivery>>

Cancel ==
    /\ progress \notin {"ended", "failed"} /\ ~cancelled
    /\ cancelled' = TRUE
    /\ UNCHANGED <<loaders, progress, current, pending, due, statements, announced, Delivery>>

(* The flag is seen at the next line and in the wait, not while sending.   *)
ReturnCancelled ==
    /\ cancelled /\ progress \in {"reading", "waiting"}
    /\ progress' = "ended"
    /\ UNCHANGED <<loaders, current, pending, due, cancelled, statements, announced, Delivery>>

-----------------------------------------------------------------------------
(* The emulator *)

Generator == <<loaders, progress, current, pending, due, cancelled, statements, announced>>

(* The layers of a NEM are made and destroyed; the ones made again know    *)
(* nothing of what their predecessors were told.                           *)
Register(n) ==
    /\ n \notin users /\ users' = users \cup {n}
    /\ UNCHANGED <<Generator, channel, view, missed, departures>>

Unregister(n) ==
    /\ n \in users /\ departures < MaxDepartures
    /\ users' = users \ {n} /\ departures' = departures + 1
    /\ view' = [view EXCEPT ![n] = [l \in DOMAIN loaders |-> << >>]]
    /\ missed' = missed \cup ({n} \X (DOMAIN loaders))
    /\ UNCHANGED <<Generator, channel>>

(* The callbacks of an event that was received. *)
ProcessEvent ==
    /\ channel # << >> /\ Fits(Head(channel).event) /\ channel' = Tail(channel)
    /\ LET d == Head(channel)
           told == Addressed(d.event) \cap users
       IN /\ view' = [n \in Nems |->
                        IF n \in told THEN [view[n] EXCEPT ![d.library] = d.event.cells @@ @]
                                      ELSE view[n]]
          /\ missed' = (missed \ IF d.mode = "full" THEN told \X {d.library} ELSE {})
                         \cup ((Addressed(d.event) \ users) \X {d.library})
    /\ UNCHANGED <<Generator, users, departures>>

(* The network loses a datagram, or it was never sent. *)
Lose ==
    /\ channel # << >> /\ channel' = Tail(channel)
    /\ missed' = missed \cup (Addressed(Head(channel).event) \X {Head(channel).library})
    /\ UNCHANGED <<Generator, users, view, departures>>

Next ==
    \/ \E r \in Records[DOMAIN loaders] : Read(r)
    \/ EndOfFiles
    \/ BeginPublishing
    \/ \E l \in DOMAIN loaders : Publish(l)
    \/ Resume
    \/ Cancel
    \/ ReturnCancelled
    \/ \E n \in Nems : Register(n)
    \/ \E n \in Nems : Unregister(n)
    \/ ProcessEvent
    \/ Lose

Spec == Init /\ [][Next]_vars

-----------------------------------------------------------------------------
(* What the scenario means, read from the statements alone.                *)

Said(l) == {i \in DOMAIN statements : statements[i].library = l /\ statements[i].time <= announced}

(* The last of the statements numbered S. *)
LastOf(S) == statements[CHOOSE i \in S : \A j \in S : j <= i]

AboutNem(l, n) == {i \in Said(l) : statements[i].nem = n}

AboutLink(l, d, s) ==
    {i \in Said(l) : statements[i].nem = s /\ statements[i].argument.nem = d}

EitherWay(l, d, s) == AboutLink(l, d, s) \cup AboutLink(l, s, d)

MeantLocations ==
    [c \in {<<0, n>> : n \in {n \in Nems : AboutNem("location", n) # {}}} |->
       [t \in DOMAIN NoLocation |->
          LET S == {i \in AboutNem("location", c[2]) : statements[i].type = t}
          IN IF S = {} THEN 0 ELSE LastOf(S).argument.forward]]

MeantProfiles ==
    [c \in {<<0, n>> : n \in {n \in Nems : AboutNem("antennaprofile", n) # {}}} |->
       LastOf(AboutNem("antennaprofile", c[2])).argument.forward]

MeantPathlosses(n) ==
    [c \in {<<n, s>> : s \in {s \in Nems : EitherWay("pathloss", n, s) # {}}} |->
       LET last == LastOf(EitherWay("pathloss", n, c[2]))
       IN IF last.nem = c[2] THEN <<last.argument.forward, last.argument.reverse>>
                             ELSE <<last.argument.reverse, last.argument.forward>>]

MeantPathlossesEx(n) ==
    LET at(s, f) == {i \in EitherWay("pathlossex", n, s) : statements[i].argument.frequency = f}
        frequencies == {statements[i].argument.frequency : i \in Said("pathlossex")}
    IN [c \in {c \in {n} \X Nems \X frequencies : at(c[2], c[3]) # {}} |->
          LET last == LastOf(at(c[2], c[3]))
          IN IF last.nem = c[2] THEN last.argument.forward ELSE last.argument.reverse]

MeantEffects(n) ==
    [c \in {<<n, s>> : s \in {s \in Nems : AboutLink("commeffect", n, s) # {}}} |->
       LastOf(AboutLink("commeffect", n, c[2])).argument.forward]

MeantSelections(n) ==
    [c \in {<<n, s>> : s \in {s \in Nems : AboutLink("fadingselection", s, n) # {}}} |->
       LastOf(AboutLink("fadingselection", c[2], n)).argument.forward]

Meant(l, n) ==
    CASE l = "location" -> MeantLocations
      [] l = "antennaprofile" -> MeantProfiles
      [] l = "pathloss" -> MeantPathlosses(n)
      [] l = "pathlossex" -> MeantPathlossesEx(n)
      [] l = "commeffect" -> MeantEffects(n)
      [] l = "fadingselection" -> MeantSelections(n)

-----------------------------------------------------------------------------
(* When nothing is under way, a layer knows exactly what the records of    *)
(* the published times amount to, in both directions of a link and in all  *)
(* parts of a location, unless an event for it was lost, and in full mode  *)
(* again after the next event that is not lost; nothing of a record read   *)
(* ahead, refused, or never published reaches a layer (NativeEelGenerator  *)
(* run and publish, the loaders' caches, the event service).               *)
ScenarioFollowed ==
    channel = << >> /\ due = {} =>
      \A n \in users : \A l \in DOMAIN loaders :
        <<n, l>> \notin missed => view[n][l] = Meant(l, n)
=============================================================================
