------------------------------ MODULE Statistics ------------------------------
(***************************************************************************)
(* The statistic service: counters, doubles, averages and tables that the  *)
(* layers and the managers keep and that a control client queries and      *)
(* clears while they run.                                                  *)
(*                                                                         *)
(* Every call takes the service's mutex and is one step.  What is not one  *)
(* step is the count of an event in a table: the manager adds to a         *)
(* counter, asks for the table's generation, counts in its own rows and    *)
(* only then stores the row, and the mutex is free in between.             *)
(***************************************************************************)
EXTENDS Integers, Sequences, FiniteSets, SequencesExt, FiniteSetsExt

CONSTANTS
    Clients,         \* the components that register statistics
    BuildOf,         \* the build id of each client
    Registered,      \* build id -> sequence of [name, kind, clearable]
    Keys,            \* what tables count: sources, event ids
    Samples,         \* values given to a statistic, NotFinite among them
    NotFinite,       \* stands for an infinity or a NaN
    Antennas,        \* antennas of RF signal rows
    Frequencies,     \* and their frequencies
    Averaging,       \* the settings of the RF signal table
    ClearLists,      \* the sequences of names a control client gives
    RowLimit,        \* rows a writer keeps in a table
    MaxSteps         \* bound: steps of a behaviour

VARIABLES
    entries,         \* <<build, name>> -> [handle, kind, clearable]
    store,           \* handle -> what is kept under it
    nextHandle,
    held,            \* client -> name -> the handle it was given, 0 for none
    writer,          \* client -> the count of one event under way
    owner,           \* history: build -> the client it is registered for
    noted,           \* history: <<client, name>> -> what it noted since the
                     \* last clear
    stale,           \* history: client -> rows stored across a clear
    steps

vars == << entries, store, nextHandle, held, writer, owner, noted, stale, steps >>

Builds == {BuildOf[c] : c \in Clients}
NamesOf(b) == {Registered[b][i].name : i \in DOMAIN Registered[b]}
Slots == {<<c, n>> : c \in Clients, n \in UNION {NamesOf(b) : b \in Builds}}

Scalars == {"counter", "peak", "double", "average"}
AnyOf == 65535                          \* u16::MAX and u64::MAX in an RF key

(* What a statistic holds when it is registered. *)
NewCounter == [sum |-> 0, count |-> 0]
NewDouble == [sum |-> 0, count |-> 0]
NewAverage == [sum |-> 0, count |-> 0]
NewTable == [rows |-> << >>, generation |-> 0]
NewRfTable == [rows |-> << >>, flags |-> [antennas |-> FALSE, frequencies |-> FALSE]]

New(kind) ==
    CASE kind \in {"counter", "peak"} -> NewCounter
      [] kind = "double" -> NewDouble
      [] kind = "average" -> NewAverage
      [] kind = "table" -> NewTable
      [] kind = "rf" -> NewRfTable

(* Slip: the rows go, the generation stays. *)
ClearedKeepingGeneration(kind, value) ==
    CASE kind \in {"table", "rf"} -> [value EXCEPT !.rows = << >>]
      [] OTHER -> New(kind)

Cleared(kind, value) ==
    CASE kind = "table" -> [rows |-> << >>, generation |-> value.generation + 1]
      [] kind = "rf" -> [value EXCEPT !.rows = << >>]
      [] OTHER -> New(kind)

Idle == [pc |-> "idle", key |-> 0, rows |-> << >>, generation |-> 0]

Init ==
    /\ entries = << >>
    /\ store = << >>
    /\ nextHandle = 1
    /\ held = [c \in Clients |-> << >>]
    /\ writer = [c \in Clients |-> Idle]
    /\ owner = << >>
    /\ noted = [s \in Slots |-> << >>]
    /\ stale = [c \in Clients |-> {}]
    /\ steps = 0

Step == steps < MaxSteps /\ steps' = steps + 1

Merged(f, g) == [x \in DOMAIN f \cup DOMAIN g |-> IF x \in DOMAIN f THEN f[x] ELSE g[x]]

(***************************************************************************)
(* Registration.  A name already taken gives no handle: the component goes *)
(* on with handle 0, which no statistic ever has.                          *)
(***************************************************************************)
HandleAfter(handle) == IF handle + 1 > 1 THEN handle + 1 ELSE 1

Register(c) ==
    LET b == BuildOf[c]
        new == SelectSeq(Registered[b], LAMBDA d : <<b, d.name>> \notin DOMAIN entries)
        handle == [i \in DOMAIN new |-> nextHandle + i - 1]
        given(n) == {i \in DOMAIN new : new[i].name = n}
    IN /\ Step
       /\ held[c] = << >>
       /\ entries' = Merged(
              [e \in {<<b, new[i].name>> : i \in DOMAIN new} |->
                  LET i == CHOOSE i \in given(e[2]) : TRUE IN
                  [handle |-> handle[i], kind |-> new[i].kind, clearable |-> new[i].clearable]],
              entries)
       /\ store' = Merged(
              [h \in {handle[i] : i \in DOMAIN new} |-> New(new[h - nextHandle + 1].kind)],
              store)
       /\ nextHandle' = IF new = << >> THEN nextHandle ELSE HandleAfter(handle[Len(new)])
       /\ held' = [held EXCEPT ![c] = [n \in NamesOf(b) |->
              IF given(n) = {} THEN 0 ELSE handle[CHOOSE i \in given(n) : TRUE]]]
       /\ owner' = IF new = << >> THEN owner ELSE Merged([x \in {b} |-> c], owner)
       /\ UNCHANGED << writer, noted, stale >>

(* A layer that is destroyed takes all the statistics of its build along. *)
UnregisterAll(b) ==
    LET gone == {e \in DOMAIN entries : e[1] = b}
        handles == {entries[e].handle : e \in gone}
    IN /\ Step
       /\ gone # {}
       /\ entries' = [e \in DOMAIN entries \ gone |-> entries[e]]
       /\ store' = [h \in DOMAIN store \ handles |-> store[h]]
       /\ owner' = [x \in DOMAIN owner \ {b} |-> owner[x]]
       /\ UNCHANGED << nextHandle, held, writer, noted, stale >>

Handle(c, n) == IF n \in DOMAIN held[c] THEN held[c][n] ELSE 0
Alive(c, n) == Handle(c, n) \in DOMAIN store
Place(c, n) ==
    LET list == Registered[BuildOf[c]] IN CHOOSE i \in DOMAIN list : list[i].name = n

IsKind(c, n, kind) ==
    /\ n \in NamesOf(BuildOf[c])
    /\ Registered[BuildOf[c]][Place(c, n)].kind = kind

Note(c, n, x) == noted' = [noted EXCEPT ![<<c, n>>] = Append(@, x)]

(***************************************************************************)
(* Scalars.  An update through a handle that is not registered any more,   *)
(* or never was, changes nothing.                                          *)
(***************************************************************************)
Increment(value, x) == [value EXCEPT !.sum = @ + x]
Maximize(value, x) == IF x > value.sum THEN [value EXCEPT !.sum = x] ELSE value
SetDouble(value, x) == IF x = NotFinite THEN value ELSE [value EXCEPT !.sum = x]
SampleAverage(value, x) ==
    IF x = NotFinite THEN value ELSE [sum |-> value.sum + x, count |-> value.count + 1]

Changed(kind, value, x) ==
    CASE kind = "counter" -> Increment(value, x)
      [] kind = "peak" -> Maximize(value, x)
      [] kind = "double" -> SetDouble(value, x)
      [] kind = "average" -> SampleAverage(value, x)

Update(c, n, x) ==
    /\ Step
    /\ held[c] # << >>
    /\ \E kind \in Scalars :
          /\ IsKind(c, n, kind)
          /\ kind \in {"counter", "peak"} => x # NotFinite
          /\ store' = IF ~Alive(c, n) THEN store
                      ELSE [store EXCEPT ![Handle(c, n)] = Changed(kind, @, x)]
    /\ Note(c, n, x)
    /\ UNCHANGED << entries, nextHandle, held, writer, owner, stale >>

(***************************************************************************)
(* The RF signal table averages the receptions of a source; the settings   *)
(* take the antenna or the frequency out of the row's key.                 *)
(***************************************************************************)
RfKey(flags, source, antenna, frequency) ==
    << source,
       IF flags.antennas THEN AnyOf ELSE antenna,
       IF flags.frequencies THEN AnyOf ELSE frequency >>

(* A power that is not finite makes its row's sum so for good. *)
Plus(p, q) == IF NotFinite \in {p, q} THEN NotFinite ELSE p + q
Mean(sum, n) == IF sum = NotFinite THEN NotFinite ELSE sum \div n

RfAdded(table, source, antenna, frequency, power) ==
    LET key == RfKey(table.flags, source, antenna, frequency)
        row == IF key \in DOMAIN table.rows THEN table.rows[key] ELSE [samples |-> 0, power |-> 0]
    IN [table EXCEPT !.rows = Merged(
           [k \in {key} |-> [samples |-> row.samples + 1, power |-> Plus(row.power, power)]], @)]

RfUpdate(c, n, source, antenna, frequency, power) ==
    /\ Step
    /\ held[c] # << >>
    /\ IsKind(c, n, "rf")
    /\ store' = IF ~Alive(c, n) THEN store
                ELSE [store EXCEPT ![Handle(c, n)] =
                         RfAdded(@, source, antenna, frequency, power)]
    /\ Note(c, n, <<source, power>>)
    /\ UNCHANGED << entries, nextHandle, held, writer, owner, stale >>

(* Changed settings leave the rows as they are: old keys stay beside new. *)
RfConfigure(c, n, flags) ==
    /\ Step
    /\ IsKind(c, n, "rf")
    /\ Alive(c, n)
    /\ store' = [store EXCEPT ![Handle(c, n)].flags = flags]
    /\ UNCHANGED << entries, nextHandle, held, writer, owner, noted, stale >>

(***************************************************************************)
(* Counting an event takes three calls of the service: the counter, the    *)
(* table's generation, the row.  The counts of the rows are the writer's   *)
(* own; the table only has copies of them, and the generation tells the    *)
(* writer that they were cleared.                                          *)
(***************************************************************************)
GenerationOf(table) == table.generation
StoredRow(table, k, row) == [table EXCEPT !.rows = Merged([x \in {k} |-> row], @)]

Table(c) == CHOOSE n \in NamesOf(BuildOf[c]) : IsKind(c, n, "table")
HasTable(c) == \E n \in NamesOf(BuildOf[c]) : IsKind(c, n, "table")

RowsKept(w, generation) == IF generation # w.generation THEN << >> ELSE w.rows
Counted(rows, k) ==
    Merged([x \in {k} |-> IF k \in DOMAIN rows THEN rows[k] + 1 ELSE 1], rows)

CountEvent(c, k) ==
    /\ Step
    /\ held[c] # << >>
    /\ HasTable(c)
    /\ writer[c].pc = "idle"
    /\ \E n \in NamesOf(BuildOf[c]) :
          /\ IsKind(c, n, "counter")
          /\ store' = IF ~Alive(c, n) THEN store
                      ELSE [store EXCEPT ![Handle(c, n)] = Increment(@, 1)]
          /\ Note(c, n, 1)
    /\ writer' = [writer EXCEPT ![c].pc = "generation", ![c].key = k]
    /\ UNCHANGED << entries, nextHandle, held, owner, stale >>

ReadGeneration(c) ==
    LET w == writer[c]
        k == w.key
        generation == IF Alive(c, Table(c)) THEN GenerationOf(store[Handle(c, Table(c))])
                      ELSE w.generation
        rows == RowsKept(w, generation)
    IN /\ w.pc = "generation"
       /\ writer' = [writer EXCEPT ![c] =
              IF k \notin DOMAIN rows /\ Cardinality(DOMAIN rows) >= RowLimit
              THEN [w EXCEPT !.pc = "idle", !.rows = rows, !.generation = generation]
              ELSE [pc |-> "row", key |-> k, rows |-> Counted(rows, k),
                    generation |-> generation]]
       /\ Note(c, Table(c), k)
       /\ UNCHANGED << entries, store, nextHandle, held, owner, stale, steps >>

SetRow(c) ==
    LET w == writer[c]
        n == Table(c)
        h == Handle(c, n)
    IN /\ w.pc = "row"
       /\ writer' = [writer EXCEPT ![c].pc = "idle"]
       /\ IF ~Alive(c, n) THEN UNCHANGED << store, stale >>
          ELSE /\ store' = [store EXCEPT ![h] = StoredRow(@, w.key, w.rows[w.key])]
               /\ stale' = [stale EXCEPT ![c] =
                      IF w.generation # GenerationOf(store[h]) THEN @ \cup {w.key} ELSE @ \ {w.key}]
       /\ UNCHANGED << entries, nextHandle, held, owner, noted, steps >>

(***************************************************************************)
(* Tables whose rows their owner sets, removes and clears as it likes:     *)
(* one-hop neighbours, slots of a schedule.                                *)
(***************************************************************************)
RemovedRow(table, k) == [table EXCEPT !.rows = [x \in DOMAIN @ \ {k} |-> @[x]]]

Listed(c) == HasTable(c) /\ \A n \in NamesOf(BuildOf[c]) : ~IsKind(c, n, "counter")

Changing(c) == Step /\ held[c] # << >> /\ Listed(c) /\ Alive(c, Table(c))

InTable(c, value) == store' = [store EXCEPT ![Handle(c, Table(c))] = value]

PutRow(c, k) ==
    /\ Changing(c)
    /\ InTable(c, StoredRow(store[Handle(c, Table(c))], k, 1))
    /\ Note(c, Table(c), [key |-> k, there |-> TRUE])
    /\ UNCHANGED << entries, nextHandle, held, writer, owner, stale >>

RemoveRow(c, k) ==
    /\ Changing(c)
    /\ InTable(c, RemovedRow(store[Handle(c, Table(c))], k))
    /\ Note(c, Table(c), [key |-> k, there |-> FALSE])
    /\ UNCHANGED << entries, nextHandle, held, writer, owner, stale >>

ClearOwnTable(c) ==
    /\ Changing(c)
    /\ InTable(c, Cleared("table", store[Handle(c, Table(c))]))
    /\ noted' = [noted EXCEPT ![<<c, Table(c)>>] = << >>]
    /\ UNCHANGED << entries, nextHandle, held, writer, owner, stale >>

(***************************************************************************)
(* The control client.  A clear by names stops at the first name that is   *)
(* unknown or not clearable: the scalars before it are cleared by then, of *)
(* tables none is.  Without names everything clearable of the build is.    *)
(***************************************************************************)
ScalarNames(b) == {e[2] : e \in {x \in DOMAIN entries : x[1] = b /\ entries[x].kind \in Scalars}}
TableNames(b) == {e[2] : e \in {x \in DOMAIN entries : x[1] = b /\ entries[x].kind \notin Scalars}}

Refused(b, names, n) == n \notin names \/ ~entries[<<b, n>>].clearable

ScalarsCleared(b, list) ==
    LET names == ScalarNames(b)
        bad == {i \in DOMAIN list : Refused(b, names, list[i])}
        good == IF bad = {} THEN Len(list) ELSE Min(bad) - 1
    IN IF list = << >> THEN {n \in names : ~Refused(b, names, n)}
       ELSE {list[i] : i \in 1 .. good}

TablesCleared(b, list) ==
    LET names == TableNames(b) IN
    IF list = << >> THEN {n \in names : ~Refused(b, names, n)}
    ELSE IF \E i \in DOMAIN list : Refused(b, names, list[i]) THEN {}
    ELSE {list[i] : i \in DOMAIN list}

ClearNamed(b, names) ==
    LET handles == {entries[<<b, n>>].handle : n \in names}
        kind(h) == entries[CHOOSE e \in DOMAIN entries : entries[e].handle = h].kind
    IN /\ Step
       /\ b \in DOMAIN owner
       /\ store' = [h \in DOMAIN store |->
              IF h \in handles THEN Cleared(kind(h), store[h]) ELSE store[h]]
       /\ noted' = [s \in Slots |->
              IF s[1] = owner[b] /\ s[2] \in names THEN << >> ELSE noted[s]]
       /\ stale' = [c \in Clients |->
              IF c = owner[b] /\ HasTable(c) /\ Table(c) \in names THEN {} ELSE stale[c]]
       /\ UNCHANGED << entries, nextHandle, held, writer, owner >>

Clear(b, list) == ClearNamed(b, ScalarsCleared(b, list))
ClearTable(b, list) == ClearNamed(b, TablesCleared(b, list))

Next ==
    \/ \E c \in Clients : Register(c)
    \/ \E b \in Builds : UnregisterAll(b)
    \/ \E c \in Clients, x \in Samples : \E n \in NamesOf(BuildOf[c]) : Update(c, n, x)
    \/ \E c \in Clients, k \in Keys, x \in Samples, a \in Antennas, f \in Frequencies :
          \E n \in NamesOf(BuildOf[c]) : RfUpdate(c, n, k, a, f, x)
    \/ \E c \in Clients, flags \in Averaging :
          \E n \in NamesOf(BuildOf[c]) : RfConfigure(c, n, flags)
    \/ \E c \in Clients, k \in Keys : CountEvent(c, k)
    \/ \E c \in Clients : ReadGeneration(c) \/ SetRow(c) \/ ClearOwnTable(c)
    \/ \E c \in Clients, k \in Keys : PutRow(c, k) \/ RemoveRow(c, k)
    \/ \E b \in Builds, list \in ClearLists : Clear(b, list) \/ ClearTable(b, list)

Spec == Init /\ [][Next]_vars

--------------------------------------------------------------------------------
(***************************************************************************)
(* What a query reports.                                                   *)
(***************************************************************************)
StatisticValue(b, n) ==
    LET info == entries[<<b, n>>]
        value == store[info.handle]
    IN IF info.kind = "average" THEN (IF value.count = 0 THEN 0 ELSE value.sum \div value.count)
       ELSE value.sum

Query(b, list) ==
    LET names == ScalarNames(b) IN
    IF list = << >> THEN [n \in names |-> StatisticValue(b, n)]
    ELSE IF \E i \in DOMAIN list : list[i] \notin names THEN << >>
    ELSE [n \in {list[i] : i \in DOMAIN list} |-> StatisticValue(b, n)]

(* The receive table shows averages, and no antenna or frequency where it
   averages over them. *)
RfRow(key, row) ==
    [source |-> key[1],
     antenna |-> IF key[2] = AnyOf THEN << >> ELSE << key[2] >>,
     frequency |-> IF key[3] = AnyOf THEN << >> ELSE << key[3] >>,
     samples |-> row.samples,
     power |-> Mean(row.power, row.samples)]

RfRows(table) == {RfRow(k, table.rows[k]) : k \in DOMAIN table.rows}
TableRows(table) == table.rows

QueryTable(b, list) ==
    LET names == TableNames(b)
        table(n) == store[entries[<<b, n>>].handle]
        rows(n) == IF entries[<<b, n>>].kind = "rf" THEN RfRows(table(n)) ELSE TableRows(table(n))
    IN IF list = << >> THEN [n \in names |-> rows(n)]
       ELSE IF \E i \in DOMAIN list : list[i] \notin names THEN << >>
       ELSE [n \in {list[i] : i \in DOMAIN list} |-> rows(n)]

(* What the log of a statistic since its last clear amounts to. *)
Finite(log) == SelectSeq(log, LAMBDA x : x # NotFinite)
Total(log) == FoldSeq(+, 0, log)
Meaning(kind, log) ==
    CASE kind = "counter" -> Total(log)
      [] kind = "peak" -> FoldSeq(LAMBDA x, m : IF x > m THEN x ELSE m, 0, log)
      [] kind = "double" -> IF Finite(log) = << >> THEN 0 ELSE Finite(log)[Len(Finite(log))]
      [] kind = "average" ->
            IF Finite(log) = << >> THEN 0 ELSE Total(Finite(log)) \div Len(Finite(log))

Times(log, k) == Cardinality({i \in DOMAIN log : log[i] = k})

(* The count of the event the writer has under way, not yet in the table. *)
UnderWay(c, k) ==
    LET w == writer[c] IN
    IF /\ w.pc = "row" /\ w.key = k
       /\ w.generation = store[Handle(c, Table(c))].generation
    THEN 1 ELSE 0

RowsAgree(c, rows) ==
    LET log == noted[<<c, Table(c)>>]
        due(k) == Times(log, k) - UnderWay(c, k)
    IN /\ \A k \in DOMAIN rows \ stale[c] : rows[k] = due(k)
       /\ \A k \in Keys \ DOMAIN rows :
             due(k) > 0 => Cardinality(DOMAIN rows \cup {x \in Keys : UnderWay(c, x) = 1}) >= RowLimit
       /\ Cardinality(stale[c]) <= 1
       /\ Cardinality(DOMAIN rows) <= RowLimit + Cardinality(stale[c])

(* A row is there when the last thing its owner did with it was to set it. *)
ListAgrees(rows, log) ==
    LET mine(k) == {i \in DOMAIN log : log[i].key = k}
    IN  \A k \in Keys : k \in DOMAIN rows <=> mine(k) # {} /\ log[Max(mine(k))].there

RfAgrees(rows, log) ==
    \A s \in Keys :
       LET mine == {r \in rows : r.source = s}
           logged == SelectSeq(log, LAMBDA x : x[1] = s)
           power == FoldSeq(Plus, 0, [i \in DOMAIN logged |-> logged[i][2]])
       IN /\ MapThenSumSet(LAMBDA r : r.samples, mine) = Len(logged)
          /\ \A r \in mine : mine = {r} => r.power = Mean(power, Len(logged))
          /\ \A r, q \in mine : r # q => <<r.antenna, r.frequency>> # <<q.antenna, q.frequency>>

(* A query tells what the component noted since the statistic was last
   cleared: a scalar amounts to its log, whatever a component whose
   statistics were unregistered, or that found its names taken, still
   sends to its old handles; a table row counts its key's events, except
   that one row, the one being stored when the table was cleared, may
   still count from before; a row is missing, or one too many, only at the
   limit; of a table its owner keeps the rows are those it set and did not
   remove, whoever cleared the table in between; an RF reception is in exactly one row whatever the averaging
   settings were when it arrived, and the row of a source that has only one
   shows the average of all. *)
StatisticsTrue ==
    \A b \in DOMAIN owner :
       LET c == owner[b]
           scalars == Query(b, << >>)
           rows == QueryTable(b, << >>)
       IN /\ \A n \in DOMAIN scalars :
                scalars[n] = Meaning(entries[<<b, n>>].kind, noted[<<c, n>>])
          /\ \A n \in DOMAIN rows :
                IF entries[<<b, n>>].kind = "rf" THEN RfAgrees(rows[n], noted[<<c, n>>])
                ELSE IF Listed(c) THEN ListAgrees(rows[n], noted[<<c, n>>])
                ELSE RowsAgree(c, rows[n])

================================================================================
