--------------------------- MODULE NoiseRecorder ---------------------------
(***************************************************************************)
(* The noise of one frequency: a wheel of bins, each with the power        *)
(* received in it, the range of bins recorded since the wheel was last     *)
(* taken to be empty, and for each transmitter the bin its last reception  *)
(* ended in.  A recorder is a record; the operators give the recorder      *)
(* after a reception, and the window it answers with.  The recorder of a   *)
(* filter, which divides its band, is not modelled.                        *)
(***************************************************************************)
EXTENDS Integers, Sequences, FiniteSetsExt

CONSTANTS BinSize, MaxOffset, MaxPropagation, MaxDuration, Transmitters

WindowBins == MaxDuration \div BinSize
WheelBins == (MaxOffset + MaxPropagation + 2 * MaxDuration) \div BinSize

NewRecorder ==
    [wheel |-> [i \in 0..(WheelBins - 1) |-> 0], first |-> 0, last |-> 0,
     ended |-> [t \in Transmitters |-> 0]]

(* The bin a time is in, and the bin an interval ending then ends in. *)
BinOf(t) == t \div BinSize

LastBinOf(t) ==
    IF t = 0 THEN 0 ELSE t \div BinSize - (IF t % BinSize = 0 THEN 1 ELSE 0)

-----------------------------------------------------------------------------
(***************************************************************************)
(* Bins from and on, n of them, set to a power, or raised by it.           *)
(***************************************************************************)
Slots(from, n) == {(from + k) % WheelBins : k \in 0..(n - 1)}

SetBins(wheel, from, n, power) ==
    [i \in DOMAIN wheel |-> IF i \in Slots(from, n) THEN power ELSE wheel[i]]

AddBins(wheel, from, n, power) ==
    [i \in DOMAIN wheel |-> IF i \in Slots(from, n) THEN wheel[i] + power ELSE wheel[i]]

(***************************************************************************)
(* A reception that starts a wheel's length after the last one finds the   *)
(* wheel empty.  Otherwise its bins before and after the recorded range    *)
(* are set, those within it are added to, and a gap between it and the     *)
(* range is cleared.                                                       *)
(***************************************************************************)
Emptied(r, from) == IF r.last + WheelBins <= from THEN [r EXCEPT !.first = 0, !.last = 0] ELSE r

Placed(r, from, to, power) ==
    LET n == to - from + 1
        before == IF from >= r.first THEN 0 ELSE IF to < r.first THEN n ELSE r.first - from
        after == IF to <= r.last THEN 0 ELSE IF from > r.last THEN n ELSE to - r.last
        within == n - before - after
        placed == SetBins(SetBins(r.wheel, from, before, power), to + 1 - after, after, power)
        wheel ==
          IF within > 0 THEN AddBins(placed, from + before, within, power)
          ELSE SetBins(SetBins(placed, from + before,
                               IF before > 0 THEN r.first - (from + before) ELSE 0, 0),
                       r.last + 1, IF after > 0 THEN from - r.last - 1 ELSE 0, 0)
    IN  [r EXCEPT !.wheel = wheel,
                  !.first = IF before > 0 THEN from ELSE @,
                  !.last = IF after > 0 THEN to ELSE @]

Recorded(r, from, to, power) ==
    LET e == Emptied(r, from)
    IN  IF e.last = 0 /\ e.first = 0
        THEN [e EXCEPT !.wheel = SetBins(@, from, to - from + 1, power), !.first = from,
                       !.last = to]
        ELSE Placed(e, from, to, power)

(* A transmitter that is still being received is not added to itself. *)
FirstOf(r, start, sources) ==
    LET ended == Max({r.ended[t] : t \in sources} \cup {0})
    IN  IF BinOf(start) <= ended THEN ended + 1 ELSE BinOf(start)

Received(r, start, end, power, sources) ==
    LET from == FirstOf(r, start, sources)
        to == LastBinOf(end)
        kept == IF to >= from THEN Recorded(r, from, to, power) ELSE r
    IN  [kept EXCEPT !.ended = [t \in Transmitters |-> IF t \in sources THEN to ELSE @[t]]]

(* Setting or adding to more bins than there are stops the program. *)
Overrun(r, start, end, sources) ==
    LET from == FirstOf(r, start, sources)
        to == LastBinOf(end)
        e == Emptied(r, from)
    IN  /\ to >= from
        /\ \/ to - from + 1 > WheelBins
           \/ /\ e.first # 0
              /\ e.first - to - 1 > WheelBins \/ from - e.last - 1 > WheelBins

(* The gap before a reception is cleared after its own bins are set: of a  *)
(* reception that ends more than a wheel after the last one, but starts    *)
(* within it, the last bins are cleared with the gap.                      *)
Wiped(r, start, end, sources) ==
    LET from == FirstOf(r, start, sources)
        to == LastBinOf(end)
        e == Emptied(r, from)
    IN  to >= from /\ e.first # 0 /\ from > e.last /\ to - e.last > WheelBins

-----------------------------------------------------------------------------
(***************************************************************************)
(* The bins from start for a duration, asked for at a time now: nothing if *)
(* they are not over, or too long ago.                                     *)
(***************************************************************************)
EarliestStart(now) == (LastBinOf(now) - WindowBins + 1) * BinSize

Answers(now, duration, start) ==
    /\ start >= EarliestStart(now) /\ start <= now
    /\ start + duration <= now
    /\ BinOf(start) * BinSize >= EarliestStart(now)

(* What the wheel holds for bins from..to, which are in the range. *)
Held(r, from, to) == [k \in 1..(to - from + 1) |-> r.wheel[(from + k - 1) % WheelBins]]

Zeros(n) == [k \in 1..n |-> 0]

Window(r, now, duration, start) ==
    LET from == BinOf(start)
        to == LastBinOf(start + duration)
        n == to - from + 1
        after == IF to > r.last THEN Min({to - r.last, n}) ELSE 0
        before == IF from < r.first THEN Min({r.first - from, n}) ELSE 0
    IN  IF r.first = 0 \/ r.last = 0 THEN Zeros(n)
        ELSE Zeros(before) \o Held(r, from + before, to - after) \o Zeros(after)
============================================================================
