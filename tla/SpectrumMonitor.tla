-------------------------- MODULE SpectrumMonitor --------------------------
(***************************************************************************)
(* The spectrum as the physical layer hears it: a recorder for each        *)
(* frequency of interest, to which every transmission adds the power that  *)
(* falls into the receiver's band around that frequency.  Which recorders  *)
(* a transmission reaches, and how much of it, is kept in two caches: by   *)
(* bandwidth for plain transmissions and by mask for those that have a     *)
(* spectral mask.  The physical layer then asks for the noise under every  *)
(* segment that is reported to it.                                         *)
(*                                                                         *)
(* Powers are densities: a transmission of density d puts d times the      *)
(* width of the overlap into a recorder.  A mask is a set of segments,     *)
(* each with an offset, a width and a weight.  A transmitter here is one   *)
(* antenna of one NEM.  Filters, which only the C interface sets up, are   *)
(* left out.                                                               *)
(***************************************************************************)
EXTENDS NoiseRecorder, TLC

CONSTANTS
    Masks,           \* mask -> its segments; mask 0 is the transmission's own bandwidth
    Modes,           \* the noise modes tried
    Clamp,           \* whether values over their maximum are reduced to it
    TimeSync,        \* time-sync threshold
    Sensitivity,
    Tunings,         \* pairs of frequencies of interest and receiver bandwidth
    Transmissions,   \* the receptions tried
    Ticks,           \* the times that pass between them
    MaxTransmissions, MaxTunings

VARIABLES
    now, mode, foi, bandwidth,
    recorders,            \* frequency of interest -> recorder
    bandCache, maskCache, \* bandwidth or mask, and frequency -> overlaps
    last,                 \* the last transmission and what its update answered
    stopped,              \* the program has panicked
    heard,                \* history: the receptions recorded since the last tuning
    stale,                \* history: lookups since then that a cache answered wrongly
    wiped,                \* history: recorders that have since then cleared bins of a reception
    received, tunings

vars == <<now, mode, foi, bandwidth, recorders, bandCache, maskCache, last, stopped, heard,
          stale, wiped, received, tunings>>

NoReport == [segments |-> <<>>, inBand |-> FALSE, span |-> 0, error |-> FALSE, start |-> 0]

Tuned(t) == [f \in t[1] |-> NewRecorder]

Init ==
    /\ mode \in Modes
    /\ now = WheelBins * BinSize
    /\ \E t \in Tunings : foi = t[1] /\ bandwidth = t[2] /\ recorders = Tuned(t)
    /\ bandCache = <<>> /\ maskCache = <<>>
    /\ last = NoReport
    /\ stopped = FALSE
    /\ heard = <<>>
    /\ stale = {} /\ wiped = {}
    /\ received = 0 /\ tunings = 0

-----------------------------------------------------------------------------
(***************************************************************************)
(* get_spectral_overlap: the weighted width of what a transmission on      *)
(* frequency tx puts into a receiver's band.                               *)
(***************************************************************************)
Width(rx, tx, width) ==
    LET low == Max({rx - bandwidth \div 2, tx - width \div 2})
        high == Min({rx + bandwidth \div 2, tx + width \div 2})
    IN  IF high > low THEN high - low ELSE 0

Overlap(rx, tx, width, mask) ==
    IF mask = 0 THEN Width(rx, tx, width)
    ELSE MapThenSumSet(LAMBDA g : g.weight * Width(rx, tx + g.offset, g.width), Masks[mask])

Overlaps(tx, width, mask) ==
    [f \in {h \in foi : Overlap(h, tx, width, mask) > 0} |-> Overlap(f, tx, width, mask)]

(* Slip: the overlaps of the old tuning stay in the cache. *)
InitializeKeepingBands(t) ==
    /\ tunings < MaxTunings
    /\ foi' = t[1] /\ bandwidth' = t[2]
    /\ recorders' = Tuned(t)
    /\ heard' = <<>> /\ stale' = {} /\ wiped' = {}
    /\ last' = NoReport
    /\ tunings' = tunings + 1
    /\ UNCHANGED <<now, mode, bandCache, maskCache, stopped, received>>

(* initialize: new recorders, and an empty cache of bandwidths.  The cache *)
(* of masks stays as it is.                                                *)
Initialize(t) ==
    /\ tunings < MaxTunings
    /\ foi' = t[1] /\ bandwidth' = t[2]
    /\ recorders' = Tuned(t)
    /\ bandCache' = <<>>
    /\ heard' = <<>> /\ stale' = {} /\ wiped' = {}
    /\ last' = NoReport
    /\ tunings' = tunings + 1
    /\ UNCHANGED <<now, mode, maskCache, stopped, received>>

-----------------------------------------------------------------------------
(***************************************************************************)
(* Times.  A transmission time too far from now is replaced by now; a      *)
(* negative offset, delay or duration is an error (-1 here), and so is one *)
(* over its maximum, unless it is reduced to it.                           *)
(***************************************************************************)
Sent(x) == IF x.ahead > TimeSync \/ -x.ahead > TimeSync THEN now ELSE now + x.ahead

Clamped(v, most) == IF v < 0 \/ (v > most /\ ~Clamp) THEN -1 ELSE Min({v, most})

Simple(x) == mode \in {"none", "passthrough"} \/ (mode = "outofband" /\ x.inBand)

(***************************************************************************)
(* One segment of an update.  The state s is the monitor's with what the   *)
(* update has found so far: the segments to report, whether any segment    *)
(* misses the frequencies of interest (simple modes) or meets them         *)
(* (recording modes), the earliest start and the latest end.               *)
(***************************************************************************)
WithReport(s, g, start, end, duration, power) ==
    [s EXCEPT !.segments = Append(@, [frequency |-> g.frequency, power |-> power,
                                      offset |-> Clamped(g.offset, MaxOffset),
                                      duration |-> duration]),
              !.from = Min({@, start}), !.to = Max({@, end})]

SimpleSegment(s, x, g, start, duration) ==
    LET power == x.density * Overlap(g.frequency, g.frequency + x.shift, x.width, x.mask)
    IN  IF mode # "passthrough" /\ g.frequency \notin foi THEN [s EXCEPT !.misses = TRUE]
        ELSE IF power >= Sensitivity THEN WithReport(s, g, start, start + duration, duration, power)
        ELSE s

Key(x, g) == <<IF x.mask = 0 THEN x.width ELSE x.mask, g.frequency + x.shift>>

(* The overlaps from the cache, or computed; the cache then has them.  A   *)
(* transmission that reaches nothing is cached as such too.                *)
Looked(s, x, g) ==
    LET cache == IF x.mask = 0 THEN s.bandCache ELSE s.maskCache
    IN  IF Key(x, g) \in DOMAIN cache THEN cache[Key(x, g)]
        ELSE Overlaps(g.frequency + x.shift, x.width, x.mask)

(* The sum is kept from one recorder to the next, in order of frequency: a *)
(* recorder is given what falls into its own band and into those below.    *)
PowerAt(records, f, density) ==
    MapThenSumSet(LAMBDA h : density * records[h], {h \in DOMAIN records : h <= f})

(* The monitor after a segment is recorded with these overlaps; direct is  *)
(* what they would be without the cache.                                   *)
AfterRecording(s, x, g, start, end, records, direct, loud) ==
    LET found == Key(x, g) :> records
        there == loud \cap foi
    IN  [s EXCEPT
           !.recorders = [f \in DOMAIN @ |->
              IF f \in loud
              THEN Received(@[f], start, end, PowerAt(records, f, x.density), x.sources)
              ELSE @[f]],
           !.overrun = @ \/ \E f \in there : Overrun(s.recorders[f], start, end, x.sources),
           !.wiped = @ \cup {f \in there : Wiped(s.recorders[f], start, end, x.sources)},
           !.bandCache = IF x.mask = 0 THEN found @@ @ ELSE @,
           !.maskCache = IF x.mask = 0 THEN @ ELSE found @@ @,
           !.meets = @ \/ g.frequency \in DOMAIN records,
           !.stale = IF records # direct THEN @ \cup {<<x.mask>> \o Key(x, g)} ELSE @,
           !.heard = Append(@, [sources |-> x.sources, start |-> start, end |-> end,
                                power |-> [f \in DOMAIN direct |-> x.density * direct[f]]])]

(* The bounds of the packet come from the last loud recorder that is still *)
(* there, and are 0 when none is; the segment keeps its own duration.      *)
Reported(after, g, start, duration, records, loud, density) ==
    LET total == PowerAt(records, Max(DOMAIN records \cup {0}), density)
        there == loud \cap foi # {}
    IN  IF g.frequency \notin DOMAIN records \/ loud = {} THEN after
        ELSE IF there THEN WithReport(after, g, start, start + duration, duration, total)
        ELSE WithReport(after, g, 0, 0, duration, total)

RecordingWith(s, x, g, start, duration, records) ==
    LET loud == {f \in DOMAIN records : PowerAt(records, f, x.density) >= Sensitivity}
    IN  Reported(AfterRecording(s, x, g, start, start + duration, records,
                                Overlaps(g.frequency + x.shift, x.width, x.mask), loud),
                 g, start, duration, records, loud, x.density)

RecordingSegment(s, x, g, start, duration) ==
    RecordingWith(s, x, g, start, duration, Looked(s, x, g))

Segment(s, x, g) ==
    LET offset == Clamped(g.offset, MaxOffset)
        duration == Clamped(g.duration, MaxDuration)
        start == Sent(x) + offset + Clamped(x.propagation, MaxPropagation)
    IN  IF s.error \/ s.overrun THEN s
        ELSE IF offset < 0 \/ duration < 0 THEN [s EXCEPT !.error = TRUE]
        ELSE IF Simple(x) THEN SimpleSegment(s, x, g, start, duration)
        ELSE RecordingSegment(s, x, g, start, duration)

Fresh(x) ==
    [recorders |-> recorders, bandCache |-> bandCache, maskCache |-> maskCache, segments |-> <<>>,
     meets |-> FALSE, misses |-> FALSE, from |-> 2 * now, to |-> 0,
     error |-> Clamped(x.propagation, MaxPropagation) < 0, overrun |-> FALSE, heard |-> heard,
     stale |-> stale, wiped |-> wiped]

Updated(x) ==
    LET upTo[n \in 0..Len(x.segments)] ==
          IF n = 0 THEN Fresh(x) ELSE Segment(upTo[n - 1], x, x.segments[n])
    IN  upTo[Len(x.segments)]

-----------------------------------------------------------------------------
(***************************************************************************)
(* The noise under the first segment reported of a packet in band, asked   *)
(* for as of the end of the reception if that is still to come.  There is  *)
(* no answer when the question is longer than the maximum and that is not  *)
(* clamped, or when its window reaches further back than the recorder      *)
(* answers for: the program stops.                                         *)
(***************************************************************************)
StartOf(r, g) == r.start + g.offset

Asked(r, g) == Max({r.span, g.duration, 1})

AskedAt(r, g) == Max({now, StartOf(r, g) + Asked(r, g)})

Unanswered(r, g) ==
    \/ Asked(r, g) > MaxDuration /\ ~Clamp
    \/ /\ g.frequency \in foi
       /\ ~Answers(AskedAt(r, g), Min({Asked(r, g), MaxDuration}), StartOf(r, g))

Answer(x, s) ==
    IF s.error THEN [NoReport EXCEPT !.error = TRUE]
    ELSE [segments |-> s.segments,
          inBand |-> IF Simple(x) THEN ~s.misses ELSE x.inBand /\ s.meets,
          span |-> IF s.to < s.from THEN 0 ELSE s.to - s.from, error |-> FALSE,
          start |-> Sent(x) + Clamped(x.propagation, MaxPropagation)]

(* An update that fails at a segment answers nothing, but what it has      *)
(* recorded of the segments before it stays.                               *)
Concluded(x, s, r) ==
    /\ received' = received + 1
    /\ recorders' = s.recorders
    /\ bandCache' = s.bandCache /\ maskCache' = s.maskCache
    /\ heard' = s.heard /\ stale' = s.stale /\ wiped' = s.wiped
    /\ last' = r @@ [x |-> x, at |-> now]
    /\ stopped' = (s.overrun \/ (r.segments # <<>> /\ r.inBand /\ Unanswered(r, r.segments[1])))
    /\ UNCHANGED <<now, mode, foi, bandwidth, tunings>>

AnswerAndConclude(x, s) == Concluded(x, s, Answer(x, s))

Update(x) == received < MaxTransmissions /\ AnswerAndConclude(x, Updated(x))

Tick(t) ==
    /\ received < MaxTransmissions
    /\ last # NoReport
    /\ now' = now + t
    /\ last' = NoReport
    /\ UNCHANGED <<mode, foi, bandwidth, recorders, bandCache, maskCache, stopped, heard, stale,
                   wiped, received, tunings>>

Next ==
    /\ ~stopped
    /\ \/ \E t \in Tunings : Initialize(t)
       \/ \E x \in Transmissions : Update(x)
       \/ \E t \in Ticks : Tick(t)

Spec == Init /\ [][Next]_vars

-----------------------------------------------------------------------------
(***************************************************************************)
(* What should be heard: in each bin the power, within a receiver's own    *)
(* band, of every reception there that is loud enough to be heard on its   *)
(* own, but no transmitter twice.                                          *)
(***************************************************************************)
Covers(e, b) == BinOf(e.start) <= b /\ b <= LastBinOf(e.end)

(* What reception n puts into the bands of these frequencies together. *)
Into(n, fs) == MapThenSumSet(LAMBDA h : heard[n].power[h], fs \cap DOMAIN heard[n].power)

Reaching(f) == {n \in DOMAIN heard : f \in DOMAIN heard[n].power}

UpTo(f) == {h \in foi : h <= f}

(* No reception has reached f together with a lower frequency. *)
Apart(f) == \A n \in Reaching(f) : DOMAIN heard[n].power \cap UpTo(f) = {f}

LoudAt(f, fs) == {n \in Reaching(f) : Into(n, fs) >= Sensitivity}

Repeats(m, n) == m < n /\ heard[m].sources \cap heard[n].sources # {}

(* Receptions of one transmitter in order of their ends. *)
InOrder(f, fs) ==
    \A m, n \in LoudAt(f, fs) : Repeats(m, n) => heard[m].end <= heard[n].end

Expected(f, fs, b) ==
    MapThenSumSet(LAMBDA n : Into(n, fs),
                  {n \in LoudAt(f, fs) :
                     /\ Covers(heard[n], b)
                     /\ \A m \in LoudAt(f, fs) : Repeats(m, n) => b > LastBinOf(heard[m].end)})

Times == (now - MaxDuration - BinSize)..now

(* In every window that the recorder of f answers for, each bin compares   *)
(* so with the power received there in the bands of fs.                    *)
Compares(f, fs, Rel(_, _)) ==
    LET expected == [b \in BinOf(now - MaxDuration - BinSize)..BinOf(now) |-> Expected(f, fs, b)]
    IN  \A t \in Times, d \in {1, MaxDuration} :
          Answers(now, d, t) =>
            LET w == Window(recorders[f], now, d, t)
            IN  /\ Len(w) = LastBinOf(t + d) - BinOf(t) + 1
                /\ \A k \in DOMAIN w : Rel(w[k], expected[BinOf(t) + k - 1])

(* Nothing else, unless a transmitter's receptions came out of order, when *)
(* a bin may count one twice; and all of it, unless the recorder has       *)
(* cleared bins of a reception, when a bin may lack it.                    *)
Accounts(f, fs) ==
    /\ InOrder(f, fs) => Compares(f, fs, <=)
    /\ f \notin wiped => Compares(f, fs, >=)

(* A window that is answered has in every bin the power that was received  *)
(* there in the receiver's own band, after any order of receptions, wheel  *)
(* turns and re-tunings, as long as no cached overlap is of an older       *)
(* tuning and no reception reached a lower frequency of interest as well.  *)
WindowsTrue == stale = {} => \A f \in foi : Apart(f) => Accounts(f, {f})

(* When one did, the recorder has too much, but no more than this: the     *)
(* power that fell into the lower bands too.                               *)
TooMuchIsFromBelow == stale = {} => \A f \in foi : ~Apart(f) => Accounts(f, UpTo(f))

(* A cache answers for the present tuning, but for the masks heard before  *)
(* it changed.                                                             *)
OnlyMasksAreStale == \A l \in stale : l[1] # 0 /\ tunings > 0

(* The physical layer's own question goes unanswered only for a packet     *)
(* whose segments together are longer than a window, or whose reception,   *)
(* counted in bins up to the time asked for, is.                           *)
StopsOnlyForLongPackets ==
    stopped =>
      LET g == last.segments[1]
          d == Asked(last, g)
          start == StartOf(last, g)
      IN  /\ last.segments # <<>>
          /\ \/ d > MaxDuration
             \/ LastBinOf(AskedAt(last, g)) - BinOf(start) + 1 > WindowBins

(* The recorders agree with a direct account of the receptions, as far as  *)
(* the running sum over the frequencies of interest lets them, the caches  *)
(* with the tuning, and only packets too long for a window stop the        *)
(* program.                                                                *)
SpectrumTrue ==
    /\ ~stopped => WindowsTrue /\ TooMuchIsFromBelow
    /\ OnlyMasksAreStale
    /\ StopsOnlyForLongPackets
=============================================================================
