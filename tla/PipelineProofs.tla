--------------------------- MODULE PipelineProofs ---------------------------
(***************************************************************************)
(* Theorems about the censor: the capture streams, the detectors and tile    *)
(* caches, the boxes, the exposure budget and the overlay's windows, for any *)
(* monitors, tiles, places, models, styles, limits and windows; and about     *)
(* MCAgent, which composes them with the threads of MonitorProofs.           *)
(*                                                                          *)
(* The detectors, the claims of detections on boxes and the sums of the      *)
(* budget are folds, and so their lemmas are about walks along a sequence:   *)
(* see FoldTheorems.                                                        *)
(***************************************************************************)
EXTENDS MCAgent, MonitorProofs, FoldTheorems, FiniteSetTheorems, TLAPS

-----------------------------------------------------------------------------
(* The capture streams *)

CaptureInv == CaptureTypeOK /\ BlindAfterSleepIsTold

\* Streams that were built are live, or see what was before a sleep that goes on; if
\* they cannot be built, that is told.
LEMMA RebuiltOrTold ==
  ASSUME CaptureTypeOK, Rebuild
  PROVE  /\ streams' \in {"live", "dead", "old", "none"}
         /\ {hush', probe', captureOk', exchanged'} \subseteq BOOLEAN
         /\ streams' = "old" => dozing \/ ~captureOk'
  BY DEF Rebuild, CaptureTypeOK

LEMMA CaptureAtFirst == CaptureInit => CaptureInv
  BY DEF CaptureInit, CaptureInv, CaptureTypeOK, BlindAfterSleepIsTold

LEMMA CaptureStays == CaptureInv /\ [CaptureNext]_captureVars => CaptureInv'
<1> SUFFICES ASSUME CaptureInv, [CaptureNext]_captureVars PROVE CaptureInv'
  OBVIOUS
<1> USE DEF CaptureInv, CaptureTypeOK, BlindAfterSleepIsTold
<1>1. CASE UNCHANGED captureVars
  BY <1>1 DEF captureVars, around, clocks, silence, flags
<1>2. CASE ChangeWanted
  BY <1>2 DEF ChangeWanted, clocks, silence, flags
<1>8. CASE Surroundings
  <2>1. focused' \in BOOLEAN /\ moving' \in BOOLEAN /\ able' \in BOOLEAN
    BY <1>8 DEF Surroundings
  <2>2. UNCHANGED <<wanted, dozing, streams, step, wasEnabled, isExcluded, wasExcluded,
                    wereAsleep, sampleDue, probeDue, hush, probe, exchange, captureOk, exchanged>>
    BY <1>8 DEF Surroundings, clocks, silence, flags
  <2> QED
    BY <2>1, <2>2
<1>9. CASE NewModel
  BY <1>9 DEF NewModel, around, clocks, silence, flags
<1>10. CASE Second
  BY <1>10 DEF Second, around, silence, flags
<1>11. CASE HalfMinute
  BY <1>11 DEF HalfMinute, around, flags
<1>3. CASE DisplaySleeps \/ DisplayWakes \/ StreamDies
  BY <1>3 DEF DisplaySleeps, DisplayWakes, StreamDies, around, clocks, silence, flags
<1>4. CASE Top
  <2>1. /\ step' \in {"top", "exclude"} /\ wasEnabled' \in BOOLEAN
        /\ UNCHANGED <<around, isExcluded, wasExcluded, wereAsleep, clocks, exchange>>
        /\ Rebuild \/ Keep \/ StopStreams
    BY <1>4 DEF Top
  <2>2. CASE Rebuild
    BY <2>1, <2>2, RebuiltOrTold DEF around, clocks
  <2>3. CASE Keep
    BY <2>1, <2>3 DEF Keep, around, clocks, silence
  <2>4. CASE StopStreams
    BY <2>1, <2>4 DEF StopStreams, around, clocks, silence
  <2> QED
    BY <2>1, <2>2, <2>3, <2>4
<1>5. CASE Exclude
  <2>1. /\ step' \in {"top", "wake"} /\ isExcluded' \in BOOLEAN /\ wasExcluded' \in BOOLEAN
        /\ sampleDue' = FALSE
        /\ UNCHANGED <<around, wasEnabled, wereAsleep, probeDue, exchange>>
        /\ Rebuild \/ Keep \/ StopStreams
    BY <1>5 DEF Exclude, StillPaused
  <2>2. CASE Rebuild
    BY <2>1, <2>2, RebuiltOrTold, ZenonT(40) DEF around
  <2>3. CASE Keep
    BY <2>1, <2>3, ZenonT(40) DEF Keep, around, silence
  <2>4. CASE StopStreams
    BY <2>1, <2>4, ZenonT(40) DEF StopStreams, around, silence
  <2> QED
    BY <2>1, <2>2, <2>3, <2>4
<1>6. CASE Wake
  <2> DEFINE asleep == dozing /\ streams # "none"
             woke   == wereAsleep /\ ~asleep
  <2>1. /\ step' = "frames" /\ wereAsleep' = asleep /\ exchange' \in BOOLEAN
        /\ UNCHANGED <<around, wasEnabled, isExcluded, wasExcluded, clocks>>
        /\ \/ woke /\ Rebuild
           \/ ~woke /\ Keep
           \/ ~woke /\ captureOk' = TRUE /\ exchanged' = TRUE /\ UNCHANGED <<streams, silence>>
    BY <1>6 DEF Wake
  <2>2. CASE woke /\ Rebuild
    BY <2>1, <2>2, RebuiltOrTold DEF around, clocks
  <2>3. CASE ~woke /\ Keep
    BY <2>1, <2>3 DEF Keep, around, clocks, silence
  <2>4. CASE captureOk' = TRUE /\ exchanged' = TRUE /\ UNCHANGED <<streams, silence>>
    BY <2>1, <2>4 DEF around, clocks, silence
  <2> QED
    BY <2>1, <2>2, <2>3, <2>4
<1>7. CASE Frames
  <2>1. /\ step' = "top" /\ probeDue' \in BOOLEAN
        /\ UNCHANGED <<around, flags, sampleDue, exchange>>
        /\ \/ Rebuild
           \/ /\ hush' \in BOOLEAN /\ probe' \in BOOLEAN
              /\ UNCHANGED <<streams, captureOk, exchanged>>
    BY <1>7 DEF Frames, Remembered, Delivers
  <2> QED
    BY <2>1, RebuiltOrTold DEF around, flags
<1> QED
  BY <1>1, <1>2, <1>3, <1>4, <1>5, <1>6, <1>7, <1>8, <1>9, <1>10, <1>11 DEF CaptureNext, Loop

\* A censor that sees the screen as it was before a sleep says so in its health,
\* however pauses, failed restarts and dead streams preceded.  (Health::capture_ok)
THEOREM BlindAfterSleepIsToldAlways == CaptureSpec => []BlindAfterSleepIsTold
<1>1. CaptureInv => BlindAfterSleepIsTold
  BY DEF CaptureInv
<1> QED
  BY <1>1, CaptureAtFirst, CaptureStays, PTL DEF CaptureSpec

\* The loop, its flags and the streams have the values that the code's types and the
\* order of its steps allow.  (pipeline.rs run)
THEOREM CaptureIsTyped == CaptureSpec => []CaptureTypeOK
<1>1. CaptureInv => CaptureTypeOK
  BY DEF CaptureInv
<1> QED
  BY <1>1, CaptureAtFirst, CaptureStays, PTL DEF CaptureSpec

-----------------------------------------------------------------------------
(* The detectors *)

Teams == {team \in Seq(BOOLEAN) : Len(team) \in 1..Cardinality(Monitor)}

Verdicts == [failures: 0..3, detectors: Teams]

LEMMA MonitorsCount ==
  /\ Cardinality(Monitor) \in Nat /\ Cardinality(Monitor) >= 1
  /\ <<FALSE>> \in Teams
<1>1. Cardinality(Monitor) \in Nat /\ Cardinality(Monitor) # 0
  BY ScanningAssumption, FS_CardinalityType, FS_EmptySet
<1>2. Cardinality(Monitor) >= 1
  BY <1>1
<1>3. <<FALSE>> \in Seq(BOOLEAN) /\ Len(<<FALSE>>) = 1
  OBVIOUS
<1> QED
  BY <1>1, <1>2, <1>3 DEF Teams

LEMMA JudgeType ==
  ASSUME NEW acc \in Verdicts, NEW fails, NEW builds \in BOOLEAN
  PROVE  Judge(acc, fails, builds) \in Verdicts
<1>1. acc.failures \in 0..3 /\ acc.detectors \in Teams
  BY DEF Verdicts
<1>2. CASE ~fails
  BY <1>1, <1>2 DEF Judge, Verdicts
<1>3. CASE fails /\ acc.failures >= 2 /\ builds
  BY <1>3, MonitorsCount DEF Judge, Verdicts
<1>4. CASE fails /\ ~(acc.failures >= 2 /\ builds)
  <2>1. (IF acc.failures < 3 THEN acc.failures + 1 ELSE 3) \in 0..3
    BY <1>1
  <2>2. Judge(acc, fails, builds) =
          [acc EXCEPT !.failures = IF acc.failures < 3 THEN acc.failures + 1 ELSE 3]
    BY <1>4 DEF Judge
  <2> QED
    BY <1>1, <2>1, <2>2 DEF Verdicts
<1> QED
  BY <1>2, <1>3, <1>4

LEMMA VerdictType ==
  ASSUME NEW acc \in Verdicts, NEW n \in Nat, NEW fails, NEW builds \in BOOLEAN
  PROVE  Judged(acc, n, fails, builds) \in Verdicts
<1> DEFINE s == [i \in 1..n |-> i]
           verdict == Judged(acc, n, fails, builds)
           Is(iter) == iter = [t \in SUBSET (DOMAIN s) |->
             IF t = {} THEN acc ELSE Judge(iter[t \ {Max(t)}], fails[s[Max(t)]], builds)]
           judge == [p \in Verdicts \X (1..n) |-> Judge(p[1], fails[s[p[2]]], builds)]
<1>1. verdict = (CHOOSE iter : Is(iter))[DOMAIN s]
  BY DEF Judged, FoldLeft, MapThenFoldSet
<1>2. DOMAIN s = 1..n
  OBVIOUS
<1> HIDE DEF s
<1>3. judge \in [Verdicts \X (1..n) -> Verdicts]
  BY JudgeType
<1>4. \A a \in Verdicts, i \in 1..n : judge[<<a, i>>] = Judge(a, fails[s[i]], builds)
  OBVIOUS
<1> HIDE DEF judge
<1>5. \E iter : Is(iter)
  <2>1. PICK iter : Folds(iter, n, Verdicts, acc, judge)
    BY <1>3, FoldOf
  <2>2. ASSUME NEW t \in SUBSET (1..n)
        PROVE  iter[t] = IF t = {} THEN acc
                         ELSE Judge(iter[t \ {Max(t)}], fails[s[Max(t)]], builds)
    <3>1. CASE t = {}
      BY <2>1, <3>1 DEF Folds
    <3>2. CASE t # {}
      <4>1. Max(t) \in t /\ iter[t] = judge[<<iter[t \ {Max(t)}], Max(t)>>]
        BY <2>1, <3>2 DEF Folds
      <4>2. t \ {Max(t)} \in SUBSET (1..n) /\ Max(t) \in 1..n
        BY <4>1
      <4>3. iter[t \ {Max(t)}] \in Verdicts
        BY <2>1, <4>2 DEF Folds
      <4> QED
        BY <1>4, <3>2, <4>1, <4>2, <4>3
    <3> QED
      BY <3>1, <3>2
  <2>3. Is(iter)
    BY <1>2, <2>1, <2>2 DEF Folds
  <2> QED
    BY <2>3
<1> DEFINE it == CHOOSE iter : Is(iter)
<1>6. Is(it)
  BY <1>5, Zenon
<1> HIDE DEF it
<1>7. Solves(it, n, Verdicts, acc, judge)
  <2>1. \A t \in SUBSET (1..n) :
          it[t] = IF t = {} THEN acc ELSE Judge(it[t \ {Max(t)}], fails[s[Max(t)]], builds)
    BY <1>2, <1>6
  <2> QED
    BY <1>4, <2>1 DEF Solves
<1>8. WalksTo(it[1..n], n, Verdicts, acc, judge)
  BY <1>3, <1>7, FoldWalk
<1>9. it[1..n] \in Verdicts
  BY <1>8 DEF WalksTo
<1> HIDE DEF verdict
<1>10. verdict \in Verdicts
  BY <1>1, <1>2, <1>9 DEF it
<1> QED
  BY <1>10 DEF verdict

LEMMA GrownType ==
  ASSUME NEW team \in Teams, NEW n \in 1..Cardinality(Monitor), NEW builds \in BOOLEAN
  PROVE  Grown(team, n, builds) \in Teams
<1>1. team \in Seq(BOOLEAN) /\ Len(team) \in 1..Cardinality(Monitor) /\ n \in Nat
  BY MonitorsCount DEF Teams
<1>2. CASE Len(team) < n /\ builds
  <2> DEFINE m == n - Len(team)
             more == [i \in 1..m |-> FALSE]
  <2>1. m \in Nat
    BY <1>1, <1>2
  <2>2. more \in [1..m -> BOOLEAN]
    OBVIOUS
  <2>3. more \in Seq(BOOLEAN) /\ Len(more) = m
    BY <2>1, <2>2, FunctionIsSeq
  <2> HIDE DEF more
  <2>4. team \o more \in Seq(BOOLEAN) /\ Len(team \o more) = n
    BY <1>1, <2>1, <2>3
  <2>5. Grown(team, n, builds) = team \o more
    BY <1>2 DEF Grown, more
  <2> QED
    BY <2>4, <2>5 DEF Teams
<1>3. CASE ~(Len(team) < n /\ builds)
  BY <1>3 DEF Grown
<1> QED
  BY <1>2, <1>3

-----------------------------------------------------------------------------
(* The tile caches *)

Caches ==
  [key: Key \union {NoKey}, hashes: [Tile -> Content \union {Unscanned}],
   found: [Tile -> {Nothing} \union ((Key \union {NoKey}) \X (Content \union {Unscanned}))]]

ScanInv ==
  /\ key \in Key /\ {modelSet, loaded} \subseteq Model
  /\ detectors \in Teams /\ failures \in 0..3
  /\ cache \in [Monitor -> Caches] /\ spoiled \in [Monitor -> SUBSET Tile]
  /\ ReplaysAreTrueOrSpoiled

LEMMA EmptiedType ==
  ASSUME NEW k \in Key \union {NoKey}
  PROVE  Emptied(k) \in Caches /\ \A i \in Tile : Emptied(k).hashes[i] = Unscanned
  BY DEF Emptied, Caches

\* The tiles spoiled by a scan, if those in left were before; a cache that replays
\* what was found in its pixels, but for some tiles; and one that has no others.
Bad(c, frame, fails, left) ==
  LET kept == IF OfKey(c) = c THEN left ELSE {}
  IN IF fails THEN kept \union Changed(OfKey(c), frame) ELSE kept \ Changed(OfKey(c), frame)

TrueBut(bad, c) ==
  \A i \in Tile : c.hashes[i] # Unscanned /\ i \notin bad =>
    c.found[i] = <<c.key, c.hashes[i]>>

ReplaysBut(bad, c) == \A i \in Tile : i \notin bad => c.found[i] = <<c.key, c.hashes[i]>>

\* A scan leaves in the cache what is found in the frame, but for tiles that are
\* scanned in vain, or are not scanned and were.
LEMMA ScannedReplays ==
  ASSUME key \in Key, NEW c \in Caches, NEW frame \in [Tile -> Content], NEW fails \in BOOLEAN,
         NEW left \in SUBSET Tile,
         TrueBut(left, c)
  PROVE  /\ Scanned(c, frame, fails) \in Caches
         /\ ReplaysBut(Bad(c, frame, fails, left), Scanned(c, frame, fails))
<1> DEFINE d   == OfKey(c)
           new == Scanned(c, frame, fails)
           bad == Bad(c, frame, fails, left)
           found == [i \in Tile |-> IF i \in Changed(d, frame) /\ ~fails
                                    THEN <<key, frame[i]>> ELSE d.found[i]]
<1>1. /\ d \in Caches /\ d.key = key
      /\ d = c \/ \A i \in Tile : d.hashes[i] = Unscanned
  BY EmptiedType DEF OfKey, Emptied
<1>2. \A i \in Tile : i \notin Changed(d, frame) =>
        d = c /\ d.hashes[i] = frame[i] /\ frame[i] # Unscanned
  <2> HIDE DEF d
  <2>1. \A i \in Tile : frame[i] # Unscanned
    BY ScanningAssumption
  <2> QED
    BY <1>1, <2>1 DEF Changed
<1> HIDE DEF d
<1>3. /\ d.hashes \in [Tile -> Content \union {Unscanned}]
      /\ d.found \in [Tile -> {Nothing} \union ((Key \union {NoKey}) \X (Content \union {Unscanned}))]
  BY <1>1 DEF Caches
<1>4. found \in [Tile -> {Nothing} \union ((Key \union {NoKey}) \X (Content \union {Unscanned}))]
  BY <1>3
<1>5. \A i \in Tile : i \notin bad => found[i] = <<key, frame[i]>>
  BY <1>1, <1>2 DEF Bad, TrueBut, d
<1> HIDE DEF found
<1>6. new = [d EXCEPT !.hashes = frame, !.found = found]
  BY DEF Scanned, d, found
<1>7. new.key = key /\ new.hashes = frame /\ new.found = found /\ new \in Caches
  BY <1>1, <1>4, <1>6, ZenonT(40) DEF Caches
<1> QED
  BY <1>5, <1>7 DEF ReplaysBut

LEMMA ScanAtFirst == ScanInit => ScanInv
<1> SUFFICES ASSUME ScanInit PROVE ScanInv
  OBVIOUS
<1>1. NoCache \in Caches /\ \A i \in Tile : NoCache.hashes[i] = Unscanned
  BY EmptiedType DEF NoCache
<1> QED
  BY <1>1, MonitorsCount DEF ScanInit, ScanInv, ReplaysAreTrueOrSpoiled

\* A round with its frames.
LEMMA ScanHolds ==
  ASSUME ScanInv, NEW S \in SUBSET Monitor, S # {}, NEW jobs \in Orders(S),
         NEW frames \in [S -> [Tile -> Content]], NEW builds \in BOOLEAN,
         NEW swaps \in BOOLEAN, Scan(jobs, frames, swaps, builds)
  PROVE  ScanInv'
<1> DEFINE caches  == IF swaps THEN AfterSwap ELSE cache
           n       == Len(jobs)
           team    == Grown(IF swaps THEN <<FALSE>> ELSE detectors, n, builds)
           fails   == [i \in 1..n |-> team[Uses(team, i, n)]]
           verdict == Judged([failures |-> failures, detectors |-> team], n, fails, builds)
           job(m)  == CHOOSE i \in 1..n : jobs[i] = m
           kept(m) == IF swaps THEN {} ELSE spoiled[m]
           left(m) == IF OfKey(caches[m]) = caches[m] THEN kept(m) ELSE {}
           changed(m) == Changed(OfKey(caches[m]), frames[m])
<1>1. /\ loaded' = IF swaps THEN modelSet ELSE loaded
      /\ cache' = [m \in Monitor |->
                    IF m \in Range(jobs) THEN Scanned(caches[m], frames[m], fails[job(m)])
                    ELSE caches[m]]
      /\ spoiled' = [m \in Monitor |->
                      IF m \notin Range(jobs) THEN kept(m)
                      ELSE IF fails[job(m)] THEN left(m) \union changed(m)
                           ELSE left(m) \ changed(m)]
      /\ detectors' = verdict.detectors /\ failures' = verdict.failures
      /\ UNCHANGED <<key, modelSet>>
  BY DEF Scan
<1>2. /\ n \in 1..Cardinality(Monitor) /\ n \in Nat /\ Range(jobs) = S
      /\ \A m \in S : job(m) \in 1..n
  <2>1. jobs \in [1..Cardinality(S) -> S] /\ Range(jobs) = S
    BY DEF Orders
  <2>2. /\ IsFiniteSet(S) /\ Cardinality(S) \in Nat /\ Cardinality(S) # 0
        /\ Cardinality(S) <= Cardinality(Monitor)
    BY ScanningAssumption, FS_Subset, FS_CardinalityType, FS_EmptySet
  <2>3. n = Cardinality(S)
    BY <2>1, <2>2, FunctionIsSeq
  <2>4. ASSUME NEW m \in S PROVE \E i \in 1..n : jobs[i] = m
    BY <2>1, <2>3 DEF Range
  <2>5. \A m \in S : job(m) \in 1..n
    BY <2>4
  <2> QED
    BY <2>1, <2>2, <2>3, <2>5, MonitorsCount
<1> HIDE DEF job, n
<1>3. team \in Teams
  BY <1>2, MonitorsCount, GrownType DEF ScanInv
<1> HIDE DEF team
<1>4. \A i \in 1..n : fails[i] \in BOOLEAN
  <2> TAKE i \in 1..n
  <2>1. Uses(team, i, n) \in 1..Len(team)
    BY <1>2, <1>3 DEF Teams, Uses
  <2> QED
    BY <1>3, <2>1 DEF Teams
<1> HIDE DEF fails
<1>5. verdict \in Verdicts
  <2>1. [failures |-> failures, detectors |-> team] \in Verdicts
    BY <1>3 DEF ScanInv, Verdicts
  <2> QED
    BY <1>2, <2>1, VerdictType
<1> HIDE DEF verdict
<1>6. /\ caches \in [Monitor -> Caches]
      /\ \A m \in Monitor, i \in Tile :
           caches[m].hashes[i] # Unscanned /\ i \notin kept(m) =>
             caches[m].found[i] = <<caches[m].key, caches[m].hashes[i]>>
  <2>1. CASE swaps
    <3>1. NoCache \in Caches /\ \A i \in Tile : NoCache.hashes[i] = Unscanned
      BY EmptiedType DEF NoCache
    <3> QED
      BY <2>1, <3>1 DEF AfterSwap
  <2>2. CASE ~swaps
    BY <2>2 DEF ScanInv, ReplaysAreTrueOrSpoiled, Replayed
  <2> QED
    BY <2>1, <2>2
<1>7. \A m \in Monitor : kept(m) \in SUBSET Tile
  BY DEF ScanInv
<1> HIDE DEF caches, kept
<1>8. ASSUME NEW m \in S
      PROVE  /\ cache'[m] \in Caches /\ spoiled'[m] \in SUBSET Tile
             /\ \A i \in Tile : i \notin spoiled'[m] =>
                  cache'[m].found[i] = <<cache'[m].key, cache'[m].hashes[i]>>
  <2>1. /\ cache'[m] = Scanned(caches[m], frames[m], fails[job(m)])
        /\ spoiled'[m] = IF fails[job(m)] THEN left(m) \union changed(m)
                         ELSE left(m) \ changed(m)
    BY <1>1, <1>2
  <2> DEFINE new == Scanned(caches[m], frames[m], fails[job(m)])
             bad == Bad(caches[m], frames[m], fails[job(m)], kept(m))
  <2>2. /\ key \in Key /\ caches[m] \in Caches /\ frames[m] \in [Tile -> Content]
        /\ fails[job(m)] \in BOOLEAN /\ kept(m) \in SUBSET Tile
    BY <1>2, <1>4, <1>6, <1>7 DEF ScanInv
  <2>3. TrueBut(kept(m), caches[m])
    BY <1>6 DEF TrueBut
  <2>4. new \in Caches /\ ReplaysBut(bad, new)
    BY <2>2, <2>3, ScannedReplays
  <2>5. cache'[m] = new /\ spoiled'[m] = bad
    BY <2>1 DEF Bad
  <2>6. spoiled'[m] \in SUBSET Tile
    BY <2>2, <2>5 DEF Bad, Changed
  <2> HIDE DEF new, bad
  <2> QED
    BY <2>4, <2>5, <2>6 DEF ReplaysBut
<1>9. ASSUME NEW m \in Monitor \ S
      PROVE  cache'[m] = caches[m] /\ spoiled'[m] = kept(m)
  BY <1>1, <1>2
<1>10. cache' \in [Monitor -> Caches] /\ spoiled' \in [Monitor -> SUBSET Tile]
  <2>1. \A m \in Monitor : cache'[m] \in Caches /\ spoiled'[m] \in SUBSET Tile
    BY <1>6, <1>7, <1>8, <1>9
  <2>2. /\ cache' = [m \in Monitor |-> cache'[m]]
        /\ spoiled' = [m \in Monitor |-> spoiled'[m]]
    BY <1>1
  <2> QED
    BY <2>1, <2>2
<1>11. ReplaysAreTrueOrSpoiled'
  BY <1>6, <1>8, <1>9 DEF ReplaysAreTrueOrSpoiled, Replayed
<1> QED
  BY <1>1, <1>5, <1>10, <1>11 DEF ScanInv, Verdicts

LEMMA ScanStays == ScanInv /\ [ScanNext]_scanVars => ScanInv'
<1> SUFFICES ASSUME ScanInv, [ScanNext]_scanVars PROVE ScanInv'
  OBVIOUS
<1>1. CASE UNCHANGED scanVars \/ ChangeSettings
  BY <1>1 DEF scanVars, ChangeSettings, ScanInv, ReplaysAreTrueOrSpoiled, Replayed
<1>2. CASE Wedge
  <2>1. PICK i \in DOMAIN detectors : detectors' = [detectors EXCEPT ![i] = TRUE]
    BY <1>2 DEF Wedge
  <2>2. detectors' \in Teams
    BY <2>1 DEF Teams, ScanInv
  <2> QED
    BY <1>2, <2>2 DEF Wedge, ScanInv, ReplaysAreTrueOrSpoiled, Replayed
<1>3. CASE Round
  <2>1. PICK S \in (SUBSET Monitor) \ {{}} :
          \E jobs \in Orders(S), frames \in [S -> [Tile -> Content]], builds \in BOOLEAN,
             swaps \in BOOLEAN :
            Scan(jobs, frames, swaps, builds)
    BY <1>3 DEF Round
  <2> QED
    BY <2>1, ScanHolds
<1> QED
  BY <1>1, <1>2, <1>3 DEF ScanNext

LEMMA ScanInvTyped == ScanInv => ScanTypeOK
<1> SUFFICES ASSUME ScanInv PROVE ScanTypeOK
  OBVIOUS
<1>1. \A m \in Monitor : cache[m] \in Caches /\ spoiled[m] \subseteq Tile
  BY DEF ScanInv
<1> QED
  BY <1>1 DEF ScanInv, ScanTypeOK, Teams, Caches

\* For any monitors, tiles, settings and models: a tile replays only what was found in
\* the pixels it shows under the settings it was scanned with, whatever was exchanged,
\* rebuilt or failed in between, unless its last scan failed.  (detect.rs TileCache)
THEOREM ReplaysAreTrueOrSpoiledAlways == ScanSpec => []ReplaysAreTrueOrSpoiled
<1>1. ScanInv => ReplaysAreTrueOrSpoiled
  BY DEF ScanInv
<1> QED
  BY <1>1, ScanAtFirst, ScanStays, PTL DEF ScanSpec

\* There are always a detector and never more than monitors, and no more failures are
\* counted than it takes to build the detectors anew.  (pipeline.rs scan)
THEOREM ScanIsTyped == ScanSpec => []ScanTypeOK
  BY ScanAtFirst, ScanStays, ScanInvTyped, PTL DEF ScanSpec

-----------------------------------------------------------------------------
(* Claiming *)

BoxesOf(I) ==
  [at: Places, age: 0..LongestHold, seen: 0..(Sightings + 1), inner: I]

Detections == [at: Places, strong: BOOLEAN]

\* What the detections claimed so far has been seen just now.
Claims(I) ==
  {acc \in [boxes: Seq(BoxesOf(I)), claimed: SUBSET Nat] :
     /\ acc.claimed \subseteq DOMAIN acc.boxes
     /\ \A k \in acc.claimed : acc.boxes[k].age = 0}

LEMMA CountUpTo == \A n \in Nat : IsFiniteSet(1..n) /\ Cardinality(1..n) = n
<1> TAKE n \in Nat
<1>1. n \in Int /\ 1 \in Int
  OBVIOUS
<1>2. IsFiniteSet(1..n) /\ Cardinality(1..n) = IF 1 > n THEN 0 ELSE n - 1 + 1
  BY <1>1, FS_Interval
<1> QED
  BY <1>2

LEMMA HoldType == LongestHold \in Nat /\ Hold <= LongestHold /\ Wobble <= LongestHold
  BY BoxesAssumption DEF LongestHold

\* One of the free boxes is the best for a detection.
LEMMA OneIsBest ==
  ASSUME NEW I, NEW b \in Seq(BoxesOf(I)), NEW at \in Places,
         NEW free \in SUBSET DOMAIN b, free # {}
  PROVE  \E k \in free : \A i \in free \ {k} : Better(k, i, at, b)
<1> DEFINE d(k) == Distance(b[k].at, at)
           D == {d(k) : k \in free}
<1>1. /\ at \in Int /\ \A k \in free : b[k].at \in Int /\ k \in 1..Len(b) /\ k \in Nat
      /\ Len(b) \in Nat
  <2>1. \A k \in DOMAIN b : b[k] \in BoxesOf(I) /\ k \in 1..Len(b)
    OBVIOUS
  <2>2. \A x \in BoxesOf(I) : x.at \in Places
    BY DEF BoxesOf
  <2>3. \A k \in free : b[k].at \in Places /\ k \in 1..Len(b)
    BY <2>1, <2>2
  <2>4. Len(b) \in Nat /\ \A k \in 1..Len(b) : k \in Nat
    OBVIOUS
  <2>5. at \in Int /\ \A k \in free : b[k].at \in Int
    BY <2>3, BoxesAssumption
  <2> QED
    BY <2>3, <2>4, <2>5
<1>2. \A k \in free : d(k) \in Nat
  BY <1>1 DEF Distance
<1>3. D \in SUBSET Nat /\ D # {}
  BY <1>2
<1> HIDE DEF d
<1>4. PICK m \in D : \A x \in D : m <= x
  <2> HIDE DEF D
  <2> QED
    BY <1>3, Least
<1> DEFINE Back == {Len(b) - k : k \in {k \in free : d(k) = m}}
<1>5. Back \in SUBSET Nat /\ Back # {}
  BY <1>1, <1>4
<1>6. PICK y \in Back : \A x \in Back : y <= x
  <2> HIDE DEF Back
  <2> QED
    BY <1>5, Least
<1>7. PICK k \in free : d(k) = m /\ y = Len(b) - k
  BY <1>6
<1>8. ASSUME NEW i \in free \ {k} PROVE d(k) < d(i) \/ (d(k) = d(i) /\ k > i)
  <2>1. d(k) <= d(i) /\ d(i) \in Nat /\ d(k) \in Nat /\ i \in Nat /\ k \in Nat /\ i # k
    BY <1>1, <1>2, <1>4, <1>7
  <2>2. CASE d(i) = m
    <3>1. Len(b) - i \in Back
      BY <2>2
    <3>2. Len(b) - k <= Len(b) - i
      BY <1>6, <1>7, <3>1
    <3>3. i <= k
      BY <1>1, <2>1, <3>2
    <3> QED
      BY <1>7, <2>1, <2>2, <3>3
  <2> QED
    BY <1>7, <2>1, <2>2
<1> QED
  BY <1>8 DEF Better, d

\* From old to new a box is claimed for the place at.
ClaimsOne(old, new, at) ==
  /\ \E k \in Nat \ old.claimed :
       /\ new.claimed = old.claimed \union {k}
       /\ new.boxes[k].at = at
       /\ \A j \in old.claimed : new.boxes[j] = old.boxes[j]
  /\ \/ Len(new.boxes) = Len(old.boxes)
     \/ Len(new.boxes) = Len(old.boxes) + 1 /\ old.claimed = 1..Len(old.boxes)

\* A detection claims a box that no other has claimed: a held one, or a new one if
\* none is free.
LEMMA ClaimStep ==
  ASSUME NEW I, NoPixels \in I, NEW acc \in Claims(I), NEW det \in Detections
  PROVE  Claim(acc, det) \in Claims(I) /\ ClaimsOne(acc, Claim(acc, det), det.at)
<1> DEFINE free == Open(acc.boxes, acc.claimed)
           n == Len(acc.boxes) + 1
           new == Claim(acc, det)
<1>1. /\ acc.boxes \in Seq(BoxesOf(I)) /\ acc.claimed \subseteq DOMAIN acc.boxes
      /\ acc.claimed \subseteq Nat /\ DOMAIN acc.boxes = 1..Len(acc.boxes)
      /\ Len(acc.boxes) \in Nat /\ n \in Nat /\ n \notin DOMAIN acc.boxes
      /\ det.at \in Places /\ Sightings \in Nat /\ LongestHold \in Nat
      /\ \A k \in acc.claimed : acc.boxes[k].age = 0
  BY BoxesAssumption, HoldType DEF Claims, Detections
<1>2. CASE free = {}
  <2> DEFINE b == Box(det.at, IF det.strong THEN Sightings ELSE 1)
  <2>1. new = [boxes |-> Append(acc.boxes, b), claimed |-> acc.claimed \union {n}]
    BY <1>2 DEF Claim
  <2>2. b \in BoxesOf(I) /\ b.age = 0 /\ b.at = det.at
    BY <1>1 DEF Box, BoxesOf
  <2>3. acc.claimed = 1..Len(acc.boxes) /\ n \notin acc.claimed
    BY <1>1, <1>2 DEF Open
  <2> HIDE DEF b
  <2>4. /\ new.boxes \in Seq(BoxesOf(I)) /\ Len(new.boxes) = n /\ new.boxes[n] = b
        /\ \A j \in 1..Len(acc.boxes) : new.boxes[j] = acc.boxes[j]
    BY <1>1, <2>1, <2>2
  <2>5. new.claimed = 1..n /\ new.claimed \subseteq Nat
    BY <1>1, <2>1, <2>3
  <2>6. new \in Claims(I)
    <3>1. \A k \in new.claimed : new.boxes[k].age = 0
      BY <1>1, <2>2, <2>3, <2>4, <2>5
    <3>2. new \in [boxes: Seq(BoxesOf(I)), claimed: SUBSET Nat]
      BY <2>1, <2>4, <2>5
    <3>3. new.claimed \subseteq DOMAIN new.boxes
      BY <2>4, <2>5
    <3> QED
      BY <3>1, <3>2, <3>3 DEF Claims
  <2>7. new.claimed = acc.claimed \union {n}
    BY <2>1
  <2>8. ClaimsOne(acc, new, det.at)
    BY <1>1, <2>2, <2>3, <2>4, <2>7 DEF ClaimsOne
  <2> QED
    BY <2>6, <2>8
<1>3. CASE free # {}
  <2> DEFINE Best(k) == \A i \in free \ {k} : Better(k, i, det.at, acc.boxes)
             j == CHOOSE k \in free : Best(k)
             m == MovedTo(acc.boxes[j], det.at)
             b == [m EXCEPT !.age = 0, !.seen = IF @ < Sightings THEN @ + 1 ELSE @]
  <2>1. new = [boxes |-> [acc.boxes EXCEPT ![j] = b], claimed |-> acc.claimed \union {j}]
    BY <1>3 DEF Claim
  <2>2. j \in free
    <3>1. \E k \in free : Best(k)
      BY <1>1, <1>3, OneIsBest DEF Open
    <3> QED
      BY <3>1, Zenon
  <2> HIDE DEF j
  <2>3. j \in 1..Len(acc.boxes) /\ j \notin acc.claimed /\ j \in Nat
    BY <1>1, <2>2 DEF Open
  <2>4. acc.boxes[j] \in BoxesOf(I)
    BY <1>1, <2>3
  <2>5. m \in BoxesOf(I) /\ m.at = det.at
    BY <1>1, <2>4 DEF MovedTo, BoxesOf
  <2> HIDE DEF m
  <2>6. b \in BoxesOf(I) /\ b.age = 0 /\ b.at = det.at
    <3> DEFINE seen == IF m.seen < Sightings THEN m.seen + 1 ELSE m.seen
    <3>1. m.seen \in 0..(Sightings + 1)
      BY <2>5 DEF BoxesOf
    <3>2. seen \in 0..(Sightings + 1)
      BY <1>1, <3>1
    <3>3. 0 \in 0..LongestHold
      BY <1>1
    <3>4. b = [m EXCEPT !.age = 0, !.seen = seen]
      OBVIOUS
    <3> HIDE DEF seen, b
    <3> QED
      BY <2>5, <3>2, <3>3, <3>4 DEF BoxesOf
  <2> HIDE DEF b
  <2>7. /\ new.boxes \in Seq(BoxesOf(I)) /\ Len(new.boxes) = Len(acc.boxes) /\ new.boxes[j] = b
        /\ \A i \in 1..Len(acc.boxes) : i # j => new.boxes[i] = acc.boxes[i]
    BY <1>1, <2>1, <2>3, <2>6
  <2>8. new.claimed = acc.claimed \union {j} /\ new.claimed \subseteq Nat
    BY <1>1, <2>1, <2>3
  <2>9. new \in Claims(I)
    <3>1. \A k \in new.claimed : new.boxes[k].age = 0
      BY <1>1, <2>3, <2>6, <2>7, <2>8
    <3>2. new \in [boxes: Seq(BoxesOf(I)), claimed: SUBSET Nat]
      BY <2>1, <2>7, <2>8
    <3>3. new.claimed \subseteq DOMAIN new.boxes
      BY <1>1, <2>3, <2>7, <2>8
    <3> QED
      BY <3>1, <3>2, <3>3 DEF Claims
  <2>10. ClaimsOne(acc, new, det.at)
    BY <1>1, <2>3, <2>6, <2>7, <2>8 DEF ClaimsOne
  <2> QED
    BY <2>9, <2>10
<1> QED
  BY <1>2, <1>3

\* The detections of a frame claim one after the other.
LEMMA ClaimsWalk ==
  ASSUME NEW I, NoPixels \in I, NEW row \in Seq(BoxesOf(I)), NEW dets \in Seq(Detections)
  PROVE  LET none == [boxes |-> row, claimed |-> {}]
         IN \E f \in [0..Len(dets) -> Claims(I)] :
              /\ f[0] = none /\ f[Len(dets)] = FoldLeft(Claim, none, dets)
              /\ \A n \in 1..Len(dets) : f[n] = Claim(f[n - 1], dets[n])
<1> DEFINE none == [boxes |-> row, claimed |-> {}]
           Is(iter) == iter = [t \in SUBSET (DOMAIN dets) |->
                         IF t = {} THEN none ELSE Claim(iter[t \ {Max(t)}], dets[Max(t)])]
           claim == [p \in Claims(I) \X (1..Len(dets)) |-> Claim(p[1], dets[p[2]])]
<1>1. FoldLeft(Claim, none, dets) = (CHOOSE iter : Is(iter))[DOMAIN dets]
  BY DEF FoldLeft, MapThenFoldSet
<1>2. /\ Len(dets) \in Nat /\ DOMAIN dets = 1..Len(dets)
      /\ \A i \in 1..Len(dets) : dets[i] \in Detections
  OBVIOUS
<1>3. none \in Claims(I)
  BY DEF Claims
<1>4. claim \in [Claims(I) \X (1..Len(dets)) -> Claims(I)]
  BY <1>2, ClaimStep
<1>5. \A a \in Claims(I), i \in 1..Len(dets) : claim[<<a, i>>] = Claim(a, dets[i])
  OBVIOUS
<1> HIDE DEF claim, none
<1>6. \E iter : Is(iter)
  <2>1. PICK iter : Folds(iter, Len(dets), Claims(I), none, claim)
    BY <1>2, <1>3, <1>4, FoldOf
  <2>2. ASSUME NEW t \in SUBSET (1..Len(dets))
        PROVE  iter[t] = IF t = {} THEN none ELSE Claim(iter[t \ {Max(t)}], dets[Max(t)])
    <3>1. CASE t = {}
      BY <2>1, <3>1 DEF Folds
    <3>2. CASE t # {}
      <4>1. Max(t) \in t /\ iter[t] = claim[<<iter[t \ {Max(t)}], Max(t)>>]
        BY <2>1, <3>2 DEF Folds
      <4>2. t \ {Max(t)} \in SUBSET (1..Len(dets)) /\ Max(t) \in 1..Len(dets)
        BY <4>1
      <4>3. iter[t \ {Max(t)}] \in Claims(I)
        BY <2>1, <4>2 DEF Folds
      <4> QED
        BY <1>5, <3>2, <4>1, <4>2, <4>3
    <3> QED
      BY <3>1, <3>2
  <2>3. Is(iter)
    BY <1>2, <2>1, <2>2 DEF Folds
  <2> QED
    BY <2>3
<1> DEFINE it == CHOOSE iter : Is(iter)
<1>7. Is(it)
  BY <1>6, Zenon
<1> HIDE DEF it
<1>8. Solves(it, Len(dets), Claims(I), none, claim)
  <2>1. \A t \in SUBSET (1..Len(dets)) :
          it[t] = IF t = {} THEN none ELSE Claim(it[t \ {Max(t)}], dets[Max(t)])
    BY <1>2, <1>7
  <2> QED
    BY <1>5, <2>1 DEF Solves
<1>9. WalksTo(it[1..Len(dets)], Len(dets), Claims(I), none, claim)
  BY <1>2, <1>3, <1>4, <1>8, FoldWalk
<1>10. PICK f \in [0..Len(dets) -> Claims(I)] :
         /\ f[0] = none /\ f[Len(dets)] = it[1..Len(dets)]
         /\ \A n \in 1..Len(dets) : f[n] = claim[<<f[n - 1], n>>]
  BY <1>9 DEF WalksTo
<1>11. f[Len(dets)] = FoldLeft(Claim, none, dets)
  BY <1>1, <1>2, <1>10 DEF it
<1>12. ASSUME NEW n \in 1..Len(dets) PROVE f[n] = Claim(f[n - 1], dets[n])
  <2>1. n - 1 \in 0..Len(dets) /\ f[n - 1] \in Claims(I)
    BY <1>2
  <2> QED
    BY <1>5, <1>10, <2>1
<1> QED
  BY <1>10, <1>11, <1>12 DEF none

\* After a frame there is a box at each detection's place, and the boxes are no more
\* than there were, or than there are detections.
LEMMA ClaimedHolds ==
  ASSUME NEW I, NoPixels \in I, NEW row \in Seq(BoxesOf(I)), NEW dets \in Seq(Detections)
  PROVE  LET new == Claimed(row, dets)
         IN /\ new \in Seq(BoxesOf(I))
            /\ Len(new) <= Len(row) \/ Len(new) <= Len(dets)
            /\ \A i \in 1..Len(dets) : \E k \in 1..Len(new) : new[k].at = dets[i].at
<1> DEFINE none == [boxes |-> row, claimed |-> {}]
           last == FoldLeft(Claim, none, dets)
<1>1. PICK f \in [0..Len(dets) -> Claims(I)] :
        /\ f[0] = none /\ f[Len(dets)] = last
        /\ \A n \in 1..Len(dets) : f[n] = Claim(f[n - 1], dets[n])
  BY ClaimsWalk
<1> HIDE DEF last
<1> DEFINE Has(n) ==
      /\ IsFiniteSet(f[n].claimed) /\ Cardinality(f[n].claimed) = n
      /\ Len(f[n].boxes) <= Len(row) \/ Len(f[n].boxes) <= n
      /\ \A i \in 1..n : \E k \in f[n].claimed : f[n].boxes[k].at = dets[i].at
    P == {n \in 0..Len(dets) : Has(n)}
<1>2. 0 \in P
  <2>1. f[0].claimed = {} /\ f[0].boxes = row
    BY <1>1
  <2>2. IsFiniteSet(f[0].claimed) /\ Cardinality(f[0].claimed) = 0
    BY <2>1, FS_EmptySet
  <2>3. Has(0)
    BY <2>1, <2>2
  <2> HIDE DEF Has
  <2> QED
    BY <2>3
<1>3. ASSUME NEW n \in 1..Len(dets), n - 1 \in P PROVE n \in P
  <2> DEFINE old == f[n - 1]
             new == f[n]
  <2>1. n \in Nat /\ n - 1 \in Nat /\ n - 1 \in 0..Len(dets) /\ Has(n - 1)
    <3>1. n - 1 \in 0..Len(dets) /\ Has(n - 1)
      <4> HIDE DEF Has
      <4> QED
        BY <1>3
    <3> QED
      BY <3>1
  <2>2. old \in Claims(I) /\ new = Claim(old, dets[n]) /\ dets[n] \in Detections
    <3>1. f[n - 1] \in Claims(I)
      BY <2>1
    <3>2. f[n] = Claim(f[n - 1], dets[n])
      BY <1>1
    <3>3. dets[n] \in Detections
      OBVIOUS
    <3> QED
      BY <3>1, <3>2, <3>3
  <2> HIDE DEF old, new
  <2>3. ClaimsOne(old, new, dets[n].at)
    BY <2>2, ClaimStep
  <2>4. PICK k \in Nat \ old.claimed :
          /\ new.claimed = old.claimed \union {k}
          /\ new.boxes[k].at = dets[n].at
          /\ \A j \in old.claimed : new.boxes[j] = old.boxes[j]
    BY <2>3 DEF ClaimsOne
  <2>5. Len(old.boxes) \in Nat
    BY <2>2 DEF Claims
  <2>6. /\ IsFiniteSet(old.claimed) /\ Cardinality(old.claimed) = n - 1
        /\ Len(old.boxes) <= Len(row) \/ Len(old.boxes) <= n - 1
        /\ \A i \in 1..(n - 1) : \E j \in old.claimed : old.boxes[j].at = dets[i].at
    BY <2>1 DEF old
  <2>7. IsFiniteSet(new.claimed) /\ Cardinality(new.claimed) = n
    <3>1. /\ IsFiniteSet(old.claimed \union {k})
          /\ Cardinality(old.claimed \union {k}) =
               IF k \in old.claimed THEN Cardinality(old.claimed)
               ELSE Cardinality(old.claimed) + 1
      BY <2>6, FS_AddElement, Zenon
    <3> QED
      BY <2>1, <2>4, <2>6, <3>1
  <2>8. Len(new.boxes) <= Len(row) \/ Len(new.boxes) <= n
    <3>1. ASSUME old.claimed = 1..Len(old.boxes) PROVE Len(old.boxes) = n - 1
      BY <2>5, <2>6, <3>1, CountUpTo
    <3> QED
      BY <2>1, <2>3, <2>5, <2>6, <3>1 DEF ClaimsOne
  <2>9. ASSUME NEW i \in 1..n PROVE \E j \in new.claimed : new.boxes[j].at = dets[i].at
    <3>1. CASE i = n
      BY <2>4, <3>1
    <3>2. CASE i # n
      <4>1. PICK j \in old.claimed : old.boxes[j].at = dets[i].at
        BY <2>1, <2>6, <3>2
      <4> QED
        BY <2>4, <4>1
    <3> QED
      BY <3>1, <3>2
  <2>10. Has(n)
    BY <2>7, <2>8, <2>9 DEF new
  <2> HIDE DEF Has
  <2> QED
    BY <2>1, <2>10
<1>4. Len(dets) \in Nat /\ P \in SUBSET Nat
  OBVIOUS
<1> HIDE DEF P
<1>5. \A n \in 0..Len(dets) : n \in P
  BY <1>2, <1>3, <1>4, InductionUpTo
<1>6. Has(Len(dets)) /\ last \in Claims(I)
  <2>1. Len(dets) \in P
    BY <1>4, <1>5
  <2>2. Has(Len(dets))
    <3> HIDE DEF Has
    <3> QED
      BY <2>1 DEF P
  <2> QED
    BY <1>1, <1>4, <2>2
<1> DEFINE S == {b \in Range(last.boxes) : b.age < Lifetime(b)}
           new == Retain(last.boxes, S)
<1>7. last.boxes \in Seq(BoxesOf(I)) /\ Len(last.boxes) \in Nat /\ Len(row) \in Nat
  BY <1>6 DEF Claims
<1>8. Claimed(row, dets) = new
  BY DEF Claimed, Kept, last
<1>9. ASSUME NEW k \in last.claimed PROVE last.boxes[k] \in S /\ k \in 1..Len(last.boxes)
  <2>1. k \in 1..Len(last.boxes) /\ k \in DOMAIN last.boxes /\ last.boxes[k].age = 0
    BY <1>6, <1>7 DEF Claims
  <2>2. 0 < Lifetime(last.boxes[k])
    BY BoxesAssumption DEF Lifetime
  <2> QED
    BY <2>1, <2>2 DEF Range
<1> HIDE DEF S
<1>10. /\ new \in Seq(BoxesOf(I) \intersect S) /\ Len(new) <= Len(last.boxes)
       /\ \A j \in 1..Len(last.boxes) : last.boxes[j] \in S =>
            \E k \in 1..Len(new) : new[k] = last.boxes[j]
  <2> DEFINE bs == last.boxes
  <2>1. bs \in Seq(BoxesOf(I))
    BY <1>7
  <2> HIDE DEF bs
  <2>2. Keeps(Retain(bs, S), bs, BoxesOf(I), S)
    BY <2>1, Retained
  <2> QED
    BY <2>2 DEF bs, Keeps
<1> HIDE DEF new
<1>11. new \in Seq(BoxesOf(I)) /\ Len(new) \in Nat
  BY <1>10, SeqMonotonic
<1>12. ASSUME NEW i \in 1..Len(dets) PROVE \E k \in 1..Len(new) : new[k].at = dets[i].at
  BY <1>1, <1>6, <1>9, <1>10
<1>13. Len(new) <= Len(row) \/ Len(new) <= Len(dets)
  BY <1>1, <1>4, <1>6, <1>7, <1>10, <1>11
<1> QED
  BY <1>8, <1>11, <1>12, <1>13

-----------------------------------------------------------------------------
(* The censor's boxes *)

\* An interior made of the latest frame in that style.
Inner(s) == IF s \in Filtered THEN [style |-> s, fresh |-> TRUE] ELSE NoPixels

BoxInv ==
  /\ {style, inForce} \subseteq Styles /\ flagged \subseteq Places
  /\ held \in Seq(BoxesOf({Inner(inForce)})) /\ shown = Regions(held)
  /\ \A p \in flagged : \E j \in 1..Len(held) : held[j].at = p
  /\ most \in 0..MaxFound /\ Len(held) <= most

LEMMA SameInterior ==
  ASSUME NEW S, NEW r \in [style: S, fresh: BOOLEAN]
  PROVE  [r EXCEPT !.fresh = r.fresh] = r
  OBVIOUS

\* A box that comes with a current interior or none leaves with a current one, and it
\* is another one only for a reason that makes the overlay be told.
LEMMA FilledIsCurrent ==
  ASSUME NEW b \in BoxesOf({NoPixels, Inner(inForce)}), NEW fresh \in BOOLEAN
  PROVE  LET new == Filled(b, fresh, style # inForce)
         IN /\ new \in BoxesOf({Inner(style)}) /\ new.at = b.at
            /\ style \in Filtered /\ ~Stale(b, fresh, style # inForce) => new.inner = b.inner
            /\ style \notin Filtered /\ style = inForce => new.inner = b.inner
<1> DEFINE changed == style # inForce
           new == Filled(b, fresh, changed)
<1>1. b.inner \in {NoPixels, Inner(inForce)}
  BY DEF BoxesOf
<1>2. CASE style \in Filtered /\ Stale(b, fresh, changed)
  <2>1. new = [b EXCEPT !.inner = [style |-> style, fresh |-> TRUE]]
    BY <1>2 DEF Filled
  <2> QED
    BY <1>2, <2>1 DEF Inner, BoxesOf
<1>3. CASE style \in Filtered /\ ~Stale(b, fresh, changed)
  <2>1. style = inForce /\ b.inner = [style |-> style, fresh |-> TRUE] /\ ~fresh
    BY <1>1, <1>3 DEF Stale, Inner
  <2>2. new = [b EXCEPT !.inner = [b.inner EXCEPT !.fresh = b.inner.fresh /\ ~fresh]]
    BY <1>3 DEF Filled
  <2>3. [b.inner EXCEPT !.fresh = b.inner.fresh /\ ~fresh] = b.inner
    <3>1. (b.inner.fresh /\ ~fresh) = b.inner.fresh
      <4>1. b.inner.fresh = TRUE /\ fresh = FALSE
        BY <2>1
      <4> QED
        BY <4>1, Zenon
    <3>2. b.inner \in [style: {style}, fresh: BOOLEAN]
      BY <2>1
    <3> QED
      BY <3>1, <3>2, SameInterior
  <2>4. new = b
    BY <2>2, <2>3 DEF BoxesOf
  <2> QED
    BY <1>3, <2>1, <2>4 DEF Inner, BoxesOf
<1>4. CASE style \notin Filtered /\ changed
  <2>1. new = [b EXCEPT !.inner = NoPixels]
    BY <1>4 DEF Filled
  <2> QED
    BY <1>4, <2>1 DEF Inner, BoxesOf
<1>5. CASE style \notin Filtered /\ ~changed
  <2>1. style = inForce /\ b.inner = NoPixels
    BY <1>1, <1>5 DEF Inner
  <2>2. new = [b EXCEPT !.inner = [b.inner EXCEPT !.fresh = b.inner.fresh /\ ~fresh]]
    BY <1>5 DEF Filled
  <2>3. [b.inner EXCEPT !.fresh = b.inner.fresh /\ ~fresh] = b.inner
    <3>1. (b.inner.fresh /\ ~fresh) = b.inner.fresh
      <4>1. b.inner.fresh = FALSE
        BY <2>1 DEF NoPixels
      <4> QED
        BY <4>1, Zenon
    <3>2. b.inner \in [style: {"none"}, fresh: BOOLEAN]
      BY <2>1 DEF NoPixels
    <3> QED
      BY <3>1, <3>2, SameInterior
  <2>4. new = b
    BY <2>2, <2>3 DEF BoxesOf
  <2> QED
    BY <1>5, <2>1, <2>4 DEF Inner, BoxesOf
<1> QED
  BY <1>2, <1>3, <1>4, <1>5

\* Whatever boxes a round renders, the overlay comes to show them all.
LEMMA Rendered ==
  ASSUME BoxInv, NEW row \in Seq(BoxesOf({NoPixels, Inner(inForce)})), NEW fresh \in BOOLEAN,
         Render(row, fresh)
  PROVE  /\ held' \in Seq(BoxesOf({Inner(inForce')})) /\ shown' = Regions(held')
         /\ Len(held') = Len(row) /\ \A j \in 1..Len(row) : held'[j].at = row[j].at
         /\ inForce' = style /\ style' = style
<1> DEFINE restyled == style # inForce
           filled   == [j \in DOMAIN row |-> Filled(row[j], fresh, restyled)]
           changed  == \/ Regions(row) # Regions(held)
                       \/ style \notin Filtered /\ restyled
                       \/ /\ style \in Filtered
                          /\ \E j \in DOMAIN row : Stale(row[j], fresh, restyled)
<1>1. /\ held' = filled /\ shown' = IF changed THEN Regions(filled) ELSE shown
      /\ inForce' = style /\ style' = style
  BY DEF Render
<1>2. /\ DOMAIN row = 1..Len(row) /\ Len(row) \in Nat
      /\ \A j \in 1..Len(row) : row[j] \in BoxesOf({NoPixels, Inner(inForce)})
  OBVIOUS
<1>3. \A j \in 1..Len(row) : filled[j] = Filled(row[j], fresh, restyled)
  BY <1>2
<1>4. \A j \in 1..Len(row) :
        /\ filled[j] \in BoxesOf({Inner(style)}) /\ filled[j].at = row[j].at
        /\ style \in Filtered /\ ~Stale(row[j], fresh, restyled) =>
             filled[j].inner = row[j].inner
        /\ style \notin Filtered /\ style = inForce => filled[j].inner = row[j].inner
  <2> HIDE DEF filled
  <2> TAKE j \in 1..Len(row)
  <2>1. row[j] \in BoxesOf({NoPixels, Inner(inForce)})
    BY <1>2
  <2> QED
    BY <1>3, <2>1, FilledIsCurrent, ZenonT(40)
<1>5. DOMAIN filled = 1..Len(row)
  BY <1>2
<1>6. filled \in Seq(BoxesOf({Inner(style)})) /\ Len(filled) = Len(row)
  <2>1. filled = [j \in 1..Len(row) |-> filled[j]]
    BY <1>2
  <2> HIDE DEF filled
  <2>2. filled \in [1..Len(row) -> BoxesOf({Inner(style)})]
    BY <1>4, <2>1
  <2> QED
    BY <1>2, <2>2, FunctionIsSeq
<1> HIDE DEF filled
<1>7. ~changed => Regions(filled) = shown
  <2> SUFFICES ASSUME ~changed PROVE Regions(filled) = Regions(row)
    BY DEF BoxInv
  <2>1. \A j \in 1..Len(row) : filled[j].inner = row[j].inner
    BY <1>2, <1>4
  <2> QED
    BY <1>2, <1>4, <1>5, <2>1 DEF Regions
<1> QED
  BY <1>1, <1>4, <1>6, <1>7

LEMMA BoxesAtFirst == BoxInit => BoxInv
<1> SUFFICES ASSUME BoxInit PROVE BoxInv
  OBVIOUS
<1>1. held \in Seq(BoxesOf({Inner(inForce)})) /\ Len(held) = 0
  BY DEF BoxInit
<1>2. shown = Regions(held)
  BY DEF BoxInit, Regions
<1> QED
  BY <1>1, <1>2, BoxesAssumption DEF BoxInit, BoxInv

LEMMA BoxesStay == BoxInv /\ [BoxNext]_boxVars => BoxInv'
<1> SUFFICES ASSUME BoxInv, [BoxNext]_boxVars PROVE BoxInv'
  OBVIOUS
<1>1. /\ held \in Seq(BoxesOf({Inner(inForce)})) /\ Len(held) \in Nat
      /\ held \in Seq(BoxesOf({NoPixels, Inner(inForce)})) /\ DOMAIN held = 1..Len(held)
  <2>1. BoxesOf({Inner(inForce)}) \subseteq BoxesOf({NoPixels, Inner(inForce)})
    BY DEF BoxesOf
  <2>2. held \in Seq(BoxesOf({Inner(inForce)}))
    BY DEF BoxInv
  <2>3. held \in Seq(BoxesOf({NoPixels, Inner(inForce)}))
    BY <2>1, <2>2, SeqMonotonic
  <2> QED
    BY <2>2, <2>3
<1>2. CASE UNCHANGED boxVars \/ NewStyle
  BY <1>2 DEF boxVars, NewStyle, BoxInv
<1>3. CASE Elapse
  <2>1. /\ held' = [j \in 1..Len(held) |->
                     [held[j] EXCEPT !.age = IF @ < LongestHold THEN @ + 1 ELSE @]]
        /\ UNCHANGED <<style, inForce, shown, flagged, most>>
    BY <1>1, <1>3 DEF Elapse
  <2>2. ASSUME NEW j \in 1..Len(held)
        PROVE  /\ held'[j] \in BoxesOf({Inner(inForce)})
               /\ held'[j].at = held[j].at /\ held'[j].inner = held[j].inner
    <3> DEFINE older == IF held[j].age < LongestHold THEN held[j].age + 1 ELSE held[j].age
    <3>1. held[j] \in BoxesOf({Inner(inForce)})
      BY <1>1
    <3>2. older \in 0..LongestHold
      BY <3>1, HoldType DEF BoxesOf
    <3>3. held'[j] = [held[j] EXCEPT !.age = older]
      BY <2>1
    <3> HIDE DEF older
    <3> QED
      BY <3>1, <3>2, <3>3 DEF BoxesOf
  <2>3. held' \in [1..Len(held) -> BoxesOf({Inner(inForce)})]
    BY <2>1, <2>2
  <2>4. held' \in Seq(BoxesOf({Inner(inForce)})) /\ Len(held') = Len(held)
    BY <1>1, <2>3, FunctionIsSeq
  <2>5. Regions(held') = Regions(held)
    BY <1>1, <2>2, <2>3 DEF Regions
  <2>6. \A p \in flagged : \E j \in 1..Len(held') : held'[j].at = p
    BY <2>2, <2>4 DEF BoxInv
  <2>7. shown' = Regions(held')
    BY <2>1, <2>5 DEF BoxInv
  <2> QED
    BY <2>1, <2>4, <2>6, <2>7 DEF BoxInv
<1>4. CASE Pause
  <2>1. held' = <<>> /\ shown' = <<>> /\ flagged' = {} /\ UNCHANGED <<style, inForce, most>>
    BY <1>4 DEF Pause
  <2>2. held' \in Seq(BoxesOf({Inner(inForce)})) /\ Len(held') = 0
    BY <2>1
  <2>3. shown' = Regions(held')
    BY <2>1 DEF Regions
  <2> QED
    BY <2>1, <2>2, <2>3 DEF BoxInv
<1>5. CASE MissFrame \/ NoFrame
  <2>1. PICK fresh \in BOOLEAN : Render(held, fresh) /\ UNCHANGED <<flagged, most>>
    BY <1>5 DEF MissFrame, NoFrame
  <2>2. /\ held' \in Seq(BoxesOf({Inner(inForce')})) /\ shown' = Regions(held')
        /\ Len(held') = Len(held) /\ \A j \in 1..Len(held) : held'[j].at = held[j].at
        /\ inForce' = style /\ style' = style
    BY <1>1, <2>1, Rendered
  <2> QED
    BY <2>1, <2>2 DEF BoxInv
<1>6. ASSUME NEW dets \in Findings, SeeFrame(dets) PROVE BoxInv'
  <2> DEFINE I == {NoPixels, Inner(inForce)}
             new == Claimed(held, dets)
  <2>1. /\ dets \in Seq(Detections) /\ Len(dets) \in 0..MaxFound /\ DOMAIN dets = 1..Len(dets)
    <3>1. dets \in BoundedSeq(Detections, MaxFound)
      BY DEF Findings, Detections
    <3>2. PICK m \in 0..MaxFound : dets \in [1..m -> Detections]
      BY <3>1 DEF BoundedSeq, SeqOf
    <3>3. m \in Nat
      BY BoxesAssumption
    <3> QED
      BY <3>2, <3>3, FunctionIsSeq
  <2>2. /\ new \in Seq(BoxesOf(I))
        /\ Len(new) <= Len(held) \/ Len(new) <= Len(dets)
        /\ \A i \in 1..Len(dets) : \E k \in 1..Len(new) : new[k].at = dets[i].at
    BY <1>1, <2>1, ClaimedHolds
  <2>3. Render(new, TRUE)
    BY <1>6 DEF SeeFrame
  <2> HIDE DEF new
  <2>4. /\ held' \in Seq(BoxesOf({Inner(inForce')})) /\ shown' = Regions(held')
        /\ Len(held') = Len(new) /\ \A j \in 1..Len(new) : held'[j].at = new[j].at
        /\ inForce' = style /\ style' = style
    BY <2>2, <2>3, Rendered
  <2>5. /\ flagged' = {dets[i].at : i \in 1..Len(dets)}
        /\ most' = IF Len(dets) > most THEN Len(dets) ELSE most
    BY <1>6, <2>1 DEF SeeFrame
  <2>6. \A p \in flagged' : p \in Places /\ \E j \in 1..Len(held') : held'[j].at = p
    <3> TAKE p \in flagged'
    <3>1. PICK i \in 1..Len(dets) : p = dets[i].at
      BY <2>5
    <3>2. dets[i].at \in Places
      <4>1. dets[i] \in Detections
        BY <2>1
      <4> QED
        BY <4>1 DEF Detections
    <3>3. PICK k \in 1..Len(new) : new[k].at = dets[i].at
      BY <2>2
    <3> QED
      BY <2>4, <3>1, <3>2, <3>3
  <2>7. most' \in 0..MaxFound /\ Len(held') <= most'
    <3>1. Len(new) \in Nat /\ most \in 0..MaxFound /\ Len(held) <= most
      BY <2>2 DEF BoxInv
    <3> QED
      BY <1>1, <2>1, <2>2, <2>4, <2>5, <3>1
  <2> QED
    BY <2>4, <2>6, <2>7 DEF BoxInv
<1> QED
  BY <1>2, <1>3, <1>4, <1>5, <1>6 DEF BoxNext

LEMMA BoxInvHolds == BoxInv => BoxTypeOK /\ FlaggedIsCovered /\ OverlayIsCurrent /\ NoTrail
<1> SUFFICES ASSUME BoxInv PROVE BoxTypeOK /\ FlaggedIsCovered /\ OverlayIsCurrent /\ NoTrail
  OBVIOUS
<1>1. /\ DOMAIN held = 1..Len(held)
      /\ \A j \in 1..Len(held) : held[j] \in BoxesOf({Inner(inForce)})
  BY DEF BoxInv
<1>2. \A j \in 1..Len(held) :
        /\ held[j].at \in Places /\ held[j].age \in 0..LongestHold
        /\ held[j].seen \in 0..(Sightings + 1) /\ held[j].inner = Inner(inForce)
  BY <1>1 DEF BoxesOf
<1>3. Inner(inForce) \in [style: Styles \union {"none"}, fresh: BOOLEAN]
  BY DEF Inner, NoPixels, BoxInv
<1>4. FlaggedIsCovered
  BY <1>1 DEF BoxInv, FlaggedIsCovered, Regions
<1>5. OverlayIsCurrent
  BY <1>1, <1>2 DEF BoxInv, OverlayIsCurrent, Inner
<1> QED
  BY <1>1, <1>2, <1>3, <1>4, <1>5 DEF BoxInv, BoxTypeOK, NoTrail

\* For any places, hold times and counts of sightings: whatever the last scan flagged
\* stays covered until a later scan flags it no more, whichever boxes its detections
\* claimed.  (pipeline.rs: a static image must remain covered indefinitely)
THEOREM FlaggedIsCoveredAlways == BoxSpec => []FlaggedIsCovered
  BY BoxesAtFirst, BoxesStay, BoxInvHolds, PTL DEF BoxSpec

\* And what the overlay was told last is what the boxes are now, each with an interior
\* made of the latest frame in the style in force.  (the changed flag of pipeline.rs)
THEOREM OverlayIsCurrentAlways == BoxSpec => []OverlayIsCurrent
  BY BoxesAtFirst, BoxesStay, BoxInvHolds, PTL DEF BoxSpec

\* And detections that move, compete for boxes and wobble never leave more boxes than
\* were seen in one frame.  (per-region hold with movement tracking)
THEOREM NoTrailAlways == BoxSpec => []NoTrail
  BY BoxesAtFirst, BoxesStay, BoxInvHolds, PTL DEF BoxSpec

\* And every box is at a place, no older than the longest hold, and has an interior of
\* a style or none.
THEOREM BoxesAreTyped == BoxSpec => []BoxTypeOK
  BY BoxesAtFirst, BoxesStay, BoxInvHolds, PTL DEF BoxSpec

-----------------------------------------------------------------------------
(* The budget *)

Entry == [age: Nat, amount: Nat \ {0}]

Weight(e, span) == IF e.age <= span THEN e.amount ELSE 0

\* A walk along s that adds up what is within the window.
Totals(f, s, span) ==
  /\ f[0] = 0
  /\ \A n \in 1..Len(s) : f[n] = f[n - 1] + Weight(s[n], span)

LEMMA WeightType ==
  ASSUME NEW e \in Entry, NEW w \in Int
  PROVE  Weight(e, w) \in Nat
  BY DEF Weight, Entry

LEMMA TotalWalks ==
  ASSUME NEW s \in Seq(Entry), NEW w \in Int
  PROVE  \E f \in [0..Len(s) -> Nat] : Totals(f, s, w) /\ f[Len(s)] = Total(s, w)
<1> DEFINE Op(sum, e) == sum + (IF e.age <= w THEN e.amount ELSE 0)
           Is(iter) == iter = [t \in SUBSET (DOMAIN s) |->
                         IF t = {} THEN 0 ELSE Op(iter[t \ {Max(t)}], s[Max(t)])]
           add == [p \in Nat \X (1..Len(s)) |-> Op(p[1], s[p[2]])]
<1>1. Total(s, w) = (CHOOSE iter : Is(iter))[DOMAIN s]
  BY DEF Total, FoldLeft, MapThenFoldSet
<1>2. /\ Len(s) \in Nat /\ DOMAIN s = 1..Len(s) /\ \A i \in 1..Len(s) : s[i] \in Entry
      /\ 0 \in Nat
  OBVIOUS
<1>3. add \in [Nat \X (1..Len(s)) -> Nat]
  <2>1. ASSUME NEW a \in Nat, NEW i \in 1..Len(s) PROVE Op(a, s[i]) \in Nat
    BY <1>2 DEF Entry
  <2> QED
    BY <2>1
<1>4. \A a \in Nat, i \in 1..Len(s) : add[<<a, i>>] = Op(a, s[i])
  OBVIOUS
<1> HIDE DEF add
<1>5. \E iter : Is(iter)
  <2>1. PICK iter : Folds(iter, Len(s), Nat, 0, add)
    BY <1>2, <1>3, FoldOf
  <2>2. ASSUME NEW t \in SUBSET (1..Len(s))
        PROVE  iter[t] = IF t = {} THEN 0 ELSE Op(iter[t \ {Max(t)}], s[Max(t)])
    <3>1. CASE t = {}
      BY <2>1, <3>1 DEF Folds
    <3>2. CASE t # {}
      <4>1. Max(t) \in t /\ iter[t] = add[<<iter[t \ {Max(t)}], Max(t)>>]
        BY <2>1, <3>2 DEF Folds
      <4>2. t \ {Max(t)} \in SUBSET (1..Len(s)) /\ Max(t) \in 1..Len(s)
        BY <4>1
      <4>3. iter[t \ {Max(t)}] \in Nat
        BY <2>1, <4>2 DEF Folds
      <4> QED
        BY <1>4, <3>2, <4>1, <4>2, <4>3
    <3> QED
      BY <3>1, <3>2
  <2> HIDE DEF Op
  <2>3. Is(iter)
    BY <1>2, <2>1, <2>2 DEF Folds
  <2> QED
    BY <2>3
<1> DEFINE it == CHOOSE iter : Is(iter)
<1>6. Is(it)
  BY <1>5, Zenon
<1> HIDE DEF it
<1>7. Solves(it, Len(s), Nat, 0, add)
  <2> HIDE DEF Op
  <2>1. \A t \in SUBSET (1..Len(s)) :
          it[t] = IF t = {} THEN 0 ELSE Op(it[t \ {Max(t)}], s[Max(t)])
    BY <1>2, <1>6
  <2> QED
    BY <1>4, <2>1 DEF Solves
<1>8. WalksTo(it[1..Len(s)], Len(s), Nat, 0, add)
  BY <1>2, <1>3, <1>7, FoldWalk
<1>9. PICK f \in [0..Len(s) -> Nat] :
        /\ f[0] = 0 /\ f[Len(s)] = it[1..Len(s)]
        /\ \A n \in 1..Len(s) : f[n] = add[<<f[n - 1], n>>]
  BY <1>8 DEF WalksTo
<1>10. f[Len(s)] = Total(s, w)
  BY <1>1, <1>2, <1>9 DEF it
<1>11. Totals(f, s, w)
  <2>1. ASSUME NEW n \in 1..Len(s) PROVE f[n] = Op(f[n - 1], s[n])
    <3>1. n - 1 \in 0..Len(s) /\ f[n - 1] \in Nat
      BY <1>2
    <3> QED
      BY <1>4, <1>9, <3>1
  <2> QED
    BY <1>9, <2>1 DEF Totals, Weight
<1> QED
  BY <1>10, <1>11

LEMMA TotalOfNone ==
  ASSUME NEW w \in Int
  PROVE  Total(<<>>, w) = 0
<1>1. <<>> \in Seq(Entry) /\ Len(<<>>) = 0
  OBVIOUS
<1>2. PICK f \in [0..Len(<<>>) -> Nat] : Totals(f, <<>>, w) /\ f[Len(<<>>)] = Total(<<>>, w)
  BY <1>1, TotalWalks
<1> QED
  BY <1>1, <1>2 DEF Totals

LEMMA TotalType ==
  ASSUME NEW s \in Seq(Entry), NEW w \in Int
  PROVE  Total(s, w) \in Nat
<1>1. PICK f \in [0..Len(s) -> Nat] : f[Len(s)] = Total(s, w)
  BY TotalWalks
<1> QED
  BY <1>1

LEMMA TotalAppend ==
  ASSUME NEW s \in Seq(Entry), NEW e \in Entry, NEW w \in Int
  PROVE  Total(Append(s, e), w) = Total(s, w) + Weight(e, w)
<1> DEFINE longer == Append(s, e)
<1>1. /\ longer \in Seq(Entry) /\ Len(longer) = Len(s) + 1 /\ Len(s) \in Nat
      /\ longer[Len(s) + 1] = e /\ \A n \in 1..Len(s) : longer[n] = s[n]
  OBVIOUS
<1> HIDE DEF longer
<1>2. PICK f \in [0..Len(longer) -> Nat] : Totals(f, longer, w) /\ f[Len(longer)] = Total(longer, w)
  BY <1>1, TotalWalks
<1>3. PICK g \in [0..Len(s) -> Nat] : Totals(g, s, w) /\ g[Len(s)] = Total(s, w)
  BY TotalWalks
<1>4. f[0] = g[0]
  BY <1>2, <1>3 DEF Totals
<1>5. \A n \in 1..Len(s) : f[n - 1] = g[n - 1] => f[n] = g[n]
  <2>1. ASSUME NEW n \in 1..Len(s), f[n - 1] = g[n - 1] PROVE f[n] = g[n]
    <3>1. n \in 1..Len(longer)
      BY <1>1
    <3> QED
      BY <1>1, <1>2, <1>3, <2>1, <3>1 DEF Totals
  <2> QED
    BY <2>1
<1>6. f[Len(s)] = g[Len(s)]
  BY <1>1, <1>4, <1>5, OneEnd
<1>7. f[Len(s) + 1] = f[Len(s)] + Weight(e, w)
  <2>1. Len(s) + 1 \in 1..Len(longer) /\ (Len(s) + 1) - 1 = Len(s)
    BY <1>1
  <2> QED
    BY <1>1, <1>2, <2>1 DEF Totals
<1> QED
  BY <1>1, <1>2, <1>3, <1>6, <1>7 DEF longer

LEMMA AgedType ==
  ASSUME NEW s \in Seq(Entry)
  PROVE  /\ Aged(s) \in Seq(Entry) /\ Len(Aged(s)) = Len(s)
         /\ \A i \in 1..Len(s) : Aged(s)[i].age = s[i].age + 1 /\ Aged(s)[i].amount = s[i].amount
<1>1. ASSUME NEW e \in Entry
      PROVE  /\ [e EXCEPT !.age = @ + 1] \in Entry
             /\ [e EXCEPT !.age = @ + 1].age = e.age + 1
             /\ [e EXCEPT !.age = @ + 1].amount = e.amount
  BY DEF Entry
<1>2. Len(s) \in Nat /\ DOMAIN s = 1..Len(s) /\ \A i \in 1..Len(s) : s[i] \in Entry
  OBVIOUS
<1>3. Aged(s) \in [1..Len(s) -> Entry]
  BY <1>1, <1>2 DEF Aged
<1>4. Aged(s) \in Seq(Entry) /\ Len(Aged(s)) = Len(s)
  BY <1>2, <1>3, FunctionIsSeq
<1> QED
  BY <1>1, <1>2, <1>4 DEF Aged

LEMMA TotalAged ==
  ASSUME NEW s \in Seq(Entry), NEW w \in Int
  PROVE  Total(Aged(s), w) = Total(s, w - 1)
<1>1. PICK f \in [0..Len(Aged(s)) -> Nat] : Totals(f, Aged(s), w) /\ f[Len(Aged(s))] = Total(Aged(s), w)
  BY AgedType, TotalWalks
<1>2. w - 1 \in Int
  OBVIOUS
<1>3. PICK g \in [0..Len(s) -> Nat] : Totals(g, s, w - 1) /\ g[Len(s)] = Total(s, w - 1)
  BY <1>2, TotalWalks
<1>4. ASSUME NEW n \in 1..Len(s) PROVE Weight(Aged(s)[n], w) = Weight(s[n], w - 1)
  <2>0. s[n] \in Entry
    OBVIOUS
  <2>1. s[n] \in Entry /\ s[n].age \in Nat
    BY <2>0 DEF Entry
  <2>2. Aged(s)[n].age = s[n].age + 1 /\ Aged(s)[n].amount = s[n].amount
    BY AgedType
  <2> QED
    BY <2>1, <2>2 DEF Weight
<1>5. Len(Aged(s)) = Len(s) /\ Len(s) \in Nat
  BY AgedType
<1>6. f[0] = g[0] /\ \A n \in 1..Len(s) : f[n - 1] = g[n - 1] => f[n] = g[n]
  BY <1>1, <1>3, <1>4, <1>5 DEF Totals
<1>7. f[Len(s)] = g[Len(s)]
  BY <1>5, <1>6, OneEnd
<1> QED
  BY <1>1, <1>3, <1>5, <1>7

LEMMA YoungerType ==
  ASSUME NEW s \in Seq(Entry), NEW a \in Int
  PROVE  Younger(s, a) \in Seq(Entry)
<1> DEFINE S == {e \in Range(s) : e.age <= a}
<1>1. Keeps(Retain(s, S), s, Entry, S)
  BY Retained
<1>2. Retain(s, S) \in Seq(Entry \intersect S)
  BY <1>1 DEF Keeps
<1>3. Entry \intersect S \subseteq Entry
  OBVIOUS
<1> HIDE DEF S
<1>4. Retain(s, S) \in Seq(Entry)
  BY <1>2, <1>3, SeqMonotonic
<1> QED
  BY <1>4 DEF Younger, S

\* What is dropped as too old was outside the window anyhow.
LEMMA TotalYounger ==
  ASSUME NEW s \in Seq(Entry), NEW a \in Int, NEW w \in Int, w <= a
  PROVE  Total(Younger(s, a), w) = Total(s, w)
<1> DEFINE S == {e \in Range(s) : e.age <= a}
<1>1. PICK f \in [0..Len(s) -> Seq(Entry)] : Retaining(f, s, S) /\ f[Len(s)] = Retain(s, S)
  BY RetainWalks
<1>2. PICK g \in [0..Len(s) -> Nat] : Totals(g, s, w) /\ g[Len(s)] = Total(s, w)
  BY TotalWalks
<1> DEFINE h == [n \in 0..Len(s) |-> Total(f[n], w)]
<1>3. h[0] = g[0]
  BY <1>1, <1>2, TotalOfNone DEF Retaining, Totals
<1>4. ASSUME NEW n \in 1..Len(s), h[n - 1] = g[n - 1] PROVE h[n] = g[n]
  <2>0. /\ s[n] \in Entry /\ n - 1 \in 0..Len(s) /\ n \in 0..Len(s) /\ n \in DOMAIN s
    OBVIOUS
  <2>1. /\ s[n] \in Entry /\ n - 1 \in 0..Len(s) /\ n \in 0..Len(s)
        /\ f[n - 1] \in Seq(Entry) /\ g[n - 1] \in Nat /\ s[n] \in Range(s)
    BY <2>0 DEF Range
  <2>2. /\ f[n] = IF s[n] \in S THEN Append(f[n - 1], s[n]) ELSE f[n - 1]
        /\ g[n] = g[n - 1] + Weight(s[n], w)
        /\ Total(f[n - 1], w) = g[n - 1]
    BY <1>1, <1>2, <1>4, <2>1 DEF Retaining, Totals
  <2>3. CASE s[n] \in S
    <3>1. Total(Append(f[n - 1], s[n]), w) = Total(f[n - 1], w) + Weight(s[n], w)
      BY <2>1, TotalAppend
    <3> QED
      BY <2>1, <2>2, <2>3, <3>1
  <2>4. CASE s[n] \notin S
    <3>1. s[n].age \in Nat /\ ~(s[n].age <= a)
      BY <2>1, <2>4 DEF Entry
    <3>2. Weight(s[n], w) = 0
      BY <3>1 DEF Weight
    <3>3. f[n] = f[n - 1]
      BY <2>2, <2>4
    <3>4. h[n] = g[n - 1] /\ g[n] = g[n - 1] + 0
      BY <2>1, <2>2, <3>2, <3>3
    <3> QED
      BY <2>1, <3>4
  <2> QED
    BY <2>3, <2>4
<1> HIDE DEF h
<1>0. Len(s) \in Nat
  OBVIOUS
<1>5. Len(s) \in Nat /\ h[Len(s)] = g[Len(s)]
  BY <1>0, <1>3, <1>4, OneEnd
<1>6. h[Len(s)] = Total(Retain(s, S), w)
  BY <1>1, <1>5 DEF h
<1> QED
  BY <1>2, <1>5, <1>6 DEF Younger

\* The tracker and the record of what was done agree on every window within the block's.
Agree ==
  \A w \in Int : w <= BlockWindow => Total(events, w) = Total(spent, w)

BudgetInv == BudgetTypeOK /\ Agree

LEMMA BudgetConstants ==
  /\ MaxBoxes \in Nat /\ Growth \in Nat /\ Decay \in Nat /\ CoverLimit \in Nat
  /\ {BlockWindow, Penalty, WarnWindow, WarnPause, Slack} \subseteq Nat \ {0}
  /\ ScaleMax \in Nat /\ ScaleMax >= One /\ ScaleStart \in Nat /\ One \in Nat
  /\ KeepFor \in Nat /\ BlockWindow <= KeepFor
  BY BudgetAssumption DEF KeepFor, Raise, One

LEMMA RecordedType ==
  ASSUME NEW s \in Seq(Entry), NEW amount \in Nat
  PROVE  /\ Recorded(s, amount) \in Seq(Entry)
         /\ \A w \in Int : Total(Recorded(s, amount), w) =
                            Total(s, w) + (IF 0 <= w THEN amount ELSE 0)
<1>1. CASE amount = 0
  <2>1. Recorded(s, amount) = s
    BY <1>1 DEF Recorded
  <2>2. \A w \in Int : Total(s, w) = Total(s, w) + (IF 0 <= w THEN amount ELSE 0)
    BY <1>1, TotalType
  <2> QED
    BY <2>1, <2>2
<1>2. CASE amount # 0
  <2> DEFINE e == [age |-> 0, amount |-> amount]
  <2>1. e \in Entry /\ e.age = 0 /\ e.amount = amount
    BY <1>2 DEF Entry
  <2>2. Recorded(s, amount) = Append(s, e)
    BY <1>2 DEF Recorded
  <2> HIDE DEF e
  <2>3. \A w \in Int : Weight(e, w) = IF 0 <= w THEN amount ELSE 0
    BY <2>1 DEF Weight
  <2>4. Append(s, e) \in Seq(Entry)
    BY <2>1
  <2>5. \A w \in Int : Total(Append(s, e), w) = Total(s, w) + Weight(e, w)
    BY <2>1, TotalAppend
  <2> QED
    BY <2>2, <2>3, <2>4, <2>5
<1> QED
  BY <1>1, <1>2

LEMMA IncrementType ==
  ASSUME NEW new \in Nat, NEW have \in Nat, NEW dt \in Nat
  PROVE  Increment(new, have, dt) \in Nat
<1>1. have * dt \in Nat
  OBVIOUS
<1> HIDE DEF Increment
<1> DEFINE much == have * dt
<1>2. Increment(new, have, dt) \in {new, dt, 0, much}
  BY BudgetAssumption DEF Increment
<1> HIDE DEF much
<1>3. much \in Nat
  BY <1>1 DEF much
<1> QED
  BY <1>2, <1>3

LEMMA EscalatedType ==
  ASSUME scale \in One..ScaleMax, NEW sum \in Nat, NEW dt \in Nat
  PROVE  Escalated(sum, dt) \in One..ScaleMax
<1> DEFINE grown == (sum - CoverLimit) * Growth
           lost  == Decay * dt
<1>1. grown \in Int /\ lost \in Int /\ lost >= 0
  BY BudgetConstants
<1> DEFINE up   == UpTo(Raise(scale, ScaleStart + grown), ScaleMax)
           down == Raise(UpTo(scale, ScaleMax) - lost, One)
<1>2. Escalated(sum, dt) \in {up, down}
  BY DEF Escalated
<1> HIDE DEF grown, lost
<1>3. up \in One..ScaleMax /\ down \in One..ScaleMax
  BY <1>1, BudgetConstants DEF UpTo, Raise
<1> QED
  BY <1>2, <1>3

\* What the budget's part of a round leaves: types, agreement, and a sum below the
\* limit unless a penalty runs.
LEMMA BudgetRound ==
  ASSUME BudgetInv, NEW new \in Nat, NEW have \in Nat, Budget(new, have)
  PROVE  /\ events' \in Seq(Entry) /\ spent' \in Seq(Entry) /\ Agree'
         /\ sinceBlock' \in NotYet..Penalty /\ sinceWarn' \in NotYet..WarnPause
         /\ overBudget' \in BOOLEAN /\ sinceRound' = 0
         /\ Total(spent', BlockWindow) < BlockLimit \/ sinceBlock' \in 0..(Penalty - 1)
<1> DEFINE amount == Increment(new, have, sinceRound)
           kept   == Pruned(Recorded(events, amount))
           trips  == /\ Total(kept, BlockWindow) >= BlockLimit
                     /\ sinceBlock = NotYet \/ sinceBlock = Penalty
           warns  == /\ ~trips /\ WarnLimit > 0 /\ Total(kept, WarnWindow) >= WarnLimit
                     /\ sinceWarn = NotYet \/ sinceWarn = WarnPause
<1>1. /\ events' = IF trips THEN <<>> ELSE kept
      /\ spent' = IF trips THEN <<>> ELSE Recorded(spent, amount)
      /\ sinceBlock' = IF trips THEN 0 ELSE sinceBlock
      /\ sinceWarn' = IF warns THEN 0 ELSE sinceWarn
      /\ overBudget' = (overBudget \/ trips)
      /\ sinceRound' = 0
  BY DEF Budget
<1>2. /\ events \in Seq(Entry) /\ spent \in Seq(Entry) /\ sinceRound \in Nat
      /\ sinceBlock \in NotYet..Penalty /\ sinceWarn \in NotYet..WarnPause
      /\ overBudget \in BOOLEAN
  BY BudgetConstants DEF BudgetInv, BudgetTypeOK, Entries, Entry
<1>3. trips \in BOOLEAN /\ warns \in BOOLEAN
  BY DEF trips, warns
<1>4. amount \in Nat
  BY <1>2, IncrementType
<1> HIDE DEF amount
<1>5. /\ Recorded(events, amount) \in Seq(Entry) /\ Recorded(spent, amount) \in Seq(Entry)
      /\ \A w \in Int : w <= BlockWindow =>
           Total(Recorded(events, amount), w) = Total(Recorded(spent, amount), w)
  <2>1. /\ Recorded(events, amount) \in Seq(Entry) /\ Recorded(spent, amount) \in Seq(Entry)
    BY <1>2, <1>4, RecordedType
  <2>2. ASSUME NEW w \in Int, w <= BlockWindow
        PROVE  Total(Recorded(events, amount), w) = Total(Recorded(spent, amount), w)
    <3>1. Total(events, w) = Total(spent, w)
      BY <2>2 DEF BudgetInv, Agree
    <3>2. Total(Recorded(events, amount), w) = Total(events, w) + (IF 0 <= w THEN amount ELSE 0)
      BY <1>2, <1>4, RecordedType
    <3>3. Total(Recorded(spent, amount), w) = Total(spent, w) + (IF 0 <= w THEN amount ELSE 0)
      BY <1>2, <1>4, RecordedType
    <3> QED
      BY <3>1, <3>2, <3>3
  <2> QED
    BY <2>1, <2>2
<1>6. kept \in Seq(Entry)
  BY <1>5, YoungerType, BudgetConstants DEF Pruned
<1>7. ASSUME NEW w \in Int, w <= BlockWindow
      PROVE  Total(kept, w) = Total(Recorded(spent, amount), w)
  <2>1. w <= KeepFor /\ KeepFor \in Int
    BY <1>7, BudgetConstants
  <2>2. Total(Younger(Recorded(events, amount), KeepFor), w) = Total(Recorded(events, amount), w)
    BY <1>5, <2>1, TotalYounger
  <2> QED
    BY <1>5, <1>7, <2>2 DEF Pruned
<1>8. /\ BlockWindow \in Int /\ Penalty \in Nat /\ Penalty >= 1 /\ WarnPause \in Nat
      /\ BlockWindow <= BlockWindow /\ BlockLimit \in Int /\ NotYet = -1
  BY BudgetAssumption, BudgetConstants DEF NotYet
<1>9. Total(kept, BlockWindow) \in Nat
  BY <1>6, <1>8, TotalType
<1>10. CASE trips
  <2>1. events' = <<>> /\ spent' = <<>> /\ sinceBlock' = 0
    BY <1>1, <1>10
  <2>2. <<>> \in Seq(Entry)
    OBVIOUS
  <2> HIDE DEF trips, warns, kept
  <2>3. sinceWarn' \in NotYet..WarnPause /\ overBudget' \in BOOLEAN
    BY <1>1, <1>2, <1>3, <1>8
  <2>4. Agree'
    BY <2>1 DEF Agree
  <2>5. 0 \in NotYet..Penalty /\ 0 \in 0..(Penalty - 1)
    BY <1>8
  <2> QED
    BY <1>1, <2>1, <2>2, <2>3, <2>4, <2>5
<1>11. CASE ~trips
  <2>1. events' = kept /\ spent' = Recorded(spent, amount) /\ sinceBlock' = sinceBlock
    BY <1>1, <1>11
  <2>2. \/ Total(kept, BlockWindow) < BlockLimit
        \/ sinceBlock \in 0..(Penalty - 1)
    BY <1>2, <1>8, <1>9, <1>11
  <2>3. Total(kept, BlockWindow) = Total(Recorded(spent, amount), BlockWindow)
    BY <1>7, <1>8
  <2>4. \A w \in Int : w <= BlockWindow => Total(events', w) = Total(spent', w)
    BY <1>7, <2>1
  <2> HIDE DEF trips, warns, kept
  <2>5. sinceWarn' \in NotYet..WarnPause /\ overBudget' \in BOOLEAN
    BY <1>1, <1>2, <1>3, <1>8
  <2> QED
    BY <1>1, <1>2, <1>5, <1>6, <2>1, <2>2, <2>3, <2>4, <2>5 DEF Agree
<1> QED
  BY <1>10, <1>11

LEMMA BudgetAtFirst == BudgetInit => BudgetInv
<1> SUFFICES ASSUME BudgetInit PROVE BudgetInv
  OBVIOUS
<1>1. Agree
  BY DEF BudgetInit, Agree
<1>2. /\ 0 \in 0..MaxBoxes /\ 0 \in 0..Slack /\ <<>> \in Entries
      /\ NotYet \in NotYet..Penalty /\ NotYet \in NotYet..WarnPause /\ One \in One..ScaleMax
  BY BudgetConstants DEF Entries, NotYet
<1> QED
  BY <1>1, <1>2 DEF BudgetInit, BudgetInv, BudgetTypeOK

LEMMA BudgetStays == BudgetInv /\ [BudgetNext]_budgetVars => BudgetInv'
<1> SUFFICES ASSUME BudgetInv, [BudgetNext]_budgetVars PROVE BudgetInv'
  OBVIOUS
<1>0. Entries = Seq(Entry)
  BY DEF Entries, Entry
<1>1. CASE UNCHANGED budgetVars
  BY <1>1 DEF budgetVars, BudgetInv, BudgetTypeOK, Agree
<1>2. CASE ChangeBudget \/ Consume \/ PauseCensor
  <2>1. UNCHANGED <<events, spent>>
    BY <1>2 DEF ChangeBudget, Consume, PauseCensor
  <2>2. 0 \in 0..MaxBoxes /\ One \in One..ScaleMax
    BY BudgetConstants
  <2>3. BudgetTypeOK'
    BY <1>2, <2>2 DEF ChangeBudget, Consume, PauseCensor, BudgetInv, BudgetTypeOK
  <2> QED
    BY <2>1, <2>3 DEF BudgetInv, Agree
<1>3. CASE BudgetSecond
  <2>1. /\ events' = Younger(Aged(events), KeepFor + 1)
        /\ spent' = Younger(Aged(spent), BlockWindow)
        /\ events \in Seq(Entry) /\ spent \in Seq(Entry)
    BY <1>0, <1>3 DEF BudgetSecond, BudgetInv, BudgetTypeOK
  <2>2. Aged(events) \in Seq(Entry) /\ Aged(spent) \in Seq(Entry)
    BY <2>1, AgedType
  <2>3. KeepFor + 1 \in Int /\ BlockWindow \in Int /\ BlockWindow <= KeepFor + 1
    BY BudgetConstants
  <2>4. events' \in Seq(Entry) /\ spent' \in Seq(Entry)
    BY <2>1, <2>2, <2>3, YoungerType
  <2>5. ASSUME NEW w \in Int, w <= BlockWindow PROVE Total(events', w) = Total(spent', w)
    <3>1. w <= KeepFor + 1 /\ w - 1 \in Int /\ w - 1 <= BlockWindow
      BY <2>3, <2>5
    <3>2. Total(events', w) = Total(Aged(events), w)
      BY <2>1, <2>2, <2>3, <3>1, TotalYounger
    <3>3. Total(spent', w) = Total(Aged(spent), w)
      BY <2>1, <2>2, <2>3, <2>5, TotalYounger
    <3>4. Total(Aged(events), w) = Total(events, w - 1) /\ Total(Aged(spent), w) = Total(spent, w - 1)
      BY <2>1, TotalAged
    <3>5. Total(events, w - 1) = Total(spent, w - 1)
      BY <3>1 DEF BudgetInv, Agree
    <3> QED
      BY <3>2, <3>3, <3>4, <3>5
  <2>6. Agree'
    BY <2>5 DEF Agree
  <2>7. /\ sinceRound' \in 0..Slack
        /\ sinceBlock' \in NotYet..Penalty
        /\ sinceWarn' \in NotYet..WarnPause
    BY <1>3, BudgetConstants DEF BudgetSecond, BudgetInv, BudgetTypeOK, UpTo, NotYet
  <2>8. BudgetTypeOK'
    BY <1>0, <1>3, <2>4, <2>7 DEF BudgetSecond, BudgetInv, BudgetTypeOK
  <2> QED
    BY <2>6, <2>8 DEF BudgetInv
<1>4. ASSUME NEW new \in 0..MaxBoxes, NEW have \in 0..MaxBoxes, NEW sum \in 0..(CoverLimit + 1),
             EndRound(new, have, sum)
      PROVE  BudgetInv'
  <2>1. /\ new \in Nat /\ have \in Nat /\ sum \in Nat
        /\ 0 \in 0..Slack /\ One \in One..ScaleMax /\ UpTo(sinceRound, Slack) \in Nat
    BY BudgetConstants DEF BudgetInv, BudgetTypeOK, UpTo
  <2>2. boxes' = have /\ UNCHANGED <<budgetOn, coverOn>>
    BY <1>4 DEF EndRound
  <2>3. scale' \in One..ScaleMax
    BY <1>4, <2>1, EscalatedType DEF EndRound, BudgetInv, BudgetTypeOK
  <2>4. CASE Budget(new, have)
    <3>1. BudgetTypeOK'
      BY <1>0, <2>1, <2>2, <2>3, <2>4, BudgetRound DEF BudgetInv, BudgetTypeOK
    <3> QED
      BY <2>1, <2>4, <3>1, BudgetRound DEF BudgetInv
  <2>5. CASE UNCHANGED <<events, sinceRound, sinceBlock, sinceWarn, overBudget, spent>>
    <3>1. BudgetTypeOK'
      BY <2>2, <2>3, <2>5 DEF BudgetInv, BudgetTypeOK
    <3> QED
      BY <2>5, <3>1 DEF BudgetInv, Agree
  <2> QED
    BY <1>4, <2>4, <2>5 DEF EndRound
<1> QED
  BY <1>1, <1>2, <1>3, <1>4 DEF BudgetNext

\* For any metric, limits and windows, the tracker's entries are positive amounts, and
\* the size of the boxes stays between 1.0 and coverage_escalation's maximum.
\* (pipeline.rs ExposureTracker, escalation_scale)
THEOREM BudgetIsTyped == BudgetSpec => []BudgetTypeOK
<1>1. BudgetInv => BudgetTypeOK
  BY DEF BudgetInv
<1> QED
  BY <1>1, BudgetAtFirst, BudgetStays, PTL DEF BudgetSpec

\* For any of them, what was done within the block window since the last trip counts
\* towards the limit, however old events are pruned.  (ExposureTracker: record, prune,
\* sum_within)
THEOREM BudgetIsKeptAlways == BudgetSpec => BudgetIsKept
<1>1. BudgetInv /\ [BudgetNext]_budgetVars => [budgetOn => RoundKeepsBudget]_budgetVars
  <2> SUFFICES ASSUME BudgetInv, budgetOn,
                      NEW new \in 0..MaxBoxes, NEW have \in 0..MaxBoxes,
                      NEW sum \in 0..(CoverLimit + 1), EndRound(new, have, sum)
               PROVE  \/ Total(spent', BlockWindow) < BlockLimit
                      \/ sinceBlock' \in 0..(Penalty - 1)
    BY DEF RoundKeepsBudget
  <2>1. new \in Nat /\ have \in Nat
    BY BudgetConstants
  <2>2. Budget(new, have)
    BY DEF EndRound
  <2> QED
    BY <2>1, <2>2, BudgetRound
<1> QED
  BY <1>1, BudgetAtFirst, BudgetStays, PTL DEF BudgetSpec, BudgetIsKept

-----------------------------------------------------------------------------
(* The overlay's windows *)

\* What a window shows once a region is assigned to it, in a style.
Serves(w, r, drawn) ==
  /\ w.at = r.at /\ w.fill = Background(r, drawn) /\ w.text = Background(r, drawn)
  /\ w.layer = Interior(w.layer, r, drawn)

\* Drawing a window again changes nothing.
LEMMA InteriorStays ==
  ASSUME NEW r \in Region, NEW drawn \in Look,
         NEW layer \in Pixels \union {NoContent, Noise, Image}
  PROVE  /\ Interior(layer, r, drawn) \in Pixels \union {NoContent, Noise, Image}
         /\ Interior(Interior(layer, r, drawn), r, drawn) = Interior(layer, r, drawn)
<1>1. /\ r.role \in {"censor", "highlight"} /\ r.pixels \in Pixels \union {NoContent}
      /\ Mode[drawn] \in {"box", "pixels", "static", "image"}
  BY PoolAssumption DEF Region
<1> QED
  BY <1>1 DEF Interior

LEMMA BackgroundType ==
  ASSUME NEW r \in Region, NEW drawn \in Look
  PROVE  Background(r, drawn) \in Look \union {Outline}
  BY DEF Background

\* A window of the type is still one when it was assigned, restyled or hidden.
LEMMA AssignedServes ==
  ASSUME PoolTypeOK, NEW i \in Nat, NEW r \in Region, NEW w \in PoolWindow,
         NEW known, known \in BOOLEAN,
         known /\ i \in DOMAIN lastRegions =>
           w.at = lastRegions[i].at /\ w.fill = Background(lastRegions[i], look)
  PROVE  /\ Assigned(w, i, r) \in PoolWindow
         /\ Assigned(w, i, r).visible = TRUE /\ Assigned(w, i, r).secret = w.secret
         /\ known => Serves(Assigned(w, i, r), r, look)
<1> DEFINE a == Assigned(w, i, r)
<1>1. /\ w.layer \in Pixels \union {NoContent, Noise, Image} /\ look \in Look
      /\ r.at \in Spot /\ w.at \in Spot /\ w.secret \in BOOLEAN
      /\ w.fill \in Look \union {Outline}
  BY DEF PoolTypeOK, PoolWindow, Region
<1>2. /\ a.at = (IF Moved(i, r) THEN r.at ELSE w.at)
      /\ a.fill = (IF RoleChanged(i, r) THEN Background(r, look) ELSE w.fill)
      /\ a.text = Background(r, look)
      /\ a.layer = Interior(w.layer, r, look)
      /\ a.visible = TRUE /\ a.secret = w.secret
  BY DEF Assigned
<1>3. known => a.at = r.at
  BY <1>2 DEF Moved
<1>4. known => a.fill = Background(r, look)
  BY <1>2 DEF RoleChanged, Background
<1>5. a.layer = Interior(a.layer, r, look)
      /\ a.layer \in Pixels \union {NoContent, Noise, Image}
  BY <1>1, <1>2, InteriorStays
<1>6. a \in PoolWindow
  <2>1. /\ a.at \in Spot /\ a.fill \in Look \union {Outline}
        /\ a.text \in Look \union {Outline, NoContent}
        /\ a.visible \in BOOLEAN /\ a.secret \in BOOLEAN
    BY <1>1, <1>2, BackgroundType
  <2>2. a = [at |-> a.at, fill |-> a.fill, text |-> a.text, layer |-> a.layer,
             visible |-> a.visible, secret |-> a.secret]
    BY DEF Assigned
  <2> QED
    BY <1>5, <2>1, <2>2 DEF PoolWindow
<1> QED
  BY <1>2, <1>3, <1>4, <1>5, <1>6 DEF Serves

\* A new window is one, and is hidden from captures as the style wants.
LEMMA NewWindowType ==
  ASSUME PoolTypeOK, NEW at \in Spot
  PROVE  /\ NewWindow(at) \in PoolWindow
         /\ NewWindow(at).secret = (look \notin InCaptures)
  BY DEF NewWindow, PoolWindow, PoolTypeOK

\* The windows that the first n regions are assigned to,
LEMMA AssignedWindow ==
  ASSUME PoolTypeOK, ScreenIsAsTold, NEW regions \in Seq(Region),
         NEW n \in 0..Len(regions), NEW i \in 1..n
  PROVE  LET a == Assigned(WindowFor(i, regions[i]), i, regions[i])
         IN /\ a \in PoolWindow /\ a.visible = TRUE
            /\ ~broken => a.secret = (look \notin InCaptures)
            /\ ~broken => Serves(a, regions[i], look)
<1> DEFINE w == WindowFor(i, regions[i])
           a == Assigned(w, i, regions[i])
<1>1. Len(pool) \in Nat /\ DOMAIN pool = 1..Len(pool) /\ pool \in Seq(PoolWindow)
  BY LenProperties DEF PoolTypeOK
<1>2. \A j \in DOMAIN pool : pool[j] \in PoolWindow
  BY <1>1
<1>3. ~broken => /\ DOMAIN lastRegions = 1..Len(lastRegions)
                 /\ Len(lastRegions) \in Nat /\ Len(pool) >= Len(lastRegions)
  BY LenProperties DEF PoolTypeOK, ScreenIsAsTold
<1>4. Len(regions) \in Nat /\ i \in Nat /\ i \in 1..Len(regions)
  OBVIOUS
<1>5. regions[i] \in Region
  BY <1>4
<1>6. regions[i].at \in Spot
  BY <1>5 DEF Region
<1>7. w \in PoolWindow
  BY <1>2, <1>6, NewWindowType DEF WindowFor
<1>8. ~broken => w.secret = (look \notin InCaptures)
  <2>1. CASE i \in DOMAIN pool
    <3>1. ~broken => (pool[i].secret <=> look \notin InCaptures)
      BY <2>1, Zenon DEF ScreenIsAsTold
    <3>2. pool[i].secret \in BOOLEAN
      BY <1>2, <2>1 DEF PoolWindow
    <3>3. w = pool[i]
      BY <2>1 DEF WindowFor
    <3> HIDE DEF w
    <3> QED
      BY <3>1, <3>2, <3>3
  <2>2. CASE i \notin DOMAIN pool
    BY <2>2, <1>6, NewWindowType DEF WindowFor
  <2> QED
    BY <2>1, <2>2
<1>9. ~broken /\ i \in DOMAIN lastRegions =>
        w.at = lastRegions[i].at /\ w.fill = Background(lastRegions[i], look)
  <2>1. SUFFICES ASSUME ~broken, i \in DOMAIN lastRegions
                 PROVE  w.at = lastRegions[i].at /\ w.fill = Background(lastRegions[i], look)
    OBVIOUS
  <2>2. i \in DOMAIN pool
    BY <1>1, <1>3, <2>1
  <2> QED
    BY <2>1, <2>2 DEF WindowFor, ScreenIsAsTold
<1>10. /\ a \in PoolWindow /\ a.visible = TRUE /\ a.secret = w.secret
       /\ ~broken => Serves(a, regions[i], look)
  <2>1. (~broken) \in BOOLEAN
    OBVIOUS
  <2> HIDE DEF w
  <2> QED
    BY <1>4, <1>5, <1>7, <1>9, <2>1, AssignedServes
<1> HIDE DEF w, a
<1>11. ~broken => a.secret = (look \notin InCaptures)
  BY <1>8, <1>10
<1> USE DEF w, a
<1> QED
  BY <1>10, <1>11

\* and all of them then.
LEMMA AssignedToPool ==
  ASSUME PoolTypeOK, ScreenIsAsTold, NEW regions \in Seq(Region),
         NEW n \in 0..Len(regions), NEW p, p = AssignedTo(regions, n)
  PROVE  /\ p \in Seq(PoolWindow) /\ DOMAIN p = 1..Len(p)
         /\ Len(p) \in Nat /\ Len(p) >= n /\ Len(p) >= Len(pool)
         /\ \A i \in DOMAIN p : i > n => i \in DOMAIN pool /\ p[i] = pool[i]
         /\ \A i \in 1..n : p[i].visible = TRUE
         /\ ~broken => \A i \in DOMAIN p : p[i].secret <=> look \notin InCaptures
         /\ ~broken => \A i \in 1..n : Serves(p[i], regions[i], look)
<1> DEFINE m == IF Len(pool) > n THEN Len(pool) ELSE n
           A(i) == Assigned(WindowFor(i, regions[i]), i, regions[i])
<1>1. Len(pool) \in Nat /\ DOMAIN pool = 1..Len(pool)
  BY LenProperties DEF PoolTypeOK
<1>2. \A i \in DOMAIN pool : pool[i] \in PoolWindow
  BY <1>1 DEF PoolTypeOK
<1>3. n \in Nat /\ m \in Nat /\ m >= n /\ m >= Len(pool)
  BY <1>1
<1>4. \A i \in 1..m : i <= n => i \in 1..n
  BY <1>3
<1>5. \A i \in 1..m : ~(i <= n) => i \in DOMAIN pool
  BY <1>1, <1>3
<1>6. p = [i \in 1..m |-> IF i <= n THEN A(i) ELSE pool[i]]
  BY DEF AssignedTo
<1>7. \A i \in 1..n : /\ A(i) \in PoolWindow /\ A(i).visible = TRUE
                      /\ ~broken => A(i).secret = (look \notin InCaptures)
                      /\ ~broken => Serves(A(i), regions[i], look)
  BY AssignedWindow, Zenon
<1> HIDE DEF A, m
<1>8. p \in [1..m -> PoolWindow]
  BY <1>2, <1>4, <1>5, <1>6, <1>7
<1>9. p \in Seq(PoolWindow) /\ Len(p) = m /\ DOMAIN p = 1..m
  BY <1>3, <1>8, FunctionIsSeq
<1>10. \A i \in 1..m : i > n => i \in DOMAIN pool /\ p[i] = pool[i]
  BY <1>3, <1>5, <1>6
<1>11. \A i \in 1..n : i \in 1..m /\ p[i] = A(i)
  BY <1>3, <1>6
<1>12. ~broken => \A i \in DOMAIN p : p[i].secret <=> look \notin InCaptures
  <2>1. SUFFICES ASSUME ~broken, NEW i \in 1..m
                 PROVE  p[i].secret <=> look \notin InCaptures
    BY <1>9
  <2>2. CASE i \in 1..n
    BY <1>7, <1>11, <2>1, <2>2, Zenon
  <2>3. CASE i \notin 1..n
    <3>1. i \in DOMAIN pool /\ p[i] = pool[i]
      BY <1>3, <1>10, <2>1, <2>3
    <3> QED
      BY <3>1, <2>1, Zenon DEF ScreenIsAsTold
  <2> QED
    BY <2>2, <2>3
<1>13. ~broken => \A i \in 1..n : Serves(p[i], regions[i], look)
  BY <1>7, <1>11, Zenon
<1>14. \A i \in 1..n : p[i].visible = TRUE
  BY <1>7, <1>11, Zenon
<1> QED
  BY <1>3, <1>9, <1>10, <1>12, <1>13, <1>14

-----------------------------------------------------------------------------
(* The invariant, message by message *)

\* ScreenIsAsTold, as what each window serves.
Told ==
  ~broken =>
    /\ inMenu = Len(lastRegions) /\ Len(pool) >= Len(lastRegions)
    /\ ticking = Animated(look, inMenu)
    /\ \A i \in DOMAIN pool : pool[i].visible <=> i \in DOMAIN lastRegions
    /\ \A i \in DOMAIN pool : pool[i].secret <=> look \notin InCaptures
    /\ \A i \in DOMAIN lastRegions : Serves(pool[i], lastRegions[i], look)

PoolInv == PoolTypeOK /\ Told

LEMMA PoolWindows ==
  ASSUME PoolTypeOK
  PROVE  /\ Len(pool) \in Nat /\ DOMAIN pool = 1..Len(pool)
         /\ Len(lastRegions) \in Nat /\ DOMAIN lastRegions = 1..Len(lastRegions)
         /\ \A i \in DOMAIN pool : pool[i] \in PoolWindow
         /\ \A i \in DOMAIN lastRegions : lastRegions[i] \in Region
<1>1. pool \in Seq(PoolWindow) /\ lastRegions \in Seq(Region)
  BY DEF PoolTypeOK
<1> QED
  BY <1>1, LenProperties

LEMMA HiddenWindow ==
  ASSUME NEW w \in PoolWindow, NEW v, v = [w EXCEPT !.visible = FALSE]
  PROVE  /\ v \in PoolWindow /\ v.visible = FALSE /\ v.secret = w.secret
  BY DEF PoolWindow

LEMMA RedrawnWindow ==
  ASSUME NEW w \in PoolWindow, NEW r \in Region, look \in Look,
         NEW v, v = [w EXCEPT !.layer = Interior(@, r, look)]
  PROVE  /\ v \in PoolWindow /\ v.visible = w.visible /\ v.secret = w.secret
         /\ Serves(w, r, look) => Serves(v, r, look)
<1>1. w.layer \in Pixels \union {NoContent, Noise, Image}
  BY DEF PoolWindow
<1>2. /\ Interior(w.layer, r, look) \in Pixels \union {NoContent, Noise, Image}
      /\ Interior(Interior(w.layer, r, look), r, look) = Interior(w.layer, r, look)
  BY <1>1, InteriorStays
<1>3. /\ v \in PoolWindow /\ v.at = w.at /\ v.fill = w.fill /\ v.text = w.text
      /\ v.visible = w.visible /\ v.secret = w.secret /\ v.layer = Interior(w.layer, r, look)
  BY <1>2 DEF PoolWindow
<1> QED
  BY <1>2, <1>3 DEF Serves

LEMMA ToldIsScreenAsTold == Told <=> ScreenIsAsTold
  BY Zenon DEF Told, ScreenIsAsTold, Serves

LEMMA ToldAtFirst == PoolInit => PoolInv
<1>1. SUFFICES ASSUME PoolInit PROVE PoolInv
  OBVIOUS
<1>2. Len(lastRegions) = 0 /\ Len(pool) = 0 /\ DOMAIN lastRegions = {} /\ DOMAIN pool = {}
  BY <1>1 DEF PoolInit
<1>3. Animated(look, 0) = FALSE /\ inMenu = 0 /\ ticking = FALSE
  BY <1>1 DEF PoolInit, Animated
<1>4. Told
  <2>1. Len(pool) >= Len(lastRegions) /\ inMenu = Len(lastRegions)
        /\ ticking = Animated(look, inMenu)
    <3>1. Len(pool) >= Len(lastRegions) /\ inMenu = Len(lastRegions)
      BY <1>2, <1>3
    <3> QED
      BY <1>3, <3>1, Zenon
  <2>2. \A i \in {} : FALSE
    OBVIOUS
  <2> QED
    BY <1>2, <2>1, <2>2, Zenon DEF Told
<1>5. lastRegions \in Seq(Region) /\ pool \in Seq(PoolWindow)
  <2>1. lastRegions = <<>> /\ pool = <<>>
    BY <1>1 DEF PoolInit
  <2> QED
    BY <2>1, EmptySeq
<1>6. PoolTypeOK
  BY <1>1, <1>5 DEF PoolInit, PoolTypeOK
<1> QED
  BY <1>4, <1>6 DEF PoolInv

LEMMA ToldAfterShow ==
  ASSUME PoolInv, NEW regions \in Seq(Region), ShowRegions(regions)
  PROVE  PoolInv'
<1> DEFINE n == Len(regions)
           p == AssignedTo(regions, n)
<1>1. n \in Nat /\ DOMAIN regions = 1..n /\ n \in 0..n
  BY LenProperties
<1>2. PoolTypeOK /\ ScreenIsAsTold
  BY ToldIsScreenAsTold DEF PoolInv
<1>3. pool' = SurplusHidden(p, n) /\ lastRegions' = regions /\ inMenu' = n
      /\ ticking' = Animated(look, n) /\ look' = look /\ broken' = broken
  BY DEF ShowRegions
<1> HIDE DEF n
<1>4. /\ p \in Seq(PoolWindow) /\ DOMAIN p = 1..Len(p) /\ Len(p) \in Nat /\ Len(p) >= n
      /\ \A i \in 1..n : p[i].visible = TRUE
      /\ ~broken => \A i \in DOMAIN p : p[i].secret <=> look \notin InCaptures
      /\ ~broken => \A i \in 1..n : Serves(p[i], regions[i], look)
  <2>1. n \in 0..Len(regions)
    BY <1>1 DEF n
  <2> HIDE DEF p
  <2>2. p = AssignedTo(regions, n)
    BY DEF p
  <2> QED
    BY <1>2, <2>1, <2>2, AssignedToPool
<1> HIDE DEF p
<1>5. /\ DOMAIN pool' = 1..Len(p)
      /\ \A i \in 1..Len(p) : /\ p[i] \in PoolWindow
                              /\ i > n => pool'[i] = [p[i] EXCEPT !.visible = FALSE]
                              /\ ~(i > n) => pool'[i] = p[i]
  BY <1>3, <1>4 DEF SurplusHidden
<1>6. \A i \in 1..Len(p) : /\ pool'[i] \in PoolWindow
                           /\ i > n => pool'[i].visible = FALSE
                           /\ pool'[i].secret = p[i].secret
  BY <1>5, HiddenWindow
<1>7. pool' \in Seq(PoolWindow) /\ Len(pool') = Len(p)
  <2>1. pool' = [i \in 1..Len(p) |-> IF i > n THEN [p[i] EXCEPT !.visible = FALSE] ELSE p[i]]
    BY <1>3, <1>4 DEF SurplusHidden
  <2>2. pool' \in [1..Len(p) -> PoolWindow]
    BY <1>5, <1>6, <2>1
  <2> QED
    BY <1>4, <2>2, FunctionIsSeq
<1>8. \A i \in 1..n : i \in 1..Len(p) /\ ~(i > n) /\ pool'[i] = p[i]
  BY <1>1, <1>4, <1>5
<1>9. \A i \in DOMAIN pool' : pool'[i].visible <=> i \in DOMAIN lastRegions'
  <2>1. SUFFICES ASSUME NEW i \in 1..Len(p) PROVE pool'[i].visible <=> i \in 1..n
    BY <1>1, <1>3, <1>5
  <2>2. CASE i > n
    <3>1. i \notin 1..n
      BY <1>1, <2>2
    <3>2. pool'[i].visible = FALSE
      BY <1>6, <2>2
    <3> QED
      BY <3>1, <3>2, Zenon
  <2>3. CASE ~(i > n)
    <3>1. i \in 1..n
      BY <1>1, <1>4, <2>3
    <3>2. pool'[i].visible = TRUE
      BY <1>4, <1>8, <3>1
    <3> QED
      BY <3>1, <3>2, Zenon
  <2> QED
    BY <2>2, <2>3
<1>10. ~broken => \A i \in DOMAIN pool' : pool'[i].secret <=> look \notin InCaptures
  <2>1. \A i \in DOMAIN pool' : i \in DOMAIN p /\ pool'[i].secret = p[i].secret
    BY <1>4, <1>5, <1>6
  <2> QED
    BY <1>4, <2>1, Zenon
<1>11. ~broken => \A i \in 1..n : Serves(pool'[i], regions[i], look)
  BY <1>4, <1>8, Zenon
<1>12. Told'
  <2>1. Len(lastRegions') = n /\ DOMAIN lastRegions' = 1..n /\ Len(pool') >= Len(lastRegions')
    BY <1>1, <1>3, <1>4, <1>7 DEF n
  <2>2. SUFFICES ASSUME ~broken'
                 PROVE  /\ inMenu' = Len(lastRegions') /\ Len(pool') >= Len(lastRegions')
                        /\ ticking' = Animated(look', inMenu')
                        /\ \A i \in DOMAIN pool' : pool'[i].visible <=> i \in DOMAIN lastRegions'
                        /\ \A i \in DOMAIN pool' : pool'[i].secret <=> look' \notin InCaptures
                        /\ \A i \in DOMAIN lastRegions' : Serves(pool'[i], lastRegions'[i], look')
    BY DEF Told, Animated, Serves, Interior, Background
  <2> QED
    BY <1>3, <1>9, <1>10, <1>11, <2>1, <2>2, Zenon
<1>13. PoolTypeOK'
  BY <1>1, <1>2, <1>3, <1>7 DEF PoolTypeOK, Animated
<1> QED
  BY <1>12, <1>13 DEF PoolInv

LEMMA ToldAfterFailure ==
  ASSUME PoolInv, NEW regions \in Seq(Region), FailToShow(regions)
  PROVE  PoolInv'
<1>1. PICK n \in Len(pool)..(Len(regions) - 1) : pool' = AssignedTo(regions, n) /\ broken' = TRUE
  BY DEF FailToShow
<1>2. PoolTypeOK /\ ScreenIsAsTold
  BY ToldIsScreenAsTold DEF PoolInv
<1>3. n \in 0..Len(regions)
  BY <1>1, <1>2, PoolWindows, LenProperties
<1>4. pool' \in Seq(PoolWindow)
  BY <1>1, <1>2, <1>3, AssignedToPool
<1>5. PoolTypeOK'
  BY <1>1, <1>2, <1>4 DEF PoolTypeOK, FailToShow
<1> QED
  BY <1>1, <1>5 DEF PoolInv, Told

LEMMA ToldAfterLook ==
  ASSUME PoolInv, NEW drawn \in Look, ChangeLook(drawn)
  PROVE  PoolInv'
<1>1. PoolTypeOK /\ Told
  BY DEF PoolInv
<1>2. /\ look' = drawn /\ pool' = [i \in DOMAIN pool |-> Restyled(i, pool[i], drawn)]
      /\ ticking' = Animated(drawn, inMenu)
      /\ lastRegions' = lastRegions /\ inMenu' = inMenu /\ broken' = broken
  BY DEF ChangeLook
<1>3. ASSUME NEW i \in DOMAIN pool, NEW v, v = Restyled(i, pool[i], drawn)
      PROVE  /\ v \in PoolWindow /\ v.visible = pool[i].visible
             /\ v.secret = (drawn \notin InCaptures)
             /\ ~broken /\ i \in DOMAIN lastRegions => Serves(v, lastRegions[i], drawn)
  <2> DEFINE used == i \in DOMAIN lastRegions
             r == lastRegions[i]
             w == pool[i]
  <2>1. w \in PoolWindow /\ (used => r \in Region)
    BY <1>1, PoolWindows
  <2>2. /\ w.at \in Spot /\ w.text \in Look \union {Outline, NoContent}
        /\ w.layer \in Pixels \union {NoContent, Noise, Image} /\ w.visible \in BOOLEAN
    BY <2>1 DEF PoolWindow
  <2>3. /\ v.at = w.at /\ v.visible = w.visible /\ v.secret = (drawn \notin InCaptures)
        /\ v.fill = (IF used THEN Background(r, drawn) ELSE drawn)
        /\ v.text = (IF used THEN Background(r, drawn) ELSE w.text)
        /\ v.layer = (IF used THEN Interior(w.layer, r, drawn) ELSE w.layer)
    BY <1>3 DEF Restyled
  <2>4. used => /\ Background(r, drawn) \in Look \union {Outline}
                /\ Interior(w.layer, r, drawn) \in Pixels \union {NoContent, Noise, Image}
                /\ Interior(Interior(w.layer, r, drawn), r, drawn) = Interior(w.layer, r, drawn)
    BY <2>1, <2>2, BackgroundType, InteriorStays
  <2>5. ~broken /\ used => w.at = r.at
    BY <1>1 DEF Told, Serves
  <2>6. v = [at |-> v.at, fill |-> v.fill, text |-> v.text, layer |-> v.layer,
             visible |-> v.visible, secret |-> v.secret]
    BY <1>3 DEF Restyled
  <2>7. v.secret \in BOOLEAN
    BY <2>3
  <2> HIDE DEF used, r, w
  <2>8. /\ v.at \in Spot /\ v.fill \in Look \union {Outline}
        /\ v.text \in Look \union {Outline, NoContent} /\ v.visible \in BOOLEAN
        /\ v.layer \in Pixels \union {NoContent, Noise, Image}
    BY <2>2, <2>3, <2>4
  <2>9. v \in PoolWindow
    BY <2>6, <2>7, <2>8 DEF PoolWindow
  <2>10. ~broken /\ used => Serves(v, r, drawn)
    BY <2>3, <2>4, <2>5 DEF Serves
  <2> QED
    BY <2>3, <2>9, <2>10 DEF used, r, w
<1>4. Len(pool) \in Nat /\ DOMAIN pool = 1..Len(pool)
  BY <1>1, PoolWindows
<1>5. \A i \in DOMAIN pool :
        /\ pool'[i] \in PoolWindow /\ pool'[i].visible = pool[i].visible
        /\ pool'[i].secret = (drawn \notin InCaptures)
        /\ ~broken /\ i \in DOMAIN lastRegions => Serves(pool'[i], lastRegions[i], drawn)
  BY <1>2, <1>3, Zenon
<1>6. pool' \in [1..Len(pool) -> PoolWindow]
  BY <1>2, <1>4, <1>5
<1>7. pool' \in Seq(PoolWindow) /\ Len(pool') = Len(pool) /\ DOMAIN pool' = DOMAIN pool
  BY <1>4, <1>6, FunctionIsSeq
<1>8. PoolTypeOK'
  BY <1>1, <1>2, <1>7 DEF PoolTypeOK, Animated
<1>9. Told'
  <2>1. SUFFICES ASSUME ~broken'
                 PROVE  /\ inMenu' = Len(lastRegions') /\ Len(pool') >= Len(lastRegions')
                        /\ ticking' = Animated(look', inMenu')
                        /\ \A i \in DOMAIN pool' : pool'[i].visible <=> i \in DOMAIN lastRegions'
                        /\ \A i \in DOMAIN pool' : pool'[i].secret <=> look' \notin InCaptures
                        /\ \A i \in DOMAIN lastRegions' : Serves(pool'[i], lastRegions'[i], look')
    BY DEF Told, Animated, Serves, Interior, Background
  <2>2. inMenu' = Len(lastRegions') /\ Len(pool') >= Len(lastRegions')
    BY <1>1, <1>2, <1>7, <2>1 DEF Told
  <2>3. \A i \in DOMAIN lastRegions : i \in DOMAIN pool
    BY <1>1, <1>2, <1>4, <2>1, PoolWindows DEF Told
  <2>4. \A i \in DOMAIN pool' : pool'[i].visible <=> i \in DOMAIN lastRegions'
    BY <1>1, <1>2, <1>5, <1>7, <2>1, Zenon DEF Told
  <2> QED
    BY <1>2, <1>5, <1>7, <2>1, <2>2, <2>3, <2>4, Zenon
<1> QED
  BY <1>8, <1>9 DEF PoolInv

LEMMA ToldAfterTick ==
  ASSUME PoolInv, NoiseTick
  PROVE  PoolInv'
<1>1. PoolTypeOK /\ Told
  BY DEF PoolInv
<1> DEFINE drawn(i) == i \in DOMAIN lastRegions /\ i <= inMenu
<1>2. /\ pool' = [i \in DOMAIN pool |->
                   IF drawn(i) THEN [pool[i] EXCEPT !.layer = Interior(@, lastRegions[i], look)]
                   ELSE pool[i]]
      /\ ticking' = Animated(look, inMenu)
      /\ look' = look /\ lastRegions' = lastRegions /\ inMenu' = inMenu /\ broken' = broken
  BY DEF NoiseTick
<1>3. /\ Len(pool) \in Nat /\ DOMAIN pool = 1..Len(pool)
      /\ \A i \in DOMAIN pool : pool[i] \in PoolWindow
      /\ \A i \in DOMAIN lastRegions : lastRegions[i] \in Region
      /\ look \in Look
  BY <1>1, PoolWindows DEF PoolTypeOK
<1>4. ASSUME NEW i \in DOMAIN pool
      PROVE  /\ pool'[i] \in PoolWindow /\ pool'[i].visible = pool[i].visible
             /\ pool'[i].secret = pool[i].secret
             /\ Serves(pool[i], lastRegions[i], look) => Serves(pool'[i], lastRegions[i], look)
  <2>1. CASE drawn(i)
    <3>1. pool'[i] = [pool[i] EXCEPT !.layer = Interior(@, lastRegions[i], look)]
      BY <1>2, <2>1
    <3>2. lastRegions[i] \in Region
      BY <1>3, <2>1
    <3> QED
      BY <1>3, <3>1, <3>2, RedrawnWindow
  <2>2. CASE ~drawn(i)
    <3>1. pool'[i] = pool[i]
      BY <1>2, <2>2
    <3> QED
      BY <1>3, <3>1
  <2> QED
    BY <2>1, <2>2
<1> HIDE DEF drawn
<1>5. pool' \in [1..Len(pool) -> PoolWindow]
  BY <1>2, <1>3, <1>4
<1>6. pool' \in Seq(PoolWindow) /\ Len(pool') = Len(pool) /\ DOMAIN pool' = DOMAIN pool
  BY <1>3, <1>5, FunctionIsSeq
<1>7. PoolTypeOK'
  BY <1>1, <1>2, <1>6 DEF PoolTypeOK, Animated
<1>8. Told'
  <2>1. SUFFICES ASSUME ~broken'
                 PROVE  /\ inMenu' = Len(lastRegions') /\ Len(pool') >= Len(lastRegions')
                        /\ ticking' = Animated(look', inMenu')
                        /\ \A i \in DOMAIN pool' : pool'[i].visible <=> i \in DOMAIN lastRegions'
                        /\ \A i \in DOMAIN pool' : pool'[i].secret <=> look' \notin InCaptures
                        /\ \A i \in DOMAIN lastRegions' : Serves(pool'[i], lastRegions'[i], look')
    BY DEF Told, Animated, Serves, Interior, Background
  <2>2. inMenu' = Len(lastRegions') /\ Len(pool') >= Len(lastRegions')
    BY <1>1, <1>2, <1>6, <2>1 DEF Told
  <2>3. \A i \in DOMAIN lastRegions : i \in DOMAIN pool
    BY <1>1, <1>2, <1>3, <2>1, PoolWindows DEF Told
  <2>4. \A i \in DOMAIN pool' : /\ pool'[i].visible <=> i \in DOMAIN lastRegions'
                                /\ pool'[i].secret <=> look' \notin InCaptures
    BY <1>1, <1>2, <1>4, <1>6, <2>1, Zenon DEF Told
  <2>5. \A i \in DOMAIN lastRegions' : Serves(pool'[i], lastRegions'[i], look')
    BY <1>1, <1>2, <1>4, <2>1, <2>3, Zenon DEF Told
  <2> QED
    BY <1>2, <2>1, <2>2, <2>4, <2>5, Zenon
<1> QED
  BY <1>7, <1>8 DEF PoolInv

LEMMA ToldStays == PoolInv /\ [PoolNext]_poolVars => PoolInv'
<1>1. SUFFICES ASSUME PoolInv, [PoolNext]_poolVars PROVE PoolInv'
  OBVIOUS
<1>2. RegionLists \subseteq Seq(Region)
  BY PoolAssumption DEF RegionLists, BoundedSeq, SeqOf
<1>3. ASSUME NEW regions \in RegionLists, SameRegions(regions) PROVE PoolInv'
  BY <1>1, <1>3, ZenonT(40) DEF SameRegions, poolVars, PoolInv, PoolTypeOK, Told, Serves, Interior,
                    Background, Animated
<1>4. ASSUME NEW regions \in RegionLists, ShowRegions(regions) PROVE PoolInv'
  BY <1>1, <1>2, <1>4, ToldAfterShow
<1>5. ASSUME NEW regions \in RegionLists, FailToShow(regions) PROVE PoolInv'
  BY <1>1, <1>2, <1>5, ToldAfterFailure
<1>6. ASSUME NEW drawn \in Look, ChangeLook(drawn) PROVE PoolInv'
  BY <1>1, <1>6, ToldAfterLook
<1>7. CASE NoiseTick
  BY <1>1, <1>7, ToldAfterTick
<1>8. CASE UNCHANGED poolVars
  BY <1>1, <1>8, ZenonT(40) DEF poolVars, PoolInv, PoolTypeOK, Told, Serves, Interior, Background, Animated
<1> QED
  BY <1>1, <1>3, <1>4, <1>5, <1>6, <1>7, <1>8 DEF PoolNext

\* Whatever lists of regions, styles and ticks of the noise arrive, in any
\* order, the screen shows what the last of each says, until a window cannot
\* be created (OverlayApp::apply_regions, apply_style, tick_noise).
THEOREM ScreenIsAsToldAlways == PoolSpec => []ScreenIsAsTold
<1>1. PoolInit => PoolInv
  BY ToldAtFirst
<1>2. PoolInv /\ [PoolNext]_poolVars => PoolInv'
  BY ToldStays
<1>3. PoolInv => ScreenIsAsTold
  BY ToldIsScreenAsTold DEF PoolInv
<1> QED
  BY <1>1, <1>2, <1>3, PTL DEF PoolSpec

\* The windows, their places and contents are of their types, also after a
\* window could not be created.
THEOREM PoolIsTyped == PoolSpec => []PoolTypeOK
<1>1. PoolInit => PoolInv
  BY ToldAtFirst
<1>2. PoolInv /\ [PoolNext]_poolVars => PoolInv'
  BY ToldStays
<1>3. PoolInv => PoolTypeOK
  BY DEF PoolInv
<1> QED
  BY <1>1, <1>2, <1>3, PTL DEF PoolSpec

-----------------------------------------------------------------------------
(* The agent *)

LEMMA PartsAtFirst ==
  AgentInit => /\ ClockInit /\ ChallengeInit /\ ObserverInit /\ CaptureInit
               /\ ScanInit /\ BoxInit /\ BudgetInit /\ PoolInit
  BY DEF AgentInit

\* A step of the agent is one of a part, and leaves the others as they are.
LEMMA PartsStep ==
  [AgentNext]_agentVars =>
    /\ [ClockNext]_clockVars /\ [ChallengeNext]_challengeVars
    /\ [ObserverNext]_observerVars /\ [CaptureNext]_captureVars
    /\ [ScanNext]_scanVars /\ [BoxNext]_boxVars
    /\ [BudgetNext]_budgetVars /\ [PoolNext]_poolVars
<1>1. CASE UNCHANGED agentVars
  BY <1>1 DEF agentVars
<1>2. CASE AgentNext
  BY <1>2 DEF AgentNext
<1> QED
  BY <1>1, <1>2

\* A behaviour of the agent is one of each of its threads, so that what is proved of a
\* part alone holds of the agent.
THEOREM AgentIsItsParts ==
  AgentSpec => /\ ClockSpec /\ ChallengeSpec /\ ObserverSpec /\ CaptureSpec
               /\ ScanSpec /\ BoxSpec /\ BudgetSpec /\ PoolSpec
  BY PartsAtFirst, PartsStep, PTL
     DEF AgentSpec, ClockSpec, ChallengeSpec, ObserverSpec, CaptureSpec, ScanSpec, BoxSpec,
         BudgetSpec, PoolSpec

\* The state of every part is of its type.
THEOREM AgentIsTyped == AgentSpec => []AgentTypeOK
<1>1. /\ ClockTypeOK /\ ChallengeTypeOK /\ ObserverTypeOK /\ CaptureTypeOK
      /\ ScanTypeOK /\ BoxTypeOK /\ BudgetTypeOK /\ PoolTypeOK
      => AgentTypeOK
  BY DEF AgentTypeOK
<1> QED
  BY <1>1, AgentIsItsParts, ClockIsTyped, ChallengeIsTyped, ObserverIsTyped, CaptureIsTyped,
     ScanIsTyped, BoxesAreTyped, BudgetIsTyped, PoolIsTyped, PTL

\* The agent's censor covers what was flagged, shows the boxes it holds, leaves no trail
\* and replays only what is in the pixels, for any number of monitors, tiles, places,
\* detections and settings.  (pipeline.rs run, detect.rs TileCache)
THEOREM CensorHoldsAlways == AgentSpec => []CensorHolds
<1>1. FlaggedIsCovered /\ OverlayIsCurrent /\ NoTrail /\ ReplaysAreTrueOrSpoiled
      => CensorHolds
  BY DEF CensorHolds
<1> QED
  BY <1>1, AgentIsItsParts, FlaggedIsCoveredAlways, OverlayIsCurrentAlways, NoTrailAlways,
     ReplaysAreTrueOrSpoiledAlways, PTL
=============================================================================
