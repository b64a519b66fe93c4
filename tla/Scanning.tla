------------------------------ MODULE Scanning ------------------------------
(***************************************************************************)
(* How frames are scanned (detect.rs detect_tiled, pipeline.rs's detector    *)
(* pool): a tile whose pixels have not changed replays what was found in it  *)
(* before, frames of several monitors are scanned in parallel by a pool of   *)
(* detectors, and a detector whose session has wedged is replaced after      *)
(* three failures in a row.                                                  *)
(*                                                                          *)
(* What a scan finds is represented by what it depends on: the key (geometry *)
(* and thresholds) and the tile's content; models are not told apart.  A     *)
(* round of the pipeline is one action: nothing else touches pool or caches. *)
(* The full-frame pass, which is never cached, is left out, and so are the   *)
(* numerics of inference, letterboxing and non-maximum suppression.          *)
(***************************************************************************)
EXTENDS Integers, Sequences, FiniteSets, SequencesExt

CONSTANTS
  Monitor,
  Tile,      \* the tiles of a frame
  Content,   \* what a tile may show
  Key,       \* frame geometry, confidence and IoU thresholds, by value
  Model,
  Unscanned

ASSUME ScanningAssumption ==
  /\ IsFiniteSet(Monitor) /\ Monitor # {}
  /\ Unscanned \notin Content

VARIABLES
  key,        \* the key of the current settings
  modelSet,   \* the model of the current settings
  loaded,     \* loaded_model
  detectors,  \* the detectors, by whether they have wedged
  failures,   \* consecutive_failures
  cache,      \* tile_caches: key, hashes and detections
  spoiled     \* history: the tiles that were last scanned in vain

scanVars == <<key, modelSet, loaded, detectors, failures, cache, spoiled>>

Nothing == <<>>
NoKey   == Unscanned

Emptied(k) == [key |-> k, hashes |-> [i \in Tile |-> Unscanned],
               found |-> [i \in Tile |-> Nothing]]
NoCache    == Emptied(NoKey)

ScanInit ==
  /\ key \in Key /\ modelSet \in Model /\ loaded = modelSet
  /\ detectors = <<FALSE>> /\ failures = 0
  /\ cache = [m \in Monitor |-> NoCache]
  /\ spoiled = [m \in Monitor |-> {}]

-----------------------------------------------------------------------------
(* Around the pipeline *)

ChangeSettings ==
  /\ \/ key' \in Key \ {key} /\ UNCHANGED modelSet
     \/ modelSet' \in Model \ {modelSet} /\ UNCHANGED key
  /\ UNCHANGED <<loaded, detectors, failures, cache, spoiled>>

\* An ONNX session wedges: from now on it fails.
Wedge ==
  /\ \E i \in DOMAIN detectors : ~detectors[i] /\ detectors' = [detectors EXCEPT ![i] = TRUE]
  /\ UNCHANGED <<key, modelSet, loaded, failures, cache, spoiled>>

-----------------------------------------------------------------------------
(* A round of the pipeline *)

\* The caches after the model was exchanged.
AfterSwap == [m \in Monitor |-> NoCache]

\* A cache made under another key is emptied.
OfKey(c) == IF c.key = key THEN c ELSE Emptied(key)

\* detect_tiled: the hash of a changed tile is stored before it is scanned;
\* what is found in it, after the scan of them all, if that succeeds.
Changed(c, frame) == {i \in Tile : c.hashes[i] # frame[i]}

Scanned(c, frame, fails) ==
  LET d == OfKey(c)
  IN [d EXCEPT
       !.hashes = frame,
       !.found = [i \in Tile |-> IF i \in Changed(d, frame) /\ ~fails
                                 THEN <<key, frame[i]>> ELSE d.found[i]]]

\* The pool is grown to one detector per frame, or scanning stays serial.
Grown(p, n, builds) ==
  IF Len(p) < n /\ builds THEN p \o [i \in 1..(n - Len(p)) |-> FALSE] ELSE p

\* The detector that scans the i-th of n frames.
Uses(p, i, n) == IF n > 1 /\ Len(p) >= n THEN i ELSE 1

\* The results in the order of the jobs: a success resets the count of
\* failures, the third failure in a row replaces the whole pool.
Judge(acc, fails, builds) ==
  IF ~fails THEN [acc EXCEPT !.failures = 0]
  ELSE IF acc.failures >= 2 /\ builds
       THEN [failures |-> 0, detectors |-> <<FALSE>>]
       ELSE [acc EXCEPT !.failures = IF @ < 3 THEN @ + 1 ELSE 3]

Judged(acc, n, fails, builds) ==
  FoldLeft(LAMBDA a, i : Judge(a, fails[i], builds), acc, [i \in 1..n |-> i])

\* The monitors of `jobs`, in any order, deliver these frames.
Scan(jobs, frames, swaps, builds) ==
  LET caches  == IF swaps THEN AfterSwap ELSE cache
      n       == Len(jobs)
      team    == Grown(IF swaps THEN <<FALSE>> ELSE detectors, n, builds)
      fails   == [i \in 1..n |-> team[Uses(team, i, n)]]
      verdict == Judged([failures |-> failures, detectors |-> team], n, fails, builds)
      job(m)  == CHOOSE i \in 1..n : jobs[i] = m
  IN /\ loaded' = IF swaps THEN modelSet ELSE loaded
     /\ cache' = [m \in Monitor |->
                   IF m \in Range(jobs)
                   THEN Scanned(caches[m], frames[m], fails[job(m)])
                   ELSE caches[m]]
     /\ spoiled' = [m \in Monitor |->
                     LET kept == IF swaps THEN {} ELSE spoiled[m]
                         c    == OfKey(caches[m])
                         left == IF c = caches[m] THEN kept ELSE {}
                     IN IF m \notin Range(jobs) THEN kept
                        ELSE IF fails[job(m)] THEN left \union Changed(c, frames[m])
                             ELSE left \ Changed(c, frames[m])]
     /\ detectors' = verdict.detectors
     /\ failures' = verdict.failures
  /\ UNCHANGED <<key, modelSet>>

Orders(S) == {s \in [1..Cardinality(S) -> S] : Range(s) = S}

Round ==
  \E S \in (SUBSET Monitor) \ {{}} :
    \E jobs \in Orders(S), frames \in [S -> [Tile -> Content]], builds \in BOOLEAN,
       swaps \in IF modelSet = loaded THEN {FALSE} ELSE BOOLEAN :
      Scan(jobs, frames, swaps, builds)

ScanNext == ChangeSettings \/ Wedge \/ Round

ScanSpec == ScanInit /\ [][ScanNext]_scanVars

-----------------------------------------------------------------------------
(* Properties *)

\* Type invariant.
ScanTypeOK ==
  /\ key \in Key /\ {modelSet, loaded} \subseteq Model
  /\ detectors \in Seq(BOOLEAN) /\ Len(detectors) \in 1..Cardinality(Monitor)
  /\ failures \in 0..3
  /\ \A m \in Monitor :
       /\ cache[m].key \in Key \union {NoKey}
       /\ cache[m].hashes \in [Tile -> Content \union {Unscanned}]
       /\ spoiled[m] \subseteq Tile

Replayed(m, i) == cache[m].found[i] = <<cache[m].key, cache[m].hashes[i]>>

\* A tile replays only what is found in the pixels it shows under the
\* settings it was scanned with, whatever was exchanged, rebuilt or failed in
\* between, except for tiles whose last scan failed. (TileCache)
ReplaysAreTrueOrSpoiled ==
  \A m \in Monitor, i \in Tile :
    cache[m].hashes[i] # Unscanned /\ i \notin spoiled[m] => Replayed(m, i)

\* detect.rs: "tiles whose pixels haven't changed skip inference and replay
\* their prior detections" (of these pixels).
ReplaysAreTrue ==
  \A m \in Monitor, i \in Tile : cache[m].hashes[i] # Unscanned => Replayed(m, i)
=============================================================================
