----------------------------- MODULE CensorBoxes -----------------------------
(***************************************************************************)
(* Where the censor covers the screen (pipeline.rs run, from the detections  *)
(* of a frame to the overlay): each fresh detection claims a held box, boxes *)
(* that are not seen again linger for a while and go with a later frame, and *)
(* every box has an interior made of the monitor's latest frame.             *)
(*                                                                          *)
(* One monitor: they share nothing but the flag that the overlay is sent the *)
(* boxes of them all.  Detections are of one trigger class, since only those *)
(* compete for a box, and a place stands for all positions within the 4      *)
(* points of the dead-band; two places do not overlap.  Time is in ticks of  *)
(* which the hold and the debounce window are multiples.  Highlights, the    *)
(* coverage scale and the text of a box are left out.                        *)
(***************************************************************************)
EXTENDS Integers, Sequences, SequencesExt, Retaining

CONSTANTS
  Places,     \* places on the monitor, as distances along a line
  MaxFound,   \* bound on the detections in a frame
  Hold,       \* hold_ms
  Wobble,     \* debounce_window_ms
  Sightings,  \* debounce_count
  Styles,     \* censor styles
  Filtered    \* those that need pixels: blur and mosaic

ASSUME BoxesAssumption ==
  /\ Places \subseteq Int /\ MaxFound \in Nat
  /\ Hold \in Nat \ {0} /\ Wobble \in Nat \ {0} /\ Sightings \in Nat
  /\ Filtered \subseteq Styles

VARIABLES
  style,     \* the censor style of the settings
  inForce,   \* prev_censor
  held,      \* the boxes: where, ticks since it was last seen, how often it was
             \* seen, and its interior
  shown,     \* the overlay: where, and which interior
  flagged,   \* history: what the last scan flagged
  most       \* history: the most that was flagged in one frame

boxVars == <<style, inForce, held, shown, flagged, most>>

NoPixels == [style |-> "none", fresh |-> FALSE]

Box(at, seen) == [at |-> at, age |-> 0, seen |-> seen, inner |-> NoPixels]

BoxInit ==
  /\ style \in Styles /\ inForce = style
  /\ held = <<>> /\ shown = <<>> /\ flagged = {} /\ most = 0

LongestHold == IF Hold > Wobble THEN Hold ELSE Wobble

-----------------------------------------------------------------------------
NewStyle ==
  /\ style' \in Styles \ {style}
  /\ UNCHANGED <<inForce, held, shown, flagged, most>>

\* Time passes; without frames nothing else does.
Elapse ==
  /\ held' = [j \in DOMAIN held |->
               [held[j] EXCEPT !.age = IF @ < LongestHold THEN @ + 1 ELSE @]]
  /\ UNCHANGED <<style, inForce, shown, flagged, most>>

\* Censoring is switched off or an excluded app is frontmost.
Pause ==
  /\ held' = <<>> /\ shown' = <<>> /\ flagged' = {}
  /\ UNCHANGED <<style, inForce, most>>

-----------------------------------------------------------------------------
(* Claiming: an overlapping box beats a distant one, the nearest is next, and *)
(* of equals the last.                                                        *)

Distance(x, y) == IF x < y THEN y - x ELSE x - y

Better(i, j, at, boxes) ==
  LET d(k) == Distance(boxes[k].at, at)
  IN d(i) < d(j) \/ (d(i) = d(j) /\ i > j)

\* Mutant: a box is claimed by several detections.
OpenAll(boxes, claimed) == DOMAIN boxes

Open(boxes, claimed) == DOMAIN boxes \ claimed

\* A box that moves loses its interior, one that stays keeps everything.
MovedTo(b, at) == IF b.at = at THEN b ELSE [b EXCEPT !.at = at, !.inner = NoPixels]

\* One detection, after `acc` of those before it.
Claim(acc, det) ==
  LET free == Open(acc.boxes, acc.claimed)
      n    == Len(acc.boxes) + 1
  IN IF free = {}
     THEN [boxes   |-> Append(acc.boxes, Box(det.at, IF det.strong THEN Sightings ELSE 1)),
           claimed |-> acc.claimed \union {n}]
     ELSE LET j == CHOOSE k \in free : \A i \in free \ {k} : Better(k, i, det.at, acc.boxes)
              b == MovedTo(acc.boxes[j], det.at)
          IN [boxes   |-> [acc.boxes EXCEPT ![j] =
                             [b EXCEPT !.age = 0,
                                       !.seen = IF @ < Sightings THEN @ + 1 ELSE @]],
              claimed |-> acc.claimed \union {j}]

\* Only a confirmed box is held for the full time.
Lifetime(b) == IF b.seen >= Sightings THEN Hold ELSE Wobble

Kept(boxes) == Retain(boxes, {b \in Range(boxes) : b.age < Lifetime(b)})

Claimed(boxes, dets) ==
  Kept(FoldLeft(Claim, [boxes |-> boxes, claimed |-> {}], dets).boxes)

\* Interiors are made anew for a fresh frame or a new style.
Stale(b, fresh, changed) == b.inner = NoPixels \/ changed \/ fresh

Filled(b, fresh, changed) ==
  CASE style \in Filtered /\ Stale(b, fresh, changed) ->
         [b EXCEPT !.inner = [style |-> style, fresh |-> TRUE]]
    [] style \notin Filtered /\ changed -> [b EXCEPT !.inner = NoPixels]
    [] OTHER -> [b EXCEPT !.inner.fresh = @ /\ ~fresh]

Regions(boxes) == [j \in DOMAIN boxes |-> [at |-> boxes[j].at, inner |-> boxes[j].inner]]

\* What a frame shows, by confidence, the strong ones first.
Findings ==
  {s \in BoundedSeq([at : Places, strong : BOOLEAN], MaxFound) :
     \A i, j \in DOMAIN s : i < j => s[i].at # s[j].at /\ (s[j].strong => s[i].strong)}

\* The rest of a round, with the boxes as the detections left them.
Render(boxes, fresh) ==
  LET restyled == style # inForce
      filled   == [j \in DOMAIN boxes |-> Filled(boxes[j], fresh, restyled)]
      changed  == \/ Regions(boxes) # Regions(held)
                  \/ style \notin Filtered /\ restyled
                  \/ /\ style \in Filtered
                     /\ \E j \in DOMAIN boxes : Stale(boxes[j], fresh, restyled)
  IN /\ held' = filled
     /\ shown' = IF changed THEN Regions(filled) ELSE shown
     /\ inForce' = style
     /\ UNCHANGED style

\* A frame is scanned.
SeeFrame(dets) ==
  /\ Render(Claimed(held, dets), TRUE)
  /\ flagged' = {dets[i].at : i \in DOMAIN dets}
  /\ most' = IF Len(dets) > most THEN Len(dets) ELSE most

\* The scan of a frame fails: the boxes stay, their interiors are made anew.
MissFrame == Render(held, TRUE) /\ UNCHANGED <<flagged, most>>

\* A round without a frame.
NoFrame == Render(held, FALSE) /\ UNCHANGED <<flagged, most>>

BoxNext ==
  \/ NewStyle \/ Elapse \/ Pause \/ MissFrame \/ NoFrame
  \/ \E dets \in Findings : SeeFrame(dets)

BoxSpec == BoxInit /\ [][BoxNext]_boxVars

-----------------------------------------------------------------------------
(* Properties *)

\* Type invariant.
BoxTypeOK ==
  /\ {style, inForce} \subseteq Styles
  /\ \A j \in DOMAIN held :
       /\ held[j].at \in Places /\ held[j].age \in 0..LongestHold
       /\ held[j].seen \in 0..(Sightings + 1)
       /\ held[j].inner \in [style: Styles \union {"none"}, fresh: BOOLEAN]
  /\ flagged \subseteq Places /\ most \in 0..MaxFound

\* Whatever the last scan flagged is covered on the screen until a later scan
\* flags it no more, however long no frame arrives and however detections
\* moved, competed for boxes or wobbled before. (pipeline.rs: a static image
\* must remain covered indefinitely)
FlaggedIsCovered == flagged \subseteq {shown[j].at : j \in DOMAIN shown}

\* The overlay shows the boxes that are held, each with an interior made of
\* the latest frame in the style in force. (the changed flag)
OverlayIsCurrent ==
  /\ shown = Regions(held)
  /\ \A j \in DOMAIN held :
       held[j].inner = IF inForce \in Filtered THEN [style |-> inForce, fresh |-> TRUE]
                       ELSE NoPixels

\* Moving content leaves no trail: there are never more boxes than were seen
\* at once. (per-region hold with movement tracking)
NoTrail == Len(held) <= most
=============================================================================
