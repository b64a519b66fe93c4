---------------------------- MODULE OverlayPool -----------------------------
(***************************************************************************)
(* The windows the boxes are drawn with (overlay.rs OverlayApp): a pool that *)
(* only grows, whose windows are assigned to the regions by position in the  *)
(* list, switch between censor box and highlight, and are touched only where *)
(* a region differs from the one last seen there.  The thread that owns them *)
(* takes the messages of the pipeline and of the settings in any order.      *)
(*                                                                          *)
(* A region is a place, a role and the processed pixels of its interior; the *)
(* place stands for its geometry, the pixels for the allocation that holds   *)
(* them.  Fonts, drawing and the status window are left out.                 *)
(***************************************************************************)
EXTENDS Integers, Sequences, SequencesExt

CONSTANTS
  Spot,          \* places on the screen
  Pixels,        \* processed interiors
  Look,          \* settings of the censor module
  Mode,          \* the mode of each: "box", "pixels", "static", "image"
  InCaptures,    \* the looks that are to be seen in screen captures
  HasImage,      \* the looks whose cover image can be decoded
  MaxRegions     \* bound on the regions

NoContent == "no content"
Noise     == "noise"
Image     == "image"
Outline   == "outline"

ASSUME PoolAssumption ==
  /\ Mode \in [Look -> {"box", "pixels", "static", "image"}]
  /\ InCaptures \subseteq Look /\ HasImage \subseteq Look
  /\ {NoContent, Noise, Image} \intersect Pixels = {} /\ Outline \notin Look
  /\ MaxRegions \in Nat

VARIABLES
  look,          \* style
  lastRegions,   \* last_regions
  pool,          \* the windows: place, background, text, contents of the layer,
                 \* whether it is visible and whether it is hidden from captures
  inMenu,        \* the number of boxes in the menu bar
  ticking,       \* the noise is animated: next_noise_tick
  broken         \* history: a window could not be created

poolVars == <<look, lastRegions, pool, inMenu, ticking, broken>>

Region == [at: Spot, role: {"censor", "highlight"}, pixels: Pixels \union {NoContent}]

PoolInit ==
  /\ look \in Look
  /\ lastRegions = <<>> /\ pool = <<>> /\ inMenu = 0
  /\ ticking = FALSE /\ broken = FALSE

-----------------------------------------------------------------------------
(* Drawing one window *)

\* ensure_window: made in the style of the moment, and invisible.
NewWindow(at) ==
  [at |-> at, fill |-> look, text |-> NoContent, layer |-> NoContent, visible |-> FALSE,
   secret |-> look \notin InCaptures]

\* render_interior: only new pixels replace what the layer has in that mode.
Interior(layer, r, style) ==
  CASE r.role = "highlight" \/ Mode[style] = "box" -> NoContent
    [] r.role = "censor" /\ Mode[style] = "pixels" ->
         IF r.pixels = NoContent THEN layer ELSE r.pixels
    [] r.role = "censor" /\ Mode[style] = "static" -> Noise
    [] r.role = "censor" /\ Mode[style] = "image" ->
         IF style \in HasImage THEN Image ELSE NoContent

Background(r, style) == IF r.role = "highlight" THEN Outline ELSE style

\* Mutant: a window that comes back from the surplus keeps the role it had.
RoleKept(i, r) == i \in DOMAIN lastRegions /\ lastRegions[i].role # r.role

RoleChanged(i, r) == i \in DOMAIN lastRegions => lastRegions[i].role # r.role

Moved(i, r) == i \in DOMAIN lastRegions => lastRegions[i].at # r.at

Assigned(w, i, r) ==
  [at      |-> IF Moved(i, r) THEN r.at ELSE w.at,
   fill    |-> IF RoleChanged(i, r) THEN Background(r, look) ELSE w.fill,
   text    |-> Background(r, look),
   layer   |-> Interior(w.layer, r, look),
   visible |-> TRUE,
   secret  |-> w.secret]

\* The windows once the first n regions are assigned.
WindowFor(i, r) == IF i \in DOMAIN pool THEN pool[i] ELSE NewWindow(r.at)

AssignedTo(regions, n) ==
  [i \in 1..(IF Len(pool) > n THEN Len(pool) ELSE n) |->
     IF i <= n THEN Assigned(WindowFor(i, regions[i]), i, regions[i]) ELSE pool[i]]

SurplusHidden(windows, n) ==
  [i \in DOMAIN windows |-> IF i > n THEN [windows[i] EXCEPT !.visible = FALSE] ELSE windows[i]]

Animated(style, n) == Mode[style] = "static" /\ n > 0

-----------------------------------------------------------------------------
(* Messages *)

\* apply_regions, of the same regions as before;
SameRegions(regions) == regions = lastRegions /\ UNCHANGED poolVars

\* of others;
ShowRegions(regions) ==
  /\ regions # lastRegions
  /\ pool' = SurplusHidden(AssignedTo(regions, Len(regions)), Len(regions))
  /\ lastRegions' = regions
  /\ inMenu' = Len(regions)
  /\ ticking' = Animated(look, Len(regions))
  /\ UNCHANGED <<look, broken>>

\* and when a window they need cannot be made.
FailToShow(regions) ==
  /\ regions # lastRegions
  /\ \E n \in Len(pool)..(Len(regions) - 1) :
       /\ pool' = AssignedTo(regions, n)
       /\ broken' = TRUE
  /\ UNCHANGED <<look, lastRegions, inMenu, ticking>>

Restyled(i, w, style) ==
  LET used == i \in DOMAIN lastRegions
  IN [at      |-> w.at,
      fill    |-> IF used THEN Background(lastRegions[i], style) ELSE style,
      text    |-> IF used THEN Background(lastRegions[i], style) ELSE w.text,
      layer   |-> IF used THEN Interior(w.layer, lastRegions[i], style) ELSE w.layer,
      visible |-> w.visible,
      secret  |-> style \notin InCaptures]

\* apply_style
ChangeLook(style) ==
  /\ style # look
  /\ look' = style
  /\ pool' = [i \in DOMAIN pool |-> Restyled(i, pool[i], style)]
  /\ ticking' = Animated(style, inMenu)
  /\ UNCHANGED <<lastRegions, inMenu, broken>>

\* The timer of the noise.
NoiseTick ==
  /\ ticking
  /\ pool' = [i \in DOMAIN pool |->
               IF i \in DOMAIN lastRegions /\ i <= inMenu
               THEN [pool[i] EXCEPT !.layer = Interior(@, lastRegions[i], look)] ELSE pool[i]]
  /\ ticking' = Animated(look, inMenu)
  /\ UNCHANGED <<look, lastRegions, inMenu, broken>>

RegionLists == BoundedSeq(Region, MaxRegions)

PoolNext ==
  \/ \E regions \in RegionLists :
       SameRegions(regions) \/ ShowRegions(regions) \/ FailToShow(regions)
  \/ \E style \in Look : ChangeLook(style)
  \/ NoiseTick

PoolSpec == PoolInit /\ [][PoolNext]_poolVars

-----------------------------------------------------------------------------
(* Properties *)

PoolWindow ==
  [at: Spot, fill: Look \union {Outline}, text: Look \union {Outline, NoContent},
   layer: Pixels \union {NoContent, Noise, Image}, visible: BOOLEAN, secret: BOOLEAN]

\* Type invariant.
PoolTypeOK ==
  /\ look \in Look /\ lastRegions \in Seq(Region) /\ pool \in Seq(PoolWindow)
  /\ inMenu \in Nat /\ ticking \in BOOLEAN /\ broken \in BOOLEAN

\* What is on the screen is what the last list of regions and the last style
\* say, whatever each window showed before: every region at its place, covered
\* or outlined as its role wants, in the style in force, and nothing else; no
\* window is in captures that should not be. Until a window cannot be created.
\* (apply_regions: pooled windows switch roles)
ScreenIsAsTold ==
  ~broken =>
    /\ inMenu = Len(lastRegions) /\ Len(pool) >= Len(lastRegions)
    /\ ticking = Animated(look, inMenu)
    /\ \A i \in DOMAIN pool :
         /\ pool[i].visible <=> i \in DOMAIN lastRegions
         /\ pool[i].secret <=> look \notin InCaptures
    /\ \A i \in DOMAIN lastRegions :
         LET w == pool[i]
             r == lastRegions[i]
         IN /\ w.at = r.at /\ w.fill = Background(r, look) /\ w.text = Background(r, look)
            /\ w.layer = Interior(w.layer, r, look)
=============================================================================
