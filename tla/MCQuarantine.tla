---------------------------- MODULE MCQuarantine ----------------------------
(* Small instances of Quarantine: two services, two networks, two host lists. *)
EXTENDS Quarantine

CONSTANTS wifi, ethernet, home, school, h1, h2

MCService == {wifi, ethernet}
MCNetwork == {home, school}
MCLists   == {h1, h2}
OneList   == {h1}
=============================================================================
