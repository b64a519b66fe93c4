----------------------------- MODULE MCLockdown -----------------------------
(* Small instances of Lockdown: the windows of 30 s, 60 s and 180 s scaled     *)
(* down to one, two and three periods, and a focus penalty that outlasts the    *)
(* exposure penalty.                                                            *)
EXTENDS Lockdown

Unwell(flag) == [Fine EXCEPT ![flag] = ~@]

MCHealth == {Fine, Unwell("tamper"), Unwell("challenge"), Unwell("capture"),
             [Unwell("enabled") EXCEPT !.capture = FALSE]}
FineOnly == {Fine}

MCSecs == [l \in Limit |-> IF l = "focus" THEN 3 ELSE 2]
=============================================================================
