----------------------------- MODULE MCDnsFilter -----------------------------
(* Small instances of DnsFilter: an earn source and an allowed site that share  *)
(* an address, a game that is blocked although a suffix allows it, a DoH name.   *)
EXTENDS DnsFilter, TLC

CONSTANTS t1, t2, khan, video, game, doh, canary, a1, a2, a3

TwoThreads == {t1, t2}
ThreadSymmetry == Permutations(TwoThreads)

Names    == {khan, video, game, doh, canary}
MCAddress  == {a1, a2, a3}

Hosts(n) == CASE n = khan  -> {a1}
              [] n = video -> {a1, a2}
              [] OTHER     -> {a3}

MCResolves  == [n \in Names |-> Hosts(n)]
Provider == {doh}
Firefox  == {canary}

Dns(kind, allow, block) == [kind |-> kind, allow |-> allow, block |-> block]
Want(kind, seed, dns)   == [pf |-> [kind |-> kind, seed |-> seed], dns |-> dns]

Lockout(allow, block) == Want("table", {khan}, Dns("allow", allow, block))

OnePolicy ==
  {Open, Want("full", {}, Off), Want("static", {khan}, Dns("audit", {}, {})),
   Want("lock", {}, Dns("block", {}, {game})),
   Lockout({khan, video, game, doh}, {game})}
=============================================================================
