----------------------------- MODULE DnsFilter -----------------------------
(***************************************************************************)
(* The lookups of the local DNS forwarder (dnsfilter.rs, handle) against the *)
(* watchdog that switches its mode and reloads the pf anchor under it        *)
(* (Quarantine::apply, load_pf).                                            *)
(*                                                                          *)
(* In an earning-mode lockout pf passes only the addresses of its table, and *)
(* the forwarder's threads fill the table with what the allowed names        *)
(* resolve to.  A thread reads the mode, waits for the upstream, marks the   *)
(* addresses that are new in `learned` and hands only those to pfctl, each   *)
(* under a lock of its own: the mode, the table and the marks may all have   *)
(* changed when it takes the next step.                                     *)
(*                                                                          *)
(* Abstractions.  Names and addresses are opaque and the suffix lists are    *)
(* the sets of names they match.  An upstream gives some of a name's         *)
(* addresses or no answer.  Whether a reload of the anchor empties the table *)
(* is left open, and pfctl may fail.  The lists and the log that `record`     *)
(* keeps are left out, and port 53 can be bound (Quarantine models when it   *)
(* cannot).                                                                 *)
(***************************************************************************)

CONSTANTS
  Thread,       \* the forwarder's threads
  Name,         \* names that are asked for
  Canary,       \* FIREFOX_CANARY
  Doh,          \* DOH_NAMES
  Address,
  Resolves,     \* the addresses of each name
  Wanted        \* what compose may return

PfKind  == {"open", "full", "static", "lock", "table"}
DnsKind == {"off", "audit", "block", "allow"}

PfMode  == [kind: PfKind, seed: SUBSET Name]
DnsMode == [kind: DnsKind, allow: SUBSET Name, block: SUBSET Name]

ASSUME FilterAssumption ==
  /\ Canary \subseteq Name /\ Doh \subseteq Name
  /\ Resolves \in [Name -> SUBSET Address]
  /\ Wanted \subseteq [pf: PfMode, dns: DnsMode]

VARIABLES
  mode,      \* Inner.mode
  learned,   \* Inner.learned: addresses already handed to pf
  lookup,    \* what each thread is doing
  phase,     \* where the watchdog is in apply
  desired,   \* what apply was called with
  engaged,   \* Quarantine.engaged
  anchor,    \* the kind of ruleset in the kernel
  table,     \* the pf table
  refused    \* history: addresses marked since the last reset that pfctl refused

vars == <<mode, learned, lookup, phase, desired, engaged, anchor, table, refused>>

watchdog == <<mode, phase, desired, engaged, anchor>>

Off  == [kind |-> "off", allow |-> {}, block |-> {}]
Open == [pf |-> [kind |-> "open", seed |-> {}], dns |-> Off]
Idle == [pc |-> "idle", answer |-> {}, fresh |-> {}, reloaded |-> FALSE]

Addresses(names) == UNION {Resolves[n] : n \in names}

Init ==
  /\ mode = Off
  /\ learned = {}
  /\ lookup = [t \in Thread |-> Idle]
  /\ phase = "idle"
  /\ desired = Open
  /\ engaged = Open
  /\ anchor = "open"
  /\ table = {}
  /\ refused = {}

-----------------------------------------------------------------------------
(* A lookup *)

\* Mutant: the allowlist is consulted before the blocklist.
DecideAllowFirst(m, n) ==
  CASE m.kind = "off"                                    -> "forward"
    [] m.kind # "off" /\ n \in Canary                    -> "deny"
    [] m.kind = "audit" /\ n \notin Canary               -> "forward"
    [] m.kind = "allow" /\ n \in m.allow \ Canary        -> "learn"
    [] m.kind = "block" /\ n \notin Doh \union m.block   -> "forward"
    [] OTHER                                             -> "deny"

\* The verdict on a name.
Decide(m, n) ==
  LET denied == Canary \union (IF m.kind = "audit" THEN {} ELSE Doh \union m.block)
  IN CASE m.kind = "off"                         -> "forward"
       [] m.kind # "off" /\ n \in denied         -> "deny"
       [] m.kind = "allow" /\ n \in m.allow \ denied -> "learn"
       [] m.kind = "allow" /\ n \notin m.allow \union denied -> "deny"
       [] OTHER                                  -> "forward"

\* The mode is read and the name decided; a denied name is answered at once.
Ask(t, n) ==
  /\ lookup[t].pc = "idle"
  /\ lookup' = IF Decide(mode, n) = "learn"
               THEN [lookup EXCEPT ![t] = [Idle EXCEPT !.pc = "forward",
                                                       !.answer = Resolves[n]]]
               ELSE lookup
  /\ UNCHANGED <<learned, watchdog, table, refused>>

\* The upstream answers with some of the name's addresses, or not at all.
Forward(t) ==
  /\ lookup[t].pc = "forward"
  /\ \E ips \in SUBSET lookup[t].answer :
       lookup' = [lookup EXCEPT ![t] =
                    IF ips = {} THEN Idle ELSE [@ EXCEPT !.pc = "learn", !.answer = ips]]
  /\ UNCHANGED <<learned, watchdog, table, refused>>

\* The addresses not yet marked are this thread's to add.
Learn(t) ==
  /\ lookup[t].pc = "learn"
  /\ LET fresh == lookup[t].answer \ learned
     IN lookup' = [lookup EXCEPT ![t].fresh = fresh,
                                 ![t].pc = IF fresh = {} THEN "reply" ELSE "add"]
  /\ learned' = learned \union lookup[t].answer
  /\ UNCHANGED <<watchdog, table, refused>>

\* Mutant: what was added is not forgotten.
AddKeepsFresh(t) ==
  /\ lookup[t].pc = "add"
  /\ table' = table \union lookup[t].fresh
  /\ lookup' = [lookup EXCEPT ![t].pc = "reply"]
  /\ UNCHANGED <<learned, watchdog, refused>>

\* The pf hook; the mark stays when it fails.
Add(t) ==
  /\ lookup[t].pc = "add"
  /\ \/ table' = table \union lookup[t].fresh /\ UNCHANGED refused
     \/ refused' = refused \union lookup[t].fresh /\ UNCHANGED table
  /\ lookup' = [lookup EXCEPT ![t].pc = "reply", ![t].fresh = {}]
  /\ UNCHANGED <<learned, watchdog>>

Reply(t) ==
  /\ lookup[t].pc = "reply"
  /\ lookup' = [lookup EXCEPT ![t] = Idle]
  /\ UNCHANGED <<learned, watchdog, table, refused>>

-----------------------------------------------------------------------------
(* The watchdog *)

\* apply is called; the filter is switched before the anchor.
Apply ==
  /\ phase = "idle"
  /\ \E d \in Wanted :
       /\ desired' = d
       /\ mode' = IF d.dns # Off /\ d.dns # engaged.dns THEN d.dns ELSE mode
  /\ phase' = "anchor"
  /\ UNCHANGED <<learned, lookup, engaged, anchor, table, refused>>

NetworkMoved(pf) == pf.kind \in {"lock", "table"}

\* Nothing to change in the anchor, or pfctl fails; apply goes on either way.
KeepAnchor ==
  /\ phase = "anchor"
  /\ phase' = "finish"
  /\ UNCHANGED <<mode, learned, lookup, desired, engaged, anchor, table, refused>>

\* The anchor is loaded or flushed, because the ruleset or the upstreams in it
\* changed; lookups under way are told so for the sake of the properties.
ChangeAnchor ==
  /\ phase = "anchor"
  /\ desired.pf # engaged.pf \/ NetworkMoved(desired.pf)
  /\ anchor' = desired.pf.kind
  /\ table' \in {{}, table}
  /\ phase' = IF desired.pf.kind = "table" THEN "reset" ELSE "finish"
  /\ lookup' = [t \in Thread |->
                  IF lookup[t] = Idle THEN Idle ELSE [lookup[t] EXCEPT !.reloaded = TRUE]]
  /\ UNCHANGED <<mode, learned, desired, engaged, refused>>

\* Mutant: the marks survive a new table.
KeepLearned ==
  /\ phase = "reset"
  /\ phase' = "seed"
  /\ UNCHANGED <<mode, learned, lookup, desired, engaged, anchor, table, refused>>

\* reset_learned: a fresh anchor means an empty table.
ResetLearned ==
  /\ phase = "reset"
  /\ learned' = {}
  /\ refused' = {}
  /\ phase' = "seed"
  /\ UNCHANGED <<mode, lookup, desired, engaged, anchor, table>>

\* The earn hosts' addresses are seeded, those that could be resolved.
Seed ==
  /\ phase = "seed"
  /\ \E ips \in SUBSET Addresses(desired.pf.seed) : table' = table \union ips
  /\ phase' = "finish"
  /\ UNCHANGED <<mode, learned, lookup, desired, engaged, anchor, refused>>

\* A filter that is no longer wanted is switched off last.
FinishApply ==
  /\ phase = "finish"
  /\ phase' = "idle"
  /\ mode' = IF desired.dns = Off /\ engaged.dns # Off THEN Off ELSE mode
  /\ engaged' = desired
  /\ UNCHANGED <<learned, lookup, desired, anchor, table, refused>>

Next ==
  \/ \E t \in Thread :
       \/ \E n \in Name : Ask(t, n)
       \/ Forward(t) \/ Learn(t) \/ Add(t) \/ Reply(t)
  \/ Apply \/ KeepAnchor \/ ChangeAnchor \/ ResetLearned \/ Seed \/ FinishApply

Spec == Init /\ [][Next]_vars

-----------------------------------------------------------------------------
(* Properties *)

\* Type invariant.
TypeOK ==
  /\ mode \in DnsMode /\ desired \in [pf: PfMode, dns: DnsMode]
  /\ engaged \in [pf: PfMode, dns: DnsMode]
  /\ {learned, table, refused} \subseteq SUBSET Address
  /\ lookup \in [Thread -> [pc: {"idle", "forward", "learn", "add", "reply"},
                            answer: SUBSET Address, fresh: SUBSET Address,
                            reloaded: BOOLEAN]]
  /\ \A t \in Thread : lookup[t].pc # "add" => lookup[t].fresh = {}
  /\ phase \in {"idle", "anchor", "reset", "seed", "finish"}
  /\ anchor \in PfKind

\* An address marked as handed to pf is in the table of the lockout, or some
\* lookup is about to put it there, or pfctl refused it: no other allowed site
\* is lost until the next reload. (handle against load_pf's reset_learned)
LearnedIsInTable ==
  anchor = "table" /\ phase # "reset" =>
    \A ip \in learned :
      ip \in table \union refused \/ \E t \in Thread : lookup[t].pc = "add" /\ ip \in lookup[t].fresh

\* Under a lockout that is in place only what the earn sources and the allowed
\* names resolve to is reachable; a blocked name is not. (docs/site-filter.md)
Allowed(m) == m.allow \ (m.block \union Canary \union Doh)

OnlyAllowedReachable ==
  phase = "idle" /\ engaged.pf.kind = "table" /\ engaged.dns.kind = "allow" =>
    table \subseteq Addresses(Allowed(engaged.dns) \union engaged.pf.seed)

\* dnsfilter.rs: "Add to pf BEFORE answering: the client connects the instant
\* it has the address", unless the anchor was reloaded meanwhile or pfctl failed.
AddedBeforeAnswer ==
  \A t \in Thread :
    lookup[t].pc = "reply" /\ ~lookup[t].reloaded => lookup[t].answer \subseteq table \union refused
=============================================================================
