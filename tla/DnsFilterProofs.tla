-------------------------- MODULE DnsFilterProofs ---------------------------
(***************************************************************************)
(* Theorems about DnsFilter, for any number of threads, any names and any    *)
(* sets of policies: the marks and the pf table stay together through every  *)
(* interleaving of lookups with the watchdog.  The reachability theorem is   *)
(* for one lockout policy; after a change of it, addresses learned under the *)
(* old one may remain.                                                      *)
(***************************************************************************)
EXTENDS DnsFilter, TLAPS

LEMMA OpenType == Open \in [pf: PfMode, dns: DnsMode] /\ Off \in DnsMode
                  /\ Off.kind = "off" /\ Open.dns = Off /\ Open.pf.kind = "open"
  BY DEF Open, Off, PfMode, DnsMode, PfKind, DnsKind

Lookup == [pc: {"idle", "forward", "learn", "add", "reply"}, answer: SUBSET Address,
           fresh: SUBSET Address, reloaded: BOOLEAN]

LEMMA IdleType == Idle \in Lookup /\ Idle.fresh = {} /\ Idle.pc = "idle" /\ Idle.answer = {}
  BY DEF Idle, Lookup

\* What one thread does to its lookup.
LEMMA OwnStep ==
  ASSUME TypeOK, NEW t \in Thread, NEW l \in Lookup, lookup' = [lookup EXCEPT ![t] = l]
  PROVE  /\ lookup' \in [Thread -> Lookup] /\ lookup'[t] = l
         /\ \A u \in Thread : u # t => lookup'[u] = lookup[u]
<1>1. lookup \in [Thread -> Lookup]
  BY DEF TypeOK, Lookup
<1> QED
  BY <1>1

LEMMA AnswerType ==
  ASSUME NEW n \in Name
  PROVE  Resolves[n] \subseteq Address
  BY FilterAssumption

LEMMA SeedType ==
  ASSUME NEW names \in SUBSET Name
  PROVE  Addresses(names) \subseteq Address
  BY FilterAssumption DEF Addresses

-----------------------------------------------------------------------------
(* What a thread does, in terms of its lookup before and after *)

LEMMA AskStep ==
  ASSUME TypeOK, NEW t \in Thread, NEW n \in Name, Ask(t, n)
  PROVE  /\ UNCHANGED <<learned, watchdog, table, refused>>
         /\ lookup' = lookup \/
            \E l \in Lookup :
              /\ lookup' = [lookup EXCEPT ![t] = l] /\ lookup[t].pc = "idle"
              /\ l.pc = "forward" /\ l.answer = Resolves[n] /\ l.fresh = {}
              /\ mode.kind = "allow" /\ n \in Allowed(mode)
<1>1. UNCHANGED <<learned, watchdog, table, refused>> /\ lookup[t].pc = "idle"
  BY DEF Ask
<1>2. CASE Decide(mode, n) # "learn"
  BY <1>1, <1>2 DEF Ask
<1>3. CASE Decide(mode, n) = "learn"
  <2> DEFINE l == [Idle EXCEPT !.pc = "forward", !.answer = Resolves[n]]
  <2>1. lookup' = [lookup EXCEPT ![t] = l]
    BY <1>3 DEF Ask
  <2>2. l \in Lookup /\ l.pc = "forward" /\ l.answer = Resolves[n] /\ l.fresh = {}
    BY AnswerType DEF Idle, Lookup
  <2>3. mode.kind = "allow" /\ n \in mode.allow
        /\ n \notin Canary \union (IF mode.kind = "audit" THEN {} ELSE Doh \union mode.block)
    BY <1>3 DEF Decide
  <2>4. n \in Allowed(mode)
    BY <2>3 DEF Allowed
  <2> HIDE DEF l
  <2> QED
    BY <1>1, <2>1, <2>2, <2>3, <2>4
<1> QED
  BY <1>2, <1>3

LEMMA ForwardStep ==
  ASSUME TypeOK, NEW t \in Thread, Forward(t)
  PROVE  /\ UNCHANGED <<learned, watchdog, table, refused>>
         /\ \E l \in Lookup :
              /\ lookup' = [lookup EXCEPT ![t] = l] /\ lookup[t].pc = "forward"
              /\ l.pc \in {"idle", "learn"} /\ l.fresh = {} /\ l.answer \subseteq lookup[t].answer
<1>1. PICK ips \in SUBSET lookup[t].answer :
        lookup' = [lookup EXCEPT ![t] =
                     IF ips = {} THEN Idle ELSE [@ EXCEPT !.pc = "learn", !.answer = ips]]
  BY DEF Forward
<1>2. UNCHANGED <<learned, watchdog, table, refused>> /\ lookup[t].pc = "forward"
  BY DEF Forward
<1>3. lookup[t] \in Lookup /\ lookup[t].fresh = {} /\ lookup \in [Thread -> Lookup]
  BY <1>2 DEF TypeOK, Lookup
<1> DEFINE l == IF ips = {} THEN Idle ELSE [lookup[t] EXCEPT !.pc = "learn", !.answer = ips]
<1>4. lookup' = [lookup EXCEPT ![t] = l]
  BY <1>1
<1>5. l \in Lookup /\ l.pc \in {"idle", "learn"} /\ l.fresh = {}
      /\ l.answer \subseteq lookup[t].answer
  <2>1. CASE ips = {}
    BY <2>1, IdleType
  <2>2. CASE ips # {}
    BY <1>3, <2>2 DEF Lookup
  <2> QED
    BY <2>1, <2>2
<1> HIDE DEF l
<1> QED
  BY <1>2, <1>4, <1>5

LEMMA LearnStep ==
  ASSUME TypeOK, NEW t \in Thread, Learn(t)
  PROVE  /\ UNCHANGED <<watchdog, table, refused>>
         /\ learned' = learned \union lookup[t].answer /\ lookup[t].answer \subseteq Address
         /\ \E l \in Lookup :
              /\ lookup' = [lookup EXCEPT ![t] = l] /\ lookup[t].pc = "learn"
              /\ l.answer = lookup[t].answer /\ l.fresh = lookup[t].answer \ learned
              /\ \/ l.pc = "add"
                 \/ l.pc = "reply" /\ l.fresh = {}
<1>1. lookup[t] \in Lookup /\ lookup \in [Thread -> Lookup]
  BY DEF TypeOK, Lookup
<1> DEFINE fresh == lookup[t].answer \ learned
           l == [lookup[t] EXCEPT !.fresh = fresh, !.pc = IF fresh = {} THEN "reply" ELSE "add"]
<1>2. lookup' = [lookup EXCEPT ![t] = l]
  BY <1>1 DEF Learn
<1>3. l \in Lookup /\ l.answer = lookup[t].answer /\ l.fresh = fresh
      /\ l.pc = IF fresh = {} THEN "reply" ELSE "add"
  BY <1>1 DEF Lookup
<1>4. /\ UNCHANGED <<watchdog, table, refused>> /\ lookup[t].pc = "learn"
      /\ learned' = learned \union lookup[t].answer /\ lookup[t].answer \subseteq Address
  BY <1>1 DEF Learn, Lookup
<1> HIDE DEF l
<1> QED
  BY <1>2, <1>3, <1>4

LEMMA AddStep ==
  ASSUME TypeOK, NEW t \in Thread, Add(t)
  PROVE  /\ UNCHANGED <<watchdog, learned>>
         /\ \/ table' = table \union lookup[t].fresh /\ UNCHANGED refused
            \/ refused' = refused \union lookup[t].fresh /\ UNCHANGED table
         /\ lookup[t].fresh \subseteq Address
         /\ \E l \in Lookup :
              /\ lookup' = [lookup EXCEPT ![t] = l] /\ lookup[t].pc = "add"
              /\ l.pc = "reply" /\ l.fresh = {} /\ l.answer = lookup[t].answer
<1>1. lookup[t] \in Lookup /\ lookup \in [Thread -> Lookup]
  BY DEF TypeOK, Lookup
<1> DEFINE l == [lookup[t] EXCEPT !.pc = "reply", !.fresh = {}]
<1>2. lookup' = [lookup EXCEPT ![t] = l]
  BY <1>1 DEF Add
<1>3. l \in Lookup /\ l.pc = "reply" /\ l.fresh = {} /\ l.answer = lookup[t].answer
  BY <1>1 DEF Lookup
<1>4. /\ UNCHANGED <<watchdog, learned>> /\ lookup[t].pc = "add"
      /\ \/ table' = table \union lookup[t].fresh /\ UNCHANGED refused
         \/ refused' = refused \union lookup[t].fresh /\ UNCHANGED table
      /\ lookup[t].fresh \subseteq Address
  BY <1>1 DEF Add, Lookup
<1> HIDE DEF l
<1> QED
  BY <1>2, <1>3, <1>4

LEMMA ReplyStep ==
  ASSUME TypeOK, NEW t \in Thread, Reply(t)
  PROVE  /\ UNCHANGED <<learned, watchdog, table, refused>>
         /\ \E l \in Lookup :
              /\ lookup' = [lookup EXCEPT ![t] = l] /\ lookup[t].pc = "reply"
              /\ l.pc = "idle" /\ l.fresh = {} /\ l.answer = {}
  BY IdleType DEF Reply

-----------------------------------------------------------------------------
(* Types *)

LEMMA TypesAtFirst == Init => TypeOK
  BY OpenType, IdleType DEF Init, TypeOK, Lookup, PfKind

LEMMA TypesOfThreads ==
  ASSUME TypeOK, NEW t \in Thread, NEW l \in Lookup, lookup' = [lookup EXCEPT ![t] = l],
         l.pc # "add" => l.fresh = {}, UNCHANGED watchdog,
         {learned', table', refused'} \subseteq SUBSET Address
  PROVE  TypeOK'
<1>1. /\ lookup' \in [Thread -> Lookup] /\ lookup'[t] = l
      /\ \A u \in Thread : u # t => lookup'[u] = lookup[u]
  BY OwnStep
<1>2. \A u \in Thread : lookup'[u].pc # "add" => lookup'[u].fresh = {}
  BY <1>1 DEF TypeOK
<1> QED
  BY <1>1, <1>2 DEF TypeOK, watchdog, Lookup

LEMMA TypesStay == TypeOK /\ [Next]_vars => TypeOK'
<1>1. SUFFICES ASSUME TypeOK, [Next]_vars PROVE TypeOK'
  OBVIOUS
<1> USE <1>1
<1>2. {learned, table, refused} \subseteq SUBSET Address
  BY DEF TypeOK
<1>3. ASSUME NEW t \in Thread, NEW n \in Name, Ask(t, n) PROVE TypeOK'
  <2>1. CASE lookup' = lookup
    BY <1>3, <2>1, AskStep DEF TypeOK, watchdog
  <2>2. CASE lookup' # lookup
    BY <1>2, <1>3, <2>2, AskStep, TypesOfThreads
  <2> QED
    BY <2>1, <2>2
<1>4. ASSUME NEW t \in Thread, Forward(t) PROVE TypeOK'
  BY <1>2, <1>4, ForwardStep, TypesOfThreads
<1>5. ASSUME NEW t \in Thread, Learn(t) PROVE TypeOK'
  BY <1>2, <1>5, LearnStep, TypesOfThreads
<1>6. ASSUME NEW t \in Thread, Add(t) PROVE TypeOK'
  BY <1>2, <1>6, AddStep, TypesOfThreads
<1>7. ASSUME NEW t \in Thread, Reply(t) PROVE TypeOK'
  BY <1>2, <1>7, ReplyStep, TypesOfThreads
<1>8. CASE Apply
  <2>1. PICK d \in Wanted :
          desired' = d /\ mode' = IF d.dns # Off /\ d.dns # engaged.dns THEN d.dns ELSE mode
    BY <1>8 DEF Apply
  <2>2. d \in [pf: PfMode, dns: DnsMode] /\ d.dns \in DnsMode
    BY FilterAssumption
  <2> QED
    BY <1>8, <2>1, <2>2 DEF Apply, TypeOK
<1>9. CASE KeepAnchor \/ ResetLearned
  BY <1>9 DEF KeepAnchor, ResetLearned, TypeOK
<1>10. CASE ChangeAnchor
  <2>1. desired.pf.kind \in PfKind
    BY DEF TypeOK, PfMode
  <2>2. lookup' \in [Thread -> Lookup]
        /\ \A t \in Thread : lookup'[t].pc # "add" => lookup'[t].fresh = {}
    <3>1. \A t \in Thread : lookup[t] \in Lookup /\ (lookup[t].pc # "add" => lookup[t].fresh = {})
      BY DEF TypeOK, Lookup
    <3>2. lookup' = [t \in Thread |-> IF lookup[t] = Idle THEN Idle
                                      ELSE [lookup[t] EXCEPT !.reloaded = TRUE]]
      BY <1>10 DEF ChangeAnchor
    <3>3. ASSUME NEW t \in Thread
          PROVE  LET l == [lookup[t] EXCEPT !.reloaded = TRUE]
                 IN l \in Lookup /\ l.pc = lookup[t].pc /\ l.fresh = lookup[t].fresh
      BY <3>1 DEF Lookup
    <3> QED
      BY <3>1, <3>2, <3>3, IdleType
  <2> QED
    BY <1>10, <2>1, <2>2 DEF ChangeAnchor, TypeOK, Lookup
<1>11. CASE Seed
  <2>1. PICK ips \in SUBSET Addresses(desired.pf.seed) : table' = table \union ips
    BY <1>11 DEF Seed
  <2>2. Addresses(desired.pf.seed) \subseteq Address
    BY SeedType DEF TypeOK, PfMode
  <2> QED
    BY <1>2, <1>11, <2>1, <2>2 DEF Seed, TypeOK
<1>12. CASE FinishApply
  BY <1>12, OpenType DEF FinishApply, TypeOK
<1>13. CASE UNCHANGED vars
  BY <1>13 DEF vars, TypeOK
<1> QED
  BY <1>3, <1>4, <1>5, <1>6, <1>7, <1>8, <1>9, <1>10, <1>11, <1>12, <1>13 DEF Next

-----------------------------------------------------------------------------
(* The marks *)

\* A lookup that changes neither marks nor table.
LEMMA LearnedUntouched ==
  ASSUME TypeOK, LearnedIsInTable, UNCHANGED <<learned, watchdog, table, refused>>,
         \A t \in Thread : lookup'[t] = lookup[t] \/ lookup[t].pc # "add"
  PROVE  LearnedIsInTable'
  BY DEF LearnedIsInTable, watchdog

LEMMA LearnedStays == TypeOK /\ LearnedIsInTable /\ [Next]_vars => LearnedIsInTable'
<1>1. SUFFICES ASSUME TypeOK, LearnedIsInTable, [Next]_vars PROVE LearnedIsInTable'
  OBVIOUS
<1> USE <1>1
<1>2. ASSUME NEW t \in Thread, NEW n \in Name, Ask(t, n) PROVE LearnedIsInTable'
  <2>1. CASE lookup' = lookup
    BY <1>2, <2>1, AskStep, LearnedUntouched
  <2>2. CASE lookup' # lookup
    BY <1>2, <2>2, AskStep, OwnStep, LearnedUntouched
  <2> QED
    BY <2>1, <2>2
<1>3. ASSUME NEW t \in Thread, Forward(t) PROVE LearnedIsInTable'
  BY <1>3, ForwardStep, OwnStep, LearnedUntouched
<1>4. ASSUME NEW t \in Thread, Reply(t) PROVE LearnedIsInTable'
  BY <1>4, ReplyStep, OwnStep, LearnedUntouched
<1>5. ASSUME NEW t \in Thread, Learn(t) PROVE LearnedIsInTable'
  <2>1. PICK l \in Lookup :
          /\ lookup' = [lookup EXCEPT ![t] = l] /\ lookup[t].pc = "learn"
          /\ l.fresh = lookup[t].answer \ learned
          /\ \/ l.pc = "add"
             \/ l.pc = "reply" /\ l.fresh = {}
    BY <1>5, LearnStep
  <2>2. lookup'[t] = l /\ \A u \in Thread : u # t => lookup'[u] = lookup[u]
    BY <2>1, OwnStep
  <2>3. UNCHANGED <<anchor, phase, table, refused>> /\ learned' = learned \union lookup[t].answer
    BY <1>5, LearnStep DEF watchdog
  <2> QED
    BY <2>1, <2>2, <2>3 DEF LearnedIsInTable
<1>6. ASSUME NEW t \in Thread, Add(t) PROVE LearnedIsInTable'
  <2>1. \A u \in Thread : u # t => lookup'[u] = lookup[u]
    BY <1>6, AddStep, OwnStep
  <2>2. /\ UNCHANGED <<anchor, phase, learned>>
        /\ table' \union refused' = table \union refused \union lookup[t].fresh
    BY <1>6, AddStep DEF watchdog
  <2> QED
    BY <2>1, <2>2 DEF LearnedIsInTable
<1>7. CASE Apply \/ KeepAnchor \/ FinishApply
  <2>1. UNCHANGED <<learned, lookup, anchor, table, refused>> /\ phase # "reset"
    BY <1>7 DEF Apply, KeepAnchor, FinishApply
  <2> QED
    BY <2>1 DEF LearnedIsInTable
<1>8. CASE ChangeAnchor
  BY <1>8 DEF ChangeAnchor, LearnedIsInTable
<1>9. CASE ResetLearned
  BY <1>9 DEF ResetLearned, LearnedIsInTable
<1>10. CASE Seed
  <2>1. UNCHANGED <<learned, lookup, anchor, refused>> /\ phase = "seed" /\ table \subseteq table'
    BY <1>10 DEF Seed
  <2> QED
    BY <2>1 DEF LearnedIsInTable
<1>11. CASE UNCHANGED vars
  BY <1>11 DEF vars, LearnedIsInTable
<1> QED
  BY <1>2, <1>3, <1>4, <1>5, <1>6, <1>7, <1>8, <1>9, <1>10, <1>11 DEF Next

\* Every variable keeps to its type, and a thread has addresses to add only while
\* it is about to add them.
THEOREM FilterIsTyped == Spec => []TypeOK
  BY TypesAtFirst, TypesStay, PTL DEF Spec

\* However the lookups of any number of threads interleave with reloads of the
\* anchor, an address that is marked is in the table of the lockout, on its way
\* there, or was refused by pfctl (handle against load_pf's reset_learned).
THEOREM LearnedIsInTableAlways == Spec => []LearnedIsInTable
<1>1. Init => LearnedIsInTable
  BY DEF Init, LearnedIsInTable
<1>2. Init => TypeOK
  BY TypesAtFirst
<1>3. TypeOK /\ [Next]_vars => TypeOK'
  BY TypesStay
<1>4. TypeOK /\ LearnedIsInTable /\ [Next]_vars => LearnedIsInTable'
  BY LearnedStays
<1> QED
  BY <1>1, <1>2, <1>3, <1>4, PTL DEF Spec

-----------------------------------------------------------------------------
(* What is reachable in the lockout *)

\* The lockouts of the policies, of which there is but one.
Lockouts == {d \in Wanted : d.pf.kind = "table" \/ d.dns.kind = "allow"}

OneLockout == \A d, e \in Lockouts : d = e

Permitted == UNION {Addresses(Allowed(d.dns) \union d.pf.seed) : d \in Lockouts}

Confined ==
  /\ table \subseteq Permitted
  /\ \A t \in Thread : lookup[t].answer \subseteq Permitted /\ lookup[t].fresh \subseteq Permitted
  /\ {desired, engaged} \subseteq Wanted \union {Open}
  /\ mode.kind = "allow" => \E d \in Lockouts : mode = d.dns
  /\ phase \in {"reset", "seed"} => desired.pf.kind = "table"

LEMMA LookupConfined ==
  ASSUME TypeOK, Confined, UNCHANGED <<watchdog, table>>, NEW t \in Thread, NEW l \in Lookup,
         lookup' = [lookup EXCEPT ![t] = l], l.answer \subseteq Permitted,
         l.fresh \subseteq Permitted
  PROVE  Confined'
<1>1. \A u \in Thread : lookup'[u].answer \subseteq Permitted /\ lookup'[u].fresh \subseteq Permitted
  BY OwnStep DEF Confined
<1> QED
  BY <1>1 DEF Confined, watchdog

LEMMA ConfinedStays == TypeOK /\ Confined /\ [Next]_vars => Confined'
<1>1. SUFFICES ASSUME TypeOK, Confined, [Next]_vars PROVE Confined'
  OBVIOUS
<1> USE <1>1
<1>2. ASSUME NEW t \in Thread, NEW n \in Name, Ask(t, n) PROVE Confined'
  <2>1. CASE lookup' = lookup
    BY <1>2, <2>1, AskStep DEF Confined, watchdog
  <2>2. CASE lookup' # lookup
    <3>1. PICK l \in Lookup :
            /\ lookup' = [lookup EXCEPT ![t] = l]
            /\ l.answer = Resolves[n] /\ l.fresh = {}
            /\ mode.kind = "allow" /\ n \in Allowed(mode)
      BY <1>2, <2>2, AskStep
    <3>2. PICK d \in Lockouts : mode = d.dns
      BY <3>1 DEF Confined
    <3>3. l.answer \subseteq Permitted
      BY <3>1, <3>2 DEF Permitted, Addresses
    <3> QED
      BY <1>2, <3>1, <3>3, AskStep, LookupConfined
  <2> QED
    BY <2>1, <2>2
<1>3. ASSUME NEW t \in Thread, Forward(t) PROVE Confined'
  <2>1. PICK l \in Lookup : /\ lookup' = [lookup EXCEPT ![t] = l] /\ l.fresh = {}
                            /\ l.answer \subseteq lookup[t].answer
    BY <1>3, ForwardStep
  <2>2. l.answer \subseteq Permitted
    BY <2>1 DEF Confined
  <2> QED
    BY <1>3, <2>1, <2>2, ForwardStep, LookupConfined
<1>4. ASSUME NEW t \in Thread, Learn(t) PROVE Confined'
  <2>1. PICK l \in Lookup : /\ lookup' = [lookup EXCEPT ![t] = l]
                            /\ l.fresh = lookup[t].answer \ learned
                            /\ l.answer = lookup[t].answer
    BY <1>4, LearnStep
  <2>2. l.answer \subseteq Permitted /\ l.fresh \subseteq Permitted
    BY <2>1 DEF Confined
  <2> QED
    BY <1>4, <2>1, <2>2, LearnStep, LookupConfined
<1>5. ASSUME NEW t \in Thread, Add(t) PROVE Confined'
  <2>1. PICK l \in Lookup : /\ lookup' = [lookup EXCEPT ![t] = l] /\ l.fresh = {}
                            /\ l.answer = lookup[t].answer
    BY <1>5, AddStep
  <2>2. \A u \in Thread : /\ lookup'[u].answer \subseteq Permitted
                          /\ lookup'[u].fresh \subseteq Permitted
    BY <2>1, OwnStep DEF Confined
  <2>3. table' \subseteq table \union lookup[t].fresh /\ UNCHANGED watchdog
    BY <1>5, AddStep
  <2> QED
    BY <2>2, <2>3 DEF Confined, watchdog
<1>6. ASSUME NEW t \in Thread, Reply(t) PROVE Confined'
  <2>1. PICK l \in Lookup : lookup' = [lookup EXCEPT ![t] = l] /\ l.fresh = {} /\ l.answer = {}
    BY <1>6, ReplyStep
  <2> QED
    BY <1>6, <2>1, ReplyStep, LookupConfined
<1>7. CASE Apply
  <2>1. PICK d \in Wanted :
          desired' = d /\ mode' = IF d.dns # Off /\ d.dns # engaged.dns THEN d.dns ELSE mode
    BY <1>7 DEF Apply
  <2>2. mode'.kind = "allow" => \E e \in Lockouts : mode' = e.dns
    BY <2>1 DEF Confined, Lockouts
  <2>3. UNCHANGED <<table, lookup, engaged>> /\ phase' = "anchor"
    BY <1>7 DEF Apply
  <2> QED
    BY <2>1, <2>2, <2>3 DEF Confined
<1>8. CASE KeepAnchor \/ ResetLearned
  BY <1>8 DEF KeepAnchor, ResetLearned, Confined
<1>9. CASE ChangeAnchor
  <2>1. \A t \in Thread : lookup'[t].answer \subseteq Permitted /\ lookup'[t].fresh \subseteq Permitted
    <3>1. ASSUME NEW t \in Thread
          PROVE  lookup'[t] = Idle \/ /\ lookup'[t].answer = lookup[t].answer
                                      /\ lookup'[t].fresh = lookup[t].fresh
      <4>1. lookup[t] \in Lookup
        BY DEF TypeOK, Lookup
      <4>2. lookup'[t] = Idle \/ lookup'[t] = [lookup[t] EXCEPT !.reloaded = TRUE]
        BY <1>9 DEF ChangeAnchor
      <4> QED
        BY <4>1, <4>2 DEF Lookup
    <3> QED
      BY <3>1, IdleType DEF Confined
  <2>2. /\ UNCHANGED <<mode, desired, engaged>> /\ table' \subseteq table
        /\ phase' \in {"reset", "seed"} => desired.pf.kind = "table"
    BY <1>9 DEF ChangeAnchor
  <2> QED
    BY <2>1, <2>2 DEF Confined
<1>10. CASE Seed
  <2>1. PICK ips \in SUBSET Addresses(desired.pf.seed) : table' = table \union ips
    BY <1>10 DEF Seed
  <2>2. desired \in Lockouts
    BY <1>10, OpenType DEF Seed, Confined, Lockouts
  <2>3. ips \subseteq Permitted
    BY <2>1, <2>2 DEF Permitted, Addresses
  <2> QED
    BY <1>10, <2>1, <2>3 DEF Seed, Confined
<1>11. CASE FinishApply
  BY <1>11, OpenType DEF FinishApply, Confined
<1>12. CASE UNCHANGED vars
  BY <1>12 DEF vars, Confined
<1> QED
  BY <1>2, <1>3, <1>4, <1>5, <1>6, <1>7, <1>8, <1>9, <1>10, <1>11, <1>12 DEF Next

\* With one lockout policy, whatever the lookups learned before or during it and
\* however often it comes and goes: only what the earn sources and the allowed
\* names resolve to is in the table (docs/site-filter.md).
THEOREM OnlyAllowedReachableAlways ==
  ASSUME OneLockout
  PROVE  Spec => []OnlyAllowedReachable
<1>1. Init => Confined
  BY OpenType, IdleType DEF Init, Confined
<1>2. Init => TypeOK
  BY TypesAtFirst
<1>3. TypeOK /\ [Next]_vars => TypeOK'
  BY TypesStay
<1>4. TypeOK /\ Confined /\ [Next]_vars => Confined'
  BY ConfinedStays
<1>5. Confined => OnlyAllowedReachable
  <2>1. SUFFICES ASSUME Confined, engaged.pf.kind = "table", engaged.dns.kind = "allow"
                 PROVE  table \subseteq Addresses(Allowed(engaged.dns) \union engaged.pf.seed)
    BY DEF OnlyAllowedReachable
  <2>2. engaged \in Lockouts
    BY <2>1, OpenType DEF Confined, Lockouts
  <2>3. Lockouts = {engaged}
    BY <2>2 DEF OneLockout
  <2> QED
    BY <2>1, <2>3 DEF Confined, Permitted
<1> QED
  BY <1>1, <1>2, <1>3, <1>4, <1>5, PTL DEF Spec
=============================================================================
