-------------------------- MODULE EarnedGateProofs --------------------------
(***************************************************************************)
(* Theorems about EarnedGate, for every calendar, set of chores, policies,  *)
(* files, attempt limit and bound on restarts.                              *)
(*                                                                          *)
(* The operators that compute a ledger from a ledger are proved to preserve *)
(* the type and the soundness of one ledger; the actions then only choose   *)
(* which of them to apply and whether the result is saved, so that memory   *)
(* and file are sound together.  On these rest what a restart keeps, the    *)
(* daily cap, the PIN lockout and, while definitions stay, that no chore is *)
(* credited twice.                                                          *)
(***************************************************************************)
EXTENDS EarnedGate, TLAPS

\* What one ledger must satisfy on its own.
Sound(L) ==
  /\ L.bonus <= L.earned
  /\ \A k \in L.claims : <<k.id, k.period>> \notin L.verified

-----------------------------------------------------------------------------
(* The calendar and the caps *)

LEMMA PeriodType == ASSUME NEW c \in Chore, NEW t \in Time PROVE Period(c, t) \in Nat
  BY CalendarAssumption DEF Period, Time

LEMMA DatesGrow ==
  ASSUME NEW s \in Time, NEW t \in Time, s <= t
  PROVE  DateOf[s] <= DateOf[t] /\ DateOf[t] \in Nat
  BY CalendarAssumption

LEMMA DefaultPolicyType == DefaultPolicy \in PolicyRecord
  BY DEF DefaultPolicy, PolicyRecord

LEMMA CreditType ==
  ASSUME NEW L \in LedgerRecord, NEW pol \in PolicyRecord, NEW m \in Nat
  PROVE  Credit(pol, L, m) \in Nat
  BY DEF Credit, Least, Positive, LedgerRecord, PolicyRecord

LEMMA BonusWantedType ==
  ASSUME NEW L \in LedgerRecord, policy \in PolicyRecord, NEW c \in Chore
  PROVE  BonusWanted(L, c) \in Nat
  BY ChoreAssumption DEF BonusWanted, Least, Positive, LedgerRecord, PolicyRecord

-----------------------------------------------------------------------------
(* The ledger's operators preserve its type *)

LEMMA RolloverType ==
  ASSUME NEW L \in LedgerRecord, NEW D, NEW t \in Time
  PROVE  Rollover(L, D, t) \in LedgerRecord
  BY CalendarAssumption DEF Rollover, LedgerRecord

LEMMA ExpireClaimsType ==
  ASSUME NEW L \in LedgerRecord, NEW D, NEW t \in Time
  PROVE  ExpireClaims(L, D, t) \in LedgerRecord
  BY DEF ExpireClaims, LedgerRecord

LEMMA DropClaimsType ==
  ASSUME NEW L \in LedgerRecord, NEW c
  PROVE  DropClaims(L, c) \in LedgerRecord
  BY DEF DropClaims, LedgerRecord

LEMMA BankedType ==
  ASSUME NEW L \in LedgerRecord, NEW pol \in PolicyRecord, NEW add \in Nat
  PROVE  Banked(pol, L, add) \in LedgerRecord
<1>1. /\ L.earned \in Nat /\ L.balance \in Nat /\ L.uncapped \in Nat
      /\ pol.maxBank \in Nat
  BY DEF LedgerRecord, PolicyRecord
<1>2. /\ L.earned + add \in Nat
      /\ (IF add > 0 /\ pol.maxBank > 0 THEN Least(L.balance + add, pol.maxBank)
          ELSE L.balance + add) \in Nat
      /\ (IF pol.dailyCap > 0 THEN L.uncapped ELSE L.uncapped + add) \in Nat
  BY <1>1 DEF Least
<1> QED
  BY <1>2 DEF Banked, LedgerRecord

LEMMA RecordVerifiedType ==
  ASSUME NEW L \in LedgerRecord, policy \in PolicyRecord, NEW c \in Chore, NEW p \in Nat
  PROVE  RecordVerified(L, c, p) \in LedgerRecord
<1> DEFINE add == Credit(policy, L, BonusWanted(L, c))
           B   == Banked(policy, L, add)
<1>1. add \in Nat
  BY BonusWantedType, CreditType
<1>2. B \in LedgerRecord
  BY <1>1, BankedType
<1>3. <<c, p>> \in Entry
  BY DEF Entry
<1>4. RecordVerified(L, c, p) =
        [B EXCEPT !.bonus = @ + add, !.verified = @ \union {<<c, p>>},
                  !.credited = @ \union {<<c, p>>},
                  !.twice = @ \/ <<c, p>> \in L.credited]
  BY DEF RecordVerified
<1> HIDE DEF add, B
<1>5. /\ B.bonus + add \in Nat
      /\ B.verified \union {<<c, p>>} \in SUBSET Entry
      /\ B.credited \union {<<c, p>>} \in SUBSET Entry
      /\ (B.twice \/ <<c, p>> \in L.credited) \in BOOLEAN
  BY <1>1, <1>2, <1>3 DEF LedgerRecord
<1> QED
  BY <1>2, <1>4, <1>5 DEF LedgerRecord

LEMMA TidiedType ==
  ASSUME TypeOK
  PROVE  Tidied \in LedgerRecord
  BY RolloverType, ExpireClaimsType DEF Tidied, TypeOK

-----------------------------------------------------------------------------
(* They preserve the soundness of a ledger *)

LEMMA RolloverSound ==
  ASSUME NEW L \in LedgerRecord, Sound(L), NEW D, NEW t \in Time
  PROVE  Sound(Rollover(L, D, t))
  BY DEF Rollover, LedgerRecord, Sound

LEMMA ExpireClaimsSound ==
  ASSUME NEW L \in LedgerRecord, Sound(L), NEW D, NEW t \in Time
  PROVE  Sound(ExpireClaims(L, D, t))
  BY DEF ExpireClaims, LedgerRecord, Sound

LEMMA BankedSound ==
  ASSUME NEW L \in LedgerRecord, Sound(L), NEW pol \in PolicyRecord, NEW add \in Nat
  PROVE  Sound(Banked(pol, L, add))
  BY DEF Banked, LedgerRecord, Sound

\* A bonus is credited to both counters, and the claims of c go.
LEMMA RecordVerifiedSound ==
  ASSUME NEW L \in LedgerRecord, Sound(L), policy \in PolicyRecord,
         NEW c \in Chore, NEW p \in Nat
  PROVE  /\ Sound(DropClaims(RecordVerified(L, c, p), c))
         /\ (\A k \in L.claims : k.id # c) => Sound(RecordVerified(L, c, p))
<1> DEFINE add == Credit(policy, L, BonusWanted(L, c))
           R   == RecordVerified(L, c, p)
<1>1. add \in Nat
  BY BonusWantedType, CreditType
<1>2. /\ R \in LedgerRecord
      /\ R.bonus = L.bonus + add /\ R.earned = L.earned + add
      /\ R.claims = L.claims /\ R.verified = L.verified \union {<<c, p>>}
  <2>1. R \in LedgerRecord
    BY RecordVerifiedType
  <2> HIDE DEF add
  <2>2. QED
    BY <1>1, <2>1 DEF RecordVerified, Banked, LedgerRecord, add
<1>3. DropClaims(R, c).claims = {k \in L.claims : k.id # c}
      /\ DropClaims(R, c).verified = R.verified
      /\ DropClaims(R, c).bonus = R.bonus /\ DropClaims(R, c).earned = R.earned
  BY <1>2 DEF DropClaims, LedgerRecord
<1> HIDE DEF add, R
<1>4. L.bonus + add <= L.earned + add
  BY <1>1 DEF Sound, LedgerRecord
<1>5. \A k \in L.claims : k.id # c => <<k.id, k.period>> \notin R.verified
  BY <1>2 DEF Sound
<1> QED
  BY <1>2, <1>3, <1>4, <1>5 DEF Sound, R


-----------------------------------------------------------------------------
(* The type invariant *)

LEMMA InitTypeOK == Init => TypeOK
<1> SUFFICES ASSUME Init PROVE TypeOK
  OBVIOUS
<1>1. EmptyLedger \in LedgerRecord
  BY DEF EmptyLedger, LedgerRecord, NoDate
<1>2. NoMerge \in [todo: SUBSET Entry, at: Time, changed: BOOLEAN]
  BY CalendarAssumption DEF NoMerge, Time
<1>3. NoGuess \in [streak: 0..MaxAttempts, lockedAt: Nat]
  BY PolicyAssumption DEF NoGuess
<1>4. 0 \in Time
  BY CalendarAssumption DEF Time
<1>5. /\ bank \in [there: BOOLEAN, chores: SUBSET Chore]
      /\ dirty \in [bank: BOOLEAN, grants: BOOLEAN]
      /\ grants \in [there: BOOLEAN, named: BOOLEAN, chores: SUBSET Chore,
                     verified: SUBSET Entry]
  BY DEF Init
<1> QED
  BY <1>1, <1>2, <1>3, <1>4, <1>5, DefaultPolicyType DEF Init, TypeOK

LEMMA WorldTypeOK ==
  ASSUME TypeOK, ClockTick \/ InstallBank \/ InstallGrants \/ Restart
  PROVE  TypeOK'
<1>1. CASE ClockTick
  <2>1. clock' \in Time
    BY <1>1, CalendarAssumption DEF ClockTick, TypeOK, Time
  <2> QED
    BY <1>1, <2>1, ZenonT(40) DEF ClockTick, TypeOK, files
<1>2. CASE InstallBank
  <2>1. PICK b \in Banks : /\ bank' = [there |-> TRUE, chores |-> b.chores]
                           /\ pinFile' = b.pin
    BY <1>2 DEF InstallBank
  <2>2. b \in [chores: SUBSET Chore, pin: BOOLEAN]
    BY FileAssumption
  <2>3. bank' \in [there: BOOLEAN, chores: SUBSET Chore] /\ pinFile' \in BOOLEAN
    BY <2>1, <2>2
  <2>4. dirty' \in [bank: BOOLEAN, grants: BOOLEAN]
    BY <1>2 DEF InstallBank, TypeOK
  <2> QED
    BY <1>2, <2>3, <2>4 DEF InstallBank, TypeOK, snapshot
<1>3. CASE InstallGrants
  <2>1. PICK g \in KidGrants, lead \in 0..ApprovalLead :
          /\ clock + lead \in Time
          /\ grants' = [there |-> TRUE, named |-> g.named, chores |-> g.chores,
                        verified |-> {<<c, Period(c, clock + lead)>> : c \in g.approved}]
    BY <1>3 DEF InstallGrants
  <2>2. g \in [named: BOOLEAN, chores: SUBSET Chore, approved: SUBSET Chore]
    BY FileAssumption
  <2>3. {<<c, Period(c, clock + lead)>> : c \in g.approved} \in SUBSET Entry
    BY <2>1, <2>2, PeriodType DEF Entry
  <2>4. grants' \in [there: BOOLEAN, named: BOOLEAN, chores: SUBSET Chore,
                     verified: SUBSET Entry]
    BY <2>1, <2>2, <2>3
  <2>5. dirty' \in [bank: BOOLEAN, grants: BOOLEAN]
    BY <1>3 DEF InstallGrants, TypeOK
  <2> QED
    BY <1>3, <2>4, <2>5 DEF InstallGrants, TypeOK, snapshot
<1>4. CASE Restart
  <2>1. NoMerge \in [todo: SUBSET Entry, at: Time, changed: BOOLEAN]
    BY CalendarAssumption DEF NoMerge, Time
  <2>2. dirty' \in [bank: BOOLEAN, grants: BOOLEAN]
    BY <1>4 DEF Restart, Unread, TypeOK
  <2>3. crashes' \in Nat
    BY <1>4 DEF Restart, TypeOK
  <2> QED
    BY <1>4, <2>1, <2>2, <2>3, DefaultPolicyType DEF Restart, TypeOK, files
<1> QED
  BY <1>1, <1>2, <1>3, <1>4

LEMMA MergeTypeOK ==
  ASSUME TypeOK, Reload \/ MergeEntry \/ MergeDone
  PROVE  TypeOK'
<1>1. CASE Reload
  <2>1. Rollover(ledger, defs', clock) \in LedgerRecord
    BY RolloverType DEF TypeOK
  <2>2. ledger' \in LedgerRecord /\ defs' \subseteq Chore
    BY <1>1, <2>1 DEF Reload, TypeOK
  <2>3. merge' \in [todo: SUBSET Entry, at: Time, changed: BOOLEAN]
    <3>1. \/ merge' = merge
          \/ merge' = [todo |-> grants.verified, at |-> clock, changed |-> FALSE]
      BY <1>1 DEF Reload
    <3>2. grants.verified \in SUBSET Entry /\ clock \in Time
      BY DEF TypeOK
    <3>3. merge \in [todo: SUBSET Entry, at: Time, changed: BOOLEAN]
      BY DEF TypeOK
    <3>4. [todo |-> grants.verified, at |-> clock, changed |-> FALSE]
            \in [todo: SUBSET Entry, at: Time, changed: BOOLEAN]
      BY <3>2
    <3> QED
      BY <3>1, <3>3, <3>4
  <2> QED
    BY <1>1, <2>2, <2>3 DEF Reload, TypeOK, files, snapshot
<1>2. CASE MergeEntry
  <2>1. PICK e \in Mergeable :
          /\ ledger' = DropClaims(RecordVerified(ledger, e[1], e[2]), e[1])
          /\ merge' = [merge EXCEPT !.todo = @ \ {e}, !.changed = TRUE]
    BY <1>2 DEF MergeEntry
  <2>2. e[1] \in Chore /\ e[2] \in Nat
    BY DEF Mergeable, TypeOK, Entry
  <2>3. ledger' \in LedgerRecord
    BY <2>1, <2>2, RecordVerifiedType, DropClaimsType DEF TypeOK
  <2> QED
    BY <1>2, <2>1, <2>3, ZenonT(40) DEF MergeEntry, TypeOK, files, snapshot
<1>3. CASE MergeDone
  <2>1. NoMerge \in [todo: SUBSET Entry, at: Time, changed: BOOLEAN]
    BY CalendarAssumption DEF NoMerge, Time
  <2> QED
    BY <1>3, <2>1 DEF MergeDone, TypeOK, files, snapshot
<1> QED
  BY <1>1, <1>2, <1>3

LEMMA ChoreOpTypeOK ==
  ASSUME TypeOK, NEW c \in Chore,
         \/ Claim(c) \/ Reject(c)
         \/ VerifyTurnedAway(c) \/ VerifyWrong(c) \/ VerifyRight(c)
  PROVE  TypeOK'
<1>1. Tidied \in LedgerRecord
  BY TidiedType
<1>2. Period(c, clock) \in Nat
  BY PeriodType DEF TypeOK
<1>3. CASE Claim(c)
  <2>1. [id |-> c, period |-> Period(c, clock), at |-> clock]
          \in [id: Chore, period: Nat, at: Nat]
    BY <1>2, CalendarAssumption DEF TypeOK, Time
  <2>2. ledger' \in LedgerRecord /\ disk' \in LedgerRecord
    BY <1>1, <1>3, <2>1 DEF Claim, LedgerRecord, TypeOK
  <2> QED
    BY <1>3, <2>2 DEF Claim, Release, TypeOK, files, snapshot
<1>4. CASE Reject(c)
  BY <1>4, DropClaimsType DEF Reject, TypeOK, files, snapshot
<1>5. CASE VerifyTurnedAway(c)
  BY <1>1, <1>5 DEF VerifyTurnedAway, Release, TypeOK, files, snapshot
<1>6. CASE VerifyWrong(c)
  <2>1. ledger' \in LedgerRecord
    <3>1. clock + Lockout \in Nat /\ Tidied.failures + 1 \in Nat
      <4>1. Tidied.failures \in Nat
        BY <1>1 DEF LedgerRecord
      <4>2. clock \in Nat /\ Lockout \in Nat
        BY PolicyAssumption, CalendarAssumption DEF TypeOK, Time
      <4> QED
        BY <4>1, <4>2
    <3> QED
      BY <1>1, <1>6, <3>1 DEF VerifyWrong, LedgerRecord
  <2>2. guesses' \in [streak: 0..MaxAttempts, lockedAt: Nat]
    BY <1>6, PolicyAssumption, CalendarAssumption, SMTT(40)
    DEF VerifyWrong, WrongGuess, TypeOK, Time
  <2> QED
    BY <1>6, <2>1, <2>2 DEF VerifyWrong, Release, TypeOK, files, snapshot
<1>7. CASE VerifyRight(c)
  <2>1. DropClaims([Tidied EXCEPT !.failures = 0, !.lockedUntil = 0], c)
          \in LedgerRecord
    <3>1. [Tidied EXCEPT !.failures = 0, !.lockedUntil = 0] \in LedgerRecord
      BY <1>1 DEF LedgerRecord
    <3> QED
      BY <3>1, DropClaimsType
  <2>2. ledger' \in LedgerRecord
    BY <1>2, <1>7, <2>1, RecordVerifiedType DEF VerifyRight, TypeOK
  <2>3. NoGuess \in [streak: 0..MaxAttempts, lockedAt: Nat]
    BY PolicyAssumption DEF NoGuess
  <2> QED
    BY <1>7, <2>2, <2>3 DEF VerifyRight, Release, TypeOK, files, snapshot
<1> QED
  BY <1>3, <1>4, <1>5, <1>6, <1>7

LEMMA GateTypeOK ==
  ASSUME TypeOK, Status \/ Report \/ TickGated \/ \E full \in BOOLEAN : TickOpen(full)
  PROVE  TypeOK'
<1>1. Rollover(ledger, defs, clock) \in LedgerRecord
  BY RolloverType DEF TypeOK
<1>2. CASE Status
  BY <1>2 DEF Status, Release, TypeOK, files, snapshot
<1>3. CASE Report
  <2>1. PICK p \in Policies, minutes \in EarnMinutes :
          LET L == Rollover(ledger, defs, clock)
              add == Credit(p, L, minutes)
          IN  /\ policy' = p
              /\ ledger' = Banked(p, L, add)
              /\ disk' = IF add > 0 THEN ledger' ELSE disk
    BY <1>3 DEF Report
  <2>2. p \in PolicyRecord /\ minutes \in Nat
    BY PolicyAssumption
  <2>3. ledger' \in LedgerRecord /\ disk' \in LedgerRecord
    BY <1>1, <2>1, <2>2, CreditType, BankedType DEF TypeOK
  <2> QED
    BY <1>3, <2>1, <2>2, <2>3 DEF Report, Release, TypeOK, files
<1>4. CASE TickGated
  <2>1. Positive(Rollover(ledger, defs, clock).balance - idle * policy.ratio) \in Nat
    <3>1. idle * policy.ratio \in Nat
      BY DEF TypeOK, PolicyRecord
    <3> QED
      BY <1>1, <3>1 DEF Positive, LedgerRecord
  <2>2. ledger' \in LedgerRecord /\ disk' \in LedgerRecord
    BY <1>1, <1>4, <2>1 DEF TickGated, LedgerRecord, TypeOK
  <2>3. gate' \in {"open", "chores", "earned"} /\ idle' \in {0, 1}
    BY <1>4 DEF TickGated
  <2> QED
    BY <1>4, <2>2, <2>3 DEF TickGated, Release, TypeOK, files, snapshot
<1>5. CASE \E full \in BOOLEAN : TickOpen(full)
  BY <1>5 DEF TickOpen, TypeOK, files, snapshot
<1> QED
  BY <1>2, <1>3, <1>4, <1>5

\* Every variable keeps its type, the ledger's counters never go negative.
THEOREM TypeCorrect == Spec => []TypeOK
<1>1. TypeOK /\ [Next]_vars => TypeOK'
  <2> SUFFICES ASSUME TypeOK, [Next]_vars PROVE TypeOK'
    OBVIOUS
  <2>1. CASE UNCHANGED vars
    BY <2>1 DEF vars, files, snapshot, TypeOK
  <2>2. CASE ChoreOp
    BY <2>2, ChoreOpTypeOK DEF ChoreOp
  <2> QED
    BY <2>1, <2>2, WorldTypeOK, MergeTypeOK, GateTypeOK DEF Next
<1> QED
  BY <1>1, InitTypeOK, PTL DEF Spec


-----------------------------------------------------------------------------
(* Soundness of the ledger, in memory and on disk *)

\* What every action does to the pair (memory, file): the file keeps its
\* contents or receives the new ledger, and a restart goes the other way.
BothSound == Sound(ledger) /\ Sound(disk)

LEMMA TidiedSound ==
  ASSUME TypeOK, Sound(ledger)
  PROVE  Sound(Tidied)
  BY RolloverType, RolloverSound, ExpireClaimsSound DEF Tidied, TypeOK

LEMMA SoundStep == TypeOK /\ BothSound /\ [Next]_vars => BothSound'
<1> SUFFICES ASSUME TypeOK, BothSound, [Next]_vars PROVE BothSound'
  OBVIOUS
<1>1. ledger \in LedgerRecord /\ Sound(ledger) /\ Sound(disk) /\ clock \in Time
      /\ policy \in PolicyRecord
  BY DEF TypeOK, BothSound
<1>2. /\ Tidied \in LedgerRecord /\ Sound(Tidied)
      /\ Rollover(ledger, defs, clock) \in LedgerRecord
      /\ Sound(Rollover(ledger, defs, clock))
  BY <1>1, TidiedType, TidiedSound, RolloverType, RolloverSound
\* It is enough that the new memory is sound.
<1>3. SUFFICES ASSUME ~UNCHANGED <<ledger, disk>>
               PROVE  Sound(ledger') /\ (disk' = disk \/ disk' = ledger' \/ disk' = ledger)
  BY <1>1 DEF BothSound, Sound
<1>4. CASE Restart
  BY <1>1, <1>4 DEF Restart
<1>5. CASE Reload
  <2>1. \/ ledger' = ledger
        \/ ledger' = Rollover(ledger, defs', clock)
    BY <1>5 DEF Reload
  <2> QED
    BY <1>1, <1>5, <2>1, RolloverSound DEF Reload
<1>6. CASE MergeEntry
  <2>1. PICK e \in Mergeable :
          ledger' = DropClaims(RecordVerified(ledger, e[1], e[2]), e[1])
    BY <1>6 DEF MergeEntry
  <2>2. e[1] \in Chore /\ e[2] \in Nat
    BY DEF Mergeable, TypeOK, Entry
  <2> QED
    BY <1>1, <1>6, <2>1, <2>2, RecordVerifiedSound DEF MergeEntry
<1>7. CASE MergeDone
  BY <1>1, <1>7 DEF MergeDone
<1>8. ASSUME NEW c \in Chore, Claim(c)
      PROVE  Sound(ledger') /\ (disk' = disk \/ disk' = ledger')
  <2> DEFINE k == [id |-> c, period |-> Period(c, clock), at |-> clock]
  <2>1. CASE ledger' = Tidied
    BY <1>2, <1>8, <2>1 DEF Claim
  <2>2. CASE ledger' # Tidied
    <3>1. /\ ledger' = [Tidied EXCEPT !.claims = @ \union {k}]
          /\ disk' = ledger'
          /\ <<c, Period(c, clock)>> \notin Tidied.verified
      BY <1>8, <2>2 DEF Claim, IsVerified
    <3> QED
      BY <1>2, <3>1 DEF Sound, LedgerRecord
  <2> QED
    BY <2>1, <2>2
<1>9. ASSUME NEW c \in Chore, Reject(c)
      PROVE  Sound(ledger') /\ disk' = ledger'
  BY <1>1, <1>9 DEF Reject, DropClaims, Sound, LedgerRecord
<1>10. ASSUME NEW c \in Chore, VerifyTurnedAway(c) \/ VerifyWrong(c)
       PROVE  Sound(ledger') /\ (disk' = disk \/ disk' = ledger')
  <2>1. /\ ledger'.claims = Tidied.claims /\ ledger'.verified = Tidied.verified
        /\ ledger'.bonus = Tidied.bonus /\ ledger'.earned = Tidied.earned
    BY <1>2, <1>10 DEF VerifyTurnedAway, VerifyWrong, LedgerRecord
  <2> QED
    BY <1>2, <1>10, <2>1 DEF VerifyTurnedAway, VerifyWrong, Sound
<1>11. ASSUME NEW c \in Chore, VerifyRight(c)
       PROVE  Sound(ledger') /\ disk' = ledger'
  <2> DEFINE L == [Tidied EXCEPT !.failures = 0, !.lockedUntil = 0]
             M == DropClaims(L, c)
  <2>1. L \in LedgerRecord /\ Sound(L)
    BY <1>2 DEF LedgerRecord, Sound
  <2>2. M \in LedgerRecord /\ Sound(M) /\ \A k \in M.claims : k.id # c
    <3> HIDE DEF L
    <3>1. /\ M.claims = {k \in L.claims : k.id # c} /\ M.verified = L.verified
          /\ M.bonus = L.bonus /\ M.earned = L.earned
      BY <2>1 DEF DropClaims, LedgerRecord
    <3> QED
      BY <2>1, <3>1, DropClaimsType DEF Sound
  <2>3. ledger' = RecordVerified(M, c, Period(c, clock)) /\ disk' = ledger'
    BY <1>11 DEF VerifyRight
  <2> HIDE DEF L, M
  <2> QED
    BY <1>1, <2>2, <2>3, PeriodType, RecordVerifiedSound
<1>12. CASE Report
  <2>1. PICK p \in Policies, minutes \in EarnMinutes :
          LET L == Rollover(ledger, defs, clock)
              add == Credit(p, L, minutes)
          IN  /\ ledger' = Banked(p, L, add)
              /\ disk' = IF add > 0 THEN ledger' ELSE disk
    BY <1>12 DEF Report
  <2>2. p \in PolicyRecord /\ minutes \in Nat
    BY PolicyAssumption
  <2> QED
    BY <1>2, <2>1, <2>2, CreditType, BankedSound
<1>13. CASE TickGated
  <2> DEFINE L == Rollover(ledger, defs, clock)
  <2>1. /\ ledger'.claims = L.claims /\ ledger'.verified = L.verified
        /\ ledger'.bonus = L.bonus /\ ledger'.earned = L.earned
    BY <1>2, <1>13 DEF TickGated, LedgerRecord
  <2>2. disk' = disk \/ disk' = ledger'
    BY <1>13 DEF TickGated
  <2> QED
    BY <1>2, <2>1, <2>2 DEF Sound
<1>14. \/ Restart \/ Reload \/ MergeEntry \/ MergeDone \/ Report \/ TickGated
       \/ \E c \in Chore : \/ Claim(c) \/ Reject(c)
                           \/ VerifyTurnedAway(c) \/ VerifyWrong(c) \/ VerifyRight(c)
  BY <1>3 DEF Next, ChoreOp, vars, ClockTick, InstallBank, InstallGrants, Status, TickOpen
<1> QED
  BY <1>4, <1>5, <1>6, <1>7, <1>8, <1>9, <1>10, <1>11, <1>12, <1>13, <1>14

LEMMA BothSoundInvariant == Spec => []BothSound
<1>1. Init => BothSound
  BY DEF Init, BothSound, Sound, EmptyLedger
<1> QED
  BY <1>1, SoundStep, TypeCorrect, PTL DEF Spec

\* Bonus minutes always count as earned minutes, in memory and on disk.
THEOREM BonusIsEarnedAlways == Spec => []BonusIsEarned
<1>1. BothSound => BonusIsEarned
  BY DEF BothSound, Sound, BonusIsEarned
<1> QED
  BY <1>1, BothSoundInvariant, PTL

\* No chore is both claimed and verified for one period, in memory or on disk.
THEOREM VerifiedConsumesClaimAlways == Spec => []VerifiedConsumesClaim
<1>1. BothSound => VerifiedConsumesClaim
  BY DEF BothSound, Sound, VerifiedConsumesClaim
<1> QED
  BY <1>1, BothSoundInvariant, PTL

-----------------------------------------------------------------------------
(* What the ledger's operators do to the fields *)

\* A rollover keeps what outlives the day, and does nothing on the same day.
LEMMA RolloverFields ==
  ASSUME NEW L \in LedgerRecord, NEW D, NEW t \in Time
  PROVE  LET R == Rollover(L, D, t)
         IN  /\ R.balance = L.balance
             /\ R.failures = L.failures /\ R.lockedUntil = L.lockedUntil
             /\ R.verified \subseteq L.verified
             /\ R.date = DateOf[t]
             /\ L.date = DateOf[t] => R = L
             /\ L.date # DateOf[t] => R.earned = 0 /\ R.uncapped = 0
  BY DEF Rollover, LedgerRecord

\* Only claims expire.
LEMMA TidiedFields ==
  ASSUME TypeOK
  PROVE  LET R == Rollover(ledger, defs, clock)
         IN  /\ Tidied.date = R.date /\ Tidied.balance = R.balance
             /\ Tidied.earned = R.earned /\ Tidied.bonus = R.bonus
             /\ Tidied.uncapped = R.uncapped /\ Tidied.verified = R.verified
             /\ Tidied.failures = R.failures /\ Tidied.lockedUntil = R.lockedUntil
<1>1. Rollover(ledger, defs, clock) \in LedgerRecord
  BY RolloverType DEF TypeOK
<1> QED
  BY <1>1 DEF Tidied, ExpireClaims, LedgerRecord

LEMMA BankedFields ==
  ASSUME NEW L \in LedgerRecord, NEW pol \in PolicyRecord, NEW add \in Nat
  PROVE  LET B == Banked(pol, L, add)
         IN  /\ B.earned = L.earned + add
             /\ B.uncapped = IF pol.dailyCap > 0 THEN L.uncapped ELSE L.uncapped + add
             /\ B.date = L.date /\ B.bonus = L.bonus /\ B.verified = L.verified
             /\ B.failures = L.failures /\ B.lockedUntil = L.lockedUntil
             /\ add = 0 => B.balance = L.balance
  BY DEF Banked, LedgerRecord

LEMMA RecordVerifiedFields ==
  ASSUME NEW L \in LedgerRecord, policy \in PolicyRecord, NEW c \in Chore, NEW p \in Nat
  PROVE  LET R == RecordVerified(L, c, p)
             add == Credit(policy, L, BonusWanted(L, c))
         IN  /\ R.date = L.date
             /\ R.failures = L.failures /\ R.lockedUntil = L.lockedUntil
             /\ R.earned = Banked(policy, L, add).earned
             /\ R.uncapped = Banked(policy, L, add).uncapped
<1> DEFINE add == Credit(policy, L, BonusWanted(L, c))
<1>1. add \in Nat
  BY BonusWantedType, CreditType
<1>2. Banked(policy, L, add) \in LedgerRecord
  BY <1>1, BankedType
<1> QED
  BY <1>1, <1>2, BankedFields DEF RecordVerified, LedgerRecord

LEMMA DropClaimsFields ==
  ASSUME NEW L \in LedgerRecord, NEW c
  PROVE  LET M == DropClaims(L, c)
         IN  /\ M.date = L.date /\ M.earned = L.earned /\ M.uncapped = L.uncapped
             /\ M.failures = L.failures /\ M.lockedUntil = L.lockedUntil
  BY DEF DropClaims, LedgerRecord

-----------------------------------------------------------------------------
(* The file keeps what a restart must not lose *)

\* F holds what a restart must not lose of L.
Keeps(F, L) ==
  /\ F.balance = L.balance
  /\ F.failures = L.failures
  /\ F.lockedUntil = L.lockedUntil
  /\ L.verified \subseteq F.verified
  /\ F.date = L.date =>
       F.earned = L.earned /\ F.bonus = L.bonus /\ F.verified = L.verified

\* The file is never ahead of memory, nor memory of the calendar; and they part
\* in what matters only between the first approval merged and the save.
FileInv ==
  /\ disk.date <= ledger.date
  /\ ledger.date <= DateOf[clock]
  /\ (lock = "merging" /\ merge.changed) \/ Keeps(disk, ledger)

\* A rollover that is not saved changes nothing that the file must keep: what it
\* drops, it drops again after a restart, because the file is dated earlier.
LEMMA RolloverKept ==
  ASSUME NEW F \in LedgerRecord, NEW L \in LedgerRecord, NEW D, NEW t \in Time,
         Keeps(F, L), F.date <= L.date, L.date <= DateOf[t]
  PROVE  /\ Keeps(F, Rollover(L, D, t))
         /\ F.date <= Rollover(L, D, t).date
<1>1. F.date \in Int /\ L.date \in Int /\ DateOf[t] \in Int
  BY CalendarAssumption DEF LedgerRecord, NoDate
<1> QED
  BY <1>1, RolloverFields DEF Keeps

LEMMA FileStep == TypeOK /\ FileInv /\ [Next]_vars => FileInv'
<1> SUFFICES ASSUME TypeOK, FileInv, [Next]_vars PROVE FileInv'
  OBVIOUS
<1> DEFINE R == Rollover(ledger, defs, clock)
<1>1. /\ ledger \in LedgerRecord /\ disk \in LedgerRecord /\ R \in LedgerRecord
      /\ clock \in Time /\ DateOf[clock] \in Nat
      /\ policy \in PolicyRecord
      /\ merge \in [todo: SUBSET Entry, at: Time, changed: BOOLEAN]
  BY RolloverType, CalendarAssumption DEF TypeOK
<1>2. /\ disk.date \in Int /\ ledger.date \in Int
      /\ R.date = DateOf[clock] /\ Tidied.date = DateOf[clock]
  BY <1>1, RolloverFields, TidiedFields DEF LedgerRecord, NoDate
<1>3. lock # "merging" =>
        /\ Keeps(disk, R) /\ disk.date <= R.date
        /\ Keeps(disk, Tidied) /\ disk.date <= Tidied.date
  <2> SUFFICES ASSUME lock # "merging"
               PROVE  Keeps(disk, R) /\ disk.date <= R.date /\ Keeps(disk, Tidied)
    BY <1>2
  <2>1. Keeps(disk, R) /\ disk.date <= R.date
    BY <1>1, RolloverKept DEF FileInv
  <2> QED
    BY <2>1, TidiedFields DEF Keeps
<1> HIDE DEF R
\* What is saved is kept.
<1>4. ASSUME disk' = ledger', ledger'.date = DateOf[clock] \/ ledger'.date = ledger.date,
             clock' = clock
      PROVE  FileInv'
  BY <1>1, <1>2, <1>4 DEF FileInv, Keeps
<1>5. CASE UNCHANGED <<ledger, disk, lock, merge>> /\ (clock' = clock \/ ClockTick)
  <2>1. DateOf[clock] <= DateOf[clock'] /\ DateOf[clock'] \in Nat
    <3>1. clock \in Time /\ clock' \in Time /\ clock <= clock'
      <4>1. MaxTime \in Nat /\ clock \in 0..MaxTime
        BY <1>1, CalendarAssumption DEF Time
      <4>2. clock' = clock \/ (clock < MaxTime /\ clock' = clock + 1)
        BY <1>5 DEF ClockTick
      <4> QED
        BY <4>1, <4>2 DEF Time
    <3> QED
      BY <3>1, DatesGrow
  <2> QED
    BY <1>2, <1>5, <2>1, <1>1 DEF FileInv, Keeps
<1>6. CASE Status
  BY <1>6 DEF Status, Release, FileInv, Keeps
<1>7. CASE Restart
  BY <1>1, <1>2, <1>7 DEF Restart, FileInv, Keeps
<1>8. CASE Reload
  <2>1. /\ lock = "free" /\ disk' = disk /\ clock' = clock
        /\ \/ ledger' = ledger /\ lock' = "held"
           \/ ledger' = Rollover(ledger, defs', clock) /\ ~merge'.changed
    BY <1>8 DEF Reload
  <2>2. CASE ledger' = ledger /\ lock' = "held"
    BY <2>1, <2>2 DEF FileInv, Keeps
  <2>3. CASE ledger' = Rollover(ledger, defs', clock) /\ ~merge'.changed
    <3>1. Keeps(disk, ledger') /\ disk.date <= ledger'.date
      BY <1>1, <2>1, <2>3, RolloverKept DEF FileInv
    <3>2. ledger'.date = DateOf[clock]
      BY <1>1, <2>3, RolloverFields
    <3> QED
      BY <1>1, <2>1, <3>1, <3>2 DEF FileInv, Keeps
  <2> QED
    BY <2>1, <2>2, <2>3
<1>9. CASE MergeEntry
  <2>1. PICK e \in Mergeable :
          /\ ledger' = DropClaims(RecordVerified(ledger, e[1], e[2]), e[1])
          /\ merge' = [merge EXCEPT !.todo = @ \ {e}, !.changed = TRUE]
    BY <1>9 DEF MergeEntry
  <2>2. e[1] \in Chore /\ e[2] \in Nat
    BY DEF Mergeable, TypeOK, Entry
  <2>3. ledger'.date = ledger.date
    BY <1>1, <2>1, <2>2, RecordVerifiedType, RecordVerifiedFields, DropClaimsFields
  <2>4. lock' = "merging" /\ merge'.changed
    BY <1>1, <1>9, <2>1 DEF MergeEntry
  <2> QED
    BY <1>9, <2>3, <2>4 DEF MergeEntry, FileInv
<1>10. CASE MergeDone
  <2>1. CASE merge.changed
    BY <1>1, <1>4, <1>10, <2>1 DEF MergeDone
  <2>2. CASE ~merge.changed
    BY <1>10, <2>2 DEF MergeDone, FileInv, Keeps
  <2> QED
    BY <2>1, <2>2
<1>11. ASSUME NEW c \in Chore, Claim(c) \/ VerifyTurnedAway(c)
       PROVE  FileInv'
  <2>1. lock # "merging" /\ clock' = clock
    BY <1>11 DEF Claim, VerifyTurnedAway, Release
  <2>2. CASE ledger' = Tidied /\ disk' = disk
    BY <1>1, <1>2, <1>3, <2>1, <2>2 DEF FileInv, Keeps
  <2>3. CASE ~(ledger' = Tidied /\ disk' = disk)
    <3>1. disk' = ledger' /\ ledger'.date = Tidied.date
      BY <1>11, <2>3, TidiedType DEF Claim, VerifyTurnedAway, LedgerRecord
    <3> QED
      BY <1>2, <1>4, <2>1, <3>1
  <2> QED
    BY <2>2, <2>3
<1>12. ASSUME NEW c \in Chore, Reject(c)
       PROVE  FileInv'
  BY <1>1, <1>4, <1>12, DropClaimsFields DEF Reject
<1>13. ASSUME NEW c \in Chore, VerifyWrong(c)
       PROVE  FileInv'
  <2>1. disk' = ledger' /\ ledger'.date = Tidied.date /\ clock' = clock
    BY <1>13, TidiedType DEF VerifyWrong, Release, LedgerRecord
  <2> QED
    BY <1>2, <1>4, <2>1
<1>14. ASSUME NEW c \in Chore, VerifyRight(c)
       PROVE  FileInv'
  <2> DEFINE L == [Tidied EXCEPT !.failures = 0, !.lockedUntil = 0]
             M == DropClaims(L, c)
  <2>1. L \in LedgerRecord /\ L.date = Tidied.date
    BY TidiedType DEF LedgerRecord
  <2> HIDE DEF L
  <2>2. M \in LedgerRecord /\ M.date = Tidied.date
    BY <2>1, DropClaimsType, DropClaimsFields
  <2> HIDE DEF M
  <2>3. ledger' = RecordVerified(M, c, Period(c, clock)) /\ disk' = ledger' /\ clock' = clock
    BY <1>14 DEF VerifyRight, Release, L, M
  <2> QED
    BY <1>1, <1>2, <1>4, <2>2, <2>3, PeriodType, RecordVerifiedFields
<1>15. CASE Report
  <2>1. PICK p \in Policies, minutes \in EarnMinutes :
          /\ ledger' = Banked(p, R, Credit(p, R, minutes))
          /\ disk' = IF Credit(p, R, minutes) > 0 THEN ledger' ELSE disk
    BY <1>15 DEF Report, R
  <2>2. p \in PolicyRecord /\ Credit(p, R, minutes) \in Nat
    BY <1>1, PolicyAssumption, CreditType
  <2>3. lock # "merging" /\ clock' = clock
    BY <1>15 DEF Report, Release
  <2>4. CASE Credit(p, R, minutes) > 0
    BY <1>1, <1>2, <1>4, <2>1, <2>2, <2>3, <2>4, BankedFields
  <2>5. CASE Credit(p, R, minutes) = 0
    <3>1. /\ ledger'.earned = R.earned + 0 /\ ledger'.bonus = R.bonus
          /\ ledger'.date = R.date /\ ledger'.balance = R.balance
          /\ ledger'.verified = R.verified
          /\ ledger'.failures = R.failures /\ ledger'.lockedUntil = R.lockedUntil
      BY <1>1, <2>1, <2>2, <2>5, BankedFields
    <3>2. disk' = disk /\ R.earned \in Nat
      BY <1>1, <2>1, <2>5 DEF LedgerRecord
    <3> QED
      BY <1>1, <1>2, <1>3, <2>3, <3>1, <3>2 DEF FileInv, Keeps
  <2> QED
    BY <2>2, <2>4, <2>5
<1>16. CASE TickGated
  <2> DEFINE spent == idle * policy.ratio
  <2>1. spent \in Nat /\ R.balance \in Nat
    BY <1>1 DEF TypeOK, PolicyRecord, LedgerRecord
  <2>2. /\ lock # "merging" /\ clock' = clock
        /\ \/ ledger' = R /\ disk' = disk
           \/ /\ ledger' = [R EXCEPT !.balance = Positive(@ - spent)]
              /\ disk' = IF spent > 0 THEN ledger' ELSE disk
    BY <1>16 DEF TickGated, Release, R
  <2> HIDE DEF spent
  <2>3. CASE disk' = ledger'
    <3>1. ledger'.date = R.date
      BY <1>1, <2>2 DEF LedgerRecord
    <3> QED
      BY <1>2, <1>4, <2>2, <2>3, <3>1
  <2>4. CASE disk' # ledger'
    <3>1. ledger' = R /\ disk' = disk
      <4>1. CASE spent > 0
        BY <2>2, <2>4, <4>1
      <4>2. CASE spent = 0
        <5>1. Positive(R.balance - spent) = R.balance
          BY <2>1, <4>2 DEF Positive
        <5>2. [R EXCEPT !.balance = R.balance] = R
          BY <1>1 DEF LedgerRecord
        <5> QED
          BY <2>2, <4>2, <5>1, <5>2
      <4> QED
        BY <2>1, <4>1, <4>2
    <3> QED
      BY <1>1, <1>2, <1>3, <2>2, <3>1 DEF FileInv, Keeps
  <2> QED
    BY <2>3, <2>4
<1>17. CASE UNCHANGED vars \/ InstallBank \/ InstallGrants
            \/ ClockTick \/ \E full \in BOOLEAN : TickOpen(full)
  BY <1>5, <1>17 DEF vars, InstallBank, InstallGrants, ClockTick, TickOpen
<1> QED
  BY <1>6, <1>7, <1>8, <1>9, <1>10, <1>11, <1>12, <1>13, <1>14, <1>15, <1>16, <1>17
  DEF Next, ChoreOp

LEMMA FileAtFirst == Init => FileInv
<1>1. DateOf[0] \in Nat
  BY CalendarAssumption DEF Time
<1> QED
  BY <1>1 DEF Init, FileInv, Keeps, EmptyLedger, NoDate

\* Whenever no approvals are being merged, a restart loses nothing that matters and
\* gives nothing back: balance, PIN attempts, lockout and the day's counters.
THEOREM RestartKeepsLedgerAlways == Spec => []RestartKeepsLedger
<1>1. FileInv => RestartKeepsLedger
  BY DEF FileInv, Keeps, RestartKeepsLedger
<1> QED
  BY <1>1, FileAtFirst, FileStep, TypeCorrect, PTL DEF Spec

-----------------------------------------------------------------------------
(* The daily cap *)

\* Every policy an agent may report has the daily cap `cap`.
OneCap(cap) == cap > 0 /\ \A p \in Policies : p.dailyCap = cap

\* A ledger stays under it but for what was banked while none was known.
Under(L, cap) == L.earned <= cap + L.uncapped

CapInv ==
  /\ policy \in Policies \union {DefaultPolicy}
  /\ \A cap \in Nat : OneCap(cap) => Under(ledger, cap) /\ Under(disk, cap)

\* Banking a credit keeps a ledger under the cap, whether a policy is known or not.
LEMMA BankedUnder ==
  ASSUME NEW cap \in Nat, OneCap(cap),
         NEW L \in LedgerRecord, Under(L, cap),
         NEW pol \in Policies \union {DefaultPolicy}, NEW m \in Nat
  PROVE  Under(Banked(pol, L, Credit(pol, L, m)), cap)
<1> DEFINE add == Credit(pol, L, m)
           B   == Banked(pol, L, add)
<1>1. pol \in PolicyRecord /\ add \in Nat
  BY PolicyAssumption, DefaultPolicyType, CreditType
<1>2. /\ B.earned = L.earned + add
      /\ B.uncapped = IF pol.dailyCap > 0 THEN L.uncapped ELSE L.uncapped + add
  BY <1>1, BankedFields
<1>3. pol.dailyCap = cap \/ pol.dailyCap = 0
  BY DEF OneCap, DefaultPolicy
<1>4. L.earned \in Nat /\ L.uncapped \in Nat /\ L.earned <= cap + L.uncapped
  BY DEF LedgerRecord, Under
<1>5. CASE pol.dailyCap = cap
  <2>1. cap > 0 /\ add <= Positive(cap - L.earned)
    BY <1>4, <1>5 DEF OneCap, Credit, Least, Positive
  <2>2. L.earned + add <= cap + L.uncapped
    BY <1>1, <1>4, <2>1 DEF Positive
  <2> QED
    BY <1>2, <1>5, <2>1, <2>2 DEF Under
<1>6. CASE pol.dailyCap = 0
  BY <1>1, <1>2, <1>4, <1>6 DEF Under
<1> QED
  BY <1>3, <1>5, <1>6

LEMMA RecordVerifiedUnder ==
  ASSUME CapInv, policy \in PolicyRecord, NEW cap \in Nat, OneCap(cap),
         NEW L \in LedgerRecord, Under(L, cap), NEW c \in Chore, NEW p \in Nat
  PROVE  /\ Under(RecordVerified(L, c, p), cap)
         /\ Under(DropClaims(RecordVerified(L, c, p), c), cap)
<1>1. Under(Banked(policy, L, Credit(policy, L, BonusWanted(L, c))), cap)
  BY BankedUnder, BonusWantedType DEF CapInv
<1>2. Under(RecordVerified(L, c, p), cap)
  BY <1>1, RecordVerifiedFields DEF Under
<1> QED
  BY <1>2, RecordVerifiedType, DropClaimsFields DEF Under

LEMMA RolloverUnder ==
  ASSUME NEW cap \in Nat, NEW L \in LedgerRecord, Under(L, cap), NEW D, NEW t \in Time
  PROVE  Under(Rollover(L, D, t), cap)
  BY RolloverFields DEF Under

LEMMA CapStep == TypeOK /\ CapInv /\ [Next]_vars => CapInv'
<1> SUFFICES ASSUME TypeOK, CapInv, [Next]_vars PROVE CapInv'
  OBVIOUS
<1>1. policy' \in Policies \union {DefaultPolicy}
  BY DEF CapInv, Next, ChoreOp, vars, snapshot, ClockTick, InstallBank, InstallGrants,
         Restart, Reload, MergeEntry, MergeDone, Status, Report, TickGated, TickOpen,
         Claim, Reject, VerifyTurnedAway, VerifyWrong, VerifyRight
<1>2. ledger \in LedgerRecord /\ disk \in LedgerRecord /\ clock \in Time
      /\ policy \in PolicyRecord
  BY DEF TypeOK
<1> DEFINE R == Rollover(ledger, defs, clock)
\* It is enough that the new memory is under the cap.
<1>3. SUFFICES ASSUME NEW cap \in Nat, OneCap(cap), ~UNCHANGED <<ledger, disk>>
               PROVE  Under(ledger', cap) /\ (disk' = disk \/ disk' = ledger' \/ disk' = ledger)
  BY <1>1 DEF CapInv, Under, OneCap
<1>4. Under(ledger, cap) /\ Under(disk, cap)
  BY <1>3 DEF CapInv
<1>5. /\ R \in LedgerRecord /\ Under(R, cap)
      /\ Tidied \in LedgerRecord /\ Under(Tidied, cap)
  <2>1. R \in LedgerRecord /\ Under(R, cap)
    BY <1>2, <1>4, RolloverType, RolloverUnder
  <2> HIDE DEF R
  <2>2. Under(Tidied, cap)
    BY <2>1, TidiedFields DEF Under, R
  <2> QED
    BY <2>1, <2>2, TidiedType
<1> HIDE DEF R
<1>6. CASE Restart
  BY <1>4, <1>6 DEF Restart
<1>7. CASE Reload
  <2>1. ledger' = ledger \/ ledger' = Rollover(ledger, defs', clock)
    BY <1>7 DEF Reload
  <2> QED
    BY <1>2, <1>4, <1>7, <2>1, RolloverUnder DEF Reload
<1>8. CASE MergeEntry
  <2>1. PICK e \in Mergeable :
          ledger' = DropClaims(RecordVerified(ledger, e[1], e[2]), e[1])
    BY <1>8 DEF MergeEntry
  <2>2. e[1] \in Chore /\ e[2] \in Nat
    BY DEF Mergeable, TypeOK, Entry
  <2> QED
    BY <1>2, <1>3, <1>4, <1>8, <2>1, <2>2, RecordVerifiedUnder DEF MergeEntry
<1>9. CASE MergeDone
  BY <1>4, <1>9 DEF MergeDone
<1>10. ASSUME NEW c \in Chore,
              Claim(c) \/ Reject(c) \/ VerifyTurnedAway(c) \/ VerifyWrong(c)
       PROVE  Under(ledger', cap) /\ (disk' = disk \/ disk' = ledger')
  <2>1. \/ ledger'.earned = Tidied.earned /\ ledger'.uncapped = Tidied.uncapped
        \/ ledger'.earned = ledger.earned /\ ledger'.uncapped = ledger.uncapped
    <3>1. CASE Claim(c) \/ VerifyTurnedAway(c)
      BY <1>5, <3>1 DEF Claim, VerifyTurnedAway, LedgerRecord
    <3>2. CASE VerifyWrong(c)
      BY <1>5, <3>2 DEF VerifyWrong, LedgerRecord
    <3>3. CASE Reject(c)
      BY <1>2, <3>3, DropClaimsFields DEF Reject
    <3> QED
      BY <1>10, <3>1, <3>2, <3>3
  <2>2. disk' = disk \/ disk' = ledger'
    BY <1>10 DEF Claim, Reject, VerifyTurnedAway, VerifyWrong
  <2> QED
    BY <1>4, <1>5, <2>1, <2>2 DEF Under
<1>11. ASSUME NEW c \in Chore, VerifyRight(c)
       PROVE  Under(ledger', cap) /\ disk' = ledger'
  <2> DEFINE L == [Tidied EXCEPT !.failures = 0, !.lockedUntil = 0]
             M == DropClaims(L, c)
  <2>1. L \in LedgerRecord /\ Under(L, cap)
    BY <1>5 DEF LedgerRecord, Under
  <2> HIDE DEF L
  <2>2. M \in LedgerRecord /\ Under(M, cap)
    BY <2>1, DropClaimsType, DropClaimsFields DEF Under
  <2> HIDE DEF M
  <2>3. ledger' = RecordVerified(M, c, Period(c, clock)) /\ disk' = ledger'
    BY <1>11 DEF VerifyRight, L, M
  <2> QED
    BY <1>2, <1>3, <2>2, <2>3, PeriodType, RecordVerifiedUnder
<1>12. CASE Report
  <2>1. PICK p \in Policies, minutes \in EarnMinutes :
          /\ ledger' = Banked(p, R, Credit(p, R, minutes))
          /\ disk' = IF Credit(p, R, minutes) > 0 THEN ledger' ELSE disk
    BY <1>12 DEF Report, R
  <2>2. minutes \in Nat
    BY PolicyAssumption
  <2> QED
    BY <1>3, <1>5, <2>1, <2>2, BankedUnder
<1>13. CASE TickGated
  <2>1. /\ ledger'.earned = R.earned /\ ledger'.uncapped = R.uncapped
        /\ disk' = disk \/ disk' = ledger'
    BY <1>5, <1>13 DEF TickGated, LedgerRecord, R
  <2> QED
    BY <1>5, <2>1 DEF Under
<1> QED
  BY <1>3, <1>6, <1>7, <1>8, <1>9, <1>10, <1>11, <1>12, <1>13
  DEF Next, ChoreOp, vars, ClockTick, InstallBank, InstallGrants, Status, TickOpen

\* If every policy has the same daily cap, no day's earnings exceed it by more than
\* what was banked that day while no policy was known, in memory or on disk.
THEOREM CapHoldsOnceKnownAlways == Spec => []CapHoldsOnceKnown
<1>1. Init => CapInv
  BY DEF Init, CapInv, Under, EmptyLedger
<1>2. CapInv => CapHoldsOnceKnown
  <2> SUFFICES ASSUME CapInv, NEW q \in Policies,
                      \A p \in Policies : p.dailyCap = q.dailyCap, q.dailyCap > 0
               PROVE  \A L \in {ledger, disk} : L.earned <= q.dailyCap + L.uncapped
    BY DEF CapHoldsOnceKnown
  <2>1. q.dailyCap \in Nat
    BY PolicyAssumption DEF PolicyRecord
  <2> QED
    BY <2>1 DEF CapInv, OneCap, Under
<1> QED
  BY <1>1, <1>2, CapStep, TypeCorrect, PTL DEF Spec

-----------------------------------------------------------------------------
(* Guessing the PIN *)

\* A ledger counts the wrong PINs since the last right one or the last lockout, and
\* remembers that lockout.
Counts(L) ==
  /\ L.failures = IF guesses.streak = MaxAttempts THEN 0 ELSE guesses.streak
  /\ guesses.streak = MaxAttempts => L.lockedUntil = guesses.lockedAt + Lockout

LockInv == Counts(ledger) /\ Counts(disk)

\* L and M agree on the attempts.
SameLock(L, M) == L.failures = M.failures /\ L.lockedUntil = M.lockedUntil

\* Only the operations that compare a PIN touch the attempts.
LEMMA LockUntouched ==
  ASSUME TypeOK, [Next]_vars,
         ~\E c \in Chore : VerifyWrong(c) \/ VerifyRight(c)
  PROVE  /\ UNCHANGED guesses
         /\ SameLock(ledger', ledger) \/ SameLock(ledger', disk)
         /\ disk' = disk \/ disk' = ledger' \/ disk' = ledger
<1> DEFINE R == Rollover(ledger, defs, clock)
<1>1. /\ ledger \in LedgerRecord /\ disk \in LedgerRecord /\ R \in LedgerRecord
      /\ Tidied \in LedgerRecord /\ clock \in Time /\ policy \in PolicyRecord
  BY RolloverType, TidiedType DEF TypeOK
<1>2. SameLock(R, ledger) /\ SameLock(Tidied, ledger)
  BY <1>1, RolloverFields, TidiedFields DEF SameLock
<1> HIDE DEF R
<1>3. CASE \/ UNCHANGED vars \/ ClockTick \/ InstallBank \/ InstallGrants \/ Restart
           \/ MergeDone \/ Status \/ \E full \in BOOLEAN : TickOpen(full)
  BY <1>3 DEF vars, ClockTick, InstallBank, InstallGrants, Restart, MergeDone, Status,
              TickOpen, SameLock
<1>4. CASE Reload
  <2>1. ledger' = ledger \/ ledger' = Rollover(ledger, defs', clock)
    BY <1>4 DEF Reload
  <2> QED
    BY <1>1, <1>4, <2>1, RolloverFields DEF Reload, SameLock
<1>5. CASE MergeEntry
  <2>1. PICK e \in Mergeable :
          ledger' = DropClaims(RecordVerified(ledger, e[1], e[2]), e[1])
    BY <1>5 DEF MergeEntry
  <2>2. e[1] \in Chore /\ e[2] \in Nat
    BY DEF Mergeable, TypeOK, Entry
  <2>3. SameLock(ledger', ledger)
    BY <1>1, <2>1, <2>2, RecordVerifiedType, RecordVerifiedFields, DropClaimsFields
    DEF SameLock
  <2> QED
    BY <1>5, <2>3 DEF MergeEntry
<1>6. ASSUME NEW c \in Chore, Claim(c) \/ VerifyTurnedAway(c)
      PROVE  /\ UNCHANGED guesses /\ SameLock(ledger', ledger)
             /\ disk' = disk \/ disk' = ledger'
  <2>1. SameLock(ledger', Tidied)
    BY <1>1, <1>6 DEF Claim, VerifyTurnedAway, LedgerRecord, SameLock
  <2> QED
    BY <1>2, <1>6, <2>1 DEF Claim, VerifyTurnedAway, SameLock
<1>7. ASSUME NEW c \in Chore, Reject(c)
      PROVE  /\ UNCHANGED guesses /\ SameLock(ledger', ledger) /\ disk' = ledger'
  BY <1>1, <1>7, DropClaimsFields DEF Reject, SameLock
<1>8. CASE Report
  <2>1. PICK p \in Policies, minutes \in EarnMinutes :
          /\ ledger' = Banked(p, R, Credit(p, R, minutes))
          /\ disk' = IF Credit(p, R, minutes) > 0 THEN ledger' ELSE disk
    BY <1>8 DEF Report, R
  <2>2. p \in PolicyRecord /\ Credit(p, R, minutes) \in Nat
    BY <1>1, PolicyAssumption, CreditType
  <2>3. SameLock(ledger', R)
    BY <1>1, <2>1, <2>2, BankedFields DEF SameLock
  <2> QED
    BY <1>2, <1>8, <2>1, <2>3 DEF Report, SameLock
<1>9. CASE TickGated
  <2>1. SameLock(ledger', R)
    BY <1>1, <1>9 DEF TickGated, LedgerRecord, SameLock, R
  <2> QED
    BY <1>2, <1>9, <2>1 DEF TickGated, SameLock
<1> QED
  BY <1>3, <1>4, <1>5, <1>6, <1>7, <1>8, <1>9 DEF Next, ChoreOp

LEMMA LockStep == TypeOK /\ LockInv /\ [Next]_vars => LockInv'
<1> SUFFICES ASSUME TypeOK, LockInv, [Next]_vars PROVE LockInv'
  OBVIOUS
<1>1. /\ Tidied \in LedgerRecord /\ SameLock(Tidied, ledger)
      /\ clock \in Nat /\ MaxAttempts \in Nat \ {0} /\ Lockout \in Nat
      /\ guesses \in [streak: 0..MaxAttempts, lockedAt: Nat]
  <2> DEFINE R == Rollover(ledger, defs, clock)
  <2>1. /\ clock \in Time /\ clock \in Nat
        /\ guesses \in [streak: 0..MaxAttempts, lockedAt: Nat]
    BY CalendarAssumption DEF TypeOK, Time
  <2>2. Tidied \in LedgerRecord /\ ledger \in LedgerRecord
    BY TidiedType DEF TypeOK
  <2>3. SameLock(Tidied, ledger)
    <3>1. R.failures = ledger.failures /\ R.lockedUntil = ledger.lockedUntil
      BY <2>1, <2>2, RolloverFields
    <3>2. Tidied.failures = R.failures /\ Tidied.lockedUntil = R.lockedUntil
      BY TidiedFields
    <3> QED
      BY <3>1, <3>2 DEF SameLock
  <2> QED
    BY <2>1, <2>2, <2>3, PolicyAssumption
<1>2. CASE ~\E c \in Chore : VerifyWrong(c) \/ VerifyRight(c)
  BY <1>2, LockUntouched DEF LockInv, Counts, SameLock
<1>3. ASSUME NEW c \in Chore, VerifyWrong(c)
      PROVE  LockInv'
  <2>1. Tidied.failures = IF guesses.streak = MaxAttempts THEN 0 ELSE guesses.streak
    BY <1>1 DEF LockInv, Counts, SameLock
  <2>2. /\ guesses' = WrongGuess /\ disk' = ledger'
        /\ ledger' = IF Tidied.failures + 1 >= MaxAttempts
                     THEN [Tidied EXCEPT !.failures = 0, !.lockedUntil = clock + Lockout]
                     ELSE [Tidied EXCEPT !.failures = Tidied.failures + 1]
    BY <1>3 DEF VerifyWrong
  <2>3. CASE Tidied.failures + 1 >= MaxAttempts
    <3>1. guesses' = [streak |-> MaxAttempts, lockedAt |-> clock]
      BY <1>1, <2>1, <2>2, <2>3 DEF WrongGuess
    <3>2. ledger'.failures = 0 /\ ledger'.lockedUntil = clock + Lockout
      BY <1>1, <2>2, <2>3 DEF LedgerRecord
    <3> QED
      BY <2>2, <3>1, <3>2 DEF LockInv, Counts
  <2>4. CASE ~(Tidied.failures + 1 >= MaxAttempts)
    <3>1. guesses'.streak = Tidied.failures + 1 /\ guesses'.streak # MaxAttempts
      BY <1>1, <2>1, <2>2, <2>4 DEF WrongGuess
    <3>2. ledger'.failures = Tidied.failures + 1
      BY <1>1, <2>2, <2>4 DEF LedgerRecord
    <3> QED
      BY <2>2, <3>1, <3>2 DEF LockInv, Counts
  <2> QED
    BY <2>3, <2>4
<1>4. ASSUME NEW c \in Chore, VerifyRight(c)
      PROVE  LockInv'
  <2> DEFINE L == [Tidied EXCEPT !.failures = 0, !.lockedUntil = 0]
             M == DropClaims(L, c)
  <2>1. L \in LedgerRecord /\ L.failures = 0
    BY <1>1 DEF LedgerRecord
  <2> HIDE DEF L
  <2>2. M \in LedgerRecord /\ M.failures = 0
    BY <2>1, DropClaimsType, DropClaimsFields
  <2> HIDE DEF M
  <2>3. /\ ledger' = RecordVerified(M, c, Period(c, clock)) /\ disk' = ledger'
        /\ guesses' = NoGuess
    BY <1>4 DEF VerifyRight, L, M
  <2>4. ledger'.failures = 0
    BY <2>2, <2>3, PeriodType, RecordVerifiedFields DEF TypeOK
  <2> QED
    BY <1>1, <2>3, <2>4 DEF LockInv, Counts, NoGuess
<1> QED
  BY <1>2, <1>3, <1>4

\* After MaxAttempts wrong PINs no other is compared before the lockout has passed,
\* whatever restarts, rollovers and deliveries come in between.
THEOREM LockoutHoldsAlways == Spec => LockoutHolds
<1>1. Init => LockInv
  BY PolicyAssumption DEF Init, LockInv, Counts, EmptyLedger, NoGuess
<1>2. TypeOK /\ LockInv /\ [Next]_vars =>
        [guesses.streak = MaxAttempts /\ guesses' # guesses
           => clock >= guesses.lockedAt + Lockout]_vars
  <2> SUFFICES ASSUME TypeOK, LockInv, [Next]_vars,
                      guesses.streak = MaxAttempts, guesses' # guesses
               PROVE  clock >= guesses.lockedAt + Lockout
    OBVIOUS
  <2>1. PICK c \in Chore : VerifyWrong(c) \/ VerifyRight(c)
    BY LockUntouched
  <2>2. ~(Tidied.lockedUntil > clock)
    BY <2>1 DEF VerifyWrong, VerifyRight, PinLocked
  <2>3. Tidied.lockedUntil = ledger.lockedUntil
    BY TidiedFields, RolloverFields DEF TypeOK
  <2>4. /\ ledger.lockedUntil = guesses.lockedAt + Lockout
        /\ guesses.lockedAt + Lockout \in Nat /\ clock \in Nat
    BY PolicyAssumption, CalendarAssumption DEF LockInv, Counts, TypeOK, Time
  <2> QED
    BY <2>2, <2>3, <2>4
<1> QED
  BY <1>1, <1>2, LockStep, TypeCorrect, PTL DEF Spec, LockoutHolds

-----------------------------------------------------------------------------
(* No chore is credited twice *)

\* Every delivered file defines the weekly chores, and names this Mac's kid.  A
\* verification whose definition is not loaded at midnight is forgotten, which
\* matters only for a chore that is still in its period then.
WeeklyStays ==
  /\ \A b \in Banks : Weekly \subseteq b.chores
  /\ \A g \in KidGrants : g.named /\ Weekly \subseteq g.chores

\* What a ledger has ever credited is of no later period than t's, of no later day
\* than its own, and still verified in its period.
Known(L, t) ==
  \A e \in L.credited :
    /\ e[2] <= Period(e[1], t)
    /\ e[2] = Period(e[1], t) => e \in L.verified
    /\ e[1] \notin Weekly \union OnceOnly => e[2] <= L.date

Credited == ledger.credited # {} \/ disk.credited # {}

\* Whoever holds the mutex has the definitions, if there is anything credited.
DefsLoaded ==
  /\ bank.there => Weekly \subseteq bank.chores
  /\ grants.there => grants.named /\ Weekly \subseteq grants.chores
  /\ defs # {} \/ Credited => bank.there \/ grants.there
  /\ defs # {} => Weekly \subseteq defs
  /\ Credited => \/ Weekly \subseteq defs
                 \/ lock = "free" /\ (dirty.bank \/ dirty.grants)

OnceInv ==
  /\ DefsLoaded
  /\ Known(ledger, clock) /\ Known(disk, clock)
  /\ ~ledger.twice /\ ~disk.twice
  /\ lock = "merging" =>
       /\ merge.at <= clock /\ ledger.date = DateOf[merge.at]
       /\ Known(ledger, merge.at)

LEMMA PeriodsGrow ==
  ASSUME NEW c \in Chore, NEW s \in Time, NEW t \in Time, s <= t
  PROVE  Period(c, s) <= Period(c, t)
<1>1. DateOf[s] <= DateOf[t] /\ WeekOf[s] <= WeekOf[t]
  BY CalendarAssumption
<1> QED
  BY <1>1 DEF Period

\* Time alone makes nothing unknown.
LEMMA KnownLater ==
  ASSUME NEW L \in LedgerRecord, NEW s \in Time, NEW t \in Time, s <= t, Known(L, s)
  PROVE  Known(L, t)
<1> SUFFICES ASSUME NEW e \in L.credited
             PROVE  /\ e[2] <= Period(e[1], t)
                    /\ e[2] = Period(e[1], t) => e \in L.verified
                    /\ e[1] \notin Weekly \union OnceOnly => e[2] <= L.date
  BY DEF Known
<1>1. e[1] \in Chore /\ e[2] \in Nat
  BY DEF LedgerRecord, Entry
<1>2. Period(e[1], s) <= Period(e[1], t) /\ Period(e[1], s) \in Nat /\ Period(e[1], t) \in Nat
  BY <1>1, PeriodsGrow, PeriodType
<1> QED
  BY <1>1, <1>2 DEF Known

LEMMA RolloverKnown ==
  ASSUME NEW L \in LedgerRecord, NEW D, NEW t \in Time, Known(L, t),
         L.date <= DateOf[t], L.credited # {} => Weekly \subseteq D
  PROVE  LET R == Rollover(L, D, t)
         IN  Known(R, t) /\ R.credited = L.credited /\ R.twice = L.twice
<1> DEFINE R == Rollover(L, D, t)
<1>1. DateOf[t] \in Int /\ L.date \in Int
  BY CalendarAssumption DEF LedgerRecord, NoDate
<1>2. R.credited = L.credited /\ R.twice = L.twice /\ R.date = DateOf[t]
  BY DEF Rollover, LedgerRecord
<1>3. ASSUME NEW e \in L.credited
      PROVE  /\ e[2] <= Period(e[1], t)
             /\ e[2] = Period(e[1], t) => e \in R.verified
             /\ e[1] \notin Weekly \union OnceOnly => e[2] <= R.date
  <2>1. e[1] \in Chore /\ e[2] \in Nat
    BY DEF LedgerRecord, Entry
  <2>2. /\ e[2] <= Period(e[1], t)
        /\ e[2] = Period(e[1], t) => e \in L.verified
        /\ e[1] \notin Weekly \union OnceOnly => e[2] <= L.date
    BY DEF Known
  <2>3. e[1] \notin Weekly \union OnceOnly => e[2] <= R.date
    BY <1>1, <1>2, <2>1, <2>2
  <2>4. ASSUME e[2] = Period(e[1], t) PROVE e \in R.verified
    <3>1. CASE L.date = DateOf[t]
      BY <2>2, <2>4, <3>1 DEF Rollover
    <3>2. CASE L.date # DateOf[t]
      <4>1. R.verified = {v \in L.verified : v[1] \in OnceOnly \/ Current(D, v[1], v[2], t)}
        BY <3>2 DEF Rollover, LedgerRecord
      <4>2. e[1] \in Weekly \union OnceOnly
        BY <1>1, <2>1, <2>2, <2>4, <3>2 DEF Period
      <4>3. e[1] \in OnceOnly \/ Current(D, e[1], e[2], t)
        BY <2>4, <4>2 DEF Current
      <4> QED
        BY <2>2, <2>4, <4>1, <4>3
    <3> QED
      BY <3>1, <3>2
  <2> QED
    BY <2>2, <2>3, <2>4
<1> QED
  BY <1>2, <1>3 DEF Known

\* Recording what is not verified yet records nothing again.
LEMMA RecordVerifiedOnce ==
  ASSUME policy \in PolicyRecord, NEW L \in LedgerRecord, NEW t \in Time, NEW c \in Chore,
         Known(L, t), ~L.twice, L.date = DateOf[t], <<c, Period(c, t)>> \notin L.verified
  PROVE  LET R == RecordVerified(L, c, Period(c, t))
         IN  /\ ~R.twice /\ Known(R, t) /\ R.credited # {} /\ R.date = L.date
             /\ ~DropClaims(R, c).twice /\ Known(DropClaims(R, c), t)
             /\ DropClaims(R, c).date = L.date
<1> DEFINE p == Period(c, t)
           R == RecordVerified(L, c, p)
           M == DropClaims(R, c)
<1>1. p \in Nat
  BY PeriodType
<1> HIDE DEF p
<1>2. R \in LedgerRecord /\ R.date = L.date
  BY <1>1, RecordVerifiedType, RecordVerifiedFields
<1>3. /\ R.credited = L.credited \union {<<c, p>>}
      /\ R.verified = L.verified \union {<<c, p>>}
      /\ R.twice = (L.twice \/ <<c, p>> \in L.credited)
  <2> DEFINE add == Credit(policy, L, BonusWanted(L, c))
  <2>1. Banked(policy, L, add) \in LedgerRecord
    BY BonusWantedType, CreditType, BankedType
  <2>2. /\ Banked(policy, L, add).credited = L.credited
        /\ Banked(policy, L, add).verified = L.verified
        /\ Banked(policy, L, add).twice = L.twice
    BY DEF Banked, LedgerRecord
  <2>3. L.twice \in BOOLEAN
    BY DEF LedgerRecord
  <2> QED
    BY <2>1, <2>2, <2>3 DEF RecordVerified, LedgerRecord
<1> HIDE DEF R
<1>4. <<c, p>> \notin L.credited
  BY DEF Known, p
<1>5. ~R.twice /\ R.credited # {}
  BY <1>3, <1>4
<1>6. Known(R, t)
  <2> SUFFICES ASSUME NEW e \in R.credited
               PROVE  /\ e[2] <= Period(e[1], t)
                      /\ e[2] = Period(e[1], t) => e \in R.verified
                      /\ e[1] \notin Weekly \union OnceOnly => e[2] <= R.date
    BY DEF Known
  <2>1. CASE e \in L.credited
    BY <1>2, <1>3, <2>1 DEF Known
  <2>2. CASE e = <<c, p>>
    <3>1. e[1] = c /\ e[2] = p /\ p <= p
      BY <1>1, <2>2
    <3>2. c \notin Weekly \union OnceOnly => p = DateOf[t]
      BY DEF p, Period
    <3> QED
      BY <1>1, <1>2, <1>3, <2>2, <3>1, <3>2 DEF p
  <2> QED
    BY <1>3, <2>1, <2>2
<1>7. M.credited = R.credited /\ M.verified = R.verified /\ M.date = R.date
      /\ M.twice = R.twice
  BY <1>2 DEF DropClaims, LedgerRecord
<1>8. Known(M, t) /\ ~M.twice
  BY <1>5, <1>6, <1>7 DEF Known
<1> QED
  BY <1>2, <1>5, <1>6, <1>7, <1>8 DEF R, p

\* The definitions, when files come, when the daemon starts and when they are read.
LEMMA DefsStep ==
  ASSUME WeeklyStays, TypeOK, OnceInv, [Next]_vars
  PROVE  /\ bank'.there => Weekly \subseteq bank'.chores
         /\ grants'.there => grants'.named /\ Weekly \subseteq grants'.chores
         /\ defs' # {} => (bank'.there \/ grants'.there) /\ Weekly \subseteq defs'
         /\ bank.there \/ grants.there => bank'.there \/ grants'.there
         /\ Credited => \/ Weekly \subseteq defs'
                        \/ lock' = "free" /\ (dirty'.bank \/ dirty'.grants)
<1>1. DefsLoaded
  BY DEF OnceInv
<1>2. CASE InstallBank
  <2>1. PICK b \in Banks : bank' = [there |-> TRUE, chores |-> b.chores]
    BY <1>2 DEF InstallBank
  <2>2. /\ dirty' = [dirty EXCEPT !.bank = TRUE] /\ dirty'.bank = TRUE
        /\ dirty'.grants = dirty.grants
        /\ UNCHANGED <<grants, defs, lock>>
    BY <1>2 DEF InstallBank, TypeOK
  <2> QED
    BY <1>1, <2>1, <2>2 DEF DefsLoaded, WeeklyStays
<1>3. CASE InstallGrants
  <2>1. PICK g \in KidGrants, lead \in 0..ApprovalLead :
          grants' = [there |-> TRUE, named |-> g.named, chores |-> g.chores,
                     verified |-> {<<c, Period(c, clock + lead)>> : c \in g.approved}]
    BY <1>3 DEF InstallGrants
  <2>2. /\ dirty'.bank = dirty.bank /\ dirty'.grants = TRUE
        /\ UNCHANGED <<bank, defs, lock>>
    BY <1>3 DEF InstallGrants, TypeOK
  <2> QED
    BY <1>1, <2>1, <2>2 DEF DefsLoaded, WeeklyStays
<1>4. CASE Restart
  BY <1>1, <1>4 DEF Restart, Unread, files, DefsLoaded
<1>5. CASE Reload
  <2>1. /\ UNCHANGED <<bank, grants>> /\ lock = "free"
        /\ \/ ~dirty.bank /\ ~dirty.grants /\ defs' = defs
           \/ grants.there /\ defs' = grants.chores
           \/ ~(grants.there /\ grants.named) /\ defs' = IF bank.there THEN bank.chores ELSE {}
    BY <1>5 DEF Reload, files
  <2> QED
    BY <1>1, <2>1 DEF DefsLoaded
<1>6. CASE ~(InstallBank \/ InstallGrants \/ Restart \/ Reload)
  <2>1. UNCHANGED <<bank, grants, dirty, defs>> /\ (lock = "free" => lock' = "free")
    BY <1>6 DEF Next, ChoreOp, vars, files, ClockTick, MergeEntry, MergeDone, Status, Report,
                TickGated, TickOpen, Claim, Reject, VerifyTurnedAway, VerifyWrong,
                VerifyRight, Release
  <2> QED
    BY <1>1, <2>1 DEF DefsLoaded
<1> QED
  BY <1>2, <1>3, <1>4, <1>5, <1>6

\* What is credited anew is defined.
LEMMA DefsStay ==
  ASSUME WeeklyStays, TypeOK, OnceInv, [Next]_vars,
         Credited' => Credited \/ (defs # {} /\ defs' = defs)
  PROVE  DefsLoaded'
  BY DefsStep DEF DefsLoaded, OnceInv

\* Only the actions below change memory or file; the rest is time and deliveries.
LEMMA OnceOutside ==
  ASSUME WeeklyStays, TypeOK, OnceInv, [Next]_vars,
         UNCHANGED <<ledger, disk>>, lock' = "merging" => lock = "merging" /\ merge' = merge
  PROVE  OnceInv'
<1>1. /\ clock \in Time /\ clock' \in Time /\ clock <= clock'
      /\ ledger \in LedgerRecord /\ disk \in LedgerRecord
      /\ merge.at \in Time
  <2>1. clock \in Time /\ ledger \in LedgerRecord /\ disk \in LedgerRecord /\ merge.at \in Time
    BY DEF TypeOK
  <2>2. clock' = clock \/ (clock < MaxTime /\ clock' = clock + 1)
    BY DEF Next, ChoreOp, vars, ClockTick, InstallBank, InstallGrants, Restart, Reload,
           MergeEntry, MergeDone, Status, Report, TickGated, TickOpen, Claim, Reject,
           VerifyTurnedAway, VerifyWrong, VerifyRight, Release
  <2>3. MaxTime \in Nat
    BY CalendarAssumption
  <2>4. clock' \in Time /\ clock <= clock'
    BY <2>1, <2>2, <2>3 DEF Time
  <2> QED
    BY <2>1, <2>4
<1>2. DefsLoaded'
  BY DefsStay DEF Credited
<1>3. Known(ledger, clock') /\ Known(disk, clock')
  BY <1>1, KnownLater DEF OnceInv
<1>4. merge.at <= clock => merge.at <= clock'
  BY <1>1, CalendarAssumption DEF Time
<1> QED
  BY <1>2, <1>3, <1>4 DEF OnceInv, Known

\* It is enough that memory is as it should be: the file is as it was, or saved.
LEMMA OnceSaved ==
  ASSUME WeeklyStays, TypeOK, OnceInv, [Next]_vars, clock' = clock, lock' # "merging",
         disk' = disk \/ disk' = ledger' \/ disk' = ledger,
         Known(ledger', clock), ~ledger'.twice,
         ledger'.credited # {} => Credited \/ (defs # {} /\ defs' = defs)
  PROVE  OnceInv'
<1>1. DefsLoaded'
  BY DefsStay DEF Credited
<1> QED
  BY <1>1 DEF OnceInv, Known

LEMMA OnceMerge ==
  ASSUME WeeklyStays, TypeOK, FileInv, OnceInv, Reload \/ MergeEntry
  PROVE  OnceInv'
<1>1. /\ ledger \in LedgerRecord /\ disk \in LedgerRecord /\ clock \in Time
      /\ policy \in PolicyRecord
      /\ merge \in [todo: SUBSET Entry, at: Time, changed: BOOLEAN]
      /\ [Next]_vars
  BY DEF TypeOK, Next
<1>2. CASE Reload /\ lock' = "merging"
  <2>1. /\ ledger' = Rollover(ledger, defs', clock) /\ defs' = grants.chores /\ grants.there
        /\ merge' = [todo |-> grants.verified, at |-> clock, changed |-> FALSE]
        /\ disk' = disk /\ clock' = clock
    BY <1>2 DEF Reload
  <2>2. Weekly \subseteq defs'
    BY <2>1 DEF OnceInv, DefsLoaded
  <2>3. /\ Known(ledger', clock) /\ ledger'.credited = ledger.credited
        /\ ledger'.twice = ledger.twice
    BY <1>1, <2>1, <2>2, RolloverKnown DEF OnceInv, FileInv
  <2>4. ledger'.date = DateOf[clock]
    BY <1>1, <2>1, RolloverFields
  <2>5. DefsLoaded'
    BY <1>1, <2>1, <2>3, DefsStay DEF Credited
  <2>6. merge'.at = clock /\ clock <= clock
    BY <1>1, <2>1, CalendarAssumption DEF Time
  <2> QED
    BY <2>1, <2>3, <2>4, <2>5, <2>6 DEF OnceInv, Known
<1>3. CASE Reload /\ lock' # "merging"
  <2>1. UNCHANGED <<ledger, disk>>
    BY <1>3 DEF Reload
  <2> QED
    BY <1>1, <1>3, <2>1, OnceOutside
<1>4. CASE MergeEntry
  <2>1. PICK e \in Mergeable :
          /\ ledger' = DropClaims(RecordVerified(ledger, e[1], e[2]), e[1])
          /\ merge' = [merge EXCEPT !.todo = @ \ {e}, !.changed = TRUE]
    BY <1>4 DEF MergeEntry
  <2>2. /\ e \in Entry /\ e[1] \in defs /\ e[2] = Period(e[1], merge.at)
        /\ e \notin ledger.verified
    BY DEF Mergeable, Current, TypeOK
  <2>3. e = <<e[1], e[2]>> /\ e[1] \in Chore
    BY <2>2 DEF Entry
  <2>4. /\ lock = "merging" /\ disk' = disk /\ clock' = clock /\ defs' = defs
        /\ merge'.at = merge.at
    BY <1>1, <1>4, <2>1 DEF MergeEntry
  <2>5. /\ Known(ledger, merge.at) /\ ~ledger.twice /\ ledger.date = DateOf[merge.at]
        /\ merge.at \in Time /\ merge.at <= clock
    BY <1>1, <2>4 DEF OnceInv
  <2>6. <<e[1], Period(e[1], merge.at)>> \notin ledger.verified
    BY <2>2, <2>3
  <2>7. /\ ledger' = DropClaims(RecordVerified(ledger, e[1], Period(e[1], merge.at)), e[1])
    BY <2>1, <2>2
  <2>8. /\ ~ledger'.twice /\ Known(ledger', merge.at)
        /\ ledger'.date = ledger.date
    BY <1>1, <2>3, <2>5, <2>6, <2>7, RecordVerifiedOnce
  <2>9. ledger' \in LedgerRecord
    BY <1>1, <1>4, MergeTypeOK DEF TypeOK
  <2>10. Known(ledger', clock)
    BY <1>1, <2>5, <2>8, <2>9, KnownLater
  <2>11. DefsLoaded'
    BY <1>1, <2>2, <2>4, DefsStay
  <2> QED
    BY <2>4, <2>5, <2>8, <2>10, <2>11 DEF OnceInv, Known
<1> QED
  BY <1>2, <1>3, <1>4

LEMMA OnceStep ==
  ASSUME WeeklyStays, TypeOK, FileInv, OnceInv, [Next]_vars
  PROVE  OnceInv'
<1> DEFINE R == Rollover(ledger, defs, clock)
<1>1. /\ ledger \in LedgerRecord /\ disk \in LedgerRecord /\ clock \in Time
      /\ policy \in PolicyRecord /\ Tidied \in LedgerRecord /\ R \in LedgerRecord
  BY TidiedType, RolloverType DEF TypeOK
<1>2. CASE \/ UNCHANGED vars \/ ClockTick \/ InstallBank \/ InstallGrants \/ Status
           \/ \E full \in BOOLEAN : TickOpen(full)
  <2>1. UNCHANGED <<ledger, disk>> /\ (lock' = "merging" => lock = "merging" /\ merge' = merge)
    BY <1>2 DEF vars, ClockTick, InstallBank, InstallGrants, Status, TickOpen, Release
  <2> QED
    BY <2>1, OnceOutside
<1>3. CASE Restart
  <2>1. ledger' = disk /\ disk' = disk /\ clock' = clock /\ lock' # "merging"
    BY <1>3 DEF Restart
  <2> QED
    BY <2>1, OnceSaved DEF OnceInv, Credited
<1>4. CASE MergeDone
  <2>1. ledger' = ledger /\ (disk' = disk \/ disk' = ledger) /\ clock' = clock
        /\ lock' # "merging"
    BY <1>4 DEF MergeDone
  <2> QED
    BY <2>1, OnceSaved DEF OnceInv, Credited
\* What the rollover leaves is known, as whoever holds the mutex has the definitions.
<1>5. ASSUME lock = "held"
      PROVE  /\ Known(R, clock) /\ R.credited = ledger.credited /\ R.twice = ledger.twice
             /\ R.date = DateOf[clock]
             /\ Known(Tidied, clock) /\ Tidied.credited = ledger.credited
             /\ Tidied.twice = ledger.twice /\ Tidied.date = DateOf[clock]
  <2>1. ledger.credited # {} => Weekly \subseteq defs
    BY <1>5 DEF OnceInv, DefsLoaded, Credited
  <2>2. Known(R, clock) /\ R.credited = ledger.credited /\ R.twice = ledger.twice
        /\ R.date = DateOf[clock]
    BY <1>1, <2>1, RolloverKnown, RolloverFields DEF OnceInv, FileInv
  <2>3. /\ Tidied.credited = R.credited /\ Tidied.verified = R.verified
        /\ Tidied.date = R.date /\ Tidied.twice = R.twice
    <3> HIDE DEF R
    <3>1. Tidied = ExpireClaims(R, defs, clock)
      BY DEF Tidied, R
    <3> QED
      BY <1>1, <3>1 DEF ExpireClaims, LedgerRecord
  <2> QED
    BY <2>2, <2>3 DEF Known
<1> HIDE DEF R
\* Nothing is credited: the new memory is known as what it was made from.
<1>6. ASSUME NEW L \in {ledger, R, Tidied}, lock = "held" \/ L = ledger,
             clock' = clock, lock' # "merging",
             disk' = disk \/ disk' = ledger',
             ledger'.credited = L.credited, ledger'.verified = L.verified,
             ledger'.date = L.date, ledger'.twice = L.twice
      PROVE  OnceInv'
  <2>1. Known(L, clock) /\ L.credited = ledger.credited /\ ~L.twice
    BY <1>5, <1>6 DEF OnceInv
  <2>2. Known(ledger', clock)
    BY <1>6, <2>1 DEF Known
  <2> QED
    BY <1>6, <2>1, <2>2, OnceSaved DEF Credited
<1>7. ASSUME NEW c \in Chore, Claim(c) \/ VerifyTurnedAway(c) \/ VerifyWrong(c)
      PROVE  OnceInv'
  <2>1. /\ ledger'.credited = Tidied.credited /\ ledger'.verified = Tidied.verified
        /\ ledger'.date = Tidied.date /\ ledger'.twice = Tidied.twice
    <3>1. CASE Claim(c) \/ VerifyTurnedAway(c)
      BY <1>1, <3>1 DEF Claim, VerifyTurnedAway, LedgerRecord
    <3>2. CASE VerifyWrong(c)
      BY <1>1, <3>2 DEF VerifyWrong, LedgerRecord
    <3> QED
      BY <1>7, <3>1, <3>2
  <2>2. /\ lock = "held" /\ lock' = "free" /\ clock' = clock
        /\ disk' = disk \/ disk' = ledger'
    BY <1>7 DEF Claim, VerifyTurnedAway, VerifyWrong, Release
  <2> QED
    BY <1>6, <2>1, <2>2
<1>8. ASSUME NEW c \in Chore, Reject(c)
      PROVE  OnceInv'
  <2>1. /\ ledger'.credited = ledger.credited /\ ledger'.verified = ledger.verified
        /\ ledger'.date = ledger.date /\ ledger'.twice = ledger.twice
    BY <1>1, <1>8 DEF Reject, DropClaims, LedgerRecord
  <2>2. lock' = "free" /\ clock' = clock /\ disk' = ledger'
    BY <1>8 DEF Reject
  <2> QED
    BY <1>6, <2>1, <2>2
<1>9. ASSUME NEW c \in Chore, VerifyRight(c)
      PROVE  OnceInv'
  <2> DEFINE L == [Tidied EXCEPT !.failures = 0, !.lockedUntil = 0]
             M == DropClaims(L, c)
  <2>1. /\ lock = "held" /\ lock' = "free" /\ clock' = clock /\ defs' = defs /\ c \in defs
        /\ <<c, Period(c, clock)>> \notin Tidied.verified
        /\ ledger' = RecordVerified(M, c, Period(c, clock)) /\ disk' = ledger'
    BY <1>9 DEF VerifyRight, VerifyRefused, IsVerified, Release
  <2>2. /\ L \in LedgerRecord
        /\ L.credited = Tidied.credited /\ L.verified = Tidied.verified
        /\ L.date = Tidied.date /\ L.twice = Tidied.twice
    BY <1>1 DEF LedgerRecord
  <2> HIDE DEF L
  <2>3. /\ M \in LedgerRecord
        /\ M.credited = Tidied.credited /\ M.verified = Tidied.verified
        /\ M.date = Tidied.date /\ M.twice = Tidied.twice
    BY <2>2, DropClaimsType DEF DropClaims, LedgerRecord
  <2> HIDE DEF M
  <2>4. Known(M, clock) /\ ~M.twice /\ M.date = DateOf[clock]
    BY <1>5, <2>1, <2>3 DEF Known, OnceInv
  <2>5. ~ledger'.twice /\ Known(ledger', clock)
    BY <1>1, <2>1, <2>3, <2>4, RecordVerifiedOnce
  <2> QED
    BY <2>1, <2>5, OnceSaved
<1>10. CASE Report
  <2>1. PICK p \in Policies, minutes \in EarnMinutes :
          /\ ledger' = Banked(p, R, Credit(p, R, minutes))
          /\ disk' = IF Credit(p, R, minutes) > 0 THEN ledger' ELSE disk
    BY <1>10 DEF Report, R
  <2>2. /\ ledger'.credited = R.credited /\ ledger'.verified = R.verified
        /\ ledger'.date = R.date /\ ledger'.twice = R.twice
    BY <1>1, <2>1 DEF Banked, LedgerRecord
  <2>3. /\ lock = "held" /\ lock' = "free" /\ clock' = clock
        /\ disk' = disk \/ disk' = ledger'
    BY <1>10, <2>1 DEF Report, Release
  <2> QED
    BY <1>6, <2>2, <2>3
<1>11. CASE TickGated
  <2>1. /\ ledger'.credited = R.credited /\ ledger'.verified = R.verified
        /\ ledger'.date = R.date /\ ledger'.twice = R.twice
    BY <1>1, <1>11 DEF TickGated, LedgerRecord, R
  <2>2. /\ lock = "held" /\ lock' = "free" /\ clock' = clock
        /\ disk' = disk \/ disk' = ledger'
    BY <1>11 DEF TickGated, Release
  <2> QED
    BY <1>6, <2>1, <2>2
<1> QED
  BY <1>2, <1>3, <1>4, <1>7, <1>8, <1>9, <1>10, <1>11, OnceMerge DEF Next, ChoreOp

\* As long as the weekly chores stay defined, no chore is credited twice for one
\* period: by PIN, by approval, by the same file again, by a daemon that restarts and
\* reads everything anew, or across midnight.
THEOREM CreditedOnceAlways ==
  ASSUME WeeklyStays
  PROVE  Spec => []CreditedOnce
<1>1. Init => OnceInv
  BY DEF Init, OnceInv, DefsLoaded, Credited, Known, EmptyLedger
<1>2. TypeOK /\ FileInv /\ OnceInv /\ [Next]_vars => OnceInv'
  BY OnceStep
<1>3. OnceInv => CreditedOnce
  BY DEF OnceInv, CreditedOnce
<1> QED
  BY <1>1, <1>2, <1>3, FileAtFirst, FileStep, TypeCorrect, PTL DEF Spec

=============================================================================
