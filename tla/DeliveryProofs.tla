--------------------------- MODULE DeliveryProofs ---------------------------
(***************************************************************************)
(* Theorems about what brings something new to a Mac: custody of envelopes,  *)
(* their verification, updates of the app and the settings package; and       *)
(* about MCDelivery, which composes them.                                   *)
(***************************************************************************)
EXTENDS MCDelivery, FoldTheorems, TLAPS

-----------------------------------------------------------------------------
(* Custody: one connection at a time *)

OneAtATime == \A s, t \in Handler : s = t

Names   == {"envelope", "epoch", "authored"}
Early   == {"generation", "pin", "open", "fill", "rename"}
Checked == {"pin", "open", "fill", "rename"}
Pinned  == {"open", "fill", "rename", "envelope", "epoch", "authored"}

HandlerState ==
  [pc: {"waiting"} \union Early \union Names, env: Envelope,
   open: {"nothing", "tmp", "artifact"}, cut: BOOLEAN]

PinOf(e) == IF e.pin THEN e ELSE Absent

-----------------------------------------------------------------------------
(* The inductive invariant *)

CustodyTyped ==
  /\ kind \in Kinds /\ tmp \in Content /\ artifact \in Envelope /\ pinFile \in Content
  /\ file \in [Names -> Content] /\ h \in [Handler -> HandlerState]
  /\ acked \in Nat /\ tore \in BOOLEAN /\ crashes \in Nat

\* What a handler read of the high-waters is still so, and what it has written
\* is still there.
Accepted(t) ==
  \E e \in Envelopes :
    /\ e.epoch = 0 \/ e.epoch >= file["epoch"].epoch
    /\ h[t].env = Verified(e)

Undisturbed(t) ==
  /\ h[t].pc \in Early => Accepted(t)
  /\ h[t].pc \in Checked => h[t].env.authored >= file["authored"].authored
  /\ h[t].pc = "fill" => h[t].open = "tmp"
  /\ h[t].pc = "rename" => tmp = h[t].env
  /\ h[t].pc \in Names => artifact = h[t].env
  /\ h[t].cut => h[t].pc \in Names /\ file[h[t].pc] = Torn
  /\ h[t].pc = "pin" => kind = "tasks"
  /\ h[t].pc = "envelope" => kind = "config"
  /\ kind = "tasks" /\ h[t].pc \in Pinned => pinFile = PinOf(h[t].env)

\* The high-waters are at or behind the artifact,
Behindhand ==
  /\ file["epoch"].epoch <= artifact.epoch
  /\ file["authored"].authored <= artifact.authored

\* and the generation at or ahead of what was acknowledged, except while it is
\* rewritten.
Rewriting == \E t \in Handler : h[t].pc = "authored" /\ h[t].cut

Remembered ==
  ~tore => /\ artifact.authored >= acked
           /\ Rewriting \/ file["authored"].authored >= acked
           /\ pinFile = Absent \/ pinFile.authored >= acked

PinOnlyOfBank == kind # "tasks" => pinFile = Absent

\* Without a crash the files agree but for those a handler has yet to write.
NoneIn(places) == \A t \in Handler : h[t].pc \notin places

Agreeing ==
  crashes = 0 =>
    /\ NoneIn(Names) =>
         /\ file["epoch"] = artifact /\ file["authored"] = artifact
         /\ kind = "config" => file["envelope"] = artifact
    /\ NoneIn(Pinned) /\ kind = "tasks" => pinFile = PinOf(artifact)
    /\ \A t \in Handler :
         /\ h[t].pc \in {"epoch", "authored"} /\ kind = "config" => file["envelope"] = artifact
         /\ h[t].pc = "authored" => file["epoch"] = artifact

CustodyInv ==
  /\ CustodyTyped /\ Behindhand /\ Remembered /\ PinOnlyOfBank /\ Agreeing
  /\ \A t \in Handler : Undisturbed(t)

-----------------------------------------------------------------------------
(* The steps *)

LEMMA AbsentType == Absent \in Envelope /\ Torn \in Content /\ Torn # Absent /\ ~Torn.whole
                    /\ Waiting \in HandlerState
  BY DEF Absent, Torn, Envelope, Content, Waiting, HandlerState

LEMMA CustodyAtFirst == Init => CustodyInv
<1>1. SUFFICES ASSUME Init PROVE CustodyInv
  OBVIOUS
<1>2. /\ Absent \in Envelope /\ Absent \in Content /\ Waiting \in HandlerState
      /\ Absent.epoch = 0 /\ Absent.authored = 0 /\ Absent.pin = FALSE
      /\ Waiting.pc = "waiting" /\ Waiting.cut = FALSE
  BY AbsentType DEF Absent, Waiting, Envelope
<1>3. CustodyTyped
  BY <1>1, <1>2 DEF Init, CustodyTyped, Names
<1>4. \A t \in Handler : h[t] = Waiting
  BY <1>1 DEF Init
<1>5. \A t \in Handler : Undisturbed(t)
  BY <1>2, <1>4 DEF Undisturbed, Early, Checked, Names, Pinned
<1>6. Behindhand /\ Remembered /\ PinOnlyOfBank
  BY <1>1, <1>2 DEF Init, Behindhand, Remembered, PinOnlyOfBank
<1>7. Agreeing
  BY <1>1, <1>2, <1>4 DEF Init, Agreeing, PinOf
<1> QED
  BY <1>3, <1>5, <1>6, <1>7 DEF CustodyInv

custodyVars == <<kind, disk, h, acked, tore, crashes>>

LEMMA CustodyApart == CustodyInv /\ UNCHANGED custodyVars => CustodyInv'
  BY DEF custodyVars, disk, CustodyInv, CustodyTyped, Behindhand, Remembered, PinOnlyOfBank, Agreeing,
         Undisturbed, Accepted, Verified, Rewriting, NoneIn

\* A handler goes on, and no other is there.
LEMMA AloneAt ==
  ASSUME OneAtATime, NEW t \in Handler, CustodyInv
  PROVE  /\ \A u \in Handler : u = t
         /\ h[t] \in HandlerState /\ h[t].env \in Envelope /\ h[t].cut \in BOOLEAN
         /\ Undisturbed(t)
         /\ artifact.epoch \in Nat /\ artifact.authored \in Nat /\ artifact.whole
         /\ file["epoch"].epoch \in Nat /\ file["authored"].authored \in Nat
         /\ h[t].env.epoch \in Nat /\ h[t].env.authored \in Nat /\ h[t].env.whole
         /\ h[t].env \in Content /\ file["epoch"] \in Content
<1>1. \A u \in Handler : u = t
  BY DEF OneAtATime
<1>2. h[t] \in HandlerState /\ Undisturbed(t) /\ artifact \in Envelope
      /\ file["epoch"] \in Content /\ file["authored"] \in Content
  BY DEF CustodyInv, CustodyTyped, Names
<1> QED
  BY <1>1, <1>2 DEF HandlerState, Envelope, Content

\* verify, of an envelope it does not refuse.
LEMMA VerifiedEnvelope ==
  ASSUME NEW e \in Envelopes, file["epoch"] \in Content
  PROVE  /\ Verified(e) \in Envelope /\ Verified(e) # Absent
         /\ Verified(e).authored = e.authored /\ Verified(e).pin = e.pin
         /\ Verified(e).epoch = IF e.epoch < file["epoch"].epoch THEN file["epoch"].epoch
                                ELSE e.epoch
         /\ Verified(e).epoch >= file["epoch"].epoch
<1> DEFINE v == Verified(e)
<1>1. /\ e \in Content /\ e.whole /\ e # Absent
      /\ file["epoch"].epoch \in Nat
  BY EnvelopeAssumption DEF Envelope, Content
<1>2. /\ v.authored = e.authored /\ v.pin = e.pin /\ v.whole = e.whole
      /\ v.epoch = IF e.epoch < file["epoch"].epoch THEN file["epoch"].epoch ELSE e.epoch
      /\ v \in Content
  BY <1>1 DEF Verified, Content
<1>3. /\ e = [epoch |-> e.epoch, authored |-> e.authored, pin |-> e.pin, whole |-> e.whole]
      /\ e.epoch \in Nat
  BY <1>1 DEF Content
<1> HIDE DEF v
<1>4. e.pin \in BOOLEAN /\ e.whole = TRUE
  BY <1>1 DEF Content
<1>5. v # Absent
  <2>1. SUFFICES ASSUME v = Absent PROVE FALSE
    OBVIOUS
  <2>2. v.epoch = 0 /\ v.authored = 0 /\ v.pin = FALSE
    BY <2>1 DEF Absent
  <2>3. e.epoch = 0 /\ e.authored = 0
    BY <1>1, <1>2, <1>3, <2>2
  <2>4. e.pin = FALSE
    BY <1>2, <2>2
  <2> QED
    BY <1>1, <1>3, <1>4, <2>3, <2>4 DEF Absent
<1>6. v.epoch >= file["epoch"].epoch
  BY <1>1, <1>2, <1>3
<1>7. v \in Envelope
  BY <1>1, <1>2 DEF Envelope
<1> QED
  BY <1>2, <1>5, <1>6, <1>7 DEF v

\* The state of the handler that goes on.
LEMMA HandlerChange ==
  ASSUME CustodyTyped, NEW t \in Handler, NEW s \in HandlerState, h' = [h EXCEPT ![t] = s]
  PROVE  h'[t] = s /\ h' \in [Handler -> HandlerState]
  BY DEF CustodyTyped

LEMMA InvAfterReceive ==
  ASSUME OneAtATime, CustodyInv, NEW t \in Handler, Receive(t)
  PROVE  CustodyInv'
<1>1. PICK e \in Envelopes :
        h' = IF e.epoch # 0 /\ e.epoch < file["epoch"].epoch THEN h
             ELSE [h EXCEPT ![t].pc = "generation", ![t].env = Verified(e)]
  BY DEF Receive
<1>2. /\ UNCHANGED <<kind, disk, acked, tore, crashes>> /\ h[t].pc = "waiting"
  BY DEF Receive, At
<1>3. CASE h' = h
  BY <1>2, <1>3, CustodyApart DEF custodyVars
<1>4. CASE /\ e.epoch = 0 \/ ~(e.epoch < file["epoch"].epoch)
           /\ h' = [h EXCEPT ![t].pc = "generation", ![t].env = Verified(e)]
  <2>1. CustodyTyped /\ Undisturbed(t) /\ file["epoch"] \in Content /\ h[t] \in HandlerState
    BY AloneAt DEF CustodyInv
  <2>2. Verified(e) \in Envelope /\ e.epoch \in Nat
    BY <2>1, VerifiedEnvelope, EnvelopeAssumption DEF Envelope, Content
  <2>3. /\ h'[t].pc = "generation" /\ h'[t].env = Verified(e)
        /\ h'[t].cut = h[t].cut /\ h'[t].open = h[t].open
        /\ h' \in [Handler -> HandlerState]
    BY <1>4, <2>1, <2>2 DEF CustodyTyped, HandlerState, Early, Names
  <2>4. /\ kind' = kind /\ tmp' = tmp /\ artifact' = artifact /\ pinFile' = pinFile
        /\ file' = file /\ acked' = acked /\ tore' = tore /\ crashes' = crashes
    BY <1>2 DEF disk
  <2>5. CustodyTyped'
    BY <2>1, <2>3, <2>4 DEF CustodyTyped
  <2>6. h[t].cut = FALSE
    BY <1>2, <2>1 DEF Undisturbed, HandlerState, Names
  <2>7. Accepted(t)'
    <3>1. e.epoch = 0 \/ e.epoch >= file["epoch"].epoch
      BY <1>4, <2>1, <2>2 DEF Content
    <3> QED
      BY <2>3, <2>4, <3>1 DEF Accepted, Verified
  <2>8. \A u \in Handler : Undisturbed(u)'
    BY <2>3, <2>6, <2>7, AloneAt DEF Undisturbed, Early, Checked, Names, Pinned
  <2>9. Behindhand' /\ PinOnlyOfBank'
    BY <2>4 DEF CustodyInv, Behindhand, PinOnlyOfBank
  <2>10. Remembered'
    BY <1>2, <2>4, AloneAt DEF CustodyInv, Remembered, Rewriting
  <2>11. Agreeing'
    BY <1>2, <2>3, <2>4, AloneAt DEF CustodyInv, Agreeing, NoneIn, Names, Pinned
  <2> QED
    BY <2>5, <2>8, <2>9, <2>10, <2>11 DEF CustodyInv
<1>5. e.epoch \in Nat /\ file["epoch"].epoch \in Nat
  BY AloneAt, EnvelopeAssumption DEF Envelope, Content
<1> QED
  BY <1>1, <1>3, <1>4, <1>5

LEMMA InvAfterGeneration ==
  ASSUME OneAtATime, CustodyInv, NEW t \in Handler, Generation(t)
  PROVE  CustodyInv'
<1>1. /\ UNCHANGED <<kind, disk, acked, tore, crashes>> /\ h[t].pc = "generation"
      /\ IF h[t].env.authored < file["authored"].authored THEN h' = [h EXCEPT ![t] = Waiting]
         ELSE h' = [h EXCEPT ![t].pc = After("generation")]
  BY DEF Generation, At, Goto, Finish
<1>2. CustodyTyped /\ Undisturbed(t) /\ h[t] \in HandlerState
  BY AloneAt DEF CustodyInv
<1>3. /\ kind' = kind /\ tmp' = tmp /\ artifact' = artifact /\ pinFile' = pinFile
      /\ file' = file /\ acked' = acked /\ tore' = tore /\ crashes' = crashes
  BY <1>1 DEF disk
<1>4. Accepted(t) /\ h[t].cut = FALSE
  BY <1>1, <1>2 DEF Undisturbed, HandlerState, Early, Names
<1>5. /\ h' \in [Handler -> HandlerState] /\ h'[t].cut = FALSE
      /\ \/ h'[t].pc = "waiting"
         \/ /\ h'[t].pc = IF kind = "tasks" THEN "pin" ELSE "open"
            /\ h'[t].env = h[t].env /\ h[t].env.authored >= file["authored"].authored
  <2>1. CASE h[t].env.authored < file["authored"].authored
    <3>1. h' = [h EXCEPT ![t] = Waiting] /\ Waiting \in HandlerState
      BY <1>1, <2>1, AbsentType
    <3>2. h'[t] = Waiting /\ h' \in [Handler -> HandlerState]
      BY <1>2, <3>1, HandlerChange
    <3> QED
      BY <3>2 DEF Waiting
  <2>2. CASE ~(h[t].env.authored < file["authored"].authored)
    <3>1. h' = [h EXCEPT ![t].pc = IF kind = "tasks" THEN "pin" ELSE "open"]
      BY <1>1, <2>2 DEF After
    <3>2. h[t].env.authored >= file["authored"].authored
      BY <2>2, AloneAt
    <3> QED
      BY <1>2, <1>4, <3>1, <3>2 DEF CustodyTyped, HandlerState, Early
  <2> QED
    BY <2>1, <2>2
<1>6. CustodyTyped'
  BY <1>2, <1>3, <1>5 DEF CustodyTyped
<1>7. h'[t].env = h[t].env => Accepted(t)'
  BY <1>3, <1>4 DEF Accepted, Verified
<1>8. \A u \in Handler : Undisturbed(u)'
  BY <1>3, <1>5, <1>7, AloneAt DEF Undisturbed, Early, Checked, Names, Pinned
<1>9. Behindhand' /\ PinOnlyOfBank'
  BY <1>3 DEF CustodyInv, Behindhand, PinOnlyOfBank
<1>10. Remembered'
  BY <1>1, <1>3, AloneAt DEF CustodyInv, Remembered, Rewriting
<1>11. Agreeing'
  BY <1>1, <1>3, <1>5, AloneAt DEF CustodyInv, Agreeing, NoneIn, Names, Pinned
<1> QED
  BY <1>6, <1>8, <1>9, <1>10, <1>11 DEF CustodyInv

LEMMA InvAfterSetPin ==
  ASSUME OneAtATime, CustodyInv, NEW t \in Handler, SetPin(t)
  PROVE  CustodyInv'
<1>1. /\ UNCHANGED <<kind, tmp, artifact, file, acked, tore, crashes>> /\ h[t].pc = "pin"
      /\ pinFile' = PinOf(h[t].env) /\ h' = [h EXCEPT ![t].pc = "open"]
  BY DEF SetPin, At, Goto, After, PinOf
<1>2. /\ CustodyTyped /\ Undisturbed(t) /\ h[t] \in HandlerState /\ h[t].env \in Content
      /\ h[t].env.authored \in Nat /\ file["authored"].authored \in Nat /\ acked \in Nat
  BY AloneAt DEF CustodyInv, CustodyTyped
<1>3. /\ Accepted(t) /\ h[t].cut = FALSE /\ kind = "tasks"
      /\ h[t].env.authored >= file["authored"].authored
  BY <1>1, <1>2 DEF Undisturbed, HandlerState, Early, Checked, Names
<1>4. /\ h' \in [Handler -> HandlerState] /\ h'[t].pc = "open" /\ h'[t].env = h[t].env
      /\ h'[t].cut = FALSE
  BY <1>1, <1>2, <1>3 DEF CustodyTyped, HandlerState, Early
<1>5. pinFile' \in Content
  BY <1>1, <1>2, AbsentType DEF PinOf, Envelope
<1>6. CustodyTyped'
  BY <1>1, <1>2, <1>4, <1>5 DEF CustodyTyped
<1>7. Accepted(t)'
  BY <1>1, <1>3, <1>4 DEF Accepted, Verified
<1>8. \A u \in Handler : Undisturbed(u)'
  BY <1>1, <1>3, <1>4, <1>7, AloneAt DEF Undisturbed, Early, Checked, Names, Pinned
<1>9. Behindhand' /\ PinOnlyOfBank'
  BY <1>1, <1>3 DEF CustodyInv, Behindhand, PinOnlyOfBank
<1>10. Remembered'
  <2>1. ~Rewriting
    BY <1>1, AloneAt DEF Rewriting
  <2>2. ~tore => file["authored"].authored >= acked /\ artifact.authored >= acked
    BY <2>1 DEF CustodyInv, Remembered
  <2>3. ~tore => pinFile' = Absent \/ pinFile'.authored >= acked
    BY <1>1, <1>2, <1>3, <2>2 DEF PinOf
  <2> QED
    BY <1>1, <2>2, <2>3 DEF Remembered
<1>11. Agreeing'
  BY <1>1, <1>4, AloneAt DEF CustodyInv, Agreeing, NoneIn, Names, Pinned
<1> QED
  BY <1>6, <1>8, <1>9, <1>10, <1>11 DEF CustodyInv

LEMMA InvAfterTmp ==
  ASSUME OneAtATime, CustodyInv, NEW t \in Handler, OpenTmp(t) \/ FillTmp(t)
  PROVE  CustodyInv'
<1>1. /\ UNCHANGED <<kind, pinFile, file, acked, tore, crashes>> /\ h[t].pc \in {"open", "fill"}
  BY DEF OpenTmp, FillTmp, At
<1>2. /\ CustodyTyped /\ Undisturbed(t) /\ h[t] \in HandlerState /\ h[t].env \in Content
  BY AloneAt DEF CustodyInv
<1>3. /\ Accepted(t) /\ h[t].cut = FALSE
      /\ h[t].env.authored >= file["authored"].authored
      /\ kind = "tasks" => pinFile = PinOf(h[t].env)
  BY <1>1, <1>2 DEF Undisturbed, HandlerState, Early, Checked, Names, Pinned
<1>4. /\ h' \in [Handler -> HandlerState] /\ h'[t].env = h[t].env /\ h'[t].cut = FALSE
      /\ artifact' = artifact /\ tmp' \in Content
      /\ \/ h'[t].pc = "fill" /\ h'[t].open = "tmp"
         \/ h'[t].pc = "rename" /\ tmp' = h[t].env
  <2>1. CASE OpenTmp(t)
    BY <1>2, <1>3, <2>1, AbsentType DEF OpenTmp, At, CustodyTyped, HandlerState, Early
  <2>2. CASE FillTmp(t)
    <3>1. h[t].open = "tmp"
      BY <1>2, <2>2 DEF FillTmp, At, Undisturbed
    <3> QED
      BY <1>2, <1>3, <2>2, <3>1 DEF FillTmp, At, CustodyTyped, HandlerState, Early
  <2> QED
    BY <2>1, <2>2
<1>5. CustodyTyped'
  BY <1>1, <1>2, <1>4 DEF CustodyTyped
<1>6. Accepted(t)'
  BY <1>1, <1>3, <1>4 DEF Accepted, Verified
<1>7. \A u \in Handler : Undisturbed(u)'
  BY <1>1, <1>3, <1>4, <1>6, AloneAt DEF Undisturbed, Early, Checked, Names, Pinned
<1>8. Behindhand' /\ PinOnlyOfBank'
  BY <1>1, <1>4 DEF CustodyInv, Behindhand, PinOnlyOfBank
<1>9. Remembered'
  BY <1>1, <1>4, AloneAt DEF CustodyInv, Remembered, Rewriting
<1>10. Agreeing'
  BY <1>1, <1>4, AloneAt DEF CustodyInv, Agreeing, NoneIn, Names, Pinned
<1> QED
  BY <1>5, <1>7, <1>8, <1>9, <1>10 DEF CustodyInv

\* What is renamed over the artifact is what was accepted.
LEMMA Renamed ==
  ASSUME OneAtATime, CustodyInv, NEW t \in Handler, Rename(t)
  PROVE  /\ UNCHANGED <<kind, pinFile, file, acked, tore, crashes>>
         /\ h[t].pc = "rename" /\ artifact' = h[t].env /\ tmp' = Absent
         /\ h' \in [Handler -> HandlerState] /\ h'[t].env = h[t].env /\ h'[t].cut = FALSE
         /\ h'[t].pc = IF kind = "config" THEN "envelope" ELSE "epoch"
         /\ Accepted(t) /\ h[t].env.epoch >= file["epoch"].epoch
         /\ h[t].env.authored >= file["authored"].authored
         /\ kind = "tasks" => pinFile = PinOf(h[t].env)
<1>1. /\ CustodyTyped /\ Undisturbed(t) /\ h[t] \in HandlerState /\ file["epoch"] \in Content
  BY AloneAt DEF CustodyInv
<1>2. UNCHANGED <<kind, pinFile, file, acked, tore, crashes>> /\ h[t].pc = "rename"
  BY DEF Rename, At
<1>3. /\ Accepted(t) /\ tmp = h[t].env /\ h[t].cut = FALSE
      /\ h[t].env.authored >= file["authored"].authored
      /\ kind = "tasks" => pinFile = PinOf(h[t].env)
  BY <1>1, <1>2 DEF Undisturbed, HandlerState, Early, Checked, Names, Pinned
<1>4. PICK e \in Envelopes : h[t].env = Verified(e)
  BY <1>3 DEF Accepted
<1>5. tmp # Absent /\ h[t].env.epoch >= file["epoch"].epoch
  BY <1>1, <1>3, <1>4, VerifiedEnvelope
<1>6. /\ artifact' = tmp /\ tmp' = Absent
      /\ h' = [u \in Handler |-> IF u = t THEN [h[u] EXCEPT !.pc = After("rename")]
                                 ELSE [h[u] EXCEPT !.open = Moved(@)]]
  BY <1>5 DEF Rename
<1>7. h'[t] = [h[t] EXCEPT !.pc = IF kind = "config" THEN "envelope" ELSE "epoch"]
  BY <1>6 DEF After
<1>8. h'[t] \in HandlerState /\ h'[t].env = h[t].env /\ h'[t].cut = h[t].cut
      /\ h'[t].pc = IF kind = "config" THEN "envelope" ELSE "epoch"
  BY <1>1, <1>7 DEF HandlerState, Names
<1>9. h' \in [Handler -> HandlerState]
  BY <1>6, <1>8, AloneAt
<1> QED
  BY <1>2, <1>3, <1>5, <1>6, <1>8, <1>9

LEMMA InvAfterRename ==
  ASSUME OneAtATime, CustodyInv, NEW t \in Handler, Rename(t)
  PROVE  CustodyInv'
<1>1. /\ CustodyTyped /\ acked \in Nat /\ h[t].env \in Envelope /\ h[t].env.authored \in Nat
      /\ file["authored"].authored \in Nat
  BY AloneAt DEF CustodyInv, CustodyTyped
<1>2. CustodyTyped'
  BY <1>1, Renamed, AbsentType DEF CustodyTyped, Envelope
<1>3. \A u \in Handler : Undisturbed(u)'
  BY Renamed, AloneAt, ZenonT(40) DEF Undisturbed, Early, Checked, Names, Pinned
<1>4. Behindhand'
  BY Renamed DEF Behindhand
<1>5. PinOnlyOfBank'
  BY Renamed DEF CustodyInv, PinOnlyOfBank
<1>6. Remembered'
  <2>1. ~Rewriting
    BY Renamed, AloneAt DEF Rewriting
  <2>2. ~tore => /\ file["authored"].authored >= acked
                 /\ pinFile = Absent \/ pinFile.authored >= acked
    BY <2>1 DEF CustodyInv, Remembered
  <2>3. ~tore => artifact'.authored >= acked
    <3>1. artifact' = h[t].env /\ h[t].env.authored >= file["authored"].authored
      BY Renamed
    <3> QED
      BY <1>1, <2>2, <3>1
  <2> QED
    BY <2>2, <2>3, Renamed DEF Remembered
<1>7. Agreeing'
  BY Renamed, AloneAt DEF Agreeing, NoneIn, Names, Pinned
<1> QED
  BY <1>2, <1>3, <1>4, <1>5, <1>6, <1>7 DEF CustodyInv

LEMMA InvAfterTruncate ==
  ASSUME OneAtATime, CustodyInv, NEW t \in Handler, NEW f \in Names, Truncate(t, f)
  PROVE  CustodyInv'
<1>1. /\ UNCHANGED <<kind, tmp, artifact, pinFile, acked, tore, crashes>>
      /\ h[t].pc = f /\ h[t].cut = FALSE
      /\ file' = [file EXCEPT ![f] = Torn] /\ h' = [h EXCEPT ![t].cut = TRUE]
  BY AloneAt DEF Truncate, At
<1>2. /\ CustodyTyped /\ Undisturbed(t) /\ h[t] \in HandlerState
      /\ file \in [Names -> Content] /\ Torn \in Content
  BY AloneAt, AbsentType DEF CustodyInv, CustodyTyped
<1>3. /\ h' \in [Handler -> HandlerState] /\ h'[t].pc = f /\ h'[t].env = h[t].env
      /\ h'[t].cut = TRUE
  BY <1>1, <1>2 DEF CustodyTyped, HandlerState
<1>4. /\ file' \in [Names -> Content] /\ file'[f] = Torn
      /\ \A g \in Names : g # f => file'[g] = file[g]
  BY <1>1, <1>2
<1>5. Torn.epoch = 0 /\ Torn.authored = 0
  BY DEF Torn
<1>6. CustodyTyped'
  BY <1>1, <1>2, <1>3, <1>4 DEF CustodyTyped
<1>7. \A u \in Handler : Undisturbed(u)'
  BY <1>1, <1>2, <1>3, <1>4, AloneAt DEF Undisturbed, Early, Checked, Names, Pinned
<1>8. Behindhand' /\ PinOnlyOfBank'
  <2>1. \A g \in Names : file'[g] = file[g] \/ file'[g] = Torn
    BY <1>4
  <2> QED
    BY <1>1, <1>5, <2>1, AloneAt DEF CustodyInv, Behindhand, PinOnlyOfBank, Names
<1>9. Remembered'
  <2>1. ~Rewriting
    BY <1>1, AloneAt DEF Rewriting
  <2>2. f = "authored" => Rewriting'
    BY <1>3 DEF Rewriting
  <2>3. f # "authored" => file'["authored"] = file["authored"]
    BY <1>4 DEF Names
  <2> QED
    BY <1>1, <2>1, <2>2, <2>3 DEF CustodyInv, Remembered
<1>10. Agreeing'
  <2>1. /\ f # "envelope" => file'["envelope"] = file["envelope"]
        /\ f = "authored" => file'["epoch"] = file["epoch"]
    BY <1>4 DEF Names
  <2> QED
    BY <1>1, <1>3, <2>1, AloneAt DEF CustodyInv, Agreeing, NoneIn, Names, Pinned
<1> QED
  BY <1>6, <1>7, <1>8, <1>9, <1>10 DEF CustodyInv

\* What is written to a file is what the artifact is.
LEMMA Filled ==
  ASSUME OneAtATime, CustodyInv, NEW t \in Handler, NEW f \in Names, Fill(t, f)
  PROVE  /\ UNCHANGED <<kind, tmp, artifact, pinFile, tore, crashes>>
         /\ h[t].pc = f /\ artifact = h[t].env /\ artifact \in Content
         /\ file' = [file EXCEPT ![f] = artifact] /\ file \in [Names -> Content]
         /\ f = "envelope" => kind = "config"
         /\ kind = "tasks" => pinFile = PinOf(artifact)
         /\ h' \in [Handler -> HandlerState] /\ h'[t].cut = FALSE
         /\ f = "authored" =>
              /\ h'[t].pc = "waiting"
              /\ acked' = IF artifact.authored > acked THEN artifact.authored ELSE acked
         /\ f # "authored" =>
              /\ h'[t].pc = IF f = "envelope" THEN "epoch" ELSE "authored"
              /\ h'[t].env = h[t].env /\ acked' = acked
<1>1. /\ CustodyTyped /\ Undisturbed(t) /\ h[t] \in HandlerState
      /\ file \in [Names -> Content] /\ artifact \in Content
  BY AloneAt DEF CustodyInv, CustodyTyped, Envelope
<1>2. UNCHANGED <<kind, tmp, artifact, pinFile, tore, crashes>> /\ h[t].pc = f
  BY DEF Fill, At
<1>3. /\ artifact = h[t].env /\ (f = "envelope" => kind = "config")
      /\ kind = "tasks" => pinFile = PinOf(h[t].env)
  BY <1>1, <1>2 DEF Undisturbed, Names, Pinned
<1>4. file' = [file EXCEPT ![f] = artifact]
  BY <1>3 DEF Fill
<1>5. CASE f = "authored"
  <2>1. /\ h' = [h EXCEPT ![t] = Waiting]
        /\ acked' = IF artifact.authored > acked THEN artifact.authored ELSE acked
    BY <1>3, <1>5 DEF Fill, After, Finish
  <2>2. h'[t] = Waiting /\ h' \in [Handler -> HandlerState]
    BY <1>1, <2>1, HandlerChange, AbsentType
  <2>3. h'[t].pc = "waiting" /\ h'[t].cut = FALSE
    BY <2>2 DEF Waiting
  <2> QED
    BY <1>1, <1>2, <1>3, <1>4, <1>5, <2>1, <2>2, <2>3
<1>6. CASE f # "authored"
  <2> DEFINE next == IF f = "envelope" THEN "epoch" ELSE "authored"
  <2>1. After(f) = next /\ After(f) # "waiting"
    BY <1>6 DEF After, Names
  <2>2. h' = [h EXCEPT ![t].pc = next, ![t].cut = FALSE] /\ acked' = acked
    BY <2>1 DEF Fill
  <2>3. /\ h' \in [Handler -> HandlerState] /\ h'[t].pc = next /\ h'[t].cut = FALSE
        /\ h'[t].env = h[t].env
    BY <1>1, <2>2 DEF CustodyTyped, HandlerState, Names
  <2> QED
    BY <1>1, <1>2, <1>3, <1>4, <1>6, <2>2, <2>3
<1> QED
  BY <1>5, <1>6

LEMMA InvAfterFill ==
  ASSUME OneAtATime, CustodyInv, NEW t \in Handler, NEW f \in Names, Fill(t, f)
  PROVE  CustodyInv'
<1>1. /\ CustodyTyped /\ acked \in Nat /\ artifact.authored \in Nat /\ artifact.epoch \in Nat
  BY AloneAt DEF CustodyInv, CustodyTyped
<1>a. /\ kind' = kind /\ tmp' = tmp /\ artifact' = artifact /\ pinFile' = pinFile
      /\ tore' = tore /\ crashes' = crashes /\ h[t].pc = f /\ artifact \in Content
  BY Filled
<1>b. file' = [file EXCEPT ![f] = artifact] /\ file \in [Names -> Content]
  BY Filled
<1>c. /\ f = "authored" =>
           /\ h'[t].pc = "waiting"
           /\ acked' = IF artifact.authored > acked THEN artifact.authored ELSE acked
      /\ f # "authored" =>
           /\ h'[t].pc = IF f = "envelope" THEN "epoch" ELSE "authored"
           /\ h'[t].env = artifact /\ acked' = acked
      /\ h' \in [Handler -> HandlerState] /\ h'[t].cut = FALSE
  BY Filled
<1>d. kind = "tasks" => pinFile = PinOf(artifact)
  BY Filled
<1>2. /\ file' \in [Names -> Content] /\ file'[f] = artifact
      /\ \A g \in Names : g # f => file'[g] = file[g]
  BY <1>a, <1>b
<1>3. CustodyTyped'
  <2>1. acked' \in Nat
    BY <1>1, <1>c
  <2> QED
    BY <1>1, <1>2, <1>a, <1>c, <2>1 DEF CustodyTyped
<1>4. \A u \in Handler : Undisturbed(u)'
  <2>1. h'[t].pc \in {"waiting", "epoch", "authored"} /\ h'[t].cut = FALSE
    BY <1>c DEF Names
  <2>2. h'[t].pc # "waiting" => h'[t].env = artifact
    BY <1>c
  <2> QED
    BY <1>a, <1>d, <2>1, <2>2, AloneAt DEF Undisturbed, Early, Checked, Names, Pinned
<1>5. Behindhand' /\ PinOnlyOfBank'
  <2>1. \A g \in Names : file'[g] = file[g] \/ file'[g] = artifact
    BY <1>2
  <2>2. Behindhand'
    BY <1>1, <1>a, <2>1 DEF CustodyInv, Behindhand, Names
  <2> QED
    BY <1>a, <2>2 DEF CustodyInv, PinOnlyOfBank
<1>6. Remembered'
  <2>1. SUFFICES ASSUME ~tore
                 PROVE  /\ artifact.authored >= acked'
                        /\ Rewriting' \/ file'["authored"].authored >= acked'
                        /\ pinFile = Absent \/ pinFile.authored >= acked'
    BY <1>a DEF Remembered
  <2>2. artifact.authored >= acked /\ (pinFile = Absent \/ pinFile.authored >= acked)
    BY <2>1 DEF CustodyInv, Remembered
  <2>3. CASE f = "authored"
    <3>1. acked' = artifact.authored
      BY <1>1, <1>c, <2>2, <2>3
    <3>2. pinFile = Absent \/ pinFile = artifact
      BY <1>d DEF CustodyInv, PinOnlyOfBank, PinOf
    <3> QED
      BY <1>1, <1>2, <2>3, <3>1, <3>2
  <2>4. CASE f # "authored"
    <3>1. file'["authored"] = file["authored"] /\ acked' = acked
      BY <1>2, <1>c, <2>4 DEF Names
    <3>2. ~Rewriting
      BY <1>a, <2>4, AloneAt DEF Rewriting
    <3> QED
      BY <2>1, <2>2, <3>1, <3>2 DEF CustodyInv, Remembered
  <2> QED
    BY <2>3, <2>4
<1>7. Agreeing'
  <2>1. /\ f # "envelope" => file'["envelope"] = file["envelope"]
        /\ f # "epoch" => file'["epoch"] = file["epoch"]
        /\ file'[f] = artifact
    BY <1>2 DEF Names
  <2>2. \A u \in Handler : u = t
    BY AloneAt
  <2> QED
    BY <1>a, <1>c, <1>d, <2>1, <2>2 DEF CustodyInv, Agreeing, NoneIn, Names, Pinned
<1> QED
  BY <1>3, <1>4, <1>5, <1>6, <1>7 DEF CustodyInv

LEMMA InvAfterCrash ==
  ASSUME OneAtATime, CustodyInv, Crash
  PROVE  CustodyInv'
<1>1. /\ UNCHANGED <<kind, disk, acked>> /\ crashes' = crashes + 1
      /\ h' = [t \in Handler |-> Waiting]
      /\ tore' = (tore \/ ~file["epoch"].whole \/ ~file["authored"].whole)
  BY DEF Crash
<1>2. /\ tmp' = tmp /\ artifact' = artifact /\ pinFile' = pinFile /\ file' = file
      /\ kind' = kind /\ acked' = acked
  BY <1>1 DEF disk
<1>3. /\ Waiting \in HandlerState /\ Waiting.pc = "waiting" /\ Waiting.cut = FALSE
      /\ ~Torn.whole
  BY AbsentType DEF Waiting
<1>4. crashes \in Nat /\ file["epoch"].whole \in BOOLEAN /\ file["authored"].whole \in BOOLEAN
  BY DEF CustodyInv, CustodyTyped, Content, Names
<1>5. CustodyTyped'
  BY <1>1, <1>2, <1>3, <1>4 DEF CustodyInv, CustodyTyped
<1>6. \A u \in Handler : Undisturbed(u)'
  BY <1>1, <1>3 DEF Undisturbed, Early, Checked, Names, Pinned
<1>7. Behindhand' /\ PinOnlyOfBank'
  BY <1>2 DEF CustodyInv, Behindhand, PinOnlyOfBank
<1>8. Remembered'
  <2>1. SUFFICES ASSUME ~tore' PROVE Remembered'
    BY DEF Remembered
  <2>2. ~tore /\ file["authored"].whole
    BY <1>1, <2>1
  <2>3. ~Rewriting
    BY <1>3, <2>2 DEF CustodyInv, Rewriting, Undisturbed
  <2> QED
    BY <1>2, <2>2, <2>3 DEF CustodyInv, Remembered
<1>9. Agreeing'
  BY <1>1, <1>4 DEF Agreeing
<1> QED
  BY <1>5, <1>6, <1>7, <1>8, <1>9 DEF CustodyInv

LEMMA CustodyStays ==
  ASSUME OneAtATime
  PROVE  CustodyInv /\ [Next]_vars => CustodyInv'
<1>1. SUFFICES ASSUME CustodyInv, [Next]_vars PROVE CustodyInv'
  OBVIOUS
<1>2. ASSUME NEW t \in Handler, Receive(t) PROVE CustodyInv'
  BY <1>1, <1>2, InvAfterReceive
<1>3. ASSUME NEW t \in Handler, HandlerStep(t) PROVE CustodyInv'
  <2>1. ASSUME NEW f \in Names, Truncate(t, f) \/ Fill(t, f) PROVE CustodyInv'
    BY <1>1, <2>1, InvAfterTruncate, InvAfterFill
  <2> QED
    BY <1>1, <1>3, <2>1, InvAfterGeneration, InvAfterSetPin, InvAfterTmp, InvAfterRename
    DEF HandlerStep, Names
<1>4. CASE Crash
  BY <1>1, <1>4, InvAfterCrash
<1>5. CASE AgentStart \/ AgentStep \/ UNCHANGED vars
  <2>1. UNCHANGED custodyVars
    BY <1>5 DEF AgentStart, AgentStep, AgentWatch, AgentPoll, AgentRead, AgentApply, vars,
                custodyVars, disk
  <2> QED
    BY <1>1, <2>1, CustodyApart
<1> QED
  BY <1>1, <1>2, <1>3, <1>4, <1>5 DEF Next

LEMMA CustodyInvIsSound == CustodyInv => CustodyIsSound
<1>1. SUFFICES ASSUME CustodyInv PROVE CustodyIsSound
  OBVIOUS
<1>2. NeverAhead
  BY <1>1 DEF CustodyInv, CustodyTyped, Envelope, Behindhand, NeverAhead
<1>3. AckedStays /\ OldPinIsGone
  BY <1>1 DEF CustodyInv, Remembered, AckedStays, OldPinIsGone
<1>4. OneEnvelope
  <2>1. Idle => NoneIn(Names) /\ NoneIn(Pinned)
    BY DEF Idle, At, NoneIn, Names, Pinned
  <2> QED
    BY <1>1, <2>1 DEF CustodyInv, Agreeing, OneEnvelope, PinOf
<1> QED
  BY <1>2, <1>3, <1>4 DEF CustodyIsSound

\* With one connection at a time, whatever is delivered, in whatever order and
\* however often, and wherever the daemon dies: the artifact is whole and never
\* behind the high-waters, what was acknowledged is not replaced by anything
\* older unless a high-water was torn, no older PIN is in force, and without a
\* crash all files are of one envelope (apply_envelope, check_generation).
THEOREM CustodyIsSoundAlways ==
  ASSUME OneAtATime
  PROVE  Spec => []CustodyIsSound
<1>1. Init => CustodyInv
  BY CustodyAtFirst
<1>2. CustodyInv /\ [Next]_vars => CustodyInv'
  BY CustodyStays
<1>3. CustodyInv => CustodyIsSound
  BY CustodyInvIsSound
<1> QED
  BY <1>1, <1>2, <1>3, PTL DEF Spec

-----------------------------------------------------------------------------
(* Custody *)

heldBar    == [epoch |-> artifact.epoch, authored |-> artifact.authored]
promiseBar == [epoch |-> file["epoch"].epoch, authored |-> file["authored"].authored]

\* The rename installs an envelope as Custody wants it.
LEMMA RenameInstalls ==
  ASSUME OneAtATime, CustodyInv, NEW t \in Handler, Rename(t)
  PROVE  Abstract!Install
<1>1. PICK e \in Envelopes : /\ e.epoch = 0 \/ e.epoch >= file["epoch"].epoch
                             /\ h[t].env = Verified(e)
  BY Renamed DEF Accepted
<1>2. /\ e.epoch \in Nat /\ e.authored \in Nat /\ file["epoch"] \in Content
      /\ file["epoch"].epoch \in Nat /\ file["authored"].authored \in Nat
  BY AloneAt, EnvelopeAssumption DEF Envelope, Content
<1>3. /\ artifact'.authored = e.authored /\ file' = file
      /\ artifact'.epoch = IF e.epoch < file["epoch"].epoch THEN file["epoch"].epoch
                           ELSE e.epoch
      /\ e.authored >= file["authored"].authored
  BY <1>1, <1>2, Renamed, VerifiedEnvelope, ZenonT(40)
<1>4. Abstract!EpochOf(e) = artifact'.epoch /\ Abstract!EpochOf(e) >= file["epoch"].epoch
  BY <1>1, <1>2, <1>3 DEF Abstract!EpochOf
<1> QED
  BY <1>2, <1>3, <1>4 DEF Abstract!Install

LEMMA TruncatePromises ==
  ASSUME OneAtATime, CustodyInv, NEW t \in Handler, NEW f \in Names, Truncate(t, f)
  PROVE  Abstract!Promise \/ Abstract!PromiseGeneration \/ UNCHANGED <<heldBar, promiseBar>>
<1>1. artifact' = artifact /\ file' = [file EXCEPT ![f] = Torn] /\ file \in [Names -> Content]
  BY DEF Truncate, CustodyInv, CustodyTyped
<1>2. file'[f] = Torn /\ \A g \in Names : g # f => file'[g] = file[g]
  BY <1>1
<1>3. Torn.epoch = 0 /\ Torn.authored = 0
  BY DEF Torn
<1>4. CASE f = "envelope"
  BY <1>1, <1>2, <1>4 DEF heldBar, promiseBar, Names
<1>5. CASE f = "epoch"
  BY <1>1, <1>2, <1>3, <1>5 DEF Abstract!Promise, Names
<1>6. CASE f = "authored"
  BY <1>1, <1>2, <1>3, <1>6 DEF Abstract!PromiseGeneration, Names
<1> QED
  BY <1>4, <1>5, <1>6 DEF Names

LEMMA FillPromises ==
  ASSUME OneAtATime, CustodyInv, NEW t \in Handler, NEW f \in Names, Fill(t, f)
  PROVE  Abstract!Promise \/ Abstract!PromiseGeneration \/ UNCHANGED <<heldBar, promiseBar>>
<1>1. /\ artifact' = artifact /\ file' = [file EXCEPT ![f] = artifact]
      /\ file \in [Names -> Content]
  BY Filled
<1>2. file'[f] = artifact /\ \A g \in Names : g # f => file'[g] = file[g]
  BY <1>1
<1>3. CASE f = "envelope"
  BY <1>1, <1>2, <1>3 DEF heldBar, promiseBar, Names
<1>4. CASE f = "epoch"
  BY <1>1, <1>2, <1>4 DEF Abstract!Promise, Names
<1>5. CASE f = "authored"
  BY <1>1, <1>2, <1>5 DEF Abstract!PromiseGeneration, Names
<1> QED
  BY <1>3, <1>4, <1>5 DEF Names

LEMMA EveryStepIsPromised ==
  ASSUME OneAtATime
  PROVE  CustodyInv /\ [Next]_vars => [Abstract!Next]_<<heldBar, promiseBar>>
<1>1. SUFFICES ASSUME CustodyInv, [Next]_vars
               PROVE  Abstract!Next \/ UNCHANGED <<heldBar, promiseBar>>
  OBVIOUS
<1>2. CASE UNCHANGED <<artifact, file>>
  BY <1>2 DEF heldBar, promiseBar
<1>3. ASSUME NEW t \in Handler, NEW f \in Names, Truncate(t, f) \/ Fill(t, f)
      PROVE  Abstract!Next \/ UNCHANGED <<heldBar, promiseBar>>
  BY <1>1, <1>3, TruncatePromises, FillPromises DEF Abstract!Next
<1>4. ASSUME NEW t \in Handler, Rename(t) PROVE Abstract!Next
  BY <1>1, <1>4, RenameInstalls DEF Abstract!Next
<1>5. ASSUME NEW t \in Handler, Receive(t) \/ Generation(t) \/ SetPin(t) \/ OpenTmp(t)
      PROVE  UNCHANGED <<artifact, file>>
  BY <1>5 DEF Receive, Generation, SetPin, OpenTmp, disk
<1>6. ASSUME NEW t \in Handler, FillTmp(t) PROVE UNCHANGED <<artifact, file>>
  <2>1. h[t].open = "tmp"
    BY <1>1, <1>6 DEF CustodyInv, Undisturbed, FillTmp, At
  <2> QED
    BY <1>6, <2>1 DEF FillTmp
<1>7. Crash \/ AgentStart \/ AgentStep \/ UNCHANGED vars => UNCHANGED <<artifact, file>>
  BY DEF Crash, AgentStart, AgentStep, AgentWatch, AgentPoll, AgentRead, AgentApply, vars, disk
<1> QED
  BY <1>1, <1>2, <1>3, <1>4, <1>5, <1>6, <1>7 DEF Next, HandlerStep, Names

\* With one connection at a time the file operations of the daemon implement
\* Custody: every new artifact is at least as new as the high-waters, and these
\* only ever move to what is installed, or are lost.
THEOREM CustodyIsImplemented ==
  ASSUME OneAtATime
  PROVE  Spec => ImplementsCustody
<1>1. Init => CustodyInv
  BY CustodyAtFirst
<1>2. CustodyInv /\ [Next]_vars => CustodyInv'
  BY CustodyStays
<1>3. Init => Abstract!Init
  <2>1. Absent.epoch = 0 /\ Absent.authored = 0
    BY DEF Absent
  <2> QED
    BY <2>1 DEF Init, Abstract!Init, Abstract!NothingHeld
<1>4. CustodyInv /\ [Next]_vars => [Abstract!Next]_<<heldBar, promiseBar>>
  BY EveryStepIsPromised
<1> QED
  BY <1>1, <1>2, <1>3, <1>4, PTL DEF Spec, ImplementsCustody, Abstract!Spec, heldBar, promiseBar

-----------------------------------------------------------------------------
(* Updates: one connection at a time *)

OneDeliverer == \A s, t \in Deliverer : s = t

Steps == {"idle", "clear", "unpack", "check", "drop old", "move aside", "move in",
          "move back", "write epoch", "fill epoch", "kickstart"}
Before == {"clear", "unpack", "check", "drop old", "move aside", "move in"}

-----------------------------------------------------------------------------
(* The inductive invariant *)

Good(r) == r \in Sound \union {First} /\ AppHighWater <= Epoch[r]

InstallTyped ==
  /\ app \in Release \union {NoApp} /\ old \in Release \union {NoApp}
  /\ appEpoch \in Nat \union {TornEpoch}
  /\ step \in [Deliverer -> Steps] /\ update \in [Deliverer -> Release]
  /\ newEpoch \in [Deliverer -> Nat] /\ hadApp \in [Deliverer -> BOOLEAN]
  /\ cut \in BOOLEAN

\* Where the bundles are at each step of an update.
Placed(t) ==
  /\ step[t] # "idle" => newEpoch[t] = Epoch[update[t]]
  /\ step[t] \in Before => AppHighWater <= Epoch[update[t]]
  /\ step[t] \in {"drop old", "move aside", "move in"} =>
       staged = {update[t]} /\ update[t] \in Sound
  /\ step[t] \in {"move in", "move back"} =>
       /\ app = NoApp
       /\ IF hadApp[t] THEN Good(old) ELSE cut
  /\ step[t] = "move back" => hadApp[t]
  /\ step[t] \in {"write epoch", "fill epoch"} => app = update[t] /\ update[t] \in Sound

Kept == app = NoApp => cut \/ \E t \in Deliverer : Swapping(t)

InstallInv == /\ InstallTyped /\ Kept /\ (app # NoApp => Good(app))
              /\ \A t \in Deliverer : Placed(t)

LEMMA EpochType ==
  /\ \A r \in Release : Epoch[r] \in Nat
  /\ First \in Release /\ Sound \subseteq Release /\ NoApp \notin Release
  BY InstallationAssumption

LEMMA HighWaterType == InstallTyped => AppHighWater \in Nat
  BY DEF InstallTyped, AppHighWater

LEMMA PlacedAtFirst == InstallInit => InstallInv
<1>1. SUFFICES ASSUME InstallInit PROVE InstallInv
  OBVIOUS
<1>2. /\ Epoch[First] \in Nat /\ First \in Release /\ First # NoApp /\ Epoch[First] <= Epoch[First]
  BY EpochType
<1>3. AppHighWater = Epoch[First]
  BY <1>1, <1>2, InstallationAssumption DEF InstallInit, AppHighWater
<1>4. InstallTyped
  BY <1>1, <1>2 DEF InstallInit, InstallTyped, Steps
<1>5. \A t \in Deliverer : step[t] = "idle"
  BY <1>1 DEF InstallInit
<1>6. \A t \in Deliverer : Placed(t)
  BY <1>5 DEF Placed, Before
<1>7. app = First /\ Good(app)
  BY <1>1, <1>2, <1>3 DEF InstallInit, Good
<1> QED
  BY <1>2, <1>4, <1>6, <1>7 DEF InstallInv, Kept

\* A connection goes on alone.
LEMMA AloneWith ==
  ASSUME OneDeliverer, InstallInv, NEW t \in Deliverer
  PROVE  /\ \A u \in Deliverer : u = t
         /\ InstallTyped /\ Placed(t) /\ AppHighWater \in Nat
         /\ step[t] \in Steps /\ update[t] \in Release /\ hadApp[t] \in BOOLEAN
         /\ Epoch[update[t]] \in Nat
<1>1. InstallTyped /\ Placed(t) /\ \A u \in Deliverer : u = t
  BY DEF InstallInv, OneDeliverer
<1> QED
  BY <1>1, HighWaterType, EpochType DEF InstallTyped

LEMMA StepType ==
  ASSUME InstallTyped, NEW t \in Deliverer, NEW there \in Steps, StepTo(t, there)
  PROVE  step' \in [Deliverer -> Steps] /\ step'[t] = there
  BY DEF InstallTyped, StepTo

\* Everything but the daemon's coming and going, in which no connection moves.
LEMMA PlacedApart ==
  ASSUME InstallInv, UNCHANGED <<app, old, staged, appEpoch, step, update, newEpoch, hadApp, cut>>
  PROVE  InstallInv'
  BY DEF InstallInv, InstallTyped, Kept, Good, Placed, AppHighWater, Swapping

LEMMA PlacedAfterDeliver ==
  ASSUME OneDeliverer, InstallInv, NEW t \in Deliverer, NEW r \in Release, DeliverUpdate(t, r)
  PROVE  InstallInv'
<1>1. UNCHANGED <<app, old, staged, appEpoch, hadApp, cut>> /\ step[t] = "idle"
  BY DEF DeliverUpdate, diskVars, IsAt
<1>2. CASE UNCHANGED <<step, update, newEpoch>>
  BY <1>1, <1>2, PlacedApart
<1>3. CASE /\ Epoch[r] >= AppHighWater /\ StepTo(t, "clear")
           /\ update' = [update EXCEPT ![t] = r]
           /\ newEpoch' = [newEpoch EXCEPT ![t] = Epoch[r]]
  <2>1. step' \in [Deliverer -> Steps] /\ step'[t] = "clear"
    BY <1>3, AloneWith, StepType DEF Steps
  <2>2. /\ update' \in [Deliverer -> Release] /\ update'[t] = r
        /\ newEpoch' \in [Deliverer -> Nat] /\ newEpoch'[t] = Epoch[r]
    BY <1>3, AloneWith, EpochType DEF InstallTyped
  <2>3. InstallTyped'
    BY <1>1, <2>1, <2>2, AloneWith DEF InstallTyped
  <2>4. AppHighWater' = AppHighWater /\ AppHighWater <= Epoch[r]
    BY <1>1, <1>3, AloneWith, EpochType DEF AppHighWater
  <2>5. \A u \in Deliverer : Placed(u)'
    BY <2>1, <2>2, <2>4, AloneWith, ZenonT(40) DEF Placed, Before
  <2>6. app = NoApp => cut
    BY <1>1, AloneWith DEF InstallInv, Kept, Swapping
  <2>7. Kept' /\ (app' # NoApp => Good(app)')
    BY <1>1, <2>4, <2>6 DEF InstallInv, Kept, Good
  <2> QED
    BY <2>3, <2>5, <2>7 DEF InstallInv
<1> QED
  BY <1>2, <1>3 DEF DeliverUpdate

\* What is to be shown of a step of an update.
LEMMA PlacedByStep ==
  ASSUME OneDeliverer, InstallInv, NEW t \in Deliverer, NEW there \in Steps,
         StepTo(t, there), UNCHANGED <<update, newEpoch, cut>>,
         app' \in Release \union {NoApp}, old' \in Release \union {NoApp},
         appEpoch' \in Nat \union {TornEpoch}, hadApp' \in [Deliverer -> BOOLEAN],
         step'[t] = there => Placed(t)',
         app' = NoApp => cut \/ there \in {"move in", "move back"},
         app' # NoApp => Good(app)'
  PROVE  InstallInv'
<1>1. step' \in [Deliverer -> Steps] /\ step'[t] = there /\ \A u \in Deliverer : u = t
  BY AloneWith, StepType
<1>2. InstallTyped'
  BY <1>1 DEF InstallInv, InstallTyped
<1>3. Kept'
  BY <1>1 DEF Kept, Swapping
<1> QED
  BY <1>1, <1>2, <1>3 DEF InstallInv

LEMMA PlacedAfterStep ==
  ASSUME OneDeliverer, InstallInv, NEW t \in Deliverer, UpdateStep(t) \/ AsideStep(t)
  PROVE  InstallInv'
<1>1. UNCHANGED <<update, newEpoch, cut>> /\ (UpdateStep(t) => hadApp' = hadApp)
  BY DEF UpdateStep, AsideStep, outerVars
<1>2. /\ InstallTyped /\ Placed(t) /\ AppHighWater \in Nat
      /\ step[t] \in Steps /\ update[t] \in Release /\ hadApp[t] \in BOOLEAN
      /\ Epoch[update[t]] \in Nat
  BY AloneWith
<1>3. /\ app \in Release \union {NoApp} /\ old \in Release \union {NoApp}
      /\ appEpoch \in Nat \union {TornEpoch} /\ hadApp \in [Deliverer -> BOOLEAN]
      /\ app # NoApp => Good(app)
      /\ step[t] \notin {"move in", "move back"} => (app = NoApp => cut)
  BY <1>2, AloneWith DEF InstallTyped, InstallInv, Kept, Swapping
<1>4. ASSUME step[t] \notin {"move in", "move back"}, GivesUp(t), hadApp' = hadApp
      PROVE  InstallInv'
  <2>1. StepTo(t, "idle") /\ UNCHANGED <<app, old, staged, appEpoch>>
    BY <1>4 DEF GivesUp
  <2>2. step'[t] = "idle" => Placed(t)'
    BY DEF Placed, Before
  <2>3. app' # NoApp => Good(app)'
    BY <1>3, <2>1 DEF Good, AppHighWater
  <2> QED
    BY <1>1, <1>3, <1>4, <2>1, <2>2, <2>3, PlacedByStep DEF Steps
<1>5. CASE ClearStaging(t) /\ UpdateStep(t)
  <2>1. /\ step[t] = "clear" /\ StepTo(t, "unpack") /\ UNCHANGED <<app, old, appEpoch>>
    BY <1>5 DEF ClearStaging, IsAt
  <2>2. step'[t] = "unpack" => Placed(t)'
    BY <1>1, <1>2, <2>1 DEF Placed, Before, AppHighWater
  <2>3. app' # NoApp => Good(app)'
    BY <1>3, <2>1 DEF Good, AppHighWater
  <2> QED
    BY <1>1, <1>3, <1>5, <2>1, <2>2, <2>3, PlacedByStep DEF Steps
<1>6. CASE UnpackZip(t) /\ UpdateStep(t)
  <2>1. CASE GivesUp(t)
    BY <1>1, <1>4, <1>6, <2>1 DEF UnpackZip, IsAt
  <2>2. CASE ~GivesUp(t)
    <3>1. /\ step[t] = "unpack" /\ StepTo(t, "check") /\ UNCHANGED <<app, old, appEpoch>>
      BY <1>6, <2>2 DEF UnpackZip, IsAt
    <3>2. step'[t] = "check" => Placed(t)'
      BY <1>1, <1>2, <3>1 DEF Placed, Before, AppHighWater
    <3>3. app' # NoApp => Good(app)'
      BY <1>3, <3>1 DEF Good, AppHighWater
    <3> QED
      BY <1>1, <1>3, <1>6, <3>1, <3>2, <3>3, PlacedByStep DEF Steps
  <2> QED
    BY <2>1, <2>2
<1>7. CASE CheckBundle(t) /\ UpdateStep(t)
  <2>1. CASE GivesUp(t)
    BY <1>1, <1>4, <1>7, <2>1 DEF CheckBundle, IsAt
  <2>2. CASE ~GivesUp(t)
    <3>1. /\ step[t] = "check" /\ StepTo(t, "drop old")
          /\ UNCHANGED <<app, old, staged, appEpoch>>
          /\ staged = {update[t]} /\ update[t] \in Sound
      BY <1>7, <2>2 DEF CheckBundle, IsAt, diskVars
    <3>2. step'[t] = "drop old" => Placed(t)'
      BY <1>1, <1>2, <3>1 DEF Placed, Before, AppHighWater
    <3>3. app' # NoApp => Good(app)'
      BY <1>3, <3>1 DEF Good, AppHighWater
    <3> QED
      BY <1>1, <1>3, <1>7, <3>1, <3>2, <3>3, PlacedByStep DEF Steps
  <2> QED
    BY <2>1, <2>2
<1>8. CASE DropOld(t) /\ UpdateStep(t)
  <2>1. /\ step[t] = "drop old" /\ StepTo(t, "move aside") /\ old' = NoApp
        /\ UNCHANGED <<app, staged, appEpoch>>
    BY <1>8 DEF DropOld, IsAt
  <2>2. step'[t] = "move aside" => Placed(t)'
    BY <1>1, <1>2, <2>1 DEF Placed, Before, AppHighWater
  <2>3. app' # NoApp => Good(app)'
    BY <1>3, <2>1 DEF Good, AppHighWater
  <2> QED
    BY <1>1, <1>3, <1>8, <2>1, <2>2, <2>3, PlacedByStep DEF Steps
<1>9. CASE MoveAside(t) /\ AsideStep(t)
  <2>1. /\ step[t] = "move aside" /\ UNCHANGED <<staged, appEpoch>>
        /\ hadApp' = [hadApp EXCEPT ![t] = app # NoApp]
    BY <1>9 DEF MoveAside, IsAt
  <2>2. hadApp' \in [Deliverer -> BOOLEAN] /\ hadApp'[t] = (app # NoApp)
    BY <1>3, <2>1
  <2>3. CASE app # NoApp /\ app' = NoApp /\ old' = SetAside(app) /\ StepTo(t, "move in")
    <3>1. old' = app /\ Good(old)'
      BY <1>3, <2>1, <2>3 DEF SetAside, Good, AppHighWater
    <3>2. step'[t] = "move in" => Placed(t)'
      BY <1>1, <1>2, <2>1, <2>2, <2>3, <3>1 DEF Placed, Before, AppHighWater
    <3> QED
      BY <1>1, <1>3, <2>1, <2>2, <2>3, <3>1, <3>2, PlacedByStep DEF Steps
  <2>4. CASE app = NoApp /\ StepTo(t, "move in") /\ UNCHANGED <<app, old>>
    <3>1. step'[t] = "move in" => Placed(t)'
      BY <1>1, <1>2, <1>3, <2>1, <2>2, <2>4 DEF Placed, Before, AppHighWater
    <3> QED
      BY <1>1, <1>3, <2>1, <2>2, <2>4, <3>1, PlacedByStep DEF Steps
  <2>5. CASE app # NoApp /\ StepTo(t, "idle") /\ UNCHANGED <<app, old>>
    <3>1. step'[t] = "idle" => Placed(t)'
      BY DEF Placed, Before
    <3>2. app' # NoApp => Good(app)'
      BY <1>3, <2>1, <2>5 DEF Good, AppHighWater
    <3> QED
      BY <1>1, <1>3, <2>1, <2>2, <2>5, <3>1, <3>2, PlacedByStep DEF Steps
  <2> QED
    BY <1>9, <2>3, <2>4, <2>5 DEF MoveAside
<1>10. CASE MoveIn(t) /\ UpdateStep(t)
  <2>1. /\ step[t] = "move in" /\ staged = {update[t]} /\ update[t] \in Sound
        /\ app = NoApp /\ AppHighWater <= Epoch[update[t]]
        /\ IF hadApp[t] THEN Good(old) ELSE cut
    BY <1>2, <1>10 DEF MoveIn, IsAt, Placed, Before
  <2>2. CASE app' \in staged /\ StepTo(t, "write epoch") /\ UNCHANGED <<old, appEpoch>>
    <3>1. app' = update[t] /\ Good(app)'
      BY <2>1, <2>2 DEF Good, AppHighWater
    <3>2. step'[t] = "write epoch" => Placed(t)'
      BY <1>1, <1>2, <2>1, <2>2, <3>1 DEF Placed, Before
    <3> QED
      BY <1>1, <1>2, <1>3, <1>10, <2>2, <3>1, <3>2, PlacedByStep, EpochType DEF Steps
  <2>3. CASE hadApp[t] /\ StepTo(t, "move back") /\ UNCHANGED diskVars
    <3>1. step'[t] = "move back" => Placed(t)'
      BY <1>1, <1>2, <1>10, <2>1, <2>3 DEF Placed, Before, Good, AppHighWater, diskVars
    <3> QED
      BY <1>1, <1>3, <1>10, <2>1, <2>3, <3>1, PlacedByStep DEF Steps, diskVars
  <2>4. CASE ~hadApp[t] /\ StepTo(t, "idle") /\ UNCHANGED diskVars
    <3>1. step'[t] = "idle" => Placed(t)'
      BY DEF Placed, Before
    <3> QED
      BY <1>1, <1>3, <1>10, <2>1, <2>4, <3>1, PlacedByStep DEF Steps, diskVars
  <2> QED
    BY <1>10, <2>2, <2>3, <2>4 DEF MoveIn
<1>11. CASE MoveBack(t) /\ UpdateStep(t)
  <2>1. /\ step[t] = "move back" /\ app = NoApp /\ Good(old)
    BY <1>2, <1>11 DEF MoveBack, IsAt, Placed
  <2>2. app' = old /\ old' = NoApp /\ StepTo(t, "idle") /\ UNCHANGED <<staged, appEpoch>>
    BY <1>11, <2>1 DEF MoveBack
  <2>3. app' # NoApp /\ Good(app)'
    <3>1. old \in Release
      BY <2>1, EpochType DEF Good
    <3>2. app' # NoApp
      BY <2>2, <3>1, EpochType
    <3>3. AppHighWater' = AppHighWater
      BY <2>2 DEF AppHighWater
    <3>4. app' \in Sound \union {First} /\ AppHighWater' <= Epoch[app']
      BY <2>1, <2>2, <3>3 DEF Good
    <3> QED
      BY <3>2, <3>4 DEF Good
  <2>4. step'[t] = "idle" => Placed(t)'
    BY DEF Placed, Before
  <2> QED
    BY <1>1, <1>3, <1>11, <2>2, <2>3, <2>4, PlacedByStep DEF Steps
<1>12. CASE OpenEpoch(t) /\ UpdateStep(t)
  <2>1. /\ step[t] = "write epoch" /\ StepTo(t, "fill epoch") /\ app' = app /\ old' = NoApp
        /\ appEpoch' = TornEpoch /\ app = update[t] /\ update[t] \in Sound
    BY <1>2, <1>12 DEF OpenEpoch, IsAt, Placed
  <2>2. Good(app)' /\ app # NoApp
    <3>1. app \in Release /\ app # NoApp
      BY <2>1, EpochType
    <3>2. AppHighWater' = 0
      BY <2>1 DEF AppHighWater
    <3>3. AppHighWater' <= Epoch[app]
      BY <3>1, <3>2, EpochType
    <3>4. app' \in Sound \union {First} /\ AppHighWater' <= Epoch[app']
      BY <2>1, <3>3
    <3> QED
      BY <3>1, <3>4 DEF Good
  <2>3. step'[t] = "fill epoch" => Placed(t)'
    BY <1>1, <1>2, <2>1 DEF Placed, Before
  <2> QED
    BY <1>1, <1>3, <1>12, <2>1, <2>2, <2>3, PlacedByStep DEF Steps
<1>13. CASE WriteEpoch(t) /\ UpdateStep(t)
  <2>1. /\ step[t] = "fill epoch" /\ app' = app /\ old' = old
        /\ app = update[t] /\ update[t] \in Sound /\ newEpoch[t] = Epoch[update[t]]
    BY <1>2, <1>13 DEF WriteEpoch, IsAt, Placed
  <2>2. app # NoApp /\ Good(app)
    BY <1>2, <1>3, <2>1, EpochType
  <2>3. CASE appEpoch' = newEpoch[t] /\ StepTo(t, "kickstart")
    <3>1. Good(app)'
      <4>1. app \in Release /\ Epoch[app] \in Nat
        BY <2>1, EpochType
      <4>2. appEpoch' = Epoch[app] /\ app' \in Sound \union {First}
        BY <2>1, <2>3
      <4>3. AppHighWater' = Epoch[app]
        <5>1. TornEpoch \notin Nat
          BY InstallationAssumption
        <5>2. appEpoch' \in Nat
          BY <4>1, <4>2
        <5>3. appEpoch' # TornEpoch
          BY <5>1, <5>2, Zenon
        <5> QED
          BY <4>2, <5>3, Zenon DEF AppHighWater
      <4>4. AppHighWater' <= Epoch[app']
        <5>1. app' = app
          BY <2>1
        <5>2. Epoch[app] <= Epoch[app]
          BY <4>1
        <5> QED
          BY <4>3, <5>1, <5>2
      <4> QED
        BY <4>2, <4>4 DEF Good
    <3>2. step'[t] = "kickstart" => Placed(t)'
      BY <1>1, <1>2, <2>1 DEF Placed, Before
    <3>3. appEpoch' \in Nat
      BY <1>2, <2>1, <2>3
    <3> QED
      BY <1>1, <1>3, <1>13, <2>1, <2>2, <2>3, <3>1, <3>2, <3>3, PlacedByStep DEF Steps
  <2>4. CASE UNCHANGED appEpoch /\ StepTo(t, "idle")
    <3>1. Good(app)'
      BY <2>1, <2>2, <2>4 DEF Good, AppHighWater
    <3>2. step'[t] = "idle" => Placed(t)'
      BY DEF Placed, Before
    <3> QED
      BY <1>1, <1>3, <1>13, <2>1, <2>2, <2>4, <3>1, <3>2, PlacedByStep DEF Steps
  <2> QED
    BY <1>13, <2>3, <2>4 DEF WriteEpoch
<1> QED
  BY <1>5, <1>6, <1>7, <1>8, <1>9, <1>10, <1>11, <1>12, <1>13 DEF UpdateStep, AsideStep

LEMMA PlacedAfterKickstart ==
  ASSUME OneDeliverer, InstallInv, NEW t \in Deliverer, Kickstart(t)
  PROVE  InstallInv'
<1>1. /\ UNCHANGED <<app, old, staged, appEpoch, update, newEpoch, hadApp, cut>>
      /\ StepTo(t, "idle") /\ step[t] = "kickstart"
  BY DEF Kickstart, diskVars, IsAt
<1>2. /\ InstallTyped /\ app # NoApp => Good(app)
      /\ app = NoApp => cut
  BY <1>1, AloneWith DEF InstallInv, Kept, Swapping
<1>3. step'[t] = "idle" => Placed(t)'
  BY DEF Placed, Before
<1>4. app' # NoApp => Good(app)'
  BY <1>1, <1>2 DEF InstallInv, Good, AppHighWater
<1> QED
  BY <1>1, <1>2, <1>3, <1>4, AloneWith, PlacedByStep DEF Steps, InstallTyped

LEMMA PlacedAfterDeath ==
  ASSUME InstallInv, DaemonDies
  PROVE  InstallInv'
<1>1. /\ UNCHANGED <<app, old, staged, appEpoch, update, newEpoch, hadApp>>
      /\ step' = [t \in Deliverer |-> "idle"]
      /\ cut' = (cut \/ \E t \in Deliverer : Swapping(t))
  BY DEF DaemonDies, diskVars
<1>2. InstallTyped'
  BY <1>1 DEF InstallInv, InstallTyped, Steps
<1>3. \A t \in Deliverer : Placed(t)'
  BY <1>1 DEF Placed, Before
<1>4. Kept' /\ (app' # NoApp => Good(app)')
  BY <1>1 DEF InstallInv, Kept, Good, AppHighWater
<1> QED
  BY <1>2, <1>3, <1>4 DEF InstallInv

LEMMA PlacedStays ==
  ASSUME OneDeliverer
  PROVE  InstallInv /\ [InstallNext]_installVars => InstallInv'
<1>1. SUFFICES ASSUME InstallInv, [InstallNext]_installVars PROVE InstallInv'
  OBVIOUS
<1>2. ASSUME NEW t \in Deliverer, NEW r \in Release, DeliverUpdate(t, r) PROVE InstallInv'
  BY <1>1, <1>2, PlacedAfterDeliver
<1>3. ASSUME NEW t \in Deliverer, ConnectionStep(t) PROVE InstallInv'
  BY <1>1, <1>3, PlacedAfterStep, PlacedAfterKickstart DEF ConnectionStep
<1>4. CASE LeaveAfterUpdate \/ KillDaemon
  BY <1>1, <1>4, PlacedAfterDeath DEF LeaveAfterUpdate, KillDaemon
<1>5. CASE RespawnDaemon \/ CheckIntegrity \/ PlistDrifts \/ UNCHANGED installVars
  <2>1. UNCHANGED <<app, old, staged, appEpoch, step, update, newEpoch, hadApp, cut>>
    BY <1>5 DEF RespawnDaemon, CheckIntegrity, PlistDrifts, installVars, diskVars, outerVars
  <2> QED
    BY <1>1, <2>1, PlacedApart
<1> QED
  BY <1>1, <1>2, <1>3, <1>4, <1>5 DEF InstallNext

\* With one connection that delivers at a time: however an update ends there is
\* an app, one that was checked, unless the daemon died within the swap; and the
\* high-water is never ahead of it (apply_app_envelope).
THEOREM UpdateIsSafeAlways ==
  ASSUME OneDeliverer
  PROVE  InstallSpec => []UpdateIsSafe
<1>1. InstallInit => InstallInv
  BY PlacedAtFirst
<1>2. InstallInv /\ [InstallNext]_installVars => InstallInv'
  BY PlacedStays
<1>3. InstallInv => UpdateIsSafe
  BY DEF InstallInv, Kept, Good, UpdateIsSafe
<1> QED
  BY <1>1, <1>2, <1>3, PTL DEF InstallSpec

-----------------------------------------------------------------------------
(* Types, with any number of connections *)

LEMMA InstallTypeAtFirst == InstallInit => InstallTypeOK
<1> SUFFICES ASSUME InstallInit PROVE InstallTypeOK
  OBVIOUS
<1>1. /\ First \in Release /\ Epoch[First] \in Nat
      /\ 0 \in 0..MaxUpdates /\ 0 \in 0..MaxFaults /\ 0 \in Nat
  BY InstallationAssumption
<1>2. /\ step \in [Deliverer -> {"idle", "clear", "unpack", "check", "drop old", "move aside",
                 "move in", "move back", "write epoch", "fill epoch", "kickstart"}]
      /\ update \in [Deliverer -> Release] /\ newEpoch \in [Deliverer -> Nat]
      /\ hadApp \in [Deliverer -> BOOLEAN]
  BY <1>1 DEF InstallInit
<1>3. updates \in 0..MaxUpdates /\ faults \in 0..MaxFaults
  BY <1>1 DEF InstallInit
<1>4. /\ {app, old, running} \subseteq Release \union {NoApp} /\ agentRuns \in Release
      /\ staged \subseteq Release /\ appEpoch \in Nat \union {TornEpoch}
      /\ leaving \in BOOLEAN /\ cut \in BOOLEAN
      /\ agentPlist \in PlistStates /\ daemonPlist \in PlistStates
  BY <1>1 DEF InstallInit
<1> QED
  BY <1>2, <1>3, <1>4 DEF InstallTypeOK

LEMMA InstallTypeAfterDeath ==
  ASSUME InstallTypeOK, DaemonDies, faults' \in 0..MaxFaults
  PROVE  InstallTypeOK'
  BY DEF InstallTypeOK, DaemonDies, diskVars, plistVars

LEMMA InstallTypeAfterStep ==
  ASSUME InstallTypeOK, NEW t \in Deliverer, ConnectionStep(t)
  PROVE  InstallTypeOK'
<1> USE DEF InstallTypeOK, StepTo, GivesUp, diskVars, outerVars, plistVars
<1>1. CASE UpdateStep(t)
  <2>0. UNCHANGED <<update, newEpoch, hadApp, running, leaving, agentRuns, updates, faults, cut,
                    agentPlist, daemonPlist>>
    BY <1>1 DEF UpdateStep
  <2>1. CASE ClearStaging(t)
    BY <2>0, <2>1 DEF ClearStaging
  <2>2. CASE UnpackZip(t)
    BY <2>0, <2>2 DEF UnpackZip
  <2>3. CASE CheckBundle(t)
    BY <2>0, <2>3 DEF CheckBundle
  <2>4. CASE DropOld(t)
    BY <2>0, <2>4 DEF DropOld
  <2>5. CASE MoveIn(t)
    BY <2>0, <2>5 DEF MoveIn
  <2>6. CASE MoveBack(t)
    BY <2>0, <2>6 DEF MoveBack
  <2>7. CASE OpenEpoch(t)
    BY <2>0, <2>7 DEF OpenEpoch
  <2>8. CASE WriteEpoch(t)
    <3>1. newEpoch[t] \in Nat
      OBVIOUS
    <3>2. appEpoch' \in Nat \union {TornEpoch} /\ UNCHANGED <<app, old, staged>>
      BY <2>8, <3>1 DEF WriteEpoch
    <3>3. step' = [step EXCEPT ![t] = "kickstart"] \/ step' = [step EXCEPT ![t] = "idle"]
      BY <2>8 DEF WriteEpoch
    <3> QED
      BY <2>0, <3>2, <3>3
  <2> QED
    BY <1>1, <2>1, <2>2, <2>3, <2>4, <2>5, <2>6, <2>7, <2>8 DEF UpdateStep
<1>2. CASE AsideStep(t)
  BY <1>2 DEF AsideStep, MoveAside, SetAside
<1>3. CASE Kickstart(t)
  BY <1>3 DEF Kickstart
<1> QED
  BY <1>1, <1>2, <1>3 DEF ConnectionStep

LEMMA InstallTypeStays == InstallTypeOK /\ [InstallNext]_installVars => InstallTypeOK'
<1> SUFFICES ASSUME InstallTypeOK, [InstallNext]_installVars PROVE InstallTypeOK'
  OBVIOUS
<1>1. ASSUME NEW t \in Deliverer, NEW r \in Release, DeliverUpdate(t, r) PROVE InstallTypeOK'
  <2>1. Epoch[r] \in Nat
    BY InstallationAssumption
  <2>2. updates' \in 0..MaxUpdates
    <3>1. updates \in 0..MaxUpdates /\ updates < MaxUpdates /\ updates' = updates + 1
      BY <1>1 DEF InstallTypeOK, DeliverUpdate
    <3> QED
      BY <3>1, InstallationAssumption
  <2>3. /\ step' = [step EXCEPT ![t] = "clear"] \/ step' = step
        /\ update' = [update EXCEPT ![t] = r] \/ update' = update
        /\ newEpoch' = [newEpoch EXCEPT ![t] = Epoch[r]] \/ newEpoch' = newEpoch
    BY <1>1 DEF DeliverUpdate, StepTo
  <2>4. UNCHANGED <<app, old, staged, appEpoch, hadApp, running, leaving, agentRuns, agentPlist,
                    daemonPlist, faults, cut>>
    BY <1>1 DEF DeliverUpdate, diskVars, plistVars
  <2> QED
    BY <2>1, <2>2, <2>3, <2>4 DEF InstallTypeOK
<1>2. ASSUME NEW t \in Deliverer, ConnectionStep(t) PROVE InstallTypeOK'
  BY <1>2, InstallTypeAfterStep
<1>3. CASE LeaveAfterUpdate
  BY <1>3, InstallTypeAfterDeath DEF InstallTypeOK, LeaveAfterUpdate
<1>4. CASE KillDaemon
  <2>1. faults' \in 0..MaxFaults
    <3>1. faults \in 0..MaxFaults /\ faults < MaxFaults /\ faults' = faults + 1
      BY <1>4 DEF InstallTypeOK, KillDaemon
    <3> QED
      BY <3>1, InstallationAssumption
  <2> QED
    BY <1>4, <2>1, InstallTypeAfterDeath DEF KillDaemon
<1>5. CASE RespawnDaemon
  BY <1>5 DEF InstallTypeOK, RespawnDaemon, PlistStates, diskVars
<1>6. CASE CheckIntegrity
  BY <1>6 DEF InstallTypeOK, CheckIntegrity, Repaired, PlistStates, diskVars, outerVars
<1>7. CASE PlistDrifts
  <2>1. faults \in 0..MaxFaults /\ faults < MaxFaults /\ faults' = faults + 1
    BY <1>7 DEF InstallTypeOK, PlistDrifts
  <2>2. faults' \in 0..MaxFaults
    BY <2>1, InstallationAssumption
  <2>3. /\ agentPlist' \in PlistStates /\ daemonPlist' \in PlistStates
        /\ UNCHANGED <<app, old, staged, appEpoch, step, update, newEpoch, hadApp, running,
                       leaving, agentRuns, updates, cut>>
    BY <1>7 DEF PlistDrifts, diskVars
  <2> QED
    BY <2>2, <2>3 DEF InstallTypeOK
<1>8. CASE UNCHANGED installVars
  BY <1>8 DEF InstallTypeOK, installVars
<1> QED
  BY <1>1, <1>2, <1>3, <1>4, <1>5, <1>6, <1>7, <1>8 DEF InstallNext

\* Whatever connections deliver at the same time, and whenever the daemon dies, bundles,
\* epochs and plists are what they can be. (apply_app_envelope, check_integrity)
THEOREM InstallIsTyped == InstallSpec => []InstallTypeOK
  BY InstallTypeAtFirst, InstallTypeStays, PTL DEF InstallSpec

\* TypeOK, with the handlers and the agent as records.
CustodyTypeInv ==
  /\ kind \in Kinds /\ tmp \in Content /\ artifact \in Content /\ pinFile \in Content
  /\ file \in [Names -> Content] /\ h \in [Handler -> HandlerState]
  /\ \A t \in Handler : /\ h[t].open # "nothing" => h[t].pc = "fill"
                        /\ h[t].cut => h[t].pc \in Names
  /\ acked \in Nat /\ tore \in BOOLEAN /\ changed \in BOOLEAN /\ missed \in BOOLEAN
  /\ agent \in [pc: {"stopped", "loaded", "watching", "reading", "applying"},
                applied: Envelope, loaded: Envelope]

LEMMA CustodyTypeAtFirst == Init => CustodyTypeInv
<1> SUFFICES ASSUME Init PROVE CustodyTypeInv
  OBVIOUS
<1>1. /\ Absent \in Envelope /\ Absent \in Content /\ Waiting \in HandlerState
      /\ Waiting.open = "nothing" /\ Waiting.cut = FALSE
  BY AbsentType DEF Waiting, Envelope
<1>2. kind \in Kinds /\ tmp \in Content /\ artifact \in Content /\ pinFile \in Content
      /\ file \in [Names -> Content] /\ h \in [Handler -> HandlerState]
  BY <1>1 DEF Init, Names
<1>3. \A t \in Handler : h[t] = Waiting
  BY DEF Init
<1>4. agent \in [pc: {"stopped", "loaded", "watching", "reading", "applying"},
                 applied: Envelope, loaded: Envelope]
  BY <1>1 DEF Init, Stopped
<1>5. acked \in Nat /\ tore \in BOOLEAN /\ changed \in BOOLEAN /\ missed \in BOOLEAN
  BY DEF Init
<1> QED
  BY <1>1, <1>2, <1>3, <1>4, <1>5 DEF CustodyTypeInv

\* A handler in one of its places.
Settled(s) ==
  s \in HandlerState /\ (s.open # "nothing" => s.pc = "fill") /\ (s.cut => s.pc \in Names)

\* One handler goes on.
LEMMA HandlerSettled ==
  ASSUME CustodyTypeInv, NEW t \in Handler, NEW s, Settled(s), h' = [h EXCEPT ![t] = s]
  PROVE  /\ h' \in [Handler -> HandlerState]
         /\ \A u \in Handler : /\ h'[u].open # "nothing" => h'[u].pc = "fill"
                               /\ h'[u].cut => h'[u].pc \in Names
<1>1. h \in [Handler -> HandlerState] /\ s \in HandlerState
  BY DEF CustodyTypeInv, Settled
<1>2. h' \in [Handler -> HandlerState]
  BY <1>1
<1>3. ASSUME NEW u \in Handler
      PROVE  /\ h'[u].open # "nothing" => h'[u].pc = "fill"
             /\ h'[u].cut => h'[u].pc \in Names
  <2>1. CASE u = t
    <3>1. h'[u] = s
      BY <1>1, <2>1
    <3> QED
      BY <3>1 DEF Settled
  <2>2. CASE u # t
    <3>1. h'[u] = h[u]
      BY <1>1, <2>2
    <3> QED
      BY <3>1 DEF CustodyTypeInv
  <2> QED
    BY <2>1, <2>2
<1> QED
  BY <1>2, <1>3

LEMMA WaitingSettled == Settled(Waiting)
  BY AbsentType DEF Settled, Waiting

\* To another place with nothing open and no file cut short.
LEMMA GotoSettled ==
  ASSUME CustodyTypeInv, NEW t \in Handler, NEW place \in {"waiting"} \union Early \union Names,
         h[t].pc # "fill", ~h[t].cut, Goto(t, place)
  PROVE  \E s : Settled(s) /\ h' = [h EXCEPT ![t] = s]
<1> DEFINE s == [h[t] EXCEPT !.pc = place]
<1>1. h[t] \in HandlerState /\ (h[t].open # "nothing" => h[t].pc = "fill")
  BY DEF CustodyTypeInv
<1>2. s \in HandlerState /\ s.open = h[t].open /\ s.cut = h[t].cut
  BY <1>1 DEF HandlerState
<1>3. h' = [h EXCEPT ![t] = s]
  BY DEF Goto
<1> HIDE DEF s
<1>4. Settled(s)
  BY <1>1, <1>2 DEF Settled
<1> QED
  BY <1>3, <1>4

\* What a step of a handler has to show.
LEMMA CustodyTypeByHandler ==
  ASSUME CustodyTypeInv, NEW t \in Handler,
         \E s : Settled(s) /\ h' = [h EXCEPT ![t] = s],
         tmp' \in Content, artifact' \in Content, pinFile' \in Content,
         file' \in [Names -> Content], acked' \in Nat, changed' \in BOOLEAN, missed' \in BOOLEAN,
         UNCHANGED <<kind, tore, agent>>
  PROVE  CustodyTypeInv'
<1>1. PICK s : Settled(s) /\ h' = [h EXCEPT ![t] = s]
  OBVIOUS
<1>2. /\ h' \in [Handler -> HandlerState]
      /\ \A u \in Handler : /\ h'[u].open # "nothing" => h'[u].pc = "fill"
                            /\ h'[u].cut => h'[u].pc \in Names
  BY <1>1, HandlerSettled
<1> QED
  BY <1>2 DEF CustodyTypeInv

LEMMA CustodyTypeAfterHandler ==
  ASSUME CustodyTypeInv, NEW t \in Handler, Receive(t) \/ HandlerStep(t)
  PROVE  CustodyTypeInv'
<1>1. /\ tmp \in Content /\ artifact \in Content /\ pinFile \in Content /\ acked \in Nat
      /\ file \in [Names -> Content] /\ changed \in BOOLEAN /\ missed \in BOOLEAN
      /\ kind \in Kinds
  BY DEF CustodyTypeInv
<1>2. /\ h[t] \in HandlerState /\ h[t].env \in Envelope /\ h[t].env \in Content
      /\ h[t].env.authored \in Nat
      /\ h[t].open # "nothing" => h[t].pc = "fill"
      /\ h[t].cut => h[t].pc \in Names
  BY DEF CustodyTypeInv, HandlerState, Envelope, Content
<1>3. Absent \in Content /\ Torn \in Content /\ Settled(Waiting)
  BY AbsentType, WaitingSettled DEF Envelope
<1>4. \A place \in {"generation", "pin", "rename"} \union Names :
        After(place) \in {"waiting"} \union Early \union Names
  BY DEF After, Names, Early
<1>5. CASE Receive(t)
  <2>1. PICK e \in Envelopes :
          h' = IF e.epoch # 0 /\ e.epoch < file["epoch"].epoch THEN h
               ELSE [h EXCEPT ![t].pc = "generation", ![t].env = Verified(e)]
    BY <1>5 DEF Receive
  <2>2. UNCHANGED <<kind, tmp, artifact, pinFile, file, acked, tore, agent, changed, missed>>
    BY <1>5 DEF Receive, disk, watcher
  <2>3. CASE h' = h
    BY <2>2, <2>3 DEF CustodyTypeInv
  <2>4. CASE h' = [h EXCEPT ![t].pc = "generation", ![t].env = Verified(e)]
    <3> DEFINE s == [h[t] EXCEPT !.pc = "generation", !.env = Verified(e)]
    <3>1. file["epoch"] \in Content
      BY <1>1 DEF Names
    <3>2. Verified(e) \in Envelope
      BY <3>1, VerifiedEnvelope
    <3>3. h[t].pc = "waiting"
      BY <1>5 DEF Receive, At
    <3>4. s \in HandlerState /\ s.open = h[t].open /\ s.cut = h[t].cut
      BY <1>2, <3>2 DEF HandlerState, Early
    <3>5. h[t].open = "nothing" /\ ~h[t].cut
      BY <1>2, <3>3 DEF Names
    <3>6. h' = [h EXCEPT ![t] = s]
      BY <2>4
    <3> HIDE DEF s
    <3>7. Settled(s)
      BY <3>4, <3>5 DEF Settled
    <3> QED
      BY <1>1, <2>2, <3>6, <3>7, CustodyTypeByHandler
  <2> QED
    BY <2>1, <2>3, <2>4
<1>6. CASE Generation(t)
  <2>1. h[t].pc = "generation" /\ UNCHANGED <<kind, tmp, artifact, pinFile, file, acked, tore,
                                              agent, changed, missed>>
    BY <1>6 DEF Generation, At, disk, watcher
  <2>2. Finish(t) \/ Goto(t, After("generation"))
    BY <1>6 DEF Generation
  <2>3. \E s : Settled(s) /\ h' = [h EXCEPT ![t] = s]
    <3>1. CASE Finish(t)
      BY <1>3, <3>1 DEF Finish
    <3>2. CASE Goto(t, After("generation"))
      <4>1. h[t].pc # "fill" /\ ~h[t].cut
        BY <1>2, <2>1 DEF Names
      <4> QED
        BY <1>4, <3>2, <4>1, GotoSettled
    <3> QED
      BY <2>2, <3>1, <3>2
  <2> QED
    BY <1>1, <2>1, <2>3, CustodyTypeByHandler
<1>7. CASE SetPin(t)
  <2>1. h[t].pc = "pin" /\ UNCHANGED <<kind, tmp, artifact, file, acked, tore, agent, changed,
                                       missed>>
    BY <1>7 DEF SetPin, At, watcher
  <2>2. pinFile' \in Content
    BY <1>2, <1>3, <1>7 DEF SetPin
  <2>3. \E s : Settled(s) /\ h' = [h EXCEPT ![t] = s]
    <3>1. Goto(t, After("pin")) /\ h[t].pc # "fill" /\ ~h[t].cut
      BY <1>2, <1>7, <2>1 DEF SetPin, Names
    <3> QED
      BY <1>4, <3>1, GotoSettled
  <2> QED
    BY <1>1, <2>1, <2>2, <2>3, CustodyTypeByHandler
<1>8. CASE OpenTmp(t)
  <2> DEFINE s == [h[t] EXCEPT !.pc = "fill", !.open = "tmp"]
  <2>1. h[t].pc = "open" /\ tmp' = Torn
        /\ UNCHANGED <<kind, artifact, pinFile, file, acked, tore, agent, changed, missed>>
    BY <1>8 DEF OpenTmp, At, watcher
  <2>2. h' = [h EXCEPT ![t] = s]
    BY <1>8 DEF OpenTmp
  <2>3. s \in HandlerState /\ s.pc = "fill" /\ s.cut = h[t].cut /\ ~h[t].cut
    BY <1>2, <2>1 DEF HandlerState, Early, Names
  <2> HIDE DEF s
  <2>4. Settled(s)
    BY <2>3 DEF Settled
  <2> QED
    BY <1>1, <1>3, <2>1, <2>2, <2>4, CustodyTypeByHandler
<1>9. CASE FillTmp(t)
  <2> DEFINE s == [h[t] EXCEPT !.pc = "rename", !.open = "nothing"]
  <2>1. h[t].pc = "fill" /\ UNCHANGED <<kind, pinFile, file, acked, tore, agent, changed, missed>>
    BY <1>9 DEF FillTmp, At, watcher
  <2>2. tmp' \in Content /\ artifact' \in Content
    BY <1>1, <1>2, <1>9 DEF FillTmp
  <2>3. h' = [h EXCEPT ![t] = s]
    BY <1>9 DEF FillTmp
  <2>4. s \in HandlerState /\ s.open = "nothing" /\ s.cut = h[t].cut /\ ~h[t].cut
    BY <1>2, <2>1 DEF HandlerState, Early, Names
  <2> HIDE DEF s
  <2>5. Settled(s)
    BY <2>4 DEF Settled
  <2> QED
    BY <1>1, <2>1, <2>2, <2>3, <2>5, CustodyTypeByHandler
<1>10. CASE Rename(t)
  <2>1. h[t].pc = "rename" /\ UNCHANGED <<kind, pinFile, file, acked, tore, agent, changed, missed>>
    BY <1>10 DEF Rename, At, watcher
  <2>2. CASE tmp = Absent
    <3>1. UNCHANGED <<tmp, artifact>> /\ \E s : Settled(s) /\ h' = [h EXCEPT ![t] = s]
      BY <1>3, <1>10, <2>2 DEF Rename, Finish
    <3> QED
      BY <1>1, <2>1, <3>1, CustodyTypeByHandler
  <2>3. CASE tmp # Absent
    <3>1. /\ artifact' = tmp /\ tmp' = Absent
          /\ h' = [u \in Handler |-> IF u = t THEN [h[u] EXCEPT !.pc = After("rename")]
                                     ELSE [h[u] EXCEPT !.open = Moved(@)]]
      BY <1>10, <2>3 DEF Rename
    <3>2. ASSUME NEW u \in Handler PROVE Settled(h'[u])
      <4>1. h[u] \in HandlerState /\ (h[u].open # "nothing" => h[u].pc = "fill")
            /\ (h[u].cut => h[u].pc \in Names)
        BY DEF CustodyTypeInv
      <4>2. CASE u = t
        <5> DEFINE s == [h[t] EXCEPT !.pc = After("rename")]
        <5>1. s \in HandlerState /\ s.open = h[t].open /\ s.cut = h[t].cut
          BY <1>2, <1>4 DEF HandlerState
        <5>2. h[t].open = "nothing" /\ ~h[t].cut
          BY <1>2, <2>1 DEF Names
        <5>3. h'[u] = s
          BY <3>1, <4>2
        <5> HIDE DEF s
        <5> QED
          BY <5>1, <5>2, <5>3 DEF Settled
      <4>3. CASE u # t
        <5> DEFINE s == [h[u] EXCEPT !.open = Moved(@)]
        <5>1. s \in HandlerState /\ s.pc = h[u].pc /\ s.cut = h[u].cut /\ s.open = Moved(h[u].open)
          BY <4>1 DEF HandlerState, Moved
        <5>2. s.open # "nothing" => h[u].open # "nothing"
          BY <5>1 DEF Moved
        <5>3. h'[u] = s
          BY <3>1, <4>3
        <5> HIDE DEF s
        <5> QED
          BY <4>1, <5>1, <5>2, <5>3 DEF Settled
      <4> QED
        BY <4>2, <4>3
    <3>3. h' \in [Handler -> HandlerState]
      <4>1. \A u \in Handler : h'[u] \in HandlerState
        BY <3>2 DEF Settled
      <4> DEFINE Moves(u) == IF u = t THEN [h[u] EXCEPT !.pc = After("rename")]
                            ELSE [h[u] EXCEPT !.open = Moved(@)]
      <4>2. h' = [u \in Handler |-> Moves(u)]
        BY <3>1
      <4> HIDE DEF Moves
      <4> QED
        BY <4>1, <4>2
    <3>4. tmp' \in Content /\ artifact' \in Content
      BY <1>1, <1>3, <3>1
    <3> QED
      BY <2>1, <3>2, <3>3, <3>4 DEF CustodyTypeInv, Settled
  <2> QED
    BY <2>2, <2>3
<1>11. ASSUME NEW f \in Names, Truncate(t, f) PROVE CustodyTypeInv'
  <2> DEFINE s == [h[t] EXCEPT !.cut = TRUE]
  <2>1. h[t].pc = f /\ file' = [file EXCEPT ![f] = Torn]
        /\ UNCHANGED <<kind, tmp, artifact, pinFile, acked, tore, agent>>
    BY <1>11 DEF Truncate, At
  <2>2. changed' \in BOOLEAN /\ missed' \in BOOLEAN
    BY <1>1, <1>11 DEF Truncate
  <2>3. h' = [h EXCEPT ![t] = s]
    BY <1>11 DEF Truncate
  <2>4. s \in HandlerState /\ s.pc = f /\ s.open = h[t].open
    BY <1>2, <2>1 DEF HandlerState
  <2>5. h[t].open = "nothing"
    BY <1>2, <2>1 DEF Names
  <2>6. file' \in [Names -> Content]
    BY <1>1, <1>3, <2>1
  <2> HIDE DEF s
  <2>7. Settled(s)
    BY <2>4, <2>5 DEF Settled
  <2> QED
    BY <1>1, <2>1, <2>2, <2>3, <2>6, <2>7, CustodyTypeByHandler
<1>12. ASSUME NEW f \in Names, Fill(t, f) PROVE CustodyTypeInv'
  <2> DEFINE s == [h[t] EXCEPT !.pc = After(f), !.cut = FALSE]
  <2>1. h[t].pc = f /\ file' = [file EXCEPT ![f] = h[t].env]
        /\ UNCHANGED <<kind, tmp, artifact, pinFile, tore, agent>>
    BY <1>12 DEF Fill, At
  <2>2. changed' \in BOOLEAN /\ missed' \in BOOLEAN
    BY <1>1, <1>12 DEF Fill
  <2>3. acked' \in Nat
    BY <1>1, <1>2, <1>12 DEF Fill
  <2>4. file' \in [Names -> Content]
    BY <1>1, <1>2, <2>1
  <2>5. Finish(t) \/ h' = [h EXCEPT ![t] = s]
    BY <1>12 DEF Fill
  <2>6. s \in HandlerState /\ s.open = h[t].open /\ s.cut = FALSE
    BY <1>2, <1>4 DEF HandlerState
  <2>7. h[t].open = "nothing"
    BY <1>2, <2>1 DEF Names
  <2> HIDE DEF s
  <2>8. Settled(s)
    BY <2>6, <2>7 DEF Settled
  <2>9. \E r : Settled(r) /\ h' = [h EXCEPT ![t] = r]
    BY <1>3, <2>5, <2>8 DEF Finish
  <2> QED
    BY <1>1, <2>1, <2>2, <2>3, <2>4, <2>9, CustodyTypeByHandler
<1> QED
  BY <1>5, <1>6, <1>7, <1>8, <1>9, <1>10, <1>11, <1>12 DEF HandlerStep, Names

LEMMA CustodyTypeStays == CustodyTypeInv /\ [Next]_vars => CustodyTypeInv'
<1> SUFFICES ASSUME CustodyTypeInv, [Next]_vars PROVE CustodyTypeInv'
  OBVIOUS
<1>1. ASSUME NEW t \in Handler, Receive(t) \/ HandlerStep(t) PROVE CustodyTypeInv'
  BY <1>1, CustodyTypeAfterHandler
<1>2. CASE Crash
  <2>1. /\ h' = [t \in Handler |-> Waiting] /\ tore' \in BOOLEAN
        /\ UNCHANGED <<kind, tmp, artifact, pinFile, file, acked, agent, changed, missed>>
    BY <1>2 DEF Crash, CustodyTypeInv, disk, watcher
  <2>2. Waiting \in HandlerState /\ Waiting.open = "nothing" /\ Waiting.cut = FALSE
    BY AbsentType DEF Waiting
  <2> QED
    BY <2>1, <2>2 DEF CustodyTypeInv
<1> DEFINE Agents == [pc: {"stopped", "loaded", "watching", "reading", "applying"},
                      applied: Envelope, loaded: Envelope]
<1>3. agent \in Agents /\ Absent \in Envelope /\ (file["envelope"].whole => file["envelope"] \in Envelope)
  BY AbsentType DEF CustodyTypeInv, Names, Envelope
<1>4. ASSUME agent' \in Agents, changed' \in BOOLEAN, missed' \in BOOLEAN,
             UNCHANGED <<kind, disk, h, acked, tore>>
      PROVE  CustodyTypeInv'
  BY <1>4 DEF CustodyTypeInv, disk
<1>5. changed \in BOOLEAN /\ missed \in BOOLEAN
  BY DEF CustodyTypeInv
<1>6. CASE AgentStart
  BY <1>3, <1>4, <1>5, <1>6 DEF AgentStart
<1>7. CASE AgentWatch
  BY <1>3, <1>4, <1>5, <1>7 DEF AgentWatch
<1>8. CASE AgentPoll
  BY <1>3, <1>4, <1>5, <1>8 DEF AgentPoll
<1>9. CASE AgentRead
  BY <1>3, <1>4, <1>5, <1>9 DEF AgentRead
<1>10. CASE AgentApply
  BY <1>3, <1>4, <1>5, <1>10 DEF AgentApply
<1>11. CASE UNCHANGED vars
  BY <1>11 DEF CustodyTypeInv, vars
<1> QED
  BY <1>1, <1>2, <1>6, <1>7, <1>8, <1>9, <1>10, <1>11 DEF Next, AgentStep

\* Whatever connections deliver at the same time and wherever the daemon dies, the files
\* are absent, torn or an envelope, a handler has the temporary file open only while it
\* fills it, and the agent has applied a whole envelope.
\* (apply_envelope, persist; spawn_managed_watch)
THEOREM CustodyIsTyped == Spec => []TypeOK
<1>1. CustodyTypeInv => TypeOK
  <2> SUFFICES ASSUME CustodyTypeInv PROVE TypeOK
    OBVIOUS
  <2>1. kind \in Kinds /\ {tmp, artifact, pinFile} \subseteq Content /\ file \in [Names -> Content]
        /\ acked \in Nat /\ tore \in BOOLEAN /\ changed \in BOOLEAN /\ missed \in BOOLEAN
    BY DEF CustodyTypeInv
  <2>2. ASSUME NEW t \in Handler
        PROVE  /\ h[t].pc \in {"waiting", "generation", "pin", "open", "fill", "rename",
                               "envelope", "epoch", "authored"}
               /\ h[t].env \in Envelope /\ h[t].open \in {"nothing", "tmp", "artifact"}
               /\ h[t].cut \in BOOLEAN
               /\ h[t].open # "nothing" => At(t, "fill")
               /\ h[t].cut => h[t].pc \in DOMAIN file
    <3>1. h[t] \in HandlerState /\ (h[t].open # "nothing" => h[t].pc = "fill")
          /\ (h[t].cut => h[t].pc \in Names) /\ DOMAIN file = Names
      BY <2>1 DEF CustodyTypeInv
    <3> QED
      BY <3>1 DEF HandlerState, Early, Names, At
  <2>3. agent.pc \in {"stopped", "loaded", "watching", "reading", "applying"}
        /\ {agent.applied, agent.loaded} \subseteq Envelope
    BY DEF CustodyTypeInv
  <2> QED
    BY <2>1, <2>2, <2>3 DEF TypeOK, Names
<1> QED
  BY <1>1, CustodyTypeAtFirst, CustodyTypeStays, PTL DEF Spec

-----------------------------------------------------------------------------
(* Verification *)

\* The certificates an envelope brings, and where a walk over them may stand.
Brought(leaf, chain) == {leaf} \union {chain[i] : i \in DOMAIN chain}

Stands(leaf, chain) ==
  [cert: Brought(leaf, chain), is: {"open", "accepted", "refused"}]

LEMMA IssuerIsThere ==
  ASSUME NEW c, NEW certs \in Seq(Certificate), IssuersIn(c, certs) # {}
  PROVE  \E i \in DOMAIN certs : IssuerIn(c, certs) = certs[i]
<1> DEFINE I == IssuersIn(c, certs)
<1>1. I \in SUBSET Nat /\ I # {} /\ I \subseteq DOMAIN certs
  BY DEF IssuersIn
<1> HIDE DEF I
<1>2. \E i \in I : \A j \in I : i <= j
  BY <1>1, Least
<1> DEFINE i == CHOOSE i \in I : \A j \in I : i <= j
<1>3. i \in I
  BY <1>2
<1>4. IssuerIn(c, certs) = certs[i]
  BY DEF IssuerIn, I
<1> HIDE DEF i
<1> QED
  BY <1>1, <1>3, <1>4

\* What one link does: it needs the certificate in date; a root accepts it, and an
\* issuer that is a CA takes its place.
LEMMA LinkDoes ==
  ASSUME NEW leaf \in Certificate, NEW chain \in Seq(Certificate),
         NEW at \in Stands(leaf, chain)
  PROVE  LET next == Link(at, chain) IN
         /\ next \in Stands(leaf, chain)
         /\ next.is \in {"open", "accepted"} /\ at.is = "open" => InDate(at.cert)
         /\ next.is = "open" /\ at.is = "open" =>
              Cert[next.cert].ca /\ Cert[at.cert].signer = next.cert
         /\ next.is = "accepted" /\ at.is = "open" =>
              \E i \in DOMAIN PinnedRoots :
                InDate(PinnedRoots[i]) /\ Cert[at.cert].signer = PinnedRoots[i]
<1> DEFINE next == Link(at, chain)
<1>1. /\ at.cert \in Brought(leaf, chain) /\ at.is \in {"open", "accepted", "refused"}
      /\ at = [cert |-> at.cert, is |-> at.is]
  BY DEF Stands
<1>2. \A s : /\ [at EXCEPT !.is = s].is = s /\ [at EXCEPT !.is = s].cert = at.cert
             /\ s \in {"open", "accepted", "refused"} => [at EXCEPT !.is = s] \in Stands(leaf, chain)
  BY DEF Stands
<1>3. CASE ~InDate(at.cert)
  <2>1. next = [at EXCEPT !.is = "refused"]
    BY <1>3 DEF Link
  <2> QED
    BY <1>2, <2>1
<1>4. CASE InDate(at.cert) /\ IssuersIn(at.cert, PinnedRoots) # {}
  <2> DEFINE root == IssuerIn(at.cert, PinnedRoots)
             is   == IF InDate(root) /\ SignedBy(at.cert, root) THEN "accepted" ELSE "refused"
  <2>1. next = [at EXCEPT !.is = is]
    BY <1>4 DEF Link
  <2>2. PICK i \in DOMAIN PinnedRoots : root = PinnedRoots[i]
    BY <1>4, VerificationAssumption, IssuerIsThere
  <2>3. is = "accepted" => InDate(PinnedRoots[i]) /\ Cert[at.cert].signer = PinnedRoots[i]
    BY <2>2 DEF SignedBy
  <2>4. is \in {"accepted", "refused"}
    OBVIOUS
  <2> HIDE DEF is, root
  <2> QED
    BY <1>2, <1>4, <2>1, <2>3, <2>4
<1>5. CASE InDate(at.cert) /\ IssuersIn(at.cert, PinnedRoots) = {} /\ IssuersIn(at.cert, chain) # {}
  <2> DEFINE issuer == IssuerIn(at.cert, chain)
             is     == IF MayIssue(issuer) /\ SignedBy(at.cert, issuer) THEN "open" ELSE "refused"
  <2>1. next = [cert |-> issuer, is |-> is]
    BY <1>5 DEF Link
  <2>2. issuer \in Brought(leaf, chain)
    BY <1>5, IssuerIsThere DEF Brought
  <2>3. is = "open" => Cert[issuer].ca /\ Cert[at.cert].signer = issuer
    BY DEF MayIssue, SignedBy
  <2>4. is \in {"open", "refused"}
    OBVIOUS
  <2> HIDE DEF is, issuer
  <2> QED
    BY <1>5, <2>1, <2>2, <2>3, <2>4 DEF Stands
<1>6. CASE InDate(at.cert) /\ IssuersIn(at.cert, PinnedRoots) = {} /\ IssuersIn(at.cert, chain) = {}
  <2>1. next = [at EXCEPT !.is = "refused"]
    BY <1>6 DEF Link
  <2> QED
    BY <1>2, <2>1
<1> QED
  BY <1>3, <1>4, <1>5, <1>6

\* A walk from the leaf, that goes on while it is open.
Walks(f, leaf, chain) ==
  /\ f \in [0..MaxDepth -> Stands(leaf, chain)]
  /\ f[0] = [cert |-> leaf, is |-> "open"]
  /\ \A d \in 1..MaxDepth : f[d] = IF f[d - 1].is = "open" THEN Link(f[d - 1], chain) ELSE f[d - 1]

LEMMA ChainIsWalked ==
  ASSUME NEW leaf \in Certificate, NEW chain \in Seq(Certificate), VerifyChain(leaf, chain)
  PROVE  \E f : Walks(f, leaf, chain) /\ f[MaxDepth].is = "accepted"
<1> DEFINE A == Stands(leaf, chain)
           base == [cert |-> leaf, is |-> "open"]
           Onward(at) == IF at.is = "open" THEN Link(at, chain) ELSE at
           onward == [p \in A \X (1..MaxDepth) |-> Onward(p[1])]
           Is(walk) == walk = [d \in 0..MaxDepth |->
                         IF d = 0 THEN base
                         ELSE IF walk[d - 1].is = "open" THEN Link(walk[d - 1], chain)
                         ELSE walk[d - 1]]
           it == CHOOSE walk : Is(walk)
<1>1. it[MaxDepth].is = "accepted"
  BY Zenon DEF VerifyChain
<1>2. MaxDepth \in Nat /\ base \in A
  BY DEF MaxDepth, Stands, Brought
<1>3. ASSUME NEW at \in A PROVE Onward(at) \in A
  BY <1>3, LinkDoes
<1> HIDE DEF A, base
<1>4. onward \in [A \X (1..MaxDepth) -> A]
  <2> HIDE DEF Onward
  <2> QED
    BY <1>3
<1>5. \A a \in A, d \in 1..MaxDepth : onward[<<a, d>>] = Onward(a)
  OBVIOUS
<1> HIDE DEF onward
<1>6. PICK f \in [0..MaxDepth -> A] :
        f[0] = base /\ \A d \in 1..MaxDepth : f[d] = onward[<<f[d - 1], d>>]
  <2>1. PICK last : WalksTo(last, MaxDepth, A, base, onward)
    BY <1>2, <1>4, Walk
  <2> QED
    BY <2>1 DEF WalksTo
<1>7. ASSUME NEW d \in 1..MaxDepth PROVE f[d] = Onward(f[d - 1])
  <2>1. d - 1 \in 0..MaxDepth
    BY <1>2
  <2> QED
    BY <1>5, <1>6, <2>1
<1>8. Is(f)
  <2> DEFINE g == [d \in 0..MaxDepth |-> IF d = 0 THEN base ELSE Onward(f[d - 1])]
  <2>1. ASSUME NEW d \in 0..MaxDepth PROVE f[d] = g[d]
    <3> HIDE DEF Onward
    <3>1. CASE d = 0
      BY <1>6, <3>1
    <3>2. CASE d # 0
      <4>1. d \in 1..MaxDepth
        BY <1>2, <3>2
      <4> QED
        BY <1>7, <3>2, <4>1
    <3> QED
      BY <3>1, <3>2
  <2>2. f = g
    <3> HIDE DEF Onward
    <3> QED
      BY <1>6, <2>1
  <2> QED
    BY <2>2
<1>9. Is(it)
  BY <1>8, Zenon
<1> HIDE DEF it
<1>10. /\ it[0] = base
       /\ \A d \in 1..MaxDepth :
            it[d] = IF it[d - 1].is = "open" THEN Link(it[d - 1], chain) ELSE it[d - 1]
  BY <1>2, <1>9
<1>11. \A d \in 1..MaxDepth : it[d - 1] = f[d - 1] => it[d] = f[d]
  BY <1>7, <1>10
<1>12. it[MaxDepth] = f[MaxDepth]
  <2>1. it[0] = f[0]
    BY <1>6, <1>10
  <2> QED
    BY <1>2, <1>11, <2>1, OneEnd
<1>13. Walks(f, leaf, chain)
  BY <1>6, <1>7 DEF Walks, A, base
<1> QED
  BY <1>1, <1>12, <1>13

\* A walk that is accepted was open until a root accepted it.
LEMMA OpenUntilAccepted ==
  ASSUME NEW leaf, NEW chain, NEW f, Walks(f, leaf, chain), f[MaxDepth].is = "accepted"
  PROVE  \E d \in 1..MaxDepth : f[d].is = "accepted" /\ \A j \in 0..(d - 1) : f[j].is = "open"
<1> DEFINE T == {d \in 0..MaxDepth : f[d].is = "accepted"}
<1>1. MaxDepth \in Nat /\ T \in SUBSET Nat /\ T # {}
  BY DEF MaxDepth
<1>2. PICK d \in T : \A j \in T : d <= j
  <2> HIDE DEF T
  <2> QED
    BY <1>1, Least
<1>3. d \in 0..MaxDepth /\ d # 0 /\ f[d].is = "accepted"
  BY DEF Walks
<1>4. d \in 1..MaxDepth /\ d \in Nat
  BY <1>1, <1>3
<1> DEFINE P == {i \in 0..(d - 1) : f[(d - 1) - i].is = "open"}
<1>5. ASSUME NEW j \in 1..d, f[j].is \in {"open", "accepted"}
      PROVE  f[j - 1].is = "open"
  <2>1. j \in 1..MaxDepth /\ j - 1 \in 0..MaxDepth /\ ~(d <= j - 1)
    BY <1>1, <1>4
  <2>2. f[j - 1].is # "accepted"
    BY <1>2, <2>1
  <2>3. f[j - 1].is # "open" => f[j] = f[j - 1]
    BY <2>1 DEF Walks
  <2>4. f[j - 1].is \in {"open", "accepted", "refused"}
    BY <2>1 DEF Walks, Stands
  <2> QED
    BY <1>5, <2>2, <2>3, <2>4
<1>6. 0 \in P
  BY <1>3, <1>4, <1>5
<1>7. ASSUME NEW i \in 1..(d - 1), i - 1 \in P PROVE i \in P
  <2>1. /\ (d - 1) - (i - 1) = ((d - 1) - i) + 1 /\ d - i \in 1..d /\ i \in 0..(d - 1)
        /\ (d - i) - 1 = (d - 1) - i /\ (d - 1) - (i - 1) = d - i
    BY <1>4
  <2>2. f[d - i].is = "open"
    BY <1>7, <2>1
  <2>3. f[(d - i) - 1].is = "open"
    BY <1>5, <2>1, <2>2
  <2> QED
    BY <2>1, <2>3
<1>8. P \in SUBSET Nat /\ d - 1 \in Nat
  BY <1>4
<1> HIDE DEF P
<1>9. \A i \in 0..(d - 1) : i \in P
  BY <1>6, <1>7, <1>8, InductionUpTo
<1>10. ASSUME NEW j \in 0..(d - 1) PROVE f[j].is = "open"
  <2>1. (d - 1) - j \in 0..(d - 1) /\ (d - 1) - ((d - 1) - j) = j
    BY <1>4
  <2>2. (d - 1) - j \in P
    BY <1>9, <2>1
  <2> QED
    BY <2>1, <2>2 DEF P
<1> QED
  BY <1>3, <1>4, <1>10

\* The certificates on the way, and the root, are the path that the reference asks for.
LEMMA ChainIsAnchored ==
  ASSUME NEW leaf \in Certificate, NEW chain \in Seq(Certificate), VerifyChain(leaf, chain),
         now \in Nat
  PROVE  Anchored(leaf, chain, now)
<1>1. PICK f : Walks(f, leaf, chain) /\ f[MaxDepth].is = "accepted"
  BY ChainIsWalked
<1>2. PICK d \in 1..MaxDepth : f[d].is = "accepted" /\ \A j \in 0..(d - 1) : f[j].is = "open"
  BY <1>1, OpenUntilAccepted
<1>3. d \in Nat /\ MaxDepth \in Nat /\ d >= 1
  BY DEF MaxDepth
<1>4. ASSUME NEW j \in 0..(d - 1)
      PROVE  f[j] \in Stands(leaf, chain) /\ f[j].is = "open" /\ f[j + 1] = Link(f[j], chain)
  <2>1. j + 1 \in 1..MaxDepth /\ (j + 1) - 1 = j /\ j \in 0..MaxDepth
    BY <1>3
  <2> QED
    BY <1>1, <1>2, <2>1 DEF Walks
<1>5. ASSUME NEW j \in 0..(d - 1)
      PROVE  /\ f[j].cert \in Brought(leaf, chain) /\ InDate(f[j].cert)
             /\ j + 1 < d => Cert[f[j + 1].cert].ca /\ Cert[f[j].cert].signer = f[j + 1].cert
  <2>1. f[j].cert \in Brought(leaf, chain)
    BY <1>4 DEF Stands
  <2>2. /\ j + 1 = d => f[j + 1].is = "accepted"
        /\ j + 1 < d => f[j + 1].is = "open"
        /\ j + 1 = d \/ j + 1 < d
    BY <1>2, <1>3
  <2>3. InDate(f[j].cert)
    BY <1>4, <2>2, LinkDoes
  <2>4. j + 1 < d => Cert[f[j + 1].cert].ca /\ Cert[f[j].cert].signer = f[j + 1].cert
    BY <1>4, <2>2, LinkDoes
  <2> QED
    BY <2>1, <2>3, <2>4
<1>6. PICK r \in DOMAIN PinnedRoots :
        InDate(PinnedRoots[r]) /\ Cert[f[d - 1].cert].signer = PinnedRoots[r]
  <2>1. d - 1 \in 0..(d - 1) /\ (d - 1) + 1 = d
    BY <1>3
  <2> QED
    BY <1>2, <1>4, <2>1, LinkDoes
<1> DEFINE certs == {leaf} \union {chain[i] : i \in DOMAIN chain} \union
                    {PinnedRoots[i] : i \in DOMAIN PinnedRoots}
           n == d + 1
           path == [k \in 1..n |-> IF k = n THEN PinnedRoots[r] ELSE f[k - 1].cert]
<1>7. n \in 2..(MaxDepth + 1) /\ 1 \in 1..n /\ n \in 1..n /\ 1 # n
  BY <1>3
<1>8. \A k \in 1..(n - 1) : k - 1 \in 0..(d - 1) /\ k \in 1..n /\ k # n
  BY <1>3
<1>9. path[n] = PinnedRoots[r] /\ \A k \in 1..(n - 1) : path[k] = f[k - 1].cert
  BY <1>7, <1>8
<1>10. path[1] = leaf
  BY <1>1, <1>7 DEF Walks
<1>11. path \in [1..n -> certs]
  <2>1. ASSUME NEW k \in 1..n PROVE (IF k = n THEN PinnedRoots[r] ELSE f[k - 1].cert) \in certs
    <3>1. CASE k = n
      BY <3>1
    <3>2. CASE k # n
      <4>1. k - 1 \in 0..(d - 1)
        BY <1>3, <3>2
      <4> QED
        BY <1>5, <3>2, <4>1 DEF Brought
    <3> QED
      BY <3>1, <3>2
  <2> QED
    BY <2>1
<1>12. ASSUME NEW k \in 1..n PROVE Cert[path[k]].from <= now /\ now <= Cert[path[k]].until
  <2>1. k = n \/ k \in 1..(n - 1)
    BY <1>3
  <2>2. InDate(path[k])
    <3>1. CASE k = n
      BY <1>6, <1>9, <3>1
    <3>2. CASE k \in 1..(n - 1)
      BY <1>5, <1>8, <1>9, <3>2
    <3> QED
      BY <2>1, <3>1, <3>2
  <2> QED
    BY <2>2 DEF InDate
<1> HIDE DEF path
<1>13. ASSUME NEW k \in 1..(n - 1)
       PROVE  Cert[path[k]].signer = path[k + 1]
  <2>1. CASE k = n - 1
    <3>1. k + 1 = n /\ k - 1 = d - 1
      BY <1>3, <2>1
    <3> QED
      BY <1>6, <1>9, <3>1
  <2>2. CASE k # n - 1
    <3>1. k + 1 \in 1..(n - 1) /\ (k + 1) - 1 = (k - 1) + 1 /\ (k - 1) + 1 < d
      BY <1>3, <2>2
    <3>2. path[k] = f[k - 1].cert /\ path[k + 1] = f[(k - 1) + 1].cert
      BY <1>9, <3>1
    <3> QED
      BY <1>5, <1>8, <3>1, <3>2
  <2> QED
    BY <2>1, <2>2
<1>14. ASSUME NEW k \in 2..(n - 1) PROVE Cert[path[k]].ca
  <2>1. k \in 1..(n - 1) /\ k - 2 \in 0..(d - 1) /\ (k - 2) + 1 = k - 1 /\ (k - 2) + 1 < d
    BY <1>3
  <2>2. path[k] = f[(k - 2) + 1].cert
    BY <1>9, <2>1
  <2> QED
    BY <1>5, <2>1, <2>2
<1>15. \E i \in DOMAIN PinnedRoots : path[n] = PinnedRoots[i]
  BY <1>9
<1> HIDE DEF n, certs
<1>16. \E m \in 2..(MaxDepth + 1) : \E way \in [1..m -> certs] :
         /\ way[1] = leaf /\ \E i \in DOMAIN PinnedRoots : way[m] = PinnedRoots[i]
         /\ \A k \in 1..m : Cert[way[k]].from <= now /\ now <= Cert[way[k]].until
         /\ \A k \in 1..(m - 1) : Cert[way[k]].signer = way[k + 1]
         /\ \A k \in 2..(m - 1) : Cert[way[k]].ca
  BY <1>7, <1>10, <1>11, <1>12, <1>13, <1>14, <1>15
<1> QED
  BY <1>16 DEF Anchored, certs

-----------------------------------------------------------------------------
(* The policy *)

\* What it takes to be a policy of some day.
Genuine(e, day) ==
  /\ Anchored(Doc[e].leaf, Doc[e].chain, day)
  /\ Cert[Doc[e].leaf].codeSigning
  /\ Doc[e].signed /\ Doc[e].ours /\ Doc[e].bound
  /\ AuthorPinned => Doc[e].authored

\* The daemon's high-water is the largest epoch that ever was in custody.
VerifyInv ==
  /\ VerifyTypeOK
  /\ highEpoch = topEpoch
  /\ policy # Nothing => Genuine(policy, since)
  /\ custody # Nothing => Doc[custody].epoch \in {NoEpoch, topEpoch}

LEMMA VerifiedIsGenuine ==
  ASSUME NEW e \in Document, NEW lastEpoch, Verifies(e, lastEpoch), now \in Nat
  PROVE  Genuine(e, now)
<1>1. Doc[e].leaf \in Certificate /\ Doc[e].chain \in Seq(Certificate)
  BY VerificationAssumption
<1>2. Anchored(Doc[e].leaf, Doc[e].chain, now)
  BY <1>1, ChainIsAnchored DEF Verifies
<1> QED
  BY <1>2 DEF Verifies, Genuine

\* Whoever follows an envelope takes it as it is today, or keeps what it had.
LEMMA FollowIsGenuine ==
  ASSUME VerifyInv, NEW e \in Document \union {Nothing}, Follow(e)
  PROVE  /\ policy' \in Document \union {Nothing} /\ since' \in 0..now
         /\ policy' # Nothing => Genuine(policy', since')
<1>1. now \in Nat /\ now \in 0..now /\ since \in 0..now
  BY VerificationAssumption DEF VerifyInv, VerifyTypeOK
<1>2. CASE e # Nothing /\ Verifies(e, 0)
  <2>1. e \in Document /\ policy' = e /\ since' = now
    BY <1>2 DEF Follow
  <2>2. Genuine(e, now)
    BY <1>1, <1>2, <2>1, VerifiedIsGenuine
  <2> QED
    BY <1>1, <2>1, <2>2
<1>3. CASE ~(e # Nothing /\ Verifies(e, 0))
  <2>1. policy' = policy /\ since' = since
    BY <1>3 DEF Follow
  <2> QED
    BY <1>1, <2>1 DEF VerifyInv, VerifyTypeOK
<1> QED
  BY <1>2, <1>3

LEMMA VerifyAtFirst == VerifyInit => VerifyInv
<1>1. 0 \in 0..Horizon /\ 0 \in 0..0 /\ 0 \in Nat
  BY VerificationAssumption
<1> QED
  BY <1>1 DEF VerifyInit, VerifyInv, VerifyTypeOK

LEMMA VerifyStays == VerifyInv /\ [VerifyNext]_verifyVars => VerifyInv'
<1> SUFFICES ASSUME VerifyInv, [VerifyNext]_verifyVars PROVE VerifyInv'
  OBVIOUS
<1>1. CASE UNCHANGED verifyVars
  BY <1>1 DEF verifyVars, VerifyInv, VerifyTypeOK, Genuine
<1>2. CASE NextDay
  <2>1. now' \in 0..Horizon /\ since' \in 0..now'
    BY <1>2, VerificationAssumption DEF NextDay, VerifyInv, VerifyTypeOK
  <2> QED
    BY <1>2, <2>1 DEF NextDay, VerifyInv, VerifyTypeOK, Genuine
<1>3. CASE StartAgent
  <2>1. custody \in Document \union {Nothing} /\ now \in 0..now
    BY VerificationAssumption DEF VerifyInv, VerifyTypeOK
  <2>2. /\ policy' \in Document \union {Nothing} /\ since' \in 0..now
        /\ policy' # Nothing => Genuine(policy', since')
    <3>1. CASE Follow(custody)
      BY <2>1, <3>1, FollowIsGenuine
    <3>2. CASE policy' = Nothing /\ since' = now
      BY <2>1, <3>2
    <3> QED
      BY <1>3, <3>1, <3>2 DEF StartAgent
  <2> QED
    BY <1>3, <2>1, <2>2 DEF StartAgent, VerifyInv, VerifyTypeOK
<1>4. CASE WatchEnvelope
  <2>1. custody \in Document \union {Nothing}
    BY DEF VerifyInv, VerifyTypeOK
  <2>2. /\ policy' \in Document \union {Nothing} /\ since' \in 0..now
        /\ policy' # Nothing => Genuine(policy', since')
    BY <1>4, <2>1, FollowIsGenuine DEF WatchEnvelope
  <2> QED
    BY <1>4, <2>1, <2>2 DEF WatchEnvelope, VerifyInv, VerifyTypeOK
<1>5. CASE StopAgent
  BY <1>5 DEF StopAgent, VerifyInv, VerifyTypeOK, Genuine
<1>6. ASSUME NEW e \in Document, Offer(e) PROVE VerifyInv'
  <2>1. Doc[e].epoch \in Nat \union {NoEpoch} /\ NoEpoch \notin Nat
    BY VerificationAssumption
  <2>2. highEpoch \in Nat /\ topEpoch = highEpoch
    BY DEF VerifyInv, VerifyTypeOK
  <2>3. Doc[e].epoch # NoEpoch => Doc[e].epoch >= highEpoch
    BY <1>6 DEF Offer, Verifies
  <2>4. /\ highEpoch' = Larger(Doc[e].epoch, highEpoch) /\ topEpoch' = highEpoch'
        /\ custody' = e /\ UNCHANGED <<now, agentUp, seen, policy, since>>
    BY <1>6, <2>2 DEF Offer
  <2>5. highEpoch' \in Nat /\ Doc[e].epoch \in {NoEpoch, highEpoch'}
    BY <2>1, <2>2, <2>3, <2>4 DEF Larger
  <2> QED
    BY <2>2, <2>4, <2>5 DEF VerifyInv, VerifyTypeOK, Genuine
<1> QED
  BY <1>1, <1>2, <1>3, <1>4, <1>5, <1>6 DEF VerifyNext

\* For any certificates, pinned roots and envelopes: a policy in force was, on the day
\* the agent took it, signed for this app by a code signing key that CAs link to a pinned
\* root, and by the pinned author; and custody holds the largest epoch that ever was, or
\* none.  (envelope.rs: anchors-only path validation; rollback refusal)
THEOREM PolicyIsGenuineAlways == VerifySpec => []PolicyIsGenuine
<1>1. VerifyInv => PolicyIsGenuine
  BY DEF VerifyInv, PolicyIsGenuine, Genuine
<1> QED
  BY <1>1, VerifyAtFirst, VerifyStays, PTL DEF VerifySpec

\* The agent took its policy no later than now, epochs are numbers, and the daemon and
\* the agent hold documents or nothing.  (apply_envelope, load_managed)
THEOREM VerifyIsTyped == VerifySpec => []VerifyTypeOK
<1>1. VerifyInv => VerifyTypeOK
  BY DEF VerifyInv
<1> QED
  BY <1>1, VerifyAtFirst, VerifyStays, PTL DEF VerifySpec

-----------------------------------------------------------------------------
(* Settings *)

Effective == [plain: [Field -> Value], triggers: [Class -> BOOLEAN], sets: Seq(TextSet)]

Config == [name: Name, patch: Patch]

LEMMA PatchedType ==
  ASSUME NEW eff \in Effective, NEW p \in Patch
  PROVE  /\ Patched(eff, p) \in Effective
         /\ \A f \in Field : Patched(eff, p).plain[f] = Or(p.plain[f], eff.plain[f])
         /\ \A c \in Class : Patched(eff, p).triggers[c] = Or(p.triggers[c], eff.triggers[c])
         /\ Patched(eff, p).sets = Or(p.sets, eff.sets)
<1> DEFINE plain == [f \in Field |-> Or(p.plain[f], eff.plain[f])]
           triggers == [c \in Class |-> Or(p.triggers[c], eff.triggers[c])]
           sets == Or(p.sets, eff.sets)
<1>1. /\ eff.plain \in [Field -> Value] /\ eff.triggers \in [Class -> BOOLEAN]
      /\ eff.sets \in Seq(TextSet)
      /\ p.plain \in [Field -> Value \union {Unset}]
      /\ p.triggers \in [Class -> BOOLEAN \union {Unset}]
      /\ p.sets \in Seq(TextSet) \union {Unset}
  BY DEF Effective, Patch
<1>2. \A f \in Field : Or(p.plain[f], eff.plain[f]) \in Value
  BY <1>1 DEF Or
<1>3. \A c \in Class : Or(p.triggers[c], eff.triggers[c]) \in BOOLEAN
  BY <1>1 DEF Or
<1>4. sets \in Seq(TextSet)
  BY <1>1 DEF Or
<1>5. plain \in [Field -> Value] /\ triggers \in [Class -> BOOLEAN]
  BY <1>2, <1>3
<1>6. Patched(eff, p) = [plain |-> plain, triggers |-> triggers, sets |-> sets]
  BY DEF Patched
<1>7. /\ \A f \in Field : plain[f] = Or(p.plain[f], eff.plain[f])
      /\ \A c \in Class : triggers[c] = Or(p.triggers[c], eff.triggers[c])
  OBVIOUS
<1>8. sets = Or(p.sets, eff.sets)
  OBVIOUS
<1> HIDE DEF plain, triggers, sets
<1>9. Patched(eff, p) \in Effective
  BY <1>4, <1>5, <1>6 DEF Effective
<1>10. Patched(eff, p).plain = plain /\ Patched(eff, p).triggers = triggers /\ Patched(eff, p).sets = sets
  BY <1>6
<1> QED
  BY <1>7, <1>8, <1>9, <1>10, Zenon

LEMMA DefaultsType == Defaults \in Effective
<1>1. [c \in Class |-> FALSE] \in [Class -> BOOLEAN] /\ <<>> \in Seq(TextSet)
  OBVIOUS
<1> QED
  BY <1>1, SettingsAssumption DEF Defaults, Effective

Merged(patches) == FoldLeft(Patched, Defaults, patches)

\* A walk along patches that applies one after the other.
Merges(f, s) ==
  f[0] = Defaults /\ \A n \in 1..Len(s) : f[n] = Patched(f[n - 1], s[n])

LEMMA MergeWalks ==
  ASSUME NEW s \in Seq(Patch)
  PROVE  \E f \in [0..Len(s) -> Effective] : Merges(f, s) /\ f[Len(s)] = Merged(s)
<1> DEFINE Is(iter) == iter = [t \in SUBSET (DOMAIN s) |->
                         IF t = {} THEN Defaults ELSE Patched(iter[t \ {Max(t)}], s[Max(t)])]
           merge == [p \in Effective \X (1..Len(s)) |-> Patched(p[1], s[p[2]])]
<1>1. Merged(s) = (CHOOSE iter : Is(iter))[DOMAIN s]
  BY DEF Merged, FoldLeft, MapThenFoldSet
<1>2. /\ Len(s) \in Nat /\ DOMAIN s = 1..Len(s) /\ \A i \in 1..Len(s) : s[i] \in Patch
  OBVIOUS
<1>20. Defaults \in Effective
  BY DefaultsType
<1>3. merge \in [Effective \X (1..Len(s)) -> Effective]
  <2>1. ASSUME NEW a \in Effective, NEW i \in 1..Len(s) PROVE Patched(a, s[i]) \in Effective
    BY <1>2, PatchedType
  <2> QED
    BY <2>1
<1>4. \A a \in Effective, i \in 1..Len(s) : merge[<<a, i>>] = Patched(a, s[i])
  OBVIOUS
<1> HIDE DEF merge
<1>5. \E iter : Is(iter)
  <2>1. PICK iter : Folds(iter, Len(s), Effective, Defaults, merge)
    BY <1>2, <1>20, <1>3, FoldOf
  <2>2. ASSUME NEW t \in SUBSET (1..Len(s))
        PROVE  iter[t] = IF t = {} THEN Defaults ELSE Patched(iter[t \ {Max(t)}], s[Max(t)])
    <3>1. CASE t = {}
      BY <2>1, <3>1 DEF Folds
    <3>2. CASE t # {}
      <4>1. Max(t) \in t /\ iter[t] = merge[<<iter[t \ {Max(t)}], Max(t)>>]
        BY <2>1, <3>2 DEF Folds
      <4>2. t \ {Max(t)} \in SUBSET (1..Len(s)) /\ Max(t) \in 1..Len(s)
        BY <4>1
      <4>3. iter[t \ {Max(t)}] \in Effective
        BY <2>1, <4>2 DEF Folds
      <4> QED
        BY <1>4, <3>2, <4>1, <4>2, <4>3
    <3> QED
      BY <3>1, <3>2
  <2>3. Is(iter)
    BY <1>2, <2>1, <2>2 DEF Folds
  <2> QED
    BY <2>3
<1> DEFINE it == CHOOSE iter : Is(iter)
<1>6. Is(it)
  BY <1>5, Zenon
<1> HIDE DEF it
<1>7. Solves(it, Len(s), Effective, Defaults, merge)
  <2>1. \A t \in SUBSET (1..Len(s)) :
          it[t] = IF t = {} THEN Defaults ELSE Patched(it[t \ {Max(t)}], s[Max(t)])
    BY <1>2, <1>6
  <2> QED
    BY <1>4, <2>1 DEF Solves
<1>8. WalksTo(it[1..Len(s)], Len(s), Effective, Defaults, merge)
  BY <1>2, <1>20, <1>3, <1>7, FoldWalk
<1>9. PICK f \in [0..Len(s) -> Effective] :
        /\ f[0] = Defaults /\ f[Len(s)] = it[1..Len(s)]
        /\ \A n \in 1..Len(s) : f[n] = merge[<<f[n - 1], n>>]
  BY <1>8 DEF WalksTo
<1>10. f[Len(s)] = Merged(s)
  BY <1>1, <1>2, <1>9 DEF it
<1>11. Merges(f, s)
  <2>1. ASSUME NEW n \in 1..Len(s) PROVE f[n] = Patched(f[n - 1], s[n])
    <3>1. n - 1 \in 0..Len(s) /\ f[n - 1] \in Effective
      BY <1>2
    <3> QED
      BY <1>4, <1>9, <3>1
  <2> QED
    BY <1>9, <2>1 DEF Merges
<1> QED
  BY <1>10, <1>11

LEMMA MergedNone == Merged(<<>>) = Defaults
<1>1. <<>> \in Seq(Patch) /\ Len(<<>>) = 0
  OBVIOUS
<1>2. PICK f \in [0..Len(<<>>) -> Effective] : Merges(f, <<>>) /\ f[Len(<<>>)] = Merged(<<>>)
  BY <1>1, MergeWalks
<1> QED
  BY <1>1, <1>2 DEF Merges

LEMMA MergedType ==
  ASSUME NEW s \in Seq(Patch)
  PROVE  Merged(s) \in Effective
<1>1. PICK f \in [0..Len(s) -> Effective] : f[Len(s)] = Merged(s)
  BY MergeWalks
<1> QED
  BY <1>1

LEMMA MergedAppend ==
  ASSUME NEW s \in Seq(Patch), NEW p \in Patch
  PROVE  Merged(Append(s, p)) = Patched(Merged(s), p)
<1> DEFINE longer == Append(s, p)
<1>1. /\ longer \in Seq(Patch) /\ Len(longer) = Len(s) + 1 /\ Len(s) \in Nat
      /\ longer[Len(s) + 1] = p /\ \A n \in 1..Len(s) : longer[n] = s[n]
  OBVIOUS
<1> HIDE DEF longer
<1>2. PICK f \in [0..Len(longer) -> Effective] : Merges(f, longer) /\ f[Len(longer)] = Merged(longer)
  BY <1>1, MergeWalks
<1>3. PICK g \in [0..Len(s) -> Effective] : Merges(g, s) /\ g[Len(s)] = Merged(s)
  BY MergeWalks
<1>4. f[0] = g[0]
  BY <1>2, <1>3 DEF Merges
<1>5. ASSUME NEW n \in 1..Len(s), f[n - 1] = g[n - 1] PROVE f[n] = g[n]
  <2>1. n \in 1..Len(longer)
    BY <1>1
  <2> QED
    BY <1>1, <1>2, <1>3, <1>5, <2>1 DEF Merges
<1>6. f[Len(s)] = g[Len(s)]
  BY <1>1, <1>4, <1>5, OneEnd
<1>7. f[Len(s) + 1] = Patched(f[Len(s)], p)
  <2>1. Len(s) + 1 \in 1..Len(longer) /\ (Len(s) + 1) - 1 = Len(s)
    BY <1>1
  <2> QED
    BY <1>1, <1>2, <2>1 DEF Merges
<1> QED
  BY <1>1, <1>2, <1>3, <1>6, <1>7 DEF longer

LEMMA NamedType ==
  ASSUME NEW list \in Seq(Config), NEW name, Defined(list, name)
  PROVE  Named(list, name).patch \in Patch
<1> DEFINE I == {i \in DOMAIN list : list[i].name = name}
<1>1. I \in SUBSET Nat /\ I # {}
  BY DEF Defined
<1>2. PICK i \in I : \A j \in I : i <= j
  <2> HIDE DEF I
  <2> QED
    BY <1>1, Least
<1>3. ASSUME NEW j \in 1..(i - 1) PROVE list[j].name # name
  <2>1. i \in 1..Len(list) /\ j \in DOMAIN list /\ ~(i <= j)
    OBVIOUS
  <2> QED
    BY <1>2, <2>1
<1>4. \E k \in DOMAIN list : list[k].name = name /\ \A j \in 1..(k - 1) : list[j].name # name
  BY <1>3
<1> DEFINE k == CHOOSE k \in DOMAIN list : list[k].name = name /\ \A j \in 1..(k - 1) : list[j].name # name
<1>5. k \in DOMAIN list
  BY <1>4
<1>6. Named(list, name) = list[k]
  BY DEF Named
<1> HIDE DEF k
<1>7. list[k] \in Config
  BY <1>5
<1> QED
  BY <1>6, <1>7 DEF Config

\* The value that was said last, before which others do not count.
Verdict(said, n, over, default) ==
  LET speak == {i \in 1..n : said[i] # Unset}
  IN CASE over # Unset -> over
       [] over = Unset /\ speak = {} -> default
       [] OTHER -> said[CHOOSE i \in speak : \A j \in speak : j <= i]

\* g holds, along the way, what was said last.
Hears(g, said, n, default) ==
  g[0] = default /\ \A i \in 1..n : g[i] = Or(said[i], g[i - 1])

LEMMA LastSaid ==
  ASSUME NEW n \in Nat, NEW said, NEW g, NEW over, NEW default, Hears(g, said, n, default)
  PROVE  Or(over, g[n]) = Verdict(said, n, over, default)
<1> DEFINE Speak(m) == {i \in 1..m : said[i] # Unset}
           P == {m \in 0..n : /\ Speak(m) = {} => g[m] = default
                              /\ \A i \in Speak(m) : (\A j \in Speak(m) : j <= i) => g[m] = said[i]}
<1>0. g[0] = default /\ \A i \in 1..n : g[i] = Or(said[i], g[i - 1])
  BY DEF Hears
<1>1. 0 \in P
  BY <1>0
<1>2. ASSUME NEW m \in 1..n, m - 1 \in P PROVE m \in P
  <2>1. /\ Speak(m - 1) = {} => g[m - 1] = default
        /\ \A i \in Speak(m - 1) : (\A j \in Speak(m - 1) : j <= i) => g[m - 1] = said[i]
        /\ g[m] = Or(said[m], g[m - 1])
    BY <1>0, <1>2
  <2>2. CASE said[m] = Unset
    <3>1. Speak(m) = Speak(m - 1)
      BY <2>2
    <3>2. g[m] = g[m - 1]
      BY <2>1, <2>2 DEF Or
    <3> HIDE DEF Speak
    <3> QED
      BY <2>1, <3>1, <3>2
  <2>3. CASE said[m] # Unset
    <3>1. g[m] = said[m] /\ m \in Speak(m)
      BY <2>1, <2>3 DEF Or
    <3>2. ASSUME NEW i \in Speak(m), \A j \in Speak(m) : j <= i PROVE i = m
      <4>1. m <= i /\ i \in 1..m
        BY <3>1, <3>2
      <4> QED
        BY <4>1
    <3> HIDE DEF Speak
    <3> QED
      BY <3>1, <3>2
  <2> QED
    BY <2>2, <2>3
<1>3. P \in SUBSET Nat
  OBVIOUS
<1> HIDE DEF P
<1>4. \A m \in 0..n : m \in P
  BY <1>1, <1>2, <1>3, InductionUpTo
<1>5. /\ Speak(n) = {} => g[n] = default
      /\ \A i \in Speak(n) : (\A j \in Speak(n) : j <= i) => g[n] = said[i]
  <2>1. n \in P
    BY <1>4
  <2> HIDE DEF Speak
  <2> QED
    BY <2>1 DEF P
<1>6. Verdict(said, n, over, default) =
        CASE over # Unset -> over
          [] over = Unset /\ Speak(n) = {} -> default
          [] OTHER -> said[CHOOSE i \in Speak(n) : \A j \in Speak(n) : j <= i]
  BY DEF Verdict
<1>7. Speak(n) \in SUBSET (0..n)
  OBVIOUS
<1> HIDE DEF Speak
<1>8. CASE over # Unset
  BY <1>6, <1>8 DEF Or
<1>9. CASE over = Unset /\ Speak(n) = {}
  BY <1>5, <1>6, <1>9 DEF Or
<1>10. CASE over = Unset /\ Speak(n) # {}
  <2> DEFINE last == CHOOSE i \in Speak(n) : \A j \in Speak(n) : j <= i
  <2>1. \E i \in Speak(n) : \A j \in Speak(n) : j <= i
    BY <1>7, <1>10, Greatest
  <2>2. last \in Speak(n) /\ \A j \in Speak(n) : j <= last
    BY <2>1, Zenon
  <2>3. Verdict(said, n, over, default) = said[last]
    BY <1>6, <1>10
  <2> HIDE DEF last
  <2> QED
    BY <1>5, <1>10, <2>2, <2>3 DEF Or
<1> QED
  BY <1>8, <1>9, <1>10

-----------------------------------------------------------------------------
(* The layers *)

LEMMA PackageIs ==
  ASSUME NEW p \in Package
  PROVE  /\ p.configs \in Seq(Config) /\ p.layers \in Seq(Name) /\ p.overrides \in Patch
         /\ Len(p.layers) \in Nat /\ DOMAIN p.layers = 1..Len(p.layers)
<1>1. p.configs \in Seq(Config) /\ p.layers \in Seq(Name) /\ p.overrides \in Patch
  BY DEF Package, Config
<1> QED
  BY <1>1

\* A walk along the layers of p that applies those that are defined.
LayersMerge(g, p) ==
  /\ g[0] = Defaults
  /\ \A k \in 1..Len(p.layers) :
       g[k] = IF Defined(p.configs, p.layers[k])
              THEN Patched(g[k - 1], Named(p.configs, p.layers[k]).patch) ELSE g[k - 1]

LEMMA LayersWalk ==
  ASSUME NEW p \in Package
  PROVE  /\ LayerPatches(p) \in Seq(Patch)
         /\ \E g \in [0..Len(p.layers) -> Effective] :
              LayersMerge(g, p) /\ g[Len(p.layers)] = Merged(LayerPatches(p))
<1> DEFINE s == p.layers
           n == Len(s)
           S == {name \in Range(s) : Defined(p.configs, name)}
           Mapped(kept) == [i \in DOMAIN kept |-> Named(p.configs, kept[i]).patch]
<1>1. s \in Seq(Name) /\ n \in Nat /\ p.configs \in Seq(Config)
  BY PackageIs
<1>2. \A k \in 1..n : s[k] \in Name /\ (s[k] \in S <=> Defined(p.configs, s[k]))
  <2>1. \A k \in 1..n : s[k] \in Name /\ s[k] \in Range(s)
    BY <1>1 DEF Range
  <2> QED
    BY <2>1
<1>3. \A name \in S : Named(p.configs, name).patch \in Patch
  BY <1>1, NamedType
<1>4. LayerPatches(p) = Mapped(Retain(s, S))
  BY DEF LayerPatches
<1> HIDE DEF S
<1>5. PICK f \in [0..n -> Seq(Name)] : Retaining(f, s, S) /\ f[n] = Retain(s, S)
  BY <1>1, RetainWalks, ZenonT(40)
<1> HIDE DEF s, n
<1>6. f[0] = <<>> /\ \A k \in 1..n : f[k] = IF s[k] \in S THEN Append(f[k - 1], s[k]) ELSE f[k - 1]
  BY <1>5 DEF Retaining, n
<1> DEFINE P == {k \in 0..n : f[k] \in Seq(S)}
<1>7. \A k \in 0..n : k \in P
  <2>1. 0 \in P
    BY <1>1, <1>6
  <2>2. ASSUME NEW k \in 1..n, k - 1 \in P PROVE k \in P
    <3>1. f[k - 1] \in Seq(S) /\ k \in 0..n
      BY <1>1, <2>2
    <3>2. f[k] = IF s[k] \in S THEN Append(f[k - 1], s[k]) ELSE f[k - 1]
      BY <1>6
    <3>3. f[k] \in Seq(S)
      <4>1. CASE s[k] \in S
        <5>1. Append(f[k - 1], s[k]) \in Seq(S)
          BY <3>1, <4>1
        <5> QED
          BY <3>2, <4>1, <5>1
      <4>2. CASE s[k] \notin S
        BY <3>1, <3>2, <4>2
      <4> QED
        BY <4>1, <4>2
    <3> QED
      BY <3>1, <3>3
  <2>3. P \in SUBSET Nat
    BY <1>1
  <2> HIDE DEF P
  <2> QED
    BY <1>1, <2>1, <2>2, <2>3, InductionUpTo
<1>8. \A k \in 0..n : f[k] \in Seq(S)
  BY <1>7
<1>9. \A kept \in Seq(S) : Mapped(kept) \in Seq(Patch) /\ Len(Mapped(kept)) = Len(kept)
  <2>1. ASSUME NEW kept \in Seq(S) PROVE Mapped(kept) \in Seq(Patch) /\ Len(Mapped(kept)) = Len(kept)
    <3>1. Len(kept) \in Nat /\ DOMAIN kept = 1..Len(kept) /\ \A i \in 1..Len(kept) : kept[i] \in S
      OBVIOUS
    <3>2. Mapped(kept) \in [1..Len(kept) -> Patch]
      BY <1>3, <3>1
    <3> HIDE DEF Mapped
    <3> QED
      BY <3>1, <3>2, FunctionIsSeq
  <2> QED
    BY <2>1
<1>10. ASSUME NEW kept \in Seq(S), NEW name \in S
       PROVE  Mapped(Append(kept, name)) = Append(Mapped(kept), Named(p.configs, name).patch)
  <2>1. /\ Append(kept, name) \in Seq(S) /\ Len(Append(kept, name)) = Len(kept) + 1
        /\ Len(kept) \in Nat /\ Append(kept, name)[Len(kept) + 1] = name
        /\ \A i \in 1..Len(kept) : Append(kept, name)[i] = kept[i]
    OBVIOUS
  <2>2. DOMAIN Append(kept, name) = 1..(Len(kept) + 1) /\ DOMAIN kept = 1..Len(kept)
    BY <2>1
  <2> DEFINE patch == Named(p.configs, name).patch
             more == Append(Mapped(kept), patch)
  <2>3. Mapped(kept) \in Seq(Patch) /\ Len(Mapped(kept)) = Len(kept) /\ patch \in Patch
    BY <1>3, <1>9
  <2>4. \A i \in 1..Len(kept) : Mapped(kept)[i] = Named(p.configs, kept[i]).patch
    BY <2>2
  <2>5. \A i \in 1..(Len(kept) + 1) :
          Mapped(Append(kept, name))[i] = Named(p.configs, Append(kept, name)[i]).patch
    BY <2>2
  <2>6. Mapped(Append(kept, name)) \in Seq(Patch) /\ Len(Mapped(Append(kept, name))) = Len(kept) + 1
    BY <1>9, <2>1
  <2> HIDE DEF Mapped
  <2>7. /\ more \in Seq(Patch) /\ Len(more) = Len(kept) + 1 /\ more[Len(kept) + 1] = patch
        /\ \A i \in 1..Len(kept) : more[i] = Mapped(kept)[i]
    BY <2>1, <2>3
  <2>8. \A i \in 1..(Len(kept) + 1) : Mapped(Append(kept, name))[i] = more[i]
    BY <2>1, <2>4, <2>5, <2>7
  <2> HIDE DEF more
  <2>9. Mapped(Append(kept, name)) = more
    BY <2>1, <2>6, <2>7, <2>8
  <2> QED
    BY <2>9 DEF more
<1> DEFINE g == [k \in 0..n |-> Merged(Mapped(f[k]))]
<1> HIDE DEF Mapped
<1>11. g \in [0..n -> Effective]
  <2>1. \A k \in 0..n : Merged(Mapped(f[k])) \in Effective
    BY <1>8, <1>9, MergedType
  <2> QED
    BY <2>1
<1>12. g[0] = Defaults
  <2>1. Mapped(f[0]) = <<>>
    BY <1>6 DEF Mapped
  <2>2. 0 \in 0..n
    BY <1>1
  <2> QED
    BY <2>1, <2>2, MergedNone
<1>13. ASSUME NEW k \in 1..n
       PROVE  g[k] = IF Defined(p.configs, s[k])
                     THEN Patched(g[k - 1], Named(p.configs, s[k]).patch) ELSE g[k - 1]
  <2>1. k \in 0..n /\ k - 1 \in 0..n
    BY <1>1
  <2>2. g[k] = Merged(Mapped(f[k])) /\ g[k - 1] = Merged(Mapped(f[k - 1]))
    BY <2>1
  <2>3. f[k - 1] \in Seq(S)
    BY <1>8, <2>1
  <2> HIDE DEF g
  <2>4. CASE s[k] \in S
    <3>1. f[k] = Append(f[k - 1], s[k])
      BY <1>6, <2>4
    <3>2. Mapped(f[k]) = Append(Mapped(f[k - 1]), Named(p.configs, s[k]).patch)
      BY <1>10, <2>3, <2>4, <3>1
    <3>3. Mapped(f[k - 1]) \in Seq(Patch) /\ Named(p.configs, s[k]).patch \in Patch
      BY <1>3, <1>9, <2>3, <2>4
    <3>4. Merged(Append(Mapped(f[k - 1]), Named(p.configs, s[k]).patch)) =
            Patched(Merged(Mapped(f[k - 1])), Named(p.configs, s[k]).patch)
      BY <3>3, MergedAppend
    <3> QED
      BY <1>2, <2>2, <2>4, <3>2, <3>4
  <2>5. CASE s[k] \notin S
    BY <1>2, <1>6, <2>2, <2>5
  <2> QED
    BY <2>4, <2>5
<1>14. LayersMerge(g, p)
  <2> HIDE DEF g
  <2> QED
    BY <1>12, <1>13 DEF LayersMerge, s, n
<1>15. n \in 0..n
  BY <1>1
<1>16. g[n] = Merged(LayerPatches(p)) /\ LayerPatches(p) \in Seq(Patch)
  <2>1. g[n] = Merged(Mapped(f[n]))
    BY <1>15
  <2>2. Mapped(f[n]) \in Seq(Patch)
    BY <1>8, <1>9, <1>15
  <2> HIDE DEF g
  <2> QED
    BY <1>4, <1>5, <2>1, <2>2
<1> HIDE DEF g
<1> QED
  BY <1>11, <1>14, <1>16 DEF n, s

\* What the last layer says of one thing, unless the overrides do.
FinalWord(p, word, default) ==
  LET layers == {i \in DOMAIN p.layers :
                   /\ Defined(p.configs, p.layers[i])
                   /\ word[Named(p.configs, p.layers[i]).patch] # Unset}
  IN CASE word[p.overrides] # Unset -> word[p.overrides]
       [] word[p.overrides] = Unset /\ layers = {} -> default
       [] OTHER -> word[Named(p.configs,
                     p.layers[CHOOSE i \in layers : \A j \in layers : j <= i]).patch]

LEMMA Final ==
  ASSUME NEW p \in Package, NEW word, NEW default, NEW g, g[0] = default,
         \A k \in 1..Len(p.layers) :
           g[k] = IF Defined(p.configs, p.layers[k])
                  THEN Or(word[Named(p.configs, p.layers[k]).patch], g[k - 1]) ELSE g[k - 1]
  PROVE  Or(word[p.overrides], g[Len(p.layers)]) = FinalWord(p, word, default)
<1> DEFINE n == Len(p.layers)
           over == word[p.overrides]
           Spoken(k) == word[Named(p.configs, p.layers[k]).patch]
           said == [k \in 1..n |-> IF Defined(p.configs, p.layers[k]) THEN Spoken(k) ELSE Unset]
           speak == {i \in 1..n : said[i] # Unset}
           layers == {i \in DOMAIN p.layers : Defined(p.configs, p.layers[i]) /\ Spoken(i) # Unset}
           last == CHOOSE i \in speak : \A j \in speak : j <= i
<1>1. n \in Nat /\ DOMAIN p.layers = 1..n
  BY PackageIs
<1>2. \A k \in 1..n : g[k] = Or(said[k], g[k - 1])
  BY DEF Or
<1>3. Or(over, g[n]) = Verdict(said, n, over, default)
  <2>1. Hears(g, said, n, default)
    BY <1>2 DEF Hears
  <2> HIDE DEF over, said, n
  <2> QED
    BY <1>1, <2>1, LastSaid
<1>4. layers = speak
  BY <1>1
<1>5. speak \in SUBSET (0..n)
  BY <1>1
<1>6. speak # {} => last \in speak
  <2> HIDE DEF speak
  <2>1. speak # {} => \E i \in speak : \A j \in speak : j <= i
    BY <1>1, <1>5, Greatest
  <2> QED
    BY <2>1
<1>7. speak # {} => said[last] = Spoken(last)
  <2>1. \A k \in speak : said[k] = Spoken(k)
    OBVIOUS
  <2> HIDE DEF said, speak, last
  <2> QED
    BY <1>6, <2>1
<1>8. Verdict(said, n, over, default) =
        CASE over # Unset -> over
          [] over = Unset /\ speak = {} -> default
          [] OTHER -> said[last]
  BY DEF Verdict
<1>9. FinalWord(p, word, default) =
        CASE over # Unset -> over
          [] over = Unset /\ layers = {} -> default
          [] OTHER -> Spoken(CHOOSE i \in layers : \A j \in layers : j <= i)
  BY DEF FinalWord
<1>10. FinalWord(p, word, default) =
        CASE over # Unset -> over
          [] over = Unset /\ speak = {} -> default
          [] OTHER -> Spoken(last)
  <2> HIDE DEF over, Spoken, speak, layers
  <2> QED
    BY <1>4, <1>9
<1> HIDE DEF over, Spoken, speak, layers, said, last
<1>11. Verdict(said, n, over, default) = FinalWord(p, word, default)
  BY <1>7, <1>8, <1>10
<1> QED
  BY <1>3, <1>11 DEF over

\* The settings that p resolves to, before the text sets are looked up.
LEMMA Resolved ==
  ASSUME NEW p \in Package
  PROVE  /\ \A f \in Field :
              Resolve(p).plain[f] = FinalWord(p, [q \in Patch |-> q.plain[f]], Default[f])
         /\ \A c \in Class :
              Resolve(p).triggers[c] = FinalWord(p, [q \in Patch |-> q.triggers[c]], FALSE)
         /\ Resolve(p).lines = Lines(p, FinalWord(p, [q \in Patch |-> q.sets], <<>>))
<1> DEFINE n == Len(p.layers)
           merged == Merged(Patches(p))
<1>1. /\ n \in Nat /\ p.overrides \in Patch /\ LayerPatches(p) \in Seq(Patch)
      /\ p.configs \in Seq(Config)
  BY PackageIs, LayersWalk
<1>2. PICK g \in [0..n -> Effective] : LayersMerge(g, p) /\ g[n] = Merged(LayerPatches(p))
  BY LayersWalk
<1>3. merged = Patched(g[n], p.overrides)
  BY <1>1, <1>2, MergedAppend DEF Patches
<1>4. g[0] = Defaults /\ \A k \in 1..n :
        g[k] = IF Defined(p.configs, p.layers[k])
               THEN Patched(g[k - 1], Named(p.configs, p.layers[k]).patch) ELSE g[k - 1]
  BY <1>2 DEF LayersMerge
<1>5. \A k \in 0..n : g[k] \in Effective
  BY <1>2
<1>6. \A k \in 1..n : Defined(p.configs, p.layers[k]) =>
        Named(p.configs, p.layers[k]).patch \in Patch
  BY <1>1, NamedType
<1>7. Resolve(p) = [plain |-> merged.plain, triggers |-> merged.triggers,
                    lines |-> Lines(p, merged.sets)]
  BY DEF Resolve, Merged
<1> HIDE DEF merged, n
<1>8. n \in 0..n
  BY <1>1
<1>9. ASSUME NEW f \in Field PROVE merged.plain[f] = FinalWord(p, [q \in Patch |-> q.plain[f]], Default[f])
  <2> DEFINE word == [q \in Patch |-> q.plain[f]]
             w == [k \in 0..n |-> g[k].plain[f]]
  <2>1. w[0] = Default[f]
    BY <1>1, <1>4 DEF Defaults
  <2>2. ASSUME NEW k \in 1..n
        PROVE  w[k] = IF Defined(p.configs, p.layers[k])
                      THEN Or(word[Named(p.configs, p.layers[k]).patch], w[k - 1]) ELSE w[k - 1]
    <3>1. k - 1 \in 0..n /\ k \in 0..n /\ g[k - 1] \in Effective
      BY <1>1, <1>5
    <3> DEFINE patch == Named(p.configs, p.layers[k]).patch
    <3>2. CASE Defined(p.configs, p.layers[k])
      <4>1. patch \in Patch /\ g[k] = Patched(g[k - 1], patch)
        BY <1>4, <1>6, <3>2
      <4> HIDE DEF patch
      <4>2. g[k].plain[f] = Or(patch.plain[f], g[k - 1].plain[f])
        BY <3>1, <4>1, PatchedType
      <4>3. word[patch] = patch.plain[f]
        BY <4>1
      <4> HIDE DEF word
      <4> QED
        BY <3>1, <3>2, <4>2, <4>3 DEF patch
    <3>3. CASE ~Defined(p.configs, p.layers[k])
      BY <1>4, <3>1, <3>3
    <3> QED
      BY <3>2, <3>3
  <2>3. word[p.overrides] = p.overrides.plain[f] /\ w[n] = g[n].plain[f]
    BY <1>1, <1>8
  <2>4. merged.plain[f] = Or(p.overrides.plain[f], g[n].plain[f])
    BY <1>1, <1>3, <1>5, <1>8, PatchedType
  <2> HIDE DEF word, w
  <2>5. Or(word[p.overrides], w[n]) = FinalWord(p, word, Default[f])
    BY <2>1, <2>2, Final DEF n
  <2> QED
    BY <2>3, <2>4, <2>5 DEF word
<1>10. ASSUME NEW c \in Class PROVE merged.triggers[c] = FinalWord(p, [q \in Patch |-> q.triggers[c]], FALSE)
  <2> DEFINE word == [q \in Patch |-> q.triggers[c]]
             w == [k \in 0..n |-> g[k].triggers[c]]
  <2>1. w[0] = FALSE
    <3>1. Defaults.triggers[c] = FALSE /\ 0 \in 0..n
      BY <1>1 DEF Defaults
    <3>2. w[0] = g[0].triggers[c]
      BY <3>1, Zenon
    <3> QED
      BY <1>4, <3>1, <3>2, Zenon
  <2>2. ASSUME NEW k \in 1..n
        PROVE  w[k] = IF Defined(p.configs, p.layers[k])
                      THEN Or(word[Named(p.configs, p.layers[k]).patch], w[k - 1]) ELSE w[k - 1]
    <3>1. k - 1 \in 0..n /\ k \in 0..n /\ g[k - 1] \in Effective
      BY <1>1, <1>5
    <3>0. w[k] = g[k].triggers[c] /\ w[k - 1] = g[k - 1].triggers[c]
      BY <3>1, Zenon
    <3> DEFINE patch == Named(p.configs, p.layers[k]).patch
    <3>2. CASE Defined(p.configs, p.layers[k])
      <4>1. patch \in Patch /\ g[k] = Patched(g[k - 1], patch)
        BY <1>4, <1>6, <3>2
      <4> HIDE DEF patch
      <4>2. g[k].triggers[c] = Or(patch.triggers[c], g[k - 1].triggers[c])
        BY <3>1, <4>1, PatchedType, ZenonT(40)
      <4>3. word[patch] = patch.triggers[c]
        BY <4>1, Zenon
      <4> HIDE DEF word, w
      <4> QED
        BY <3>0, <3>2, <4>2, <4>3, Zenon DEF patch
    <3>3. CASE ~Defined(p.configs, p.layers[k])
      <4>1. g[k] = g[k - 1]
        BY <1>4, <3>3
      <4> HIDE DEF word, w
      <4> QED
        BY <3>0, <3>3, <4>1, Zenon
    <3> QED
      BY <3>2, <3>3
  <2>3. word[p.overrides] = p.overrides.triggers[c] /\ w[n] = g[n].triggers[c]
    BY <1>1, <1>8, Zenon
  <2>4. merged.triggers[c] = Or(p.overrides.triggers[c], g[n].triggers[c])
    BY <1>1, <1>3, <1>5, <1>8, PatchedType, Zenon
  <2> HIDE DEF word, w
  <2>5. Or(word[p.overrides], w[n]) = FinalWord(p, word, FALSE)
    <3>1. \A k \in 1..Len(p.layers) :
            w[k] = IF Defined(p.configs, p.layers[k])
                   THEN Or(word[Named(p.configs, p.layers[k]).patch], w[k - 1]) ELSE w[k - 1]
      BY <2>2, Zenon DEF n
    <3> QED
      BY <2>1, <3>1, Final, Zenon DEF n
  <2> QED
    BY <2>3, <2>4, <2>5, Zenon DEF word
<1>11. merged.sets = FinalWord(p, [q \in Patch |-> q.sets], <<>>)
  <2> DEFINE word == [q \in Patch |-> q.sets]
             w == [k \in 0..n |-> g[k].sets]
  <2>1. w[0] = <<>>
    BY <1>1, <1>4 DEF Defaults
  <2>2. ASSUME NEW k \in 1..n
        PROVE  w[k] = IF Defined(p.configs, p.layers[k])
                      THEN Or(word[Named(p.configs, p.layers[k]).patch], w[k - 1]) ELSE w[k - 1]
    <3>1. k - 1 \in 0..n /\ k \in 0..n /\ g[k - 1] \in Effective
      BY <1>1, <1>5
    <3> DEFINE patch == Named(p.configs, p.layers[k]).patch
    <3>2. CASE Defined(p.configs, p.layers[k])
      <4>1. patch \in Patch /\ g[k] = Patched(g[k - 1], patch)
        BY <1>4, <1>6, <3>2
      <4> HIDE DEF patch
      <4>2. g[k].sets = Or(patch.sets, g[k - 1].sets)
        BY <3>1, <4>1, PatchedType
      <4>3. word[patch] = patch.sets
        BY <4>1
      <4> HIDE DEF word
      <4> QED
        BY <3>1, <3>2, <4>2, <4>3 DEF patch
    <3>3. CASE ~Defined(p.configs, p.layers[k])
      BY <1>4, <3>1, <3>3
    <3> QED
      BY <3>2, <3>3
  <2>3. word[p.overrides] = p.overrides.sets /\ w[n] = g[n].sets
    BY <1>1, <1>8
  <2>4. merged.sets = Or(p.overrides.sets, g[n].sets)
    BY <1>1, <1>3, <1>5, <1>8, PatchedType
  <2> HIDE DEF word, w
  <2>5. Or(word[p.overrides], w[n]) = FinalWord(p, word, <<>>)
    BY <2>1, <2>2, Final DEF n
  <2> QED
    BY <2>3, <2>4, <2>5 DEF word
<1>12. /\ Resolve(p).plain = merged.plain /\ Resolve(p).triggers = merged.triggers
       /\ Resolve(p).lines = Lines(p, merged.sets)
  BY <1>7
<1> QED
  BY <1>9, <1>10, <1>11, <1>12, Zenon

\* What the last word is, for each kind of field.

LEMMA LastPlain ==
  ASSUME NEW p \in Package, NEW f \in Field
  PROVE  LastWord(p, LAMBDA q : q.plain[f], Default[f])
           = FinalWord(p, [q \in Patch |-> q.plain[f]], Default[f])
<1> DEFINE word == [q \in Patch |-> q.plain[f]]
           Its(i) == Named(p.configs, p.layers[i]).patch
           Counts(i) == i \in DOMAIN p.layers /\ Defined(p.configs, p.layers[i])
           heard == {i \in DOMAIN p.layers : Defined(p.configs, p.layers[i]) /\ Its(i).plain[f] # Unset}
           layers == {i \in DOMAIN p.layers : Defined(p.configs, p.layers[i]) /\ word[Its(i)] # Unset}
           Latest(set) == CHOOSE i \in set : \A j \in set : j <= i
<1>1. /\ p.configs \in Seq(Config) /\ p.overrides \in Patch
      /\ Len(p.layers) \in Nat /\ DOMAIN p.layers = 1..Len(p.layers)
  BY PackageIs
<1>2. word[p.overrides] = p.overrides.plain[f]
  BY <1>1
<1>3. \A i : Counts(i) => word[Its(i)] = Its(i).plain[f]
  <2>1. \A i : Counts(i) => Its(i) \in Patch
    BY <1>1, NamedType
  <2> HIDE DEF Its
  <2> QED
    BY <2>1
<1>4. heard = layers
  <2> HIDE DEF Its, word
  <2> QED
    BY <1>3
<1>5. heard # {} => Counts(Latest(heard))
  <2>1. heard \in SUBSET (0..Len(p.layers))
    BY <1>1
  <2>2. \A i \in heard : Counts(i)
    OBVIOUS
  <2> HIDE DEF heard, Counts
  <2>3. heard # {} => \E i \in heard : \A j \in heard : j <= i
    BY <1>1, <2>1, Greatest
  <2>4. heard # {} => Latest(heard) \in heard
    BY <2>3
  <2> QED
    BY <2>2, <2>4
<1>6. LastWord(p, LAMBDA q : q.plain[f], Default[f]) =
        CASE p.overrides.plain[f] # Unset -> p.overrides.plain[f]
          [] p.overrides.plain[f] = Unset /\ heard = {} -> Default[f]
          [] OTHER -> Its(Latest(heard)).plain[f]
  BY DEF LastWord
<1>7. FinalWord(p, word, Default[f]) =
        CASE word[p.overrides] # Unset -> word[p.overrides]
          [] word[p.overrides] = Unset /\ layers = {} -> Default[f]
          [] OTHER -> word[Its(Latest(layers))]
  BY DEF FinalWord
<1>8. heard # {} => word[Its(Latest(heard))] = Its(Latest(heard)).plain[f]
  BY <1>3, <1>5, Zenon
<1> HIDE DEF heard, layers, Latest, Its, word
<1>9. FinalWord(p, word, Default[f]) =
        CASE p.overrides.plain[f] # Unset -> p.overrides.plain[f]
          [] p.overrides.plain[f] = Unset /\ heard = {} -> Default[f]
          [] OTHER -> word[Its(Latest(heard))]
  BY <1>2, <1>4, <1>7
<1>10. CASE heard = {}
  BY <1>6, <1>9, <1>10 DEF word
<1>11. CASE heard # {}
  <2>1. word[Its(Latest(heard))] = Its(Latest(heard)).plain[f]
    BY <1>8, <1>11
  <2> QED
    BY <1>6, <1>9, <2>1 DEF word
<1> QED
  BY <1>10, <1>11

LEMMA LastTrigger ==
  ASSUME NEW p \in Package, NEW c \in Class
  PROVE  LastWord(p, LAMBDA q : q.triggers[c], FALSE)
           = FinalWord(p, [q \in Patch |-> q.triggers[c]], FALSE)
<1> DEFINE word == [q \in Patch |-> q.triggers[c]]
           Its(i) == Named(p.configs, p.layers[i]).patch
           Counts(i) == i \in DOMAIN p.layers /\ Defined(p.configs, p.layers[i])
           heard == {i \in DOMAIN p.layers : Defined(p.configs, p.layers[i]) /\ Its(i).triggers[c] # Unset}
           layers == {i \in DOMAIN p.layers : Defined(p.configs, p.layers[i]) /\ word[Its(i)] # Unset}
           Latest(set) == CHOOSE i \in set : \A j \in set : j <= i
<1>1. /\ p.configs \in Seq(Config) /\ p.overrides \in Patch
      /\ Len(p.layers) \in Nat /\ DOMAIN p.layers = 1..Len(p.layers)
  BY PackageIs
<1>2. word[p.overrides] = p.overrides.triggers[c]
  BY <1>1, Zenon
<1>3. \A i : Counts(i) => word[Its(i)] = Its(i).triggers[c]
  <2>1. \A i : Counts(i) => Its(i) \in Patch
    BY <1>1, NamedType
  <2> HIDE DEF Its
  <2> QED
    BY <2>1, Zenon
<1>4. heard = layers
  <2> HIDE DEF Its, word
  <2> QED
    BY <1>3, Zenon
<1>5. heard # {} => Counts(Latest(heard))
  <2>1. heard \in SUBSET (0..Len(p.layers))
    BY <1>1
  <2>2. \A i \in heard : Counts(i)
    OBVIOUS
  <2> HIDE DEF heard, Counts
  <2>3. heard # {} => \E i \in heard : \A j \in heard : j <= i
    BY <1>1, <2>1, Greatest
  <2>4. heard # {} => Latest(heard) \in heard
    BY <2>3
  <2> QED
    BY <2>2, <2>4
<1>6. LastWord(p, LAMBDA q : q.triggers[c], FALSE) =
        CASE p.overrides.triggers[c] # Unset -> p.overrides.triggers[c]
          [] p.overrides.triggers[c] = Unset /\ heard = {} -> FALSE
          [] OTHER -> Its(Latest(heard)).triggers[c]
  BY DEF LastWord
<1>7. FinalWord(p, word, FALSE) =
        CASE word[p.overrides] # Unset -> word[p.overrides]
          [] word[p.overrides] = Unset /\ layers = {} -> FALSE
          [] OTHER -> word[Its(Latest(layers))]
  BY DEF FinalWord
<1>8. heard # {} => word[Its(Latest(heard))] = Its(Latest(heard)).triggers[c]
  BY <1>3, <1>5, Zenon
<1> HIDE DEF heard, layers, Latest, Its, word
<1>9. FinalWord(p, word, FALSE) =
        CASE p.overrides.triggers[c] # Unset -> p.overrides.triggers[c]
          [] p.overrides.triggers[c] = Unset /\ heard = {} -> FALSE
          [] OTHER -> word[Its(Latest(heard))]
  BY <1>2, <1>4, <1>7, Zenon
<1>10. CASE heard = {}
  BY <1>6, <1>9, <1>10, Zenon DEF word
<1>11. CASE heard # {}
  <2>1. word[Its(Latest(heard))] = Its(Latest(heard)).triggers[c]
    BY <1>8, <1>11
  <2> QED
    BY <1>6, <1>9, <2>1, Zenon DEF word
<1> QED
  BY <1>10, <1>11

LEMMA LastSets ==
  ASSUME NEW p \in Package
  PROVE  LastWord(p, LAMBDA q : q.sets, <<>>)
           = FinalWord(p, [q \in Patch |-> q.sets], <<>>)
<1> DEFINE word == [q \in Patch |-> q.sets]
           Its(i) == Named(p.configs, p.layers[i]).patch
           Counts(i) == i \in DOMAIN p.layers /\ Defined(p.configs, p.layers[i])
           heard == {i \in DOMAIN p.layers : Defined(p.configs, p.layers[i]) /\ Its(i).sets # Unset}
           layers == {i \in DOMAIN p.layers : Defined(p.configs, p.layers[i]) /\ word[Its(i)] # Unset}
           Latest(set) == CHOOSE i \in set : \A j \in set : j <= i
<1>1. /\ p.configs \in Seq(Config) /\ p.overrides \in Patch
      /\ Len(p.layers) \in Nat /\ DOMAIN p.layers = 1..Len(p.layers)
  BY PackageIs
<1>2. word[p.overrides] = p.overrides.sets
  BY <1>1
<1>3. \A i : Counts(i) => word[Its(i)] = Its(i).sets
  <2>1. \A i : Counts(i) => Its(i) \in Patch
    BY <1>1, NamedType
  <2> HIDE DEF Its
  <2> QED
    BY <2>1
<1>4. heard = layers
  <2> HIDE DEF Its, word
  <2> QED
    BY <1>3
<1>5. heard # {} => Counts(Latest(heard))
  <2>1. heard \in SUBSET (0..Len(p.layers))
    BY <1>1
  <2>2. \A i \in heard : Counts(i)
    OBVIOUS
  <2> HIDE DEF heard, Counts
  <2>3. heard # {} => \E i \in heard : \A j \in heard : j <= i
    BY <1>1, <2>1, Greatest
  <2>4. heard # {} => Latest(heard) \in heard
    BY <2>3
  <2> QED
    BY <2>2, <2>4
<1>6. LastWord(p, LAMBDA q : q.sets, <<>>) =
        CASE p.overrides.sets # Unset -> p.overrides.sets
          [] p.overrides.sets = Unset /\ heard = {} -> <<>>
          [] OTHER -> Its(Latest(heard)).sets
  BY DEF LastWord
<1>7. FinalWord(p, word, <<>>) =
        CASE word[p.overrides] # Unset -> word[p.overrides]
          [] word[p.overrides] = Unset /\ layers = {} -> <<>>
          [] OTHER -> word[Its(Latest(layers))]
  BY DEF FinalWord
<1>8. heard # {} => word[Its(Latest(heard))] = Its(Latest(heard)).sets
  BY <1>3, <1>5, Zenon
<1> HIDE DEF heard, layers, Latest, Its, word
<1>9. FinalWord(p, word, <<>>) =
        CASE p.overrides.sets # Unset -> p.overrides.sets
          [] p.overrides.sets = Unset /\ heard = {} -> <<>>
          [] OTHER -> word[Its(Latest(heard))]
  BY <1>2, <1>4, <1>7
<1>10. CASE heard = {}
  BY <1>6, <1>9, <1>10 DEF word
<1>11. CASE heard # {}
  <2>1. word[Its(Latest(heard))] = Its(Latest(heard)).sets
    BY <1>8, <1>11
  <2> QED
    BY <1>6, <1>9, <2>1 DEF word
<1> QED
  BY <1>10, <1>11

\* What is in memory is what the file resolves to, and what a save leaves.
SettingsInv ==
  /\ package \in Packages \union {Starter, Missing} /\ editing \in Packages \union {Missing}
  /\ lastPut \in Packages \union {Missing}
  /\ stored \in Packages \union {Starter, Missing, TornFile} /\ wasTorn \in BOOLEAN
  /\ AgentRuns => effective = Resolve(package)
  /\ editing # Missing => AgentRuns
  /\ lastPut # Missing /\ ~wasTorn =>
       /\ AgentRuns => package = lastPut
       /\ editing = Missing => stored = lastPut

LEMMA SettingsAtFirst == SettingsInit => SettingsInv
  BY SettingsAssumption DEF SettingsInit, SettingsInv, AgentRuns

LEMMA SettingsStays == SettingsInv /\ [SettingsNext]_settingsVars => SettingsInv'
<1> SUFFICES ASSUME SettingsInv, [SettingsNext]_settingsVars PROVE SettingsInv'
  OBVIOUS
<1> USE SettingsAssumption DEF SettingsInv, AgentRuns
<1>1. CASE StartSettings
  BY <1>1 DEF StartSettings
<1>2. ASSUME NEW p \in Packages, PutPackage(p) PROVE SettingsInv'
  BY <1>2 DEF PutPackage
<1>3. CASE Saved
  BY <1>3 DEF Saved
<1>4. CASE SaveFails
  BY <1>4 DEF SaveFails
<1>5. CASE StopSettings
  BY <1>5 DEF StopSettings
<1>6. CASE UNCHANGED settingsVars
  BY <1>6 DEF settingsVars
<1> QED
  BY <1>1, <1>2, <1>3, <1>4, <1>5, <1>6 DEF SettingsNext

LEMMA SettingsInvHolds == SettingsSpec => []SettingsInv
  BY SettingsAtFirst, SettingsStays, PTL DEF SettingsSpec

LEMMA InForceFollows == SettingsInv => SettingsInForce
<1> SUFFICES ASSUME SettingsInv, AgentRuns
             PROVE  /\ \A f \in Field :
                         effective.plain[f] = LastWord(package, LAMBDA p : p.plain[f], Default[f])
                    /\ \A c \in Class :
                         effective.triggers[c] = LastWord(package, LAMBDA p : p.triggers[c], FALSE)
                    /\ effective.lines = Lines(package, LastWord(package, LAMBDA p : p.sets, <<>>))
                    /\ lastPut # Missing /\ ~wasTorn => package = lastPut
  BY DEF SettingsInForce
<1>1. package \in Package /\ effective = Resolve(package)
  BY SettingsAssumption DEF SettingsInv, AgentRuns
<1>2. lastPut # Missing /\ ~wasTorn => package = lastPut
  BY DEF SettingsInv
<1>3. ASSUME NEW f \in Field
      PROVE  effective.plain[f] = LastWord(package, LAMBDA p : p.plain[f], Default[f])
  BY <1>1, Resolved, LastPlain
<1>4. ASSUME NEW c \in Class
      PROVE  effective.triggers[c] = LastWord(package, LAMBDA p : p.triggers[c], FALSE)
  BY <1>1, Resolved, LastTrigger, Zenon
<1>5. effective.lines = Lines(package, LastWord(package, LAMBDA p : p.sets, <<>>))
  BY <1>1, Resolved, LastSets
<1> QED
  BY <1>2, <1>3, <1>4, <1>5, Zenon

\* An agent without management follows, field by field and also after a restart
\* or a refused edit, the last word of the package that was accepted last.
\* (Package::resolve; put_package: persist, then resolve and apply; run)
THEOREM SettingsInForceAlways == SettingsSpec => []SettingsInForce
  BY SettingsInvHolds, InForceFollows, PTL

\* The package in memory, the one being saved and the file are packages that were
\* sent, the starter, or missing. (put_package, run)
THEOREM SettingsAreTyped == SettingsSpec => []SettingsTypeOK
<1>1. SettingsInv => SettingsTypeOK
  BY DEF SettingsInv, SettingsTypeOK
<1> QED
  BY <1>1, SettingsInvHolds, PTL

-----------------------------------------------------------------------------
(* Delivery *)

LEMMA PartsAtFirst == DeliveryInit => Init /\ VerifyInit /\ InstallInit /\ SettingsInit
  BY DEF DeliveryInit

\* A step of a delivery is one of a part, and leaves the others as they are.
LEMMA PartsStep ==
  [DeliveryNext]_deliveryVars =>
    /\ [Next]_vars /\ [VerifyNext]_verifyVars
    /\ [InstallNext]_installVars /\ [SettingsNext]_settingsVars
<1>1. CASE UNCHANGED deliveryVars
  BY <1>1 DEF deliveryVars
<1>2. CASE DeliveryNext
  BY <1>2 DEF DeliveryNext
<1> QED
  BY <1>1, <1>2

\* A delivery of one kind leaves the files of the others alone, so that what is proved of
\* a part alone holds of them together.  (each keeps files of its own)
THEOREM DeliveryIsItsParts ==
  DeliverySpec => Spec /\ VerifySpec /\ InstallSpec /\ SettingsSpec
  BY PartsAtFirst, PartsStep, PTL DEF DeliverySpec, Spec, VerifySpec, InstallSpec, SettingsSpec

\* The state of every part is of its type, for any number of connections.
THEOREM DeliveryIsTyped == DeliverySpec => []DeliveryTypeOK
<1>1. TypeOK /\ VerifyTypeOK /\ InstallTypeOK /\ SettingsTypeOK => DeliveryTypeOK
  BY DEF DeliveryTypeOK
<1> QED
  BY <1>1, DeliveryIsItsParts, CustodyIsTyped, VerifyIsTyped, InstallIsTyped, SettingsAreTyped,
     PTL

\* For any certificates, envelopes, packages, layers and fields: the policy in force is
\* genuine, and what is in force without management is what the last package says.
\* (Verifier, Package::resolve)
THEOREM PolicyInForceAlways == DeliverySpec => []PolicyInForce
<1>1. PolicyIsGenuine /\ SettingsInForce => PolicyInForce
  BY DEF PolicyInForce
<1> QED
  BY <1>1, DeliveryIsItsParts, PolicyIsGenuineAlways, SettingsInForceAlways, PTL
=============================================================================
