--------------------------- MODULE LockdownProofs ----------------------------
(***************************************************************************)
(* Theorems about Lockdown, for any windows, penalties and health reports    *)
(* and any number of upsets: the deadline of a lockout is the longest one    *)
(* owed, whatever the order in which trips arrive; a trip is punished at     *)
(* most once, and is punished; and a session that falls silent is blocked.   *)
(***************************************************************************)
EXTENDS Lockdown, FiniteSetTheorems, TLAPS

Message == [health: Health, edge: [Limit -> BOOLEAN], known: BOOLEAN]
State   == [seen: Never..Fresh, known: BOOLEAN, health: Health, until: 0..Longest,
            source: Limit]

LEMMA PenaltyTypes ==
  /\ \A l \in Limit : Secs[l] \in Nat /\ Secs[l] > 0 /\ Secs[l] <= Longest
  /\ Longest \in Nat /\ Fresh \in Nat /\ Grace \in Nat /\ Limit = {"exposure", "focus"}
<1>1. \A l \in Limit : Secs[l] \in Nat /\ Secs[l] > 0
  BY LockdownAssumption
<1>2. Secs["exposure"] \in Nat /\ Secs["focus"] \in Nat
  BY <1>1 DEF Limit
<1> QED
  BY <1>1, <1>2, LockdownAssumption DEF Longest, Limit

LEMMA FineType == Fine \in Health /\ None \in [Limit -> BOOLEAN] /\ Untold \in State
                  /\ Untold.until = 0
<1>1. 0 \in 0..Longest /\ Never \in Never..Fresh
  BY PenaltyTypes DEF Never
<1> QED
  BY <1>1, LockdownAssumption DEF None, Untold, State, Limit

LEMMA NoteType ==
  ASSUME NEW s \in State, NEW m \in Message
  PROVE  /\ Note(s, m) \in State /\ Note(s, m).until = s.until
         /\ Note(s, m).source = s.source
<1>1. 0 \in Never..Fresh
  BY PenaltyTypes DEF Never
<1> QED
  BY <1>1 DEF Note, State, Message

LEMMA PenalizeType ==
  ASSUME NEW s \in State, NEW m \in Message, NEW l \in Limit
  PROVE  /\ Penalize(s, m, l) \in State
         /\ m.edge[l] /\ Secs[l] >= s.until =>
              Penalize(s, m, l).until = Secs[l] /\ Penalize(s, m, l).source = l
         /\ ~(m.edge[l] /\ Secs[l] >= s.until) => Penalize(s, m, l) = s
<1>1. Secs[l] \in 0..Longest
  BY PenaltyTypes
<1> QED
  BY <1>1 DEF Penalize, State, Message

-----------------------------------------------------------------------------
(* Types *)

LEMMA TypesAtFirst == Init => TypeOK
<1>1. SUFFICES ASSUME Init PROVE TypeOK
  OBVIOUS
<1>2. Never \in Never..Grace /\ 0 \in 0..BeatsPerTick /\ 0 \in 0..Backoff
  BY LockdownAssumption DEF Never, Backoff
<1> QED
  BY <1>1, <1>2, FineType DEF Init, TypeOK, Reasons, Timed, State

LEMMA TypesAfterHandle ==
  ASSUME TypeOK, NEW m \in wire, Handle(m)
  PROVE  TypeOK'
<1>1. m \in Message /\ st \in State /\ "exposure" \in Limit /\ "focus" \in Limit
  BY DEF TypeOK, Message, State, Limit
<1>2. Penalize(Penalize(Note(st, m), m, "exposure"), m, "focus") \in State
  BY <1>1, NoteType, PenalizeType
<1>3. st' \in State /\ up
  BY <1>2 DEF Handle
<1> QED
  BY <1>3 DEF Handle, agent, watchdog, TypeOK, State

LEMMA TypesAfterTick ==
  ASSUME TypeOK, Tick
  PROVE  TypeOK'
<1>1. st \in State /\ rest \in 0..Backoff /\ since \in Never..Grace
  BY DEF TypeOK, State
<1>2. \A n \in 0..Longest : Sooner(n) \in 0..Longest
  BY PenaltyTypes DEF Sooner, Most
<1>3. \A n \in Never..Fresh : Older(n, Fresh) \in Never..Fresh
  BY PenaltyTypes DEF Older, Least, Never
<1>4. \A n \in Never..Grace : Older(n, Grace) \in Never..Grace
  BY PenaltyTypes DEF Older, Least, Never
<1>5. \A n \in 0..Backoff : Sooner(n) \in 0..Backoff
  BY DEF Sooner, Most, Backoff
<1>6. st' = [st EXCEPT !.seen = Older(st.seen, Fresh), !.until = Sooner(st.until)]
  BY DEF Tick
<1>7. st.seen \in Never..Fresh /\ st.until \in 0..Longest
  BY <1>1 DEF State
<1>8. st' \in State
  BY <1>1, <1>2, <1>3, <1>6, <1>7 DEF State
<1>9. ~up => st' = Untold
  <2>1. SUFFICES ASSUME ~up PROVE st' = Untold
    OBVIOUS
  <2>2. st = Untold
    BY <2>1 DEF TypeOK
  <2>3. Older(Untold.seen, Fresh) = Untold.seen /\ Sooner(Untold.until) = Untold.until
    BY DEF Untold, Older, Sooner, Most, Never
  <2> QED
    BY <1>6, <2>2, <2>3 DEF Untold
<1>10. /\ rest' \in 0..Backoff /\ since' \in Never..Grace /\ looked' \in BOOLEAN
       /\ beaten' \in 0..BeatsPerTick
  BY <1>1, <1>4, <1>5, LockdownAssumption DEF Tick, TypeOK
<1> QED
  BY <1>8, <1>9, <1>10 DEF Tick, TypeOK, State

LEMMA TypesOutside ==
  ASSUME TypeOK,
         \/ LogInOut \/ Launch \/ Die \/ Suspend \/ Report \/ Beat
         \/ \E l \in Limit : Trip(l)
  PROVE  TypeOK'
<1>1. CASE LogInOut \/ Launch \/ Suspend \/ Report
  BY <1>1 DEF LogInOut, Launch, Suspend, Report, agent, watchdog, history, TypeOK
<1>2. CASE Die
  <2>1. wire \subseteq Message /\ st \in State
    BY DEF TypeOK, Message, State
  <2>2. \A m \in Message : [m EXCEPT !.known = FALSE] \in Message
    BY DEF Message
  <2>3. wire' \subseteq Message /\ (wire = {} => wire' = {})
    BY <1>2, <2>1, <2>2 DEF Die
  <2>4. st' \in State /\ (st = Untold => st' = Untold)
    <3>1. st' = [st EXCEPT !.known = FALSE]
      BY <1>2 DEF Die
    <3>2. st' = [seen |-> st.seen, known |-> FALSE, health |-> st.health,
                 until |-> st.until, source |-> st.source]
      BY <2>1, <3>1 DEF State
    <3>3. st = Untold => st' = Untold
      BY <3>2 DEF Untold
    <3>4. st' \in State
      BY <2>1, <3>2 DEF State
    <3> QED
      BY <3>3, <3>4
  <2>5. beaten' \in 0..BeatsPerTick /\ rest' \in 0..Backoff
    BY <1>2, LockdownAssumption DEF Die, Backoff
  <2> QED
    BY <1>2, <2>3, <2>4, <2>5, FineType DEF Die, watchdog, history, TypeOK, Message, State
<1>3. CASE Beat
  <2>1. [health |-> health, edge |-> edge, known |-> TRUE] \in Message
    BY DEF TypeOK, Message
  <2>2. wire' \subseteq Message /\ (~up => wire' = wire)
    BY <1>3, <2>1 DEF Beat, TypeOK, Message
  <2>3. beaten' \in 0..BeatsPerTick
    BY <1>3, LockdownAssumption DEF Beat, TypeOK
  <2>4. rest' \in 0..Backoff
    BY <1>3 DEF Beat, TypeOK, Backoff
  <2> QED
    BY <1>3, <2>2, <2>3, <2>4, FineType DEF Beat, watchdog, history, TypeOK, Message
<1>4. ASSUME NEW l \in Limit, Trip(l) PROVE TypeOK'
  BY <1>4 DEF Trip, watchdog, TypeOK
<1> QED
  BY <1>1, <1>2, <1>3, <1>4

LEMMA ReasonTypes == TypeOK => Unhealthy \in Reasons /\ WantFull \in Reasons
<1>1. SUFFICES ASSUME TypeOK PROVE Unhealthy \in Reasons /\ WantFull \in Reasons
  OBVIOUS
<1>2. Unhealthy \in Reasons
  BY DEF Unhealthy, Reasons
<1>3. st.source \in Reasons
  BY <1>1 DEF TypeOK, Limit, Reasons, Timed
<1> QED
  BY <1>2, <1>3 DEF WantFull, Reasons

LEMMA TypesOfDaemon ==
  ASSUME TypeOK, Watch \/ Decide \/ Publish \/ Crash \/ Start
  PROVE  TypeOK'
<1>1. CASE Watch
  BY <1>1 DEF Watch, history, TypeOK
<1>2. CASE Decide
  <2>1. Most(since, 0) \in Never..Grace /\ Never \in Never..Grace
    BY LockdownAssumption DEF TypeOK, Most, Never
  <2>2. since' \in Never..Grace /\ verdict' \in Reasons
    BY <1>2, <2>1, ReasonTypes DEF Decide
  <2> QED
    BY <1>2, <2>2 DEF Decide, agent, history, TypeOK
<1>3. CASE Publish
  BY <1>3 DEF Publish, agent, history, TypeOK, Reasons
<1>4. CASE Crash
  <2>1. Never \in Never..Grace
    BY LockdownAssumption DEF Never
  <2> QED
    BY <1>4, <2>1, FineType DEF Crash, agent, TypeOK, Reasons, State
<1>5. CASE Start
  BY <1>5 DEF Start, agent, watchdog, history, TypeOK
<1> QED
  BY <1>1, <1>2, <1>3, <1>4, <1>5

LEMMA TypesStay == TypeOK /\ [Next]_vars => TypeOK'
<1>1. SUFFICES ASSUME TypeOK, [Next]_vars PROVE TypeOK'
  OBVIOUS
<1>2. CASE UNCHANGED vars
  BY <1>1, <1>2 DEF vars, TypeOK
<1> QED
  BY <1>1, <1>2, TypesAfterHandle, TypesAfterTick, TypesOutside, TypesOfDaemon DEF Next, Daemon

\* Every variable keeps to its type, and a daemon that is down knows nothing.
THEOREM LockdownIsTyped == Spec => []TypeOK
  BY TypesAtFirst, TypesStay, PTL DEF Spec

-----------------------------------------------------------------------------
(* The penalty *)

OwedType == owed \in [Limit -> Nat]

\* One limit: the deadline takes what is owed into account, in either order.
LEMMA PenalizeLongest ==
  ASSUME NEW s \in State, NEW m \in Message, NEW l \in Limit, NEW k \in Limit, k # l,
         NEW o \in [Limit -> Nat], NEW p \in [Limit -> Nat],
         s.until = Most(o[l], o[k]), s.until > 0 => o[s.source] = s.until,
         p[k] = o[k], p[l] = IF m.edge[l] THEN Most(o[l], Secs[l]) ELSE o[l]
  PROVE  LET z == Penalize(s, m, l)
         IN z.until = Most(p[l], p[k]) /\ (z.until > 0 => p[z.source] = z.until)
<1> DEFINE z == Penalize(s, m, l)
<1>1. /\ o[l] \in Nat /\ o[k] \in Nat /\ p[l] \in Nat /\ Secs[l] \in Nat /\ s.until \in Nat
      /\ s.source \in Limit /\ (s.source = l \/ s.source = k) /\ m.edge[l] \in BOOLEAN
  BY PenaltyTypes DEF State, Limit, Message
<1>2. CASE m.edge[l] /\ Secs[l] >= s.until
  <2>1. z.until = Secs[l] /\ z.source = l
    BY <1>2, PenalizeType
  <2>2. p[l] = Secs[l] /\ p[l] >= p[k]
    BY <1>1, <1>2 DEF Most
  <2> HIDE DEF z
  <2>3. z.until = Most(p[l], p[k]) /\ (z.until > 0 => p[z.source] = z.until)
    BY <1>1, <2>1, <2>2 DEF Most
  <2> QED
    BY <2>3 DEF z
<1>3. CASE ~(m.edge[l] /\ Secs[l] >= s.until)
  <2>1. z = s
    BY <1>3, PenalizeType
  <2>2. p[l] = o[l] \/ (p[l] = Most(o[l], Secs[l]) /\ Secs[l] < s.until)
    BY <1>1, <1>3
  <2>3. s.until = Most(p[l], p[k])
    BY <1>1, <2>2 DEF Most
  <2>4. s.until > 0 => p[s.source] = s.until
    BY <1>1, <2>2 DEF Most
  <2> HIDE DEF z
  <2>5. z.until = Most(p[l], p[k]) /\ (z.until > 0 => p[z.source] = z.until)
    BY <2>1, <2>3, <2>4
  <2> QED
    BY <2>5 DEF z
<1> QED
  BY <1>2, <1>3

LEMMA MostCommutes == \A a, b \in Nat : Most(a, b) = Most(b, a)
  BY DEF Most

LEMMA LongestAfterHandle ==
  ASSUME TypeOK, OwedType, PenaltyIsLongest, NEW m \in wire, Handle(m)
  PROVE  OwedType' /\ PenaltyIsLongest'
<1> DEFINE n  == Note(st, m)
           s1 == Penalize(n, m, "exposure")
           s2 == Penalize(s1, m, "focus")
           o1 == [owed EXCEPT !["exposure"] =
                    IF m.edge["exposure"] THEN Most(@, Secs["exposure"]) ELSE @]
<1>1. m \in Message /\ st \in State /\ "exposure" \in Limit /\ "focus" \in Limit
      /\ owed \in [Limit -> Nat]
  BY DEF TypeOK, Message, State, Limit, OwedType
<1>2. n \in State /\ n.until = st.until /\ n.source = st.source
  BY <1>1, NoteType
<1>3. s1 \in State
  BY <1>1, <1>2, PenalizeType
<1>4. \A l \in Limit : Most(owed[l], Secs[l]) \in Nat
  BY <1>1, PenaltyTypes DEF Most
<1>5. o1 \in [Limit -> Nat] /\ o1["focus"] = owed["focus"]
      /\ o1["exposure"] = IF m.edge["exposure"] THEN Most(owed["exposure"], Secs["exposure"])
                          ELSE owed["exposure"]
  BY <1>1, <1>4
<1>6. owed' = [l \in Limit |-> IF m.edge[l] THEN Most(owed[l], Secs[l]) ELSE owed[l]]
      /\ st' = s2
  BY DEF Handle
<1>7. owed' \in [Limit -> Nat] /\ owed'["exposure"] = o1["exposure"]
      /\ owed'["focus"] = IF m.edge["focus"] THEN Most(o1["focus"], Secs["focus"])
                          ELSE o1["focus"]
  BY <1>1, <1>4, <1>5, <1>6
<1>8. n.until = Most(owed["exposure"], owed["focus"])
      /\ (n.until > 0 => owed[n.source] = n.until)
  BY <1>2 DEF PenaltyIsLongest
<1> HIDE DEF n, s1, o1
<1>9. s1.until = Most(o1["exposure"], o1["focus"]) /\ (s1.until > 0 => o1[s1.source] = s1.until)
  BY <1>1, <1>2, <1>5, <1>8, PenalizeLongest DEF s1
<1>10. s1.until = Most(o1["focus"], o1["exposure"])
  BY <1>1, <1>5, <1>9, MostCommutes
<1>11. s2.until = Most(owed'["focus"], owed'["exposure"])
       /\ (s2.until > 0 => owed'[s2.source] = s2.until)
  BY <1>1, <1>3, <1>5, <1>7, <1>9, <1>10, PenalizeLongest, SMTT(40)
<1>12. s2.until = Most(owed'["exposure"], owed'["focus"])
  BY <1>1, <1>7, <1>11, MostCommutes
<1> QED
  BY <1>6, <1>7, <1>11, <1>12 DEF OwedType, PenaltyIsLongest

LEMMA LongestAfterTick ==
  ASSUME TypeOK, OwedType, PenaltyIsLongest, Tick
  PROVE  OwedType' /\ PenaltyIsLongest'
<1>1. st \in State /\ "exposure" \in Limit /\ "focus" \in Limit /\ owed \in [Limit -> Nat]
  BY DEF TypeOK, State, Limit, OwedType
<1>2. st.until \in Nat /\ owed["exposure"] \in Nat /\ owed["focus"] \in Nat
      /\ st.source \in Limit
  BY <1>1 DEF State
<1>3. owed' = [l \in Limit |-> Sooner(owed[l])] /\ \A n \in Nat : Sooner(n) \in Nat
  BY DEF Tick, Sooner, Most
<1>4. st'.until = Sooner(st.until) /\ st'.source = st.source
  <2>1. st' = [st EXCEPT !.seen = Older(st.seen, Fresh), !.until = Sooner(st.until)]
    BY DEF Tick
  <2> QED
    BY <1>1, <2>1 DEF State
<1>5. st'.until = Most(owed'["exposure"], owed'["focus"])
  BY <1>1, <1>2, <1>3, <1>4 DEF PenaltyIsLongest, Sooner, Most
<1>6. st'.until > 0 => owed'[st'.source] = st'.until
  BY <1>1, <1>2, <1>3, <1>4 DEF PenaltyIsLongest, Sooner, Most
<1> QED
  BY <1>1, <1>3, <1>5, <1>6 DEF OwedType, PenaltyIsLongest

LEMMA LongestStays ==
  TypeOK /\ OwedType /\ PenaltyIsLongest /\ [Next]_vars => OwedType' /\ PenaltyIsLongest'
<1>1. SUFFICES ASSUME TypeOK, OwedType, PenaltyIsLongest, [Next]_vars
               PROVE  OwedType' /\ PenaltyIsLongest'
  OBVIOUS
<1>2. CASE UNCHANGED <<owed, st>>
  BY <1>1, <1>2 DEF OwedType, PenaltyIsLongest
<1>3. CASE LogInOut \/ Launch \/ Suspend \/ Report \/ Beat \/ \E l \in Limit : Trip(l)
  BY <1>2, <1>3 DEF LogInOut, Launch, Suspend, Report, Beat, Trip, history
<1>4. CASE Die
  <2>1. st'.until = st.until /\ st'.source = st.source /\ owed' = owed
    BY <1>1, <1>4 DEF Die, history, TypeOK
  <2> QED
    BY <1>1, <2>1 DEF OwedType, PenaltyIsLongest
<1>5. CASE Watch \/ Decide \/ Publish \/ Start \/ UNCHANGED vars
  BY <1>2, <1>5 DEF Watch, Decide, Publish, Start, history, vars
<1>6. CASE Crash
  BY <1>6, FineType DEF Crash, OwedType, PenaltyIsLongest, Most, Limit
<1> QED
  BY <1>1, <1>3, <1>4, <1>5, <1>6, LongestAfterHandle, LongestAfterTick DEF Next, Daemon

\* Whatever trips are reported, in whatever order and however the windows run,
\* the lockout lasts as long as the longest penalty owed and names a limit that
\* is owed so much (AgentState::penalize, docs/lockdown-reasons.md).
THEOREM PenaltyIsLongestAlways == Spec => []PenaltyIsLongest
<1>1. Init => OwedType /\ PenaltyIsLongest
  BY FineType DEF Init, OwedType, PenaltyIsLongest, Most, Limit
<1>2. Init => TypeOK
  BY TypesAtFirst
<1>3. TypeOK /\ [Next]_vars => TypeOK'
  BY TypesStay
<1>4. TypeOK /\ OwedType /\ PenaltyIsLongest /\ [Next]_vars => OwedType' /\ PenaltyIsLongest'
  BY LongestStays
<1> QED
  BY <1>1, <1>2, <1>3, <1>4, PTL DEF Spec

-----------------------------------------------------------------------------
(* One lockout per trip *)

Carrying(l) == {m \in wire : m.edge[l]}

\* Trips on their way: an edge that is set, and heartbeats that carry it.
Pending(l) == (IF edge[l] THEN 1 ELSE 0) + Cardinality(Carrying(l))

TripInv ==
  /\ IsFiniteSet(wire) /\ granted \in Nat /\ trips \in Nat
  /\ granted + (Pending("exposure") + Pending("focus")) <= trips

LEMMA PendingType ==
  ASSUME TypeOK, IsFiniteSet(wire), NEW l \in Limit
  PROVE  IsFiniteSet(Carrying(l)) /\ Cardinality(Carrying(l)) \in Nat /\ Pending(l) \in Nat
<1>1. IsFiniteSet(Carrying(l)) /\ Cardinality(Carrying(l)) \in Nat
  BY FS_Subset, FS_CardinalityType DEF Carrying
<1> QED
  BY <1>1 DEF Pending

\* A heartbeat takes the edges along.
LEMMA PendingAfterBeat ==
  ASSUME TypeOK, IsFiniteSet(wire), Beat, NEW l \in Limit
  PROVE  IsFiniteSet(wire') /\ Pending(l)' \in Nat /\ Pending(l)' <= Pending(l)
<1> DEFINE m == [health |-> health, edge |-> edge, known |-> TRUE]
<1>1. edge' = None /\ None[l] = FALSE /\ edge[l] \in BOOLEAN
  BY DEF Beat, None, TypeOK
<1>2. IsFiniteSet(Carrying(l)) /\ Cardinality(Carrying(l)) \in Nat
  BY PendingType
<1>3. CASE wire' = wire
  <2>1. Carrying(l)' = Carrying(l)
    BY <1>3 DEF Carrying
  <2> QED
    BY <1>1, <1>2, <1>3, <2>1 DEF Pending
<1>4. CASE wire' = wire \union {m}
  <2>1. IsFiniteSet(wire')
    BY <1>4, FS_AddElement
  <2>2. m.edge = edge
    OBVIOUS
  <2> HIDE DEF m
  <2>3. CASE edge[l]
    <3>1. Carrying(l)' = Carrying(l) \union {m}
      BY <1>4, <2>2, <2>3 DEF Carrying
    <3>2. Cardinality(Carrying(l)') = IF m \in Carrying(l) THEN Cardinality(Carrying(l))
                                      ELSE Cardinality(Carrying(l)) + 1
      BY <1>2, <3>1, FS_AddElement
    <3>3. Cardinality(Carrying(l)') \in Nat
          /\ Cardinality(Carrying(l)') <= Cardinality(Carrying(l)) + 1
      BY <1>2, <3>2
    <3> QED
      BY <1>1, <1>2, <2>1, <2>3, <3>3 DEF Pending
  <2>4. CASE ~edge[l]
    <3>1. Carrying(l)' = Carrying(l)
      BY <1>4, <2>2, <2>4 DEF Carrying
    <3> QED
      BY <1>1, <1>2, <2>1, <2>4, <3>1 DEF Pending
  <2> QED
    BY <2>3, <2>4
<1> QED
  BY <1>3, <1>4 DEF Beat

\* One that is handled no longer carries any.
LEMMA PendingAfterHandle ==
  ASSUME TypeOK, IsFiniteSet(wire), NEW m \in wire, Handle(m), NEW l \in Limit
  PROVE  IsFiniteSet(wire') /\ Pending(l)' \in Nat
         /\ Pending(l)' + (IF m.edge[l] THEN 1 ELSE 0) = Pending(l)
<1>1. wire' = wire \ {m} /\ edge' = edge
  BY DEF Handle, agent
<1>2. IsFiniteSet(Carrying(l)) /\ Cardinality(Carrying(l)) \in Nat /\ IsFiniteSet(wire')
  BY <1>1, PendingType, FS_RemoveElement
<1>3. Carrying(l)' = Carrying(l) \ {m}
  BY <1>1 DEF Carrying
<1>4. m \in Carrying(l) <=> m.edge[l]
  BY DEF Carrying
<1>5. /\ Cardinality(Carrying(l)') = IF m \in Carrying(l) THEN Cardinality(Carrying(l)) - 1
                                     ELSE Cardinality(Carrying(l))
      /\ Cardinality(Carrying(l)') \in Nat
  BY <1>2, <1>3, FS_RemoveElement, FS_CardinalityType
<1> QED
  BY <1>1, <1>2, <1>4, <1>5 DEF Pending

\* The agent's death takes the edges with it; its heartbeats lose the process.
LEMMA PendingAfterDie ==
  ASSUME TypeOK, IsFiniteSet(wire), Die, NEW l \in Limit
  PROVE  IsFiniteSet(wire') /\ Pending(l)' \in Nat /\ Pending(l)' <= Pending(l)
<1> DEFINE old(m) == [m EXCEPT !.known = FALSE]
<1>1. wire' = {old(m) : m \in wire} /\ edge' = None /\ None[l] = FALSE /\ wire \subseteq Message
      /\ edge[l] \in BOOLEAN
  BY DEF Die, None, TypeOK, Message
<1>2. \A m \in Message : old(m).edge = m.edge
  BY DEF Message
<1> HIDE DEF old
<1>3. IsFiniteSet(wire')
  <2>1. [m \in wire |-> old(m)] \in Surjection(wire, wire')
    BY <1>1 DEF Surjection
  <2> QED
    BY <2>1, FS_Surjection
<1>4. IsFiniteSet(Carrying(l)) /\ Cardinality(Carrying(l)) \in Nat
  BY PendingType
<1>5. Cardinality(Carrying(l)') \in Nat /\ Cardinality(Carrying(l)') <= Cardinality(Carrying(l))
  <2>1. Carrying(l)' = {old(m) : m \in Carrying(l)}
    BY <1>1, <1>2 DEF Carrying
  <2>2. [m \in Carrying(l) |-> old(m)] \in Surjection(Carrying(l), Carrying(l)')
    BY <2>1 DEF Surjection
  <2> QED
    BY <1>4, <2>2, FS_Surjection, FS_CardinalityType
<1> QED
  BY <1>1, <1>3, <1>4, <1>5 DEF Pending

LEMMA TripInvStays == TypeOK /\ TripInv /\ [Next]_vars => TripInv'
<1>1. SUFFICES ASSUME TypeOK, TripInv, [Next]_vars PROVE TripInv'
  OBVIOUS
<1>2. /\ Pending("exposure") \in Nat /\ Pending("focus") \in Nat
      /\ granted \in Nat /\ trips \in Nat
      /\ granted + (Pending("exposure") + Pending("focus")) <= trips
      /\ IsFiniteSet(wire) /\ "exposure" \in Limit /\ "focus" \in Limit
  BY <1>1, PendingType DEF TripInv, Limit
<1>3. CASE UNCHANGED <<wire, edge, granted, trips>>
  BY <1>1, <1>3 DEF TripInv, Pending, Carrying
<1>4. CASE LogInOut \/ Launch \/ Suspend \/ Report \/ Watch \/ Decide \/ Publish \/ Start
           \/ Tick \/ UNCHANGED vars
  BY <1>3, <1>4 DEF LogInOut, Launch, Suspend, Report, Watch, Decide, Publish, Start, Tick,
                    agent, watchdog, history, vars
<1>5. CASE Die
  <2>1. granted' = granted /\ trips' = trips
    BY <1>5 DEF Die, history
  <2>2. /\ IsFiniteSet(wire')
        /\ Pending("exposure")' \in Nat /\ Pending("exposure")' <= Pending("exposure")
        /\ Pending("focus")' \in Nat /\ Pending("focus")' <= Pending("focus")
    BY <1>1, <1>2, <1>5, PendingAfterDie
  <2>3. granted' + (Pending("exposure")' + Pending("focus")') <= trips'
    BY <1>2, <2>1, <2>2
  <2> QED
    BY <1>2, <2>1, <2>2, <2>3 DEF TripInv
<1>6. CASE Beat
  <2>1. granted' = granted /\ trips' = trips
    BY <1>6 DEF Beat, history
  <2>2. /\ IsFiniteSet(wire')
        /\ Pending("exposure")' \in Nat /\ Pending("exposure")' <= Pending("exposure")
        /\ Pending("focus")' \in Nat /\ Pending("focus")' <= Pending("focus")
    BY <1>1, <1>2, <1>6, PendingAfterBeat
  <2>3. granted' + (Pending("exposure")' + Pending("focus")') <= trips'
    BY <1>2, <2>1, <2>2
  <2> QED
    BY <1>2, <2>1, <2>2, <2>3 DEF TripInv
<1>7. ASSUME NEW l \in Limit, Trip(l) PROVE TripInv'
  <2>1. granted' = granted /\ trips' = trips + 1 /\ wire' = wire
        /\ edge' = [edge EXCEPT ![l] = TRUE]
    BY <1>7 DEF Trip
  <2>2. \A k \in Limit : edge[k] \in BOOLEAN
    BY <1>1 DEF TypeOK
  <2>3. \A k \in Limit : k # l => edge'[k] = edge[k]
    BY <1>1, <2>1 DEF TypeOK
  <2>4. \A k \in Limit : Carrying(k)' = Carrying(k) /\ Cardinality(Carrying(k)) \in Nat
    BY <1>1, <1>2, <2>1, PendingType DEF Carrying
  <2>5. \A k \in Limit : /\ Pending(k)' \in Nat /\ Pending(k)' <= Pending(k) + 1
                         /\ k # l => Pending(k)' = Pending(k)
    BY <2>2, <2>3, <2>4 DEF Pending
  <2>6. /\ Pending("exposure")' \in Nat /\ Pending("focus")' \in Nat
        /\ Pending("exposure")' <= Pending("exposure") + 1 /\ Pending("focus")' <= Pending("focus") + 1
        /\ Pending("exposure")' = Pending("exposure") \/ Pending("focus")' = Pending("focus")
    BY <2>5 DEF Limit
  <2>7. granted' + (Pending("exposure")' + Pending("focus")') <= trips'
    BY <1>2, <2>1, <2>6
  <2> QED
    BY <1>2, <2>1, <2>7 DEF TripInv
<1>8. ASSUME NEW m \in wire, Handle(m) PROVE TripInv'
  <2> DEFINE x == IF m.edge["exposure"] THEN 1 ELSE 0
             y == IF m.edge["focus"] THEN 1 ELSE 0
  <2>1. granted' = (granted + x) + y /\ trips' = trips
    BY <1>8 DEF Handle
  <2>2. /\ IsFiniteSet(wire') /\ Pending("exposure")' \in Nat /\ Pending("focus")' \in Nat
        /\ Pending("exposure")' + x = Pending("exposure") /\ Pending("focus")' + y = Pending("focus")
    BY <1>1, <1>2, <1>8, PendingAfterHandle
  <2>3. x \in Nat /\ y \in Nat
    OBVIOUS
  <2> HIDE DEF x, y
  <2>4. granted' \in Nat /\ granted' + (Pending("exposure")' + Pending("focus")') <= trips'
    BY <1>2, <2>1, <2>2, <2>3
  <2> QED
    BY <1>2, <2>1, <2>2, <2>4 DEF TripInv
<1>9. CASE Crash
  <2>1. wire' = {} /\ edge' = edge /\ granted' = granted /\ trips' = trips
    BY <1>9 DEF Crash, agent
  <2>2. \A k \in Limit : Carrying(k)' = {}
    BY <2>1 DEF Carrying
  <2>3. \A k \in Limit : Pending(k)' \in Nat /\ Pending(k)' <= Pending(k)
    <3>1. \A k \in Limit : Cardinality(Carrying(k)') = 0 /\ Cardinality(Carrying(k)) \in Nat
      BY <1>1, <1>2, <2>2, FS_EmptySet, PendingType
    <3> QED
      BY <2>1, <3>1 DEF Pending
  <2>4. /\ Pending("exposure")' \in Nat /\ Pending("exposure")' <= Pending("exposure")
        /\ Pending("focus")' \in Nat /\ Pending("focus")' <= Pending("focus")
    BY <1>2, <2>3
  <2>5. IsFiniteSet(wire')
    BY <2>1, FS_EmptySet
  <2>6. granted' + (Pending("exposure")' + Pending("focus")') <= trips'
    BY <1>2, <2>1, <2>4
  <2> QED
    BY <1>2, <2>1, <2>5, <2>6 DEF TripInv
<1> QED
  BY <1>1, <1>4, <1>5, <1>6, <1>7, <1>8, <1>9 DEF Next, Daemon

\* However heartbeats, crashes and deaths of the agent interleave, no more
\* lockouts are started than limits were exceeded (the swap in heartbeat.rs).
THEOREM OneLockoutPerTripAlways == Spec => []OneLockoutPerTrip
<1>1. Init => TripInv
  <2>1. SUFFICES ASSUME Init PROVE TripInv
    OBVIOUS
  <2>2. \A l \in Limit : Carrying(l) = {} /\ Pending(l) = 0
    BY <2>1, FS_EmptySet DEF Init, Carrying, Pending, None
  <2> QED
    BY <2>1, <2>2, FS_EmptySet DEF Init, TripInv, Limit
<1>2. Init => TypeOK
  BY TypesAtFirst
<1>3. TypeOK /\ [Next]_vars => TypeOK'
  BY TypesStay
<1>4. TypeOK /\ TripInv /\ [Next]_vars => TripInv'
  BY TripInvStays
<1>5. TypeOK /\ TripInv => OneLockoutPerTrip
  BY PendingType DEF TripInv, OneLockoutPerTrip, Limit
<1> QED
  BY <1>1, <1>2, <1>3, <1>4, <1>5, PTL DEF Spec
-----------------------------------------------------------------------------
(* A penalty is enforced *)

\* A penalty reported before the last tick.
Aged == \E l \in Limit : owed[l] \in 1..(Secs[l] - 1)

\* A daemon that is down owes nothing; one that has decided since the last tick, or
\* published, did so for a penalty if one was owed by then.
EnforceInv ==
  /\ \A l \in Limit : owed[l] <= Secs[l]
  /\ ~up => \A l \in Limit : owed[l] = 0
  /\ looked => phase = "asleep"
  /\ phase = "decided" /\ Aged => verdict \in Timed
  /\ looked /\ Aged => reason \in Timed

\* What is new is not aged.
LEMMA EnforceAfterHandle ==
  ASSUME OwedType, EnforceInv, NEW m \in wire, Handle(m)
  PROVE  EnforceInv'
<1>1. /\ up /\ up' = up
      /\ owed' = [l \in Limit |-> IF m.edge[l] THEN Most(owed[l], Secs[l]) ELSE owed[l]]
      /\ UNCHANGED <<looked, phase, verdict, reason>>
  BY DEF Handle, watchdog
<1>2. ASSUME NEW l \in Limit
      PROVE  owed'[l] = owed[l] \/ owed'[l] = Secs[l]
  BY <1>1, PenaltyTypes DEF EnforceInv, OwedType, Most
<1>3. \A l \in Limit : owed'[l] <= Secs[l]
  BY <1>2, PenaltyTypes DEF EnforceInv
<1>4. Aged' => Aged
  BY <1>2, PenaltyTypes DEF Aged
<1> QED
  BY <1>1, <1>3, <1>4 DEF EnforceInv

LEMMA EnforceStays ==
  TypeOK /\ OwedType /\ PenaltyIsLongest /\ EnforceInv /\ [Next]_vars => EnforceInv'
<1> SUFFICES ASSUME TypeOK, OwedType, PenaltyIsLongest, EnforceInv, [Next]_vars
             PROVE  EnforceInv'
  OBVIOUS
<1>1. CASE \/ UNCHANGED vars \/ LogInOut \/ Launch \/ Die \/ Suspend \/ Report \/ Beat
           \/ \E l \in Limit : Trip(l)
  <2>1. UNCHANGED <<owed, up, looked, phase, verdict, reason>>
    BY <1>1 DEF vars, LogInOut, Launch, Die, Suspend, Report, Beat, Trip, watchdog, history
  <2> QED
    BY <2>1 DEF EnforceInv, Aged
<1>2. CASE Watch
  BY <1>2 DEF Watch, history, EnforceInv, Aged
<1>3. CASE Decide
  <2>1. /\ phase = "watched" /\ phase' = "decided" /\ verdict' = WantFull
        /\ UNCHANGED <<owed, up, looked, reason>>
    BY <1>3 DEF Decide, history
  <2>2. Aged => st.until > 0
    BY PenaltyTypes DEF Aged, OwedType, PenaltyIsLongest, Limit, Most
  <2>3. st.until > 0 => WantFull \in Timed
    BY DEF WantFull, TypeOK, Limit, Timed
  <2> QED
    BY <2>1, <2>2, <2>3 DEF EnforceInv, Aged
<1>4. CASE Publish
  BY <1>4 DEF Publish, history, EnforceInv, Aged
<1>5. CASE Start
  BY <1>5, PenaltyTypes DEF Start, watchdog, history, EnforceInv, Aged
<1>6. CASE Crash
  BY <1>6, PenaltyTypes DEF Crash, EnforceInv, Aged
<1>7. CASE Tick
  <2>1. /\ phase = "asleep" /\ looked' = ~up
        /\ owed' = [l \in Limit |-> Sooner(owed[l])]
        /\ UNCHANGED <<up, phase, verdict, reason>>
    BY <1>7 DEF Tick
  <2>2. ASSUME NEW l \in Limit
        PROVE  owed'[l] <= Secs[l] /\ (owed[l] = 0 => owed'[l] = 0)
    BY <2>1, PenaltyTypes DEF EnforceInv, OwedType, Sooner, Most
  <2>3. ~up => ~Aged'
    BY <2>1, <2>2, PenaltyTypes DEF EnforceInv, Aged
  <2> QED
    BY <2>1, <2>2, <2>3 DEF EnforceInv, TypeOK
<1> QED
  BY <1>1, <1>2, <1>3, <1>4, <1>5, <1>6, <1>7, EnforceAfterHandle DEF Next, Daemon

\* A penalty the daemon was told of before the last tick blocks the network, whatever
\* has become of the agent, for as long as the daemon lives and the penalty lasts.
THEOREM PenaltyIsEnforcedAlways == Spec => []PenaltyIsEnforced
<1>1. Init => OwedType /\ PenaltyIsLongest /\ EnforceInv
  BY FineType, PenaltyTypes DEF Init, OwedType, PenaltyIsLongest, EnforceInv, Aged, Most, Limit
<1>2. EnforceInv => PenaltyIsEnforced
  BY DEF EnforceInv, Aged, PenaltyIsEnforced, Rested
<1> QED
  BY <1>1, <1>2, TypesAtFirst, TypesStay, LongestStays, EnforceStays, PTL DEF Spec

-----------------------------------------------------------------------------
(* Silence is answered *)

\* The ages of the last heartbeat and of the trouble keep pace with the silence; the
\* second starts with the first decision after the freshness window.
SilenceInv ==
  /\ silent \in 0..(Fresh + Grace)
  /\ looked => phase = "asleep"
  /\ silent > 0 => session /\ up /\ st.until = 0 /\ st.health.enabled
  /\ st.seen = Never \/ silent <= st.seen \/ st.seen = Fresh
  /\ silent > Fresh \/ (silent = Fresh /\ (looked \/ phase = "decided")) =>
       since >= silent - Fresh
  /\ silent = Fresh + Grace =>
       /\ phase = "decided" => verdict # "none"
       /\ looked => reason # "none"

\* An enforced session without news is unhealthy once the freshness window is over.
LEMMA SilentIsUnhealthy ==
  ASSUME TypeOK, SilenceInv, silent >= Fresh
  PROVE  Unhealthy # "none" /\ st.until = 0
<1>1. /\ Fresh \in Nat /\ Fresh > 0 /\ silent \in Nat
      /\ st.seen \in Never..Fresh
  BY LockdownAssumption DEF SilenceInv, TypeOK
<1>2. session /\ st.until = 0 /\ st.health.enabled
  BY <1>1 DEF SilenceInv
<1>3. st.seen = Never \/ st.seen >= Fresh
  BY <1>1 DEF SilenceInv, Never
<1> QED
  BY <1>2, <1>3 DEF Unhealthy

LEMMA SilenceAfterTick ==
  ASSUME TypeOK, SilenceInv, Tick
  PROVE  SilenceInv'
<1>1. /\ Fresh \in Nat /\ Grace \in Nat /\ Fresh > 0 /\ silent \in 0..(Fresh + Grace)
      /\ st.seen \in Never..Fresh /\ since \in Never..Grace /\ st \in State
  BY LockdownAssumption DEF SilenceInv, TypeOK, State
<1>2. /\ looked /\ phase = "asleep" /\ looked' = ~up
      /\ silent' = IF session /\ up /\ st.until = 0 /\ st.health.enabled
                   THEN Least(silent + 1, Fresh + Grace) ELSE 0
      /\ since' = Older(since, Grace)
      /\ UNCHANGED <<session, up, phase, verdict, reason>>
  BY DEF Tick
<1>3. /\ st'.seen = Older(st.seen, Fresh) /\ st'.until = Sooner(st.until)
      /\ st'.health = st.health
  <2>1. st' = [st EXCEPT !.seen = Older(st.seen, Fresh), !.until = Sooner(st.until)]
    BY DEF Tick
  <2> QED
    BY <1>1, <2>1 DEF State
<1>4. CASE silent' = 0
  <2>1. 0 <= Older(st.seen, Fresh) \/ Older(st.seen, Fresh) = Never
    BY <1>1 DEF Older, Least, Never
  <2> QED
    BY <1>1, <1>2, <1>3, <1>4, <2>1 DEF SilenceInv
<1>5. CASE silent' # 0
  <2>1. /\ session /\ up /\ st.until = 0 /\ st.health.enabled /\ ~looked'
        /\ silent' = Least(silent + 1, Fresh + Grace)
    BY <1>2, <1>5
  <2>2. st'.until = 0
    BY <1>3, <2>1 DEF Sooner, Most
  <2>3. silent' \in 0..(Fresh + Grace) /\ silent' <= silent + 1
    BY <1>1, <2>1 DEF Least
  <2>4. st'.seen = Never \/ silent' <= st'.seen \/ st'.seen = Fresh
    BY <1>1, <1>3, <2>3 DEF SilenceInv, Older, Least, Never
  <2>5. silent' > Fresh => since' >= silent' - Fresh
    <3> SUFFICES ASSUME silent' > Fresh PROVE since' >= silent' - Fresh
      OBVIOUS
    <3>1. silent >= Fresh
      BY <1>1, <2>3
    <3>2. since >= silent - Fresh
      BY <1>1, <1>2, <3>1 DEF SilenceInv
    <3>3. since # Never /\ since \in Nat
      BY <1>1, <3>1, <3>2 DEF Never
    <3>4. since' = Least(since + 1, Grace)
      BY <1>2, <3>3 DEF Older
    <3>5. since' = since + 1 \/ since' = Grace
      BY <3>4 DEF Least
    <3>6. silent \in Int /\ silent' \in Int /\ silent' <= Fresh + Grace
      BY <1>1, <2>3
    <3> QED
      BY <1>1, <2>3, <3>2, <3>3, <3>5, <3>6
  <2> QED
    BY <1>2, <1>3, <2>1, <2>2, <2>3, <2>4, <2>5 DEF SilenceInv
<1> QED
  BY <1>4, <1>5

LEMMA SilenceAfterDecide ==
  ASSUME TypeOK, SilenceInv, Decide
  PROVE  SilenceInv'
<1>1. /\ Fresh \in Nat /\ Grace \in Nat /\ silent \in 0..(Fresh + Grace)
      /\ since \in Never..Grace
  BY LockdownAssumption DEF SilenceInv, TypeOK
<1>2. /\ phase = "watched" /\ phase' = "decided" /\ verdict' = WantFull
      /\ since' = IF st.until > 0 \/ Unhealthy = "none" THEN Never ELSE Most(since, 0)
      /\ UNCHANGED <<session, up, st, reason, looked, silent>>
  BY DEF Decide, history
<1>3. ~looked
  BY <1>2 DEF SilenceInv
<1>4. silent >= Fresh => since' = Most(since, 0)
  BY <1>2, SilentIsUnhealthy
<1>5. silent >= Fresh => since' >= silent - Fresh
  BY <1>1, <1>4 DEF SilenceInv, Most, Never
<1>6. silent = Fresh + Grace => verdict' # "none"
  <2> SUFFICES ASSUME silent = Fresh + Grace PROVE WantFull # "none"
    BY <1>2
  <2>1. Unhealthy # "none" /\ st.until = 0
    BY <1>1, SilentIsUnhealthy
  <2>2. Most(since, 0) >= Grace
    BY <1>1, <1>4, <1>5
  <2> QED
    BY <2>1, <2>2 DEF WantFull
<1> QED
  BY <1>1, <1>2, <1>3, <1>5, <1>6 DEF SilenceInv

LEMMA SilenceStays == TypeOK /\ SilenceInv /\ [Next]_vars => SilenceInv'
<1> SUFFICES ASSUME TypeOK, SilenceInv, [Next]_vars PROVE SilenceInv'
  OBVIOUS
<1>1. Fresh \in Nat /\ Grace \in Nat /\ Fresh > 0
  BY LockdownAssumption
<1>2. CASE UNCHANGED vars \/ Launch \/ Suspend \/ Report \/ Beat \/ \E l \in Limit : Trip(l)
  <2>1. UNCHANGED <<session, up, st, since, phase, verdict, reason, looked, silent>>
    BY <1>2 DEF vars, Launch, Suspend, Report, Beat, Trip, watchdog, history
  <2> QED
    BY <2>1 DEF SilenceInv
<1>3. CASE LogInOut
  <2>1. silent' = 0 /\ UNCHANGED <<st, phase, looked>> /\ st.seen \in Never..Fresh
    BY <1>3 DEF LogInOut, watchdog, TypeOK
  <2> QED
    BY <1>1, <2>1 DEF SilenceInv, Never
<1>4. CASE Die
  <2>1. /\ st'.seen = st.seen /\ st'.until = st.until /\ st'.health = st.health
        /\ UNCHANGED <<session, up, since, phase, verdict, reason, looked, silent>>
    BY <1>4 DEF Die, watchdog, history, TypeOK
  <2> QED
    BY <2>1 DEF SilenceInv
<1>5. CASE Watch
  <2>1. /\ ~looked /\ phase' = "watched"
        /\ UNCHANGED <<session, up, st, since, looked, silent>>
    BY <1>5 DEF Watch, history
  <2> QED
    BY <2>1 DEF SilenceInv
<1>6. CASE Publish
  <2>1. /\ phase = "decided" /\ phase' = "asleep" /\ reason' = verdict
        /\ UNCHANGED <<session, up, st, since, silent>>
    BY <1>6 DEF Publish, history
  <2> QED
    BY <2>1 DEF SilenceInv
<1>7. CASE Start
  BY <1>1, <1>7 DEF Start, watchdog, history, SilenceInv
<1>8. CASE Crash
  BY <1>1, <1>8 DEF Crash, Untold, SilenceInv
<1>9. ASSUME NEW m \in wire, Handle(m)
      PROVE  SilenceInv'
  <2>1. silent' = 0 /\ UNCHANGED <<phase, looked>>
    BY <1>9 DEF Handle, watchdog
  <2>2. st'.seen \in Never..Fresh
    BY <1>9, TypesAfterHandle DEF TypeOK
  <2> QED
    BY <1>1, <2>1, <2>2 DEF SilenceInv, Never
<1> QED
  BY <1>2, <1>3, <1>4, <1>5, <1>6, <1>7, <1>8, <1>9, SilenceAfterTick, SilenceAfterDecide
  DEF Next, Daemon

\* However the agent fell silent and whatever happened before, an enforced session
\* without news is blocked once the freshness and the grace windows are over.
THEOREM SilenceBlocksAlways == Spec => []SilenceBlocks
<1>1. Init => SilenceInv
  BY LockdownAssumption DEF Init, SilenceInv, Untold
<1>2. SilenceInv => SilenceBlocks
  BY DEF SilenceInv, SilenceBlocks, Rested
<1> QED
  BY <1>1, <1>2, TypesAtFirst, TypesStay, SilenceStays, PTL DEF Spec

=============================================================================
