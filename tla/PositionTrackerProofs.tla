------------------------ MODULE PositionTrackerProofs ------------------------
(***************************************************************************)
(* Proofs about module PositionTracker: what the viewers show, for any     *)
(* number of axes and viewers, any resolution of the encoding, and any     *)
(* threshold.                                                              *)
(***************************************************************************)
EXTENDS PositionTracker, TLAPS

USE TrackerAssumption

\* The rotation that was last sent is that of the location, and the flag the
\* teleports compare is the one that was last polled.
CachesCurrent ==
    /\ rot_cache = Rotation(last_tracked_location)
    /\ was_on_ground = on_ground

\* Only a client that gets updates shows the entity.
ShowingFollows == \A v \in Viewers : view[v] # None => tracking[v] = "active" /\ ~isNew

MovementInv == TypeOK /\ CachesCurrent /\ ShowingFollows /\ Tracked /\ LooksRight /\ GroundTold

-----------------------------------------------------------------------------
(* Arithmetic.                                                             *)

\* A number of 16 bits survives its conversion.
LEMMA AsI16Same ==
    ASSUME NEW e \in -MaxDelta - 1 .. MaxDelta
    PROVE  AsI16(e) = e
  <1> DEFINE n == 2 * MaxDelta + 2
             k == e + MaxDelta + 1
  <1>1. n \in Nat \ {0} /\ k \in 0..n - 1
    OBVIOUS
  <1>2. k % n = k
    <2> HIDE DEF n, k
    <2> QED BY <1>1
  <1>3. QED BY <1>2 DEF AsI16

LEMMA EncodeType ==
    ASSUME NEW v \in Int
    PROVE  Encode(v) \in Int
  <1>1. v >= 0 => Encode(v) = (2 * v + Sub) \div (2 * Sub)
    BY DEF Encode
  <1>2. ~(v >= 0) => Encode(v) = -((Sub - 2 * v) \div (2 * Sub))
    BY DEF Encode
  <1>3. (2 * v + Sub) \div (2 * Sub) \in Int /\ (Sub - 2 * v) \div (2 * Sub) \in Int
    OBVIOUS
  <1>4. QED BY <1>1, <1>2, <1>3

LEMMA RotationType ==
    ASSUME NEW angle \in Int
    PROVE  Bits(angle) \in Int /\ AsU8(Bits(angle)) \in Int
  <1>1. Bits(angle) \in Int
    BY DEF Bits
  <1>2. QED BY <1>1 DEF AsU8

LEMMA LocationFacts ==
    ASSUME NEW l \in Locations
    PROVE  /\ Encoded(l.pos) \in [Axes -> Int]
           /\ Rotation(l) \in [y : Int, x : Int, head : Int]
           /\ l.yaw \in Int /\ l.pitch \in Int
           /\ \A a \in Axes : Encode(l.pos[a]) \in Int
  <1>1. \A a \in Axes : Encode(l.pos[a]) \in Int
    BY EncodeType
  <1>2. QED BY <1>1, RotationType DEF Encoded, Rotation

\* The parts of Delta add up: it is what moves one encoded place to the other.
LEMMA DeltaFacts ==
    ASSUME TypeOK, NEW l \in Locations, NEW a \in Axes
    PROVE  /\ Delta(l)[a] = Encode(l.pos[a]) - Encode(last_tracked_location.pos[a])
           /\ Delta(l)[a] \in Int
           /\ ~Teleports(l, was_on_ground) => AsI16(Delta(l)[a]) = Delta(l)[a]
  <1>1. Delta(l)[a] = Encode(l.pos[a]) - Encode(last_tracked_location.pos[a])
    BY DEF Delta, EncodePosition
  <1>2. Delta(l)[a] \in Int
    BY <1>1, LocationFacts DEF TypeOK
  <1>3. ASSUME ~Teleports(l, was_on_ground)
        PROVE  AsI16(Delta(l)[a]) = Delta(l)[a]
    <2>1. ~(Delta(l)[a] < -MaxDelta - 1 \/ Delta(l)[a] > MaxDelta)
      BY <1>3 DEF Teleports
    <2>2. Delta(l)[a] \in -MaxDelta - 1 .. MaxDelta
      BY <1>2, <2>1
    <2>3. QED BY <2>2, AsI16Same
  <1>4. QED BY <1>1, <1>2, <1>3

-----------------------------------------------------------------------------
(* A poll.                                                                 *)

\* It leaves the caches current, whichever packets it made.
LEMMA PollCaches ==
    ASSUME TypeOK, CachesCurrent, NEW l \in Locations, NEW ground \in BOOLEAN, Poll(l, ground)
    PROVE  /\ CachesCurrent' /\ last_tracked_location' = l /\ on_ground' = ground
           /\ rot_cache' = Rotation(l)
           /\ tick' \in 0..SyncPeriod /\ was_on_ground' \in BOOLEAN
  <1>1. rot_cache = [y |-> rot_cache.y, x |-> rot_cache.x, head |-> rot_cache.head]
    BY DEF TypeOK
  <1>2. rot_cache' = Rotation(l)
    BY <1>1 DEF Poll, Turned, Rotation
  <1>3. was_on_ground' = ground
    BY DEF Poll, Teleports
  <1>4. tick' \in 0..SyncPeriod
    BY DEF Poll, TypeOK
  <1>5. last_tracked_location' = l /\ on_ground' = ground
    BY DEF Poll
  <1>6. QED BY <1>2, <1>3, <1>4, <1>5 DEF CachesCurrent

\* What the packets make of a view that was right.
LEMMA UpdatedView ==
    ASSUME MovementInv, NEW v \in Showing, NEW l \in Locations, NEW ground \in BOOLEAN
    PROVE  LET new == Updated(view[v], l, ground) IN
           /\ new \in Shown
           /\ \A a \in Axes :
                 /\ Teleports(l, ground) => new.pos[a] = Encode(l.pos[a])
                 /\ ~Teleports(l, ground) /\ Moved(l) =>
                       new.pos[a] + unsent[v][a] = Encode(l.pos[a])
                 /\ ~Teleports(l, ground) /\ ~Moved(l) =>
                       new.pos[a] + unsent[v][a] + Delta(l)[a] = Encode(l.pos[a])
           /\ new.y = AsU8(Bits(l.yaw)) /\ new.x = AsU8(Bits(l.pitch))
           /\ \/ new.head = AsU8(Bits(l.yaw))
              \/ /\ new.head = Untold /\ create_entity_fn = "AddPlayer" /\ v \notin turned
                 /\ Bits(l.yaw) = Bits(last_tracked_location.yaw)
           /\ new.ground \in {Untold, ground}
  <1> USE DEF MovementInv
  <1> DEFINE new == Updated(view[v], l, ground)
             last == last_tracked_location
  <1>1. v \in Viewers /\ view[v] \in Shown
    BY DEF TypeOK, Showing
  <1>2. unsent[v] \in [Axes -> Int] /\ last \in Locations
    BY <1>1 DEF TypeOK
  <1>3. new.pos = CASE Teleports(l, ground) -> Encoded(l.pos)
                    [] ~Teleports(l, ground) /\ Moved(l) ->
                         [a \in Axes |-> view[v].pos[a] + AsI16(Delta(l)[a])]
                    [] OTHER -> view[v].pos
    BY DEF Updated
  <1>4. ASSUME NEW a \in Axes
        PROVE  /\ Teleports(l, ground) => new.pos[a] = Encode(l.pos[a])
               /\ ~Teleports(l, ground) /\ Moved(l) =>
                     new.pos[a] + unsent[v][a] = Encode(l.pos[a])
               /\ ~Teleports(l, ground) /\ ~Moved(l) =>
                     new.pos[a] + unsent[v][a] + Delta(l)[a] = Encode(l.pos[a])
    <2>1. view[v].pos[a] + unsent[v][a] = Encode(last.pos[a])
      BY DEF Tracked
    <2>2. view[v].pos[a] \in Int /\ unsent[v][a] \in Int
      BY <1>1, <1>2 DEF Shown
    <2>3. Encode(l.pos[a]) \in Int /\ Encode(last.pos[a]) \in Int
      BY <1>2, LocationFacts
    <2>4. CASE Teleports(l, ground)
      BY <1>3, <2>4 DEF Encoded
    <2>5. CASE ~Teleports(l, ground)
      <3>1. ~Teleports(l, was_on_ground)
        BY <2>5 DEF Teleports
      <3>2. AsI16(Delta(l)[a]) = Delta(l)[a] /\ Delta(l)[a] \in Int
        BY <3>1, DeltaFacts
      <3>3. Delta(l)[a] = Encode(l.pos[a]) - Encode(last.pos[a])
        BY DeltaFacts
      <3>4. CASE Moved(l)
        <4>1. new.pos[a] = view[v].pos[a] + Delta(l)[a]
          BY <1>3, <2>5, <3>4, <3>2
        <4>2. QED BY <4>1, <2>1, <2>2, <2>3, <3>3, <2>5, <3>4
      <3>5. CASE ~Moved(l)
        <4>1. new.pos[a] = view[v].pos[a]
          BY <1>3, <2>5, <3>5
        <4>2. QED BY <4>1, <2>1, <2>2, <2>3, <3>3, <2>5, <3>5
      <3>6. QED BY <3>4, <3>5
    <2>6. QED BY <2>4, <2>5
  <1>5. new.pos \in [Axes -> Int]
    <2>1. Encoded(l.pos) \in [Axes -> Int] /\ view[v].pos \in [Axes -> Int]
      BY <1>1, LocationFacts DEF Shown
    <2>2. ASSUME ~Teleports(l, ground)
          PROVE  [a \in Axes |-> view[v].pos[a] + AsI16(Delta(l)[a])] \in [Axes -> Int]
      <3>1. ~Teleports(l, was_on_ground)
        BY <2>2 DEF Teleports
      <3>2. \A a \in Axes : AsI16(Delta(l)[a]) \in Int
        BY <3>1, DeltaFacts
      <3>3. QED BY <3>2, <2>1
    <2>3. QED BY <1>3, <2>1, <2>2
  <1>6. /\ rot_cache.y = Bits(last.yaw) /\ rot_cache.x = Bits(last.pitch)
        /\ rot_cache.head = Bits(last.yaw)
    BY DEF CachesCurrent, Rotation
  <1>7. /\ new.y = AsU8(Bits(l.yaw)) /\ new.x = AsU8(Bits(l.pitch))
        /\ \/ new.head = AsU8(Bits(l.yaw))
           \/ /\ new.head = Untold /\ create_entity_fn = "AddPlayer" /\ v \notin turned
              /\ Bits(l.yaw) = Bits(last.yaw)
    <2>1. /\ view[v].y = AsU8(Bits(last.yaw)) /\ view[v].x = AsU8(Bits(last.pitch))
          /\ \/ view[v].head = AsU8(Bits(last.yaw))
             \/ view[v].head = Untold /\ create_entity_fn = "AddPlayer" /\ v \notin turned
      BY DEF LooksRight
    <2>2. /\ new.y = IF Teleports(l, ground) \/ Turned(l) THEN AsU8(Bits(l.yaw)) ELSE view[v].y
          /\ new.x = IF Teleports(l, ground) \/ Turned(l) THEN AsU8(Bits(l.pitch)) ELSE view[v].x
          /\ new.head = IF tick = 0 \/ Bits(l.yaw) # rot_cache.head
                        THEN AsU8(Bits(l.yaw)) ELSE view[v].head
      BY DEF Updated
    <2>3. QED BY <1>6, <2>1, <2>2 DEF Turned
  <1>8. new.ground \in {Untold, ground}
    <2>1. view[v].ground \in {Untold, on_ground} /\ was_on_ground = on_ground
      BY DEF GroundTold, CachesCurrent
    <2>2. new.ground = IF Teleports(l, ground) \/ Turned(l) \/ Moved(l)
                       THEN ground ELSE view[v].ground
      BY DEF Updated
    <2>3. Teleports(l, ground) \/ ground = was_on_ground
      BY DEF Teleports
    <2>4. QED BY <2>1, <2>2, <2>3
  <1>9. new \in Shown
    <2>1. /\ new.y \in Int /\ new.x \in Int /\ new.head \in Int \cup {Untold}
          /\ new.ground \in BOOLEAN \cup {Untold}
      BY <1>7, <1>8, LocationFacts, RotationType
    <2>2. new = [pos |-> new.pos, y |-> new.y, x |-> new.x, head |-> new.head,
                 ground |-> new.ground]
      BY DEF Updated
    <2>3. QED BY <1>5, <2>1, <2>2 DEF Shown
  <1>10. QED BY <1>4, <1>7, <1>8, <1>9

-----------------------------------------------------------------------------
(* The invariant holds initially and every step keeps it.                  *)

LEMMA MovementInit == Init => MovementInv
  <1> SUFFICES ASSUME Init PROVE MovementInv
    OBVIOUS
  <1>1. rot_cache \in [y : Int, x : Int, head : Int] /\ last_tracked_location \in Locations
    BY LocationFacts DEF Init
  <1>2. TypeOK
    BY <1>1 DEF Init, TypeOK, Zero
  <1>3. Showing = {}
    BY DEF Init, Showing
  <1>4. QED
    BY <1>2, <1>3 DEF MovementInv, Init, CachesCurrent, ShowingFollows, Tracked, LooksRight,
                      GroundTold, Showing

LEMMA TickStep ==
    ASSUME MovementInv, NEW l \in Locations, NEW ground \in BOOLEAN, Tick(l, ground)
    PROVE  MovementInv'
  <1> USE DEF MovementInv
  <1>1. /\ CachesCurrent' /\ last_tracked_location' = l /\ on_ground' = ground
        /\ rot_cache' = Rotation(l)
        /\ tick' \in 0..SyncPeriod /\ was_on_ground' \in BOOLEAN
    BY PollCaches DEF Tick
  <1>2. Created \in Shown
    BY <1>1, LocationFacts, RotationType DEF Created, Rotation, Shown
  <1>3. /\ isNew' = FALSE
        /\ \A v \in Viewers :
              tracking'[v] = IF tracking[v] = "waiting" THEN "active" ELSE tracking[v]
        /\ tracking' \in [Viewers -> {"away", "waiting", "active"}]
    BY DEF Tick, Settle, TypeOK
  <1>4. ASSUME NEW v \in Viewers
        PROVE  /\ view'[v] \in Shown \cup {None}
               /\ unsent'[v] \in [Axes -> Int]
               /\ view'[v] # None =>
                     /\ tracking'[v] = "active"
                     /\ \A a \in Axes : view'[v].pos[a] + unsent'[v][a] = Encode(l.pos[a])
                     /\ view'[v].y = AsU8(Bits(l.yaw))
                     /\ view'[v].x = AsU8(Bits(l.pitch))
                     /\ \/ view'[v].head = AsU8(Bits(l.yaw))
                        \/ /\ view'[v].head = Untold /\ v \notin turned'
                           /\ create_entity_fn' = "AddPlayer"
                     /\ view'[v].ground \in {Untold, ground}
    <2>1. /\ view'[v] = CASE Meets(v) -> Created
                          [] Follows(v) -> Updated(view[v], l, ground)
                          [] OTHER -> view[v]
          /\ unsent'[v] = IF Follows(v) /\ ~Teleports(l, ground)
                          THEN IF Moved(l) THEN unsent[v]
                               ELSE [a \in Axes |-> unsent[v][a] + Delta(l)[a]]
                          ELSE Zero
      BY DEF Tick
    <2>2. /\ Zero \in [Axes -> Int] /\ \A a \in Axes : Zero[a] = 0
          /\ unsent[v] \in [Axes -> Int] /\ view[v] \in Shown \cup {None}
      BY DEF Zero, TypeOK
    <2>3. CASE Meets(v)
      <3>1. ~Follows(v)
        BY <2>3 DEF Meets, Follows
      <3>2. view'[v] = Created /\ unsent'[v] = Zero
        BY <2>1, <2>3, <3>1
      <3>3. tracking'[v] = "active"
        BY <1>3, <2>3 DEF Meets
      <3>4. \A a \in Axes : Created.pos[a] = Encode(l.pos[a]) /\ Encode(l.pos[a]) \in Int
        BY <1>1, LocationFacts DEF Created, Encoded
      <3>5. /\ Created.y = AsU8(Bits(l.yaw)) /\ Created.x = AsU8(Bits(l.pitch))
            /\ Created.ground = Untold
            /\ \/ Created.head = AsU8(Bits(l.yaw))
               \/ Created.head = Untold /\ create_entity_fn = "AddPlayer"
        BY <1>1 DEF Created, Rotation
      <3>6. v \notin turned' /\ UNCHANGED create_entity_fn
        BY <3>1 DEF Tick, Poll
      <3>7. QED BY <1>2, <2>2, <3>2, <3>3, <3>4, <3>5, <3>6
    <2>4. CASE Follows(v)
      <3>1. ~Meets(v) /\ v \in Showing /\ tracking[v] = "active"
        BY <2>4 DEF Meets, Follows, Showing
      <3>2. view'[v] = Updated(view[v], l, ground)
        BY <2>1, <2>4, <3>1
      <3>3. \A a \in Axes : /\ Delta(l)[a] \in Int /\ Encode(l.pos[a]) \in Int
                            /\ unsent[v][a] \in Int
        BY <2>2, DeltaFacts, LocationFacts
      <3>4. view'[v] \in Shown
        BY <3>1, <3>2, UpdatedView
      <3>5. \A a \in Axes : view'[v].pos[a] \in Int
        BY <3>4 DEF Shown
      <3>6. unsent'[v] \in [Axes -> Int]
        BY <2>1, <2>2, <3>3
      <3>7. ASSUME NEW a \in Axes
            PROVE  view'[v].pos[a] + unsent'[v][a] = Encode(l.pos[a])
        <4>1. /\ Teleports(l, ground) => view'[v].pos[a] = Encode(l.pos[a])
              /\ ~Teleports(l, ground) /\ Moved(l) =>
                    view'[v].pos[a] + unsent[v][a] = Encode(l.pos[a])
              /\ ~Teleports(l, ground) /\ ~Moved(l) =>
                    view'[v].pos[a] + unsent[v][a] + Delta(l)[a] = Encode(l.pos[a])
          BY <3>1, <3>2, UpdatedView
        <4>2. /\ Teleports(l, ground) => unsent'[v][a] = 0
              /\ ~Teleports(l, ground) /\ Moved(l) => unsent'[v][a] = unsent[v][a]
              /\ ~Teleports(l, ground) /\ ~Moved(l) =>
                    unsent'[v][a] = unsent[v][a] + Delta(l)[a]
          BY <2>1, <2>2, <2>4
        <4>3. QED BY <4>1, <4>2, <3>3, <3>5
      <3>8. /\ view'[v].y = AsU8(Bits(l.yaw)) /\ view'[v].x = AsU8(Bits(l.pitch))
            /\ \/ view'[v].head = AsU8(Bits(l.yaw))
               \/ /\ view'[v].head = Untold /\ create_entity_fn = "AddPlayer" /\ v \notin turned
                  /\ Bits(l.yaw) = Bits(last_tracked_location.yaw)
            /\ view'[v].ground \in {Untold, ground}
        BY <3>1, <3>2, UpdatedView
      <3>8a. /\ v \in turned' <=> \/ v \in turned
                                   \/ Bits(l.yaw) # Bits(last_tracked_location.yaw)
             /\ UNCHANGED create_entity_fn
        BY <2>4 DEF Tick, Poll
      <3>9. tracking'[v] = "active"
        BY <1>3, <3>1
      <3>10. QED BY <3>4, <3>6, <3>7, <3>8, <3>8a, <3>9
    <2>5. CASE ~Meets(v) /\ ~Follows(v)
      <3>1. view'[v] = view[v] /\ unsent'[v] = Zero
        BY <2>1, <2>5
      <3>2. view[v] = None
        BY <2>5 DEF Follows, ShowingFollows
      <3>3. QED BY <2>2, <3>1, <3>2
    <2>6. QED BY <2>3, <2>4, <2>5
  <1>5. view' \in [Viewers -> Shown \cup {None}] /\ unsent' \in [Viewers -> [Axes -> Int]]
    BY <1>4 DEF Tick
  <1>6. TypeOK'
    <2>1. turned' \subseteq Viewers /\ UNCHANGED create_entity_fn
      BY DEF Tick, Poll
    <2>2. QED BY <1>1, <1>3, <1>5, <2>1, LocationFacts DEF TypeOK
  <1>7. QED
    BY <1>1, <1>3, <1>4, <1>6 DEF ShowingFollows, Tracked, LooksRight, GroundTold, Showing

\* A step that leaves the entity alone, and every view as it is or empty.
LEMMA QuietStep ==
    ASSUME MovementInv, TypeOK', UNCHANGED entity,
           \A v \in Viewers : view'[v] = None \/ UNCHANGED <<view[v], unsent[v]>>,
           turned' \subseteq turned,
           ShowingFollows'
    PROVE  MovementInv'
  BY DEF MovementInv, entity, CachesCurrent, Tracked, LooksRight, GroundTold, Showing, Rotation

LEMMA MovementNext == MovementInv /\ [Next]_vars => MovementInv'
  <1> SUFFICES ASSUME MovementInv, [Next]_vars PROVE MovementInv'
    OBVIOUS
  <1>0. TypeOK /\ ShowingFollows
    BY DEF MovementInv
  <1>1. ASSUME NEW l \in Locations, NEW ground \in BOOLEAN, Tick(l, ground)
        PROVE  MovementInv'
    BY <1>1, TickStep
  <1>2. CASE TickUnfound
    <2>1. TypeOK' /\ ShowingFollows'
      BY <1>0, <1>2 DEF TypeOK, ShowingFollows, TickUnfound, Settle, entity
    <2>2. QED BY <1>2, <2>1, QuietStep DEF TickUnfound
  <1>3. ASSUME NEW v \in Viewers, Join(v)
        PROVE  MovementInv'
    <2>1. TypeOK' /\ ShowingFollows'
      BY <1>0, <1>3 DEF TypeOK, ShowingFollows, Join, entity
    <2>2. QED BY <1>3, <2>1, QuietStep DEF Join
  <1>4. ASSUME NEW v \in Viewers, Leave(v)
        PROVE  MovementInv'
    <2>1. /\ view' = [view EXCEPT ![v] = None] /\ unsent' = [unsent EXCEPT ![v] = Zero]
          /\ turned' = turned \ {v}
          /\ tracking' = [tracking EXCEPT ![v] = "away"] /\ UNCHANGED <<entity, isNew>>
          /\ Zero \in [Axes -> Int]
      BY <1>4 DEF Leave, Zero
    <2>2. TypeOK' /\ ShowingFollows'
      BY <1>0, <2>1 DEF TypeOK, ShowingFollows, entity
    <2>3. \A w \in Viewers : view'[w] = None \/ UNCHANGED <<view[w], unsent[w]>>
      BY <1>0, <2>1 DEF TypeOK
    <2>4. QED BY <2>1, <2>2, <2>3, QuietStep
  <1>5. CASE UNCHANGED vars
    <2>1. TypeOK' /\ ShowingFollows'
      BY <1>0, <1>5 DEF TypeOK, ShowingFollows, vars, entity
    <2>2. QED BY <1>5, <2>1, QuietStep DEF vars
  <1>6. QED BY <1>1, <1>2, <1>3, <1>4, <1>5 DEF Next

LEMMA MovementInvariant == Spec => []MovementInv
  BY MovementInit, MovementNext, PTL DEF Spec

-----------------------------------------------------------------------------
(* The theorems.                                                           *)

\* What is kept of the entity and of every viewer has its type.
THEOREM MovementTypes == Spec => []TypeOK
  BY MovementInvariant, PTL DEF MovementInv

\* Every client shows the entity where it is, but for what it was never sent:
\* the encoded steps of poll_location add up without rounding, for ever.
THEOREM MovementTracked == Spec => []Tracked
  BY MovementInvariant, PTL DEF MovementInv

\* Every client shows the entity turned as it is, body and head; only the head
\* of a player is unknown to a client until the player turns.
THEOREM MovementLooksRight == Spec => []LooksRight
  BY MovementInvariant, PTL DEF MovementInv

\* A client that was told of on_ground knows it.
THEOREM MovementGroundTold == Spec => []GroundTold
  BY MovementInvariant, PTL DEF MovementInv
=============================================================================
