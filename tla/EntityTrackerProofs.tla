------------------------ MODULE EntityTrackerProofs ------------------------
(***************************************************************************)
(* Proofs about module EntityTracker: its invariants hold for any numbers  *)
(* of sessions and mobs, finite or not, and any assignment of uuids.  And  *)
(* about module EntityTick, the tick of the system that tracks them.       *)
(***************************************************************************)
EXTENDS EntityTracker, EntityTick, TLAPS

USE TrackerAssumption

-----------------------------------------------------------------------------
(* Facts about entries.                                                    *)

\* An id is tracked exactly when the entry of its uuid is its own.
LEMMA TrackedIff ==
    ASSUME TypeOK, NEW e \in Eids
    PROVE  e \in Tracked <=> UuidOf[e] \in DOMAIN entities /\ entities[UuidOf[e]].eid = e
  BY DEF TypeOK, Tracked, Entries, Eids

\* Every tracked id is a session in a player's state or a mob in another.
LEMMA TrackedStates ==
    ASSUME TypeOK, NEW e \in Tracked
    PROVE  /\ e \in Eids
           /\ e \in Sessions <=> StateOf(e) \in PlayerStates
           /\ entities[UuidOf[e]] \in Entries
  <1>1. PICK u \in DOMAIN entities : e = entities[u].eid
    BY DEF Tracked
  <1>2. entities[u] \in Entries /\ UuidOf[e] = u
    BY <1>1 DEF TypeOK
  <1>3. QED BY <1>1, <1>2 DEF Entries, PlayerStates, StateOf, Eids

\* After Insert(e, state), the ids tracked are e and those of other uuids.
LEMMA InsertTracked ==
    ASSUME TypeOK, NEW e \in Eids, NEW state, Insert(e, state)
    PROVE  /\ \A d \in Eids : d \in Tracked' <=> d = e \/ (d \in Tracked /\ UuidOf[d] # UuidOf[e])
           /\ Tracked' \subseteq Eids
           /\ StateOf(e)' = state
           /\ \A d \in Tracked : UuidOf[d] # UuidOf[e] => StateOf(d)' = StateOf(d)
           /\ Tracked \ Tracked' \subseteq replaced'
           /\ replaced \subseteq replaced' /\ e \notin replaced' \ replaced
           /\ UNCHANGED <<removed, views, hidden>>
  <1> DEFINE u == UuidOf[e]
  <1>1. /\ entities' = [v \in DOMAIN entities \cup {u} |->
                           IF v = u THEN [eid |-> e, state |-> state] ELSE entities[v]]
        /\ UNCHANGED <<removed, views, hidden>>
        /\ replaced' = IF u \in DOMAIN entities THEN replaced \cup ({entities[u].eid} \ {e}) ELSE replaced
    BY DEF Insert
  <1>2. /\ DOMAIN entities' = DOMAIN entities \cup {u}
        /\ entities'[u] = [eid |-> e, state |-> state]
        /\ \A v \in DOMAIN entities : v # u => entities'[v] = entities[v]
    BY <1>1
  <1>3. \A v \in DOMAIN entities : entities[v].eid \in Eids /\ UuidOf[entities[v].eid] = v
    BY DEF TypeOK, Entries, Eids
  <1>4. Tracked' = {e} \cup {entities[v].eid : v \in DOMAIN entities \ {u}}
    BY <1>2 DEF Tracked
  <1>5. \A d \in Eids : d \in Tracked' <=> d = e \/ (d \in Tracked /\ UuidOf[d] # u)
    BY <1>3, <1>4 DEF Tracked
  <1>6. Tracked' \subseteq Eids
    BY <1>3, <1>4
  <1>7. \A d \in Tracked : UuidOf[d] # u => StateOf(d)' = StateOf(d)
    BY <1>2, <1>3 DEF Tracked, StateOf
  <1>8. Tracked \ Tracked' \subseteq replaced'
    BY <1>1, <1>3, <1>4 DEF Tracked
  <1>9. replaced \subseteq replaced' /\ e \notin replaced' \ replaced
    BY <1>1
  <1>10. QED BY <1>1, <1>2, <1>5, <1>6, <1>7, <1>8, <1>9 DEF StateOf

-----------------------------------------------------------------------------
(* The invariant holds initially and every step keeps it.                  *)

LEMMA TrackerInit == Init => TrackerInv
  BY DEF Init, TrackerInv, TypeOK, RemovedAreNew, NoGhosts, Complete, LeavesClean, Tracked

\* A new entry, over an old one or not.
LEMMA InsertStep ==
    ASSUME TrackerInv, NEW e \in Eids, NEW state \in Debut, Insert(e, state),
           [eid |-> e, state |-> state] \in Entries, e \in Sessions => e \notin replaced
    PROVE  TrackerInv'
  <1> USE DEF TrackerInv
  <1>1. /\ \A d \in Eids : d \in Tracked' <=> d = e \/ (d \in Tracked /\ UuidOf[d] # UuidOf[e])
        /\ Tracked' \subseteq Eids
        /\ StateOf(e)' = state
        /\ \A d \in Tracked : UuidOf[d] # UuidOf[e] => StateOf(d)' = StateOf(d)
        /\ Tracked \ Tracked' \subseteq replaced'
        /\ replaced \subseteq replaced' /\ e \notin replaced' \ replaced
        /\ UNCHANGED <<removed, views, hidden>>
    BY InsertTracked
  <1>2. TypeOK'
    <2>1. DOMAIN entities' \subseteq Uuids
      BY DEF TypeOK, Insert, Uuids
    <2>2. \A u \in DOMAIN entities' : entities'[u] \in Entries /\ UuidOf[entities'[u].eid] = u
      BY DEF TypeOK, Insert
    <2>3. replaced' \subseteq Eids
      BY DEF TypeOK, Insert, Entries, Eids
    <2>4. QED BY <1>1, <2>1, <2>2, <2>3 DEF TypeOK
  <1>3. RemovedAreNew'
    BY <1>1 DEF RemovedAreNew
  <1>4. NoGhosts'
    <2>1. ASSUME NEW s \in Tracked' \cap Sessions
          PROVE  views[s] \subseteq (Tracked' \cup removed \cup replaced') \ {s}
      <3>1. CASE s \in Tracked
        <4>1. views[s] \subseteq (Tracked \cup removed \cup replaced) \ {s}
          BY <2>1, <3>1 DEF NoGhosts
        <4>2. QED BY <1>1, <4>1
      <3>2. CASE s \notin Tracked
        <4>1. s = e /\ s \notin replaced
          BY <1>1, <2>1, <3>2 DEF Eids
        <4>2. views[s] \subseteq replaced
          BY <2>1, <3>2, <4>1 DEF LeavesClean
        <4>3. QED BY <1>1, <4>1, <4>2
      <3>3. QED BY <3>1, <3>2
    <2>2. QED BY <1>1, <2>1 DEF NoGhosts
  <1>5. Complete'
    BY <1>1 DEF Complete, Debut
  <1>6. LeavesClean'
    <2>1. ASSUME NEW s \in Sessions \ (Tracked' \cup replaced') PROVE views[s] \subseteq replaced'
      <3>1. s \notin Tracked \cup replaced
        BY <1>1, <2>1
      <3>2. QED BY <1>1, <2>1, <3>1 DEF LeavesClean
    <2>2. QED BY <1>1, <2>1 DEF LeavesClean
  <1>7. QED BY <1>2, <1>3, <1>4, <1>5, <1>6

LEMMA RemoveEntityStep ==
    ASSUME TrackerInv, NEW u \in Uuids, RemoveEntity(u)
    PROVE  TrackerInv'
  <1> USE DEF TrackerInv
  <1> DEFINE e == entities[u].eid
  <1>1. u \in DOMAIN entities /\ e \in Eids /\ UuidOf[e] = u /\ e \in Tracked
    BY DEF RemoveEntity, TypeOK, Entries, Eids, Tracked
  <1>2. /\ entities' = [v \in DOMAIN entities \ {u} |-> entities[v]]
        /\ removed' = removed \cup {e}
        /\ views' = IF e \in Sessions
                    THEN [views EXCEPT ![e] = @ \ (removed \cup (Tracked \ {e}))]
                    ELSE views
        /\ UNCHANGED <<replaced, hidden>>
    BY DEF RemoveEntity
  <1>3. DOMAIN entities' = DOMAIN entities \ {u} /\ \A v \in DOMAIN entities' : entities'[v] = entities[v]
    BY <1>2
  <1>4. Tracked' = Tracked \ {e}
    BY <1>1, <1>3 DEF Tracked, TypeOK
  <1>5. \A d \in Tracked' : StateOf(d)' = StateOf(d)
    <2>1. ASSUME NEW d \in Tracked' PROVE UuidOf[d] \in DOMAIN entities'
      BY <1>3, <2>1 DEF Tracked, TypeOK
    <2>2. QED BY <1>3, <2>1 DEF StateOf
  <1>6. TypeOK'
    <2>1. views' \in [Sessions -> SUBSET Eids]
      BY <1>2 DEF TypeOK
    <2>2. QED BY <1>1, <1>2, <1>3, <2>1 DEF TypeOK
  <1>7. RemovedAreNew'
    BY <1>2, <1>4, <1>5 DEF RemovedAreNew
  <1>8. \A s \in Sessions : s # e => views'[s] = views[s]
    BY <1>2 DEF TypeOK
  <1>9. NoGhosts'
    <2>1. ASSUME NEW s \in Tracked' \cap Sessions
          PROVE  views'[s] \subseteq (Tracked' \cup removed' \cup replaced') \ {s}
      <3>1. views[s] \subseteq (Tracked \cup removed \cup replaced) \ {s}
        BY <1>4, <2>1 DEF NoGhosts
      <3>2. QED BY <1>2, <1>4, <1>8, <2>1, <3>1
    <2>2. QED BY <2>1 DEF NoGhosts
  <1>10. Complete'
    BY <1>2, <1>4, <1>5, <1>8 DEF Complete
  <1>11. LeavesClean'
    <2>1. ASSUME NEW s \in Sessions \ (Tracked' \cup replaced') PROVE views'[s] \subseteq replaced'
      <3>1. CASE s = e
        <4>1. views'[e] = views[e] \ (removed \cup (Tracked \ {e}))
          BY <1>2, <2>1, <3>1 DEF TypeOK
        <4>2. views[e] \subseteq (Tracked \cup removed \cup replaced) \ {e}
          BY <1>1, <2>1, <3>1 DEF NoGhosts
        <4>3. QED BY <1>2, <3>1, <4>1, <4>2
      <3>2. CASE s # e
        BY <1>2, <1>4, <1>8, <2>1, <3>2 DEF LeavesClean
      <3>3. QED BY <3>1, <3>2
    <2>2. QED BY <2>1 DEF LeavesClean
  <1>12. QED BY <1>6, <1>7, <1>9, <1>10, <1>11

LEMMA TickStep ==
    ASSUME TrackerInv, NEW found \in SUBSET Tracked, Tick(found)
    PROVE  TrackerInv'
  <1> USE DEF TrackerInv
  <1> DEFINE creates(s) == {e \in found : Due(s, e)}
             players == Tracked \cap Sessions
  <1>1. /\ views' = [s \in Sessions |->
                       IF s \in players THEN (views[s] \cup creates(s)) \ removed ELSE views[s]]
        /\ hidden' = {p \in players \X Tracked :
                        IF Due(p[1], p[2]) THEN p[2] \notin creates(p[1]) \ removed ELSE p \in hidden}
        /\ removed' = {}
        /\ entities' = [u \in DOMAIN entities |->
                           [entities[u] EXCEPT !.state = Settled(entities[u].state)]]
        /\ replaced' = replaced
    BY DEF Tick
  <1>2. DOMAIN entities' = DOMAIN entities
    BY <1>1
  <1>3. \A u \in DOMAIN entities : /\ entities'[u].eid = entities[u].eid
                                   /\ entities'[u].state = Settled(entities[u].state)
                                   /\ entities'[u] \in Entries
    <2>1. ASSUME NEW u \in DOMAIN entities
          PROVE  /\ entities'[u].eid = entities[u].eid
                 /\ entities'[u].state = Settled(entities[u].state)
                 /\ entities'[u] \in Entries
      <3>1. entities[u] \in Entries
        BY DEF TypeOK
      <3>2. entities'[u] = [entities[u] EXCEPT !.state = Settled(entities[u].state)]
        BY <1>1
      <3>3. QED BY <3>1, <3>2 DEF Entries, Settled, PlayerStates
    <2>2. QED BY <2>1
  <1>4. Tracked' = Tracked
    BY <1>2, <1>3 DEF Tracked
  <1>5. \A d \in Tracked : StateOf(d)' = Settled(StateOf(d)) /\ StateOf(d)' \notin Debut
    <2>1. ASSUME NEW d \in Tracked PROVE UuidOf[d] \in DOMAIN entities /\ entities[UuidOf[d]] \in Entries
      BY <2>1 DEF Tracked, TypeOK
    <2>2. QED BY <1>3, <2>1 DEF StateOf, Settled, Debut, Entries, PlayerStates
  <1>6. Tracked \subseteq Eids
    BY TrackedStates
  <1>7. TypeOK'
    <2>1. views' \in [Sessions -> SUBSET Eids]
      BY <1>1, <1>6 DEF TypeOK
    <2>2. hidden' \subseteq Sessions \X Eids
      BY <1>1, <1>6
    <2>3. QED BY <1>1, <1>2, <1>3, <2>1, <2>2 DEF TypeOK
  <1>8. RemovedAreNew'
    BY <1>1 DEF RemovedAreNew
  <1>9. NoGhosts'
    <2>1. ASSUME NEW s \in Tracked \cap Sessions
          PROVE  views'[s] \subseteq (Tracked \cup replaced) \ {s}
      <3>1. views[s] \subseteq (Tracked \cup removed \cup replaced) \ {s}
        BY <2>1 DEF NoGhosts
      <3>2. views'[s] = (views[s] \cup creates(s)) \ removed
        BY <1>1, <2>1
      <3>3. creates(s) \subseteq Tracked \ {s}
        BY DEF Due
      <3>4. QED BY <3>1, <3>2, <3>3
    <2>2. QED BY <1>1, <1>4, <2>1 DEF NoGhosts
  <1>10. Complete'
    <2>1. ASSUME NEW s \in Tracked \cap Sessions, NEW e \in Tracked, s # e
          PROVE  e \in views'[s] \/ <<s, e>> \in hidden'
      <3>1. views'[s] = (views[s] \cup creates(s)) \ removed
        BY <1>1, <2>1
      <3>2. <<s, e>> \in players \X Tracked
        BY <2>1
      <3>3. CASE Due(s, e)
        BY <1>1, <3>1, <3>2, <3>3
      <3>4. CASE ~Due(s, e)
        <4>1. StateOf(e) \notin Debut /\ StateOf(s) # "WaitingForPlayers"
          BY <2>1, <3>4 DEF Due
        <4>2. StateOf(s) = "Active"
          BY <2>1, <4>1, TrackedStates DEF PlayerStates
        <4>3. e \in views[s] \/ <<s, e>> \in hidden
          BY <2>1, <4>1, <4>2 DEF Complete
        <4>4. e \notin removed
          BY <2>1, <4>1 DEF RemovedAreNew
        <4>5. QED BY <1>1, <3>1, <3>2, <3>4, <4>3, <4>4
      <3>5. QED BY <3>3, <3>4
    <2>2. QED BY <1>4, <2>1 DEF Complete
  <1>11. LeavesClean'
    BY <1>1, <1>4 DEF LeavesClean
  <1>12. QED BY <1>7, <1>8, <1>9, <1>10, <1>11

LEMMA TrackerStep == TrackerInv /\ [Next]_vars => TrackerInv'
  <1> SUFFICES ASSUME TrackerInv, [Next]_vars PROVE TrackerInv'
    OBVIOUS
  <1>1. ASSUME NEW s \in Sessions, AddPlayer(s) PROVE TrackerInv'
    BY <1>1, InsertStep DEF AddPlayer, Eids, Entries, PlayerStates, Debut
  <1>2. ASSUME NEW m \in Mobs, AddEntity(m) PROVE TrackerInv'
    BY <1>2, InsertStep DEF AddEntity, Eids, Entries, Debut
  <1>3. ASSUME NEW u \in Uuids, RemoveEntity(u) PROVE TrackerInv'
    BY <1>3, RemoveEntityStep
  <1>4. ASSUME NEW found \in SUBSET Tracked, Tick(found) PROVE TrackerInv'
    BY <1>4, TickStep
  <1>5. CASE UNCHANGED vars
    BY <1>5 DEF vars, TrackerInv, TypeOK, RemovedAreNew, NoGhosts, Complete, LeavesClean,
                Tracked, StateOf
  <1>6. QED BY <1>1, <1>2, <1>3, <1>4, <1>5 DEF Next

\* The inductive invariant holds in every reachable state.
LEMMA TrackerInvariant == Spec => []TrackerInv
  BY TrackerInit, TrackerStep, PTL DEF Spec

-----------------------------------------------------------------------------
(* The results.                                                            *)

\* Sessions stay in players' states, mobs in the others, each at its own uuid.
THEOREM TrackerTypes == Spec => []TypeOK
  <1>1. TrackerInv => TypeOK
    BY DEF TrackerInv
  <1>2. QED BY <1>1, TrackerInvariant, PTL

\* No client keeps an entity that left, unless its entry was overwritten.
THEOREM TrackerNoGhosts == Spec => []NoGhosts
  <1>1. TrackerInv => NoGhosts
    BY DEF TrackerInv
  <1>2. QED BY <1>1, TrackerInvariant, PTL

\* No settled player gets updates for an entity it was never told of, but for
\* the two cases the history variable records.
THEOREM TrackerComplete == Spec => []Complete
  <1>1. TrackerInv => Complete
    BY DEF TrackerInv
  <1>2. QED BY <1>1, TrackerInvariant, PTL

\* A player leaves without entities of the level, overwritten ones excepted.
THEOREM TrackerLeavesClean == Spec => []LeavesClean
  <1>1. TrackerInv => LeavesClean
    BY DEF TrackerInv
  <1>2. QED BY <1>1, TrackerInvariant, PTL

-----------------------------------------------------------------------------
(* The tick of a system that waits for its entities.                       *)

\* A sleeping thread misses nothing, in whatever order and number packets
\* and errors come to however many entities.
THEOREM TickNoWakeUpLost == TickSpec => []NoWakeUpLost
<1>1. TickInit => NoWakeUpLost
  BY DEF TickInit, NoWakeUpLost
<1>2. ASSUME NoWakeUpLost, [TickNext]_tickVars
      PROVE  NoWakeUpLost'
  <2>1. CASE Poll
    <3>1. ASSUME thread' = "waits", NEW e \in Entity
          PROVE  inbox'[e] = 0 /\ e \notin failed' /\ e \in wakers'
      <4>1. /\ Polled({base} \cup AllOfThem)
            /\ \A d \in {base} \cup AllOfThem : Nothing(d)
            /\ UNCHANGED failed
        BY <2>1, <3>1 DEF Poll
      <4>2. e \in {base} \cup AllOfThem
        BY DEF Entity, AllOfThem
      <4>3. e \notin failed /\ inbox[e] = 0
        BY <4>1, <4>2 DEF Nothing
      <4> QED
        BY <4>1, <4>2, <4>3 DEF Polled, Takes, Nothing
    <3> QED
      BY <3>1 DEF NoWakeUpLost
  <2>2. CASE Stop
    BY <2>2 DEF Stop, NoWakeUpLost
  <2>3. ASSUME NEW e \in Entity, Arrive(e) \/ Fail(e)
        PROVE  NoWakeUpLost'
    <3>1. Wake(e)
      BY <2>3 DEF Arrive, Fail
    <3>2. thread' # "waits"
      BY <1>2, <3>1 DEF Wake, NoWakeUpLost
    <3> QED
      BY <3>2 DEF NoWakeUpLost
  <2>4. CASE UNCHANGED tickVars
    BY <1>2, <2>4 DEF tickVars, NoWakeUpLost
  <2> QED
    BY <1>2, <2>1, <2>2, <2>3, <2>4 DEF TickNext
<1> QED
  BY <1>1, <1>2, PTL DEF TickSpec
=============================================================================
