--------------------------- MODULE EntityTracker ---------------------------
(***************************************************************************)
(* Which entities the clients of a level see (src/entity/tracking.rs).     *)
(* The tracker keeps an entry per uuid and tells each tracked player of    *)
(* the others: a create packet when one of the two is new, updates         *)
(* afterwards, and a RemoveEntities packet at the end of the tick.         *)
(*                                                                         *)
(* A player's packets go through its one channel in the order they were    *)
(* sent, and nothing here depends on when it reads them: views[s] is what  *)
(* the client of session s sees once it has read them all.  Where entities *)
(* are, and which update tells it, is left out.                            *)
(*                                                                         *)
(* An entity id belongs to one connection (session) or one mob, and is     *)
(* named by it.  A player who connects again has the same uuid and another *)
(* id.  replaced and hidden are history variables.                         *)
(***************************************************************************)
EXTENDS Integers, FiniteSets

CONSTANTS
    Sessions,    \* connections of players, which are their entity ids
    Mobs,        \* entities that are no players, as their entity ids
    UuidOf       \* the uuid of each

Eids == Sessions \cup Mobs

ASSUME TrackerAssumption ==
    /\ Sessions \cap Mobs = {}
    /\ DOMAIN UuidOf = Eids
    /\ \A s \in Sessions, m \in Mobs : UuidOf[s] # UuidOf[m]

VARIABLES
    entities,    \* uuid -> entity id and TrackingState, for the tracked ones
    removed,     \* removed_entities_since_last_tick (its order is irrelevant)
    views,       \* session -> entity ids its client has
    replaced,    \* history: ids whose entry was overwritten, not removed
    hidden       \* history: <<s, id>> when the client of s was not told of id

vars == <<entities, removed, views, replaced, hidden>>

Uuids == {UuidOf[e] : e \in Eids}
PlayerStates == {"WaitingForPlayers", "Active"}
Debut == {"WaitingForPlayers", "UnknownNonPlayerEntity"}
Entries ==
    [eid : Sessions, state : PlayerStates]
        \cup [eid : Mobs, state : {"UnknownNonPlayerEntity", "KnownNonPlayerEntity"}]

Tracked == {entities[u].eid : u \in DOMAIN entities}
StateOf(e) == entities[UuidOf[e]].state

TypeOK ==
    /\ DOMAIN entities \subseteq Uuids
    /\ \A u \in DOMAIN entities : entities[u] \in Entries /\ UuidOf[entities[u].eid] = u
    /\ removed \subseteq Eids
    /\ views \in [Sessions -> SUBSET Eids]
    /\ replaced \subseteq Eids
    /\ hidden \subseteq Sessions \X Eids

Init ==
    /\ entities = [u \in {} |-> "none"]
    /\ removed = {}
    /\ views = [s \in Sessions |-> {}]
    /\ replaced = {} /\ hidden = {}

-----------------------------------------------------------------------------

\* entities.insert: an entry of the same uuid is overwritten.
Insert(e, state) ==
    LET u == UuidOf[e] IN
    /\ entities' = [v \in DOMAIN entities \cup {u} |->
                       IF v = u THEN [eid |-> e, state |-> state] ELSE entities[v]]
    /\ replaced' = IF u \in DOMAIN entities THEN replaced \cup ({entities[u].eid} \ {e}) ELSE replaced
    /\ UNCHANGED <<removed, views, hidden>>

\* The new connection of a player takes the place of the old one for good.
AddPlayer(s) == s \notin replaced /\ Insert(s, "WaitingForPlayers")

AddEntity(m) == Insert(m, "UnknownNonPlayerEntity")

RemoveEntityQuietly(u) ==                           \* faulty: nobody else is told
    /\ u \in DOMAIN entities
    /\ LET e == entities[u].eid IN
       views' = IF e \in Sessions
                THEN [views EXCEPT ![e] = @ \ (removed \cup (Tracked \ {e}))]
                ELSE views
    /\ entities' = [v \in DOMAIN entities \ {u} |-> entities[v]]
    /\ UNCHANGED <<removed, replaced, hidden>>

RemoveEntityCurrent(u) ==                           \* faulty: lingering ones are kept
    /\ u \in DOMAIN entities
    /\ LET e == entities[u].eid IN
       /\ removed' = removed \cup {e}
       /\ views' = IF e \in Sessions
                   THEN [views EXCEPT ![e] = @ \ (Tracked \ {e})]
                   ELSE views
    /\ entities' = [v \in DOMAIN entities \ {u} |-> entities[v]]
    /\ UNCHANGED <<replaced, hidden>>

\* remove_entity: a player that leaves is told to remove every entity that is
\* tracked or was removed since the last tick; the others hear at the next one.
RemoveEntity(u) ==
    /\ u \in DOMAIN entities
    /\ LET e == entities[u].eid IN
       /\ removed' = removed \cup {e}
       /\ views' = IF e \in Sessions
                   THEN [views EXCEPT ![e] = @ \ (removed \cup (Tracked \ {e}))]
                   ELSE views
    /\ entities' = [v \in DOMAIN entities \ {u} |-> entities[v]]
    /\ UNCHANGED <<replaced, hidden>>

NewOnly(s, e) == s # e /\ StateOf(e) \in Debut      \* faulty: newcomers see no one

\* The client of s is due a create packet for e, since one of them is new.
Due(s, e) ==
    s # e /\ (StateOf(e) \in Debut \/ StateOf(s) = "WaitingForPlayers")

Settled(state) ==
    CASE state = "WaitingForPlayers" -> "Active"
      [] state = "UnknownNonPlayerEntity" -> "KnownNonPlayerEntity"
      [] OTHER -> state

\* tick, with the entities (found) that the accessor has data for.  The
\* creates come first and RemoveEntities comes last, in every channel.
Tick(found) ==
    LET creates(s) == {e \in found : Due(s, e)}
        players    == Tracked \cap Sessions
    IN
    /\ views' = [s \in Sessions |->
                    IF s \in players THEN (views[s] \cup creates(s)) \ removed ELSE views[s]]
    /\ hidden' = {p \in players \X Tracked :
                     IF Due(p[1], p[2]) THEN p[2] \notin creates(p[1]) \ removed ELSE p \in hidden}
    /\ removed' = {}
    /\ entities' = [u \in DOMAIN entities |->
                       [entities[u] EXCEPT !.state = Settled(entities[u].state)]]
    /\ UNCHANGED replaced

Next ==
    \/ \E s \in Sessions : AddPlayer(s)
    \/ \E m \in Mobs : AddEntity(m)
    \/ \E u \in Uuids : RemoveEntity(u)
    \/ \E found \in SUBSET Tracked : Tick(found)

Spec == Init /\ [][Next]_vars

-----------------------------------------------------------------------------
(* Properties.                                                             *)

\* A tracked entity that the next tick removes is one that came back since it
\* was removed.  (A part of the inductive invariant, of no interest itself.)
RemovedAreNew == \A e \in Tracked \cap removed : StateOf(e) \in Debut

\* A tracked player's client has only entities that are tracked, or that the
\* next tick removes, or whose entry another id with the same uuid took: those
\* last ones nobody ever removes.  It is never told of itself.
NoGhosts ==
    \A s \in Tracked \cap Sessions :
        views[s] \subseteq (Tracked \cup removed \cup replaced) \ {s}

\* Whatever a settled player gets updates for, its client has, unless the
\* create packet was not sent because the accessor had no data that tick, or
\* was undone because the id had been removed and added within one tick.
Complete ==
    \A s \in Tracked \cap Sessions, e \in Tracked :
        (s # e /\ StateOf(s) = "Active" /\ StateOf(e) \notin Debut)
            => e \in views[s] \/ <<s, e>> \in hidden

\* A player that was removed from the tracker, and may join another level's,
\* takes no entity along but those whose entry was overwritten.
LeavesClean ==
    \A s \in Sessions \ (Tracked \cup replaced) : views[s] \subseteq replaced

\* What the comment in remove_entity says: current and lingering entities are
\* removed from the player, so that a player that left sees none.
LeavesNothing ==
    \A s \in Sessions \ (Tracked \cup replaced) : views[s] = {}

\* The inductive invariant behind the invariants above.
TrackerInv == TypeOK /\ RemovedAreNew /\ NoGhosts /\ Complete /\ LeavesClean
=============================================================================
