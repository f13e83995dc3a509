----------------------------- MODULE EntityTick -----------------------------
(***************************************************************************)
(* A system that ticks its entities: the futures AwaitingEntities and      *)
(* EntityFactoryTick (src/tick.rs), awaited by the loop of a system's      *)
(* thread (src/system.rs).                                                 *)
(*                                                                         *)
(* The base and the entities are AwaitingEntity implementations of the     *)
(* library's user.  What is assumed of poll_tick is what a future promises:*)
(* an entity that has a packet takes it (Ok(true)), one that has failed    *)
(* says so at every poll (Err), and one that has nothing keeps the waker   *)
(* (Ok(false)).  What a system makes of a tick that ended is its own       *)
(* business: it may stop.                                                  *)
(*                                                                         *)
(* taken is history: who had a packet taken in the last poll.              *)
(***************************************************************************)
EXTENDS Naturals, Sequences

CONSTANTS
    base,         \* what the factory splits off for itself
    awaited,      \* the others (entities), in the order they are polled
    MaxPackets    \* bound: packets that wait for one entity

ASSUME TickAssumption ==
    /\ \A i \in DOMAIN awaited : awaited[i] # base
    /\ MaxPackets \in Nat \ {0}

VARIABLES
    inbox,        \* entity -> packets that wait for it
    failed,       \* the entities that have failed
    wakers,       \* those that keep a waker of the task
    thread,       \* "runs", "waits" for a waker, or has "stopped"
    taken

tickVars == <<inbox, failed, wakers, thread, taken>>

Entity == {base} \cup {awaited[i] : i \in DOMAIN awaited}

TickInit ==
    /\ inbox = [e \in Entity |-> 0]
    /\ failed = {} /\ wakers = {} /\ taken = {}
    /\ thread = "runs"

\* Ok(true) and Ok(false); Err for those that have failed.
Takes(e) == e \notin failed /\ inbox[e] > 0
QuietOnError(e) == ~ Takes(e)                       \* faulty: an error counts as nothing

Nothing(e) == e \notin failed /\ inbox[e] = 0

\* What polling a set of entities does to them.
Polled(es) ==
    /\ taken' = {e \in es : Takes(e)}
    /\ inbox' = [e \in Entity |-> IF e \in es /\ Takes(e) THEN inbox[e] - 1 ELSE inbox[e]]
    /\ wakers' = wakers \cup {e \in es : Nothing(e)}

UpToFirst ==                                        \* faulty: stops at the first that is found
    {awaited[i] : i \in {j \in DOMAIN awaited :
                             \A k \in 1..j - 1 : Nothing(awaited[k])}}

\* AwaitingEntities::poll goes on when it has found something.
AllOfThem == {awaited[i] : i \in DOMAIN awaited}

\* EntityFactoryTick::poll.  An error of the base ends the tick with false,
\* and no entity is polled; else it is ready if anything was found, which an
\* entity's error is, too.  A tick that ended is followed by the next one,
\* unless the system stops.
Poll ==
    /\ thread = "runs"
    /\ \/ /\ base \in failed
          /\ taken' = {}
          /\ thread' \in {"runs", "stopped"}
          /\ UNCHANGED <<inbox, wakers>>
       \/ /\ base \notin failed
          /\ Polled({base} \cup AllOfThem)
          /\ IF \A e \in {base} \cup AllOfThem : Nothing(e)
             THEN thread' = "waits"
             ELSE thread' = "runs"
    /\ UNCHANGED failed

\* TickResult::Stop, for a reason of the system's own.
Stop ==
    /\ thread = "runs"
    /\ thread' = "stopped"
    /\ UNCHANGED <<inbox, failed, wakers, taken>>

\* Something happens to an entity, and its waker is used.
Wake(e) ==
    /\ wakers' = wakers \ {e}
    /\ thread' = IF thread = "waits" /\ e \in wakers THEN "runs" ELSE thread

Arrive(e) ==
    /\ inbox[e] < MaxPackets
    /\ inbox' = [inbox EXCEPT ![e] = @ + 1]
    /\ Wake(e)
    /\ UNCHANGED <<failed, taken>>

Fail(e) ==
    /\ e \notin failed
    /\ failed' = failed \cup {e}
    /\ Wake(e)
    /\ UNCHANGED <<inbox, taken>>

TickNext == Poll \/ Stop \/ \E e \in Entity : Arrive(e) \/ Fail(e)

\* The thread's runtime polls a task that was woken.
TickSpec == TickInit /\ [][TickNext]_tickVars /\ WF_tickVars(Poll)

-----------------------------------------------------------------------------
(* Properties.                                                             *)

\* When the thread sleeps, nobody has a packet or an error to report, and
\* everybody has kept a waker to end the sleep with: the tick is pending only
\* after a poll of all of them, and no packet or error falls in between.
NoWakeUpLost ==
    thread = "waits" => \A e \in Entity : inbox[e] = 0 /\ e \notin failed /\ e \in wakers

\* A packet of an entity is taken, however many the others have and whoever
\* of them has failed, unless the entity or the base fails or the system
\* stops.  So no wake-up is lost, and nobody starves.
Served ==
    \A e \in Entity :
        (inbox[e] > 0) ~> (e \in taken \/ {e, base} \cap failed # {} \/ thread = "stopped")
=============================================================================
