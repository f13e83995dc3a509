------------------------- MODULE PositionAuthority -------------------------
(***************************************************************************)
(* What a server promises about where it believes a player to be, with the *)
(* packets, the lock and the tasks between client and owner left out.      *)
(*                                                                         *)
(* The client is where it walks to, until it obeys the next order to be    *)
(* elsewhere.  The server learns its path step by step, from the place it  *)
(* was ordered to; and while an order is on its way it learns nothing.     *)
(* Module PlayerPosition implements this.                                  *)
(***************************************************************************)
EXTENDS Naturals, Sequences

CONSTANT Location

VARIABLES
    orders,       \* targets of the teleports that the client is yet to obey
    teleported,   \* some teleport was ordered
    path,         \* where the client was since it obeyed the last one
    known,        \* how much of that path was learnt
    believed      \* where the server believes the client to be

vars == <<orders, teleported, path, known, believed>>

Init ==
    /\ orders = <<>> /\ teleported = FALSE
    /\ \E start \in Location : path = <<start>> /\ believed = start
    /\ known = 0

\* What was learnt of the path does not count any more.
Order ==
    /\ \E to \in Location : orders' = Append(orders, to)
    /\ teleported' = TRUE
    /\ known' = 0
    /\ UNCHANGED <<path, believed>>

Obey ==
    /\ orders # <<>>
    /\ path' = <<Head(orders)>>
    /\ orders' = Tail(orders)
    /\ UNCHANGED <<teleported, known, believed>>

Walk ==
    /\ \E to \in Location : path' = Append(path, to)
    /\ UNCHANGED <<orders, teleported, known, believed>>

Learn ==
    /\ teleported /\ orders = <<>>
    /\ known < Len(path)
    /\ known' = known + 1
    /\ believed' = path[known']
    /\ UNCHANGED <<orders, teleported, path>>

Next == Order \/ Obey \/ Walk \/ Learn

Spec == Init /\ [][Next]_vars
=============================================================================
