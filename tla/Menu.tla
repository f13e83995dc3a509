-------------------------------- MODULE Menu --------------------------------
(***************************************************************************)
(* A menu (src/inventory.rs), open at one player: its owner changes items  *)
(* and handlers, with and without telling the client, while clicks are on  *)
(* their way.                                                              *)
(*                                                                         *)
(* A click names a slot and the state id of the last packet its client     *)
(* read; get_clicker refuses one that is not the current state_lock.  The  *)
(* client and the handlers are the environment: a client shows a slot      *)
(* changed ("guessed") as soon as it is clicked, and a handler may dispose *)
(* of the click, which refreshes the menu, or not.  Opening a menu takes   *)
(* two packets: after OpenScreen alone the client shows an empty menu, in  *)
(* state 0, and may click in it before the contents are there.             *)
(*                                                                         *)
(* untold and unseen are history: slots changed by an "unaware" operation  *)
(* and not sent since, at the server and as of the client's state id.  A   *)
(* click has in saw what its client showed, and in blind whether its slot  *)
(* was unseen.                                                             *)
(***************************************************************************)
EXTENDS Integers, Sequences, FiniteSets

CONSTANTS
    Size,            \* slots of the menu: nine for each row
    Own,             \* slots of the player's own inventory behind them
    Items, Actions,
    None, Guess,     \* no item, no action; what a client makes of a clicked slot
    MaxLock,         \* bound: changes
    MaxDown, MaxUp   \* bounds: packets and clicks under way

ASSUME MenuAssumption ==
    /\ Size \in Nat \ {0} /\ Own \in Nat \ {0}
    /\ None \notin Items \cup Actions /\ Guess \notin Items \cup {None}
    /\ MaxLock \in Nat /\ MaxDown \in Nat /\ MaxUp \in Nat

VARIABLES
    items,           \* slot -> item and action
    state_lock,
    crashed,         \* the owner's task has panicked
    down, up,        \* packets to the client, clicks to the server
    shown,           \* slot -> what the client shows
    shown_state,     \* the state id of the last packet the client has read
    open,            \* the client has the menu open
    untold, unseen

client == <<shown, shown_state, open, unseen>>
vars == <<items, state_lock, crashed, down, up, client, untold>>

Slots == 0..Size - 1
Item == Items \cup {None}
MenuItem == [item : Item, action : Actions \cup {None}]

Packets ==
    [type : {"Open", "Content"}, state : Nat, items : [Slots -> Item]]
        \cup [type : {"Slot"}, state : Nat, slot : Slots, item : Item, untold : SUBSET Slots]
        \cup [type : {"Close"}]
Clicks == [slot : 0..Size + Own - 1, state : Nat, saw : Item \cup {Guess}, blind : BOOLEAN]

TypeOK ==
    /\ items \in [Slots -> MenuItem]
    /\ state_lock \in Nat /\ crashed \in BOOLEAN
    /\ down \in Seq(Packets) /\ up \in Seq(Clicks)
    /\ shown \in [Slots -> Item \cup {Guess}] /\ shown_state \in Nat
    /\ open \in BOOLEAN
    /\ untold \subseteq Slots /\ unseen \subseteq Slots

Init ==
    /\ items = [s \in Slots |-> [item |-> None, action |-> None]]
    /\ state_lock = 0 /\ crashed = FALSE
    /\ down = <<>> /\ up = <<>>
    /\ shown = [s \in Slots |-> None] /\ shown_state = 0
    /\ open = FALSE
    /\ untold = {} /\ unseen = {}

Send(packet) == Len(down) < MaxDown /\ down' = Append(down, packet)

\* ContainerSetContent, made by refresh_contents.
Contents ==
    [type |-> "Content", state |-> state_lock, items |-> [s \in Slots |-> items[s].item]]

\* OpenScreen: what the client makes of it is a new and empty menu.
Opened == [type |-> "Open", state |-> 0, items |-> [s \in Slots |-> None]]

-----------------------------------------------------------------------------
(* The menu's operations.                                                  *)

\* send_to_player: OpenScreen and then the contents, with nothing in between.
SendToPlayer ==
    /\ ~crashed
    /\ Len(down) + 1 < MaxDown
    /\ down' = Append(Append(down, Opened), Contents)
    /\ untold' = {}
    /\ UNCHANGED <<items, state_lock, crashed, up, client>>

RefreshContents ==
    /\ Send(Contents)
    /\ untold' = {}

Refresh ==
    /\ ~crashed
    /\ RefreshContents
    /\ UNCHANGED <<items, state_lock, crashed, up, client>>

Close ==
    /\ ~crashed
    /\ Send([type |-> "Close"])
    /\ UNCHANGED <<items, state_lock, crashed, up, client, untold>>

\* set_click_handler and clear_click_handler: the lock stays.
SetClickHandler(slot, action) ==
    /\ ~crashed
    /\ items' = [items EXCEPT ![slot].action = action]
    /\ UNCHANGED <<state_lock, crashed, down, up, client, untold>>

\* set_items_unaware: a slot whose item is the same keeps its old action.
SetItemsUnaware(new) ==
    LET changed == {s \in DOMAIN new : items[s].item # new[s].item} IN
    /\ ~crashed /\ state_lock < MaxLock
    /\ items' = [s \in Slots |-> IF s \in changed THEN new[s] ELSE items[s]]
    /\ state_lock' = IF changed = {} THEN state_lock ELSE state_lock + 1
    /\ untold' = untold \cup changed
    /\ UNCHANGED <<crashed, down, up, client>>

SetItemQuietly(slot, item) ==                       \* faulty: the lock stays
    /\ items' = [items EXCEPT ![slot].item = item]
    /\ UNCHANGED state_lock

\* What set_item_unaware and set_item do when the item is another one.
ChangeItem(slot, item) ==
    /\ items[slot].item # item
    /\ items' = [items EXCEPT ![slot].item = item]
    /\ state_lock' = state_lock + 1

SetItemUnaware(slot, item) ==
    /\ ~crashed /\ state_lock < MaxLock
    /\ ChangeItem(slot, item)
    /\ untold' = untold \cup {slot}
    /\ UNCHANGED <<crashed, down, up, client>>

SetItem(slot, item) ==
    /\ ~crashed /\ state_lock < MaxLock
    /\ ChangeItem(slot, item)
    /\ untold' = untold \ {slot}
    /\ Send([type |-> "Slot", state |-> state_lock', slot |-> slot, item |-> item,
             untold |-> untold'])
    /\ UNCHANGED <<crashed, up, client>>

\* What get_clicker does with a click: None; the slot's handler, of which all
\* that matters here is whether it disposes of the click; the handlers that
\* refresh (with the player's inventory, behind the menu); or, for the slot
\* behind the last one, a panic: it is let through by slot <= len and used as
\* an index.
Accepts(click) == click.state = state_lock

Click ==
    /\ ~crashed /\ up # <<>>
    /\ up' = Tail(up)
    /\ LET click == Head(up)
           handled == Accepts(click) /\ click.slot # Size
           acts == handled /\ click.slot \in Slots /\ items[click.slot].action # None
       IN  \/ handled /\ RefreshContents /\ UNCHANGED crashed
           \/ (acts \/ ~Accepts(click)) /\ UNCHANGED <<down, untold, crashed>>
           \/ Accepts(click) /\ ~handled /\ crashed' = TRUE /\ UNCHANGED <<down, untold>>
    /\ UNCHANGED <<items, state_lock, client>>

-----------------------------------------------------------------------------
(* The client.                                                             *)

Read ==
    /\ down # <<>>
    /\ down' = Tail(down)
    /\ LET packet == Head(down) IN
       \/ /\ packet.type \in {"Open", "Content"}
          /\ shown' = packet.items /\ shown_state' = packet.state
          /\ open' = (open \/ packet.type = "Open")
          /\ unseen' = {}
       \/ /\ packet.type = "Slot"
          /\ shown' = [shown EXCEPT ![packet.slot] = packet.item]
          /\ shown_state' = packet.state
          /\ unseen' = packet.untold
          /\ UNCHANGED open
       \/ packet.type = "Close" /\ open' = FALSE /\ UNCHANGED <<shown, shown_state, unseen>>
    /\ UNCHANGED <<items, state_lock, crashed, up, untold>>

\* The player clicks a slot of the menu, or of the inventory behind it.
ClientClick(slot) ==
    /\ open /\ Len(up) < MaxUp
    /\ up' = Append(up, [slot |-> slot, state |-> shown_state,
                         saw |-> IF slot \in Slots THEN shown[slot] ELSE None,
                         blind |-> slot \in unseen])
    /\ shown' = [s \in Slots |-> IF s = slot THEN Guess ELSE shown[s]]
    /\ UNCHANGED <<items, state_lock, crashed, down, shown_state, open, untold, unseen>>

Next ==
    \/ SendToPlayer \/ Refresh \/ Close
    \/ \E slot \in Slots :
          \/ \E action \in Actions \cup {None} : SetClickHandler(slot, action)
          \/ \E item \in Item : SetItemUnaware(slot, item) \/ SetItem(slot, item)
    \/ \E n \in 1..Size : \E new \in [0..n - 1 -> MenuItem] : SetItemsUnaware(new)
    \/ Click
    \/ Read
    \/ \E slot \in 0..Size + Own - 1 : ClientClick(slot)

Spec == Init /\ [][Next]_vars

-----------------------------------------------------------------------------
(* Properties.                                                             *)

\* A click that is accepted acts on the item its player saw, whatever was
\* changed while it was on its way.  The exceptions: an item that had been
\* changed without telling the client, which then learned the new state id
\* with another slot; and a slot that the client itself showed changed.
ClicksWhatIsSeen ==
    \A i \in DOMAIN up :
        (up[i].slot \in Slots /\ Accepts(up[i])) =>
            \/ up[i].saw \in {items[up[i].slot].item, Guess}
            \/ up[i].blind
=============================================================================
