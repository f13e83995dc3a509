--------------------------- MODULE PlayerInventory ---------------------------
(***************************************************************************)
(* A player's own inventory (src/inventory.rs) and the operations of       *)
(* ConnectedPlayer that change it and tell the client (src/phase/play.rs). *)
(* The code has two numberings of the same places: the order in which      *)
(* refresh pushes their items, and the slot number that each setter puts   *)
(* in its packet.                                                          *)
(*                                                                         *)
(* A place is named by its array and the indices into it.  The channel to  *)
(* the client keeps its order, so own_shown is what the client shows when  *)
(* it has read all its packets.  A client changes what it shows when the   *)
(* player clicks; touched has the slots where it did, until it is told     *)
(* otherwise.  A slot of the hotbar that the player selects is passed to   *)
(* the owner, who alone can take it over (set_current_slot_unaware).       *)
(*                                                                         *)
(* What a menu (module Menu) has as well is named own here: the two can be *)
(* used together.                                                          *)
(***************************************************************************)
EXTENDS Integers, Sequences, FiniteSets

CONSTANTS
    OwnItems,      \* item stacks,
    OwnNone,       \* and no item
    SetAllLengths, \* bound: how many items set_all is given, at most 36
    Selectable,    \* bound: hotbar slots that are selected
    MaxItems,      \* bound: items in the inventory
    MaxTouched,    \* bound: slots the client has changed
    MaxStates      \* bound: state ids

ASSUME InventoryAssumption ==
    /\ OwnNone \notin OwnItems
    /\ SetAllLengths \subseteq 0..36
    /\ Selectable \subseteq 0..8
    /\ MaxItems \in Nat /\ MaxTouched \in Nat /\ MaxStates \in Nat

VARIABLES
    own_items,     \* place -> Option<ItemStack>
    current_slot,
    state_id,
    own_shown,     \* slot -> item at the client
    shown_slot,    \* the selected slot at the client
    touched,
    apart          \* one side has selected a slot that the other was not told of

ownVars == <<own_items, current_slot, state_id, own_shown, shown_slot, touched, apart>>

OwnItem == OwnItems \cup {OwnNone}
OwnSlots == 0..45

\* A row of an array.
Row(array, y, n) == [x \in 1..n |-> <<array, y, x - 1>>]

\* The order in which refresh pushes the items of the places.
Places ==
    <<<<"crafting_output", 0, 0>>>>
        \o Row("crafting", 0, 2) \o Row("crafting", 1, 2)
        \o Row("equipment", 0, 4)
        \o Row("inventory", 0, 9) \o Row("inventory", 1, 9)
        \o Row("inventory", 2, 9) \o Row("inventory", 3, 9)
        \o <<<<"offhand", 0, 0>>>>

Place == {Places[i] : i \in DOMAIN Places}

SlotByColumn(place) ==                              \* faulty: x and y swapped
    CASE place[1] = "crafting_output" -> 0
      [] place[1] = "crafting" -> place[3] * 2 + place[2] + 1
      [] place[1] = "equipment" -> 5 + place[3]
      [] place[1] = "inventory" -> place[2] * 9 + place[3] + 9
      [] place[1] = "offhand" -> 45

\* The slot number in the packets of set, set_head, set_chest, set_legs,
\* set_feet, set_offhand, set_crafting_output and set_crafting_slot.
Slot(place) ==
    CASE place[1] = "crafting_output" -> 0
      [] place[1] = "crafting" -> place[2] * 2 + place[3] + 1
      [] place[1] = "equipment" -> 5 + place[3]
      [] place[1] = "inventory" -> place[2] * 9 + place[3] + 9
      [] place[1] = "offhand" -> 45

Empty == [place \in Place |-> OwnNone]
Count(its) == Cardinality({place \in Place : its[place] # OwnNone})

OwnInit ==
    /\ own_items = Empty /\ current_slot = 0 /\ state_id = 0
    /\ own_shown = [s \in OwnSlots |-> OwnNone] /\ shown_slot = 0
    /\ touched = {} /\ apart = FALSE

\* The packet of refresh, with its effect: every slot, by its index in items.
OwnRefresh ==
    /\ own_shown' = [s \in OwnSlots |-> own_items'[Places[s + 1]]]
    /\ touched' = {}

\* clear_inventory, refresh_player_inventory and set_player_inventory: none of
\* them takes a new state id.
ClearInventory ==
    /\ own_items' = Empty
    /\ OwnRefresh
    /\ UNCHANGED <<current_slot, state_id, shown_slot, apart>>

RefreshPlayerInventory ==
    /\ UNCHANGED own_items
    /\ OwnRefresh
    /\ UNCHANGED <<current_slot, state_id, shown_slot, apart>>

SetPlayerInventory(its) ==
    /\ own_items' = [place \in Place |->
                    IF place[1] = "inventory" /\ place[2] * 9 + place[3] < Len(its)
                    THEN its[place[2] * 9 + place[3] + 1]
                    ELSE own_items[place]]
    /\ Count(own_items') <= MaxItems
    /\ OwnRefresh
    /\ UNCHANGED <<current_slot, state_id, shown_slot, apart>>

\* The setters of one place: its ContainerSetSlot carries the old state id.
SetPlace(place, item) ==
    /\ state_id < MaxStates
    /\ own_items' = [own_items EXCEPT ![place] = item]
    /\ Count(own_items') <= MaxItems
    /\ state_id' = state_id + 1
    /\ own_shown' = [own_shown EXCEPT ![Slot(place)] = item]
    /\ touched' = touched \ {Slot(place)}
    /\ UNCHANGED <<current_slot, shown_slot, apart>>

SetCurrentSlot(slot) ==
    /\ current_slot' = slot
    /\ shown_slot' = slot /\ apart' = FALSE
    /\ UNCHANGED <<own_items, state_id, own_shown, touched>>

SetCurrentSlotUnaware(slot) ==
    /\ current_slot' = slot
    /\ apart' = TRUE
    /\ UNCHANGED <<own_items, state_id, own_shown, shown_slot, touched>>

\* The player selects a slot: the read task forwards the packet, and nothing
\* in the crate acts on it.
ClientSelect(slot) ==
    /\ shown_slot' = slot
    /\ apart' = TRUE
    /\ UNCHANGED <<own_items, current_slot, state_id, own_shown, touched>>

\* The player clicks, and the client shows the slot changed at once.
ClientTouch(slot, item) ==
    /\ Cardinality(touched \cup {slot}) <= MaxTouched
    /\ touched' = touched \cup {slot}
    /\ own_shown' = [own_shown EXCEPT ![slot] = item]
    /\ UNCHANGED <<own_items, current_slot, state_id, shown_slot, apart>>

\* set_all's inputs: one item somewhere, or none.
SomeItems ==
    {[i \in 1..n |-> IF i = at THEN item ELSE OwnNone] :
        n \in SetAllLengths, at \in {1, 9, 10, 36}, item \in OwnItem}

OwnNext ==
    \/ ClearInventory \/ RefreshPlayerInventory
    \/ \E its \in SomeItems : SetPlayerInventory(its)
    \/ \E place \in Place, item \in OwnItem : SetPlace(place, item)
    \/ \E slot \in Selectable :
          SetCurrentSlot(slot) \/ SetCurrentSlotUnaware(slot) \/ ClientSelect(slot)
    \/ \E slot \in OwnSlots, item \in OwnItem : ClientTouch(slot, item)

OwnSpec == OwnInit /\ [][OwnNext]_ownVars

-----------------------------------------------------------------------------
(* Properties.                                                             *)

\* Every slot of the client shows the item of its place, unless the player
\* touched it since: the setters and refresh agree on which slot is which
\* place, and no operation leaves one out.  The selected slot is the same, but
\* for one that either side has selected on its own since the last that the
\* client was told of.
InStep ==
    /\ \A i \in DOMAIN Places :
          i - 1 \in touched \/ own_shown[i - 1] = own_items[Places[i]]
    /\ apart \/ shown_slot = current_slot
=============================================================================
