--------------------------- MODULE InventoryProofs ---------------------------
(***************************************************************************)
(* Proofs about modules PlayerInventory and Menu: the client of a player   *)
(* shows the items that its inventory has, whatever was set and refreshed; *)
(* and a click in a menu that is let through acts on the item its player   *)
(* saw, for any size of the menu and any number of packets and clicks      *)
(* under way.                                                              *)
(***************************************************************************)
EXTENDS Menu, PlayerInventory, TLAPS

-----------------------------------------------------------------------------
(* The player's own inventory.                                             *)

Array == {"crafting_output", "crafting", "equipment", "inventory", "offhand"}
PlaceName == Array \X Nat \X Nat

\* The part of refresh's order from slot m to below slot n, to whose places
\* the setters give the same numbers.
Agrees(part, m, n) ==
    /\ part \in Seq(PlaceName) /\ Len(part) = n - m
    /\ \A i \in 1..Len(part) : Slot(part[i]) = m + i - 1

LEMMA ConcatAgrees ==
    ASSUME NEW s, NEW t, NEW l \in Nat, NEW m \in Nat, NEW n \in Nat,
           Agrees(s, l, m), Agrees(t, m, n)
    PROVE  Agrees(s \o t, l, n)
<1>1. /\ s \in Seq(PlaceName) /\ t \in Seq(PlaceName) /\ s \o t \in Seq(PlaceName)
      /\ Len(s) = m - l /\ Len(t) = n - m /\ Len(s \o t) = n - l
      /\ Len(s) \in Nat /\ Len(t) \in Nat
  <2>1. /\ s \in Seq(PlaceName) /\ t \in Seq(PlaceName)
        /\ Len(s) = m - l /\ Len(t) = n - m
    BY DEF Agrees
  <2>2. /\ s \o t \in Seq(PlaceName) /\ Len(s \o t) = Len(s) + Len(t)
        /\ Len(s) \in Nat /\ Len(t) \in Nat
    BY <2>1
  <2> QED
    BY <2>1, <2>2
<1>2. ASSUME NEW i \in 1..Len(s \o t)
      PROVE  Slot((s \o t)[i]) = l + i - 1
  <2>1. CASE i <= Len(s)
    <3>1. (s \o t)[i] = s[i] /\ i \in 1..Len(s)
      BY <1>1, <2>1
    <3> QED
      BY <3>1 DEF Agrees
  <2>2. CASE i > Len(s)
    <3>1. PICK k : k = i - Len(s)
      OBVIOUS
    <3>2. (s \o t)[i] = t[k] /\ k \in 1..Len(t)
      BY <1>1, <2>2, <3>1
    <3>3. Slot(t[k]) = m + k - 1
      BY <3>2 DEF Agrees
    <3> QED
      BY <1>1, <3>1, <3>2, <3>3
  <2> QED
    BY <1>1, <2>1, <2>2
<1> QED
  BY <1>1, <1>2 DEF Agrees

LEMMA RowAgrees ==
    ASSUME NEW array \in Array, NEW y \in Nat, NEW m \in Nat, NEW len \in Nat,
           \A x \in 0..len - 1 : Slot(<<array, y, x>>) = m + x
    PROVE  Agrees(Row(array, y, len), m, m + len)
<1>1. PICK row : row = Row(array, y, len)
  OBVIOUS
<1>2. row = [x \in 1..len |-> <<array, y, x - 1>>]
  BY <1>1 DEF Row
<1>3. ASSUME NEW x \in 1..len
      PROVE  <<array, y, x - 1>> \in PlaceName
  <2>1. x - 1 \in Nat
    OBVIOUS
  <2> QED
    BY <2>1 DEF PlaceName
<1>4. row \in Seq(PlaceName) /\ Len(row) = len
  <2>1. row \in [1..len -> PlaceName]
    BY <1>2, <1>3
  <2> QED
    BY <2>1
<1>5. ASSUME NEW i \in 1..len
      PROVE  Slot(row[i]) = m + i - 1
  <2>1. row[i] = <<array, y, i - 1>>
    BY <1>2
  <2>2. i - 1 \in 0..len - 1
    OBVIOUS
  <2>3. Slot(<<array, y, i - 1>>) = m + (i - 1)
    BY <2>2
  <2> QED
    BY <2>1, <2>3
<1>6. Len(row) = (m + len) - m
  BY <1>4
<1>7. Agrees(row, m, m + len)
  BY <1>4, <1>5, <1>6 DEF Agrees
<1> QED
  BY <1>1, <1>7

LEMMA PlacesAgree == Agrees(Places, 0, 46)
<1> DEFINE output == <<<<"crafting_output", 0, 0>>>>
           hand == <<<<"offhand", 0, 0>>>>
<1>1. Agrees(output, 0, 1)
  <2>1. <<"crafting_output", 0, 0>> \in PlaceName
    <3>1. "crafting_output" \in Array
      BY DEF Array
    <3> QED
      BY <3>1 DEF PlaceName
  <2>2. Slot(<<"crafting_output", 0, 0>>) = 0
    BY DEF Slot
  <2> QED
    BY <2>1, <2>2 DEF Agrees
<1>2. Agrees(hand, 45, 46)
  <2>1. <<"offhand", 0, 0>> \in PlaceName
    <3>1. "offhand" \in Array
      BY DEF Array
    <3> QED
      BY <3>1 DEF PlaceName
  <2>2. Slot(<<"offhand", 0, 0>>) = 45
    BY DEF Slot
  <2> QED
    BY <2>1, <2>2 DEF Agrees
<1> HIDE DEF output, hand
<1>3. ASSUME NEW y \in Nat, y <= 1
      PROVE  Agrees(Row("crafting", y, 2), y * 2 + 1, y * 2 + 1 + 2)
  <2>1. PICK m \in Nat : m = y * 2 + 1
    OBVIOUS
  <2>2. \A x \in 0..2 - 1 : Slot(<<"crafting", y, x>>) = m + x
    BY <2>1 DEF Slot
  <2>3. "crafting" \in Array
    BY DEF Array
  <2>4. Agrees(Row("crafting", y, 2), m, m + 2)
    BY <2>2, <2>3, RowAgrees
  <2> QED
    BY <2>1, <2>4
<1>4. Agrees(Row("equipment", 0, 4), 5, 5 + 4)
  <2>1. PICK m \in Nat : m = 5
    OBVIOUS
  <2>2. \A x \in 0..4 - 1 : Slot(<<"equipment", 0, x>>) = m + x
    BY <2>1 DEF Slot
  <2>3. "equipment" \in Array
    BY DEF Array
  <2>4. Agrees(Row("equipment", 0, 4), m, m + 4)
    BY <2>2, <2>3, RowAgrees
  <2> QED
    BY <2>1, <2>4
<1>5. ASSUME NEW y \in Nat, y <= 3
      PROVE  Agrees(Row("inventory", y, 9), y * 9 + 9, y * 9 + 9 + 9)
  <2>1. PICK m \in Nat : m = y * 9 + 9
    OBVIOUS
  <2>2. \A x \in 0..9 - 1 : Slot(<<"inventory", y, x>>) = m + x
    BY <2>1 DEF Slot
  <2>3. "inventory" \in Array
    BY DEF Array
  <2>4. Agrees(Row("inventory", y, 9), m, m + 9)
    BY <2>2, <2>3, RowAgrees
  <2> QED
    BY <2>1, <2>4
<1>6. /\ Agrees(Row("crafting", 0, 2), 1, 3)
      /\ Agrees(Row("crafting", 1, 2), 3, 5)
  BY <1>3
<1>7. Agrees(Row("equipment", 0, 4), 5, 9)
  BY <1>4
<1>8. /\ Agrees(Row("inventory", 0, 9), 9, 18)
      /\ Agrees(Row("inventory", 1, 9), 18, 27)
      /\ Agrees(Row("inventory", 2, 9), 27, 36)
      /\ Agrees(Row("inventory", 3, 9), 36, 45)
  BY <1>5
<1>9. PICK s1 : s1 = output \o Row("crafting", 0, 2)
  OBVIOUS
<1>10. PICK s2 : s2 = s1 \o Row("crafting", 1, 2)
  OBVIOUS
<1>11. PICK s3 : s3 = s2 \o Row("equipment", 0, 4)
  OBVIOUS
<1>12. PICK s4 : s4 = s3 \o Row("inventory", 0, 9)
  OBVIOUS
<1>13. PICK s5 : s5 = s4 \o Row("inventory", 1, 9)
  OBVIOUS
<1>14. PICK s6 : s6 = s5 \o Row("inventory", 2, 9)
  OBVIOUS
<1>15. PICK s7 : s7 = s6 \o Row("inventory", 3, 9)
  OBVIOUS
<1>16. Agrees(s1, 0, 3)
  BY <1>1, <1>6, <1>9, ConcatAgrees
<1>17. Agrees(s2, 0, 5)
  BY <1>6, <1>10, <1>16, ConcatAgrees
<1>18. Agrees(s3, 0, 9)
  BY <1>7, <1>11, <1>17, ConcatAgrees
<1>19. Agrees(s4, 0, 18)
  BY <1>8, <1>12, <1>18, ConcatAgrees
<1>20. Agrees(s5, 0, 27)
  BY <1>8, <1>13, <1>19, ConcatAgrees
<1>21. Agrees(s6, 0, 36)
  BY <1>8, <1>14, <1>20, ConcatAgrees
<1>22. Agrees(s7, 0, 45)
  BY <1>8, <1>15, <1>21, ConcatAgrees
<1>23. Agrees(s7 \o hand, 0, 46)
  BY <1>2, <1>22, ConcatAgrees
<1>24. Places = s7 \o hand
  BY <1>9, <1>10, <1>11, <1>12, <1>13, <1>14, <1>15 DEF Places, output, hand
<1> QED
  BY <1>23, <1>24

LEMMA ElementOf ==
    ASSUME NEW S, NEW s \in Seq(S), NEW i \in 1..Len(s)
    PROVE  s[i] \in S
  OBVIOUS

\* Everything a theorem needs to know about the numbering.
LEMMA Numbering ==
    /\ DOMAIN Places = 1..46
    /\ \A i \in 1..46 : Places[i] \in Place /\ Slot(Places[i]) = i - 1
    /\ \A place \in Place : \E i \in 1..46 : place = Places[i]
    /\ Place \subseteq PlaceName
<1>1. /\ Places \in Seq(PlaceName) /\ Len(Places) = 46
      /\ \A i \in 1..46 : Slot(Places[i]) = 0 + i - 1
  BY PlacesAgree DEF Agrees
<1>2. DOMAIN Places = 1..46
  BY <1>1
<1>3. \A i \in 1..46 : Places[i] \in Place
  BY <1>2 DEF Place
<1>4. \A place \in Place : \E i \in 1..46 : place = Places[i]
  BY <1>2 DEF Place
<1>5. ASSUME NEW i \in 1..46
      PROVE  Places[i] \in PlaceName
  <2>1. i \in 1..Len(Places)
    BY <1>1
  <2> QED
    BY <1>1, <2>1, ElementOf
<1>6. Place \subseteq PlaceName
  BY <1>4, <1>5
<1> QED
  BY <1>1, <1>2, <1>3, <1>4, <1>6

PlayerTypes ==
    /\ own_items \in [Place -> OwnItem]
    /\ own_shown \in [OwnSlots -> OwnItem]

PlayerInv == PlayerTypes /\ InStep

LEMMA PlayerInit ==
    ASSUME OwnInit
    PROVE  PlayerInv
<1>1. \A i \in 1..46 : i - 1 \in OwnSlots
  BY DEF OwnSlots
<1>2. PlayerTypes
  BY DEF OwnInit, Empty, OwnItem, PlayerTypes
<1>3. ASSUME NEW i \in 1..46
      PROVE  own_shown[i - 1] = own_items[Places[i]]
  <2>1. own_shown[i - 1] = OwnNone
    BY <1>1 DEF OwnInit
  <2>2. own_items[Places[i]] = OwnNone
    BY Numbering DEF OwnInit, Empty
  <2> QED
    BY <2>1, <2>2
<1> QED
  BY <1>2, <1>3, Numbering DEF OwnInit, InStep, PlayerInv

\* refresh tells the client every slot.
LEMMA RefreshInStep ==
    ASSUME own_items' \in [Place -> OwnItem], OwnRefresh
    PROVE  /\ own_shown' \in [OwnSlots -> OwnItem]
           /\ \A i \in 1..46 : own_shown'[i - 1] = own_items'[Places[i]]
<1>1. \A s \in OwnSlots : own_shown'[s] = own_items'[Places[s + 1]]
  BY DEF OwnRefresh
<1>2. \A s \in OwnSlots : own_items'[Places[s + 1]] \in OwnItem
  <2>1. \A s \in OwnSlots : s + 1 \in 1..46
    BY DEF OwnSlots
  <2> QED
    BY <2>1, Numbering
<1>3. ASSUME NEW i \in 1..46
      PROVE  own_shown'[i - 1] = own_items'[Places[i]]
  <2>1. PICK s \in OwnSlots : s = i - 1 /\ s + 1 = i
    BY DEF OwnSlots
  <2> QED
    BY <1>1, <2>1
<1>4. own_shown' \in [OwnSlots -> OwnItem]
  BY <1>2 DEF OwnRefresh
<1> QED
  BY <1>3, <1>4
\* set_all has an item for each place it fills.
LEMMA SomeItemsType ==
    ASSUME NEW its \in SomeItems
    PROVE  Len(its) \in Nat /\ \A i \in 1..Len(its) : its[i] \in OwnItem
<1>1. PICK n \in SetAllLengths, at \in {1, 9, 10, 36}, item \in OwnItem :
         its = [i \in 1..n |-> IF i = at THEN item ELSE OwnNone]
  BY DEF SomeItems
<1>2. n \in Nat
  BY InventoryAssumption
<1>3. Len(its) = n
  BY <1>1, <1>2
<1>4. OwnNone \in OwnItem
  BY DEF OwnItem
<1> QED
  BY <1>1, <1>2, <1>3, <1>4

LEMMA PlayerStep ==
    ASSUME PlayerInv, [OwnNext]_ownVars
    PROVE  PlayerInv'
<1> USE DEF PlayerInv, PlayerTypes
<1>0. OwnNone \in OwnItem
  BY DEF OwnItem
<1>1. ASSUME own_items' \in [Place -> OwnItem], OwnRefresh,
             UNCHANGED <<current_slot, shown_slot, apart>>
      PROVE  PlayerInv'
  BY <1>1, RefreshInStep, Numbering DEF InStep
<1>2. CASE ClearInventory
  <2>1. own_items' \in [Place -> OwnItem]
    BY <1>0, <1>2 DEF ClearInventory, Empty
  <2> QED
    BY <1>1, <1>2, <2>1 DEF ClearInventory
<1>3. CASE RefreshPlayerInventory
  BY <1>1, <1>3 DEF RefreshPlayerInventory
<1>4. ASSUME NEW its \in SomeItems, SetPlayerInventory(its)
      PROVE  PlayerInv'
  <2>1. ASSUME NEW place \in Place,
               place[1] = "inventory" /\ place[2] * 9 + place[3] < Len(its)
        PROVE  its[place[2] * 9 + place[3] + 1] \in OwnItem
    <3>1. place \in PlaceName
      BY Numbering
    <3>2. place[2] \in Nat /\ place[3] \in Nat
      BY <3>1 DEF PlaceName
    <3>3. place[2] * 9 + place[3] + 1 \in 1..Len(its)
      BY <2>1, <3>2, SomeItemsType
    <3> QED
      BY <3>3, SomeItemsType
  <2>2. own_items' \in [Place -> OwnItem]
    BY <1>4, <2>1 DEF SetPlayerInventory
  <2> QED
    BY <1>1, <1>4, <2>2 DEF SetPlayerInventory
<1>5. ASSUME NEW place \in Place, NEW item \in OwnItem,
             SetPlace(place, item)
      PROVE  PlayerInv'
  <2>1. PICK j \in 1..46 : place = Places[j] /\ Slot(place) = j - 1
    BY Numbering
  <2>2. /\ own_items' = [own_items EXCEPT ![place] = item]
        /\ own_shown' = [own_shown EXCEPT ![j - 1] = item]
        /\ touched' = touched \ {j - 1}
        /\ UNCHANGED <<current_slot, shown_slot, apart>>
    BY <1>5, <2>1 DEF SetPlace
  <2>3. j - 1 \in OwnSlots
    BY DEF OwnSlots
  <2>4. PlayerTypes'
    BY <2>2, <2>3
  <2>5. ASSUME NEW i \in 1..46, i - 1 \notin touched'
        PROVE  own_shown'[i - 1] = own_items'[Places[i]]
    <3>1. CASE i = j
      BY <2>1, <2>2, <2>3, <3>1
    <3>2. CASE i # j
      <4>1. Places[i] # place /\ i - 1 # j - 1
        BY <2>1, <3>2, Numbering
      <4>2. own_shown'[i - 1] = own_shown[i - 1]
        BY <2>2, <4>1
      <4>3. own_items'[Places[i]] = own_items[Places[i]]
        BY <2>2, <4>1, Numbering
      <4>4. i - 1 \notin touched
        BY <2>2, <2>5, <4>1
      <4> QED
        BY <4>2, <4>3, <4>4, Numbering DEF InStep
    <3> QED
      BY <3>1, <3>2
  <2> QED
    BY <2>2, <2>4, <2>5, Numbering DEF InStep
<1>6. ASSUME NEW slot \in Selectable,
             SetCurrentSlot(slot) \/ SetCurrentSlotUnaware(slot) \/ ClientSelect(slot)
      PROVE  PlayerInv'
  BY <1>6, Numbering DEF InStep, SetCurrentSlot, SetCurrentSlotUnaware, ClientSelect
<1>7. ASSUME NEW slot \in OwnSlots, NEW item \in OwnItem, ClientTouch(slot, item)
      PROVE  PlayerInv'
  <2>1. /\ own_shown' = [own_shown EXCEPT ![slot] = item]
        /\ touched' = touched \cup {slot}
        /\ UNCHANGED <<own_items, current_slot, shown_slot, apart>>
    BY <1>7 DEF ClientTouch
  <2>2. \A i \in 1..46 : i - 1 \notin touched' => own_shown'[i - 1] = own_shown[i - 1]
    BY <2>1
  <2> QED
    BY <2>1, <2>2, Numbering DEF InStep
<1>8. CASE UNCHANGED ownVars
  BY <1>8, Numbering DEF InStep, ownVars
<1> QED
  BY <1>2, <1>3, <1>4, <1>5, <1>6, <1>7, <1>8 DEF OwnNext

\* The client of a player shows the items that the inventory has, but for
\* slots the player has touched since, and the selected slot, unless one side
\* has selected it on its own since: the setters number the places in the
\* order in which refresh sends them.
THEOREM InventoryInStep == OwnSpec => []InStep
<1>1. PlayerInv => InStep
  BY DEF PlayerInv
<1> QED
  BY PlayerInit, PlayerStep, <1>1, PTL DEF OwnSpec

-----------------------------------------------------------------------------
(* The menu.                                                               *)

USE MenuAssumption

\* A packet that says what slot s has, and what it says.
Writes(packet, s) ==
    \/ packet.type \in {"Open", "Content"}
    \/ packet.type = "Slot" /\ packet.slot = s
Value(packet, s) == IF packet.type = "Slot" THEN packet.item ELSE packet.items[s]

\* The packets behind the i-th, up to the k-th, leave slot s alone.
Silent(s, i, k) == \A j \in i + 1 .. k : ~Writes(down[j], s)

\* When it has read the next k packets, the client shows the item of slot s,
\* or what it made of the slot itself.
Will(k, s) ==
    /\ Silent(s, 0, k) => shown[s] \in {items[s].item, Guess}
    /\ \A i \in 1..k : Writes(down[i], s) /\ Silent(s, i, k) => Value(down[i], s) = items[s].item

\* The slots of which a client that reads this packet last does not know.
Missing(packet) == IF packet.type = "Slot" THEN packet.untold ELSE {}

\* Nobody has a state id from the future.
StatesBelow ==
    /\ shown_state <= state_lock
    /\ \A k \in DOMAIN down : down[k].type # "Close" => down[k].state <= state_lock
    /\ \A i \in DOMAIN up : up[i].state <= state_lock

\* At the end of its packets the client shows what it was told of ...
WillShow == \A s \in Slots \ untold : Will(Len(down), s)

\* ... and so it does when it has the current state id, be that on the way ...
WillShowCurrent ==
    \A k \in DOMAIN down : down[k].type # "Close" /\ down[k].state = state_lock =>
        \A s \in Slots \ Missing(down[k]) : Will(k, s)

\* ... or now.
ShowsCurrent ==
    shown_state = state_lock => \A s \in Slots \ unseen : shown[s] \in {items[s].item, Guess}

\* A menu in state 0 is the empty one that its client makes of OpenScreen.
EmptyAtFirst == state_lock = 0 => \A s \in Slots : items[s].item = None

MenuInv ==
    /\ TypeOK /\ StatesBelow /\ EmptyAtFirst
    /\ WillShow /\ WillShowCurrent /\ ShowsCurrent /\ ClicksWhatIsSeen

-----------------------------------------------------------------------------
(* Queues.                                                                 *)

LEMMA AppendFacts ==
    ASSUME NEW S, NEW q \in Seq(S), NEW p \in S
    PROVE  /\ Append(q, p) \in Seq(S) /\ Len(Append(q, p)) = Len(q) + 1
           /\ \A i \in 1..Len(q) : Append(q, p)[i] = q[i]
           /\ Append(q, p)[Len(q) + 1] = p
           /\ DOMAIN q = 1..Len(q) /\ Len(q) \in Nat
           /\ DOMAIN Append(q, p) = 1..Len(q) + 1
  OBVIOUS

LEMMA TailFacts ==
    ASSUME NEW S, NEW q \in Seq(S), q # <<>>
    PROVE  /\ Tail(q) \in Seq(S) /\ Len(Tail(q)) = Len(q) - 1
           /\ \A i \in 1..Len(q) - 1 : Tail(q)[i] = q[i + 1]
           /\ Head(q) = q[1] /\ Head(q) \in S /\ Len(q) >= 1
           /\ DOMAIN q = 1..Len(q) /\ Len(q) \in Nat
           /\ DOMAIN Tail(q) = 1..Len(q) - 1
  OBVIOUS

\* Packets and clicks carry state ids.
LEMMA QueueTypes ==
    ASSUME TypeOK
    PROVE  /\ \A k \in DOMAIN down : down[k].type # "Close" => down[k].state \in Nat
           /\ \A i \in DOMAIN up : up[i].state \in Nat
           /\ shown_state \in Nat
  <1>1. \A p \in Packets : p.type # "Close" => p.state \in Nat
    BY DEF Packets
  <1>2. \A k \in DOMAIN down : down[k] \in Packets
    BY DEF TypeOK
  <1>3. \A i \in DOMAIN up : up[i] \in Clicks
    BY DEF TypeOK
  <1>4. QED BY <1>1, <1>2, <1>3 DEF Clicks, TypeOK

-----------------------------------------------------------------------------
(* What a step does to what the client will show.                          *)

\* Items, packets and the client as they are: nothing changes, but for a slot
\* that the client clicks.
LEMMA WillStays ==
    ASSUME NEW k \in Nat, NEW s, Will(k, s),
           items'[s].item = items[s].item,
           shown'[s] \in {shown[s], Guess},
           \A i \in 1..k : down'[i] = down[i]
    PROVE  Will(k, s)'
  <1>1. \A i \in 0..k : Silent(s, i, k)' <=> Silent(s, i, k)
    BY DEF Silent
  <1>2. \A i \in 1..k : /\ Writes(down[i], s)' <=> Writes(down[i], s)
                        /\ Value(down[i], s)' = Value(down[i], s)
    BY DEF Writes, Value
  <1>3. QED BY <1>1, <1>2 DEF Will

\* A packet is sent, that says nothing of the slot, or the truth.
LEMMA WillAppend ==
    ASSUME TypeOK, NEW p \in Packets, down' = Append(down, p), NEW s \in Slots,
           NEW n \in Nat, n = Len(down),
           UNCHANGED shown,
           \/ Writes(p, s) /\ Value(p, s) = items'[s].item
           \/ ~Writes(p, s) /\ Will(n, s) /\ items'[s].item = items[s].item
    PROVE  Will(n + 1, s)'
  <1>1. /\ down'[n + 1] = p
        /\ \A i \in 1..n : down'[i] = down[i]
    BY AppendFacts DEF TypeOK
  <1>2. \A i \in 0..n : Silent(s, i, n + 1)' <=> Silent(s, i, n) /\ ~Writes(p, s)
    <2> SUFFICES ASSUME NEW i \in 0..n
                 PROVE  Silent(s, i, n + 1)' <=> Silent(s, i, n) /\ ~Writes(p, s)
      OBVIOUS
    <2>1. i + 1 .. n + 1 = (i + 1 .. n) \cup {n + 1}
      BY <1>1
    <2>2. Silent(s, i, n + 1)' <=> \A j \in i + 1 .. n + 1 : ~Writes(down'[j], s)
      BY DEF Silent, Writes
    <2>3. \A j \in i + 1 .. n : down'[j] = down[j]
      BY <1>1
    <2>4. QED BY <1>1, <2>1, <2>2, <2>3 DEF Silent
  <1>3. Silent(s, n + 1, n + 1)'
    BY <1>1 DEF Silent
  <1>4. Will(n + 1, s)' <=>
          /\ Silent(s, 0, n + 1)' => shown'[s] \in {items'[s].item, Guess}
          /\ \A i \in 1..n + 1 : Writes(down'[i], s) /\ Silent(s, i, n + 1)' =>
                Value(down'[i], s) = items'[s].item
    BY DEF Will, Writes, Value
  <1>5. CASE Writes(p, s) /\ Value(p, s) = items'[s].item
    <2>1. \A i \in 0..n : ~Silent(s, i, n + 1)'
      BY <1>2, <1>5
    <2>2. QED BY <1>1, <1>4, <1>5, <2>1
  <1>6. CASE ~Writes(p, s) /\ Will(n, s) /\ items'[s].item = items[s].item
    <2>1. Silent(s, 0, n + 1)' => shown'[s] \in {items'[s].item, Guess}
      BY <1>2, <1>6 DEF Will
    <2>2. \A i \in 1..n : Writes(down'[i], s) /\ Silent(s, i, n + 1)' =>
              Value(down'[i], s) = items'[s].item
      BY <1>1, <1>2, <1>6 DEF Will
    <2>3. ~Writes(down'[n + 1], s)
      BY <1>1, <1>6
    <2>4. QED BY <1>4, <2>1, <2>2, <2>3
  <1>7. QED BY <1>5, <1>6

\* The last of some packets tells the truth of the slot.
LEMMA WillWritten ==
    ASSUME NEW k \in Nat \ {0}, NEW s, Writes(down[k], s)',
           Value(down[k], s)' = items'[s].item
    PROVE  Will(k, s)'
  <1>1. \A i \in 0..k - 1 : ~Silent(s, i, k)'
    BY DEF Silent, Writes
  <1>2. ~Silent(s, 0, k)' /\ \A i \in 1..k : Silent(s, i, k)' => i = k
    BY <1>1
  <1>3. QED BY <1>2 DEF Will

\* The client reads a packet.
LEMMA WillTail ==
    ASSUME TypeOK, down # <<>>, down' = Tail(down), UNCHANGED items,
           NEW k \in 0..Len(down) - 1, NEW s \in Slots, Will(k + 1, s),
           shown'[s] = IF Writes(Head(down), s) THEN Value(Head(down), s) ELSE shown[s]
    PROVE  Will(k, s)'
  <1>1. /\ Head(down) = down[1] /\ Len(down) \in Nat
        /\ \A i \in 1..k : down'[i] = down[i + 1]
    BY TailFacts DEF TypeOK
  <1>2. \A i \in 0..k : Silent(s, i, k)' <=> Silent(s, i + 1, k + 1)
    <2> SUFFICES ASSUME NEW i \in 0..k PROVE Silent(s, i, k)' <=> Silent(s, i + 1, k + 1)
      OBVIOUS
    <2>1. Silent(s, i, k)' <=> \A j \in i + 1 .. k : ~Writes(down[j + 1], s)
      BY <1>1 DEF Silent, Writes
    <2>2. Silent(s, i + 1, k + 1) <=> \A j \in i + 2 .. k + 1 : ~Writes(down[j], s)
      BY <1>1 DEF Silent
    <2>3. /\ \A j \in i + 1 .. k : j + 1 \in i + 2 .. k + 1
          /\ \A j \in i + 2 .. k + 1 : j - 1 \in i + 1 .. k /\ (j - 1) + 1 = j
      BY <1>1
    <2>4. QED BY <2>1, <2>2, <2>3
  <1>3. \A i \in 1..k : Writes(down'[i], s) /\ Silent(s, i, k)' =>
            Value(down'[i], s) = items[s].item
    BY <1>1, <1>2 DEF Will
  <1>4. Silent(s, 0, k)' => shown'[s] \in {items[s].item, Guess}
    <2>1. ASSUME Silent(s, 0, k)'
          PROVE  shown'[s] \in {items[s].item, Guess}
      <3>1. Silent(s, 1, k + 1)
        BY <1>2, <2>1
      <3>2. CASE Writes(down[1], s)
        BY <1>1, <3>1, <3>2 DEF Will
      <3>3. CASE ~Writes(down[1], s)
        <4>1. 0 + 1 .. k + 1 = {1} \cup (1 + 1 .. k + 1)
          BY <1>1
        <4>2. Silent(s, 0, k + 1)
          BY <3>1, <3>3, <4>1 DEF Silent
        <4>3. QED BY <1>1, <3>3, <4>2 DEF Will
      <3>4. QED BY <3>2, <3>3
    <2>2. QED BY <2>1
  <1>5. QED BY <1>3, <1>4 DEF Will, Writes, Value

-----------------------------------------------------------------------------
(* The invariant holds initially and every step keeps it.                  *)

LEMMA MenuInit == Init => MenuInv
  <1> SUFFICES ASSUME Init PROVE MenuInv
    OBVIOUS
  <1>1. down = <<>> /\ up = <<>> /\ DOMAIN down = {} /\ DOMAIN up = {} /\ Len(down) = 0
    BY DEF Init
  <1>2. TypeOK
    <2>1. /\ [s \in Slots |-> [item |-> None, action |-> None]] \in [Slots -> MenuItem]
          /\ [s \in Slots |-> None] \in [Slots -> Item \cup {Guess}]
      BY DEF MenuItem, Item
    <2>2. <<>> \in Seq(Packets) /\ <<>> \in Seq(Clicks) /\ 0 \in Nat
      OBVIOUS
    <2>3. QED BY <2>1, <2>2, Zenon DEF Init, TypeOK
  <1>3. StatesBelow /\ EmptyAtFirst /\ WillShowCurrent /\ ClicksWhatIsSeen
    BY <1>1 DEF Init, StatesBelow, EmptyAtFirst, WillShowCurrent, ClicksWhatIsSeen
  <1>4. WillShow /\ ShowsCurrent
    BY <1>1 DEF Init, WillShow, ShowsCurrent, Will
  <1>5. QED BY <1>2, <1>3, <1>4 DEF MenuInv

\* The menu's contents are sent.
LEMMA ContentsStep ==
    ASSUME MenuInv, NEW p \in Packets, p.type = "Content", p.state = state_lock,
           p.items = [s \in Slots |-> items[s].item],
           down' = Append(down, p), untold' = {}, TypeOK',
           UNCHANGED <<items, state_lock, client>>,
           \A i \in DOMAIN up' : \E j \in DOMAIN up : up'[i] = up[j]
    PROVE  MenuInv'
  <1> USE DEF MenuInv
  <1>0. PICK n \in Nat : n = Len(down)
    BY DEF TypeOK
  <1>1. /\ DOMAIN down = 1..n /\ DOMAIN down' = 1..n + 1
        /\ Len(down') = n + 1 /\ down'[n + 1] = p
        /\ \A i \in 1..n : down'[i] = down[i]
    BY <1>0, AppendFacts DEF TypeOK
  <1>2. \A s \in Slots : Will(n + 1, s)'
    <2>1. \A s \in Slots : Writes(p, s) /\ Value(p, s) = items'[s].item
      BY DEF Writes, Value
    <2>2. UNCHANGED shown
      BY DEF client
    <2>3. QED BY <1>0, <2>1, <2>2, WillAppend
  <1>3. WillShow'
    BY <1>1, <1>2 DEF WillShow
  <1>4. WillShowCurrent'
    <2>1. ASSUME NEW k \in 1..n, down[k].type # "Close", down[k].state = state_lock,
                 NEW s \in Slots \ Missing(down[k])
          PROVE  Will(k, s)'
      <3>1. Will(k, s)
        BY <1>1, <2>1 DEF WillShowCurrent
      <3>2. QED BY <1>1, <3>1, WillStays DEF client
    <2>2. ASSUME NEW k \in 1..n + 1, down'[k].type # "Close", down'[k].state = state_lock,
                 NEW s \in Slots \ Missing(down'[k])
          PROVE  Will(k, s)'
      <3>1. CASE k = n + 1
        BY <1>2, <3>1
      <3>2. CASE k # n + 1
        <4>1. k \in 1..n /\ down'[k] = down[k]
          BY <1>1, <3>2
        <4>2. QED BY <2>1, <2>2, <4>1
      <3>3. QED BY <3>1, <3>2
    <2>3. QED BY <1>1, <2>2 DEF WillShowCurrent, Missing
  <1>5. StatesBelow'
    BY <1>1 DEF StatesBelow, client, TypeOK
  <1>6. EmptyAtFirst' /\ ShowsCurrent' /\ ClicksWhatIsSeen'
    BY DEF EmptyAtFirst, ShowsCurrent, ClicksWhatIsSeen, Accepts, client
  <1>7. QED BY <1>3, <1>4, <1>5, <1>6

LEMMA ContentsType ==
    ASSUME TypeOK
    PROVE  /\ Contents \in Packets /\ Contents.type = "Content"
           /\ Contents.state = state_lock
           /\ Contents.items = [s \in Slots |-> items[s].item]
           /\ Opened \in Packets
  BY DEF TypeOK, Contents, Opened, Packets, MenuItem, Item

\* The menu is opened: an empty one, and then its contents.
LEMMA SendToPlayerStep ==
    ASSUME MenuInv, SendToPlayer
    PROVE  MenuInv'
  <1> USE DEF MenuInv
  <1>0. PICK n \in Nat : n = Len(down)
    BY DEF TypeOK
  <1>1. /\ down' = Append(Append(down, Opened), Contents) /\ untold' = {}
        /\ UNCHANGED <<items, state_lock, crashed, up, client>>
    BY DEF SendToPlayer
  <1>2. /\ Append(down, Opened) \in Seq(Packets) /\ Len(Append(down, Opened)) = n + 1
        /\ \A i \in 1..n : Append(down, Opened)[i] = down[i]
        /\ Append(down, Opened)[n + 1] = Opened
    BY <1>0, AppendFacts, ContentsType DEF TypeOK
  <1>3. /\ DOMAIN down = 1..n /\ DOMAIN down' = 1..n + 2
        /\ Len(down') = n + 2 /\ down' \in Seq(Packets)
        /\ down'[n + 2] = Contents /\ down'[n + 1] = Opened
        /\ \A i \in 1..n : down'[i] = down[i]
    <2>1. PICK q \in Seq(Packets) : q = Append(down, Opened)
      BY <1>2
    <2>2. down' = Append(q, Contents) /\ Len(q) = n + 1
      BY <1>1, <1>2, <2>1
    <2>3. /\ down' \in Seq(Packets) /\ Len(down') = (n + 1) + 1
          /\ \A i \in 1..n + 1 : down'[i] = q[i]
          /\ down'[(n + 1) + 1] = Contents
          /\ DOMAIN down' = 1..(n + 1) + 1
      BY <2>2, AppendFacts, ContentsType
    <2>4. DOMAIN down = 1..n
      BY <1>0 DEF TypeOK
    <2>5. QED BY <1>2, <2>1, <2>3, <2>4
  <1>4. TypeOK'
    BY <1>1, <1>3 DEF TypeOK, client
  <1>5. ASSUME NEW s \in Slots
        PROVE  Will(n + 2, s)'
    <2>1. Writes(down[n + 2], s)' /\ Value(down[n + 2], s)' = items'[s].item
      BY <1>1, <1>3, ContentsType DEF Writes, Value
    <2>2. QED BY <2>1, WillWritten
  <1>6. ASSUME NEW s \in Slots, state_lock = 0
        PROVE  Will(n + 1, s)'
    <2>1. Writes(down[n + 1], s)' /\ Value(down[n + 1], s)' = items'[s].item
      BY <1>1, <1>3, <1>6 DEF Writes, Value, Opened, EmptyAtFirst
    <2>2. QED BY <2>1, WillWritten
  <1>7. ASSUME NEW k \in 1..n, down[k].type # "Close", down[k].state = state_lock,
               NEW s \in Slots \ Missing(down[k])
        PROVE  Will(k, s)'
    <2>1. Will(k, s)
      BY <1>3, <1>7 DEF WillShowCurrent
    <2>2. /\ items'[s].item = items[s].item /\ shown'[s] \in {shown[s], Guess}
          /\ \A i \in 1..k : down'[i] = down[i]
      BY <1>1, <1>3 DEF client
    <2>3. QED BY <2>1, <2>2, WillStays
  <1>8. WillShow'
    BY <1>3, <1>5 DEF WillShow
  <1>9. WillShowCurrent'
    <2> SUFFICES ASSUME NEW k \in 1..n + 2, down'[k].type # "Close", down'[k].state = state_lock,
                        NEW s \in Slots \ Missing(down'[k])
                 PROVE  Will(k, s)'
      BY <1>1, <1>3 DEF WillShowCurrent, Missing
    <2>1. CASE k = n + 2
      BY <1>5, <2>1
    <2>2. CASE k = n + 1
      <3>1. state_lock = 0
        BY <1>3, <2>2 DEF Opened
      <3>2. QED BY <1>6, <2>2, <3>1
    <2>3. CASE k \in 1..n
      <3>1. down'[k] = down[k]
        BY <1>3, <2>3
      <3>2. QED BY <1>7, <2>3, <3>1
    <2>4. QED BY <2>1, <2>2, <2>3
  <1>10. StatesBelow'
    <2> SUFFICES ASSUME NEW k \in 1..n + 2, down'[k].type # "Close"
                 PROVE  down'[k].state <= state_lock
      BY <1>1, <1>3 DEF StatesBelow, client
    <2>1. CASE k = n + 2
      BY <1>3, <2>1, ContentsType DEF TypeOK
    <2>2. CASE k = n + 1
      BY <1>3, <2>2 DEF Opened, TypeOK
    <2>3. CASE k \in 1..n
      BY <1>3, <2>3 DEF StatesBelow
    <2>4. QED BY <2>1, <2>2, <2>3
  <1>11. EmptyAtFirst' /\ ShowsCurrent' /\ ClicksWhatIsSeen'
    BY <1>1 DEF EmptyAtFirst, ShowsCurrent, ClicksWhatIsSeen, Accepts, client
  <1>12. QED BY <1>4, <1>8, <1>9, <1>10, <1>11

\* The contents of slots are changed, and the lock with them.
LEMMA ChangeStep ==
    ASSUME MenuInv, NEW changed \in SUBSET Slots, TypeOK',
           state_lock' = state_lock + 1,
           \A s \in Slots \ changed : items'[s].item = items[s].item,
           untold' = untold \cup changed,
           UNCHANGED <<down, up, client>>
    PROVE  MenuInv'
  <1> USE DEF MenuInv
  <1>1. Len(down) \in Nat /\ state_lock \in Nat
    BY DEF TypeOK
  <1>2. WillShow'
    <2>1. ASSUME NEW s \in Slots \ untold'
          PROVE  Will(Len(down), s)'
      <3>1. Will(Len(down), s) /\ items'[s].item = items[s].item
        BY <2>1 DEF WillShow
      <3>2. QED BY <1>1, <3>1, WillStays DEF client
    <2>2. QED BY <2>1 DEF WillShow
  <1>3. /\ \A k \in DOMAIN down : down[k].type # "Close" => down[k].state \in Nat
        /\ \A i \in DOMAIN up : up[i].state \in Nat
        /\ shown_state \in Nat
    BY QueueTypes
  <1>4. StatesBelow'
    BY <1>1, <1>3 DEF StatesBelow, client
  <1>5. /\ \A k \in DOMAIN down : down[k].type # "Close" => down[k].state # state_lock'
        /\ \A i \in DOMAIN up : up[i].state # state_lock' /\ shown_state # state_lock'
        /\ shown_state # state_lock'
    BY <1>1, <1>3 DEF StatesBelow
  <1>6. WillShowCurrent' /\ ShowsCurrent' /\ ClicksWhatIsSeen'
    BY <1>5 DEF WillShowCurrent, ShowsCurrent, ClicksWhatIsSeen, Accepts, client
  <1>7. EmptyAtFirst'
    BY <1>1 DEF EmptyAtFirst
  <1>8. QED BY <1>2, <1>4, <1>6, <1>7

\* Items, packets to the client and what it shows stay; clicks may go.
LEMMA QuietStep ==
    ASSUME MenuInv, TypeOK', UNCHANGED <<state_lock, down, client, untold>>,
           \A s \in Slots : items'[s].item = items[s].item,
           \A i \in DOMAIN up' : \E j \in DOMAIN up : up'[i] = up[j]
    PROVE  MenuInv'
  <1> USE DEF MenuInv
  <1>1. Len(down) \in Nat /\ DOMAIN down = 1..Len(down)
    BY DEF TypeOK
  <1>2. \A k \in 0..Len(down), s \in Slots : Will(k, s) => Will(k, s)'
    BY <1>1, WillStays DEF client
  <1>3. WillShow' /\ WillShowCurrent'
    BY <1>1, <1>2 DEF WillShow, WillShowCurrent, Missing
  <1>4. StatesBelow' /\ EmptyAtFirst' /\ ShowsCurrent'
    BY DEF StatesBelow, EmptyAtFirst, ShowsCurrent, client
  <1>5. ClicksWhatIsSeen'
    BY DEF ClicksWhatIsSeen, Accepts
  <1>6. QED BY <1>3, <1>4, <1>5

\* An item is changed, and its client is told.
LEMMA SetItemStep ==
    ASSUME MenuInv, NEW slot \in Slots, NEW item \in Item, SetItem(slot, item)
    PROVE  MenuInv'
  <1> USE DEF MenuInv
  <1> DEFINE p == [type |-> "Slot", state |-> state_lock + 1, slot |-> slot, item |-> item,
                   untold |-> untold \ {slot}]
  <1>0. PICK n \in Nat : n = Len(down)
    BY DEF TypeOK
  <1>1. /\ items' = [items EXCEPT ![slot].item = item] /\ state_lock' = state_lock + 1
        /\ untold' = untold \ {slot} /\ down' = Append(down, p)
        /\ UNCHANGED <<crashed, up, client>>
    BY DEF SetItem, ChangeItem, Send
  <1>2. state_lock \in Nat /\ untold \subseteq Slots /\ items \in [Slots -> MenuItem]
    BY DEF TypeOK
  <1>3. p \in Packets
    BY <1>2 DEF Packets
  <1>4. /\ DOMAIN down = 1..n /\ DOMAIN down' = 1..n + 1
        /\ Len(down') = n + 1 /\ down'[n + 1] = p
        /\ \A i \in 1..n : down'[i] = down[i]
        /\ down' \in Seq(Packets)
    BY <1>0, <1>1, <1>3, AppendFacts DEF TypeOK
  <1>5. /\ items' \in [Slots -> MenuItem] /\ items'[slot].item = item
        /\ \A s \in Slots \ {slot} : items'[s] = items[s]
    BY <1>1, <1>2 DEF MenuItem
  <1>6. TypeOK'
    <2>1. state_lock' \in Nat /\ untold' \subseteq Slots
      BY <1>1, <1>2
    <2>2. QED BY <1>1, <1>4, <1>5, <2>1 DEF TypeOK, client
  <1>7. \A s \in Slots \ untold' : Will(n + 1, s)'
    <2> SUFFICES ASSUME NEW s \in Slots \ untold' PROVE Will(n + 1, s)'
      OBVIOUS
    <2>1. UNCHANGED shown
      BY <1>1 DEF client
    <2>2. CASE s = slot
      <3>1. Writes(p, s) /\ Value(p, s) = items'[s].item
        BY <1>5, <2>2 DEF Writes, Value
      <3>2. QED BY <1>0, <1>1, <1>3, <2>1, <3>1, WillAppend
    <2>3. CASE s # slot
      <3>1. s \notin untold
        BY <1>1, <2>3
      <3>2. Will(n, s)
        BY <1>0, <3>1 DEF WillShow
      <3>3. ~Writes(p, s) /\ items'[s].item = items[s].item
        BY <1>5, <2>3 DEF Writes
      <3>4. QED BY <1>0, <1>1, <1>3, <2>1, <3>2, <3>3, WillAppend
    <2>4. QED BY <2>2, <2>3
  <1>8. WillShow'
    BY <1>4, <1>7 DEF WillShow
  <1>9. /\ \A k \in 1..n : down[k].type # "Close" =>
                down[k].state \in Nat /\ down[k].state <= state_lock
        /\ \A i \in DOMAIN up : up[i].state \in Nat /\ up[i].state <= state_lock
        /\ shown_state \in Nat /\ shown_state <= state_lock
    BY <1>4, QueueTypes DEF StatesBelow
  <1>10. WillShowCurrent'
    <2> SUFFICES ASSUME NEW k \in 1..n + 1, down'[k].type # "Close",
                        down'[k].state = state_lock', NEW s \in Slots \ Missing(down'[k])
                 PROVE  Will(k, s)'
      BY <1>4 DEF WillShowCurrent, Missing
    <2>1. k = n + 1
      <3>1. ASSUME k # n + 1 PROVE FALSE
        <4>1. k \in 1..n /\ down'[k] = down[k]
          BY <1>4, <3>1
        <4>2. down[k].state \in Nat /\ down[k].state <= state_lock
          BY <1>9, <4>1
        <4>3. state_lock' = state_lock + 1 /\ state_lock \in Nat /\ down[k].state = state_lock'
          BY <1>1, <1>2, <4>1
        <4>4. QED BY <4>2, <4>3
      <3>2. QED BY <3>1
    <2>2. Missing(down'[k]) = untold'
      BY <1>1, <1>4, <2>1 DEF Missing
    <2>3. QED BY <1>7, <2>1, <2>2
  <1>11. StatesBelow'
    <2>1. \A k \in 1..n + 1 : down'[k].type # "Close" => down'[k].state <= state_lock'
      <3> SUFFICES ASSUME NEW k \in 1..n + 1, down'[k].type # "Close"
                   PROVE  down'[k].state <= state_lock'
        OBVIOUS
      <3>1. CASE k = n + 1
        BY <1>1, <1>2, <1>4, <3>1
      <3>2. CASE k # n + 1
        <4>1. k \in 1..n /\ down'[k] = down[k]
          BY <1>4, <3>2
        <4>2. down[k].state \in Nat /\ down[k].state <= state_lock
          BY <1>9, <4>1
        <4>3. state_lock' = state_lock + 1 /\ state_lock \in Nat
          BY <1>1, <1>2
        <4>4. QED BY <4>1, <4>2, <4>3
      <3>3. QED BY <3>1, <3>2
    <2>2. QED BY <1>1, <1>2, <1>4, <1>9, <2>1 DEF StatesBelow, client
  <1>12. ShowsCurrent' /\ ClicksWhatIsSeen'
    <2>1. shown_state' # state_lock' /\ \A i \in DOMAIN up' : up'[i].state # state_lock'
      BY <1>1, <1>2, <1>9 DEF client
    <2>2. QED BY <2>1 DEF ShowsCurrent, ClicksWhatIsSeen, Accepts
  <1>13. EmptyAtFirst'
    BY <1>1, <1>2 DEF EmptyAtFirst
  <1>14. QED BY <1>6, <1>8, <1>10, <1>11, <1>12, <1>13

\* ContainerClose says nothing of any slot.
LEMMA CloseStep ==
    ASSUME MenuInv, Close
    PROVE  MenuInv'
  <1> USE DEF MenuInv
  <1> DEFINE p == [type |-> "Close"]
  <1>0. PICK n \in Nat : n = Len(down)
    BY DEF TypeOK
  <1>1. p \in Packets /\ down' = Append(down, p) /\ UNCHANGED <<items, state_lock, crashed, up, client, untold>>
    BY DEF Close, Send, Packets
  <1>2. /\ DOMAIN down = 1..n /\ DOMAIN down' = 1..n + 1
        /\ Len(down') = n + 1 /\ down'[n + 1] = p
        /\ \A i \in 1..n : down'[i] = down[i]
        /\ down' \in Seq(Packets)
    BY <1>0, <1>1, AppendFacts DEF TypeOK
  <1>3. TypeOK'
    BY <1>1, <1>2 DEF TypeOK, client
  <1>4. WillShow'
    <2>1. ASSUME NEW s \in Slots \ untold
          PROVE  Will(n + 1, s)'
      <3>1. Will(n, s)
        BY <1>0 DEF WillShow
      <3>2. ~Writes(p, s) /\ items'[s].item = items[s].item /\ UNCHANGED shown
        BY <1>1 DEF Writes, client
      <3>3. QED BY <1>0, <1>1, <3>1, <3>2, WillAppend
    <2>2. QED BY <1>1, <1>2, <2>1 DEF WillShow
  <1>5. WillShowCurrent'
    <2> SUFFICES ASSUME NEW k \in 1..n + 1, down'[k].type # "Close",
                        down'[k].state = state_lock', NEW s \in Slots \ Missing(down'[k])
                 PROVE  Will(k, s)'
      BY <1>2 DEF WillShowCurrent, Missing
    <2>1. k \in 1..n /\ down'[k] = down[k]
      BY <1>2
    <2>2. Will(k, s)
      BY <1>1, <1>2, <2>1 DEF WillShowCurrent
    <2>3. QED BY <1>1, <1>2, <2>1, <2>2, WillStays DEF client
  <1>6. StatesBelow' /\ ShowsCurrent' /\ ClicksWhatIsSeen'
    <2>1. \A k \in 1..n + 1 : down'[k].type # "Close" => k \in 1..n /\ down'[k] = down[k]
      BY <1>2
    <2>2. QED BY <1>1, <1>2, <2>1 DEF StatesBelow, ShowsCurrent, ClicksWhatIsSeen, Accepts, client
  <1>7. EmptyAtFirst'
    BY <1>1 DEF EmptyAtFirst
  <1>8. QED BY <1>3, <1>4, <1>5, <1>6, <1>7

\* The client reads a packet.
LEMMA ReadStep ==
    ASSUME MenuInv, Read
    PROVE  MenuInv'
  <1> USE DEF MenuInv
  <1> DEFINE p == Head(down)
  <1>0. PICK n \in Nat : n = Len(down)
    BY DEF TypeOK
  <1>1. /\ down # <<>> /\ down' = Tail(down) /\ p = down[1] /\ p \in Packets
        /\ DOMAIN down = 1..n /\ DOMAIN down' = 1..n - 1 /\ Len(down') = n - 1 /\ n >= 1
        /\ down' \in Seq(Packets)
        /\ \A i \in 1..n - 1 : down'[i] = down[i + 1]
        /\ UNCHANGED <<items, state_lock, crashed, up, untold>>
    BY <1>0, TailFacts DEF Read, TypeOK
  <1>2. \A s \in Slots : shown'[s] = IF Writes(p, s) THEN Value(p, s) ELSE shown[s]
    <2>1. CASE p.type \in {"Open", "Content"} /\ shown' = p.items
      BY <2>1 DEF Writes, Value
    <2>2. CASE p.type = "Slot" /\ shown' = [shown EXCEPT ![p.slot] = p.item]
      BY <2>2 DEF Writes, Value, TypeOK
    <2>3. CASE p.type = "Close" /\ shown' = shown
      BY <2>3 DEF Writes
    <2>4. QED BY <2>1, <2>2, <2>3 DEF Read
  <1>3. /\ p.type # "Close" => /\ shown_state' = p.state /\ unseen' = Missing(p)
                               /\ p.state \in Nat /\ p.state <= state_lock
        /\ p.type = "Close" => UNCHANGED <<shown, shown_state, unseen>>
    <2>1. p.type # "Close" => p.state \in Nat /\ p.state <= state_lock
      BY <1>1, QueueTypes DEF StatesBelow
    <2>2. QED BY <2>1 DEF Read, Missing
  <1>4. TypeOK'
    <2>1. /\ p.type \in {"Open", "Content"} => p.items \in [Slots -> Item]
          /\ p.type = "Slot" => p.item \in Item /\ p.slot \in Slots /\ p.untold \subseteq Slots
          /\ p.type \in {"Open", "Content", "Slot", "Close"}
      BY <1>1 DEF Packets
    <2>2. shown' \in [Slots -> Item \cup {Guess}]
      BY <2>1 DEF Read, TypeOK
    <2>3. unseen' \subseteq Slots /\ shown_state' \in Nat
      BY <1>3, <2>1 DEF TypeOK, Missing
    <2>4. open' \in BOOLEAN
      BY DEF Read, TypeOK
    <2>5. QED BY <1>1, <2>2, <2>3, <2>4 DEF TypeOK
  <1>5. \A k \in 0..n - 1, s \in Slots : Will(k + 1, s) => Will(k, s)'
    BY <1>0, <1>1, <1>2, WillTail
  <1>6. WillShow'
    <2>1. \A s \in Slots \ untold : Will(n, s)
      BY <1>0 DEF WillShow
    <2>2. n - 1 \in 0..n - 1 /\ (n - 1) + 1 = n
      BY <1>1
    <2>3. \A s \in Slots \ untold : Will(n - 1, s)'
      BY <1>5, <2>1, <2>2
    <2>4. QED BY <1>1, <2>3 DEF WillShow
  <1>7. WillShowCurrent'
    <2> SUFFICES ASSUME NEW k \in 1..n - 1, down'[k].type # "Close",
                        down'[k].state = state_lock', NEW s \in Slots \ Missing(down'[k])
                 PROVE  Will(k, s)'
      BY <1>1 DEF WillShowCurrent, Missing
    <2>1. k + 1 \in 1..n /\ down'[k] = down[k + 1] /\ k \in 0..n - 1
      BY <1>1
    <2>2. Will(k + 1, s)
      BY <1>1, <2>1 DEF WillShowCurrent
    <2>3. QED BY <1>5, <2>1, <2>2
  <1>8. ShowsCurrent'
    <2>1. CASE p.type = "Close"
      BY <1>1, <1>3, <2>1 DEF ShowsCurrent
    <2>2. CASE p.type # "Close"
      <3> SUFFICES ASSUME p.state = state_lock, NEW s \in Slots \ Missing(p)
                   PROVE  shown'[s] \in {items[s].item, Guess}
        BY <1>1, <1>3, <2>2 DEF ShowsCurrent
      <3>1. Will(1, s)
        BY <1>1, <2>2 DEF WillShowCurrent
      <3>2. 0 \in 0..n - 1 /\ 0 + 1 = 1
        BY <1>1
      <3>3. Will(0, s)'
        BY <1>5, <3>1, <3>2
      <3>4. Silent(s, 0, 0)'
        BY DEF Silent
      <3>5. QED BY <1>1, <3>3, <3>4 DEF Will
    <2>3. QED BY <2>1, <2>2
  <1>9. StatesBelow'
    <2>1. \A k \in 1..n - 1 : k + 1 \in 1..n /\ down'[k] = down[k + 1]
      BY <1>1
    <2>2. \A k \in 1..n - 1 : down'[k].type # "Close" => down'[k].state <= state_lock
      BY <1>1, <2>1 DEF StatesBelow
    <2>3. shown_state' <= state_lock
      BY <1>3 DEF StatesBelow
    <2>4. QED BY <1>1, <2>2, <2>3 DEF StatesBelow
  <1>10. ClicksWhatIsSeen' /\ EmptyAtFirst'
    BY <1>1 DEF ClicksWhatIsSeen, Accepts, EmptyAtFirst
  <1>11. QED BY <1>4, <1>6, <1>7, <1>8, <1>9, <1>10

\* The player clicks: what it saw is what the menu has, if the state is.
LEMMA ClientClickStep ==
    ASSUME MenuInv, NEW slot \in 0..Size + Own - 1, ClientClick(slot)
    PROVE  MenuInv'
  <1> USE DEF MenuInv
  <1> DEFINE click == [slot |-> slot, state |-> shown_state,
                       saw |-> IF slot \in Slots THEN shown[slot] ELSE None,
                       blind |-> slot \in unseen]
  <1>1. /\ up' = Append(up, click)
        /\ shown' = [s \in Slots |-> IF s = slot THEN Guess ELSE shown[s]]
        /\ UNCHANGED <<items, state_lock, crashed, down, shown_state, open, untold, unseen>>
    BY DEF ClientClick
  <1>2. click \in Clicks
    BY DEF Clicks, TypeOK, Item
  <1>3. /\ up' \in Seq(Clicks) /\ DOMAIN up = 1..Len(up) /\ DOMAIN up' = 1..Len(up) + 1
        /\ Len(up) \in Nat /\ up'[Len(up) + 1] = click
        /\ \A i \in 1..Len(up) : up'[i] = up[i]
    BY <1>1, <1>2, AppendFacts DEF TypeOK
  <1>4. shown' \in [Slots -> Item \cup {Guess}]
    BY <1>1 DEF TypeOK
  <1>5. TypeOK'
    BY <1>1, <1>3, <1>4 DEF TypeOK
  <1>6. \A s \in Slots : shown'[s] \in {shown[s], Guess}
    BY <1>1
  <1>7. Len(down) \in Nat /\ DOMAIN down = 1..Len(down)
    BY DEF TypeOK
  <1>8. \A k \in 0..Len(down), s \in Slots : Will(k, s) => Will(k, s)'
    <2> SUFFICES ASSUME NEW k \in 0..Len(down), NEW s \in Slots, Will(k, s) PROVE Will(k, s)'
      OBVIOUS
    <2>1. items'[s].item = items[s].item /\ \A i \in 1..k : down'[i] = down[i]
      BY <1>1
    <2>2. shown'[s] \in {shown[s], Guess} /\ k \in Nat
      BY <1>6, <1>7
    <2>3. QED BY <2>1, <2>2, WillStays
  <1>9. WillShow' /\ WillShowCurrent'
    BY <1>1, <1>7, <1>8 DEF WillShow, WillShowCurrent, Missing
  <1>10. ShowsCurrent'
    BY <1>1, <1>6 DEF ShowsCurrent
  <1>11. StatesBelow'
    <2>1. \A i \in 1..Len(up) + 1 : up'[i].state <= state_lock
      BY <1>3 DEF StatesBelow
    <2>2. QED BY <1>1, <1>3, <2>1 DEF StatesBelow
  <1>12. ClicksWhatIsSeen'
    <2> SUFFICES ASSUME NEW i \in 1..Len(up) + 1, up'[i].slot \in Slots, up'[i].state = state_lock
                 PROVE  up'[i].saw \in {items[up'[i].slot].item, Guess} \/ up'[i].blind
      BY <1>1, <1>3 DEF ClicksWhatIsSeen, Accepts
    <2>1. CASE i = Len(up) + 1
      <3>1. up'[i] = click
        BY <1>3, <2>1
      <3>2. slot \in Slots /\ shown_state = state_lock
        BY <3>1
      <3>3. slot \in unseen \/ shown[slot] \in {items[slot].item, Guess}
        BY <3>2 DEF ShowsCurrent
      <3>4. /\ up'[i].slot = slot /\ up'[i].saw = shown[slot]
            /\ up'[i].blind = (slot \in unseen)
        BY <3>1, <3>2
      <3>5. QED BY <3>3, <3>4
    <2>2. CASE i # Len(up) + 1
      <3>1. i \in DOMAIN up /\ up'[i] = up[i]
        BY <1>3, <2>2
      <3>2. QED BY <3>1 DEF ClicksWhatIsSeen, Accepts
    <2>3. QED BY <2>1, <2>2
  <1>13. EmptyAtFirst'
    BY <1>1 DEF EmptyAtFirst
  <1>14. QED BY <1>5, <1>9, <1>10, <1>11, <1>12, <1>13

\* A click is handled: it is gone, and the contents may be sent.
LEMMA ClickStep ==
    ASSUME MenuInv, Click
    PROVE  MenuInv'
  <1>1. TypeOK
    BY DEF MenuInv
  <1>2. /\ up' \in Seq(Clicks)
        /\ \A i \in DOMAIN up' : \E j \in DOMAIN up : up'[i] = up[j]
    <2>1. /\ up' = Tail(up) /\ Tail(up) \in Seq(Clicks) /\ DOMAIN up = 1..Len(up)
          /\ Len(up) \in Nat /\ DOMAIN up' = 1..Len(up) - 1
          /\ \A i \in 1..Len(up) - 1 : up'[i] = up[i + 1]
      BY <1>1, TailFacts DEF Click, TypeOK
    <2>2. \A i \in 1..Len(up) - 1 : i + 1 \in 1..Len(up)
      BY <2>1
    <2>3. QED BY <2>1, <2>2
  <1>3. UNCHANGED <<items, state_lock, client>>
    BY DEF Click
  <1>4. CASE RefreshContents /\ UNCHANGED crashed
    <2>1. down' = Append(down, Contents) /\ untold' = {}
      BY <1>4 DEF RefreshContents, Send
    <2>2. Contents \in Packets
      BY <1>1, ContentsType
    <2>3. down' \in Seq(Packets)
      BY <1>1, <2>1, <2>2, AppendFacts DEF TypeOK
    <2>4. TypeOK'
      BY <1>1, <1>2, <1>3, <1>4, <2>1, <2>3 DEF TypeOK, client
    <2>5. Contents.type = "Content" /\ Contents.state = state_lock
          /\ Contents.items = [s \in Slots |-> items[s].item]
      BY DEF Contents
    <2>6. QED BY <1>2, <1>3, <2>1, <2>2, <2>4, <2>5, ContentsStep
  <1>5. CASE UNCHANGED <<down, untold>> /\ crashed' \in {crashed, TRUE}
    <2>1. TypeOK'
      BY <1>1, <1>2, <1>3, <1>5 DEF TypeOK, client
    <2>2. QED BY <1>2, <1>3, <1>5, <2>1, QuietStep
  <1>6. QED BY <1>4, <1>5 DEF Click

LEMMA MenuNext == MenuInv /\ [Next]_vars => MenuInv'
  <1> SUFFICES ASSUME MenuInv, [Next]_vars PROVE MenuInv'
    OBVIOUS
  <1>0. TypeOK
    BY DEF MenuInv
  <1>1. CASE SendToPlayer
    BY <1>1, SendToPlayerStep
  <1>2. CASE Refresh
    <2>1. /\ down' = Append(down, Contents) /\ untold' = {}
          /\ UNCHANGED <<items, state_lock, crashed, up, client>>
      BY <1>2 DEF Refresh, RefreshContents, Send
    <2>2. Contents \in Packets /\ Contents.type = "Content" /\ Contents.state = state_lock
          /\ Contents.items = [s \in Slots |-> items[s].item]
      BY <1>0, ContentsType DEF Contents
    <2>3. down' \in Seq(Packets)
      BY <1>0, <2>1, <2>2, AppendFacts DEF TypeOK
    <2>4. TypeOK'
      BY <1>0, <2>1, <2>3 DEF TypeOK, client
    <2>5. QED BY <2>1, <2>2, <2>4, ContentsStep
  <1>3. ASSUME NEW slot \in Slots, NEW action \in Actions \cup {None}, SetClickHandler(slot, action)
        PROVE  MenuInv'
    <2>1. /\ items' = [items EXCEPT ![slot].action = action]
          /\ UNCHANGED <<state_lock, crashed, down, up, client, untold>>
      BY <1>3 DEF SetClickHandler
    <2>2. items' \in [Slots -> MenuItem] /\ \A s \in Slots : items'[s].item = items[s].item
      BY <1>0, <2>1 DEF TypeOK, MenuItem
    <2>3. TypeOK'
      BY <1>0, <2>1, <2>2 DEF TypeOK, client
    <2>4. QED BY <2>1, <2>2, <2>3, QuietStep
  <1>4. ASSUME NEW slot \in Slots, NEW item \in Item, SetItemUnaware(slot, item)
        PROVE  MenuInv'
    <2>1. /\ items' = [items EXCEPT ![slot].item = item] /\ state_lock' = state_lock + 1
          /\ untold' = untold \cup {slot}
          /\ UNCHANGED <<crashed, down, up, client>>
      BY <1>4 DEF SetItemUnaware, ChangeItem
    <2>2. /\ items' \in [Slots -> MenuItem]
          /\ \A s \in Slots \ {slot} : items'[s].item = items[s].item
      BY <1>0, <2>1 DEF TypeOK, MenuItem
    <2>3. TypeOK'
      BY <1>0, <2>1, <2>2 DEF TypeOK, client
    <2>4. {slot} \in SUBSET Slots
      OBVIOUS
    <2>5. QED BY <2>1, <2>2, <2>3, <2>4, ChangeStep
  <1>5. ASSUME NEW n \in 1..Size, NEW new \in [0..n - 1 -> MenuItem], SetItemsUnaware(new)
        PROVE  MenuInv'
    <2> DEFINE changed == {s \in DOMAIN new : items[s].item # new[s].item}
    <2>1. /\ items' = [s \in Slots |-> IF s \in changed THEN new[s] ELSE items[s]]
          /\ state_lock' = IF changed = {} THEN state_lock ELSE state_lock + 1
          /\ untold' = untold \cup changed
          /\ UNCHANGED <<crashed, down, up, client>>
      BY <1>5 DEF SetItemsUnaware
    <2>2. changed \subseteq Slots /\ \A s \in changed : new[s] \in MenuItem
      BY DEF Slots
    <2>3. /\ items' \in [Slots -> MenuItem]
          /\ \A s \in Slots \ changed : items'[s].item = items[s].item
      BY <1>0, <2>1, <2>2 DEF TypeOK
    <2>4. TypeOK'
      BY <1>0, <2>1, <2>2, <2>3 DEF TypeOK, client
    <2> HIDE DEF changed
    <2>5. CASE changed = {}
      BY <2>1, <2>3, <2>4, <2>5, QuietStep
    <2>6. CASE changed # {}
      BY <2>1, <2>2, <2>3, <2>4, <2>6, ChangeStep
    <2>7. QED BY <2>5, <2>6
  <1>6. CASE UNCHANGED vars
    <2>1. TypeOK' /\ UNCHANGED <<items, state_lock, down, up, client, untold>>
      BY <1>0, <1>6 DEF TypeOK, vars, client
    <2>2. QED BY <2>1, QuietStep
  <1>7. QED
    BY <1>1, <1>2, <1>3, <1>4, <1>5, <1>6, SetItemStep, CloseStep, ReadStep, ClientClickStep,
       ClickStep DEF Next

LEMMA MenuInvariant == Spec => []MenuInv
  BY MenuInit, MenuNext, PTL DEF Spec

-----------------------------------------------------------------------------
(* The theorems.                                                           *)

\* What is kept of the menu, its client, and between them has its type.
THEOREM MenuTypes == Spec => []TypeOK
  BY MenuInvariant, PTL DEF MenuInv

\* A click that get_clicker lets through acts on the item its player saw: the
\* state lock tells every older one apart.
THEOREM MenuClicksWhatIsSeen == Spec => []ClicksWhatIsSeen
  BY MenuInvariant, PTL DEF MenuInv
=============================================================================
