----------------------------- MODULE Belongings -----------------------------
(***************************************************************************)
(* Tools and memorias, and everything that refers to them by entity id:    *)
(* characters, party members, equipment presets, the battle tools of a     *)
(* party, ship parties, rental parties and the profile.                    *)
(*                                                                         *)
(* The four lists of entities share one sequence of ids, and the next id   *)
(* is one more than the largest there is: the id of a thing that is sold   *)
(* or converted is given out again when it was the largest.  Nothing       *)
(* clears a reference when its thing goes, so every route that consumes    *)
(* things has to look for references first.                                *)
(*                                                                         *)
(* Costs and rewards are left out; an operation that can fail for want of  *)
(* items is one that need not happen.                                      *)
(***************************************************************************)
EXTENDS Integers, FiniteSets, FiniteSetsExt, Functions

CONSTANTS
    Slots,          \* slots of equipment, 1 to 3
    MemoriaIds,     \* kinds of memoria
    Holders,        \* a character, a party member, an equipment preset
    MaxConverted,   \* tool_conversion_limit_count
    MaxPartyTools,  \* party_max_battle_tool_count
    MaxShipMemorias,
    MaxBreaks,      \* max_limit_break
    MaxExp,         \* the experience of a memoria at its level limit
    MaxThings,      \* bound: things held at once
    MaxAcquired     \* bound: things acquired

None == 0
Entities == 1..MaxThings
Thing == [kind: {"equipment"}, type: Slots, locked: BOOLEAN]
         \union [kind: {"battle"}, type: {0}, locked: BOOLEAN]
         \union [kind: {"memoria"}, type: MemoriaIds, locked: BOOLEAN,
                 breaks: 0..MaxBreaks, exp: 0..MaxExp]
Gear == [slots: [Slots -> Entities \union {None}], memoria: Entities \union {None}]
NoGear == [slots |-> [s \in Slots |-> None], memoria |-> None]

ASSUME BelongingsAssumption ==
    /\ Slots \subseteq 1..3 /\ MaxThings \in Nat /\ MaxBreaks \in Nat /\ MaxExp \in Nat
    /\ MaxPartyTools \in Nat
    /\ {"character", "member", "preset"} \subseteq Holders

VARIABLES
    things,      \* equipment_tools, battle_tools and memorias, by entity id
    gear,        \* what each holder refers to
    tools,       \* battle_tool_entity_ids of a party
    ship,        \* main and sub memorias of a ship party
    rental,      \* a rental party: its member's slots and its battle tools
    favorites,   \* favorite_battle_tool_entity_ids of the profile
    acquired,    \* history: things acquired
    copies       \* history: memorias acquired, and limit breaks paid in items
belongingsVars == <<things, gear, tools, ship, rental, favorites, acquired, copies>>
referring == <<gear, tools, ship, rental, favorites>>

BelongingsInit ==
    /\ things = [i \in {} |-> {}]
    /\ gear = [h \in Holders |-> NoGear]
    /\ tools = {} /\ ship = {} /\ favorites = {}
    /\ rental = [slots |-> NoGear.slots, tools |-> {}]
    /\ acquired = 0 /\ copies = 0

-----------------------------------------------------------------------------

owned(kind, id) == id \in DOMAIN things /\ things[id].kind = kind
owned_memoria(id) == owned("memoria", id)
valid_equipment(id, slot) == owned("equipment", id) /\ things[id].type = slot

next_entity_id == Max(DOMAIN things \union {0}) + 1

\* Mutant: the search misses presets.
AssignedToolNoPreset(id) ==
    CASE things[id].kind = "equipment" -> \E h \in Holders \ {"preset"}, s \in Slots : gear[h].slots[s] = id
      [] things[id].kind = "battle"    -> id \in tools

\* Only a tool that is there is asked about.  Rental parties and the profile
\* are not searched.
assigned_tool(id) ==
    CASE things[id].kind = "equipment" -> \E h \in Holders, s \in Slots : gear[h].slots[s] = id
      [] things[id].kind = "battle"    -> id \in tools

assigned_memoria(id) == (\E h \in Holders : gear[h].memoria = id) \/ id \in ship

Removed(set) == [i \in DOMAIN things \ set |-> things[i]]

-----------------------------------------------------------------------------
\* Acquiring: synthesis, gacha and rewards.

add_synthesis_output(kind, type) ==
    /\ acquired < MaxAcquired /\ next_entity_id \in Entities
    /\ things' = [i \in DOMAIN things \union {next_entity_id} |->
                    IF i = next_entity_id THEN [kind |-> kind, type |-> type, locked |-> FALSE]
                    ELSE things[i]]
    /\ acquired' = acquired + 1
    /\ UNCHANGED <<referring, copies>>

add_memoria(id) ==
    /\ acquired < MaxAcquired /\ next_entity_id \in Entities
    /\ things' = [i \in DOMAIN things \union {next_entity_id} |->
                    IF i = next_entity_id
                    THEN [kind |-> "memoria", type |-> id, locked |-> FALSE, breaks |-> 0, exp |-> 0]
                    ELSE things[i]]
    /\ acquired' = acquired + 1
    /\ copies' = copies + 1
    /\ UNCHANGED referring

-----------------------------------------------------------------------------
\* Referring.

ValidGear(g) ==
    /\ \A s \in Slots : g.slots[s] # None => valid_equipment(g.slots[s], s)
    /\ g.memoria # None => owned_memoria(g.memoria)

\* /character/bulk_set and /equipment_preset/bulk_set.
bulk_set(h, g) ==
    /\ h \in {"character", "preset"}
    /\ ValidGear(g)
    /\ gear' = [gear EXCEPT ![h] = g]
    /\ UNCHANGED <<things, tools, ship, rental, favorites, acquired, copies>>

\* /character/equip goes through bulk_set with what the other slots hold;
\* /equipment_preset/equip looks at its own slot.
equip(h, slot, id) ==
    LET g == [gear[h] EXCEPT !.slots[slot] = id]
    IN  /\ h \in {"character", "preset"}
        /\ id # None => valid_equipment(id, slot)
        /\ h = "character" => ValidGear(g)
        /\ gear' = [gear EXCEPT ![h] = g]
        /\ UNCHANGED <<things, tools, ship, rental, favorites, acquired, copies>>

ValidTools(set) == Cardinality(set) <= MaxPartyTools /\ \A id \in set : owned("battle", id)

\* /party/bulk_update, and /party/battle_tools_set, which keeps the members.
party_update(g, set, tools_only) ==
    /\ ValidTools(set)
    /\ ~tools_only => ValidGear(g)
    /\ tools' = set
    /\ gear' = IF tools_only THEN gear ELSE [gear EXCEPT !["member"] = g]
    /\ UNCHANGED <<things, ship, rental, favorites, acquired, copies>>

\* /ship/bulk_update: the main and the sub memorias.
ship_party(set) ==
    /\ Cardinality(set) <= MaxShipMemorias
    /\ \A id \in set : owned_memoria(id)
    /\ ship' = set
    /\ UNCHANGED <<things, gear, tools, rental, favorites, acquired, copies>>

ValidSlots(slots) == \A s \in Slots : slots[s] # None => valid_equipment(slots[s], s)

\* /rental_party/bulk_update and character_bulk_equip set all slots of a
\* member; character_equip sets one and then looks at all.
rental_party_update(slots, set) ==
    /\ ValidSlots(slots) /\ ValidTools(set)
    /\ rental' = [slots |-> slots, tools |-> set]
    /\ UNCHANGED <<things, gear, tools, ship, favorites, acquired, copies>>

rental_character_equip(slot, id) ==
    LET slots == [rental.slots EXCEPT ![slot] = id]
    IN  /\ ValidSlots(slots)
        /\ rental' = [rental EXCEPT !.slots = slots]
        /\ UNCHANGED <<things, gear, tools, ship, favorites, acquired, copies>>

update_favorite_battle_tools(set) ==
    /\ \A id \in set : owned("battle", id)
    /\ favorites' = set
    /\ UNCHANGED <<things, gear, tools, ship, rental, acquired, copies>>

-----------------------------------------------------------------------------
\* Consuming.

lock(id, b) ==
    /\ id \in DOMAIN things
    /\ things' = [things EXCEPT ![id].locked = b]
    /\ UNCHANGED <<referring, acquired, copies>>

tool_convert(set) ==
    /\ set # {} /\ Cardinality(set) <= MaxConverted
    /\ \A id \in set : /\ owned("equipment", id) \/ owned("battle", id)
                       /\ ~assigned_tool(id) /\ ~things[id].locked
    /\ things' = Removed(set)
    /\ UNCHANGED <<referring, acquired, copies>>

\* Mutant: a memoria may be fed to itself.
ConsumableBySelf(target, set) ==
    \A id \in set : owned_memoria(id) /\ ~assigned_memoria(id) /\ ~things[id].locked

Consumable(target, set) ==
    \A id \in set : /\ id # target /\ owned_memoria(id)
                    /\ ~assigned_memoria(id) /\ ~things[id].locked

\* memoria_limit_break writes the target after the others are gone.
Fed(target, set, m) ==
    [i \in (DOMAIN things \ set) \union {target} |-> IF i = target THEN m ELSE things[i]]

\* /memoria/enhance; the experience of a consumed memoria comes along.
memoria_enhance(target, set, items) ==
    LET m == things[target]
        gained == items + SumFunction([id \in set |-> 1 + things[id].exp])
    IN  /\ owned_memoria(target) /\ Consumable(target, set)
        /\ gained > 0 /\ m.exp < MaxExp
        /\ things' = Fed(target, set, [m EXCEPT !.exp = Min({@ + gained, MaxExp})])
        /\ UNCHANGED <<referring, acquired, copies>>

\* Mutant: the limit is looked at before the break only.
BreaksBelowMax(breaks, gained) == gained > 0 /\ breaks < MaxBreaks

BreaksWithin(breaks, gained) == gained > 0 /\ breaks + gained <= MaxBreaks

memoria_limit_break(target, set, items) ==
    LET m == things[target]
        gained == items + Cardinality(set)
    IN  /\ owned_memoria(target) /\ Consumable(target, set)
        /\ \A id \in set : things[id].type = m.type
        /\ BreaksWithin(m.breaks, gained)
        /\ things' = Fed(target, set, [m EXCEPT !.breaks = @ + gained])
        /\ copies' = copies + items
        /\ UNCHANGED <<referring, acquired>>

memoria_sell(set) ==
    /\ set # {} /\ Consumable(None, set)
    /\ things' = Removed(set)
    /\ UNCHANGED <<referring, acquired, copies>>

BelongingsNext ==
    \/ \E s \in Slots : add_synthesis_output("equipment", s)
    \/ add_synthesis_output("battle", 0)
    \/ \E id \in MemoriaIds : add_memoria(id)
    \/ \E h \in Holders, g \in Gear : bulk_set(h, g)
    \/ \E h \in Holders, s \in Slots, id \in Entities \union {None} : equip(h, s, id)
    \/ \E g \in Gear, set \in SUBSET Entities : party_update(g, set, FALSE)
    \/ \E set \in SUBSET Entities : party_update(NoGear, set, TRUE)
    \/ \E set \in SUBSET Entities : ship_party(set)
    \/ \E slots \in [Slots -> Entities \union {None}], set \in SUBSET Entities :
         rental_party_update(slots, set)
    \/ \E s \in Slots, id \in Entities \union {None} : rental_character_equip(s, id)
    \/ \E set \in SUBSET Entities : update_favorite_battle_tools(set)
    \/ \E id \in Entities, b \in BOOLEAN : lock(id, b)
    \/ \E set \in SUBSET Entities : tool_convert(set)
    \/ \E id \in Entities, set \in SUBSET Entities, items \in 0..1 :
         memoria_enhance(id, set, items)
    \/ \E id \in Entities, set \in SUBSET Entities, items \in 0..1 :
         memoria_limit_break(id, set, items)
    \/ \E set \in SUBSET Entities : memoria_sell(set)

BelongingsSpec == BelongingsInit /\ [][BelongingsNext]_belongingsVars

-----------------------------------------------------------------------------

(* Entities are what their lists hold, within the limits of memorias.      *)
BelongingsTypeOK ==
    /\ things \in [DOMAIN things -> Thing] /\ DOMAIN things \subseteq Entities
    /\ gear \in [Holders -> Gear]
    /\ tools \subseteq Entities /\ ship \subseteq Entities /\ favorites \subseteq Entities
    /\ rental \in [slots: [Slots -> Entities \union {None}], tools: SUBSET Entities]
    /\ acquired \in Nat /\ copies \in Nat

(* What characters, party members, presets, parties and ship parties refer *)
(* to is owned and fits: no route consumes what another still uses, so a   *)
(* party can always be resolved for a battle, and an id that is given out  *)
(* again changes nobody's equipment (tool_convert, memoria_enhance,        *)
(* memoria_limit_break and memoria_sell beside next_entity_id).            *)
AssignedAreOwned ==
    /\ \A h \in Holders : ValidGear(gear[h])
    /\ ValidTools(tools)
    /\ \A id \in ship : owned_memoria(id)

Memorias == {i \in DOMAIN things : things[i].kind = "memoria"}

(* Every limit break cost a copy: memorias and their breaks never add up   *)
(* to more than was acquired or paid for in items (memoria_limit_break,    *)
(* which writes the target back after it removed what was consumed).       *)
BreaksCostCopies ==
    Cardinality(Memorias) + SumFunction([i \in Memorias |-> things[i].breaks]) <= copies

(* Whatever is equipped is there, and what was given for breaks is not.    *)
BelongingsKept == AssignedAreOwned /\ BreaksCostCopies
=============================================================================
