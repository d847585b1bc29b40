----------------------------- MODULE AgentPlan -----------------------------
(***************************************************************************)
(* The plan an agent keeps with its `plan` tool: core/plan's store of      *)
(* plan.json and core/tool/plan.go.  An operation on one item loads the    *)
(* plan, changes it and saves it; a save numbers the items without an id,  *)
(* takes the version on disk plus one and renames the new file into place. *)
(* The agent knows items by the ids its last result showed.                *)
(*                                                                         *)
(* IdsOf are sequences of numbers: <<>> is "", <<n>> is "i<n>", <<n, m>> is  *)
(* "i<n>.<m>", and <<0>> a name of the agent's own.  `was` is the item's   *)
(* identity, which the program has not.                                    *)
(***************************************************************************)
EXTENDS Integers, Sequences, FiniteSets, SequencesExt

CONSTANTS Runs,        \* runs of the session whose agents hold the tool
          ItemLists,   \* what an agent passes to `set`
          NewItem,     \* identity of an item not yet saved
          MaxVersion   \* bound on the versions of the plan

Ids == Seq(Nat)
ASSUME AgentPlanAssumption ==
    /\ ItemLists \subseteq Seq([id : Ids, state : STRING, sub : Seq([id : Ids, state : STRING, deep : BOOLEAN])])
    /\ NewItem \notin Seq(Nat) /\ MaxVersion \in Nat

VARIABLES planFile,    \* plan.json: its version and its items
          listing,     \* the plan each agent last got as a result
          saving,      \* the call each run is in
          spoiled      \* did two runs' calls cross, or a list number badly?

agentPlanVars == <<planFile, listing, saving, spoiled>>

(***************************************************************************)
(* Numbering.                                                              *)
(***************************************************************************)
ParseTopID(id) == IF Len(id) = 1 THEN id[1] ELSE 0

(* A faulty variant: a given id does not advance the counter.              *)
Counted_Blind(n, item) == IF item.id = <<>> THEN n + 1 ELSE n

(* An id that is given or found advances the counter.                      *)
Counted(n, item) ==
    IF item.id = <<>> THEN n + 1
    ELSE IF ParseTopID(item.id) > n THEN ParseTopID(item.id) ELSE n

(* The counter after the first i items.                                    *)
TopCounter(items, i) == FoldLeft(Counted, 0, SubSeq(items, 1, i))

(* The sub-items' counter only counts the ids it gives. *)
SubCounter(subs, j) == Cardinality({k \in 1..j : subs[k].id = <<>>})

Pending(state) == IF state = "" THEN "pending" ELSE state

AssignIDs(items) ==
    LET IdOf(i) == IF items[i].id = <<>> THEN <<TopCounter(items, i)>> ELSE items[i].id
        Numbered(i, j) == LET sub == items[i].sub[j] IN
            [id |-> IF sub.id = <<>> THEN Append(IdOf(i), SubCounter(items[i].sub, j)) ELSE sub.id,
             was |-> sub.was, state |-> Pending(sub.state), deep |-> sub.deep]
    IN [i \in DOMAIN items |->
          [id |-> IdOf(i), was |-> items[i].was, state |-> Pending(items[i].state),
           sub |-> [j \in DOMAIN items[i].sub |-> Numbered(i, j)]]]

IsValid(state) == state \in {"", "pending", "in_progress", "completed"}

(* A sub-item with sub-items of its own is too deep. *)
Accepted(items) ==
    \A i \in DOMAIN items :
        /\ IsValid(items[i].state)
        /\ \A j \in DOMAIN items[i].sub :
              IsValid(items[i].sub[j].state) /\ ~items[i].sub[j].deep

(***************************************************************************)
(* Items by id: the tool takes the first in the order of the list, an item *)
(* before its sub-items.                                                   *)
(***************************************************************************)
Places(items) ==
    {<<i, 0>> : i \in DOMAIN items}
    \cup UNION {{<<i, j>> : j \in DOMAIN items[i].sub} : i \in DOMAIN items}

ItemAt(items, place) == IF place[2] = 0 THEN items[place[1]] ELSE items[place[1]].sub[place[2]]
IdsOf(items) == {ItemAt(items, place).id : place \in Places(items)}
PlacesOf(items, id) == {place \in Places(items) : ItemAt(items, place).id = id}
FirstOf(places) ==
    CHOOSE p \in places : \A q \in places : p[1] < q[1] \/ (p[1] = q[1] /\ p[2] <= q[2])

Without(s, i) == SubSeq(s, 1, i - 1) \o SubSeq(s, i + 1, Len(s))

MutateItem(items, place, state) ==
    IF place[2] = 0 THEN [items EXCEPT ![place[1]].state = state]
    ELSE [items EXCEPT ![place[1]].sub[place[2]].state = state]

RemoveItem(items, place) ==
    IF place[2] = 0 THEN Without(items, place[1])
    ELSE [items EXCEPT ![place[1]].sub = Without(@, place[2])]

(***************************************************************************)
(* The calls.                                                              *)
(***************************************************************************)
NoPlanYet == [version |-> 0, items |-> <<>>]
NotCalling == [at |-> "idle"]

AgentPlanInit ==
    /\ planFile = NoPlanYet
    /\ listing = [r \in Runs |-> NoPlanYet]
    /\ saving = [r \in Runs |-> NotCalling]
    /\ spoiled = FALSE

IsCalling(r, stage) == saving[r].at = stage

(* Saves `items`; `op` and `meant` keep what was asked, `base` the version *)
(* the agent spoke of.                                                     *)
Submit(r, op, meant, items) ==
    saving' = [saving EXCEPT ![r] =
        [at |-> "loaded", op |-> op, meant |-> meant, items |-> items, base |-> listing[r].version]]

ListPlan(r) ==
    /\ IsCalling(r, "idle") /\ listing[r] # planFile
    /\ listing' = [listing EXCEPT ![r] = planFile]
    /\ UNCHANGED <<planFile, saving, spoiled>>

(* An item passed with an id the agent saw is the item it saw.             *)
IdentityOf(r, id) ==
    LET known == PlacesOf(listing[r].items, id) IN
    IF id # <<>> /\ known # {} THEN ItemAt(listing[r].items, FirstOf(known)).was ELSE NewItem

Recognised(r, list) ==
    [i \in DOMAIN list |->
        [id |-> list[i].id, was |-> IdentityOf(r, list[i].id), state |-> list[i].state,
         sub |-> [j \in DOMAIN list[i].sub |->
                    [id |-> list[i].sub[j].id, was |-> IdentityOf(r, list[i].sub[j].id),
                     state |-> list[i].sub[j].state, deep |-> list[i].sub[j].deep]]]]

(* The ids that are given and numbered differ, and no sub-item's is "i<n>".*)
NumbersWell(r, list) ==
    LET items == AssignIDs(Recognised(r, list))
    IN  /\ \A p, q \in Places(items) : ItemAt(items, p).id = ItemAt(items, q).id => p = q
        /\ \A i \in DOMAIN list : \A j \in DOMAIN list[i].sub : ParseTopID(list[i].sub[j].id) = 0

SetPlan(r, list) ==
    /\ IsCalling(r, "idle")
    /\ Submit(r, "set", NewItem, Recognised(r, list))
    /\ spoiled' = (spoiled \/ ~NumbersWell(r, list))
    /\ UNCHANGED <<planFile, listing>>

(* The other operations load the plan; an id it has not ends the call.     *)
UpdateItem(r, id, state) ==
    /\ IsCalling(r, "idle")
    /\ PlacesOf(planFile.items, id) # {}
    /\ Submit(r, "update_item", IdentityOf(r, id), MutateItem(planFile.items, FirstOf(PlacesOf(planFile.items, id)), state))
    /\ UNCHANGED <<planFile, listing, spoiled>>

(* An item added without a status is pending.                              *)
AddItem(r, state) ==
    /\ IsCalling(r, "idle")
    /\ Submit(r, "add_item", NewItem, Append(planFile.items, [id |-> <<>>, was |-> NewItem, state |-> state, sub |-> <<>>]))
    /\ UNCHANGED <<planFile, listing, spoiled>>

RemoveItemCall(r, id) ==
    /\ IsCalling(r, "idle")
    /\ PlacesOf(planFile.items, id) # {}
    /\ Submit(r, "remove_item", IdentityOf(r, id), RemoveItem(planFile.items, FirstOf(PlacesOf(planFile.items, id))))
    /\ UNCHANGED <<planFile, listing, spoiled>>

(* New items get an identity of their own with the version that first has  *)
(* them.                                                                   *)
Identified(items, version) ==
    LET Own(x, i, j) == IF x.was = NewItem THEN <<version, i, j>> ELSE x.was IN
    [i \in DOMAIN items |->
        [id |-> items[i].id, was |-> Own(items[i], i, 0), state |-> items[i].state,
         sub |-> [j \in DOMAIN items[i].sub |->
                    [items[i].sub[j] EXCEPT !.was = Own(items[i].sub[j], i, j)]]]]

(* Save, first half: number the items and take the version after the one   *)
(* on disk.                                                                *)
Stamp(r) ==
    /\ IsCalling(r, "loaded")
    /\ Accepted(saving[r].items)
    /\ planFile.version < MaxVersion
    /\ LET version == planFile.version + 1 IN
       saving' = [saving EXCEPT ![r] =
           [at |-> "stamped", op |-> @.op, meant |-> @.meant, base |-> @.base,
            file |-> [version |-> version, items |-> Identified(AssignIDs(@.items), version)]]]
    /\ UNCHANGED <<planFile, listing, spoiled>>

(* Save, second half: the rename; the result shows the plan. *)
Rename(r) ==
    /\ IsCalling(r, "stamped")
    /\ planFile' = saving[r].file
    /\ listing' = [listing EXCEPT ![r] = planFile']
    /\ saving' = [saving EXCEPT ![r] = NotCalling]
    /\ spoiled' = (spoiled \/ saving[r].base # planFile.version)

(* A status or a depth the store refuses, or a file it cannot write.       *)
SaveFails(r) ==
    /\ \/ IsCalling(r, "loaded") /\ ~Accepted(saving[r].items)
       \/ IsCalling(r, "stamped")
    /\ saving' = [saving EXCEPT ![r] = NotCalling]
    /\ UNCHANGED <<planFile, listing, spoiled>>

AgentPlanNext ==
    \E r \in Runs :
        \/ ListPlan(r) \/ Stamp(r) \/ Rename(r) \/ SaveFails(r)
        \/ \E state \in {"pending", "completed", "finished"} : AddItem(r, state)
        \/ \E list \in ItemLists : SetPlan(r, list)
        \/ \E id \in IdsOf(listing[r].items) :
              \/ RemoveItemCall(r, id)
              \/ \E state \in {"completed", "finished"} : UpdateItem(r, id, state)

AgentPlanSpec == AgentPlanInit /\ [][AgentPlanNext]_agentPlanVars

AgentPlanTypeOK ==
    /\ planFile.version \in 0..MaxVersion
    /\ \A r \in Runs : /\ listing[r].version \in 0..MaxVersion
                       /\ saving[r].at \in {"idle", "loaded", "stamped"}
    /\ spoiled \in BOOLEAN

(***************************************************************************)
(* The property                                                            *)
(***************************************************************************)
States(items) == [place \in Places(items) |-> <<ItemAt(items, place).was, ItemAt(items, place).state>>]
Identities(items) == {ItemAt(items, place).was : place \in Places(items)}
StateOf(items, x) == ItemAt(items, CHOOSE place \in Places(items) : ItemAt(items, place).was = x).state
Tops(items) == [i \in DOMAIN items |-> items[i].was]

(* An operation on one item does to the plan what the agent that saw its   *)
(* ids means (tool/plan.go:209-244, store.go:187-188): update_item changes *)
(* the state of the item it saw under the id and of no other, remove_item  *)
(* takes that item and what is under it, add_item puts one item behind the *)
(* others under an id of its own, and all keep their ids - whatever lists  *)
(* were set, items removed and saves refused before, unless two runs' calls*)
(* crossed or a set list numbers badly.                                    *)
TheItemItSaw ==
    [][~spoiled' =>
       \A r \in Runs : Rename(r) =>
          LET old == planFile.items
              new == planFile'.items
              meant == saving[r].meant
          IN CASE saving[r].op = "update_item" ->
                    /\ Tops(new) = Tops(old) /\ Identities(new) = Identities(old)
                    /\ IdsOf(new) = IdsOf(old)
                    /\ \A x \in Identities(old) \ {meant} : StateOf(new, x) = StateOf(old, x)
                    /\ StateOf(new, meant) = "completed"
               [] saving[r].op = "remove_item" ->
                    /\ meant \in Identities(old) \ Identities(new)
                    /\ IdsOf(new) \subseteq IdsOf(old)
                    /\ \A x \in Identities(old) \ Identities(new) :
                          x = meant \/ \E i \in DOMAIN old : /\ old[i].was = meant
                                                             /\ x \in Identities(<<old[i]>>)
                    /\ \A x \in Identities(new) : x \in Identities(old) /\ StateOf(new, x) = StateOf(old, x)
               [] saving[r].op = "add_item" ->
                    /\ SubSeq(new, 1, Len(old)) = old
                    /\ Len(new) = Len(old) + 1 /\ new[Len(new)].id \notin IdsOf(old)
               [] OTHER -> TRUE]_agentPlanVars

=============================================================================
