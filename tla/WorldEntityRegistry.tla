-------------------------- MODULE WorldEntityRegistry --------------------------
(* Entity identities (WorldEntityRegistry) and the components stored under      *)
(* them (WorldEntityManager).  A key is a slot number and a generation; slots   *)
(* are reused last freed first, each time with the next generation, and a slot  *)
(* whose generation reached its maximum is never used again.  The code keeps a  *)
(* second generation for handles that always equals the first one, so the model *)
(* keeps one.                                                                   *)
EXTENDS WorldTables, SequencesExt

CONSTANT MaxGeneration   \* numeric_limits<uint32_t>::max() in the code

ASSUME MaxGenerationAssumption == MaxGeneration \in Nat \ {0}

EmptyEntities == [slots |-> <<>>, free |-> <<>>, comps |-> <<>>]

Live(e) == DOMAIN e.comps

NextKey(e) ==
  IF e.free # <<>>
  THEN <<Last(e.free), e.slots[Last(e.free)].gen + 1>>
  ELSE <<Len(e.slots) + 1, 1>>

TryCreate(e, components) ==
  LET key  == NextKey(e)
      slot == [gen |-> key[2], used |-> TRUE]
  IN  [slots |-> IF e.free # <<>> THEN [e.slots EXCEPT ![key[1]] = slot] ELSE Append(e.slots, slot),
       free  |-> IF e.free # <<>> THEN Front(e.free) ELSE <<>>,
       comps |-> With(e.comps, key, components)]

RemoveEntity(e, key) ==
  [slots |-> [e.slots EXCEPT ![key[1]] = [gen |-> e.slots[key[1]].gen, used |-> FALSE]],
   free  |-> IF key[2] # MaxGeneration THEN Append(e.free, key[1]) ELSE e.free,
   comps |-> Without(e.comps, key)]

KeyLess(a, b) == a[1] < b[1] \/ (a[1] = b[1] /\ a[2] < b[2])

KeyOrder(keys) == {x \in keys \X keys : KeyLess(x[1], x[2])}

\* The entities that the components cs are given to, one after the other: [e, keys].
CreateEntities(e, cs) ==
  LET made[n \in 0 .. Len(cs)] == IF n = 0 THEN e ELSE TryCreate(made[n - 1], cs[n])
  IN  [e |-> made[Len(cs)], keys |-> [n \in 1 .. Len(cs) |-> NextKey(made[n - 1])]]

\* Removal of several entities in the order of their keys.
RemoveEntities(e, keys) ==
  LET order == InOrder(keys, KeyOrder(keys))
      left[n \in 0 .. Len(order)] == IF n = 0 THEN e ELSE RemoveEntity(left[n - 1], order[n])
  IN  left[Len(order)]

================================================================================
