--------------------------------- MODULE Maps ---------------------------------
(* Maps as functions over a finite domain: std::unordered_map.             *)
EXTENDS Functions

EmptyMap == [key \in {} |-> 0]

Insert(map, key, entry) ==
  [k \in DOMAIN map \cup {key} |-> IF k = key THEN entry ELSE map[k]]

Erase(map, key) == Restrict(map, DOMAIN map \ {key})
=============================================================================
