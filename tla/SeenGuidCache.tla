---------------------------- MODULE SeenGuidCache ----------------------------
(***************************************************************************)
(* The feed manager's bounded memory of item keys, feed_manager.py:59-86:  *)
(* an OrderedDict from the least to the most recently used key.            *)
(***************************************************************************)
EXTENDS Naturals, Sequences, SequencesExt

\* Variant: a list, in which a key can stand twice.
Appended(cache, key) == Append(cache, key)

\* move_to_end, of a key that is there or is added.
MoveToEnd(cache, key) == Append(RemoveFirst(cache, key), key)

\* contains() of a key that is there.
Touch(cache, key) == MoveToEnd(cache, key)

\* add(): beyond its size the cache forgets the least recently used key.
Add(cache, key, max) ==
    LET grown == MoveToEnd(cache, key)
    IN  IF Len(grown) > max THEN Tail(grown) ELSE grown
=============================================================================
