----------------------------- MODULE CacheKeys -----------------------------
(***************************************************************************)
(* The constants of CacheLock: who asks for what, and what the answers are. *)
(***************************************************************************)
EXTENDS Naturals

CONSTANTS
  Calls,        \* calls of get_cached_keys...; each runs once
  Items,        \* rows of the table
  Keys,         \* what callers ask for
  ItemOf,       \* ItemOf[k]: the item that key k denotes
  Primary,      \* keys that are the text of the id the value is stored under
  Spelled,      \* keys that are an id, or an alias spelled as the row has it
  NoCall,       \* no call: the holder of a lock that is free
  Changing,     \* bound of the model: the items that are edited, expire, or go
  MaxVersion    \* bound of the model: versions of such a row

\* A namespace is read by ids (get_cached_keys), one key to an item, or by
\* strings, none of which is the decimal id the value is stored under.
ASSUME CacheAssumption ==
  /\ ItemOf \in [Keys -> Items]
  /\ \/ /\ Primary = Keys /\ Spelled = Keys
        /\ \A k, l \in Keys : ItemOf[k] = ItemOf[l] => k = l
     \/ Primary = {} /\ Spelled \subseteq Keys
  /\ NoCall \notin Calls
  /\ Changing \subseteq Items
  /\ MaxVersion \in Nat /\ MaxVersion >= 1
=============================================================================
