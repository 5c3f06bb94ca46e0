------------------------------- MODULE Tables -------------------------------
(***************************************************************************)
(* The lookup tables of the data plane (dpdk_tables.c and the files it     *)
(* includes, ternary_naive.c), as operators on a table's state.  The hash  *)
(* and the prefix tree are DPDK's: rte_hash gives every key an index of    *)
(* its own, counted from 0, and rte_lpm finds the longest rule that        *)
(* matches.                                                                *)
(*                                                                         *)
(* A key is a tuple of units (bits or bytes, as fine as is needed), each 0 *)
(* or 1; a prefix length counts them.  A change is a record                *)
(*   [kind |-> "add", key, mask, depth, value]   mask and depth where the  *)
(*                                               type of table needs them  *)
(*   [kind |-> "default", value] or [kind |-> "flush"]                     *)
(***************************************************************************)
EXTENDS Naturals, Sequences, FiniteSets, SequencesExt, FiniteSetsExt

(* table_entry_..._t, or NULL: a value (the action and its parameters) with *)
(* the validity byte that follows it                                        *)
NoEntry == [value |-> [act |-> "null", port |-> 0], valid |-> FALSE]
make_table_entry(value) == [value |-> value, valid |-> TRUE]

(* size is ext->size, or that of the ternary table; content[i] is a pointer  *)
(* of the content array, in LPM tables to the entry of the rule with index i. *)
(* exited: the program has called rte_exit.                                  *)
create_table(type, key_size, hash_entries, index_range) ==
    [type |-> type, key_size |-> key_size, hash_entries |-> hash_entries,
     index_range |-> index_range, default_val |-> NoEntry, size |-> 0,
     hash |-> << >>, rules |-> {}, content |-> << >>,
     exited |-> type = "lpm" /\ key_size > 16]

Put(content, i, entry) == [j \in DOMAIN content \cup {i} |-> IF j = i THEN entry ELSE content[j]]

(* Mutant: the entry of a key that is there already is kept. *)
AddOnlyNew(t, key, value) ==
    IF key \in Range(t.hash) THEN t
    ELSE [t EXCEPT !.hash = Append(@, key),
                   !.content = Put(@, Len(t.hash), make_table_entry(value))]

(* A key that is there already keeps its index, and its entry is replaced.   *)
(* index % max_size is index: the hash has room for fewer keys than content. *)
exact_add(t, key, value) ==
    IF key \notin Range(t.hash) /\ Len(t.hash) = t.hash_entries
    THEN [t EXCEPT !.exited = TRUE]
    ELSE LET hash  == IF key \in Range(t.hash) THEN t.hash ELSE Append(t.hash, key)
             index == (CHOOSE i \in DOMAIN hash : hash[i] = key) - 1
         IN  [t EXCEPT !.hash = hash,
                       !.content = Put(@, index, make_table_entry(value))]

exact_lookup(t, key) ==
    IF key \in Range(t.hash)
    THEN t.content[(CHOOSE i \in DOMAIN t.hash : t.hash[i] = key) - 1]
    ELSE t.default_val

(* A rule that is there already gets the new index; size grows all the same, *)
(* as far as a table_index_t can (8 bits before DPDK 17.05).  rte_lpm_add    *)
(* refuses a prefix of length 0, and lpm4_add then exits.                    *)
lpm_add(t, key, depth, value) ==
    IF depth = 0 THEN [t EXCEPT !.exited = TRUE]
    ELSE LET prefix == SubSeq(key, 1, depth)
         IN  [t EXCEPT !.content = Put(@, t.size, make_table_entry(value)),
                       !.rules = {r \in @ : r.prefix # prefix}
                                    \cup {[prefix |-> prefix, index |-> t.size]},
                       !.size = (@ + 1) % t.index_range]

lpm_lookup(t, key) ==
    LET found == {r \in t.rules : IsPrefix(r.prefix, key)}
        best  == CHOOSE r \in found : \A q \in found : Len(q.prefix) <= Len(r.prefix)
    IN  IF found # {} THEN t.content[best.index] ELSE t.default_val

ternary_add(t, key, mask, value) ==
    [t EXCEPT !.content = Put(@, t.size, [key |-> key, mask |-> mask,
                                          entry |-> make_table_entry(value)]),
              !.size = @ + 1]

(* The first entry that matches.  The key of an entry is compared as it was   *)
(* given, so that it never matches when it has a unit outside its mask.  In   *)
(* an empty table naive_ternary_lookup follows a null pointer.                *)
TernaryCrashes(t) == t.type = "ternary" /\ t.key_size > 0 /\ t.size = 0

ternary_lookup(t, key) ==
    LET Matches(e) == \A j \in DOMAIN key : e.key[j] = key[j] * e.mask[j]
        found == {i \in 0 .. t.size - 1 : Matches(t.content[i])}
    IN  IF found # {} THEN t.content[Min(found)].entry ELSE t.default_val

table_set_default_action(t, value) ==
    [t EXCEPT !.default_val = [make_table_entry(value) EXCEPT !.valid = FALSE]]

(* lpm_flush leaves ext->size as it is, and no flush resets the default. *)
flush_table(t) ==
    IF t.key_size = 0 THEN t
    ELSE [t EXCEPT !.hash = << >>, !.rules = {},
                   !.size = IF t.type = "ternary" THEN 0 ELSE @]

Add(t, c) ==
    IF t.key_size = 0 THEN t
    ELSE CASE t.type = "exact"   -> exact_add(t, c.key, c.value)
           [] t.type = "lpm"     -> lpm_add(t, c.key, c.depth, c.value)
           [] t.type = "ternary" -> ternary_add(t, c.key, c.mask, c.value)

ApplyChange(t, c) ==
    CASE c.kind = "add"     -> Add(t, c)
      [] c.kind = "default" -> table_set_default_action(t, c.value)
      [] c.kind = "flush"   -> flush_table(t)

Lookup(t, key) ==
    IF t.key_size = 0 THEN t.default_val
    ELSE CASE t.type = "exact"   -> exact_lookup(t, key)
           [] t.type = "lpm"     -> lpm_lookup(t, key)
           [] t.type = "ternary" -> ternary_lookup(t, key)
-----------------------------------------------------------------------------
(* What the table promises, by the changes made to it and nothing else.      *)

Kinds(changes, kind) == {i \in DOMAIN changes : changes[i].kind = kind}

(* flush forgets the entries, and not the default *)
Standing(changes) ==
    {i \in Kinds(changes, "add") : \A f \in Kinds(changes, "flush") : f < i}

MatchesKey(type, c, key) ==
    CASE type = "exact"   -> c.key = key
      [] type = "lpm"     -> IsPrefix(SubSeq(c.key, 1, c.depth), key)
      [] type = "ternary" -> \A j \in DOMAIN key : c.mask[j] = 1 => c.key[j] = key[j]

(* Of those that match: an exact table and a prefix have the last one added,  *)
(* an LPM table the longest prefix, a ternary table the first one.            *)
Wins(type, changes, i, j) ==
    CASE type = "exact"   -> i >= j
      [] type = "lpm"     -> \/ changes[i].depth > changes[j].depth
                             \/ changes[i].depth = changes[j].depth /\ i >= j
      [] type = "ternary" -> i <= j

Promised(type, keyless, changes, key) ==
    LET found    == IF keyless THEN {}
                    ELSE {i \in Standing(changes) : MatchesKey(type, changes[i], key)}
        winner   == CHOOSE i \in found : \A j \in found : Wins(type, changes, i, j)
        defaults == Kinds(changes, "default")
    IN  IF found # {} THEN [value |-> changes[winner].value, valid |-> TRUE]
        ELSE IF defaults # {} THEN [value |-> changes[Max(defaults)].value, valid |-> FALSE]
        ELSE NoEntry
=============================================================================
