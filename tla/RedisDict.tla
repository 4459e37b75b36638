----------------------------- MODULE RedisDict -----------------------------
(***************************************************************************)
(* The hash table of the redis package (packages/redis/dict.c) as          *)
(* operators on [table, used]: table is the sequence of chains, a chain a  *)
(* sequence of [key, val], used the number of entries; ht->size is         *)
(* Len(table).                                                             *)
(***************************************************************************)
EXTENDS Naturals, Sequences, SequencesExt

CONSTANTS
    None,           \* no entry
    Hash,           \* the hash of every key
    InitialSize     \* DICT_HT_INITIAL_SIZE, a power of two; 4 in the code

ASSUME DictAssumption == InitialSize \in Nat \ {0}

dictCreate == [table |-> <<>>, used |-> 0]

\* dictHashKey & sizemask, counted from one.
Slot(d, key) == 1 + (Hash[key] % Len(d.table))

Chain(d, key) == d.table[Slot(d, key)]

\* The position of key in its chain, 0 if it is not there.
Position(d, key) ==
    IF d.table = <<>> THEN 0 ELSE SelectInSeq(Chain(d, key), LAMBDA e : e.key = key)

dictFind(d, key) ==
    IF Position(d, key) = 0 THEN None ELSE Chain(d, key)[Position(d, key)].val

\* Entries in the order of the iterator: slot by slot.
Entries(d) == FlattenSeq(d.table)

Link(d, e) ==
    [table |-> [d.table EXCEPT ![Slot(d, e.key)] = <<e>> \o @], used |-> d.used + 1]

\* The entries one after the other, each to the head of its chain, in a table
\* of the given size.
Moved(entries, size) ==
    LET moved[i \in 0..Len(entries)] ==
            IF i = 0 THEN [table |-> [s \in 1..size |-> <<>>], used |-> 0]
            ELSE Link(moved[i - 1], entries[i])
    IN  moved[Len(entries)]

\* Mutant: the entries of a chain behind the first are lost.
dictExpandHeads(d, size) ==
    Moved(SelectSeq(Entries(d), LAMBDA e : Position(d, e.key) = 1), size)

\* Every entry moves; size is a power of two already.
dictExpand(d, size) == Moved(Entries(d), size)

_dictExpandIfNeeded(d) ==
    CASE Len(d.table) = 0 -> dictExpand(d, InitialSize)
      [] Len(d.table) # 0 /\ d.used = Len(d.table) -> dictExpand(d, Len(d.table) * 2)
      [] OTHER -> d

\* dictAdd, or the update of the entry dictFind returns.
dictReplace(d, key, val) ==
    LET e == _dictExpandIfNeeded(d)
    IN  IF Position(e, key) = 0 THEN Link(e, [key |-> key, val |-> val])
        ELSE [table |-> [e.table EXCEPT ![Slot(e, key)] =
                            [@ EXCEPT ![Position(e, key)] = [key |-> key, val |-> val]]],
              used |-> e.used]

dictDelete(d, key) ==
    IF Position(d, key) = 0 THEN d
    ELSE [table |-> [d.table EXCEPT ![Slot(d, key)] = RemoveAt(@, Position(d, key))],
          used |-> d.used - 1]
=============================================================================
