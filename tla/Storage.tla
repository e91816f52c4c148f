------------------------------ MODULE Storage ------------------------------
(***************************************************************************)
(* The storage of macros (libs/macro/storage.c) over the three containers  *)
(* it is made of: the map from spellings to entries (libs/utils/map.c),    *)
(* the hash table of records (hash.c) in one vector of numbers (vector.c), *)
(* and the vector of strings (strings.c).  Spellings are model values with *)
(* a given sum of characters; allocation and its failures are left out.    *)
(*                                                                         *)
(* SIZE_MAX is -1, so that index + 1 wraps to 0 as in the code.            *)
(***************************************************************************)
EXTENDS Integers, Sequences, SequencesExt, FiniteSets, MacroTable

CONSTANTS
    MacroNames,       \* names of macros
    Keywords,         \* the directives, in the order kw_add adds them
    Sum,              \* spelling -> sum of its characters
    Contents,         \* what a macro is set to: <<arguments, text>>
    MaxStrings,
    MAP_HASH_MAX, MAX_HASH,
    NoKey, Empty

SIZE_MAX == -1
ITEM_MAX == 2147483647
BEGIN_KEYWORD == 0
END_KEYWORD == Len(Keywords) + 1

\* The static_assert of storage_create.
ASSUME KeywordsBelowRecords == END_KEYWORD < MAX_HASH

VARIABLES
    as, hs, vec,    \* the storage
    table,          \* the table its users take it for
    promised        \* history: the text every macro was last given, of those that can
                    \* count on it (see Set and Undefine)

vars == <<as, hs, vec, table, promised>>

-----------------------------------------------------------------------------

(* vector.c: out of range, a read answers ITEM_MAX and a write fails. *)

vector_get(v, i) == IF i \in 0..Len(v) - 1 THEN v[i + 1] ELSE ITEM_MAX
vector_set(v, i, x) == IF i \in 0..Len(v) - 1 THEN [v EXCEPT ![i + 1] = x] ELSE v
vector_increase(v, n) == v \o [k \in 1..n |-> 0]

-----------------------------------------------------------------------------

(* map.c: entries 0..MAP_HASH_MAX-1 head the chains, the others follow. *)

Unused == [next |-> SIZE_MAX, ref |-> NoKey, value |-> 0]
map_create == [k \in 1..MAP_HASH_MAX |-> Unused]
map_get_hash(key) == Sum[key] % MAP_HASH_MAX
Entry(m, i) == m[i + 1]

\* The entry of the key, or the last one of its chain.
RECURSIVE Walk(_, _, _)
Walk(m, i, key) ==
    IF Entry(m, i).ref = key \/ Entry(m, i).next = SIZE_MAX THEN i ELSE Walk(m, Entry(m, i).next, key)

map_get_index_by_hash(m, key) ==
    LET i == Walk(m, map_get_hash(key), key) IN IF Entry(m, i).ref = key THEN i ELSE SIZE_MAX

\* The answer is the map and the entry; a reserved key may exist already.
map_add_by_hash(m, key, value) ==
    LET i == Walk(m, map_get_hash(key), key)
        new == [next |-> SIZE_MAX, ref |-> key, value |-> value]
    IN  CASE Entry(m, i).ref = key -> [map |-> m, index |-> IF value = ITEM_MAX THEN i ELSE SIZE_MAX]
          [] Entry(m, i).ref = NoKey -> [map |-> [m EXCEPT ![i + 1] = new], index |-> i]
          [] OTHER -> [map |-> Append([m EXCEPT ![i + 1].next = Len(m)], new), index |-> Len(m)]

map_set_by_index(m, i, value) ==
    IF i \in 0..Len(m) - 1 /\ Entry(m, i).ref # NoKey THEN [m EXCEPT ![i + 1].value = value] ELSE m

map_get_by_index(m, i) ==
    IF i \in 0..Len(m) - 1 /\ Entry(m, i).ref # NoKey THEN Entry(m, i).value ELSE ITEM_MAX

-----------------------------------------------------------------------------

(* hash.c: a record is next, key, amount and its values; a removed one has *)
(* the key ITEM_MAX and is used again for a key of its chain.              *)

get_hash(key) == key % MAX_HASH
hash_create == vector_increase(<<>>, MAX_HASH)

RECURSIVE Records(_, _)
Records(h, i) == IF i \in {0, ITEM_MAX} THEN <<>> ELSE <<i>> \o Records(h, vector_get(h, i))
Chain(h, key) == Records(h, vector_get(h, get_hash(key)))

hash_get_key(h, i) == vector_get(h, i + 1)
hash_get_amount_by_index(h, i) == IF i # SIZE_MAX /\ vector_get(h, i + 2) # ITEM_MAX THEN vector_get(h, i + 2) ELSE 0
hash_get_by_index(h, i, num) == IF num < hash_get_amount_by_index(h, i) THEN vector_get(h, i + 3 + num) ELSE ITEM_MAX
hash_set_by_index(h, i, num, x) == IF num < hash_get_amount_by_index(h, i) THEN vector_set(h, i + 3 + num, x) ELSE h

hash_get_index(h, key) ==
    LET found == SelectSeq(Chain(h, key), LAMBDA i : hash_get_key(h, i) = key)
    IN  IF found = <<>> THEN SIZE_MAX ELSE Head(found)

\* Mutant: removed records are never used again.
hash_add_Grow(h, key, amount) ==
    LET chain == Chain(h, key)
        prev == IF chain = <<>> THEN get_hash(key) ELSE Last(chain)
        new == Len(h)
    IN  IF hash_get_index(h, key) # SIZE_MAX THEN [hash |-> h, index |-> SIZE_MAX]
        ELSE [hash |-> vector_set(vector_set(vector_increase(vector_set(h, prev, new), 3 + amount), new + 2, amount), new + 1, key),
              index |-> new]

hash_add(h, key, amount) ==
    LET chain == Chain(h, key)
        removed == SelectSeq(chain, LAMBDA i : hash_get_key(h, i) = ITEM_MAX /\ vector_get(h, i + 2) = amount)
        prev == IF chain = <<>> THEN get_hash(key) ELSE Last(chain)
        new == Len(h)
        reset == [k \in DOMAIN h |-> IF removed # <<>> /\ k - 1 \in Head(removed) + 3..Head(removed) + 2 + amount THEN 0 ELSE h[k]]
    IN  CASE hash_get_index(h, key) # SIZE_MAX -> [hash |-> h, index |-> SIZE_MAX]
          [] hash_get_index(h, key) = SIZE_MAX /\ removed # <<>> ->
                 [hash |-> vector_set(reset, Head(removed) + 1, key), index |-> Head(removed)]
          [] OTHER ->
                 [hash |-> vector_set(vector_set(vector_increase(vector_set(h, prev, new), 3 + amount), new + 2, amount), new + 1, key),
                  index |-> new]

hash_remove_by_index(h, i) == IF i = SIZE_MAX THEN h ELSE vector_set(h, i + 1, ITEM_MAX)

-----------------------------------------------------------------------------

(* strings.c: the empty string is refused, only the last one is removed. *)

strings_add(v, s) == IF s = Empty THEN [vec |-> v, index |-> SIZE_MAX] ELSE [vec |-> Append(v, s), index |-> Len(v)]
strings_get(v, i) == IF i \in 0..Len(v) - 1 THEN v[i + 1] ELSE NoValue
strings_remove(v) == IF v = <<>> THEN v ELSE Front(v)

-----------------------------------------------------------------------------

(* storage.c *)

kw_is_correct(kw) == kw \in BEGIN_KEYWORD + 1..END_KEYWORD - 1

kw_add(m) == FoldLeft(LAMBDA acc, k : map_add_by_hash(acc, Keywords[k], k).map, m, [k \in DOMAIN Keywords |-> k])

storage_search(m, h, name) ==
    LET index == map_get_index_by_hash(m, name)
        value == map_get_by_index(m, index)
    IN  IF kw_is_correct(value) THEN value ELSE hash_get_index(h, index)

storage_get_by_index(h, v, id) == strings_get(v, hash_get_by_index(h, id, 0))
storage_get_args_by_index(h, id) == LET n == hash_get_by_index(h, id, 1) IN IF n = ITEM_MAX THEN 0 ELSE n

storage_create == as = kw_add(map_create) /\ hs = hash_create /\ vec = <<>>

\* The entry of a name that has a record already loses the record's index.
storage_add(name) ==
    LET key == map_add_by_hash(as, name, ITEM_MAX)
        record == hash_add(hs, key.index, 2)
    IN  /\ as' = map_set_by_index(key.map, key.index, record.index)
        /\ hs' = hash_set_by_index(hash_set_by_index(record.hash, record.index, 0, ITEM_MAX), record.index, 1, 0)
        /\ UNCHANGED vec

\* Mutant: the last string is dropped whoever owns it.
Kept_Last(id) == strings_remove(vec)

\* The strings left when the one of a record, if it is the last, is dropped.
Kept(id) == IF hash_get_by_index(hs, id, 0) = Len(vec) - 1 THEN strings_remove(vec) ELSE vec

storage_set_args_by_index(h, id, args) == hash_set_by_index(h, id, 1, args)

storage_set_by_index(h, id, value) ==
    LET added == strings_add(Kept(id), value)
    IN  /\ vec' = added.vec
        /\ hs' = IF added.index = SIZE_MAX THEN h ELSE hash_set_by_index(h, id, 0, added.index)
        /\ UNCHANGED as

storage_remove_by_index(id) ==
    /\ as' = map_set_by_index(as, hash_get_key(hs, id), ITEM_MAX)
    /\ vec' = Kept(id)
    /\ hs' = hash_remove_by_index(hs, id)

-----------------------------------------------------------------------------

(* The preprocessor finds a name, then works on the record it found; it    *)
(* also removes names that are not defined.                                *)

Find(name) == storage_search(as, hs, name)

Init == storage_create /\ table = NoMacros /\ promised = <<>>

Define(name) ==
    /\ storage_add(name)
    /\ table' = Added(table, name)
    /\ promised' = IF name \in DOMAIN promised \/ name \in Names(table) THEN promised ELSE promised @@ (name :> NoValue)

\* The macros that lose their text when one that cannot count on its own changes or goes:
\* that number may be theirs by now.
Robbed(name) ==
    {other \in Names(table) : /\ HoldsLast(table, name) /\ name \notin DOMAIN promised
                              /\ table.macros[other].text = table.macros[name].text}

Without(names) == Restrict(promised, DOMAIN promised \ names)

\* The end of parse_context and parse_macro: the number of arguments, then the text.
\* A macro that is set to the empty text cannot count on what it reads, unless it had
\* none anyway; one that is given a text can again.
Set(name, args, value) ==
    LET id == Find(name)
        robbed == Robbed(name)
    IN  /\ id # SIZE_MAX
        /\ value # Empty => Len(Kept(id)) < MaxStrings
        /\ storage_set_by_index(storage_set_args_by_index(hs, id, args), id, value)
        /\ table' = WithText(WithArgs(table, name, args), name, IF value = Empty THEN NoValue ELSE value)
        /\ promised' = IF value # Empty THEN (name :> value) @@ Without(robbed)
                       ELSE IF name \in DOMAIN promised /\ promised[name] = NoValue THEN promised
                       ELSE Without(robbed \cup {name})

Undefine(name) ==
    /\ storage_remove_by_index(Find(name))
    /\ table' = Removed(table, name)
    /\ promised' = Without(Robbed(name) \cup {name})

Next == \E name \in MacroNames :
            \/ Define(name) \/ Undefine(name)
            \/ \E c \in Contents : Set(name, c[1], c[2])

Spec == Init /\ [][Next]_vars

-----------------------------------------------------------------------------

Defined == {name \in MacroNames : Find(name) # SIZE_MAX}

\* What a user reads is what the table says, in every case.
ReadAsTable ==
    /\ Names(table) = Defined
    /\ \A name \in Names(table) :
        LET id == Find(name)
        IN  /\ storage_get_by_index(hs, vec, id) = TextOf(table, name)
            /\ storage_get_args_by_index(hs, id) = ArgsOf(table, name)

\* A macro reads the text it was last given, unless it has been set to the empty text
\* since or has come to share its text with such a one, which then gave it up.
TextsApart == \A name \in DOMAIN promised : TextOf(table, name) = promised[name]

\* A directive is found under its spelling.  The one exception is the directive whose entry
\* in the map has the number of the first record of the first bucket, the number that
\* #undef of a name without a record reads.
DirectivesFound ==
    \A k \in DOMAIN Keywords :
        \/ Find(Keywords[k]) = k
        \/ map_get_index_by_hash(as, Keywords[k]) = vector_get(hs, 0) /\ Find(Keywords[k]) = SIZE_MAX

\* The storage is the table the preprocessor takes it for, with names that share a chain,
\* records that share a bucket, and records and strings that are used again; within the
\* limits that TextsApart and DirectivesFound state it mixes no two macros up and loses
\* no directive (storage.c over map.c, hash.c and strings.c).
TableImplemented == ReadAsTable /\ TextsApart /\ DirectivesFound

\* Records that were removed are used again: a bucket never holds more records
\* than names that can share it, however often they are defined and undefined
\* (hash_add).
RecordsReused ==
    \A b \in 0..MAX_HASH - 1 :
        Len(Records(hs, vector_get(hs, b))) <= Cardinality({k \in DOMAIN as : get_hash(k - 1) = b /\ as[k].ref \in MacroNames})

=============================================================================
