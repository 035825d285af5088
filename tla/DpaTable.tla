------------------------------ MODULE DpaTable ------------------------------
(***************************************************************************)
(* The interning tables of dpa.c: records in the order of their first use, *)
(* found through an open-addressing index that keeps an identifier and the *)
(* upper half of the hash per slot, and the byte accounting underneath.    *)
(* An insertion that has to rebuild the index does so one record at a      *)
(* time, polling the limits in between.  Sizes are in units of a record;   *)
(* the counter of entries is not near its 32-bit end.                      *)
(***************************************************************************)
EXTENDS Integers, Sequences, FiniteSets

CONSTANTS Keys,
          Home,         \* the number a key's probing starts at (the lower half
                        \* of its hash)
          Tag,          \* the upper half
          FirstItems,   \* capacity of the first array, 16 in the code
          MaxBytes,     \* max_host_bytes
          CapLimit      \* where doubling a capacity wraps

ASSUME TableAssumption ==
  /\ Home \in [Keys -> Nat] /\ DOMAIN Tag = Keys
  /\ FirstItems \in Nat \ {0} /\ MaxBytes \in Nat /\ CapLimit \in Nat

VARIABLES items,        \* the keys of the records, by identifier 1..n
          cap,          \* capacity of the items array
          slots,        \* the index: 0..bins-1 -> identifier, 0 when empty
          bytes,        \* accounted host bytes
          alive,        \* the context has not failed
          stage,        \* "idle", or within dpa_insert: "index" while a new
                        \* index is filled, "place" before the record is added
          adding,       \* the key being inserted
          fresh,        \* the new index
          indexed       \* the records it holds

table == <<items, cap, slots>>
insertion == <<adding, fresh, indexed>>
tableVars == <<table, bytes, alive, stage, insertion>>

Bins(s) == Cardinality(DOMAIN s)
NoSlots == [slot \in {} |-> 0]
EmptySlots(bins) == [slot \in 0..(bins - 1) |-> 0]

TableInit ==
    /\ items = <<>> /\ cap = 0 /\ slots = NoSlots
    /\ bytes = 0 /\ alive = TRUE
    /\ stage = "idle" /\ adding \in Keys /\ fresh = NoSlots /\ indexed = 0

-----------------------------------------------------------------------------
Least(S) == CHOOSE x \in S : \A y \in S : x <= y

\* The slot looked at after d others, and the offsets at which a slot is empty.
Probed(s, k, d) == (Home[k] + d) % Bins(s)
Offsets(s) == 0..(Bins(s) - 1)
Empty(s, k) == {d \in Offsets(s) : s[Probed(s, k, d)] = 0}

\* dpa_probe with the callers' comparison: the slots from the home slot on, up
\* to an empty one; only a record with the same tag is looked at.
Hits(its, s, k) ==
    {d \in Offsets(s) :
       LET id == s[Probed(s, k, d)]
       IN  /\ \A e \in Empty(s, k) : d < e
           /\ Tag[its[id]] = Tag[k] /\ its[id] = k}

Find(its, s, k) ==
    IF Hits(its, s, k) = {} THEN 0 ELSE s[Probed(s, k, Least(Hits(its, s, k)))]

\* table_slot: the first empty slot from the home slot on.
Slotted(s, k, id) == [s EXCEPT ![Probed(s, k, Least(Empty(s, k)))] = id]

\* dpa_alloc: whether so many units more still fit the budget.
Fits(used, more) == used + more <= MaxBytes

\* The index grows only when every slot is taken.
CrowdedLate(n, bins) == n >= bins

\* The index grows when it is half full.
Crowded(n, bins) == n >= bins \div 2

\* dpa_decline, wherever an insertion has got to.
Refused(used, capacity) ==
    /\ alive' = FALSE /\ bytes' = used /\ cap' = capacity
    /\ UNCHANGED <<items, slots, stage, insertion>>

\* dpa_record and dpa_insert for a key that Find does not know: a record, a
\* larger items array when it is full, a larger index when that is half full.
\* A failed allocation leaves what was done so far.
Insert(k) ==
    LET n == Len(items)
        newCap == IF n < cap THEN cap ELSE IF cap = 0 THEN FirstItems ELSE cap * 2
        more == IF newCap = cap THEN 0 ELSE newCap
        bins == newCap * 2
        withRecord == bytes + 1
        released == IF newCap = cap THEN withRecord ELSE withRecord + newCap - cap
    IN  IF ~Fits(bytes, 1) THEN Refused(bytes, cap)
        ELSE IF newCap > CapLimit \/ ~Fits(withRecord, more)
        THEN Refused(withRecord, cap)
        ELSE IF ~Crowded(n, Bins(slots))
        THEN /\ cap' = newCap /\ bytes' = released
             /\ stage' = "place" /\ adding' = k
             /\ UNCHANGED <<items, slots, alive, fresh, indexed>>
        ELSE IF bins > CapLimit \/ ~Fits(released, bins)
        THEN Refused(released, newCap)
        ELSE /\ cap' = newCap /\ bytes' = released + bins
             /\ stage' = "index" /\ adding' = k
             /\ fresh' = EmptySlots(bins) /\ indexed' = 0
             /\ UNCHANGED <<items, slots, alive>>

\* Interning: the record of a key, made if there is none.
Intern(k) ==
    /\ alive /\ stage = "idle"
    /\ IF Find(items, slots, k) # 0 THEN UNCHANGED tableVars ELSE Insert(k)

\* The next record goes into the new index.
Reindex ==
    /\ stage = "index" /\ indexed < Len(items)
    /\ fresh' = Slotted(fresh, items[indexed + 1], indexed + 1)
    /\ indexed' = indexed + 1
    /\ UNCHANGED <<table, bytes, alive, stage, adding>>

\* The new index replaces the old one.
SwapIndex ==
    /\ stage = "index" /\ indexed = Len(items)
    /\ slots' = fresh /\ bytes' = bytes - Bins(slots)
    /\ fresh' = NoSlots /\ indexed' = 0
    /\ stage' = "place"
    /\ UNCHANGED <<items, cap, alive, adding>>

\* The record gets its slot and the next identifier.
Place ==
    /\ stage = "place"
    /\ items' = Append(items, adding)
    /\ slots' = Slotted(slots, adding, Len(items) + 1)
    /\ stage' = "idle"
    /\ UNCHANGED <<cap, bytes, alive, insertion>>

\* The initial state gets its tuple late: its slot is emptied and the record
\* indexed again under the new key.  It is the only record then.
Rekey(k) ==
    /\ alive /\ stage = "idle" /\ Len(items) = 1
    /\ items' = <<k>>
    /\ slots' = Slotted([slots EXCEPT ![Home[items[1]] % Bins(slots)] = 0], k, 1)
    /\ UNCHANGED <<cap, bytes, alive, stage, insertion>>

\* calloc fails, the deadline strikes, or the context is cancelled: at a poll
\* between two operations, in a long probe, or between two records of a new
\* index, which is released then.
TableStop ==
    /\ alive
    /\ alive' = FALSE
    /\ stage' = "idle" /\ fresh' = NoSlots /\ indexed' = 0
    /\ bytes' = bytes - Bins(fresh)
    /\ UNCHANGED <<table, adding>>

\* table_clear.
TableClear ==
    /\ alive /\ stage = "idle" /\ items # <<>>
    /\ items' = <<>> /\ cap' = 0 /\ slots' = NoSlots
    /\ bytes' = 0
    /\ UNCHANGED <<alive, stage, insertion>>

TableNext ==
    \/ \E k \in Keys : Intern(k) \/ Rekey(k)
    \/ Reindex \/ SwapIndex \/ Place \/ TableStop \/ TableClear

TableSpec == TableInit /\ [][TableNext]_tableVars

-----------------------------------------------------------------------------
\* What the users of a table rely on, whatever its index and its storage do: an
\* identifier is the position of its record in the order of first use, no key
\* gets a second one, and a record keeps its key and its identifier; only the
\* first record alone may change its key, and only together do records go.
NewRecord(k) == (\A id \in DOMAIN items : items[id] # k) /\ items' = Append(items, k)
KeyedAnew(k) == Len(items) = 1 /\ items' = <<k>>
AllGone == items' = <<>>

Interner ==
    /\ items = <<>>
    /\ [][AllGone \/ \E k \in Keys : NewRecord(k) \/ KeyedAnew(k)]_items

\* Whatever was interned in whatever order, across growth, colliding hashes,
\* equal tags and failed growth: every record is found under its own
\* identifier, no key has two, and a search always meets an empty slot and so
\* ends.
Findable ==
    /\ \A id \in DOMAIN items : Find(items, slots, items[id]) = id
    /\ items # <<>> => \E slot \in DOMAIN slots : slots[slot] = 0
=============================================================================
