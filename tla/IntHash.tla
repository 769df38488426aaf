------------------------------ MODULE IntHash -------------------------------
(***************************************************************************)
(* The open-addressing hash table of src/src/hash.c, one step per turn of  *)
(* its probing loops.                                                      *)
(*                                                                         *)
(* A call in progress is the frame (pc, key, value, i): hash_get and       *)
(* hash_set both start at the home slot of the key (the code's j) and walk *)
(* with wrap-around.  hash_set grows the table only after a walk around a  *)
(* table without any free slot; hash_resize then re-inserts the slots of   *)
(* the old table one at a time (ri) with the same hash_set, and the        *)
(* interrupted hash_set (pending) starts over.  calloc may fail.           *)
(*                                                                         *)
(* hash_func is a fixed mixing function of 64-bit integers.  The model     *)
(* takes an arbitrary one from HashFuncs, so that every pattern of         *)
(* collisions is covered.                                                  *)
(***************************************************************************)
EXTENDS Integers, FiniteSets

CONSTANTS
  Keys,          (* the handles *)
  NoKey,         (* the key 0, which marks a free slot *)
  Values,        (* the object indices *)
  NotFound,      (* HASH_NOT_FOUND *)
  HashFuncs,     (* the candidates for hash_func *)
  InitialSize,   (* the size asked of hash_new *)
  MinSize,       (* the smallest size hash_new takes, 15 in the code *)
  MaxSize,       (* bound: the table is not doubled past this size *)
  CallocMayFail  (* TRUE: calloc may return NULL in hash_resize *)

ASSUME NoKeyIsNoKey == NoKey \notin Keys
ASSUME ValuesType == NotFound \notin Values /\ 0 \in Values
ASSUME HashFuncsType == HashFuncs \subseteq [Keys \cup {NoKey} -> Nat]
ASSUME SizesType == InitialSize \in Nat /\ MinSize \in Nat /\ MinSize >= 2
ASSUME CallocType == CallocMayFail \in BOOLEAN

VARIABLES
  func,      (* hash_func *)
  array,     (* hash->array: slot |-> [key, value] *)
  size,      (* hash->size *)
  elems,     (* hash->elems *)
  old,       (* oldhash.array while hash_resize copies it *)
  ri,        (* the i of hash_resize: the next slot of old to copy *)
  pc,        (* where the running call is; "idle" when there is none *)
  key,       (* the arguments of the running hash_get or hash_set ... *)
  value,
  i,         (* ... and the slot its walk has come to *)
  pending,   (* the hash_set that hash_resize interrupted *)
  ret        (* the result of the last hash_get *)

table == <<array, size, elems>>
frame == <<key, value, i>>
resizing == <<old, ri, pending>>
vars == <<func, array, size, elems, old, ri, pc, key, value, i, pending, ret>>

-----------------------------------------------------------------------------
Slot == [key : Keys \cup {NoKey}, value : Values]
Free == [key |-> NoKey, value |-> 0]   (* what calloc leaves *)
NoCall == [key |-> NoKey, value |-> 0]

Slots == 0 .. size - 1
Home(k) == func[k] % size
(* Mutant: the walk does not wrap around. *)
MutFollowingNoWrap(s) == s + 1

Following(s) == IF s + 1 = size THEN 0 ELSE s + 1

(* hash_new takes at least MinSize and doubles until the size is past      *)
(* size * 100 / HASH_LOAD: that is exactly one doubling.                   *)
NewSize(n) == 2 * (IF n < MinSize THEN MinSize ELSE n)

(* Mutant: the load factor is 100%. *)
MutNeedResizeLate == elems > size

NeedResize == (elems * 100) \div 75 > size

Empty(n) == [s \in 0 .. n - 1 |-> Free]
NoTable == Empty(0)
Rehashing == old # NoTable

Init ==
  /\ func \in HashFuncs
  /\ size = NewSize(InitialSize)
  /\ array = Empty(size)
  /\ elems = 0
  /\ old = NoTable /\ ri = 0 /\ pending = NoCall
  /\ pc = "idle"
  /\ key = NoKey /\ value = 0 /\ i = 0
  /\ ret = NotFound

-----------------------------------------------------------------------------
(* hash_get *)

Get(k) ==
  /\ pc = "idle"
  /\ pc' = "get"
  /\ key' = k /\ value' = 0 /\ i' = Home(k)
  /\ UNCHANGED <<func, table, resizing, ret>>

(* Mutant: the slot the loop stopped at is not tested for the key. *)
MutGetStepNoKeyTest ==
  /\ pc = "get"
  /\ LET stop == array[i].key \in {NoKey, key}
         turn == Following(i) = Home(key)
     IN IF stop \/ turn
          THEN /\ pc' = "idle"
               /\ ret' = array[i].value
               /\ UNCHANGED i
          ELSE /\ i' = Following(i)
               /\ UNCHANGED <<pc, ret>>
  /\ UNCHANGED <<func, table, resizing, key, value>>

(* The loop of hash_get: a free slot or a complete turn ends it without    *)
(* a result, the key ends it with its value.                               *)
GetStep ==
  /\ pc = "get"
  /\ LET hit  == array[i].key # NoKey /\ array[i].key = key
         stop == array[i].key \in {NoKey, key}
         turn == Following(i) = Home(key)
     IN IF stop \/ turn
          THEN /\ pc' = "idle"
               /\ ret' = IF hit THEN array[i].value ELSE NotFound
               /\ UNCHANGED i
          ELSE /\ i' = Following(i)
               /\ UNCHANGED <<pc, ret>>
  /\ UNCHANGED <<func, table, resizing, key, value>>

-----------------------------------------------------------------------------
(* hash_set *)

Set(k, v) ==
  /\ pc = "idle"
  /\ k # NoKey              (* a 0 key is refused: the call changes nothing *)
  /\ size < MaxSize \/ Cardinality({s \in Slots : array[s].key # NoKey}) < size
                            (* bound: the table is not filled at MaxSize *)
  /\ pc' = "set"
  /\ key' = k /\ value' = v /\ i' = Home(k)
  /\ UNCHANGED <<func, table, resizing, ret>>

(* hash_set returns, to hash_resize when that is what called it. *)
SetReturns ==
  /\ pc' = IF Rehashing THEN "rehash" ELSE "idle"
  /\ UNCHANGED <<func, size, resizing, frame, ret>>

Insert ==
  /\ pc = "set"
  /\ array[i].key = NoKey
  /\ array' = [array EXCEPT ![i] = [key |-> key, value |-> value]]
  /\ elems' = elems + 1
  /\ SetReturns

Overwrite ==
  /\ pc = "set"
  /\ array[i].key = key
  /\ array' = [array EXCEPT ![i].value = value]
  /\ UNCHANGED elems
  /\ SetReturns

Advance ==
  /\ pc = "set"
  /\ array[i].key \notin {NoKey, key}
  /\ Following(i) # Home(key)
  /\ i' = Following(i)
  /\ UNCHANGED <<func, table, resizing, pc, key, value, ret>>

(* The walk is back at its home slot.  Either the load calls for a larger  *)
(* table, or the second probing loop, which is entered at the (occupied)   *)
(* home slot, writes to the slot after it without looking at it.           *)
FullTurn ==
  /\ pc = "set"
  /\ array[i].key \notin {NoKey, key}
  /\ Following(i) = Home(key)
  /\ ~ Rehashing      (* see NestedSetFinds: the inner call finds a slot *)
  /\ IF NeedResize
       THEN pc' = "resize" /\ UNCHANGED <<table, i>>
       ELSE LET s == Following(Home(key)) IN
            /\ array' = [array EXCEPT ![s] = [key |-> key, value |-> value]]
            /\ elems' = elems + 1
            /\ i' = s
            /\ pc' = "idle"
            /\ UNCHANGED size
  /\ UNCHANGED <<func, resizing, key, value, ret>>

-----------------------------------------------------------------------------
(* hash_resize *)

(* Mutant: the size is shifted the wrong way. *)
MutResizeShrinks ==
  /\ pc = "resize"
  /\ old' = array /\ ri' = 0
  /\ pending' = [key |-> key, value |-> value]
  /\ size' = size \div 2
  /\ array' = Empty(size \div 2)
  /\ elems' = 0
  /\ pc' = "rehash"
  /\ UNCHANGED <<func, frame, ret>>

ResizeAllocates ==
  /\ pc = "resize"
  /\ old' = array /\ ri' = 0
  /\ pending' = [key |-> key, value |-> value]
  /\ size' = 2 * size
  /\ array' = Empty(2 * size)
  /\ elems' = 0
  /\ pc' = "rehash"
  /\ UNCHANGED <<func, frame, ret>>

(* calloc fails: the old table is put back and hash_resize returns to      *)
(* hash_set, which calls itself and starts over.                           *)
ResizeFails ==
  /\ pc = "resize"
  /\ CallocMayFail
  /\ pc' = "set"
  /\ i' = Home(key)
  /\ UNCHANGED <<func, table, resizing, key, value, ret>>

(* Mutant: the slots are copied to the same index of the new table. *)
MutRehashInPlace ==
  /\ pc = "rehash"
  /\ ri \in DOMAIN old
  /\ ri' = ri + 1
  /\ IF old[ri].key = NoKey
       THEN UNCHANGED <<pc, frame>>
       ELSE /\ pc' = "set"
            /\ key' = old[ri].key /\ value' = old[ri].value
            /\ i' = ri
  /\ UNCHANGED <<func, table, old, pending, ret>>

(* Mutant: the copying loop does not count up. *)
MutRehashStuck ==
  /\ pc = "rehash"
  /\ ri \in DOMAIN old
  /\ ri' = ri
  /\ pc' = "set"
  /\ key' = old[ri].key /\ value' = old[ri].value
  /\ i' = Home(old[ri].key)
  /\ UNCHANGED <<func, table, old, pending, ret>>

(* The copying loop calls hash_set for each occupied slot of the old table. *)
RehashSlot ==
  /\ pc = "rehash"
  /\ ri \in DOMAIN old
  /\ ri' = ri + 1
  /\ IF old[ri].key = NoKey
       THEN UNCHANGED <<pc, frame>>
       ELSE /\ pc' = "set"
            /\ key' = old[ri].key /\ value' = old[ri].value
            /\ i' = Home(old[ri].key)
  /\ UNCHANGED <<func, table, old, pending, ret>>

(* The old table is freed and the interrupted hash_set starts over. *)
RehashDone ==
  /\ pc = "rehash"
  /\ ri \notin DOMAIN old
  /\ old' = NoTable /\ ri' = 0 /\ pending' = NoCall
  /\ pc' = "set"
  /\ key' = pending.key /\ value' = pending.value
  /\ i' = Home(pending.key)
  /\ UNCHANGED <<func, table, ret>>

-----------------------------------------------------------------------------
Call ==
  \/ \E k \in Keys \cup {NoKey} : Get(k)
  \/ \E k \in Keys \cup {NoKey}, v \in Values : Set(k, v)

Run ==
  \/ GetStep
  \/ Insert \/ Overwrite \/ Advance \/ FullTurn
  \/ ResizeAllocates \/ ResizeFails \/ RehashSlot \/ RehashDone

Next == Call \/ Run

Spec == Init /\ [][Next]_vars

(* A call that is running goes on: the code is sequential and never waits. *)
FairSpec == Spec /\ WF_vars(Run)

-----------------------------------------------------------------------------
TypeOK ==
  /\ func \in HashFuncs
  /\ size \in Nat /\ size >= 3
  /\ array \in [Slots -> Slot]
  /\ elems \in Nat
  /\ Rehashing => /\ pc \in {"rehash", "set"}
                  /\ \E n \in 1 .. size : /\ size = 2 * n
                                          /\ old \in [0 .. n - 1 -> Slot]
                                          /\ ri \in 0 .. n
                  /\ pending \in [key : Keys, value : Values]
  /\ ~ Rehashing => pc # "rehash" /\ ri = 0 /\ pending = NoCall
  /\ pc \in {"idle", "get", "set", "resize", "rehash"}
  /\ key \in Keys \cup {NoKey}
  /\ pc \in {"set", "resize"} => key \in Keys
  /\ value \in Values
  /\ i \in Nat
  /\ pc \in {"get", "set"} => i \in Slots
  /\ ret \in Values \cup {NotFound}

Occupied(t) == {s \in DOMAIN t : t[s].key # NoKey}

(* The slots a walk from slot j has left behind when it is at slot s. *)
Between(j, s) ==
  IF j <= s THEN j .. s - 1 ELSE (j .. size - 1) \cup (0 .. s - 1)

(* hash_get stops at the first free slot.  So no slot between the home of  *)
(* a stored key and the slot that holds it may be free, through every      *)
(* order of insertions, overwrites and re-insertions into a larger table.  *)
ProbeChain ==
  \A s \in Occupied(array) : \A t \in Between(Home(array[s].key), s) :
     array[t].key # NoKey

(* hash_set overwrites the slot of a key that is already there: a key is   *)
(* never stored twice, whatever walk led to it.                            *)
UniqueKeys ==
  \A s, t \in Occupied(array) : array[s].key = array[t].key => s = t

(* hash->elems, from which the load is computed, counts the used slots. *)
ElemsCount == elems = Cardinality(Occupied(array))

(* The second probing loop of hash_set (hash.c:160, "up to here we have no *)
(* coverage!") would overwrite a slot in use.  It is never entered: a walk *)
(* that ends where it began has seen a full table, and a full table is     *)
(* over its load.                                                          *)
FullTableResizes ==
  pc = "set" /\ Occupied(array) = Slots /\ (\A s \in Slots : array[s].key # key)
    => NeedResize

(* The hash_set calls of hash_resize itself find a free slot in the        *)
(* doubled table.  So hash_resize is not re-entered and the old table it   *)
(* holds is not the one that a nested hash_resize would free.              *)
NestedSetFinds ==
  pc = "set" /\ Rehashing => \E s \in Slots : array[s].key = NoKey

-----------------------------------------------------------------------------
(* The inductive invariant. *)

(* No slot that the running walk has left behind is free or has the key. *)
Walked ==
  /\ pc \in {"get", "set"} =>
       \A t \in Between(Home(key), i) : array[t].key \notin {NoKey, key}
  /\ pc = "resize" => \A t \in Slots : array[t].key \notin {NoKey, key}

(* While hash_resize copies, the new table holds exactly the old slots up  *)
(* to ri, but for the one that a hash_set in progress is about to store.   *)
Copied ==
  Rehashing =>
    LET done == 0 .. (IF pc = "set" THEN ri - 2 ELSE ri - 1)
    IN  /\ pc = "set" =>
             ri > 0 /\ old[ri - 1] = [key |-> key, value |-> value]
        /\ \A s, t \in Occupied(old) : old[s].key = old[t].key => s = t
        /\ \A s \in done : old[s].key # NoKey =>
                             \E t \in Slots : array[t] = old[s]
        /\ \A t \in Slots : array[t].key # NoKey =>
                              \E s \in done : old[s] = array[t]

(* ... and so has no more elements than the old table has slots. *)
Counted ==
  /\ ElemsCount
  /\ Rehashing => elems <= (IF pc = "set" THEN ri - 1 ELSE ri)

IInv ==
  /\ TypeOK
  /\ ProbeChain
  /\ UniqueKeys
  /\ Walked
  /\ Copied
  /\ Counted

-----------------------------------------------------------------------------
(* The map the table stands for: while hash_resize copies, the old table. *)
Current == IF Rehashing THEN old ELSE array
Contents ==
  [k \in Keys |->
     IF \E s \in DOMAIN Current : Current[s].key = k
       THEN Current[CHOOSE s \in DOMAIN Current : Current[s].key = k].value
       ELSE NotFound]

Abstract == INSTANCE IntMap WITH map <- Contents, ret <- ret

(* hash_get and hash_set implement the map: a binding is found again,      *)
(* whatever collisions, overwrites and resizes came between, and a resize  *)
(* (even one that fails) adds, drops or changes no binding.                *)
ImplementsMap == Abstract!Spec

(* Every hash_get and hash_set returns, the resizing ones included.  This  *)
(* needs calloc to succeed: hash_set calls itself again after a failed     *)
(* hash_resize, with the same full table.                                  *)
CallsReturn == (pc # "idle") ~> (pc = "idle")
=============================================================================
