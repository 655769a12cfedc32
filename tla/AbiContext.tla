----------------------------- MODULE AbiContext -----------------------------
(***************************************************************************)
(* The ABI contexts of src/src/abi.cpp: the table of numbered contexts and *)
(* the memory each one maps and unmaps for its process.                    *)
(*                                                                         *)
(* Addresses and lengths are size_t: numbers modulo SizeMod. A context     *)
(* keeps two lists, `actual` (what the allocator returned) and `mapped`    *)
(* (the part of it promised to the caller).                                *)
(***************************************************************************)
EXTENDS Integers, Sequences, SequencesExt

CONSTANTS
  SizeMod,    (* Number of size_t values: 2^32 on the target.              *)
  Word,       (* sizeof(size_t).                                           *)
  RamStart,   (* Heap memory: addresses RamStart .. RamEnd - 1.            *)
  RamEnd,
  Lengths,    (* The min_length values callers pass to map.                *)
  Aligns,     (* The min_align values callers pass to map.                 *)
  MaxPid,     (* Bound: contexts created.                                  *)
  MaxMaps     (* Bound: mappings one context holds at a time.              *)

(* A word and every alignment map accepts are powers of two, so they       *)
(* divide the number of size_t values; the heap is inside the address      *)
(* space and does not hold the null address.                               *)
ASSUME SizesAssumption ==
  /\ SizeMod \in Nat /\ Word \in Nat \ {0} /\ Word < SizeMod
  /\ RamStart \in Nat \ {0} /\ RamEnd \in RamStart .. SizeMod
  /\ Lengths \subseteq 0 .. SizeMod - 1
  /\ Aligns \subseteq 0 .. SizeMod - 1
  /\ SizeMod % Word = 0
  /\ \A a \in Aligns \ {0} :
       (\A d \in 2 .. a : a % d = 0 => d % 2 = 0) => SizeMod % a = 0
  /\ MaxPid \in Nat /\ MaxMaps \in Nat

VARIABLES
  heap,       (* The malloc'ed ranges that were not freed.                 *)
  contexts,   (* contextMap: live PID -> its two lists.                    *)
  nextPID

vars == <<heap, contexts, nextPID>>

Addresses == 0 .. SizeMod - 1
Ranges == [base : Addresses, length : Addresses]
Mappings == [promise : Ranges, actual : Nat]
Contexts == [actual : Seq(Ranges), mapped : Seq(Mappings)]
Pids == 1 .. MaxPid
Live == DOMAIN contexts

Init ==
  /\ heap = {}
  /\ contexts = [p \in {} |-> [actual |-> <<>>, mapped |-> <<>>]]
  /\ nextPID = 1

-----------------------------------------------------------------------------
(* The allocator: the platform's malloc. It answers with a block aligned   *)
(* to a word, or with null: always when the length asked for is 0. The     *)
(* range allocator() reports has the length asked for.                     *)
Apart(r, s) == r.base + r.length <= s.base \/ s.base + s.length <= r.base

Blocks ==
  {r \in [base : RamStart .. RamEnd - 1, length : 1 .. RamEnd - RamStart] :
     r.base % Word = 0 /\ r.base + r.length <= RamEnd}

Available(length) ==
  {r \in Blocks : r.length = length /\ \A s \in heap : Apart(r, s)}

-----------------------------------------------------------------------------
(* The arithmetic of Context::map, modulo the width of size_t.             *)

(* `!(min_align & (min_align - 1))`: 0, or a number without an odd divisor *)
(* but 1.                                                                  *)
PowerOfTwoOrZero(a) == \A d \in 2 .. a : a % d = 0 => d % 2 = 0

EffectiveAlign(align) == IF align <= Word THEN Word ELSE align

(* Mutant: rounds the length down.                                         *)
RoundedLengthDown(length, align) == length - (length % align)

RoundedLength(length, align) ==
  IF length % align = 0
  THEN length
  ELSE (length + (align - (length % align))) % SizeMod

(* Mutant: asks for no room to move the base up.                           *)
RequestLengthUnpadded(length, align) == length

RequestLength(length, align) ==
  IF align <= Word THEN length ELSE (length + align) % SizeMod

(* Mutant: moves the base down to an aligned address.                      *)
PromisedBaseDown(base, align) == base - (base % align)

PromisedBase(base, align) ==
  IF align <= Word \/ base % align = 0
  THEN base
  ELSE (base + (align - (base % align))) % SizeMod

-----------------------------------------------------------------------------
(* Mutant: the number is not used up.                                      *)
NewContextKeepsNumber ==
  /\ nextPID <= MaxPid
  /\ contexts' = [p \in Live \cup {nextPID} |->
                    IF p \in Live THEN contexts[p]
                    ELSE [actual |-> <<>>, mapped |-> <<>>]]
  /\ UNCHANGED <<heap, nextPID>>

(* newContext *)
NewContext ==
  /\ nextPID <= MaxPid
  /\ contexts' = [p \in Live \cup {nextPID} |->
                    IF p \in Live THEN contexts[p]
                    ELSE [actual |-> <<>>, mapped |-> <<>>]]
  /\ nextPID' = nextPID + 1
  /\ UNCHANGED heap

Accepted(length, align) == PowerOfTwoOrZero(align) /\ length # 0

(* The blocks the allocator can answer a map call with.                    *)
BlocksFor(length, align) ==
  LET a == EffectiveAlign(align)
  IN  Available(RequestLength(RoundedLength(length, a), a))

(* map with arguments it rejects, or with a heap that has no such block:   *)
(* it returns 0 and nothing changes.                                       *)
MapFails(p, length, align) ==
  /\ p \in Live
  /\ ~Accepted(length, align) \/ BlocksFor(length, align) = {}
  /\ UNCHANGED vars

(* The part of the block `mem` that the caller gets.                       *)
Promised(length, align, mem) ==
  LET a == EffectiveAlign(align)
  IN  [base |-> PromisedBase(mem.base, a), length |-> RoundedLength(length, a)]

(* map that is given the memory `mem`: both lists get an entry.            *)
MapTo(p, length, align, mem) ==
  /\ heap' = heap \cup {mem}
  /\ contexts' = [contexts EXCEPT ![p] =
       [actual |-> Append(@.actual, mem),
        mapped |-> Append(@.mapped, [promise |-> Promised(length, align, mem),
                                     actual |-> Len(@.actual)])]]
  /\ UNCHANGED nextPID

Map(p, length, align) ==
  /\ p \in Live
  /\ Accepted(length, align)
  /\ Len(contexts[p].actual) < MaxMaps
  /\ \E mem \in BlocksFor(length, align) : MapTo(p, length, align, mem)

(* Mutant: the block is freed but stays in the list of blocks.             *)
UnmapIdxKeepsBlock(p, i) ==
  /\ heap' = heap \ {contexts[p].actual[i]}
  /\ contexts' = [contexts EXCEPT ![p].mapped = RemoveAt(@, i)]

(* unmapIdx: the block at the index of the mapping is freed, and the entry *)
(* at that index leaves both lists.                                        *)
UnmapIdx(p, i) ==
  /\ heap' = heap \ {contexts[p].actual[i]}
  /\ contexts' = [contexts EXCEPT ![p] =
       [actual |-> RemoveAt(@.actual, i), mapped |-> RemoveAt(@.mapped, i)]]

Matches(p, base) ==
  {i \in DOMAIN contexts[p].mapped : contexts[p].mapped[i].promise.base = base}

(* unmap: the first mapping with that base goes ...                        *)
Unmap(p, base) ==
  /\ p \in Live
  /\ \E i \in Matches(p, base) :
       (\A j \in Matches(p, base) : i <= j) /\ UnmapIdx(p, i)
  /\ UNCHANGED nextPID

(* ... and with no such mapping nothing happens.                           *)
UnmapUnknown(p) ==
  /\ p \in Live
  /\ {base \in Addresses : Matches(p, base) = {}} # {}
  /\ UNCHANGED vars

(* Mutant: the destructor frees nothing.                                   *)
DeleteContextLeaks(p) ==
  /\ contexts' = [q \in Live \ {p} |-> contexts[q]]
  /\ UNCHANGED <<heap, nextPID>>

(* deleteContext: the destructor frees every range of `actual`, then the   *)
(* entry is gone. A PID with no context leaves everything as it is.        *)
DeleteContext(p) ==
  /\ heap' = IF p \in Live THEN heap \ Range(contexts[p].actual) ELSE heap
  /\ contexts' = [q \in Live \ {p} |-> contexts[q]]
  /\ UNCHANGED nextPID

Next ==
  \/ NewContext
  \/ \E p \in Pids :
       \/ DeleteContext(p)
       \/ UnmapUnknown(p) \/ \E base \in Addresses : Unmap(p, base)
       \/ \E length \in Lengths, align \in Aligns :
            Map(p, length, align) \/ MapFails(p, length, align)

Spec == Init /\ [][Next]_vars

-----------------------------------------------------------------------------
(* Type invariant: PIDs below nextPID, well-formed lists of ranges.        *)
TypeOK ==
  /\ nextPID \in Nat \ {0}
  /\ Live \subseteq 1 .. nextPID - 1
  /\ heap \subseteq Ranges
  /\ contexts \in [Live -> Contexts]

Held(p) == contexts[p].actual
Promise(p, i) == contexts[p].mapped[i].promise
Within(r, s) == s.base <= r.base /\ r.base + r.length <= s.base + s.length

(* The `actual` lists of all contexts together name every malloc'ed block  *)
(* exactly once: ~Context and unmapIdx never free a block twice, never     *)
(* free another context's block, and no block is out of everyone's reach.  *)
OwnedOnce ==
  /\ \A r \in heap : \E p \in Live : \E i \in DOMAIN Held(p) : Held(p)[i] = r
  /\ \A p \in Live : \A i \in DOMAIN Held(p) : Held(p)[i] \in heap
  /\ \A p, q \in Live : \A i \in DOMAIN Held(p), j \in DOMAIN Held(q) :
       Held(p)[i] = Held(q)[j] => p = q /\ i = j

(* unmapIdx uses one index for both lists, so entry i of `mapped` has to   *)
(* stay in the block of entry i of `actual` through any order of unmaps.   *)
PromisesBacked ==
  \A p \in Live :
    /\ Len(contexts[p].mapped) = Len(Held(p))
    /\ \A i \in DOMAIN Held(p) : Within(Promise(p, i), Held(p)[i])

(* The allocator's blocks never overlap.                                   *)
BlocksApart ==
  /\ heap \subseteq Blocks
  /\ \A r, s \in heap : r # s => Apart(r, s)

(* No address is promised twice, in one context or in two: what a process  *)
(* maps is its own until it unmaps it.                                     *)
PromisesDisjoint ==
  \A p, q \in Live : \A i \in DOMAIN Held(p), j \in DOMAIN Held(q) :
    (p # q \/ i # j) =>
      \/ Promise(p, i).base + Promise(p, i).length <= Promise(q, j).base
      \/ Promise(q, j).base + Promise(q, j).length <= Promise(p, i).base

(* What map answers is at least as long as asked, and aligned as asked and *)
(* to a word.                                                              *)
Honours(p, length, align) ==
  LET mem == Last(Held(p)')
      got == Last(contexts'[p].mapped).promise
      answered == /\ Len(Held(p)') > Len(Held(p))
                  /\ Accepted(length, align) /\ mem \in BlocksFor(length, align)
                  /\ MapTo(p, length, align, mem)
  IN  answered => got.length >= length /\ got.base % EffectiveAlign(align) = 0

(* "Map a new range of a minimum size", for lengths that can be rounded up *)
(* within size_t.                                                          *)
MapHonoursRequest ==
  [][\A p \in Live \cap Live', length \in Lengths, align \in Aligns :
       length + EffectiveAlign(align) <= SizeMod => Honours(p, length, align)]_vars

(* The same for every length a caller can pass.                            *)
MapHonoursEveryRequest ==
  [][\A p \in Live \cap Live', length \in Lengths, align \in Aligns :
       Honours(p, length, align)]_vars

(* The context table implements the abstract memory of contexts: a context *)
(* owns the blocks in its `actual` list.                                   *)
Owned == [p \in Live |-> Range(contexts[p].actual)]

Memory == INSTANCE ContextMemory WITH owned <- Owned

MemorySpec == Memory!Spec
=============================================================================
