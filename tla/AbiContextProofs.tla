-------------------------- MODULE AbiContextProofs --------------------------
(***************************************************************************)
(* Proofs about AbiContext, for every heap, every width of size_t and      *)
(* every set of requests.                                                  *)
(***************************************************************************)
EXTENDS AbiContext, TLAPS

-----------------------------------------------------------------------------
(* What the list operators do.                                             *)

(* Concatenation keeps the elements of both sequences, in order.           *)
LEMMA ConcatLemma ==
  ASSUME NEW S, NEW s \in Seq(S), NEW t \in Seq(S)
  PROVE  /\ s \o t \in Seq(S)
         /\ Len(s \o t) = Len(s) + Len(t)
         /\ \A j \in 1 .. Len(s) + Len(t) :
              (s \o t)[j] = IF j <= Len(s) THEN s[j] ELSE t[j - Len(s)]
  OBVIOUS

(* std::vector::erase: the elements after the erased one move up by one.   *)
LEMMA RemoveAtLemma ==
  ASSUME NEW S, NEW s \in Seq(S), NEW i \in 1 .. Len(s)
  PROVE  /\ RemoveAt(s, i) \in Seq(S)
         /\ Len(RemoveAt(s, i)) = Len(s) - 1
         /\ \A j \in 1 .. Len(s) - 1 :
              RemoveAt(s, i)[j] = s[IF j < i THEN j ELSE j + 1]
<1> DEFINE front == SubSeq(s, 1, i - 1)
           back == SubSeq(s, i + 1, Len(s))
<1>1. /\ front \in Seq(S)
      /\ Len(front) = i - 1
      /\ \A j \in 1 .. i - 1 : front[j] = s[j]
  OBVIOUS
<1>2. /\ back \in Seq(S)
      /\ Len(back) = Len(s) - i
      /\ \A j \in 1 .. Len(s) - i : back[j] = s[i + j]
  OBVIOUS
<1>3. RemoveAt(s, i) = front \o back
  BY DEF RemoveAt
<1> HIDE DEF front, back
<1>4. /\ front \o back \in Seq(S)
      /\ Len(front \o back) = Len(front) + Len(back)
      /\ \A j \in 1 .. Len(front) + Len(back) :
           (front \o back)[j] =
             IF j <= Len(front) THEN front[j] ELSE back[j - Len(front)]
  BY <1>1, <1>2, ConcatLemma
<1>5. ASSUME NEW j \in 1 .. Len(s) - 1
      PROVE (front \o back)[j] = s[IF j < i THEN j ELSE j + 1]
  <2>1. j \in Int /\ i \in Int
    OBVIOUS
  <2>2. CASE j < i
    BY <2>2, <1>1, <1>2, <1>4
  <2>3. CASE ~(j < i)
    <3>1. j - (i - 1) \in 1 .. Len(s) - i /\ ~(j <= i - 1)
      BY <2>3
    <3>2. (front \o back)[j] = back[j - (i - 1)]
      BY <3>1, <1>1, <1>2, <1>4
    <3>3. back[j - (i - 1)] = s[j + 1]
      BY <3>1, <1>2, <2>1
    <3>4. QED
      BY <3>2, <3>3, <2>3
  <2>4. QED
    BY <2>2, <2>3
<1>6. QED
  BY <1>1, <1>2, <1>3, <1>4, <1>5

(* std::vector::push_back.                                                 *)
LEMMA AppendLemma ==
  ASSUME NEW S, NEW s \in Seq(S), NEW e \in S
  PROVE  /\ Append(s, e) \in Seq(S)
         /\ Len(Append(s, e)) = Len(s) + 1
         /\ \A j \in 1 .. Len(s) : Append(s, e)[j] = s[j]
         /\ Append(s, e)[Len(s) + 1] = e
  OBVIOUS

-----------------------------------------------------------------------------
(* The arithmetic of Context::map.                                         *)

(* The remainder of a division is smaller than the divisor.                *)
LEMMA ModLemma ==
  ASSUME NEW x \in Nat, NEW a \in Nat \ {0}
  PROVE  x % a \in 0 .. a - 1
  OBVIOUS

(* A number is a multiple of the divisor plus the remainder.               *)
LEMMA DivLemma ==
  ASSUME NEW x \in Nat, NEW a \in Nat \ {0}
  PROVE  \E q \in Nat : x = a * q + (x % a)
<1>1. x \div a \in Nat /\ x = a * (x \div a) + (x % a)
  OBVIOUS
<1>2. QED
  BY <1>1

(* A number below the modulus is its own remainder, the modulus has none.  *)
LEMMA SmallModLemma ==
  ASSUME NEW m \in Nat \ {0}, NEW x \in 0 .. m
  PROVE  x % m = IF x = m THEN 0 ELSE x
  OBVIOUS

(* The alignment map works with is at least a word and divides the number  *)
(* of size_t values.                                                       *)
LEMMA EffectiveAlignLemma ==
  ASSUME NEW align \in Aligns, PowerOfTwoOrZero(align)
  PROVE  /\ EffectiveAlign(align) \in Word .. SizeMod - 1
         /\ EffectiveAlign(align) \in Nat \ {0}
         /\ SizeMod % EffectiveAlign(align) = 0
  BY SizesAssumption DEF PowerOfTwoOrZero, EffectiveAlign

(* Rounding a length up wraps to 0 or gives a length at least as long,     *)
(* with room for one more alignment below the number of size_t values.     *)
LEMMA RoundedLengthLemma ==
  ASSUME NEW length \in Nat, length < SizeMod,
         NEW a \in Nat \ {0}, a < SizeMod, SizeMod % a = 0
  PROVE  /\ RoundedLength(length, a) \in Nat
         /\ RoundedLength(length, a) + a <= SizeMod
         /\ RoundedLength(length, a) = 0 \/ RoundedLength(length, a) >= length
<1> DEFINE r == length % a
<1>1. r \in 0 .. a - 1 /\ SizeMod \in Nat
  BY ModLemma, SizesAssumption
<1>2. PICK q \in Nat : length = a * q + r
  BY DivLemma
<1>3. PICK m \in Nat : SizeMod = a * m
  <2>1. \E m \in Nat : SizeMod = a * m + (SizeMod % a)
    BY <1>1, DivLemma
  <2>2. QED
    BY <2>1
<1> HIDE DEF r
<1>4. q < m
  <2>1. SUFFICES ASSUME q >= m PROVE FALSE
    BY <1>2, <1>3
  <2>2. a * q >= a * m
    BY <2>1
  <2>3. QED
    BY <2>2, <1>1, <1>2, <1>3
<1>5. a * q + a <= SizeMod
  <2>1. a * (q + 1) <= a * m
    BY <1>4
  <2>2. QED
    BY <2>1, <1>3
<1>6. CASE r = 0
  <2>1. RoundedLength(length, a) = length
    BY <1>6 DEF r, RoundedLength
  <2>2. QED
    BY <2>1, <1>6, <1>2, <1>5
<1>7. CASE r # 0
  <2> DEFINE up == length + (a - r)
  <2>1. RoundedLength(length, a) = up % SizeMod
    BY <1>7 DEF r, RoundedLength
  <2>2. up = a * q + a /\ up >= length /\ up \in 0 .. SizeMod
    BY <1>1, <1>2, <1>5
  <2>3. up % SizeMod = IF up = SizeMod THEN 0 ELSE up
    BY <2>2, SmallModLemma, SizesAssumption
  <2> HIDE DEF up
  <2>4. CASE up = SizeMod
    BY <2>1, <2>3, <2>4, SizesAssumption
  <2>5. CASE up # SizeMod
    <3>1. q + 1 < m
      <4>1. SUFFICES ASSUME q + 1 >= m PROVE FALSE
        BY <1>4
      <4>2. q + 1 = m
        BY <4>1, <1>4
      <4>3. a * (q + 1) = a * m
        BY <4>2
      <4>4. QED
        BY <4>3, <2>2, <1>3, <2>5
    <3>2. a * (q + 1) + a <= a * m
      <4>1. a * (q + 2) <= a * m
        BY <3>1
      <4>2. QED
        BY <4>1
    <3>3. up + a <= SizeMod
      BY <3>2, <2>2, <1>3
    <3>4. QED
      BY <3>3, <2>1, <2>2, <2>3, <2>5
  <2>6. QED
    BY <2>4, <2>5
<1>8. QED
  BY <1>6, <1>7

(* The promise map makes is a range inside the block the allocator gave,   *)
(* even when rounding or padding the length wraps: a request that wraps to *)
(* 0 gets no block.                                                        *)
LEMMA PromiseLemma ==
  ASSUME NEW length \in Lengths, NEW align \in Aligns,
         Accepted(length, align),
         NEW mem \in BlocksFor(length, align)
  PROVE  /\ Promised(length, align, mem) \in Ranges
         /\ Within(Promised(length, align, mem), mem)
<1> DEFINE a == EffectiveAlign(align)
           rounded == RoundedLength(length, a)
           base == PromisedBase(mem.base, a)
<1>1. /\ a \in Nat \ {0} /\ a < SizeMod /\ a >= Word /\ SizeMod % a = 0
      /\ length \in Nat /\ length < SizeMod
  BY EffectiveAlignLemma, SizesAssumption DEF Accepted
<1>2. rounded \in Nat /\ rounded + a <= SizeMod
  BY <1>1, RoundedLengthLemma
<1>3. /\ mem.base \in Nat \ {0} /\ mem.length \in Nat \ {0}
      /\ mem.base + mem.length <= SizeMod
      /\ mem.length = RequestLength(rounded, a)
  BY SizesAssumption DEF BlocksFor, Available, Blocks
<1> HIDE DEF a, rounded
<1>4. /\ base \in Nat /\ mem.base <= base /\ base < mem.base + mem.length
      /\ base + rounded <= mem.base + mem.length
  <2>1. CASE a <= Word
    BY <2>1, <1>2, <1>3 DEF RequestLength, PromisedBase
  <2>2. CASE a > Word
    <3>1. ~(a <= Word)
      BY <2>2, <1>1, SizesAssumption
    <3>2. mem.length = (rounded + a) % SizeMod
      BY <3>1, <1>3 DEF RequestLength
    <3>3. mem.length = rounded + a
      <4>1. SizeMod \in Nat \ {0} /\ rounded + a \in 0 .. SizeMod
        BY <1>1, <1>2, SizesAssumption
      <4>2. (rounded + a) % SizeMod =
              IF rounded + a = SizeMod THEN 0 ELSE rounded + a
        BY <4>1, SmallModLemma
      <4>3. QED
        BY <4>2, <3>2, <1>3
    <3>4. CASE mem.base % a = 0
      BY <3>4, <3>3, <1>1, <1>2, <1>3 DEF PromisedBase
    <3>5. CASE mem.base % a # 0
      <4> DEFINE up == mem.base + (a - (mem.base % a))
      <4>1. mem.base % a \in 1 .. a - 1
        <5>1. mem.base % a \in 0 .. a - 1
          BY <1>1, <1>3, ModLemma
        <5>2. QED
          BY <5>1, <3>5
      <4>2. up \in 0 .. SizeMod /\ up # SizeMod
        BY <4>1, <3>3, <1>1, <1>2, <1>3, SizesAssumption
      <4>3. base = up
        <5>1. base = up % SizeMod
          BY <3>1, <3>5 DEF PromisedBase
        <5>2. QED
          BY <5>1, <4>2, SmallModLemma, SizesAssumption
      <4>4. QED
        BY <4>3, <4>1, <3>3, <1>1, <1>2, <1>3
    <3>6. QED
      BY <3>4, <3>5
  <2>3. QED
    BY <2>1, <2>2, <1>1, SizesAssumption
<1>5. Promised(length, align, mem) = [base |-> base, length |-> rounded]
  BY DEF Promised, a, rounded
<1> HIDE DEF base
<1>6. base < SizeMod /\ rounded < SizeMod
  BY <1>1, <1>2, <1>3, <1>4, SizesAssumption
<1>7. QED
  BY <1>1, <1>2, <1>3, <1>4, <1>5, <1>6, SizesAssumption
     DEF Ranges, Addresses, Within

-----------------------------------------------------------------------------
(* The inductive invariant. OwnedOnce needs the lists of equal length      *)
(* (PromisesBacked), because unmapIdx uses the index of a mapping for the  *)
(* blocks, and BlocksApart, because it makes a new block a new one.        *)
IInv == TypeOK /\ BlocksApart /\ OwnedOnce /\ PromisesBacked

(* Before the first context there is nothing to hold.                      *)
LEMMA InitInv == Init => IInv
<1> SUFFICES ASSUME Init PROVE IInv
  OBVIOUS
<1>1. Live = {} /\ heap = {} /\ nextPID = 1
  BY DEF Init, Live
<1>2. contexts \in [Live -> Contexts]
  BY <1>1 DEF Init
<1>3. QED
  BY <1>1, <1>2 DEF IInv, TypeOK, BlocksApart, OwnedOnce, PromisesBacked

(* newContext adds an entry with two empty lists under an unused number.   *)
LEMMA NewContextInv == IInv /\ NewContext => IInv'
<1> SUFFICES ASSUME IInv, NewContext PROVE IInv'
  OBVIOUS
<1> USE DEF IInv, TypeOK
<1> DEFINE empty == [actual |-> <<>>, mapped |-> <<>>]
<1>1. empty \in Contexts
  BY DEF Contexts
<1>2. /\ Live' = Live \cup {nextPID} /\ nextPID \notin Live
      /\ heap' = heap /\ nextPID' = nextPID + 1
      /\ \A p \in Live : contexts'[p] = contexts[p]
      /\ contexts'[nextPID] = empty
      /\ contexts' = [p \in Live' |-> contexts'[p]]
  BY DEF NewContext, Live
<1>3. TypeOK'
  <2>1. \A p \in Live' : contexts'[p] \in Contexts
    BY <1>1, <1>2
  <2>2. contexts' \in [Live' -> Contexts]
    BY <2>1, <1>2
  <2>3. QED
    BY <2>2, <1>2
<1>4. \A p \in Live : Held(p)' = Held(p)
  BY <1>2 DEF Held
<1>5. contexts'[nextPID].actual = <<>> /\ contexts'[nextPID].mapped = <<>>
  BY <1>2
<1>6. BlocksApart'
  BY <1>2 DEF BlocksApart, Apart, Blocks
<1>7. OwnedOnce'
  BY <1>2, <1>4, <1>5 DEF OwnedOnce, Held
<1>8. PromisesBacked'
  BY <1>2, <1>4, <1>5 DEF PromisesBacked, Held, Promise, Within
<1>9. QED
  BY <1>3, <1>6, <1>7, <1>8

(* map puts a block nobody holds, and a promise inside it, at the end of   *)
(* the lists of one context.                                               *)
LEMMA MapInv ==
  ASSUME IInv, NEW p \in Pids, NEW length \in Lengths, NEW align \in Aligns,
         Map(p, length, align)
  PROVE  IInv'
<1>1. /\ p \in Live /\ Accepted(length, align) /\ TypeOK
      /\ BlocksApart /\ OwnedOnce /\ PromisesBacked
  BY DEF Map, IInv
<1>2. PICK mem \in BlocksFor(length, align) : MapTo(p, length, align, mem)
  BY DEF Map
<1> DEFINE got == Promised(length, align, mem)
           entry == [promise |-> got, actual |-> Len(contexts[p].actual)]
<1>3. got \in Ranges /\ Within(got, mem)
  BY <1>1, <1>2, PromiseLemma
<1> HIDE DEF got
<1>4. mem \in Blocks /\ \A s \in heap : Apart(mem, s)
  BY <1>2 DEF BlocksFor, Available
<1>5. mem \in Ranges /\ mem \notin heap
  <2>1. /\ mem.base \in Nat /\ mem.length \in Nat \ {0}
        /\ mem.base < SizeMod /\ mem.length < SizeMod
        /\ mem = [base |-> mem.base, length |-> mem.length]
    BY <1>4, SizesAssumption DEF Blocks
  <2>2. ~Apart(mem, mem)
    BY <2>1 DEF Apart
  <2>3. QED
    BY <2>1, <2>2, <1>4, SizesAssumption DEF Ranges, Addresses
<1>6. /\ contexts[p].actual \in Seq(Ranges)
      /\ contexts[p].mapped \in Seq(Mappings)
      /\ entry \in Mappings
  <2>1. contexts[p] \in Contexts
    BY <1>1 DEF TypeOK
  <2>2. contexts[p].actual \in Seq(Ranges) /\ contexts[p].mapped \in Seq(Mappings)
    BY <2>1 DEF Contexts
  <2>3. Len(contexts[p].actual) \in Nat
    BY <2>2
  <2>4. QED
    BY <2>2, <2>3, <1>3 DEF Mappings
<1>7. /\ heap' = heap \cup {mem} /\ nextPID' = nextPID /\ Live' = Live
      /\ contexts' = [contexts EXCEPT ![p] =
           [actual |-> Append(contexts[p].actual, mem),
            mapped |-> Append(contexts[p].mapped, entry)]]
  BY <1>1, <1>2 DEF MapTo, Live, TypeOK, got
<1>8. /\ \A q \in Live \ {p} : contexts'[q] = contexts[q]
      /\ contexts'[p].actual = Append(contexts[p].actual, mem)
      /\ contexts'[p].mapped = Append(contexts[p].mapped, entry)
  BY <1>1, <1>7 DEF TypeOK
<1> HIDE DEF entry
<1> DEFINE n == Len(contexts[p].actual)
<1>9. /\ contexts'[p].actual \in Seq(Ranges)
      /\ Len(contexts'[p].actual) = n + 1
      /\ \A j \in 1 .. n : contexts'[p].actual[j] = contexts[p].actual[j]
      /\ contexts'[p].actual[n + 1] = mem
  BY <1>5, <1>6, <1>8, AppendLemma
<1>10. /\ contexts'[p].mapped \in Seq(Mappings)
       /\ Len(contexts'[p].mapped) = n + 1
       /\ \A j \in 1 .. n : contexts'[p].mapped[j] = contexts[p].mapped[j]
       /\ contexts'[p].mapped[n + 1] = entry
  <2>1. Len(contexts[p].mapped) = n
    BY <1>1 DEF PromisesBacked, Held
  <2>2. /\ Append(contexts[p].mapped, entry) \in Seq(Mappings)
        /\ Len(Append(contexts[p].mapped, entry)) = n + 1
        /\ \A j \in 1 .. n :
             Append(contexts[p].mapped, entry)[j] = contexts[p].mapped[j]
        /\ Append(contexts[p].mapped, entry)[n + 1] = entry
    BY <2>1, <1>6, AppendLemma
  <2>3. QED
    BY <2>2, <1>8
<1>11. TypeOK'
  <2>1. contexts'[p] \in Contexts
    BY <1>1, <1>7, <1>9, <1>10 DEF TypeOK, Contexts
  <2>2. contexts' \in [Live' -> Contexts]
    BY <2>1, <1>1, <1>7 DEF TypeOK
  <2>3. QED
    BY <2>2, <1>1, <1>5, <1>7 DEF TypeOK
<1>12. BlocksApart'
  <2>1. \A r \in heap : Apart(r, mem)
    BY <1>4 DEF Apart
  <2>2. QED
    BY <2>1, <1>1, <1>4, <1>7 DEF BlocksApart, Apart
<1>13. n \in Nat /\ DOMAIN contexts[p].actual = 1 .. n
       /\ DOMAIN contexts'[p].actual = 1 .. n + 1
  BY <1>6, <1>9
<1>14. OwnedOnce'
  <2>1. ASSUME NEW r \in heap'
        PROVE  \E q \in Live' : \E i \in DOMAIN Held(q)' : Held(q)'[i] = r
    <3>1. CASE r = mem
      <4>1. p \in Live' /\ n + 1 \in DOMAIN Held(p)' /\ Held(p)'[n + 1] = r
        BY <3>1, <1>1, <1>7, <1>9, <1>13 DEF Held
      <4>2. QED
        BY <4>1
    <3>2. CASE r \in heap
      <4>1. PICK q \in Live : \E i \in DOMAIN Held(q) : Held(q)[i] = r
        BY <3>2, <1>1 DEF OwnedOnce
      <4>2. PICK i \in DOMAIN Held(q) : Held(q)[i] = r
        BY <4>1
      <4>3. CASE q = p
        BY <4>2, <4>3, <1>7, <1>9, <1>13 DEF Held
      <4>4. CASE q # p
        BY <4>2, <4>4, <1>7, <1>8 DEF Held
      <4>5. QED
        BY <4>3, <4>4
    <3>3. QED
      BY <3>1, <3>2, <1>7
  <2>2. ASSUME NEW q \in Live', NEW i \in DOMAIN Held(q)'
        PROVE  Held(q)'[i] \in heap'
    <3>1. CASE q # p
      BY <3>1, <1>1, <1>7, <1>8 DEF Held, OwnedOnce
    <3>2. CASE q = p /\ i \in 1 .. n
      BY <3>2, <1>1, <1>7, <1>9, <1>13 DEF Held, OwnedOnce
    <3>3. CASE q = p /\ i = n + 1
      BY <3>3, <1>7, <1>9 DEF Held
    <3>4. QED
      BY <3>1, <3>2, <3>3, <1>13 DEF Held
  <2>3. ASSUME NEW q1 \in Live', NEW q2 \in Live',
               NEW i \in DOMAIN Held(q1)', NEW j \in DOMAIN Held(q2)',
               Held(q1)'[i] = Held(q2)'[j]
        PROVE  q1 = q2 /\ i = j
    <3> DEFINE Old(q, k) == q = p => k \in 1 .. n
    <3>1. ASSUME NEW q \in Live, NEW k \in DOMAIN Held(q)', Old(q, k)
          PROVE  k \in DOMAIN Held(q) /\ Held(q)'[k] = Held(q)[k]
      BY <3>1, <1>8, <1>9, <1>13 DEF Held
    <3>2. ASSUME NEW q \in Live, NEW k \in DOMAIN Held(q)', ~Old(q, k)
          PROVE  q = p /\ k = n + 1 /\ Held(q)'[k] = mem
      BY <3>2, <1>9, <1>13 DEF Held
    <3>3. ASSUME NEW q \in Live, NEW k \in DOMAIN Held(q)', Old(q, k)
          PROVE  Held(q)'[k] # mem
      BY <3>1, <3>3, <1>1, <1>5 DEF OwnedOnce
    <3>4. CASE Old(q1, i) /\ Old(q2, j)
      BY <2>3, <3>1, <3>4, <1>1, <1>7 DEF OwnedOnce
    <3>5. CASE ~Old(q1, i)
      BY <2>3, <3>2, <3>3, <3>5, <1>7
    <3>6. CASE ~Old(q2, j)
      BY <2>3, <3>2, <3>3, <3>6, <1>7
    <3>7. QED
      BY <3>4, <3>5, <3>6
  <2>4. QED
    BY <2>1, <2>2, <2>3 DEF OwnedOnce
<1>15. PromisesBacked'
  <2>1. ASSUME NEW q \in Live'
        PROVE  Len(contexts'[q].mapped) = Len(Held(q)')
    BY <1>1, <1>7, <1>8, <1>9, <1>10 DEF PromisesBacked, Held
  <2>2. ASSUME NEW q \in Live', NEW i \in DOMAIN Held(q)'
        PROVE  Within(Promise(q, i)', Held(q)'[i])
    <3>1. CASE q # p
      BY <3>1, <1>1, <1>7, <1>8 DEF PromisesBacked, Held, Promise
    <3>2. CASE q = p /\ i \in 1 .. n
      BY <3>2, <1>1, <1>9, <1>10, <1>13 DEF PromisesBacked, Held, Promise
    <3>3. CASE q = p /\ i = n + 1
      BY <3>3, <1>3, <1>9, <1>10 DEF Held, Promise, entry
    <3>4. QED
      BY <3>1, <3>2, <3>3, <1>13 DEF Held
  <2>3. QED
    BY <2>1, <2>2 DEF PromisesBacked, Within
<1>16. QED
  BY <1>11, <1>12, <1>14, <1>15 DEF IInv

(* unmapIdx takes the same entry out of both lists, and its block out of   *)
(* the heap: the entries behind it move up together.                       *)
LEMMA UnmapIdxInv ==
  ASSUME IInv, NEW p \in Live, NEW i \in DOMAIN contexts[p].mapped,
         UnmapIdx(p, i), UNCHANGED nextPID
  PROVE  IInv'
<1>1. TypeOK /\ BlocksApart /\ OwnedOnce /\ PromisesBacked
  BY DEF IInv
<1> DEFINE n == Len(contexts[p].actual)
           From(k) == IF k < i THEN k ELSE k + 1
<1>2. /\ contexts[p].actual \in Seq(Ranges)
      /\ contexts[p].mapped \in Seq(Mappings)
      /\ Len(contexts[p].mapped) = n
      /\ n \in Nat /\ i \in 1 .. n
  <2>1. contexts[p] \in Contexts
    BY <1>1 DEF TypeOK
  <2>2. contexts[p].actual \in Seq(Ranges) /\ contexts[p].mapped \in Seq(Mappings)
    BY <2>1 DEF Contexts
  <2>3. Len(contexts[p].mapped) = n
    BY <1>1 DEF PromisesBacked, Held
  <2>4. QED
    BY <2>2, <2>3
<1>3. /\ heap' = heap \ {contexts[p].actual[i]}
      /\ nextPID' = nextPID /\ Live' = Live
      /\ contexts' = [contexts EXCEPT ![p] =
           [actual |-> RemoveAt(contexts[p].actual, i),
            mapped |-> RemoveAt(contexts[p].mapped, i)]]
  BY <1>1 DEF UnmapIdx, Live, TypeOK
<1>4. /\ \A q \in Live \ {p} : contexts'[q] = contexts[q]
      /\ contexts'[p].actual = RemoveAt(contexts[p].actual, i)
      /\ contexts'[p].mapped = RemoveAt(contexts[p].mapped, i)
  BY <1>1, <1>3 DEF TypeOK
<1>5. /\ contexts'[p].actual \in Seq(Ranges)
      /\ Len(contexts'[p].actual) = n - 1
      /\ \A k \in 1 .. n - 1 :
           contexts'[p].actual[k] = contexts[p].actual[From(k)]
  BY <1>2, <1>4, RemoveAtLemma
<1>6. /\ contexts'[p].mapped \in Seq(Mappings)
      /\ Len(contexts'[p].mapped) = n - 1
      /\ \A k \in 1 .. n - 1 :
           contexts'[p].mapped[k] = contexts[p].mapped[From(k)]
  <2>1. /\ RemoveAt(contexts[p].mapped, i) \in Seq(Mappings)
        /\ Len(RemoveAt(contexts[p].mapped, i)) = n - 1
        /\ \A k \in 1 .. n - 1 :
             RemoveAt(contexts[p].mapped, i)[k] = contexts[p].mapped[From(k)]
    <3> DEFINE m == contexts[p].mapped
    <3>1. m \in Seq(Mappings) /\ i \in 1 .. Len(m) /\ Len(m) = n
      BY <1>2
    <3> HIDE DEF m
    <3>2. /\ RemoveAt(m, i) \in Seq(Mappings)
          /\ Len(RemoveAt(m, i)) = Len(m) - 1
          /\ \A k \in 1 .. Len(m) - 1 : RemoveAt(m, i)[k] = m[From(k)]
      BY <3>1, RemoveAtLemma
    <3>3. QED
      BY <3>1, <3>2 DEF m
  <2>2. QED
    BY <2>1, <1>4
<1>7. /\ \A k \in 1 .. n - 1 : From(k) \in 1 .. n /\ From(k) # i
      /\ \A k \in 1 .. n \ {i} : \E j \in 1 .. n - 1 : From(j) = k
      /\ \A j, k \in 1 .. n - 1 : From(j) = From(k) => j = k
  <2>1. /\ \A k \in 1 .. n - 1 : From(k) \in 1 .. n /\ From(k) # i
        /\ \A j, k \in 1 .. n - 1 : From(j) = From(k) => j = k
    BY <1>2
  <2>2. ASSUME NEW k \in 1 .. n \ {i}
        PROVE  \E j \in 1 .. n - 1 : From(j) = k
    <3>1. CASE k < i
      <4>1. k \in 1 .. n - 1 /\ From(k) = k
        BY <3>1, <1>2
      <4>2. QED
        BY <4>1
    <3>2. CASE k > i
      <4>1. k - 1 \in 1 .. n - 1 /\ From(k - 1) = k
        BY <3>2, <1>2
      <4>2. QED
        BY <4>1
    <3>3. QED
      BY <3>1, <3>2, <1>2
  <2>3. QED
    BY <2>1, <2>2
<1>8. DOMAIN contexts[p].actual = 1 .. n /\ DOMAIN contexts'[p].actual = 1 .. n - 1
  BY <1>2, <1>5
<1> HIDE DEF n, From
<1>9. TypeOK'
  <2>1. contexts'[p] \in Contexts
    BY <1>1, <1>3, <1>5, <1>6 DEF TypeOK, Contexts
  <2>2. contexts' \in [Live' -> Contexts]
    BY <2>1, <1>1, <1>3 DEF TypeOK
  <2>3. QED
    BY <2>2, <1>1, <1>3 DEF TypeOK
<1>10. BlocksApart'
  BY <1>1, <1>3 DEF BlocksApart, Apart
<1>11. ASSUME NEW q \in Live, NEW k \in DOMAIN Held(q)'
       PROVE  \E j \in DOMAIN Held(q) :
                /\ Held(q)'[k] = Held(q)[j]
                /\ IF q = p THEN j = From(k) /\ j # i ELSE j = k
  <2>1. CASE q = p
    <3>1. k \in 1 .. n - 1 /\ Held(q)'[k] = Held(q)[From(k)]
      BY <2>1, <1>5, <1>8 DEF Held
    <3>2. From(k) \in DOMAIN Held(q) /\ From(k) # i
      BY <2>1, <3>1, <1>7, <1>8 DEF Held
    <3>3. QED
      BY <3>1, <3>2, <2>1
  <2>2. CASE q # p
    BY <2>2, <1>4 DEF Held
  <2>3. QED
    BY <2>1, <2>2
<1>12. OwnedOnce'
  <2>1. ASSUME NEW r \in heap'
        PROVE  \E q \in Live' : \E k \in DOMAIN Held(q)' : Held(q)'[k] = r
    <3>1. PICK q \in Live : \E j \in DOMAIN Held(q) : Held(q)[j] = r
      BY <1>1, <1>3 DEF OwnedOnce
    <3>2. PICK j \in DOMAIN Held(q) : Held(q)[j] = r
      BY <3>1
    <3>3. CASE q = p
      <4>1. j \in 1 .. n \ {i}
        BY <3>2, <3>3, <1>3, <1>8 DEF Held
      <4>2. PICK k \in 1 .. n - 1 : From(k) = j
        BY <4>1, <1>7
      <4>3. p \in Live' /\ k \in DOMAIN Held(p)' /\ Held(p)'[k] = r
        BY <4>2, <3>2, <3>3, <1>3, <1>5, <1>8 DEF Held
      <4>4. QED
        BY <4>3
    <3>4. CASE q # p
      BY <3>2, <3>4, <1>3, <1>4 DEF Held
    <3>5. QED
      BY <3>3, <3>4
  <2>2. ASSUME NEW q \in Live', NEW k \in DOMAIN Held(q)'
        PROVE  Held(q)'[k] \in heap'
    <3>1. q \in Live
      BY <1>3
    <3>2. PICK j \in DOMAIN Held(q) :
            Held(q)'[k] = Held(q)[j] /\ (q = p => j # i)
      BY <3>1, <1>11
    <3>3. Held(q)[j] \in heap
      BY <3>1, <1>1 DEF OwnedOnce
    <3>4. Held(q)[j] # Held(p)[i]
      BY <3>1, <3>2, <1>1, <1>2, <1>8 DEF OwnedOnce, Held
    <3>5. QED
      BY <3>2, <3>3, <3>4, <1>3 DEF Held
  <2>3. ASSUME NEW q1 \in Live', NEW q2 \in Live',
               NEW k1 \in DOMAIN Held(q1)', NEW k2 \in DOMAIN Held(q2)',
               Held(q1)'[k1] = Held(q2)'[k2]
        PROVE  q1 = q2 /\ k1 = k2
    <3>1. q1 \in Live /\ q2 \in Live
      BY <1>3
    <3>2. PICK j1 \in DOMAIN Held(q1) :
            /\ Held(q1)'[k1] = Held(q1)[j1]
            /\ IF q1 = p THEN j1 = From(k1) /\ j1 # i ELSE j1 = k1
      BY <3>1, <1>11
    <3>3. PICK j2 \in DOMAIN Held(q2) :
            /\ Held(q2)'[k2] = Held(q2)[j2]
            /\ IF q2 = p THEN j2 = From(k2) /\ j2 # i ELSE j2 = k2
      BY <3>1, <1>11
    <3>4. q1 = q2 /\ j1 = j2
      <4>1. Held(q1)[j1] = Held(q2)[j2]
        BY <2>3, <3>2, <3>3
      <4>2. QED
        BY <4>1, <3>1, <1>1 DEF OwnedOnce
    <3>5. CASE q1 = p
      BY <3>2, <3>3, <3>4, <3>5, <1>7, <1>8 DEF Held
    <3>6. CASE q1 # p
      BY <3>2, <3>3, <3>4, <3>6
    <3>7. QED
      BY <3>4, <3>5, <3>6
  <2>4. QED
    BY <2>1, <2>2, <2>3 DEF OwnedOnce
<1>13. PromisesBacked'
  <2>1. ASSUME NEW q \in Live'
        PROVE  Len(contexts'[q].mapped) = Len(Held(q)')
    BY <1>1, <1>3, <1>4, <1>5, <1>6 DEF PromisesBacked, Held
  <2>2. ASSUME NEW q \in Live', NEW k \in DOMAIN Held(q)'
        PROVE  Within(Promise(q, k)', Held(q)'[k])
    <3>1. CASE q # p
      BY <3>1, <1>1, <1>3, <1>4 DEF PromisesBacked, Held, Promise
    <3>2. CASE q = p
      <4>1. k \in 1 .. n - 1
        BY <3>2, <1>8 DEF Held
      <4>2. From(k) \in DOMAIN Held(p)
        BY <4>1, <1>7, <1>8 DEF Held
      <4>3. Within(Promise(p, From(k)), Held(p)[From(k)])
        BY <4>2, <1>1 DEF PromisesBacked
      <4>4. QED
        BY <4>1, <4>3, <3>2, <1>5, <1>6 DEF Held, Promise
    <3>3. QED
      BY <3>1, <3>2
  <2>3. QED
    BY <2>1, <2>2 DEF PromisesBacked, Within
<1>14. QED
  BY <1>9, <1>10, <1>12, <1>13 DEF IInv

(* unmap frees the first mapping with the base it is given.                *)
LEMMA UnmapInv ==
  ASSUME IInv, NEW p \in Pids, NEW base \in Addresses, Unmap(p, base)
  PROVE  IInv'
<1>1. p \in Live /\ nextPID' = nextPID
  BY DEF Unmap
<1>2. PICK i \in Matches(p, base) : UnmapIdx(p, i)
  BY DEF Unmap
<1>3. i \in DOMAIN contexts[p].mapped
  BY DEF Matches
<1>4. QED
  BY <1>1, <1>2, <1>3, UnmapIdxInv

(* The destructor frees exactly the blocks of the context that goes.       *)
LEMMA DeleteContextInv ==
  ASSUME IInv, NEW p \in Pids, DeleteContext(p)
  PROVE  IInv'
<1>1. TypeOK /\ BlocksApart /\ OwnedOnce /\ PromisesBacked
  BY DEF IInv
<1>2. /\ Live' = Live \ {p} /\ nextPID' = nextPID
      /\ \A q \in Live' : contexts'[q] = contexts[q]
      /\ contexts' \in [Live' -> Contexts]
  BY <1>1 DEF DeleteContext, Live, TypeOK
<1>3. heap' = heap \ (IF p \in Live THEN Range(contexts[p].actual) ELSE {})
  BY DEF DeleteContext
<1>4. TypeOK'
  BY <1>1, <1>2, <1>3 DEF TypeOK
<1>5. BlocksApart'
  BY <1>1, <1>3 DEF BlocksApart, Apart
<1>6. \A q \in Live' : Held(q)' = Held(q) /\ q \in Live /\ q # p
  BY <1>2 DEF Held
<1>7. OwnedOnce'
  <2>1. ASSUME NEW r \in heap'
        PROVE  \E q \in Live' : \E k \in DOMAIN Held(q)' : Held(q)'[k] = r
    <3>1. PICK q \in Live : \E k \in DOMAIN Held(q) : Held(q)[k] = r
      BY <1>1, <1>3 DEF OwnedOnce
    <3>2. q # p
      BY <3>1, <1>3 DEF Held, Range
    <3>3. QED
      BY <3>1, <3>2, <1>2, <1>6
  <2>2. ASSUME NEW q \in Live', NEW k \in DOMAIN Held(q)'
        PROVE  Held(q)'[k] \in heap'
    <3>1. Held(q)[k] \in heap
      BY <1>1, <1>6 DEF OwnedOnce
    <3>2. p \in Live => Held(q)[k] \notin Range(contexts[p].actual)
      <4>1. SUFFICES ASSUME p \in Live,
                            NEW j \in DOMAIN Held(p), Held(q)[k] = Held(p)[j]
                     PROVE  FALSE
        BY DEF Range, Held
      <4>2. QED
        BY <4>1, <1>1, <1>6 DEF OwnedOnce
    <3>3. QED
      BY <3>1, <3>2, <1>3, <1>6
  <2>3. QED
    BY <2>1, <2>2, <1>1, <1>6 DEF OwnedOnce
<1>8. PromisesBacked'
  BY <1>1, <1>2, <1>6 DEF PromisesBacked, Promise, Within, Held
<1>9. QED
  BY <1>4, <1>5, <1>7, <1>8 DEF IInv

-----------------------------------------------------------------------------
(* Every step keeps the inductive invariant.                               *)
LEMMA NextInv == IInv /\ [Next]_vars => IInv'
<1> SUFFICES ASSUME IInv, [Next]_vars PROVE IInv'
  OBVIOUS
<1>1. CASE UNCHANGED vars
  BY <1>1
     DEF vars, IInv, TypeOK, BlocksApart, Apart, Blocks, OwnedOnce,
         PromisesBacked, Held, Promise, Within, Live
<1>2. CASE NewContext
  BY <1>2, NewContextInv
<1>3. ASSUME NEW p \in Pids, DeleteContext(p)
      PROVE  IInv'
  BY <1>3, DeleteContextInv
<1>4. ASSUME NEW p \in Pids, NEW base \in Addresses, Unmap(p, base)
      PROVE  IInv'
  BY <1>4, UnmapInv
<1>5. ASSUME NEW p \in Pids, NEW length \in Lengths, NEW align \in Aligns,
             Map(p, length, align)
      PROVE  IInv'
  BY <1>5, MapInv
<1>6. ASSUME NEW p \in Pids, NEW length \in Lengths, NEW align \in Aligns,
             MapFails(p, length, align)
      PROVE  UNCHANGED vars
  BY <1>6 DEF MapFails
<1>7. ASSUME NEW p \in Pids, UnmapUnknown(p)
      PROVE  UNCHANGED vars
  BY <1>7 DEF UnmapUnknown
<1>8. QED
  BY <1>1, <1>2, <1>3, <1>4, <1>5, <1>6, <1>7 DEF Next

(* Every reachable state satisfies the inductive invariant: it holds at    *)
(* boot and no call of newContext, map, unmap or deleteContext breaks it.  *)
THEOREM Invariance == Spec => []IInv
<1>1. QED
  BY InitInv, NextInv, PTL DEF Spec

(* The contexts keep their shape in every execution: live numbers are      *)
(* numbers newContext gave out, and every list holds ranges of addresses.  *)
THEOREM TypeCorrect == Spec => []TypeOK
<1>1. IInv => TypeOK
  BY DEF IInv
<1>2. QED
  BY <1>1, Invariance, PTL

(* Every malloc'ed block is in exactly one place of exactly one context:   *)
(* no order of map, unmap and deleteContext frees a block twice or loses   *)
(* one.                                                                    *)
THEOREM OwnedOnceAlways == Spec => []OwnedOnce
<1>1. IInv => OwnedOnce
  BY DEF IInv
<1>2. QED
  BY <1>1, Invariance, PTL

(* What map promises is inside the block at the same index, whatever was   *)
(* unmapped in between, and also for requests whose length wraps.          *)
THEOREM PromisesBackedAlways == Spec => []PromisesBacked
<1>1. IInv => PromisesBacked
  BY DEF IInv
<1>2. QED
  BY <1>1, Invariance, PTL

(* No two mappings promise the same address.                               *)
THEOREM PromisesDisjointAlways == Spec => []PromisesDisjoint
<1>1. IInv => PromisesDisjoint
  <2> SUFFICES ASSUME IInv,
                      NEW p \in Live, NEW q \in Live,
                      NEW i \in DOMAIN Held(p), NEW j \in DOMAIN Held(q),
                      p # q \/ i # j
               PROVE  \/ Promise(p, i).base + Promise(p, i).length
                           <= Promise(q, j).base
                      \/ Promise(q, j).base + Promise(q, j).length
                           <= Promise(p, i).base
    BY DEF PromisesDisjoint
  <2>1. TypeOK /\ BlocksApart /\ OwnedOnce /\ PromisesBacked
    BY DEF IInv
  <2>2. /\ Held(p)[i] \in heap /\ Held(q)[j] \in heap
        /\ Held(p)[i] # Held(q)[j]
    BY <2>1 DEF OwnedOnce
  <2>3. Apart(Held(p)[i], Held(q)[j])
    BY <2>1, <2>2 DEF BlocksApart
  <2>4. Within(Promise(p, i), Held(p)[i]) /\ Within(Promise(q, j), Held(q)[j])
    BY <2>1 DEF PromisesBacked
  <2>5. /\ Held(p)[i] \in Ranges /\ Held(q)[j] \in Ranges
    BY <2>1, <2>2 DEF TypeOK
  <2>6. ASSUME NEW r \in Live, NEW k \in DOMAIN Held(r)
        PROVE  Promise(r, k) \in Ranges
    <3>1. contexts[r] \in Contexts
      BY <2>1 DEF TypeOK
    <3>2. /\ contexts[r].mapped \in Seq(Mappings)
          /\ Held(r) \in Seq(Ranges)
          /\ Len(contexts[r].mapped) = Len(Held(r))
      BY <3>1, <2>1 DEF Contexts, Held, PromisesBacked
    <3>3. contexts[r].mapped[k] \in Mappings
      BY <3>2
    <3>4. QED
      BY <3>3 DEF Mappings, Promise
  <2>7. QED
    BY <2>3, <2>4, <2>5, <2>6, SizesAssumption
       DEF Apart, Within, Ranges, Addresses
<1>2. QED
  BY <1>1, Invariance, PTL

-----------------------------------------------------------------------------
(* Refinement: the context table implements the abstract memory.           *)

(* push_back adds its element to the elements of a vector.                 *)
LEMMA AppendRangeLemma ==
  ASSUME NEW S, NEW s \in Seq(S), NEW e \in S
  PROVE  Range(Append(s, e)) = Range(s) \cup {e}
<1> DEFINE t == Append(s, e)
<1>1. /\ t \in Seq(S) /\ Len(t) = Len(s) + 1
      /\ \A j \in 1 .. Len(s) : t[j] = s[j]
      /\ t[Len(s) + 1] = e
  BY AppendLemma
<1>2. DOMAIN t = 1 .. Len(s) + 1 /\ DOMAIN s = 1 .. Len(s) /\ Len(s) \in Nat
  BY <1>1
<1> HIDE DEF t
<1>3. ASSUME NEW x \in Range(t) PROVE x \in Range(s) \cup {e}
  BY <1>1, <1>2, <1>3 DEF Range
<1>4. ASSUME NEW x \in Range(s) \cup {e} PROVE x \in Range(t)
  <2>1. CASE x = e
    <3>1. Len(s) + 1 \in DOMAIN t
      BY <1>2
    <3>2. QED
      BY <3>1, <2>1, <1>1 DEF Range
  <2>2. CASE x \in Range(s)
    <3>1. PICK j \in DOMAIN s : x = s[j]
      BY <2>2 DEF Range
    <3>2. j \in DOMAIN t /\ t[j] = x
      BY <3>1, <1>1, <1>2
    <3>3. QED
      BY <3>2 DEF Range
  <2>3. QED
    BY <2>1, <2>2
<1>5. QED
  BY <1>3, <1>4 DEF t

(* erase takes one element out of a vector without repetitions.            *)
LEMMA RemoveAtRangeLemma ==
  ASSUME NEW S, NEW s \in Seq(S), NEW i \in 1 .. Len(s),
         \A j, k \in 1 .. Len(s) : s[j] = s[k] => j = k
  PROVE  Range(RemoveAt(s, i)) = Range(s) \ {s[i]}
<1> DEFINE t == RemoveAt(s, i)
           n == Len(s)
<1>1. /\ t \in Seq(S) /\ Len(t) = n - 1
      /\ \A j \in 1 .. n - 1 : t[j] = s[IF j < i THEN j ELSE j + 1]
  BY RemoveAtLemma
<1>2. DOMAIN t = 1 .. n - 1 /\ DOMAIN s = 1 .. n /\ n \in Nat
  BY <1>1
<1> HIDE DEF t
<1>3. ASSUME NEW x \in Range(t) PROVE x \in Range(s) \ {s[i]}
  <2>1. PICK j \in 1 .. n - 1 : x = t[j]
    BY <1>2 DEF Range
  <2> DEFINE k == IF j < i THEN j ELSE j + 1
  <2>2. k \in 1 .. n /\ k # i /\ x = s[k]
    BY <2>1, <1>1, <1>2
  <2>3. QED
    BY <2>2, <1>2 DEF Range
<1>4. ASSUME NEW x \in Range(s) \ {s[i]} PROVE x \in Range(t)
  <2>1. PICK k \in 1 .. n : x = s[k] /\ k # i
    BY <1>2 DEF Range
  <2> DEFINE j == IF k < i THEN k ELSE k - 1
  <2>2. j \in 1 .. n - 1 /\ (IF j < i THEN j ELSE j + 1) = k
    BY <2>1, <1>2
  <2>3. t[j] = x
    BY <2>1, <2>2, <1>1
  <2>4. QED
    BY <2>2, <2>3, <1>2 DEF Range
<1>5. QED
  BY <1>3, <1>4 DEF t

(* What IInv says of the lists of one live context.                        *)
LEMMA ListsLemma ==
  ASSUME IInv, NEW p \in Live
  PROVE  /\ contexts[p].actual \in Seq(Ranges)
         /\ contexts[p].mapped \in Seq(Mappings)
         /\ Len(contexts[p].mapped) = Len(contexts[p].actual)
         /\ \A j, k \in 1 .. Len(contexts[p].actual) :
              contexts[p].actual[j] = contexts[p].actual[k] => j = k
<1>1. contexts[p] \in Contexts
  BY DEF IInv, TypeOK
<1>2. /\ contexts[p].actual \in Seq(Ranges)
      /\ contexts[p].mapped \in Seq(Mappings)
  BY <1>1 DEF Contexts
<1>3. DOMAIN Held(p) = 1 .. Len(contexts[p].actual)
  BY <1>2 DEF Held
<1>4. QED
  BY <1>2, <1>3 DEF IInv, OwnedOnce, PromisesBacked, Held

(* A block given to a context is a block the context owns from then on.    *)
LEMMA MapRefines ==
  ASSUME IInv, NEW p \in Pids, NEW length \in Lengths, NEW align \in Aligns,
         Map(p, length, align)
  PROVE  \E b \in Blocks : Memory!MapBlock(p, b)
<1>1. p \in Live
  BY DEF Map
<1>2. PICK mem \in BlocksFor(length, align) : MapTo(p, length, align, mem)
  BY DEF Map
<1>3. mem \in Blocks /\ \A s \in heap : Apart(mem, s)
  BY <1>2 DEF BlocksFor, Available
<1>4. mem \in Ranges /\ mem \notin heap
  <2>1. /\ mem.base \in Nat /\ mem.length \in Nat \ {0}
        /\ mem.base < SizeMod /\ mem.length < SizeMod
        /\ mem = [base |-> mem.base, length |-> mem.length]
    BY <1>3, SizesAssumption DEF Blocks
  <2>2. ~Apart(mem, mem)
    BY <2>1 DEF Apart
  <2>3. QED
    BY <2>1, <2>2, <1>3, SizesAssumption DEF Ranges, Addresses
<1>5. /\ heap' = heap \cup {mem} /\ Live' = Live
      /\ contexts'[p].actual = Append(contexts[p].actual, mem)
      /\ \A q \in Live \ {p} : contexts'[q] = contexts[q]
  BY <1>1, <1>2 DEF MapTo, Live, IInv, TypeOK
<1>6. Range(Append(contexts[p].actual, mem))
        = Range(contexts[p].actual) \cup {mem}
  BY <1>1, <1>4, ListsLemma, AppendRangeLemma
<1>7. Owned' = [Owned EXCEPT ![p] = @ \cup {mem}]
  BY <1>1, <1>5, <1>6 DEF Owned
<1>8. p \in DOMAIN Owned
  BY <1>1 DEF Owned
<1>9. Memory!MapBlock(p, mem)
  BY <1>3, <1>4, <1>5, <1>7, <1>8 DEF Memory!MapBlock, Memory!Live
<1>10. QED
  BY <1>3, <1>9

(* A block freed by unmapIdx was owned, and is not any more.               *)
LEMMA UnmapIdxRefines ==
  ASSUME IInv, NEW p \in Live, NEW i \in DOMAIN contexts[p].mapped,
         UnmapIdx(p, i)
  PROVE  \E b \in Blocks : Memory!UnmapBlock(p, b)
<1> DEFINE b == contexts[p].actual[i]
<1>1. /\ contexts[p].actual \in Seq(Ranges)
      /\ i \in 1 .. Len(contexts[p].actual)
      /\ \A j, k \in 1 .. Len(contexts[p].actual) :
           contexts[p].actual[j] = contexts[p].actual[k] => j = k
  BY ListsLemma
<1>2. /\ heap' = heap \ {b} /\ Live' = Live
      /\ contexts'[p].actual = RemoveAt(contexts[p].actual, i)
      /\ \A q \in Live \ {p} : contexts'[q] = contexts[q]
  BY DEF UnmapIdx, Live, IInv, TypeOK
<1>3. Range(RemoveAt(contexts[p].actual, i)) = Range(contexts[p].actual) \ {b}
  BY <1>1, RemoveAtRangeLemma
<1>4. b \in Range(contexts[p].actual)
  BY <1>1 DEF Range
<1>5. b \in Blocks
  BY <1>1 DEF IInv, OwnedOnce, BlocksApart, Held
<1> HIDE DEF b
<1>6. Owned' = [Owned EXCEPT ![p] = @ \ {b}]
  BY <1>2, <1>3 DEF Owned
<1>7. p \in DOMAIN Owned /\ b \in Owned[p]
  BY <1>4 DEF Owned
<1>8. Memory!UnmapBlock(p, b)
  BY <1>2, <1>6, <1>7 DEF Memory!UnmapBlock, Memory!Live
<1>9. QED
  BY <1>5, <1>8

(* Every step of the context table is a step of the abstract memory or     *)
(* leaves it alone.                                                        *)
LEMMA NextRefines == IInv /\ [Next]_vars => [Memory!Next]_Memory!memVars
<1> SUFFICES ASSUME IInv, [Next]_vars
             PROVE  Memory!Next \/ (heap' = heap /\ Owned' = Owned)
  BY DEF Memory!memVars
<1>1. CASE UNCHANGED vars
  BY <1>1 DEF vars, Owned, Live
<1>2. CASE NewContext
  <2>1. /\ nextPID \in Pids /\ nextPID \notin Live /\ heap' = heap
        /\ Live' = Live \cup {nextPID}
        /\ \A q \in Live : contexts'[q] = contexts[q]
        /\ contexts'[nextPID].actual = <<>>
    BY <1>2 DEF NewContext, Pids, Live, IInv, TypeOK
  <2>2. Owned' = [q \in Live \cup {nextPID} |->
                    IF q = nextPID THEN {} ELSE Owned[q]]
    BY <2>1 DEF Owned, Range
  <2>3. DOMAIN Owned = Live
    BY DEF Owned
  <2>4. Memory!Create(nextPID)
    BY <2>1, <2>2, <2>3 DEF Memory!Create, Memory!Live
  <2>5. QED
    BY <2>1, <2>4 DEF Memory!Next
<1>3. ASSUME NEW p \in Pids, DeleteContext(p)
      PROVE  Memory!Next \/ (heap' = heap /\ Owned' = Owned)
  <2>1. Live' = Live \ {p} /\ \A q \in Live' : contexts'[q] = contexts[q]
    BY <1>3 DEF DeleteContext, Live
  <2>2. CASE p \in Live
    <3>1. heap' = heap \ Owned[p] /\ Owned' = [q \in Live \ {p} |-> Owned[q]]
      BY <1>3, <2>1, <2>2 DEF DeleteContext, Owned
    <3>2. DOMAIN Owned = Live
      BY DEF Owned
    <3>3. Memory!Delete(p)
      BY <3>1, <3>2, <2>2 DEF Memory!Delete, Memory!Live
    <3>4. QED
      BY <3>3 DEF Memory!Next
  <2>3. CASE p \notin Live
    BY <1>3, <2>1, <2>3 DEF DeleteContext, Owned
  <2>4. QED
    BY <2>2, <2>3
<1>4. ASSUME NEW p \in Pids, NEW base \in Addresses, Unmap(p, base)
      PROVE  Memory!Next
  <2>1. PICK i \in Matches(p, base) : UnmapIdx(p, i)
    BY <1>4 DEF Unmap
  <2>2. p \in Live /\ i \in DOMAIN contexts[p].mapped
    BY <1>4 DEF Unmap, Matches
  <2>3. \E b \in Blocks : Memory!UnmapBlock(p, b)
    BY <2>1, <2>2, UnmapIdxRefines
  <2>4. QED
    BY <2>3 DEF Memory!Next
<1>5. ASSUME NEW p \in Pids, NEW length \in Lengths, NEW align \in Aligns,
             Map(p, length, align)
      PROVE  Memory!Next
  <2>1. \E b \in Blocks : Memory!MapBlock(p, b)
    BY <1>5, MapRefines
  <2>2. QED
    BY <2>1 DEF Memory!Next
<1>6. ASSUME NEW p \in Pids, NEW length \in Lengths, NEW align \in Aligns,
             MapFails(p, length, align)
      PROVE  UNCHANGED vars
  BY <1>6 DEF MapFails
<1>7. ASSUME NEW p \in Pids, UnmapUnknown(p)
      PROVE  UNCHANGED vars
  BY <1>7 DEF UnmapUnknown
<1>8. QED
  BY <1>1, <1>2, <1>3, <1>4, <1>5, <1>6, <1>7 DEF Next

(* The lists of address ranges implement the abstract memory: each context *)
(* owns a set of blocks, and blocks go back when unmapped or when their    *)
(* context is destroyed.                                                   *)
THEOREM Refinement == Spec => MemorySpec
<1>1. Init => Memory!Init
  <2> SUFFICES ASSUME Init PROVE Memory!Init
    OBVIOUS
  <2>1. heap = {} /\ Live = {}
    BY DEF Init, Live
  <2>2. Owned = [p \in {} |-> {}]
    BY <2>1 DEF Owned
  <2>3. QED
    BY <2>1, <2>2 DEF Memory!Init
<1>2. QED
  BY <1>1, NextRefines, Invariance, PTL DEF Spec, MemorySpec, Memory!Spec

-----------------------------------------------------------------------------
(* What map answers is what was asked for.                                 *)

(* A multiple of a number has no remainder.                                *)
LEMMA MultipleLemma ==
  ASSUME NEW a \in Nat \ {0}, NEW k \in Nat
  PROVE  (a * k) % a = 0
<1>1. a * k \in Nat
  OBVIOUS
<1>2. PICK q \in Nat : a * k = a * q + ((a * k) % a)
  BY <1>1, DivLemma
<1>3. PICK r \in 0 .. a - 1 : r = (a * k) % a
  BY <1>1, ModLemma
<1>4. a * k = a * q + r
  BY <1>2, <1>3
<1>5. CASE k <= q
  <2>1. a * k <= a * q
    BY <1>5
  <2>2. QED
    BY <1>3, <1>4, <2>1
<1>6. CASE k >= q + 1
  <2>1. a * k >= a * (q + 1) /\ a * (q + 1) = a * q + a
    BY <1>6
  <2>2. QED
    BY <1>4, <2>1
<1>7. QED
  BY <1>5, <1>6

(* A length that can be rounded up is rounded up.                          *)
LEMMA RoundedUpLemma ==
  ASSUME NEW length \in Nat, NEW a \in Nat \ {0}, length + a <= SizeMod
  PROVE  RoundedLength(length, a) >= length
<1>1. PICK r \in 0 .. a - 1 : r = length % a
  BY ModLemma
<1>2. SizeMod \in Nat \ {0}
  BY SizesAssumption
<1>3. CASE r = 0
  BY <1>1, <1>3 DEF RoundedLength
<1>4. CASE r # 0
  <2>1. length + (a - r) \in 0 .. SizeMod /\ length + (a - r) # SizeMod
    BY <1>1, <1>2, <1>4
  <2>2. RoundedLength(length, a) = length + (a - r)
    BY <1>1, <1>2, <1>4, <2>1, SmallModLemma DEF RoundedLength
  <2>3. QED
    BY <1>1, <2>2
<1>5. QED
  BY <1>3, <1>4

(* The base is moved up to the next multiple, or to the end of the         *)
(* addresses, which is 0 and a multiple, too.                              *)
LEMMA AlignedBaseLemma ==
  ASSUME NEW base \in Nat, base < SizeMod, base % Word = 0,
         NEW a \in Nat \ {0}, a >= Word, SizeMod % a = 0
  PROVE  PromisedBase(base, a) % a = 0
<1>1. SizeMod \in Nat \ {0} /\ Word \in Nat \ {0}
  BY SizesAssumption
<1>2. CASE a <= Word
  <2>1. a = Word
    BY <1>1, <1>2
  <2>2. QED
    BY <1>2, <2>1 DEF PromisedBase
<1>3. CASE base % a = 0
  BY <1>3 DEF PromisedBase
<1>4. CASE ~(a <= Word) /\ base % a # 0
  <2>1. PICK r \in 0 .. a - 1 : r = base % a
    BY ModLemma
  <2>2. PICK q \in Nat : base = a * q + r
    BY <2>1, DivLemma
  <2>3. PICK m \in Nat : SizeMod = a * m
    <3>1. PICK m \in Nat : SizeMod = a * m + (SizeMod % a)
      BY <1>1, DivLemma
    <3>2. SizeMod = a * m
      BY <3>1
    <3>3. QED
      BY <3>2
  <2>4. q < m
    <3>1. SUFFICES ASSUME q >= m PROVE FALSE
      OBVIOUS
    <3>2. a * q >= a * m
      BY <3>1
    <3>3. QED
      BY <2>1, <2>2, <2>3, <3>2
  <2>5. PICK up \in Nat : up = base + (a - r) /\ up = a * (q + 1) /\ up <= SizeMod
    <3>1. a * (q + 1) <= a * m /\ a * (q + 1) = a * q + a /\ a * (q + 1) \in Nat
      BY <2>4
    <3>2. QED
      BY <2>1, <2>2, <2>3, <3>1
  <2>6. up % a = 0
    <3>1. (a * (q + 1)) % a = 0
      BY MultipleLemma
    <3>2. QED
      BY <2>5, <3>1
  <2>7. PromisedBase(base, a) = up % SizeMod
    BY <1>4, <2>1, <2>5 DEF PromisedBase
  <2>8. up % SizeMod = IF up = SizeMod THEN 0 ELSE up
    <3>1. up \in 0 .. SizeMod
      BY <1>1, <2>5
    <3>2. QED
      BY <1>1, <3>1, SmallModLemma
  <2>9. 0 % a = 0
    BY SMT
  <2>10. QED
    BY <2>6, <2>7, <2>8, <2>9
<1>5. QED
  BY <1>2, <1>3, <1>4

(* map answers every request it accepts, and whose length can be rounded   *)
(* up within size_t, with an aligned address and at least the length asked *)
(* for, whatever block the allocator gives.                                *)
THEOREM HonoursAlways == Spec => MapHonoursRequest
<1> DEFINE Honoured ==
             \A p \in Live \cap Live', length \in Lengths, align \in Aligns :
               length + EffectiveAlign(align) <= SizeMod => Honours(p, length, align)
<1>1. TypeOK => Honoured
  <2> SUFFICES ASSUME TypeOK, NEW p \in Live, NEW length \in Lengths,
                      NEW align \in Aligns, length + EffectiveAlign(align) <= SizeMod,
                      NEW mem, mem = Last(Held(p)'),
                      Accepted(length, align), mem \in BlocksFor(length, align),
                      MapTo(p, length, align, mem)
               PROVE  /\ Last(contexts'[p].mapped).promise.length >= length
                      /\ Last(contexts'[p].mapped).promise.base
                           % EffectiveAlign(align) = 0
    BY DEF Honours
  <2>1. PICK a \in Nat \ {0} : a = EffectiveAlign(align)
    BY EffectiveAlignLemma DEF Accepted
  <2>2. a >= Word /\ SizeMod % a = 0
    BY <2>1, EffectiveAlignLemma, SizesAssumption DEF Accepted
  <2>3. mem.base \in Nat /\ mem.base < SizeMod /\ mem.base % Word = 0
    BY SizesAssumption DEF BlocksFor, Available, Blocks
  <2>4. Last(contexts'[p].mapped).promise = Promised(length, align, mem)
    <3>1. PICK entry : entry = [promise |-> Promised(length, align, mem),
                                actual |-> Len(contexts[p].actual)]
      OBVIOUS
    <3>2. contexts[p].mapped \in Seq(Mappings)
      BY DEF TypeOK, Contexts
    <3>3. contexts'[p].mapped = Append(contexts[p].mapped, entry)
      BY <3>1 DEF MapTo, TypeOK
    <3>4. Last(Append(contexts[p].mapped, entry)) = entry
      BY <3>2 DEF Last
    <3>5. QED
      BY <3>1, <3>3, <3>4
  <2>5. /\ Promised(length, align, mem).base = PromisedBase(mem.base, a)
        /\ Promised(length, align, mem).length = RoundedLength(length, a)
    BY <2>1 DEF Promised
  <2>6. RoundedLength(length, a) >= length
    <3>1. length \in Nat
      BY SizesAssumption
    <3>2. QED
      BY <2>1, <3>1, RoundedUpLemma
  <2>7. PromisedBase(mem.base, a) % a = 0
    BY <2>2, <2>3, AlignedBaseLemma
  <2>8. QED
    BY <2>1, <2>4, <2>5, <2>6, <2>7
<1>2. TypeOK /\ [Next]_vars => [Honoured]_vars
  BY <1>1
<1>3. QED
  BY <1>2, TypeCorrect, PTL DEF Spec, MapHonoursRequest
=============================================================================
