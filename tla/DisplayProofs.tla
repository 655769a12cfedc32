--------------------------- MODULE DisplayProofs ---------------------------
(***************************************************************************)
(* Proofs about Display, for any number of users, displays and sizes.      *)
(***************************************************************************)
EXTENDS Display, TLAPS

(* What is registered was added by the firmware or by a process that did   *)
(* not remove it.                                                          *)
DisplaysOwed ==
  \A id \in DOMAIN displays :
    displays[id].func \in Processes => id \in mine[displays[id].func]

(* Nothing is registered without an extent.                                *)
DisplaysSized == \A id \in DOMAIN given : given[id].w > 1 /\ given[id].h > 1

IInv ==
  /\ TypeOK
  /\ IdsNotReused
  /\ DisplaysOwed
  /\ DisplaysSized
  /\ DrawStaysInside

(* A span that passes the bounds check lies inside, if its sum does not    *)
(* overflow.                                                               *)
LEMMA SpanInside ==
  ASSUME IntMax \in Nat, NEW x \in Int32, NEW w \in Int32, NEW width \in Int32,
         SpanFits(x, w, width), x + w <= IntMax
  PROVE  0 <= x /\ 0 <= w /\ x + w <= width
<1>1. 0 <= x /\ 0 <= w
  BY DEF SpanFits, Int32
<1>2. (x + w + IntMax + 1) % (2 * IntMax + 2) = x + w + IntMax + 1
  BY <1>1 DEF Int32
<1> QED BY <1>1, <1>2 DEF SpanFits, Sums, Int32

LEMMA InitInv == Init => IInv
  BY DisplayAssumption
  DEF Init, IInv, TypeOK, IdsNotReused, DisplaysOwed, DisplaysSized,
      DrawStaysInside, Users, Display

(* A write function somebody is in is of an ID that was returned.          *)
LEMMA DrawKnown ==
  ASSUME TypeOK, NEW u \in Users, NEW i \in DOMAIN drawing[u]
  PROVE  drawing[u][i].id \in 1 .. lastID
<1>1. drawing[u] \in Seq(Draw) /\ drawing[u][i].id <= lastID
  BY DEF TypeOK
<1>2. drawing[u][i] \in Draw
  BY <1>1
<1>3. drawing[u][i].id \in Ids
  BY <1>2 DEF Draw
<1> QED BY <1>1, <1>3, DisplayAssumption DEF TypeOK, Ids

(* Users that leave write functions are in none they were not in before.   *)
LEMMA DrawsEnd ==
  ASSUME IInv, NEW u \in Users, NEW k \in 0 .. Len(drawing[u]),
         drawing' = [drawing EXCEPT ![u] = SubSeq(@, 1, k)],
         UNCHANGED <<displays, lastID, mine, given>>,
         life' \in [Processes -> {"new", "live", "gone"}]
  PROVE  IInv'
<1> USE DEF IInv
<1>1. drawing \in [Users -> Seq(Draw)] /\ drawing[u] \in Seq(Draw)
  BY DEF TypeOK
<1>2. SubSeq(drawing[u], 1, k) \in Seq(Draw)
  BY <1>1
<1>3. drawing' \in [Users -> Seq(Draw)]
  BY <1>1, <1>2
<1>4. \A v \in Users : \A i \in DOMAIN drawing'[v] :
        i \in DOMAIN drawing[v] /\ drawing'[v][i] = drawing[v][i]
  BY <1>1, <1>2
<1>5. TypeOK' BY <1>3, <1>4 DEF TypeOK
<1>6. DrawStaysInside' BY <1>4 DEF DrawStaysInside
<1>7. IdsNotReused' /\ DisplaysOwed' /\ DisplaysSized'
  BY DEF IdsNotReused, DisplaysOwed, DisplaysSized
<1> QED BY <1>5, <1>6, <1>7

(* Processes come and go: their draws end with them.                       *)
LEMMA LifeInv ==
  ASSUME IInv, NEW p \in Processes, StartProcess(p) \/ EndProcess(p)
  PROVE  IInv'
<1>1. life' \in [Processes -> {"new", "live", "gone"}]
  BY DEF IInv, TypeOK, StartProcess, EndProcess
<1>2. p \in Users /\ drawing[p] \in Seq(Draw)
  BY DEF Users, IInv, TypeOK
<1>3. CASE StartProcess(p)
  BY <1>1, <1>3
     DEF IInv, StartProcess, TypeOK, IdsNotReused, DisplaysOwed, DisplaysSized,
         DrawStaysInside
<1>4. CASE EndProcess(p)
  <2>1. SubSeq(drawing[p], 1, 0) = <<>>
    BY <1>2
  <2>2. drawing' = [drawing EXCEPT ![p] = SubSeq(@, 1, 0)]
    BY <1>4, <2>1 DEF EndProcess
  <2>3. 0 \in 0 .. Len(drawing[p])
    BY <1>2
  <2>4. UNCHANGED <<displays, lastID, mine, given>>
    BY <1>4 DEF EndProcess
  <2> QED BY <1>1, <1>2, <2>2, <2>3, <2>4, DrawsEnd
<1> QED BY <1>3, <1>4

(* display_add: the ID is above all that were returned before.             *)
LEMMA AddInv ==
  ASSUME IInv, NEW u \in Users, NEW size \in Sizes, Add(u, size)
  PROVE  IInv'
<1> USE DisplayAssumption DEF IInv
<1> DEFINE display == [func |-> u, w |-> size[1], h |-> size[2]]
           id == lastID + 1
<1>1. display \in Display /\ display.w > 1 /\ display.h > 1
  BY DEF Add, Display
<1>2. /\ lastID' = id /\ id \in Ids /\ lastID \in Nat
      /\ id \notin DOMAIN given /\ id \notin DOMAIN displays
      /\ displays' = [i \in DOMAIN displays \cup {id} |->
                        IF i = id THEN display ELSE displays[i]]
      /\ given' = [i \in DOMAIN given \cup {id} |->
                     IF i \in DOMAIN given THEN given[i] ELSE display]
      /\ mine' = [p \in Processes |->
                    IF p = u THEN mine[p] \cup {id} ELSE mine[p]]
      /\ UNCHANGED <<drawing, life>>
  BY DEF Add, Emplaced, TypeOK, Ids
<1> HIDE DEF display
<1>3. TypeOK'
  <2>1. /\ lastID' \in 0 .. MaxDisplays /\ DOMAIN displays' \subseteq 1 .. lastID'
        /\ DOMAIN given' = 1 .. lastID'
    BY <1>2 DEF TypeOK, Ids
  <2>2. displays' \in [DOMAIN displays' -> Display] /\ given' \in [DOMAIN given' -> Display]
    BY <1>1, <1>2 DEF TypeOK
  <2>3. drawing' \in [Users -> Seq(Draw)]
    BY <1>2 DEF TypeOK
  <2>4. ASSUME NEW v \in Users, NEW i \in DOMAIN drawing'[v]
        PROVE  drawing'[v][i].id <= lastID'
    <3>1. drawing'[v] = drawing[v] /\ i \in DOMAIN drawing[v]
      BY <1>2, <2>4
    <3>2. drawing[v][i].id \in 1 .. lastID
      BY <3>1, DrawKnown
    <3> QED BY <1>2, <3>1, <3>2
  <2>5. /\ life' \in [Processes -> {"new", "live", "gone"}]
        /\ mine' \in [Processes -> SUBSET (1 .. lastID')]
    BY <1>2 DEF TypeOK
  <2> QED BY <2>1, <2>2, <2>3, <2>4, <2>5 DEF TypeOK
<1>4. IdsNotReused'
  BY <1>2 DEF IdsNotReused
<1>5. DisplaysOwed'
  BY <1>1, <1>2 DEF DisplaysOwed, display
<1>6. DisplaysSized'
  BY <1>1, <1>2 DEF DisplaysSized
<1>7. DrawStaysInside'
  <2>1. ASSUME NEW v \in Users, NEW i \in DOMAIN drawing[v]
        PROVE  drawing[v][i].id \in DOMAIN given
    BY <2>1, DrawKnown DEF TypeOK
  <2>2. \A i \in DOMAIN given : given'[i] = given[i]
    BY <1>2
  <2> QED BY <1>2, <2>1, <2>2 DEF DrawStaysInside
<1> QED BY <1>3, <1>4, <1>5, <1>6, <1>7

(* display_remove.                                                         *)
LEMMA RemoveInv ==
  ASSUME IInv, NEW u \in Users, NEW id \in Ids, Remove(u, id)
  PROVE  IInv'
<1> USE DEF IInv, Remove
<1>1. TypeOK' BY DEF TypeOK
<1>2. IdsNotReused' BY DEF IdsNotReused
<1>3. DisplaysOwed' BY DEF DisplaysOwed, TypeOK
<1>4. DisplaysSized' BY DEF DisplaysSized
<1>5. DrawStaysInside' BY DEF DrawStaysInside
<1> QED BY <1>1, <1>2, <1>3, <1>4, <1>5

(* Drawing, and the end of it.                                             *)
LEMMA DrawInv ==
  ASSUME IInv, NEW u \in Users,
         \/ \E id \in Ids : \/ Write(u, id)
                            \/ \E area \in Areas : WritePartial(u, id, area)
         \/ Drawn(u)
  PROVE  IInv'
<1> USE DisplayAssumption DEF IInv
<1>1. ASSUME NEW id \in Ids, NEW area \in [x : Int32, y : Int32, w : Int32, h : Int32],
             Draws(u, id, area),
             area.x + area.w <= IntMax /\ area.y + area.h <= IntMax =>
               /\ 0 <= area.x /\ 0 <= area.w /\ area.x + area.w <= displays[id].w
               /\ 0 <= area.y /\ 0 <= area.h /\ area.y + area.h <= displays[id].h
      PROVE  IInv'
  <2> DEFINE new == [id |-> id, area |-> area]
  <2>1. /\ id \in DOMAIN displays /\ displays[id] = given[id] /\ id <= lastID
        /\ drawing' = [drawing EXCEPT ![u] = Append(@, new)]
        /\ UNCHANGED <<displays, lastID, life, mine, given>>
    BY <1>1 DEF Draws, IdsNotReused, TypeOK
  <2>2. drawing \in [Users -> Seq(Draw)] /\ drawing[u] \in Seq(Draw)
    BY DEF TypeOK
  <2>3. new \in Draw /\ new.id = id /\ new.area = area
    BY <1>1 DEF Draw
  <2> HIDE DEF new
  <2>4. Append(drawing[u], new) \in Seq(Draw)
    BY <2>2, <2>3
  <2>5. drawing' \in [Users -> Seq(Draw)]
    BY <2>1, <2>2, <2>4
  <2>6. \A v \in Users : \A i \in DOMAIN drawing'[v] :
          \/ drawing'[v][i] = new
          \/ i \in DOMAIN drawing[v] /\ drawing'[v][i] = drawing[v][i]
    BY <2>1, <2>2
  <2>7. TypeOK' BY <2>1, <2>3, <2>5, <2>6 DEF TypeOK
  <2>8. IdsNotReused' BY <2>1 DEF IdsNotReused
  <2>9. DisplaysOwed' BY <2>1 DEF DisplaysOwed
  <2>10. DisplaysSized' BY <2>1 DEF DisplaysSized
  <2>11. DrawStaysInside' BY <1>1, <2>1, <2>3, <2>6 DEF DrawStaysInside
  <2> QED BY <2>7, <2>8, <2>9, <2>10, <2>11
<1>2. ASSUME NEW id \in Ids, Write(u, id) PROVE IInv'
  <2>1. id \in DOMAIN displays /\ displays[id] \in Display
    BY <1>2 DEF Write, TypeOK
  <2>2. displays[id].w > 1 /\ displays[id].h > 1
    BY <2>1 DEF IdsNotReused, DisplaysSized
  <2>3. Whole(id) \in [x : Int32, y : Int32, w : Int32, h : Int32]
    BY <2>1 DEF Whole, Display, Int32
  <2> QED BY <1>1, <1>2, <2>1, <2>2, <2>3 DEF Write, Whole, Display, Int32
<1>3. ASSUME NEW id \in Ids, NEW area \in Areas, WritePartial(u, id, area)
      PROVE  IInv'
  <2>1. displays[id] \in Display
    BY <1>3 DEF WritePartial, TypeOK
  <2>2. /\ area.x \in Int32 /\ area.y \in Int32
        /\ area.w \in Int32 /\ area.h \in Int32
        /\ area \in [x : Int32, y : Int32, w : Int32, h : Int32]
        /\ displays[id].w \in Int32 /\ displays[id].h \in Int32
    BY <2>1 DEF Display
  <2>3. area.x + area.w <= IntMax =>
          0 <= area.x /\ 0 <= area.w /\ area.x + area.w <= displays[id].w
    BY <1>3, <2>2, SpanInside DEF WritePartial
  <2>4. area.y + area.h <= IntMax =>
          0 <= area.y /\ 0 <= area.h /\ area.y + area.h <= displays[id].h
    BY <1>3, <2>2, SpanInside DEF WritePartial
  <2> QED BY <1>1, <1>3, <2>2, <2>3, <2>4 DEF WritePartial
<1>4. CASE Drawn(u)
  <2>1. drawing[u] \in Seq(Draw) /\ drawing[u] # <<>>
    BY <1>4 DEF Drawn, TypeOK
  <2>2. Len(drawing[u]) - 1 \in 0 .. Len(drawing[u])
    BY <2>1
  <2> QED BY <1>4, <2>2, DrawsEnd DEF Drawn, TypeOK
<1> QED BY <1>2, <1>3, <1>4

-----------------------------------------------------------------------------
(* Every reachable state satisfies the inductive invariant.                *)
THEOREM Invariance == Spec => []IInv
<1>1. Init => IInv
  BY InitInv
<1>2. IInv /\ [Next]_vars => IInv'
  <2>1. ASSUME IInv, UNCHANGED vars PROVE IInv'
    BY <2>1 DEF vars, IInv, TypeOK, IdsNotReused, DisplaysOwed, DisplaysSized,
        DrawStaysInside
  <2> QED BY <2>1, LifeInv, AddInv, RemoveInv, DrawInv DEF Next
<1> QED BY <1>1, <1>2, PTL DEF Spec

(* The registry keeps its types, and IDs are counted up.                   *)
THEOREM TypeCorrect == Spec => []TypeOK
  BY Invariance, PTL DEF IInv

(* An ID names the display it was returned for, or none.                   *)
THEOREM IdsNotReusedAlways == Spec => []IdsNotReused
  BY Invariance, PTL DEF IInv

(* A process that removed its displays can end without others running its  *)
(* code, but for draws that began before.                                  *)
THEOREM LiveCodeAlways == Spec => []DrawRunsLiveCode
<1>1. IInv => DrawRunsLiveCode
  BY DEF IInv, DisplaysOwed, DrawRunsLiveCode, Live
<1> QED BY <1>1, Invariance, PTL

(* Write functions get areas inside the size of their display.             *)
THEOREM InsideAlways == Spec => []DrawStaysInside
  BY Invariance, PTL DEF IInv
=============================================================================
