------------------------------ MODULE Display ------------------------------
(***************************************************************************)
(* The displays of display.cpp: registered with a write function, drawn to *)
(* by anybody, removed again. A process is a user whose functions go with  *)
(* it when it ends; the firmware, Host, registers and draws too.           *)
(*                                                                         *)
(* The registry has no lock: calls that look it up are one step each. The  *)
(* write function runs as long as it likes and may draw itself; meanwhile  *)
(* others add and remove displays and processes end.                       *)
(***************************************************************************)
EXTENDS Integers, Sequences, FiniteSets

CONSTANTS
  Processes, Host,
  Sizes,        (* The sizes displays are registered with, as <<w, h>>.    *)
  Areas,        (* What is drawn, as [x, y, w, h].                         *)
  IntMax,       (* INT_MAX                                                 *)
  MaxDisplays,  (* Bound: calls of display_add that succeed.               *)
  MaxDraws      (* Bound: write functions that run at once.                *)

Users == Processes \cup {Host}
Ids == 1 .. MaxDisplays
Int32 == -IntMax - 1 .. IntMax

ASSUME DisplayAssumption ==
  /\ Host \notin Processes
  /\ IntMax \in Nat /\ MaxDisplays \in Nat /\ MaxDraws \in Nat
  /\ Sizes \subseteq Int32 \X Int32
  /\ Areas \subseteq [x : Int32, y : Int32, w : Int32, h : Int32]

VARIABLES
  displays,  (* The map from IDs to [func, w, h]; func is whose it is.     *)
  lastID,
  drawing,   (* The write functions a user is in, the last one called last,*)
             (* with their arguments.                                      *)
  life,      (* "new", "live" or "gone"                                    *)
  mine,      (* History: the displays a process added and did not remove.  *)
  given      (* History: what every ID was returned for.                   *)

vars == <<displays, lastID, drawing, life, mine, given>>

Display == [func : Users, w : Int32, h : Int32]
Draw == [id : Ids, area : [x : Int32, y : Int32, w : Int32, h : Int32]]

Init ==
  /\ displays = << >> /\ lastID = 0
  /\ drawing = [u \in Users |-> <<>>]
  /\ life = [p \in Processes |-> "new"]
  /\ mine = [p \in Processes |-> {}]
  /\ given = << >>

-----------------------------------------------------------------------------
(* A user that can make a call, also from a write function.                *)
Live(u) == u \in Processes => life[u] = "live"

StartProcess(p) ==
  /\ life[p] = "new"
  /\ life' = [life EXCEPT ![p] = "live"]
  /\ UNCHANGED <<displays, lastID, drawing, mine, given>>

(* A process ends, also in a write function. What it added and did not     *)
(* remove stays registered.                                                *)
EndProcess(p) ==
  /\ life[p] = "live"
  /\ life' = [life EXCEPT ![p] = "gone"]
  /\ drawing' = [drawing EXCEPT ![p] = <<>>]
  /\ UNCHANGED <<displays, lastID, mine, given>>

Emplaced(u, id, size) ==
  LET display == [func |-> u, w |-> size[1], h |-> size[2]]
  IN  /\ displays' = [i \in DOMAIN displays \cup {id} |->
                        IF i = id THEN display ELSE displays[i]]
      /\ given' = [i \in DOMAIN given \cup {id} |->
                     IF i \in DOMAIN given THEN given[i] ELSE display]
      /\ mine' = [p \in Processes |-> IF p = u THEN mine[p] \cup {id} ELSE mine[p]]

(* Mutant: the ID is taken before it is counted up.                        *)
AddPostIncrement(u, size) ==
  /\ Live(u)
  /\ size[1] > 1 /\ size[2] > 1
  /\ lastID < MaxDisplays
  /\ lastID' = lastID + 1
  /\ Emplaced(u, lastID, size)
  /\ UNCHANGED <<drawing, life>>

(* Mutant: the ID is the number of displays.                               *)
AddCounts(u, size) ==
  /\ Live(u)
  /\ size[1] > 1 /\ size[2] > 1
  /\ Cardinality(DOMAIN displays) < MaxDisplays
  /\ lastID' = Cardinality(DOMAIN displays) + 1
  /\ Emplaced(u, lastID', size)
  /\ UNCHANGED <<drawing, life>>

(* display_add with a function; a size that is refused changes nothing.    *)
Add(u, size) ==
  /\ Live(u)
  /\ size[1] > 1 /\ size[2] > 1
  /\ lastID < MaxDisplays
  /\ lastID' = lastID + 1
  /\ Emplaced(u, lastID', size)
  /\ UNCHANGED <<drawing, life>>

(* Mutant: the display is found and stays in the map.                      *)
RemoveFinds(u, id) ==
  /\ Live(u)
  /\ mine' = [p \in Processes |-> IF p = u THEN mine[p] \ {id} ELSE mine[p]]
  /\ UNCHANGED <<displays, lastID, drawing, life, given>>

(* display_remove, of any ID by anybody.                                   *)
Remove(u, id) ==
  /\ Live(u)
  /\ displays' = [i \in DOMAIN displays \ {id} |-> displays[i]]
  /\ mine' = [p \in Processes |-> IF p = u THEN mine[p] \ {id} ELSE mine[p]]
  /\ UNCHANGED <<lastID, drawing, life, given>>

(* The values x + w can have: exact, or wrapped to 32 bits.                *)
Sums(x, w) ==
  {x + w, ((x + w + IntMax + 1) % (2 * IntMax + 2)) - IntMax - 1}

(* Mutant: only the far end is looked at.                                  *)
SpanFitsEnd(x, w, width) == w >= 0 /\ \E sum \in Sums(x, w) : sum <= width

(* The bounds check along one axis. What a sum that overflows is compared  *)
(* as is up to the build.                                                  *)
SpanFits(x, w, width) ==
  /\ x >= 0 /\ w >= 0 /\ w <= width
  /\ \E sum \in Sums(x, w) : sum <= width

(* display_write and display_write_partial: a display that is there is     *)
(* drawn to, the first without a check.                                    *)
Whole(id) == [x |-> 0, y |-> 0, w |-> displays[id].w, h |-> displays[id].h]

Running == UNION {{u} \X DOMAIN drawing[u] : u \in Users}

Draws(u, id, area) ==
  /\ Live(u) /\ Cardinality(Running) < MaxDraws
  /\ id \in DOMAIN displays
  /\ drawing' = [drawing EXCEPT ![u] = Append(@, [id |-> id, area |-> area])]
  /\ UNCHANGED <<displays, lastID, life, mine, given>>

Write(u, id) == id \in DOMAIN displays /\ Draws(u, id, Whole(id))

WritePartial(u, id, area) ==
  /\ id \in DOMAIN displays
  /\ SpanFits(area.x, area.w, displays[id].w)
  /\ SpanFits(area.y, area.h, displays[id].h)
  /\ Draws(u, id, area)

(* The write function called last returns.                                 *)
Drawn(u) ==
  /\ drawing[u] # <<>>
  /\ drawing' = [drawing EXCEPT ![u] = SubSeq(@, 1, Len(@) - 1)]
  /\ UNCHANGED <<displays, lastID, life, mine, given>>

Next ==
  \/ \E p \in Processes : StartProcess(p) \/ EndProcess(p)
  \/ \E u \in Users :
       \/ \E size \in Sizes : Add(u, size)
       \/ Drawn(u)
       \/ \E id \in Ids :
            \/ Remove(u, id) \/ Write(u, id)
            \/ \E area \in Areas : WritePartial(u, id, area)

Spec == Init /\ [][Next]_vars

-----------------------------------------------------------------------------
(* Type invariant; IDs are counted up.                                     *)
TypeOK ==
  /\ lastID \in 0 .. MaxDisplays
  /\ DOMAIN displays \subseteq 1 .. lastID
  /\ displays \in [DOMAIN displays -> Display]
  /\ DOMAIN given = 1 .. lastID
  /\ given \in [DOMAIN given -> Display]
  /\ drawing \in [Users -> Seq(Draw)]
  /\ \A u \in Users : \A i \in DOMAIN drawing[u] : drawing[u][i].id <= lastID
  /\ life \in [Processes -> {"new", "live", "gone"}]
  /\ mine \in [Processes -> SUBSET (1 .. lastID)]

(* "Returns an ID on success": whatever was added and removed since, an ID *)
(* still names the display it was returned for, or none.                   *)
IdsNotReused ==
  \A id \in DOMAIN displays :
    id \in DOMAIN given /\ displays[id] = given[id]

(* A process that removed its displays can end without others running its  *)
(* code: every write function somebody is in, also from another one, is of *)
(* a user that is there, of a process that ended and left the display      *)
(* behind, or was called before the display was removed.                   *)
DrawRunsLiveCode ==
  \A u \in Users : \A i \in DOMAIN drawing[u] :
    LET id == drawing[u][i].id
    IN  id \in DOMAIN displays =>
          Live(displays[id].func) \/ id \in mine[displays[id].func]

(* "Bounds check": a write function gets areas inside the size its display *)
(* was registered with, unless the sums of the check overflow.             *)
DrawStaysInside ==
  \A u \in Users : \A i \in DOMAIN drawing[u] :
    LET area == drawing[u][i].area
        display == given[drawing[u][i].id]
    IN  area.x + area.w <= IntMax /\ area.y + area.h <= IntMax =>
          /\ 0 <= area.x /\ 0 <= area.w /\ area.x + area.w <= display.w
          /\ 0 <= area.y /\ 0 <= area.h /\ area.y + area.h <= display.h
=============================================================================
