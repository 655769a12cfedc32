----------------------------- MODULE UserCalls -----------------------------
(***************************************************************************)
(* The way of an ABI call with the kernel: hosts fill the symbol cache and *)
(* wrap its entries (initCache), programs are linked with the wrappers,    *)
(* and a wrapper traps to the kernel with its index in abiTable. What      *)
(* happens inside the trap handler is module Kernel.                       *)
(***************************************************************************)
EXTENDS VectorTable, Sequences

CONSTANTS
  Hosts,         (* Threads in badgert_start.                              *)
  Processes,
  Functions,
  Exports,       (* What each exportSymbolsUnwrapped adds, in their order. *)
  NeedsContext   (* Functions that use abi::getContext().                  *)

Names == UNION {DOMAIN Exports[g] : g \in DOMAIN Exports}

ASSUME ExportsAssumption ==
  /\ Exports \in Seq(UNION {[S -> Functions] : S \in SUBSET Names})
  /\ Names # {}
  /\ NeedsContext \subseteq Functions

VARIABLES
  cache,      (* By name; absent names have no symbol.                     *)
  abiTable,
  host,       (* Where each host is in exportSymbols.                      *)
  symbols,    (* By process: what its program was linked against.          *)
  u_abi_size, (* By process: the size of the table when it was taken.      *)
  life,       (* By process.                                               *)
  reached,    (* History: the last ABI call and what it ran.               *)
  halted

callVars == <<cache, abiTable, host, symbols, u_abi_size, life, reached, halted>>
vars == <<bootVars, callVars>>

Symbol(kind, of) == [kind |-> kind, of |-> of]
Absent == Symbol("absent", 0)
Null == Symbol("null", 0)
Function(f) == Symbol("function", f)
Wrapper(i) == Symbol("wrapper", i)

(* The function a name stands for: the last group that exports it wins.    *)
Named(n) ==
  LET g == CHOOSE k \in DOMAIN Exports :
             /\ n \in DOMAIN Exports[k]
             /\ \A j \in DOMAIN Exports : n \in DOMAIN Exports[j] => j <= k
  IN Exports[g][n]

Idle == [pc |-> "idle", group |-> 1, todo |-> {}]
Nothing == [name |-> "nothing", by |-> "nothing", what |-> Absent]

-----------------------------------------------------------------------------
(* Mutant: the cache is built anew for every program.                      *)
NeedsInitAlways == TRUE

NeedsInit == \A n \in Names : cache[n] = Absent

(* exportSymbols, up to the test of the cache.                             *)
Export(h) ==
  /\ booted = "yes" /\ ~halted
  /\ host[h].pc = "idle"
  /\ \E p \in Processes : life[p] = "new"
  /\ host' = [host EXCEPT ![h].pc = IF NeedsInit THEN "fill" ELSE "copy"]
  /\ UNCHANGED <<bootVars, cache, abiTable, symbols, u_abi_size, life, reached,
                 halted>>

(* exportSymbolsUnwrapped: one of its six calls.                           *)
Fill(h) ==
  LET g == host[h].group IN
  /\ ~halted
  /\ host[h].pc = "fill"
  /\ cache' = [n \in Names |-> IF n \in DOMAIN Exports[g]
                                 THEN Function(Exports[g][n]) ELSE cache[n]]
  /\ host' = [host EXCEPT ![h] =
                IF g < Len(Exports)
                  THEN [pc |-> "fill", group |-> g + 1, todo |-> {}]
                  ELSE [pc |-> "wrap", group |-> 1, todo |-> Names]]
  /\ UNCHANGED <<bootVars, abiTable, symbols, u_abi_size, life, reached, halted>>

(* Mutant: the entry is added before its index is taken.                   *)
WrappedAfterPush(n, memory) ==
  /\ abiTable' = Append(abiTable, cache[n])
  /\ cache' = [cache EXCEPT ![n] = IF memory THEN Wrapper(Len(abiTable'))
                                             ELSE Null]

(* Mutant: what is added to the table is the wrapper.                      *)
WrappedTwice(n, memory) ==
  /\ cache' = [cache EXCEPT ![n] = IF memory THEN Wrapper(Len(abiTable))
                                             ELSE Null]
  /\ abiTable' = Append(abiTable, cache'[n])

(* writeABIWrapper, and the two statements around it: the entry is used up *)
(* also when malloc fails.                                                 *)
Wrapped(n, memory) ==
  /\ cache' = [cache EXCEPT ![n] = IF memory THEN Wrapper(Len(abiTable))
                                             ELSE Null]
  /\ abiTable' = Append(abiTable, cache[n])

(* initCache: the loop over the map, whose order is not fixed.             *)
Wrap(h) ==
  /\ ~halted
  /\ host[h].pc = "wrap"
  /\ \E n \in host[h].todo, memory \in BOOLEAN :
       /\ Wrapped(n, memory)
       /\ host' = [host EXCEPT ![h].todo = @ \ {n}]
  /\ UNCHANGED <<bootVars, symbols, u_abi_size, life, reached, halted>>

(* The rest of exportSymbols, and of startFD: the process is started, or   *)
(* the start fails.                                                        *)
Copy(h) ==
  /\ ~halted
  /\ \/ host[h].pc = "copy"
     \/ host[h].pc = "wrap" /\ host[h].todo = {}
  /\ host' = [host EXCEPT ![h] = Idle]
  /\ \/ \E p \in Processes :
          /\ life[p] = "new"
          /\ life' = [life EXCEPT ![p] = "ready"]
          /\ symbols' = [symbols EXCEPT ![p] = cache]
     \/ UNCHANGED <<life, symbols>>
  /\ UNCHANGED <<bootVars, cache, abiTable, u_abi_size, reached, halted>>

(* runUserCode: the kernel context gets the table; the cache has been      *)
(* filled by the start of the process.                                     *)
TakeTable(p) ==
  /\ ~halted
  /\ life[p] = "ready"
  /\ life' = [life EXCEPT ![p] = "running"]
  /\ u_abi_size' = [u_abi_size EXCEPT ![p] = Len(abiTable)]
  /\ UNCHANGED <<bootVars, cache, abiTable, host, symbols, reached, halted>>

(* What u_abi_table[i] is: if entries were added since, the vector may have *)
(* moved away and left anything there.                                     *)
Entry(p, i) ==
  {abiTable[i + 1]} \union
    (IF u_abi_size[p] = Len(abiTable) THEN {} ELSE {Symbol("freed", 0)})

(* What a call by name comes to. What is not a wrapper is jumped to as it  *)
(* is, in user mode. A wrapper traps; the trap goes elsewhere if the copy  *)
(* of the handler was out of the jump's reach. SYS_ABICALL takes the index *)
(* if it is below u_abi_size.                                              *)
Outcomes(p, n) ==
  LET symbol == symbols[p][n] IN
  CASE symbol.kind # "wrapper" -> {[name |-> n, by |-> "user", what |-> symbol]}
    [] symbol.kind = "wrapper" /\ Target(vectors, 0) # trap ->
         {[name |-> n, by |-> "firmware", what |-> symbol]}
    [] OTHER ->
         IF symbol.of < u_abi_size[p]
           THEN {[name |-> n, by |-> "kernel", what |-> e] :
                   e \in Entry(p, symbol.of)}
           ELSE {[name |-> n, by |-> "nobody", what |-> symbol]}

(* The process faults on null, and is terminated for an index too high.    *)
Terminates(outcome) == outcome.what = Null \/ outcome.by = "nobody"

(* The firmware takes a trap it does not expect. As the kernel, a wrapper  *)
(* would trap again, which is a panic, and a function that needs the ABI   *)
(* context finds none, since nothing sets it: it dereferences null or      *)
(* aborts.                                                                 *)
Halts(outcome) ==
  \/ outcome.by = "firmware"
  \/ /\ outcome.by = "kernel"
     /\ outcome.what.kind # "function" \/ outcome.what.of \in NeedsContext

(* A program whose symbol is absent was not linked.                        *)
Call(p) ==
  /\ ~halted
  /\ life[p] = "running"
  /\ \E n \in {m \in Names : symbols[p][m] # Absent} :
       \E outcome \in Outcomes(p, n) :
         /\ reached' = outcome
         /\ life' = [life EXCEPT ![p] = IF Terminates(outcome) THEN "ended" ELSE @]
         /\ halted' = Halts(outcome)
  /\ UNCHANGED <<bootVars, cache, abiTable, host, symbols, u_abi_size>>

(* SYS_EXIT, or a fault.                                                   *)
End(p) ==
  /\ ~halted
  /\ life[p] = "running"
  /\ life' = [life EXCEPT ![p] = "ended"]
  /\ UNCHANGED <<bootVars, cache, abiTable, host, symbols, u_abi_size, reached,
                 halted>>

Boot == /\ \E copy \in Copies : KernelInit(copy) \/ KernelInitFails(copy)
        /\ UNCHANGED callVars

Init ==
  /\ BootInit
  /\ cache = [n \in Names |-> Absent]
  /\ abiTable = <<>>
  /\ host = [h \in Hosts |-> Idle]
  /\ symbols = [p \in Processes |-> [n \in Names |-> Absent]]
  /\ u_abi_size = [p \in Processes |-> 0]
  /\ life = [p \in Processes |-> "new"]
  /\ reached = Nothing
  /\ halted = FALSE

Next ==
  \/ Boot
  \/ \E h \in Hosts : Export(h) \/ Fill(h) \/ Wrap(h) \/ Copy(h)
  \/ \E p \in Processes : TakeTable(p) \/ Call(p) \/ End(p)

Spec == Init /\ [][Next]_vars

-----------------------------------------------------------------------------
(* Every wrapper holds an index of the table; the states hold what they    *)
(* should.                                                                 *)
Symbols == {Absent, Null} \union {Function(f) : f \in Functions}
             \union {Wrapper(i) : i \in 0 .. Len(abiTable) - 1}

TypeOK ==
  /\ cache \in [Names -> Symbols]
  /\ abiTable \in Seq(Symbols)
  /\ host \in [Hosts -> [pc : {"idle", "fill", "wrap", "copy"},
                          group : DOMAIN Exports, todo : SUBSET Names]]
  /\ symbols \in [Processes -> [Names -> Symbols]]
  /\ u_abi_size \in [Processes -> 0 .. Len(abiTable)]
  /\ life \in [Processes -> {"new", "ready", "running", "ended"}]
  /\ booted \in {"no", "yes", "dead"}
  /\ halted \in BOOLEAN

(* exportSymbols exports "with wrapper": a program is only ever linked to  *)
(* wrappers, each of which stands for the function of that name, or to     *)
(* null where there was no memory for one; never to a bare function, which *)
(* would run without the kernel.                                           *)
IsWrapped(n, symbol) ==
  \/ symbol = Null
  \/ /\ symbol.kind = "wrapper"
     /\ abiTable[symbol.of + 1] = Function(Named(n))

SymbolsWrapped ==
  \A p \in Processes : life[p] # "new" =>
    \A n \in Names : IsWrapped(n, symbols[p][n])

(* The kernel keeps a pointer into the vector abiTable for a process: no   *)
(* entry may be added while one runs.                                      *)
TableStaysPut ==
  \A p \in Processes : life[p] = "running" => u_abi_size[p] = Len(abiTable)

(* Whatever the order of the map, the failed allocations and the aliases:  *)
(* a call by name runs the function of that name, by the kernel, if there  *)
(* was memory for its wrapper and the jump to the handler reaches it.      *)
CallReachesNamed ==
  reached # Nothing /\ reached.what # Null /\ Reachable(trap - Base) =>
    reached.by = "kernel" /\ reached.what = Function(Named(reached.name))
=============================================================================
