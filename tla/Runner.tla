------------------------------- MODULE Runner -------------------------------
(***************************************************************************)
(* Starting and ending processes without the kernel: startFD of runner.cpp *)
(* with the loading and linking of progloader.cpp, taskCode, and the ABI   *)
(* calls a process makes on its own context (libc.cpp, system.cpp).        *)
(*                                                                         *)
(* Hosts are the threads of the firmware that call badgert_*; a task is    *)
(* the FreeRTOS task of one process. Memory is ContextMemory: a block per  *)
(* loaded file and per mapping of the process. The ELF loader, the files   *)
(* and FreeRTOS are external.                                              *)
(***************************************************************************)
EXTENDS Integers, Sequences, SequencesExt, FiniteSets

CONSTANTS
  Hosts,
  Names,         (* Files: executables and libraries.                      *)
  Executables,   (* The files hosts start.                                 *)
  Libraries,     (* The names hosts register.                              *)
  Builtin,       (* Libraries startFD takes as loaded: libc.so, ...        *)
  Needed,        (* For every file, its DT_NEEDED names in order.          *)
  Blocks,        (* What the allocator can return.                         *)
  ExportMayFail, (* Whether elf::exportSymbols can fail.                   *)
  MaxStarts      (* Bound: calls of startFD.                               *)

ASSUME RunnerAssumption ==
  /\ Executables \cup Libraries \subseteq Names
  /\ Needed \in [Names -> Seq(Names \cup Builtin)]
  /\ MaxStarts \in Nat /\ ExportMayFail \in BOOLEAN

VARIABLES
  heap, owned,   (* The contexts, see ContextMemory.                       *)
  nextPID,
  registered,    (* The library names that are registered.                 *)
  load,          (* The locals of the startFD call of each host.           *)
  open,          (* The handles each startFD call has opened.              *)
  tasks,
  frame,         (* exitPC and exitSP of a context: the task they are of.  *)
  starts,        (* Calls of startFD so far.                               *)
  halted         (* The firmware has aborted.                              *)

vars == <<heap, owned, nextPID, registered, load, open, tasks, frame,
          starts, halted>>

Pids == 1 .. MaxStarts
Tasks == 1 .. MaxStarts
NoTask == [pc |-> "none", pid |-> 0, thread |-> 0, files |-> <<>>]
NoLoad == [pc |-> "idle", pid |-> 0, file |-> "", files |-> <<>>,
           libs |-> {}, fds |-> {}]

Mem == INSTANCE ContextMemory

Live == DOMAIN owned

Init ==
  /\ Mem!Init
  /\ nextPID = 1
  /\ registered = {}
  /\ load = [h \in Hosts |-> NoLoad]
  /\ open = [h \in Hosts |-> {}]
  /\ tasks = [t \in Tasks |-> NoTask]
  /\ frame = [p \in Pids |-> 0]
  /\ starts = 0
  /\ halted = FALSE

-----------------------------------------------------------------------------
(* The library registry, of files and buffers. A host registers and        *)
(* unregisters between starts.                                             *)
Register(h, n) ==
  /\ load[h].pc = "idle"
  /\ registered' = registered \cup {n}
  /\ UNCHANGED <<heap, owned, nextPID, load, open, tasks, frame, starts, halted>>

Unregister(h, n) ==
  /\ load[h].pc = "idle"
  /\ registered' = registered \ {n}
  /\ UNCHANGED <<heap, owned, nextPID, load, open, tasks, frame, starts, halted>>

-----------------------------------------------------------------------------
(* startFD.                                                                *)
At(h, pc) == load[h].pc = pc

Goto(h, pc) == load' = [load EXCEPT ![h].pc = pc]

(* badgert_start: opens the file, or not, and calls startFD with it.       *)
Start(h, exe, opened) ==
  /\ At(h, "idle")
  /\ starts < MaxStarts
  /\ starts' = starts + 1
  /\ open' = [open EXCEPT ![h] = IF opened THEN {exe} ELSE {}]
  /\ load' = [load EXCEPT ![h] =
       [NoLoad EXCEPT !.pc = "number", !.file = exe, !.fds = open'[h]]]
  /\ UNCHANGED <<heap, owned, nextPID, registered, tasks, frame, halted>>

(* newContext, `nextPID++`: reads the counter ...                          *)
ReadPID(h) ==
  /\ At(h, "number")
  /\ load' = [load EXCEPT ![h].pid = nextPID, ![h].pc = "insert"]
  /\ UNCHANGED <<heap, owned, nextPID, registered, open, tasks, frame, starts, halted>>

(* Mutant: the counter is not incremented.                                 *)
InsertContextSameNumber(h) ==
  /\ At(h, "insert")
  /\ IF load[h].pid \in Live
     THEN UNCHANGED <<heap, owned>>
     ELSE Mem!Create(load[h].pid)
  /\ Goto(h, "load")
  /\ UNCHANGED <<nextPID, registered, open, tasks, frame, starts, halted>>

(* Mutant: the counter is incremented twice.                               *)
InsertContextSkips(h) ==
  /\ At(h, "insert")
  /\ nextPID' = load[h].pid + 2
  /\ IF load[h].pid \in Live
     THEN UNCHANGED <<heap, owned>>
     ELSE Mem!Create(load[h].pid)
  /\ Goto(h, "load")
  /\ UNCHANGED <<registered, open, tasks, frame, starts, halted>>

(* Mutant: an entry of contextMap that is there is assigned a new context. *)
InsertContextOverwrites(h) ==
  /\ At(h, "insert")
  /\ nextPID' = load[h].pid + 1
  /\ IF load[h].pid \in Live
     THEN owned' = [owned EXCEPT ![load[h].pid] = {}] /\ UNCHANGED heap
     ELSE Mem!Create(load[h].pid)
  /\ Goto(h, "load")
  /\ UNCHANGED <<registered, open, tasks, frame, starts, halted>>

(* ... and writes it back. contextMap[pid] creates the context, or finds   *)
(* the one that has this number.                                           *)
InsertContext(h) ==
  /\ At(h, "insert")
  /\ nextPID' = load[h].pid + 1
  /\ IF load[h].pid \in Live
     THEN UNCHANGED <<heap, owned>>
     ELSE Mem!Create(load[h].pid)
  /\ Goto(h, "load")
  /\ UNCHANGED <<registered, open, tasks, frame, starts, halted>>

(* Linkage::loadLibrary of the file at hand succeeds: its block stays with *)
(* the context. startFD then takes the name as loaded and owns the handle. *)
LoadFile(h) ==
  /\ At(h, "load")
  /\ load[h].file \in open[h]
  /\ \E b \in Blocks : Mem!MapBlock(load[h].pid, b)
  /\ load' = [load EXCEPT
       ![h].files = Append(@, load[h].file),
       ![h].libs = @ \cup {load[h].file} \cup Builtin,
       ![h].fds = @ \cup {load[h].file},
       ![h].pc = "needed"]
  /\ UNCHANGED <<nextPID, registered, open, tasks, frame, starts, halted>>

(* Mutant: the handle of a library that fails to load stays open.          *)
LoadFailsKeepsHandle(h) ==
  /\ At(h, "load")
  /\ Goto(h, "fail")
  /\ UNCHANGED <<heap, owned, nextPID, registered, open, tasks, frame, starts, halted>>

(* It fails before or after memory was mapped; without a context, before.  *)
(* loadLibraryAbs closes the handle of a library, startFD has that of the  *)
(* executable in fds.                                                      *)
LoadFails(h) ==
  /\ At(h, "load")
  /\ \/ UNCHANGED <<heap, owned>>
     \/ \E b \in Blocks : Mem!MapBlock(load[h].pid, b)
     \/ \E b \in Blocks \ heap :      \* free(prog.memory_cookie)
          /\ ExportMayFail /\ load[h].pid \in Live
          /\ owned' = [owned EXCEPT ![load[h].pid] = @ \cup {b}]
          /\ UNCHANGED heap
  /\ open' = [open EXCEPT ![h] = @ \cap load[h].fds]
  /\ Goto(h, "fail")
  /\ UNCHANGED <<nextPID, registered, tasks, frame, starts, halted>>

(* Mutant: only what the executable itself needs is looked at.             *)
MissingDirect(files, libs) ==
  {<<1, j>> : j \in {k \in DOMAIN Needed[files[1]] : Needed[files[1]][k] \notin libs}}

(* Where the loaded files name what startFD has not tried yet.             *)
Missing(files, libs) ==
  UNION {{<<i, j>> : j \in {k \in DOMAIN Needed[files[i]] : Needed[files[i]][k] \notin libs}}
           : i \in DOMAIN files}

(* The loops go through the files in order, and through what each needs.   *)
NotAfter(at, other) ==
  at[1] < other[1] \/ (at[1] = other[1] /\ at[2] <= other[2])

(* Mutant: a library that cannot be opened is tried again.                 *)
FindLibraryRetries(h) ==
  LET missing == Missing(load[h].files, load[h].libs)
  IN  /\ At(h, "needed")
      /\ \E at \in missing, opened \in {TRUE, FALSE} :
           LET lib == Needed[load[h].files[at[1]]][at[2]]
           IN  /\ \A other \in missing : NotAfter(at, other)
               /\ opened => lib \in registered
               /\ open' = [open EXCEPT ![h] = IF opened THEN @ \cup {lib} ELSE @]
               /\ load' = [load EXCEPT
                    ![h].libs = IF opened THEN @ \cup {lib} ELSE @,
                    ![h].file = lib,
                    ![h].pc = IF opened THEN "load" ELSE "needed"]
      /\ UNCHANGED <<heap, owned, nextPID, registered, tasks, frame, starts, halted>>

(* The first such name is looked up in the registry and opened.            *)
FindLibrary(h) ==
  LET missing == Missing(load[h].files, load[h].libs)
  IN  /\ At(h, "needed")
      /\ \E at \in missing, opened \in {TRUE, FALSE} :
           LET lib == Needed[load[h].files[at[1]]][at[2]]
           IN  /\ \A other \in missing : NotAfter(at, other)
               /\ opened => lib \in registered
               /\ open' = [open EXCEPT ![h] = IF opened THEN @ \cup {lib} ELSE @]
               /\ load' = [load EXCEPT
                    ![h].libs = @ \cup {lib},
                    ![h].file = lib,
                    ![h].pc = IF opened THEN "load" ELSE "fail"]
      /\ UNCHANGED <<heap, owned, nextPID, registered, tasks, frame, starts, halted>>

(* exportSymbols and Linkage::link, which reads the files again.           *)
Link(h) ==
  /\ At(h, "needed")
  /\ Missing(load[h].files, load[h].libs) = {}
  /\ Goto(h, "start") \/ Goto(h, "fail")
  /\ UNCHANGED <<heap, owned, nextPID, registered, open, tasks, frame, starts, halted>>

(* startPreloaded: the linkage and the context go to a new task.           *)
CreateTask(h) ==
  /\ At(h, "start")
  /\ \E t \in Tasks :
       /\ tasks[t].pc = "none" /\ \A u \in 1 .. t - 1 : tasks[u].pc # "none"
       /\ tasks' = [tasks EXCEPT ![t] =
            [NoTask EXCEPT !.pc = "collect", !.pid = load[h].pid,
                           !.files = load[h].files]]
  /\ load' = [load EXCEPT ![h].files = <<>>, ![h].pc = "close"]
  /\ UNCHANGED <<heap, owned, nextPID, registered, open, frame, starts, halted>>

(* Mutant: a context that gets no task is forgotten.                       *)
TaskFailsForgets(h) ==
  /\ At(h, "start")
  /\ Goto(h, "close")
  /\ UNCHANGED <<heap, owned, nextPID, registered, open, tasks, frame, starts, halted>>

(* xTaskCreate fails: the context is deleted, as after every other failure.*)
TaskFails(h) ==
  /\ At(h, "start")
  /\ Goto(h, "fail")
  /\ UNCHANGED <<heap, owned, nextPID, registered, open, tasks, frame, starts, halted>>

DeleteAfterFailure(h) ==
  /\ At(h, "fail")
  /\ Mem!Delete(load[h].pid)
  /\ Goto(h, "close")
  /\ UNCHANGED <<nextPID, registered, open, tasks, frame, starts, halted>>

(* Mutant: startFD also destroys the context it made.                      *)
CloseFilesDeletes(h) ==
  /\ At(h, "close")
  /\ IF load[h].pid \in Live THEN Mem!Delete(load[h].pid)
     ELSE UNCHANGED <<heap, owned>>
  /\ open' = [open EXCEPT ![h] = @ \ load[h].fds]
  /\ load' = [load EXCEPT ![h] = NoLoad]
  /\ UNCHANGED <<nextPID, registered, tasks, frame, starts, halted>>

(* startFD returns: the destructor of fds closes every handle in it.       *)
CloseFiles(h) ==
  /\ At(h, "close")
  /\ open' = [open EXCEPT ![h] = @ \ load[h].fds]
  /\ load' = [load EXCEPT ![h] = NoLoad]
  /\ UNCHANGED <<heap, owned, nextPID, registered, tasks, frame, starts, halted>>

-----------------------------------------------------------------------------
(* taskCode and the process it runs.                                       *)
Doing(t, pc) == tasks[t].pc = pc

Step(t, pc) == tasks' = [tasks EXCEPT ![t].pc = pc]

(* garbageCollect: the files are not needed after linking.                 *)
Collect(t) ==
  /\ Doing(t, "collect")
  /\ tasks' = [tasks EXCEPT ![t].files = <<>>, ![t].pc = "bind"]
  /\ UNCHANGED <<heap, owned, nextPID, registered, load, open, frame, starts, halted>>

(* Mutant: the thread keeps the number it had.                             *)
SetContextForgotten(t) ==
  /\ Doing(t, "bind")
  /\ tasks[t].pid \in Live
  /\ Step(t, "jump")
  /\ UNCHANGED <<heap, owned, nextPID, registered, load, open, frame, starts, halted>>

(* abi::setContext: the number of the context becomes the thread's.        *)
SetContext(t) ==
  /\ Doing(t, "bind")
  /\ tasks[t].pid \in Live
  /\ tasks' = [tasks EXCEPT ![t].thread = tasks[t].pid, ![t].pc = "jump"]
  /\ UNCHANGED <<heap, owned, nextPID, registered, load, open, frame, starts, halted>>

(* _badgert_jump_to_app: where _exit returns to is saved in the context.   *)
JumpToApp(t) ==
  /\ Doing(t, "jump")
  /\ tasks[t].pid \in Live
  /\ frame' = [frame EXCEPT ![tasks[t].pid] = t]
  /\ Step(t, "run")
  /\ UNCHANGED <<heap, owned, nextPID, registered, load, open, starts, halted>>

(* __mem_map and __mem_unmap work on the context of the thread; a map that *)
(* gets no memory and an unmap of an unknown address change nothing.       *)
AppMaps(t, b) ==
  /\ Doing(t, "run")
  /\ Mem!MapBlock(tasks[t].thread, b)
  /\ UNCHANGED <<nextPID, registered, load, open, tasks, frame, starts, halted>>

AppUnmaps(t, b) ==
  /\ Doing(t, "run")
  /\ Mem!UnmapBlock(tasks[t].thread, b)
  /\ UNCHANGED <<nextPID, registered, load, open, tasks, frame, starts, halted>>

(* The context of the thread has the frame of the task saved.             *)
OwnFrame(t) == tasks[t].thread \in Live /\ frame[tasks[t].thread] = t

(* main returns to the frame on its own stack, or calls _exit, which jumps *)
(* to what the context of the thread has saved: of the task's own frame    *)
(* that is the same step, of another's see Dangling.                       *)
AppEnds(t) ==
  /\ Doing(t, "run")
  /\ Step(t, "exit")
  /\ UNCHANGED <<heap, owned, nextPID, registered, load, open, frame, starts, halted>>

(* abort, called by the process, stops the firmware. So does _exit without *)
(* a context. The use of a deleted context, an _exit into the frame of     *)
(* another task and the second free of a block are undefined: the firmware *)
(* may stop there, and of the first two nothing else is modelled.          *)
Dangling ==
  \/ \E h \in Hosts : load[h].pc \in {"load", "fail"} /\ load[h].pid \notin Live
  \/ \E t \in Tasks :
       \/ tasks[t].pc \in {"bind", "jump", "exit"} /\ tasks[t].pid \notin Live
       \/ Doing(t, "run") /\ ~OwnFrame(t)

FreesTwice ==
  \E p \in Live :
    /\ ~(owned[p] \subseteq heap)
    /\ \/ \E h \in Hosts : At(h, "fail") /\ load[h].pid = p
       \/ \E t \in Tasks : Doing(t, "exit") /\ tasks[t].pid = p

Halt ==
  /\ Dangling \/ FreesTwice \/ \E t \in Tasks : Doing(t, "run")
  /\ halted' = TRUE
  /\ UNCHANGED <<heap, owned, nextPID, registered, load, open, tasks, frame, starts>>

(* Mutant: the context is not deleted.                                     *)
EndContextForgotten(t) ==
  /\ Doing(t, "exit")
  /\ Step(t, "free")
  /\ UNCHANGED <<heap, owned, nextPID, registered, load, open, frame, starts, halted>>

(* deleteContext ...                                                       *)
EndContext(t) ==
  /\ Doing(t, "exit")
  /\ Mem!Delete(tasks[t].pid)
  /\ Step(t, "free")
  /\ UNCHANGED <<nextPID, registered, load, open, frame, starts, halted>>

(* ... then the parameters are deleted, with the callback, and the task.   *)
EndTask(t) ==
  /\ Doing(t, "free")
  /\ Step(t, "gone")
  /\ UNCHANGED <<heap, owned, nextPID, registered, load, open, frame, starts, halted>>

-----------------------------------------------------------------------------
HostStep(h) ==
  \/ ReadPID(h) \/ InsertContext(h) \/ LoadFile(h) \/ LoadFails(h)
  \/ FindLibrary(h) \/ Link(h) \/ CreateTask(h) \/ TaskFails(h)
  \/ DeleteAfterFailure(h) \/ CloseFiles(h)

TaskStep(t) ==
  Collect(t) \/ SetContext(t) \/ JumpToApp(t) \/ EndContext(t) \/ EndTask(t)

HostCall(h) ==
  \/ \E exe \in Executables, opened \in {TRUE, FALSE} : Start(h, exe, opened)
  \/ \E n \in Libraries : Register(h, n) \/ Unregister(h, n)

AppStep(t) ==
  AppEnds(t) \/ \E b \in Blocks : AppMaps(t, b) \/ AppUnmaps(t, b)

(* Nothing runs after an abort.                                            *)
Halted == halted /\ UNCHANGED vars

Next ==
  \/ /\ ~halted
     /\ \/ \E h \in Hosts : HostStep(h) \/ HostCall(h)
        \/ \E t \in Tasks : TaskStep(t) \/ AppStep(t)
        \/ Halt
  \/ Halted

Spec == Init /\ [][Next]_vars

(* The firmware's own code runs on: a host inside startFD and a task       *)
(* outside the process get processor time. Nothing is assumed of what      *)
(* hosts call or processes do.                                             *)
Fairness ==
  /\ \A h \in Hosts : WF_vars(~halted /\ HostStep(h))
  /\ \A t \in Tasks : WF_vars(~halted /\ TaskStep(t))

FairSpec == Spec /\ Fairness

-----------------------------------------------------------------------------
HostPCs == {"idle", "number", "insert", "load", "needed", "start", "fail", "close"}
TaskPCs == {"none", "collect", "bind", "jump", "run", "exit", "free", "gone"}

(* Type invariant; no more numbers are given out than starts were made.    *)
TypeOK ==
  /\ heap \subseteq Blocks
  /\ Live \subseteq Pids /\ owned \in [Live -> SUBSET Blocks]
  /\ nextPID \in 1 .. starts + 1
  /\ registered \subseteq Libraries
  /\ load \in [Hosts -> [pc : HostPCs, pid : Pids \cup {0},
                         file : Names \cup Builtin \cup {""},
                         files : Seq(Names),
                         libs : SUBSET (Names \cup Builtin),
                         fds : SUBSET Names]]
  /\ open \in [Hosts -> SUBSET Names]
  /\ tasks \in [Tasks -> [pc : TaskPCs, pid : Pids \cup {0},
                          thread : Pids \cup {0}, files : Seq(Names)]]
  /\ frame \in [Pids -> Tasks \cup {0}]
  /\ starts \in 0 .. MaxStarts
  /\ halted \in BOOLEAN

(* Who has a reference to the context p: startFD from newContext until it  *)
(* deletes it or gives it to a task, a task until it deletes it.           *)
HostUses(h, p) ==
  load[h].pid = p /\ load[h].pc \in {"load", "needed", "start", "fail"}

TaskUses(t, p) ==
  tasks[t].pid = p /\ tasks[t].pc \in {"collect", "bind", "jump", "run", "exit"}

(* The context of a start or of a process is there until its last use,     *)
(* although startFD and taskCode delete contexts concurrently.             *)
ContextOutlivesUsers ==
  \A p \in Pids :
    (\E h \in Hosts : HostUses(h, p)) \/ (\E t \in Tasks : TaskUses(t, p))
      => p \in Live

(* "Create a new numbered ABI context": no two starts or processes share   *)
(* a context.                                                              *)
ContextsNotShared ==
  \A p \in Pids :
    LET users == {h \in Hosts : HostUses(h, p)} \X {"host"}
                   \cup {t \in Tasks : TaskUses(t, p)} \X {"task"}
    IN  Cardinality(users) <= 1

(* Every context, and so every block of memory, belongs to a start in      *)
(* progress or to a process that has not ended: no failure path and no     *)
(* exit leaks one.                                                         *)
NoOrphanContext ==
  \A p \in Live :
    (\E h \in Hosts : HostUses(h, p)) \/ (\E t \in Tasks : TaskUses(t, p))

(* "Actual allocated blocks of memory": the blocks a context will free are *)
(* allocated, and by nobody else.                                          *)
MemoryOwnedOnce == Mem!OwnedOnce

(* _exit of a running process finds a context and comes back to the        *)
(* taskCode that called it, not to that of another process.                *)
ExitReturnsToOwnTask ==
  \A t \in Tasks : Doing(t, "run") => OwnFrame(t)

(* A program is linked when everything it needs, directly or through a     *)
(* library, is loaded exactly once or is built in, and the files that      *)
(* relocation reads are open.                                              *)
LinkedComplete ==
  \A h \in Hosts :
    At(h, "start") =>
      LET files == load[h].files
      IN  /\ \A i \in DOMAIN files : \A n \in Range(Needed[files[i]]) :
               n \in Range(files) \cup Builtin
          /\ IsInjective(files)
          /\ Range(files) \subseteq open[h]

(* "File descriptor is closed when finished": every handle is closed once, *)
(* when startFD returns, on every path. Until then fds has all the handles *)
(* but the one of a library being loaded.                                  *)
HandlesClosed ==
  \A h \in Hosts :
    /\ At(h, "idle") => open[h] = {}
    /\ load[h].fds \subseteq open[h]
    /\ ~At(h, "load") => open[h] = load[h].fds

(* How far a call of startFD is from its return: names it may yet try, and *)
(* what is left to do after each.                                          *)
Stage ==
  [number |-> 7, insert |-> 6, load |-> 5, needed |-> 4, start |-> 3, fail |-> 2, close |-> 1]

Remaining(call) ==
  IF call.pc = "idle" THEN 0
  ELSE 2 * Cardinality(Names \ call.libs) + Stage[call.pc]

(* Every step of startFD brings it closer to its return: the load loop,    *)
(* which begins again after each library, tries no name twice.             *)
StartAdvances ==
  [][\A h \in Hosts :
       ~At(h, "idle") /\ load'[h] # load[h] => Remaining(load'[h]) < Remaining(load[h])]_vars

(* Every call of startFD returns, whatever the libraries need.             *)
StartReturns ==
  \A h \in Hosts : ~At(h, "idle") ~> At(h, "idle") \/ halted

(* The memory of a process that ends goes back to the heap, and its task   *)
(* goes away.                                                              *)
ProcessReleased ==
  \A t \in Tasks :
    Doing(t, "exit") ~>
      (Doing(t, "gone") /\ tasks[t].pid \notin Live) \/ halted
=============================================================================
