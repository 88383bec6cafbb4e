---------------------------- MODULE BlockCatalog ----------------------------
(***************************************************************************)
(* The block and scheduler catalogs: services that fill a cache under      *)
(* their mutex on the first request, the providers that fill them, and the *)
(* start of main.cpp, which loads both before it serves. The block         *)
(* provider reflects each registered block in a child process of its own,  *)
(* so that a block whose constructor crashes costs only its own entry; the *)
(* child sends the descriptor through a pipe.                              *)
(*                                                                         *)
(* Blocks, categories and names are numbers in the order of the strings.   *)
(* Of a descriptor only what orders and groups the entries is kept; a      *)
(* payload is PayloadParts parts, of which the pipe holds PipeCapacity.    *)
(***************************************************************************)
EXTENDS Naturals, FiniteSets, SequencesExt

CONSTANTS
    Blocks,        \* ids of the registered blocks
    Schedulers,    \* alias ids of the registered schedulers
    Descriptors,   \* what reflection finds: canonical, category, name, length
    Callers,       \* threads with requests
    Main,          \* the main thread, a caller until it serves
    None,
    PayloadParts,
    PipeCapacity

ASSUME CatalogAssumption ==
    /\ Blocks \subseteq Nat /\ Blocks # {} /\ IsFiniteSet(Blocks)
    /\ \A b \in Blocks : {Descriptors[b].category, Descriptors[b].name,
                         Descriptors[b].length} \subseteq Nat
    /\ Main \in Callers
    /\ None \notin Blocks \cup Callers
    /\ PayloadParts \in Nat \ {0} /\ PipeCapacity \in Nat \ {0}

VARIABLES
    server,    \* of the process: starting, up or exited
    byMain,    \* whether main.cpp starts it (the tests do without)
    mutex,     \* BlockCatalogService::mutex_, SchedulerCatalogService::mutex_
    cache,     \* cached_catalog_ of each
    request,   \* of each thread: its service, the id it wants, its step
    load,      \* the locals of Gr4BlockCatalogProvider::list
    process,   \* the kernel's table: the child of each block, until waited for
    written,   \* how much the child of the block in hand has put in its pipe
    faults     \* what befell each block in the latest load (for properties)

vars == <<server, byMain, mutex, cache, request, load, process, written, faults>>
loadVars == <<load, process, written, faults>>

Services == {"blocks", "schedulers"}
NoLoad == [step |-> "none", todo |-> {}, found |-> {}, block |-> None, got |-> 0]
Idle == [step |-> "idle", service |-> "blocks", id |-> None]

MinOf(S) == CHOOSE b \in S : \A c \in S : b <= c

-----------------------------------------------------------------------------
(* app/block_catalog_service.cpp: the catalog made of the descriptors.     *)

CanonicalKey(b) ==
    IF Descriptors[b].canonical = None THEN b ELSE Descriptors[b].canonical

IsImplementation(b) == Descriptors[b].canonical = b

(* std::sort by category, name and id. *)
Before(a, b) ==
    LET da == Descriptors[a]
        db == Descriptors[b]
    IN IF da.category # db.category THEN da.category < db.category
       ELSE IF da.name # db.name THEN da.name < db.name
       ELSE a < b

(* is_better_browse_entry: an alias before the implementation it stands    *)
(* for, then the longer id, then the order of the list.                    *)
Better(a, b) ==
    IF IsImplementation(a) # IsImplementation(b) THEN ~IsImplementation(a)
    ELSE IF Descriptors[a].length # Descriptors[b].length
         THEN Descriptors[a].length > Descriptors[b].length
    ELSE Before(a, b)

SameType(browse, b) == {e \in browse : CanonicalKey(e) = CanonicalKey(b)}

\* Mutant: the latest entry of a canonical type replaces the one before it.
BugBrowse(browse, b) == (browse \ SameType(browse, b)) \cup {b}

(* One turn of the loop in cached_catalog: the block is the first of its   *)
(* type, or takes the place of an entry it is better than.                 *)
Browse(browse, b) ==
    IF \A e \in SameType(browse, b) : Better(b, e)
    THEN (browse \ SameType(browse, b)) \cup {b}
    ELSE browse

(* The loop, over the list in its order: the last of the blocks comes last. *)
LastOf(S) == CHOOSE b \in S : \A a \in S \ {b} : Before(a, b)

Browsed[S \in SUBSET Blocks] ==
    IF S = {} THEN {} ELSE Browse(Browsed[S \ {LastOf(S)}], LastOf(S))

Sorted(S) ==
    CHOOSE s \in [1 .. Cardinality(S) -> S] :
        /\ S = {s[i] : i \in DOMAIN s}
        /\ \A i \in DOMAIN s : \A j \in 1 .. (i - 1) : Before(s[j], s[i])

BrowseEntries(found) == Sorted(Browsed[found])

CachedCatalog(found) == [exact |-> found, browse |-> BrowseEntries(found)]

-----------------------------------------------------------------------------
(* The services. *)

Answer(c, outcome) ==
    /\ request' = [request EXCEPT ![c].step = outcome]
    /\ mutex' = [mutex EXCEPT ![request[c].service] = None]

At(c, service, step) ==
    request[c].service = service /\ request[c].step = step

Call(c) ==
    /\ server = "up"
    /\ request[c].step = "idle"
    /\ \E service \in Services, id \in {None, MinOf(Blocks)} :
        request' = [request EXCEPT
                        ![c] = [step |-> "called", service |-> service,
                                id |-> id]]
    /\ UNCHANGED <<server, byMain, mutex, cache, loadVars>>

\* Mutant: nothing is locked.
BugLockNothing(c) ==
    /\ request[c].step = "called"
    /\ request' = [request EXCEPT ![c].step = "locked"]
    /\ UNCHANGED <<server, byMain, mutex, cache, loadVars>>

Lock(c) ==
    /\ request[c].step = "called"
    /\ mutex[request[c].service] = None
    /\ mutex' = [mutex EXCEPT ![request[c].service] = c]
    /\ request' = [request EXCEPT ![c].step = "locked"]
    /\ UNCHANGED <<server, byMain, cache, loadVars>>

(* list, or get with its NotFoundError. *)
Serve(c) ==
    /\ request[c].step = "locked"
    /\ cache[request[c].service] # None
    /\ Answer(c, IF request[c].id = None
                    \/ request[c].id \in cache[request[c].service].exact
                 THEN "ok" ELSE "missing")
    /\ UNCHANGED <<server, byMain, cache, loadVars>>

(* The HTTP handler sends the answer; the next request is another one. *)
Reply(c) ==
    /\ server = "up"
    /\ request[c].step \in {"ok", "missing", "error"}
    /\ request' = [request EXCEPT ![c] = Idle]
    /\ UNCHANGED <<server, byMain, mutex, cache, loadVars>>

SchedulerCatalog ==
    [exact |-> Schedulers, browse |-> SetToSortSeq(Schedulers, <)]

(* The scheduler provider: alias ids from the registries, or an exception. *)
LoadSchedulers(c) ==
    /\ At(c, "schedulers", "locked")
    /\ cache["schedulers"] = None
    /\ Schedulers # {}
    /\ cache' = [cache EXCEPT !["schedulers"] = SchedulerCatalog]
    /\ UNCHANGED <<server, byMain, mutex, request, loadVars>>

LoadSchedulersThrows(c) ==
    /\ At(c, "schedulers", "locked")
    /\ cache["schedulers"] = None
    /\ Answer(c, "error")
    /\ UNCHANGED <<server, byMain, cache, loadVars>>

-----------------------------------------------------------------------------
(* Gr4BlockCatalogProvider::list. What it does before the first child      *)
(* (search path, preloading, staging, the plugin loader) may throw.        *)

LoadBegin(c) ==
    /\ At(c, "blocks", "locked")
    /\ cache["blocks"] = None
    /\ request' = [request EXCEPT ![c].step = "loading"]
    /\ load' = [NoLoad EXCEPT !.step = "next", !.todo = Blocks]
    /\ faults' = [b \in Blocks |-> "none"]
    /\ UNCHANGED <<server, byMain, mutex, cache, process, written>>

EnumerationThrows(c) ==
    /\ At(c, "blocks", "locked")
    /\ cache["blocks"] = None
    /\ Answer(c, "error")
    /\ UNCHANGED <<server, byMain, cache, loadVars>>

Rest(found) == [step |-> "next", todo |-> load.todo \ {load.block},
                found |-> found, block |-> None, got |-> 0]
Fault(b) == faults' = [faults EXCEPT ![b] = "fault"]
Unchanged == UNCHANGED <<server, byMain, mutex, cache, request>>

(* pipe or fork fails: the block is skipped. *)
NoChildFor ==
    /\ load.step = "next" /\ load.todo # {}
    /\ load' = [load EXCEPT !.todo = @ \ {MinOf(load.todo)}]
    /\ Fault(MinOf(load.todo))
    /\ Unchanged /\ UNCHANGED <<process, written>>

\* Mutant: the parent waits for the child before it reads.
BugForkThenWait ==
    /\ load.step = "next" /\ load.todo # {}
    /\ load' = [load EXCEPT !.step = "wait", !.block = MinOf(load.todo)]
    /\ process' = [process EXCEPT ![MinOf(load.todo)] = "reflecting"]
    /\ Unchanged /\ UNCHANGED <<written, faults>>

Fork ==
    /\ load.step = "next" /\ load.todo # {}
    /\ load' = [load EXCEPT !.step = "read", !.block = MinOf(load.todo)]
    /\ process' = [process EXCEPT ![MinOf(load.todo)] = "reflecting"]
    /\ Unchanged /\ UNCHANGED <<written, faults>>

(* The child of block b. It ends by _exit or by a signal, and stays in the *)
(* kernel's table: nothing it does itself removes it.                      *)
Goes(b, state) == process' = [process EXCEPT ![b] = state]
HasReader(b) == load.block = b /\ load.step # "abandon"

Reflects(b) ==
    /\ process[b] = "reflecting"
    /\ Goes(b, "writing")
    /\ Unchanged /\ UNCHANGED <<load, written, faults>>

ReflectThrows(b) ==
    /\ process[b] = "reflecting"
    /\ Goes(b, "failed")
    /\ Fault(b)
    /\ Unchanged /\ UNCHANGED <<load, written>>

(* write_all: a part fits into the pipe, or write fails and the rest is    *)
(* left out - and the child exits with 0 all the same.                     *)
Write(b) ==
    /\ process[b] = "writing" /\ HasReader(b)
    /\ written < PayloadParts
    /\ written - load.got < PipeCapacity
    /\ written' = written + 1
    /\ Unchanged /\ UNCHANGED <<load, process, faults>>

WriteFails(b) ==
    /\ process[b] = "writing"
    /\ written < PayloadParts
    /\ Goes(b, "exited")
    /\ Fault(b)
    /\ Unchanged /\ UNCHANGED <<load, written>>

(* Writing to a pipe whose reader has gone ends the child, by the signal   *)
(* or, where that is ignored, by the loop's break.                         *)
BrokenPipe(b) ==
    /\ process[b] = "writing" /\ ~HasReader(b)
    /\ written < PayloadParts
    /\ \E state \in {"killed", "exited"} : Goes(b, state)
    /\ Unchanged /\ UNCHANGED <<load, written, faults>>

ChildExits(b) ==
    /\ process[b] = "writing"
    /\ written = PayloadParts
    /\ Goes(b, "exited")
    /\ Unchanged /\ UNCHANGED <<load, written, faults>>

ChildCrashes(b) ==
    /\ process[b] \in {"reflecting", "writing"}
    /\ Goes(b, "killed")
    /\ Fault(b)
    /\ Unchanged /\ UNCHANGED <<load, written>>

(* The parent: reads until the end of the file, then waits. *)
Ended == process[load.block] \in {"exited", "failed", "killed"}

Read ==
    /\ load.step = "read"
    /\ load.got < written
    /\ load' = [load EXCEPT !.got = @ + 1]
    /\ Unchanged /\ UNCHANGED <<process, written, faults>>

ReadEnd ==
    /\ load.step = "read"
    /\ load.got = written /\ Ended
    /\ load' = [load EXCEPT !.step = "wait"]
    /\ Unchanged /\ UNCHANGED <<process, written, faults>>

\* Mutant: a read error leaves without waiting for the child.
BugReadFailsLeaves ==
    /\ load.step = "read"
    /\ load' = Rest(load.found)
    /\ written' = 0
    /\ Fault(load.block)
    /\ Unchanged /\ UNCHANGED process

(* read fails: the pipe is closed and the child awaited; what it still     *)
(* writes ends it.                                                         *)
ReadFails ==
    /\ load.step = "read"
    /\ load' = [load EXCEPT !.step = "abandon"]
    /\ Fault(load.block)
    /\ Unchanged /\ UNCHANGED <<process, written>>

\* Mutant: any payload of a child that exited with 0 is taken.
BugComplete == process[load.block] = "exited" /\ load.got > 0

(* Exit status 0 and a payload that parses: JSON cut short does not. *)
Complete == process[load.block] = "exited" /\ load.got = PayloadParts

(* waitpid returns when the child has ended, which leaves the table; the   *)
(* pipe is closed by then.                                                 *)
Waitpid ==
    /\ load.step \in {"wait", "abandon"}
    /\ Ended
    /\ Goes(load.block, "none")
    /\ written' = 0

Wait ==
    /\ Waitpid
    /\ load' = Rest(IF load.step = "wait" /\ Complete
                    THEN load.found \cup {load.block} ELSE load.found)
    /\ Unchanged /\ UNCHANGED faults

(* It returns -1 where SIGCHLD is ignored: the kernel has removed the      *)
(* child itself, its status is lost and the block is skipped.              *)
WaitFails ==
    /\ Waitpid
    /\ load' = Rest(load.found)
    /\ Fault(load.block)
    /\ Unchanged

Loading(c) == At(c, "blocks", "loading") /\ load.step = "next" /\ load.todo = {}

Publish(c) ==
    /\ Loading(c)
    /\ load.found # {}
    /\ cache' = [cache EXCEPT !["blocks"] = CachedCatalog(load.found)]
    /\ request' = [request EXCEPT ![c].step = "locked"]
    /\ load' = NoLoad
    /\ UNCHANGED <<server, byMain, mutex, process, written, faults>>

(* No block was usable: the cache stays empty and the next caller tries    *)
(* again.                                                                  *)
NothingUsable(c) ==
    /\ Loading(c)
    /\ load.found = {}
    /\ Answer(c, "error")
    /\ load' = NoLoad
    /\ UNCHANGED <<server, byMain, cache, process, written, faults>>

-----------------------------------------------------------------------------
(* main.cpp: list the blocks, then the schedulers, then serve; or exit.    *)

MainAsks(service) ==
    [step |-> "called", service |-> service, id |-> None]

\* Mutant: main serves although the schedulers could not be loaded.
BugMainGoesOn ==
    /\ server = "starting"
    /\ request[Main].step \in {"ok", "error"}
    /\ IF At(Main, "blocks", "ok")
       THEN /\ request' = [request EXCEPT ![Main] = MainAsks("schedulers")]
            /\ UNCHANGED server
       ELSE /\ request' = [request EXCEPT ![Main] = Idle]
            /\ server' = IF request[Main].service = "blocks"
                         THEN "exited" ELSE "up"
    /\ UNCHANGED <<byMain, mutex, cache, loadVars>>

MainGoesOn ==
    /\ server = "starting"
    /\ request[Main].step \in {"ok", "error"}
    /\ IF At(Main, "blocks", "ok")
       THEN /\ request' = [request EXCEPT ![Main] = MainAsks("schedulers")]
            /\ UNCHANGED server
       ELSE /\ request' = [request EXCEPT ![Main] = Idle]
            /\ server' = IF request[Main].step = "error" THEN "exited" ELSE "up"
    /\ UNCHANGED <<byMain, mutex, cache, loadVars>>

Init ==
    /\ byMain \in BOOLEAN
    /\ server = IF byMain THEN "starting" ELSE "up"
    /\ mutex = [s \in Services |-> None]
    /\ cache = [s \in Services |-> None]
    /\ request = [c \in Callers |->
                    IF byMain /\ c = Main THEN MainAsks("blocks") ELSE Idle]
    /\ load = NoLoad
    /\ process = [b \in Blocks |-> "none"]
    /\ written = 0
    /\ faults = [b \in Blocks |-> "none"]

Service(c) ==
    \/ Lock(c) \/ Serve(c) \/ LoadSchedulers(c) \/ LoadSchedulersThrows(c)
    \/ LoadBegin(c) \/ EnumerationThrows(c) \/ Publish(c) \/ NothingUsable(c)

Parent == NoChildFor \/ Fork \/ Read \/ ReadEnd \/ ReadFails \/ Wait \/ WaitFails

Child(b) ==
    \/ Reflects(b) \/ ReflectThrows(b) \/ Write(b) \/ WriteFails(b)
    \/ BrokenPipe(b) \/ ChildExits(b) \/ ChildCrashes(b)

Next ==
    \/ \E c \in Callers : Call(c) \/ Service(c) \/ Reply(c)
    \/ \E b \in Blocks : Child(b)
    \/ Parent \/ MainGoesOn

(* Threads and processes run; a mutex that is free again and again is      *)
(* given to each that waits; reflecting a block ends, with a descriptor or *)
(* an exception. Nothing that goes wrong has to.                           *)
Fairness ==
    /\ \A c \in Callers : SF_vars(Lock(c)) /\ WF_vars(Service(c)) /\ WF_vars(Reply(c))
    /\ WF_vars(Fork) /\ WF_vars(Read \/ ReadEnd) /\ WF_vars(Wait)
    /\ \A b \in Blocks :
            /\ WF_vars(Reflects(b) \/ ReflectThrows(b))
            /\ WF_vars(Write(b) \/ BrokenPipe(b) \/ ChildExits(b))
    /\ WF_vars(MainGoesOn)

Spec == Init /\ [][Next]_vars /\ Fairness

-----------------------------------------------------------------------------
Catalogs == {CachedCatalog(S) : S \in (SUBSET Blocks) \ {{}}}

(* Every variable has its type, and a load goes on only for the one thread *)
(* that holds the mutex.                                                   *)
TypeOK ==
    /\ server \in {"starting", "up", "exited"} /\ byMain \in BOOLEAN
    /\ \A s \in Services : mutex[s] \in Callers \cup {None}
    /\ cache["blocks"] \in Catalogs \cup {None}
    /\ load.todo \cup load.found \subseteq Blocks
    /\ load.todo \cap load.found = {}
    /\ load.got <= written /\ written <= PayloadParts
    /\ load.step = "none" <=> \A c \in Callers : ~At(c, "blocks", "loading")
    /\ \A c \in Callers :
            request[c].step \in {"locked", "loading"} =>
                mutex[request[c].service] = c
    /\ load.step \in {"none", "next"} <=> load.block = None
    /\ load.block # None => process[load.block] # "none"

(* The catalog is whole: it has every block but those that something       *)
(* befell in the load that filled it, and only complete descriptors.       *)
(* Nobody ever sees a catalog that is being filled, or one of a load that  *)
(* failed.                                                                 *)
CatalogWhole ==
    cache["blocks"] # None =>
        cache["blocks"].exact = {b \in Blocks : faults[b] = "none"}

(* Duplicates are collapsed: what the catalog shows to browse has exactly  *)
(* one entry for each canonical type of the catalog, is in order, and      *)
(* shows an implementation only where the catalog has no alias of it.      *)
BrowseCollapsed ==
    cache["blocks"] # None =>
        LET exact == cache["blocks"].exact
            browse == cache["blocks"].browse
        IN /\ {CanonicalKey(b) : b \in exact} =
                {CanonicalKey(browse[i]) : i \in DOMAIN browse}
           /\ \A i \in DOMAIN browse :
                /\ browse[i] \in exact
                /\ IsImplementation(browse[i]) =>
                        SameType(exact, browse[i]) = {browse[i]}
                /\ \A j \in 1 .. (i - 1) :
                        /\ Before(browse[j], browse[i])
                        /\ CanonicalKey(browse[j]) # CanonicalKey(browse[i])

(* VIOLATED. What test/block_catalog_service_test.cpp says of aliases that *)
(* differ in nothing but the id: the list shows the one with the short id, *)
(* and the one with a suffix ("..._alias") can only be looked up.          *)
ShortAliasShown ==
    cache["blocks"] # None =>
        LET exact == cache["blocks"].exact
            browse == cache["blocks"].browse
        IN \A a, b \in exact :
            /\ CanonicalKey(a) = CanonicalKey(b)
            /\ ~IsImplementation(a) /\ ~IsImplementation(b)
            /\ Descriptors[a].category = Descriptors[b].category
            /\ Descriptors[a].name = Descriptors[b].name
            /\ Descriptors[a].length < Descriptors[b].length
            => \A i \in DOMAIN browse : browse[i] # b

(* The children in the kernel's table are those that the load under way is *)
(* still to wait for, of which there is one at most: no way through the    *)
(* loop, and no failure of a child, of its pipe or of waitpid, goes on to  *)
(* the next block, to the cache or to an error and leaves a child behind.  *)
ChildrenReaped ==
    \A b \in Blocks :
        process[b] # "none" =>
            /\ load.block = b
            /\ \E c \in Callers : mutex["blocks"] = c /\ At(c, "blocks", "loading")

(* A process that main.cpp started serves no request before both catalogs  *)
(* are there: none of its clients triggers a load or gets its error.       *)
MainLoadsFirst ==
    byMain /\ server = "up" =>
        /\ \A s \in Services : cache[s] # None
        /\ load = NoLoad
        /\ \A c \in Callers : request[c].step # "error"

(* Every request is answered, however large the payloads and whatever the  *)
(* children do, if each of them ends: pipe and waitpid do not deadlock,    *)
(* and an exception gives the mutex up.                                    *)
EveryRequestAnswered ==
    \A c \in Callers :
        request[c].step = "called" ~>
            request[c].step \in {"ok", "missing", "error"}

=============================================================================
