-------------------------- MODULE BlockCatalogProofs --------------------------
(***************************************************************************)
(* Theorems about BlockCatalog.tla, for any registry of blocks, any size   *)
(* of payload and pipe, and any number of threads with requests.           *)
(*                                                                         *)
(* The induction over sets of blocks that the loop of cached_catalog needs *)
(* is made by way of a smallest set that lacks the fact in question.       *)
(***************************************************************************)
EXTENDS BlockCatalog, FiniteSetTheorems, WellFoundedInduction, TLAPS

Steps == {"idle", "called", "locked", "loading", "ok", "missing", "error"}

ChildStates ==
    {"none", "reflecting", "writing", "exited", "failed", "killed"}

\* A thread is inside a service only with that service's mutex.
Requests ==
    /\ request \in [Callers -> [step : Steps, service : Services,
                                id : {None, MinOf(Blocks)}]]
    /\ mutex \in [Services -> Callers \cup {None}]
    /\ \A c \in Callers :
           /\ request[c].step \in {"locked", "loading"} => mutex[request[c].service] = c
           /\ request[c].step = "loading" => request[c].service = "blocks"
    /\ load.step = "none" <=> \A c \in Callers : request[c].step # "loading"

\* How far the load and the child in hand have come. No other child is in the
\* kernel's table.
Load ==
    /\ load \in [step : {"none", "next", "read", "wait", "abandon"},
                 todo : SUBSET Blocks, found : SUBSET Blocks,
                 block : Blocks \cup {None}, got : Nat]
    /\ process \in [Blocks -> ChildStates] /\ written \in 0 .. PayloadParts
    /\ \A b \in Blocks : process[b] # "none" => b = load.block
    /\ load.step = "none" => load = NoLoad
    /\ load.step \in {"none", "next"} => load.block = None /\ written = 0
    /\ load.step \notin {"none", "next"} =>
           load.block \in load.todo /\ process[load.block] # "none"
    /\ load.step = "wait" => Ended /\ load.got = written
    /\ load.got <= written
    /\ load.todo \cap load.found = {}

\* Of a block that is done with, the descriptor was found unless something
\* befell it. To the block in hand nothing has happened as long as its payload
\* is, or can become, complete and the parent goes on reading.
Faults ==
    /\ faults \in [Blocks -> {"none", "fault"}]
    /\ load.step # "none" =>
           /\ \A b \in Blocks \ load.todo : faults[b] = "none" <=> b \in load.found
           /\ \A b \in load.todo \ {load.block} : faults[b] = "none"
    /\ load.step \in {"read", "wait"} =>
           (faults[load.block] = "none" <=>
                \/ process[load.block] \in {"reflecting", "writing"}
                \/ process[load.block] = "exited" /\ written = PayloadParts)
    /\ load.step = "abandon" => faults[load.block] # "none"

\* The cache is filled once, by a load that is over.
Cache ==
    /\ cache = [s \in Services |-> cache[s]]
    /\ cache["blocks"] \in Catalogs \cup {None}
    /\ cache["blocks"] # None => load.step = "none"
    /\ CatalogWhole

\* Until main.cpp serves, its thread is the only one with requests, and asks
\* for the schedulers with the blocks at hand.
Start ==
    /\ server \in {"starting", "up", "exited"} /\ byMain \in BOOLEAN
    /\ ~byMain => server = "up"
    /\ server # "up" => \A c \in Callers \ {Main} : request[c].step = "idle"
    /\ server = "exited" => request[Main].step = "idle"
    /\ server = "starting" =>
           /\ request[Main].step \in {"called", "locked", "loading", "ok", "error"}
           /\ request[Main].id = None
           /\ request[Main].service = "schedulers" => cache["blocks"] # None
           /\ request[Main].step = "ok" => cache[request[Main].service] # None
    /\ MainLoadsFirst

IInv == Requests /\ Load /\ Faults /\ Cache /\ Start

-----------------------------------------------------------------------------
(* The operators. *)

\* A finite set of numbers has a least one.
LEMMA LeastExists ==
    ASSUME NEW S \in SUBSET Nat, IsFiniteSet(S), S # {}
    PROVE  \E b \in S : \A c \in S : b <= c
<1> DEFINE Below(x) == {y \in S : y <= x}
<1> DEFINE T == {Below(x) : x \in S}
<1>1. IsWellFoundedOn(StrictSubsetOrdering(S), SUBSET S)
  BY FS_StrictSubsetOrderingWellFounded, FS_FiniteSubsetsOfFinite
<1>2. T \subseteq SUBSET S /\ T # {}
  OBVIOUS
<1> HIDE DEF T
<1>3. PICK B \in T : \A C \in T : <<C, B>> \notin StrictSubsetOrdering(S)
  BY <1>1, <1>2, WFMin
<1>4. PICK b \in S : B = Below(b)
  BY DEF T
<1>5. ASSUME NEW c \in S, ~(b <= c) PROVE FALSE
  <2>1. Below(c) \in T
    BY DEF T
  <2>2. b \in Nat /\ c \in Nat /\ c < b
    BY <1>5
  <2>3. \A y \in S : y <= c => y <= b
    BY <2>2
  <2>4. Below(c) \subseteq Below(b)
    BY <2>3
  <2>5. Below(c) # Below(b)
    BY <2>2
  <2> QED
    BY <1>3, <1>4, <2>1, <2>4, <2>5 DEF StrictSubsetOrdering
<1> QED
  BY <1>5

LEMMA MinOfIs == ASSUME NEW S \in SUBSET Blocks, S # {} PROVE MinOf(S) \in S
<1>1. S \in SUBSET Nat /\ IsFiniteSet(S)
  BY CatalogAssumption, FS_Subset
<1>2. \E b \in S : \A c \in S : b <= c
  BY <1>1, LeastExists
<1> QED
  BY <1>2 DEF MinOf

LEMMA CatalogIs ==
    ASSUME NEW S \in SUBSET Blocks, S # {}
    PROVE  CachedCatalog(S) \in Catalogs /\ CachedCatalog(S).exact = S
<1>1. CachedCatalog(S) \in Catalogs
  BY DEF Catalogs
<1>2. CachedCatalog(S).exact = S
  BY DEF CachedCatalog
<1> QED
  BY <1>1, <1>2

\* A thread begins a request, or is done with it.
LEMMA NewRequest ==
    ASSUME NEW c \in Callers, Call(c) \/ Reply(c)
    PROVE  \E r \in [step : Steps, service : Services, id : {None, MinOf(Blocks)}] :
               request' = [request EXCEPT ![c] = r] /\ r.step \in {"called", "idle"}
<1>1. CASE Call(c)
  <2>1. PICK service \in Services, id \in {None, MinOf(Blocks)} :
            request' = [request EXCEPT ![c] = [step |-> "called", service |-> service, id |-> id]]
    BY <1>1 DEF Call
  <2> DEFINE r == [step |-> "called", service |-> service, id |-> id]
  <2>2. r \in [step : Steps, service : Services, id : {None, MinOf(Blocks)}] /\ r.step = "called"
    BY DEF Steps
  <2> QED
    BY <2>1, <2>2
<1>2. CASE Reply(c)
  <2>1. /\ Idle \in [step : Steps, service : Services, id : {None, MinOf(Blocks)}]
        /\ Idle.step = "idle"
    BY DEF Idle, Steps, Services
  <2> QED
    BY <1>2, <2>1 DEF Reply
<1> QED
  BY <1>1, <1>2

\* A thread goes one step on.
LEMMA StepIs ==
    ASSUME Requests, NEW c \in Callers, NEW step \in Steps,
           request' = [request EXCEPT ![c].step = step]
    PROVE  /\ request' \in [Callers -> [step : Steps, service : Services,
                                        id : {None, MinOf(Blocks)}]]
           /\ request'[c].step = step
           /\ request'[c].service = request[c].service
           /\ request'[c].id = request[c].id
           /\ \A d \in Callers \ {c} : request'[d] = request[d]
<1> DEFINE r == [request[c] EXCEPT !.step = step]
<1>1. request' = [request EXCEPT ![c] = r]
  OBVIOUS
<1>2. request[c] \in [step : Steps, service : Services, id : {None, MinOf(Blocks)}]
  BY DEF Requests
<1>3. /\ r \in [step : Steps, service : Services, id : {None, MinOf(Blocks)}]
      /\ r.step = step /\ r.service = request[c].service /\ r.id = request[c].id
  BY <1>2
<1> HIDE DEF r
<1> QED
  BY <1>1, <1>3 DEF Requests

-----------------------------------------------------------------------------
LEMMA InitHolds == Init => IInv
<1> SUFFICES ASSUME Init PROVE IInv
  OBVIOUS
<1> USE CatalogAssumption
<1>1. Requests
  BY DEF Init, Requests, Steps, Services, MainAsks, Idle, NoLoad
<1>2. Load
  BY DEF Init, Load, NoLoad, ChildStates
<1>3. Faults
  BY DEF Init, Faults, NoLoad
<1>4. Cache
  BY DEF Init, Cache, CatalogWhole, Services
<1>5. Start
  BY DEF Init, Start, MainLoadsFirst, MainAsks, Idle
<1> QED
  BY <1>1, <1>2, <1>3, <1>4, <1>5 DEF IInv

(* The steps of a thread that leave the load alone. *)

LEMMA OutsideKeepsIInv ==
    ASSUME IInv, NEW c \in Callers,
           \/ Call(c) \/ Lock(c) \/ Serve(c) \/ Reply(c)
           \/ LoadSchedulers(c) \/ LoadSchedulersThrows(c) \/ EnumerationThrows(c)
    PROVE  IInv'
<1> USE DEF IInv
<1>1. UNCHANGED <<server, byMain, loadVars>> /\ cache'["blocks"] = cache["blocks"]
  BY DEF Call, Lock, Serve, Reply, LoadSchedulers, LoadSchedulersThrows, EnumerationThrows, Cache,
         Services
<1>2. Load' /\ Faults'
  BY <1>1 DEF Load, Faults, loadVars, Ended
<1>3. Requests'
  <2>1. CASE Call(c) \/ Reply(c)
    <3>1. PICK r \in [step : Steps, service : Services, id : {None, MinOf(Blocks)}] :
              request' = [request EXCEPT ![c] = r] /\ r.step \in {"called", "idle"}
      BY <2>1, NewRequest
    <3>2. mutex' = mutex /\ request[c].step # "loading"
      BY <2>1 DEF Call, Reply
    <3> QED
      BY <1>1, <3>1, <3>2 DEF Requests, loadVars
  <2>2. CASE Lock(c)
    <3>1. /\ request[c].step = "called" /\ mutex[request[c].service] = None
          /\ mutex' = [mutex EXCEPT ![request[c].service] = c]
          /\ request' = [request EXCEPT ![c].step = "locked"]
      BY <2>2 DEF Lock
    <3>2. /\ request' \in [Callers -> [step : Steps, service : Services,
                                      id : {None, MinOf(Blocks)}]]
          /\ request'[c].step = "locked"
          /\ request'[c].service = request[c].service
          /\ \A d \in Callers \ {c} : request'[d] = request[d]
      BY <3>1, StepIs DEF Steps
    <3>3. request[c].service \in Services
      BY DEF Requests
    <3> QED
      BY <1>1, <3>1, <3>2, <3>3, CatalogAssumption DEF Requests, loadVars
  <2>3. CASE Serve(c) \/ LoadSchedulersThrows(c) \/ EnumerationThrows(c)
    <3>1. PICK outcome \in {"ok", "missing", "error"} :
              request[c].step = "locked" /\ Answer(c, outcome)
      BY <2>3 DEF Serve, LoadSchedulersThrows, EnumerationThrows, At
    <3>2. /\ request' = [request EXCEPT ![c].step = outcome]
          /\ mutex' = [mutex EXCEPT ![request[c].service] = None]
      BY <3>1 DEF Answer
    <3>3. /\ request' \in [Callers -> [step : Steps, service : Services,
                                      id : {None, MinOf(Blocks)}]]
          /\ request'[c].step = outcome
          /\ \A d \in Callers \ {c} : request'[d] = request[d]
      BY <3>2, StepIs DEF Steps
    <3>4. request[c].service \in Services
      BY DEF Requests
    <3> QED
      <4>1. mutex[request[c].service] = c
        BY <3>1 DEF Requests
      <4>2. \A d \in Callers \ {c} :
                request[d].step \in {"locked", "loading"} => mutex'[request[d].service] = d
        BY <3>2, <4>1 DEF Requests
      <4>3. mutex' \in [Services -> Callers \cup {None}]
        BY <3>2 DEF Requests
      <4> QED
        BY <1>1, <3>1, <3>3, <4>2, <4>3 DEF Requests, loadVars
  <2>4. CASE LoadSchedulers(c)
    BY <1>1, <2>4 DEF LoadSchedulers, Requests, loadVars
  <2> QED
    BY <2>1, <2>2, <2>3, <2>4
<1>4. Cache'
  <2>1. cache' = [s \in Services |-> cache'[s]]
    BY DEF Call, Lock, Serve, Reply, LoadSchedulers, LoadSchedulersThrows, EnumerationThrows,
           Cache
  <2>2. (cache["blocks"] \in Catalogs \cup {None})' /\ CatalogWhole'
    BY <1>1 DEF Cache, CatalogWhole, loadVars, Catalogs
  <2> QED
    BY <1>1, <2>1, <2>2 DEF Cache, loadVars
<1>5. \A s \in Services : cache[s] # None => cache'[s] # None
  BY DEF Call, Lock, Serve, Reply, LoadSchedulers, LoadSchedulersThrows, EnumerationThrows, Cache
<1>6. \A d \in Callers \ {c} : request'[d] = request[d]
  BY DEF Call, Lock, Serve, Reply, LoadSchedulers, LoadSchedulersThrows, EnumerationThrows,
         Answer, Requests
<1>7. Main \in Callers
  BY CatalogAssumption
<1>8. ASSUME NEW step \in Steps, request' = [request EXCEPT ![c].step = step]
      PROVE  /\ request'[c].step = step /\ request'[c].service = request[c].service
             /\ request'[c].id = request[c].id
  BY <1>8, StepIs
<1>9. Start'
  <2>1. CASE server = "up"
    <3>1. ASSUME byMain PROVE request'[c].step # "error"
      <4>1. \A s \in Services : cache[s] # None
        BY <2>1, <3>1 DEF Start, MainLoadsFirst
      <4>2. ~LoadSchedulersThrows(c) /\ ~EnumerationThrows(c)
        BY <4>1 DEF LoadSchedulersThrows, EnumerationThrows, Services
      <4>3. request[c].step # "error"
        BY <2>1, <3>1 DEF Start, MainLoadsFirst
      <4>4. CASE Call(c) \/ Reply(c)
        <5>1. PICK r \in [step : Steps, service : Services, id : {None, MinOf(Blocks)}] :
                  request' = [request EXCEPT ![c] = r] /\ r.step \in {"called", "idle"}
          BY <4>4, NewRequest
        <5> QED
          BY <5>1 DEF Requests
      <4>5. CASE Lock(c)
        BY <1>8, <4>5 DEF Lock, Steps
      <4>6. CASE Serve(c)
        BY <1>8, <4>6 DEF Serve, Answer, Steps
      <4>7. CASE LoadSchedulers(c)
        BY <4>3, <4>7 DEF LoadSchedulers
      <4> QED
        BY <4>2, <4>4, <4>5, <4>6, <4>7
    <3>2. MainLoadsFirst'
      BY <1>1, <1>5, <1>6, <2>1, <3>1 DEF Start, MainLoadsFirst, loadVars
    <3> QED
      BY <1>1, <2>1, <3>2 DEF Start
  <2>2. CASE server = "starting"
    <3>1. c = Main /\ ~Call(c) /\ ~Reply(c)
      BY <2>2 DEF Start, Call, Lock, Serve, Reply, LoadSchedulers, LoadSchedulersThrows,
             EnumerationThrows, At
    <3>2. /\ request'[Main].step \in {"locked", "ok", "error"}
          /\ request'[Main].id = None
          /\ request'[Main].service = request[Main].service
          /\ request'[Main].step = "ok" => cache[request[Main].service] # None
      <4>1. CASE Lock(c)
        BY <1>8, <2>2, <3>1, <4>1 DEF Start, Lock, Steps
      <4>2. CASE Serve(c)
        BY <1>8, <2>2, <3>1, <4>2 DEF Start, Serve, Answer, Steps
      <4>3. CASE LoadSchedulers(c)
        BY <2>2, <3>1, <4>3 DEF Start, LoadSchedulers, At
      <4>4. CASE LoadSchedulersThrows(c) \/ EnumerationThrows(c)
        BY <1>8, <2>2, <3>1, <4>4 DEF Start, LoadSchedulersThrows, EnumerationThrows, Answer, Steps
      <4> QED
        BY <3>1, <4>1, <4>2, <4>3, <4>4
    <3>3. /\ request[Main].service \in Services
          /\ request[Main].service = "schedulers" => cache["blocks"] # None
      BY <1>7, <2>2 DEF Start, Requests
    <3>4. MainLoadsFirst'
      BY <1>1, <2>2 DEF MainLoadsFirst
    <3> QED
      BY <1>1, <1>5, <1>6, <2>2, <3>1, <3>2, <3>3, <3>4 DEF Start
  <2>3. CASE server = "exited"
    <3>1. request[c].step = "idle"
      BY <2>3 DEF Start
    <3> QED
      BY <2>3, <3>1 DEF Call, Lock, Serve, Reply, LoadSchedulers, LoadSchedulersThrows,
             EnumerationThrows, At
  <2> QED
    BY <2>1, <2>2, <2>3 DEF Start
<1> QED
  BY <1>2, <1>3, <1>4, <1>9

(* The beginning and the end of a load. *)

LEMMA LoadBeginKeepsIInv == ASSUME IInv, NEW c \in Callers, LoadBegin(c) PROVE IInv'
<1> USE DEF IInv
<1>1. /\ request[c].service = "blocks" /\ request[c].step = "locked" /\ cache["blocks"] = None
      /\ request' = [request EXCEPT ![c].step = "loading"]
      /\ load' = [NoLoad EXCEPT !.step = "next", !.todo = Blocks]
      /\ faults' = [b \in Blocks |-> "none"]
      /\ UNCHANGED <<server, byMain, mutex, cache, process, written>>
  BY DEF LoadBegin, At
<1>2. load.step = "none"
  BY <1>1 DEF Requests
<1>3. Requests'
  BY <1>1 DEF Requests, NoLoad, Steps
<1>4. Load'
  <2>1. load.block = None /\ written = 0
    BY <1>2 DEF Load
  <2>2. load' = [step |-> "next", todo |-> Blocks, found |-> {}, block |-> None, got |-> 0]
    BY <1>1 DEF NoLoad
  <2>3. load' \in [step : {"none", "next", "read", "wait", "abandon"},
                   todo : SUBSET Blocks, found : SUBSET Blocks,
                   block : Blocks \cup {None}, got : Nat]
    BY <2>2
  <2>4. /\ load'.step = "next" /\ load'.todo = Blocks /\ load'.found = {}
        /\ load'.block = None /\ load'.got = 0
    BY <2>2
  <2> QED
    BY <1>1, <2>1, <2>3, <2>4 DEF Load
<1>5. Faults'
  BY <1>1 DEF Faults, NoLoad
<1>6. Cache'
  BY <1>1 DEF Cache, CatalogWhole
<1>7. Start'
  <2>1. ~(byMain /\ server = "up")
    BY <1>1 DEF Start, MainLoadsFirst, Services
  <2>2. MainLoadsFirst'
    BY <1>1, <2>1 DEF MainLoadsFirst
  <2> QED
    BY <1>1, <2>1, <2>2, CatalogAssumption DEF Start, Requests
<1> QED
  BY <1>3, <1>4, <1>5, <1>6, <1>7

LEMMA LoadEndKeepsIInv ==
    ASSUME IInv, NEW c \in Callers, Publish(c) \/ NothingUsable(c) PROVE IInv'
<1> USE DEF IInv
<1>1. /\ request[c].service = "blocks" /\ request[c].step = "loading"
      /\ load.step = "next" /\ load.todo = {} /\ load' = NoLoad
      /\ UNCHANGED <<server, byMain, process, written, faults>>
  BY DEF Publish, NothingUsable, Loading, At
<1>2. \A d \in Callers \ {c} : request[d].step # "loading"
  BY <1>1 DEF Requests
<1>3. Load'
  <2>1. load.block = None /\ written = 0
    BY <1>1 DEF Load
  <2> QED
    BY <1>1, <2>1 DEF Load, NoLoad
<1>4. Faults'
  BY <1>1 DEF Faults, NoLoad
<1>5. load.found \in SUBSET Blocks /\ load.found = {b \in Blocks : faults[b] = "none"}
  <2>1. load.found \in SUBSET Blocks
    BY DEF Load
  <2>2. \A b \in Blocks : faults[b] = "none" <=> b \in load.found
    BY <1>1 DEF Faults
  <2> QED
    BY <2>1, <2>2
<1>6. ~(byMain /\ server = "up") /\ server # "exited"
  BY <1>1, CatalogAssumption DEF Start, MainLoadsFirst, NoLoad
<1>7. CASE Publish(c)
  <2>1. /\ load.found # {}
        /\ cache' = [cache EXCEPT !["blocks"] = CachedCatalog(load.found)]
        /\ request' = [request EXCEPT ![c].step = "locked"]
        /\ mutex' = mutex
    BY <1>7 DEF Publish
  <2>2. PICK S \in SUBSET Blocks : S = load.found
    BY <1>5
  <2>3. CachedCatalog(S) \in Catalogs /\ CachedCatalog(S).exact = S
    BY <2>1, <2>2, CatalogIs
  <2>4. cache'["blocks"] = CachedCatalog(S) /\ cache' = [s \in Services |-> cache'[s]]
    BY <2>1, <2>2 DEF Cache, Services
  <2>5. Requests'
    BY <1>1, <1>2, <2>1 DEF Requests, NoLoad, Steps
  <2>6. Cache'
    <3>1. (cache["blocks"] \in Catalogs \cup {None})'
      BY <2>3, <2>4 DEF Catalogs
    <3>2. CatalogWhole'
      BY <1>1, <1>5, <2>2, <2>3, <2>4 DEF CatalogWhole
    <3> QED
      BY <1>1, <2>4, <3>1, <3>2 DEF Cache, NoLoad
  <2>7. Start'
    <3>1. MainLoadsFirst'
      BY <1>1, <1>6 DEF MainLoadsFirst
    <3>2. server = "starting" => c = Main /\ request[Main].service # "schedulers"
      BY <1>1 DEF Start
    <3> QED
      BY <1>1, <1>6, <2>1, <3>1, <3>2, CatalogAssumption DEF Start, Requests
  <2> QED
    BY <1>3, <1>4, <2>5, <2>6, <2>7
<1>8. CASE NothingUsable(c)
  <2>1. /\ request' = [request EXCEPT ![c].step = "error"]
        /\ mutex' = [mutex EXCEPT !["blocks"] = None]
        /\ cache' = cache
    BY <1>1, <1>8 DEF NothingUsable, Answer
  <2>2. Requests'
    BY <1>1, <1>2, <2>1, CatalogAssumption DEF Requests, NoLoad, Steps, Services
  <2>3. Cache'
    BY <1>1, <2>1 DEF Cache, CatalogWhole, NoLoad, Catalogs
  <2>4. Start'
    <3>1. MainLoadsFirst'
      BY <1>1, <1>6 DEF MainLoadsFirst
    <3>2. server = "starting" => c = Main /\ request[Main].service # "schedulers"
      BY <1>1 DEF Start
    <3> QED
      BY <1>1, <1>6, <2>1, <3>1, <3>2, CatalogAssumption DEF Start, Requests
  <2> QED
    BY <1>3, <1>4, <2>2, <2>3, <2>4
<1> QED
  BY <1>7, <1>8


(* The load itself: the parent, and the child it has in hand. *)

LEMMA LoadGoesOn ==
    ASSUME IInv, Unchanged, load.step # "none", load'.step # "none"
    PROVE  Requests' /\ Cache' /\ Start'
<1> USE DEF IInv, Unchanged
<1>1. Requests'
  BY DEF Requests
<1>2. cache["blocks"] = None
  BY DEF Cache
<1>3. Cache'
  BY <1>2 DEF Cache, CatalogWhole
<1>4. ~(byMain /\ server = "up")
  BY DEF Start, MainLoadsFirst, NoLoad
<1>5. Start'
  BY <1>4 DEF Start, MainLoadsFirst
<1> QED
  BY <1>1, <1>3, <1>5

\* The record of a load.
LEMMA LoadIs ==
    ASSUME Load
    PROVE  /\ load = [step |-> load.step, todo |-> load.todo, found |-> load.found,
                      block |-> load.block, got |-> load.got]
           /\ load.todo \in SUBSET Blocks /\ load.found \in SUBSET Blocks
           /\ load.block \in Blocks \cup {None} /\ load.got \in Nat
           /\ process \in [Blocks -> ChildStates] /\ written \in 0 .. PayloadParts
           /\ PayloadParts \in Nat \ {0}
  BY CatalogAssumption DEF Load

\* A block that is done with leaves the list, with a descriptor or a fault.
LEMMA BlockDone ==
    ASSUME Load, Faults, NEW b \in load.todo, NEW found \in SUBSET Blocks,
           load.step # "none",
           load.block \in {b, None},
           load' = [step |-> "next", todo |-> load.todo \ {b}, found |-> found,
                    block |-> None, got |-> 0],
           process' = [process EXCEPT ![b] = "none"], written' = 0,
           found \in {load.found, load.found \cup {b}},
           faults' \in [Blocks -> {"none", "fault"}],
           \A c \in Blocks \ {b} : faults'[c] = faults[c],
           faults'[b] = "none" <=> b \in found
    PROVE  Load' /\ Faults'
<1>1. /\ load.todo \in SUBSET Blocks /\ load.found \in SUBSET Blocks
      /\ load.todo \cap load.found = {} /\ None \notin Blocks /\ PayloadParts \in Nat
  BY CatalogAssumption DEF Load
<1>2. process' \in [Blocks -> ChildStates] /\ \A c \in Blocks : process'[c] = "none"
  BY <1>1, CatalogAssumption DEF Load, ChildStates
<1>3. /\ load'.step = "next" /\ load'.todo = load.todo \ {b} /\ load'.found = found
      /\ load'.block = None
  OBVIOUS
<1>4. Load'
  <2>1. load'.got = 0
    BY Zenon
  <2>2. load'.todo \cap load'.found = {}
    <3>1. \A c \in load.todo \ {b} : c \notin found
      BY <1>1
    <3> QED
      BY <1>3, <3>1
  <2>3. load' \in [step : {"none", "next", "read", "wait", "abandon"},
                  todo : SUBSET Blocks, found : SUBSET Blocks,
                  block : Blocks \cup {None}, got : Nat]
    <3>1. PICK todo \in SUBSET Blocks : todo = load.todo \ {b}
      BY <1>1
    <3>2. load' = [step |-> "next", todo |-> todo, found |-> found, block |-> None, got |-> 0]
      BY <3>1
    <3> QED
      BY <3>2
  <2> QED
    BY <1>1, <1>2, <1>3, <2>1, <2>2, <2>3 DEF Load
<1>5. /\ \A c \in Blocks \ load'.todo : faults'[c] = "none" <=> c \in load'.found
      /\ \A c \in load'.todo \ {load'.block} : faults'[c] = "none"
  <2>1. \A c \in Blocks \ load'.todo : faults'[c] = "none" <=> c \in load'.found
    BY <1>1, <1>3 DEF Faults
  <2>2. \A c \in load'.todo \ {load'.block} : faults'[c] = "none"
    BY <1>1, <1>3 DEF Faults
  <2> QED
    BY <2>1, <2>2
<1> QED
  BY <1>3, <1>4, <1>5 DEF Faults

LEMMA NoChildForKeepsIInv == IInv /\ NoChildFor => IInv'
<1> SUFFICES ASSUME IInv, NoChildFor PROVE IInv'
  OBVIOUS
<1> USE DEF IInv
<1>1. load.todo \in SUBSET Blocks /\ load.todo # {} /\ load.step = "next"
  BY DEF Load, NoChildFor
<1>2. PICK b \in load.todo : b = MinOf(load.todo)
  BY <1>1, MinOfIs
<1>3. /\ load' = [load EXCEPT !.todo = load.todo \ {b}]
      /\ faults' = [faults EXCEPT ![b] = "fault"]
      /\ process' = process /\ written' = written
  BY <1>2 DEF NoChildFor, Fault
<1>4. load.block = None /\ written = 0 /\ load.got = 0
  BY <1>1, LoadIs DEF Load
<1>5. load' = [step |-> "next", todo |-> load.todo \ {b}, found |-> load.found,
               block |-> None, got |-> 0]
  BY <1>1, <1>3, <1>4, LoadIs
<1>6. b \notin load.found /\ process' = [process EXCEPT ![b] = "none"]
  BY <1>1, <1>3, <1>4, CatalogAssumption DEF Load
<1>7. /\ faults' \in [Blocks -> {"none", "fault"}]
      /\ \A c \in Blocks \ {b} : faults'[c] = faults[c]
      /\ faults'[b] = "fault"
  BY <1>1, <1>3 DEF Faults
<1>8. Load' /\ Faults'
  BY <1>1, <1>3, <1>4, <1>5, <1>6, <1>7, BlockDone, LoadIs
<1>9. Requests' /\ Cache' /\ Start'
  BY <1>1, <1>5, LoadGoesOn DEF NoChildFor
<1> QED
  BY <1>8, <1>9

LEMMA ForkKeepsIInv == IInv /\ Fork => IInv'
<1> SUFFICES ASSUME IInv, Fork PROVE IInv'
  OBVIOUS
<1> USE DEF IInv
<1>1. load.todo \in SUBSET Blocks /\ load.todo # {} /\ load.step = "next"
  BY DEF Load, Fork
<1>2. PICK b \in load.todo : b = MinOf(load.todo)
  BY <1>1, MinOfIs
<1>3. /\ load' = [load EXCEPT !.step = "read", !.block = b]
      /\ process' = [process EXCEPT ![b] = "reflecting"]
      /\ UNCHANGED <<written, faults>>
  BY <1>2 DEF Fork
<1>4. load.block = None /\ written = 0 /\ load.got = 0
  BY <1>1, LoadIs DEF Load
<1>5. load' = [step |-> "read", todo |-> load.todo, found |-> load.found, block |-> b, got |-> 0]
  BY <1>1, <1>3, <1>4, LoadIs
<1>6. Load'
  <2>1. /\ process' \in [Blocks -> ChildStates] /\ process'[b] = "reflecting"
        /\ \A c \in Blocks \ {b} : process'[c] = "none"
    BY <1>1, <1>3, <1>4, CatalogAssumption DEF Load, ChildStates
  <2> QED
    BY <1>1, <1>3, <1>4, <1>5, <2>1, LoadIs DEF Load
<1>7. faults[b] = "none"
  BY <1>1, <1>4, CatalogAssumption DEF Faults
<1>8. Faults'
  <2>1. /\ load'.step = "read" /\ load'.todo = load.todo /\ load'.found = load.found
        /\ load'.block = b /\ process'[b] = "reflecting"
    BY <1>1, <1>3, <1>5, LoadIs
  <2>3. \A c \in load.todo \ {b} : faults[c] = "none"
    BY <1>1, <1>4, CatalogAssumption DEF Faults
  <2> QED
    BY <1>1, <1>3, <1>7, <2>1, <2>3 DEF Faults
<1>9. Requests' /\ Cache' /\ Start'
  BY <1>1, <1>5, LoadGoesOn DEF Fork
<1> QED
  BY <1>6, <1>8, <1>9

\* What the child does, with or without a fault.
LEMMA ChildKeepsIInv == ASSUME IInv, NEW b \in Blocks, Child(b) PROVE IInv'
<1> USE DEF IInv
<1> USE DEF Goes
<1>0. Unchanged /\ UNCHANGED load
  BY DEF Child, Reflects, ReflectThrows, Write, WriteFails, BrokenPipe, ChildExits, ChildCrashes
<1>1. process[b] \in {"reflecting", "writing"}
  BY DEF Child, Reflects, ReflectThrows, Write, WriteFails, BrokenPipe, ChildExits, ChildCrashes
<1>2. /\ load.block = b /\ load.step \in {"read", "abandon"} /\ b \in load.todo
      /\ load.todo \in SUBSET Blocks
  BY <1>1, CatalogAssumption DEF Load, Ended
<1>3. PICK state \in ChildStates :
          /\ process' = [process EXCEPT ![b] = state]
          /\ state # "none" /\ written' \in 0 .. PayloadParts
          /\ load.got <= written'
          /\ \/ /\ faults' = faults
                /\ load.step = "read" =>
                       \/ state \in {"reflecting", "writing"}
                       \/ state = "exited" /\ written' = PayloadParts
             \/ /\ faults' = [faults EXCEPT ![b] = "fault"]
                /\ state \in {"exited", "failed", "killed"}
                /\ state = "exited" => written' # PayloadParts
  <2>0. written \in 0 .. PayloadParts /\ load.got <= written /\ load.got \in Nat
        /\ PayloadParts \in Nat
    BY LoadIs DEF Load
  <2>1. CASE Reflects(b)
    BY <2>0, <2>1 DEF Reflects, ChildStates
  <2>2. CASE ReflectThrows(b)
    BY <2>0, <2>2 DEF ReflectThrows, Fault, ChildStates
  <2>3. CASE Write(b)
    <3>1. process' = [process EXCEPT ![b] = "writing"]
      BY <2>3 DEF Write, Load
    <3>2. written' \in 0 .. PayloadParts /\ load.got <= written' /\ faults' = faults
      BY <2>0, <2>3 DEF Write
    <3> QED
      BY <3>1, <3>2 DEF ChildStates
  <2>4. CASE WriteFails(b)
    BY <2>0, <2>4 DEF WriteFails, Fault, ChildStates
  <2>5. CASE BrokenPipe(b)
    BY <1>2, <2>0, <2>5 DEF BrokenPipe, HasReader, ChildStates
  <2>6. CASE ChildExits(b)
    BY <2>0, <2>6 DEF ChildExits, ChildStates
  <2>7. CASE ChildCrashes(b)
    BY <2>0, <2>7 DEF ChildCrashes, Fault, ChildStates
  <2> QED
    BY <2>1, <2>2, <2>3, <2>4, <2>5, <2>6, <2>7 DEF Child
<1>4. /\ process' \in [Blocks -> ChildStates] /\ process'[b] = state
      /\ \A c \in Blocks \ {b} : process'[c] = process[c]
  BY <1>3 DEF Load
<1>5. Load'
  BY <1>0, <1>2, <1>3, <1>4 DEF Load
<1>6. Faults'
  <2>1. /\ faults' \in [Blocks -> {"none", "fault"}]
        /\ \A c \in Blocks \ {b} : faults'[c] = faults[c]
    BY <1>3 DEF Faults
  <2>2. /\ \A c \in Blocks \ load.todo : faults'[c] = "none" <=> c \in load.found
        /\ \A c \in load.todo \ {b} : faults'[c] = "none"
    BY <1>2, <2>1 DEF Faults
  <2>3. load.step = "read" =>
            (faults'[b] = "none" <=>
                \/ state \in {"reflecting", "writing"}
                \/ state = "exited" /\ written' = PayloadParts)
    BY <1>1, <1>2, <1>3 DEF Faults
  <2>4. load.step = "abandon" => faults'[b] # "none"
    BY <1>2, <1>3 DEF Faults
  <2> QED
    BY <1>0, <1>2, <1>4, <2>1, <2>2, <2>3, <2>4 DEF Faults
<1>7. Requests' /\ Cache' /\ Start'
  BY <1>0, <1>2, LoadGoesOn
<1> QED
  BY <1>5, <1>6, <1>7

\* The parent reads on, to the end of the file or to an error.
LEMMA ReadKeepsIInv == IInv /\ (Read \/ ReadEnd \/ ReadFails) => IInv'
<1> SUFFICES ASSUME IInv, Read \/ ReadEnd \/ ReadFails PROVE IInv'
  OBVIOUS
<1> USE DEF IInv
<1>0. Unchanged /\ UNCHANGED <<process, written>> /\ load.step = "read"
  BY DEF Read, ReadEnd, ReadFails
<1>1. /\ load.block \in load.todo /\ load.todo \in SUBSET Blocks
      /\ process[load.block] # "none"
  BY <1>0 DEF Load
<1>2. PICK step \in {"read", "wait", "abandon"}, got \in Nat :
          /\ load' = [step |-> step, todo |-> load.todo, found |-> load.found,
                      block |-> load.block, got |-> got]
          /\ got <= written
          /\ step = "wait" => Ended /\ got = written
          /\ IF step = "abandon" THEN faults' = [faults EXCEPT ![load.block] = "fault"]
                                 ELSE faults' = faults
  <2> USE LoadIs
  <2>1. CASE Read
    <3>1. load' = [step |-> "read", todo |-> load.todo, found |-> load.found,
                   block |-> load.block, got |-> load.got + 1]
      BY <2>1 DEF Read
    <3>2. load.got + 1 \in Nat /\ load.got + 1 <= written /\ faults' = faults
      BY <2>1 DEF Read, Load
    <3> QED
      BY <3>1, <3>2
  <2>2. CASE ReadEnd
    <3>1. load' = [step |-> "wait", todo |-> load.todo, found |-> load.found,
                   block |-> load.block, got |-> load.got]
      BY <2>2 DEF ReadEnd
    <3> QED
      BY <2>2, <3>1 DEF ReadEnd
  <2>3. CASE ReadFails
    <3>1. load' = [step |-> "abandon", todo |-> load.todo, found |-> load.found,
                   block |-> load.block, got |-> load.got]
      BY <2>3 DEF ReadFails
    <3> QED
      BY <2>3, <3>1 DEF ReadFails, Fault, Load
  <2> QED
    BY <2>1, <2>2, <2>3
<1>3. /\ load'.step = step /\ load'.todo = load.todo /\ load'.found = load.found
      /\ load'.block = load.block /\ load'.got = got
  BY <1>2
<1>4. Load'
  BY <1>0, <1>1, <1>2, <1>3, LoadIs DEF Load, Ended
<1>5. Faults'
  <2>1. /\ faults' \in [Blocks -> {"none", "fault"}]
        /\ \A c \in Blocks \ {load.block} : faults'[c] = faults[c]
    BY <1>1, <1>2 DEF Faults
  <2>2. /\ \A b \in Blocks \ load.todo : faults'[b] = "none" <=> b \in load.found
        /\ \A b \in load.todo \ {load.block} : faults'[b] = "none"
    BY <1>0, <1>1, <2>1 DEF Faults
  <2>3. step # "abandon" =>
            (faults'[load.block] = "none" <=>
                \/ process[load.block] \in {"reflecting", "writing"}
                \/ process[load.block] = "exited" /\ written = PayloadParts)
    BY <1>0, <1>1, <1>2 DEF Faults
  <2>4. step = "abandon" => faults'[load.block] # "none"
    BY <1>1, <1>2 DEF Faults
  <2> QED
    BY <1>0, <1>3, <2>1, <2>2, <2>3, <2>4 DEF Faults
<1>6. Requests' /\ Cache' /\ Start'
  BY <1>0, <1>2, <1>3, LoadGoesOn
<1> QED
  BY <1>4, <1>5, <1>6

\* The end of a child, with its status or without.
LEMMA WaitKeepsIInv == IInv /\ (Wait \/ WaitFails) => IInv'
<1> SUFFICES ASSUME IInv, Wait \/ WaitFails PROVE IInv'
  OBVIOUS
<1> USE DEF IInv
<1>1. /\ load.step \in {"wait", "abandon"} /\ Ended /\ Unchanged
      /\ process' = [process EXCEPT ![load.block] = "none"] /\ written' = 0
  BY DEF Wait, WaitFails, Waitpid, Goes
<1>2. PICK b \in load.todo : b = load.block
  BY <1>1 DEF Load
<1>3. load.todo \in SUBSET Blocks /\ b \notin load.found
  BY <1>1 DEF Load, Faults
<1>4. CASE Wait
  <2> DEFINE found == IF load.step = "wait" /\ Complete THEN load.found \cup {b} ELSE load.found
  <2>1. load' = [step |-> "next", todo |-> load.todo \ {b}, found |-> found,
                 block |-> None, got |-> 0]
    BY <1>2, <1>4 DEF Wait, Rest
  <2>2. faults' = faults
    BY <1>4 DEF Wait
  <2>3. faults[b] = "none" <=> b \in found
    BY <1>1, <1>2, <1>3, LoadIs DEF Load, Faults, Ended, Complete
  <2>4. found \in SUBSET Blocks /\ found \in {load.found, load.found \cup {b}}
    BY <1>3, LoadIs
  <2> HIDE DEF found
  <2>5. faults \in [Blocks -> {"none", "fault"}]
    BY DEF Faults
  <2>6. Load' /\ Faults'
    BY <1>1, <1>2, <1>3, <2>1, <2>2, <2>3, <2>4, <2>5, BlockDone
  <2>7. Requests' /\ Cache' /\ Start'
    BY <1>1, <2>1, LoadGoesOn
  <2> QED
    BY <2>6, <2>7
<1>5. CASE WaitFails
  <2>1. /\ load' = [step |-> "next", todo |-> load.todo \ {b}, found |-> load.found,
                    block |-> None, got |-> 0]
        /\ faults' = [faults EXCEPT ![b] = "fault"]
    BY <1>2, <1>5 DEF WaitFails, Rest, Fault
  <2>2. /\ faults' \in [Blocks -> {"none", "fault"}]
        /\ \A c \in Blocks \ {b} : faults'[c] = faults[c]
        /\ faults'[b] = "fault"
    BY <1>3, <2>1 DEF Faults
  <2>3. Load' /\ Faults'
    BY <1>1, <1>2, <1>3, <2>1, <2>2, BlockDone, LoadIs
  <2>4. Requests' /\ Cache' /\ Start'
    BY <1>1, <2>1, LoadGoesOn
  <2> QED
    BY <2>3, <2>4
<1> QED
  BY <1>4, <1>5

(* main.cpp *)

LEMMA MainKeepsIInv == IInv /\ MainGoesOn => IInv'
<1> SUFFICES ASSUME IInv, MainGoesOn PROVE IInv'
  OBVIOUS
<1> USE DEF IInv
<1>0. Main \in Callers /\ request[Main].service \in Services
  BY CatalogAssumption DEF Requests
<1>1. /\ server = "starting" /\ byMain /\ request[Main].step \in {"ok", "error"}
      /\ UNCHANGED <<byMain, mutex, cache, loadVars>>
  BY DEF MainGoesOn, Start
<1>2. \A c \in Callers \ {Main} : request[c].step = "idle"
  BY <1>1 DEF Start
<1>3. load = NoLoad
  BY <1>1, <1>2 DEF Requests, Load
<1>4. Load' /\ Faults' /\ Cache'
  BY <1>1 DEF Load, Faults, Cache, loadVars, Ended, CatalogWhole, Catalogs
<1>5. PICK r \in [step : {"called", "idle"}, service : Services, id : {None}] :
          /\ request' = [request EXCEPT ![Main] = r]
          /\ \/ r.step = "called" /\ server' = "starting" /\ cache["blocks"] # None
             \/ r.step = "idle" /\ server' = "exited"
             \/ r.step = "idle" /\ server' = "up" /\ \A s \in Services : cache[s] # None
  <2>1. CASE At(Main, "blocks", "ok")
    <3>1. /\ MainAsks("schedulers") \in [step : {"called", "idle"}, service : Services, id : {None}]
          /\ MainAsks("schedulers").step = "called"
      BY DEF MainAsks, Services
    <3> QED
      BY <1>1, <2>1, <3>1 DEF MainGoesOn, Start, At
  <2>2. CASE ~At(Main, "blocks", "ok")
    <3>1. /\ Idle \in [step : {"called", "idle"}, service : Services, id : {None}]
          /\ Idle.step = "idle"
      BY DEF Idle, Services
    <3>2. request[Main].step = "ok" => \A s \in Services : cache[s] # None
      BY <1>0, <1>1, <2>2 DEF Start, At, Services
    <3> QED
      BY <1>1, <2>2, <3>1, <3>2 DEF MainGoesOn
  <2> QED
    BY <2>1, <2>2
<1>6. /\ r \in [step : Steps, service : Services, id : {None, MinOf(Blocks)}]
      /\ request' \in [Callers -> [step : Steps, service : Services, id : {None, MinOf(Blocks)}]]
      /\ request'[Main] = r
      /\ \A c \in Callers \ {Main} : request'[c] = request[c]
  BY <1>0, <1>5 DEF Requests, Steps
<1>7. Requests'
  BY <1>1, <1>2, <1>3, <1>5, <1>6 DEF Requests, loadVars, NoLoad
<1>8. Start'
  <2>1. MainLoadsFirst'
    BY <1>1, <1>2, <1>3, <1>5, <1>6 DEF MainLoadsFirst, loadVars
  <2> QED
    BY <1>0, <1>1, <1>2, <1>5, <1>6, <2>1 DEF Start
<1> QED
  BY <1>4, <1>7, <1>8

-----------------------------------------------------------------------------
\* Every step of a request, of a load, of a child and of main.cpp keeps the
\* invariant.
THEOREM StepKeepsIInv == IInv /\ [Next]_vars => IInv'
<1> SUFFICES ASSUME IInv, [Next]_vars PROVE IInv'
  OBVIOUS
<1>1. ASSUME NEW c \in Callers, Call(c) \/ Service(c) \/ Reply(c) PROVE IInv'
  BY <1>1, OutsideKeepsIInv, LoadBeginKeepsIInv, LoadEndKeepsIInv DEF Service
<1>2. CASE Parent
  BY <1>2, NoChildForKeepsIInv, ForkKeepsIInv, ReadKeepsIInv, WaitKeepsIInv DEF Parent
<1>3. ASSUME NEW b \in Blocks, Child(b) PROVE IInv'
  BY <1>3, ChildKeepsIInv
<1>4. CASE MainGoesOn
  BY <1>4, MainKeepsIInv
<1>5. CASE UNCHANGED vars
  BY <1>5 DEF vars, loadVars, IInv, Requests, Load, Faults, Cache, Start, Ended,
         CatalogWhole, Catalogs, MainLoadsFirst
<1> QED
  BY <1>1, <1>2, <1>3, <1>4, <1>5 DEF Next

-----------------------------------------------------------------------------
(* What the catalog shows to browse. The loop of cached_catalog and its    *)
(* sorts go through finite sets of blocks one block at a time, so that     *)
(* each fact about them holds if no smallest set lacks it.                 *)

LEMMA SmallestExists ==
    ASSUME NEW T \in SUBSET (SUBSET Blocks), T # {}
    PROVE  \E S \in T : \A U \in T : U \subseteq S => U = S
<1>0. IsFiniteSet(Blocks)
  BY CatalogAssumption
<1>1. IsWellFoundedOn(StrictSubsetOrdering(Blocks), SUBSET Blocks)
  BY <1>0, FS_StrictSubsetOrderingWellFounded, FS_FiniteSubsetsOfFinite
<1>2. PICK S \in T : \A U \in T : <<U, S>> \notin StrictSubsetOrdering(Blocks)
  BY <1>1, WFMin
<1>3. ASSUME NEW U \in T, U \subseteq S, U # S PROVE FALSE
  BY <1>2, <1>3 DEF StrictSubsetOrdering
<1> QED
  BY <1>3

\* The order of the list is a strict total one, since no two blocks have the
\* same id, and so is the order among entries of a type.
LEMMA BeforeIsOrder ==
    ASSUME NEW a \in Blocks, NEW b \in Blocks
    PROVE  /\ a # b => (Before(a, b) <=> ~Before(b, a))
           /\ ~Before(a, a)
           /\ \A c \in Blocks : Before(a, b) /\ Before(b, c) => Before(a, c)
<1>1. \A d \in Blocks : /\ d \in Nat
                        /\ Descriptors[d].category \in Nat
                        /\ Descriptors[d].name \in Nat
  BY CatalogAssumption
<1> QED
  BY <1>1 DEF Before

LEMMA BetterIsOrder ==
    ASSUME NEW a \in Blocks, NEW b \in Blocks
    PROVE  /\ a # b => (Better(a, b) <=> ~Better(b, a))
           /\ ~Better(a, a)
           /\ \A c \in Blocks : Better(a, b) /\ Better(b, c) => Better(a, c)
<1>1. \A d \in Blocks : Descriptors[d].length \in Nat
  BY CatalogAssumption
<1>2. IsImplementation(a) \in BOOLEAN /\ IsImplementation(b) \in BOOLEAN
  BY DEF IsImplementation
<1>3. \A c \in Blocks : IsImplementation(c) \in BOOLEAN
  BY DEF IsImplementation
<1> QED
  BY <1>1, <1>2, <1>3, BeforeIsOrder DEF Better

LEMMA LastOfIs ==
    ASSUME NEW S \in SUBSET Blocks, S # {}
    PROVE  LastOf(S) \in S /\ \A a \in S \ {LastOf(S)} : Before(a, LastOf(S))
<1> DEFINE HasLast(U) == \E b \in U : \A a \in U \ {b} : Before(a, b)
<1> DEFINE T == {U \in SUBSET Blocks : U # {} /\ ~HasLast(U)}
<1>0. T \in SUBSET (SUBSET Blocks) /\ (\A U \in T : U # {} /\ ~HasLast(U))
      /\ (\A U \in SUBSET Blocks : U \notin T /\ U # {} => HasLast(U))
  OBVIOUS
<1> HIDE DEF T
<1>1. ASSUME T # {} PROVE FALSE
  <2>1. PICK U \in T : \A V \in T : V \subseteq U => V = U
    BY <1>0, <1>1, SmallestExists
  <2>2. PICK x \in U : TRUE
    BY <1>0
  <2>3. U \ {x} # {} => HasLast(U \ {x})
    <3>1. U \ {x} \in SUBSET Blocks /\ U \ {x} \notin T
      BY <1>0, <2>1, <2>2
    <3> QED
      BY <1>0, <3>1
  <2>4. U \ {x} # {}
    <3>1. U = {x} => HasLast(U)
      OBVIOUS
    <3> QED
      BY <1>0, <2>2, <3>1
  <2>5. PICK y \in U \ {x} : \A a \in (U \ {x}) \ {y} : Before(a, y)
    BY <2>3, <2>4
  <2>6. Before(x, y) => HasLast(U)
    BY <2>5
  <2>7. Before(y, x) => HasLast(U)
    BY <1>0, <2>2, <2>5, BeforeIsOrder
  <2>8. Before(x, y) \/ Before(y, x)
    BY <1>0, <2>2, <2>5, BeforeIsOrder
  <2> QED
    BY <1>0, <2>6, <2>7, <2>8
<1>2. HasLast(S)
  BY <1>0, <1>1
<1> QED
  BY <1>2 DEF LastOf

LEMMA SortedIs ==
    ASSUME NEW S \in SUBSET Blocks
    PROVE  LET s == Sorted(S)
           IN /\ S = {s[i] : i \in DOMAIN s}
              /\ \A i \in DOMAIN s :
                   /\ s[i] \in S
                   /\ \A j \in 1 .. (i - 1) : j \in DOMAIN s /\ Before(s[j], s[i])
<1> DEFINE IsSort(s, U) ==
        /\ U = {s[i] : i \in DOMAIN s}
        /\ \A i \in DOMAIN s : \A j \in 1 .. (i - 1) : Before(s[j], s[i])
<1> DEFINE Sortable(U) == \E s \in [1 .. Cardinality(U) -> U] : IsSort(s, U)
<1> DEFINE T == {U \in SUBSET Blocks : ~Sortable(U)}
<1>0. T \in SUBSET (SUBSET Blocks) /\ (\A U \in T : ~Sortable(U))
      /\ (\A U \in SUBSET Blocks : U \notin T => Sortable(U))
  OBVIOUS
<1> HIDE DEF T
<1>1. ASSUME T # {} PROVE FALSE
  <2>1. PICK U \in T : \A V \in T : V \subseteq U => V = U
    BY <1>0, <1>1, SmallestExists
  <2>2. U # {}
    <3>1. ASSUME U = {} PROVE FALSE
      <4>1. Cardinality(U) = 0 /\ 1 .. 0 = {}
        BY <3>1, FS_EmptySet
      <4> DEFINE s == [i \in 1 .. Cardinality(U) |-> U]
      <4>2. s \in [1 .. Cardinality(U) -> U] /\ IsSort(s, U)
        BY <3>1, <4>1
      <4> QED
        BY <1>0, <4>2
    <3> QED
      BY <3>1
  <2>3. PICK x : x = LastOf(U)
    OBVIOUS
  <2> DEFINE V == U \ {x}
  <2>4. x \in U /\ (\A a \in V : Before(a, x)) /\ V # U
    BY <1>0, <2>2, <2>3, LastOfIs
  <2>5. PICK n \in Nat : Cardinality(V) = n /\ Cardinality(U) = n + 1
    <3>1. IsFiniteSet(U)
      BY <1>0, FS_Subset, CatalogAssumption
    <3>2. Cardinality(V) = Cardinality(U) - 1 /\ IsFiniteSet(V)
      BY <2>4, <3>1, FS_RemoveElement
    <3> QED
      BY <3>1, <3>2, FS_CardinalityType
  <2>6. PICK s \in [1 .. n -> V] : IsSort(s, V)
    <3>1. V \in SUBSET Blocks /\ V \notin T
      BY <1>0, <2>1, <2>4
    <3> QED
      BY <1>0, <2>5, <3>1
  <2> DEFINE t == [i \in 1 .. (n + 1) |-> IF i = n + 1 THEN x ELSE s[i]]
  <2>7. /\ t \in [1 .. (n + 1) -> U]
        /\ t[n + 1] = x /\ \A i \in 1 .. n : t[i] = s[i] /\ s[i] \in V
    BY <2>4, <2>6
  <2> HIDE DEF t
  <2>8. U = {t[i] : i \in 1 .. (n + 1)}
    <3>1. \A a \in V : \E i \in 1 .. n : s[i] = a
      BY <2>6
    <3>2. ASSUME NEW a \in U PROVE \E i \in 1 .. (n + 1) : t[i] = a
      <4>1. CASE a = x
        BY <2>7, <4>1
      <4>2. CASE a # x
        <5>1. PICK i \in 1 .. n : s[i] = a
          BY <3>1, <4>2
        <5> QED
          BY <2>7, <5>1
      <4> QED
        BY <4>1, <4>2
    <3> QED
      BY <2>7, <3>2
  <2>9. ASSUME NEW i \in 1 .. (n + 1), NEW j \in 1 .. (i - 1) PROVE Before(t[j], t[i])
    <3>1. j \in 1 .. n
      OBVIOUS
    <3>2. t[j] = s[j] /\ s[j] \in V
      BY <2>7, <3>1
    <3>3. CASE i = n + 1
      BY <2>4, <2>7, <3>2, <3>3
    <3>4. CASE i # n + 1
      <4>1. i \in 1 .. n
        BY <3>4
      <4>2. Before(s[j], s[i]) /\ t[i] = s[i]
        BY <2>6, <2>7, <4>1
      <4> QED
        BY <3>2, <4>2
    <3> QED
      BY <3>3, <3>4
  <2>10. t \in [1 .. Cardinality(U) -> U] /\ IsSort(t, U)
    BY <2>5, <2>7, <2>8, <2>9
  <2> QED
    BY <1>0, <2>1, <2>10
<1>2. \E s \in [1 .. Cardinality(S) -> S] : IsSort(s, S)
  BY <1>0, <1>1
<1>3. Sorted(S) \in [1 .. Cardinality(S) -> S] /\ IsSort(Sorted(S), S)
  BY <1>2 DEF Sorted
<1>4. Cardinality(S) \in Nat
  BY CatalogAssumption, FS_Subset, FS_CardinalityType
<1> HIDE DEF IsSort
<1>5. \A i \in DOMAIN Sorted(S) : \A j \in 1 .. (i - 1) : j \in DOMAIN Sorted(S)
  BY <1>3, <1>4
<1> USE DEF IsSort
<1> QED
  BY <1>3, <1>5

\* The loop's function exists: what it has of the subsets of T without the last
\* of T gives what it has of those with it, of each of which that is the last
\* as well.
Turn(f, S) == IF S = {} THEN {} ELSE Browse(f[S \ {LastOf(S)}], LastOf(S))

LEMMA LastOfSubset ==
    ASSUME NEW T \in SUBSET Blocks, NEW S \in SUBSET T, S # {}, LastOf(T) \in S
    PROVE  LastOf(S) = LastOf(T)
<1>1. T # {} /\ S \in SUBSET Blocks
  OBVIOUS
<1>2. LastOf(S) \in S /\ \A a \in S \ {LastOf(S)} : Before(a, LastOf(S))
  BY <1>1, LastOfIs
<1>3. LastOf(T) \in T /\ \A a \in T \ {LastOf(T)} : Before(a, LastOf(T))
  BY <1>1, LastOfIs
<1> QED
  BY <1>1, <1>2, <1>3, BeforeIsOrder

LEMMA BrowsedIs ==
    \A S \in SUBSET Blocks : Browsed[S] = Turn(Browsed, S)
<1> DEFINE Has(T) == \E f : f = [S \in SUBSET T |-> Turn(f, S)]
<1> DEFINE Bad == {T \in SUBSET Blocks : ~Has(T)}
<1>0. Bad \in SUBSET (SUBSET Blocks) /\ (\A T \in Bad : ~Has(T))
      /\ (\A T \in SUBSET Blocks : T \notin Bad => Has(T))
  OBVIOUS
<1> HIDE DEF Bad
<1>1. ASSUME Bad # {} PROVE FALSE
  <2>1. PICK T \in Bad : \A U \in Bad : U \subseteq T => U = T
    BY <1>0, <1>1, SmallestExists
  <2>2. T # {}
    <3>1. ASSUME T = {} PROVE FALSE
      <4> DEFINE f == [S \in SUBSET T |-> {}]
      <4>1. \A S \in SUBSET T : Turn(f, S) = {}
        BY <3>1 DEF Turn
      <4>2. f = [S \in SUBSET T |-> Turn(f, S)]
        BY <4>1
      <4> QED
        BY <1>0, <4>2
    <3> QED
      BY <3>1
  <2>3. PICK x : x = LastOf(T)
    OBVIOUS
  <2>4. x \in T
    BY <1>0, <2>2, <2>3, LastOfIs
  <2>5. PICK g : g = [S \in SUBSET (T \ {x}) |-> Turn(g, S)]
    <3>1. T \ {x} \in SUBSET Blocks /\ T \ {x} \notin Bad
      BY <1>0, <2>1, <2>4
    <3> QED
      BY <1>0, <3>1
  <2> DEFINE f == [S \in SUBSET T |->
                      IF x \in S THEN Browse(g[S \ {x}], x) ELSE g[S]]
  <2>6. \A S \in SUBSET (T \ {x}) : f[S] = g[S]
    OBVIOUS
  <2>7. ASSUME NEW S \in SUBSET T PROVE f[S] = Turn(f, S)
    <3>1. CASE x \in S
      <4>1. LastOf(S) = x
        BY <1>0, <2>3, <3>1, LastOfSubset
      <4>2. f[S] = Browse(g[S \ {x}], x)
        BY <3>1
      <4>3. g[S \ {x}] = f[S \ {x}]
        BY <2>6
      <4> HIDE DEF f
      <4> QED
        BY <3>1, <4>1, <4>2, <4>3 DEF Turn
    <3>2. CASE x \notin S
      <4>1. S \in SUBSET (T \ {x})
        BY <3>2
      <4>2. f[S] = g[S] /\ g[S] = Turn(g, S)
        BY <2>5, <4>1
      <4>3. g[S \ {LastOf(S)}] = f[S \ {LastOf(S)}]
        BY <2>6, <4>1
      <4> HIDE DEF f
      <4> QED
        BY <4>2, <4>3 DEF Turn
    <3> QED
      BY <3>1, <3>2
  <2>8. f = [S \in SUBSET T |-> f[S]]
    OBVIOUS
  <2> HIDE DEF f
  <2>9. f = [S \in SUBSET T |-> Turn(f, S)]
    BY <2>7, <2>8
  <2> QED
    BY <1>0, <2>9
<1>2. PICK f : f = [S \in SUBSET Blocks |-> Turn(f, S)]
  BY <1>0, <1>1
<1>3. f = [S \in SUBSET Blocks |->
              IF S = {} THEN {} ELSE Browse(f[S \ {LastOf(S)}], LastOf(S))]
  BY <1>2 DEF Turn
<1>4. Browsed = [S \in SUBSET Blocks |->
              IF S = {} THEN {} ELSE Browse(Browsed[S \ {LastOf(S)}], LastOf(S))]
  BY <1>3, Zenon DEF Browsed
<1>5. Browsed = [S \in SUBSET Blocks |-> Turn(Browsed, S)]
  BY <1>4 DEF Turn
<1> QED
  BY <1>5

\* What the loop leaves of a set of blocks: of each type the best, and nothing
\* else.
BestOf(S, browse) ==
    /\ browse \subseteq S
    /\ \A b \in S : \E e \in browse : CanonicalKey(e) = CanonicalKey(b)
    /\ \A e \in browse : \A b \in S \ {e} :
           CanonicalKey(b) = CanonicalKey(e) => Better(e, b)

LEMMA BrowseKeepsBest ==
    ASSUME NEW S \in SUBSET Blocks, NEW x \in Blocks, x \notin S,
           NEW browse, BestOf(S, browse)
    PROVE  BestOf(S \cup {x}, Browse(browse, x))
<1> DEFINE same == SameType(browse, x)
<1> DEFINE new == Browse(browse, x)
<1>1. browse \subseteq S /\ browse \subseteq Blocks
  BY DEF BestOf
<1>2. same = {e \in browse : CanonicalKey(e) = CanonicalKey(x)}
  BY DEF SameType
<1>3. \A e \in same : \A b \in S \ {e} : CanonicalKey(b) = CanonicalKey(x) => Better(e, b)
  BY <1>2 DEF BestOf
<1>4. CASE \A e \in same : Better(x, e)
  <2>1. new = (browse \ same) \cup {x}
    BY <1>4 DEF Browse
  <2>2. new \subseteq S \cup {x}
    BY <1>1, <2>1
  <2>3. \A b \in S \cup {x} : \E e \in new : CanonicalKey(e) = CanonicalKey(b)
    <3>1. SUFFICES ASSUME NEW b \in S, CanonicalKey(b) # CanonicalKey(x)
                   PROVE \E e \in new : CanonicalKey(e) = CanonicalKey(b)
      BY <2>1
    <3>2. PICK e \in browse : CanonicalKey(e) = CanonicalKey(b)
      BY DEF BestOf
    <3> QED
      BY <1>2, <2>1, <3>1, <3>2
  <2>4. ASSUME NEW e \in new, NEW b \in (S \cup {x}) \ {e}, CanonicalKey(b) = CanonicalKey(e)
        PROVE Better(e, b)
    <3>1. CASE e = x
      <4>1. b \in S /\ b \in Blocks
        BY <2>4, <3>1
      <4>2. PICK c \in browse : CanonicalKey(c) = CanonicalKey(b)
        BY <4>1 DEF BestOf
      <4>3. c \in same /\ Better(x, c) /\ c \in Blocks
        BY <1>1, <1>2, <1>4, <2>4, <3>1, <4>2
      <4>4. b = c \/ Better(c, b)
        BY <1>3, <2>4, <3>1, <4>1, <4>3
      <4> QED
        BY <3>1, <4>1, <4>3, <4>4, BetterIsOrder
    <3>2. CASE e # x
      <4>1. e \in browse /\ CanonicalKey(e) # CanonicalKey(x)
        BY <1>2, <2>1, <3>2
      <4>2. b \in S \ {e}
        BY <2>4, <4>1
      <4> QED
        BY <2>4, <4>1, <4>2 DEF BestOf
    <3> QED
      BY <3>1, <3>2
  <2> QED
    BY <2>2, <2>3, <2>4 DEF BestOf
<1>5. CASE ~ \A e \in same : Better(x, e)
  <2>1. PICK d \in same : ~Better(x, d)
    BY <1>5
  <2>2. new = browse
    BY <1>5 DEF Browse
  <2>3. d \in browse /\ CanonicalKey(d) = CanonicalKey(x) /\ d # x /\ d \in Blocks
    BY <1>1, <1>2, <2>1
  <2>4. Better(d, x)
    BY <2>1, <2>3, BetterIsOrder
  <2>5. \A b \in S \cup {x} : \E e \in new : CanonicalKey(e) = CanonicalKey(b)
    BY <2>2, <2>3 DEF BestOf
  <2>6. ASSUME NEW e \in new, CanonicalKey(x) = CanonicalKey(e) PROVE Better(e, x)
    <3>1. e = d \/ (Better(e, d) /\ Better(d, e))
      BY <1>1, <2>2, <2>3, <2>6 DEF BestOf
    <3>2. e = d
      BY <1>1, <2>2, <2>3, <3>1, BetterIsOrder
    <3> QED
      BY <2>4, <3>2
  <2> QED
    BY <1>1, <2>2, <2>5, <2>6 DEF BestOf
<1> QED
  BY <1>4, <1>5

LEMMA BrowsedBest == ASSUME NEW S \in SUBSET Blocks PROVE BestOf(S, Browsed[S])
<1> DEFINE Bad == {T \in SUBSET Blocks : ~BestOf(T, Browsed[T])}
<1>0. Bad \in SUBSET (SUBSET Blocks) /\ (\A T \in Bad : ~BestOf(T, Browsed[T]))
      /\ (\A T \in SUBSET Blocks : T \notin Bad => BestOf(T, Browsed[T]))
  OBVIOUS
<1> HIDE DEF Bad
<1>1. ASSUME Bad # {} PROVE FALSE
  <2>1. PICK T \in Bad : \A U \in Bad : U \subseteq T => U = T
    BY <1>0, <1>1, SmallestExists
  <2>2. ASSUME T = {} PROVE FALSE
    <3>1. Browsed[T] = {}
      BY <1>0, <2>2, BrowsedIs DEF Turn
    <3>2. BestOf(T, Browsed[T])
      BY <2>2, <3>1 DEF BestOf
    <3> QED
      BY <1>0, <3>2
  <2>3. PICK x : x = LastOf(T)
    OBVIOUS
  <2>4. x \in T
    BY <1>0, <2>2, <2>3, LastOfIs
  <2>5. PICK U \in SUBSET Blocks : U = T \ {x}
    BY <1>0
  <2>6. BestOf(U, Browsed[U])
    <3>1. U \notin Bad
      BY <2>1, <2>4, <2>5
    <3> QED
      BY <1>0, <3>1
  <2>7. BestOf(U \cup {x}, Browse(Browsed[U], x))
    BY <1>0, <2>4, <2>5, <2>6, BrowseKeepsBest
  <2>8. Browsed[T] = Browse(Browsed[U], x)
    BY <1>0, <2>2, <2>3, <2>5, BrowsedIs DEF Turn
  <2>9. U \cup {x} = T
    BY <2>4, <2>5
  <2> QED
    BY <1>0, <2>7, <2>8, <2>9
<1> QED
  BY <1>0, <1>1

LEMMA CatalogBrowse ==
    ASSUME NEW S \in SUBSET Blocks
    PROVE  LET browse == CachedCatalog(S).browse
           IN /\ {CanonicalKey(b) : b \in S} =
                   {CanonicalKey(browse[i]) : i \in DOMAIN browse}
              /\ \A i \in DOMAIN browse :
                   /\ browse[i] \in S
                   /\ \A b \in S \ {browse[i]} :
                       CanonicalKey(b) = CanonicalKey(browse[i]) => Better(browse[i], b)
                   /\ \A j \in 1 .. (i - 1) :
                       j \in DOMAIN browse /\ Before(browse[j], browse[i])
<1> DEFINE B == Browsed[S]
<1> DEFINE s == Sorted(B)
<1>1. BestOf(S, B) /\ B \in SUBSET Blocks
  BY BrowsedBest DEF BestOf
<1> HIDE DEF B
<1>2. /\ B = {s[i] : i \in DOMAIN s}
      /\ \A i \in DOMAIN s :
           /\ s[i] \in B
           /\ \A j \in 1 .. (i - 1) : j \in DOMAIN s /\ Before(s[j], s[i])
  BY <1>1, SortedIs
<1>3. CachedCatalog(S).browse = s
  BY DEF CachedCatalog, BrowseEntries, B
<1> HIDE DEF s
<1>4. {CanonicalKey(b) : b \in S} = {CanonicalKey(s[i]) : i \in DOMAIN s}
  <2>1. ASSUME NEW b \in S PROVE \E i \in DOMAIN s : CanonicalKey(s[i]) = CanonicalKey(b)
    BY <1>1, <1>2 DEF BestOf
  <2>2. \A i \in DOMAIN s : s[i] \in S
    BY <1>1, <1>2 DEF BestOf
  <2> QED
    BY <2>1, <2>2
<1>5. \A i \in DOMAIN s :
          /\ s[i] \in S
          /\ \A b \in S \ {s[i]} : CanonicalKey(b) = CanonicalKey(s[i]) => Better(s[i], b)
  BY <1>1, <1>2 DEF BestOf
<1> QED
  BY <1>2, <1>3, <1>4, <1>5

-----------------------------------------------------------------------------

\* The invariant holds of every reachable state.
THEOREM CatalogInvariant == Spec => []IInv
  BY InitHolds, StepKeepsIInv, PTL DEF Spec

\* Every member and local of the catalogs has its type, and only the thread
\* with the mutex of BlockCatalogService goes on with a load.
THEOREM TypeCorrect == Spec => []TypeOK
<1>1. IInv => TypeOK
  <2> SUFFICES ASSUME IInv PROVE TypeOK
    OBVIOUS
  <2>1. /\ \A s \in Services : mutex[s] \in Callers \cup {None}
        /\ \A c \in Callers :
               request[c].step \in {"locked", "loading"} => mutex[request[c].service] = c
        /\ load.step = "none" <=> \A c \in Callers : ~At(c, "blocks", "loading")
    BY DEF IInv, Requests, At
  <2>2. /\ load.todo \cup load.found \subseteq Blocks /\ load.todo \cap load.found = {}
        /\ load.got <= written /\ written <= PayloadParts
    BY LoadIs DEF IInv, Load
  <2>3. /\ load.step \in {"none", "next"} <=> load.block = None
        /\ load.block # None => process[load.block] # "none"
    BY CatalogAssumption DEF IInv, Load
  <2> QED
    BY <2>1, <2>2, <2>3 DEF IInv, Start, Cache, TypeOK
<1> QED
  BY CatalogInvariant, <1>1, PTL

\* The cached catalog has every block but those that something befell in the
\* load that filled it: no descriptor cut short, and none lost.
THEOREM CatalogIsWhole == Spec => []CatalogWhole
<1>1. IInv => CatalogWhole
  BY DEF IInv, Cache
<1> QED
  BY CatalogInvariant, <1>1, PTL

\* What the catalog shows to browse is one entry per canonical type, an alias
\* where there is one, and the entries are in order: cached_catalog's loop and
\* sorts are right for any registry.
THEOREM BrowseIsCollapsed == Spec => []BrowseCollapsed
<1>1. ASSUME IInv PROVE BrowseCollapsed
  <2> SUFFICES ASSUME cache["blocks"] # None PROVE BrowseCollapsed
    BY DEF BrowseCollapsed
  <2>1. PICK S \in SUBSET Blocks : cache["blocks"] = CachedCatalog(S)
    BY <1>1 DEF IInv, Cache, Catalogs
  <2> DEFINE browse == CachedCatalog(S).browse
  <2>2. cache["blocks"].exact = S /\ cache["blocks"].browse = browse
    BY <2>1 DEF CachedCatalog
  <2>3. /\ {CanonicalKey(b) : b \in S} = {CanonicalKey(browse[i]) : i \in DOMAIN browse}
        /\ \A i \in DOMAIN browse :
               /\ browse[i] \in S
               /\ \A b \in S \ {browse[i]} :
                      CanonicalKey(b) = CanonicalKey(browse[i]) => Better(browse[i], b)
               /\ \A j \in 1 .. (i - 1) :
                      j \in DOMAIN browse /\ Before(browse[j], browse[i])
    BY CatalogBrowse
  <2> HIDE DEF browse
  <2>4. \A i \in DOMAIN browse :
            IsImplementation(browse[i]) => SameType(S, browse[i]) = {browse[i]}
    <3>1. ASSUME NEW i \in DOMAIN browse, IsImplementation(browse[i]),
                 NEW b \in S \ {browse[i]}, CanonicalKey(b) = CanonicalKey(browse[i])
          PROVE  FALSE
      <4>1. IsImplementation(b)
        BY <2>3, <3>1 DEF Better
      <4>2. browse[i] = b
        BY <2>3, <3>1, <4>1, CatalogAssumption DEF IsImplementation, CanonicalKey
      <4> QED
        BY <3>1, <4>2
    <3> QED
      BY <2>3, <3>1 DEF SameType
  <2>5. \A i \in DOMAIN browse : \A j \in 1 .. (i - 1) :
            CanonicalKey(browse[j]) # CanonicalKey(browse[i])
    BY <2>3, BeforeIsOrder, BetterIsOrder
  <2> QED
    BY <2>2, <2>3, <2>4, <2>5 DEF BrowseCollapsed
<1> QED
  BY CatalogInvariant, <1>1, PTL

\* Whatever becomes of a child, of its pipe or of waitpid, none but the child
\* of the block in hand is in the kernel's table, and it only under a load
\* that goes on with the mutex held.
THEOREM EveryChildReaped == Spec => []ChildrenReaped
<1>1. ASSUME IInv PROVE ChildrenReaped
  <2>1. ASSUME NEW b \in Blocks, process[b] # "none"
        PROVE  load.block = b /\ \E c \in Callers :
                   mutex["blocks"] = c /\ At(c, "blocks", "loading")
    <3>1. load.block = b /\ load.step # "none"
      BY <1>1, <2>1, CatalogAssumption DEF IInv, Load
    <3>2. PICK c \in Callers : request[c].step = "loading"
      BY <1>1, <3>1 DEF IInv, Requests
    <3>3. mutex["blocks"] = c /\ At(c, "blocks", "loading")
      BY <1>1, <3>2 DEF IInv, Requests, At
    <3> QED
      BY <3>1, <3>3
  <2> QED
    BY <2>1 DEF ChildrenReaped
<1> QED
  BY CatalogInvariant, <1>1, PTL

\* A process that main.cpp started serves with both catalogs loaded; nobody
\* loads one, or gets an error from one, from then on.
THEOREM LoadedBeforeServing == Spec => []MainLoadsFirst
<1>1. IInv => MainLoadsFirst
  BY DEF IInv, Start
<1> QED
  BY CatalogInvariant, <1>1, PTL

=============================================================================
