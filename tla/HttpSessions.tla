---------------------------- MODULE HttpSessions ----------------------------
(***************************************************************************)
(* GET /sessions and GET /sessions/{id} of src/src/api/http_server.cpp.    *)
(*                                                                         *)
(* Both handlers put their answer together from several looks at the       *)
(* control plane: first the records (one critical section of the service), *)
(* then for each of them the active streams (another critical section and  *)
(* a call of the runtime manager). Lifecycle operations of other threads   *)
(* go on in between, and the threads that serve such requests have stream  *)
(* requests to serve as well. The settings requests, which change neither  *)
(* records nor bindings, are left to ControlPlane.tla.                     *)
(***************************************************************************)
EXTENDS ControlPlane

CONSTANT Readers        \* the threads that happen to serve GET requests

ASSUME ReadersAssumption == Readers \subseteq Workers

VARIABLE pages          \* the answer each thread is putting together

pageVars == <<vars, pages>>

\* todo: the sessions still to be looked up; shown: the state the answer gives,
\* "absent" for a session it does not list; streams: whether it gives streams.
\* touched is a history variable: the sessions of the answer that were in a
\* lifecycle operation at any time since the records were read.
NoPage ==
    [step |-> "none", todo |-> {}, shown |-> [id \in Sessions |-> "absent"],
     streams |-> {}, status |-> "none", touched |-> {}]

-----------------------------------------------------------------------------

InAnswer(page) == {id \in Sessions : page.shown[id] # "absent"}

Touched == {id \in Sessions : Service!Owners(id) # {} \/ Service!Owners(id)' # {}}

Watch ==
    pages' = [w \in Workers |->
        IF pages[w].step = "lookup"
        THEN [pages[w] EXCEPT !.touched = @ \cup (Touched \cap InAnswer(pages[w]))]
        ELSE pages[w]]

\* list and get: a copy of the records.
ReadRecords(w, ids) ==
    /\ w \in Readers
    /\ tasks[w] = Service!Free
    /\ pages[w] = NoPage
    /\ pages' = [pages EXCEPT ![w] =
           [NoPage EXCEPT
               !.step = "lookup",
               !.todo = ids,
               !.shown = [id \in Sessions |->
                             IF id \in ids THEN repository[id].state ELSE "absent"],
               !.touched = {id \in ids : Service!Owners(id) # {}}]]
    /\ UNCHANGED vars

GetSession(w, id) == Service!Exists(id) /\ ReadRecords(w, {id})

ListSessions(w) == ReadRecords(w, {id \in Sessions : Service!Exists(id)})

Looking(w) == tasks[w] = Service!Free /\ pages[w].step = "lookup"

\* active_stream_plan: a session that is gone by now fails the whole request,
\* one that is not running has no streams, the others are asked for theirs.
LookUpGone(w, id) ==
    /\ Looking(w)
    /\ ~Service!Exists(id)
    /\ pages' = [pages EXCEPT ![w].step = "answered", ![w].todo = {},
                              ![w].status = "not_found"]
    /\ UNCHANGED vars

LookUpNotRunning(w, id) ==
    /\ Looking(w)
    /\ Service!Exists(id)
    /\ repository[id].state # "running" \/ Service!PhaseFor(id) # "Running"
    /\ pages' = [pages EXCEPT ![w].todo = @ \ {id}]
    /\ UNCHANGED vars

LookUpRunning(w, id) ==
    /\ Looking(w)
    /\ Service!StreamBegin(w, "plan", id)
    /\ UNCHANGED runtimeVars
    /\ Watch

\* A mutant: the plan is not added to the answer.
BugKeepsNoStreams(w) ==
    /\ pages[w].step = "lookup"
    /\ LET id == tasks[w].id
       IN  pages' = [pages EXCEPT ![w].todo = @ \ {id}]
    /\ Return(w)

\* The plan the manager returned for the session.
TakePlan(w) ==
    /\ pages[w].step = "lookup"
    /\ LET id == tasks[w].id
       IN  pages' = [pages EXCEPT
               ![w].todo = @ \ {id},
               ![w].streams = IF calls[w].got # {} THEN @ \cup {id} ELSE @]
    /\ Return(w)

Answer(w) ==
    /\ Looking(w)
    /\ pages[w].todo = {}
    /\ pages' = [pages EXCEPT ![w].step = "answered", ![w].status = "ok"]
    /\ UNCHANGED vars

Send(w) ==
    /\ pages[w].step = "answered"
    /\ pages' = [pages EXCEPT ![w] = NoPage]
    /\ UNCHANGED vars

-----------------------------------------------------------------------------

\* POST and DELETE requests, by the other threads.
LifecycleBegin(w, id) ==
    /\ w \notin Readers
    /\ \/ Service!StartBegin(w, id)
       \/ Service!StopBegin(w, id)
       \/ Service!RestartBegin(w, id)
       \/ Service!RemoveBegin(w, id)
    /\ UNCHANGED runtimeVars

\* GET requests for one stream.
StreamRequest(w, id) ==
    /\ w \in Readers
    /\ pages[w] = NoPage
    /\ \E op \in {"fetch", "route"} : Service!StreamBegin(w, op, id)
    /\ UNCHANGED runtimeVars

\* Another request ends the process: see HttpStreamRoutes.tla.
ProcessEnds(w) ==
    /\ tasks[w] = Service!Free
    /\ pages[w] = NoPage
    /\ Restarted
    /\ pages' = [v \in Workers |-> NoPage]

PageInit == Init /\ pages = [w \in Workers |-> NoPage]

Requests ==
    \/ \E id \in Sessions : Create(id) /\ Watch
    \/ \E w \in Workers :
           \/ \E id \in Sessions :
                  \/ LifecycleBegin(w, id) /\ Watch
                  \/ StreamRequest(w, id) /\ Watch
                  \/ GetSession(w, id)
           \/ \E id \in pages[w].todo :
                  \/ LookUpGone(w, id)
                  \/ LookUpNotRunning(w, id)
                  \/ LookUpRunning(w, id)
           \/ ListSessions(w)
           \/ Call(w) /\ Watch
           \/ RuntimeStep(w) /\ Watch
           \/ Return(w) /\ pages[w] = NoPage /\ Watch
           \/ TakePlan(w)
           \/ Commit(w) /\ Watch
           \/ Answer(w)
           \/ Send(w)

PageNext == Requests \/ \E w \in Workers : ProcessEnds(w)

PageSpec == PageInit /\ [][PageNext]_pageVars

-----------------------------------------------------------------------------
(* Properties *)

PageTypeOK ==
    /\ TypeOK
    /\ pages \in [Workers ->
           [step : {"none", "lookup", "answered"}, todo : SUBSET Sessions,
            shown : [Sessions -> Service!States \cup {"absent"}],
            streams : SUBSET Sessions, status : {"none", "ok", "not_found"},
            touched : SUBSET Sessions]]
    /\ \A w \in Workers :
           /\ pages[w].streams \cup pages[w].todo \subseteq InAnswer(pages[w])
           /\ pages[w].step = "answered" => pages[w].todo = {}

\* An answer is consistent about every session that is left alone while it is
\* put together: streams are given only of a session that is shown running, and
\* of each such session that has some; the request does not fail because of it.
LeftAloneShownRight ==
    \A w \in Workers :
        pages[w].step = "answered" =>
            /\ pages[w].status = "not_found" => pages[w].touched # {}
            /\ pages[w].status = "ok" =>
                   \A id \in Sessions \ pages[w].touched :
                       /\ id \in pages[w].streams => pages[w].shown[id] = "running"
                       /\ pages[w].shown[id] = "running" /\ Authored[id] # {} =>
                              id \in pages[w].streams

\* What README.md and docs/design.md say of every answer: streams are given
\* only for a session that is (shown) running.
StreamsOnlyForRunning ==
    \A w \in Workers :
        pages[w].step = "answered" =>
            \A id \in pages[w].streams : pages[w].shown[id] = "running"

=============================================================================
