------------------------ MODULE GraphLifecycleProofs ------------------------
(***************************************************************************)
(* Theorems about GraphLifecycle, for any canvases and any number of       *)
(* requests and loads.                                                     *)
(***************************************************************************)
EXTENDS GraphLifecycle, FiniteSetTheorems, TLAPS

-----------------------------------------------------------------------------
(* Documents and types *)

(* The canvases that validate are canvases, none of them is None, and each  *)
(* canvas has its nodes.                                                    *)
LEMMA CanvasFacts ==
    /\ Valid \subseteq Canvases /\ None \notin Canvases \cup Requests
    /\ DOMAIN NodesOf = Canvases
BY CanvasAssumption DEF Valid, NodesOf

(* A single orchestrator is the root of the search for orphans. *)
LEMMA SingleRoot ==
    ASSUME NEW d \in Documents, Cardinality(Orchestrators(d)) = 1
    PROVE  Orchestrators(d) = {Root(d)} /\ Root(d) \in DOMAIN d.nodes
<1>1. IsFiniteSet(DOMAIN d.nodes) /\ DOMAIN d.nodes \subseteq Nat
  BY FS_Interval DEF Documents
<1>2. IsFiniteSet(Orchestrators(d)) /\ Orchestrators(d) \subseteq Nat
  BY <1>1, FS_Subset DEF Orchestrators
<1>3. PICK o : Orchestrators(d) = {o}
  BY <1>2, FS_Singleton
<1>4. o <= o
  BY <1>2, <1>3
<1>5. Root(d) = o
  BY <1>3, <1>4 DEF Root
<1> QED
  BY <1>3, <1>5 DEF Orchestrators

(* A document without errors is a team as the engines assume it. *)
LEMMA ValidIsTeam ==
    ASSUME NEW d \in Valid
    PROVE  IsTeam(d)
<1>1. d \in Documents /\ validate_dsl(d) = {}
  BY CanvasAssumption DEF Valid
<1>2. \A code \in ErrorCodes : ~HasError(d, code)
  BY <1>1 DEF validate_dsl
<1>3. Cardinality(Orchestrators(d)) = 1
  BY <1>2 DEF HasError, ErrorCodes
<1>4. Orchestrators(d) = {Root(d)} /\ Root(d) \in DOMAIN d.nodes
  BY <1>1, <1>3, SingleRoot
<1>5. d.nodes[Root(d)].key = d.orchestrator
  BY <1>2, <1>4 DEF HasError, ErrorCodes
<1>6. d.orchestrator \in NodeKeys(d)
  BY <1>4, <1>5 DEF NodeKeys
<1>7. ~UnknownEndpoint(d)
  BY <1>2 DEF HasError, ErrorCodes
<1>8. \A k \in NodeKeys(d) : reviewers_for(d, k) \subseteq NodeKeys(d) \ {k}
  BY <1>1, <1>7 DEF UnknownEndpoint, reviewers_for, Documents
<1>9. Reachable(d, d.orchestrator) = NodeKeys(d)
  BY <1>2, <1>4, <1>5, <1>7 DEF HasError, ErrorCodes
<1>10. ASSUME NEW S \in SUBSET NodeKeys(d), d.orchestrator \in S, Closed(d, S)
       PROVE  S = NodeKeys(d)
  BY <1>9, <1>10 DEF Reachable
<1> QED
  BY <1>6, <1>8, <1>10 DEF IsTeam

(* A valid team of more than one node has edges, which the compilation that *)
(* replaces it deletes, and so locks, before it reads the nodes.            *)
LEMMA TeamsHaveEdges ==
    ASSUME NEW d \in Valid, d.edges = <<>>
    PROVE  NodeKeys(d) = {d.orchestrator}
<1>1. Closed(d, {d.orchestrator})
  BY DEF Closed
<1>2. d.orchestrator \in NodeKeys(d)
  BY ValidIsTeam DEF IsTeam
<1> QED
  BY <1>1, <1>2, ValidIsTeam DEF IsTeam

(* What a request that is under way holds. *)
LEMMA ActiveRequest ==
    ASSUME TypeOK, NEW q \in Requests, request[q].pc \in Active
    PROVE  /\ request[q].call \in Calls
           /\ request[q].saw \in Graph
           /\ request[q].nodes \in SUBSET Nodes
           /\ request[q].sessions \in SUBSET Requests
           /\ request[q] \in [pc : Active \cup {"done"}, call : Calls, saw : Graph,
                              nodes : SUBSET Nodes, sessions : SUBSET Requests]
<1>1. request[q] \in RequestState
  BY DEF TypeOK
<1>2. request[q] \notin [pc : {"idle"}]
  BY DEF Active
<1> QED
  BY <1>1, <1>2 DEF RequestState

(* Only a save and a compilation name a canvas. *)
LEMMA CallKinds ==
    ASSUME NEW call \in Calls
    PROVE  /\ call.kind \in {"save", "compile"} => call.canvas \in Canvases
           /\ call.kind \in {"save", "compile", "publish", "unpublish", "delete", "force_delete",
                             "open", "patch_persona"}
BY DEF Calls

(* A request stays well typed when only its label changes. *)
LEMMA GotoTyped ==
    ASSUME TypeOK, NEW q \in Requests, request[q].pc \in Active,
           NEW label \in Active \cup {"done"}, Goto(q, label)
    PROVE  request' \in [Requests -> RequestState]
<1>1. [request[q] EXCEPT !.pc = label] \in RequestState
  BY ActiveRequest DEF RequestState
<1> QED
  BY <1>1 DEF TypeOK, Goto

(* A request whose label alone changes keeps what it has read. *)
LEMMA GotoKeeps ==
    ASSUME TypeOK, NEW q \in Requests, request[q].pc \in Active,
           NEW label \in Active \cup {"done"}, Goto(q, label), NEW r \in Requests
    PROVE  /\ r # q => request'[r] = request[r]
           /\ r = q => /\ request'[r].pc = label
                       /\ request'[r].call = request[r].call
                       /\ request'[r].saw = request[r].saw
                       /\ request'[r].nodes = request[r].nodes
                       /\ request'[r].sessions = request[r].sessions
BY ActiveRequest DEF TypeOK, Goto

(* The canvas a request wants is well typed. *)
LEMMA WantedTyped ==
    ASSUME TypeOK, NEW q \in Requests, request[q].pc \in Active
    PROVE  Wanted(q) \in Graph
<1>1. request[q].saw \in Graph
  BY ActiveRequest
<1>2. request[q].call \in Calls
  BY ActiveRequest
<1>3. Kind(q) \in {"save", "compile"} => Canvas(q) \in Canvases
  BY <1>2, CallKinds DEF Kind, Canvas
<1>4. Kind(q) = "save" => AfterSave(request[q].saw, Canvas(q)) \in Graph
  BY <1>1, <1>3 DEF AfterSave, Graph
<1>5. ASSUME Kind(q) = "compile"
      PROVE  AfterCompile(request[q].saw, Canvas(q)) \in Graph
  <2>1. Canvas(q) \in Canvases /\ request[q].saw.version + 1 \in Nat
    BY <1>1, <1>3, <1>5 DEF Graph
  <2>2. [request[q].saw EXCEPT !.status = "draft", !.dsl = Canvas(q)] \in Graph
    BY <1>1, <2>1 DEF Graph
  <2>3. [status |-> "compiled", dsl |-> Canvas(q), version |-> request[q].saw.version + 1] \in Graph
    BY <2>1 DEF Graph
  <2> QED
    BY <2>2, <2>3 DEF AfterCompile
<1>6. /\ [request[q].saw EXCEPT !.status = "published"] \in Graph
      /\ [request[q].saw EXCEPT !.status = "compiled"] \in Graph
  BY <1>1 DEF Graph
<1> QED
  BY <1>1, <1>4, <1>5, <1>6 DEF Wanted

(* Writing the changed columns over a row, column by column. *)
LEMMA MergedColumns ==
    ASSUME NEW row \in Graph, NEW saw \in Graph, NEW wanted \in Graph
    PROVE  /\ Merged(row, saw, wanted) \in Graph
           /\ row = saw => Merged(row, saw, wanted) = wanted
<1>1. DOMAIN row = {"status", "dsl", "version"}
  BY DEF Graph
<1>2. Merged(row, saw, wanted) =
        [status |-> IF wanted.status # saw.status THEN wanted.status ELSE row.status,
         dsl |-> IF wanted.dsl # saw.dsl THEN wanted.dsl ELSE row.dsl,
         version |-> IF wanted.version # saw.version THEN wanted.version ELSE row.version]
  BY <1>1 DEF Merged
<1>3. Merged(row, saw, wanted) \in Graph
  BY <1>2 DEF Graph
<1>4. ASSUME row = saw
      PROVE  Merged(row, saw, wanted) = wanted
  <2>1. wanted = [status |-> wanted.status, dsl |-> wanted.dsl, version |-> wanted.version]
    BY DEF Graph
  <2> QED
    BY <1>2, <1>4, <2>1
<1> QED
  BY <1>3, <1>4

-----------------------------------------------------------------------------
(* The steps, one lemma for each *)

(* A canvas just created. *)
LEMMA InitEstablishes == Init => IInv
<1> SUFFICES ASSUME Init PROVE IInv
  OBVIOUS
<1>1. /\ exists = TRUE /\ sessions = {} /\ cache = None
      /\ raced = FALSE /\ leaked = FALSE
      /\ locks = [l \in {"row", "edges"} |-> None]
      /\ request = [q \in Requests |-> [pc |-> "idle"]]
      /\ load = [l \in Loads |-> [pc |-> "idle", dsl |-> None]]
  BY DEF Init
<1> DEFINE Typed == /\ graph \in Graph /\ rows \subseteq Nodes
                    /\ ready_ever \subseteq Canvases /\ compilations \in Nat
           Fresh == /\ graph.version = 1 + compilations /\ ready_ever \subseteq Valid
                    /\ Ready(graph) => /\ graph.dsl \in Valid /\ rows = NodesOf[graph.dsl]
                                       /\ graph.dsl \in ready_ever
<1>2. Typed /\ Fresh
  <2>1. ASSUME NEW d \in (Canvases \ Valid) \cup {None},
               graph = [status |-> "draft", dsl |-> d, version |-> 1],
               rows = {}, ready_ever = {}, compilations = 0
        PROVE  Typed /\ Fresh
    BY <2>1 DEF Graph, Ready
  <2>2. ASSUME NEW d \in Valid,
               graph = [status |-> "compiled", dsl |-> d, version |-> 2],
               rows = NodesOf[d], ready_ever = {d}, compilations = 1
        PROVE  Typed /\ Fresh
    BY <2>2, CanvasFacts DEF Graph, Ready, Nodes
  <2> QED
    BY <2>1, <2>2 DEF Init
<1>3. request \in [Requests -> RequestState]
  BY <1>1 DEF RequestState
<1>4. load \in [Loads -> LoadState]
  BY <1>1 DEF LoadState
<1>5. TypeOK
  BY <1>1, <1>2, <1>3, <1>4 DEF TypeOK
<1>6. OnceReady
  BY <1>1, <1>2 DEF OnceReady, OnlyOnceReady
<1>7. ReadyIsMaterialised /\ VersionCountsCompilations /\ OnlyValidatedReady
  BY <1>2 DEF ReadyIsMaterialised, VersionCountsCompilations, OnlyValidatedReady
<1>8. SawInOrder
  BY <1>1 DEF SawInOrder, Active
<1>9. Drawn
  BY <1>1, <1>2, CanvasFacts DEF Drawn, Active
<1>10. GapIsEmpty /\ CopyIsCurrent
  BY <1>1 DEF GapIsEmpty, CopyIsCurrent
<1> QED
  BY <1>5, <1>6, <1>7, <1>8, <1>9, <1>10 DEF IInv

(* A step that only moves a request, and does not make a compilation of it  *)
(* that has not read the nodes, keeps what requests have seen in order.     *)
LEMMA GotoKeepsOrder ==
    ASSUME IInv, NEW q \in Requests, request[q].pc \in Active,
           NEW label \in Active \cup {"done"}, Goto(q, label),
           UNCHANGED <<exists, graph, rows, raced>>,
           label \in Active /\ Compiles(q) => request[q].pc # "open"
    PROVE  SawInOrder' /\ Drawn'
<1>1. TypeOK /\ SawInOrder /\ Drawn
  BY DEF IInv
<1>2. ASSUME NEW r \in Requests, request'[r].pc \in Active
      PROVE  /\ request[r].pc \in Active
             /\ request'[r].saw = request[r].saw /\ request'[r].nodes = request[r].nodes
             /\ Compiles(r)' = Compiles(r) /\ Kind(r)' = Kind(r)
             /\ Compiles(r) /\ request'[r].pc # "open" => request[r].pc # "open"
  BY <1>1, <1>2, GotoKeeps DEF Compiles, Kind, Canvas
<1> QED
  BY <1>1, <1>2 DEF SawInOrder, Drawn, Ready

(* A step that does not bring a compilation to its invalidation. *)
LEMMA GotoKeepsGap ==
    ASSUME IInv, NEW q \in Requests, request[q].pc \in Active,
           NEW label \in Active \cup {"done"}, Goto(q, label),
           label = "invalidated" => ~Compiles(q),
           UNCHANGED <<cache, leaked>>
    PROVE  GapIsEmpty'
<1>1. ASSUME NEW r \in Requests, request'[r].pc = "invalidated", Compiles(r)'
      PROVE  request[r].pc = "invalidated" /\ Compiles(r)
  BY <1>1, GotoKeeps DEF IInv, Compiles, Kind, Canvas
<1> QED
  BY <1>1 DEF IInv, GapIsEmpty

(* A step that leaves the canvas, the copy and the loads alone. *)
LEMMA CanvasUntouched ==
    ASSUME IInv,
           UNCHANGED <<exists, graph, rows, cache, load, ready_ever, compilations, raced, leaked>>
    PROVE  /\ OnceReady' /\ ReadyIsMaterialised' /\ VersionCountsCompilations'
           /\ OnlyValidatedReady' /\ CopyIsCurrent'
BY DEF IInv, OnceReady, OnlyOnceReady, ReadyIsMaterialised, VersionCountsCompilations,
       OnlyValidatedReady, CopyIsCurrent, Ready

(* Locks stay with requests. *)
LEMMA ReleasedTyped ==
    ASSUME TypeOK, NEW q \in Requests
    PROVE  Released(q) \in [{"row", "edges"} -> Requests \cup {None}]
BY DEF TypeOK, Released

(* A request that reads the row as it is has seen the latest version. *)
LEMMA BeginStep ==
    ASSUME IInv, NEW q \in Requests, Begin(q)
    PROVE  IInv'
<1>1. TypeOK /\ SawInOrder /\ Drawn
  BY DEF IInv
<1>2. PICK call \in Calls :
        /\ Admitted(call.kind)
        /\ request' = [request EXCEPT ![q] = [pc |-> "open", call |-> call, saw |-> graph,
                                              nodes |-> rows, sessions |-> sessions]]
  BY DEF Begin
<1>3. UNCHANGED <<database, cache, locks, load, history>>
  BY DEF Begin
<1>4. request' \in [Requests -> RequestState]
  <2>1. [pc |-> "open", call |-> call, saw |-> graph, nodes |-> rows, sessions |-> sessions]
          \in RequestState
    BY <1>1 DEF RequestState, TypeOK, Active
  <2> QED
    BY <1>1, <1>2, <2>1 DEF TypeOK
<1>5. TypeOK'
  BY <1>1, <1>3, <1>4 DEF TypeOK, database, history
<1>6. /\ OnceReady' /\ ReadyIsMaterialised' /\ VersionCountsCompilations'
      /\ OnlyValidatedReady' /\ CopyIsCurrent'
  BY <1>3, CanvasUntouched DEF database, history
<1>7. SawInOrder'
  <2>1. UNCHANGED <<exists, graph, rows, raced>> /\ graph.version \in Nat
    BY <1>1, <1>3 DEF database, history, TypeOK, Graph
  <2>2. \A r \in Requests : r # q => request'[r] = request[r] /\ Compiles(r)' = Compiles(r)
    BY <1>1, <1>2 DEF TypeOK, Compiles, Kind, Canvas
  <2>3. request'[q].pc = "open" /\ request'[q].saw = graph
    BY <1>1, <1>2 DEF TypeOK
  <2> QED
    BY <1>1, <2>1, <2>2, <2>3 DEF SawInOrder
<1>8. Drawn'
  <2>1. \A r \in Requests : r # q => request'[r] = request[r] /\ Kind(r)' = Kind(r)
    BY <1>1, <1>2 DEF TypeOK, Kind
  <2>2. request'[q].saw = graph /\ Kind(q)' = call.kind
    BY <1>1, <1>2 DEF TypeOK, Kind
  <2>3. call.kind \in {"publish", "unpublish"} => Ready(graph)
    BY <1>2 DEF Admitted, Ready
  <2> QED
    BY <1>1, <1>3, <2>1, <2>2, <2>3 DEF Drawn, Ready, database
<1>9. GapIsEmpty'
  <2>1. \A r \in Requests : r # q => request'[r] = request[r] /\ Compiles(r)' = Compiles(r)
    BY <1>1, <1>2 DEF TypeOK, Compiles, Kind, Canvas
  <2>2. request'[q].pc = "open"
    BY <1>1, <1>2 DEF TypeOK
  <2> QED
    BY <1>3, <2>1, <2>2 DEF IInv, GapIsEmpty, history
<1> QED
  BY <1>5, <1>6, <1>7, <1>8, <1>9 DEF IInv

(* A compilation reads the nodes: if its version is still the latest, they  *)
(* are those the latest compilation wrote.                                  *)
LEMMA ReadNodesStep ==
    ASSUME IInv, NEW q \in Requests, ReadNodes(q)
    PROVE  IInv'
<1>1. TypeOK /\ SawInOrder /\ Drawn
  BY DEF IInv
<1>2. /\ request[q].pc = "open" /\ Compiles(q)
      /\ request' = [request EXCEPT ![q].pc = "read", ![q].nodes = rows]
      /\ UNCHANGED <<database, cache, load, history>>
  BY DEF ReadNodes
<1>3. request[q].pc \in Active
  BY <1>2 DEF Active
<1>4. locks' \in [{"row", "edges"} -> Requests \cup {None}]
  BY <1>1 DEF ReadNodes, TypeOK
<1>5. request' \in [Requests -> RequestState]
  <2>1. [request[q] EXCEPT !.pc = "read", !.nodes = rows] \in RequestState
    BY <1>1, <1>3, ActiveRequest DEF RequestState, TypeOK, Active
  <2> QED
    BY <1>1, <1>2, <2>1 DEF TypeOK
<1>6. TypeOK'
  BY <1>1, <1>2, <1>4, <1>5 DEF TypeOK, database, history
<1>7. /\ OnceReady' /\ ReadyIsMaterialised' /\ VersionCountsCompilations'
      /\ OnlyValidatedReady' /\ CopyIsCurrent'
  BY <1>2, CanvasUntouched DEF database, history
<1>8. SawInOrder'
  <2>1. UNCHANGED <<exists, graph, rows, raced>>
    BY <1>2 DEF database, history
  <2>2. \A r \in Requests : r # q => request'[r] = request[r] /\ Compiles(r)' = Compiles(r)
    BY <1>1, <1>2 DEF TypeOK, Compiles, Kind, Canvas
  <2>3. request'[q].nodes = rows /\ request'[q].saw = request[q].saw
    BY <1>1, <1>2, <1>3, ActiveRequest DEF TypeOK
  <2> QED
    BY <1>1, <1>3, <2>1, <2>2, <2>3 DEF SawInOrder
<1>9. Drawn'
  <2>1. \A r \in Requests : r # q => request'[r] = request[r] /\ Kind(r)' = Kind(r)
    BY <1>1, <1>2 DEF TypeOK, Kind
  <2>2. request'[q].saw = request[q].saw /\ Kind(q)' = Kind(q)
    BY <1>1, <1>2, <1>3, ActiveRequest DEF TypeOK, Kind
  <2> QED
    BY <1>1, <1>2, <1>3, <2>1, <2>2 DEF Drawn, Ready, database
<1>10. GapIsEmpty'
  <2>1. \A r \in Requests : r # q => request'[r] = request[r] /\ Compiles(r)' = Compiles(r)
    BY <1>1, <1>2 DEF TypeOK, Compiles, Kind, Canvas
  <2>2. request'[q].pc = "read"
    BY <1>1, <1>2, <1>3, ActiveRequest DEF TypeOK
  <2> QED
    BY <1>2, <2>1, <2>2 DEF IInv, GapIsEmpty, history
<1> QED
  BY <1>6, <1>7, <1>8, <1>9, <1>10 DEF IInv

(* The row's lock changes hands; nothing that is committed changes. *)
LEMMA FlushStep ==
    ASSUME IInv, NEW q \in Requests, Flush(q)
    PROVE  IInv'
<1>1. TypeOK
  BY DEF IInv
<1>2. /\ request[q].pc \in Active /\ Goto(q, "flushed")
      /\ Compiles(q) => request[q].pc # "open"
      /\ locks' = [locks EXCEPT !["row"] = q]
      /\ UNCHANGED <<database, cache, load, history>>
  BY DEF Flush, Active, Edits, Compiles
<1>3. "flushed" \in Active
  BY DEF Active
<1>4. request' \in [Requests -> RequestState]
  BY <1>1, <1>2, <1>3, GotoTyped
<1>5. locks' \in [{"row", "edges"} -> Requests \cup {None}]
  BY <1>1, <1>2 DEF TypeOK
<1>6. TypeOK'
  BY <1>1, <1>2, <1>4, <1>5 DEF TypeOK, database, history
<1>7. /\ OnceReady' /\ ReadyIsMaterialised' /\ VersionCountsCompilations'
      /\ OnlyValidatedReady' /\ CopyIsCurrent'
  BY <1>2, CanvasUntouched DEF database, history
<1>8. SawInOrder' /\ Drawn'
  BY <1>2, <1>3, GotoKeepsOrder DEF database, history
<1>9. GapIsEmpty'
  BY <1>2, <1>3, GotoKeepsGap DEF history
<1> QED
  BY <1>6, <1>7, <1>8, <1>9 DEF IInv

(* The copy goes, or the failure to delete it is on record. *)
LEMMA InvalidateStep ==
    ASSUME IInv, NEW q \in Requests, Invalidate(q)
    PROVE  IInv'
<1>1. TypeOK /\ OnceReady /\ ReadyIsMaterialised /\ VersionCountsCompilations /\ OnlyValidatedReady
  BY DEF IInv
<1>2. /\ request[q].pc \in Active /\ Goto(q, "invalidated")
      /\ Compiles(q) => request[q].pc # "open"
      /\ \/ cache' = None /\ UNCHANGED leaked
         \/ cache' = cache /\ leaked' = TRUE
      /\ UNCHANGED <<database, locks, load, ready_ever, compilations, raced>>
  BY DEF Invalidate, Active, Compiles, CopyAfterDelete
<1>3. "invalidated" \in Active
  BY DEF Active
<1>4. request' \in [Requests -> RequestState]
  BY <1>1, <1>2, <1>3, GotoTyped
<1>5. TypeOK'
  BY <1>1, <1>2, <1>4 DEF TypeOK, database
<1>6. OnceReady' /\ ReadyIsMaterialised' /\ VersionCountsCompilations' /\ OnlyValidatedReady'
  BY <1>1, <1>2
  DEF OnceReady, OnlyOnceReady, ReadyIsMaterialised, VersionCountsCompilations,
      OnlyValidatedReady, Ready, database
<1>7. SawInOrder' /\ Drawn'
  BY <1>2, <1>3, GotoKeepsOrder DEF database
<1>8. GapIsEmpty' /\ CopyIsCurrent'
  BY <1>2 DEF IInv, GapIsEmpty, CopyIsCurrent, Ready, database
<1> QED
  BY <1>5, <1>6, <1>7, <1>8 DEF IInv

(* Requests that end without writing the canvas. *)
LEMMA EndingStep ==
    ASSUME IInv, NEW q \in Requests, CommitPersona(q) \/ OpenSession(q) \/ RollBack(q)
    PROVE  IInv'
<1>1. TypeOK
  BY DEF IInv
<1>2. /\ request[q].pc \in Active /\ Goto(q, "done")
      /\ UNCHANGED <<exists, graph, rows, cache, load, history>>
  BY DEF CommitPersona, OpenSession, RollBack, Active, database
<1>3. "done" \notin Active
  BY DEF Active
<1>4. request' \in [Requests -> RequestState]
  BY <1>1, <1>2, GotoTyped
<1>5. locks' \in [{"row", "edges"} -> Requests \cup {None}] /\ sessions' \subseteq Requests
  BY <1>1, ReleasedTyped DEF CommitPersona, OpenSession, RollBack, database, TypeOK
<1>6. TypeOK'
  BY <1>1, <1>2, <1>4, <1>5 DEF TypeOK, history
<1>7. /\ OnceReady' /\ ReadyIsMaterialised' /\ VersionCountsCompilations'
      /\ OnlyValidatedReady' /\ CopyIsCurrent'
  BY <1>2, CanvasUntouched DEF history
<1>8. SawInOrder' /\ Drawn'
  BY <1>2, <1>3, GotoKeepsOrder DEF history
<1>9. GapIsEmpty'
  BY <1>2, GotoKeepsGap DEF history
<1> QED
  BY <1>6, <1>7, <1>8, <1>9 DEF IInv

(* A deleted canvas makes no promise, and what was loaded from it was ready. *)
LEMMA DeleteStep ==
    ASSUME IInv, NEW q \in Requests, Delete(q)
    PROVE  IInv'
<1>1. TypeOK /\ OnceReady /\ VersionCountsCompilations /\ OnlyValidatedReady /\ SawInOrder /\ Drawn
  BY DEF IInv
<1>2. /\ request[q].pc \in Active /\ Goto(q, "done")
      /\ exists' = FALSE /\ rows' = {} /\ sessions' = {}
      /\ UNCHANGED <<graph, cache, locks, load, history>>
  BY DEF Delete, Active
<1>3. request' \in [Requests -> RequestState]
  BY <1>1, <1>2, GotoTyped
<1>4. TypeOK'
  BY <1>1, <1>2, <1>3 DEF TypeOK, history
<1>5. OnceReady' /\ ReadyIsMaterialised' /\ VersionCountsCompilations' /\ OnlyValidatedReady'
  BY <1>1, <1>2
  DEF OnceReady, OnlyOnceReady, ReadyIsMaterialised, VersionCountsCompilations,
      OnlyValidatedReady, Ready, history
<1>6. SawInOrder' /\ Drawn'
  <2>1. ASSUME NEW r \in Requests, request'[r].pc \in Active
        PROVE  /\ request[r].pc \in Active /\ request'[r].saw = request[r].saw
               /\ Kind(r)' = Kind(r)
    BY <1>1, <1>2, <2>1, GotoKeeps DEF Kind
  <2> QED
    BY <1>1, <1>2, <2>1 DEF SawInOrder, Drawn, Ready, history
<1>7. GapIsEmpty'
  BY <1>2, GotoKeepsGap DEF history
<1>8. CopyIsCurrent'
  BY <1>2 DEF CopyIsCurrent
<1> QED
  BY <1>4, <1>5, <1>6, <1>7, <1>8 DEF IInv

(* What a request that has seen the latest row makes of it. *)
LEMMA WantedFromLatest ==
    ASSUME IInv, NEW q \in Requests, request[q].pc \in Active, graph = request[q].saw,
           Edits(q) \/ Compiles(q)
    PROVE  /\ Compiles(q) => Wanted(q) = [status |-> "compiled", dsl |-> Canvas(q),
                                          version |-> graph.version + 1]
           /\ ~Compiles(q) => /\ Wanted(q).version = graph.version
                              /\ Ready(Wanted(q)) =>
                                   Wanted(q).dsl = graph.dsl /\ Kind(q) \in {"publish", "unpublish"}
<1>1. graph \in Graph /\ request[q].call \in Calls
  BY ActiveRequest DEF IInv
<1>2. CASE Compiles(q)
  BY <1>2 DEF Compiles, Wanted, AfterCompile
<1>3. CASE Kind(q) = "save"
  <2>1. Wanted(q) = AfterSave(graph, Canvas(q)) /\ ~Compiles(q)
    BY <1>3 DEF Wanted, Compiles
  <2>2. /\ Wanted(q).version = graph.version
        /\ Wanted(q).status = IF Ready(graph) THEN "draft" ELSE graph.status
    BY <1>1, <2>1 DEF AfterSave, Graph
  <2> QED
    BY <2>1, <2>2 DEF Ready
<1>4. CASE Kind(q) = "compile" /\ ~Compiles(q)
  <2>1. Wanted(q) = [graph EXCEPT !.status = "draft", !.dsl = Canvas(q)]
    BY <1>4 DEF Wanted, AfterCompile, Compiles
  <2> QED
    BY <1>1, <1>4, <2>1 DEF Ready, Graph
<1>5. CASE Kind(q) \in {"publish", "unpublish"}
  <2>1. \/ Wanted(q) = [graph EXCEPT !.status = "published"]
        \/ Wanted(q) = [graph EXCEPT !.status = "compiled"]
    BY <1>5 DEF Wanted
  <2>2. ~Compiles(q)
    BY <1>5 DEF Compiles
  <2> QED
    BY <1>1, <1>5, <2>1, <2>2 DEF Graph
<1> QED
  BY <1>2, <1>3, <1>4, <1>5 DEF Edits

(* Without a race the columns written over the row are over the row that    *)
(* was read, so the whole row is the one wanted; the nodes are rebuilt from *)
(* those that were there; and a compilation's copy is gone by then.         *)
LEMMA CommitStep ==
    ASSUME IInv, NEW q \in Requests, Commit(q)
    PROVE  IInv'
<1> DEFINE saw == request[q].saw
<1>1. /\ TypeOK /\ Drawn /\ OnceReady /\ ReadyIsMaterialised /\ VersionCountsCompilations
      /\ OnlyValidatedReady /\ SawInOrder
  BY DEF IInv
<1>2. /\ request[q].pc \in Active /\ Goto(q, "done")
      /\ Edits(q) \/ (Compiles(q) /\ request[q].pc = "invalidated")
      /\ graph' = Merged(graph, saw, Wanted(q))
      /\ rows' = IF Compiles(q) THEN Rebuilt(q) ELSE rows
      /\ locks' = Released(q)
      /\ ready_ever' = IF Ready(graph') THEN ready_ever \cup {graph'.dsl} ELSE ready_ever
      /\ compilations' = IF Compiles(q) THEN compilations + 1 ELSE compilations
      /\ raced' = (raced \/ graph # saw)
      /\ UNCHANGED <<exists, sessions, cache, load, leaked>>
  BY DEF Commit, Active
<1>3. /\ graph \in Graph /\ saw \in Graph /\ Wanted(q) \in Graph /\ graph' \in Graph
      /\ request[q].call \in Calls
  BY <1>1, <1>2, ActiveRequest, WantedTyped, MergedColumns DEF TypeOK
<1>4. Kind(q) \in {"save", "compile"} => Canvas(q) \in Canvases
  BY <1>3, CallKinds DEF Kind, Canvas
<1>5. graph'.dsl \in Canvases
  <2>1. graph'.dsl = IF Wanted(q).dsl # saw.dsl THEN Wanted(q).dsl ELSE graph.dsl
    BY <1>2, <1>3 DEF Merged, Graph
  <2>2. CASE Kind(q) \in {"save", "compile"}
    <3>1. Wanted(q).dsl = Canvas(q)
      BY <1>3, <2>2 DEF Wanted, AfterSave, AfterCompile, Graph
    <3>2. saw.dsl = Canvas(q) => graph.dsl # None
      BY <1>1, <1>2, <1>4, <2>2, CanvasFacts DEF Drawn
    <3> QED
      BY <1>3, <1>4, <2>1, <2>2, <3>1, <3>2 DEF Graph
  <2>3. CASE Kind(q) \in {"publish", "unpublish"}
    <3>1. Wanted(q).dsl = saw.dsl
      BY <1>3, <2>3 DEF Wanted, Graph
    <3>2. graph.dsl # None
      BY <1>1, <1>2, <2>3 DEF Drawn
    <3> QED
      BY <1>3, <2>1, <3>1, <3>2 DEF Graph
  <2> QED
    BY <1>2, <2>2, <2>3 DEF Edits, Compiles
<1>6. TypeOK'
  <2>1. request' \in [Requests -> RequestState]
    BY <1>1, <1>2, GotoTyped
  <2>2. rows' \subseteq Nodes
    BY <1>1, <1>2, <1>4 DEF TypeOK, Rebuilt, Nodes, Compiles
  <2>3. ready_ever' \subseteq Canvases /\ compilations' \in Nat /\ raced' \in BOOLEAN
    BY <1>1, <1>2, <1>5 DEF TypeOK
  <2> QED
    BY <1>1, <1>2, <1>3, <2>1, <2>2, <2>3, ReleasedTyped DEF TypeOK
<1>7. OnceReady'
  BY <1>1, <1>2 DEF OnceReady, OnlyOnceReady
<1>8. "done" \notin Active
  BY DEF Active
<1>9. ASSUME NEW r \in Requests, request'[r].pc \in Active
      PROVE  /\ r # q /\ request'[r] = request[r]
             /\ Kind(r)' = Kind(r) /\ Compiles(r)' = Compiles(r)
  BY <1>1, <1>2, <1>8, <1>9, GotoKeeps DEF Kind, Canvas, Compiles
<1>10. Drawn'
  BY <1>1, <1>5, <1>9, CanvasFacts DEF Drawn, Ready
<1>11. ASSUME ~raced'
       PROVE  /\ graph' = Wanted(q)
              /\ Compiles(q) => /\ graph' = [status |-> "compiled", dsl |-> Canvas(q),
                                             version |-> graph.version + 1]
                                /\ exists => rows' = NodesOf[Canvas(q)]
              /\ ~Compiles(q) => /\ graph'.version = graph.version /\ rows' = rows
                                 /\ Ready(graph') => graph'.dsl = graph.dsl /\ Ready(graph)
  <2>1. ~raced /\ graph = saw
    BY <1>2, <1>11
  <2>2. graph' = Wanted(q)
    BY <1>2, <1>3, <2>1, MergedColumns
  <2>3. CASE Compiles(q)
    <3>1. exists => rows = request[q].nodes
      BY <1>1, <1>2, <2>1, <2>3 DEF SawInOrder, Edits, Compiles
    <3> QED
      BY <1>2, <2>1, <2>2, <2>3, <3>1, WantedFromLatest DEF Rebuilt
  <2>4. CASE ~Compiles(q)
    <3>1. Kind(q) \in {"publish", "unpublish"} => Ready(graph)
      BY <1>1, <1>2, <2>1 DEF Drawn
    <3> QED
      BY <1>2, <2>1, <2>2, <2>4, <3>1, WantedFromLatest
  <2> QED
    BY <2>2, <2>3, <2>4
<1>12. ReadyIsMaterialised'
  <2>1. SUFFICES ASSUME exists, Ready(graph'), ~raced'
                 PROVE  graph'.dsl \in Valid /\ rows' = NodesOf[graph'.dsl]
    BY <1>2 DEF ReadyIsMaterialised
  <2>2. CASE Compiles(q)
    BY <1>11, <2>1, <2>2 DEF Compiles
  <2>3. CASE ~Compiles(q)
    BY <1>1, <1>2, <1>11, <2>1, <2>3 DEF ReadyIsMaterialised
  <2> QED
    BY <2>2, <2>3
<1>13. VersionCountsCompilations'
  BY <1>1, <1>2, <1>11 DEF VersionCountsCompilations, TypeOK
<1>14. OnlyValidatedReady'
  <2>1. SUFFICES ASSUME ~raced'
                 PROVE  ready_ever' \subseteq Valid /\ (Ready(graph') => graph'.dsl \in Valid)
    BY DEF OnlyValidatedReady
  <2>2. ready_ever \subseteq Valid /\ (Ready(graph) => graph.dsl \in Valid)
    BY <1>1, <1>2, <2>1 DEF OnlyValidatedReady
  <2>3. Ready(graph') => graph'.dsl \in Valid
    BY <1>11, <2>1, <2>2 DEF Compiles
  <2> QED
    BY <1>2, <2>2, <2>3
<1>15. SawInOrder'
  <2>1. SUFFICES ASSUME ~raced', NEW r \in Requests, request'[r].pc \in Active
        PROVE  /\ request'[r].saw.version <= graph'.version
               /\ (/\ exists /\ Compiles(r)' /\ request'[r].pc # "open"
                   /\ request'[r].saw.version = graph'.version) => rows' = request'[r].nodes
    BY <1>2 DEF SawInOrder
  <2>2. /\ request[r].pc \in Active /\ request'[r] = request[r] /\ Compiles(r)' = Compiles(r)
    BY <1>9, <2>1
  <2>3. /\ request[r].saw.version <= graph.version
        /\ (/\ exists /\ Compiles(r) /\ request[r].pc # "open"
            /\ request[r].saw.version = graph.version) => rows = request[r].nodes
    BY <1>1, <1>2, <2>1, <2>2 DEF SawInOrder
  <2>4. request[r].saw.version \in Nat /\ graph.version \in Nat
    BY <1>1, <1>3, <2>2, ActiveRequest DEF Graph
  <2>5. CASE Compiles(q)
    <3>1. graph'.version = graph.version + 1
      BY <1>11, <2>1, <2>5
    <3> QED
      BY <2>2, <2>3, <2>4, <3>1
  <2>6. CASE ~Compiles(q)
    BY <1>11, <2>1, <2>2, <2>3, <2>6
  <2> QED
    BY <2>5, <2>6
<1>16. GapIsEmpty'
  BY <1>2, GotoKeepsGap
<1>17. CopyIsCurrent'
  <2>1. SUFFICES ASSUME exists, Ready(graph'), ~raced', ~leaked
                 PROVE  cache \in {None, graph'.dsl}
    BY <1>2 DEF CopyIsCurrent
  <2>2. CASE Compiles(q)
    <3>1. Compiles(q) /\ request[q].pc = "invalidated"
      BY <1>2, <2>2 DEF Edits, Compiles
    <3> QED
      BY <2>1, <3>1 DEF IInv, GapIsEmpty
  <2>3. CASE ~Compiles(q)
    BY <1>2, <1>11, <2>1, <2>3 DEF IInv, CopyIsCurrent
  <2> QED
    BY <2>2, <2>3
<1> QED
  BY <1>6, <1>7, <1>10, <1>12, <1>13, <1>14, <1>15, <1>16, <1>17 DEF IInv

(* A step of a load, or the copy's expiry: requests and the canvas stay.    *)
LEMMA CanvasKept ==
    ASSUME IInv, UNCHANGED <<database, locks, request, ready_ever, compilations, raced>>,
           load' \in [Loads -> LoadState], cache' \in Canvases \cup {None}, leaked' \in BOOLEAN
    PROVE  /\ TypeOK' /\ ReadyIsMaterialised' /\ VersionCountsCompilations'
           /\ OnlyValidatedReady' /\ SawInOrder' /\ Drawn'
<1>1. TypeOK'
  BY DEF IInv, TypeOK, database
<1>2. ReadyIsMaterialised' /\ VersionCountsCompilations' /\ OnlyValidatedReady'
  BY DEF IInv, ReadyIsMaterialised, VersionCountsCompilations, OnlyValidatedReady, Ready, database
<1>3. SawInOrder' /\ Drawn'
  BY DEF IInv, SawInOrder, Drawn, Compiles, Kind, Canvas, Ready, database
<1> QED
  BY <1>1, <1>2, <1>3

(* What a load comes to. *)
LEMMA FoundTyped ==
    ASSUME TypeOK, NEW l \in Loads, NEW label, NEW dsl, Found(l, label, dsl),
           \/ label \in {"missed", "refused"} /\ dsl = None
           \/ label \in {"filling", "executing"} /\ dsl \in Canvases
    PROVE  /\ load' \in [Loads -> LoadState]
           /\ \A m \in Loads : load'[m] = IF m = l THEN [pc |-> label, dsl |-> dsl] ELSE load[m]
<1>1. [pc |-> label, dsl |-> dsl] \in LoadState
  BY DEF LoadState
<1> QED
  BY <1>1 DEF TypeOK, Found

(* A load finds only what was ready: in the copy, or in the row. *)
LEMMA LoadStep ==
    ASSUME IInv, NEW l \in Loads, Hit(l) \/ Miss(l) \/ ReadRow(l)
    PROVE  IInv'
<1>1. TypeOK /\ OnceReady
  BY DEF IInv
<1>2. UNCHANGED <<database, cache, locks, request, history>>
  BY DEF Hit, Miss, ReadRow
<1>3. PICK label \in {"missed", "refused", "filling", "executing"}, dsl \in Canvases \cup {None} :
        /\ Found(l, label, dsl)
        /\ label \in {"missed", "refused"} => dsl = None
        /\ label \in {"filling", "executing"} => dsl \in ready_ever
  <2>1. CASE Hit(l)
    BY <1>1, <2>1 DEF Hit, OnceReady, OnlyOnceReady, TypeOK
  <2>2. CASE Miss(l)
    BY <2>2 DEF Miss
  <2>3. CASE ReadRow(l) /\ Loadable
    BY <1>1, <2>3 DEF ReadRow, Loadable, OnceReady, TypeOK, Graph
  <2>4. CASE ReadRow(l) /\ ~Loadable
    BY <2>4 DEF ReadRow
  <2> QED
    BY <2>1, <2>2, <2>3, <2>4
<1>4. ready_ever \subseteq Canvases
  BY <1>1 DEF TypeOK
<1>5. /\ load' \in [Loads -> LoadState]
      /\ \A m \in Loads : load'[m] = IF m = l THEN [pc |-> label, dsl |-> dsl] ELSE load[m]
  BY <1>1, <1>3, <1>4, FoundTyped
<1>6. /\ TypeOK' /\ ReadyIsMaterialised' /\ VersionCountsCompilations'
      /\ OnlyValidatedReady' /\ SawInOrder' /\ Drawn'
  BY <1>1, <1>2, <1>5, CanvasKept DEF history, TypeOK
<1>7. OnceReady'
  BY <1>1, <1>2, <1>3, <1>5 DEF OnceReady, OnlyOnceReady, Ready, database, history
<1>8. UNCHANGED <<exists, graph, cache, request, raced, leaked>>
  BY <1>2 DEF database, history
<1>9. GapIsEmpty'
  BY <1>8 DEF IInv, GapIsEmpty, Compiles, Kind, Canvas
<1>10. CopyIsCurrent'
  BY <1>8 DEF IInv, CopyIsCurrent, Ready
<1> QED
  BY <1>6, <1>7, <1>9, <1>10 DEF IInv

(* A load writes the copy: of the current DSL, or the leak is on record. *)
LEMMA FillStep ==
    ASSUME IInv, NEW l \in Loads, Fill(l)
    PROVE  IInv'
<1>1. TypeOK /\ OnceReady
  BY DEF IInv
<1>2. /\ load[l].pc = "filling" /\ Found(l, "executing", load[l].dsl)
      /\ \/ cache' = load[l].dsl /\ leaked' = (leaked \/ FillsBadly(l))
         \/ UNCHANGED <<cache, leaked>>
      /\ UNCHANGED <<database, locks, request, ready_ever, compilations, raced>>
  BY DEF Fill
<1>3. load[l].dsl \in ready_ever /\ ready_ever \subseteq Canvases
  BY <1>1, <1>2 DEF OnceReady, TypeOK
<1>4. /\ load' \in [Loads -> LoadState]
      /\ \A m \in Loads :
            load'[m] = IF m = l THEN [pc |-> "executing", dsl |-> load[l].dsl] ELSE load[m]
  BY <1>1, <1>2, <1>3, FoundTyped
<1>5. cache' \in Canvases \cup {None} /\ leaked' \in BOOLEAN
  BY <1>1, <1>2, <1>3 DEF TypeOK, FillsBadly
<1>6. /\ TypeOK' /\ ReadyIsMaterialised' /\ VersionCountsCompilations'
      /\ OnlyValidatedReady' /\ SawInOrder' /\ Drawn'
  BY <1>2, <1>4, <1>5, CanvasKept
<1>7. OnceReady'
  BY <1>1, <1>2, <1>3, <1>4 DEF OnceReady, OnlyOnceReady, Ready, database
<1>8. (GapIsEmpty /\ CopyIsCurrent) /\ UNCHANGED <<exists, graph, request, raced>>
  BY <1>2 DEF IInv, database
<1>9. CASE UNCHANGED <<cache, leaked>>
  <2>1. GapIsEmpty' /\ CopyIsCurrent'
    BY <1>8, <1>9 DEF GapIsEmpty, CopyIsCurrent, Compiles, Kind, Canvas, Ready
  <2> QED
    BY <1>6, <1>7, <2>1 DEF IInv
<1>10. CASE cache' = load[l].dsl /\ leaked' = (leaked \/ FillsBadly(l))
  <2>1. CASE leaked'
    BY <1>6, <1>7, <2>1 DEF IInv, GapIsEmpty, CopyIsCurrent
  <2>2. CASE ~leaked'
    <3>1. ~FillsBadly(l)
      BY <1>10, <2>2
    <3>2. ~\E q \in Requests : request'[q].pc = "invalidated" /\ Compiles(q)'
      BY <1>8, <3>1 DEF FillsBadly, Compiles, Kind, Canvas
    <3>3. cache' = graph'.dsl
      BY <1>8, <1>10, <3>1 DEF FillsBadly
    <3>4. GapIsEmpty' /\ CopyIsCurrent'
      BY <3>2, <3>3 DEF GapIsEmpty, CopyIsCurrent
    <3> QED
      BY <1>6, <1>7, <3>4 DEF IInv
  <2> QED
    BY <2>1, <2>2
<1> QED
  BY <1>2, <1>9, <1>10

(* Without a copy there is nothing that could be stale. *)
LEMMA ExpireStep ==
    ASSUME IInv, Expire
    PROVE  IInv'
<1>1. /\ cache' = None
      /\ UNCHANGED <<database, locks, request, load, history>>
  BY DEF Expire
<1>2. /\ TypeOK' /\ ReadyIsMaterialised' /\ VersionCountsCompilations'
      /\ OnlyValidatedReady' /\ SawInOrder' /\ Drawn'
  BY <1>1, CanvasKept DEF IInv, TypeOK, history
<1>3. OnceReady' /\ GapIsEmpty' /\ CopyIsCurrent'
  BY <1>1 DEF IInv, OnceReady, OnlyOnceReady, GapIsEmpty, CopyIsCurrent, Ready, database, history
<1> QED
  BY <1>2, <1>3 DEF IInv

(* A step that changes nothing. *)
LEMMA Stutter ==
    ASSUME IInv, UNCHANGED vars
    PROVE  IInv'
<1>1. UNCHANGED <<database, cache, locks, request, load, history>>
  BY DEF vars
<1>2. /\ TypeOK' /\ ReadyIsMaterialised' /\ VersionCountsCompilations'
      /\ OnlyValidatedReady' /\ SawInOrder' /\ Drawn'
  BY <1>1, CanvasKept DEF IInv, TypeOK, history
<1>3. OnceReady' /\ GapIsEmpty' /\ CopyIsCurrent'
  BY <1>1
  DEF IInv, OnceReady, OnlyOnceReady, GapIsEmpty, CopyIsCurrent, Compiles, Kind, Canvas, Ready,
      database, history
<1> QED
  BY <1>2, <1>3 DEF IInv

-----------------------------------------------------------------------------
(* The theorems *)

(* The invariant holds initially, and every step of a request, of a load or *)
(* of the copy's expiry preserves it.                                       *)
THEOREM Inductive == Spec => []IInv
<1>1. IInv /\ [Next]_vars => IInv'
  BY BeginStep, ReadNodesStep, FlushStep, InvalidateStep, CommitStep, EndingStep, DeleteStep,
     LoadStep, FillStep, ExpireStep, Stutter DEF Next
<1> QED
  BY <1>1, InitEstablishes, PTL DEF Spec

(* The canvas, requests and loads stay well typed: in particular no load    *)
(* executes a canvas that has never been drawn.                             *)
THEOREM TypeCorrect == Spec => []TypeOK
<1>1. IInv => TypeOK
  BY DEF IInv
<1> QED
  BY <1>1, Inductive, PTL

(* However many requests edit a canvas, as long as none has written over a  *)
(* row that had changed since it was read, what is offered for chat was     *)
(* validated and its node rows are those of its DSL.                        *)
THEOREM ReadyCanvasesAreMaterialised == Spec => []ReadyIsMaterialised
<1>1. IInv => ReadyIsMaterialised
  BY DEF IInv
<1> QED
  BY <1>1, Inductive, PTL

(* Under the same condition the version counts the compilations. *)
THEOREM VersionsCount == Spec => []VersionCountsCompilations
<1>1. IInv => VersionCountsCompilations
  BY DEF IInv
<1> QED
  BY <1>1, Inductive, PTL

(* Whatever races, fails or expires, runs execute only DSLs that were once  *)
(* committed as compiled or published.                                      *)
THEOREM RunsExecuteOnceReady == Spec => []OnlyOnceReady
<1>1. IInv => OnlyOnceReady
  BY DEF IInv, OnceReady
<1> QED
  BY <1>1, Inductive, PTL

(* Whatever the copy has outlived, runs execute documents in which the      *)
(* orchestrator is a node, reviewers are other nodes and no part is cut off,*)
(* unless a request has written over a row that had changed under it.       *)
THEOREM OnlyTeamsAreExecuted == Spec => []OnlyTeamsExecute
<1>1. IInv => OnlyTeamsExecute
  BY ValidIsTeam DEF IInv, OnceReady, OnlyOnceReady, OnlyValidatedReady, OnlyTeamsExecute
<1> QED
  BY <1>1, Inductive, PTL

(* The copy of a ready canvas is stale only after a race of edits, a failed *)
(* deletion, a late fill or a fill in the gap before a compilation commits. *)
THEOREM CopiesAreCurrent == Spec => []CopyIsCurrent
<1>1. IInv => CopyIsCurrent
  BY DEF IInv
<1> QED
  BY <1>1, Inductive, PTL

(* What a deletion counted it still knows when it is carried out. *)
LEMMA DeletionCountedStep ==
    ASSUME TypeOK, DeletionCounted, [Next]_vars
    PROVE  DeletionCounted'
<1>1. ASSUME NEW q \in Requests, Begin(q)
      PROVE  DeletionCounted'
  <2>1. PICK call \in Calls :
          /\ Admitted(call.kind)
          /\ request' = [request EXCEPT ![q] = [pc |-> "open", call |-> call, saw |-> graph,
                                                nodes |-> rows, sessions |-> sessions]]
    BY <1>1 DEF Begin
  <2>2. \A r \in Requests : r # q => request'[r] = request[r] /\ Kind(r)' = Kind(r)
    BY <2>1 DEF TypeOK, Kind
  <2>3. Kind(q)' = call.kind /\ request'[q].sessions = sessions
    BY <2>1 DEF TypeOK, Kind
  <2>4. call.kind = "delete" => sessions = {}
    BY <2>1 DEF Admitted
  <2> QED
    BY <2>2, <2>3, <2>4 DEF DeletionCounted
<1>2. ASSUME NEW q \in Requests, request[q].pc \in Active,
             NEW label \in Active \cup {"done"}, Goto(q, label)
      PROVE  DeletionCounted'
  <2>1. ASSUME NEW r \in Requests, request'[r].pc \in Active
        PROVE  /\ request[r].pc \in Active /\ Kind(r)' = Kind(r)
               /\ request'[r].sessions = request[r].sessions
    BY <1>2, <2>1, GotoKeeps DEF Kind
  <2> QED
    BY <2>1 DEF DeletionCounted
<1>3. ASSUME NEW q \in Requests, ReadNodes(q)
      PROVE  DeletionCounted'
  <2>1. /\ request[q].pc \in Active
        /\ request' = [request EXCEPT ![q].pc = "read", ![q].nodes = rows]
    BY <1>3 DEF ReadNodes, Active
  <2>2. \A r \in Requests : r # q => request'[r] = request[r] /\ Kind(r)' = Kind(r)
    BY <2>1 DEF TypeOK, Kind
  <2>3. request'[q].sessions = request[q].sessions /\ Kind(q)' = Kind(q)
    BY <2>1, ActiveRequest DEF TypeOK, Kind
  <2> QED
    BY <2>1, <2>2, <2>3 DEF DeletionCounted
<1>4. ASSUME NEW q \in Requests,
             \/ Flush(q) \/ Invalidate(q) \/ Commit(q) \/ CommitPersona(q)
             \/ OpenSession(q) \/ Delete(q) \/ RollBack(q)
      PROVE  request[q].pc \in Active /\ \E label \in Active \cup {"done"} : Goto(q, label)
  BY <1>4 DEF Flush, Invalidate, Commit, CommitPersona, OpenSession, Delete, RollBack, Active
<1>5. ASSUME UNCHANGED request
      PROVE  DeletionCounted'
  BY <1>5 DEF DeletionCounted, Kind
<1>6. ASSUME NEW l \in Loads, Hit(l) \/ Miss(l) \/ ReadRow(l) \/ Fill(l)
      PROVE  UNCHANGED request
  BY <1>6 DEF Hit, Miss, ReadRow, Fill
<1>7. Expire \/ UNCHANGED vars => UNCHANGED request
  BY DEF Expire, vars
<1> QED
  BY <1>1, <1>2, <1>3, <1>4, <1>5, <1>6, <1>7 DEF Next

(* Only a deletion takes sessions away; one that counted them deletes only  *)
(* those it has counted, and these are none.                                *)
LEMMA OnlyForcedDeletions ==
    ASSUME TypeOK, DeletionCounted, [Next]_vars
    PROVE  \/ sessions \subseteq sessions'
           \/ \E q \in Requests :
                 request[q].pc = "open" /\ request'[q].pc = "done" /\ Kind(q) = "force_delete"
<1>1. ASSUME NEW q \in Requests, Delete(q), Kind(q) = "delete"
      PROVE  sessions \subseteq sessions'
  BY <1>1 DEF Delete, DeletionHolds, DeletionCounted, Active
<1>2. ASSUME NEW q \in Requests, Delete(q)
      PROVE  request[q].pc = "open" /\ request'[q].pc = "done"
  <2>1. request[q].pc \in Active /\ "done" \in Active \cup {"done"} /\ Goto(q, "done")
    BY <1>2 DEF Delete, Active
  <2> QED
    BY <1>2, <2>1, GotoKeeps DEF Delete
<1>3. ASSUME NEW q \in Requests,
             \/ Begin(q) \/ ReadNodes(q) \/ Flush(q) \/ Invalidate(q) \/ Commit(q)
             \/ CommitPersona(q) \/ OpenSession(q) \/ RollBack(q)
      PROVE  sessions \subseteq sessions'
  BY <1>3 DEF Begin, ReadNodes, Flush, Invalidate, Commit, CommitPersona, OpenSession, RollBack,
              database
<1>4. ASSUME NEW l \in Loads, Hit(l) \/ Miss(l) \/ ReadRow(l) \/ Fill(l)
      PROVE  sessions \subseteq sessions'
  BY <1>4 DEF Hit, Miss, ReadRow, Fill, database
<1>5. Expire \/ UNCHANGED vars => sessions \subseteq sessions'
  BY DEF Expire, vars, database
<1>6. ASSUME NEW q \in Requests, Delete(q)
      PROVE  Kind(q) \in {"delete", "force_delete"}
  BY <1>6 DEF Delete
<1> QED
  BY <1>1, <1>2, <1>3, <1>4, <1>5, <1>6 DEF Next

(* Whatever races, conversations disappear only with a forced deletion. *)
THEOREM HistoryKept == Spec => HistoryIsKept
<1>1. Init => DeletionCounted
  BY DEF Init, DeletionCounted, Active
<1>2. TypeOK /\ DeletionCounted /\ [Next]_vars => DeletionCounted'
  BY DeletionCountedStep
<1>3. TypeOK /\ DeletionCounted /\ [Next]_vars =>
        [sessions \subseteq sessions'
         \/ \E q \in Requests :
               request[q].pc = "open" /\ request'[q].pc = "done" /\ Kind(q) = "force_delete"]_vars
  BY OnlyForcedDeletions
<1> QED
  BY <1>1, <1>2, <1>3, TypeCorrect, PTL DEF Spec, HistoryIsKept
=============================================================================
