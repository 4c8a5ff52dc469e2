--------------------------- MODULE GraphLifecycle ---------------------------
(***************************************************************************)
(* One canvas from drafts to runs: the requests of api/v1/graphs.py that   *)
(* edit, compile, publish and delete it, services/graph_compiler.py, the   *)
(* sessions opened on it and the DSL that runs load through Redis.         *)
(*                                                                         *)
(* Every request is a transaction of its own under READ COMMITTED.  The    *)
(* session it uses loads the canvas once, decides on what it has loaded    *)
(* and writes at its end the columns it has changed, no others.  A canvas  *)
(* as drawn in the editor is a member of Canvases.                         *)
(***************************************************************************)
EXTENDS GraphCompiler

CONSTANTS
    Canvases,    \* DSL documents an editor may send
    Requests,    \* requests about the canvas, each made once
    Loads,       \* calls of load_compiled_dsl: runs that start or are resumed
    None         \* no DSL yet, nothing cached, nobody

ASSUME CanvasAssumption ==
    /\ Canvases \subseteq Documents
    /\ None \notin Canvases \cup Requests

(* Those that compile_graph materialises. *)
Valid == {d \in Canvases : validate_dsl(d) = {}}

NodesOf == [d \in Canvases |-> NodeKeys(d)]

VARIABLES
    exists,        \* whether the canvas has not been deleted
    graph,         \* its row as committed: status, dsl and version
    rows,          \* keys of its PersonNode rows, as committed
    sessions,      \* chat sessions open on it, named by the request that opened them
    cache,         \* the Redis copy of its DSL
    locks,         \* which transaction holds the canvas's row, and which its edges
    request,       \* each request: where it is, what it asks for and what it has read
    load,          \* each load: where it is and the DSL it has found
    ready_ever,    \* history: DSLs committed as compiled or published
    compilations,  \* history: compilations committed
    raced,         \* history: a request has written over a row that had changed since it read it
    leaked         \* history: an invalidation failed or a fill came at the wrong moment

database == <<exists, graph, rows, sessions>>

history == <<ready_ever, compilations, raced, leaked>>

vars == <<database, cache, locks, request, load, history>>

Nodes == UNION {NodesOf[d] : d \in Canvases}

Ready(g) == g.status \in {"compiled", "published"}

Graph == [status : {"draft", "compiled", "published"}, dsl : Canvases \cup {None}, version : Nat]

(* A compile request without a body compiles the DSL the row holds, so it   *)
(* is among those with one.                                                 *)
Calls == [kind : {"save", "compile"}, canvas : Canvases]
         \cup [kind : {"publish", "unpublish", "delete", "force_delete", "open", "patch_persona"},
               canvas : {None}]

Active == {"open", "read", "flushed", "invalidated"}

RequestState ==
    [pc : {"idle"}]
    \cup [pc : Active \cup {"done"}, call : Calls, saw : Graph,
          nodes : SUBSET Nodes, sessions : SUBSET Requests]

LoadState ==
    [pc : {"idle", "missed", "refused"}, dsl : {None}]
    \cup [pc : {"filling", "executing"}, dsl : Canvases]

TypeOK ==
    /\ exists \in BOOLEAN
    /\ graph \in Graph
    /\ rows \subseteq Nodes
    /\ sessions \subseteq Requests
    /\ cache \in Canvases \cup {None}
    /\ locks \in [{"row", "edges"} -> Requests \cup {None}]
    /\ request \in [Requests -> RequestState]
    /\ load \in [Loads -> LoadState]
    /\ ready_ever \subseteq Canvases
    /\ compilations \in Nat /\ raced \in BOOLEAN /\ leaked \in BOOLEAN

(* create_graph and duplicate_graph: a draft, empty or with a DSL that does  *)
(* not validate, or a canvas compiled at once.                              *)
Init ==
    /\ exists = TRUE
    /\ \/ \E d \in (Canvases \ Valid) \cup {None} :
             /\ graph = [status |-> "draft", dsl |-> d, version |-> 1]
             /\ rows = {} /\ ready_ever = {} /\ compilations = 0
       \/ \E d \in Valid :
             /\ graph = [status |-> "compiled", dsl |-> d, version |-> 2]
             /\ rows = NodesOf[d] /\ ready_ever = {d} /\ compilations = 1
    /\ sessions = {}
    /\ cache = None
    /\ locks = [l \in {"row", "edges"} |-> None]
    /\ request = [q \in Requests |-> [pc |-> "idle"]]
    /\ load = [l \in Loads |-> [pc |-> "idle", dsl |-> None]]
    /\ raced = FALSE /\ leaked = FALSE
-----------------------------------------------------------------------------
Kind(q) == request[q].call.kind

Canvas(q) == request[q].call.canvas

(* Materialising requests: a DSL with errors rebuilds nothing. *)
Compiles(q) == Kind(q) = "compile" /\ Canvas(q) \in Valid

Edits(q) == Kind(q) \in {"save", "publish", "unpublish"} \/ (Kind(q) = "compile" /\ ~Compiles(q))

Goto(q, label) == request' = [request EXCEPT ![q].pc = label]

(* Mutant: a deletion does not count the sessions. *)
Admitted_Uncounted(kind) ==
    CASE kind = "patch_persona" -> rows # {}
      [] kind \in {"publish", "open"} -> Ready(graph)
      [] kind = "unpublish" -> graph.status = "published"
      [] OTHER -> TRUE

(* Mutant: any canvas can be published. *)
Admitted_PublishesDrafts(kind) ==
    CASE kind = "patch_persona" -> rows # {}
      [] kind = "open" -> Ready(graph)
      [] kind = "unpublish" -> graph.status = "published"
      [] kind = "delete" -> sessions = {}
      [] OTHER -> TRUE

(* What the endpoints refuse on the strength of the row and sessions read;  *)
(* a refused request changes nothing and is left out.                       *)
Admitted(kind) ==
    CASE kind = "patch_persona" -> rows # {}
      [] kind \in {"publish", "open"} -> Ready(graph)
      [] kind = "unpublish" -> graph.status = "published"
      [] kind = "delete" -> sessions = {}
      [] OTHER -> TRUE

(* Mutant: a draft save leaves the status alone. *)
AfterSave_KeepsStatus(saw, canvas) == [saw EXCEPT !.dsl = canvas]

AfterSave(saw, canvas) ==
    [saw EXCEPT !.dsl = canvas, !.status = IF Ready(saw) THEN "draft" ELSE @]

AfterCompile(saw, canvas) ==
    IF canvas \in Valid
    THEN [status |-> "compiled", dsl |-> canvas, version |-> saw.version + 1]
    ELSE [saw EXCEPT !.status = "draft", !.dsl = canvas]

(* The canvas as the request leaves it in its own session. *)
Wanted(q) ==
    LET saw == request[q].saw
    IN CASE Kind(q) = "save" -> AfterSave(saw, Canvas(q))
         [] Kind(q) = "compile" -> AfterCompile(saw, Canvas(q))
         [] Kind(q) = "publish" -> [saw EXCEPT !.status = "published"]
         [] Kind(q) = "unpublish" -> [saw EXCEPT !.status = "compiled"]
         [] OTHER -> saw

(* SQLAlchemy writes the columns whose value differs from the one loaded.   *)
Merged(row, saw, wanted) ==
    [column \in DOMAIN row |-> IF wanted[column] # saw[column] THEN wanted[column] ELSE row[column]]

(* A transaction begins: the canvas and, for a deletion, its sessions and   *)
(* nodes are read.                                                          *)
Begin(q) ==
    /\ request[q].pc = "idle" /\ exists
    /\ \E call \in Calls :
          /\ Admitted(call.kind)
          /\ request' = [request EXCEPT ![q] = [pc |-> "open", call |-> call, saw |-> graph,
                                                nodes |-> rows, sessions |-> sessions]]
    /\ UNCHANGED <<database, cache, locks, load, history>>

(* compile_graph deletes the edges and then reads the nodes there are.      *)
(* Edges that exist are locked from here: a team of more than one node has  *)
(* edges, or validate_dsl would find an orphan.                             *)
ReadNodes(q) ==
    /\ request[q].pc = "open" /\ Compiles(q)
    /\ IF Cardinality(rows) > 1
       THEN locks.edges = None /\ locks' = [locks EXCEPT !.edges = q]
       ELSE UNCHANGED locks
    /\ request' = [request EXCEPT ![q].pc = "read", ![q].nodes = rows]
    /\ UNCHANGED <<database, cache, load, history>>

(* A node read as existing must be there still, one to insert must not.     *)
NodesStillThere(q) ==
    \A k \in NodesOf[Canvas(q)] : k \in request[q].nodes <=> k \in rows

(* The first UPDATE of the row: it is locked until the transaction ends.    *)
(* A request that changes nothing needs none; here it takes its turn too.   *)
Flush(q) ==
    /\ \/ request[q].pc = "open" /\ Edits(q)
       \/ request[q].pc = "read" /\ Compiles(q) /\ NodesStillThere(q)
    /\ exists /\ locks.row = None
    /\ locks' = [locks EXCEPT !.row = q]
    /\ Goto(q, "flushed")
    /\ UNCHANGED <<database, cache, load, history>>

(* Mutant: nothing invalidates the copy. *)
CopyAfterDelete_Kept == cache

CopyAfterDelete == None

(* The copy is dropped before the transaction commits.  Redis may fail,     *)
(* which is only logged.                                                    *)
Invalidate(q) ==
    /\ \/ request[q].pc = "flushed" /\ Compiles(q)
       \/ request[q].pc = "open" /\ Kind(q) = "patch_persona"
    /\ \/ cache' = CopyAfterDelete /\ UNCHANGED leaked
       \/ cache' = cache /\ leaked' = TRUE
    /\ Goto(q, "invalidated")
    /\ UNCHANGED <<database, locks, load, ready_ever, compilations, raced>>

Released(q) == [l \in DOMAIN locks |-> IF locks[l] = q THEN None ELSE locks[l]]

(* What is no longer in the DSL is deleted, if it was there when read.      *)
Rebuilt(q) == (rows \ request[q].nodes) \cup NodesOf[Canvas(q)]

(* A save, a compilation with or without errors or a publication commits.   *)
Commit(q) ==
    /\ \/ request[q].pc = "flushed" /\ Edits(q)
       \/ request[q].pc = "invalidated" /\ Compiles(q)
    /\ graph' = Merged(graph, request[q].saw, Wanted(q))
    /\ rows' = IF Compiles(q) THEN Rebuilt(q) ELSE rows
    /\ locks' = Released(q)
    /\ Goto(q, "done")
    /\ ready_ever' = IF Ready(graph') THEN ready_ever \cup {graph'.dsl} ELSE ready_ever
    /\ compilations' = IF Compiles(q) THEN compilations + 1 ELSE compilations
    /\ raced' = (raced \/ graph # request[q].saw)
    /\ UNCHANGED <<exists, sessions, cache, load, leaked>>

(* The node's own columns are not read from the DSL and are left out here.  *)
CommitPersona(q) ==
    /\ request[q].pc = "invalidated" /\ Kind(q) = "patch_persona"
    /\ Goto(q, "done")
    /\ UNCHANGED <<database, cache, locks, load, history>>

(* The session's row refers to the canvas's, which must exist still. *)
OpenSession(q) ==
    /\ request[q].pc = "open" /\ Kind(q) = "open" /\ exists
    /\ sessions' = sessions \cup {q}
    /\ Goto(q, "done")
    /\ UNCHANGED <<exists, graph, rows, cache, locks, load, history>>

(* The foreign keys of sessions and nodes let a deletion pass only if what  *)
(* refers to the canvas is what it has read and, for sessions, deletes.     *)
DeletionHolds(q) == sessions \subseteq request[q].sessions /\ rows \subseteq request[q].nodes

Delete(q) ==
    /\ request[q].pc = "open" /\ Kind(q) \in {"delete", "force_delete"}
    /\ exists /\ locks.row = None /\ locks.edges = None
    /\ DeletionHolds(q)
    /\ exists' = FALSE /\ rows' = {} /\ sessions' = {}
    /\ Goto(q, "done")
    /\ UNCHANGED <<graph, cache, locks, load, history>>

(* An integrity error, a statement timeout or the process's end: the        *)
(* transaction is rolled back.  What was done to Redis stays done.          *)
RollBack(q) ==
    /\ request[q].pc \in Active
    /\ locks' = Released(q)
    /\ Goto(q, "done")
    /\ UNCHANGED <<database, cache, load, history>>
-----------------------------------------------------------------------------
(* load_compiled_dsl, called for a run of an open session *)

Found(l, label, dsl) == load' = [load EXCEPT ![l] = [pc |-> label, dsl |-> dsl]]

(* The copy is used without a look at the canvas. *)
Hit(l) ==
    /\ load[l].pc = "idle" /\ sessions # {} /\ cache # None
    /\ Found(l, "executing", cache)
    /\ UNCHANGED <<database, cache, locks, request, history>>

(* No copy, or Redis fails. *)
Miss(l) ==
    /\ load[l].pc = "idle" /\ sessions # {}
    /\ Found(l, "missed", None)
    /\ UNCHANGED <<database, cache, locks, request, history>>

(* Mutant: any canvas that has a DSL can be loaded. *)
Loadable_Draft == exists /\ graph.dsl # None

Loadable == exists /\ Ready(graph)

ReadRow(l) ==
    /\ load[l].pc = "missed"
    /\ IF Loadable THEN Found(l, "filling", graph.dsl) ELSE Found(l, "refused", None)
    /\ UNCHANGED <<database, cache, locks, request, history>>

(* A copy may be written late, when the row it was read from has changed,   *)
(* or in the gap that a compilation leaves before it commits.               *)
FillsBadly(l) ==
    \/ load[l].dsl # graph.dsl
    \/ \E q \in Requests : request[q].pc = "invalidated" /\ Compiles(q)

(* The copy is written, unless Redis fails, and the run goes on. *)
Fill(l) ==
    /\ load[l].pc = "filling"
    /\ \/ cache' = load[l].dsl /\ leaked' = (leaked \/ FillsBadly(l))
       \/ UNCHANGED <<cache, leaked>>
    /\ Found(l, "executing", load[l].dsl)
    /\ UNCHANGED <<database, locks, request, ready_ever, compilations, raced>>

(* CACHE_TTL_GRAPH_DSL has passed. *)
Expire ==
    /\ cache # None /\ cache' = None
    /\ UNCHANGED <<database, locks, request, load, history>>

Next ==
    \/ \E q \in Requests : Begin(q)
    \/ \E q \in Requests : ReadNodes(q)
    \/ \E q \in Requests : Flush(q)
    \/ \E q \in Requests : Invalidate(q)
    \/ \E q \in Requests : Commit(q)
    \/ \E q \in Requests : CommitPersona(q)
    \/ \E q \in Requests : OpenSession(q)
    \/ \E q \in Requests : Delete(q)
    \/ \E q \in Requests : RollBack(q)
    \/ \E l \in Loads : Hit(l)
    \/ \E l \in Loads : Miss(l)
    \/ \E l \in Loads : ReadRow(l)
    \/ \E l \in Loads : Fill(l)
    \/ Expire

Spec == Init /\ [][Next]_vars
-----------------------------------------------------------------------------
(* Properties *)

(* Unless two edits raced, a canvas offered for chat is one that was        *)
(* validated, and the node rows its runs look up are those of its DSL.      *)
ReadyIsMaterialised ==
    (exists /\ Ready(graph) /\ ~raced) =>
        graph.dsl \in Valid /\ rows = NodesOf[graph.dsl]

(* Unless two edits raced, versions count compilations, one each. *)
VersionCountsCompilations == ~raced => graph.version = 1 + compilations

(* Whatever races, fails or expires, a run executes a DSL that was at some  *)
(* time committed as compiled or published, and so is any copy in Redis.    *)
OnlyOnceReady ==
    /\ cache # None => cache \in ready_ever
    /\ \A l \in Loads : load[l].pc = "executing" => load[l].dsl \in ready_ever

(* Unless two edits raced, a run executes a team as the engines assume it,  *)
(* whatever drafts were saved and whatever its copy has outlived: neither   *)
(* load_compiled_dsl nor the engines validate it again (graph_compiler.py   *)
(* 252-272, schemas/dsl.py 201-211).                                        *)
OnlyTeamsExecute ==
    ~raced => \A l \in Loads : load[l].pc = "executing" => IsTeam(load[l].dsl)

(* The copy of a compiled canvas is of its current DSL, unless edits raced, *)
(* Redis failed to delete it, or a load that had read the old row or met    *)
(* the gap between invalidation and commit put the old one back.            *)
CopyIsCurrent ==
    (exists /\ Ready(graph) /\ ~raced /\ ~leaked) => cache \in {None, graph.dsl}

(* Conversations disappear only with a deletion that was forced, also when  *)
(* one is opened while the canvas is being deleted.                         *)
HistoryIsKept ==
    [][sessions \subseteq sessions'
       \/ \E q \in Requests :
             request[q].pc = "open" /\ request'[q].pc = "done" /\ Kind(q) = "force_delete"]_vars

(* "The compiled nodes/edges now describe an older canvas, so the graph is  *)
(* no longer safe to execute until it is recompiled"                        *)
(* (api/v1/graphs.py:194-195): no run starts on a canvas that is a draft.   *)
(* One starts on the copy that a draft save leaves in Redis.                *)
DraftIsNotExecuted ==
    [][\A l \in Loads :
          (load[l].pc = "idle" /\ load'[l].pc = "executing") => Ready(graph)]_vars
-----------------------------------------------------------------------------
(* The inductive invariant of GraphLifecycleProofs *)

(* What a load has read or a copy holds was ready, and so is what is ready. *)
OnceReady ==
    /\ OnlyOnceReady
    /\ \A l \in Loads : load[l].pc = "filling" => load[l].dsl \in ready_ever
    /\ Ready(graph) => graph.dsl \in ready_ever

(* As long as no edits have raced, only what was validated becomes ready. *)
OnlyValidatedReady ==
    ~raced => ready_ever \subseteq Valid /\ (Ready(graph) => graph.dsl \in Valid)

(* As long as no edits have raced, versions only grow, and a compilation    *)
(* that has seen the latest version has seen the latest rows.               *)
SawInOrder ==
    ~raced =>
        \A q \in Requests : request[q].pc \in Active =>
            /\ request[q].saw.version <= graph.version
            /\ (/\ exists /\ Compiles(q) /\ request[q].pc # "open"
                /\ request[q].saw.version = graph.version) => rows = request[q].nodes

(* A canvas, once drawn, is never blank again; only a drawn one is ready,   *)
(* and only a request that has seen it ready publishes it.                  *)
Drawn ==
    /\ Ready(graph) => graph.dsl # None
    /\ \A q \in Requests : request[q].pc \in Active =>
          /\ Ready(request[q].saw) => request[q].saw.dsl # None
          /\ request[q].saw.dsl # None => graph.dsl # None
          /\ Kind(q) \in {"publish", "unpublish"} => Ready(request[q].saw)

(* As long as nothing has leaked, there is no copy between a compilation's  *)
(* invalidation and its commit.                                             *)
GapIsEmpty ==
    (~leaked /\ \E q \in Requests : request[q].pc = "invalidated" /\ Compiles(q)) => cache = None

(* A deletion that was not forced has counted no sessions. *)
DeletionCounted ==
    \A q \in Requests :
        (request[q].pc \in Active /\ Kind(q) = "delete") => request[q].sessions = {}

IInv ==
    /\ TypeOK
    /\ Drawn
    /\ OnceReady
    /\ OnlyValidatedReady
    /\ ReadyIsMaterialised
    /\ VersionCountsCompilations
    /\ SawInOrder
    /\ GapIsEmpty
    /\ CopyIsCurrent
=============================================================================
