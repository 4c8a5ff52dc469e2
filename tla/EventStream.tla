----------------------------- MODULE EventStream -----------------------------
(***************************************************************************)
(* The event stream of one orchestration run: services/event_bus.py and    *)
(* the server-sent-event endpoints of api/v1/chat.py over it.  The run's   *)
(* task publishes frames to a Redis channel and to a capped list; a client *)
(* that attaches is given the list and then, if it held no terminal frame, *)
(* what the channel brings from the moment the subscription exists.        *)
(*                                                                         *)
(* A frame is its number, counted from 1 in the order of publish calls,    *)
(* and its event; heartbeats carry nothing and are left out.               *)
(***************************************************************************)
EXTENDS Integers, Sequences

CONSTANTS
    Clients,      \* requests for the run's stream, each made once
    LogCap,       \* frames the replay list keeps (500 in the code)
    MaxFrames     \* bound of the model: publish calls of the run

ASSUME StreamAssumption == LogCap \in Nat \ {0} /\ MaxFrames \in Nat

VARIABLES
    run,          \* who publishes: where the runner is, and whether a resumption has begun
    published,    \* number of publish calls so far
    lost,         \* history: the numbers of frames Redis did not take
    log,          \* the Redis list run-events-log
    phase,        \* what each client's generator is doing
    inbox,        \* frames each generator holds or has queued for its client
    delivered,    \* frames each client has been given
    snapped,      \* history: published when the client's replay was read
    since         \* history: published when the client's subscription began

vars == <<run, published, lost, log, phase, inbox, delivered, snapped, since>>

reader == <<phase, inbox, delivered, snapped, since>>

Events == {"progress", "run_completed", "error"}

Frame == [n : Nat, event : Events]

TypeOK ==
    /\ run \in [runner : {"executing", "completed", "over"}, resumed : BOOLEAN]
    /\ published \in Nat
    /\ lost \subseteq Nat
    /\ log \in Seq(Frame) /\ Len(log) <= LogCap
    /\ phase \in [Clients -> {"attached", "replaying", "live", "ended", "gone"}]
    /\ inbox \in [Clients -> Seq(Frame)]
    /\ delivered \in [Clients -> Seq(Frame)]
    /\ snapped \in [Clients -> Nat]
    /\ since \in [Clients -> Nat]

Init ==
    /\ run = [runner |-> "executing", resumed |-> FALSE]
    /\ published = 0
    /\ lost = {}
    /\ log = <<>>
    /\ phase = [c \in Clients |-> "attached"]
    /\ inbox = [c \in Clients |-> <<>>]
    /\ delivered = [c \in Clients |-> <<>>]
    /\ snapped = [c \in Clients |-> 0]
    /\ since = [c \in Clients |-> 0]
-----------------------------------------------------------------------------
(* EventBus.publish *)

(* Mutant: the trim keeps the oldest frames instead of the newest. *)
Trimmed_Oldest(frames) ==
    IF Len(frames) <= LogCap THEN frames ELSE SubSeq(frames, 1, LogCap)

(* Mutant: the list is not trimmed. *)
Trimmed_Never(frames) == frames

(* LTRIM key -LogCap -1 *)
Trimmed(frames) ==
    IF Len(frames) <= LogCap THEN frames
    ELSE SubSeq(frames, Len(frames) - LogCap + 1, Len(frames))

(* The pipeline is one Redis transaction: a frame reaches the channel and   *)
(* the list together or, when Redis fails, neither; the failure is logged   *)
(* and the run goes on.                                                     *)
Publish(event) ==
    /\ published < MaxFrames
    /\ published' = published + 1
    /\ LET frame == [n |-> published + 1, event |-> event]
       IN \/ /\ log' = Trimmed(Append(log, frame))
             /\ inbox' = [c \in Clients |-> IF phase[c] = "live" THEN Append(inbox[c], frame) ELSE inbox[c]]
             /\ UNCHANGED lost
          \/ /\ lost' = lost \cup {frame.n}
             /\ UNCHANGED <<log, inbox>>
    /\ UNCHANGED <<phase, delivered, snapped, since>>

PublishProgress ==
    /\ run.runner = "executing" \/ run.resumed
    /\ Publish("progress")
    /\ UNCHANGED run

(* The runner ends with RUN_COMPLETED, when the graph is suspended for an   *)
(* approval too, or with ERROR.                                             *)
PublishTerminal ==
    /\ run.runner = "executing"
    /\ \E event \in {"run_completed", "error"} : Publish(event)
    /\ run' = [run EXCEPT !.runner = "completed"]

(* A cancellation that meets the runner while it publishes RUN_COMPLETED    *)
(* makes it publish ERROR as well.                                          *)
PublishLateError ==
    /\ run.runner = "completed"
    /\ Publish("error")
    /\ run' = [run EXCEPT !.runner = "over"]

(* The endpoint looks at no status: an approval may resume the graph while  *)
(* the runner is at work, or after its end.  resume_run forwards the graph's *)
(* frames and adds no terminal one.                                         *)
Resume ==
    /\ ~run.resumed
    /\ run' = [run EXCEPT !.resumed = TRUE]
    /\ UNCHANGED <<published, lost, log, reader>>

(* The list expires a day after the last frame.  A run that is executing    *)
(* is never silent for that long.                                           *)
LogExpires ==
    /\ run.runner # "executing" /\ log # <<>>
    /\ log' = <<>>
    /\ UNCHANGED <<run, published, lost, reader>>
-----------------------------------------------------------------------------
(* EventBus.replay, EventBus.subscribe and _sse_frames *)

(* Mutant: RUN_COMPLETED alone ends a stream. *)
IsTerminal_CompletedOnly(frame) == frame.event = "run_completed"

IsTerminal(frame) == frame.event \in {"run_completed", "error"}

(* The whole list is read at once; if Redis fails, it counts as empty. *)
Replay(c) ==
    /\ phase[c] = "attached"
    /\ \E frames \in {log, <<>>} : inbox' = [inbox EXCEPT ![c] = frames]
    /\ phase' = [phase EXCEPT ![c] = "replaying"]
    /\ snapped' = [snapped EXCEPT ![c] = published]
    /\ UNCHANGED <<run, published, lost, log, delivered, since>>

(* Mutant: the loop forgets that it has seen a terminal frame once another  *)
(* frame follows it.                                                        *)
SeenTerminal_LastOnly(frames) == frames # <<>> /\ IsTerminal(frames[Len(frames)])

SeenTerminal(frames) == \E i \in DOMAIN frames : IsTerminal(frames[i])

(* A replayed frame is handed to the client, terminal or not. *)
YieldReplayed(c) ==
    /\ phase[c] = "replaying" /\ inbox[c] # <<>>
    /\ delivered' = [delivered EXCEPT ![c] = Append(@, Head(inbox[c]))]
    /\ inbox' = [inbox EXCEPT ![c] = Tail(@)]
    /\ UNCHANGED <<run, published, lost, log, phase, snapped, since>>

ReplayEnds(c) ==
    /\ phase[c] = "replaying" /\ inbox[c] = <<>>
    /\ SeenTerminal(delivered[c])
    /\ phase' = [phase EXCEPT ![c] = "ended"]
    /\ UNCHANGED <<run, published, lost, log, inbox, delivered, snapped, since>>

(* Mutant: the gap is closed by reading the list again, replayed frames included. *)
Subscribe_Catchup(c) ==
    /\ phase[c] = "replaying" /\ inbox[c] = <<>>
    /\ ~SeenTerminal(delivered[c])
    /\ phase' = [phase EXCEPT ![c] = "live"]
    /\ since' = [since EXCEPT ![c] = published]
    /\ inbox' = [inbox EXCEPT ![c] = log]
    /\ UNCHANGED <<run, published, lost, log, delivered, snapped>>

Subscribe(c) ==
    /\ phase[c] = "replaying" /\ inbox[c] = <<>>
    /\ ~SeenTerminal(delivered[c])
    /\ phase' = [phase EXCEPT ![c] = "live"]
    /\ since' = [since EXCEPT ![c] = published]
    /\ UNCHANGED <<run, published, lost, log, inbox, delivered, snapped>>

(* A live frame is handed over; a terminal one ends the generator, which    *)
(* drops the subscription and whatever it had queued.                       *)
Deliver(c) ==
    /\ phase[c] = "live" /\ inbox[c] # <<>>
    /\ delivered' = [delivered EXCEPT ![c] = Append(@, Head(inbox[c]))]
    /\ IF IsTerminal(Head(inbox[c]))
       THEN /\ phase' = [phase EXCEPT ![c] = "ended"]
            /\ inbox' = [inbox EXCEPT ![c] = <<>>]
       ELSE /\ inbox' = [inbox EXCEPT ![c] = Tail(@)]
            /\ UNCHANGED phase
    /\ UNCHANGED <<run, published, lost, log, snapped, since>>

(* The client disconnects, or subscribing or reading the channel raises. *)
Leave(c) ==
    /\ phase[c] \in {"attached", "replaying", "live"}
    /\ phase' = [phase EXCEPT ![c] = "gone"]
    /\ inbox' = [inbox EXCEPT ![c] = <<>>]
    /\ UNCHANGED <<run, published, lost, log, delivered, snapped, since>>

Serve(c) == Replay(c) \/ YieldReplayed(c) \/ ReplayEnds(c) \/ Subscribe(c) \/ Deliver(c)

Next ==
    \/ PublishProgress
    \/ PublishTerminal
    \/ PublishLateError
    \/ Resume
    \/ LogExpires
    \/ \E c \in Clients : Replay(c)
    \/ \E c \in Clients : YieldReplayed(c)
    \/ \E c \in Clients : ReplayEnds(c)
    \/ \E c \in Clients : Subscribe(c)
    \/ \E c \in Clients : Deliver(c)
    \/ \E c \in Clients : Leave(c)

(* The event loop keeps driving a generator whose client is connected.      *)
(* Nothing is assumed of the publisher, of Redis or of the clients.         *)
Spec == Init /\ [][Next]_vars /\ \A c \in Clients : WF_vars(Serve(c))
-----------------------------------------------------------------------------
(* Properties *)

(* What a client has been or, if it stays, will be given. *)
Stream(c) == delivered[c] \o inbox[c]

Numbers(frames) == {frames[i].n : i \in DOMAIN frames}

InOrder(frames) == \A i, j \in DOMAIN frames : i < j => frames[i].n < frames[j].n

(* A client gets frames in the order of publication and none of them twice, *)
(* although they come from two places.                                      *)
InOrderOnce == \A c \in Clients : InOrder(Stream(c))

(* Between the first frame it is given and the last one published, a live   *)
(* client misses only frames Redis did not take and those published after   *)
(* its replay was read and before its subscription began.                   *)
OnlyTheGapIsMissed ==
    \A c \in Clients : phase[c] = "live" =>
        \A n \in 1..published :
            \/ n \in Numbers(Stream(c))
            \/ n \in lost
            \/ n \in (snapped[c] + 1)..since[c]
            \/ \A m \in Numbers(Stream(c)) : n < m

(* "Replays all recorded frames first (late-join safe), then streams live   *)
(* events until run_completed or error" (api/v1/chat.py:138): once its      *)
(* replay has been read, no frame that Redis takes passes a client by.  One *)
(* published before the subscription exists does.                           *)
LateJoinSafe ==
    \A c \in Clients : phase[c] = "live" =>
        \A n \in (snapped[c] + 1)..published : n \in Numbers(Stream(c)) \/ n \in lost

(* Only a stream that never went live continues past a terminal frame: one  *)
(* that did carries at most one, at its end.                                *)
LiveStopsAtTerminal ==
    \A c \in Clients :
        phase[c] = "live" =>
            \A i \in DOMAIN delivered[c] : delivered[c][i].event = "progress"

(* A client that was subscribed when the run's outcome was published, and   *)
(* Redis took the frame, is released.                                       *)
OutcomeReleases ==
    \A c \in Clients :
        (phase[c] = "live" /\ \E i \in DOMAIN inbox[c] : inbox[c][i].event # "progress")
            ~> phase[c] \in {"ended", "gone"}
-----------------------------------------------------------------------------
(* The inductive invariant of EventStreamProofs *)

(* Of the frames up to the last one, the sequence lacks only those Redis    *)
(* did not take and those before its own first one.                         *)
Gapless(frames, last) ==
    \A n \in 1..last :
        n \in Numbers(frames) \/ n \in lost \/ \A m \in Numbers(frames) : n < m

(* The list holds published frames, in their order and without a gap: the   *)
(* trim and the expiry take the oldest.                                     *)
LogIsSuffix ==
    /\ InOrder(log)
    /\ Numbers(log) \subseteq 1..published
    /\ Gapless(log, published)

(* Whatever a client is given has been published, and nothing is given to   *)
(* one that has not begun to read.                                          *)
OnlyPublished ==
    \A c \in Clients :
        /\ Numbers(Stream(c)) \subseteq 1..published
        /\ phase[c] = "attached" => Stream(c) = <<>>

(* A replay lacks nothing of what the list had kept when it was read. *)
ReplayIsComplete ==
    \A c \in Clients : phase[c] = "replaying" => Gapless(Stream(c), snapped[c])

IInv ==
    /\ TypeOK
    /\ LogIsSuffix
    /\ OnlyPublished
    /\ InOrderOnce
    /\ ReplayIsComplete
    /\ OnlyTheGapIsMissed
    /\ LiveStopsAtTerminal
=============================================================================
