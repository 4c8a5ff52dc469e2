-------------------------- MODULE EventStreamProofs --------------------------
(***************************************************************************)
(* Theorems about EventStream, for any clients, any cap of the replay list *)
(* and any number of frames.                                               *)
(***************************************************************************)
EXTENDS EventStream, SequenceTheorems, TLAPS

-----------------------------------------------------------------------------
(* Sequences of frames *)

(* Handing over the first frame a generator holds leaves its client's       *)
(* stream as it is.                                                         *)
LEMMA HandOver ==
    ASSUME NEW d \in Seq(Frame), NEW q \in Seq(Frame), q # <<>>
    PROVE  /\ Append(d, Head(q)) \in Seq(Frame) /\ Tail(q) \in Seq(Frame)
           /\ Append(d, Head(q)) \o Tail(q) = d \o q
<1> DEFINE e == Append(d, Head(q))
<1>1. /\ Head(q) \in Frame /\ Tail(q) \in Seq(Frame) /\ Len(Tail(q)) = Len(q) - 1
      /\ \A i \in 1..Len(Tail(q)) : Tail(q)[i] = q[i + 1]
  BY HeadTailProperties
<1>2. /\ e \in Seq(Frame) /\ Len(e) = Len(d) + 1
      /\ \A i \in 1..Len(d) : e[i] = d[i]
      /\ e[Len(d) + 1] = Head(q)
  BY <1>1, AppendProperties
<1>3. Len(d) \in Nat /\ Len(q) \in Nat /\ Head(q) = q[1]
  BY LenProperties
<1>4. /\ d \o q \in Seq(Frame) /\ Len(d \o q) = Len(d) + Len(q)
      /\ \A i \in 1..Len(d) + Len(q) : (d \o q)[i] = IF i <= Len(d) THEN d[i] ELSE q[i - Len(d)]
  BY ConcatProperties
<1> HIDE DEF e
<1>5. /\ e \o Tail(q) \in Seq(Frame) /\ Len(e \o Tail(q)) = Len(e) + Len(Tail(q))
      /\ \A i \in 1..Len(e) + Len(Tail(q)) :
            (e \o Tail(q))[i] = IF i <= Len(e) THEN e[i] ELSE Tail(q)[i - Len(e)]
  BY <1>1, <1>2, ConcatProperties
<1>6. Len(e \o Tail(q)) = Len(d \o q)
  BY <1>1, <1>2, <1>3, <1>4, <1>5
<1>7. ASSUME NEW i \in 1..Len(d \o q)
      PROVE  (e \o Tail(q))[i] = (d \o q)[i]
  <2>1. CASE i <= Len(d)
    BY <2>1, <1>1, <1>2, <1>3, <1>4, <1>5
  <2>2. CASE i = Len(d) + 1
    BY <2>2, <1>1, <1>2, <1>3, <1>4, <1>5
  <2>3. CASE i > Len(d) + 1
    <3>1. i - Len(e) \in 1..Len(Tail(q)) /\ (i - Len(e)) + 1 = i - Len(d)
      BY <2>3, <1>1, <1>2, <1>3, <1>4
    <3> QED
      BY <3>1, <2>3, <1>1, <1>2, <1>3, <1>4, <1>5
  <2>4. i \in Int /\ Len(d) \in Int
    BY <1>3, <1>4
  <2>5. i <= Len(d) \/ i = Len(d) + 1 \/ i > Len(d) + 1
    BY <2>4
  <2> QED
    BY <2>1, <2>2, <2>3, <2>5
<1>8. e \o Tail(q) = d \o q
  BY <1>4, <1>5, <1>6, <1>7, SeqEqual
<1> QED
  BY <1>1, <1>2, <1>8 DEF e

(* A frame queued for a client is the last of its stream. *)
LEMMA QueueFrame ==
    ASSUME NEW d \in Seq(Frame), NEW q \in Seq(Frame), NEW f \in Frame
    PROVE  d \o Append(q, f) = Append(d \o q, f)
<1>1. d \o q \in Seq(Frame) /\ <<f>> \in Seq(Frame)
  BY ConcatProperties
<1> QED
  BY <1>1, AppendIsConcat, ConcatAssociative

(* What a client has been given comes first in its stream. *)
LEMMA GivenFirst ==
    ASSUME NEW d \in Seq(Frame), NEW q \in Seq(Frame), InOrder(d \o q)
    PROVE  InOrder(d) /\ Numbers(d) \subseteq Numbers(d \o q)
<1>1. /\ Len(d) \in Nat /\ Len(q) \in Nat
      /\ DOMAIN d = 1..Len(d) /\ DOMAIN (d \o q) = 1..Len(d) + Len(q)
      /\ \A i \in 1..Len(d) : (d \o q)[i] = d[i]
  BY LenProperties, ConcatProperties
<1> QED
  BY <1>1 DEF InOrder, Numbers

(* A frame published after all of a sequence is appended in order. *)
LEMMA AppendInOrder ==
    ASSUME NEW s \in Seq(Frame), NEW last \in Nat, NEW f \in Frame, f.n = last + 1,
           InOrder(s), Numbers(s) \subseteq 1..last
    PROVE  /\ Append(s, f) \in Seq(Frame)
           /\ InOrder(Append(s, f))
           /\ Numbers(Append(s, f)) = Numbers(s) \cup {last + 1}
<1>1. /\ Append(s, f) \in Seq(Frame) /\ Len(Append(s, f)) = Len(s) + 1
      /\ \A i \in 1..Len(s) : Append(s, f)[i] = s[i]
      /\ Append(s, f)[Len(s) + 1] = f
  BY AppendProperties
<1>2. /\ Len(s) \in Nat /\ DOMAIN s = 1..Len(s)
      /\ DOMAIN Append(s, f) = 1..Len(s) + 1
  BY <1>1, LenProperties
<1>3. \A i \in 1..Len(s) : s[i].n \in 1..last
  BY <1>2 DEF Numbers
<1>4. InOrder(Append(s, f))
  <2> SUFFICES ASSUME NEW i \in 1..Len(s) + 1, NEW j \in 1..Len(s) + 1, i < j
               PROVE  Append(s, f)[i].n < Append(s, f)[j].n
    BY <1>2 DEF InOrder
  <2>1. i \in 1..Len(s) /\ Append(s, f)[i] = s[i]
    BY <1>1, <1>2
  <2>2. CASE j = Len(s) + 1
    BY <2>1, <2>2, <1>1, <1>3
  <2>3. CASE j \in 1..Len(s)
    BY <2>1, <2>3, <1>1, <1>2 DEF InOrder
  <2> QED
    BY <2>2, <2>3, <1>2
<1>5. Numbers(Append(s, f)) = Numbers(s) \cup {last + 1}
  <2>1. \A x \in Numbers(Append(s, f)) : x \in Numbers(s) \cup {last + 1}
    BY <1>1, <1>2 DEF Numbers
  <2>2. \A x \in Numbers(s) : x \in Numbers(Append(s, f))
    BY <1>1, <1>2 DEF Numbers
  <2>3. last + 1 \in Numbers(Append(s, f))
    <3>1. Len(s) + 1 \in DOMAIN Append(s, f)
      BY <1>2
    <3> QED
      BY <3>1, <1>1 DEF Numbers
  <2> QED
    BY <2>1, <2>2, <2>3
<1> QED
  BY <1>1, <1>4, <1>5

(* The trim keeps at most LogCap frames, in their order, and those it drops *)
(* precede the ones it keeps.                                               *)
LEMMA TrimKeepsNewest ==
    ASSUME NEW s \in Seq(Frame), InOrder(s)
    PROVE  /\ Trimmed(s) \in Seq(Frame) /\ Len(Trimmed(s)) <= LogCap
           /\ InOrder(Trimmed(s))
           /\ Numbers(Trimmed(s)) \subseteq Numbers(s)
           /\ \A n \in Numbers(s) \ Numbers(Trimmed(s)) : \A m \in Numbers(Trimmed(s)) : n < m
<1>1. LogCap \in Nat /\ LogCap > 0
  BY StreamAssumption
<1>2. Len(s) \in Nat /\ DOMAIN s = 1..Len(s) /\ \A i \in 1..Len(s) : s[i] \in Frame
  BY LenProperties, ElementOfSeq
<1>3. CASE Len(s) <= LogCap
  BY <1>3 DEF Trimmed
<1>4. CASE Len(s) > LogCap
  <2> DEFINE first == Len(s) - LogCap + 1
             t == SubSeq(s, first, Len(s))
  <2>1. first \in 1..Len(s) /\ Len(s) - first + 1 = LogCap /\ first \in Int
    BY <1>1, <1>2, <1>4
  <2>2. Trimmed(s) = t
    BY <1>1, <1>2, <1>4 DEF Trimmed
  <2>3. t \in Seq(Frame) /\ Len(t) = LogCap
        /\ \A i \in 1..LogCap : t[i] = s[first + i - 1]
    <3>1. \A i \in first..Len(s) : s[i] \in Frame
      BY <1>2, <2>1
    <3> HIDE DEF first
    <3> QED
      BY <1>1, <1>2, <2>1, <3>1, SubSeqProperties
  <2>4. DOMAIN t = 1..LogCap
    BY <2>3, LenProperties
  <2> HIDE DEF t, first
  <2>5. InOrder(t)
    <3> SUFFICES ASSUME NEW i \in 1..LogCap, NEW j \in 1..LogCap, i < j
                 PROVE  t[i].n < t[j].n
      BY <2>4 DEF InOrder
    <3>1. /\ first + i - 1 \in DOMAIN s /\ first + j - 1 \in DOMAIN s
          /\ first + i - 1 < first + j - 1
      BY <1>1, <1>2, <2>1
    <3> QED
      BY <3>1, <2>3 DEF InOrder
  <2>6. Numbers(t) \subseteq Numbers(s)
    <3> SUFFICES ASSUME NEW i \in 1..LogCap
                 PROVE  t[i].n \in Numbers(s)
      BY <2>4 DEF Numbers
    <3>1. first + i - 1 \in DOMAIN s
      BY <1>1, <1>2, <2>1
    <3> QED
      BY <3>1, <2>3 DEF Numbers
  <2>7. ASSUME NEW n \in Numbers(s) \ Numbers(t), NEW m \in Numbers(t)
        PROVE  n < m
    <3>1. PICK i \in 1..Len(s) : n = s[i].n
      BY <1>2 DEF Numbers
    <3>2. PICK j \in 1..LogCap : m = t[j].n
      BY <2>4 DEF Numbers
    <3>3. first + j - 1 \in DOMAIN s /\ m = s[first + j - 1].n
      BY <3>2, <1>1, <1>2, <2>1, <2>3
    <3>4. i < first
      <4> SUFFICES ASSUME i >= first
                   PROVE  FALSE
        BY <2>1
      <4>1. i - first + 1 \in 1..LogCap /\ first + (i - first + 1) - 1 = i
        BY <1>1, <1>2, <2>1
      <4>2. t[i - first + 1] = s[i]
        BY <4>1, <2>3
      <4> QED
        BY <4>1, <4>2, <3>1, <2>4 DEF Numbers
    <3>5. i < first + j - 1
      BY <3>4, <2>1, <1>1
    <3> QED
      BY <3>1, <3>3, <3>5, <1>2 DEF InOrder
  <2> QED
    BY <2>2, <2>3, <2>5, <2>6, <2>7, <1>1
<1> QED
  BY <1>1, <1>2, <1>3, <1>4
-----------------------------------------------------------------------------
(* Clients *)

(* What the inductive invariant says of one client. *)
ClientInv(c) ==
    /\ InOrder(Stream(c))
    /\ Numbers(Stream(c)) \subseteq 1..published
    /\ phase[c] = "attached" => Stream(c) = <<>>
    /\ phase[c] = "replaying" => Gapless(Stream(c), snapped[c])
    /\ phase[c] = "live" =>
          /\ \A n \in 1..published :
                \/ n \in Numbers(Stream(c))
                \/ n \in lost
                \/ n \in (snapped[c] + 1)..since[c]
                \/ \A m \in Numbers(Stream(c)) : n < m
          /\ \A i \in DOMAIN delivered[c] : delivered[c][i].event = "progress"

(* The inductive invariant speaks of the list and of each client. *)
LEMMA ClientByClient ==
    IInv <=> TypeOK /\ LogIsSuffix /\ \A c \in Clients : ClientInv(c)
BY DEF IInv, ClientInv, OnlyPublished, InOrderOnce, ReplayIsComplete, OnlyTheGapIsMissed,
       LiveStopsAtTerminal

(* The types of what a client is given. *)
LEMMA ClientTypes ==
    ASSUME TypeOK, NEW c \in Clients
    PROVE  /\ phase[c] \in {"attached", "replaying", "live", "ended", "gone"}
           /\ inbox[c] \in Seq(Frame) /\ delivered[c] \in Seq(Frame)
           /\ snapped[c] \in Nat /\ since[c] \in Nat
           /\ Stream(c) \in Seq(Frame)
BY ConcatProperties DEF TypeOK, Stream

(* A step that leaves the publisher, the list and a client's own state      *)
(* alone leaves what is said of that client.                                *)
LEMMA ClientUntouched ==
    ASSUME NEW c \in Clients, ClientInv(c), UNCHANGED <<published, lost>>,
           phase'[c] = phase[c], inbox'[c] = inbox[c], delivered'[c] = delivered[c],
           snapped'[c] = snapped[c], since'[c] = since[c]
    PROVE  ClientInv(c)'
BY DEF ClientInv, Stream, Gapless

(* A step of one client is judged by that client alone. *)
LEMMA OneClientMoves ==
    ASSUME IInv, NEW c \in Clients, UNCHANGED <<published, lost, log>>, TypeOK', ClientInv(c)',
           \A d \in Clients \ {c} :
              /\ phase'[d] = phase[d] /\ inbox'[d] = inbox[d] /\ delivered'[d] = delivered[d]
              /\ snapped'[d] = snapped[d] /\ since'[d] = since[d]
    PROVE  IInv'
<1>1. \A d \in Clients : ClientInv(d)
  BY ClientByClient
<1>2. \A d \in Clients \ {c} : ClientInv(d)'
  BY <1>1, ClientUntouched
<1>3. LogIsSuffix'
  BY DEF IInv, LogIsSuffix, Gapless
<1>4. ASSUME NEW d \in Clients
      PROVE  ClientInv(d)'
  <2>1. CASE d = c
    BY <2>1
  <2>2. CASE d # c
    BY <2>2, <1>2
  <2> QED
    BY <2>1, <2>2
<1> QED
  BY <1>3, <1>4
  DEF IInv, ClientInv, OnlyPublished, InOrderOnce, ReplayIsComplete, OnlyTheGapIsMissed,
      LiveStopsAtTerminal
-----------------------------------------------------------------------------
(* The publisher *)

Runs == [runner : {"executing", "completed", "over"}, resumed : BOOLEAN]

(* The frame of a publish call. *)
NewFrame(event) == [n |-> published + 1, event |-> event]

(* Redis takes the frame, and the list and the live clients have it, *)
Taken(frame) ==
    /\ log' = Trimmed(Append(log, frame))
    /\ \A c \in Clients :
          inbox'[c] = IF phase[c] = "live" THEN Append(inbox[c], frame) ELSE inbox[c]
    /\ lost' = lost

(* or it does not, and nobody has it. *)
Refused(frame) ==
    /\ lost' = lost \cup {frame.n}
    /\ log' = log /\ inbox' = inbox

(* A published frame is taken or refused. *)
LEMMA PublishShape ==
    ASSUME TypeOK, NEW event \in Events, Publish(event)
    PROVE  /\ NewFrame(event) \in Frame /\ NewFrame(event).n = published + 1
           /\ Taken(NewFrame(event)) \/ Refused(NewFrame(event))
           /\ inbox' \in [Clients -> Seq(Frame)]
           /\ published' = published + 1
           /\ UNCHANGED <<phase, delivered, snapped, since>>
<1> DEFINE f == NewFrame(event)
<1>1. f \in Frame /\ f.n = published + 1
  BY DEF TypeOK, Frame, NewFrame
<1>2. \/ /\ log' = Trimmed(Append(log, f))
         /\ inbox' = [c \in Clients |->
                        IF phase[c] = "live" THEN Append(inbox[c], f) ELSE inbox[c]]
         /\ lost' = lost
      \/ lost' = lost \cup {f.n} /\ log' = log /\ inbox' = inbox
  BY DEF Publish, NewFrame
<1> HIDE DEF f
<1>3. \A c \in Clients : inbox[c] \in Seq(Frame) /\ Append(inbox[c], f) \in Seq(Frame)
  BY <1>1, ClientTypes, AppendProperties
<1>4. (Taken(f) \/ Refused(f)) /\ inbox' \in [Clients -> Seq(Frame)]
  <2>1. CASE /\ log' = Trimmed(Append(log, f))
             /\ inbox' = [c \in Clients |->
                            IF phase[c] = "live" THEN Append(inbox[c], f) ELSE inbox[c]]
             /\ lost' = lost
    <3>1. inbox' \in [Clients -> Seq(Frame)]
      BY <2>1, <1>3
    <3>2. \A c \in Clients :
             inbox'[c] = IF phase[c] = "live" THEN Append(inbox[c], f) ELSE inbox[c]
      BY <2>1
    <3> QED
      BY <3>1, <3>2, <2>1 DEF Taken
  <2>2. CASE lost' = lost \cup {f.n} /\ log' = log /\ inbox' = inbox
    BY <2>2 DEF TypeOK, Refused
  <2> QED
    BY <2>1, <2>2, <1>2
<1> QED
  BY <1>1, <1>4 DEF Publish, f

(* The list stays the unbroken end of what has been published. *)
LEMMA PublishToLog ==
    ASSUME TypeOK, LogIsSuffix, NEW f \in Frame, f.n = published + 1, published' = published + 1,
           Taken(f) \/ Refused(f)
    PROVE  log' \in Seq(Frame) /\ Len(log') <= LogCap /\ LogIsSuffix'
<1>1. published \in Nat /\ lost \subseteq Nat /\ log \in Seq(Frame) /\ Len(log) <= LogCap
  BY DEF TypeOK
<1>2. InOrder(log) /\ Numbers(log) \subseteq 1..published /\ Gapless(log, published)
  BY DEF LogIsSuffix
<1>3. CASE Taken(f)
  <2> DEFINE longer == Append(log, f)
  <2>1. /\ longer \in Seq(Frame)
        /\ InOrder(longer)
        /\ Numbers(longer) = Numbers(log) \cup {published + 1}
    BY <1>1, <1>2, AppendInOrder
  <2>2. log' = Trimmed(longer) /\ lost' = lost
    BY <1>3 DEF Taken
  <2> HIDE DEF longer
  <2>3. /\ log' \in Seq(Frame) /\ Len(log') <= LogCap
        /\ InOrder(log')
        /\ Numbers(log') \subseteq Numbers(longer)
        /\ \A n \in Numbers(longer) \ Numbers(log') : \A m \in Numbers(log') : n < m
    BY <2>1, <2>2, TrimKeepsNewest
  <2>4. Numbers(log') \subseteq 1..published'
    BY <2>1, <2>3, <1>1, <1>2
  <2>5. ASSUME NEW n \in 1..published'
        PROVE  n \in Numbers(log') \/ n \in lost' \/ \A m \in Numbers(log') : n < m
    <3>1. n = published + 1 \/ (n \in 1..published /\ n < published + 1)
      BY <1>1
    <3>2. CASE n \in Numbers(longer)
      BY <3>2, <2>3
    <3>3. CASE n \in 1..published /\ n < published + 1 /\ n \notin Numbers(log)
      BY <3>3, <2>1, <2>2, <2>3, <1>2 DEF Gapless
    <3> QED
      BY <3>1, <3>2, <3>3, <2>1
  <2> QED
    BY <2>3, <2>4, <2>5 DEF LogIsSuffix, Gapless
<1>4. CASE Refused(f)
  <2>1. log' = log /\ lost' = lost \cup {published + 1}
    BY <1>4 DEF Refused
  <2>2. ASSUME NEW n \in 1..published'
        PROVE  n \in Numbers(log) \/ n \in lost' \/ \A m \in Numbers(log) : n < m
    <3>1. n = published + 1 \/ n \in 1..published
      BY <1>1
    <3> QED
      BY <3>1, <2>1, <1>2 DEF Gapless
  <2>3. Numbers(log) \subseteq 1..published'
    BY <1>1, <1>2
  <2> QED
    BY <2>1, <2>2, <2>3, <1>1, <1>2 DEF LogIsSuffix, Gapless
<1> QED
  BY <1>3, <1>4

(* A live client's stream is continued by the frame unless Redis refuses    *)
(* it; every other stream stays as it is.                                   *)
LEMMA PublishToClient ==
    ASSUME TypeOK, NEW c \in Clients, ClientInv(c), NEW f \in Frame, f.n = published + 1,
           published' = published + 1, Taken(f) \/ Refused(f),
           UNCHANGED <<phase, delivered, snapped, since>>
    PROVE  ClientInv(c)'
<1>1. published \in Nat /\ lost \subseteq Nat /\ lost \subseteq lost'
  BY DEF TypeOK, Taken, Refused
<1>2. Stream(c) \in Seq(Frame) /\ inbox[c] \in Seq(Frame) /\ delivered[c] \in Seq(Frame)
      /\ snapped[c] \in Nat
  BY ClientTypes
<1>3. InOrder(Stream(c)) /\ Numbers(Stream(c)) \subseteq 1..published
  BY DEF ClientInv
<1>4. CASE inbox'[c] = inbox[c] /\ (phase[c] = "live" => published + 1 \in lost')
  <2>1. Stream(c)' = Stream(c)
    BY <1>4 DEF Stream
  <2>2. Numbers(Stream(c)) \subseteq 1..published'
    BY <1>1, <1>3
  <2>3. phase[c] = "replaying" => Gapless(Stream(c), snapped[c])'
    BY <2>1, <1>1 DEF ClientInv, Gapless
  <2>4. ASSUME phase[c] = "live", NEW n \in 1..published'
        PROVE  \/ n \in Numbers(Stream(c))
               \/ n \in lost'
               \/ n \in (snapped[c] + 1)..since[c]
               \/ \A m \in Numbers(Stream(c)) : n < m
    <3>1. n = published + 1 \/ n \in 1..published
      BY <1>1
    <3> QED
      BY <3>1, <2>4, <1>1, <1>4 DEF ClientInv
  <2> QED
    BY <2>1, <2>2, <2>3, <2>4, <1>3 DEF ClientInv
<1>5. CASE phase[c] = "live" /\ inbox'[c] = Append(inbox[c], f)
  <2>1. Stream(c)' = Append(Stream(c), f)
    BY <1>2, <1>5, QueueFrame DEF Stream
  <2>2. /\ InOrder(Stream(c)')
        /\ Numbers(Stream(c)') = Numbers(Stream(c)) \cup {published + 1}
    BY <2>1, <1>1, <1>2, <1>3, AppendInOrder
  <2>3. Numbers(Stream(c)') \subseteq 1..published'
    BY <2>2, <1>1, <1>3
  <2>4. ASSUME NEW n \in 1..published'
        PROVE  \/ n \in Numbers(Stream(c)')
               \/ n \in lost'
               \/ n \in (snapped[c] + 1)..since[c]
               \/ \A m \in Numbers(Stream(c)') : n < m
    <3>1. n = published + 1 \/ (n \in 1..published /\ n < published + 1)
      BY <1>1
    <3>2. CASE n \in 1..published /\ n < published + 1
      BY <3>2, <2>2, <1>1, <1>5 DEF ClientInv
    <3> QED
      BY <3>1, <3>2, <2>2
  <2> QED
    BY <2>2, <2>3, <2>4, <1>5 DEF ClientInv
<1> QED
  BY <1>4, <1>5 DEF Taken, Refused

(* Publishing keeps the inductive invariant. *)
LEMMA PublishKeeps ==
    ASSUME IInv, NEW event \in Events, Publish(event),
           run' \in Runs
    PROVE  IInv'
<1> DEFINE f == NewFrame(event)
<1>1. TypeOK /\ LogIsSuffix /\ \A c \in Clients : ClientInv(c)
  BY ClientByClient
<1>2. /\ f \in Frame /\ f.n = published + 1
      /\ Taken(f) \/ Refused(f)
      /\ inbox' \in [Clients -> Seq(Frame)]
      /\ published' = published + 1
      /\ UNCHANGED <<phase, delivered, snapped, since>>
  BY <1>1, PublishShape
<1> HIDE DEF f
<1>3. log' \in Seq(Frame) /\ Len(log') <= LogCap /\ LogIsSuffix'
  BY <1>1, <1>2, PublishToLog
<1>4. \A c \in Clients : ClientInv(c)'
  BY <1>1, <1>2, PublishToClient
<1>5. published' \in Nat /\ lost' \subseteq Nat
  <2>1. published + 1 \in Nat /\ lost \subseteq Nat
    BY <1>1 DEF TypeOK
  <2> QED
    BY <2>1, <1>2 DEF Taken, Refused
<1>6. TypeOK'
  BY <1>1, <1>2, <1>3, <1>5 DEF TypeOK, Runs
<1> QED
  BY <1>3, <1>4, <1>6
  DEF IInv, ClientInv, OnlyPublished, InOrderOnce, ReplayIsComplete, OnlyTheGapIsMissed,
      LiveStopsAtTerminal
-----------------------------------------------------------------------------
(* The steps of a client *)

(* A replay gives the client the list, or nothing. *)
LEMMA ReplayKeeps ==
    ASSUME IInv, NEW c \in Clients, Replay(c)
    PROVE  IInv'
<1>1. TypeOK /\ LogIsSuffix /\ ClientInv(c)
  BY ClientByClient
<1>2. PICK frames \in {log, <<>>} : inbox' = [inbox EXCEPT ![c] = frames]
  BY DEF Replay
<1>3. frames \in Seq(Frame) /\ <<>> \in Seq(Frame)
  BY <1>1, EmptySeq DEF TypeOK
<1>4. TypeOK'
  BY <1>1, <1>2, <1>3 DEF TypeOK, Replay
<1>5. Stream(c)' = frames
  <2>1. Stream(c) = <<>>
    BY <1>1 DEF ClientInv, Replay
  <2>2. delivered[c] = <<>> /\ delivered'[c] = <<>> /\ inbox'[c] = frames
    BY <2>1, <1>1, <1>2, ClientTypes, ConcatEqualIffEmpty DEF Stream, Replay, TypeOK
  <2> QED
    BY <2>2, <1>3, ConcatEmptySeq DEF Stream
<1>6. /\ InOrder(frames) /\ Numbers(frames) \subseteq 1..published
      /\ Gapless(frames, published)
  <2>1. CASE frames = <<>>
    <3>1. DOMAIN frames = {}
      BY <2>1, <1>3, EmptySeq, LenProperties
    <3> QED
      BY <3>1 DEF InOrder, Numbers, Gapless
  <2>2. CASE frames = log
    BY <2>2, <1>1 DEF LogIsSuffix
  <2> QED
    BY <2>1, <2>2
<1>7. ClientInv(c)'
  <2>1. /\ phase'[c] = "replaying" /\ snapped'[c] = published
        /\ published' = published /\ lost' = lost
    BY <1>1 DEF Replay, TypeOK
  <2> QED
    BY <2>1, <1>5, <1>6 DEF ClientInv, Gapless
<1> QED
  BY <1>4, <1>7, OneClientMoves DEF Replay, TypeOK, IInv

(* A replayed frame passes from the generator to the client. *)
LEMMA YieldKeeps ==
    ASSUME IInv, NEW c \in Clients, YieldReplayed(c)
    PROVE  IInv'
<1>1. TypeOK /\ ClientInv(c) /\ inbox[c] # <<>>
  BY ClientByClient DEF YieldReplayed
<1>2. /\ Append(delivered[c], Head(inbox[c])) \in Seq(Frame) /\ Tail(inbox[c]) \in Seq(Frame)
      /\ Append(delivered[c], Head(inbox[c])) \o Tail(inbox[c]) = Stream(c)
  BY <1>1, ClientTypes, HandOver DEF Stream
<1>3. /\ delivered' = [delivered EXCEPT ![c] = Append(delivered[c], Head(inbox[c]))]
      /\ inbox' = [inbox EXCEPT ![c] = Tail(inbox[c])]
  BY DEF YieldReplayed
<1>4. TypeOK'
  BY <1>1, <1>2, <1>3 DEF TypeOK, YieldReplayed
<1>5. Stream(c)' = Stream(c)
  BY <1>1, <1>2, <1>3 DEF Stream, TypeOK
<1>6. ClientInv(c)'
  BY <1>1, <1>5 DEF ClientInv, Gapless, YieldReplayed
<1> QED
  BY <1>1, <1>3, <1>4, <1>6, OneClientMoves DEF YieldReplayed, TypeOK

(* A replay that held a terminal frame ends the stream. *)
LEMMA ReplayEndsKeeps ==
    ASSUME IInv, NEW c \in Clients, ReplayEnds(c)
    PROVE  IInv'
<1>1. TypeOK /\ ClientInv(c)
  BY ClientByClient
<1>2. TypeOK'
  BY <1>1 DEF TypeOK, ReplayEnds
<1>3. phase'[c] = "ended" /\ Stream(c)' = Stream(c) /\ published' = published
  BY <1>1 DEF ReplayEnds, TypeOK, Stream
<1>4. ClientInv(c)'
  BY <1>1, <1>3 DEF ClientInv
<1> QED
  BY <1>1, <1>2, <1>4, OneClientMoves DEF ReplayEnds, TypeOK

(* One that did not goes live; what was published since it was read is the  *)
(* gap.                                                                     *)
LEMMA SubscribeKeeps ==
    ASSUME IInv, NEW c \in Clients, Subscribe(c)
    PROVE  IInv'
<1>1. TypeOK /\ ClientInv(c) /\ phase[c] = "replaying" /\ inbox[c] = <<>>
  BY ClientByClient DEF Subscribe
<1>2. TypeOK'
  BY <1>1 DEF TypeOK, Subscribe
<1>3. /\ phase'[c] = "live" /\ since'[c] = published /\ snapped'[c] = snapped[c]
      /\ Stream(c)' = Stream(c) /\ delivered'[c] = delivered[c]
      /\ published' = published /\ lost' = lost
  BY <1>1 DEF Subscribe, TypeOK, Stream
<1>4. \A i \in DOMAIN delivered[c] : delivered[c][i].event = "progress"
  <2>1. \A i \in DOMAIN delivered[c] : delivered[c][i] \in Frame
    BY <1>1, ClientTypes, LenProperties, ElementOfSeq
  <2> QED
    BY <2>1 DEF Subscribe, SeenTerminal, IsTerminal, Frame, Events
<1>5. ASSUME NEW n \in 1..published
      PROVE  \/ n \in Numbers(Stream(c))
             \/ n \in lost
             \/ n \in (snapped[c] + 1)..published
             \/ \A m \in Numbers(Stream(c)) : n < m
  <2>1. n \in 1..snapped[c] \/ n \in (snapped[c] + 1)..published
    BY <1>1, ClientTypes DEF TypeOK
  <2> QED
    BY <2>1, <1>1 DEF ClientInv, Gapless
<1>6. ClientInv(c)'
  BY <1>1, <1>3, <1>4, <1>5 DEF ClientInv
<1> QED
  BY <1>1, <1>2, <1>6, OneClientMoves DEF Subscribe, TypeOK

(* A live frame passes to the client; a terminal one is the last it gets.   *)
LEMMA DeliverKeeps ==
    ASSUME IInv, NEW c \in Clients, Deliver(c)
    PROVE  IInv'
<1> DEFINE frame == Head(inbox[c])
           given == Append(delivered[c], frame)
           rest == Tail(inbox[c])
<1>1. TypeOK /\ ClientInv(c) /\ phase[c] = "live" /\ inbox[c] # <<>>
  BY ClientByClient DEF Deliver
<1>2. given \in Seq(Frame) /\ rest \in Seq(Frame) /\ given \o rest = Stream(c)
  BY <1>1, ClientTypes, HandOver DEF Stream
<1>3. frame \in Frame
  BY <1>1, ClientTypes, HeadTailProperties
<1>4. /\ delivered' = [delivered EXCEPT ![c] = given]
      /\ UNCHANGED <<run, published, lost, log, snapped, since>>
      /\ \/ /\ IsTerminal(frame)
            /\ phase' = [phase EXCEPT ![c] = "ended"]
            /\ inbox' = [inbox EXCEPT ![c] = <<>>]
         \/ /\ ~IsTerminal(frame)
            /\ inbox' = [inbox EXCEPT ![c] = rest]
            /\ phase' = phase
  BY DEF Deliver
<1>5. /\ Len(given) = Len(delivered[c]) + 1 /\ Len(delivered[c]) \in Nat
      /\ \A i \in 1..Len(delivered[c]) : given[i] = delivered[c][i]
      /\ given[Len(delivered[c]) + 1] = frame
      /\ DOMAIN given = 1..Len(delivered[c]) + 1
      /\ DOMAIN delivered[c] = 1..Len(delivered[c])
  BY <1>1, <1>2, <1>3, ClientTypes, AppendProperties, LenProperties
<1> HIDE DEF given, rest, frame
<1>6. CASE IsTerminal(frame) /\ phase' = [phase EXCEPT ![c] = "ended"]
           /\ inbox' = [inbox EXCEPT ![c] = <<>>]
  <2>1. TypeOK'
    BY <1>1, <1>2, <1>4, <1>6, EmptySeq DEF TypeOK
  <2>2. phase'[c] = "ended" /\ Stream(c)' = given
    BY <1>1, <1>2, <1>4, <1>6, ConcatEmptySeq DEF TypeOK, Stream
  <2>3. InOrder(given) /\ Numbers(given) \subseteq Numbers(Stream(c))
    BY <1>1, <1>2, GivenFirst DEF ClientInv
  <2>4. ClientInv(c)'
    BY <2>2, <2>3, <1>1, <1>4 DEF ClientInv
  <2> QED
    BY <2>1, <2>4, <1>1, <1>4, <1>6, OneClientMoves DEF TypeOK
<1>7. CASE ~IsTerminal(frame) /\ inbox' = [inbox EXCEPT ![c] = rest] /\ phase' = phase
  <2>1. TypeOK'
    BY <1>1, <1>2, <1>4, <1>7 DEF TypeOK
  <2>2. Stream(c)' = Stream(c) /\ delivered'[c] = given
    BY <1>1, <1>2, <1>4, <1>7 DEF TypeOK, Stream
  <2>3. \A i \in DOMAIN given : given[i].event = "progress"
    <3>1. frame.event = "progress"
      BY <1>3, <1>7 DEF IsTerminal, Frame, Events
    <3> QED
      BY <3>1, <1>1, <1>5 DEF ClientInv
  <2>4. ClientInv(c)'
    BY <2>2, <2>3, <1>1, <1>4, <1>7 DEF ClientInv
  <2> QED
    BY <2>1, <2>4, <1>1, <1>4, <1>7, OneClientMoves DEF TypeOK
<1> QED
  BY <1>4, <1>6, <1>7

(* A client that leaves has been given the beginning of its stream. *)
LEMMA LeaveKeeps ==
    ASSUME IInv, NEW c \in Clients, Leave(c)
    PROVE  IInv'
<1>1. TypeOK /\ ClientInv(c)
  BY ClientByClient
<1>2. TypeOK'
  BY <1>1, EmptySeq DEF TypeOK, Leave
<1>3. phase'[c] = "gone" /\ Stream(c)' = delivered[c] /\ published' = published
  BY <1>1, ClientTypes, ConcatEmptySeq DEF Leave, TypeOK, Stream
<1>4. InOrder(delivered[c]) /\ Numbers(delivered[c]) \subseteq Numbers(Stream(c))
  BY <1>1, ClientTypes, GivenFirst DEF ClientInv, Stream
<1>5. ClientInv(c)'
  BY <1>1, <1>3, <1>4 DEF ClientInv
<1> QED
  BY <1>1, <1>2, <1>5, OneClientMoves DEF Leave, TypeOK
-----------------------------------------------------------------------------
(* The theorems *)

(* Before anything is published the list is empty and no client has begun.  *)
LEMMA InitEstablishes == Init => IInv
<1> SUFFICES ASSUME Init
             PROVE  IInv
  OBVIOUS
<1>1. <<>> \in Seq(Frame) /\ Len(<<>>) = 0 /\ DOMAIN <<>> = {}
  BY EmptySeq, LenProperties
<1>2. LogCap \in Nat
  BY StreamAssumption
<1>3. TypeOK
  BY <1>1, <1>2 DEF Init, TypeOK
<1>4. LogIsSuffix
  BY <1>1 DEF Init, LogIsSuffix, InOrder, Numbers, Gapless
<1>5. ASSUME NEW c \in Clients
      PROVE  ClientInv(c)
  <2>1. phase[c] = "attached" /\ inbox[c] = <<>> /\ delivered[c] = <<>>
    BY DEF Init
  <2>2. Stream(c) = <<>>
    BY <2>1, <1>1, ConcatEmptySeq DEF Stream
  <2> QED
    BY <2>1, <2>2, <1>1 DEF ClientInv, InOrder, Numbers
<1> QED
  BY <1>3, <1>4, <1>5, ClientByClient

(* Every step keeps the inductive invariant. *)
LEMMA StepKeeps == IInv /\ [Next]_vars => IInv'
<1> SUFFICES ASSUME IInv, [Next]_vars
             PROVE  IInv'
  OBVIOUS
<1>1. CASE PublishProgress
  <2>1. Publish("progress") /\ "progress" \in Events /\ run' = run
    BY <1>1 DEF PublishProgress, Events
  <2>2. run' \in Runs
    BY <2>1 DEF IInv, TypeOK, Runs
  <2> QED
    BY <2>1, <2>2, PublishKeeps
<1>2. CASE PublishTerminal
  <2>1. PICK event \in {"run_completed", "error"} : Publish(event)
    BY <1>2 DEF PublishTerminal
  <2>2. event \in Events /\ run' = [run EXCEPT !.runner = "completed"]
    BY <1>2 DEF PublishTerminal, Events
  <2>3. run' \in Runs
    BY <2>2 DEF IInv, TypeOK, Runs
  <2> QED
    BY <2>1, <2>2, <2>3, PublishKeeps
<1>3. CASE PublishLateError
  <2>1. Publish("error") /\ "error" \in Events /\ run' = [run EXCEPT !.runner = "over"]
    BY <1>3 DEF PublishLateError, Events
  <2>2. run' \in Runs
    BY <2>1 DEF IInv, TypeOK, Runs
  <2> QED
    BY <2>1, <2>2, PublishKeeps
<1>4. CASE Resume
  <2>1. TypeOK' /\ LogIsSuffix'
    BY <1>4 DEF Resume, reader, IInv, TypeOK, LogIsSuffix, Gapless
  <2>2. \A c \in Clients : ClientInv(c)'
    BY <1>4, ClientByClient, ClientUntouched DEF Resume, reader
  <2> QED
    BY <2>1, <2>2
    DEF IInv, ClientInv, OnlyPublished, InOrderOnce, ReplayIsComplete, OnlyTheGapIsMissed,
        LiveStopsAtTerminal
<1>5. CASE LogExpires
  <2>1. <<>> \in Seq(Frame) /\ Len(<<>>) = 0 /\ DOMAIN <<>> = {}
    BY EmptySeq, LenProperties
  <2>2. log' = <<>> /\ UNCHANGED <<run, published, lost, phase, inbox, delivered, snapped, since>>
    BY <1>5 DEF LogExpires, reader
  <2>3. TypeOK'
    BY <2>1, <2>2, StreamAssumption DEF IInv, TypeOK
  <2>4. LogIsSuffix'
    BY <2>1, <2>2 DEF LogIsSuffix, InOrder, Numbers, Gapless
  <2>5. \A c \in Clients : ClientInv(c)'
    BY <2>2, ClientByClient, ClientUntouched
  <2> QED
    BY <2>3, <2>4, <2>5
    DEF IInv, ClientInv, OnlyPublished, InOrderOnce, ReplayIsComplete, OnlyTheGapIsMissed,
        LiveStopsAtTerminal
<1>6. ASSUME NEW c \in Clients, Replay(c)
      PROVE  IInv'
  BY <1>6, ReplayKeeps
<1>7. ASSUME NEW c \in Clients, YieldReplayed(c)
      PROVE  IInv'
  BY <1>7, YieldKeeps
<1>8. ASSUME NEW c \in Clients, ReplayEnds(c)
      PROVE  IInv'
  BY <1>8, ReplayEndsKeeps
<1>9. ASSUME NEW c \in Clients, Subscribe(c)
      PROVE  IInv'
  BY <1>9, SubscribeKeeps
<1>10. ASSUME NEW c \in Clients, Deliver(c)
       PROVE  IInv'
  BY <1>10, DeliverKeeps
<1>11. ASSUME NEW c \in Clients, Leave(c)
       PROVE  IInv'
  BY <1>11, LeaveKeeps
<1>12. CASE UNCHANGED vars
  <2>1. UNCHANGED <<run, published, lost, log, phase, inbox, delivered, snapped, since>>
    BY <1>12 DEF vars
  <2>2. TypeOK' /\ LogIsSuffix'
    BY <2>1 DEF IInv, TypeOK, LogIsSuffix, Gapless
  <2>3. \A c \in Clients : ClientInv(c)'
    BY <2>1, ClientByClient, ClientUntouched
  <2> QED
    BY <2>2, <2>3
    DEF IInv, ClientInv, OnlyPublished, InOrderOnce, ReplayIsComplete, OnlyTheGapIsMissed,
        LiveStopsAtTerminal
<1> QED
  BY <1>1, <1>2, <1>3, <1>4, <1>5, <1>6, <1>7, <1>8, <1>9, <1>10, <1>11, <1>12 DEF Next

(* IInv is an inductive invariant of the event stream. *)
THEOREM Inductive == Spec => []IInv
BY InitEstablishes, StepKeeps, PTL DEF Spec

(* The list never outgrows its cap, and lists, queues and streams hold      *)
(* frames (event_bus.py: publish, replay).                                  *)
THEOREM TypeCorrect == Spec => []TypeOK
<1>1. IInv => TypeOK
  BY DEF IInv
<1> QED
  BY <1>1, Inductive, PTL

(* Whatever the trim, the expiry, lost frames and the switch from the list  *)
(* to the channel do, a client gets frames in the order they were published *)
(* and none of them twice (chat.py: _sse_frames).                           *)
THEOREM ServedInOrderOnce == Spec => []InOrderOnce
<1>1. IInv => InOrderOnce
  BY DEF IInv
<1> QED
  BY <1>1, Inductive, PTL

(* What a live client misses is bounded: frames Redis did not take, frames  *)
(* older than its first, and those of the gap between its replay and its    *)
(* subscription (chat.py: _sse_frames; event_bus.py: subscribe).            *)
THEOREM MissedIsTheGap == Spec => []OnlyTheGapIsMissed
<1>1. IInv => OnlyTheGapIsMissed
  BY DEF IInv
<1> QED
  BY <1>1, Inductive, PTL

(* A client that is still served live has been given no terminal frame      *)
(* (chat.py: _sse_frames; event_bus.py: subscribe).                         *)
THEOREM LiveUntilTerminal == Spec => []LiveStopsAtTerminal
<1>1. IInv => LiveStopsAtTerminal
  BY DEF IInv
<1> QED
  BY <1>1, Inductive, PTL
=============================================================================
