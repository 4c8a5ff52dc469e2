------------------------- MODULE AgentRuntimeProofs -------------------------
(***************************************************************************)
(* Theorems about AgentRuntime and the SkillLibrary it shares, for any     *)
(* skills, invocations and requests.                                       *)
(***************************************************************************)
EXTENDS AgentRuntime, SequenceTheorems, TLAPS

-----------------------------------------------------------------------------
(* Rows *)

(* What one row is, in the table and in a session. *)
LEMMA RowTypes ==
    ASSUME LibraryTypeOK, NEW k \in Skills
    PROVE  /\ skill[k] \in Row \cup {Absent}
           /\ skill[k].uses \in Nat /\ skill[k].ok \in Nat /\ skill[k].bad \in Nat
           /\ audit[k] \in Tally /\ audit[k].ok \in Nat /\ audit[k].bad \in Nat
BY DEF LibraryTypeOK, Row, Absent, Tally

(* What one session's copy of one row is, and what it has flushed of it. *)
LEMMA CopyTypes ==
    ASSUME LibraryTypeOK, NEW s \in Sessions, NEW k \in Skills
    PROVE  /\ view[s][k] \in Row \cup {Absent}
           /\ view[s][k].uses \in Nat /\ view[s][k].ok \in Nat /\ view[s][k].bad \in Nat
           /\ ran[s][k] \in Tally /\ ran[s][k].ok \in Nat /\ ran[s][k].bad \in Nat
           /\ wrote[s][k] \subseteq Columns
<1>1. /\ view[s] \in [Skills -> Row \cup {Absent}]
      /\ wrote[s] \in [Skills -> SUBSET Columns]
      /\ ran[s] \in [Skills -> Tally]
  BY DEF LibraryTypeOK
<1>2. /\ view[s][k] \in Row \cup {Absent} /\ ran[s][k] \in Tally
      /\ wrote[s][k] \subseteq Columns
  BY <1>1
<1> QED
  BY <1>2 DEF Row, Absent, Tally

(* A row is not the absence of one. *)
LEMMA RowsExist == Absent \notin Row /\ Absent.status = "absent"
BY DEF Row, Absent, Statuses, Retired

(* An execution adds one use and one success or failure; it promotes only   *)
(* what has succeeded often enough, and takes no retired skill into use.    *)
LEMMA CountedOnce ==
    ASSUME NEW row \in Row, NEW success \in BOOLEAN
    PROVE  /\ Counted(row, success) \in Row
           /\ Counted(row, success).uses = row.uses + 1
           /\ Counted(row, success).ok = IF success THEN row.ok + 1 ELSE row.ok
           /\ Counted(row, success).bad = IF success THEN row.bad ELSE row.bad + 1
           /\ Counted(row, success).status = "verified" =>
                 row.status = "verified" \/ Counted(row, success).ok >= PromoteAfter
           /\ row.status \in Retired => Counted(row, success).status \in Retired
<1> DEFINE new == [row EXCEPT !.uses = @ + 1,
                              !.ok = @ + (IF success THEN 1 ELSE 0),
                              !.bad = @ + (IF success THEN 0 ELSE 1)]
           status == CASE new.status = "candidate" /\ new.ok >= PromoteAfter /\ new.bad = 0 -> "verified"
                       [] new.bad >= QuarantineAfter /\ new.ok = 0 -> "quarantined"
                       [] OTHER -> new.status
<1>1. /\ new \in Row /\ new.uses = row.uses + 1 /\ new.status = row.status
      /\ new.ok = IF success THEN row.ok + 1 ELSE row.ok
      /\ new.bad = IF success THEN row.bad ELSE row.bad + 1
  <2> DEFINE uses == row.uses + 1
             ok == row.ok + (IF success THEN 1 ELSE 0)
             bad == row.bad + (IF success THEN 0 ELSE 1)
  <2>1. row.uses \in Nat /\ row.ok \in Nat /\ row.bad \in Nat
    BY DEF Row
  <2>2. /\ uses \in Nat /\ ok \in Nat /\ bad \in Nat
        /\ ok = IF success THEN row.ok + 1 ELSE row.ok
        /\ bad = IF success THEN row.bad ELSE row.bad + 1
    BY <2>1
  <2>3. new = [row EXCEPT !.uses = uses, !.ok = ok, !.bad = bad]
    OBVIOUS
  <2> HIDE DEF ok, bad, new
  <2>4. new \in Row /\ new.uses = uses /\ new.status = row.status /\ new.ok = ok /\ new.bad = bad
    <3> HIDE DEF uses
    <3> QED
      BY <2>2, <2>3 DEF Row
  <2> QED
    BY <2>2, <2>4
<1>2. Counted(row, success) = [new EXCEPT !.status = status]
  BY DEF Counted
<1> HIDE DEF new
<1>3. /\ status \in Statuses
      /\ status = "verified" => row.status = "verified" \/ new.ok >= PromoteAfter
      /\ row.status \in Retired => status \in Retired
  BY <1>1 DEF Row, Statuses, Retired
<1> HIDE DEF status
<1> QED
  BY <1>1, <1>2, <1>3 DEF Row

(* A commit of no column leaves a row, and its absence, as it is. *)
LEMMA ColumnsKept ==
    ASSUME NEW q \in Row \cup {Absent}, NEW r
    PROVE  [c \in Columns |-> IF c \in {} THEN r[c] ELSE q[c]] = q
BY DEF Row, Absent, Columns
-----------------------------------------------------------------------------
(* Sessions *)

(* What the invariant says of one session's copy of one row. *)
CopyInv(s, k) ==
    /\ Loaded(s, k) => Exists(k)
    /\ wrote[s][k] # {} => Loaded(s, k)
    /\ wrote[s][k] = {} => ran[s][k] = Nothing
    /\ view[s][k].uses <= audit[k].ok + ran[s][k].ok + (audit[k].bad + ran[s][k].bad)
    /\ view[s][k].ok <= audit[k].ok + ran[s][k].ok
    /\ view[s][k].bad <= audit[k].bad + ran[s][k].bad
    /\ (view[s][k].status = "verified" /\ k \notin smoked) => audit[k].ok + ran[s][k].ok >= PromoteAfter
    /\ (wrote[s][k] # {} /\ k \notin stale[s]) =>
          /\ \A c \in Columns \ wrote[s][k] : view[s][k][c] = skill[k][c]
          /\ view[s][k].uses = skill[k].uses + ran[s][k].ok + ran[s][k].bad
          /\ view[s][k].ok = skill[k].ok + ran[s][k].ok
          /\ view[s][k].bad = skill[k].bad + ran[s][k].bad
          /\ skill[k].status \in Retired => view[s][k].status \in Retired

(* The library's part of the invariant, copy by copy. *)
LEMMA CopyByCopy ==
    LibraryInv <=>
        /\ LibraryTypeOK /\ OneWriter /\ CountersTrailAudit
        /\ \A s \in Sessions, k \in Skills : CopyInv(s, k)
BY DEF LibraryInv, CopyInv, SessionsInOrder, CopiesTrailAudit, FreshWrites

(* A copy that neither its session nor a commit touches. *)
LEMMA CopyUntouched ==
    ASSUME NEW s \in Sessions, NEW k \in Skills, CopyInv(s, k), smoked \subseteq smoked',
           skill'[k] = skill[k], audit'[k] = audit[k],
           view'[s][k] = view[s][k], wrote'[s][k] = wrote[s][k],
           ran'[s][k] = ran[s][k], (k \in stale'[s]) <=> (k \in stale[s])
    PROVE  CopyInv(s, k)'
BY DEF CopyInv, Loaded, Exists

(* A step of one session that commits nothing is judged by that session.    *)
LEMMA OneSessionMoves ==
    ASSUME LibraryInv, NEW s \in Sessions, UNCHANGED <<enabled, committed>>,
           LibraryTypeOK', OneWriter', \A k \in Skills : CopyInv(s, k)',
           \A t \in Sessions \ {s} : /\ view'[t] = view[t] /\ wrote'[t] = wrote[t]
                                     /\ ran'[t] = ran[t] /\ stale'[t] = stale[t]
    PROVE  LibraryInv'
<1>1. UNCHANGED <<skill, audit, raced, smoked>>
  BY DEF committed
<1>2. \A t \in Sessions \ {s}, k \in Skills : CopyInv(t, k)'
  BY <1>1, CopyByCopy, CopyUntouched
<1>3. \A t \in Sessions, k \in Skills : CopyInv(t, k)'
  BY <1>2
<1>4. CountersTrailAudit'
  BY <1>1 DEF LibraryInv, CountersTrailAudit
<1> QED
  BY <1>3, <1>4 DEF LibraryInv, CopyInv, SessionsInOrder, CopiesTrailAudit, FreshWrites

(* Loading rows that exist: a copy of a committed row trails the audit as   *)
(* the row does.                                                            *)
LEMMA LoadKeeps ==
    ASSUME LibraryInv, NEW s \in Sessions, NEW ks \in SUBSET Skills, \A k \in ks : Exists(k),
           Load(s, ks), UNCHANGED <<enabled, committed, wrote, ran, stale>>
    PROVE  LibraryInv' /\ \A t \in Sessions \ {s} : view'[t] = view[t]
<1>1. LibraryTypeOK /\ UNCHANGED <<skill, audit, raced, smoked>>
  BY DEF LibraryInv, committed
<1>2. view[s] \in [Skills -> Row \cup {Absent}] /\ skill \in [Skills -> Row \cup {Absent}]
  BY <1>1 DEF LibraryTypeOK
<1>3. /\ view' \in [Sessions -> [Skills -> Row \cup {Absent}]]
      /\ \A t \in Sessions \ {s} : view'[t] = view[t]
      /\ \A k \in Skills : view'[s][k] = IF k \in ks /\ ~Loaded(s, k) THEN skill[k] ELSE view[s][k]
  <2> DEFINE copies == [k \in Skills |-> IF k \in ks /\ ~Loaded(s, k) THEN skill[k] ELSE view[s][k]]
  <2>1. copies \in [Skills -> Row \cup {Absent}]
    BY <1>2
  <2>2. view' = [view EXCEPT ![s] = copies]
    BY DEF Load
  <2>3. view'[s] = copies
    BY <1>1, <2>2 DEF LibraryTypeOK
  <2>4. \A k \in Skills : copies[k] = IF k \in ks /\ ~Loaded(s, k) THEN skill[k] ELSE view[s][k]
    OBVIOUS
  <2> HIDE DEF copies
  <2> QED
    BY <1>1, <2>1, <2>2, <2>3, <2>4 DEF LibraryTypeOK
<1>4. LibraryTypeOK'
  BY <1>1, <1>3 DEF LibraryTypeOK
<1>5. OneWriter'
  BY DEF LibraryInv, OneWriter
<1>6. ASSUME NEW k \in Skills
      PROVE  CopyInv(s, k)'
  <2>1. CopyInv(s, k)
    BY CopyByCopy
  <2>2. CASE k \in ks /\ ~Loaded(s, k)
    <3>1. view'[s][k] = skill[k] /\ wrote[s][k] = {} /\ ran[s][k] = Nothing /\ Exists(k)
      BY <2>1, <2>2, <1>3 DEF CopyInv
    <3>2. ran[s][k].ok = 0 /\ ran[s][k].bad = 0
      BY <3>1 DEF Nothing
    <3>3. /\ skill[k].uses <= audit[k].ok + audit[k].bad
          /\ skill[k].ok <= audit[k].ok /\ skill[k].bad <= audit[k].bad
          /\ (skill[k].status = "verified" /\ k \notin smoked) => audit[k].ok >= PromoteAfter
      BY DEF LibraryInv, CountersTrailAudit
    <3>4. audit[k].ok + 0 = audit[k].ok /\ audit[k].bad + 0 = audit[k].bad
      BY <1>1, RowTypes
    <3> QED
      BY <3>1, <3>2, <3>3, <3>4, <1>1 DEF CopyInv, Loaded, Exists
  <2>3. CASE ~(k \in ks /\ ~Loaded(s, k))
    <3>1. view'[s][k] = view[s][k]
      BY <2>3, <1>3
    <3> QED
      BY <2>1, <3>1, <1>1, CopyUntouched
  <2> QED
    BY <2>2, <2>3
<1> QED
  BY <1>1, <1>3, <1>4, <1>5, <1>6, OneSessionMoves

(* A session that is over holds nothing. *)
LEMMA Closed ==
    ASSUME LibraryTypeOK, NEW s \in Sessions, Close(s)
    PROVE  /\ view' \in [Sessions -> [Skills -> Row \cup {Absent}]]
           /\ wrote' \in [Sessions -> [Skills -> SUBSET Columns]]
           /\ ran' \in [Sessions -> [Skills -> Tally]]
           /\ stale' \in [Sessions -> SUBSET Skills]
           /\ \A k \in Skills : view'[s][k] = Absent /\ wrote'[s][k] = {} /\ ran'[s][k] = Nothing
           /\ stale'[s] = {}
           /\ \A t \in Sessions \ {s} : /\ view'[t] = view[t] /\ wrote'[t] = wrote[t]
                                        /\ ran'[t] = ran[t] /\ stale'[t] = stale[t]
<1>1. /\ [k \in Skills |-> Absent] \in [Skills -> Row \cup {Absent}]
      /\ [k \in Skills |-> {}] \in [Skills -> SUBSET Columns]
      /\ Nothing \in Tally /\ [k \in Skills |-> Nothing] \in [Skills -> Tally]
  BY DEF Nothing, Tally
<1>2. /\ view' = [view EXCEPT ![s] = [k \in Skills |-> Absent]]
      /\ wrote' = [wrote EXCEPT ![s] = [k \in Skills |-> {}]]
      /\ ran' = [ran EXCEPT ![s] = [k \in Skills |-> Nothing]]
      /\ stale' = [stale EXCEPT ![s] = {}]
  BY DEF Close
<1>3. /\ view'[s] = [k \in Skills |-> Absent] /\ wrote'[s] = [k \in Skills |-> {}]
      /\ ran'[s] = [k \in Skills |-> Nothing] /\ stale'[s] = {}
  BY <1>2 DEF LibraryTypeOK
<1> QED
  BY <1>1, <1>2, <1>3 DEF LibraryTypeOK

(* What a session loses, nobody else has seen. *)
LEMMA CloseKeeps ==
    ASSUME LibraryInv, NEW s \in Sessions, Close(s), UNCHANGED <<enabled, committed>>
    PROVE  LibraryInv' /\ \A t \in Sessions \ {s} : view'[t] = view[t]
<1>1. LibraryTypeOK /\ UNCHANGED <<skill, audit, raced, smoked>>
  BY DEF LibraryInv, committed
<1>2. LibraryTypeOK'
  BY <1>1, Closed DEF LibraryTypeOK
<1>3. OneWriter'
  <2>1. \A t \in Sessions, k \in Skills : wrote'[t][k] # {} => t # s /\ wrote[t][k] # {}
    BY <1>1, Closed
  <2> QED
    BY <2>1 DEF LibraryInv, OneWriter
<1>4. ASSUME NEW k \in Skills
      PROVE  CopyInv(s, k)'
  <2>1. view'[s][k] = Absent /\ wrote'[s][k] = {} /\ ran'[s][k] = Nothing
    BY <1>1, Closed
  <2>2. audit'[k].ok \in Nat /\ audit'[k].bad \in Nat
    BY <1>1, RowTypes
  <2> QED
    BY <2>1, <2>2 DEF CopyInv, Loaded, Absent, Nothing
<1> QED
  BY <1>1, <1>2, <1>3, <1>4, Closed, OneSessionMoves

(* What an execution does to a session's copies. *)
LEMMA ExecutedShape ==
    ASSUME LibraryTypeOK, NEW s \in Sessions, NEW k \in Skills, NEW success \in BOOLEAN,
           view[s][k] \in Row, Executed(s, k, success)
    PROVE  /\ LibraryTypeOK'
           /\ view'[s][k] = Counted(view[s][k], success)
           /\ wrote'[s][k] = wrote[s][k] \cup {c \in Columns : view'[s][k][c] # view[s][k][c]}
           /\ ran'[s][k].ok = (IF success THEN ran[s][k].ok + 1 ELSE ran[s][k].ok)
           /\ ran'[s][k].bad = (IF success THEN ran[s][k].bad ELSE ran[s][k].bad + 1)
           /\ k \notin stale'[s] => k \notin stale[s] /\ (wrote[s][k] # {} \/ view[s][k] = skill[k])
           /\ \A j \in Skills \ {k} : /\ view'[s][j] = view[s][j] /\ wrote'[s][j] = wrote[s][j]
                                      /\ ran'[s][j] = ran[s][j]
                                      /\ (j \in stale'[s]) <=> (j \in stale[s])
           /\ \A t \in Sessions \ {s} : /\ view'[t] = view[t] /\ wrote'[t] = wrote[t]
                                        /\ ran'[t] = ran[t] /\ stale'[t] = stale[t]
<1> DEFINE new == Counted(view[s][k], success)
           columns == wrote[s][k] \cup {c \in Columns : new[c] # view[s][k][c]}
           tally == IF success THEN [ran[s][k] EXCEPT !.ok = @ + 1] ELSE [ran[s][k] EXCEPT !.bad = @ + 1]
           lost == IF wrote[s][k] = {} /\ view[s][k] # skill[k] THEN stale[s] \cup {k} ELSE stale[s]
<1>1. /\ view[s] \in [Skills -> Row \cup {Absent}] /\ wrote[s] \in [Skills -> SUBSET Columns]
      /\ ran[s] \in [Skills -> Tally] /\ stale[s] \in SUBSET Skills
  BY DEF LibraryTypeOK
<1>2. /\ view' = [view EXCEPT ![s] = [view[s] EXCEPT ![k] = new]]
      /\ wrote' = [wrote EXCEPT ![s] = [wrote[s] EXCEPT ![k] = columns]]
      /\ ran' = [ran EXCEPT ![s] = [ran[s] EXCEPT ![k] = tally]]
      /\ stale' = [stale EXCEPT ![s] = lost]
      /\ UNCHANGED <<enabled, skill, audit, raced, smoked>>
  <2>1. /\ view' = [view EXCEPT ![s][k] = new]
        /\ wrote' = [wrote EXCEPT ![s][k] = @ \cup {c \in Columns : new[c] # view[s][k][c]}]
        /\ ran' = IF success THEN [ran EXCEPT ![s][k].ok = @ + 1] ELSE [ran EXCEPT ![s][k].bad = @ + 1]
        /\ stale' = IF wrote[s][k] = {} /\ view[s][k] # skill[k]
                    THEN [stale EXCEPT ![s] = @ \cup {k}] ELSE stale
        /\ UNCHANGED <<enabled, committed>>
    BY DEF Executed
  <2>2. stale = [stale EXCEPT ![s] = stale[s]]
    BY DEF LibraryTypeOK
  <2>3. stale' = [stale EXCEPT ![s] = lost]
    BY <2>1, <2>2
  <2>4. /\ view' = [view EXCEPT ![s] = [view[s] EXCEPT ![k] = new]]
        /\ wrote' = [wrote EXCEPT ![s] = [wrote[s] EXCEPT ![k] = columns]]
    <3> HIDE DEF new
    <3> QED
      BY <2>1
  <2>5. ran' = [ran EXCEPT ![s] = [ran[s] EXCEPT ![k] = tally]]
    BY <2>1
  <2> HIDE DEF new, columns, tally, lost
  <2> QED
    BY <2>1, <2>3, <2>4, <2>5 DEF committed
<1>3. new \in Row
  BY CountedOnce
<1>4. columns \in SUBSET Columns
  BY <1>1
<1>5. /\ tally \in Tally
      /\ tally.ok = (IF success THEN ran[s][k].ok + 1 ELSE ran[s][k].ok)
      /\ tally.bad = (IF success THEN ran[s][k].bad ELSE ran[s][k].bad + 1)
  <2>1. ran[s][k] \in Tally
    BY <1>1
  <2> QED
    BY <2>1 DEF Tally
<1>6. /\ lost \in SUBSET Skills
      /\ k \notin lost => k \notin stale[s] /\ (wrote[s][k] # {} \/ view[s][k] = skill[k])
      /\ \A j \in Skills \ {k} : (j \in lost) <=> (j \in stale[s])
  BY <1>1
<1> HIDE DEF tally, lost
<1>7. /\ view'[s] = [view[s] EXCEPT ![k] = new] /\ wrote'[s] = [wrote[s] EXCEPT ![k] = columns]
      /\ ran'[s] = [ran[s] EXCEPT ![k] = tally] /\ stale'[s] = lost
  <2> HIDE DEF new, columns
  <2> QED
    BY <1>2 DEF LibraryTypeOK
<1>8. view'[s][k] = new /\ wrote'[s][k] = columns /\ ran'[s][k] = tally
  <2> HIDE DEF new, columns
  <2> QED
    BY <1>1, <1>7
<1>9. LibraryTypeOK'
  <2> HIDE DEF new, columns
  <2> QED
    BY <1>1, <1>2, <1>3, <1>4, <1>5, <1>6 DEF LibraryTypeOK
<1>10. \A j \in Skills \ {k} : /\ view'[s][j] = view[s][j] /\ wrote'[s][j] = wrote[s][j]
                               /\ ran'[s][j] = ran[s][j]
  <2> HIDE DEF new, columns
  <2> QED
    BY <1>1, <1>7
<1>11. \A t \in Sessions \ {s} : /\ view'[t] = view[t] /\ wrote'[t] = wrote[t]
                                 /\ ran'[t] = ran[t] /\ stale'[t] = stale[t]
  <2> HIDE DEF new, columns
  <2> QED
    BY <1>2 DEF LibraryTypeOK
<1> QED
  BY <1>5, <1>6, <1>7, <1>8, <1>9, <1>10, <1>11

(* An execution is counted by the session whose row it locks. *)
LEMMA ExecutedKeeps ==
    ASSUME LibraryInv, NEW s \in Sessions, NEW k \in Skills, NEW success \in BOOLEAN,
           Loaded(s, k), Executed(s, k, success)
    PROVE  LibraryInv' /\ \A t \in Sessions \ {s} : view'[t] = view[t]
<1>1. LibraryTypeOK /\ UNCHANGED <<enabled, committed>> /\ UNCHANGED <<skill, audit, raced, smoked>>
  BY DEF LibraryInv, Executed, committed
<1>2. view[s][k] \in Row /\ view'[s][k] \in Row
  <2>1. view[s][k] \in Row
    BY <1>1, CopyTypes DEF Loaded
  <2> QED
    BY <2>1, <1>1, ExecutedShape, CountedOnce
<1>3. LibraryTypeOK'
  BY <1>1, <1>2, ExecutedShape
<1>4. /\ view'[s][k].uses = view[s][k].uses + 1
      /\ view'[s][k].ok = (IF success THEN view[s][k].ok + 1 ELSE view[s][k].ok)
      /\ view'[s][k].bad = (IF success THEN view[s][k].bad ELSE view[s][k].bad + 1)
      /\ view'[s][k].status = "verified" => view[s][k].status = "verified" \/ view'[s][k].ok >= PromoteAfter
      /\ view[s][k].status \in Retired => view'[s][k].status \in Retired
  BY <1>1, <1>2, ExecutedShape, CountedOnce
<1>5. wrote'[s][k] # {} /\ wrote[s][k] \subseteq wrote'[s][k]
      /\ \A c \in Columns \ wrote'[s][k] : view'[s][k][c] = view[s][k][c]
  <2>1. view'[s][k].uses # view[s][k].uses /\ "uses" \in Columns
    BY <1>1, <1>4, CopyTypes DEF Columns
  <2>2. wrote'[s][k] = wrote[s][k] \cup {c \in Columns : view'[s][k][c] # view[s][k][c]}
    BY <1>1, <1>2, ExecutedShape
  <2>3. view'[s][k]["uses"] # view[s][k]["uses"]
    BY <2>1
  <2>4. wrote'[s][k] # {} /\ wrote[s][k] \subseteq wrote'[s][k]
    BY <2>1, <2>2, <2>3
  <2>5. ASSUME NEW c \in Columns \ wrote'[s][k]
        PROVE  view'[s][k][c] = view[s][k][c]
    BY <2>2
  <2> QED
    BY <2>4, <2>5
<1>6. OneWriter'
  <2>1. \A t \in Sessions \ {s} : wrote'[t][k] = {}
    <3>1. \A t \in Sessions \ {s} : wrote[t][k] = {}
      BY DEF Executed, Locked
    <3>2. \A t \in Sessions \ {s} : wrote'[t] = wrote[t]
      BY <1>1, <1>2, ExecutedShape
    <3> QED
      BY <3>1, <3>2
  <2>2. \A t \in Sessions, j \in Skills \ {k} : wrote'[t][j] = wrote[t][j]
    BY <1>1, <1>2, ExecutedShape
  <2> QED
    BY <2>1, <2>2 DEF LibraryInv, OneWriter
<1>7. ASSUME NEW j \in Skills
      PROVE  CopyInv(s, j)'
  <2>1. CopyInv(s, j)
    BY CopyByCopy
  <2>2. CASE j # k
    <3>1. /\ view'[s][j] = view[s][j] /\ wrote'[s][j] = wrote[s][j] /\ ran'[s][j] = ran[s][j]
          /\ (j \in stale'[s]) <=> (j \in stale[s])
      BY <1>1, <1>2, <2>2, ExecutedShape
    <3> QED
      BY <2>1, <3>1, <1>1, CopyUntouched
  <2>3. CASE j = k
    <3> DEFINE oks == ran[s][k].ok
               bads == ran[s][k].bad
               row == view[s][k]
               new == view'[s][k]
               oks2 == ran'[s][k].ok
               bads2 == ran'[s][k].bad
    <3>1. /\ oks2 = (IF success THEN oks + 1 ELSE oks) /\ bads2 = (IF success THEN bads ELSE bads + 1)
          /\ oks \in Nat /\ bads \in Nat /\ audit[k].ok \in Nat /\ audit[k].bad \in Nat
          /\ row.uses \in Nat /\ row.ok \in Nat /\ row.bad \in Nat
          /\ skill[k].uses \in Nat /\ skill[k].ok \in Nat /\ skill[k].bad \in Nat
      BY <1>1, <1>2, ExecutedShape, RowTypes, CopyTypes
    <3>2. /\ row.uses <= audit[k].ok + oks + (audit[k].bad + bads)
          /\ row.ok <= audit[k].ok + oks /\ row.bad <= audit[k].bad + bads
          /\ (row.status = "verified" /\ k \notin smoked) => audit[k].ok + oks >= PromoteAfter
      BY <2>1, <2>3 DEF CopyInv
    <3>3. /\ new.uses <= audit[k].ok + oks2 + (audit[k].bad + bads2)
          /\ new.ok <= audit[k].ok + oks2 /\ new.bad <= audit[k].bad + bads2
      <4> HIDE DEF oks, bads, row, new, oks2, bads2
      <4> QED
        BY <3>1, <3>2, <1>4 DEF new, row
    <3>4. (new.status = "verified" /\ k \notin smoked) => audit[k].ok + oks2 >= PromoteAfter
      <4>1. new.ok \in Nat /\ PromoteAfter \in Nat
        BY <1>2, LibraryAssumption DEF Row
      <4>2. oks2 >= oks /\ oks2 \in Nat
        BY <3>1
      <4>3. new.status = "verified" => row.status = "verified" \/ new.ok >= PromoteAfter
        BY <1>4
      <4> HIDE DEF oks, oks2, bads, bads2
      <4> QED
        BY <3>1, <3>2, <3>3, <4>1, <4>2, <4>3
    <3>5. ASSUME k \notin stale'[s]
          PROVE  /\ \A c \in Columns \ wrote'[s][k] : view'[s][k][c] = skill[k][c]
                 /\ new.uses = skill[k].uses + oks2 + bads2
                 /\ new.ok = skill[k].ok + oks2
                 /\ new.bad = skill[k].bad + bads2
                 /\ skill[k].status \in Retired => new.status \in Retired
      <4>1. k \notin stale[s] /\ (wrote[s][k] # {} \/ row = skill[k])
        BY <1>1, <1>2, <3>5, ExecutedShape
      <4>2. /\ \A c \in Columns \ wrote[s][k] : view[s][k][c] = skill[k][c]
            /\ row.uses = skill[k].uses + oks + bads
            /\ row.ok = skill[k].ok + oks
            /\ row.bad = skill[k].bad + bads
            /\ skill[k].status \in Retired => row.status \in Retired
        <5>1. CASE wrote[s][k] # {}
          BY <2>1, <2>3, <4>1, <5>1 DEF CopyInv
        <5>2. CASE wrote[s][k] = {}
          <6>1. row = skill[k] /\ oks = 0 /\ bads = 0
            BY <2>1, <2>3, <4>1, <5>2 DEF CopyInv, Nothing
          <6> QED
            BY <3>1, <6>1
        <5> QED
          BY <5>1, <5>2
      <4>3. \A c \in Columns \ wrote'[s][k] : view'[s][k][c] = skill[k][c]
        BY <1>5, <4>2
      <4>4. /\ new.uses = skill[k].uses + oks2 + bads2
            /\ new.ok = skill[k].ok + oks2 /\ new.bad = skill[k].bad + bads2
        <5> HIDE DEF oks, bads, oks2, bads2
        <5> QED
          BY <3>1, <1>4, <4>2
      <4> QED
        BY <1>4, <4>2, <4>3, <4>4
    <3>6. Loaded(s, k)' /\ Exists(k)'
      <4>1. Exists(k)
        BY <2>1, <2>3 DEF CopyInv
      <4> QED
        BY <4>1, <1>1, <1>2, RowsExist DEF Loaded, Exists
    <3>7. CopyInv(s, k)'
      BY <1>1, <1>5, <3>3, <3>4, <3>5, <3>6 DEF CopyInv
    <3> QED
      BY <2>3, <3>7
  <2> QED
    BY <2>2, <2>3
<1>8. \A t \in Sessions \ {s} : /\ view'[t] = view[t] /\ wrote'[t] = wrote[t]
                                /\ ran'[t] = ran[t] /\ stale'[t] = stale[t]
  BY <1>1, <1>2, ExecutedShape
<1> QED
  BY <1>1, <1>3, <1>6, <1>7, <1>8, OneSessionMoves

(* What a commit does to one row: nothing, unless the session has written it. *)
LEMMA PublishedRow ==
    ASSUME LibraryInv, NEW s \in Sessions, NEW k \in Skills, Publish(s)
    PROVE  /\ wrote[s][k] = {} => skill'[k] = skill[k] /\ audit'[k] = audit[k]
           /\ wrote[s][k] # {} =>
                 /\ skill[k] \in Row /\ view[s][k] \in Row /\ skill'[k] \in Row
                 /\ \A c \in Columns : skill'[k][c] = IF c \in wrote[s][k] THEN view[s][k][c] ELSE skill[k][c]
           /\ audit'[k] \in Tally
           /\ audit'[k].ok = audit[k].ok + ran[s][k].ok /\ audit'[k].bad = audit[k].bad + ran[s][k].bad
<1>1. /\ skill'[k] = [c \in Columns |-> IF c \in wrote[s][k] THEN view[s][k][c] ELSE skill[k][c]]
      /\ audit'[k] = [ok |-> audit[k].ok + ran[s][k].ok, bad |-> audit[k].bad + ran[s][k].bad]
  BY DEF Publish
<1>2. LibraryTypeOK /\ CopyInv(s, k)
  BY CopyByCopy
<1>3. /\ skill[k] \in Row \cup {Absent} /\ view[s][k] \in Row \cup {Absent}
      /\ wrote[s][k] \in SUBSET Columns /\ audit[k] \in Tally /\ ran[s][k] \in Tally
  BY <1>2, RowTypes, CopyTypes
<1>4. ASSUME wrote[s][k] = {}
      PROVE  skill'[k] = skill[k] /\ audit'[k] = audit[k]
  <2>1. skill'[k] = [c \in Columns |-> IF c \in {} THEN view[s][k][c] ELSE skill[k][c]]
    BY <1>1, <1>4
  <2>2. skill'[k] = skill[k]
    BY <2>1, <1>3, ColumnsKept
  <2>3. ran[s][k].ok = 0 /\ ran[s][k].bad = 0
    BY <1>2, <1>4 DEF CopyInv, Nothing
  <2>4. audit'[k] = audit[k]
    BY <1>1, <1>3, <2>3 DEF Tally
  <2> QED
    BY <2>2, <2>4
<1>5. ASSUME wrote[s][k] # {}
      PROVE  skill[k] \in Row /\ view[s][k] \in Row
  BY <1>2, <1>3, <1>5 DEF CopyInv, Loaded, Exists
<1>6. ASSUME wrote[s][k] # {}
      PROVE  /\ skill'[k] \in Row
             /\ \A c \in Columns : skill'[k][c] = IF c \in wrote[s][k] THEN view[s][k][c] ELSE skill[k][c]
  <2>1. \A c \in Columns : skill'[k][c] = IF c \in wrote[s][k] THEN view[s][k][c] ELSE skill[k][c]
    BY <1>1
  <2>2. skill[k] \in Row /\ view[s][k] \in Row
    BY <1>3, <1>5, <1>6
  <2>3. skill'[k] \in Row
    BY <1>1, <2>2 DEF Row, Columns
  <2> QED
    BY <2>1, <2>3
<1>7. /\ audit'[k] \in Tally
      /\ audit'[k].ok = audit[k].ok + ran[s][k].ok /\ audit'[k].bad = audit[k].bad + ran[s][k].bad
  BY <1>1, <1>3 DEF Tally
<1> QED
  BY <1>4, <1>5, <1>6, <1>7

(* A commit makes the written copies the rows: that they trail the audit is *)
(* what the invariant says of the copies.                                   *)
LEMMA PublishKeeps ==
    ASSUME LibraryInv, NEW s \in Sessions, Publish(s)
    PROVE  LibraryInv' /\ \A t \in Sessions \ {s} : view'[t] = view[t]
<1>1. LibraryTypeOK /\ Close(s) /\ UNCHANGED <<enabled, smoked>> /\ raced' = raced \cup stale[s]
  BY DEF LibraryInv, Publish
<1>2. LibraryTypeOK'
  <2>1. \A k \in Skills : skill'[k] \in Row \cup {Absent} /\ audit'[k] \in Tally
    BY <1>1, PublishedRow, RowTypes
  <2>2. skill' \in [Skills -> Row \cup {Absent}] /\ audit' \in [Skills -> Tally]
    BY <2>1 DEF Publish
  <2>3. raced' \subseteq Skills
    BY <1>1 DEF LibraryTypeOK
  <2> QED
    BY <1>1, <2>2, <2>3, Closed DEF LibraryTypeOK
<1>3. OneWriter'
  <2>1. \A t \in Sessions, k \in Skills : wrote'[t][k] # {} => t # s /\ wrote[t][k] # {}
    BY <1>1, Closed
  <2> QED
    BY <2>1 DEF LibraryInv, OneWriter
<1>4. ASSUME NEW t \in Sessions, NEW k \in Skills
      PROVE  CopyInv(t, k)'
  <2>1. CopyInv(t, k)
    BY CopyByCopy
  <2>2. CASE t = s
    <3>1. view'[s][k] = Absent /\ wrote'[s][k] = {} /\ ran'[s][k] = Nothing
      BY <1>1, Closed
    <3>2. audit'[k].ok \in Nat /\ audit'[k].bad \in Nat
      BY PublishedRow DEF Tally
    <3> QED
      BY <2>2, <3>1, <3>2 DEF CopyInv, Loaded, Absent, Nothing
  <2>3. CASE t # s
    <3>1. view'[t] = view[t] /\ wrote'[t] = wrote[t] /\ ran'[t] = ran[t] /\ stale'[t] = stale[t]
      BY <1>1, <2>3, Closed
    <3>2. CASE wrote[s][k] = {}
      <4>1. skill'[k] = skill[k] /\ audit'[k] = audit[k]
        BY <3>2, PublishedRow
      <4> QED
        BY <1>1, <2>1, <3>1, <4>1, CopyUntouched
    <3>3. CASE wrote[s][k] # {}
      <4>1. wrote[t][k] = {}
        BY <2>3, <3>3 DEF LibraryInv, OneWriter
      <4>2. ran[t][k].ok = 0 /\ ran[t][k].bad = 0 /\ ran[t][k] = Nothing
        BY <2>1, <4>1 DEF CopyInv, Nothing
      <4>3. Exists(k)'
        BY <3>3, PublishedRow, RowsExist DEF Exists
      <4>4. /\ audit'[k].ok = audit[k].ok + ran[s][k].ok /\ audit'[k].bad = audit[k].bad + ran[s][k].bad
            /\ audit[k].ok \in Nat /\ audit[k].bad \in Nat /\ ran[s][k].ok \in Nat /\ ran[s][k].bad \in Nat
            /\ view[t][k].uses \in Nat /\ view[t][k].ok \in Nat /\ view[t][k].bad \in Nat
        BY <1>1, PublishedRow, RowTypes, CopyTypes
      <4>5. /\ view[t][k].uses <= audit'[k].ok + 0 + (audit'[k].bad + 0)
            /\ view[t][k].ok <= audit'[k].ok + 0 /\ view[t][k].bad <= audit'[k].bad + 0
            /\ (view[t][k].status = "verified" /\ k \notin smoked) => audit'[k].ok + 0 >= PromoteAfter
        <5>1. /\ view[t][k].uses <= audit[k].ok + 0 + (audit[k].bad + 0)
              /\ view[t][k].ok <= audit[k].ok + 0 /\ view[t][k].bad <= audit[k].bad + 0
              /\ (view[t][k].status = "verified" /\ k \notin smoked) => audit[k].ok + 0 >= PromoteAfter
          BY <2>1, <4>2 DEF CopyInv
        <5> QED
          BY <4>4, <5>1, LibraryAssumption
      <4> QED
        BY <1>1, <3>1, <4>1, <4>2, <4>3, <4>5 DEF CopyInv
    <3> QED
      BY <3>2, <3>3
  <2> QED
    BY <2>2, <2>3
<1>5. ASSUME NEW k \in Skills
      PROVE  /\ skill'[k].uses <= audit'[k].ok + audit'[k].bad
             /\ skill'[k].ok <= audit'[k].ok /\ skill'[k].bad <= audit'[k].bad
             /\ k \notin raced' => /\ skill'[k].uses = skill'[k].ok + skill'[k].bad
                                   /\ skill'[k].ok = audit'[k].ok /\ skill'[k].bad = audit'[k].bad
             /\ skill'[k].status = "verified" /\ k \notin smoked' => audit'[k].ok >= PromoteAfter
  <2>1. /\ skill[k].uses <= audit[k].ok + audit[k].bad
        /\ skill[k].ok <= audit[k].ok /\ skill[k].bad <= audit[k].bad
        /\ k \notin raced => /\ skill[k].uses = skill[k].ok + skill[k].bad
                             /\ skill[k].ok = audit[k].ok /\ skill[k].bad = audit[k].bad
        /\ skill[k].status = "verified" /\ k \notin smoked => audit[k].ok >= PromoteAfter
    BY DEF LibraryInv, CountersTrailAudit
  <2>2. CASE wrote[s][k] = {}
    BY <1>1, <2>1, <2>2, PublishedRow
  <2>3. CASE wrote[s][k] # {}
    <3>1. CopyInv(s, k)
      BY CopyByCopy
    <3>2. /\ skill'[k].uses \in {view[s][k].uses, skill[k].uses}
          /\ skill'[k].ok \in {view[s][k].ok, skill[k].ok}
          /\ skill'[k].bad \in {view[s][k].bad, skill[k].bad}
          /\ skill'[k].status \in {view[s][k].status, skill[k].status}
      BY <2>3, PublishedRow DEF Columns
    <3>3. /\ audit'[k].ok = audit[k].ok + ran[s][k].ok /\ audit'[k].bad = audit[k].bad + ran[s][k].bad
          /\ audit[k].ok \in Nat /\ audit[k].bad \in Nat /\ ran[s][k].ok \in Nat /\ ran[s][k].bad \in Nat
          /\ view[s][k].uses \in Nat /\ view[s][k].ok \in Nat /\ view[s][k].bad \in Nat
          /\ skill[k].uses \in Nat /\ skill[k].ok \in Nat /\ skill[k].bad \in Nat
      BY <1>1, PublishedRow, RowTypes, CopyTypes
    <3>4. /\ skill'[k].uses <= audit'[k].ok + audit'[k].bad
          /\ skill'[k].ok <= audit'[k].ok /\ skill'[k].bad <= audit'[k].bad
      <4>1. /\ view[s][k].uses <= audit[k].ok + ran[s][k].ok + (audit[k].bad + ran[s][k].bad)
            /\ view[s][k].ok <= audit[k].ok + ran[s][k].ok /\ view[s][k].bad <= audit[k].bad + ran[s][k].bad
        BY <3>1 DEF CopyInv
      <4> QED
        BY <2>1, <3>2, <3>3, <4>1
    <3>5. skill'[k].status = "verified" /\ k \notin smoked' => audit'[k].ok >= PromoteAfter
      <4>1. (view[s][k].status = "verified" /\ k \notin smoked) => audit[k].ok + ran[s][k].ok >= PromoteAfter
        BY <3>1 DEF CopyInv
      <4> QED
        BY <1>1, <2>1, <3>2, <3>3, <4>1, LibraryAssumption
    <3>6. ASSUME k \notin raced'
          PROVE  /\ skill'[k].uses = skill'[k].ok + skill'[k].bad
                 /\ skill'[k].ok = audit'[k].ok /\ skill'[k].bad = audit'[k].bad
      <4>1. k \notin raced /\ k \notin stale[s]
        BY <1>1, <3>6
      <4>2. /\ \A c \in Columns \ wrote[s][k] : view[s][k][c] = skill[k][c]
            /\ view[s][k].uses = skill[k].uses + ran[s][k].ok + ran[s][k].bad
            /\ view[s][k].ok = skill[k].ok + ran[s][k].ok
            /\ view[s][k].bad = skill[k].bad + ran[s][k].bad
        BY <2>3, <3>1, <4>1 DEF CopyInv
      <4>3. /\ skill'[k].uses = view[s][k].uses
            /\ skill'[k].ok = view[s][k].ok /\ skill'[k].bad = view[s][k].bad
        BY <2>3, <4>2, PublishedRow DEF Columns
      <4> QED
        BY <2>1, <3>3, <4>1, <4>2, <4>3
    <3> QED
      BY <3>4, <3>5, <3>6
  <2> QED
    BY <2>2, <2>3
<1>6. CountersTrailAudit'
  BY <1>5 DEF CountersTrailAudit
<1>7. \A t \in Sessions \ {s} : view'[t] = view[t]
  BY <1>1, Closed
<1> QED
  BY <1>2, <1>3, <1>4, <1>6, <1>7 DEF LibraryInv, CopyInv, SessionsInOrder, CopiesTrailAudit, FreshWrites

(* Nobody holds a row that is not there yet. *)
LEMMA RegisterKeeps ==
    ASSUME LibraryInv, NEW k \in Skills, Register(k)
    PROVE  LibraryInv' /\ UNCHANGED view
<1>1. /\ LibraryTypeOK /\ UNCHANGED <<enabled, audit, raced, view, wrote, ran, stale>>
      /\ smoked \subseteq smoked' /\ smoked' \subseteq smoked \cup {k} /\ skill[k] = Absent
  BY DEF LibraryInv, Register, session, Exists
<1>2. PICK status \in {"verified", "candidate"} :
          /\ skill' = [skill EXCEPT ![k] = [Absent EXCEPT !.status = status]]
          /\ status = "verified" => k \in smoked'
  BY DEF Register
<1>3. /\ skill'[k] = [Absent EXCEPT !.status = status]
      /\ \A j \in Skills \ {k} : skill'[j] = skill[j]
  BY <1>1, <1>2 DEF LibraryTypeOK
<1>4. /\ skill'[k] \in Row /\ skill'[k].uses = 0 /\ skill'[k].ok = 0 /\ skill'[k].bad = 0
      /\ skill'[k].status = "verified" => k \in smoked'
  BY <1>2, <1>3 DEF Absent, Row, Statuses
<1>5. LibraryTypeOK'
  <2>1. skill' \in [Skills -> Row \cup {Absent}]
    BY <1>1, <1>2, <1>3, <1>4 DEF LibraryTypeOK
  <2> QED
    BY <1>1, <2>1 DEF LibraryTypeOK
<1>6. OneWriter'
  BY <1>1 DEF LibraryInv, OneWriter
<1>7. ASSUME NEW t \in Sessions, NEW j \in Skills
      PROVE  CopyInv(t, j)'
  <2>1. CopyInv(t, j)
    BY CopyByCopy
  <2>2. CASE j # k
    BY <1>1, <1>3, <2>1, <2>2, CopyUntouched
  <2>3. CASE j = k
    <3>1. view[t][k] = Absent /\ wrote[t][k] = {} /\ ran[t][k] = Nothing
      BY <1>1, <2>1, <2>3 DEF CopyInv, Loaded, Exists
    <3>2. audit[k].ok \in Nat /\ audit[k].bad \in Nat
      BY <1>1, RowTypes
    <3> QED
      BY <1>1, <2>3, <3>1, <3>2 DEF CopyInv, Loaded, Absent, Nothing
  <2> QED
    BY <2>2, <2>3
<1>8. CountersTrailAudit'
  <2> SUFFICES ASSUME NEW j \in Skills
               PROVE  /\ skill'[j].uses <= audit'[j].ok + audit'[j].bad
                      /\ skill'[j].ok <= audit'[j].ok /\ skill'[j].bad <= audit'[j].bad
                      /\ j \notin raced' => /\ skill'[j].uses = skill'[j].ok + skill'[j].bad
                                            /\ skill'[j].ok = audit'[j].ok /\ skill'[j].bad = audit'[j].bad
                      /\ skill'[j].status = "verified" /\ j \notin smoked' => audit'[j].ok >= PromoteAfter
    BY DEF CountersTrailAudit
  <2>1. /\ skill[j].uses <= audit[j].ok + audit[j].bad
        /\ skill[j].ok <= audit[j].ok /\ skill[j].bad <= audit[j].bad
        /\ j \notin raced => /\ skill[j].uses = skill[j].ok + skill[j].bad
                             /\ skill[j].ok = audit[j].ok /\ skill[j].bad = audit[j].bad
        /\ skill[j].status = "verified" /\ j \notin smoked => audit[j].ok >= PromoteAfter
    BY DEF LibraryInv, CountersTrailAudit
  <2>2. CASE j # k
    BY <1>1, <1>3, <2>1, <2>2
  <2>3. CASE j = k
    <3>1. skill[k].uses = 0 /\ skill[k].ok = 0 /\ skill[k].bad = 0
      BY <1>1 DEF Absent
    <3> QED
      BY <1>1, <1>4, <2>1, <2>3, <3>1
  <2> QED
    BY <2>2, <2>3
<1> QED
  BY <1>1, <1>5, <1>6, <1>7, <1>8 DEF LibraryInv, CopyInv, SessionsInOrder, CopiesTrailAudit, FreshWrites

(* Nobody is writing the row. *)
LEMMA DeprecateKeeps ==
    ASSUME LibraryInv, NEW k \in Skills, Deprecate(k)
    PROVE  LibraryInv' /\ UNCHANGED view
<1>1. /\ LibraryTypeOK /\ UNCHANGED <<enabled, audit, raced, smoked, view, wrote, ran, stale>>
      /\ \A s \in Sessions : wrote[s][k] = {}
  BY DEF LibraryInv, Deprecate, session
<1>2. skill[k] \in Row
  BY <1>1, RowTypes DEF Deprecate, Exists
<1>3. /\ skill' = [skill EXCEPT ![k] = [skill[k] EXCEPT !.status = "deprecated"]]
      /\ skill'[k] = [skill[k] EXCEPT !.status = "deprecated"]
      /\ \A j \in Skills \ {k} : skill'[j] = skill[j]
  BY <1>1 DEF LibraryTypeOK, Deprecate
<1>4. /\ skill'[k] \in Row /\ skill'[k].status = "deprecated"
      /\ skill'[k].uses = skill[k].uses /\ skill'[k].ok = skill[k].ok /\ skill'[k].bad = skill[k].bad
  BY <1>2, <1>3 DEF Row, Statuses, Retired
<1>5. LibraryTypeOK'
  <2>1. skill' \in [Skills -> Row \cup {Absent}]
    BY <1>1, <1>3, <1>4 DEF LibraryTypeOK
  <2> QED
    BY <1>1, <2>1 DEF LibraryTypeOK
<1>6. OneWriter'
  BY <1>1 DEF LibraryInv, OneWriter
<1>7. ASSUME NEW t \in Sessions, NEW j \in Skills
      PROVE  CopyInv(t, j)'
  <2>1. CopyInv(t, j)
    BY CopyByCopy
  <2>2. CASE j # k
    BY <1>1, <1>3, <2>1, <2>2, CopyUntouched
  <2>3. CASE j = k
    <3>1. Exists(k)'
      BY <1>4, RowsExist DEF Exists
    <3> QED
      BY <1>1, <2>1, <2>3, <3>1 DEF CopyInv, Loaded
  <2> QED
    BY <2>2, <2>3
<1>8. CountersTrailAudit'
  <2>1. \A j \in Skills : /\ skill'[j].uses = skill[j].uses /\ skill'[j].ok = skill[j].ok
                          /\ skill'[j].bad = skill[j].bad
                          /\ skill'[j].status = "verified" => skill[j].status = "verified"
    BY <1>3, <1>4
  <2> QED
    BY <1>1, <2>1 DEF LibraryInv, CountersTrailAudit
<1> QED
  BY <1>1, <1>5, <1>6, <1>7, <1>8 DEF LibraryInv, CopyInv, SessionsInOrder, CopiesTrailAudit, FreshWrites

(* The requests keep the invariant, and what an agent has loaded. *)
LEMMA LibraryKeeps ==
    ASSUME LibraryInv, Library
    PROVE  LibraryInv' /\ \A s \in Sessions \ Callers : view'[s] = view[s]
<1> USE LibraryAssumption
<1>1. CASE \E k \in Skills : Register(k) \/ Deprecate(k)
  BY <1>1, RegisterKeeps, DeprecateKeeps
<1>2. ASSUME NEW c \in Callers, NEW k \in Skills, CallBegins(c, k)
      PROVE  LibraryInv' /\ \A s \in Sessions \ Callers : view'[s] = view[s]
  <2>1. /\ \A j \in {k} : Exists(j)
        /\ Load(c, {k}) /\ UNCHANGED <<enabled, committed, wrote, ran, stale>>
    BY <1>2 DEF CallBegins
  <2>2. c \in Sessions /\ {k} \in SUBSET Skills
    OBVIOUS
  <2>3. LibraryInv' /\ \A s \in Sessions \ {c} : view'[s] = view[s]
    BY <2>1, <2>2, LoadKeeps
  <2> QED
    BY <2>3
<1>3. ASSUME NEW c \in Callers, NEW k \in Skills, CallRuns(c, k)
      PROVE  LibraryInv' /\ \A s \in Sessions \ Callers : view'[s] = view[s]
  <2>1. c \in Sessions /\ Loaded(c, k)
    BY <1>3 DEF CallRuns
  <2>2. CASE Close(c) /\ UNCHANGED <<enabled, committed>>
    BY <2>1, <2>2, CloseKeeps
  <2>3. CASE \E success \in BOOLEAN : Executed(c, k, success)
    BY <2>1, <2>3, ExecutedKeeps
  <2> QED
    BY <1>3, <2>2, <2>3 DEF CallRuns
<1>4. ASSUME NEW c \in Callers, NEW k \in Skills, CallEnds(c, k)
      PROVE  LibraryInv' /\ \A s \in Sessions \ Callers : view'[s] = view[s]
  BY <1>4, PublishKeeps DEF CallEnds
<1> QED
  BY <1>1, <1>2, <1>3, <1>4 DEF Library

(* Most steps of an agent leave the library alone. *)
LEMMA LibraryStutters ==
    ASSUME LibraryInv, UNCHANGED library
    PROVE  LibraryInv' /\ UNCHANGED view
<1>1. UNCHANGED <<enabled, skill, audit, raced, smoked, view, wrote, ran, stale>>
  BY DEF library, committed, session
<1>2. LibraryTypeOK'
  BY <1>1 DEF LibraryInv, LibraryTypeOK
<1>3. OneWriter' /\ CountersTrailAudit'
  BY <1>1 DEF LibraryInv, OneWriter, CountersTrailAudit
<1>4. ASSUME NEW t \in Sessions, NEW k \in Skills
      PROVE  CopyInv(t, k)'
  BY <1>1, CopyByCopy, CopyUntouched
<1> QED
  BY <1>1, <1>2, <1>3, <1>4 DEF LibraryInv, CopyInv, SessionsInOrder, CopiesTrailAudit, FreshWrites

(* What the sandbox does for an agent: nothing, or an execution counted. *)
LEMMA ExecuteKeeps ==
    ASSUME LibraryInv, NEW s \in Sessions, NEW k \in Skills, Loaded(s, k), Execute(s, k)
    PROVE  LibraryInv' /\ \A t \in Sessions \ {s} : view'[t] = view[t]
<1>1. CASE UNCHANGED library
  BY <1>1, LibraryStutters
<1>2. CASE \E success \in BOOLEAN : Executed(s, k, success)
  BY <1>2, ExecutedKeeps
<1> QED
  BY <1>1, <1>2 DEF Execute
-----------------------------------------------------------------------------
(* Invocations *)

(* What the invariant says of the gates and the runs of one invocation. *)
RunsInv(a) ==
    /\ \A i \in DOMAIN unverified[a] : unverified[a][i].gate <= gates[a]
    /\ (a \in Gated /\ phase[a] = "running" /\ RequiresApproval(view[a][want[a]])) =>
          /\ gates[a] \in DOMAIN verdicts[a] /\ verdicts[a][gates[a]].approved
          /\ \A i \in DOMAIN unverified[a] : unverified[a][i].gate < gates[a]
    /\ \A i \in DOMAIN unverified[a] :
          /\ unverified[a][i].gate \in DOMAIN verdicts[a]
          /\ verdicts[a][unverified[a][i].gate].approved
    /\ \A i, j \in DOMAIN unverified[a] : i < j => unverified[a][i].gate < unverified[a][j].gate

(* What it says of one invocation, besides its type. *)
AgentInv(a) ==
    /\ phase[a] \in {"gate", "running"} => Loaded(a, want[a]) /\ round[a] < MaxRounds
    /\ phase[a] # "over" => retries[a] <= MaxRetries
    /\ RunsInv(a)

(* A run of an unverified skill behind a gate. *)
Runs == [skill : Skills, gate : Nat]

InvocationType ==
    /\ provider \in {"real", "mock", "missing"}
    /\ phase \in [Agents -> Phases]
    /\ round \in [Agents -> 0..MaxRounds]
    /\ want \in [Agents -> Skills]
    /\ gates \in [Agents -> Nat]
    /\ verdicts \in [Agents -> Seq([skill : Skills, approved : BOOLEAN])]
    /\ \A a \in Agents : gates[a] <= Len(verdicts[a])
    /\ retries \in [Agents -> 0..MaxRetries + 1]
    /\ unverified \in [Agents -> Seq(Runs)]

(* The invariant, invocation by invocation. *)
LEMMA AgentByAgent == IInv <=> LibraryInv /\ InvocationType /\ \A a \in Agents : AgentInv(a)
<1>1. TypeOK <=> LibraryTypeOK /\ InvocationType
  BY DEF TypeOK, InvocationType, Runs
<1>2. AsksForOffered /\ RewritesCounted /\ GateWasPassed /\ EachRunHasAnApproval <=> \A a \in Agents : AgentInv(a)
  BY RuntimeAssumption DEF AsksForOffered, RewritesCounted, GateWasPassed, EachRunHasAnApproval, AgentInv, RunsInv
<1>3. LibraryInv => LibraryTypeOK
  BY DEF LibraryInv
<1> QED
  BY <1>1, <1>2, <1>3 DEF IInv

(* An invocation that a step leaves alone. *)
Same(b) ==
    /\ view'[b] = view[b] /\ phase'[b] = phase[b] /\ round'[b] = round[b] /\ want'[b] = want[b]
    /\ retries'[b] = retries[b] /\ gates'[b] = gates[b] /\ verdicts'[b] = verdicts[b] /\ unverified'[b] = unverified[b]

(* Of an invocation that is left alone the same holds. *)
LEMMA SameStays ==
    ASSUME NEW b \in Agents, AgentInv(b), Same(b)
    PROVE  AgentInv(b)'
BY DEF AgentInv, RunsInv, Same, Loaded, RequiresApproval

(* The runs of an invocation that is not about to run anything, as they were *)
(* or forgotten.                                                             *)
LEMMA RunsStay ==
    ASSUME NEW a \in Agents, RunsInv(a), phase'[a] # "running",
           gates'[a] = gates[a], verdicts'[a] = verdicts[a], unverified'[a] = unverified[a]
    PROVE  RunsInv(a)'
BY DEF RunsInv

LEMMA NoRuns ==
    ASSUME NEW a \in Agents, phase'[a] # "running", DOMAIN unverified'[a] = {}
    PROVE  RunsInv(a)'
BY DEF RunsInv

(* A step of one invocation is judged by that invocation. *)
LEMMA OneAgentMoves ==
    ASSUME IInv, NEW a \in Agents, LibraryInv', InvocationType', AgentInv(a)',
           \A b \in Agents \ {a} : Same(b)
    PROVE  IInv'
<1>1. \A b \in Agents \ {a} : AgentInv(b)'
  BY AgentByAgent, SameStays
<1>2. \A b \in Agents : AgentInv(b)'
  BY <1>1
<1>3. TypeOK'
  BY DEF LibraryInv, TypeOK, InvocationType, Runs
<1>4. AsksForOffered' /\ RewritesCounted' /\ GateWasPassed' /\ EachRunHasAnApproval'
  BY <1>2, RuntimeAssumption DEF AsksForOffered, RewritesCounted, GateWasPassed, EachRunHasAnApproval, AgentInv, RunsInv
<1> QED
  BY <1>3, <1>4 DEF IInv

(* Agents have sessions. *)
LEMMA TheirSessions == \A a \in Agents : a \in Sessions /\ a \notin Callers
BY RuntimeAssumption

(* An execution that leaves the skill loop forgets its gates and its runs. *)
LEMMA LeaveLoopType ==
    ASSUME InvocationType, NEW a \in Agents, LeaveLoop(a)
    PROVE  /\ round' \in [Agents -> 0..MaxRounds] /\ gates' \in [Agents -> Nat]
           /\ unverified' \in [Agents -> Seq(Runs)]
           /\ gates'[a] = 0 /\ DOMAIN unverified'[a] = {}
           /\ \A b \in Agents \ {a} : /\ round'[b] = round[b] /\ gates'[b] = gates[b]
                                      /\ unverified'[b] = unverified[b]
<1>1. /\ round' = [round EXCEPT ![a] = 0] /\ gates' = [gates EXCEPT ![a] = 0]
      /\ unverified' = [unverified EXCEPT ![a] = <<>>]
  BY DEF LeaveLoop
<1>2. 0 \in 0..MaxRounds /\ 0 \in Nat /\ <<>> \in Seq(Runs) /\ DOMAIN <<>> = {}
  BY RuntimeAssumption
<1> QED
  BY <1>1, <1>2 DEF InvocationType

(* The last execution of a node forgets its verdicts too. *)
LEMMA LastExecutionType ==
    ASSUME InvocationType, NEW a \in Agents, LastExecution(a)
    PROVE  /\ round' \in [Agents -> 0..MaxRounds] /\ gates' \in [Agents -> Nat]
           /\ verdicts' \in [Agents -> Seq([skill : Skills, approved : BOOLEAN])]
           /\ \A b \in Agents : gates'[b] <= Len(verdicts'[b])
           /\ unverified' \in [Agents -> Seq(Runs)]
           /\ DOMAIN unverified'[a] = {}
           /\ \A b \in Agents \ {a} : /\ round'[b] = round[b] /\ verdicts'[b] = verdicts[b]
                                      /\ unverified'[b] = unverified[b] /\ gates'[b] = gates[b]
<1>1. LeaveLoop(a) /\ verdicts' = [verdicts EXCEPT ![a] = <<>>]
  BY DEF LastExecution
<1>2. <<>> \in Seq([skill : Skills, approved : BOOLEAN]) /\ Len(<<>>) = 0
  OBVIOUS
<1>3. /\ verdicts' \in [Agents -> Seq([skill : Skills, approved : BOOLEAN])] /\ verdicts'[a] = <<>>
      /\ \A b \in Agents \ {a} : verdicts'[b] = verdicts[b]
  BY <1>1, <1>2 DEF InvocationType
<1>4. \A b \in Agents : gates'[b] <= Len(verdicts'[b])
  <2>1. Len(verdicts'[a]) = 0 /\ gates'[a] = 0
    BY <1>1, <1>2, <1>3, LeaveLoopType
  <2>2. \A b \in Agents \ {a} : gates'[b] <= Len(verdicts'[b])
    BY <1>1, <1>3, LeaveLoopType DEF InvocationType
  <2> QED
    BY <2>1, <2>2
<1> QED
  BY <1>1, <1>3, <1>4, LeaveLoopType

(* Only rows that exist are offered. *)
LEMMA AssembleKeeps ==
    ASSUME IInv, NEW a \in Agents, Assemble(a)
    PROVE  IInv'
<1>1. LibraryInv /\ InvocationType /\ AgentInv(a)
  BY AgentByAgent
<1>2. /\ phase[a] = "ready" /\ phase' = [phase EXCEPT ![a] = "thinking"]
      /\ UNCHANGED <<enabled, committed, wrote, ran, stale>>
      /\ UNCHANGED <<provider, round, want, gates, verdicts, retries, unverified>>
  BY DEF Assemble, At, Goto
<1>3. PICK offered \in Offers : Load(a, offered)
  BY DEF Assemble
<1>4. offered \in SUBSET Skills /\ \A k \in offered : Exists(k)
  <2>1. \A k \in Searchable : skill[k].status # "absent"
    BY DEF Searchable
  <2> QED
    BY <2>1, RowsExist DEF Offers, Searchable, Exists
<1>5. LibraryInv' /\ \A b \in Agents \ {a} : view'[b] = view[b]
  BY <1>1, <1>2, <1>3, <1>4, TheirSessions, LoadKeeps
<1>6. InvocationType'
  BY <1>1, <1>2 DEF InvocationType, Phases
<1>7. AgentInv(a)'
  <2>1. phase'[a] = "thinking"
    BY <1>1, <1>2 DEF InvocationType
  <2> QED
    BY <1>1, <1>2, <2>1, RunsStay DEF AgentInv
<1>8. \A b \in Agents \ {a} : Same(b)
  BY <1>1, <1>2, <1>5 DEF Same, InvocationType
<1> QED
  BY <1>5, <1>6, <1>7, <1>8, OneAgentMoves

(* An answer ends the skill loop. *)
LEMMA AnswerKeeps ==
    ASSUME IInv, NEW a \in Agents, Answer(a)
    PROVE  IInv'
<1>1. LibraryInv /\ InvocationType /\ AgentInv(a)
  BY AgentByAgent
<1>2. /\ phase[a] = "thinking" /\ phase' = [phase EXCEPT ![a] = "auditing"] /\ LastExecution(a)
      /\ UNCHANGED <<library, provider, want, retries>>
  BY DEF Answer, At, Goto
<1>3. LibraryInv' /\ UNCHANGED view
  BY <1>1, <1>2, LibraryStutters
<1>4. InvocationType'
  BY <1>1, <1>2, LastExecutionType DEF InvocationType, Phases
<1>5. AgentInv(a)'
  <2>1. phase'[a] = "auditing" /\ DOMAIN unverified'[a] = {}
    BY <1>1, <1>2, LastExecutionType DEF InvocationType
  <2> QED
    BY <1>1, <1>2, <2>1, NoRuns DEF AgentInv
<1>6. \A b \in Agents \ {a} : Same(b)
  BY <1>1, <1>2, <1>3, LastExecutionType DEF Same, InvocationType
<1> QED
  BY <1>3, <1>4, <1>5, <1>6, OneAgentMoves

(* A call of an unknown skill takes an iteration. *)
LEMMA AskUnknownKeeps ==
    ASSUME IInv, NEW a \in Agents, AskUnknown(a)
    PROVE  IInv'
<1>1. LibraryInv /\ InvocationType /\ AgentInv(a)
  BY AgentByAgent
<1>2. /\ round' = [round EXCEPT ![a] = round[a] + 1] /\ round[a] < MaxRounds /\ phase[a] = "thinking"
      /\ UNCHANGED library
      /\ UNCHANGED <<provider, phase, want, gates, verdicts, retries, unverified>>
  BY DEF AskUnknown, NextRound, At
<1>3. LibraryInv' /\ UNCHANGED view
  BY <1>1, <1>2, LibraryStutters
<1>4. InvocationType'
  <2>1. round[a] + 1 \in 0..MaxRounds
    BY <1>1, <1>2, RuntimeAssumption DEF InvocationType
  <2> QED
    BY <1>1, <1>2, <2>1 DEF InvocationType
<1>5. AgentInv(a)'
  BY <1>1, <1>2, RunsStay DEF AgentInv
<1>6. \A b \in Agents \ {a} : Same(b)
  BY <1>1, <1>2, <1>3 DEF Same, InvocationType
<1> QED
  BY <1>3, <1>4, <1>5, <1>6, OneAgentMoves

(* Behind a gate only a verified skill goes straight to the sandbox. *)
LEMMA AskKeeps ==
    ASSUME IInv, NEW a \in Agents, NEW k \in Skills, Ask(a, k)
    PROVE  IInv'
<1> DEFINE label == IF a \in Gated /\ RequiresApproval(view[a][k]) THEN "gate" ELSE "running"
<1>1. LibraryInv /\ InvocationType /\ AgentInv(a)
  BY AgentByAgent
<1>2. /\ phase[a] = "thinking" /\ phase' = [phase EXCEPT ![a] = label] /\ want' = [want EXCEPT ![a] = k]
      /\ round[a] < MaxRounds /\ Loaded(a, k)
      /\ UNCHANGED library
      /\ UNCHANGED <<provider, round, gates, verdicts, retries, unverified>>
  BY DEF Ask, At, Goto
<1>3. LibraryInv' /\ UNCHANGED view
  BY <1>1, <1>2, LibraryStutters
<1>4. phase'[a] = label /\ want'[a] = k
  BY <1>1, <1>2 DEF InvocationType
<1>5. InvocationType'
  BY <1>1, <1>2 DEF InvocationType, Phases
<1>6. AgentInv(a)'
  <2>1. RunsInv(a)'
    <3>1. label = "running" => ~(a \in Gated /\ RequiresApproval(view[a][k]))
      OBVIOUS
    <3>2. ~(a \in Gated /\ phase'[a] = "running" /\ RequiresApproval(view[a][want[a]])')
      BY <1>3, <1>4, <3>1 DEF RequiresApproval
    <3> HIDE DEF label
    <3> QED
      BY <1>1, <1>2, <3>2 DEF AgentInv, RunsInv
  <2> QED
    BY <1>1, <1>2, <1>3, <1>4, <2>1 DEF AgentInv, Loaded
<1>7. \A b \in Agents \ {a} : Same(b)
  BY <1>1, <1>2, <1>3 DEF Same, InvocationType
<1> QED
  BY <1>3, <1>5, <1>6, <1>7, OneAgentMoves

(* Whoever passes a gate takes a verdict that no run before it has taken. *)
LEMMA PassGateKeeps ==
    ASSUME IInv, NEW a \in Agents, PassGate(a)
    PROVE  IInv'
<1>1. LibraryInv /\ InvocationType /\ AgentInv(a)
  BY AgentByAgent
<1>2. /\ phase[a] = "gate" /\ gates[a] < Len(verdicts[a])
      /\ gates' = [gates EXCEPT ![a] = gates[a] + 1]
      /\ UNCHANGED library
      /\ UNCHANGED <<provider, want, verdicts, retries, unverified>>
  BY DEF PassGate, Judged, At
<1>3. LibraryInv' /\ UNCHANGED view
  BY <1>1, <1>2, LibraryStutters
<1>4. Loaded(a, want[a]) /\ round[a] < MaxRounds
  BY <1>1, <1>2 DEF AgentInv
<1>5. \/ /\ Verdict(a).approved
         /\ phase' = [phase EXCEPT ![a] = "running"] /\ round' = round
      \/ phase' = [phase EXCEPT ![a] = "thinking"] /\ round' = [round EXCEPT ![a] = round[a] + 1]
  BY DEF PassGate, Goto, NextRound
<1>6. /\ phase' \in [Agents -> Phases] /\ phase'[a] \in {"running", "thinking"}
      /\ phase'[a] = "running" => Verdict(a).approved /\ round' = round
      /\ \A b \in Agents \ {a} : phase'[b] = phase[b] /\ round'[b] = round[b]
  BY <1>1, <1>5 DEF InvocationType, Phases
<1>7. round' \in [Agents -> 0..MaxRounds]
  <2>1. round[a] + 1 \in 0..MaxRounds
    BY <1>1, <1>4, RuntimeAssumption DEF InvocationType
  <2> QED
    BY <1>1, <1>5, <2>1 DEF InvocationType
<1>8. InvocationType'
  <2>1. gates[a] \in Nat /\ Len(verdicts[a]) \in Nat
    BY <1>1, LenProperties DEF InvocationType
  <2>2. /\ gates' \in [Agents -> Nat] /\ gates'[a] <= Len(verdicts[a])
        /\ \A b \in Agents \ {a} : gates'[b] = gates[b]
    BY <1>1, <1>2, <2>1 DEF InvocationType
  <2>3. \A b \in Agents : gates'[b] <= Len(verdicts'[b])
    BY <1>1, <1>2, <2>2 DEF InvocationType
  <2> QED
    BY <1>1, <1>2, <1>6, <1>7, <2>2, <2>3 DEF InvocationType
<1>9. AgentInv(a)'
  <2>1. gates[a] \in Nat /\ gates'[a] = gates[a] + 1 /\ gates'[a] \in DOMAIN verdicts[a]
    <3>1. verdicts[a] \in Seq([skill : Skills, approved : BOOLEAN]) /\ gates[a] \in Nat
      BY <1>1 DEF InvocationType
    <3>2. gates[a] + 1 \in 1..Len(verdicts[a])
      BY <1>2, <3>1, LenProperties
    <3> QED
      BY <1>1, <1>2, <3>1, <3>2, LenProperties DEF InvocationType
  <2>2. phase'[a] = "running" => verdicts'[a][gates'[a]].approved
    <3>1. phase'[a] = "running" => verdicts[a][gates[a] + 1].approved
      BY <1>6 DEF Verdict
    <3>2. verdicts' = verdicts /\ gates'[a] = gates[a] + 1
      BY <1>2, <2>1
    <3> QED
      BY <3>1, <3>2
  <2>3. \A i \in DOMAIN unverified[a] : unverified[a][i].gate \in Nat
    <3>1. unverified[a] \in Seq(Runs)
      BY <1>1 DEF InvocationType
    <3>2. \A i \in DOMAIN unverified[a] : unverified[a][i] \in Runs
      BY <3>1, ElementOfSeq, LenProperties
    <3> QED
      BY <3>2 DEF Runs
  <2>4. \A i \in DOMAIN unverified'[a] : unverified'[a][i].gate < gates'[a] /\ unverified'[a][i].gate <= gates'[a]
    BY <1>1, <1>2, <2>1, <2>3 DEF AgentInv, RunsInv
  <2>5. phase'[a] # "gate" /\ verdicts'[a] = verdicts[a] /\ unverified'[a] = unverified[a]
    BY <1>2, <1>6
  <2>6. phase'[a] = "running" => (Loaded(a, want[a]))' /\ round'[a] < MaxRounds
    BY <1>2, <1>3, <1>4, <1>6 DEF Loaded
  <2>7. RunsInv(a)'
    BY <1>1, <2>1, <2>2, <2>4, <2>5 DEF AgentInv, RunsInv
  <2> QED
    BY <1>1, <1>2, <2>5, <2>6, <2>7 DEF AgentInv
<1>10. \A b \in Agents \ {a} : Same(b)
  BY <1>1, <1>2, <1>3, <1>6 DEF Same, InvocationType
<1> QED
  BY <1>3, <1>8, <1>9, <1>10, OneAgentMoves

(* An invocation that is interrupted loses its copies and its runs, and      *)
(* keeps its verdicts.                                                       *)
LEMMA SuspendKeeps ==
    ASSUME IInv, NEW a \in Agents, Suspend(a)
    PROVE  IInv'
<1>1. LibraryInv /\ InvocationType /\ AgentInv(a)
  BY AgentByAgent
<1>2. /\ phase[a] = "gate" /\ phase' = [phase EXCEPT ![a] = "suspended"] /\ LeaveLoop(a)
      /\ Close(a) /\ UNCHANGED <<enabled, committed>>
      /\ UNCHANGED <<provider, want, verdicts, retries>>
  BY DEF Suspend, At, Goto
<1>3. LibraryInv' /\ \A b \in Agents \ {a} : view'[b] = view[b]
  BY <1>1, <1>2, TheirSessions, CloseKeeps
<1>4. InvocationType'
  <2>1. Len(verdicts[a]) \in Nat
    BY <1>1, LenProperties DEF InvocationType
  <2>2. phase' \in [Agents -> Phases]
    BY <1>1, <1>2 DEF InvocationType, Phases
  <2>3. \A b \in Agents : gates'[b] <= Len(verdicts'[b])
    <3>1. gates'[a] = 0 /\ \A b \in Agents \ {a} : gates'[b] = gates[b]
      BY <1>1, <1>2, LeaveLoopType
    <3>2. verdicts' = verdicts /\ \A b \in Agents : gates[b] <= Len(verdicts[b])
      BY <1>1, <1>2 DEF InvocationType
    <3> QED
      BY <2>1, <3>1, <3>2
  <2> QED
    BY <1>1, <1>2, <2>2, <2>3, LeaveLoopType DEF InvocationType
<1>5. AgentInv(a)'
  <2>1. phase'[a] = "suspended" /\ DOMAIN unverified'[a] = {}
    BY <1>1, <1>2, LeaveLoopType DEF InvocationType
  <2> QED
    BY <1>1, <1>2, <2>1, NoRuns DEF AgentInv
<1>6. \A b \in Agents \ {a} : Same(b)
  BY <1>1, <1>2, <1>3, LeaveLoopType DEF Same, InvocationType
<1> QED
  BY <1>3, <1>4, <1>5, <1>6, OneAgentMoves

(* Another verdict takes none of the earlier ones back. *)
LEMMA DecideKeeps ==
    ASSUME IInv, NEW a \in Agents, Decide(a)
    PROVE  IInv'
<1> DEFINE Verdicts == [skill : Skills, approved : BOOLEAN]
<1>1. LibraryInv /\ InvocationType /\ AgentInv(a)
  BY AgentByAgent
<1>2. /\ phase[a] = "suspended" /\ phase' = [phase EXCEPT ![a] = "ready"]
      /\ UNCHANGED library
      /\ UNCHANGED <<provider, round, want, gates, retries, unverified>>
  BY DEF Decide, At, Goto
<1>3. PICK approved \in BOOLEAN :
          verdicts' = [verdicts EXCEPT ![a] = Append(verdicts[a], [skill |-> want[a], approved |-> approved])]
  BY DEF Decide
<1> DEFINE new == [skill |-> want[a], approved |-> approved]
<1>4. new \in Verdicts /\ verdicts[a] \in Seq(Verdicts)
  BY <1>1 DEF InvocationType
<1>5. /\ verdicts'[a] = Append(verdicts[a], new)
      /\ \A b \in Agents \ {a} : verdicts'[b] = verdicts[b]
  BY <1>1, <1>3 DEF InvocationType
<1> HIDE DEF Verdicts, new
<1>6. /\ verdicts'[a] \in Seq(Verdicts) /\ Len(verdicts'[a]) = Len(verdicts[a]) + 1
      /\ Len(verdicts[a]) \in Nat /\ DOMAIN verdicts[a] \subseteq DOMAIN verdicts'[a]
      /\ \A i \in DOMAIN verdicts[a] : verdicts'[a][i] = verdicts[a][i]
  <2>1. /\ Append(verdicts[a], new) \in Seq(Verdicts)
        /\ Len(Append(verdicts[a], new)) = Len(verdicts[a]) + 1
        /\ \A i \in 1..Len(verdicts[a]) : Append(verdicts[a], new)[i] = verdicts[a][i]
    BY <1>4, AppendProperties
  <2>2. /\ Len(verdicts[a]) \in Nat /\ DOMAIN verdicts[a] = 1..Len(verdicts[a])
        /\ DOMAIN Append(verdicts[a], new) = 1..(Len(verdicts[a]) + 1)
    BY <1>4, <2>1, LenProperties
  <2> QED
    BY <1>5, <2>1, <2>2
<1>7. LibraryInv' /\ UNCHANGED view
  BY <1>1, <1>2, LibraryStutters
<1>8. InvocationType'
  <2>1. verdicts' \in [Agents -> Seq(Verdicts)]
    BY <1>1, <1>3, <1>4, <1>5, <1>6 DEF InvocationType, Verdicts
  <2>2. \A b \in Agents : gates'[b] <= Len(verdicts'[b])
    <3>1. gates[a] \in Nat /\ gates[a] <= Len(verdicts[a])
      BY <1>1 DEF InvocationType
    <3>2. gates[a] <= Len(verdicts'[a])
      BY <1>6, <3>1
    <3> QED
      BY <1>1, <1>2, <1>5, <3>2 DEF InvocationType
  <2> QED
    BY <1>1, <1>2, <2>1, <2>2 DEF InvocationType, Phases, Verdicts
<1>9. AgentInv(a)'
  <2>1. phase'[a] = "ready"
    BY <1>1, <1>2 DEF InvocationType
  <2> QED
    <3>1. RunsInv(a)'
      BY <1>1, <1>2, <1>6, <2>1 DEF AgentInv, RunsInv
    <3> QED
      BY <1>1, <1>2, <2>1, <3>1 DEF AgentInv
<1>10. \A b \in Agents \ {a} : Same(b)
  BY <1>1, <1>2, <1>5, <1>7 DEF Same, InvocationType
<1> QED
  BY <1>7, <1>8, <1>9, <1>10, OneAgentMoves

(* Whatever runs behind a gate has passed it, and after the runs before it. *)
LEMMA RunSkillKeeps ==
    ASSUME IInv, NEW a \in Agents, RunSkill(a)
    PROVE  IInv'
<1> DEFINE new == [skill |-> want[a], gate |-> gates[a]]
<1>1. LibraryInv /\ InvocationType /\ AgentInv(a)
  BY AgentByAgent
<1>2. /\ phase[a] = "running" /\ phase' = [phase EXCEPT ![a] = "thinking"]
      /\ Execute(a, want[a]) /\ round' = [round EXCEPT ![a] = round[a] + 1]
      /\ unverified' = IF a \in Gated /\ view[a][want[a]].status # "verified"
                       THEN [unverified EXCEPT ![a] = Append(unverified[a], new)] ELSE unverified
      /\ UNCHANGED <<provider, want, gates, verdicts, retries>>
  BY DEF RunSkill, At, Goto, NextRound
<1>3. Loaded(a, want[a]) /\ round[a] < MaxRounds /\ want[a] \in Skills
  BY <1>1, <1>2 DEF AgentInv, InvocationType
<1>4. LibraryInv' /\ \A b \in Agents \ {a} : view'[b] = view[b]
  BY <1>1, <1>2, <1>3, TheirSessions, ExecuteKeeps
<1>5. new \in Runs /\ new.gate = gates[a] /\ gates[a] \in Nat /\ unverified[a] \in Seq(Runs)
  BY <1>1, <1>3 DEF InvocationType, Runs
<1> HIDE DEF new
<1>6. /\ unverified' \in [Agents -> Seq(Runs)]
      /\ \A b \in Agents \ {a} : unverified'[b] = unverified[b]
      /\ \/ unverified'[a] = unverified[a]
         \/ unverified'[a] = Append(unverified[a], new) /\ a \in Gated /\ RequiresApproval(view[a][want[a]])
  <2>1. Append(unverified[a], new) \in Seq(Runs)
    BY <1>5, AppendProperties
  <2> QED
    BY <1>1, <1>2, <2>1 DEF InvocationType, RequiresApproval
<1>7. InvocationType'
  <2>1. round[a] + 1 \in 0..MaxRounds
    BY <1>1, <1>3, RuntimeAssumption DEF InvocationType
  <2> QED
    BY <1>1, <1>2, <1>6, <2>1 DEF InvocationType, Phases
<1>8. AgentInv(a)'
  <2>1. phase'[a] = "thinking"
    BY <1>1, <1>2 DEF InvocationType
  <2>2. CASE unverified'[a] = unverified[a]
    BY <1>1, <1>2, <2>1, <2>2, RunsStay DEF AgentInv
  <2>3. CASE unverified'[a] = Append(unverified[a], new) /\ a \in Gated /\ RequiresApproval(view[a][want[a]])
    <3> DEFINE n == Len(unverified[a]) + 1
    <3>1. n \in Nat /\ DOMAIN unverified[a] = 1..(n - 1) /\ DOMAIN unverified'[a] = 1..n
      BY <1>5, <2>3, AppendProperties, LenProperties
    <3>2. unverified'[a][n] = new /\ \A i \in 1..(n - 1) : unverified'[a][i] = unverified[a][i]
      BY <1>5, <2>3, AppendProperties
    <3> HIDE DEF n
    <3>3. /\ gates[a] \in DOMAIN verdicts[a] /\ verdicts[a][gates[a]].approved
          /\ \A i \in DOMAIN unverified[a] : unverified[a][i].gate < gates[a]
      BY <1>1, <1>2, <2>3 DEF AgentInv, RunsInv
    <3>4. \A i \in DOMAIN unverified'[a] : i = n \/ i \in 1..(n - 1)
      BY <3>1
    <3>5. \A i \in DOMAIN unverified'[a] :
             /\ unverified'[a][i].gate \in DOMAIN verdicts[a] /\ verdicts[a][unverified'[a][i].gate].approved
             /\ unverified'[a][i].gate <= gates[a]
      BY <1>1, <1>5, <3>1, <3>2, <3>3, <3>4 DEF AgentInv, RunsInv
    <3>6. ASSUME NEW i \in DOMAIN unverified'[a], NEW j \in DOMAIN unverified'[a], i < j
          PROVE  unverified'[a][i].gate < unverified'[a][j].gate
      <4>1. i \in 1..(n - 1)
        BY <3>1, <3>6
      <4>2. CASE j = n
        BY <1>5, <3>1, <3>2, <3>3, <4>1, <4>2
      <4>3. CASE j \in 1..(n - 1)
        BY <1>1, <3>1, <3>2, <3>6, <4>1, <4>3 DEF AgentInv, RunsInv
      <4> QED
        BY <3>4, <4>2, <4>3
    <3>7. RunsInv(a)'
      BY <1>2, <2>1, <3>5, <3>6 DEF RunsInv
    <3> QED
      BY <1>1, <1>2, <2>1, <3>7 DEF AgentInv
  <2> QED
    BY <1>6, <2>2, <2>3
<1>9. \A b \in Agents \ {a} : Same(b)
  BY <1>1, <1>2, <1>4, <1>6 DEF Same, InvocationType
<1> QED
  BY <1>4, <1>7, <1>8, <1>9, OneAgentMoves

(* An audit that fails with rewrites left is counted. *)
LEMMA RewriteKeeps ==
    ASSUME IInv, NEW a \in Agents, Rewrite(a)
    PROVE  IInv'
<1>1. LibraryInv /\ InvocationType /\ AgentInv(a)
  BY AgentByAgent
<1>2. /\ phase[a] = "auditing" /\ retries' = [retries EXCEPT ![a] = retries[a] + 1] /\ retries[a] < MaxRetries
      /\ UNCHANGED library
      /\ UNCHANGED <<provider, phase, round, want, gates, verdicts, unverified>>
  BY DEF Rewrite, AuditFails, At
<1>3. LibraryInv' /\ UNCHANGED view
  BY <1>1, <1>2, LibraryStutters
<1>4. InvocationType'
  <2>1. retries[a] + 1 \in 0..MaxRetries + 1
    BY <1>1, <1>2, RuntimeAssumption DEF InvocationType
  <2> QED
    BY <1>1, <1>2, <2>1 DEF InvocationType
<1>5. \A b \in Agents \ {a} : Same(b)
  BY <1>1, <1>2, <1>3 DEF Same, InvocationType
<1>6. AgentInv(a)'
  <2>1. retries'[a] = retries[a] + 1 /\ retries[a] + 1 <= MaxRetries
    BY <1>1, <1>2, RuntimeAssumption DEF InvocationType
  <2> QED
    BY <1>1, <1>2, <2>1, RunsStay DEF AgentInv
<1> QED
  BY <1>3, <1>4, <1>5, <1>6, OneAgentMoves

(* The end of a node commits what it has counted, and its last audit may be  *)
(* the one that takes the count beyond the rewrites.                         *)
LEMMA RecordKeeps ==
    ASSUME IInv, NEW a \in Agents, Record(a)
    PROVE  IInv'
<1>1. LibraryInv /\ InvocationType /\ AgentInv(a)
  BY AgentByAgent
<1>2. /\ phase' = [phase EXCEPT ![a] = "over"] /\ Publish(a)
      /\ UNCHANGED <<provider, round, want, gates, verdicts, unverified>>
      /\ UNCHANGED retries \/ retries' = [retries EXCEPT ![a] = retries[a] + 1]
      /\ phase[a] = "auditing"
  BY DEF Record, Goto, AuditFails, At
<1>3. LibraryInv' /\ \A b \in Agents \ {a} : view'[b] = view[b]
  BY <1>1, <1>2, TheirSessions, PublishKeeps
<1>4. InvocationType'
  <2>1. retries[a] + 1 \in 0..MaxRetries + 1
    BY <1>1, <1>2, RuntimeAssumption DEF InvocationType, AgentInv
  <2> QED
    BY <1>1, <1>2, <2>1 DEF InvocationType, Phases
<1>5. AgentInv(a)'
  <2>1. phase'[a] = "over"
    BY <1>1, <1>2 DEF InvocationType
  <2> QED
    BY <1>1, <1>2, <2>1, RunsStay DEF AgentInv
<1>6. \A b \in Agents \ {a} : Same(b)
  BY <1>1, <1>2, <1>3 DEF Same, InvocationType
<1> QED
  BY <1>3, <1>4, <1>5, <1>6, OneAgentMoves

(* A failure loses it. *)
LEMMA FailKeeps ==
    ASSUME IInv, NEW a \in Agents, Fail(a)
    PROVE  IInv'
<1>1. LibraryInv /\ InvocationType /\ AgentInv(a)
  BY AgentByAgent
<1>2. /\ phase' = [phase EXCEPT ![a] = "over"] /\ LastExecution(a)
      /\ Close(a) /\ UNCHANGED <<enabled, committed>>
      /\ UNCHANGED <<provider, want, retries>>
  BY DEF Fail, Goto
<1>3. LibraryInv' /\ \A b \in Agents \ {a} : view'[b] = view[b]
  BY <1>1, <1>2, TheirSessions, CloseKeeps
<1>4. InvocationType'
  BY <1>1, <1>2, LastExecutionType DEF InvocationType, Phases
<1>5. AgentInv(a)'
  <2>1. phase'[a] = "over" /\ DOMAIN unverified'[a] = {}
    BY <1>1, <1>2, LastExecutionType DEF InvocationType
  <2> QED
    BY <2>1, NoRuns DEF AgentInv
<1>6. \A b \in Agents \ {a} : Same(b)
  BY <1>1, <1>2, <1>3, LastExecutionType DEF Same, InvocationType
<1> QED
  BY <1>3, <1>4, <1>5, <1>6, OneAgentMoves

(* A request does not touch what an agent holds. *)
LEMMA RequestsKeep ==
    ASSUME IInv, Library, UNCHANGED invocation
    PROVE  IInv'
<1>1. LibraryInv /\ InvocationType /\ \A a \in Agents : AgentInv(a)
  BY AgentByAgent
<1>2. UNCHANGED <<provider, phase, round, want, gates, verdicts, retries, unverified>>
  BY DEF invocation
<1>3. LibraryInv' /\ \A b \in Agents : view'[b] = view[b]
  BY <1>1, TheirSessions, LibraryKeeps
<1>4. InvocationType'
  BY <1>1, <1>2 DEF InvocationType
<1>5. \A b \in Agents : Same(b)
  BY <1>2, <1>3 DEF Same
<1>6. \A b \in Agents : AgentInv(b)'
  BY <1>1, <1>5, SameStays
<1>7. TypeOK'
  BY <1>3, <1>4 DEF LibraryInv, TypeOK, InvocationType, Runs
<1>8. AsksForOffered' /\ RewritesCounted' /\ GateWasPassed' /\ EachRunHasAnApproval'
  BY <1>6, RuntimeAssumption DEF AsksForOffered, RewritesCounted, GateWasPassed, EachRunHasAnApproval, AgentInv, RunsInv
<1> QED
  BY <1>3, <1>7, <1>8 DEF IInv
-----------------------------------------------------------------------------
(* The theorems *)

(* The invariant holds at first. *)
LEMMA InitEstablishes ==
    ASSUME Init
    PROVE  IInv
<1>1. /\ enabled \in BOOLEAN /\ skill = [k \in Skills |-> Absent] /\ audit = [k \in Skills |-> Nothing]
      /\ view = [s \in Sessions |-> [k \in Skills |-> Absent]]
      /\ wrote = [s \in Sessions |-> [k \in Skills |-> {}]]
      /\ ran = [s \in Sessions |-> [k \in Skills |-> Nothing]]
      /\ stale = [s \in Sessions |-> {}] /\ raced = {} /\ smoked = {}
  BY DEF Init, LibraryInit
<1>2. /\ Nothing \in Tally /\ Nothing.ok = 0 /\ Nothing.bad = 0
      /\ Absent.uses = 0 /\ Absent.ok = 0 /\ Absent.bad = 0 /\ Absent.status = "absent"
  BY DEF Nothing, Tally, Absent
<1>3. LibraryTypeOK
  <2>1. skill \in [Skills -> Row \cup {Absent}] /\ audit \in [Skills -> Tally]
    BY <1>1, <1>2
  <2>2. /\ [k \in Skills |-> Absent] \in [Skills -> Row \cup {Absent}]
        /\ [k \in Skills |-> {}] \in [Skills -> SUBSET Columns]
        /\ [k \in Skills |-> Nothing] \in [Skills -> Tally]
    BY <1>2
  <2>3. view \in [Sessions -> [Skills -> Row \cup {Absent}]]
    BY <1>1, <2>2
  <2>4. wrote \in [Sessions -> [Skills -> SUBSET Columns]]
    BY <1>1, <2>2
  <2>5. ran \in [Sessions -> [Skills -> Tally]]
    BY <1>1, <2>2
  <2>6. stale \in [Sessions -> SUBSET Skills]
    BY <1>1
  <2> QED
    BY <1>1, <2>1, <2>3, <2>4, <2>5, <2>6 DEF LibraryTypeOK
<1>4. \A s \in Sessions, k \in Skills : view[s][k] = Absent /\ wrote[s][k] = {} /\ ran[s][k] = Nothing
  BY <1>1
<1>5. \A k \in Skills : skill[k] = Absent /\ audit[k] = Nothing
  BY <1>1
<1>6. ASSUME NEW s \in Sessions, NEW k \in Skills
      PROVE  CopyInv(s, k)
  BY <1>2, <1>4, <1>5 DEF CopyInv, Loaded
<1>7. OneWriter /\ CountersTrailAudit
  BY <1>2, <1>4, <1>5 DEF OneWriter, CountersTrailAudit
<1>8. LibraryInv
  BY <1>3, <1>6, <1>7, CopyByCopy
<1>9. InvocationType
  <2>1. 0 \in 0..MaxRounds /\ 0 \in 0..MaxRetries + 1
    BY RuntimeAssumption
  <2>2. /\ phase \in [Agents -> Phases] /\ round \in [Agents -> 0..MaxRounds]
        /\ want \in [Agents -> Skills] /\ gates \in [Agents -> Nat]
        /\ retries \in [Agents -> 0..MaxRetries + 1] /\ unverified \in [Agents -> Seq(Runs)]
    BY <2>1 DEF Init, Phases
  <2>3. <<>> \in Seq([skill : Skills, approved : BOOLEAN]) /\ Len(<<>>) = 0
    OBVIOUS
  <2>4. verdicts \in [Agents -> Seq([skill : Skills, approved : BOOLEAN])]
    BY <2>3 DEF Init
  <2>5. \A a \in Agents : verdicts[a] = <<>> /\ gates[a] = 0
    BY DEF Init
  <2>6. \A a \in Agents : gates[a] <= Len(verdicts[a])
    BY <2>3, <2>5
  <2> QED
    BY <2>2, <2>4, <2>6 DEF Init, InvocationType
<1>10. \A a \in Agents : AgentInv(a)
  <2>1. \A a \in Agents : phase[a] = "ready" /\ DOMAIN unverified[a] = {}
    BY DEF Init
  <2>2. \A a \in Agents : retries[a] <= MaxRetries
    BY RuntimeAssumption DEF Init
  <2> QED
    BY <2>1, <2>2 DEF AgentInv, RunsInv
<1> QED
  BY <1>8, <1>9, <1>10, AgentByAgent

(* Every step keeps the invariant. *)
LEMMA StepKeeps ==
    ASSUME IInv, [Next]_vars
    PROVE  IInv'
<1>1. ASSUME NEW a \in Agents, Step(a)
      PROVE  IInv'
  BY <1>1, AssembleKeeps, AnswerKeeps, AskUnknownKeeps, AskKeeps, PassGateKeeps, SuspendKeeps,
     RunSkillKeeps, RewriteKeeps, RecordKeeps DEF Step
<1>2. CASE UNCHANGED vars
  <2>1. /\ UNCHANGED library
        /\ UNCHANGED <<provider, phase, round, want, gates, verdicts, retries, unverified>>
    BY <1>2 DEF vars, invocation
  <2>2. LibraryInv /\ InvocationType /\ \A a \in Agents : AgentInv(a)
    BY AgentByAgent
  <2>3. LibraryInv' /\ UNCHANGED view
    BY <2>1, <2>2, LibraryStutters
  <2>4. \A a \in Agents : AgentInv(a)'
    BY <2>1, <2>2, <2>3, SameStays DEF Same
  <2>5. TypeOK'
    BY <2>1, <2>2, <2>3 DEF LibraryInv, TypeOK, InvocationType, Runs
  <2>6. AsksForOffered' /\ RewritesCounted' /\ GateWasPassed' /\ EachRunHasAnApproval'
    BY <2>4, RuntimeAssumption DEF AsksForOffered, RewritesCounted, GateWasPassed, EachRunHasAnApproval, AgentInv, RunsInv
  <2> QED
    BY <2>3, <2>5, <2>6 DEF IInv
<1> QED
  BY <1>1, <1>2, DecideKeeps, FailKeeps, RequestsKeep DEF Next

(* The inductive invariant holds in every reachable state. *)
THEOREM Inductive == Spec => []IInv
<1>1. Init => IInv
  BY InitEstablishes
<1>2. IInv /\ [Next]_vars => IInv'
  BY StepKeeps
<1> QED
  BY <1>1, <1>2, PTL DEF Spec

(* Every variable keeps its type: no skill loop runs past its rounds, and   *)
(* no gate is passed without a verdict.                                     *)
THEOREM TypeCorrect == Spec => []TypeOK
<1>1. IInv => TypeOK
  BY DEF IInv
<1> QED
  BY <1>1, Inductive, PTL

(* Whatever sessions count on the same rows, and in whatever order they      *)
(* commit, the statistics claim no execution that the audit does not show.   *)
THEOREM StatisticsAreAudited == Spec => []CountersTrailAudit
<1>1. IInv => CountersTrailAudit
  BY DEF IInv, LibraryInv
<1> QED
  BY <1>1, Inductive, PTL

(* However often a node is executed again, behind its gate every run of an   *)
(* unverified skill takes an approval of its own, given at the gate that it  *)
(* passed (which may have been given for another skill).                     *)
THEOREM EachRunIsApproved == Spec => []EachRunHasAnApproval
<1>1. IInv => EachRunHasAnApproval
  BY DEF IInv
<1> QED
  BY <1>1, Inductive, PTL

(* A row changes when it is registered or deprecated, or at a commit. *)
LEMMA RowsChange ==
    ASSUME [Next]_vars
    PROVE  \/ UNCHANGED skill
           \/ \E k \in Skills : Register(k) \/ Deprecate(k)
           \/ \E s \in Sessions : Publish(s)
<1> USE RuntimeAssumption, LibraryAssumption DEF library, committed
<1>1. ASSUME NEW s, NEW k, Execute(s, k)
      PROVE  UNCHANGED skill
  BY <1>1 DEF Execute, Executed
<1>2. ASSUME NEW a \in Agents, Step(a)
      PROVE  UNCHANGED skill \/ Publish(a)
  BY <1>1, <1>2 DEF Step, Assemble, Answer, AskUnknown, Ask, PassGate, Suspend, RunSkill, Rewrite, Record
<1>3. ASSUME NEW a \in Agents, Decide(a) \/ Fail(a)
      PROVE  UNCHANGED skill
  BY <1>3 DEF Decide, Fail
<1>4. ASSUME NEW c \in Callers, NEW k \in Skills, CallBegins(c, k) \/ CallRuns(c, k) \/ CallEnds(c, k)
      PROVE  UNCHANGED skill \/ Publish(c)
  BY <1>4 DEF CallBegins, CallRuns, CallEnds, Executed
<1>5. CASE UNCHANGED vars
  BY <1>5 DEF vars
<1> QED
  BY <1>2, <1>3, <1>4, <1>5 DEF Next, Library

(* A retired skill comes back only by the commit of a session that counted   *)
(* on a row that had changed since it was read.                              *)
THEOREM RevivedOnlyByARace == Spec => RetiredStaysRetired
<1>1. ASSUME IInv, [Next]_vars
      PROVE  [\A k \in Skills :
                 skill[k].status \in Retired /\ skill'[k].status \notin Retired
                    => \E s \in Sessions : k \in stale[s]]_library
  <2> SUFFICES ASSUME NEW k \in Skills, skill[k].status \in Retired,
                      \A s \in Sessions : k \notin stale[s]
               PROVE  skill'[k].status \in Retired
    OBVIOUS
  <2>1. LibraryInv /\ LibraryTypeOK
    BY <1>1 DEF IInv, LibraryInv
  <2>2. skill[k] # Absent
    BY RowsExist DEF Retired
  <2>3. CASE UNCHANGED skill
    BY <2>3
  <2>4. ASSUME NEW j \in Skills, Register(j)
        PROVE  skill'[k].status \in Retired
    <3>1. j # k
      BY <2>2, <2>4 DEF Register, Exists
    <3> QED
      BY <2>1, <2>4, <3>1 DEF Register, LibraryTypeOK
  <2>5. ASSUME NEW j \in Skills, Deprecate(j)
        PROVE  skill'[k].status \in Retired
    <3>1. skill' = [skill EXCEPT ![j] = [skill[j] EXCEPT !.status = "deprecated"]]
      BY <2>5 DEF Deprecate
    <3>2. CASE j = k
      <4>1. skill[k] \in Row /\ skill'[k] = [skill[k] EXCEPT !.status = "deprecated"]
        BY <2>1, <2>2, <3>1, <3>2, RowTypes DEF LibraryTypeOK
      <4> QED
        BY <4>1 DEF Row, Retired
    <3>3. CASE j # k
      BY <2>1, <3>1, <3>3 DEF LibraryTypeOK
    <3> QED
      BY <3>2, <3>3
  <2>6. ASSUME NEW s \in Sessions, Publish(s)
        PROVE  skill'[k].status \in Retired
    <3>1. CASE wrote[s][k] = {}
      BY <2>1, <2>6, <3>1, PublishedRow
    <3>2. CASE wrote[s][k] # {}
      <4>1. skill'[k].status \in {view[s][k].status, skill[k].status}
        BY <2>1, <2>6, <3>2, PublishedRow DEF Columns
      <4>2. view[s][k].status \in Retired
        BY <2>1, <3>2 DEF LibraryInv, FreshWrites
      <4> QED
        BY <4>1, <4>2
    <3> QED
      BY <3>1, <3>2
  <2> QED
    BY <1>1, <2>3, <2>4, <2>5, <2>6, RowsChange
<1> QED
  BY <1>1, Inductive, PTL DEF Spec, RetiredStaysRetired
=============================================================================
