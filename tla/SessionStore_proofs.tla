------------------------ MODULE SessionStore_proofs ------------------------
(***************************************************************************)
(* Theorems about SessionStore and, on top of it, SessionMemory, for any   *)
(* number of events and of writers.                                        *)
(***************************************************************************)
EXTENDS SessionMemory, Lists_proofs

(***************************************************************************)
(* What a call has read stays true until it writes: the parent it chose is *)
(* a row, the counter it took is past the parent's, and the branches it    *)
(* will deactivate exist.  This rests on rows never being removed, and on  *)
(* the tip being read before the counter.                                  *)
(***************************************************************************)
ReadIsTrue(w) ==
  /\ call[w].op \in {"tip_read", "seq_read"} /\ call[w].parent # None
       => call[w].parent \in Appended
  /\ call[w].op = "seq_read" /\ call[w].parent # None
       => events[call[w].parent].seq < call[w].seq
  /\ call[w].op = "branches_read"
       => call[w].base \in Appended /\ \A b \in call[w].active : branches[b] # None

ReadsStayTrue == \A w \in Writers : ReadIsTrue(w)

TipIsRow == tip # None => tip \in Appended

IInv == TypeOK /\ ParentsComeFirst /\ ReadsStayTrue /\ TipIsRow

-----------------------------------------------------------------------------
\* What a task is doing tells which fields its entry has.
LEMMA CallShape ==
  ASSUME TypeOK, NEW w \in Writers
  PROVE  /\ call[w].op = "tip_read" => call[w].parent \in Ids \cup {None}
         /\ call[w].op = "seq_read" =>
              call[w].parent \in Ids \cup {None} /\ call[w].seq \in Nat
         /\ call[w].op = "branches_read" =>
              call[w].base \in Ids /\ call[w].active \in SUBSET BranchIds
  <1>1. call[w] \in Call
    BY DEF TypeOK
  <1> QED
    BY <1>1 DEF Call, Idle

\* A task that starts or ends a call has a well-formed entry.
LEMMA CallUpdate ==
  ASSUME TypeOK, NEW w \in Writers, NEW c \in Call,
         call' = [call EXCEPT ![w] = c]
  PROVE  /\ call' \in [Writers -> Call]
         /\ call'[w] = c
         /\ \A v \in Writers : v # w => call'[v] = call[v]
  BY DEF TypeOK

\* A writer that is not in a call has the type of one.
LEMMA IdleIsCall == Idle \in Call
  BY DEF Call

-----------------------------------------------------------------------------
\* Type correctness, one step per action.
LEMMA TypeStep ==
  ASSUME TypeOK, ReadsStayTrue, [Next]_vars
  PROVE  TypeOK'
  <1> USE StoreAssumption
  <1>1. CASE UNCHANGED vars
    BY <1>1 DEF vars, TypeOK
  <1>2. ASSUME NEW w \in Writers, BeginAppend(w)
        PROVE  TypeOK'
    <2>1. [op |-> "tip_read", parent |-> tip] \in Call
      BY DEF TypeOK, Call
    <2> QED
      BY <1>2, <2>1, CallUpdate DEF BeginAppend, Begins, TypeOK
  <1>3. ASSUME NEW w \in Writers, ReadSeq(w)
        PROVE  TypeOK'
    <2>1. PICK n \in 1 .. Cardinality(Ids) :
            call' = [call EXCEPT ![w] = [op |-> "seq_read",
                                         parent |-> call[w].parent, seq |-> n]]
      BY <1>3 DEF ReadSeq
    <2>2. n \in Nat
      BY FS_CardinalityType
    <2>3. [op |-> "seq_read", parent |-> call[w].parent, seq |-> n] \in Call
      BY <1>3, <2>2, CallShape DEF ReadSeq, Call
    <2> QED
      BY <1>3, <2>1, <2>3, CallUpdate DEF ReadSeq, TypeOK
  <1>4. ASSUME NEW w \in Writers, Fail(w)
        PROVE  TypeOK'
    BY <1>4, CallUpdate, IdleIsCall DEF Fail, Returns, TypeOK
  <1>5. ASSUME NEW w \in Writers, NEW e \in Ids, BeginAppendAt(w, e)
        PROVE  TypeOK'
    <2>1. [op |-> "tip_read", parent |-> e] \in Call
      BY DEF Call
    <2>2. moves' \in 0 .. MaxMoves
      BY <1>5 DEF BeginAppendAt, Moves, TypeOK
    <2> QED
      BY <1>5, <2>1, <2>2, CallUpdate DEF BeginAppendAt, Begins, TypeOK
  <1>6. ASSUME NEW w \in Writers, NEW e \in Ids, WriteEvent(w, e)
        PROVE  TypeOK'
    <2>1. [parent |-> call[w].parent, seq |-> call[w].seq] \in Row
      BY <1>6, CallShape DEF WriteEvent, Row
    <2> QED
      BY <1>6, <2>1, CallUpdate, IdleIsCall DEF WriteEvent, Returns, TypeOK
  <1>7. ASSUME NEW w \in Writers, NEW e \in Ids, RollbackToEvent(w, e)
        PROVE  TypeOK'
    <2>1. moves' \in 0 .. MaxMoves
      BY <1>7 DEF RollbackToEvent, Moves, TypeOK
    <2> QED
      BY <1>7, <2>1 DEF RollbackToEvent, TypeOK
  <1>8. ASSUME NEW w \in Writers, NEW e \in Ids, BeginBranch(w, e)
        PROVE  TypeOK'
    <2>1. [op |-> "branches_read", base |-> e, active |-> Active] \in Call
      BY DEF Call, Active
    <2>2. moves' \in 0 .. MaxMoves
      BY <1>8 DEF BeginBranch, Moves, TypeOK
    <2> QED
      BY <1>8, <2>1, <2>2, CallUpdate DEF BeginBranch, Begins, TypeOK
  <1>9. ASSUME NEW w \in Writers, NEW b \in BranchIds, WriteBranch(w, b)
        PROVE  TypeOK'
    <2>1. call[w].base \in Ids /\ call[w].active \in SUBSET BranchIds
      BY <1>9, CallShape DEF WriteBranch
    <2>2. ASSUME NEW c \in BranchIds
          PROVE  branches'[c] \in BranchRow \cup {None}
      <3>1. CASE c = b
        BY <1>9, <2>1, <3>1 DEF WriteBranch, BranchRow
      <3>2. CASE c # b /\ c \notin call[w].active
        BY <1>9, <3>2 DEF WriteBranch, TypeOK
      <3>3. CASE c # b /\ c \in call[w].active
        <4>1. branches'[c] = [base |-> branches[c].base, active |-> FALSE]
          BY <1>9, <3>3 DEF WriteBranch
        <4>2. branches[c] \in BranchRow
          BY <1>9, <3>3 DEF WriteBranch, ReadsStayTrue, ReadIsTrue, TypeOK
        <4> QED
          BY <4>1, <4>2 DEF BranchRow
      <3> QED
        BY <3>1, <3>2, <3>3
    <2>3. branches' \in [BranchIds -> BranchRow \cup {None}]
      BY <1>9, <2>2 DEF WriteBranch
    <2> QED
      BY <1>9, <2>1, <2>3, CallUpdate, IdleIsCall DEF WriteBranch, Returns, TypeOK
  <1> QED
    BY <1>1, <1>2, <1>3, <1>4, <1>5, <1>6, <1>7, <1>8, <1>9 DEF Next

-----------------------------------------------------------------------------
\* Rows are only ever added: what was appended stays as it is.
LEMMA RowsStay ==
  ASSUME TypeOK, [Next]_vars, NEW d \in Appended
  PROVE  d \in Appended' /\ events'[d] = events[d]
  <1>1. CASE events' = events
    BY <1>1 DEF Appended
  <1>2. ASSUME NEW w \in Writers, NEW e \in Ids, WriteEvent(w, e)
        PROVE  d \in Appended' /\ events'[d] = events[d]
    BY <1>2 DEF WriteEvent, Appended, TypeOK
  <1> QED
    BY <1>1, <1>2 DEF Next, vars, BeginAppend, ReadSeq, Fail, BeginAppendAt,
         RollbackToEvent, BeginBranch, WriteBranch

\* The same for branches: a row may change, it does not go away.
LEMMA BranchesStay ==
  ASSUME TypeOK, [Next]_vars, NEW c \in BranchIds, branches[c] # None
  PROVE  branches'[c] # None
  <1>1. CASE branches' = branches
    BY <1>1
  <1>2. ASSUME NEW w \in Writers, NEW b \in BranchIds, WriteBranch(w, b)
        PROVE  branches'[c] # None
    <2>1. call[w].base \in Ids
      BY <1>2, CallShape DEF WriteBranch
    <2>2. branches[c] \in BranchRow
      BY DEF TypeOK
    <2>3. branches'[c] \in BranchRow
      BY <1>2, <2>1, <2>2 DEF WriteBranch, BranchRow
    <2> QED
      BY <2>3, StoreAssumption
  <1> QED
    BY <1>1, <1>2 DEF Next, vars, BeginAppend, ReadSeq, Fail, BeginAppendAt,
         RollbackToEvent, BeginBranch, WriteEvent

\* The tip is a row, or there is none.
LEMMA TipStep ==
  ASSUME TypeOK, TipIsRow, ReadsStayTrue, [Next]_vars
  PROVE  TipIsRow'
  <1>1. CASE tip' = tip
    BY <1>1, RowsStay DEF TipIsRow
  <1>2. ASSUME NEW w \in Writers, NEW e \in Ids, WriteEvent(w, e)
        PROVE  TipIsRow'
    <2>1. [parent |-> call[w].parent, seq |-> call[w].seq] \in Row
      BY <1>2, CallShape DEF WriteEvent, Row
    <2>2. tip' = e /\ events'[e] \in Row
      BY <1>2, <2>1 DEF WriteEvent, TypeOK
    <2> QED
      BY <2>2, StoreAssumption DEF TipIsRow, Appended
  <1>3. ASSUME NEW w \in Writers, NEW e \in Ids, RollbackToEvent(w, e)
        PROVE  TipIsRow'
    BY <1>3 DEF RollbackToEvent, TipIsRow, Appended
  <1>4. ASSUME NEW w \in Writers, NEW b \in BranchIds, WriteBranch(w, b)
        PROVE  TipIsRow'
    <2>1. call[w].base \in Appended
      BY <1>4 DEF WriteBranch, ReadsStayTrue, ReadIsTrue
    <2> QED
      BY <1>4, <2>1 DEF WriteBranch, TipIsRow, Appended
  <1> QED
    BY <1>1, <1>2, <1>3, <1>4 DEF Next, vars, BeginAppend, ReadSeq, Fail,
         BeginAppendAt, BeginBranch

\* What a task has read is still true after a step in which the task itself
\* does nothing.
LEMMA ReadKept ==
  ASSUME TypeOK, [Next]_vars, NEW w \in Writers, ReadIsTrue(w),
         call'[w] = call[w]
  PROVE  ReadIsTrue(w)'
  <1>1. ASSUME call[w].op \in {"tip_read", "seq_read"}, call[w].parent # None
        PROVE  /\ call[w].parent \in Appended'
               /\ events'[call[w].parent] = events[call[w].parent]
    BY <1>1, RowsStay DEF ReadIsTrue
  <1>2. ASSUME call[w].op = "branches_read"
        PROVE  /\ call[w].base \in Appended'
               /\ \A b \in call[w].active : branches'[b] # None
    <2>1. call[w].active \in SUBSET BranchIds
      BY <1>2, CallShape
    <2> QED
      BY <1>2, <2>1, RowsStay, BranchesStay DEF ReadIsTrue
  <1> QED
    BY <1>1, <1>2 DEF ReadIsTrue

\* A task that is idle has read nothing.
LEMMA IdleReadsNothing ==
  ASSUME NEW w \in Writers, call'[w] = Idle
  PROVE  ReadIsTrue(w)'
  BY DEF ReadIsTrue, Idle

\* One step per action, for the task that acts.
LEMMA ReadsStep ==
  ASSUME TypeOK, ReadsStayTrue, TipIsRow, [Next]_vars
  PROVE  ReadsStayTrue'
  <1>1. CASE call' = call
    BY <1>1, ReadKept DEF ReadsStayTrue
  <1>2. ASSUME NEW w \in Writers, NEW c \in Call,
               call' = [call EXCEPT ![w] = c], ReadIsTrue(w)'
        PROVE  ReadsStayTrue'
    BY <1>2, CallUpdate, ReadKept DEF ReadsStayTrue
  <1>3. ASSUME NEW w \in Writers, Returns(w)
        PROVE  ReadsStayTrue'
    BY <1>2, <1>3, CallUpdate, IdleIsCall, IdleReadsNothing DEF Returns
  <1>4. ASSUME NEW w \in Writers, BeginAppend(w)
        PROVE  ReadsStayTrue'
    <2> DEFINE c == [op |-> "tip_read", parent |-> tip]
    <2>1. c \in Call /\ call' = [call EXCEPT ![w] = c]
      BY <1>4 DEF BeginAppend, Begins, TypeOK, Call
    <2>2. call'[w] = c
      BY <2>1, CallUpdate
    <2>3. ReadIsTrue(w)'
      BY <1>4, <2>2 DEF BeginAppend, ReadIsTrue, TipIsRow, Appended
    <2> QED
      BY <1>2, <2>1, <2>3
  <1>5. ASSUME NEW w \in Writers, NEW e \in Ids, BeginAppendAt(w, e)
        PROVE  ReadsStayTrue'
    <2> DEFINE c == [op |-> "tip_read", parent |-> e]
    <2>1. c \in Call /\ call' = [call EXCEPT ![w] = c]
      BY <1>5 DEF BeginAppendAt, Begins, Call
    <2>2. call'[w] = c
      BY <2>1, CallUpdate
    <2>3. ReadIsTrue(w)'
      BY <1>5, <2>2 DEF BeginAppendAt, ReadIsTrue, Appended
    <2> QED
      BY <1>2, <2>1, <2>3
  <1>6. ASSUME NEW w \in Writers, ReadSeq(w)
        PROVE  ReadsStayTrue'
    <2>1. PICK n \in 1 .. Cardinality(Ids) :
            /\ IsNextSeq(n)
            /\ call' = [call EXCEPT ![w] = [op |-> "seq_read",
                                            parent |-> call[w].parent, seq |-> n]]
      BY <1>6 DEF ReadSeq
    <2> DEFINE c == [op |-> "seq_read", parent |-> call[w].parent, seq |-> n]
    <2>2. n \in Nat
      BY StoreAssumption, FS_CardinalityType
    <2>3. c \in Call
      BY <1>6, <2>2, CallShape DEF ReadSeq, Call
    <2>4. call'[w] = c
      BY <2>1, <2>3, CallUpdate
    <2>5. call[w].parent # None => call[w].parent \in Appended
      BY <1>6 DEF ReadSeq, ReadsStayTrue, ReadIsTrue
    <2>6. ReadIsTrue(w)'
      BY <1>6, <2>1, <2>4, <2>5 DEF ReadSeq, ReadIsTrue, IsNextSeq, Appended
    <2> QED
      BY <1>2, <2>1, <2>3, <2>6
  <1>7. ASSUME NEW w \in Writers, NEW e \in Ids, BeginBranch(w, e)
        PROVE  ReadsStayTrue'
    <2> DEFINE c == [op |-> "branches_read", base |-> e, active |-> Active]
    <2>1. c \in Call /\ call' = [call EXCEPT ![w] = c]
      BY <1>7 DEF BeginBranch, Begins, Call, Active
    <2>2. call'[w] = c
      BY <2>1, CallUpdate
    <2>3. ReadIsTrue(w)'
      BY <1>7, <2>2 DEF BeginBranch, ReadIsTrue, Appended, Active
    <2> QED
      BY <1>2, <2>1, <2>3
  <1> QED
    BY <1>1, <1>3, <1>4, <1>5, <1>6, <1>7 DEF Next, vars, Fail, WriteEvent,
         WriteBranch, RollbackToEvent

\* A new row comes after its parent; the others stay as they are.
LEMMA ParentsStep ==
  ASSUME TypeOK, ParentsComeFirst, ReadsStayTrue, [Next]_vars
  PROVE  ParentsComeFirst'
  <1>1. CASE events' = events
    BY <1>1 DEF ParentsComeFirst, Appended
  <1>2. ASSUME NEW w \in Writers, NEW e \in Ids, WriteEvent(w, e)
        PROVE  ParentsComeFirst'
    <2>1. events'[e] = [parent |-> call[w].parent, seq |-> call[w].seq]
      BY <1>2 DEF WriteEvent, TypeOK
    <2>2. SUFFICES ASSUME NEW d \in Appended', events'[d].parent # None
                   PROVE  /\ events'[d].parent \in Appended'
                          /\ events'[events'[d].parent].seq < events'[d].seq
      BY DEF ParentsComeFirst
    <2>3. CASE d = e
      <3>1. /\ call[w].parent \in Appended
            /\ events[call[w].parent].seq < call[w].seq
        BY <1>2, <2>1, <2>2, <2>3 DEF WriteEvent, ReadsStayTrue, ReadIsTrue
      <3> QED
        BY <2>1, <2>3, <3>1, RowsStay
    <2>4. CASE d # e
      <3>1. d \in Appended /\ events'[d] = events[d]
        BY <1>2, <2>2, <2>4 DEF WriteEvent, Appended, TypeOK
      <3>2. /\ events[d].parent \in Appended
            /\ events[events[d].parent].seq < events[d].seq
        BY <2>2, <3>1 DEF ParentsComeFirst
      <3> QED
        BY <3>1, <3>2, RowsStay
    <2> QED
      BY <2>3, <2>4
  <1> QED
    BY <1>1, <1>2 DEF Next, vars, BeginAppend, ReadSeq, Fail, BeginAppendAt,
         RollbackToEvent, BeginBranch, WriteBranch

-----------------------------------------------------------------------------
\* The four parts hold at the start, and every step keeps them.
THEOREM IInvCorrect == Spec => []IInv
  <1>1. Init => IInv
    BY StoreAssumption DEF Init, IInv, TypeOK, ParentsComeFirst, ReadsStayTrue,
         ReadIsTrue, TipIsRow, Appended, Call, Idle
  <1>2. IInv /\ [Next]_vars => IInv'
    BY TypeStep, TipStep, ReadsStep, ParentsStep DEF IInv
  <1> QED
    BY <1>1, <1>2, PTL DEF Spec

(***************************************************************************)
(* The rows, the tip, the branches and what the calls have read are well   *)
(* formed in every reachable state.                                        *)
(***************************************************************************)
THEOREM TypeCorrect == Spec => []TypeOK
  <1>1. IInv => TypeOK
    BY DEF IInv
  <1> QED
    BY <1>1, IInvCorrect, PTL

(***************************************************************************)
(* With any number of concurrent writers, in any interleaving, an event is *)
(* listed after its parent.                                                *)
(***************************************************************************)
THEOREM ParentsComeFirstCorrect == Spec => []ParentsComeFirst
  <1>1. IInv => ParentsComeFirst
    BY DEF IInv
  <1> QED
    BY <1>1, IInvCorrect, PTL
-----------------------------------------------------------------------------
(***************************************************************************)
(* The path to an event, over any rows: so the same lemmas speak of the    *)
(* rows before a step and of those after it.                               *)
(***************************************************************************)
Past(rows) == { d \in Ids : rows[d] # None }

\* One step of the walk in EventPath, the equation of its recursion, and its
\* result.
Further(rows, p) ==
  LET parent == rows[p[1]].parent
  IN  IF parent = None \/ rows[parent] = None THEN p ELSE <<parent>> \o p

Walks(walk, rows, e) ==
  walk = [ n \in 0 .. Cardinality(Ids) |->
             IF n = 0 THEN <<e>> ELSE Further(rows, walk[n - 1]) ]

PathOf(rows, e) == (CHOOSE walk : Walks(walk, rows, e))[Cardinality(Past(rows))]

\* Rows in which parents come first.
Tree(rows) ==
  /\ rows \in [Ids -> Row \cup {None}]
  /\ \A d \in Past(rows) :
       rows[d].parent # None =>
         /\ rows[d].parent \in Past(rows)
         /\ rows[rows[d].parent].seq < rows[d].seq

\* p leads to e from some event on, and from a root on.
Chain(rows, p, e) ==
  /\ p \in Seq(Past(rows)) /\ Len(p) > 0
  /\ p[Len(p)] = e
  /\ \A i \in 1 .. Len(p) - 1 : rows[p[i + 1]].parent = p[i]

IsPath(rows, p, e) == Chain(rows, p, e) /\ rows[p[1]].parent = None

\* The types of a row, in a tree of rows.
LEMMA RowFields ==
  ASSUME NEW rows, Tree(rows), NEW d \in Past(rows)
  PROVE  rows[d].parent \in Ids \cup {None} /\ rows[d].seq \in Nat
  BY DEF Tree, Past, Row

\* The recursion has a solution, built up to any m by adding one more place.
LEMMA WalkRecursion ==
  ASSUME NEW rows, NEW e
  PROVE  \E walk : Walks(walk, rows, e)
  <1> DEFINE Solves(f, m) ==
               f = [ n \in 0 .. m |->
                       IF n = 0 THEN <<e>> ELSE Further(rows, f[n - 1]) ]
             S == { m \in Nat : \E f : Solves(f, m) }
  <1>0. Cardinality(Ids) \in Nat
    BY StoreAssumption, FS_CardinalityType
  <1>1. 0 \in S
    <2>1. Solves([n \in 0 .. 0 |-> <<e>>], 0)
      OBVIOUS
    <2> QED
      BY <2>1
  <1>2. ASSUME NEW m \in 1 .. Cardinality(Ids), m - 1 \in S
        PROVE  m \in S
    <2>0. m \in Nat
      BY <1>0
    <2>1. PICK f : Solves(f, m - 1)
      BY <1>2
    <2> DEFINE g == [ n \in 0 .. m |-> IF n = m THEN Further(rows, f[m - 1]) ELSE f[n] ]
    <2>2. ASSUME NEW n \in 0 .. m
          PROVE  g[n] = IF n = 0 THEN <<e>> ELSE Further(rows, g[n - 1])
      <3>1. CASE n = 0
        BY <3>1, <2>0, <2>1
      <3>2. CASE n = m
        BY <3>2, <2>0
      <3>3. CASE n # 0 /\ n # m
        <4>1. n \in 0 .. (m - 1) /\ g[n] = f[n] /\ g[n - 1] = f[n - 1]
          BY <3>3, <2>0
        <4> QED
          BY <4>1, <3>3, <2>1
      <3> QED
        BY <3>1, <3>2, <3>3
    <2>3. Solves(g, m)
      <3>1. g = [n \in 0 .. m |-> g[n]]
        OBVIOUS
      <3> HIDE DEF g
      <3> QED
        BY <2>2, <3>1
    <2> HIDE DEF g, Solves
    <2> QED
      BY <2>0, <2>3
  <1>3. Cardinality(Ids) \in S
    <2> HIDE DEF S
    <2>1. 0 .. Cardinality(Ids) \subseteq S
      BY <1>0, <1>1, <1>2, UpTo
    <2> QED
      BY <1>0, <2>1
  <1> QED
    BY <1>3 DEF Walks

\* Along a chain the counter increases, ...
LEMMA ChainIncreases ==
  ASSUME NEW rows, Tree(rows), NEW p, NEW e, Chain(rows, p, e)
  PROVE  \A i, j \in 1 .. Len(p) : i < j => rows[p[i]].seq < rows[p[j]].seq
  <1> DEFINE n == Len(p)
             S == { j \in 0 .. n :
                      \A i \in 1 .. n : i < j => rows[p[i]].seq < rows[p[j]].seq }
  <1>1. n \in Nat /\ \A i \in 1 .. n : p[i] \in Past(rows)
    BY DEF Chain
  <1>2. \A i \in 1 .. n : rows[p[i]].seq \in Nat
    BY <1>1, RowFields
  <1>3. \A i \in 1 .. n - 1 : rows[p[i]].seq < rows[p[i + 1]].seq
    <2>1. SUFFICES ASSUME NEW i \in 1 .. n - 1
                   PROVE  rows[p[i]].seq < rows[p[i + 1]].seq
      OBVIOUS
    <2>2. i \in 1 .. n /\ i + 1 \in 1 .. n
      BY <1>1
    <2>3. rows[p[i + 1]].parent = p[i] /\ p[i] # None
      BY <1>1, <2>2, StoreAssumption DEF Chain, Past
    <2> HIDE DEF n
    <2> QED
      BY <1>1, <2>2, <2>3 DEF Tree
  <1> HIDE DEF n
  <1>4. 0 \in S
    BY <1>1
  <1>5. ASSUME NEW j \in 1 .. n, j - 1 \in S
        PROVE  j \in S
    <2>1. SUFFICES ASSUME NEW i \in 1 .. n, i < j
                   PROVE  rows[p[i]].seq < rows[p[j]].seq
      BY <1>1
    <2>2. CASE i = j - 1
      <3>1. i \in 1 .. n - 1 /\ i + 1 = j
        BY <1>1, <2>2
      <3> QED
        BY <1>3, <3>1
    <2>3. CASE i < j - 1
      <3>1. j - 1 \in 1 .. n - 1 /\ j - 1 \in 1 .. n /\ (j - 1) + 1 = j
        BY <1>1, <2>3
      <3>2. rows[p[i]].seq < rows[p[j - 1]].seq
        BY <1>5, <2>3
      <3>3. rows[p[j - 1]].seq < rows[p[j]].seq
        BY <1>3, <3>1
      <3>4. /\ rows[p[i]].seq \in Nat /\ rows[p[j - 1]].seq \in Nat
            /\ rows[p[j]].seq \in Nat
        BY <1>2, <3>1
      <3> QED
        BY <3>2, <3>3, <3>4
    <2> QED
      BY <1>1, <2>1, <2>2, <2>3
  <1>6. 0 .. n \subseteq S
    <2> HIDE DEF S
    <2> QED
      BY <1>1, <1>4, <1>5, UpTo
  <1> QED
    BY <1>1, <1>6 DEF n

\* ... so no event is on it twice, and it is no longer than there are events.
LEMMA ChainFits ==
  ASSUME NEW rows, Tree(rows), NEW p, NEW e, Chain(rows, p, e)
  PROVE  Len(p) <= Cardinality(Past(rows))
  <1>1. IsFiniteSet(Past(rows))
    BY StoreAssumption, FS_Subset DEF Past
  <1>2. Len(p) \in Nat /\ p \in [1 .. Len(p) -> Past(rows)]
    BY DEF Chain
  <1>3. ASSUME NEW i \in 1 .. Len(p), NEW j \in 1 .. Len(p), i # j
        PROVE  p[i] # p[j]
    <2>1. rows[p[i]].seq \in Nat /\ rows[p[j]].seq \in Nat
      BY <1>2, RowFields
    <2>2. i < j \/ j < i
      BY <1>2, <1>3
    <2>3. rows[p[i]].seq < rows[p[j]].seq \/ rows[p[j]].seq < rows[p[i]].seq
      BY <2>2, ChainIncreases
    <2> QED
      BY <2>1, <2>3
  <1>4. p \in Injection(1 .. Len(p), Past(rows))
    BY <1>2, <1>3 DEF Injection, IsInjective
  <1>5. Cardinality(1 .. Len(p)) <= Cardinality(Past(rows))
    BY <1>1, <1>4, FS_Injection
  <1>6. Cardinality(1 .. Len(p)) = Len(p)
    BY <1>2, FS_Interval
  <1> QED
    BY <1>5, <1>6

\* One step of the walk.
LEMMA WalkStep ==
  ASSUME NEW rows, Tree(rows), NEW p, NEW e, Chain(rows, p, e),
         rows[p[1]].parent # None
  PROVE  Chain(rows, Further(rows, p), e) /\ Len(Further(rows, p)) = Len(p) + 1
  <1> DEFINE parent == rows[p[1]].parent
             q      == Further(rows, p)
  <1>1. p \in Seq(Past(rows)) /\ Len(p) \in Nat /\ Len(p) > 0
    BY DEF Chain
  <1>2. p[1] \in Past(rows)
    BY <1>1
  <1>3. parent \in Past(rows)
    BY <1>2 DEF Tree
  <1>4. q = <<parent>> \o p
    BY <1>3 DEF Past, Further
  <1> HIDE DEF q
  <1>5. /\ q \in Seq(Past(rows)) /\ Len(q) = Len(p) + 1 /\ q[1] = parent
        /\ \A i \in 1 .. Len(p) : q[i + 1] = p[i]
    BY <1>1, <1>3, <1>4
  <1>6. q[Len(q)] = e
    BY <1>1, <1>5 DEF Chain
  <1>7. ASSUME NEW i \in 1 .. Len(q) - 1
        PROVE  rows[q[i + 1]].parent = q[i]
    <2>1. i \in 1 .. Len(p)
      BY <1>1, <1>5
    <2>2. CASE i = 1
      BY <2>1, <2>2, <1>5
    <2>3. CASE i # 1
      <3>1. i - 1 \in 1 .. Len(p) - 1 /\ i - 1 \in 1 .. Len(p) /\ (i - 1) + 1 = i
        BY <1>1, <2>1, <2>3
      <3>2. q[i + 1] = p[i] /\ q[i] = p[i - 1]
        BY <1>5, <2>1, <3>1
      <3>3. rows[p[i]].parent = p[i - 1]
        BY <3>1 DEF Chain
      <3> QED
        BY <3>2, <3>3
    <2> QED
      BY <2>2, <2>3
  <1> QED
    BY <1>1, <1>5, <1>6, <1>7 DEF Chain, q

(***************************************************************************)
(* The walk reaches a root: after n steps it has a root in front or n + 1  *)
(* events, and there are not more events than the walk takes steps.        *)
(***************************************************************************)
LEMMA WalkEnds ==
  ASSUME NEW rows, Tree(rows), NEW e \in Past(rows)
  PROVE  IsPath(rows, PathOf(rows, e), e)
  <1>1. PICK walk : Walks(walk, rows, e) /\ PathOf(rows, e) = walk[Cardinality(Past(rows))]
    BY WalkRecursion DEF PathOf
  <1> DEFINE m == Cardinality(Ids)
             Good(n) == /\ Chain(rows, walk[n], e)
                        /\ rows[walk[n][1]].parent = None \/ Len(walk[n]) = n + 1
             S == { n \in 0 .. m : Good(n) }
  <1>2. /\ IsFiniteSet(Past(rows)) /\ m \in Nat
        /\ Cardinality(Past(rows)) \in 0 .. m
    <2>1. /\ IsFiniteSet(Past(rows)) /\ Cardinality(Past(rows)) <= m
      BY StoreAssumption, FS_Subset DEF Past
    <2>2. m \in Nat /\ Cardinality(Past(rows)) \in Nat
      BY <2>1, StoreAssumption, FS_CardinalityType
    <2> QED
      BY <2>1, <2>2
  <1> HIDE DEF m
  <1>3. /\ walk[0] = <<e>>
        /\ \A n \in 1 .. m :
             walk[n] = Further(rows, walk[n - 1])
    <2>1. walk[0] = <<e>>
      <3>1. 0 \in 0 .. m
        BY <1>2
      <3> QED
        BY <1>1, <3>1 DEF Walks, m
    <2>2. ASSUME NEW n \in 1 .. m
          PROVE  walk[n] = Further(rows, walk[n - 1])
      <3>1. n \in 0 .. m /\ n # 0
        BY <1>2
      <3> QED
        BY <1>1, <3>1 DEF Walks, m
    <2> QED
      BY <2>1, <2>2
  <1>4. 0 \in S
    <2>1. Chain(rows, <<e>>, e)
      BY DEF Chain
    <2> QED
      BY <1>2, <1>3, <2>1
  <1>5. ASSUME NEW n \in 1 .. m, n - 1 \in S
        PROVE  n \in S
    <2> DEFINE p == walk[n - 1]
    <2>1. walk[n] = Further(rows, p)
      BY <1>3
    <2>2. Chain(rows, p, e) /\ (rows[p[1]].parent = None \/ Len(p) = n)
      BY <1>2, <1>5
    <2> HIDE DEF p
    <2>3. CASE rows[p[1]].parent = None
      <3>1. walk[n] = p
        BY <2>1, <2>3 DEF Further
      <3> QED
        BY <2>2, <2>3, <3>1
    <2>4. CASE rows[p[1]].parent # None
      <3>1. Chain(rows, walk[n], e) /\ Len(walk[n]) = Len(p) + 1
        BY <2>1, <2>2, <2>4, WalkStep
      <3> QED
        BY <2>2, <2>4, <3>1
    <2>5. n \in 0 .. m
      BY <1>2
    <2> QED
      BY <2>3, <2>4, <2>5
  <1>6. Cardinality(Past(rows)) \in S
    <2> HIDE DEF S
    <2>1. 0 .. m \subseteq S
      BY <1>2, <1>4, <1>5, UpTo
    <2> QED
      BY <1>2, <2>1
  <1> DEFINE N == Cardinality(Past(rows))
  <1>7. Chain(rows, walk[N], e) /\ Len(walk[N]) <= N
    BY <1>6, ChainFits
  <1>8. N \in Nat /\ Len(walk[N]) # N + 1
    <2>1. N \in Nat /\ Len(walk[N]) \in Nat
      BY <1>2, <1>7 DEF Chain
    <2> HIDE DEF N
    <2> QED
      BY <1>7, <2>1
  <1> QED
    BY <1>1, <1>6, <1>7, <1>8 DEF IsPath

\* Of two paths to e, the one contains the other's events, from the end on.
LEMMA PathWithin ==
  ASSUME NEW rows, NEW p, NEW q, NEW e, IsPath(rows, p, e), IsPath(rows, q, e)
  PROVE  \A k \in 0 .. Len(p) - 1 : k < Len(q) /\ p[Len(p) - k] = q[Len(q) - k]
  <1> DEFINE a == Len(p)
             b == Len(q)
             S == { k \in 0 .. a - 1 : k < b /\ p[a - k] = q[b - k] }
  <1>1. /\ a \in Nat /\ a > 0 /\ b \in Nat /\ b > 0
        /\ p[a] = e /\ q[b] = e
        /\ \A i \in 1 .. a : p[i] # None
        /\ \A i \in 1 .. a - 1 : rows[p[i + 1]].parent = p[i]
        /\ \A i \in 1 .. b - 1 : rows[q[i + 1]].parent = q[i]
        /\ rows[q[1]].parent = None
    BY StoreAssumption DEF IsPath, Chain, Past
  <1> HIDE DEF a, b
  <1>2. 0 \in S
    BY <1>1
  <1>3. ASSUME NEW k \in 1 .. a - 1, k - 1 \in S
        PROVE  k \in S
    <2>1. k - 1 < b /\ p[a - (k - 1)] = q[b - (k - 1)]
      BY <1>3
    <2>2. a - k \in 1 .. a - 1 /\ (a - k) + 1 = a - (k - 1) /\ a - k \in 1 .. a
      BY <1>1
    <2>3. rows[q[b - (k - 1)]].parent = p[a - k] /\ p[a - k] # None
      BY <1>1, <2>1, <2>2
    <2>4. b - (k - 1) # 1
      BY <1>1, <2>3
    <2>5. k < b /\ b - k \in 1 .. b - 1 /\ (b - k) + 1 = b - (k - 1)
      BY <1>1, <2>1, <2>4
    <2>6. q[b - k] = p[a - k]
      BY <1>1, <2>3, <2>5
    <2> QED
      BY <1>1, <2>5, <2>6
  <1>4. 0 .. a - 1 \subseteq S
    <2> HIDE DEF S
    <2>1. a - 1 \in Nat
      BY <1>1
    <2> QED
      BY <1>2, <1>3, <2>1, UpTo
  <1> QED
    BY <1>4 DEF a, b

\* There is one path to an event.
LEMMA PathUnique ==
  ASSUME NEW rows, NEW p, NEW q, NEW e, IsPath(rows, p, e), IsPath(rows, q, e)
  PROVE  p = q
  <1>1. /\ Len(p) \in Nat /\ Len(p) > 0 /\ Len(q) \in Nat /\ Len(q) > 0
        /\ p \in Seq(Past(rows)) /\ q \in Seq(Past(rows))
    BY DEF IsPath, Chain
  <1>2. \A k \in 0 .. Len(p) - 1 : k < Len(q) /\ p[Len(p) - k] = q[Len(q) - k]
    BY PathWithin
  <1>3. \A k \in 0 .. Len(q) - 1 : k < Len(p)
    BY PathWithin
  <1>4. Len(p) = Len(q)
    <2>1. Len(p) - 1 < Len(q) /\ Len(q) - 1 < Len(p)
      BY <1>1, <1>2, <1>3
    <2> QED
      BY <1>1, <2>1
  <1>5. ASSUME NEW i \in 1 .. Len(p)
        PROVE  p[i] = q[i]
    <2>1. Len(p) - i \in 0 .. Len(p) - 1 /\ Len(p) - (Len(p) - i) = i
      BY <1>1
    <2> QED
      BY <1>2, <1>4, <2>1
  <1> QED
    BY <1>1, <1>4, <1>5

\* A root is the path to itself.
LEMMA PathRoot ==
  ASSUME NEW rows, NEW d \in Past(rows), rows[d].parent = None
  PROVE  IsPath(rows, <<d>>, d)
  BY DEF IsPath, Chain

\* The path to a child is the path to its parent and the child.
LEMMA PathAppend ==
  ASSUME NEW rows, NEW p, NEW e, IsPath(rows, p, e),
         NEW d \in Past(rows), rows[d].parent = e
  PROVE  IsPath(rows, Append(p, d), d)
  <1> DEFINE q == Append(p, d)
  <1>1. p \in Seq(Past(rows)) /\ Len(p) \in Nat /\ Len(p) > 0
    BY DEF IsPath, Chain
  <1>2. /\ q \in Seq(Past(rows)) /\ Len(q) = Len(p) + 1 /\ q[Len(p) + 1] = d
        /\ \A i \in 1 .. Len(p) : q[i] = p[i]
    BY <1>1
  <1> HIDE DEF q
  <1>3. ASSUME NEW i \in 1 .. Len(q) - 1
        PROVE  rows[q[i + 1]].parent = q[i]
    <2>1. i \in 1 .. Len(p)
      BY <1>1, <1>2
    <2>2. CASE i = Len(p)
      BY <1>1, <1>2, <2>2 DEF IsPath, Chain
    <2>3. CASE i # Len(p)
      <3>1. i \in 1 .. Len(p) - 1 /\ i + 1 \in 1 .. Len(p)
        BY <1>1, <2>1, <2>3
      <3> QED
        BY <1>2, <2>1, <3>1 DEF IsPath, Chain
    <2> QED
      BY <2>2, <2>3
  <1>4. q[1] = p[1]
    BY <1>1, <1>2
  <1>5. Chain(rows, q, d)
    BY <1>1, <1>2, <1>3 DEF Chain
  <1>6. rows[q[1]].parent = None
    BY <1>4 DEF IsPath
  <1> QED
    BY <1>5, <1>6 DEF IsPath, q

\* What leads to an event on the way is the part up to it.
LEMMA PathPrefix ==
  ASSUME NEW rows, NEW p, NEW e, IsPath(rows, p, e), NEW n \in 1 .. Len(p)
  PROVE  IsPath(rows, SubSeq(p, 1, n), p[n])
  <1> DEFINE q == SubSeq(p, 1, n)
  <1>1. p \in Seq(Past(rows)) /\ Len(p) \in Nat
    BY DEF IsPath, Chain
  <1>2. /\ q \in Seq(Past(rows)) /\ Len(q) = n
        /\ \A i \in 1 .. n : q[i] = p[i]
    BY <1>1
  <1> HIDE DEF q
  <1>3. ASSUME NEW i \in 1 .. Len(q) - 1
        PROVE  rows[q[i + 1]].parent = q[i]
    <2>1. i \in 1 .. n /\ i + 1 \in 1 .. n /\ i \in 1 .. Len(p) - 1
      BY <1>1, <1>2
    <2> QED
      BY <1>2, <2>1 DEF IsPath, Chain
  <1>4. q[1] = p[1] /\ q[n] = p[n] /\ n > 0
    BY <1>1, <1>2
  <1>5. Chain(rows, q, p[n])
    BY <1>1, <1>2, <1>3, <1>4 DEF Chain
  <1>6. rows[q[1]].parent = None
    BY <1>4 DEF IsPath
  <1> QED
    BY <1>5, <1>6 DEF IsPath, q

\* More rows make no other path.
LEMMA PathKept ==
  ASSUME NEW rows, NEW more, NEW p, NEW e, IsPath(rows, p, e),
         \A d \in Past(rows) : d \in Past(more) /\ more[d] = rows[d]
  PROVE  IsPath(more, p, e)
  <1>1. p \in Seq(Past(rows)) /\ Len(p) \in Nat /\ Len(p) > 0
    BY DEF IsPath, Chain
  <1>2. \A i \in 1 .. Len(p) : p[i] \in Past(more) /\ more[p[i]] = rows[p[i]]
    BY <1>1
  <1>3. p \in Seq(Past(more))
    <2>1. p \in [1 .. Len(p) -> Past(more)]
      BY <1>1, <1>2
    <2> QED
      BY <1>1, <2>1
  <1>4. ASSUME NEW i \in 1 .. Len(p) - 1
        PROVE  more[p[i + 1]].parent = p[i]
    <2>1. i + 1 \in 1 .. Len(p)
      BY <1>1
    <2> QED
      BY <1>2, <2>1 DEF IsPath, Chain
  <1>5. more[p[1]].parent = None
    BY <1>1, <1>2 DEF IsPath
  <1> QED
    BY <1>1, <1>3, <1>4, <1>5 DEF IsPath, Chain

-----------------------------------------------------------------------------
\* The operators of the module are those above, at its own rows.
LEMMA PathIsPathOf ==
  /\ \A e : EventPath(e) = PathOf(events, e)
  /\ Appended = Past(events)
  BY DEF EventPath, PathOf, Walks, Further, Appended, Past

\* The paths of the next state are the paths among its rows.
LEMMA NextPathIsPathOf ==
  /\ \A e : EventPath(e)' = PathOf(events', e)
  /\ Appended' = Past(events')
  BY DEF EventPath, PathOf, Walks, Further, Appended, Past

\* The rows that were written are a tree.
LEMMA RowsAreTree ==
  ASSUME TypeOK, ParentsComeFirst
  PROVE  Tree(events)
  BY DEF TypeOK, ParentsComeFirst, Tree, Appended, Past

\* So they are in the next state.
LEMMA NextRowsAreTree ==
  ASSUME TypeOK', ParentsComeFirst'
  PROVE  Tree(events')
  BY DEF TypeOK, ParentsComeFirst, Tree, Appended, Past

\* A step changes no path.
LEMMA PathStays ==
  ASSUME IInv, IInv', [Next]_vars, NEW e \in Past(events)
  PROVE  /\ e \in Past(events') /\ events'[e] = events[e]
         /\ PathOf(events', e) = PathOf(events, e)
  <1>1. Tree(events) /\ Tree(events')
    BY RowsAreTree, NextRowsAreTree DEF IInv
  <1>2. \A d \in Past(events) : d \in Past(events') /\ events'[d] = events[d]
    BY RowsStay, PathIsPathOf, NextPathIsPathOf DEF IInv
  <1>3. IsPath(events, PathOf(events, e), e)
    BY <1>1, WalkEnds
  <1>4. IsPath(events', PathOf(events, e), e)
    BY <1>2, <1>3, PathKept
  <1>5. IsPath(events', PathOf(events', e), e)
    BY <1>1, <1>2, WalkEnds
  <1> QED
    BY <1>2, <1>4, <1>5, PathUnique

\* The path to a new event is the path to its parent and the event.
LEMMA PathGrows ==
  ASSUME NEW rows, Tree(rows), NEW e \in Past(rows)
  PROVE  PathOf(rows, e) = IF rows[e].parent = None THEN <<e>>
                           ELSE Append(PathOf(rows, rows[e].parent), e)
  <1>1. IsPath(rows, PathOf(rows, e), e)
    BY WalkEnds
  <1>2. CASE rows[e].parent = None
    BY <1>1, <1>2, PathRoot, PathUnique
  <1>3. CASE rows[e].parent # None
    <2>1. rows[e].parent \in Past(rows)
      BY <1>3 DEF Tree
    <2>2. IsPath(rows, PathOf(rows, rows[e].parent), rows[e].parent)
      BY <2>1, WalkEnds
    <2>3. IsPath(rows, Append(PathOf(rows, rows[e].parent), e), e)
      BY <2>2, PathAppend
    <2> QED
      BY <1>1, <1>3, <2>3, PathUnique
  <1> QED
    BY <1>2, <1>3

(***************************************************************************)
(* Whatever the writers, rollbacks and branches do, and in any order, the  *)
(* path to an event never changes once the event is there, and the event   *)
(* never goes away: what was replayed, exported or compacted can be        *)
(* replayed again.                                                         *)
(***************************************************************************)
THEOREM PathsAreStableCorrect == Spec => PathsAreStable
  <1>1. IInv /\ IInv' /\ [Next]_vars =>
          [\A e \in Appended : events'[e] # None /\ EventPath(e)' = EventPath(e)]_vars
    <2> SUFFICES ASSUME IInv, IInv', [Next]_vars, NEW e \in Appended
                 PROVE  events'[e] # None /\ EventPath(e)' = EventPath(e)
      OBVIOUS
    <2>1. e \in Past(events)
      BY PathIsPathOf
    <2>2. e \in Past(events') /\ PathOf(events', e) = PathOf(events, e)
      BY <2>1, PathStays
    <2> QED
      BY <2>2, PathIsPathOf, NextPathIsPathOf DEF Past
  <1> QED
    BY <1>1, IInvCorrect, PTL DEF Spec, PathsAreStable

-----------------------------------------------------------------------------
\* Compaction is a client of the store: each of its steps is one of the
\* store's.
LEMMA MemoryStep ==
  ASSUME [MemoryNext]_allVars
  PROVE  [Next]_vars
  <1>1. ASSUME NEW w \in Writers, BeginCompact(w)
        PROVE  BeginAppend(w)
    BY <1>1 DEF BeginCompact, BeginAppend
  <1>2. CASE MemoryNext
    BY <1>1, <1>2 DEF MemoryNext, Next, WriteRow, GiveUp, OtherCall
  <1>3. CASE UNCHANGED allVars
    BY <1>3 DEF allVars, vars
  <1> QED
    BY <1>2, <1>3

(***************************************************************************)
(* With its compactions, a session is still a session of the store: every  *)
(* behaviour of SessionMemory is one of SessionStore, so what is proved of *)
(* all behaviours of the store holds here.                                 *)
(***************************************************************************)
THEOREM MemoryImplementsStore == MemorySpec => Spec
  <1>1. MemoryInit => Init
    BY DEF MemoryInit
  <1>2. [MemoryNext]_allVars => [Next]_vars
    BY MemoryStep
  <1> QED
    BY <1>1, <1>2, PTL DEF MemorySpec, Spec

(***************************************************************************)
(* Rows, tip, branches and calls are well formed, events come after their  *)
(* parents and paths are stable, with compactions too.                     *)
(***************************************************************************)
THEOREM MemoryKeepsStore ==
  MemorySpec => []TypeOK /\ []ParentsComeFirst /\ PathsAreStable
  BY MemoryImplementsStore, TypeCorrect, ParentsComeFirstCorrect,
     PathsAreStableCorrect, PTL

-----------------------------------------------------------------------------
(***************************************************************************)
(* What a compaction has read is, until its event is written, the path to  *)
(* the parent its event will have.                                         *)
(***************************************************************************)
PathIsRead ==
  \A w \in Writers : reading[w] # None =>
    /\ call[w].op \in {"tip_read", "seq_read"}
    /\ call[w].parent # None
    /\ reading[w] = EventPath(call[w].parent)

MemoryIInv ==
  /\ IInv
  /\ DOMAIN window = Ids /\ window = [e \in Ids |-> window[e]]
  /\ DOMAIN reading = Writers /\ reading = [w \in Writers |-> reading[w]]
  /\ PathIsRead
  /\ CompactionCoversPath

\* What the task that acts has read is the path still.
LEMMA PathReadStep ==
  ASSUME MemoryIInv, IInv', [MemoryNext]_allVars
  PROVE  PathIsRead'
  <1>0. [Next]_vars
    BY MemoryStep
  <1> SUFFICES ASSUME NEW w \in Writers, reading'[w] # None
               PROVE  /\ call'[w].op \in {"tip_read", "seq_read"}
                      /\ call'[w].parent # None
                      /\ reading'[w] = PathOf(events', call'[w].parent)
    BY NextPathIsPathOf DEF PathIsRead
  <1>1. ASSUME reading[w] # None
        PROVE  /\ call[w].op \in {"tip_read", "seq_read"}
               /\ call[w].parent # None
               /\ reading[w] = PathOf(events', call[w].parent)
    <2>1. /\ call[w].op \in {"tip_read", "seq_read"}
          /\ call[w].parent # None
          /\ reading[w] = PathOf(events, call[w].parent)
      BY <1>1, PathIsPathOf DEF MemoryIInv, PathIsRead
    <2>2. call[w].parent \in Past(events)
      BY <2>1, PathIsPathOf DEF MemoryIInv, IInv, ReadsStayTrue, ReadIsTrue
    <2> QED
      BY <1>0, <2>1, <2>2, PathStays DEF MemoryIInv
  <1>2. CASE reading'[w] = reading[w] /\ call'[w] = call[w]
    BY <1>1, <1>2
  <1>3. ASSUME BeginCompact(w)
        PROVE  /\ call'[w].op \in {"tip_read", "seq_read"}
               /\ call'[w].parent # None
               /\ reading'[w] = PathOf(events', call'[w].parent)
    <2>1. call'[w] = [op |-> "tip_read", parent |-> tip] /\ tip # None
      <3>1. [op |-> "tip_read", parent |-> tip] \in Call
        BY DEF MemoryIInv, IInv, TypeOK, Call
      <3> QED
        BY <1>3, <3>1, CallUpdate DEF BeginCompact, Begins, MemoryIInv, IInv
    <2>2. reading'[w] = PathOf(events, tip)
      <3>1. reading'[w] = ActivePath
        BY <1>3 DEF BeginCompact, MemoryIInv
      <3> QED
        BY <1>3, <3>1, PathIsPathOf DEF ActivePath, BeginCompact
    <2>3. events' = events
      BY <1>3 DEF BeginCompact
    <2> QED
      BY <2>1, <2>2, <2>3
  <1>4. ASSUME NEW e \in Ids, WriteRow(w, e)
        PROVE  FALSE
    <2>1. reading'[w] = None
      BY <1>4 DEF WriteRow, MemoryIInv
    <2> QED
      BY <2>1
  <1>5. ASSUME GiveUp(w)
        PROVE  FALSE
    <2>1. reading'[w] = None
      BY <1>5 DEF GiveUp, MemoryIInv
    <2> QED
      BY <2>1
  <1>6. ASSUME NEW v \in Writers, v # w,
               \/ BeginCompact(v) \/ \E e \in Ids : WriteRow(v, e)
               \/ GiveUp(v) \/ OtherCall(v)
        PROVE  reading'[w] = reading[w] /\ call'[w] = call[w]
    <2>1. call \in [Writers -> Call]
      BY DEF MemoryIInv, IInv, TypeOK
    <2>2. reading'[w] = reading[w]
      BY <1>6 DEF MemoryIInv, BeginCompact, WriteRow, GiveUp, OtherCall
    <2>3. call'[w] = call[w]
      BY <1>6, <2>1 DEF BeginCompact, WriteRow, WriteEvent, GiveUp, Fail,
           OtherCall, BeginAppend, ReadSeq, BeginAppendAt, RollbackToEvent,
           BeginBranch, WriteBranch, Begins, Returns
    <2> QED
      BY <2>2, <2>3
  <1>7. ASSUME OtherCall(w)
        PROVE  /\ call'[w].op \in {"tip_read", "seq_read"}
               /\ call'[w].parent = call[w].parent
    <2>1. reading'[w] = reading[w]
      BY <1>7 DEF OtherCall
    <2>2. call[w].op \in {"tip_read", "seq_read"} /\ call[w] # Idle
      BY <1>1, <2>1 DEF Idle
    <2>3. CASE ReadSeq(w)
      <3>1. PICK n \in 1 .. Cardinality(Ids) :
              call' = [call EXCEPT ![w] = [op |-> "seq_read",
                                           parent |-> call[w].parent, seq |-> n]]
        BY <2>3 DEF ReadSeq
      <3>2. call'[w] = [op |-> "seq_read", parent |-> call[w].parent, seq |-> n]
        BY <3>1 DEF MemoryIInv, IInv, TypeOK
      <3> QED
        BY <3>2
    <2> QED
      BY <1>7, <2>2, <2>3 DEF OtherCall, BeginAppend, BeginAppendAt, Begins,
           RollbackToEvent, BeginBranch, WriteBranch
  <1>8. CASE UNCHANGED allVars
    BY <1>2, <1>8 DEF allVars
  <1>9. CASE MemoryNext
    <2>1. PICK v \in Writers : \/ BeginCompact(v) \/ \E e \in Ids : WriteRow(v, e)
                               \/ GiveUp(v) \/ OtherCall(v)
      BY <1>9 DEF MemoryNext
    <2>2. CASE v # w
      BY <1>2, <1>6, <2>1, <2>2
    <2>3. CASE v = w /\ OtherCall(w)
      <3>1. reading'[w] = reading[w]
        BY <2>3 DEF OtherCall
      <3> QED
        BY <1>1, <1>7, <2>3, <3>1
    <2> QED
      BY <1>3, <1>4, <1>5, <2>1, <2>2, <2>3
  <1> QED
    BY <1>8, <1>9

\* A new compaction event covers its path; those before it still do.
LEMMA CoverStep ==
  ASSUME MemoryIInv, IInv', [MemoryNext]_allVars
  PROVE  CompactionCoversPath'
  <1>0. [Next]_vars
    BY MemoryStep
  <1> SUFFICES ASSUME NEW c \in Ids, c \in Past(events'), window'[c] # None
               PROVE  /\ events'[c].parent # None
                      /\ window'[c] = PathOf(events', events'[c].parent)
    BY NextPathIsPathOf DEF CompactionCoversPath, Compactions, Past
  <1>1. ASSUME c \in Past(events), window'[c] = window[c]
        PROVE  /\ events'[c].parent # None
               /\ window'[c] = PathOf(events', events'[c].parent)
    <2>1. /\ events[c].parent # None
          /\ window[c] = PathOf(events, events[c].parent)
      BY <1>1, PathIsPathOf DEF MemoryIInv, CompactionCoversPath, Compactions
    <2>2. events[c].parent \in Past(events)
      BY <1>1, <2>1, PathIsPathOf DEF MemoryIInv, IInv, ParentsComeFirst
    <2>3. events'[c] = events[c]
      BY <1>0, <1>1, PathStays DEF MemoryIInv
    <2>4. PathOf(events', events[c].parent) = PathOf(events, events[c].parent)
      BY <1>0, <2>2, PathStays DEF MemoryIInv
    <2> QED
      BY <1>1, <2>1, <2>3, <2>4
  <1>2. CASE events' = events /\ window' = window
    BY <1>1, <1>2 DEF Past
  <1>3. ASSUME NEW w \in Writers, NEW e \in Ids, WriteRow(w, e), c # e
        PROVE  c \in Past(events) /\ window'[c] = window[c]
    BY <1>3 DEF WriteRow, WriteEvent, Past, MemoryIInv, IInv, TypeOK
  <1>4. ASSUME NEW w \in Writers, WriteRow(w, c)
        PROVE  /\ events'[c].parent # None
               /\ window'[c] = PathOf(events', events'[c].parent)
    <2>1. window'[c] = reading[w]
      BY <1>4 DEF WriteRow, MemoryIInv
    <2>2. events'[c].parent = call[w].parent
      BY <1>4 DEF WriteRow, WriteEvent, MemoryIInv, IInv, TypeOK
    <2>3. /\ call[w].parent # None /\ call[w].op = "seq_read"
          /\ reading[w] = PathOf(events, call[w].parent)
      BY <1>4, <2>1, PathIsPathOf DEF MemoryIInv, PathIsRead, WriteRow, WriteEvent
    <2>4. call[w].parent \in Past(events)
      BY <2>3, PathIsPathOf DEF MemoryIInv, IInv, ReadsStayTrue, ReadIsTrue
    <2>5. PathOf(events', call[w].parent) = PathOf(events, call[w].parent)
      BY <1>0, <2>4, PathStays DEF MemoryIInv
    <2> QED
      BY <2>1, <2>2, <2>3, <2>5
  <1>5. CASE UNCHANGED allVars
    BY <1>2, <1>5 DEF allVars
  <1>6. ASSUME NEW w \in Writers, BeginCompact(w) \/ GiveUp(w) \/ OtherCall(w)
        PROVE  events' = events /\ window' = window
    BY <1>6 DEF BeginCompact, GiveUp, Fail, OtherCall, BeginAppend, ReadSeq,
         BeginAppendAt, RollbackToEvent, BeginBranch, WriteBranch
  <1>7. CASE MemoryNext
    <2>1. PICK w \in Writers : \/ BeginCompact(w) \/ \E e \in Ids : WriteRow(w, e)
                               \/ GiveUp(w) \/ OtherCall(w)
      BY <1>7 DEF MemoryNext
    <2>2. CASE \E e \in Ids : WriteRow(w, e)
      <3>1. PICK e \in Ids : WriteRow(w, e)
        BY <2>2
      <3>2. CASE c = e
        BY <1>4, <3>1, <3>2
      <3>3. CASE c # e
        BY <1>1, <1>3, <3>1, <3>3
      <3> QED
        BY <3>2, <3>3
    <2> QED
      BY <1>2, <1>6, <2>1, <2>2
  <1> QED
    BY <1>5, <1>7

\* The two variables of compaction stay functions on their domains.
LEMMA MemoryShapeStep ==
  ASSUME MemoryIInv, [MemoryNext]_allVars
  PROVE  /\ (DOMAIN window = Ids /\ window = [e \in Ids |-> window[e]])'
         /\ (DOMAIN reading = Writers /\ reading = [w \in Writers |-> reading[w]])'
  BY DEF MemoryIInv, MemoryNext, allVars, BeginCompact, WriteRow, GiveUp, OtherCall

\* The inductive invariant of the store with compaction holds throughout, for any
\* number of writers.
THEOREM MemoryIInvCorrect == MemorySpec => []MemoryIInv
  <1>1. MemoryInit /\ IInv => MemoryIInv
    BY DEF MemoryInit, MemoryIInv, Init, PathIsRead, CompactionCoversPath,
         Compactions, Appended
  <1>2. MemoryIInv /\ IInv' /\ [MemoryNext]_allVars => MemoryIInv'
    BY PathReadStep, CoverStep, MemoryShapeStep DEF MemoryIInv
  <1> QED
    BY <1>1, <1>2, MemoryImplementsStore, IInvCorrect, PTL DEF MemorySpec

(***************************************************************************)
(* With any number of writers, rollbacks and branches between a            *)
(* compaction's reading and its append, the summary it writes is of the    *)
(* path that leads to it: no event before it is left out, none of another  *)
(* branch is in it, then and for ever.                                     *)
(***************************************************************************)
THEOREM CompactionCoversPathCorrect == MemorySpec => []CompactionCoversPath
  <1>1. MemoryIInv => CompactionCoversPath
    BY DEF MemoryIInv
  <1> QED
    BY <1>1, MemoryIInvCorrect, PTL

-----------------------------------------------------------------------------
(***************************************************************************)
(* While calls come in turn, one task at most is in a call, and what it    *)
(* has read is what there still is: the counter it took is the next one,   *)
(* the branches it will deactivate are the active ones, and as long as     *)
(* nobody moves the tip, its parent is the tip.                            *)
(***************************************************************************)
ReadIsCurrent(w) ==
  /\ call[w].op = "seq_read" => IsNextSeq(call[w].seq)
  /\ call[w].op = "branches_read" => call[w].active = Active
  /\ moves = 0 /\ call[w] # Idle =>
       call[w].op \in {"tip_read", "seq_read"} /\ call[w].parent = tip

InTurn ==
  /\ \A v, w \in Calling : v = w
  /\ \A w \in Writers : ReadIsCurrent(w)
  /\ SeqIsUnique
  /\ SingleBranchByDefault
  /\ Active = {} \/ \E b \in BranchIds : Active = {b}

TurnInv ==
  /\ IInv
  /\ IsFiniteSet(Calling)
  /\ overlapped \/ InTurn

\* A set that has not more than one member.
LEMMA AtMostOne ==
  ASSUME NEW S, IsFiniteSet(S), ~ (Cardinality(S) > 1)
  PROVE  \A x, y \in S : x = y
  <1> SUFFICES ASSUME NEW x \in S, NEW y \in S, x # y
               PROVE  FALSE
    OBVIOUS
  <1>1. IsFiniteSet({x}) /\ Cardinality({x}) = 1
    BY FS_Singleton
  <1>2. Cardinality({x} \cup {y}) = 2
    BY <1>1, FS_AddElement
  <1>3. {x} \cup {y} \in SUBSET S
    OBVIOUS
  <1>4. Cardinality({x} \cup {y}) <= Cardinality(S)
    BY <1>3, FS_Subset
  <1>5. Cardinality(S) \in Nat
    BY FS_CardinalityType
  <1> QED
    BY <1>2, <1>4, <1>5

\* Who acts: every other task stays where it is.
LEMMA OthersWait ==
  ASSUME TypeOK, NEW w \in Writers,
         \/ BeginCompact(w) \/ \E e \in Ids : WriteRow(w, e)
         \/ GiveUp(w) \/ OtherCall(w)
  PROVE  \A v \in Writers : v # w => call'[v] = call[v]
  BY DEF TypeOK, BeginCompact, WriteRow, WriteEvent, GiveUp, Fail,
     OtherCall, BeginAppend, ReadSeq, BeginAppendAt, RollbackToEvent,
     BeginBranch, WriteBranch, Begins, Returns

\* A step puts finitely many writers into a call if there were.
LEMMA CallingFinite ==
  ASSUME TypeOK, IsFiniteSet(Calling), [MemoryNext]_allVars
  PROVE  IsFiniteSet(Calling')
  <1>1. CASE UNCHANGED allVars
    BY <1>1 DEF allVars, Calling
  <1>2. CASE MemoryNext
    <2>1. PICK w \in Writers : \/ BeginCompact(w) \/ \E e \in Ids : WriteRow(w, e)
                               \/ GiveUp(w) \/ OtherCall(w)
      BY <1>2 DEF MemoryNext
    <2>2. Calling' \in SUBSET (Calling \cup {w})
      BY <2>1, OthersWait DEF Calling
    <2>3. IsFiniteSet(Calling \cup {w})
      BY FS_AddElement
    <2> QED
      BY <2>2, <2>3, FS_Subset
  <1> QED
    BY <1>1, <1>2

\* A task that enters a call is alone in it, and has just read.
LEMMA TurnBegins ==
  ASSUME TypeOK, InTurn, NEW w \in Writers, NEW c \in Call, Begins(w, c),
         c # Idle, \A u, v \in Calling' : u = v,
         UNCHANGED <<events, tip, branches>>, moves' = 0 => moves = 0,
         c.op # "seq_read", c.op = "branches_read" => c.active = Active,
         moves' = 0 => c.op = "tip_read" /\ c.parent = tip
  PROVE  InTurn'
  <1>1. /\ call'[w] = c
        /\ \A v \in Writers : v # w => call'[v] = call[v]
    BY CallUpdate DEF Begins
  <1>2. Active' = Active /\ Appended' = Appended
    BY DEF Active, Appended
  <1>3. \A v \in Writers : v # w => call'[v] = Idle
    BY <1>1 DEF Calling
  <1>4. ASSUME NEW v \in Writers
        PROVE  ReadIsCurrent(v)'
    <2>1. CASE v = w
      BY <1>1, <1>2, <2>1 DEF ReadIsCurrent
    <2>2. CASE v # w
      BY <1>3, <2>2 DEF ReadIsCurrent, Idle
    <2> QED
      BY <2>1, <2>2
  <1>5. SeqIsUnique'
    BY <1>2 DEF InTurn, SeqIsUnique
  <1>6. SingleBranchByDefault'
    BY <1>2, PathIsPathOf, NextPathIsPathOf
       DEF InTurn, SingleBranchByDefault, ActivePath
  <1> QED
    BY <1>2, <1>4, <1>5, <1>6 DEF InTurn

\* When the only task in a call returns, no task has read anything.
LEMMA TurnEnds ==
  ASSUME TypeOK, InTurn, NEW w \in Writers, call[w] # Idle, Returns(w)
  PROVE  /\ \A v \in Writers : ReadIsCurrent(v)'
         /\ \A u, v \in Calling' : u = v
  <1>1. call' = [call EXCEPT ![w] = Idle] /\ w \in Calling
    BY DEF Returns, Calling
  <1>2. \A v \in Writers : call'[v] = Idle
    <2>1. /\ call'[w] = Idle
          /\ \A v \in Writers : v # w => call'[v] = call[v]
      BY <1>1, CallUpdate, IdleIsCall
    <2> QED
      BY <1>1, <2>1 DEF InTurn, Calling
  <1>3. Calling' = {}
    BY <1>2 DEF Calling
  <1>4. \A v \in Writers : ReadIsCurrent(v)'
    BY <1>2 DEF ReadIsCurrent, Idle
  <1> QED
    BY <1>3, <1>4

\* The counter read by the only task in a call is the next one.
LEMMA TurnReads ==
  ASSUME IInv, InTurn, NEW w \in Writers, ReadSeq(w)
  PROVE  InTurn'
  <1>1. PICK n \in 1 .. Cardinality(Ids) :
          /\ IsNextSeq(n)
          /\ call' = [call EXCEPT ![w] = [op |-> "seq_read",
                                          parent |-> call[w].parent, seq |-> n]]
    BY DEF ReadSeq
  <1> DEFINE c == [op |-> "seq_read", parent |-> call[w].parent, seq |-> n]
  <1>2. /\ call[w].op = "tip_read" /\ w \in Calling
        /\ UNCHANGED <<events, tip, branches, moves>>
    BY DEF ReadSeq, Calling, Idle
  <1>3. /\ call'[w] = c
        /\ \A v \in Writers : v # w => call'[v] = call[v]
    BY <1>1 DEF IInv, TypeOK
  <1>4. Active' = Active /\ Appended' = Appended
    BY <1>2 DEF Active, Appended
  <1>5. c # Idle
    BY DEF Idle
  <1>6. Calling' = Calling
    BY <1>2, <1>3, <1>5 DEF Calling
  <1>7. ASSUME NEW v \in Writers
        PROVE  ReadIsCurrent(v)'
    <2>1. CASE v # w
      <3>1. call'[v] = Idle
        BY <1>2, <1>3, <2>1 DEF InTurn, Calling
      <3> QED
        BY <3>1 DEF ReadIsCurrent, Idle
    <2>2. CASE v = w
      <3>1. IsNextSeq(n)'
        BY <1>1, <1>2, <1>4 DEF IsNextSeq
      <3>2. moves' = 0 => call[w].parent = tip'
        BY <1>2 DEF InTurn, ReadIsCurrent, Calling
      <3> QED
        BY <1>3, <2>2, <3>1, <3>2 DEF ReadIsCurrent
    <2> QED
      BY <2>1, <2>2
  <1>8. SeqIsUnique'
    BY <1>2, <1>4 DEF InTurn, SeqIsUnique
  <1>9. SingleBranchByDefault'
    BY <1>2, <1>4, PathIsPathOf, NextPathIsPathOf
       DEF InTurn, SingleBranchByDefault, ActivePath
  <1> QED
    BY <1>4, <1>6, <1>7, <1>8, <1>9 DEF InTurn

\* The event of the only task in a call: its counter is new, and it is added
\* to the end of the active path.
LEMMA TurnWrites ==
  ASSUME IInv, IInv', [Next]_vars, InTurn,
         NEW w \in Writers, NEW e \in Ids, WriteEvent(w, e)
  PROVE  InTurn'
  <1>1. /\ call[w].op = "seq_read" /\ call[w] # Idle /\ Returns(w)
        /\ tip' = e /\ branches' = branches /\ moves' = moves
        /\ events[e] = None
    BY DEF WriteEvent, Idle
  <1>2. call[w].parent \in Ids \cup {None} /\ call[w].seq \in Nat
    BY <1>1, CallShape DEF IInv
  <1>3. /\ events'[e] = [parent |-> call[w].parent, seq |-> call[w].seq]
        /\ \A d \in Ids : d # e => events'[d] = events[d]
    BY DEF WriteEvent, IInv, TypeOK
  <1>4. Past(events') = Past(events) \cup {e} /\ e \notin Past(events)
    <2>1. events'[e] \in Row
      BY <1>2, <1>3 DEF Row
    <2> QED
      BY <1>1, <1>3, <2>1, StoreAssumption DEF Past
  <1>5. Active' = Active
    BY <1>1 DEF Active
  <1>6. SeqIsUnique'
    <2>1. \A d \in Past(events) : events[d].seq < call[w].seq
      BY <1>1, PathIsPathOf DEF InTurn, ReadIsCurrent, IsNextSeq
    <2>2. \A d \in Past(events) : events[d].seq \in Nat
      BY RowsAreTree, RowFields DEF IInv
    <2>3. \A d \in Past(events) : events'[d].seq # events'[e].seq
      <3>1. \A d \in Past(events) : events'[d] = events[d]
        BY <1>3, <1>4 DEF Past
      <3>2. events'[e].seq = call[w].seq
        BY <1>3
      <3> QED
        BY <1>2, <2>1, <2>2, <3>1, <3>2
    <2>4. \A c, d \in Past(events) : events'[c].seq = events'[d].seq => c = d
      <3>1. \A d \in Past(events) : events'[d] = events[d]
        BY <1>3, <1>4 DEF Past
      <3> QED
        BY <3>1, PathIsPathOf DEF InTurn, SeqIsUnique
    <2> QED
      BY <1>4, <2>3, <2>4, NextPathIsPathOf DEF SeqIsUnique
  <1>7. SingleBranchByDefault'
    <2>1. SUFFICES ASSUME moves = 0
                   PROVE  Elements(PathOf(events', e)) = Past(events) \cup {e}
      BY <1>1, <1>4, NextPathIsPathOf, StoreAssumption
         DEF SingleBranchByDefault, ActivePath
    <2>2. call[w].parent = tip
      BY <1>1, <2>1 DEF InTurn, ReadIsCurrent
    <2>3. PathOf(events', e) = IF tip = None THEN <<e>>
                               ELSE Append(PathOf(events', tip), e)
      BY <1>3, <1>4, <2>2, NextRowsAreTree, PathGrows DEF IInv
    <2>4. CASE tip = None
      <3>1. Past(events) = {}
        BY <2>1, <2>4, PathIsPathOf
           DEF InTurn, SingleBranchByDefault, ActivePath, Elements
      <3> QED
        BY <2>3, <2>4, <3>1 DEF Elements
    <2>5. CASE tip # None
      <3>1. tip \in Past(events)
        BY <2>5, PathIsPathOf DEF IInv, TipIsRow
      <3> DEFINE p == PathOf(events, tip)
      <3>2. PathOf(events', tip) = p
        BY <3>1, PathStays
      <3>3. Elements(p) = Past(events)
        BY <2>1, <2>5, PathIsPathOf DEF InTurn, SingleBranchByDefault, ActivePath
      <3>4. p \in Seq(Past(events))
        BY <3>1, RowsAreTree, WalkEnds DEF IsPath, Chain, IInv
      <3>5. PathOf(events', e) = Append(p, e)
        BY <2>3, <2>5, <3>2
      <3> HIDE DEF p
      <3>6. Elements(Append(p, e)) = Elements(p) \cup {e}
        <4>1. /\ DOMAIN Append(p, e) = DOMAIN p \cup {Len(p) + 1}
              /\ Append(p, e)[Len(p) + 1] = e
              /\ \A i \in DOMAIN p : Append(p, e)[i] = p[i]
          BY <3>4
        <4> QED
          BY <4>1 DEF Elements
      <3> QED
        BY <3>3, <3>5, <3>6
    <2> QED
      BY <2>4, <2>5
  <1> QED
    BY <1>1, <1>5, <1>6, <1>7, TurnEnds DEF InTurn, IInv

\* A branch that was put aside is not active.
LEMMA Deactivated ==
  ASSUME NEW r, NEW base, r = [base |-> base, active |-> FALSE]
  PROVE  ~ r.active
  OBVIOUS

\* The branch of the only task in a call replaces the active one.
LEMMA TurnBranches ==
  ASSUME IInv, InTurn, NEW w \in Writers, NEW b \in BranchIds, WriteBranch(w, b)
  PROVE  InTurn'
  <1>1. /\ call[w].op = "branches_read" /\ call[w] # Idle /\ Returns(w)
        /\ events' = events /\ moves' = moves
    BY DEF WriteBranch, Idle
  <1>2. call[w].base \in Ids
    BY <1>1, CallShape DEF IInv
  <1>3. call[w].active = Active
    BY <1>1 DEF InTurn, ReadIsCurrent
  <1>4. Active' = {b}
    <2>1. /\ branches'[b] = [base |-> call[w].base, active |-> TRUE]
          /\ \A c \in Active : c # b =>
               branches'[c] = [base |-> branches[c].base, active |-> FALSE]
          /\ \A c \in BranchIds \ Active : c # b => branches'[c] = branches[c]
      BY <1>3 DEF WriteBranch, Active
    <2>2. branches'[b] # None /\ branches'[b].active
      <3>1. branches'[b] \in BranchRow
        BY <1>2, <2>1 DEF BranchRow
      <3>2. branches'[b].active = TRUE
        BY <2>1
      <3> QED
        BY <3>1, <3>2, StoreAssumption
    <2>3. ASSUME NEW c \in Active, c # b
          PROVE  ~ branches'[c].active
      <3>1. branches'[c] = [base |-> branches[c].base, active |-> FALSE]
        BY <2>1, <2>3
      <3> QED
        BY <3>1, Deactivated
    <2>4. \A c \in BranchIds \ Active :
            c # b => branches'[c] = None \/ ~ branches'[c].active
      BY <2>1 DEF Active
    <2> QED
      BY <2>2, <2>3, <2>4 DEF Active
  <1>5. SeqIsUnique'
    BY <1>1 DEF InTurn, SeqIsUnique, Appended
  <1>6. SingleBranchByDefault'
    <2>1. moves # 0
      BY <1>1 DEF InTurn, ReadIsCurrent
    <2> QED
      BY <1>1, <2>1 DEF SingleBranchByDefault
  <1> QED
    BY <1>1, <1>4, <1>5, <1>6, TurnEnds DEF InTurn, IInv

\* A rollback is none of the calls in turn: it moves the tip at once.
LEMMA TurnRollsBack ==
  ASSUME IInv, InTurn, NEW w \in Writers, NEW e \in Ids, RollbackToEvent(w, e)
  PROVE  InTurn'
  <1>1. /\ UNCHANGED <<events, branches, call>> /\ moves' # 0
    BY DEF RollbackToEvent, Moves, IInv, TypeOK
  <1>2. Active' = Active /\ Appended' = Appended /\ Calling' = Calling
    BY <1>1 DEF Active, Appended, Calling
  <1>3. \A v \in Writers : ReadIsCurrent(v)'
    BY <1>1, <1>2 DEF InTurn, ReadIsCurrent, IsNextSeq
  <1>4. SeqIsUnique' /\ SingleBranchByDefault'
    BY <1>1, <1>2 DEF InTurn, SeqIsUnique, SingleBranchByDefault
  <1> QED
    BY <1>2, <1>3, <1>4 DEF InTurn

\* A call that fails leaves what the others rely on.
LEMMA TurnFails ==
  ASSUME IInv, InTurn, NEW w \in Writers, Fail(w)
  PROVE  InTurn'
  <1>1. /\ call[w] # Idle /\ Returns(w) /\ UNCHANGED <<events, tip, branches, moves>>
    BY DEF Fail
  <1>2. Active' = Active /\ Appended' = Appended
    BY <1>1 DEF Active, Appended
  <1>3. SeqIsUnique'
    BY <1>1, <1>2 DEF InTurn, SeqIsUnique
  <1>4. SingleBranchByDefault'
    BY <1>1, <1>2, PathIsPathOf, NextPathIsPathOf
       DEF InTurn, SingleBranchByDefault, ActivePath
  <1> QED
    BY <1>1, <1>2, <1>3, <1>4, TurnEnds DEF InTurn, IInv

\* Every step preserves the invariant of calls that do not overlap.
LEMMA TurnStep ==
  ASSUME TurnInv, IInv', [MemoryNext]_allVars
  PROVE  TurnInv'
  <1>1. IsFiniteSet(Calling')
    BY CallingFinite DEF TurnInv, IInv
  <1>2. CASE UNCHANGED allVars
    <2>1. /\ UNCHANGED <<events, tip, branches, call, moves, overlapped>>
      BY <1>2 DEF allVars
    <2>2. Active' = Active /\ Appended' = Appended /\ Calling' = Calling
      BY <2>1 DEF Active, Appended, Calling
    <2>3. InTurn => SeqIsUnique' /\ SingleBranchByDefault'
      BY <2>1, <2>2, PathIsPathOf, NextPathIsPathOf
         DEF InTurn, SeqIsUnique, SingleBranchByDefault, ActivePath
    <2>4. InTurn => \A v \in Writers : ReadIsCurrent(v)'
      BY <2>1, <2>2 DEF InTurn, ReadIsCurrent, IsNextSeq
    <2>5. InTurn => InTurn'
      BY <2>2, <2>3, <2>4 DEF InTurn
    <2> QED
      BY <1>1, <2>1, <2>5 DEF TurnInv
  <1>3. CASE MemoryNext
    <2>1. SUFFICES ASSUME ~ overlapped'
                   PROVE  InTurn'
      BY <1>1 DEF TurnInv
    <2>2. ~ overlapped /\ ~ (Cardinality(Calling') > 1)
      BY <1>3, <2>1 DEF MemoryNext, NoteOverlap
    <2>3. InTurn /\ IInv /\ TypeOK
      BY <2>2 DEF TurnInv, IInv
    <2>4. \A u, v \in Calling' : u = v
      BY <1>1, <2>2, AtMostOne
    <2>5. PICK w \in Writers : \/ BeginCompact(w) \/ \E e \in Ids : WriteRow(w, e)
                               \/ GiveUp(w) \/ OtherCall(w)
      BY <1>3 DEF MemoryNext
    <2>6. ASSUME BeginAppend(w)
          PROVE  InTurn'
      <3> DEFINE c == [op |-> "tip_read", parent |-> tip]
      <3>1. c \in Call /\ Begins(w, c) /\ UNCHANGED <<events, tip, branches, moves>>
        BY <2>3, <2>6 DEF BeginAppend, TypeOK, Call
      <3>2. c # Idle /\ c.op = "tip_read" /\ c.parent = tip
        BY DEF Idle
      <3> HIDE DEF c
      <3> QED
        BY <2>3, <2>4, <3>1, <3>2, TurnBegins
    <2>7. ASSUME NEW e \in Ids, BeginAppendAt(w, e)
          PROVE  InTurn'
      <3> DEFINE c == [op |-> "tip_read", parent |-> e]
      <3>1. c \in Call /\ Begins(w, c) /\ UNCHANGED <<events, tip, branches>>
        BY <2>7 DEF BeginAppendAt, Call
      <3>2. c # Idle /\ c.op = "tip_read"
        BY DEF Idle
      <3>3. moves' # 0
        BY <2>3, <2>7 DEF BeginAppendAt, Moves, TypeOK
      <3> HIDE DEF c
      <3> QED
        BY <2>3, <2>4, <3>1, <3>2, <3>3, TurnBegins
    <2>8. ASSUME NEW e \in Ids, BeginBranch(w, e)
          PROVE  InTurn'
      <3> DEFINE c == [op |-> "branches_read", base |-> e, active |-> Active]
      <3>1. c \in Call /\ Begins(w, c) /\ UNCHANGED <<events, tip, branches>>
        BY <2>8 DEF BeginBranch, Call, Active
      <3>2. c # Idle /\ c.op = "branches_read" /\ c.active = Active
        BY DEF Idle
      <3>3. moves' # 0
        BY <2>3, <2>8 DEF BeginBranch, Moves, TypeOK
      <3> HIDE DEF c
      <3> QED
        BY <2>3, <2>4, <3>1, <3>2, <3>3, TurnBegins
    <2>9. BeginCompact(w) => BeginAppend(w)
      BY DEF BeginCompact, BeginAppend
    <2>10. ASSUME NEW e \in Ids, WriteRow(w, e)
           PROVE  InTurn'
      <3>1. [Next]_vars
        BY MemoryStep
      <3>2. WriteEvent(w, e)
        BY <2>10 DEF WriteRow
      <3> QED
        BY <2>3, <3>1, <3>2, TurnWrites
    <2>11. GiveUp(w) => InTurn'
      BY <2>3, TurnFails DEF GiveUp
    <2>12. OtherCall(w) => InTurn'
      BY <2>3, <2>6, <2>7, <2>8, TurnReads, TurnRollsBack, TurnBranches DEF OtherCall
    <2> QED
      BY <2>5, <2>6, <2>9, <2>10, <2>11, <2>12
  <1> QED
    BY <1>2, <1>3

\* As long as no two calls overlapped, what a call has read is what the store
\* holds.
THEOREM TurnInvCorrect == MemorySpec => []TurnInv
  <1>1. MemoryInit /\ IInv => TurnInv
    <2> SUFFICES ASSUME MemoryInit, IInv
                 PROVE  TurnInv
      OBVIOUS
    <2>1. /\ Calling = {} /\ Appended = {} /\ Active = {} /\ tip = None
          /\ \A w \in Writers : call[w] = Idle
      BY DEF MemoryInit, Init, Calling, Appended, Active
    <2>2. SeqIsUnique /\ SingleBranchByDefault
      BY <2>1 DEF SeqIsUnique, SingleBranchByDefault, ActivePath, Elements
    <2>3. \A w \in Writers : ReadIsCurrent(w)
      BY <2>1 DEF ReadIsCurrent, Idle
    <2> QED
      BY <2>1, <2>2, <2>3, FS_EmptySet DEF TurnInv, InTurn
  <1>2. TurnInv /\ IInv' /\ [MemoryNext]_allVars => TurnInv'
    BY TurnStep
  <1> QED
    BY <1>1, <1>2, MemoryImplementsStore, IInvCorrect, PTL DEF MemorySpec

(***************************************************************************)
(* As long as no two calls have been under way at once, _next_seq gives no *)
(* number twice: only concurrent appends can break the counter.            *)
(***************************************************************************)
THEOREM SeqIsUniqueInTurnCorrect == MemorySpec => []SeqIsUniqueInTurn
  <1>1. TurnInv => SeqIsUniqueInTurn
    BY DEF TurnInv, InTurn, SeqIsUniqueInTurn
  <1> QED
    BY <1>1, TurnInvCorrect, PTL

(***************************************************************************)
(* As long as no two calls have been under way at once and nobody has      *)
(* moved the tip, the active path holds every event of the session.        *)
(***************************************************************************)
THEOREM SingleBranchInTurnCorrect == MemorySpec => []SingleBranchInTurn
  <1>1. TurnInv => SingleBranchInTurn
    BY DEF TurnInv, InTurn, SingleBranchInTurn
  <1> QED
    BY <1>1, TurnInvCorrect, PTL

(***************************************************************************)
(* As long as no two calls have been under way at once, create_branch      *)
(* leaves one active branch.                                               *)
(***************************************************************************)
THEOREM OneActiveBranchInTurnCorrect == MemorySpec => []OneActiveBranchInTurn
  <1>1. TurnInv => OneActiveBranchInTurn
    <2>1. InTurn => Cardinality(Active) \in {0, 1}
      BY FS_EmptySet, FS_Singleton DEF InTurn
    <2> QED
      BY <2>1 DEF TurnInv, OneActiveBranchInTurn, OneActiveBranch
  <1> QED
    BY <1>1, TurnInvCorrect, PTL

-----------------------------------------------------------------------------
\* The greatest of a bounded set belongs to it and bounds it.
LEMMA GreatestIsBound ==
  ASSUME NEW n \in Nat, NEW S, S \subseteq 0 .. n, S # {}
  PROVE  Greatest(S) \in S /\ \A m \in S : m <= Greatest(S)
  <1> DEFINE T == { n - m : m \in S }
  <1>1. T \subseteq Nat /\ T # {}
    <2>1. \A m \in S : n - m \in Nat
      OBVIOUS
    <2>2. PICK m \in S : TRUE
      OBVIOUS
    <2>3. n - m \in T
      OBVIOUS
    <2> QED
      BY <2>1, <2>3
  <1>2. PICK t \in T : \A u \in T : t <= u
    <2> HIDE DEF T
    <2> QED
      BY <1>1, LeastNat
  <1>3. PICK k \in S : t = n - k
    BY <1>2
  <1>4. \A m \in S : m <= k
    <2>1. SUFFICES ASSUME NEW m \in S
                   PROVE  m <= k
      OBVIOUS
    <2>2. n - k <= n - m
      BY <1>2, <1>3
    <2>3. m \in Nat /\ k \in Nat
      OBVIOUS
    <2> QED
      BY <2>2, <2>3
  <1> QED
    BY <1>4 DEF Greatest

\* A larger set has no smaller greatest member.
LEMMA GreatestGrows ==
  ASSUME NEW n \in Nat, NEW S, NEW T, S \subseteq T, T \subseteq 0 .. n, S # {}
  PROVE  Greatest(S) <= Greatest(T)
  BY GreatestIsBound

\* A longer list that starts the same way.
Continues(q, p) ==
  /\ Len(p) \in Nat /\ Len(q) \in Nat /\ 0 < Len(p) /\ Len(p) <= Len(q)
  /\ DOMAIN p = 1 .. Len(p) /\ DOMAIN q = 1 .. Len(q)
  /\ \A i \in 1 .. Len(p) : q[i] = p[i]

\* A longer path has the places of the shorter one.
LEMMA SamePlaces ==
  ASSUME NEW p, NEW q, Continues(q, p)
  PROVE  /\ Len(p) \in Nat /\ DOMAIN p = 1 .. Len(p) /\ DOMAIN q \subseteq Nat
         /\ \A i \in DOMAIN p : i \in DOMAIN q /\ q[i] = p[i]
         /\ \A i \in DOMAIN q : i <= Len(p) => i \in DOMAIN p
  BY DEF Continues

First(S) == CHOOSE i \in S : \A j \in S : i <= j

\* The first is the least.
LEMMA FirstIsLeast ==
  ASSUME NEW S, S \subseteq Nat, NEW i \in S, \A j \in S : i <= j
  PROVE  First(S) = i
  <1>1. First(S) \in S /\ \A j \in S : First(S) <= j
    BY DEF First
  <1>2. First(S) <= i /\ i <= First(S) /\ First(S) \in Nat /\ i \in Nat
    BY <1>1
  <1> QED
    BY <1>2

\* Places further on do not change which is the first.
LEMMA FirstStays ==
  ASSUME NEW k \in Nat, NEW P, P \subseteq 1 .. k, P # {},
         NEW Q, Q \subseteq Nat, \A j \in Q : j <= k => j \in P, P \subseteq Q
  PROVE  First(P) \in P /\ First(Q) = First(P)
  <1>1. P \subseteq Nat
    OBVIOUS
  <1>2. PICK i \in P : \A j \in P : i <= j
    BY <1>1, LeastNat
  <1>3. \A j \in Q : i <= j
    <2>1. SUFFICES ASSUME NEW j \in Q
                   PROVE  i <= j
      OBVIOUS
    <2>2. i \in 1 .. k /\ j \in Nat
      OBVIOUS
    <2>3. CASE j <= k
      BY <1>2, <2>3
    <2>4. CASE ~ (j <= k)
      BY <2>2, <2>4
    <2> QED
      BY <2>3, <2>4
  <1> QED
    BY <1>1, <1>2, <1>3, FirstIsLeast

\* The first message that says what it wants stays the first.
LEMMA GoalStays ==
  ASSUME NEW p, NEW q, NEW content, Continues(q, p), GoalOf(content, p) # ""
  PROVE  GoalOf(content, q) = GoalOf(content, p)
  <1> DEFINE P == { i \in DOMAIN p : content[p[i]].goal # "" }
             Q == { i \in DOMAIN q : content[q[i]].goal # "" }
  <1>1. P # {}
    BY DEF GoalOf
  <1>2. /\ Len(p) \in Nat /\ P \subseteq 1 .. Len(p) /\ Q \subseteq Nat
        /\ P \subseteq Q /\ \A j \in Q : j <= Len(p) => j \in P
    <2>1. /\ Len(p) \in Nat /\ DOMAIN p = 1 .. Len(p) /\ DOMAIN q \subseteq Nat
          /\ \A i \in DOMAIN p : i \in DOMAIN q /\ q[i] = p[i]
          /\ \A i \in DOMAIN q : i <= Len(p) => i \in DOMAIN p
      BY SamePlaces
    <2>2. P \subseteq DOMAIN p /\ Q \subseteq DOMAIN q
      OBVIOUS
    <2>3. P \subseteq Q
      BY <2>1
    <2>4. ASSUME NEW j \in Q, j <= Len(p)
          PROVE  j \in P
      BY <2>1, <2>4
    <2> HIDE DEF P, Q
    <2> QED
      BY <2>1, <2>2, <2>3, <2>4
  <1>3. First(P) \in P /\ First(Q) = First(P)
    <2> HIDE DEF P, Q
    <2> QED
      BY <1>1, <1>2, FirstStays
  <1>4. q[First(P)] = p[First(P)]
    <2>1. First(P) \in 1 .. Len(p)
      BY <1>2, <1>3
    <2> QED
      BY <2>1 DEF Continues
  <1>5. GoalOf(content, p) = content[p[First(P)]].goal
    BY <1>1 DEF GoalOf, First
  <1>6. GoalOf(content, q) = content[q[First(Q)]].goal
    <2>1. Q # {}
      BY <1>1, <1>2
    <2> QED
      BY <2>1 DEF GoalOf, First
  <1> QED
    BY <1>3, <1>4, <1>5, <1>6

\* The window of a compaction on the way to another is the start of its window.
LEMMA WindowsContinue ==
  ASSUME MemoryIInv, NEW a \in Compactions, NEW b \in Compactions, a # b,
         a \in Elements(EventPath(b))
  PROVE  /\ Continues(window[b], window[a])
         /\ window[b] \in Seq(Appended)
  <1> DEFINE p == window[a]
             q == window[b]
  <1>1. Tree(events) /\ Appended = Past(events)
    BY RowsAreTree, PathIsPathOf DEF MemoryIInv, IInv
  <1>2. ASSUME NEW c \in Compactions
        PROVE  /\ c \in Past(events)
               /\ window[c] \in Seq(Past(events)) /\ Len(window[c]) > 0
               /\ IsPath(events, window[c], events[c].parent)
               /\ PathOf(events, c) = Append(window[c], c)
    <2>1. c \in Past(events)
      BY <1>1 DEF Compactions
    <2>2. /\ events[c].parent # None
          /\ window[c] = PathOf(events, events[c].parent)
      BY PathIsPathOf DEF MemoryIInv, CompactionCoversPath
    <2>3. events[c].parent \in Past(events)
      BY <1>1, <2>1, <2>2 DEF Tree
    <2>4. IsPath(events, window[c], events[c].parent)
      BY <1>1, <2>2, <2>3, WalkEnds
    <2>5. PathOf(events, c) = Append(window[c], c)
      BY <1>1, <2>1, <2>2, PathGrows
    <2> QED
      BY <2>1, <2>4, <2>5 DEF IsPath, Chain
  <1>3. /\ p \in Seq(Past(events)) /\ Len(p) > 0 /\ Len(p) \in Nat
        /\ q \in Seq(Past(events)) /\ Len(q) > 0 /\ Len(q) \in Nat
        /\ IsPath(events, q, events[b].parent)
    BY <1>2
  <1>4. IsPath(events, Append(p, a), a)
    BY <1>1, <1>2, WalkEnds
  <1>5. a \in Elements(Append(q, b))
    BY <1>2, PathIsPathOf
  <1> HIDE DEF p, q
  <1>6. PICK n \in 1 .. Len(q) : q[n] = a
    BY <1>3, <1>5 DEF Elements
  <1>7. SubSeq(q, 1, n) = Append(p, a)
    BY <1>3, <1>4, <1>6, PathPrefix, PathUnique
  <1>8. n = Len(p) + 1 /\ \A i \in 1 .. Len(p) : q[i] = p[i]
    <2>1. Len(SubSeq(q, 1, n)) = n /\ \A i \in 1 .. n : SubSeq(q, 1, n)[i] = q[i]
      BY <1>3
    <2>2. /\ Len(Append(p, a)) = Len(p) + 1
          /\ \A i \in 1 .. Len(p) : Append(p, a)[i] = p[i]
      BY <1>3
    <2> DEFINE s == SubSeq(q, 1, n)
               r == Append(p, a)
    <2>3. /\ s = r /\ Len(s) = n /\ Len(r) = Len(p) + 1
          /\ \A i \in 1 .. n : s[i] = q[i]
          /\ \A i \in 1 .. Len(p) : r[i] = p[i]
      BY <1>7, <2>1, <2>2
    <2> HIDE DEF s, r
    <2>4. n = Len(p) + 1
      BY <2>3
    <2>5. \A i \in 1 .. Len(p) : i \in 1 .. n
      BY <1>3, <2>4
    <2> QED
      BY <2>3, <2>4, <2>5
  <1>9. Continues(q, p)
    BY <1>3, <1>6, <1>8 DEF Continues
  <1> QED
    BY <1>1, <1>3, <1>9 DEF p, q

(***************************************************************************)
(* Along any path, however the session was appended to, rolled back and    *)
(* branched, a later compaction names the goal an earlier one named, does  *)
(* not lose an approval or open a decided one again, and reports no lower  *)
(* risk.                                                                   *)
(***************************************************************************)
THEOREM SummariesNeverWeakenCorrect == MemorySpec => []SummariesNeverWeaken
  <1>1. MemoryIInv => SummariesNeverWeaken
    <2> SUFFICES ASSUME MemoryIInv, NEW a \in Compactions, NEW b \in Compactions,
                        a # b, a \in Elements(EventPath(b)),
                        NEW content \in [Appended -> Content]
                 PROVE  LET x == Summary(content, window[a])
                            y == Summary(content, window[b])
                        IN  /\ x.goal # "" => y.goal = x.goal
                            /\ x.approval # Rank["none"] => y.approval # Rank["none"]
                            /\ x.approval \in Decided => y.approval \in Decided
                            /\ x.risk <= y.risk
      BY DEF SummariesNeverWeaken
    <2> DEFINE p == window[a]
               q == window[b]
    <2>1. Continues(q, p) /\ q \in Seq(Appended)
      BY WindowsContinue
    <2> HIDE DEF p, q
    <2>2. ASSUME NEW i \in DOMAIN q
          PROVE  content[q[i]].approval \in 0 .. 3 /\ content[q[i]].risk \in 0 .. 5
      <3>1. q[i] \in Appended
        BY <2>1
      <3> QED
        BY <3>1, ContentAssumption
    <2>3. DOMAIN p \subseteq DOMAIN q /\ DOMAIN p # {} /\ \A i \in DOMAIN p : q[i] = p[i]
      BY <2>1 DEF Continues
    <2>4. /\ StatusOf(content, p) <= StatusOf(content, q)
          /\ StatusOf(content, p) \in 0 .. 3 /\ StatusOf(content, q) \in 0 .. 3
      <3> DEFINE P == { content[p[i]].approval : i \in DOMAIN p }
                 Q == { content[q[i]].approval : i \in DOMAIN q }
      <3>1. P \subseteq Q /\ Q \subseteq 0 .. 3 /\ P # {}
        BY <2>2, <2>3
      <3> HIDE DEF P, Q
      <3>2. Greatest(P) <= Greatest(Q) /\ Greatest(P) \in 0 .. 3 /\ Greatest(Q) \in 0 .. 3
        BY <3>1, GreatestGrows, GreatestIsBound
      <3> QED
        BY <3>2 DEF StatusOf, P, Q
    <2>5. RiskOf(content, p) <= RiskOf(content, q)
      <3> DEFINE P == { content[p[i]].risk : i \in DOMAIN p }
                 Q == { content[q[i]].risk : i \in DOMAIN q }
      <3>1. P \subseteq Q /\ Q \subseteq 0 .. 5 /\ P # {}
        BY <2>2, <2>3
      <3> HIDE DEF P, Q
      <3>2. Greatest(P) <= Greatest(Q)
        BY <3>1, GreatestGrows
      <3> QED
        BY <3>2 DEF RiskOf, P, Q
    <2>6. GoalOf(content, p) # "" => GoalOf(content, q) = GoalOf(content, p)
      BY <2>1, GoalStays
    <2>7. /\ StatusOf(content, p) # Rank["none"] => StatusOf(content, q) # Rank["none"]
          /\ StatusOf(content, p) \in Decided => StatusOf(content, q) \in Decided
      BY <2>4 DEF Rank, Decided
    <2> QED
      BY <2>5, <2>6, <2>7 DEF Summary, p, q
  <1> QED
    BY <1>1, MemoryIInvCorrect, PTL
=============================================================================
