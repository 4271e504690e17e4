---------------------------- MODULE SessionStore ----------------------------
(***************************************************************************)
(* The append-only event store of one session (fiat_agent/sessions): the   *)
(* rows of task_session_events, the tip of the active branch, and the      *)
(* session's branches.                                                     *)
(*                                                                         *)
(* Every call runs in a database session of its own.  With the SQLite      *)
(* driver a SELECT outside a transaction sees what is committed at that    *)
(* moment, the first INSERT or UPDATE opens the transaction and takes the  *)
(* write lock, and the lock is held until the commit: so each read is an   *)
(* action, and the writes of a call together with its commit are one.      *)
(* Every query is scoped by the session's id; another session would be a   *)
(* second copy of this module.                                             *)
(***************************************************************************)
EXTENDS Naturals, Sequences, FiniteSets, Lists

CONSTANTS
  Ids,           \* the uuid4 identifiers of events
  BranchIds,     \* and those of branches
  Writers,       \* tasks that call the store
  MaxWriters,    \* bound: how many of them may be inside a call at once
  MaxMoves,      \* bound: how often the tip may be moved by hand
  None

\* The columns that matter of task_session_events and session_branches.
Row       == [parent : Ids \cup {None}, seq : Nat]
BranchRow == [base : Ids, active : BOOLEAN]

ASSUME StoreAssumption ==
  /\ None \notin Ids
  /\ None \notin Row
  /\ None \notin BranchRow
  /\ IsFiniteSet(Ids)
  /\ MaxWriters \in Nat /\ MaxMoves \in Nat

VARIABLES
  events,        \* events[e]: the row of event e, None when there is none
  tip,           \* task_sessions.active_event_id
  branches,      \* branches[b]: the row of branch b
  call,          \* call[w]: what the call of w has read so far
  moves          \* history: how often the tip was moved by hand

vars == <<events, tip, branches, call, moves>>

Appended == { e \in Ids : events[e] # None }
Active   == { b \in BranchIds : branches[b] # None /\ branches[b].active }

Idle == [op |-> "idle"]

Calling == { w \in Writers : call[w] # Idle }

\* A task enters the store.
Begins(w, c) ==
  /\ call[w] = Idle
  /\ Cardinality(Calling) < MaxWriters
  /\ call' = [call EXCEPT ![w] = c]

Returns(w) == call' = [call EXCEPT ![w] = Idle]

Moves == moves < MaxMoves /\ moves' = moves + 1
-----------------------------------------------------------------------------
\* Mutant: an omitted parent is taken for "no parent".
BeginAppendRoot(w) ==
  /\ Begins(w, [op |-> "tip_read", parent |-> None])
  /\ UNCHANGED <<events, tip, branches, moves>>

\* append_event without a parent: the session row is read, its tip is the
\* parent.
BeginAppend(w) ==
  /\ Begins(w, [op |-> "tip_read", parent |-> tip])
  /\ UNCHANGED <<events, tip, branches, moves>>

\* append_event with a parent given by the caller.
BeginAppendAt(w, e) ==
  /\ e \in Appended
  /\ Moves
  /\ Begins(w, [op |-> "tip_read", parent |-> e])
  /\ UNCHANGED <<events, tip, branches>>

\* Mutant: the increment is missing.
IsLastSeq(n) ==
  /\ \A e \in Appended : events[e].seq <= n
  /\ n = 1 \/ \E e \in Appended : events[e].seq = n

\* _next_seq: coalesce(max(seq), 0) + 1 over the committed events.
IsNextSeq(n) ==
  /\ \A e \in Appended : events[e].seq < n
  /\ n = 1 \/ \E e \in Appended : events[e].seq + 1 = n

ReadSeq(w) ==
  /\ call[w].op = "tip_read"
  /\ \E n \in 1 .. Cardinality(Ids) :
       /\ IsNextSeq(n)
       /\ call' = [call EXCEPT ![w] =
                     [op |-> "seq_read", parent |-> call[w].parent, seq |-> n]]
  /\ UNCHANGED <<events, tip, branches, moves>>

\* Mutant: the tip is read when the row is inserted, after the counter.
WriteEventAtTip(w, e) ==
  /\ call[w].op = "seq_read"
  /\ events[e] = None
  /\ events' = [events EXCEPT ![e] = [parent |-> tip, seq |-> call[w].seq]]
  /\ tip' = e
  /\ Returns(w)
  /\ UNCHANGED <<branches, moves>>

\* The row is inserted under a fresh id and becomes the tip; commit.
WriteEvent(w, e) ==
  /\ call[w].op = "seq_read"
  /\ events[e] = None
  /\ events' = [events EXCEPT ![e] = [parent |-> call[w].parent,
                                      seq    |-> call[w].seq]]
  /\ tip' = e
  /\ Returns(w)
  /\ UNCHANGED <<branches, moves>>

\* Mutants: what comes after the target is deleted; the row is stored where
\* its id belongs.
RollbackDeletes(w, e) ==
  /\ call[w] = Idle
  /\ e \in Appended
  /\ Moves
  /\ tip' = e
  /\ events' = [d \in Ids |-> IF d \in Appended /\ events[d].seq > events[e].seq
                              THEN None ELSE events[d]]
  /\ UNCHANGED <<branches, call>>

RollbackToRow(w, e) ==
  /\ call[w] = Idle
  /\ e \in Appended
  /\ Moves
  /\ tip' = events[e]
  /\ UNCHANGED <<events, branches, call>>

\* rollback_to_event: an existing event becomes the tip.  The update is
\* skipped when the tip read was that event already; a call that slips in
\* between then counts as later.
RollbackToEvent(w, e) ==
  /\ call[w] = Idle
  /\ e \in Appended
  /\ Moves
  /\ tip' = e
  /\ UNCHANGED <<events, branches, call>>

\* create_branch: the active branches are read ...
BeginBranch(w, e) ==
  /\ e \in Appended
  /\ Moves
  /\ Begins(w, [op |-> "branches_read", base |-> e, active |-> Active])
  /\ UNCHANGED <<events, tip, branches>>

\* Mutant: nothing is deactivated.
WriteBranchBeside(w, b) ==
  /\ call[w].op = "branches_read"
  /\ branches[b] = None
  /\ branches' = [branches EXCEPT ![b] = [base |-> call[w].base, active |-> TRUE]]
  /\ tip' = call[w].base
  /\ Returns(w)
  /\ UNCHANGED <<events, moves>>

\* ... and those that were read are deactivated when the new one is inserted.
WriteBranch(w, b) ==
  /\ call[w].op = "branches_read"
  /\ branches[b] = None
  /\ branches' =
       [ c \in BranchIds |->
           IF c = b THEN [base |-> call[w].base, active |-> TRUE]
           ELSE IF c \in call[w].active
                THEN [base |-> branches[c].base, active |-> FALSE]
                ELSE branches[c] ]
  /\ tip' = call[w].base
  /\ Returns(w)
  /\ UNCHANGED <<events, moves>>

\* The call raises (the lock is not had in time, the client went away, the
\* process stops): session_scope rolls back, nothing was written.
Fail(w) ==
  /\ call[w] # Idle
  /\ Returns(w)
  /\ UNCHANGED <<events, tip, branches, moves>>

-----------------------------------------------------------------------------
Init ==
  /\ events = [e \in Ids |-> None]
  /\ tip = None
  /\ branches = [b \in BranchIds |-> None]
  /\ call = [w \in Writers |-> Idle]
  /\ moves = 0

Next ==
  \E w \in Writers :
    \/ BeginAppend(w) \/ ReadSeq(w) \/ Fail(w)
    \/ \E e \in Ids :
         \/ BeginAppendAt(w, e) \/ WriteEvent(w, e)
         \/ RollbackToEvent(w, e) \/ BeginBranch(w, e)
    \/ \E b \in BranchIds : WriteBranch(w, b)

Spec == Init /\ [][Next]_vars
-----------------------------------------------------------------------------
(***************************************************************************)
(* get_event_path, root first: the walk over the parents takes at most one *)
(* step more than there are events (its cycle guard) and stops at a root.  *)
(***************************************************************************)
EventPath(e) ==
  LET walk[n \in 0 .. Cardinality(Ids)] ==
        IF n = 0 THEN <<e>>
        ELSE LET p == walk[n - 1]  parent == events[p[1]].parent
             IN  IF parent = None \/ events[parent] = None THEN p
                 ELSE <<parent>> \o p
  IN  walk[Cardinality(Appended)]

\* get_active_path
ActivePath == IF tip = None THEN << >> ELSE EventPath(tip)

Call ==
  {Idle} \cup [op : {"tip_read"}, parent : Ids \cup {None}]
         \cup [op : {"seq_read"}, parent : Ids \cup {None}, seq : Nat]
         \cup [op : {"branches_read"}, base : Ids, active : SUBSET BranchIds]

TypeOK ==
  /\ events \in [Ids -> Row \cup {None}]
  /\ tip \in Ids \cup {None}
  /\ branches \in [BranchIds -> BranchRow \cup {None}]
  /\ call \in [Writers -> Call]
  /\ moves \in 0 .. MaxMoves

(***************************************************************************)
(* An event comes after its parent in the listing by seq, with any number  *)
(* of writers: the tip is read before the counter.  So the path to an      *)
(* event and the listing never contradict each other, and no walk over     *)
(* parents can cycle.  (append_event, _next_seq)                           *)
(***************************************************************************)
ParentsComeFirst ==
  \A e \in Appended :
    LET p == events[e].parent
    IN  p # None => p \in Appended /\ events[p].seq < events[e].seq

(***************************************************************************)
(* Replaying the path to an event always gives what it gave before, however *)
(* the tip moves and whoever appends.  (history is immutable; rollback and *)
(* branches delete nothing)                                                *)
(***************************************************************************)
PathsAreStable ==
  [][\A e \in Appended : events'[e] # None /\ EventPath(e)' = EventPath(e)]_vars

(***************************************************************************)
(* The counter tells the events of a session apart, so the listing has one *)
(* order.  ("Monotonic per-session counter for stable ordering")           *)
(***************************************************************************)
SeqIsUnique ==
  \A d, e \in Appended : events[d].seq = events[e].seq => d = e

(***************************************************************************)
(* Until somebody moves the tip, the active path holds every event.        *)
(* ("successive appends form a single continuous branch by default")       *)
(***************************************************************************)
SingleBranchByDefault == moves = 0 => Elements(ActivePath) = Appended

(***************************************************************************)
(* A session has at most one active branch.  (create_branch: "so           *)
(* get_active_branch is well-defined")                                     *)
(***************************************************************************)
OneActiveBranch == Cardinality(Active) <= 1
=============================================================================
