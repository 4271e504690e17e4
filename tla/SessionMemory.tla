--------------------------- MODULE SessionMemory ----------------------------
(***************************************************************************)
(* What is derived from a session's events (fiat_agent/context,            *)
(* sessions/jsonl_exporter.py) on top of the store: a compaction reads the *)
(* active path, condenses it into a summary and appends that as one more   *)
(* event after the last one it read.  The events it read stay.             *)
(*                                                                         *)
(* An event's content never changes, so contents are a function of the     *)
(* identifiers; properties quantify over it.                               *)
(***************************************************************************)
EXTENDS SessionStore

\* What of a row's JSON the summary looks at: the goal of a user message, the
\* decision of an approval event by its rank, the risk level; "" or 0 for none.
CONSTANT Content

ASSUME ContentAssumption ==
  Content \subseteq [goal : STRING, approval : 0 .. 3, risk : 0 .. 5]

VARIABLES
  window,        \* window[e]: the original_event_ids of a compaction event e
  reading,       \* reading[w]: the path the compaction of w has read
  overlapped     \* history: two calls have been under way at once

memoryVars == <<window, reading, overlapped>>
allVars    == <<events, tip, branches, call, moves, window, reading, overlapped>>

Compactions == { e \in Appended : window[e] # None }

Rank == [none |-> 0, pending |-> 1, approved |-> 2, rejected |-> 3]

-----------------------------------------------------------------------------
Greatest(S) == CHOOSE n \in S : \A m \in S : m <= n

\* Mutant: the last decision wins.
StatusOfLast(content, path) ==
  LET decided == { i \in DOMAIN path : content[path[i]].approval # Rank["none"] }
  IN  IF decided = {} THEN Rank["none"]
      ELSE content[path[Greatest(decided)]].approval

\* A decision replaces one of a lower rank.
StatusOf(content, path) ==
  Greatest({ content[path[i]].approval : i \in DOMAIN path })

RiskOf(content, path) ==
  Greatest({ content[path[i]].risk : i \in DOMAIN path })

\* The first user message that says what it wants.
GoalOf(content, path) ==
  LET said == { i \in DOMAIN path : content[path[i]].goal # "" }
  IN  IF said = {} THEN ""
      ELSE content[path[CHOOSE i \in said : \A j \in said : i <= j]].goal

\* compact_events
Summary(content, path) ==
  [ goal     |-> GoalOf(content, path),
    approval |-> StatusOf(content, path),
    risk     |-> RiskOf(content, path) ]

-----------------------------------------------------------------------------
\* Mutant: the listing of the session is condensed instead of the active path.
BeginCompactListing(w) ==
  /\ tip # None
  /\ Begins(w, [op |-> "tip_read", parent |-> tip])
  /\ \E listing \in [1 .. Cardinality(Appended) -> Appended] :
       /\ Elements(listing) = Appended
       /\ \A i, j \in DOMAIN listing :
            i < j => events[listing[i]].seq <= events[listing[j]].seq
       /\ reading' = [reading EXCEPT ![w] = listing]
  /\ UNCHANGED <<events, tip, branches, moves, window>>

\* The active path is read and summarized; the compaction event is appended
\* after the last event of the window.
BeginCompact(w) ==
  /\ tip # None
  /\ Begins(w, [op |-> "tip_read", parent |-> tip])
  /\ reading' = [reading EXCEPT ![w] = ActivePath]
  /\ UNCHANGED <<events, tip, branches, moves, window>>

\* Any event is written by the same path through the store.
WriteRow(w, e) ==
  /\ WriteEvent(w, e)
  /\ window' = [window EXCEPT ![e] = reading[w]]
  /\ reading' = [reading EXCEPT ![w] = None]

GiveUp(w) ==
  /\ Fail(w)
  /\ reading' = [reading EXCEPT ![w] = None]
  /\ UNCHANGED window

\* The calls that neither write an event nor end without a trace.
OtherCall(w) ==
  /\ \/ BeginAppend(w) \/ ReadSeq(w)
     \/ \E e \in Ids :
          BeginAppendAt(w, e) \/ RollbackToEvent(w, e) \/ BeginBranch(w, e)
     \/ \E b \in BranchIds : WriteBranch(w, b)
  /\ UNCHANGED <<window, reading>>

NoteOverlap == overlapped' = (overlapped \/ Cardinality(Calling') > 1)

MemoryInit ==
  /\ Init
  /\ window = [e \in Ids |-> None]
  /\ reading = [w \in Writers |-> None]
  /\ overlapped = FALSE

MemoryNext ==
  /\ \E w \in Writers :
       \/ BeginCompact(w)
       \/ \E e \in Ids : WriteRow(w, e)
       \/ GiveUp(w)
       \/ OtherCall(w)
  /\ NoteOverlap

MemorySpec == MemoryInit /\ [][MemoryNext]_allVars
-----------------------------------------------------------------------------
(***************************************************************************)
(* A compaction event condenses exactly the path that leads to it, whoever *)
(* appends, rolls back or branches between the reading and the append: no  *)
(* event before it is left out of the summary, and none of another branch  *)
(* is in it.  (original_event_ids; append_compaction_event with the last   *)
(* event of the window as parent)                                          *)
(***************************************************************************)
CompactionCoversPath ==
  \A e \in Compactions :
    events[e].parent # None /\ window[e] = EventPath(events[e].parent)

(***************************************************************************)
(* Along a path the summaries never weaken: a later one names the goal an  *)
(* earlier one named, does not lose an approval it reported, does not show *)
(* a decided one as open again, and reports no lower risk.  Which of two   *)
(* decisions a summary shows, the code (a rejection) and its docstring (an *)
(* approval) answer differently, and nothing is said of it here.           *)
(* (compact_events: the rank of decisions, "highest RiskLevel seen", the   *)
(* first user message)                                                     *)
(***************************************************************************)
Decided == {Rank["approved"], Rank["rejected"]}

SummariesNeverWeaken ==
  \A a, b \in Compactions :
    a # b /\ a \in Elements(EventPath(b)) =>
      \A content \in [Appended -> Content] :
        LET x == Summary(content, window[a])
            y == Summary(content, window[b])
        IN  /\ x.goal # "" => y.goal = x.goal
            /\ x.approval # Rank["none"] => y.approval # Rank["none"]
            /\ x.approval \in Decided => y.approval \in Decided
            /\ x.risk <= y.risk

(***************************************************************************)
(* While no two calls have overlapped, the counter tells the events of the *)
(* session apart.  (_next_seq)                                             *)
(***************************************************************************)
SeqIsUniqueInTurn == overlapped \/ SeqIsUnique

(***************************************************************************)
(* While no two calls have overlapped and nobody has moved the tip, the    *)
(* active path holds every event.  (append_event)                          *)
(***************************************************************************)
SingleBranchInTurn == overlapped \/ SingleBranchByDefault

(***************************************************************************)
(* While no two calls have overlapped, a session has at most one active    *)
(* branch.  (create_branch)                                                *)
(***************************************************************************)
OneActiveBranchInTurn == overlapped \/ OneActiveBranch
=============================================================================
