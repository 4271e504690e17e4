------------------------- MODULE ApprovalLifecycle --------------------------
(***************************************************************************)
(* What the approval queue promises, without saying how: a request is put  *)
(* on the queue once, its subject never changes, people vote for it, and   *)
(* it is decided at most once -- granted only by a quorum of distinct      *)
(* voters, refused by anyone.  ApprovalService implements this.            *)
(***************************************************************************)
CONSTANTS
  Ids,           \* identifiers of requests
  People,        \* those who vote
  Subjects,      \* what can be asked for
  Quorums,       \* Quorums[s]: the sets of voters that suffice to grant s
  None           \* no request

VARIABLES
  phase,         \* phase[i]: where request i is in its life
  subject,       \* subject[i]: what it asks for
  votes          \* votes[i]: who has voted for it

vars == <<phase, subject, votes>>

Phases == {"absent", "pending", "approved", "rejected"}

Init ==
  /\ phase   = [i \in Ids |-> "absent"]
  /\ subject = [i \in Ids |-> None]
  /\ votes   = [i \in Ids |-> {}]

Ask(i, s) ==
  /\ phase[i] = "absent"
  /\ phase'   = [phase EXCEPT ![i] = "pending"]
  /\ subject' = [subject EXCEPT ![i] = s]
  /\ UNCHANGED votes

\* A vote that does not complete the quorum.
Vote(i, p) ==
  /\ phase[i] = "pending"
  /\ p \notin votes[i]
  /\ votes[i] \cup {p} \notin Quorums[subject[i]]
  /\ votes' = [votes EXCEPT ![i] = @ \cup {p}]
  /\ UNCHANGED <<phase, subject>>

\* The vote that completes it.
Grant(i, p) ==
  /\ phase[i] = "pending"
  /\ p \notin votes[i]
  /\ votes[i] \cup {p} \in Quorums[subject[i]]
  /\ votes' = [votes EXCEPT ![i] = @ \cup {p}]
  /\ phase' = [phase EXCEPT ![i] = "approved"]
  /\ UNCHANGED subject

Refuse(i) ==
  /\ phase[i] = "pending"
  /\ phase' = [phase EXCEPT ![i] = "rejected"]
  /\ UNCHANGED <<subject, votes>>

Next ==
  \E i \in Ids :
    \/ \E s \in Subjects : Ask(i, s)
    \/ \E p \in People : Vote(i, p) \/ Grant(i, p)
    \/ Refuse(i)

Spec == Init /\ [][Next]_vars
=============================================================================
