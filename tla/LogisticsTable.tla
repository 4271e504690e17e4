--------------------------- MODULE LogisticsTable ---------------------------
(***************************************************************************)
(* From the rows of a logistics file to the validation report:             *)
(* fiat_agent/tool_gateway/logistics_tools.py checks every row,            *)
(* fiat_agent/workflows/logistics_validation.py sums up.  No state.        *)
(*                                                                         *)
(* A status cell holds "" for blank, a canonical status (whatever alias    *)
(* the file uses for it) or another word.  Tracking numbers and addresses  *)
(* are "", "bad" or anything else; a card is its sequence of digits, empty *)
(* when there is none.                                                     *)
(***************************************************************************)
EXTENDS Lists, FiniteSets, SequencesExt

CardLengths == 12 .. 19

ParcelStatuses == {"created", "picked_up", "in_transit", "out_for_delivery",
                   "delivered", "exception", "returned"}

\* Mutant: a parcel may go from transit to the recipient at once.
NextStatusesLoose(status) ==
  CASE status = "created"          -> {"picked_up"}
    [] status = "picked_up"        -> {"in_transit"}
    [] status = "in_transit"       -> {"out_for_delivery", "delivered", "exception"}
    [] status = "out_for_delivery" -> {"delivered", "exception"}
    [] status = "exception"        -> {"in_transit", "returned"}
    [] status = "delivered"        -> {"returned"}
    [] status = "returned"         -> {}

\* _ALLOWED_TRANSITIONS
NextStatuses(status) ==
  CASE status = "created"          -> {"picked_up"}
    [] status = "picked_up"        -> {"in_transit"}
    [] status = "in_transit"       -> {"out_for_delivery", "exception"}
    [] status = "out_for_delivery" -> {"delivered", "exception"}
    [] status = "exception"        -> {"in_transit", "returned"}
    [] status = "delivered"        -> {"returned"}
    [] status = "returned"         -> {}

\* LogisticsStateMachine.is_allowed, for two known statuses.
IsAllowed(prev, new) == prev = new \/ new \in NextStatuses(prev)

Known(status) == status \in ParcelStatuses

LogisticsRow ==
  [ tracking_no : STRING, address : STRING, card_no : Seq(0 .. 9),
    prev_status : STRING, new_status : STRING ]
-----------------------------------------------------------------------------
\* Twice a digit, its cross sum.
Doubled(d) == IF 2 * d > 9 THEN 2 * d - 9 ELSE 2 * d

\* is_valid_card_no: the digits at even places are doubled when the length is
\* even, those at odd places when it is odd (places count from 0).
Luhn(card) ==
  LET weighed == [ i \in DOMAIN card |->
        IF (i - 1) % 2 = Len(card) % 2 THEN Doubled(card[i]) ELSE card[i] ]
  IN  Value(1, weighed) % 10 = 0

IsValidCard(card) == Len(card) \in CardLengths /\ Luhn(card)

\* parse_rows: the fields of a row that are reported.
FieldErrors(row) ==
  { field \in {"tracking_no", "address", "card_no", "prev_status", "new_status"} :
      CASE field = "tracking_no" -> row.tracking_no \in {"", "bad"}
        [] field = "address"     -> row.address \in {"", "bad"}
        [] field = "card_no"     -> row.card_no # << >> /\ ~IsValidCard(row.card_no)
        [] field = "prev_status" -> row.prev_status # "" /\ ~Known(row.prev_status)
        [] field = "new_status"  -> row.new_status # "" /\ ~Known(row.new_status) }

\* parse_rows: an update that is not one of the machine's edges; rows with a
\* blank or unknown status are not looked at.
IsViolation(row) ==
  /\ Known(row.prev_status) /\ Known(row.new_status)
  /\ ~IsAllowed(row.prev_status, row.new_status)

\* _aggregate: rows are numbered from 1.
LogisticsReport(rows) ==
  LET errors == UNION { { [row |-> i, field |-> f] : f \in FieldErrors(rows[i]) }
                        : i \in DOMAIN rows }
      wrong  == { [row |-> i, from |-> rows[i].prev_status, to |-> rows[i].new_status]
                  : i \in { j \in DOMAIN rows : IsViolation(rows[j]) } }
      faulty == { e.row : e \in errors } \cup { w.row : w \in wrong }
  IN  [ field_errors     |-> errors,
        state_violations |-> wrong,
        invalid          |-> Cardinality(faulty),
        validated        |-> Len(rows) - Cardinality(faulty) ]
-----------------------------------------------------------------------------
\* The check as the standard states it: from the right, every second digit is
\* doubled, starting with the last but one.
LuhnFromTheRight(card) ==
  LET back == Reverse(card)
  IN  Value(1, [ i \in DOMAIN back |->
        IF i % 2 = 0 THEN Doubled(back[i]) ELSE back[i] ]) % 10 = 0

\* The rows report one parcel, each going on from where the last one ended.
IsHistory(rows) ==
  /\ rows # << >> /\ rows[1].prev_status = "created"
  /\ \A i \in DOMAIN rows : rows[i].new_status # ""
  /\ \A i \in 2 .. Len(rows) : rows[i].prev_status = rows[i - 1].new_status

Reached(rows) == { rows[i].new_status : i \in DOMAIN rows }

(***************************************************************************)
(* What a report promises of the file.                                     *)
(*  - Every row is counted once, as validated or as invalid, and the       *)
(*    numbers agree with the lists.                                        *)
(*  - A card in a row that is not named passes the Luhn check.             *)
(*  - When all rows of a parcel's history are validated, it was out for    *)
(*    delivery before it was delivered, and nothing follows its return.    *)
(***************************************************************************)
LogisticsSound(rows, report) ==
  /\ report.validated >= 0 /\ report.validated + report.invalid = Len(rows)
  /\ \A i \in DOMAIN rows :
       (\A e \in report.field_errors : e.row # i) =>
         rows[i].card_no = << >> \/ LuhnFromTheRight(rows[i].card_no)
  /\ IsHistory(rows) /\ report.invalid = 0 =>
       /\ "delivered" \in Reached(rows) => "out_for_delivery" \in Reached(rows)
       /\ \A i \in DOMAIN rows : rows[i].new_status = "returned" =>
            \A j \in i .. Len(rows) : rows[j].new_status = "returned"
=============================================================================
