--------------------------- MODULE CashbackTable ----------------------------
(***************************************************************************)
(* From the rows of a rebate file to the reconciliation report:            *)
(* fiat_agent/tool_gateway/cashback_tools.py parses,                       *)
(* fiat_agent/workflows/cashback_reconcile.py compares.  No state.         *)
(*                                                                         *)
(* A cell of the amount column is blank, a word, a NaN, or a number: its   *)
(* digits in groups, the marks between them, and how its sign is written.  *)
(* Amounts are read in units of 1/Scale.  A cell that _norm makes None is  *)
(* the empty string.                                                       *)
(***************************************************************************)
EXTENDS Lists, FiniteSets, SequencesExt, Functions

Scale == 1000            \* bound: three decimals

Statuses == {"paid", "pending", "processing", "failed"}

Signs == {"", "-", "()", "(-)", "$-"}

NumberCells ==
  { c \in [ form : {"number"}, sign : Signs,
            groups : Seq(Seq(0 .. 9)), marks : Seq({",", "."}) ] :
      Len(c.groups) = Len(c.marks) + 1 }

CashbackRow ==
  [ txn : STRING, status : STRING,
    amount : [form : {"blank", "word", "nan"}] \cup NumberCells ]

\* What reading an amount gives: Decimal or AmountFormatError.
Read(value) == [kind |-> "number", value |-> value]
NaN         == [kind |-> "nan", value |-> 0]
BadAmount   == [kind |-> "bad", value |-> 0]
-----------------------------------------------------------------------------
Digits(cell) == FlattenSeq(cell.groups)

Number(digits) == Value(10, digits)

\* A one and n zeros.
PowerOfTen(n) == Number([ i \in 1 .. (n + 1) |-> IF i = 1 THEN 1 ELSE 0 ])

Marked(cell, mark) == { i \in DOMAIN cell.marks : cell.marks[i] = mark }

\* A sign that stays in the text spoils the head for the comma rule.
HeadIsDigits(cell) == cell.sign # "$-" /\ cell.groups[1] # << >>

\* The place of the decimal mark: 0 for none, -1 when Decimal() refuses.
\* With both marks in use the last one is the decimal mark.
PointAt(cell) ==
  LET commas == Marked(cell, ",")
      dots   == Marked(cell, ".")
      n      == Len(cell.marks)
  IN  IF commas # {} /\ dots # {}
      THEN IF Cardinality(Marked(cell, cell.marks[n])) = 1 THEN n ELSE -1
      ELSE IF commas # {}
      THEN IF n = 1 /\ HeadIsDigits(cell) /\ Len(cell.groups[2]) \in {1, 2}
           THEN 1 ELSE 0
      ELSE IF n > 1 THEN -1 ELSE n

\* A minus in front of the number is stripped and lost; parentheses negate,
\* and so does a minus that a currency symbol hides from the stripping.
Negative(cell) == cell.sign \in {"()", "(-)", "$-"}

\* parse_amount
ParseAmount(cell) ==
  IF cell.form \in {"blank", "word"} THEN BadAmount
  ELSE IF cell.form = "nan" THEN NaN
  ELSE LET point  == PointAt(cell)
           digits == Digits(cell)
           places == IF point = 0 THEN 0
                     ELSE Len(FlattenSeq(SubSeq(cell.groups, point + 1,
                                                Len(cell.groups))))
           value  == (Number(digits) * Scale) \div PowerOfTen(places)
       IN  IF point = -1 \/ digits = << >> THEN BadAmount
           ELSE Read(IF Negative(cell) THEN -value ELSE value)
-----------------------------------------------------------------------------
\* Mutant: every row of a repeated id is flagged, the first one too.
IsRepeated(rows, i) ==
  rows[i].txn # "" /\ \E j \in DOMAIN rows \ {i} : rows[j].txn = rows[i].txn

\* parse_rows: a later row with the transaction id of an earlier one.
IsDuplicate(rows, i) ==
  rows[i].txn # "" /\ \E j \in 1 .. (i - 1) : rows[j].txn = rows[i].txn

Amount(rows, i) == ParseAmount(rows[i].amount)

\* What raises in _reconcile: a comparison with NaN, for paid rows only.
Raises(rows) ==
  \E i \in DOMAIN rows : rows[i].status = "paid" /\ Amount(rows, i) = NaN

NoArrival(amount) == amount = BadAmount \/ amount.value <= 0

IssueTypes == {"duplicate", "amount_format", "status_missing",
               "status_invalid", "arrival_gap"}

HasIssue(rows, i, type) ==
  CASE type = "duplicate"      -> IsDuplicate(rows, i)
    [] type = "amount_format"  -> Amount(rows, i) = BadAmount
    [] type = "status_missing" -> rows[i].status = ""
    [] type = "status_invalid" -> rows[i].status \notin Statuses \cup {""}
    [] type = "arrival_gap"    -> rows[i].status = "paid" /\ NoArrival(Amount(rows, i))

Issues(rows) ==
  { issue \in [row : DOMAIN rows, type : IssueTypes] :
      HasIssue(rows, issue.row, issue.type) }

Matched(rows) ==
  { i \in DOMAIN rows : \A type \in IssueTypes : ~HasIssue(rows, i, type) }

\* _plan_for
Action(type) ==
  CASE type = "duplicate"      -> "dedupe"
    [] type = "amount_format"  -> "fix_amount"
    [] type = "status_invalid" -> "normalize_status"
    [] type = "status_missing" -> "fill_status"
    [] type = "arrival_gap"    -> "investigate"
    [] OTHER                   -> "review"

\* The gross total: every row that gave a number, duplicates included.
Total(rows) ==
  LET read == { i \in DOMAIN rows : Amount(rows, i) # BadAmount }
  IN  IF \E i \in read : Amount(rows, i) = NaN THEN NaN
      ELSE Read(FoldFunctionOnSet(+, 0,
                  [i \in DOMAIN rows |-> Amount(rows, i).value], read))

\* _reconcile
CashbackReport(rows) ==
  [ total      |-> Total(rows),
    matched    |-> Cardinality(Matched(rows)),
    mismatched |-> Len(rows) - Cardinality(Matched(rows)),
    issues     |-> Issues(rows),
    plan       |-> { [row |-> x.row, action |-> Action(x.type)] : x \in Issues(rows) } ]
-----------------------------------------------------------------------------
\* A number written the American way: commas between groups of three, a dot
\* before the decimals.
IsAmerican(cell) ==
  LET n     == Len(cell.marks)
      whole == IF n > 0 /\ cell.marks[n] = "." THEN n ELSE n + 1
  IN  /\ cell.sign = "" /\ cell.groups[1] # << >>
      /\ \A i \in 1 .. (whole - 1) : cell.marks[i] = ","
      /\ \A i \in 2 .. whole : Len(cell.groups[i]) = 3

Meant(cell) ==
  LET n == Len(cell.marks)
  IN  (Number(Digits(cell)) * Scale)
        \div PowerOfTen(IF n > 0 /\ cell.marks[n] = "." THEN Len(cell.groups[n + 1]) ELSE 0)

(***************************************************************************)
(* What a report promises of the file.                                     *)
(*  - Rows counted as matched have different transaction ids, and the paid *)
(*    ones among them a positive amount.                                   *)
(*  - The tally and the list of issues agree on how many rows are wrong.   *)
(*  - Carrying out the plan keeps a row of every transaction.              *)
(*  - A file written the American way is summed up as it was meant.        *)
(***************************************************************************)
MatchedAreClean(rows) ==
  \A i \in Matched(rows) :
    /\ rows[i].status = "paid" => Amount(rows, i).value > 0
    /\ \A j \in Matched(rows) : i # j => rows[i].txn # rows[j].txn \/ rows[i].txn = ""

TallyAgrees(rows, report) ==
  report.mismatched = Cardinality({ issue.row : issue \in report.issues })

PlanKeepsOne(rows, report) ==
  \A i \in DOMAIN rows :
    \E j \in DOMAIN rows :
      /\ rows[j].txn = rows[i].txn
      /\ [row |-> j, action |-> "dedupe"] \notin report.plan

SumsAsMeant(rows, report) ==
  (\A i \in DOMAIN rows : rows[i].amount.form = "number" /\ IsAmerican(rows[i].amount))
    => report.total = Read(FoldFunctionOnSet(+, 0,
         [i \in DOMAIN rows |-> Meant(rows[i].amount)], DOMAIN rows))

CashbackSound(rows, report) ==
  /\ MatchedAreClean(rows)
  /\ TallyAgrees(rows, report)
  /\ PlanKeepsOne(rows, report)
  /\ SumsAsMeant(rows, report)
=============================================================================
