--------------------------- MODULE Tables_proofs ----------------------------
(***************************************************************************)
(* What the two table workflows compute, for files of any length, cards    *)
(* and amounts of any number of digits.                                    *)
(***************************************************************************)
EXTENDS CashbackTable, LogisticsTable, Lists_proofs

(***************************************************************************)
(* Logistics.  Reading the card from the left, with the parity that its    *)
(* length gives, doubles the digits that the standard doubles from the     *)
(* right, and a sum is the same in both directions.                        *)
(***************************************************************************)
LEMMA LuhnBothWays ==
  ASSUME NEW card \in Seq(0 .. 9)
  PROVE  Luhn(card) <=> LuhnFromTheRight(card)
  <1> DEFINE n == Len(card)
             back == Reverse(card)
             left == [ i \in DOMAIN card |->
                         IF (i - 1) % 2 = Len(card) % 2 THEN Doubled(card[i]) ELSE card[i] ]
             right == [ i \in DOMAIN back |->
                          IF i % 2 = 0 THEN Doubled(back[i]) ELSE back[i] ]
  <1>1. n \in Nat /\ DOMAIN card = 1 .. n /\ \A i \in 1 .. n : card[i] \in 0 .. 9
    OBVIOUS
  <1>2. \A d \in 0 .. 9 : Doubled(d) \in Int
    BY DEF Doubled
  <1>3. /\ left \in Seq(Int) /\ Len(left) = n
        /\ \A i \in 1 .. n :
             left[i] = IF (i - 1) % 2 = n % 2 THEN Doubled(card[i]) ELSE card[i]
    <2>1. left = [ i \in 1 .. n |->
                     IF (i - 1) % 2 = n % 2 THEN Doubled(card[i]) ELSE card[i] ]
      BY <1>1
    <2>2. \A i \in 1 .. n :
            (IF (i - 1) % 2 = n % 2 THEN Doubled(card[i]) ELSE card[i]) \in Int
      <3>1. ASSUME NEW i \in 1 .. n
            PROVE  Doubled(card[i]) \in Int /\ card[i] \in Int
        <4> HIDE DEF n
        <4>1. card[i] \in 0 .. 9
          BY <1>1
        <4>2. card[i] \in Int
          BY <4>1
        <4> QED
          BY <1>2, <4>1, <4>2
      <3> HIDE DEF n
      <3> QED
        BY <3>1
    <2> HIDE DEF left, n
    <2> QED
      BY <1>1, <2>1, <2>2
  <1>4. Len(back) = n /\ DOMAIN back = 1 .. n /\ \A i \in 1 .. n : back[i] = card[n - i + 1]
    BY <1>1 DEF Reverse
  <1>5. Reverse(left) = [ i \in 1 .. n |-> left[n - i + 1] ]
    <2> HIDE DEF left, n
    <2> QED
      BY <1>3 DEF Reverse
  <1>6. right = [ i \in 1 .. n |-> IF i % 2 = 0 THEN Doubled(back[i]) ELSE back[i] ]
    <2> HIDE DEF back, n
    <2> QED
      BY <1>4
  <1>7. ASSUME NEW i \in 1 .. n
        PROVE  left[n - i + 1] = IF i % 2 = 0 THEN Doubled(back[i]) ELSE back[i]
    <2> HIDE DEF left, back, n
    <2>1. n - i + 1 \in 1 .. n /\ (n - i + 1) - 1 = n - i
      BY <1>1
    <2>2. (n - i) % 2 = n % 2 <=> i % 2 = 0
      BY <1>1
    <2> QED
      BY <1>3, <1>4, <2>1, <2>2
  <1>8. Reverse(left) = right
    <2> HIDE DEF left, right, back, n
    <2> QED
      BY <1>5, <1>6, <1>7
  <1>9. Value(1, right) = Value(1, left)
    <2> HIDE DEF left, right, back, n
    <2> QED
      BY <1>3, <1>8, SumReversed
  <1> QED
    BY <1>9 DEF Luhn, LuhnFromTheRight

-----------------------------------------------------------------------------
Errors(rows) ==
  UNION { { [row |-> i, field |-> f] : f \in FieldErrors(rows[i]) } : i \in DOMAIN rows }

Wrong(rows) ==
  { [row |-> i, from |-> rows[i].prev_status, to |-> rows[i].new_status]
    : i \in { j \in DOMAIN rows : IsViolation(rows[j]) } }

Faulty(rows) == { e.row : e \in Errors(rows) } \cup { w.row : w \in Wrong(rows) }

\* The report in terms of the rows that are faulty.
LEMMA ReportIs ==
  ASSUME NEW rows
  PROVE  /\ LogisticsReport(rows).field_errors = Errors(rows)
         /\ LogisticsReport(rows).invalid = Cardinality(Faulty(rows))
         /\ LogisticsReport(rows).validated = Len(rows) - Cardinality(Faulty(rows))
  BY DEF LogisticsReport, Errors, Wrong, Faulty

\* The faulty rows are those with an error in a field or a wrong update.
LEMMA FaultyRows ==
  ASSUME NEW rows
  PROVE  Faulty(rows) = { i \in DOMAIN rows : FieldErrors(rows[i]) # {} \/ IsViolation(rows[i]) }
  <1>1. \A i : (\E e \in Errors(rows) : e.row = i) <=>
               i \in DOMAIN rows /\ FieldErrors(rows[i]) # {}
    <2>1. ASSUME NEW i \in DOMAIN rows, NEW f \in FieldErrors(rows[i])
          PROVE  [row |-> i, field |-> f] \in Errors(rows)
      BY DEF Errors
    <2>2. ASSUME NEW e \in Errors(rows)
          PROVE  e.row \in DOMAIN rows /\ FieldErrors(rows[e.row]) # {}
      <3>1. PICK i \in DOMAIN rows :
              e \in { [row |-> i, field |-> f] : f \in FieldErrors(rows[i]) }
        BY DEF Errors
      <3>2. PICK f \in FieldErrors(rows[i]) : e = [row |-> i, field |-> f]
        BY <3>1
      <3> QED
        BY <3>2
    <2>3. ASSUME NEW i \in DOMAIN rows, FieldErrors(rows[i]) # {}
          PROVE  \E e \in Errors(rows) : e.row = i
      <3>1. PICK f \in FieldErrors(rows[i]) : TRUE
        BY <2>3
      <3>2. [row |-> i, field |-> f].row = i
        OBVIOUS
      <3> QED
        BY <2>1, <3>2
    <2> QED
      BY <2>2, <2>3
  <1>2. \A i : (\E w \in Wrong(rows) : w.row = i) <=>
               i \in DOMAIN rows /\ IsViolation(rows[i])
    <2>1. ASSUME NEW w \in Wrong(rows)
          PROVE  w.row \in DOMAIN rows /\ IsViolation(rows[w.row])
      <3>1. PICK i \in { j \in DOMAIN rows : IsViolation(rows[j]) } :
              w = [row |-> i, from |-> rows[i].prev_status, to |-> rows[i].new_status]
        BY DEF Wrong
      <3> QED
        BY <3>1
    <2>2. ASSUME NEW i \in DOMAIN rows, IsViolation(rows[i])
          PROVE  \E w \in Wrong(rows) : w.row = i
      <3> DEFINE w == [row |-> i, from |-> rows[i].prev_status, to |-> rows[i].new_status]
      <3>1. w \in Wrong(rows)
        BY <2>2 DEF Wrong
      <3>2. w.row = i
        OBVIOUS
      <3> QED
        BY <3>1, <3>2
    <2> QED
      BY <2>1, <2>2
  <1> QED
    BY <1>1, <1>2 DEF Faulty

\* The two counters of the report add up to the rows of the file.
LEMMA RowsCounted ==
  ASSUME NEW rows, NEW S, rows \in Seq(S)
  PROVE  /\ IsFiniteSet(Faulty(rows)) /\ Cardinality(Faulty(rows)) \in Nat
         /\ Len(rows) - Cardinality(Faulty(rows)) >= 0
         /\ (Len(rows) - Cardinality(Faulty(rows))) + Cardinality(Faulty(rows)) = Len(rows)
  <1>1. Len(rows) \in Nat /\ DOMAIN rows = 1 .. Len(rows)
    OBVIOUS
  <1>2. IsFiniteSet(1 .. Len(rows)) /\ Cardinality(1 .. Len(rows)) = Len(rows)
    BY <1>1, CountUpTo
  <1>3. Faulty(rows) \subseteq 1 .. Len(rows)
    BY <1>1, FaultyRows
  <1>4. IsFiniteSet(Faulty(rows)) /\ Cardinality(Faulty(rows)) <= Len(rows)
    BY <1>2, <1>3, FS_Subset
  <1>5. Cardinality(Faulty(rows)) \in Nat
    BY <1>4, FS_CardinalityType
  <1> DEFINE k == Cardinality(Faulty(rows))
             n == Len(rows)
  <1>6. n - k >= 0 /\ (n - k) + k = n
    <2>1. k \in Nat /\ n \in Nat /\ k <= n
      BY <1>1, <1>4, <1>5
    <2> HIDE DEF k, n
    <2> QED
      BY <2>1
  <1> QED
    BY <1>4, <1>5, <1>6

\* A row without a field error has no card, or one that passes the check.
LEMMA CardsPass ==
  ASSUME NEW rows \in Seq(LogisticsRow), NEW i \in DOMAIN rows,
         \A e \in Errors(rows) : e.row # i
  PROVE  rows[i].card_no = << >> \/ LuhnFromTheRight(rows[i].card_no)
  <1>1. rows[i].card_no \in Seq(0 .. 9)
    <2>1. rows[i] \in LogisticsRow
      OBVIOUS
    <2> QED
      BY <2>1 DEF LogisticsRow
  <1>2. "card_no" \notin FieldErrors(rows[i])
    <2>1. SUFFICES ASSUME "card_no" \in FieldErrors(rows[i])
                   PROVE  FALSE
      OBVIOUS
    <2>2. [row |-> i, field |-> "card_no"] \in Errors(rows)
      BY <2>1 DEF Errors
    <2> QED
      BY <2>2
  <1>3. rows[i].card_no = << >> \/ IsValidCard(rows[i].card_no)
    BY <1>2 DEF FieldErrors
  <1> QED
    BY <1>1, <1>3, LuhnBothWays DEF IsValidCard

\* In a history without a faulty row every update is one of the machine's.
LEMMA HistoryIsLegal ==
  ASSUME NEW rows, NEW S, rows \in Seq(S), IsHistory(rows), Faulty(rows) = {},
         NEW i \in 1 .. Len(rows)
  PROVE  /\ Known(rows[i].prev_status)
         /\ IsAllowed(rows[i].prev_status, rows[i].new_status)
  <1>1. Len(rows) \in Nat /\ DOMAIN rows = 1 .. Len(rows)
    OBVIOUS
  <1>2. \A j \in DOMAIN rows : FieldErrors(rows[j]) = {} /\ ~ IsViolation(rows[j])
    BY FaultyRows
  <1>3. \A j \in 1 .. Len(rows) : Known(rows[j].new_status)
    <2>1. ASSUME NEW j \in 1 .. Len(rows), ~ Known(rows[j].new_status)
          PROVE  "new_status" \in FieldErrors(rows[j])
      <3>1. rows[j].new_status # ""
        BY <1>1 DEF IsHistory
      <3> QED
        BY <2>1, <3>1 DEF FieldErrors
    <2> QED
      BY <1>1, <1>2, <2>1
  <1>4. Known(rows[i].prev_status)
    <2>1. CASE i = 1
      BY <2>1 DEF IsHistory, Known, ParcelStatuses
    <2>2. CASE i # 1
      <3>1. i \in 2 .. Len(rows) /\ i - 1 \in 1 .. Len(rows)
        BY <1>1, <2>2
      <3> QED
        BY <1>3, <3>1 DEF IsHistory
    <2> QED
      BY <2>1, <2>2
  <1> QED
    BY <1>1, <1>2, <1>3, <1>4 DEF IsViolation

\* A parcel with a history of legal steps was out for delivery before it was delivered.
LEMMA OutBeforeDelivered ==
  ASSUME NEW rows, NEW S, rows \in Seq(S), IsHistory(rows), Faulty(rows) = {},
         "delivered" \in Reached(rows)
  PROVE  "out_for_delivery" \in Reached(rows)
  <1> DEFINE T == { i \in 1 .. Len(rows) : rows[i].new_status = "delivered" }
  <1>1. Len(rows) \in Nat /\ DOMAIN rows = 1 .. Len(rows)
    OBVIOUS
  <1>2. T # {} /\ T \subseteq Nat
    BY <1>1 DEF Reached
  <1>3. PICK i \in T : \A j \in T : i <= j
    <2> HIDE DEF T
    <2> QED
      BY <1>2, LeastNat
  <1>4. /\ i \in 1 .. Len(rows) /\ rows[i].new_status = "delivered"
        /\ IsAllowed(rows[i].prev_status, "delivered") /\ Known(rows[i].prev_status)
    BY <1>3, HistoryIsLegal
  <1>5. CASE i = 1
    BY <1>4, <1>5 DEF IsHistory, IsAllowed, NextStatuses
  <1>6. CASE i # 1
    <2>0. i \in 2 .. Len(rows)
      BY <1>1, <1>4, <1>6
    <2>1. /\ i - 1 \in 1 .. Len(rows) /\ i - 1 < i
          /\ rows[i].prev_status = rows[i - 1].new_status
      <3> HIDE DEF T
      <3>1. i - 1 \in 1 .. Len(rows) /\ i - 1 < i
        BY <1>1, <2>0
      <3>2. rows[i].prev_status = rows[i - 1].new_status
        BY <2>0 DEF IsHistory
      <3> QED
        BY <3>1, <3>2
    <2>2. rows[i].prev_status # "delivered"
      <3>1. i - 1 \notin T
        BY <1>3, <2>1
      <3> QED
        BY <2>1, <3>1
    <2>3. rows[i].prev_status = "out_for_delivery"
      BY <1>4, <2>2 DEF IsAllowed, NextStatuses, Known, ParcelStatuses
    <2> QED
      BY <1>1, <2>1, <2>3 DEF Reached
  <1> QED
    BY <1>5, <1>6

\* No legal step leads out of "returned".
LEMMA ReturnedIsLast ==
  ASSUME NEW rows, NEW S, rows \in Seq(S), IsHistory(rows), Faulty(rows) = {},
         NEW i \in DOMAIN rows, rows[i].new_status = "returned"
  PROVE  \A j \in i .. Len(rows) : rows[j].new_status = "returned"
  <1> DEFINE T == { j \in i .. Len(rows) : rows[j].new_status # "returned" }
  <1>1. Len(rows) \in Nat /\ DOMAIN rows = 1 .. Len(rows) /\ T \subseteq Nat
    OBVIOUS
  <1>2. SUFFICES ASSUME T # {}
                 PROVE  FALSE
    OBVIOUS
  <1>3. PICK j \in T : \A k \in T : j <= k
    <2> HIDE DEF T
    <2> QED
      BY <1>1, <1>2, LeastNat
  <1>4. /\ j \in 2 .. Len(rows) /\ j - 1 \in i .. Len(rows) /\ j \in 1 .. Len(rows)
        /\ rows[j].new_status # "returned"
    BY <1>1, <1>3
  <1>5. rows[j - 1].new_status = "returned"
    <2>1. j - 1 \notin T
      BY <1>3, <1>4
    <2> QED
      BY <1>4, <2>1
  <1>6. rows[j].prev_status = "returned"
    BY <1>4, <1>5 DEF IsHistory
  <1>7. IsAllowed("returned", rows[j].new_status)
    BY <1>4, <1>6, HistoryIsLegal
  <1> QED
    BY <1>4, <1>7 DEF IsAllowed, NextStatuses

(***************************************************************************)
(* The report of any file keeps what LogisticsSound says.                  *)
(***************************************************************************)
THEOREM LogisticsReportCorrect ==
  ASSUME NEW rows \in Seq(LogisticsRow)
  PROVE  LogisticsSound(rows, LogisticsReport(rows))
  <1> DEFINE report == LogisticsReport(rows)
  <1>1. report.validated >= 0 /\ report.validated + report.invalid = Len(rows)
    BY ReportIs, RowsCounted
  <1>2. \A i \in DOMAIN rows :
          (\A e \in report.field_errors : e.row # i) =>
            rows[i].card_no = << >> \/ LuhnFromTheRight(rows[i].card_no)
    BY ReportIs, CardsPass
  <1>3. ASSUME report.invalid = 0
        PROVE  Faulty(rows) = {}
    <2>1. Cardinality(Faulty(rows)) = 0 /\ IsFiniteSet(Faulty(rows))
      BY <1>3, ReportIs, RowsCounted
    <2> QED
      BY <2>1, FS_EmptySet
  <1>4. IsHistory(rows) /\ report.invalid = 0 =>
          /\ "delivered" \in Reached(rows) => "out_for_delivery" \in Reached(rows)
          /\ \A i \in DOMAIN rows : rows[i].new_status = "returned" =>
               \A j \in i .. Len(rows) : rows[j].new_status = "returned"
    BY <1>3, OutBeforeDelivered, ReturnedIsLast
  <1> HIDE DEF report
  <1> QED
    BY <1>1, <1>2, <1>4 DEF LogisticsSound, report
-----------------------------------------------------------------------------
(***************************************************************************)
(* Cashback.  What is read of a cell is an integer, however its number is  *)
(* written.                                                                *)
(***************************************************************************)
LEMMA PowerPositive ==
  ASSUME NEW n \in Nat
  PROVE  PowerOfTen(n) \in Nat \ {0}
  <1> DEFINE digits == [ i \in 1 .. (n + 1) |-> IF i = 1 THEN 1 ELSE 0 ]
             m == n + 1
  <1>1. /\ m \in Nat /\ m >= 1 /\ digits \in Seq(Int) /\ Len(digits) = m
        /\ digits[1] = 1 /\ \A k \in 1 .. m : k # 1 => digits[k] = 0
    OBVIOUS
  <1> HIDE DEF digits, m
  <1>2. PICK value : Values(value, 10, digits) /\ Value(10, digits) = value[m]
    <2>1. PICK value : Values(value, 10, digits) /\ Value(10, digits) = value[Len(digits)]
      <3>1. 10 \in Int
        OBVIOUS
      <3> QED
        BY <1>1, <3>1, ValueRecursion
    <2> QED
      BY <1>1, <2>1
  <1>3. /\ value \in [0 .. m -> Int] /\ value[0] = 0
        /\ \A k \in 1 .. m : value[k] = 10 * value[k - 1] + digits[k]
    BY <1>1, <1>2 DEF Values
  <1> DEFINE G == { k \in 0 .. m : k = 0 \/ value[k] >= 1 }
  <1>4. 0 \in G
    BY <1>1
  <1>5. ASSUME NEW k \in 1 .. m, k - 1 \in G
        PROVE  k \in G
    <2>1. CASE k = 1
      BY <1>1, <1>3, <2>1
    <2>2. CASE k # 1
      <3>1. k - 1 \in 0 .. m /\ value[k - 1] \in Int /\ value[k - 1] >= 1
        BY <1>1, <1>3, <1>5, <2>2
      <3>2. value[k] = 10 * value[k - 1] + 0
        BY <1>1, <1>3, <2>2
      <3> QED
        BY <1>1, <3>1, <3>2
    <2> QED
      BY <2>1, <2>2
  <1>6. 0 .. m \subseteq G
    <2> HIDE DEF G
    <2> QED
      BY <1>1, <1>4, <1>5, UpTo
  <1>7. value[m] \in Int /\ value[m] >= 1
    BY <1>1, <1>3, <1>6
  <1>8. PowerOfTen(n) = value[m]
    BY <1>2 DEF PowerOfTen, Number, digits, m
  <1> QED
    BY <1>7, <1>8

\* The length of a list, and its first element.
LEMMA SeqFacts ==
  ASSUME NEW S, NEW s \in Seq(S)
  PROVE  Len(s) \in Nat /\ (Len(s) >= 1 => s # << >> /\ s[1] \in S)
  OBVIOUS

\* The parts of a cell that holds a number.
LEMMA DigitsOf ==
  ASSUME NEW cell \in NumberCells
  PROVE  /\ Digits(cell) \in Seq(0 .. 9) /\ Number(Digits(cell)) \in Int
         /\ cell.groups[1] # << >> => Digits(cell) # << >>
         /\ cell.groups \in Seq(Seq(0 .. 9)) /\ cell.marks \in Seq({",", "."})
         /\ Len(cell.marks) \in Nat /\ Len(cell.groups) = Len(cell.marks) + 1
         /\ cell.form = "number"
  <1>1. /\ cell.groups \in Seq(Seq(0 .. 9)) /\ cell.marks \in Seq({",", "."})
        /\ Len(cell.groups) = Len(cell.marks) + 1 /\ cell.form = "number"
    BY DEF NumberCells
  <1>2. Len(cell.marks) \in Nat
    BY <1>1, SeqFacts
  <1>3. /\ Digits(cell) \in Seq(0 .. 9)
        /\ cell.groups # << >> => Len(cell.groups[1]) <= Len(Digits(cell))
    BY <1>1, FlattenSeqProperties DEF Digits
  <1>4. Digits(cell) \in Seq(Int)
    <2>1. ASSUME NEW s \in Seq(0 .. 9)
          PROVE  s \in Seq(Int)
      OBVIOUS
    <2> QED
      BY <1>3, <2>1
  <1>5. Number(Digits(cell)) \in Int
    <2>1. 10 \in Int
      OBVIOUS
    <2> QED
      BY <1>4, <2>1, ValueInt DEF Number
  <1>6. cell.groups[1] # << >> => Digits(cell) # << >>
    <2>1. cell.groups # << >> /\ cell.groups[1] \in Seq(0 .. 9)
      <3>1. Len(cell.groups) >= 1
        <4>1. ASSUME NEW a, NEW b \in Nat, a = b + 1
              PROVE  a >= 1
          BY <4>1
        <4> QED
          BY <1>1, <1>2, <4>1
      <3> QED
        BY <1>1, <3>1, SeqFacts
    <2>2. ASSUME NEW s \in Seq(0 .. 9), s # << >>
          PROVE  Len(s) >= 1
      BY <2>2
    <2>3. Len(<< >>) = 0
      OBVIOUS
    <2>4. ASSUME cell.groups[1] # << >>, Digits(cell) = << >>
          PROVE  FALSE
      <3>1. Len(cell.groups[1]) >= 1 /\ Len(cell.groups[1]) <= 0
        BY <1>3, <2>1, <2>2, <2>3, <2>4
      <3>2. Len(cell.groups[1]) \in Nat
        BY <2>1
      <3> QED
        BY <3>1, <3>2
    <2> QED
      BY <2>4
  <1> QED
    BY <1>1, <1>2, <1>3, <1>5, <1>6

\* The decimal mark is the last one, or there is none.
LEMMA PointIs ==
  ASSUME NEW cell \in NumberCells
  PROVE  PointAt(cell) \in {-1, 0, Len(cell.marks)}
  <1> DEFINE n == Len(cell.marks)
             commas == Marked(cell, ",")
             dots == Marked(cell, ".")
             single == Cardinality(Marked(cell, cell.marks[n])) = 1
             comma == HeadIsDigits(cell) /\ Len(cell.groups[2]) \in {1, 2}
  <1>1. PointAt(cell) =
          IF commas # {} /\ dots # {} THEN IF single THEN n ELSE -1
          ELSE IF commas # {} THEN IF n = 1 /\ comma THEN 1 ELSE 0
          ELSE IF n > 1 THEN -1 ELSE n
    BY DEF PointAt
  <1> HIDE DEF n, commas, dots, single, comma
  <1>2. PointAt(cell) \in {-1, 0, n}
    BY <1>1
  <1> QED
    BY <1>2 DEF n

\* An amount is a whole number of units.
LEMMA AmountType ==
  ASSUME NEW rows \in Seq(CashbackRow), NEW i \in DOMAIN rows
  PROVE  Amount(rows, i).value \in Int
  <1> DEFINE cell == rows[i].amount
  <1>1. cell \in [form : {"blank", "word", "nan"}] \/ cell \in NumberCells
    <2>1. rows[i] \in CashbackRow
      OBVIOUS
    <2> QED
      BY <2>1 DEF CashbackRow
  <1>2. BadAmount.value \in Int /\ NaN.value \in Int
    BY DEF BadAmount, NaN
  <1>3. CASE cell \in [form : {"blank", "word", "nan"}]
    BY <1>2, <1>3 DEF Amount, ParseAmount
  <1>4. CASE cell \in NumberCells
    <2> DEFINE point == PointAt(cell)
               rest == SubSeq(cell.groups, point + 1, Len(cell.groups))
               places == IF point = 0 THEN 0 ELSE Len(FlattenSeq(rest))
               value == (Number(Digits(cell)) * Scale) \div PowerOfTen(places)
    <2>1. ASSUME point # -1
          PROVE  places \in Nat
      <3>1. CASE point = 0
        BY <3>1
      <3>2. CASE point # 0
        <4>1. point = Len(cell.marks) /\ point \in Nat /\ Len(cell.groups) = point + 1
              /\ cell.groups \in Seq(Seq(0 .. 9))
          BY <1>4, <2>1, <3>2, PointIs, DigitsOf
        <4>2. rest \in Seq(Seq(0 .. 9))
          <5>1. ASSUME NEW s \in Seq(Seq(0 .. 9)), NEW k \in Nat, Len(s) = k + 1
                PROVE  SubSeq(s, k + 1, Len(s)) \in Seq(Seq(0 .. 9))
            <6>1. \A j \in (k + 1) .. Len(s) : s[j] \in Seq(0 .. 9)
              BY <5>1
            <6>2. k + 1 \in Int /\ Len(s) \in Int
              BY <5>1
            <6> QED
              BY <6>1, <6>2, SubSeqProperties
          <5> HIDE DEF cell, point
          <5> QED
            BY <4>1, <5>1
        <4>3. FlattenSeq(rest) \in Seq(0 .. 9)
          <5> HIDE DEF rest
          <5> QED
            BY <4>2, FlattenSeqProperties
        <4>4. Len(FlattenSeq(rest)) \in Nat
          <5> HIDE DEF rest
          <5> QED
            BY <4>3
        <4> QED
          BY <3>2, <4>4
      <3> QED
        BY <3>1, <3>2
    <2>2. ASSUME point # -1
          PROVE  value \in Int /\ -value \in Int
      <3>1. PowerOfTen(places) \in Nat \ {0} /\ Number(Digits(cell)) \in Int
        <4> HIDE DEF places, cell
        <4> QED
          BY <1>4, <2>1, <2>2, PowerPositive, DigitsOf
      <3>2. ASSUME NEW a \in Int, NEW b \in Nat \ {0}
            PROVE  (a * Scale) \div b \in Int /\ -((a * Scale) \div b) \in Int
        BY DEF Scale
      <3> HIDE DEF places, cell
      <3> QED
        BY <3>1, <3>2
    <2>3. ParseAmount(cell) =
            IF point = -1 \/ Digits(cell) = << >> THEN BadAmount
            ELSE Read(IF Negative(cell) THEN -value ELSE value)
      <3>1. cell.form = "number"
        BY <1>4, DigitsOf
      <3> HIDE DEF cell
      <3> QED
        BY <3>1 DEF ParseAmount
    <2>4. \A v : Read(v).value = v
      BY DEF Read
    <2> HIDE DEF value, point, cell
    <2>5. ParseAmount(cell).value \in Int
      BY <1>2, <2>2, <2>3, <2>4
    <2> QED
      BY <2>5 DEF Amount, cell
  <1> QED
    BY <1>1, <1>3, <1>4

-----------------------------------------------------------------------------
\* Rows counted as matched have ids of their own, and money if they are paid.
LEMMA CleanMatches ==
  ASSUME NEW rows \in Seq(CashbackRow)
  PROVE  MatchedAreClean(rows)
  <1>1. DOMAIN rows = 1 .. Len(rows) /\ Len(rows) \in Nat
    OBVIOUS
  <1>2. ASSUME NEW i \in Matched(rows), rows[i].status = "paid"
        PROVE  Amount(rows, i).value > 0
    <2>1. i \in DOMAIN rows /\ ~ HasIssue(rows, i, "arrival_gap")
      BY DEF Matched, IssueTypes
    <2>2. ~ NoArrival(Amount(rows, i))
      BY <1>2, <2>1 DEF HasIssue
    <2>3. Amount(rows, i).value \in Int
      BY <2>1, AmountType
    <2> QED
      BY <2>2, <2>3 DEF NoArrival
  <1>3. ASSUME NEW i \in Matched(rows), NEW j \in Matched(rows), i < j
        PROVE  rows[i].txn # rows[j].txn \/ rows[i].txn = ""
    <2>1. i \in 1 .. Len(rows) /\ j \in 1 .. Len(rows)
      BY <1>1 DEF Matched
    <2>2. ~ IsDuplicate(rows, j)
      BY DEF Matched, IssueTypes, HasIssue
    <2>3. i \in 1 .. (j - 1)
      BY <1>1, <1>3, <2>1
    <2> QED
      BY <2>2, <2>3 DEF IsDuplicate
  <1>4. ASSUME NEW i \in Matched(rows), NEW j \in Matched(rows), i # j
        PROVE  rows[i].txn # rows[j].txn \/ rows[i].txn = ""
    <2>1. i \in 1 .. Len(rows) /\ j \in 1 .. Len(rows)
      BY <1>1 DEF Matched
    <2>2. i < j \/ j < i
      BY <1>1, <1>4, <2>1
    <2> QED
      BY <1>3, <2>2
  <1> QED
    BY <1>2, <1>4 DEF MatchedAreClean

\* A row is named by an issue exactly when it does not match.
LEMMA RowsOfIssues ==
  ASSUME NEW rows
  PROVE  { issue.row : issue \in Issues(rows) } = DOMAIN rows \ Matched(rows)
  <1>1. ASSUME NEW x \in Issues(rows)
        PROVE  x.row \in DOMAIN rows \ Matched(rows)
    BY DEF Issues, Matched
  <1>2. ASSUME NEW i \in DOMAIN rows \ Matched(rows)
        PROVE  \E x \in Issues(rows) : x.row = i
    <2>1. PICK type \in IssueTypes : HasIssue(rows, i, type)
      BY DEF Matched
    <2>2. [row |-> i, type |-> type] \in Issues(rows)
      BY <2>1 DEF Issues
    <2>3. [row |-> i, type |-> type].row = i
      OBVIOUS
    <2> QED
      BY <2>2, <2>3
  <1> QED
    BY <1>1, <1>2

\* The tally counts each wrong row once.
LEMMA TallyCorrect ==
  ASSUME NEW rows \in Seq(CashbackRow)
  PROVE  TallyAgrees(rows, CashbackReport(rows))
  <1>1. DOMAIN rows = 1 .. Len(rows) /\ Len(rows) \in Nat
    OBVIOUS
  <1>2. IsFiniteSet(DOMAIN rows) /\ Cardinality(DOMAIN rows) = Len(rows)
    BY <1>1, CountUpTo
  <1>3. DOMAIN rows \cap Matched(rows) = Matched(rows)
    BY DEF Matched
  <1>4. Cardinality(DOMAIN rows \ Matched(rows)) = Len(rows) - Cardinality(Matched(rows))
    <2>1. ASSUME NEW S, NEW T, IsFiniteSet(S), S \cap T = T
          PROVE  Cardinality(S \ T) = Cardinality(S) - Cardinality(T)
      BY <2>1, FS_Difference
    <2> HIDE DEF Matched
    <2> QED
      BY <1>2, <1>3, <2>1, Zenon
  <1> QED
    BY <1>4, RowsOfIssues DEF TallyAgrees, CashbackReport

\* The first row of a transaction is nobody's duplicate.
LEMMA FirstIsKept ==
  ASSUME NEW rows \in Seq(CashbackRow)
  PROVE  PlanKeepsOne(rows, CashbackReport(rows))
  <1>1. DOMAIN rows = 1 .. Len(rows) /\ Len(rows) \in Nat
    OBVIOUS
  <1> SUFFICES ASSUME NEW i \in DOMAIN rows
               PROVE  \E j \in DOMAIN rows :
                        /\ rows[j].txn = rows[i].txn
                        /\ [row |-> j, action |-> "dedupe"] \notin CashbackReport(rows).plan
    BY DEF PlanKeepsOne
  <1> DEFINE T == { j \in DOMAIN rows : rows[j].txn = rows[i].txn }
  <1>2. T # {} /\ T \subseteq Nat
    BY <1>1
  <1>3. PICK j \in T : \A k \in T : j <= k
    <2> HIDE DEF T
    <2> QED
      BY <1>2, LeastNat
  <1>4. j \in 1 .. Len(rows) /\ rows[j].txn = rows[i].txn
    BY <1>1, <1>3
  <1>5. ~ IsDuplicate(rows, j)
    <2>1. SUFFICES ASSUME NEW k \in 1 .. (j - 1), rows[k].txn = rows[j].txn
                   PROVE  FALSE
      BY DEF IsDuplicate
    <2>2. k \in DOMAIN rows /\ k < j /\ k \in Nat /\ j \in Nat
      BY <1>1, <1>4
    <2>3. j <= k
      BY <1>3, <1>4, <2>1, <2>2
    <2> QED
      BY <2>2, <2>3
  <1>6. ASSUME NEW x \in Issues(rows), x.row = j, Action(x.type) = "dedupe"
        PROVE  FALSE
    <2>1. x.type \in IssueTypes /\ HasIssue(rows, j, x.type)
      BY <1>6 DEF Issues
    <2>2. x.type = "duplicate"
      BY <1>6, <2>1 DEF IssueTypes, Action
    <2> QED
      BY <1>5, <2>1, <2>2 DEF HasIssue
  <1>7. [row |-> j, action |-> "dedupe"] \notin CashbackReport(rows).plan
    <2>1. SUFFICES ASSUME [row |-> j, action |-> "dedupe"] \in
                            { [row |-> x.row, action |-> Action(x.type)] : x \in Issues(rows) }
                   PROVE  FALSE
      BY DEF CashbackReport
    <2>2. PICK x \in Issues(rows) :
            [row |-> j, action |-> "dedupe"] = [row |-> x.row, action |-> Action(x.type)]
      BY <2>1
    <2>3. x.row = j /\ Action(x.type) = "dedupe"
      <3> DEFINE p == [row |-> j, action |-> "dedupe"]
                 q == [row |-> x.row, action |-> Action(x.type)]
      <3>1. /\ p.row = j /\ p.action = "dedupe" /\ q.row = x.row
            /\ q.action = Action(x.type) /\ p = q
        BY <2>2
      <3> HIDE DEF p, q
      <3> QED
        BY <3>1
    <2> QED
      BY <1>6, <2>3
  <1> QED
    BY <1>1, <1>4, <1>7

-----------------------------------------------------------------------------
(***************************************************************************)
(* A number written the American way is read as it was meant: its dot is   *)
(* the last mark, and without one the group behind a single comma has      *)
(* three digits, so that the comma is not taken for a decimal one.         *)
(***************************************************************************)
Pointed(cell) == Len(cell.marks) > 0 /\ cell.marks[Len(cell.marks)] = "."

\* Which marks a number written the American way has, and where.
LEMMA AmericanMarks ==
  ASSUME NEW cell \in NumberCells, IsAmerican(cell)
  PROVE  /\ ~ Negative(cell) /\ HeadIsDigits(cell) /\ Digits(cell) # << >>
         /\ Pointed(cell) =>
              /\ Marked(cell, ".") = {Len(cell.marks)}
              /\ Len(cell.marks) = 1 => Marked(cell, ",") = {}
         /\ ~ Pointed(cell) =>
              /\ Marked(cell, ".") = {}
              /\ Len(cell.marks) = 0 => Marked(cell, ",") = {}
              /\ Len(cell.marks) > 0 =>
                   Marked(cell, ",") # {} /\ Len(cell.groups[2]) = 3
  <1> DEFINE n == Len(cell.marks)
             whole == IF Pointed(cell) THEN n ELSE n + 1
  <1>1. /\ cell.sign = "" /\ cell.groups[1] # << >>
        /\ \A i \in 1 .. (whole - 1) : cell.marks[i] = ","
        /\ \A i \in 2 .. whole : Len(cell.groups[i]) = 3
    BY DEF IsAmerican, Pointed
  <1>2. n \in Nat /\ DOMAIN cell.marks = 1 .. n
    <2>1. ASSUME NEW S, NEW s \in Seq(S)
          PROVE  Len(s) \in Nat /\ DOMAIN s = 1 .. Len(s)
      OBVIOUS
    <2> QED
      BY <2>1, DigitsOf
  <1>3. ~ Negative(cell) /\ HeadIsDigits(cell) /\ Digits(cell) # << >>
    BY <1>1, DigitsOf DEF Negative, HeadIsDigits
  <1>4. \A mark : Marked(cell, mark) = { i \in 1 .. n : cell.marks[i] = mark }
    BY <1>2 DEF Marked
  <1>5. ASSUME Pointed(cell)
        PROVE  /\ Marked(cell, ".") = {n}
               /\ n = 1 => Marked(cell, ",") = {}
    <2>1. /\ n > 0 /\ cell.marks[n] = "." /\ whole = n
          /\ \A i \in 1 .. (n - 1) : cell.marks[i] = ","
      BY <1>1, <1>5 DEF Pointed
    <2> HIDE DEF n, whole
    <2>2. \A i \in 1 .. n : i = n \/ i \in 1 .. (n - 1)
      BY <1>2
    <2>3. n \in Nat /\ n > 0
      BY <1>2, <2>1
    <2>4. n \in 1 .. n
      BY <2>3
    <2>5. \A i \in 1 .. n : cell.marks[i] = "." <=> i = n
      BY <2>1, <2>2
    <2>6. ASSUME n = 1, NEW i \in 1 .. n
          PROVE  cell.marks[i] # ","
      <3>1. i = n
        BY <2>6
      <3> QED
        BY <2>1, <3>1
    <2>7. Marked(cell, ".") = {n}
      BY <1>4, <2>4, <2>5
    <2>8. n = 1 => Marked(cell, ",") = {}
      BY <1>4, <2>6
    <2> QED
      BY <2>7, <2>8
  <1>6. ASSUME ~ Pointed(cell)
        PROVE  /\ Marked(cell, ".") = {}
               /\ n = 0 => Marked(cell, ",") = {}
               /\ n > 0 => Marked(cell, ",") # {} /\ Len(cell.groups[2]) = 3
    <2>1. whole = n + 1
      BY <1>6
    <2> HIDE DEF whole
    <2>2. /\ \A i \in 1 .. n : cell.marks[i] = ","
          /\ n > 0 => Len(cell.groups[2]) = 3
      <3> HIDE DEF n
      <3>1. whole - 1 = n /\ (n > 0 => 2 \in 2 .. whole)
        BY <1>2, <2>1
      <3> QED
        BY <1>1, <3>1
    <2> HIDE DEF n
    <2>3. n > 0 => 1 \in 1 .. n
      BY <1>2
    <2>4. n = 0 => 1 .. n = {}
      OBVIOUS
    <2>8. \A i \in 1 .. n : cell.marks[i] # "."
      BY <2>2
    <2>5. Marked(cell, ".") = {}
      BY <1>4, <2>8
    <2>6. n = 0 => Marked(cell, ",") = {}
      BY <1>4, <2>4
    <2>7. n > 0 => Marked(cell, ",") # {}
      BY <1>4, <2>2, <2>3
    <2> QED
      BY <2>2, <2>5, <2>6, <2>7
  <1> QED
    BY <1>3, <1>5, <1>6

\* The rules for separators find the decimal mark of such a number.
LEMMA AmericanPoint ==
  ASSUME NEW cell \in NumberCells, IsAmerican(cell)
  PROVE  PointAt(cell) = IF Pointed(cell) THEN Len(cell.marks) ELSE 0
  <1> DEFINE n == Len(cell.marks)
             commas == Marked(cell, ",")
             dots == Marked(cell, ".")
             single == Cardinality(Marked(cell, cell.marks[n])) = 1
             comma == HeadIsDigits(cell) /\ Len(cell.groups[2]) \in {1, 2}
  <1>1. PointAt(cell) =
          IF commas # {} /\ dots # {} THEN IF single THEN n ELSE -1
          ELSE IF commas # {} THEN IF n = 1 /\ comma THEN 1 ELSE 0
          ELSE IF n > 1 THEN -1 ELSE n
    BY DEF PointAt
  <1>2. n \in Nat
    BY DigitsOf
  <1>3. CASE Pointed(cell)
    <2>1. n > 0 /\ dots = {n} /\ (n = 1 => commas = {})
      BY <1>3, AmericanMarks DEF Pointed
    <2>2. single
      <3>1. Marked(cell, cell.marks[n]) = {n}
        BY <1>3, <2>1 DEF Pointed
      <3> QED
        BY <3>1, FS_Singleton
    <2>3. n > 1 => commas # {}
      <3>1. ASSUME n > 1
            PROVE  1 \in commas
        <4>1. /\ 1 \in 1 .. (n - 1) /\ \A i \in 1 .. (n - 1) : cell.marks[i] = ","
          <5>1. \A i \in 1 .. (n - 1) : cell.marks[i] = ","
            BY <1>3 DEF IsAmerican, Pointed
          <5> HIDE DEF n
          <5>2. 1 \in 1 .. (n - 1)
            BY <1>2, <3>1
          <5> QED
            BY <5>1, <5>2
        <4>2. DOMAIN cell.marks = 1 .. n
          <5>1. ASSUME NEW S, NEW s \in Seq(S)
                PROVE  DOMAIN s = 1 .. Len(s)
            OBVIOUS
          <5> QED
            BY <5>1, DigitsOf
        <4>3. 1 \in 1 .. n
          <5> HIDE DEF n
          <5> QED
            BY <1>2, <3>1
        <4> QED
          BY <4>1, <4>2, <4>3 DEF Marked
      <3> QED
        BY <3>1
    <2> HIDE DEF n, commas, dots, single, comma
    <2>4. PointAt(cell) = n
      BY <1>1, <1>2, <2>1, <2>2, <2>3
    <2> QED
      BY <1>3, <2>4 DEF n
  <1>4. CASE ~ Pointed(cell)
    <2>0. /\ dots = {} /\ (n = 0 => commas = {})
          /\ n > 0 => commas # {} /\ Len(cell.groups[2]) = 3
      BY <1>4, AmericanMarks
    <2>1. dots = {} /\ (n = 0 => commas = {}) /\ (n > 0 => commas # {} /\ ~ comma)
      <3> HIDE DEF n, commas, dots
      <3> QED
        BY <2>0
    <2> HIDE DEF n, commas, dots, single, comma
    <2>2. PointAt(cell) = 0
      BY <1>1, <1>2, <2>1
    <2> QED
      BY <1>4, <2>2
  <1> QED
    BY <1>3, <1>4

\* Such a number is read as it was meant.
LEMMA AmericanAmount ==
  ASSUME NEW cell \in NumberCells, IsAmerican(cell)
  PROVE  ParseAmount(cell) = Read(Meant(cell))
  <1> DEFINE n == Len(cell.marks)
             point == PointAt(cell)
             rest == SubSeq(cell.groups, point + 1, Len(cell.groups))
             places == IF point = 0 THEN 0 ELSE Len(FlattenSeq(rest))
             decimals == IF Pointed(cell) THEN Len(cell.groups[n + 1]) ELSE 0
  <1>1. n \in Nat /\ Len(cell.groups) = n + 1 /\ cell.form = "number"
    BY DigitsOf
  <1>2. point = IF Pointed(cell) THEN n ELSE 0
    BY AmericanPoint
  <1>3. places = decimals
    <2>1. CASE Pointed(cell)
      <3>1. n > 0 /\ point = n
        BY <1>2, <2>1 DEF Pointed
      <3>2. rest = <<cell.groups[n + 1]>>
        <4>1. ASSUME NEW s, NEW k \in Nat
              PROVE  SubSeq(s, k, k) = <<s[k]>>
          <5> DEFINE t == SubSeq(s, k, k)
                     u == <<s[k]>>
          <5>1. t \in Seq({s[k]}) /\ Len(t) = 1 /\ t[1] = s[k]
            <6>1. \A i \in k .. k : s[i] \in {s[k]}
              OBVIOUS
            <6>2. k \in Int /\ k <= k /\ k - k + 1 = 1 /\ k + 1 - 1 = k /\ 1 \in 1 .. 1
              OBVIOUS
            <6> QED
              BY <6>1, <6>2, SubSeqProperties
          <5>2. u \in Seq({s[k]}) /\ Len(u) = 1 /\ u[1] = s[k]
            OBVIOUS
          <5> HIDE DEF t, u
          <5>3. t = u
            BY <5>1, <5>2
          <5> QED
            BY <5>3 DEF t, u
        <4>2. n + 1 \in Nat
          BY <1>1
        <4> HIDE DEF n
        <4> QED
          BY <1>1, <3>1, <4>1, <4>2
      <3>3. FlattenSeq(rest) = cell.groups[n + 1]
        BY <3>2, FlattenOne
      <3> HIDE DEF n, point, rest
      <3> QED
        BY <1>1, <2>1, <3>1, <3>3
    <2>2. CASE ~ Pointed(cell)
      BY <1>2, <2>2
    <2> QED
      BY <2>1, <2>2
  <1>4. Meant(cell) = (Number(Digits(cell)) * Scale) \div PowerOfTen(decimals)
    BY DEF Meant, Pointed
  <1>5. ParseAmount(cell) =
          IF point = -1 \/ Digits(cell) = << >> THEN BadAmount
          ELSE Read(IF Negative(cell)
                    THEN -((Number(Digits(cell)) * Scale) \div PowerOfTen(places))
                    ELSE (Number(Digits(cell)) * Scale) \div PowerOfTen(places))
    BY <1>1 DEF ParseAmount
  <1>6. point # -1 /\ Digits(cell) # << >> /\ ~ Negative(cell)
    <2>1. Digits(cell) # << >> /\ ~ Negative(cell)
      BY AmericanMarks
    <2>2. point # -1
      <3> HIDE DEF n, point
      <3> QED
        BY <1>1, <1>2
    <2> QED
      BY <2>1, <2>2
  <1> HIDE DEF places, decimals, point
  <1> QED
    BY <1>3, <1>4, <1>5, <1>6

\* The total of a file of such numbers is the sum of what they mean.
LEMMA SumsCorrect ==
  ASSUME NEW rows \in Seq(CashbackRow)
  PROVE  SumsAsMeant(rows, CashbackReport(rows))
  <1> SUFFICES ASSUME \A i \in DOMAIN rows :
                        rows[i].amount.form = "number" /\ IsAmerican(rows[i].amount)
               PROVE  Total(rows) =
                        Read(FoldFunctionOnSet(+, 0,
                          [i \in DOMAIN rows |-> Meant(rows[i].amount)], DOMAIN rows))
    BY DEF SumsAsMeant, CashbackReport
  <1>1. ASSUME NEW i \in DOMAIN rows
        PROVE  Amount(rows, i) = Read(Meant(rows[i].amount))
    <2>1. rows[i] \in CashbackRow
      OBVIOUS
    <2>2. rows[i].amount \in NumberCells
      BY <2>1 DEF CashbackRow
    <2> QED
      BY <2>2, AmericanAmount DEF Amount
  <1>2. \A v : Read(v) # BadAmount /\ Read(v) # NaN /\ Read(v).value = v
    <2>1. ASSUME NEW v
          PROVE  Read(v).kind = "number" /\ Read(v).value = v
      BY DEF Read
    <2>2. BadAmount.kind = "bad" /\ NaN.kind = "nan"
      BY DEF BadAmount, NaN
    <2> QED
      BY <2>1, <2>2
  <1>3. { i \in DOMAIN rows : Amount(rows, i) # BadAmount } = DOMAIN rows
    BY <1>1, <1>2
  <1>4. \A i \in DOMAIN rows : Amount(rows, i) # NaN
    BY <1>1, <1>2
  <1>5. [i \in DOMAIN rows |-> Amount(rows, i).value]
          = [i \in DOMAIN rows |-> Meant(rows[i].amount)]
    BY <1>1, <1>2
  <1> QED
    BY <1>3, <1>4, <1>5 DEF Total

(***************************************************************************)
(* The report of any file keeps what CashbackSound says.                   *)
(***************************************************************************)
THEOREM CashbackReportCorrect ==
  ASSUME NEW rows \in Seq(CashbackRow)
  PROVE  CashbackSound(rows, CashbackReport(rows))
  BY CleanMatches, TallyCorrect, FirstIsKept, SumsCorrect DEF CashbackSound
=============================================================================
