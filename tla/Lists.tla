------------------------------- MODULE Lists --------------------------------
(***************************************************************************)
(* Functions of lists that several components are built on.  They are      *)
(* recursive functions over the length of the list, so that facts about    *)
(* them can be proved for lists of any length (Lists_proofs).              *)
(***************************************************************************)
EXTENDS Integers, Sequences

Elements(s) == { s[i] : i \in DOMAIN s }

(***************************************************************************)
(* The list comprehension [x for x in s if x in T], which the program uses *)
(* wherever it narrows a list: the calls an actor may make, those that     *)
(* need approval, the buffered events past a cursor.                       *)
(***************************************************************************)
Keep(s, T) ==
  LET kept[n \in 0 .. Len(s)] ==
        IF n = 0 THEN << >>
        ELSE IF s[n] \in T THEN Append(kept[n - 1], s[n]) ELSE kept[n - 1]
  IN  kept[Len(s)]

(***************************************************************************)
(* The number that a list of digits writes in a base; in base 1, the sum   *)
(* of the list.                                                            *)
(***************************************************************************)
Value(base, digits) ==
  LET value[n \in 0 .. Len(digits)] ==
        IF n = 0 THEN 0 ELSE base * value[n - 1] + digits[n]
  IN  value[Len(digits)]
=============================================================================
