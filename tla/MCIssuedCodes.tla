--------------------------- MODULE MCIssuedCodes ---------------------------
(* Bodies in which every digit stands at every position, next to every      *)
(* digit of the slopes: the runs a, a + b, a + 2b, ... modulo ten.          *)
EXTENDS IssuedCodes

CONSTANT Slopes

Runs(n) == {[i \in 1..n |-> (a + b * i) % 10] : a \in 0..9, b \in Slopes}
After(prefixes, n) == {p \o r : p \in prefixes, r \in Runs(n)}

(* Norway's accounts have eleven digits, Britain's four letters and fourteen *)
(* digits, Brazil's a letter and either at the end.                          *)
MCCountries ==
  (<<23, 24>> :> [i \in 1..11 |-> "digit"])
    @@ (<<16, 11>> :> [i \in 1..18 |-> IF i <= 4 THEN "letter" ELSE "digit"])
    @@ (<<11, 27>> :> [i \in 1..25 |-> IF i <= 23 THEN "digit"
                                       ELSE IF i = 24 THEN "letter"
                                       ELSE "either"])

(* Beijing, Shanxi and Shanghai; a leap day, a year's last day, tomorrow. *)
Areas == {<<1, 1, 0, 1, 0, 1>>, <<1, 4, 9, 8, 7, 6>>, <<3, 1, 2, 3, 4, 5>>}
Birthdays == {<<2, 0, 0, 0, 0, 2, 2, 9>>, <<1, 9, 8, 7, 1, 2, 3, 1>>,
              <<1, 9, 5, 5, 1, 0, 3, 0>>, <<2, 0, 2, 6, 0, 7, 2, 9>>}

MCBodies(kind) ==
  CASE kind = "PL" -> Runs(10)
    [] kind = "ES" -> Runs(8) \cup After({<<33>>, <<34>>, <<35>>}, 7)
    [] kind \in {"FI", "IR", "NO", "ISBN10", "AU"} -> Runs(9)
    [] kind = "IN" -> Runs(11)
    [] kind \in {"TH", "ISBN13"} -> Runs(12)
    [] kind \in {"he-IL", "CH", "PT", "ABA"} -> Runs(8)
    [] kind = "zh-CN" -> {a \o b \o r : a \in Areas, b \in Birthdays,
                                        r \in Runs(3)}
    [] kind = "zh-HK" -> After({<<10>>, <<32>>, <<11, 35>>}, 6)
    [] kind = "zh-TW" -> After({<<10>>, <<18>>, <<35>>}, 8)
    [] kind = "IBAN" -> After({<<23, 24>>}, 11)
                          \cup After({<<16, 11, 10, 35, 21, 13>>}, 14)
                          \cup {b \o <<29, 7>> : b \in After({<<11, 27>>}, 23)}
    [] kind = "EAN" -> Runs(7) \cup Runs(12) \cup Runs(13)
    [] kind = "ISSN" -> Runs(7)
    [] kind = "Luhn" -> Runs(1) \cup Runs(5)
    [] kind = "card" ->
         After({<<4>>, <<3, 5>>}, 14) \cup After({<<3, 4>>}, 12)
           \cup After({<<4>>}, 11) \cup After({<<6, 0, 1, 1>>}, 11)
    [] kind = "IMEI" -> Runs(14)
    [] kind = "ISIN" -> After({<<30, 28>>, <<13, 14, 0, 0, 35>>}, 9)
                          \cup After({<<30, 28, 10, 24>>}, 7)
    [] kind = "ISO6346" -> After({<<12, 28, 26, 30>>, <<10, 21, 32, 30>>}, 6)
=============================================================================
