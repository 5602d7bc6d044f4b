---------------------------- MODULE IssuedCodes ----------------------------
(* What check digits are for.  Somebody issues a code that its validator    *)
(* accepts, somebody else copies it by hand with one slip of the pen, and   *)
(* the validator is asked about the copy.                                   *)
EXTENDS CheckDigits

CONSTANTS
  Schemes,      \* the validators that are asked
  Bodies(_)     \* scheme |-> codes without their check characters

VARIABLES
  scheme,
  body,         \* what is encoded
  code,         \* the code that was issued for it, << >> before that
  copy,         \* what was copied of it, << >> before that
  slip          \* "none", "digit" or "swap"

vars == <<scheme, body, code, copy, slip>>

(* The validator of a scheme. *)
Accepts(kind, s) ==
  CASE kind = "PL" -> IsPL(s) [] kind = "ES" -> IsES(s)
    [] kind = "FI" -> IsFI(s) [] kind = "IN" -> IsIN(s)
    [] kind = "IR" -> IsIR(s) [] kind = "NO" -> IsNO(s)
    [] kind = "TH" -> IsTH(s) [] kind = "he-IL" -> IsHeIL(s)
    [] kind = "zh-CN" -> IsZhCN(s) [] kind = "zh-HK" -> IsZhHK(s)
    [] kind = "zh-TW" -> IsZhTW(s) [] kind = "AU" -> IsAU(s)
    [] kind = "CH" -> IsCH(s) [] kind = "PT" -> IsPT(s)
    [] kind = "ABA" -> IsAbaRouting(s) [] kind = "IBAN" -> IsIBAN(s)
    [] kind = "EAN" -> IsEAN(s) [] kind = "ISBN10" -> IsISBN10(s)
    [] kind = "ISBN13" -> IsISBN13(s) [] kind = "ISSN" -> IsISSN(s)
    [] kind = "Luhn" -> IsLuhnNumber(s) [] kind = "card" -> IsCreditCard(s)
    [] kind = "IMEI" -> IsIMEI(s) [] kind = "ISIN" -> IsISIN(s)
    [] kind = "ISO6346" -> IsISO6346(s)

(* Where the check characters are: two in front of an ABN, two after the  *)
(* country of an IBAN, two at the end of a Norwegian number, else one at  *)
(* the end.                                                               *)
Completions(kind, b) ==
  LET pairs == {<<d, e>> : d \in Digits, e \in Digits}
  IN CASE kind = "AU" -> {p \o b : p \in pairs}
       [] kind = "IBAN" -> {SubSeq(b, 1, 2) \o p \o SubSeq(b, 3, Len(b)) :
                              p \in pairs}
       [] kind = "NO" -> {b \o p : p \in pairs}
       [] kind \in {"ES", "FI", "zh-CN", "zh-HK", "ISBN10", "ISSN"} ->
            {Append(b, c) : c \in 0..35}
       [] OTHER -> {Append(b, c) : c \in Digits}

Codes(kind, b) == {s \in Completions(kind, b) : Accepts(kind, s)}

-----------------------------------------------------------------------------
Init ==
  /\ scheme \in Schemes
  /\ body \in Bodies(scheme)
  /\ code = << >> /\ copy = << >>
  /\ slip = "none"

Issue ==
  /\ code = << >>
  /\ code' \in Codes(scheme, body)
  /\ UNCHANGED <<scheme, body, copy, slip>>

(* Another digit where there was one. *)
MistypeDigit ==
  /\ code # << >> /\ copy = << >>
  /\ \E i \in {j \in DOMAIN code : code[j] \in Digits} :
       \E d \in Digits \ {code[i]} : copy' = [code EXCEPT ![i] = d]
  /\ slip' = "digit"
  /\ UNCHANGED <<scheme, body, code>>

(* Two neighbours in the wrong order. *)
SwapNeighbours ==
  /\ code # << >> /\ copy = << >>
  /\ \E i \in 1 .. Len(code) - 1 :
       /\ code[i] # code[i + 1]
       /\ copy' = [code EXCEPT ![i] = code[i + 1], ![i + 1] = code[i]]
  /\ slip' = "swap"
  /\ UNCHANGED <<scheme, body, code>>

Next == Issue \/ MistypeDigit \/ SwapNeighbours

Spec == Init /\ [][Next]_vars

-----------------------------------------------------------------------------
(* What the schemes promise.  Each of the sets leaves out the schemes whose *)
(* sums have that weakness by design.                                       *)

(* Two rests share a check digit, 0 and 10 (TH, PT, ISO 6346) or 1 and 10 *)
(* (IR), or the weights have factors of the modulus (zh-TW).              *)
MissDigits == {"IR", "TH", "PT", "ISO6346", "zh-TW"}

(* Sums in steps of ten that two neighbours a distance of five apart, or *)
(* Luhn's pair 0 and 9, leave alone.                                     *)
EvenSteps == {"PL", "he-IL", "ABA", "EAN", "ISBN13", "Luhn", "card",
              "IMEI", "ISIN"}

TypeOK ==
  /\ scheme \in Schemes
  /\ body \in Bodies(scheme)
  /\ code = << >> \/ code \in Completions(scheme, body)
  /\ copy = << >> \/ Len(copy) = Len(code)
  /\ slip \in {"none", "digit", "swap"}
  /\ slip = "none" <=> copy = << >>

(* A code copied with one wrong digit is refused. *)
WrongDigitIsRefused ==
  slip = "digit" /\ scheme \notin MissDigits => ~Accepts(scheme, copy)

(* A code copied with two neighbours exchanged is refused. *)
SwapIsRefused ==
  slip = "swap" /\ scheme \notin MissDigits \cup EvenSteps
    => ~Accepts(scheme, copy)

SlipsAreRefused == WrongDigitIsRefused /\ SwapIsRefused

(* Nothing has two codes: whoever issues one has no choice of the check  *)
(* characters.  IBAN's remainder repeats after 97 and ABN's after 89 of  *)
(* the hundred pairs, and the validators accept both.                    *)
OneCodeEach ==
  code = << >> /\ scheme \notin {"IBAN", "AU"}
    => Cardinality(Codes(scheme, body)) <= 1

(* Validators that compute the same sum in different ways agree on every *)
(* text they both know: Luhn's from the right, from the left and for     *)
(* letters, EAN's and ISBN's, and IBAN's remainder of the whole number   *)
(* with the remainder in chunks.                                         *)
Remainder97(figures) ==
  FoldLeft(LAMBDA remainder, d : (10 * remainder + d) % 97, 0, figures)

SameSums ==
  \A s \in {code, copy} :
     /\ IsText(s, 9, Digits) => (IsHeIL(s) <=> IsLuhnNumber(s))
     /\ IsText(s, 15, Digits) => (IsIMEI(s) <=> IsLuhnNumber(s))
     /\ IsText(s, 13, Digits) => (IsEAN(s) <=> IsISBN13(s))
     /\ scheme = "ISIN" /\ s # << >>
          => (IsISIN(s) <=> IsLuhnNumber(FoldLeft(LAMBDA t, c : t \o Figures(c),
                                                  << >>, s)))
     /\ scheme = "IBAN" /\ s # << >>
          => IbanRemainder(Rearranged(s)) = Remainder97(Rearranged(s))

(* The check characters are a function of the rest, and the same one *)
(* wherever it is computed.                                          *)
SumsAgree == TypeOK /\ OneCodeEach /\ SameSums
=============================================================================
