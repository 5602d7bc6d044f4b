---------------------------- MODULE CheckDigits ----------------------------
(* The validators of packages/validation that accept a number only if its   *)
(* check digits fit: identity cards, VAT numbers, bank accounts, products,  *)
(* books, devices, securities, containers and payment cards.                *)
(*                                                                          *)
(* A text is a sequence of characters, each the number the validators read  *)
(* it as: 0..9 are the digits, 10..35 the letters A..Z in upper case. The   *)
(* blanks, hyphens and brackets that a validator strips, lower case, and    *)
(* the conversion of the value to a text are left out.                      *)
EXTENDS Integers, Sequences, SequencesExt, FiniteSets

CONSTANTS
  Today,        \* the date on which an identity card is checked, yyyymmdd
  Countries     \* the countries of IBAN's table: two letters |-> the classes
                \* of the characters that follow the check digits

ASSUME TodayAssumption == Today \in Nat
ASSUME CountriesAssumption ==
  \A country \in DOMAIN Countries :
     /\ country \in [1..2 -> 10..35]
     /\ \A i \in DOMAIN Countries[country] :
           Countries[country][i] \in {"digit", "letter", "either"}

Digits == 0..9
Letters == 10..35
X == 33

-----------------------------------------------------------------------------
(* Shared shapes. *)

(* The text is n characters of the set. *)
IsText(s, n, set) == Len(s) = n /\ \A i \in 1..n : s[i] \in set

(* The sum of weight times character, over the positions that have a weight. *)
Weighted(s, weights) ==
  FoldLeft(LAMBDA sum, i : sum + weights[i] * s[i], 0,
           [i \in 1..Len(weights) |-> i])

(* The number that the characters from one position to another spell. *)
Spelled(s, from, to) ==
  FoldLeft(LAMBDA number, d : 10 * number + d, 0, SubSeq(s, from, to))

(* Slip: the tens of a doubled digit are forgotten. *)
DoubledUnits(d) == (2 * d) % 10

(* A doubled digit: the sum of its two figures. *)
Doubled(d) == IF 2 * d >= 10 THEN ((2 * d) % 10) + 1 ELSE 2 * d

-----------------------------------------------------------------------------
(* Identity cards. *)

IsPL(s) ==
  /\ IsText(s, 11, Digits)
  /\ LET modulo == Weighted(s, <<1, 3, 7, 9, 1, 3, 7, 9, 1, 3>>) % 10
     IN (modulo = 0 /\ s[11] = 0) \/ s[11] = 10 - modulo

(* T R W A G M Y F P D X B N J Z S Q V H L C K E *)
ControlLetters == <<29, 27, 32, 10, 16, 22, 34, 15, 25, 13, 33, 11, 23, 19,
                    35, 28, 26, 31, 17, 21, 12, 20, 14>>

(* X, Y and Z stand for the figures 0, 1 and 2. *)
IsES(s) ==
  /\ Len(s) = 9
  /\ s[1] \in Digits \cup 33..35
  /\ \A i \in 2..8 : s[i] \in Digits
  /\ s[9] \in ToSet(ControlLetters)
  /\ LET first == IF s[1] >= X THEN s[1] - X ELSE s[1]
         number == first * 10000000 + Spelled(s, 2, 8)
     IN s[9] = ControlLetters[(number % 23) + 1]

(* 0..9 A B C D E F H J K L M N P R S T U V W X Y *)
FinnishDigits == <<0, 1, 2, 3, 4, 5, 6, 7, 8, 9, 10, 11, 12, 13, 14, 15, 17,
                   19, 20, 21, 22, 23, 25, 27, 28, 29, 30, 31, 32, 33, 34>>

(* Date, individual number and check character; the sign of the century *)
(* between the first two, which the check leaves out, is left out.      *)
IsFI(s) ==
  /\ Len(s) = 10
  /\ \A i \in 1..9 : s[i] \in Digits
  /\ s[10] \in ToSet(FinnishDigits)
  /\ s[10] = FinnishDigits[(Spelled(s, 1, 9) % 31) + 1]

VerhoeffMultiplication ==
  << <<0, 1, 2, 3, 4, 5, 6, 7, 8, 9>>, <<1, 2, 3, 4, 0, 6, 7, 8, 9, 5>>,
     <<2, 3, 4, 0, 1, 7, 8, 9, 5, 6>>, <<3, 4, 0, 1, 2, 8, 9, 5, 6, 7>>,
     <<4, 0, 1, 2, 3, 9, 5, 6, 7, 8>>, <<5, 9, 8, 7, 6, 0, 4, 3, 2, 1>>,
     <<6, 5, 9, 8, 7, 1, 0, 4, 3, 2>>, <<7, 6, 5, 9, 8, 2, 1, 0, 4, 3>>,
     <<8, 7, 6, 5, 9, 3, 2, 1, 0, 4>>, <<9, 8, 7, 6, 5, 4, 3, 2, 1, 0>> >>

VerhoeffPermutation ==
  << <<0, 1, 2, 3, 4, 5, 6, 7, 8, 9>>, <<1, 5, 7, 6, 2, 8, 3, 0, 9, 4>>,
     <<5, 8, 0, 3, 7, 9, 6, 1, 4, 2>>, <<8, 9, 1, 6, 0, 4, 3, 5, 2, 7>>,
     <<9, 4, 5, 3, 1, 2, 6, 8, 7, 0>>, <<4, 2, 8, 6, 5, 7, 3, 9, 0, 1>>,
     <<2, 7, 9, 3, 8, 0, 6, 4, 1, 5>>, <<7, 0, 4, 6, 9, 1, 3, 2, 5, 8>> >>

IsIN(s) ==
  /\ IsText(s, 12, Digits) /\ s[1] # 0
  /\ LET inverted == Reverse(s)
         Step(checksum, i) ==
           VerhoeffMultiplication[checksum + 1]
             [VerhoeffPermutation[((i - 1) % 8) + 1][inverted[i] + 1] + 1]
     IN FoldLeftDomain(Step, 0, inverted) = 0

IsIR(s) ==
  /\ IsText(s, 10, Digits)
  /\ \E i \in 4..9 : s[i] # 0
  /\ LET sum == Weighted(s, [i \in 1..9 |-> 11 - i]) % 11
     IN s[10] = IF sum < 2 THEN sum ELSE 11 - sum

IsNO(s) ==
  /\ IsText(s, 11, Digits)
  /\ \E i \in 1..11 : s[i] # 0
  /\ LET k1 == (11 - (Weighted(s, <<3, 7, 6, 1, 8, 9, 4, 5, 2>>) % 11)) % 11
         k2 == (11 - ((Weighted(s, <<5, 4, 3, 2, 7, 6, 5, 4, 3>>) + 2 * k1)
                        % 11)) % 11
     IN s[10] = k1 /\ s[11] = k2

IsTH(s) ==
  /\ IsText(s, 13, Digits) /\ s[1] \in 1..8
  /\ s[13] = (11 - (Weighted(s, [i \in 1..12 |-> 14 - i]) % 11)) % 10

IsHeIL(s) ==
  /\ IsText(s, 9, Digits)
  /\ FoldLeftDomain(LAMBDA sum, i : LET number == s[i] * (((i - 1) % 2) + 1)
                                    IN sum + (IF number > 9 THEN number - 9
                                                            ELSE number),
                    0, s) % 10 = 0

ProvincesAndCities ==
  11..15 \cup 21..23 \cup 31..37 \cup 41..46 \cup 50..54 \cup 61..65
    \cup {71, 81, 82, 91}

DaysInMonth == <<31, 28, 31, 30, 31, 30, 31, 31, 30, 31, 30, 31>>
IsLeapYear(year) == (year % 4 = 0 /\ year % 100 # 0) \/ year % 400 = 0
IsCalendarDate(year, month, day) ==
  /\ month \in 1..12 /\ day >= 1
  /\ day <= IF month = 2 /\ IsLeapYear(year) THEN 29 ELSE DaysInMonth[month]

CheckBirthDayCode(year, monthAndDay) ==
  /\ IsCalendarDate(year, monthAndDay \div 100, monthAndDay % 100)
  /\ year * 10000 + monthAndDay <= Today

(* 1 0 X 9 8 7 6 5 4 3 2 *)
ParityBit == <<1, 0, X, 9, 8, 7, 6, 5, 4, 3, 2>>
Powers == <<7, 9, 10, 5, 8, 4, 2, 1, 6, 3, 7, 9, 10, 5, 8, 4, 2>>

Check15IdCardNo(s) ==
  /\ s[1] # 0
  /\ Spelled(s, 1, 2) \in ProvincesAndCities
  /\ CheckBirthDayCode(1900 + Spelled(s, 7, 8), Spelled(s, 9, 12))

Check18IdCardNo(s) ==
  /\ s[1] # 0 /\ s[7] # 0
  /\ Spelled(s, 1, 2) \in ProvincesAndCities
  /\ CheckBirthDayCode(Spelled(s, 7, 10), Spelled(s, 11, 14))
  /\ s[18] = ParityBit[(Weighted(s, Powers) % 11) + 1]

IsZhCN(s) ==
  \/ IsText(s, 15, Digits) /\ Check15IdCardNo(s)
  \/ /\ Len(s) = 18
     /\ \A i \in 1..17 : s[i] \in Digits
     /\ s[18] \in Digits \cup {X}
     /\ Check18IdCardNo(s)

(* One or two letters, six digits and a digit or A; a card of one letter *)
(* is read as if it began with a 3.                                      *)
IsZhHK(s) ==
  LET n == Len(s)
      t == IF n = 8 THEN <<3>> \o s ELSE s
      sum == Weighted([i \in 1..8 |-> t[i] % 11], [i \in 1..8 |-> 10 - i]) % 11
  IN /\ n \in {8, 9}
     /\ \A i \in 1 .. n - 7 : s[i] \in Letters
     /\ \A i \in n - 6 .. n - 1 : s[i] \in Digits
     /\ s[n] \in 0..10
     /\ s[n] = CASE sum = 0 -> 0 [] sum = 1 -> 10 [] OTHER -> 11 - sum

(* The numbers of A..Z. *)
AlphabetCodes == <<10, 11, 12, 13, 14, 15, 16, 17, 34, 18, 19, 20, 21, 22, 35,
                   23, 24, 25, 26, 27, 28, 29, 32, 30, 31, 33>>

IsZhTW(s) ==
  /\ Len(s) = 10
  /\ s[1] \in Letters
  /\ \A i \in 2..10 : s[i] \in Digits
  /\ LET code == AlphabetCodes[s[1] - 9]
         sum == (code % 10) * 9 + code \div 10
                  + Weighted(Tail(s), [i \in 1..8 |-> 9 - i])
     IN (10 - (sum % 10) - s[10]) % 10 = 0

-----------------------------------------------------------------------------
(* VAT numbers. *)

(* One less than the first digit is read in its place: a number that begins *)
(* with 0 reads "-1...", whose sign is no number, and never fits.           *)
IsAU(s) ==
  /\ IsText(s, 11, Digits) /\ s[1] # 0
  /\ LET total == Weighted([s EXCEPT ![1] = @ - 1],
                           <<10, 1, 3, 5, 7, 9, 11, 13, 15, 17, 19>>)
     IN total # 0 /\ total % 89 = 0

IsCH(s) ==
  /\ IsText(s, 9, Digits)
  /\ s[9] = (11 - (Weighted(s, <<5, 4, 3, 2, 7, 6, 5, 4>>) % 11)) % 11

IsPT(s) ==
  /\ IsText(s, 9, Digits)
  /\ LET checksum == 11 - (Weighted(s, [i \in 1..8 |-> 10 - i]) % 11)
     IN s[9] = IF checksum > 9 THEN 0 ELSE checksum

-----------------------------------------------------------------------------
(* Bank accounts and routing numbers. *)

ReservedSeries == 13..20 \cup 33..60 \cup 73..79 \cup 81..99

IsAbaRouting(s) ==
  /\ IsText(s, 9, Digits)
  /\ Spelled(s, 1, 2) \notin ReservedSeries
  /\ Weighted(s, <<3, 7, 1, 3, 7, 1, 3, 7, 1>>) % 10 = 0

HasValidIbanFormat(s) ==
  /\ Len(s) >= 4
  /\ SubSeq(s, 1, 2) \in DOMAIN Countries
  /\ s[3] \in Digits /\ s[4] \in Digits
  /\ LET rest == Countries[SubSeq(s, 1, 2)]
     IN /\ Len(s) = 4 + Len(rest)
        /\ \A i \in DOMAIN rest :
              s[i + 4] \in CASE rest[i] = "digit" -> Digits
                             [] rest[i] = "letter" -> Letters
                             [] OTHER -> Digits \cup Letters

(* The account first, then the country and the check digits; a letter is *)
(* replaced by the two figures of its number.                            *)
Figures(c) == IF c \in Digits THEN <<c>> ELSE <<c \div 10, c % 10>>
Rearranged(s) ==
  FoldLeft(LAMBDA figures, c : figures \o Figures(c), <<>>,
           SubSeq(s, 5, Len(s)) \o SubSeq(s, 1, 4))

(* Slip: the last chunk is taken for one of seven figures too. *)
FullChunks(figures) ==
  FoldLeft(LAMBDA remainder, k :
             LET chunk == SubSeq(figures, 7 * k - 6,
                                 IF 7 * k <= Len(figures) THEN 7 * k
                                                          ELSE Len(figures))
             IN (remainder * 10 ^ 7 + Spelled(chunk, 1, Len(chunk))) % 97,
           0, [k \in 1 .. (Len(figures) + 6) \div 7 |-> k])

(* Chunks of seven figures: the remainder so far is written before the next *)
(* chunk, so no number that is read has more than nine figures.             *)
IbanRemainder(figures) ==
  FoldLeft(LAMBDA remainder, k :
             LET chunk == SubSeq(figures, 7 * k - 6,
                                 IF 7 * k <= Len(figures) THEN 7 * k
                                                          ELSE Len(figures))
             IN (remainder * 10 ^ Len(chunk) + Spelled(chunk, 1, Len(chunk)))
                   % 97,
           0, [k \in 1 .. (Len(figures) + 6) \div 7 |-> k])

IsIBAN(s) == HasValidIbanFormat(s) /\ IbanRemainder(Rearranged(s)) = 1

-----------------------------------------------------------------------------
(* Products, books and serials. *)

EanWeight(length, i) ==
  IF length \in {8, 14} THEN IF i % 2 = 1 THEN 3 ELSE 1
                        ELSE IF i % 2 = 1 THEN 1 ELSE 3

IsEAN(s) ==
  /\ \E n \in {8, 13, 14} : IsText(s, n, Digits)
  /\ LET n == Len(s)
         remainder == 10 - (Weighted(s, [i \in 1 .. n - 1 |-> EanWeight(n, i)])
                              % 10)
     IN s[n] = IF remainder < 10 THEN remainder ELSE 0

(* An X at the end counts ten. *)
IsISBN10(s) ==
  /\ Len(s) = 10
  /\ \A i \in 1..9 : s[i] \in Digits
  /\ s[10] \in Digits \cup {X}
  /\ (Weighted(s, [i \in 1..9 |-> i])
        + 10 * (IF s[10] = X THEN 10 ELSE s[10])) % 11 = 0

IsISBN13(s) ==
  /\ IsText(s, 13, Digits)
  /\ LET checksum == Weighted(s, [i \in 1..12 |-> IF i % 2 = 1 THEN 1 ELSE 3])
     IN s[13] - ((10 - (checksum % 10)) % 10) = 0

IsISSN(s) ==
  /\ Len(s) = 8
  /\ \A i \in 1..7 : s[i] \in Digits
  /\ s[8] \in Digits \cup {X}
  /\ (Weighted(s, [i \in 1..7 |-> 9 - i])
        + (IF s[8] = X THEN 10 ELSE s[8])) % 11 = 0

-----------------------------------------------------------------------------
(* Luhn's sum, written four times. *)

(* From the right, every second digit doubled. *)
IsLuhnNumber(s) ==
  LET n == Len(s)
  IN /\ n > 0 /\ IsText(s, n, Digits)
     /\ FoldLeftDomain(LAMBDA sum, i :
                         sum + (IF (n - i) % 2 = 1 THEN Doubled(s[i])
                                                   ELSE s[i]),
                       0, s) % 10 = 0

(* The card networks: by the first four digits and the length. *)
Networks(s) ==
  LET n == Len(s)
      prefix == Spelled(s, 1, 4)
  IN {network \in {"amex", "dinersclub", "discover", "jcb", "mastercard",
                   "unionpay", "visa"} :
        CASE network = "amex" -> n = 15 /\ prefix \div 100 \in {34, 37}
          [] network = "dinersclub" ->
               /\ n = 14
               /\ \/ prefix \div 10 \in 300..305
                  \/ prefix \div 100 \in {36, 38}
          [] network = "discover" ->
               n \in 16..19 /\ (prefix = 6011 \/ prefix \div 100 = 65)
          [] network = "jcb" ->
               \/ n = 15 /\ prefix \in {2131, 1800}
               \/ n = 16 /\ prefix \div 100 = 35
          [] network = "mastercard" ->
               n = 16 /\ prefix \in 5100..5599 \cup 2221..2720
          [] network = "unionpay" ->
               \/ n = 16 /\ prefix \div 100 \in {62, 67}
               \/ n \in 16..19 /\ prefix \div 100 = 81
          [] network = "visa" -> n \in {13} \cup 16..19 /\ prefix \div 1000 = 4}

IsCreditCard(s) ==
  /\ Len(s) >= 4 /\ IsText(s, Len(s), Digits)
  /\ Networks(s) # {}
  /\ IsLuhnNumber(s)

(* The check digit is computed from the fourteen digits before it. *)
IsIMEI(s) ==
  /\ IsText(s, 15, Digits)
  /\ LET sum == FoldLeft(LAMBDA acc, i :
                           acc + (IF i % 2 = 1 THEN Doubled(s[15 - i])
                                               ELSE s[15 - i]),
                         0, [k \in 1..14 |-> k])
     IN s[15] = (10 - (sum % 10)) % 10

(* A letter counts as its two figures. *)
IsISIN(s) ==
  LET figures == FoldLeft(LAMBDA acc, c : acc \o Figures(c), <<>>,
                          SubSeq(s, 1, 11))
      n == Len(figures)
      sum == FoldLeftDomain(LAMBDA acc, i :
                              acc + (IF (n - i) % 2 # 0 THEN figures[i]
                                     ELSE IF figures[i] >= 5
                                          THEN 1 + (figures[i] - 5) * 2
                                          ELSE figures[i] * 2),
                            0, figures)
  IN /\ Len(s) = 12
     /\ s[1] \in Letters /\ s[2] \in Letters
     /\ \A i \in 3..11 : s[i] \in Digits \cup Letters
     /\ s[12] \in Digits
     /\ s[12] = ((sum + 9) \div 10) * 10 - sum

-----------------------------------------------------------------------------
(* Containers: the owner's three letters, the category and the serial; the *)
(* numbers of the letters skip the multiples of 11.                        *)

ContainerCode(c) ==
  CASE c < 11 -> c
    [] c \in 11..20 -> 12 + (c % 11)
    [] c \in 21..30 -> 23 + (c % 21)
    [] OTHER -> 34 + (c % 31)

IsISO6346(s) ==
  LET n == Len(s)
      sum == Weighted([i \in 1..10 |-> ContainerCode(s[i])],
                      [i \in 1..10 |-> 2 ^ (i - 1)]) % 11
  IN /\ n \in {10, 11}
     /\ \A i \in 1..3 : s[i] \in Letters
     /\ \/ s[4] = 30 /\ n = 11            \* U
        \/ s[4] \in {19, 35}              \* J, Z
     /\ \A i \in 5..n : s[i] \in Digits
     /\ n = 11 => s[11] = IF sum = 10 THEN 0 ELSE sum
=============================================================================
