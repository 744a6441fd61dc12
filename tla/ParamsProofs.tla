---------------------------- MODULE ParamsProofs ----------------------------
(***************************************************************************)
(* Numbers, headers and settings, for every value and every file: the      *)
(* numerals that ax_format_uint64 writes and strtol reads, the fields of   *)
(* an intent, the model_id that gw_config.c loads, and the parameters that *)
(* are sent, recorded and recovered.                                       *)
(***************************************************************************)
EXTENDS ParamsProps, ConfigProps, AxTextProofs

-----------------------------------------------------------------------------
(* Numbers as text: ax_format_uint64 and strtol. *)

(* Induction with the hypothesis for all smaller numbers. *)
LEMMA StrongInduction ==
  ASSUME NEW N \in Nat, NEW S, \A n \in 0 .. N : (\A k \in 0 .. n - 1 : k \in S) => n \in S
  PROVE  \A n \in 0 .. N : n \in S
<1> SUFFICES ASSUME NEW b \in 0 .. N, b \notin S PROVE FALSE
  OBVIOUS
<1> DEFINE T == {n \in 0 .. N : n \notin S}
<1>1. T \in SUBSET Nat /\ b \in T
  OBVIOUS
<1>2. PICK m \in T : \A k \in T : m <= k
  BY Zenon, <1>1, LeastMember
<1>3. m \in 0 .. N /\ m \notin S
  BY Zenon
<1>4. ASSUME NEW k \in 0 .. m - 1 PROVE k \in S
  <2>1. k \in 0 .. N /\ ~(m <= k)
    BY <1>3
  <2> QED BY Zenon, <1>2, <2>1
<1> QED BY Zenon, <1>3, <1>4

(* The digits, and what strtol makes of them. *)
Digits == {Digit[d + 1] : d \in 0 .. 9}
DigitOf(c) == CHOOSE d \in 0 .. 9 : Digit[d + 1] = c

(* No two digits are the same character, and none is a sign or begins      *)
(* null.                                                                   *)
LEMMA DigitsDiffer ==
  /\ \A d, e \in 0 .. 9 : Digit[d + 1] = Digit[e + 1] => d = e
  /\ "-" \notin Digits /\ "n" \notin Digits
<1>1. /\ Digit[1] = "0" /\ Digit[2] = "1" /\ Digit[3] = "2" /\ Digit[4] = "3" /\ Digit[5] = "4"
      /\ Digit[6] = "5" /\ Digit[7] = "6" /\ Digit[8] = "7" /\ Digit[9] = "8" /\ Digit[10] = "9"
  BY DEF Digit
<1>2. \A d \in 0 .. 9 : d + 1 \in 1 .. 10
  OBVIOUS
<1>3. \A d \in 1 .. 10 : d = 1 \/ d = 2 \/ d = 3 \/ d = 4 \/ d = 5 \/ d = 6 \/ d = 7 \/ d = 8 \/ d = 9 \/ d = 10
  OBVIOUS
<1>4. \A i, j \in 1 .. 10 : Digit[i] = Digit[j] => i = j
  BY SMTT(30), <1>1, <1>3
<1>5. \A i \in 1 .. 10 : Digit[i] # "-" /\ Digit[i] # "n"
  BY SMT, <1>1, <1>3
<1>6. \A d, e \in 0 .. 9 : d + 1 = e + 1 => d = e
  OBVIOUS
<1> QED BY Zenon, <1>2, <1>4, <1>5, <1>6 DEF Digits

(* A digit is read as the number it was written for. *)
LEMMA DigitOfDigit == ASSUME NEW d \in 0 .. 9 PROVE DigitOf(Digit[d + 1]) = d
BY Zenon, DigitsDiffer DEF DigitOf

(* A digit is read as a number below ten. *)
LEMMA DigitOfType == ASSUME NEW c \in Digits PROVE DigitOf(c) \in 0 .. 9
<1>1. PICK d \in 0 .. 9 : c = Digit[d + 1]
  BY Zenon DEF Digits
<1> QED BY Zenon, <1>1, DigitOfDigit

(* f reads the numeral s as w, digit by digit. *)
Reads(f, s, w) ==
  /\ f \in [0 .. Len(s) -> Nat] /\ f[0] = 0 /\ f[Len(s)] = w
  /\ \A n \in 1 .. Len(s) : f[n] = f[n - 1] * 10 + DigitOf(s[n])

(* A numeral of one digit reads as that digit. *)
LEMMA ReadsOne ==
  ASSUME NEW d \in 0 .. 9
  PROVE  \E f : Reads(f, <<Digit[d + 1]>>, d)
<1> DEFINE s == <<Digit[d + 1]>>
           f == [n \in 0 .. 1 |-> IF n = 0 THEN 0 ELSE d]
<1>1. Len(s) = 1 /\ s[1] = Digit[d + 1] /\ \A n \in 1 .. 1 : n = 1 /\ 1 - 1 = 0
  OBVIOUS
<1>2. f \in [0 .. 1 -> Nat] /\ f[0] = 0 /\ f[1] = d /\ d = 0 * 10 + d
  OBVIOUS
<1> HIDE DEF f, s
<1>3. Reads(f, s, d)
  BY Zenon, <1>1, <1>2, DigitOfDigit DEF Reads
<1> QED BY Zenon, <1>3 DEF s

(* One more digit reads as ten times the number and that digit. *)
LEMMA ReadsNext ==
  ASSUME NEW s \in Seq(Digits), NEW f, NEW w \in Nat, Reads(f, s, w), NEW d \in 0 .. 9
  PROVE  \E g : Reads(g, Append(s, Digit[d + 1]), 10 * w + d)
<1> DEFINE N == Len(s)
           t == Append(s, Digit[d + 1])
           g == [n \in 0 .. N + 1 |-> IF n = N + 1 THEN 10 * w + d ELSE f[n]]
<1>1. N \in Nat /\ Len(t) = N + 1 /\ t[N + 1] = Digit[d + 1] /\ \A n \in 1 .. N : t[n] = s[n]
  <2>1. Digit[d + 1] \in Digits
    BY Zenon DEF Digits
  <2> QED BY <2>1
<1>2. f \in [0 .. N -> Nat] /\ f[0] = 0 /\ f[N] = w
  BY Zenon DEF Reads
<1>3. \A n \in 1 .. N : f[n] = f[n - 1] * 10 + DigitOf(s[n])
  BY Zenon DEF Reads
<1>4. g \in [0 .. N + 1 -> Nat]
  <2>1. 10 * w + d \in Nat
    OBVIOUS
  <2>2. \A n \in 0 .. N + 1 : n # N + 1 => n \in 0 .. N
    BY <1>1
  <2> QED BY Zenon, <1>2, <2>1, <2>2
<1>5. 0 \in 0 .. N + 1 /\ 0 # N + 1 /\ N \in 0 .. N + 1 /\ N # N + 1 /\ N + 1 \in 0 .. N + 1 /\ N + 1 - 1 = N
  BY <1>1
<1>6. g[0] = 0 /\ g[N + 1] = 10 * w + d /\ g[N] = w
  BY Zenon, <1>2, <1>5
<1>7. ASSUME NEW n \in 1 .. N + 1 PROVE g[n] = g[n - 1] * 10 + DigitOf(t[n])
  <2>1. CASE n = N + 1
    <3>1. w * 10 + d = 10 * w + d
      OBVIOUS
    <3> HIDE DEF g, t
    <3>2. n - 1 = N
      BY <1>1, <2>1
    <3>3. g[n] = 10 * w + d /\ g[n - 1] = w
      BY Zenon, <1>6, <2>1, <3>2
    <3>4. DigitOf(t[n]) = d
      BY Zenon, <1>1, <2>1, DigitOfDigit
    <3> QED BY Zenon, <3>1, <3>3, <3>4
  <2>2. CASE n # N + 1
    <3>1. n \in 1 .. N /\ n - 1 \in 0 .. N + 1 /\ n - 1 # N + 1 /\ n \in 0 .. N + 1
      BY <1>1, <2>2
    <3>2. g[n] = f[n] /\ g[n - 1] = f[n - 1]
      BY Zenon, <2>2, <3>1
    <3> HIDE DEF g, t
    <3> QED BY Zenon, <1>1, <1>3, <3>1, <3>2
  <2> QED BY Zenon, <2>1, <2>2
<1> HIDE DEF g, t
<1>8. Reads(g, t, 10 * w + d)
  BY Zenon, <1>1, <1>4, <1>6, <1>7 DEF Reads
<1> QED BY Zenon, <1>8 DEF t

(* s begins with a sign. *)
HasSign(s) == s # <<>> /\ s[1] = "-"

(* What strtol makes of a text is what its digits come to, one by one. *)
LEMMA StrtolWalks ==
  ASSUME NEW s, Len(s) \in Nat, NEW f,
         f = [n \in 0 .. Len(s) |-> IF n = 0 \/ (n = 1 /\ HasSign(s)) THEN 0
                                     ELSE f[n - 1] * 10 + DigitOf(s[n])]
  PROVE  strtol(s) = IF HasSign(s) THEN -f[Len(s)] ELSE f[Len(s)]
<1> DEFINE N == Len(s)
           Ok(v) == v = [n \in 0 .. N |-> IF n = 0 \/ (n = 1 /\ HasSign(s)) THEN 0
                                          ELSE v[n - 1] * 10 + DigitOf(s[n])]
           c == CHOOSE v : Ok(v)
           S == {n \in Nat : n \in 0 .. N => c[n] = f[n]}
<1>1. strtol(s) = IF HasSign(s) THEN -c[N] ELSE c[N]
  BY DEF strtol, HasSign, DigitOf
<1>2. Ok(f)
  BY Zenon
<1>3. Ok(c)
  <2> HIDE DEF Ok
  <2> QED BY Zenon, <1>2
<1> HIDE DEF c
<1>4. \A n \in 0 .. N : (n = 0 \/ (n = 1 /\ HasSign(s))) => c[n] = 0 /\ f[n] = 0
  BY Zenon, <1>2, <1>3
<1>5. \A n \in 0 .. N : ~(n = 0 \/ (n = 1 /\ HasSign(s)))
         => c[n] = c[n - 1] * 10 + DigitOf(s[n]) /\ f[n] = f[n - 1] * 10 + DigitOf(s[n])
  BY Zenon, <1>2, <1>3
<1>6. 0 \in S
  <2>1. 0 \in Nat
    OBVIOUS
  <2> QED BY Zenon, <1>4, <2>1
<1>7. ASSUME NEW n \in Nat, n \in S PROVE n + 1 \in S
  <2>1. n + 1 \in Nat /\ (n + 1) - 1 = n /\ (n + 1 \in 0 .. N => n \in 0 .. N)
    OBVIOUS
  <2> SUFFICES ASSUME n + 1 \in 0 .. N PROVE c[n + 1] = f[n + 1]
    BY Zenon, <2>1
  <2>2. PICK m \in 0 .. N : m = n + 1 /\ m - 1 = n
    BY Zenon, <2>1
  <2>3. c[m - 1] = f[m - 1]
    BY Zenon, <1>7, <2>1, <2>2
  <2> QED BY Zenon, <1>4, <1>5, <2>2, <2>3
<1>8. \A n \in Nat : n \in S
  <2> HIDE DEF S
  <2> QED BY Zenon, <1>6, <1>7, Induction
<1>9. N \in 0 .. N /\ N \in Nat
  OBVIOUS
<1>10. c[N] = f[N]
  BY Zenon, <1>8, <1>9
<1> QED BY Zenon, <1>1, <1>10

(* A numeral without a sign is the number its digits come to, *)
LEMMA StrtolReads ==
  ASSUME NEW s \in Seq(Digits), s # <<>>, NEW f, NEW w, Reads(f, s, w)
  PROVE  strtol(s) = w
<1>1. Len(s) \in Nat /\ s[1] \in Digits
  BY EmptySeq
<1>2. ~HasSign(s)
  BY Zenon, <1>1, DigitsDiffer DEF HasSign
<1>3. /\ f \in [0 .. Len(s) -> Nat] /\ f[0] = 0 /\ f[Len(s)] = w
      /\ \A n \in 1 .. Len(s) : f[n] = f[n - 1] * 10 + DigitOf(s[n])
  BY Zenon DEF Reads
<1>4. \A n \in 0 .. Len(s) : n # 0 => n \in 1 .. Len(s)
  BY <1>1
<1>5. f = [n \in 0 .. Len(s) |-> IF n = 0 \/ (n = 1 /\ HasSign(s)) THEN 0
                                 ELSE f[n - 1] * 10 + DigitOf(s[n])]
  BY Zenon, <1>2, <1>3, <1>4
<1> QED BY Zenon, <1>1, <1>2, <1>3, <1>5, StrtolWalks

(* and one with a sign is its negative. *)
LEMMA StrtolReadsSigned ==
  ASSUME NEW t \in Seq(Digits), NEW f, NEW w, Reads(f, t, w)
  PROVE  strtol(<<"-">> \o t) = -w
<1> DEFINE s == <<"-">> \o t
           L == Len(t)
           g == [n \in 0 .. L + 1 |-> IF n = 0 THEN 0 ELSE f[n - 1]]
<1>1. /\ f \in [0 .. L -> Nat] /\ f[0] = 0 /\ f[L] = w /\ L \in Nat
      /\ \A n \in 1 .. L : f[n] = f[n - 1] * 10 + DigitOf(t[n])
  <2>1. L \in Nat
    OBVIOUS
  <2> QED BY Zenon, <2>1 DEF Reads
<1>2. /\ Len(s) = L + 1 /\ s # <<>> /\ s[1] = "-" /\ Len(s) \in Nat
      /\ \A i \in 1 .. L : s[i + 1] = t[i]
  <2>1. t \in Seq(Digits \cup {"-"}) /\ <<"-">> \in Seq(Digits \cup {"-"})
    OBVIOUS
  <2>2. Len(s) = L + 1 /\ s[1] = "-" /\ \A i \in 1 .. L : s[i + 1] = t[i]
    BY <2>1
  <2> QED BY <2>2, EmptySeq
<1> HIDE DEF s
<1>3. HasSign(s)
  BY Zenon, <1>2 DEF HasSign
<1>4. ASSUME NEW n \in 0 .. L + 1
      PROVE  g[n] = IF n = 0 \/ (n = 1 /\ HasSign(s)) THEN 0 ELSE g[n - 1] * 10 + DigitOf(s[n])
  <2>1. CASE n = 0
    BY Zenon, <2>1
  <2>2. CASE n = 1
    <3>1. n - 1 = 0 /\ n # 0
      BY <2>2
    <3> QED BY Zenon, <1>1, <1>3, <2>2, <3>1
  <2>3. CASE n # 0 /\ n # 1
    <3>1. PICK k \in 1 .. L : k = n - 1 /\ k + 1 = n /\ n - 1 \in 0 .. L + 1 /\ n - 1 # 0
      BY <1>1, <2>3
    <3>2. g[n] = f[k] /\ g[n - 1] = f[k - 1]
      BY Zenon, <2>3, <3>1
    <3>3. f[k] = f[k - 1] * 10 + DigitOf(t[k]) /\ s[n] = t[k]
      BY Zenon, <1>1, <1>2, <3>1
    <3> HIDE DEF g
    <3>4. g[n - 1] * 10 + DigitOf(s[n]) = f[k - 1] * 10 + DigitOf(t[k])
      BY Zenon, <3>2, <3>3
    <3>5. g[n] = g[n - 1] * 10 + DigitOf(s[n])
      BY Zenon, <3>2, <3>3, <3>4
    <3> QED BY Zenon, <2>3, <3>5
  <2> QED BY Zenon, <2>1, <2>2, <2>3
<1>5. g = [n \in 0 .. L + 1 |-> IF n = 0 \/ (n = 1 /\ HasSign(s)) THEN 0 ELSE g[n - 1] * 10 + DigitOf(s[n])]
  BY Zenon, <1>4
<1>6. g[L + 1] = w
  <2>1. PICK m \in 0 .. L + 1 : m = L + 1 /\ m # 0 /\ m - 1 = L
    BY <1>1
  <2>2. g[m] = f[m - 1]
    BY Zenon, <2>1
  <2> HIDE DEF g
  <2> QED BY Zenon, <1>1, <2>1, <2>2
<1> HIDE DEF g
<1>7. strtol(s) = -w
  BY Zenon, <1>2, <1>3, <1>5, <1>6, StrtolWalks
<1> QED BY Zenon, <1>7 DEF s

(* The digits of a number read back as the number. *)
LEMMA DigitsRead ==
  ASSUME NEW v \in Nat
  PROVE  /\ ax_format_uint64(v) \in Seq(Digits) /\ ax_format_uint64(v) # <<>>
         /\ \E f : Reads(f, ax_format_uint64(v), v)
         /\ strtol(ax_format_uint64(v)) = v
<1> DEFINE V == Seq(Digits)
           H == [n \in 0 .. v |-> [g \in [0 .. n - 1 -> V] |->
                   IF n < 10 THEN <<Digit[n + 1]>> ELSE Append(g[n \div 10], Digit[(n % 10) + 1])]]
           Ok(f) == f = [n \in 0 .. v |->
                           IF n < 10 THEN <<Digit[n + 1]>> ELSE Append(f[n \div 10], Digit[(n % 10) + 1])]
           c == CHOOSE f : Ok(f)
           Good(n) == c[n] \in V /\ c[n] # <<>> /\ \E f : Reads(f, c[n], n)
           S == {n \in 0 .. v : Good(n)}
<1>1. \A d \in 0 .. 9 : Digit[d + 1] \in Digits
  BY Zenon DEF Digits
<1>2. ASSUME NEW n \in 0 .. v
      PROVE  /\ n < 10 => n \in 0 .. 9
             /\ ~(n < 10) => n \div 10 \in 0 .. n - 1 /\ n \div 10 \in Nat /\ n = 10 * (n \div 10) + (n % 10)
             /\ n % 10 \in 0 .. 9 /\ n \in Nat
  OBVIOUS
<1>3. \A d \in 0 .. 9 : <<Digit[d + 1]>> \in V /\ <<Digit[d + 1]>> # <<>>
  <2>1. \A x \in Digits : <<x>> \in Seq(Digits) /\ <<x>> # <<>>
    OBVIOUS
  <2> QED BY Zenon, <1>1, <2>1
<1>4. \A d \in 0 .. 9 : \A s \in V : Append(s, Digit[d + 1]) \in V /\ Append(s, Digit[d + 1]) # <<>>
  <2>1. \A x \in Digits : \A s \in Seq(Digits) : Append(s, x) \in Seq(Digits) /\ Append(s, x) # <<>>
    BY AppendProperties
  <2> QED BY Zenon, <1>1, <2>1
<1> HIDE DEF V
<1>5. PICK f : MadeBy(f, H, v, V)
  <2>1. ASSUME NEW n \in 0 .. v, NEW g \in [0 .. n - 1 -> V] PROVE H[n][g] \in V
    <3>1. H[n][g] = IF n < 10 THEN <<Digit[n + 1]>> ELSE Append(g[n \div 10], Digit[(n % 10) + 1])
      BY Zenon
    <3>2. CASE n < 10
      BY Zenon, <1>2, <1>3, <3>1, <3>2
    <3>3. CASE ~(n < 10)
      <4>1. g[n \div 10] \in V
        BY Zenon, <1>2, <3>3
      <4> QED BY Zenon, <1>2, <1>4, <3>1, <3>3, <4>1
    <3> QED BY Zenon, <3>2, <3>3
  <2> HIDE DEF H
  <2>2. Makes(H, v, V)
    BY Zenon, <2>1 DEF Makes
  <2> QED BY Zenon, <2>2, CourseOfValues
<1>6. f \in [0 .. v -> V] /\ \A n \in 0 .. v : f[n] = H[n][Below(f, n)]
  BY Zenon, <1>5 DEF MadeBy
<1>7. Ok(f)
  <2>1. ASSUME NEW n \in 0 .. v
        PROVE  f[n] = IF n < 10 THEN <<Digit[n + 1]>> ELSE Append(f[n \div 10], Digit[(n % 10) + 1])
    <3>1. Below(f, n) \in [0 .. n - 1 -> V]
      <4>1. \A k \in 0 .. n - 1 : k \in 0 .. v
        OBVIOUS
      <4> QED BY Zenon, <1>6, <4>1 DEF Below
    <3>2. PICK g \in [0 .. n - 1 -> V] : g = Below(f, n)
      BY Zenon, <3>1
    <3>3. f[n] = IF n < 10 THEN <<Digit[n + 1]>> ELSE Append(g[n \div 10], Digit[(n % 10) + 1])
      BY Zenon, <1>6, <3>2
    <3>4. ~(n < 10) => g[n \div 10] = f[n \div 10]
      BY Zenon, <1>2, <3>2 DEF Below
    <3> QED BY Zenon, <3>3, <3>4
  <2> QED BY Zenon, <1>6, <2>1
<1>8. Ok(c)
  <2> HIDE DEF Ok
  <2> QED BY Zenon, <1>7
<1>9. ax_format_uint64(v) = c[v]
  BY DEF ax_format_uint64
<1> HIDE DEF c, H
<1>10. ASSUME NEW n \in 0 .. v, \A k \in 0 .. n - 1 : k \in S PROVE n \in S
  <2>1. c[n] = IF n < 10 THEN <<Digit[n + 1]>> ELSE Append(c[n \div 10], Digit[(n % 10) + 1])
    BY Zenon, <1>8
  <2>2. CASE n < 10
    <3>1. n \in 0 .. 9
      BY Zenon, <1>2, <2>2
    <3>2. \E h : Reads(h, <<Digit[n + 1]>>, n)
      BY Zenon, <3>1, ReadsOne
    <3>3. Good(n)
      BY Zenon, <1>3, <2>1, <2>2, <3>1, <3>2
    <3> QED BY Zenon, <3>3
  <2>3. CASE ~(n < 10)
    <3>1. PICK k \in 0 .. n - 1 : k = n \div 10 /\ k \in Nat
      BY Zenon, <1>2, <2>3
    <3>2. PICK d \in 0 .. 9 : d = n % 10
      BY Zenon, <1>2
    <3>3. n = 10 * k + d
      BY Zenon, <1>2, <2>3, <3>1, <3>2
    <3>4. Good(k)
      BY Zenon, <1>10
    <3>5. c[n] = Append(c[k], Digit[d + 1])
      BY Zenon, <2>1, <2>3, <3>1, <3>2
    <3>6. \E h : Reads(h, Append(c[k], Digit[d + 1]), 10 * k + d)
      BY Zenon, <3>1, <3>4, ReadsNext DEF V
    <3>7. Good(n)
      BY Zenon, <1>4, <3>3, <3>4, <3>5, <3>6
    <3> QED BY Zenon, <3>7
  <2> QED BY Zenon, <2>2, <2>3
<1>11. \A n \in 0 .. v : n \in S
  <2> HIDE DEF S
  <2> QED BY Zenon, <1>10, StrongInduction
<1>12. v \in 0 .. v
  OBVIOUS
<1>13. Good(v)
  BY Zenon, <1>11, <1>12
<1> QED BY Zenon, <1>9, <1>13, StrtolReads DEF V

(* A number that is not negative is written as digits, never as null. *)
LEMMA NaturalNumeral ==
  ASSUME NEW v \in Nat, NEW null, v # null
  PROVE  Numeral(v, null) # <<"n", "u", "l", "l">> /\ strtol(Numeral(v, null)) = v
<1>1. ~(v < 0)
  OBVIOUS
<1>2. Numeral(v, null) = ax_format_uint64(v)
  BY Zenon, <1>1 DEF Numeral, ax_format_int64
<1>3. \A s \in Seq(Digits) : s # <<>> => s[1] \in Digits
  BY EmptySeq
<1>4. <<"n", "u", "l", "l">>[1] = "n"
  OBVIOUS
<1>5. ax_format_uint64(v)[1] # "n"
  BY Zenon, <1>3, DigitsRead, DigitsDiffer
<1>6. ax_format_uint64(v) # <<"n", "u", "l", "l">>
  BY <1>4, <1>5
<1> QED BY Zenon, <1>2, <1>6, DigitsRead

(* Every number reads back as itself, and nothing of it ends or begins a   *)
(* line.                                                                   *)
LEMMA NumeralReads ==
  ASSUME NEW v \in Int
  PROVE  /\ ax_format_int64(v) \in Seq(Digits \cup {"-"}) /\ ax_format_int64(v) # <<>>
         /\ strtol(ax_format_int64(v)) = v
<1>1. CASE v < 0
  <2>1. PICK u \in Nat : u = (-(v + 1)) + 1 /\ -u = v
    <3>1. (-(v + 1)) + 1 \in Nat /\ -((-(v + 1)) + 1) = v
      BY <1>1
    <3> QED BY Zenon, <3>1
  <2>2. PICK t \in Seq(Digits) : t = ax_format_uint64(u) /\ \E f : Reads(f, t, u)
    BY Zenon, DigitsRead
  <2>3. ax_format_int64(v) = <<"-">> \o t
    BY Zenon, <1>1, <2>1, <2>2 DEF ax_format_int64
  <2>4. strtol(<<"-">> \o t) = -u
    BY Zenon, <2>2, StrtolReadsSigned
  <2>5. <<"-">> \o t \in Seq(Digits \cup {"-"}) /\ <<"-">> \o t # <<>>
    <3>1. t \in Seq(Digits \cup {"-"}) /\ <<"-">> \in Seq(Digits \cup {"-"})
      OBVIOUS
    <3>2. <<"-">> \o t \in Seq(Digits \cup {"-"})
      BY Zenon, <3>1, ConcatProperties
    <3>3. Len(<<"-">> \o t) # 0
      BY <3>1
    <3> QED BY Zenon, <3>2, <3>3, EmptySeq
  <2> QED BY Zenon, <2>1, <2>3, <2>4, <2>5
<1>2. CASE ~(v < 0)
  <2>1. v \in Nat
    BY <1>2
  <2>2. ax_format_int64(v) = ax_format_uint64(v)
    BY Zenon, <1>2 DEF ax_format_int64
  <2>3. \A t \in Seq(Digits) : t \in Seq(Digits \cup {"-"})
    OBVIOUS
  <2> QED BY Zenon, <2>1, <2>2, <2>3, DigitsRead
<1> QED BY Zenon, <1>1, <1>2

-----------------------------------------------------------------------------
(* The lines of an intent file: parse_field. *)

(* The least and the greatest of some positions are among them. *)
LEMMA MinIn ==
  ASSUME NEW N \in Nat, NEW I \in SUBSET (1 .. N), I # {}
  PROVE  Min(I) \in I /\ \A i \in I : Min(I) <= i
<1>1. I \in SUBSET Nat
  OBVIOUS
<1>2. PICK m \in I : \A k \in I : m <= k
  BY Zenon, <1>1, LeastMember
<1> QED BY Zenon, <1>2 DEF Min

(* The same for the greatest. *)
LEMMA MaxIn ==
  ASSUME NEW N \in Nat, NEW I \in SUBSET (0 .. N), I # {}
  PROVE  Max(I) \in I /\ \A i \in I : Max(I) >= i
<1> DEFINE T == {N - i : i \in I}
<1>0. \A i \in I : N - i \in Nat
  OBVIOUS
<1>1. T \in SUBSET Nat /\ T # {}
  BY Zenon, <1>0
<1>2. PICK m \in T : \A k \in T : m <= k
  BY Zenon, <1>1, LeastMember
<1>3. PICK i \in I : m = N - i
  BY Zenon
<1>4. \A j \in I : i >= j
  <2> TAKE j \in I
  <2>1. m <= N - j
    BY Zenon, <1>2
  <2> QED BY <1>3, <2>1
<1> HIDE DEF T
<1> QED BY Zenon, <1>4 DEF Max

(* Where a character is for the first time, *)
LEMMA FirstAtIs ==
  ASSUME NEW T, NEW s \in Seq(T), NEW c, NEW p \in 1 .. Len(s), s[p] = c, \A i \in 1 .. p - 1 : s[i] # c
  PROVE  FirstAt(s, c) = p
<1> DEFINE I == {i \in DOMAIN s : s[i] = c}
<1>1. FirstAt(s, c) = IF I = {} THEN 0 ELSE Min(I)
  BY Zenon DEF FirstAt
<1>2. I \in SUBSET (1 .. Len(s)) /\ Len(s) \in Nat /\ p \in I /\ \A i \in I : ~(i \in 1 .. p - 1)
  OBVIOUS
<1> HIDE DEF I
<1>3. Min(I) \in I /\ \A i \in I : Min(I) <= i
  BY Zenon, <1>2, MinIn
<1>4. PICK m \in 1 .. Len(s) : m = Min(I) /\ m <= p /\ ~(m \in 1 .. p - 1)
  BY Zenon, <1>2, <1>3
<1>5. m = p
  BY <1>4
<1> QED BY Zenon, <1>1, <1>2, <1>4, <1>5

(* or that it is nowhere. *)
LEMMA FirstAtNone ==
  ASSUME NEW T, NEW s \in Seq(T), NEW c, \A i \in 1 .. Len(s) : s[i] # c
  PROVE  FirstAt(s, c) = 0
<1> DEFINE I == {i \in DOMAIN s : s[i] = c}
<1>1. FirstAt(s, c) = IF I = {} THEN 0 ELSE Min(I)
  BY Zenon DEF FirstAt
<1>2. I = {}
  OBVIOUS
<1> QED BY Zenon, <1>1, <1>2

(* parse_field reads nothing where there is no line with the key, *)
LEMMA ParsesNothing ==
  ASSUME NEW T, NEW s \in Seq(T), NEW key, \A i \in 1 .. Len(s) : s[i] # key
  PROVE  parse_field(s, key) = <<>>
<1> DEFINE rest == <<>>
<1>1. FirstAt(s, key) = 0
  BY Zenon, FirstAtNone
<1>2. FirstAt(<<>>, "\n") = 0
  <2>1. <<>> \in Seq(T) /\ \A i \in 1 .. Len(<<>>) : <<>>[i] # "\n"
    BY EmptySeq
  <2> QED BY Zenon, <2>1, FirstAtNone
<1> QED BY Zenon, <1>1, <1>2 DEF parse_field

(* v follows the first key, up to the end of the line or of the file. *)
ValueAt(s, p, key, v) ==
  /\ p \in 1 .. Len(s) /\ s[p] = key /\ \A i \in 1 .. p - 1 : s[i] # key
  /\ p + Len(v) <= Len(s) /\ \A i \in 1 .. Len(v) : s[p + i] = v[i] /\ v[i] # "\n"
  /\ p + Len(v) = Len(s) \/ s[p + Len(v) + 1] = "\n"

(* and what follows the key where there is one. *)
LEMMA ParsesLine ==
  ASSUME NEW T, NEW s \in Seq(T), NEW v \in Seq(T), NEW key, NEW p, ValueAt(s, p, key, v)
  PROVE  parse_field(s, key) = v
<1> DEFINE rest == SubSeq(s, p + 1, Len(s))
           L == Len(v)
           end == FirstAt(rest, "\n")
<1>0. /\ p \in 1 .. Len(s) /\ s[p] = key /\ \A i \in 1 .. p - 1 : s[i] # key
      /\ p + L <= Len(s) /\ \A i \in 1 .. L : s[p + i] = v[i] /\ v[i] # "\n"
      /\ p + L = Len(s) \/ s[p + L + 1] = "\n"
  BY Zenon DEF ValueAt
<1>1. FirstAt(s, key) = p /\ p # 0
  <2>1. p # 0
    BY <1>0
  <2> QED BY Zenon, <1>0, <2>1, FirstAtIs
<1>2. parse_field(s, key) = IF end = 0 THEN rest ELSE SubSeq(rest, 1, end - 1)
  BY Zenon, <1>1 DEF parse_field
<1>3. /\ rest \in Seq(T) /\ Len(rest) = Len(s) - p /\ L \in Nat /\ L <= Len(rest)
      /\ \A i \in 1 .. Len(rest) : rest[i] = s[p + i]
  BY <1>0
<1>4. \A i \in 1 .. L : i \in 1 .. Len(rest) /\ rest[i] = v[i] /\ rest[i] # "\n"
  <2>1. \A i \in 1 .. L : i \in 1 .. Len(rest)
    BY <1>3
  <2> QED BY Zenon, <1>0, <1>3, <2>1
<1>5. CASE p + L = Len(s)
  <2>1. Len(rest) = L
    BY <1>0, <1>3, <1>5
  <2> HIDE DEF rest, L
  <2>2. end = 0
    BY Zenon, <1>3, <1>4, <2>1, FirstAtNone
  <2>3. rest = v
    BY Zenon, <1>3, <1>4, <2>1, SeqEqual DEF L
  <2> QED BY Zenon, <1>2, <2>2, <2>3
<1>6. CASE p + L # Len(s)
  <2>1. L + 1 \in 1 .. Len(rest) /\ rest[L + 1] = "\n" /\ (L + 1) - 1 = L /\ L + 1 # 0
    <3>1. L + 1 \in 1 .. Len(rest) /\ (L + 1) - 1 = L /\ L + 1 # 0 /\ p + (L + 1) = p + L + 1
      BY <1>0, <1>3, <1>6
    <3> QED BY Zenon, <1>0, <1>3, <1>6, <3>1
  <2> HIDE DEF rest, L
  <2>2. end = L + 1
    <3>1. \A i \in 1 .. (L + 1) - 1 : rest[i] # "\n"
      BY Zenon, <1>4, <2>1
    <3> QED BY Zenon, <1>3, <2>1, <3>1, FirstAtIs
  <2>3. SubSeq(rest, 1, L) \in Seq(T) /\ Len(SubSeq(rest, 1, L)) = L
        /\ \A i \in 1 .. L : SubSeq(rest, 1, L)[i] = rest[i]
    BY <1>3
  <2>4. SubSeq(rest, 1, L) = v
    BY Zenon, <1>4, <2>3, SeqEqual DEF L
  <2> QED BY Zenon, <1>2, <2>1, <2>2, <2>4
<1> QED BY Zenon, <1>5, <1>6

(* s has a line of this key, with value v, at p: it is the first of its    *)
(* key and is whole.                                                       *)
LineAt(s, p, key, v) ==
  /\ p \in 1 .. Len(s) /\ s[p] = key /\ key \notin {"\n"} /\ \A i \in 1 .. p - 1 : s[i] # key
  /\ p + Len(v) + 1 <= Len(s) /\ s[p + Len(v) + 1] = "\n"
  /\ \A i \in 1 .. Len(v) : s[p + i] = v[i] /\ v[i] # "\n"

HasLine(s, key, v) == \E p \in 1 .. Len(s) : LineAt(s, p, key, v)

(* s has no line of this key. *)
Lacks(s, key) == \A i \in 1 .. Len(s) : s[i] # key

(* What is read of a line in a file that was cut after n characters is a   *)
(* part of its value; all of it, or nothing, if the cut is at a line's     *)
(* end.                                                                    *)
CutRead(s, n, key, v) ==
  LET got == parse_field(SubSeq(s, 1, n), key) IN
    /\ \E k \in 0 .. Len(v) : got = SubSeq(v, 1, k)
    /\ n = Len(s) => got = v
    /\ SubSeq(s, 1, n)[n] = "\n" => got \in {v, <<>>}

(* So it is, for every line that is there. *)
LEMMA CutLine ==
  ASSUME NEW T, NEW s \in Seq(T), NEW v \in Seq(T), NEW key, HasLine(s, key, v), NEW n \in 0 .. Len(s)
  PROVE  CutRead(s, n, key, v)
<1> DEFINE c == SubSeq(s, 1, n)
           got == parse_field(c, key)
           L == Len(v)
<1>1. PICK p \in 1 .. Len(s) : LineAt(s, p, key, v)
  BY Zenon DEF HasLine
<1>2. /\ s[p] = key /\ key # "\n" /\ \A i \in 1 .. p - 1 : s[i] # key
      /\ p + L + 1 <= Len(s) /\ s[p + L + 1] = "\n"
      /\ \A i \in 1 .. L : s[p + i] = v[i] /\ v[i] # "\n"
  BY Zenon, <1>1 DEF LineAt
<1>3. /\ c \in Seq(T) /\ Len(c) = n /\ L \in Nat /\ n \in Nat /\ Len(s) \in Nat
      /\ \A i \in 1 .. n : c[i] = s[i]
  OBVIOUS
<1>4. SubSeq(v, 1, 0) = <<>> /\ SubSeq(v, 1, L) = v /\ 0 \in 0 .. L /\ L \in 0 .. L
  <2>1. SubSeq(v, 1, 0) = <<>> /\ 0 \in 0 .. L /\ L \in 0 .. L
    BY <1>3
  <2>2. SubSeq(v, 1, L) \in Seq(T) /\ Len(SubSeq(v, 1, L)) = L /\ \A i \in 1 .. L : SubSeq(v, 1, L)[i] = v[i]
    BY <1>3
  <2> QED BY Zenon, <2>1, <2>2, SeqEqual
<1> HIDE DEF c, L
<1>5. CASE n < p
  <2>1. \A i \in 1 .. n : i \in 1 .. p - 1
    BY <1>3, <1>5
  <2>2. got = <<>>
    <3>1. \A i \in 1 .. Len(c) : c[i] # key
      BY Zenon, <1>2, <1>3, <2>1
    <3> QED BY Zenon, <1>3, <3>1, ParsesNothing
  <2>3. n # Len(s)
    BY <1>5
  <2> QED BY Zenon, <1>4, <2>2, <2>3 DEF CutRead, c, L
<1>6. CASE p <= n /\ p + L <= n
  <2>1. /\ p \in 1 .. n /\ p + L <= Len(c) /\ \A i \in 1 .. L : p + i \in 1 .. n
        /\ \A i \in 1 .. p - 1 : i \in 1 .. n
        /\ p + L = n \/ p + L + 1 \in 1 .. n
    BY <1>3, <1>6
  <2>2. /\ p \in 1 .. Len(c) /\ c[p] = key /\ \A i \in 1 .. p - 1 : c[i] # key
        /\ \A i \in 1 .. L : c[p + i] = v[i]
    BY Zenon, <1>2, <1>3, <2>1
  <2>3. p + L = Len(c) \/ c[p + L + 1] = "\n"
    BY Zenon, <1>2, <1>3, <2>1
  <2>4. got = v
    <3>1. \A i \in 1 .. Len(v) : v[i] # "\n"
      BY Zenon, <1>2 DEF L
    <3>2. \A i \in 1 .. Len(v) : c[p + i] = v[i]
      BY Zenon, <2>2 DEF L
    <3>3. p + Len(v) <= Len(c) /\ (p + Len(v) = Len(c) \/ c[p + Len(v) + 1] = "\n")
      BY Zenon, <2>1, <2>3 DEF L
    <3>4. ValueAt(c, p, key, v)
      BY Zenon, <2>2, <3>1, <3>2, <3>3 DEF ValueAt
    <3> QED BY Zenon, <1>3, <3>4, ParsesLine
  <2> QED BY Zenon, <1>4, <2>4 DEF CutRead, c, L
<1>7. CASE p <= n /\ ~(p + L <= n)
  <2>1. PICK k \in 0 .. L : p + k = n /\ k < L /\ n # Len(s)
    <3>1. n - p \in 0 .. L /\ p + (n - p) = n /\ n - p < L /\ n # Len(s)
      BY SMTT(30), <1>2, <1>3, <1>7
    <3> QED BY Zenon, <3>1
  <2> DEFINE w == SubSeq(v, 1, k)
  <2>2. w \in Seq(T) /\ Len(w) = k /\ \A i \in 1 .. k : i \in 1 .. L /\ w[i] = v[i]
    BY <1>3 DEF L
  <2>3. /\ p \in 1 .. n /\ \A i \in 1 .. k : p + i \in 1 .. n
        /\ \A i \in 1 .. p - 1 : i \in 1 .. n
    BY <1>3, <2>1
  <2> HIDE DEF w
  <2>4. /\ p \in 1 .. Len(c) /\ c[p] = key /\ \A i \in 1 .. p - 1 : c[i] # key
        /\ \A i \in 1 .. k : c[p + i] = w[i] /\ w[i] # "\n"
    BY Zenon, <1>2, <1>3, <2>2, <2>3
  <2>5. p + k <= Len(c) /\ p + k = Len(c)
    BY <1>3, <2>1
  <2>6. got = w
    <3>1. \A i \in 1 .. Len(w) : w[i] # "\n"
      BY Zenon, <2>2, <2>4
    <3>2. \A i \in 1 .. Len(w) : c[p + i] = w[i]
      BY Zenon, <2>2, <2>4
    <3>3. p + Len(w) <= Len(c) /\ p + Len(w) = Len(c)
      BY Zenon, <2>2, <2>5
    <3>4. ValueAt(c, p, key, w)
      BY Zenon, <2>4, <3>1, <3>2, <3>3 DEF ValueAt
    <3> QED BY Zenon, <1>3, <2>2, <3>4, ParsesLine
  <2>7. c[n] # "\n"
    <3>1. CASE k = 0
      <4>1. n = p
        BY <2>1, <3>1
      <4> QED BY Zenon, <1>2, <2>4, <4>1
    <3>2. CASE k # 0
      <4>1. k \in 1 .. k
        BY <3>2
      <4> QED BY Zenon, <2>1, <2>4, <4>1
    <3> QED BY Zenon, <3>1, <3>2
  <2> QED BY Zenon, <2>1, <2>6, <2>7 DEF CutRead, w, c, L
<1>8. n < p \/ (p <= n /\ p + L <= n) \/ (p <= n /\ ~(p + L <= n))
  BY <1>3
<1> QED BY Zenon, <1>5, <1>6, <1>7, <1>8

(* A line after texts without its key is there, *)
LEMMA HasLineHere ==
  ASSUME NEW T, NEW a \in Seq(T), NEW v \in Seq(T), NEW key \in T, key \notin {"\n"}, "\n" \in T,
         Lacks(a, key), Lacks(v, "\n")
  PROVE  a \o Line(key, v) \in Seq(T) /\ HasLine(a \o Line(key, v), key, v)
<1> DEFINE l == <<key>> \o v \o <<"\n">>
           s == a \o l
           A == Len(a)
           L == Len(v)
<1>1. <<key>> \in Seq(T) /\ <<"\n">> \in Seq(T) /\ <<key>> \o v \in Seq(T) /\ l \in Seq(T)
  <2>1. <<key>> \in Seq(T) /\ <<"\n">> \in Seq(T)
    OBVIOUS
  <2> QED BY Zenon, <2>1, ConcatProperties
<1>2. /\ Len(<<key>> \o v) = L + 1 /\ (<<key>> \o v)[1] = key
      /\ \A i \in 1 .. L : (<<key>> \o v)[i + 1] = v[i]
  BY <1>1
<1>3. Len(l) = L + 2 /\ l[L + 2] = "\n" /\ \A i \in 1 .. L + 1 : l[i] = (<<key>> \o v)[i]
  BY <1>1, <1>2
<1>4. l[1] = key /\ \A i \in 1 .. L : l[i + 1] = v[i]
  <2>1. 1 \in 1 .. L + 1 /\ \A i \in 1 .. L : i + 1 \in 1 .. L + 1
    OBVIOUS
  <2> QED BY Zenon, <1>2, <1>3, <2>1
<1> HIDE DEF l
<1>5. /\ s \in Seq(T) /\ Len(s) = A + (L + 2) /\ A \in Nat /\ L \in Nat
      /\ \A i \in 1 .. A : s[i] = a[i]
      /\ \A i \in 1 .. L + 2 : s[A + i] = l[i]
  <2>1. \A x, y \in Seq(T) : /\ Len(x \o y) = Len(x) + Len(y) /\ Len(x) \in Nat
                             /\ \A i \in 1 .. Len(x) : (x \o y)[i] = x[i]
                             /\ \A i \in 1 .. Len(y) : (x \o y)[Len(x) + i] = y[i]
    OBVIOUS
  <2>2. s \in Seq(T)
    BY Zenon, <1>1, ConcatProperties
  <2>3. /\ Len(a \o l) = Len(a) + Len(l) /\ Len(a) \in Nat /\ Len(v) \in Nat
        /\ \A i \in 1 .. Len(a) : (a \o l)[i] = a[i]
        /\ \A i \in 1 .. Len(l) : (a \o l)[Len(a) + i] = l[i]
    BY Zenon, <1>1, <2>1
  <2> QED BY Zenon, <1>3, <2>2, <2>3
<1> DEFINE p == A + 1
<1>6. /\ p \in 1 .. Len(s) /\ p + L + 1 <= Len(s) /\ A + (L + 2) = p + L + 1 /\ L + 2 \in 1 .. L + 2 /\ 1 \in 1 .. L + 2
      /\ \A i \in 1 .. p - 1 : i \in 1 .. A
      /\ \A i \in 1 .. L : i + 1 \in 1 .. L + 2 /\ A + (i + 1) = p + i
  BY <1>5
<1> HIDE DEF s
<1>7. s[p] = key /\ s[p + L + 1] = "\n"
  <2>1. 1 \in 1 .. L + 2 /\ L + 2 \in 1 .. L + 2
    BY Zenon, <1>6
  <2>2. \A i \in 1 .. L + 2 : s[A + i] = l[i]
    BY Zenon, <1>5
  <2>3. s[A + 1] = l[1] /\ s[A + (L + 2)] = l[L + 2]
    <3> HIDE DEF A, L
    <3> QED BY Zenon, <2>1, <2>2
  <2>4. A + (L + 2) = p + L + 1
    BY Zenon, <1>6
  <2>5. l[1] = key /\ l[L + 2] = "\n"
    BY Zenon, <1>3, <1>4
  <2> QED BY Zenon, <2>3, <2>4, <2>5
<1>8. \A i \in 1 .. p - 1 : s[i] # key
  BY Zenon, <1>5, <1>6 DEF Lacks
<1>9. \A i \in 1 .. L : s[p + i] = v[i] /\ v[i] # "\n"
  <2> SUFFICES ASSUME NEW i \in 1 .. L PROVE s[p + i] = v[i] /\ v[i] # "\n"
    BY Zenon
  <2>1. v[i] # "\n"
    BY Zenon DEF Lacks, L
  <2>2. s[A + (i + 1)] = l[i + 1] /\ A + (i + 1) = p + i
    BY Zenon, <1>5, <1>6
  <2> QED BY Zenon, <1>4, <2>1, <2>2
<1>10. LineAt(s, p, key, v)
  BY Zenon, <1>6, <1>7, <1>8, <1>9 DEF LineAt
<1>11. a \o Line(key, v) = s
  BY Zenon DEF Line, s, l
<1> QED BY Zenon, <1>5, <1>6, <1>10, <1>11 DEF HasLine

(* and stays there when more is written; *)
LEMMA HasLineStill ==
  ASSUME NEW T, NEW s \in Seq(T), NEW b \in Seq(T), NEW v \in Seq(T), NEW key, HasLine(s, key, v)
  PROVE  HasLine(s \o b, key, v)
<1> DEFINE t == s \o b
<1>1. PICK p \in 1 .. Len(s) : LineAt(s, p, key, v)
  BY Zenon DEF HasLine
<1>2. /\ s[p] = key /\ key \notin {"\n"} /\ \A i \in 1 .. p - 1 : s[i] # key
      /\ p + Len(v) + 1 <= Len(s) /\ s[p + Len(v) + 1] = "\n"
      /\ \A i \in 1 .. Len(v) : s[p + i] = v[i] /\ v[i] # "\n"
  BY Zenon, <1>1 DEF LineAt
<1>3. Len(t) >= Len(s) /\ Len(t) \in Nat /\ Len(s) \in Nat /\ Len(v) \in Nat /\ \A i \in 1 .. Len(s) : t[i] = s[i]
  OBVIOUS
<1> HIDE DEF t
<1>4. /\ p \in 1 .. Len(t) /\ p + Len(v) + 1 \in 1 .. Len(s) /\ p + Len(v) + 1 <= Len(t)
      /\ \A i \in 1 .. p - 1 : i \in 1 .. Len(s)
      /\ \A i \in 1 .. Len(v) : p + i \in 1 .. Len(s)
  BY <1>2, <1>3
<1>5. LineAt(t, p, key, v)
  BY Zenon, <1>2, <1>3, <1>4 DEF LineAt
<1> QED BY Zenon, <1>4, <1>5 DEF HasLine, t

(* and a line of one key is not one of another. *)
LEMMA StillLacks ==
  ASSUME NEW T, NEW a \in Seq(T), NEW v \in Seq(T), NEW k \in T, "\n" \in T, NEW key,
         Lacks(a, key), Lacks(v, key), key \notin {k, "\n"}
  PROVE  Lacks(a \o Line(k, v), key)
<1> DEFINE l == <<k>> \o v \o <<"\n">>
           s == a \o l
<1>1. <<k>> \in Seq(T) /\ <<"\n">> \in Seq(T) /\ <<k>> \o v \in Seq(T) /\ l \in Seq(T)
  <2>1. <<k>> \in Seq(T) /\ <<"\n">> \in Seq(T)
    OBVIOUS
  <2> QED BY Zenon, <2>1, ConcatProperties
<1>2. \A x, y \in Seq(T) : Lacks(x, key) /\ Lacks(y, key) => Lacks(x \o y, key)
  BY DEF Lacks
<1>3. Lacks(<<k>>, key) /\ Lacks(<<"\n">>, key)
  BY DEF Lacks
<1>4. Lacks(s, key)
  BY Zenon, <1>1, <1>2, <1>3
<1> QED BY Zenon, <1>4 DEF Line

-----------------------------------------------------------------------------
(* The configuration file. *)

(* Where a byte is looked for, it is found at a position or not at all. *)
LEMMA FirstInText ==
  ASSUME NEW s \in Seq(Byte), NEW set
  PROVE  FirstIn(s, set) \in 0 .. Len(s)
<1> DEFINE I == {i \in DOMAIN s : s[i] \in set}
<1>1. FirstIn(s, set) = IF I = {} THEN 0 ELSE Min(I)
  BY Zenon DEF FirstIn
<1>2. I \in SUBSET (1 .. Len(s)) /\ Len(s) \in Nat
  OBVIOUS
<1> HIDE DEF I
<1>3. I # {} => Min(I) \in 1 .. Len(s)
  BY Zenon, <1>2, MinIn
<1> QED BY <1>1, <1>2, <1>3

(* A part of a text is a text. *)
LEMMA PartIsText ==
  ASSUME NEW s \in Seq(Byte), NEW a \in Nat \ {0}, NEW b \in 0 .. Len(s)
  PROVE  SubSeq(s, a, b) \in Seq(Byte)
BY SubSeqProperties

(* So is what is left of one. *)
LEMMA RestIsText ==
  ASSUME NEW s \in Seq(Byte), NEW n \in Nat
  PROVE  Rest(s, n) \in Seq(Byte)
<1>1. n + 1 \in Nat \ {0} /\ Len(s) \in 0 .. Len(s)
  OBVIOUS
<1> QED BY Zenon, <1>1, PartIsText DEF Rest

(* So is a text without the blanks in front of it, *)
LEMMA TrimHeadIsText ==
  ASSUME NEW s \in Seq(Byte)
  PROVE  TrimHead(s) \in Seq(Byte)
<1>1. PICK n \in 0 .. Len(s) : n = FirstIn(s, Byte \ Blank)
  BY Zenon, FirstInText
<1>2. TrimHead(s) = IF n = 0 THEN <<>> ELSE Rest(s, n - 1)
  BY Zenon, <1>1 DEF TrimHead
<1>3. n = 0 \/ n - 1 \in Nat
  OBVIOUS
<1>4. <<>> \in Seq(Byte)
  BY EmptySeq
<1> QED BY Zenon, <1>2, <1>3, <1>4, RestIsText

(* and one without those after it. *)
LEMMA TrimTailIsText ==
  ASSUME NEW s \in Seq(Byte), NEW set
  PROVE  TrimTail(s, set) \in Seq(Byte)
<1> DEFINE I == {0} \cup {i \in DOMAIN s : s[i] \notin set}
<1>1. TrimTail(s, set) = SubSeq(s, 1, Max(I))
  BY Zenon DEF TrimTail
<1>2. I \in SUBSET (0 .. Len(s)) /\ Len(s) \in Nat /\ I # {}
  OBVIOUS
<1> HIDE DEF I
<1>3. Max(I) \in 0 .. Len(s)
  BY Zenon, <1>2, MaxIn
<1>4. 1 \in Nat \ {0}
  OBVIOUS
<1> QED BY Zenon, <1>1, <1>3, <1>4, PartIsText

(* fgets takes a byte or more of a text that is not empty, and no more     *)
(* than there is.                                                          *)
LEMMA FgetsTakes ==
  ASSUME NEW s \in Seq(Byte), s # <<>>
  PROVE  FgetsLen(s) \in 1 .. Len(s)
<1>1. PICK f \in 0 .. Len(s) : f = FirstIn(s, {LF})
  BY Zenon, FirstInText
<1>2. Len(s) \in Nat \ {0}
  BY EmptySeq
<1>3. LineBuf \in Nat \ {0, 1}
  BY Zenon, ConfigConstants
<1>4. FgetsLen(s) = IF f # 0 /\ f < LineBuf THEN f ELSE IF Len(s) < LineBuf THEN Len(s) ELSE LineBuf - 1
  BY Zenon, <1>1 DEF FgetsLen
<1> QED BY <1>2, <1>3, <1>4

(* What fgets returns is lines of bytes. *)
LEMMA FgetsLinesType ==
  ASSUME NEW s \in Seq(Byte)
  PROVE  FgetsLines(s) \in Seq(Seq(Byte))
<1> DEFINE N == Len(s) + 1
           V == Seq(Seq(Byte))
           take(m) == FgetsLen(Rest(s, m))
           Stop == {N}
           base == [p \in 1 .. N |-> <<>>]
           nxt == [p \in 1 .. N |-> p + take(p - 1)]
           h == [p \in 1 .. N |-> [v \in V |-> <<SubSeq(s, p - 1 + 1, p - 1 + take(p - 1))>> \o v]]
           Ok(f) == f = [m \in 0 .. Len(s) |->
                           IF m = Len(s) THEN <<>> ELSE <<SubSeq(s, m + 1, m + take(m))>> \o f[m + take(m)]]
<1>0. N \in Nat /\ Len(s) \in Nat
  OBVIOUS
<1>1. ASSUME NEW m \in 0 .. Len(s), m # Len(s)
      PROVE  /\ take(m) \in 1 .. Len(s) - m
             /\ <<SubSeq(s, m + 1, m + take(m))>> \in Seq(Seq(Byte))
  <2>1. m \in Nat /\ m + 1 \in Nat \ {0}
    BY <1>0
  <2>2. Rest(s, m) \in Seq(Byte) /\ Len(Rest(s, m)) = Len(s) - m
    BY <1>0, <1>1, SubSeqProperties DEF Rest
  <2>3. Rest(s, m) # <<>>
    BY <1>0, <1>1, <2>2, EmptySeq
  <2>4. PICK n \in 1 .. Len(s) - m : n = take(m)
    BY Zenon, <2>2, <2>3, FgetsTakes
  <2>5. m + n \in 0 .. Len(s)
    BY <1>0
  <2>6. SubSeq(s, m + 1, m + n) \in Seq(Byte)
    BY Zenon, <2>1, <2>5, PartIsText
  <2> HIDE DEF take
  <2>7. <<SubSeq(s, m + 1, m + n)>> \in Seq(Seq(Byte))
    BY <2>6
  <2> QED BY Zenon, <2>4, <2>7
<1> HIDE DEF take
<1>2. ASSUME NEW p \in 1 .. N
      PROVE  IF p \in Stop THEN base[p] \in V ELSE nxt[p] \in p + 1 .. N /\ \A v \in V : h[p][v] \in V
  <2>1. CASE p = N
    BY <2>1, EmptySeq
  <2>2. CASE p # N
    <3>1. PICK m \in 0 .. Len(s) : m = p - 1 /\ m # Len(s) /\ m + 1 = p
      BY <1>0, <2>2
    <3>2. take(p - 1) \in 1 .. Len(s) - m /\ <<SubSeq(s, p - 1 + 1, p - 1 + take(p - 1))>> \in V
      BY Zenon, <1>1, <3>1
    <3>3. p + take(p - 1) \in p + 1 .. N
      BY <1>0, <3>1, <3>2
    <3>4. ASSUME NEW v \in V PROVE h[p][v] \in V
      <4>1. <<SubSeq(s, p - 1 + 1, p - 1 + take(p - 1))>> \o v \in V
        BY Zenon, <3>2, ConcatProperties
      <4> QED BY Zenon, <4>1
    <3> QED BY Zenon, <2>2, <3>3, <3>4
  <2> QED BY Zenon, <2>1, <2>2
<1>3. PICK f : Runs(f, N, V, Stop, base, nxt, h)
  <2> HIDE DEF N, V, Stop, base, nxt, h
  <2>1. Loop(N, V, Stop, base, nxt, h)
    BY Zenon, <1>2 DEF Loop
  <2> QED BY Zenon, <1>0, <2>1, Walk
<1> DEFINE g == [m \in 0 .. Len(s) |-> f[m + 1]]
<1>4. f \in [1 .. N -> V]
  BY Zenon, <1>3 DEF Runs
<1>5. Ok(g)
  <2>1. ASSUME NEW m \in 0 .. Len(s)
        PROVE  g[m] = IF m = Len(s) THEN <<>> ELSE <<SubSeq(s, m + 1, m + take(m))>> \o g[m + take(m)]
    <3>1. PICK p \in 1 .. N : p = m + 1 /\ p - 1 = m /\ (p = N <=> m = Len(s))
      BY <1>0
    <3>2. g[m] = f[p]
      BY Zenon, <3>1
    <3>3. CASE m = Len(s)
      <4>1. f[p] = base[p]
        BY Zenon, <1>3, <3>1, <3>3 DEF Runs
      <4> QED BY Zenon, <3>2, <3>3, <4>1
    <3>4. CASE m # Len(s)
      <4>1. f[p] = h[p][f[nxt[p]]]
        BY Zenon, <1>3, <3>1, <3>4 DEF Runs
      <4>2. take(m) \in 1 .. Len(s) - m
        BY Zenon, <1>1, <3>4
      <4>3. PICK q \in 0 .. Len(s) : q = m + take(m) /\ q + 1 = p + take(m) /\ q + 1 \in 1 .. N
        BY <1>0, <3>1, <4>2
      <4>4. nxt[p] = q + 1
        BY Zenon, <3>1, <4>3
      <4>5. f[q + 1] \in V /\ g[q] = f[q + 1]
        BY Zenon, <1>4, <4>3
      <4>6. h[p][f[q + 1]] = <<SubSeq(s, p - 1 + 1, p - 1 + take(p - 1))>> \o f[q + 1]
        BY Zenon, <4>5
      <4> HIDE DEF h, nxt, g
      <4> QED BY Zenon, <3>1, <3>2, <3>4, <4>1, <4>3, <4>4, <4>5, <4>6
    <3> QED BY Zenon, <3>3, <3>4
  <2> QED BY Zenon, <2>1
<1>6. PICK c : Ok(c) /\ FgetsLines(s) = c[0]
  <2> DEFINE c == CHOOSE x : Ok(x)
  <2>1. FgetsLines(s) = c[0]
    BY DEF FgetsLines, take
  <2>2. Ok(c)
    <3> HIDE DEF Ok
    <3> QED BY Zenon, <1>5
  <2> HIDE DEF Ok, c
  <2> QED BY Zenon, <2>1, <2>2
<1> HIDE DEF g
<1> DEFINE S == {p \in 1 .. N : c[p - 1] \in V}
<1>7. ASSUME NEW p \in 1 .. N, \A q \in p + 1 .. N : q \in S PROVE p \in S
  <2>1. PICK m \in 0 .. Len(s) : m = p - 1 /\ p = m + 1
    BY <1>0
  <2>2. c[m] = IF m = Len(s) THEN <<>> ELSE <<SubSeq(s, m + 1, m + take(m))>> \o c[m + take(m)]
    BY Zenon, <1>6
  <2>3. CASE m = Len(s)
    BY Zenon, <2>1, <2>2, <2>3, EmptySeq
  <2>4. CASE m # Len(s)
    <3>1. take(m) \in 1 .. Len(s) - m /\ <<SubSeq(s, m + 1, m + take(m))>> \in Seq(Seq(Byte))
      BY Zenon, <1>1, <2>4
    <3>2. PICK q \in p + 1 .. N : q - 1 = m + take(m)
      <4>1. PICK t \in 1 .. Len(s) - m : t = take(m)
        BY Zenon, <3>1
      <4>2. \E q \in p + 1 .. N : q - 1 = m + t
        <5>1. m + t + 1 \in p + 1 .. N /\ m + t + 1 - 1 = m + t
          BY <1>0, <2>1
        <5> HIDE DEF N
        <5> QED BY <5>1
      <4> QED BY Zenon, <4>1, <4>2
    <3>3. q \in S
      <4> HIDE DEF S, N
      <4> QED BY Zenon, <1>7, <3>2
    <3>31. c[m + take(m)] \in V
      <4> HIDE DEF V
      <4> QED BY Zenon, <3>2, <3>3
    <3>4. <<SubSeq(s, m + 1, m + take(m))>> \o c[m + take(m)] \in V
      BY Zenon, <3>1, <3>31, ConcatProperties
    <3> QED BY Zenon, <2>1, <2>2, <2>4, <3>4
  <2> QED BY Zenon, <2>3, <2>4
<1>8. \A p \in 1 .. N : p \in S
  <2> HIDE DEF S, N
  <2> QED BY Zenon, <1>0, <1>7, FromTheEnd
<1>9. 1 \in 1 .. N /\ 1 - 1 = 0
  BY <1>0
<1> QED BY Zenon, <1>6, <1>8, <1>9

(* The configurations there can be while the file is read: the model_id    *)
(* has not been set, or is one that set_id took.                           *)
Value == {Default[k] : k \in Keys} \cup {NumberOf(v) : v \in Seq(Byte)} \cup Seq(Byte)
GoodId(id) == id = <<>> \/ (id \in Seq(Byte) /\ set_id(id))
Loading == {c \in {Default} \cup [Keys -> Value] : GoodId(c["model_id"])}

(* set_id decides whether a model_id is taken. *)
LEMMA ModelIdIsAnId == ASSUME NEW v PROVE Takes("model_id", v) <=> set_id(v)
BY Zenon DEF Takes, PathKeys, IdKeys

(* A model_id is a key of the file and not a number. *)
LEMMA ModelIdIsAKey == "model_id" \in Keys /\ "model_id" \notin DOMAIN Bounds
BY DEF Keys, IdKeys, Bounds

(* A line leaves such a configuration. *)
LEMMA LoadLineKeeps ==
  ASSUME NEW c \in Loading, NEW text \in Seq(Byte)
  PROVE  LoadLine(c, text) \in SUBSET Loading
<1>1. CASE text = <<>> \/ text[1] = HASH
  BY Zenon, <1>1 DEF LoadLine
<1>2. CASE ~(text = <<>> \/ text[1] = HASH)
  <2> DEFINE val(kv) == IF kv[1] \in DOMAIN Bounds THEN NumberOf(kv[2]) ELSE kv[2]
  <2>1. LoadLine(c, text) = {[c EXCEPT ![kv[1]] = val(kv)] : kv \in Settings(text)}
    BY Zenon, <1>2 DEF LoadLine
  <2>2. ASSUME NEW kv \in Settings(text) PROVE [c EXCEPT ![kv[1]] = val(kv)] \in Loading
    <3>1. kv[1] \in Keys /\ kv[2] = TrimHead(Rest(text, FirstIn(text, {EQUALS}))) /\ Takes(kv[1], kv[2])
      BY DEF Settings
    <3>2. FirstIn(text, {EQUALS}) \in Nat
      BY FirstInText
    <3>3. kv[2] \in Seq(Byte)
      BY Zenon, <3>1, <3>2, RestIsText, TrimHeadIsText
    <3>4. PICK k \in Keys : k = kv[1]
      BY Zenon, <3>1
    <3>5. PICK x \in Value : x = val(kv)
      BY Zenon, <3>3 DEF Value
    <3>6. k = "model_id" => x \in Seq(Byte) /\ set_id(x)
      BY Zenon, <3>1, <3>3, <3>4, <3>5, ModelIdIsAnId, ModelIdIsAKey
    <3> HIDE DEF val
    <3> DEFINE d == [c EXCEPT ![k] = x]
    <3>7. DOMAIN c = Keys /\ \A y \in Keys : c[y] \in Value
      BY Zenon, ConfigConstants DEF Loading, Value
    <3>8. d = [y \in DOMAIN c |-> IF y = k THEN x ELSE c[y]]
      OBVIOUS
    <3>9. d \in [Keys -> Value]
      BY Zenon, <3>7, <3>8
    <3>10. d["model_id"] = IF "model_id" = k THEN x ELSE c["model_id"]
      BY Zenon, <3>7, <3>8, ModelIdIsAKey
    <3> HIDE DEF d
    <3>11. GoodId(d["model_id"])
      <4>1. GoodId(c["model_id"])
        BY Zenon DEF Loading
      <4> QED BY Zenon, <3>6, <3>10, <4>1 DEF GoodId
    <3>12. d \in Loading
      BY Zenon, <3>9, <3>11 DEF Loading
    <3> QED BY Zenon, <3>4, <3>5, <3>12 DEF d
  <2> HIDE DEF val
  <2> QED BY Zenon, <2>1, <2>2
<1> QED BY Zenon, <1>1, <1>2

(* And so do all lines. *)
LEMMA LoadLinesKeeps ==
  ASSUME NEW rows \in Seq(Seq(Byte))
  PROVE  LoadLines(rows) \in SUBSET Loading
<1> DEFINE N == Len(rows)
           V == SUBSET Loading
           text(n) == TrimHead(TrimTail(rows[n], {LF, CR}))
           after(L, n) == UNION {LoadLine(cfg, t) : cfg \in L, t \in {text(n)}}
           h == [n \in 1 .. N |-> [L \in V |-> after(L, n)]]
           Ok(f) == f = [n \in 0 .. N |-> IF n = 0 THEN {Default} ELSE after(f[n - 1], n)]
<1>0. N \in Nat
  OBVIOUS
<1>1. ASSUME NEW n \in 1 .. N PROVE text(n) \in Seq(Byte)
  <2>1. rows[n] \in Seq(Byte)
    OBVIOUS
  <2> QED BY Zenon, <2>1, TrimTailIsText, TrimHeadIsText
<1> HIDE DEF text
<1>2. {Default} \in V
  <2>1. GoodId(Default["model_id"])
    BY Zenon, ConfigConstants DEF GoodId
  <2> QED BY Zenon, <2>1 DEF Loading
<1>3. ASSUME NEW n \in 1 .. N, NEW L \in V PROVE after(L, n) \in V
  <2>1. ASSUME NEW cfg \in L PROVE LoadLine(cfg, text(n)) \in SUBSET Loading
    BY Zenon, <1>1, LoadLineKeeps
  <2>2. ASSUME NEW x \in after(L, n) PROVE x \in Loading
    <3>1. PICK cfg \in L : x \in LoadLine(cfg, text(n))
      BY SMT
    <3>2. LoadLine(cfg, text(n)) \in SUBSET Loading
      BY SMT, <2>1
    <3> HIDE DEF after
    <3> QED BY Zenon, <3>1, <3>2
  <2> HIDE DEF after
  <2> QED BY Zenon, <2>2
<1> HIDE DEF after
<1>4. PICK f : Iterates(f, N, V, {Default}, h)
  <2>1. ASSUME NEW n \in 1 .. N, NEW L \in V PROVE h[n][L] \in V
    BY Zenon, <1>3
  <2> HIDE DEF N, V, h
  <2>2. Iterated(N, V, {Default}, h)
    BY Zenon, <1>2, <2>1 DEF Iterated
  <2> QED BY Zenon, <1>0, <2>2, Iterate
<1>5. f \in [0 .. N -> V] /\ f[0] = {Default} /\ \A n \in 1 .. N : f[n] = h[n][f[n - 1]]
  BY Zenon, <1>4 DEF Iterates
<1>6. Ok(f)
  <2>1. ASSUME NEW n \in 0 .. N PROVE f[n] = IF n = 0 THEN {Default} ELSE after(f[n - 1], n)
    <3>1. CASE n = 0
      BY Zenon, <1>5, <3>1
    <3>2. CASE n # 0
      <4>1. n \in 1 .. N /\ n - 1 \in 0 .. N
        BY <1>0, <3>2
      <4>2. f[n - 1] \in V /\ f[n] = h[n][f[n - 1]]
        BY Zenon, <1>5, <4>1
      <4>3. h[n][f[n - 1]] = after(f[n - 1], n)
        BY Zenon, <4>1, <4>2
      <4> QED BY Zenon, <3>2, <4>2, <4>3
    <3> HIDE DEF after
    <3> QED BY Zenon, <3>1, <3>2
  <2> QED BY Zenon, <1>5, <2>1
<1> HIDE DEF h
<1>7. PICK c : Ok(c) /\ LoadLines(rows) = c[N]
  <2> DEFINE c == CHOOSE x : Ok(x)
  <2>1. LoadLines(rows) = c[N]
    BY DEF LoadLines, after, text
  <2>2. Ok(c)
    <3> HIDE DEF Ok
    <3> QED BY Zenon, <1>6
  <2> HIDE DEF Ok, c
  <2> QED BY Zenon, <2>1, <2>2
<1> DEFINE S == {n \in Nat : n \in 0 .. N => c[n] \in V}
<1>8. 0 \in S
  <2>1. 0 \in 0 .. N
    BY <1>0
  <2>2. c[0] = {Default}
    BY Zenon, <1>7, <2>1
  <2> QED BY <1>2, <2>2
<1>9. ASSUME NEW n \in Nat, n \in S PROVE n + 1 \in S
  <2> SUFFICES ASSUME n + 1 \in 0 .. N PROVE c[n + 1] \in V
    OBVIOUS
  <2>1. PICK m \in 0 .. N : m = n + 1 /\ m # 0 /\ m - 1 = n
    OBVIOUS
  <2>2. n \in 0 .. N /\ m \in 1 .. N
    BY <1>0, <2>1
  <2>3. c[n] \in V
    BY Zenon, <1>9, <2>2
  <2>4. c[m] = after(c[m - 1], m)
    BY Zenon, <1>7, <2>1
  <2>5. after(c[n], m) \in V
    BY Zenon, <1>3, <2>2, <2>3
  <2> HIDE DEF V
  <2> QED BY Zenon, <2>1, <2>4, <2>5
<1>10. \A n \in Nat : n \in S
  <2> HIDE DEF S
  <2> QED BY Zenon, <1>8, <1>9, Induction
<1>11. N \in 0 .. N
  BY <1>0
<1> QED BY Zenon, <1>0, <1>7, <1>10, <1>11

(* A model_id that was loaded is one that set_id took. *)
LEMMA LoadedIdIsSet ==
  ASSUME NEW s \in Seq(Byte), NEW c \in gw_config_load(s)
  PROVE  c["model_id"] \in Seq(Byte) /\ set_id(c["model_id"])
<1>1. c \in LoadLines(FgetsLines(s)) /\ \A k \in Required : c[k] # <<>>
  BY Zenon DEF gw_config_load
<1>2. c \in Loading
  BY Zenon, <1>1, FgetsLinesType, LoadLinesKeeps
<1>3. c["model_id"] # <<>>
  BY Zenon, <1>1, ConfigConstants
<1> QED BY Zenon, <1>2, <1>3 DEF Loading, GoodId

(* gwj_escape_utf8 takes the texts that ax_validate_utf8 takes. *)

(* What set_id takes goes into the body, and ends no line of a header. *)
LEMMA SetIdServes ==
  ASSUME NEW id \in Seq(Byte), set_id(id)
  PROVE  /\ gwj_escape_utf8(id, GW_ID_MAX * 6 + 1).rc = 0
         /\ Range(id) \cap {LF, CR} = {}
<1>1. /\ ax_validate_utf8(id) /\ \A i \in DOMAIN id : id[i] >= 32
      /\ Len(id) < GW_ID_MAX
  BY Zenon DEF set_id, IdBytesAreWellFormed, set_str
<1>2. DOMAIN id = 1 .. Len(id) /\ Len(id) \in Nat /\ \A i \in 1 .. Len(id) : id[i] \in Byte
  OBVIOUS
<1>3. \A i \in 1 .. Len(id) : Len(RequestByte(id[i])) \in 1 .. 2
  BY Zenon, <1>1, <1>2, RequestByteType
<1>4. GW_ID_MAX * 6 + 1 \in Nat /\ 2 * Len(id) <= GW_ID_MAX * 6 + 1 /\ 2 \in Nat
  <2>1. GW_ID_MAX \in Nat
    BY ConfigConstants
  <2> QED BY <1>1, <1>2, <2>1
<1>5. gwj_escape(id, GW_ID_MAX * 6 + 1).rc = 0
  BY Zenon, <1>3, <1>4, EscapeFits
<1>6. gwj_escape_utf8(id, GW_ID_MAX * 6 + 1) = gwj_escape(id, GW_ID_MAX * 6 + 1)
  BY Zenon, <1>1, EscapesTheSameTexts DEF gwj_escape_utf8
<1>7. ~(LF >= 32) /\ ~(CR >= 32)
  BY DEF LF, CR
<1> QED BY Zenon, <1>1, <1>5, <1>6, <1>7 DEF Range

-----------------------------------------------------------------------------
(* Parameters. *)

(* Six decimals are enough: no two Q16.16 values that are not negative     *)
(* have the same decimal in q16_to_dec, and the value is the nearest one.  *)
THEOREM DecimalIdentifiesValue ==
  ASSUME NEW q \in Nat
  PROVE  Nearest(q16_to_dec(q)) = q
<1> DEFINE ip == q \div 65536
           f == q % 65536
           fp == (f * 15625) \div 1024
<1>1. ip \in Nat /\ f \in Nat /\ q = ip * 65536 + f
  OBVIOUS
<1>2. fp \in Nat /\ fp * 1024 <= f * 15625 /\ f * 15625 < fp * 1024 + 1024
  BY <1>1
<1>3. (fp * 1024 + 7812) \div 15625 = f
  <2> HIDE DEF fp, f
  <2> QED BY <1>1, <1>2
<1>4. q16_to_dec(q) = [ip |-> ip, fp |-> fp]
  BY DEF q16_to_dec
<1> QED
  <2> HIDE DEF fp, f, ip
  <2> QED BY <1>1, <1>2, <1>3, <1>4 DEF Nearest

(* Signs of integers. *)
LEMMA Signs == \A t \in Int : /\ ~(t < 0) => t >= 0
                              /\ t >= 0 => t \in Nat
OBVIOUS

(* Signs of naturals. *)
LEMMA NaturalSigns == \A n \in Nat : n >= 0
OBVIOUS

(* A header is in range only if it pins a temperature. *)
LEMMA TemperatureGiven ==
  ASSUME NEW h, OutOfRange(h) = ""
  PROVE  ~(h.temp_q16 < 0)
BY Zenon DEF OutOfRange

(* A temperature or top_p that is sent is not negative. *)
LEMMA SentIsNatural ==
  ASSUME NEW h, h.temp_q16 \in Int, h.top_p_q16 \in Int, OutOfRange(h) = "",
         NEW m \in Sent(Params(h)) \ {"max_tokens"}
  PROVE  Params(h)[m] \in Nat
<1> DEFINE p == Params(h)
<1>1. h.temp_q16 >= 0
  BY Zenon, Signs, TemperatureGiven
<1>2. /\ p.temperature = h.temp_q16
      /\ p.top_p = IF h.top_p_q16 >= 0 THEN h.top_p_q16 ELSE NULL_Q16
  BY Zenon, <1>1 DEF Params, ax_oracle_params_init_null
<1>3. m = "temperature" \/ (m = "top_p" /\ p.top_p # NULL_Q16)
  BY Zenon DEF Sent
<1> QED BY Zenon, <1>1, <1>2, <1>3, Signs

(* A header that is in range always has a body, and what that body says of *)
(* temperature and top_p are the values in the record.                     *)
THEOREM SentValuesAreRecorded ==
  ASSUME NEW h, h.temp_q16 \in Int, h.top_p_q16 \in Int, OutOfRange(h) = ""
  PROVE  /\ BodyBuilds(Params(h))
         /\ \A m \in Sent(Params(h)) \ {"max_tokens"} : Nearest(Body(Params(h))[m]) = Params(h)[m]
<1>1. \A m \in Sent(Params(h)) \ {"max_tokens"} : Params(h)[m] \in Nat
  BY Zenon, SentIsNatural
<1>2. BodyBuilds(Params(h))
  BY Zenon, <1>1, NaturalSigns DEF BodyBuilds
<1>3. ASSUME NEW m \in Sent(Params(h)) \ {"max_tokens"}
      PROVE  Nearest(Body(Params(h))[m]) = Params(h)[m]
  <2>1. Body(Params(h))[m] = q16_to_dec(Params(h)[m])
    BY Zenon DEF Body
  <2> QED BY Zenon, <1>1, <2>1, DecimalIdentifiesValue
<1> QED BY Zenon, <1>2, <1>3

(* What a reader of the record finds. *)
LEMMA RecordedIs ==
  ASSUME NEW p, p.max_tokens \in Nat, p.max_tokens # NULL_INT, p.seed = NULL_INT,
         p.temperature \in Nat, p.temperature # NULL_Q16,
         p.top_p = NULL_Q16 \/ p.top_p \in Nat
  PROVE  /\ DOMAIN Recorded(p) = Sent(p)
         /\ \A m \in Sent(p) : Recorded(p)[m] = p[m]
<1> DEFINE null == <<"n", "u", "l", "l">>
           c == ax_params_canonicalise(p)
           given == {i \in DOMAIN c : c[i][2] # null}
           at(m) == CHOOSE i \in given : c[i][1] = m
<1>1. /\ DOMAIN c = {1, 2, 3, 4}
      /\ c[1] = <<"max_tokens", Numeral(p.max_tokens, NULL_INT)>> /\ c[2] = <<"seed", Numeral(p.seed, NULL_INT)>>
      /\ c[3] = <<"temperature", Numeral(p.temperature, NULL_Q16)>> /\ c[4] = <<"top_p", Numeral(p.top_p, NULL_Q16)>>
  BY DEF ax_params_canonicalise
<1> HIDE DEF c
<1>2. /\ c[1][1] = "max_tokens" /\ c[2][1] = "seed" /\ c[3][1] = "temperature" /\ c[4][1] = "top_p"
      /\ c[1][2] = Numeral(p.max_tokens, NULL_INT) /\ c[2][2] = Numeral(p.seed, NULL_INT)
      /\ c[3][2] = Numeral(p.temperature, NULL_Q16) /\ c[4][2] = Numeral(p.top_p, NULL_Q16)
  BY <1>1
<1>3. /\ c[1][2] # null /\ strtol(c[1][2]) = p.max_tokens
      /\ c[3][2] # null /\ strtol(c[3][2]) = p.temperature
      /\ p.top_p # NULL_Q16 => c[4][2] # null /\ strtol(c[4][2]) = p.top_p
  BY Zenon, <1>2, NaturalNumeral
<1>4. c[2][2] = null /\ (p.top_p = NULL_Q16 => c[4][2] = null)
  BY Zenon, <1>2 DEF Numeral
<1>5. given = {1, 3} \cup (IF p.top_p = NULL_Q16 THEN {} ELSE {4})
  BY Zenon, <1>1, <1>3, <1>4
<1>6. Recorded(p) = [m \in {c[i][1] : i \in given} |-> strtol(c[at(m)][2])]
  BY DEF Recorded, c
<1> HIDE DEF given
<1>7. Sent(p) = {"max_tokens", "temperature"} \cup (IF p.top_p = NULL_Q16 THEN {} ELSE {"top_p"})
  BY Zenon DEF Sent
<1>8. {c[i][1] : i \in given} = Sent(p)
  BY Zenon, <1>2, <1>5, <1>7
<1>9. /\ at("max_tokens") = 1 /\ at("temperature") = 3
      /\ p.top_p # NULL_Q16 => at("top_p") = 4
  <2>1. \A i \in given : i = 1 \/ i = 3 \/ i = 4
    BY Zenon, <1>5
  <2>2. 1 \in given /\ 3 \in given /\ (p.top_p # NULL_Q16 => 4 \in given)
    BY Zenon, <1>5
  <2>3. "max_tokens" # "temperature" /\ "max_tokens" # "top_p" /\ "temperature" # "top_p"
    OBVIOUS
  <2> QED BY Zenon, <1>2, <2>1, <2>2, <2>3
<1> HIDE DEF at
<1>10. ASSUME NEW m \in Sent(p) PROVE strtol(c[at(m)][2]) = p[m]
  BY Zenon, <1>3, <1>7, <1>9
<1> QED BY Zenon, <1>6, <1>8, <1>10

(* What a header says of a number is a number. *)
LEMMA LastOfType ==
  ASSUME NEW ls \in Seq(HeaderLine), NEW k, NEW default \in Int
  PROVE  LastOf(ls, k, default) \in Int
<1> DEFINE at == {i \in DOMAIN ls : ls[i].key = k}
           last == CHOOSE i \in at : \A j \in at : j <= i
<1>1. Len(ls) \in Nat /\ at \in SUBSET (0 .. Len(ls)) /\ at \subseteq 1 .. Len(ls)
      /\ \A i \in 1 .. Len(ls) : ls[i] \in HeaderLine
  OBVIOUS
<1>2. LastOf(ls, k, default) = IF at = {} THEN default ELSE ls[last].num
  BY Zenon DEF LastOf
<1> HIDE DEF at
<1>3. CASE at # {}
  <2>1. PICK m \in at : \A j \in at : m >= j
    BY Zenon, <1>1, <1>3, MaxIn
  <2>2. \A j \in at : j <= m
    BY <1>1, <2>1
  <2>3. last \in at
    BY Zenon, <2>2
  <2> HIDE DEF last
  <2>4. ls[last].num \in Int
    BY Zenon, <1>1, <2>3, HeaderConstants
  <2> QED BY Zenon, <1>2, <1>3, <2>4
<1> QED BY Zenon, <1>2, <1>3

(* So are the values that s_read_request collects. *)
LEMMA HeaderType ==
  ASSUME NEW ls \in Seq(HeaderLine)
  PROVE  /\ Header(ls).max_tokens \in Int /\ Header(ls).temp_q16 \in Int /\ Header(ls).top_p_q16 \in Int
<1>1. -1 \in Int /\ default_max_tokens \in Int
  BY SMT, ParamsConstants
<1>2. /\ LastOf(ls, "max_tokens", default_max_tokens) \in Int
      /\ LastOf(ls, "temperature_q16", -1) \in Int
      /\ LastOf(ls, "top_p_q16", -1) \in Int
  BY Zenon, <1>1, LastOfType
<1>3. /\ Header(ls).max_tokens = LastOf(ls, "max_tokens", default_max_tokens)
      /\ Header(ls).temp_q16 = LastOf(ls, "temperature_q16", -1)
      /\ Header(ls).top_p_q16 = LastOf(ls, "top_p_q16", -1)
  BY DEF Header
<1> QED BY Zenon, <1>2, <1>3

(* A header that is not refused is in range. *)
LEMMA TakenInRange ==
  ASSUME NEW ls, Refusal(ls) = ""
  PROVE  OutOfRange(Header(ls)) = ""
<1>1. "seed_unsupported" # "" /\ "unknown_key" # ""
  OBVIOUS
<1> QED BY Zenon, <1>1 DEF Refusal

(* A value that is given is not one of those that stand for null. *)
LEMMA NullIsNegative == NULL_Q16 \in Int /\ NULL_Q16 < -1
BY SMT, ParamsConstants

(* So a value that passes the range checks is not taken for null. *)
LEMMA GivenIsNotNull ==
  ASSUME NEW t \in Int
  PROVE  /\ ~(t <= 0) => t \in Nat /\ t # NULL_INT
         /\ ~(t < 0) => t >= 0
         /\ t >= 0 => t \in Nat /\ t # NULL_Q16
BY SMT, NullIsNegative DEF NULL_INT

(* The parameters of a header in range are pinned, except top_p and the    *)
(* seed.                                                                   *)
LEMMA ParamsTaken ==
  ASSUME NEW h, h.max_tokens \in Int, h.temp_q16 \in Int, h.top_p_q16 \in Int, OutOfRange(h) = "",
         NEW p, p = Params(h)
  PROVE  /\ p.max_tokens \in Nat /\ p.max_tokens # NULL_INT /\ p.seed = NULL_INT
         /\ p.temperature \in Nat /\ p.temperature # NULL_Q16
         /\ p.top_p = NULL_Q16 \/ p.top_p \in Nat
<1>1. ~(h.max_tokens <= 0) /\ ~(h.temp_q16 < 0)
  BY Zenon DEF OutOfRange
<1>2. /\ p.max_tokens = h.max_tokens /\ p.seed = NULL_INT
      /\ p.temperature = IF h.temp_q16 >= 0 THEN h.temp_q16 ELSE NULL_Q16
      /\ p.top_p = IF h.top_p_q16 >= 0 THEN h.top_p_q16 ELSE NULL_Q16
  BY DEF Params, ax_oracle_params_init_null
<1>3. \A t \in Int : /\ ~(t <= 0) => t \in Nat /\ t # NULL_INT
                     /\ ~(t < 0) => t >= 0
                     /\ t >= 0 => t \in Nat /\ t # NULL_Q16
  BY Zenon, GivenIsNotNull
<1> QED BY Zenon, <1>1, <1>2, <1>3

(* What a header that was taken sends is what its record says. *)
LEMMA TakenIsSent ==
  ASSUME NEW ls \in Seq(HeaderLine), Refusal(ls) = "", NEW p, p = Params(Header(ls))
  PROVE  /\ BodyBuilds(p)
         /\ Sent(p) = DOMAIN Recorded(p)
         /\ \A m \in Sent(p) : Recorded(p)[m] = IF m = "max_tokens" THEN Body(p)[m] ELSE Nearest(Body(p)[m])
<1>1. PICK h : h = Header(ls) /\ p = Params(h) /\ OutOfRange(h) = ""
               /\ h.max_tokens \in Int /\ h.temp_q16 \in Int /\ h.top_p_q16 \in Int
  BY Zenon, TakenInRange, HeaderType
<1>2. /\ BodyBuilds(p)
      /\ \A m \in Sent(p) \ {"max_tokens"} : Nearest(Body(p)[m]) = p[m]
  BY Zenon, <1>1, SentValuesAreRecorded
<1>3. /\ p.max_tokens \in Nat /\ p.max_tokens # NULL_INT /\ p.seed = NULL_INT
      /\ p.temperature \in Nat /\ p.temperature # NULL_Q16
      /\ p.top_p = NULL_Q16 \/ p.top_p \in Nat
  BY Zenon, <1>1, ParamsTaken
<1>4. DOMAIN Recorded(p) = Sent(p) /\ \A m \in Sent(p) : Recorded(p)[m] = p[m]
  BY Zenon, <1>3, RecordedIs
<1>5. "max_tokens" \in Sent(p) /\ Body(p)["max_tokens"] = p["max_tokens"]
  BY Zenon DEF Sent, Body
<1> QED BY Zenon, <1>2, <1>4, <1>5

-----------------------------------------------------------------------------
(* The intent file, whole or cut. *)

WalKeys == WalMark \ {"\n"}

(* The characters of an intent file, and a text of them that is plain. *)
WalChar == STRING \cup WalMark \cup Digits \cup {"-"}
Unmarked(s) == s \in Seq(WalChar) /\ \A i \in 1 .. Len(s) : s[i] \notin WalMark

(* What the record keeps of a request is plain, *)
LEMMA UnbrokenIsUnmarked ==
  ASSUME NEW s, Unbroken(s)
  PROVE  Unmarked(s)
<1>1. s \in Seq(STRING) /\ \A i \in 1 .. Len(s) : s[i] \notin WalMark
  BY Zenon DEF Unbroken
<1>2. STRING \subseteq WalChar
  BY Zenon DEF WalChar
<1>3. \A A, B : A \subseteq B => Seq(A) \subseteq Seq(B)
  OBVIOUS
<1>4. s \in Seq(WalChar)
  BY Zenon, <1>1, <1>2, <1>3
<1> QED BY Zenon, <1>1, <1>4 DEF Unmarked

(* and so are numerals. *)
LEMMA NumeralIsUnbroken ==
  ASSUME NEW v \in Int
  PROVE  Unmarked(ax_format_int64(v))
<1>1. \A d \in 0 .. 9 : d + 1 \in 1 .. 10
  OBVIOUS
<1>2. \A i \in 1 .. 10 : Digit[i] \notin WalMark
  <2>1. /\ Digit[1] = "0" /\ Digit[2] = "1" /\ Digit[3] = "2" /\ Digit[4] = "3" /\ Digit[5] = "4"
        /\ Digit[6] = "5" /\ Digit[7] = "6" /\ Digit[8] = "7" /\ Digit[9] = "8" /\ Digit[10] = "9"
    BY DEF Digit
  <2>2. \A i \in 1 .. 10 : i = 1 \/ i = 2 \/ i = 3 \/ i = 4 \/ i = 5 \/ i = 6 \/ i = 7 \/ i = 8 \/ i = 9 \/ i = 10
    OBVIOUS
  <2> QED BY SMT, <2>1, <2>2 DEF WalMark
<1>3. "-" \notin WalMark
  BY DEF WalMark
<1>4. \A c \in Digits \cup {"-"} : c \in WalChar /\ c \notin WalMark
  BY Zenon, <1>1, <1>2, <1>3 DEF Digits, WalChar
<1>5. \A s \in Seq(Digits \cup {"-"}) : s \in Seq(WalChar) /\ \A i \in 1 .. Len(s) : s[i] \in Digits \cup {"-"}
  BY <1>4
<1> QED BY Zenon, <1>4, <1>5, NumeralReads DEF Unmarked

(* gw_wal_write adds a line. *)
LEMMA AddsLine ==
  ASSUME NEW a \in Seq(WalChar), NEW v, Unmarked(v), NEW key \in WalKeys, Lacks(a, key)
  PROVE  LET s == a \o Line(key, v) IN
           /\ s \in Seq(WalChar) /\ HasLine(s, key, v)
           /\ \A k \in WalKeys : k # key /\ Lacks(a, k) => Lacks(s, k)
           /\ \A k, u : u \in Seq(WalChar) /\ HasLine(a, k, u) => HasLine(s, k, u)
<1> DEFINE s == a \o Line(key, v)
<1>1. \A k \in WalKeys : k \in WalChar /\ k \notin {"\n"} /\ k \in WalMark
  BY Zenon DEF WalKeys, WalChar
<1>2. "\n" \in WalChar /\ "\n" \in WalMark
  BY Zenon DEF WalMark, WalChar
<1>3. v \in Seq(WalChar) /\ \A k \in WalMark : Lacks(v, k)
  BY Zenon DEF Unmarked, Lacks
<1>4. s \in Seq(WalChar) /\ HasLine(s, key, v)
  BY Zenon, <1>1, <1>2, <1>3, HasLineHere
<1>5. ASSUME NEW k \in WalKeys, k # key, Lacks(a, k) PROVE Lacks(s, k)
  <2>1. k \notin {key, "\n"} /\ Lacks(v, k) /\ key \in WalChar /\ v \in Seq(WalChar)
    BY Zenon, <1>1, <1>3, <1>5
  <2> QED BY Zenon, <1>2, <1>5, <2>1, StillLacks
<1>6. ASSUME NEW k, NEW u \in Seq(WalChar), HasLine(a, k, u) PROVE HasLine(s, k, u)
  <2>1. Line(key, v) \in Seq(WalChar)
    <3>1. <<key>> \in Seq(WalChar) /\ <<"\n">> \in Seq(WalChar)
      BY <1>1, <1>2
    <3> QED BY Zenon, <1>3, <3>1, ConcatProperties DEF Line
  <2> QED BY Zenon, <1>6, <2>1, HasLineStill
<1> QED BY Zenon, <1>4, <1>5, <1>6

(* The file that gw_wal_write leaves has a line for each field. *)
LEMMA WalLines ==
  ASSUME NEW in, Unmarked(in.input_hash), Unmarked(in.model_id), in.params.max_tokens \in Int,
         in.params.temperature \in Int, in.params.top_p \in Int
  PROVE  /\ WalText(in) \in Seq(WalChar)
         /\ HasLine(WalText(in), "input_hash=", in.input_hash)
         /\ HasLine(WalText(in), "model_id=", in.model_id)
         /\ HasLine(WalText(in), "max_tokens=", ax_format_int64(in.params.max_tokens))
         /\ HasLine(WalText(in), "temperature_q16=", ax_format_int64(in.params.temperature))
         /\ HasLine(WalText(in), "top_p_q16=", ax_format_int64(in.params.top_p))
<1> DEFINE h == in.input_hash
           i == in.model_id
           m == ax_format_int64(in.params.max_tokens)
           n == ax_format_int64(NULL_INT)
           t == ax_format_int64(in.params.temperature)
           q == ax_format_int64(in.params.top_p)
           t0 == <<>>
           t1 == t0 \o Line("input_hash=", h)
           t2 == t1 \o Line("model_id=", i)
           t3 == t2 \o Line("max_tokens=", m)
           t4 == t3 \o Line("seed=", n)
           t5 == t4 \o Line("temperature_q16=", t)
           t6 == t5 \o Line("top_p_q16=", q)
<1>1. Unmarked(h) /\ Unmarked(i) /\ Unmarked(m) /\ Unmarked(n) /\ Unmarked(t) /\ Unmarked(q)
  <2>1. NULL_INT \in Int
    BY DEF NULL_INT
  <2> QED BY Zenon, <2>1, NumeralIsUnbroken
<1>2. h \in Seq(WalChar) /\ i \in Seq(WalChar) /\ m \in Seq(WalChar) /\ t \in Seq(WalChar) /\ q \in Seq(WalChar)
  BY ZenonT(40), <1>1 DEF Unmarked
<1>3. /\ "input_hash=" \in WalKeys /\ "model_id=" \in WalKeys /\ "max_tokens=" \in WalKeys /\ "seed=" \in WalKeys
      /\ "temperature_q16=" \in WalKeys /\ "top_p_q16=" \in WalKeys
  BY DEF WalKeys, WalMark
<1>4. /\ "input_hash=" # "model_id=" /\ "input_hash=" # "max_tokens=" /\ "input_hash=" # "seed="
      /\ "input_hash=" # "temperature_q16=" /\ "input_hash=" # "top_p_q16="
      /\ "model_id=" # "max_tokens=" /\ "model_id=" # "seed=" /\ "model_id=" # "temperature_q16=" /\ "model_id=" # "top_p_q16="
      /\ "max_tokens=" # "seed=" /\ "max_tokens=" # "temperature_q16=" /\ "max_tokens=" # "top_p_q16="
      /\ "seed=" # "temperature_q16=" /\ "seed=" # "top_p_q16=" /\ "temperature_q16=" # "top_p_q16="
  OBVIOUS
<1>5. t0 \in Seq(WalChar) /\ \A k \in WalKeys : Lacks(t0, k)
  BY EmptySeq DEF Lacks
<1>6. WalText(in) = t6
  <2>1. Line("input_hash=", h) \in Seq(WalChar)
    <3>1. "input_hash=" \in WalChar /\ "\n" \in WalChar
      BY Zenon DEF WalMark, WalChar
    <3>2. <<"input_hash=">> \in Seq(WalChar) /\ <<"\n">> \in Seq(WalChar)
      BY <3>1
    <3> QED BY Zenon, <1>2, <3>2, ConcatProperties DEF Line
  <2>2. t1 = Line("input_hash=", h)
    BY Zenon, <2>1, ConcatEmptySeq
  <2> QED BY Zenon, <2>2 DEF WalText
<1> HIDE DEF h, i, m, n, t, q, t0, t1, t2, t3, t4, t5, t6
<1>7. /\ t1 \in Seq(WalChar) /\ HasLine(t1, "input_hash=", h)
      /\ Lacks(t1, "model_id=") /\ Lacks(t1, "max_tokens=") /\ Lacks(t1, "seed=")
      /\ Lacks(t1, "temperature_q16=") /\ Lacks(t1, "top_p_q16=")
  BY ZenonT(40), <1>1, <1>3, <1>4, <1>5, AddsLine DEF t1
<1>8. /\ t2 \in Seq(WalChar) /\ HasLine(t2, "input_hash=", h) /\ HasLine(t2, "model_id=", i)
      /\ Lacks(t2, "max_tokens=") /\ Lacks(t2, "seed=")
      /\ Lacks(t2, "temperature_q16=") /\ Lacks(t2, "top_p_q16=")
  BY Zenon, <1>1, <1>2, <1>3, <1>4, <1>7, AddsLine DEF t2
<1>9. /\ t3 \in Seq(WalChar) /\ HasLine(t3, "input_hash=", h) /\ HasLine(t3, "model_id=", i)
      /\ HasLine(t3, "max_tokens=", m) /\ Lacks(t3, "seed=")
      /\ Lacks(t3, "temperature_q16=") /\ Lacks(t3, "top_p_q16=")
  BY Zenon, <1>1, <1>2, <1>3, <1>4, <1>8, AddsLine DEF t3
<1>10. /\ t4 \in Seq(WalChar) /\ HasLine(t4, "input_hash=", h) /\ HasLine(t4, "model_id=", i)
       /\ HasLine(t4, "max_tokens=", m) /\ Lacks(t4, "temperature_q16=") /\ Lacks(t4, "top_p_q16=")
  BY ZenonT(40), <1>1, <1>2, <1>3, <1>4, <1>9, AddsLine DEF t4
<1>11. /\ t5 \in Seq(WalChar) /\ HasLine(t5, "input_hash=", h) /\ HasLine(t5, "model_id=", i)
       /\ HasLine(t5, "max_tokens=", m) /\ HasLine(t5, "temperature_q16=", t) /\ Lacks(t5, "top_p_q16=")
  BY ZenonT(40), <1>1, <1>2, <1>3, <1>4, <1>10, AddsLine DEF t5
<1>12. /\ t6 \in Seq(WalChar) /\ HasLine(t6, "input_hash=", h) /\ HasLine(t6, "model_id=", i)
       /\ HasLine(t6, "max_tokens=", m) /\ HasLine(t6, "temperature_q16=", t) /\ HasLine(t6, "top_p_q16=", q)
  BY Zenon, <1>1, <1>2, <1>3, <1>11, AddsLine DEF t6
<1> QED BY Zenon, <1>6, <1>12 DEF h, i, m, t, q

(* A number is read from a file that was cut at a line's end, or not at    *)
(* all, as it was written or as the default.                               *)
CutNumberRead(s, n, key, v, default) ==
  /\ n = Len(s) => FieldNumber(SubSeq(s, 1, n), key, default) = v
  /\ SubSeq(s, 1, n)[n] = "\n" => FieldNumber(SubSeq(s, 1, n), key, default) \in {v, default}

(* So it is, for every numeral that was written. *)
LEMMA CutNumber ==
  ASSUME NEW s \in Seq(WalChar), NEW v \in Int, NEW key \in WalKeys, HasLine(s, key, ax_format_int64(v)),
         NEW n \in 0 .. Len(s), NEW default
  PROVE  CutNumberRead(s, n, key, v, default)
<1> DEFINE x == ax_format_int64(v)
           c == SubSeq(s, 1, n)
           got == parse_field(c, key)
<1>1. x \in Seq(WalChar) /\ x # <<>> /\ strtol(x) = v
  BY Zenon, NumeralIsUnbroken, NumeralReads DEF Unmarked
<1> HIDE DEF x
<1>2. CutRead(s, n, key, x)
  BY Zenon, <1>1, CutLine DEF x
<1>3. (n = Len(s) => got = x) /\ (c[n] = "\n" => got \in {x, <<>>})
  BY Zenon, <1>2 DEF CutRead
<1>4. FieldNumber(c, key, default) = IF got = <<>> THEN default ELSE strtol(got)
  BY Zenon DEF FieldNumber
<1> HIDE DEF c, got
<1>5. (n = Len(s) => FieldNumber(c, key, default) = v) /\ (c[n] = "\n" => FieldNumber(c, key, default) \in {v, default})
  BY Zenon, <1>1, <1>3, <1>4
<1> QED BY Zenon, <1>5 DEF CutNumberRead, c

(* A hash that is whole is the one that was written. *)
LEMMA CutHash ==
  ASSUME NEW s \in Seq(WalChar), HasLine(s, "input_hash=", Hash), NEW n \in 0 .. Len(s)
  PROVE  LET got == parse_field(SubSeq(s, 1, n), "input_hash=") IN
           /\ n = Len(s) => got = Hash
           /\ Len(got) = HashLen => got = Hash
<1> DEFINE got == parse_field(SubSeq(s, 1, n), "input_hash=")
<1>1. Hash \in Seq(WalChar) /\ Len(Hash) = HashLen
  BY Zenon, HeaderConstants, UnbrokenIsUnmarked DEF Unmarked
<1>2. CutRead(s, n, "input_hash=", Hash)
  BY Zenon, <1>1, CutLine
<1>3. (n = Len(s) => got = Hash) /\ \E k \in 0 .. Len(Hash) : got = SubSeq(Hash, 1, k)
  BY Zenon, <1>2 DEF CutRead
<1> HIDE DEF got
<1>4. PICK k \in 0 .. Len(Hash) : got = SubSeq(Hash, 1, k)
  BY Zenon, <1>3
<1>5. \A T : \A x \in Seq(T) : \A j \in 0 .. Len(x) : Len(SubSeq(x, 1, j)) = j /\ (j = Len(x) => SubSeq(x, 1, j) = x)
  OBVIOUS
<1>6. Len(got) = k /\ (k = Len(Hash) => got = Hash)
  BY Zenon, <1>1, <1>4, <1>5
<1>7. Len(got) = HashLen => got = Hash
  BY Zenon, <1>1, <1>6
<1> QED BY Zenon, <1>3, <1>7 DEF got

(* What recover_wal makes of an intent, whole or cut. *)
LEMMA IntentRecovers ==
  ASSUME NEW p, p.max_tokens \in Int, p.temperature \in Int, p.top_p \in Int, p.seed = NULL_INT,
         NEW in, in = [input_hash |-> Hash, model_id |-> ModelId, params |-> p]
  PROVE  LET text == WalText(in) IN
           /\ Recovers(text)
           /\ ax_params_canonicalise(RecoveredParams(text)) = ax_params_canonicalise(p)
           /\ \A n \in 0 .. Len(text) :
                LET cut == SubSeq(text, 1, n)
                    got == RecoveredParams(cut)
                IN Recovers(cut) =>
                     /\ parse_field(cut, "input_hash=") = Hash
                     /\ cut[n] = "\n" => \A m \in DOMAIN got : got[m] \in {p[m], ax_oracle_params_init_null[m]}
<1> DEFINE text == WalText(in)
           null == ax_oracle_params_init_null
           Cut(n) == SubSeq(text, 1, n)
<1>1. in.input_hash = Hash /\ in.model_id = ModelId /\ in.params = p
  OBVIOUS
<1>2. Unmarked(Hash) /\ Unmarked(ModelId) /\ ModelId # <<>> /\ Len(Hash) = HashLen
  BY Zenon, HeaderConstants, UnbrokenIsUnmarked
<1>3. /\ text \in Seq(WalChar)
      /\ HasLine(text, "input_hash=", Hash)
      /\ HasLine(text, "model_id=", ModelId)
      /\ HasLine(text, "max_tokens=", ax_format_int64(p.max_tokens))
      /\ HasLine(text, "temperature_q16=", ax_format_int64(p.temperature))
      /\ HasLine(text, "top_p_q16=", ax_format_int64(p.top_p))
  BY Zenon, <1>1, <1>2, WalLines
<1>4. "max_tokens=" \in WalKeys /\ "temperature_q16=" \in WalKeys /\ "top_p_q16=" \in WalKeys
  BY DEF WalKeys, WalMark
<1>5. null.max_tokens = NULL_INT /\ null.seed = NULL_INT /\ null.temperature = NULL_Q16 /\ null.top_p = NULL_Q16
  BY DEF ax_oracle_params_init_null
<1>6. ASSUME NEW c, NEW r, r = RecoveredParams(c)
      PROVE  /\ DOMAIN r = {"max_tokens", "seed", "temperature", "top_p"}
             /\ r.max_tokens = FieldNumber(c, "max_tokens=", NULL_INT)
             /\ r.seed = NULL_INT
             /\ r.temperature = FieldNumber(c, "temperature_q16=", NULL_Q16)
             /\ r.top_p = FieldNumber(c, "top_p_q16=", NULL_Q16)
  BY <1>6 DEF RecoveredParams, ax_oracle_params_init_null
<1> HIDE DEF text, null
<1>7. Len(text) \in 0 .. Len(text) /\ Cut(Len(text)) = text
  BY <1>3
<1>8. Recovers(text)
  <2>1. parse_field(text, "input_hash=") = Hash
    BY Zenon, <1>3, <1>7, CutHash
  <2>2. parse_field(text, "model_id=") = ModelId
    <3>1. ModelId \in Seq(WalChar)
      BY Zenon, <1>2 DEF Unmarked
    <3>2. CutRead(text, Len(text), "model_id=", ModelId)
      BY Zenon, <1>3, <1>7, <3>1, CutLine
    <3> QED BY Zenon, <1>7, <3>2 DEF CutRead
  <2> QED BY Zenon, <1>2, <2>1, <2>2 DEF Recovers
<1>9. ax_params_canonicalise(RecoveredParams(text)) = ax_params_canonicalise(p)
  <2>1. PICK r : r = RecoveredParams(text)
    BY Zenon
  <2>2. /\ FieldNumber(text, "max_tokens=", NULL_INT) = p.max_tokens
        /\ FieldNumber(text, "temperature_q16=", NULL_Q16) = p.temperature
        /\ FieldNumber(text, "top_p_q16=", NULL_Q16) = p.top_p
    <3>1. /\ CutNumberRead(text, Len(text), "max_tokens=", p.max_tokens, NULL_INT)
          /\ CutNumberRead(text, Len(text), "temperature_q16=", p.temperature, NULL_Q16)
          /\ CutNumberRead(text, Len(text), "top_p_q16=", p.top_p, NULL_Q16)
      BY Zenon, <1>3, <1>4, <1>7, CutNumber
    <3> QED BY Zenon, <1>7, <3>1 DEF CutNumberRead
  <2>3. r.max_tokens = p.max_tokens /\ r.seed = p.seed /\ r.temperature = p.temperature /\ r.top_p = p.top_p
    BY Zenon, <1>6, <2>1, <2>2
  <2> QED BY Zenon, <2>1, <2>3 DEF ax_params_canonicalise
<1>10. ASSUME NEW n \in 0 .. Len(text), Recovers(Cut(n)) PROVE parse_field(Cut(n), "input_hash=") = Hash
  BY Zenon, <1>3, <1>10, CutHash DEF Recovers
<1>11. ASSUME NEW n \in 0 .. Len(text), Cut(n)[n] = "\n", NEW m \in DOMAIN RecoveredParams(Cut(n))
       PROVE  RecoveredParams(Cut(n))[m] \in {p[m], null[m]}
  <2>1. PICK r : r = RecoveredParams(Cut(n))
    BY Zenon
  <2>2. /\ FieldNumber(Cut(n), "max_tokens=", NULL_INT) \in {p.max_tokens, NULL_INT}
        /\ FieldNumber(Cut(n), "temperature_q16=", NULL_Q16) \in {p.temperature, NULL_Q16}
        /\ FieldNumber(Cut(n), "top_p_q16=", NULL_Q16) \in {p.top_p, NULL_Q16}
    <3>1. /\ CutNumberRead(text, n, "max_tokens=", p.max_tokens, NULL_INT)
          /\ CutNumberRead(text, n, "temperature_q16=", p.temperature, NULL_Q16)
          /\ CutNumberRead(text, n, "top_p_q16=", p.top_p, NULL_Q16)
      BY Zenon, <1>3, <1>4, CutNumber
    <3> QED BY Zenon, <1>11, <3>1 DEF CutNumberRead
  <2> HIDE DEF Cut
  <2>3. /\ r.max_tokens \in {p.max_tokens, null.max_tokens} /\ r.seed \in {p.seed, null.seed}
        /\ r.temperature \in {p.temperature, null.temperature} /\ r.top_p \in {p.top_p, null.top_p}
    BY Zenon, <1>5, <1>6, <2>1, <2>2
  <2>4. m = "max_tokens" \/ m = "seed" \/ m = "temperature" \/ m = "top_p"
    BY Zenon, <1>6, <1>11
  <2> QED BY Zenon, <2>1, <2>3, <2>4
<1> QED BY Zenon, <1>8, <1>9, <1>10, <1>11 DEF text, null
=============================================================================
