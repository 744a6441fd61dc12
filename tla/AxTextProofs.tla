---------------------------- MODULE AxTextProofs ----------------------------
(***************************************************************************)
(* Facts about the functions on texts of AxText.tla and GwJson.tla, for    *)
(* texts of every length; among them that the validator of validate.c is   *)
(* the grammar of RFC 3629 (ValidatesTheGrammar), and that a text that was *)
(* admitted is admitted again (AdmittedStays).                             *)
(*                                                                         *)
(* The loops of the C code are recursive functions here.  What such a      *)
(* function computes is shown by induction, in the form that first-order   *)
(* provers can use: a set that holds 0, and n + 1 with every n, holds all  *)
(* natural numbers.                                                        *)
(***************************************************************************)
EXTENDS TextProps, WellFoundedInduction, SequenceTheorems, TLAPS

(* A set of natural numbers has a least member. *)
LEMMA LeastMember ==
  ASSUME NEW T \in SUBSET Nat, T # {}
  PROVE  \E m \in T : \A k \in T : m <= k
<1>1. PICK m \in T : \A y \in T : ~(<<y, m>> \in OpToRel(<, Nat))
  BY WFMin, NatLessThanWellFounded
<1>2. \A y \in T : ~(y < m)
  BY Zenon, <1>1 DEF OpToRel
<1> QED
  BY <1>2

(* Induction over the natural numbers. *)
LEMMA Induction ==
  ASSUME NEW S, 0 \in S, \A n \in Nat : n \in S => n + 1 \in S
  PROVE  \A n \in Nat : n \in S
<1> SUFFICES ASSUME NEW b \in Nat, b \notin S PROVE FALSE
  OBVIOUS
<1> DEFINE T == {n \in Nat : n \notin S}
<1>1. PICK m \in T : \A k \in T : m <= k
  BY Zenon, LeastMember
<1>2. m # 0 /\ m - 1 \in Nat
  BY <1>1
<1>3. m - 1 \notin T
  BY <1>1, <1>2
<1> QED
  BY <1>1, <1>2, <1>3

(* Induction over the positions of a text, from its end. *)
LEMMA FromTheEnd ==
  ASSUME NEW N \in Nat, NEW S,
         \A p \in 1 .. N : (\A q \in p + 1 .. N : q \in S) => p \in S
  PROVE  \A p \in 1 .. N : p \in S
<1> SUFFICES ASSUME NEW b \in 1 .. N, b \notin S PROVE FALSE
  OBVIOUS
<1> DEFINE T == {n \in Nat : N - n \in 1 .. N /\ N - n \notin S}
<1>1. N - b \in T
  OBVIOUS
<1>2. PICK m \in T : \A k \in T : m <= k
  BY Zenon, <1>1, LeastMember
<1>3. N - m \in 1 .. N /\ N - m \notin S
  BY <1>2
<1>4. ASSUME NEW q \in N - m + 1 .. N PROVE q \in S
  <2>1. N - q \in Nat /\ N - q < m /\ N - (N - q) = q /\ q \in 1 .. N
    BY <1>3
  <2> QED
    BY <1>2, <2>1
<1> QED
  BY <1>3, <1>4

-----------------------------------------------------------------------------
(* What f says of the numbers below n. *)
Below(f, n) == [k \in 0 .. n - 1 |-> f[k]]

(* f has its values in V, each made by H from those below it. *)
Makes(H, N, V) == \A n \in 0 .. N : \A g \in [0 .. n - 1 -> V] : H[n][g] \in V
MadeBy(f, H, N, V) == f \in [0 .. N -> V] /\ \A n \in 0 .. N : f[n] = H[n][Below(f, n)]

(* A function on 0 .. N may be defined from its values below. *)
LEMMA CourseOfValues ==
  ASSUME NEW N \in Nat, NEW V, NEW H, Makes(H, N, V)
  PROVE  \E f : MadeBy(f, H, N, V)
<1> DEFINE Good(f, n) ==
             /\ f \in [0 .. n - 1 -> V]
             /\ \A m \in 0 .. n - 1 : f[m] = H[m][Below(f, m)]
           S == {n \in Nat : n > N + 1 \/ \E f : Good(f, n)}
<1>1. 0 \in S
  <2>1. 0 .. 0 - 1 = {}
    OBVIOUS
  <2>2. Good([k \in {} |-> k], 0)
    BY <2>1
  <2> QED
    BY Zenon, <2>2
<1>2. ASSUME NEW n \in Nat, n \in S PROVE n + 1 \in S
  <2>1. CASE n > N
    BY <2>1
  <2>2. CASE n <= N
    <3>1. PICK f : Good(f, n)
      BY <1>2, <2>2
    <3> DEFINE v == H[n][f]
               e == [k \in 0 .. n + 1 - 1 |-> IF k = n THEN v ELSE f[k]]
    <3>2. v \in V
      BY <2>2, <3>1 DEF Makes
    <3>3. e \in [0 .. n + 1 - 1 -> V]
      BY <3>1, <3>2
    <3>4. ASSUME NEW m \in 0 .. n + 1 - 1 PROVE e[m] = H[m][Below(e, m)]
      <4>1. Below(e, m) = Below(f, m)
        BY DEF Below
      <4>2. CASE m = n
        <5>1. f = Below(f, m)
          BY <3>1, <4>2 DEF Below
        <5> QED
          BY SMTT(30), <4>1, <4>2, <5>1
      <4>3. CASE m # n
        <5>1. m \in 0 .. n - 1
          BY <4>3
        <5> QED
          BY <3>1, <4>1, <4>3, <5>1
      <4> QED
        BY <4>2, <4>3
    <3> HIDE DEF e
    <3>5. Good(e, n + 1)
      BY <3>3, <3>4
    <3> HIDE DEF Good
    <3> QED
      BY <3>5
  <2> QED
    BY <2>1, <2>2
<1> HIDE DEF S
<1>3. N + 1 \in S
  BY <1>1, <1>2, Induction
<1>4. PICK f : Good(f, N + 1)
  BY <1>3 DEF S
<1>5. N + 1 - 1 = N
  OBVIOUS
<1>6. MadeBy(f, H, N, V)
  BY <1>4, <1>5 DEF MadeBy
<1> QED
  BY <1>6

(* A loop that makes its n-th value from the one before. *)
Iterated(N, V, base, h) == base \in V /\ \A n \in 1 .. N : \A v \in V : h[n][v] \in V
Iterates(f, N, V, base, h) ==
  f \in [0 .. N -> V] /\ f[0] = base /\ \A n \in 1 .. N : f[n] = h[n][f[n - 1]]

(* A function may be defined by such a loop. *)
LEMMA Iterate ==
  ASSUME NEW N \in Nat, NEW V, NEW base, NEW h, Iterated(N, V, base, h)
  PROVE  \E f : Iterates(f, N, V, base, h)
<1> DEFINE H == [n \in 0 .. N |-> [g \in [0 .. n - 1 -> V] |-> IF n = 0 THEN base ELSE h[n][g[n - 1]]]]
<1>1. ASSUME NEW n \in 0 .. N, NEW g \in [0 .. n - 1 -> V] PROVE H[n][g] \in V
  <2>1. CASE n = 0
    BY <2>1 DEF Iterated
  <2>2. CASE n # 0
    <3>1. n \in 1 .. N /\ g[n - 1] \in V
      BY <2>2
    <3>2. h[n][g[n - 1]] \in V
      BY Zenon, <3>1 DEF Iterated
    <3> QED
      BY <2>2, <3>2
  <2> QED
    BY <2>1, <2>2
<1>2. PICK f : MadeBy(f, H, N, V)
  <2> HIDE DEF H
  <2>1. Makes(H, N, V)
    BY <1>1 DEF Makes
  <2> QED
    BY Zenon, <2>1, CourseOfValues
<1>3. ASSUME NEW n \in 0 .. N PROVE f[n] = IF n = 0 THEN base ELSE h[n][f[n - 1]]
  <2> DEFINE g == Below(f, n)
  <2>1. g \in [0 .. n - 1 -> V]
    BY <1>2 DEF Below, MadeBy
  <2>2. f[n] = H[n][g]
    BY Zenon, <1>2 DEF MadeBy
  <2>3. n # 0 => g[n - 1] = f[n - 1]
    BY DEF Below
  <2>4. H[n][g] = IF n = 0 THEN base ELSE h[n][g[n - 1]]
    <3> HIDE DEF g
    <3> QED
      BY <2>1
  <2> HIDE DEF H, g
  <2> QED
    BY <2>2, <2>3, <2>4
<1>4. Iterates(f, N, V, base, h)
  <2>1. f \in [0 .. N -> V]
    BY <1>2 DEF MadeBy
  <2>2. 0 \in 0 .. N /\ \A n \in 1 .. N : n \in 0 .. N /\ n # 0
    OBVIOUS
  <2> HIDE DEF H
  <2> QED
    BY Zenon, <1>3, <2>1, <2>2 DEF Iterates
<1> QED
  BY <1>4

(***************************************************************************)
(* A loop over the positions of a text: at a position of Stop it ends with *)
(* base, at another one it goes on to a later position, nxt, and makes its *)
(* value from the one there.                                               *)
(***************************************************************************)
Loop(N, V, Stop, base, nxt, h) ==
  \A p \in 1 .. N :
    IF p \in Stop THEN base[p] \in V
    ELSE nxt[p] \in p + 1 .. N /\ \A v \in V : h[p][v] \in V

Runs(f, N, V, Stop, base, nxt, h) ==
  /\ f \in [1 .. N -> V]
  /\ \A p \in 1 .. N : f[p] = IF p \in Stop THEN base[p] ELSE h[p][f[nxt[p]]]

(* A function may be defined by such a loop. *)
LEMMA Walk ==
  ASSUME NEW N \in Nat, NEW V, NEW Stop, NEW base, NEW nxt, NEW h, Loop(N, V, Stop, base, nxt, h)
  PROVE  \E f : Runs(f, N, V, Stop, base, nxt, h)
<1>0. CASE N = 0
  <2>1. 1 .. N = {}
    BY <1>0
  <2>2. Runs([p \in {} |-> p], N, V, Stop, base, nxt, h)
    BY <2>1 DEF Runs
  <2> QED
    BY <2>2
<1>1. CASE N # 0
  <2> DEFINE M == N - 1
             H == [n \in 0 .. M |-> [g \in [0 .. n - 1 -> V] |->
                     IF N - n \in Stop THEN base[N - n] ELSE h[N - n][g[N - nxt[N - n]]]]]
  <2>0. M \in Nat
    BY <1>1
  <2>1. ASSUME NEW n \in 0 .. M, NEW g \in [0 .. n - 1 -> V] PROVE H[n][g] \in V
    <3>1. N - n \in 1 .. N
      BY <1>1
    <3>2. CASE N - n \in Stop
      BY <3>1, <3>2 DEF Loop
    <3>3. CASE N - n \notin Stop
      <4>1. nxt[N - n] \in N - n + 1 .. N
        BY <3>1, <3>3 DEF Loop
      <4>2. N - nxt[N - n] \in 0 .. n - 1
        BY <4>1
      <4>3. g[N - nxt[N - n]] \in V
        BY <4>2
      <4>4. h[N - n][g[N - nxt[N - n]]] \in V
        BY Zenon, <3>1, <3>3, <4>3 DEF Loop
      <4> QED
        BY <3>3, <4>4
    <3> QED
      BY <3>2, <3>3
  <2>2. PICK f : MadeBy(f, H, M, V)
    <3> HIDE DEF H, M
    <3>1. Makes(H, M, V)
      BY <2>1 DEF Makes
    <3> QED
      BY Zenon, <2>0, <3>1, CourseOfValues
  <2> DEFINE e == [p \in 1 .. N |-> f[N - p]]
  <2>3. e \in [1 .. N -> V]
    BY <2>2 DEF MadeBy
  <2>4. ASSUME NEW p \in 1 .. N PROVE e[p] = IF p \in Stop THEN base[p] ELSE h[p][e[nxt[p]]]
    <3> DEFINE g == Below(f, N - p)
    <3>1. N - p \in 0 .. M /\ N - (N - p) = p
      OBVIOUS
    <3>2. g \in [0 .. N - p - 1 -> V]
      BY <2>2, <3>1 DEF Below, MadeBy
    <3>3. e[p] = H[N - p][g]
      BY Zenon, <2>2, <3>1 DEF MadeBy
    <3>4. H[N - p][g] = IF p \in Stop THEN base[p] ELSE h[p][g[N - nxt[p]]]
      <4> HIDE DEF g
      <4> QED
        BY <3>1, <3>2
    <3>5. CASE p \notin Stop
      <4>1. nxt[p] \in p + 1 .. N
        BY <3>5 DEF Loop
      <4>2. N - nxt[p] \in 0 .. N - p - 1 /\ nxt[p] \in 1 .. N
        BY <4>1
      <4>3. g[N - nxt[p]] = e[nxt[p]]
        BY <4>2 DEF Below
      <4> HIDE DEF g, e, H
      <4> QED
        BY <3>3, <3>4, <3>5, <4>3
    <3> HIDE DEF g, e, H
    <3> QED
      BY <3>3, <3>4, <3>5
  <2> HIDE DEF e
  <2>5. Runs(e, N, V, Stop, base, nxt, h)
    BY <2>3, <2>4 DEF Runs
  <2> QED
    BY <2>5
<1> QED
  BY <1>0, <1>1

-----------------------------------------------------------------------------
(* The scanning loops of validate.c and gw_json.c. *)
LEMMA ScanUnfolds ==
  ASSUME NEW step \in Seq(0 .. 4)
  PROVE  /\ ScanFrom(step) \in [1 .. Len(step) + 4 -> BOOLEAN]
         /\ \A p \in 1 .. Len(step) + 4 :
              ScanFrom(step)[p] <=> p > Len(step) \/ (step[p] # 0 /\ ScanFrom(step)[p + step[p]])
<1> DEFINE N == Len(step) + 4
           Stop == {p \in 1 .. N : p > Len(step) \/ step[p] = 0}
           base == [p \in 1 .. N |-> p > Len(step)]
           nxt == [p \in 1 .. N |-> p + step[p]]
           h == [p \in 1 .. N |-> [v \in BOOLEAN |-> v]]
           Ok(f) == f = [p \in 1 .. N |-> p > Len(step) \/ (step[p] # 0 /\ f[p + step[p]])]
<1>1. N \in Nat /\ \A p \in 1 .. N : p <= Len(step) => step[p] \in 0 .. 4
  OBVIOUS
<1>2. ASSUME NEW p \in 1 .. N
      PROVE  IF p \in Stop THEN base[p] \in BOOLEAN
             ELSE nxt[p] \in p + 1 .. N /\ \A v \in BOOLEAN : h[p][v] \in BOOLEAN
  <2>1. CASE p \in Stop
    BY <2>1
  <2>2. CASE p \notin Stop
    <3>1. step[p] \in 1 .. 4 /\ p <= Len(step)
      BY <1>1, <2>2
    <3> QED
      BY <2>2, <3>1
  <2> QED
    BY <2>1, <2>2
<1>3. PICK f : Runs(f, N, BOOLEAN, Stop, base, nxt, h)
  <2> HIDE DEF N, Stop, base, nxt, h
  <2>1. Loop(N, BOOLEAN, Stop, base, nxt, h)
    BY <1>2 DEF Loop
  <2> QED
    BY Zenon, <1>1, <2>1, Walk
<1>4. Ok(f)
  <2>1. f \in [1 .. N -> BOOLEAN]
    BY <1>3 DEF Runs
  <2>2. ASSUME NEW p \in 1 .. N
        PROVE  f[p] = (p > Len(step) \/ (step[p] # 0 /\ f[p + step[p]]))
    <3>1. CASE p \in Stop
      <4>1. f[p] = base[p] /\ (p > Len(step) \/ step[p] = 0)
        BY Zenon, <1>3, <3>1 DEF Runs
      <4> QED
        BY <4>1
    <3>2. CASE p \notin Stop
      <4>1. f[p] = h[p][f[nxt[p]]] /\ ~(p > Len(step)) /\ step[p] # 0
        BY <1>3, <3>2 DEF Runs
      <4>2. nxt[p] = p + step[p] /\ p + step[p] \in 1 .. N
        BY <1>1, <3>2
      <4>3. f[p + step[p]] \in BOOLEAN
        BY <2>1, <4>2
      <4>4. f[p] = f[p + step[p]]
        BY <4>1, <4>2, <4>3
      <4> QED
        BY Zenon, <4>1, <4>3, <4>4
    <3> QED
      BY <3>1, <3>2
  <2> QED
    BY <2>1, <2>2
<1>5. Ok(ScanFrom(step))
  <2>1. ScanFrom(step) = CHOOSE g : Ok(g)
    BY DEF ScanFrom
  <2> HIDE DEF Ok
  <2> QED
    BY Zenon, <1>4, <2>1
<1>6. ScanFrom(step) \in [1 .. N -> BOOLEAN]
  BY Zenon, <1>5
<1> QED
  BY Zenon, <1>5, <1>6

(* A scan of the end of a text, and of that end on its own. *)
Shifted(t, k, x) == Len(t) = k + Len(x) /\ \A q \in 1 .. Len(x) : t[k + q] = x[q]

(* A scan of what stands k places further on ends in the same way. *)
LEMMA ScanShift ==
  ASSUME NEW t \in Seq(0 .. 4), NEW x \in Seq(0 .. 4), NEW k \in Nat, Shifted(t, k, x),
         NEW z \in 1 .. Len(x) + 4
  PROVE  ScanFrom(t)[k + z] <=> ScanFrom(x)[z]
<1> DEFINE N == Len(x) + 4
           S == {q \in 1 .. N : ScanFrom(t)[k + q] <=> ScanFrom(x)[q]}
<1>1. N \in Nat /\ Len(x) \in Nat /\ Len(t) \in Nat /\ Len(t) = k + Len(x)
  BY DEF Shifted
<1>2. ASSUME NEW q \in 1 .. N, \A r \in q + 1 .. N : r \in S PROVE q \in S
  <2>1. k + q \in 1 .. Len(t) + 4 /\ (k + q > Len(t) <=> q > Len(x))
    BY <1>1
  <2>2. /\ ScanFrom(t)[k + q] <=> k + q > Len(t) \/ (t[k + q] # 0 /\ ScanFrom(t)[k + q + t[k + q]])
        /\ ScanFrom(x)[q] <=> q > Len(x) \/ (x[q] # 0 /\ ScanFrom(x)[q + x[q]])
    BY Zenon, <2>1, ScanUnfolds
  <2>3. CASE q > Len(x)
    BY <2>1, <2>2, <2>3
  <2>4. CASE q \in 1 .. Len(x) /\ x[q] = 0
    <3>1. t[k + q] = x[q]
      BY Zenon, <2>4 DEF Shifted
    <3>2. ~(q > Len(x))
      BY <1>1, <2>4
    <3> QED
      BY <2>1, <2>2, <2>4, <3>1, <3>2
  <2>5. CASE q \in 1 .. Len(x) /\ x[q] # 0
    <3>1. t[k + q] = x[q] /\ x[q] \in 1 .. 4 /\ q + x[q] \in q + 1 .. N
      BY <1>1, <2>5 DEF Shifted
    <3>2. k + q + t[k + q] = k + (q + x[q])
      <4>1. PICK y \in 1 .. 4 : y = x[q]
        BY <3>1
      <4>2. q \in Nat
        BY <1>1
      <4>3. k + q + y = k + (q + y)
        BY <4>2
      <4> QED
        BY Zenon, <3>1, <4>1, <4>3
    <3>3. q + x[q] \in S
      BY Zenon, <1>2, <3>1
    <3>4. ScanFrom(t)[k + q + t[k + q]] <=> ScanFrom(x)[q + x[q]]
      BY Zenon, <3>2, <3>3
    <3> QED
      BY Zenon, <2>1, <2>2, <3>1, <3>4
  <2> QED
    BY <1>1, <2>3, <2>4, <2>5
<1> HIDE DEF S
<1>3. \A q \in 1 .. N : q \in S
  BY Zenon, <1>1, <1>2, FromTheEnd
<1> QED
  BY Zenon, <1>3 DEF S

-----------------------------------------------------------------------------
(* UTF-8. *)

Utf8Steps(s) == [p \in 1 .. Len(s) |-> Utf8Step(s, p)]

Ascii == 0 .. 127
NonAscii == 128 .. 255

(* What a byte can lead. *)
LEMMA SeqLenType ==
  ASSUME NEW c \in Byte
  PROVE  SeqLen(c) \in 0 .. 4
BY SMT DEF SeqLen, Byte

(* The bytes that lead a step of one byte are ASCII. *)
LEMMA LeadsOne ==
  ASSUME NEW c \in Byte, SeqLen(c) = 1
  PROVE  c \in Ascii
BY SMT DEF SeqLen, Byte, Ascii

(* An ASCII byte is a step of one byte. *)
LEMMA AsciiLeadsOne ==
  ASSUME NEW c \in Ascii
  PROVE  SeqLen(c) = 1
BY SMT DEF SeqLen, Ascii

(* The bytes that end lines are ASCII. *)
LEMMA LineEndsAscii == LF \in Ascii /\ CR \in Ascii /\ CR \notin NonAscii
BY SMT DEF LF, CR, Ascii, NonAscii

(* The bytes that lead a step of two bytes, *)
LEMMA LeadsTwo ==
  ASSUME NEW c \in Byte, SeqLen(c) = 2
  PROVE  c \in 192 .. 223
BY SMT DEF SeqLen, Byte

(* of three, *)
LEMMA LeadsThree ==
  ASSUME NEW c \in Byte, SeqLen(c) = 3
  PROVE  c \in 224 .. 239
BY SMT DEF SeqLen, Byte

(* and of four. *)
LEMMA LeadsFour ==
  ASSUME NEW c \in Byte, SeqLen(c) = 4
  PROVE  c \in 240 .. 247
BY SMT DEF SeqLen, Byte

(* A step is within the text and takes one ASCII byte, or several others. *)
LEMMA Utf8StepBytes ==
  ASSUME NEW s \in Seq(Byte), NEW p \in 1 .. Len(s), NEW n, n = Utf8Step(s, p)
  PROVE  /\ n \in 0 .. 4
         /\ n # 0 => n = SeqLen(s[p]) /\ Utf8Seq(s, p, n) /\ p + n - 1 <= Len(s)
         /\ n = 1 => s[p] \in Ascii
         /\ n > 1 => \A k \in 0 .. n - 1 : s[p + k] \in NonAscii
<1>1. PICK c \in Byte : c = s[p]
  OBVIOUS
<1>2. PICK m \in 0 .. 4 : m = SeqLen(c)
  BY SeqLenType
<1>3. /\ m = 1 => c \in Ascii
      /\ m > 1 => c \in NonAscii
  <2>1. m = 1 => c \in Ascii
    BY Zenon, <1>2, LeadsOne
  <2>2. m = 2 => c \in 192 .. 223
    BY Zenon, <1>2, LeadsTwo
  <2>3. m = 3 => c \in 224 .. 239
    BY Zenon, <1>2, LeadsThree
  <2>4. m = 4 => c \in 240 .. 247
    BY Zenon, <1>2, LeadsFour
  <2> QED
    BY SMT, <1>2, <2>1, <2>2, <2>3, <2>4 DEF Byte, NonAscii
<1>4. n = 0 \/ (n = m /\ Utf8Seq(s, p, n))
  BY <1>1, <1>2 DEF Utf8Step
<1>5. ASSUME n # 0 PROVE p + n - 1 <= Len(s) /\ \A k \in 1 .. n - 1 : Cont(s[p + k])
  BY <1>4, <1>5 DEF Utf8Seq
<1>6. ASSUME n > 1, NEW k \in 0 .. n - 1 PROVE s[p + k] \in NonAscii
  <2>1. CASE k = 0
    BY <1>1, <1>2, <1>3, <1>4, <1>6, <2>1
  <2>2. CASE k # 0
    <3>1. k \in 1 .. n - 1 /\ n # 0
      BY <1>2, <1>4, <1>6, <2>2
    <3> QED
      BY <1>5, <3>1 DEF Cont, NonAscii
  <2> QED
    BY <2>1, <2>2
<1> QED
  BY <1>1, <1>2, <1>3, <1>4, <1>5, <1>6

(* The steps of a text are a sequence of steps. *)
LEMMA Utf8StepsType ==
  ASSUME NEW s \in Seq(Byte)
  PROVE  /\ Utf8Steps(s) \in Seq(0 .. 4) /\ Len(Utf8Steps(s)) = Len(s)
         /\ \A p \in 1 .. Len(s) : Utf8Steps(s)[p] = Utf8Step(s, p)
<1>1. \A p \in 1 .. Len(s) : Utf8Step(s, p) \in 0 .. 4
  BY Zenon, Utf8StepBytes
<1>2. Len(s) \in Nat
  OBVIOUS
<1> QED
  BY <1>1, <1>2 DEF Utf8Steps

(* A step sees the bytes it takes, wherever they stand. *)
LEMMA Utf8StepLocal ==
  ASSUME NEW s \in Seq(Byte), NEW p \in 1 .. Len(s), NEW t \in Seq(Byte), NEW q \in 1 .. Len(t),
         Len(s) - p = Len(t) - q, \A k \in 0 .. Len(s) - p : s[p + k] = t[q + k]
  PROVE  Utf8Step(s, p) = Utf8Step(t, q)
<1>0. PICK z \in 0 .. Len(s) - p : p + z = p /\ q + z = q
  <2>1. 0 \in 0 .. Len(s) - p
    OBVIOUS
  <2> QED
    BY <2>1
<1>1. PICK c \in Byte : c = s[p] /\ c = t[q]
  <2>1. s[p + z] = t[q + z]
    OBVIOUS
  <2>2. s[p] \in Byte
    OBVIOUS
  <2> QED
    BY Zenon, <1>0, <2>1, <2>2
<1>2. PICK m \in 0 .. 4 : m = SeqLen(c)
  BY SeqLenType
<1>3. p + m - 1 <= Len(s) <=> q + m - 1 <= Len(t)
  BY <1>2
<1>4. Utf8Seq(s, p, m) <=> Utf8Seq(t, q, m)
  <2>1. CASE ~(p + m - 1 <= Len(s))
    BY <1>3, <2>1 DEF Utf8Seq
  <2>2. CASE p + m - 1 <= Len(s)
    <3>1. \A k \in 1 .. m - 1 : s[p + k] = t[q + k]
      BY <1>2, <2>2
    <3>2. m = 3 => CodePoint(s, p, 3) = CodePoint(t, q, 3)
      BY SMT, <1>1, <3>1 DEF CodePoint
    <3>3. m = 4 => CodePoint(s, p, 4) = CodePoint(t, q, 4)
      BY SMT, <1>1, <3>1 DEF CodePoint
    <3> QED
      BY Zenon, <1>1, <1>3, <3>1, <3>2, <3>3 DEF Utf8Seq
  <2> QED
    BY <2>1, <2>2
<1> QED
  BY <1>1, <1>2, <1>4 DEF Utf8Step

-----------------------------------------------------------------------------
(* Line endings. *)

(* Where ax_normalise_line_endings goes on after the byte at p. *)
AfterByte(s, p) == IF s[p] = CR /\ p < Len(s) /\ s[p + 1] = LF THEN p + 2 ELSE p + 1
LineFeed(c) == IF c = CR THEN LF ELSE c

(* CR and LF are two bytes. *)
LEMMA LineEnds == LF \in Byte /\ CR \in Byte /\ LF # CR
BY SMT DEF LF, CR, Byte

(* The loop of ax_normalise_line_endings. *)
LEMMA LineFeedsUnfold ==
  ASSUME NEW s \in Seq(Byte)
  PROVE  /\ LineFeedsFrom(s) \in [1 .. Len(s) + 2 -> Seq(Byte)]
         /\ \A p \in 1 .. Len(s) + 2 :
              LineFeedsFrom(s)[p] = IF p > Len(s) THEN <<>>
                                    ELSE <<LineFeed(s[p])>> \o LineFeedsFrom(s)[AfterByte(s, p)]
<1> DEFINE N == Len(s) + 2
           Stop == {p \in 1 .. N : p > Len(s)}
           base == [p \in 1 .. N |-> <<>>]
           nxt == [p \in 1 .. N |-> AfterByte(s, p)]
           h == [p \in 1 .. N |-> [v \in Seq(Byte) |-> <<LineFeed(s[p])>> \o v]]
           Ok(f) == f = [p \in 1 .. N |->
                           IF p > Len(s) THEN <<>>
                           ELSE IF s[p] # CR THEN <<s[p]>> \o f[p + 1]
                           ELSE <<LF>> \o f[IF p < Len(s) /\ s[p + 1] = LF THEN p + 2 ELSE p + 1]]
<1>1. N \in Nat /\ Len(s) \in Nat
  OBVIOUS
<1>2. ASSUME NEW p \in 1 .. N, ~(p > Len(s))
      PROVE  AfterByte(s, p) \in p + 1 .. N /\ LineFeed(s[p]) \in Byte
  <2>1. AfterByte(s, p) \in p + 1 .. N
    <3>1. AfterByte(s, p) = p + 1 \/ AfterByte(s, p) = p + 2
      BY Zenon DEF AfterByte
    <3> QED
      BY <1>1, <1>2, <3>1
  <2>2. s[p] \in Byte
    BY <1>1, <1>2
  <2> QED
    BY <2>1, <2>2, LineEnds DEF LineFeed
<1>3. ASSUME NEW p \in 1 .. N
      PROVE  IF p \in Stop THEN base[p] \in Seq(Byte)
             ELSE nxt[p] \in p + 1 .. N /\ \A v \in Seq(Byte) : h[p][v] \in Seq(Byte)
  <2>1. CASE p \in Stop
    BY <2>1
  <2>2. CASE p \notin Stop
    <3>1. nxt[p] \in p + 1 .. N /\ LineFeed(s[p]) \in Byte
      BY <1>2, <2>2
    <3>2. ASSUME NEW v \in Seq(Byte) PROVE h[p][v] \in Seq(Byte)
      <4>1. h[p][v] = <<LineFeed(s[p])>> \o v
        OBVIOUS
      <4>2. <<LineFeed(s[p])>> \in Seq(Byte)
        BY <3>1
      <4> QED
        BY <4>1, <4>2, ConcatProperties
    <3> QED
      BY <2>2, <3>1, <3>2
  <2> QED
    BY <2>1, <2>2
<1>4. PICK f : Runs(f, N, Seq(Byte), Stop, base, nxt, h)
  <2> HIDE DEF N, Stop, base, nxt, h
  <2>1. Loop(N, Seq(Byte), Stop, base, nxt, h)
    BY <1>3 DEF Loop
  <2> QED
    BY Zenon, <1>1, <2>1, Walk
<1>5. f \in [1 .. N -> Seq(Byte)]
  BY <1>4 DEF Runs
<1>6. ASSUME NEW p \in 1 .. N
      PROVE  f[p] = IF p > Len(s) THEN <<>> ELSE <<LineFeed(s[p])>> \o f[AfterByte(s, p)]
  <2>1. CASE p \in Stop
    <3>1. f[p] = base[p] /\ p > Len(s)
      BY Zenon, <1>4, <2>1 DEF Runs
    <3> QED
      BY <3>1
  <2>2. CASE p \notin Stop
    <3>1. f[p] = h[p][f[nxt[p]]] /\ ~(p > Len(s))
      BY Zenon, <1>4, <2>2 DEF Runs
    <3>2. nxt[p] = AfterByte(s, p) /\ AfterByte(s, p) \in 1 .. N
      BY <1>1, <1>2, <3>1
    <3>3. f[AfterByte(s, p)] \in Seq(Byte)
      BY <1>5, <3>2
    <3> QED
      BY <3>1, <3>2, <3>3
  <2> QED
    BY <2>1, <2>2
<1>7. Ok(f)
  <2>1. ASSUME NEW p \in 1 .. N
        PROVE  f[p] = IF p > Len(s) THEN <<>>
                      ELSE IF s[p] # CR THEN <<s[p]>> \o f[p + 1]
                      ELSE <<LF>> \o f[IF p < Len(s) /\ s[p + 1] = LF THEN p + 2 ELSE p + 1]
    BY Zenon, <1>6 DEF LineFeed, AfterByte
  <2> QED
    BY Zenon, <1>5, <2>1
<1>8. Ok(LineFeedsFrom(s))
  <2>1. LineFeedsFrom(s) = CHOOSE g : Ok(g)
    BY DEF LineFeedsFrom
  <2> HIDE DEF Ok
  <2> QED
    BY Zenon, <1>7, <2>1
<1> DEFINE g == LineFeedsFrom(s)
           S == {p \in 1 .. N : g[p] \in Seq(Byte)}
<1>9. ASSUME NEW p \in 1 .. N
      PROVE  g[p] = IF p > Len(s) THEN <<>> ELSE <<LineFeed(s[p])>> \o g[AfterByte(s, p)]
  BY Zenon, <1>8 DEF LineFeed, AfterByte
<1>10. ASSUME NEW p \in 1 .. N, \A q \in p + 1 .. N : q \in S PROVE p \in S
  <2> HIDE DEF g
  <2>1. CASE p > Len(s)
    <3>1. g[p] = <<>>
      BY Zenon, <1>9, <2>1
    <3> QED
      BY Zenon, <3>1, EmptySeq
  <2>2. CASE ~(p > Len(s))
    <3>1. g[AfterByte(s, p)] \in Seq(Byte) /\ <<LineFeed(s[p])>> \in Seq(Byte)
      BY <1>2, <1>10, <2>2
    <3>2. <<LineFeed(s[p])>> \o g[AfterByte(s, p)] \in Seq(Byte)
      BY <3>1, ConcatProperties
    <3> QED
      BY Zenon, <1>9, <2>2, <3>2
  <2> QED
    BY <2>1, <2>2
<1>11. \A p \in 1 .. N : p \in S
  <2> HIDE DEF S, N
  <2> QED
    BY Zenon, <1>1, <1>10, FromTheEnd
<1>12. DOMAIN g = 1 .. N /\ g = [p \in 1 .. N |-> g[p]]
  BY Zenon, <1>8
<1>13. g \in [1 .. N -> Seq(Byte)]
  <2> HIDE DEF g
  <2> QED
    BY <1>11, <1>12
<1> QED
  BY Zenon, <1>9, <1>13

(* x is n bytes and then v. *)
Follows(v, n, x) == /\ x \in Seq(Byte) /\ v \in Seq(Byte) /\ n \in Nat /\ Len(x) = n + Len(v)
                    /\ \A i \in 1 .. Len(v) : x[n + i] = v[i]

(* What follows on what follows. *)
LEMMA FollowsOn ==
  ASSUME NEW w, NEW v, NEW x, NEW m, NEW n, Follows(v, m, x), Follows(w, n, v)
  PROVE  Follows(w, m + n, x)
<1>1. /\ m \in Nat /\ n \in Nat /\ Len(w) \in Nat
      /\ Len(x) = m + Len(v) /\ Len(v) = n + Len(w)
      /\ x \in Seq(Byte) /\ w \in Seq(Byte)
  BY DEF Follows
<1>2. ASSUME NEW i \in 1 .. Len(w) PROVE x[m + n + i] = w[i]
  <2>1. n + i \in 1 .. Len(v) /\ m + n + i = m + (n + i)
    BY <1>1
  <2>2. x[m + (n + i)] = v[n + i] /\ v[n + i] = w[i]
    BY Zenon, <2>1 DEF Follows
  <2> QED
    BY <2>1, <2>2
<1> QED
  BY <1>1, <1>2 DEF Follows

(* One byte before a text. *)
LEMMA Prefixed ==
  ASSUME NEW c \in Byte, NEW v \in Seq(Byte), NEW x, x = <<c>> \o v
  PROVE  x[1] = c /\ Follows(v, 1, x)
<1>1. <<c>> \in Seq(Byte) /\ Len(<<c>>) = 1 /\ <<c>>[1] = c
  OBVIOUS
<1> QED
  BY <1>1, ConcatProperties DEF Follows

(* One round of ax_normalise_line_endings. *)
LEMMA LineFeedsRound ==
  ASSUME NEW s \in Seq(Byte), NEW p \in 1 .. Len(s), NEW g, g = LineFeedsFrom(s),
         NEW r, r = AfterByte(s, p)
  PROVE  /\ r \in p + 1 .. Len(s) + 1 /\ (r = p + 1 \/ (r = p + 2 /\ s[p] = CR /\ s[p + 1] = LF))
         /\ g[p][1] = LineFeed(s[p]) /\ Follows(g[r], 1, g[p])
<1>1. r = p + 1 \/ (r = p + 2 /\ p < Len(s) /\ s[p] = CR /\ s[p + 1] = LF)
  BY Zenon DEF AfterByte
<1>2. r \in p + 1 .. Len(s) + 1
  BY <1>1
<1>3. p \in 1 .. Len(s) + 2 /\ r \in 1 .. Len(s) + 2 /\ ~(p > Len(s))
  BY <1>2
<1>4. g[p] = <<LineFeed(s[p])>> \o g[r] /\ g \in [1 .. Len(s) + 2 -> Seq(Byte)]
  BY Zenon, <1>3, LineFeedsUnfold
<1>5. s[p] \in Byte
  OBVIOUS
<1>6. LineFeed(s[p]) \in Byte
  BY Zenon, <1>5, LineEnds DEF LineFeed
<1>7. g[r] \in Seq(Byte)
  BY <1>3, <1>4
<1>8. g[p][1] = LineFeed(s[p]) /\ Follows(g[r], 1, g[p])
  BY Zenon, <1>4, <1>6, <1>7, Prefixed
<1> QED
  BY <1>1, <1>2, <1>8

(* At the end there is nothing left. *)
LEMMA LineFeedsEnd ==
  ASSUME NEW s \in Seq(Byte)
  PROVE  LineFeedsFrom(s)[Len(s) + 1] = <<>>
<1>1. Len(s) + 1 \in 1 .. Len(s) + 2 /\ Len(s) + 1 > Len(s)
  OBVIOUS
<1> QED
  BY Zenon, <1>1, LineFeedsUnfold

(* Normalised text is no longer, and has no CR. *)
LEMMA LineFeedsShape ==
  ASSUME NEW s \in Seq(Byte), NEW g, g = LineFeedsFrom(s)
  PROVE  \A p \in 1 .. Len(s) + 1 :
           g[p] \in Seq(Byte) /\ Len(g[p]) <= Len(s) + 1 - p /\ \A i \in 1 .. Len(g[p]) : g[p][i] # CR
<1> DEFINE Q(p) == g[p] \in Seq(Byte) /\ Len(g[p]) <= Len(s) + 1 - p
                   /\ \A i \in 1 .. Len(g[p]) : g[p][i] # CR
           N == Len(s) + 1
           S == {p \in 1 .. N : Q(p)}
<1>1. N \in Nat /\ Len(s) \in Nat
  OBVIOUS
<1>2. ASSUME NEW p \in 1 .. N, \A q \in p + 1 .. N : q \in S PROVE p \in S
  <2>1. CASE p = N
    <3>1. g[p] = <<>>
      BY Zenon, <2>1, LineFeedsEnd
    <3>2. Q(p)
      BY <1>1, <2>1, <3>1
    <3> QED
      BY <3>2
  <2>2. CASE p # N
    <3>0. p \in 1 .. Len(s)
      BY <1>1, <2>2
    <3>1. PICK r : r = AfterByte(s, p)
      OBVIOUS
    <3>a. r \in p + 1 .. N /\ g[p][1] = LineFeed(s[p]) /\ Follows(g[r], 1, g[p])
      BY Zenon, <3>0, <3>1, LineFeedsRound
    <3>2. /\ r \in p + 1 .. N /\ g[p] \in Seq(Byte) /\ g[r] \in Seq(Byte)
          /\ Len(g[p]) = 1 + Len(g[r]) /\ g[p][1] = LineFeed(s[p])
          /\ \A i \in 1 .. Len(g[r]) : g[p][1 + i] = g[r][i]
      BY <3>a DEF Follows
    <3>3. Q(r)
      BY <1>2, <3>2
    <3>4. LineFeed(s[p]) # CR
      BY Zenon, LineEnds DEF LineFeed
    <3>5. Len(g[p]) <= Len(s) + 1 - p
      BY <1>1, <3>0, <3>2, <3>3
    <3>6. ASSUME NEW i \in 1 .. Len(g[p]) PROVE g[p][i] # CR
      <4>1. CASE i = 1
        BY <3>2, <3>4, <4>1
      <4>2. CASE i # 1
        <5>1. i - 1 \in 1 .. Len(g[r]) /\ 1 + (i - 1) = i
          BY <3>2, <4>2
        <5> QED
          BY Zenon, <3>2, <3>3, <5>1
      <4> QED
        BY <4>1, <4>2
    <3> QED
      BY <3>2, <3>5, <3>6
  <2> QED
    BY <2>1, <2>2
<1> HIDE DEF Q
<1>3. \A p \in 1 .. N : p \in S
  <2> HIDE DEF S, N
  <2> QED
    BY Zenon, <1>1, <1>2, FromTheEnd
<1>4. \A p \in 1 .. N : Q(p)
  BY Zenon, <1>3
<1> QED
  BY Zenon, <1>4 DEF Q

(* Bytes without a CR among them are copied. *)
NoCRs(s, p, n) == p + n <= Len(s) + 1 /\ \A k \in 0 .. n - 1 : s[p + k] # CR
Copied(s, p, n, x) == \A k \in 0 .. n - 1 : x[k + 1] = s[p + k]

(* Bytes none of which is a CR are copied. *)
LEMMA LineFeedsCopy ==
  ASSUME NEW s \in Seq(Byte), NEW p \in 1 .. Len(s) + 1, NEW n \in Nat, NoCRs(s, p, n),
         NEW g, g = LineFeedsFrom(s)
  PROVE  Copied(s, p, n, g[p]) /\ Follows(g[p + n], n, g[p])
<1> DEFINE Q(m) == Copied(s, p, m, g[p]) /\ Follows(g[p + m], m, g[p])
           S == {m \in Nat : m <= n => Q(m)}
<1>0. Len(s) \in Nat /\ p \in Nat
  OBVIOUS
<1>1. 0 \in S
  <2>1. g[p] \in Seq(Byte)
    BY Zenon, LineFeedsShape
  <2>2. p + 0 = p
    BY <1>0
  <2>3. Follows(g[p + 0], 0, g[p])
    BY <2>1, <2>2 DEF Follows
  <2>4. Copied(s, p, 0, g[p])
    BY DEF Copied
  <2> QED
    BY <2>3, <2>4
<1>2. ASSUME NEW m \in Nat, m \in S PROVE m + 1 \in S
  <2> SUFFICES ASSUME m + 1 <= n PROVE Q(m + 1)
    OBVIOUS
  <2>1. Q(m)
    BY <1>2
  <2>2. p + m \in 1 .. Len(s) /\ s[p + m] # CR
    <3>1. m \in 0 .. n - 1 /\ p + n <= Len(s) + 1
      BY DEF NoCRs
    <3>2. s[p + m] # CR
      BY Zenon, <3>1 DEF NoCRs
    <3> QED
      BY <1>0, <3>1, <3>2
  <2>3. PICK r : r = AfterByte(s, p + m)
    OBVIOUS
  <2>4. /\ r = p + m + 1 \/ s[p + m] = CR
        /\ g[p + m][1] = LineFeed(s[p + m]) /\ Follows(g[r], 1, g[p + m])
    BY ZenonT(40), <2>2, <2>3, LineFeedsRound
  <2>5. r = p + (m + 1) /\ g[p + m][1] = s[p + m]
    BY <1>0, <2>2, <2>4 DEF LineFeed
  <2>6. Follows(g[r], m + 1, g[p])
    BY Zenon, <2>1, <2>4, FollowsOn
  <2>7. g[p][m + 1] = s[p + m]
    <3>1. 1 \in 1 .. Len(g[p + m])
      BY <2>4 DEF Follows
    <3> QED
      BY Zenon, <2>1, <2>5, <3>1 DEF Follows
  <2>8. Copied(s, p, m + 1, g[p])
    BY SMTT(30), <2>1, <2>7 DEF Copied
  <2> QED
    BY <2>5, <2>6, <2>8
<1> HIDE DEF Q
<1>3. \A m \in Nat : m \in S
  <2> HIDE DEF S
  <2> QED
    BY Zenon, <1>1, <1>2, Induction
<1>4. Q(n)
  BY <1>3
<1> QED
  BY Zenon, <1>4 DEF Q

(* Text without a CR is unchanged. *)
LEMMA NormalIsUnchanged ==
  ASSUME NEW s \in Seq(Byte), \A i \in 1 .. Len(s) : s[i] # CR
  PROVE  LineFeedsFrom(s)[1] = s
<1>1. 1 \in 1 .. Len(s) + 1 /\ Len(s) \in Nat /\ 1 + Len(s) = Len(s) + 1
  OBVIOUS
<1>2. NoCRs(s, 1, Len(s))
  BY <1>1 DEF NoCRs
<1>3. PICK g : g = LineFeedsFrom(s)
  OBVIOUS
<1>4. Copied(s, 1, Len(s), g[1]) /\ Follows(g[Len(s) + 1], Len(s), g[1])
  BY Zenon, <1>1, <1>2, <1>3, LineFeedsCopy
<1>5. g[Len(s) + 1] = <<>>
  BY Zenon, <1>3, LineFeedsEnd
<1>6. g[1] \in Seq(Byte) /\ Len(g[1]) = Len(s)
  BY <1>4, <1>5 DEF Follows
<1>7. ASSUME NEW i \in 1 .. Len(s) PROVE g[1][i] = s[i]
  <2>1. i - 1 \in 0 .. Len(s) - 1 /\ i - 1 + 1 = i /\ 1 + (i - 1) = i
    BY <1>1
  <2> QED
    BY <1>4, <2>1 DEF Copied
<1>8. g[1] = s
  BY <1>6, <1>7, SeqEqual
<1> QED
  BY <1>3, <1>8

-----------------------------------------------------------------------------
(* Texts that are UTF-8. *)

Utf8From(s, p) == ScanFrom(Utf8Steps(s))[p]

(* A text is UTF-8 if the scan from its first byte succeeds. *)
LEMMA Utf8Start ==
  ASSUME NEW s
  PROVE  ax_validate_utf8(s) <=> Utf8From(s, 1)
BY Zenon DEF ax_validate_utf8, Scans, Utf8Steps, Utf8From

(* The scan succeeds past the end. *)
LEMMA Utf8End ==
  ASSUME NEW s \in Seq(Byte), NEW p \in Len(s) + 1 .. Len(s) + 4
  PROVE  Utf8From(s, p)
<1>1. PICK step \in Seq(0 .. 4) : step = Utf8Steps(s) /\ Len(step) = Len(s)
  BY Zenon, Utf8StepsType
<1>2. p \in 1 .. Len(s) + 4 /\ p > Len(s)
  OBVIOUS
<1> QED
  BY Zenon, <1>1, <1>2, ScanUnfolds DEF Utf8From

(* One step of the scan. *)
LEMMA Utf8Round ==
  ASSUME NEW s \in Seq(Byte), NEW p \in 1 .. Len(s)
  PROVE  Utf8From(s, p) <=> Utf8Step(s, p) # 0 /\ Utf8From(s, p + Utf8Step(s, p))
<1>1. PICK step \in Seq(0 .. 4) : step = Utf8Steps(s) /\ Len(step) = Len(s)
  BY Zenon, Utf8StepsType
<1>2. p \in 1 .. Len(s) + 4 /\ ~(p > Len(s))
  OBVIOUS
<1>3. step[p] = Utf8Step(s, p)
  BY Zenon, <1>1, Utf8StepsType
<1> QED
  BY Zenon, <1>1, <1>2, <1>3, ScanUnfolds DEF Utf8From

(* A step only looks at the bytes it takes, wherever they stand. *)
LEMMA Utf8StepSeen ==
  ASSUME NEW s \in Seq(Byte), NEW p \in 1 .. Len(s), Utf8Step(s, p) # 0,
         NEW t \in Seq(Byte), NEW q \in 1 .. Len(t), q + Utf8Step(s, p) - 1 <= Len(t),
         \A k \in 0 .. Utf8Step(s, p) - 1 : t[q + k] = s[p + k]
  PROVE  Utf8Step(t, q) = Utf8Step(s, p)
<1>0. PICK n : n = Utf8Step(s, p)
  OBVIOUS
<1>1. PICK c \in Byte : c = s[p]
  OBVIOUS
<1>2. n \in 0 .. 4 /\ n = SeqLen(c) /\ Utf8Seq(s, p, n)
  BY Zenon, <1>0, <1>1, Utf8StepBytes
<1>3. ASSUME NEW k \in 1 .. n - 1 PROVE s[p + k] = t[q + k]
  BY <1>0, <1>2
<1>4. t[q] = c
  <2>1. 0 \in 0 .. n - 1 /\ q + 0 = q /\ p + 0 = p
    BY <1>0, <1>2
  <2> QED
    BY Zenon, <1>0, <1>1, <2>1
<1>5. n = 3 => CodePoint(s, p, 3) = CodePoint(t, q, 3)
  BY SMT, <1>1, <1>3, <1>4 DEF CodePoint
<1>6. n = 4 => CodePoint(s, p, 4) = CodePoint(t, q, 4)
  BY SMT, <1>1, <1>3, <1>4 DEF CodePoint
<1>7. q + n - 1 <= Len(t)
  BY Zenon, <1>0
<1>8. Utf8Seq(t, q, n)
  <2>1. \A k \in 1 .. n - 1 : Cont(t[q + k])
    BY <1>2, <1>3 DEF Utf8Seq
  <2> QED
    BY Zenon, <1>1, <1>2, <1>4, <1>5, <1>6, <1>7, <2>1 DEF Utf8Seq
<1>9. Utf8Step(t, q) = n
  BY <1>2, <1>4, <1>7, <1>8 DEF Utf8Step
<1> QED
  BY Zenon, <1>0, <1>9

(* The same where they have been copied to the front. *)
LEMMA Utf8StepTaken ==
  ASSUME NEW s \in Seq(Byte), NEW p \in 1 .. Len(s), NEW n, n = Utf8Step(s, p), n # 0,
         NEW t \in Seq(Byte), n <= Len(t), Copied(s, p, n, t)
  PROVE  Utf8Step(t, 1) = n
<1>1. n \in 0 .. 4
  BY Zenon, Utf8StepBytes
<1>2. 1 \in 1 .. Len(t) /\ 1 + Utf8Step(s, p) - 1 <= Len(t) /\ Utf8Step(s, p) # 0
  BY <1>1
<1>3. ASSUME NEW k \in 0 .. Utf8Step(s, p) - 1 PROVE t[1 + k] = s[p + k]
  <2>1. 1 + k = k + 1 /\ k \in 0 .. n - 1
    BY <1>1
  <2> QED
    BY Zenon, <2>1 DEF Copied
<1>4. Utf8Step(t, 1) = Utf8Step(s, p)
  BY Zenon, <1>2, <1>3, Utf8StepSeen
<1> QED
  BY Zenon, <1>4

(* A character before a text. *)
LEMMA Utf8Prepend ==
  ASSUME NEW x, NEW v, NEW n, Follows(v, n, x), n # 0, n = Utf8Step(x, 1)
  PROVE  ax_validate_utf8(x) <=> ax_validate_utf8(v)
<1>1. /\ x \in Seq(Byte) /\ v \in Seq(Byte) /\ n \in Nat /\ Len(v) \in Nat /\ Len(x) = n + Len(v)
      /\ 1 \in 1 .. Len(x) /\ 1 \in 1 .. Len(x) + 4 /\ 1 \in 1 .. Len(v) + 4 /\ 1 + n = n + 1
  BY DEF Follows
<1>2. PICK a \in Seq(0 .. 4) : /\ a = Utf8Steps(x) /\ Len(a) = Len(x)
                               /\ \A p \in 1 .. Len(x) : a[p] = Utf8Step(x, p)
  BY Zenon, <1>1, Utf8StepsType
<1>3. PICK b \in Seq(0 .. 4) : /\ b = Utf8Steps(v) /\ Len(b) = Len(v)
                               /\ \A p \in 1 .. Len(v) : b[p] = Utf8Step(v, p)
  BY Zenon, <1>1, Utf8StepsType
<1>4. ASSUME NEW q \in 1 .. Len(v) PROVE a[n + q] = b[q]
  <2>1. n + q \in 1 .. Len(x) /\ Len(x) - (n + q) = Len(v) - q
    <3>1. n \in Nat /\ Len(v) \in Nat /\ Len(x) = n + Len(v)
      BY Zenon, <1>1
    <3> QED
      BY SMT, <3>1
  <2>2. ASSUME NEW k \in 0 .. Len(x) - (n + q) PROVE x[n + q + k] = v[q + k]
    <3>0. k \in 0 .. Len(v) - q
      BY Zenon, <2>1
    <3>1. q + k \in 1 .. Len(v) /\ n + q + k = n + (q + k)
      BY <1>1, <3>0
    <3> QED
      BY Zenon, <3>1 DEF Follows
  <2>3. Utf8Step(x, n + q) = Utf8Step(v, q)
    BY Zenon, <1>1, <2>1, <2>2, Utf8StepLocal
  <2> QED
    BY Zenon, <1>2, <1>3, <2>1, <2>3
<1>5. ScanFrom(a)[n + 1] <=> ScanFrom(b)[1]
  <2>1. Shifted(a, n, b) /\ 1 \in 1 .. Len(b) + 4
    BY <1>1, <1>2, <1>3, <1>4 DEF Shifted
  <2> QED
    BY Zenon, <1>1, <2>1, ScanShift
<1>6. Utf8From(x, 1) <=> Utf8From(x, n + 1)
  BY Zenon, <1>1, Utf8Round
<1>7. Utf8From(x, n + 1) <=> Utf8From(v, 1)
  BY Zenon, <1>2, <1>3, <1>5 DEF Utf8From
<1> QED
  BY Zenon, <1>6, <1>7, Utf8Start

(* An ASCII byte is a character. *)
LEMMA Utf8StepAscii ==
  ASSUME NEW s \in Seq(Byte), NEW p \in 1 .. Len(s), s[p] \in Ascii
  PROVE  Utf8Step(s, p) = 1
<1>1. Utf8Seq(s, p, 1)
  BY DEF Utf8Seq
<1> QED
  BY <1>1, AsciiLeadsOne DEF Utf8Step

(* The bytes that announce two bytes and four. *)
Leads2 == 192 .. 223
Leads4 == 240 .. 247

(* Two bytes that are not overlong. *)
LEMMA TwoBytes ==
  ASSUME NEW a \in 192 .. 223
  PROVE  a % 32 >= 2 <=> a \in 194 .. 223
<1>1. a % 32 = a - 192
  OBVIOUS
<1> QED BY <1>1

(* Membership in an interval. *)
LEMMA InRange ==
  ASSUME NEW v \in Int, NEW a \in Int, NEW b \in Int
  PROVE  v \in a .. b <=> v >= a /\ v <= b
OBVIOUS

(* Bits of a byte that continues a sequence, of two of them, and of one    *)
(* that leads a sequence of four.                                          *)
Six == 0 .. 63
Three == 0 .. 7
Twelve == {r \in Int : r >= 0 /\ r <= 4095}

(* The low bits of the last two bytes. *)
LEMMA TwelveBits ==
  ASSUME NEW z \in Six, NEW w \in Six
  PROVE  z * 64 + w \in Twelve
BY SMTT(20) DEF Six, Twelve

(* Four bytes that are not overlong. *)
LEMMA FourLow ==
  ASSUME NEW x \in Three, NEW y \in Six, NEW r \in Twelve, NEW v \in Int, v = x * 262144 + y * 4096 + r
  PROVE  v >= MinOf4 <=> x > 0 \/ y >= 16
BY SMTT(20) DEF Three, Six, Twelve, MinOf4

(* Four bytes that are in range. *)
LEMMA FourHigh ==
  ASSUME NEW x \in Three, NEW y \in Six, NEW r \in Twelve, NEW v \in Int, v = x * 262144 + y * 4096 + r
  PROVE  v <= MaxCodePoint <=> x < 4 \/ (x = 4 /\ y <= 15)
BY SMTT(20) DEF Three, Six, Twelve, MaxCodePoint

(* The two halves of a code point. *)
LEMMA FourSum ==
  ASSUME NEW x \in Three, NEW y \in Six, NEW z \in Six, NEW w \in Six
  PROVE  /\ x * 262144 + y * 4096 + z * 64 + w = x * 262144 + y * 4096 + (z * 64 + w)
         /\ x * 262144 + y * 4096 + (z * 64 + w) \in Int
BY SMTT(20) DEF Three, Six

(* The bits of the four bytes. *)
LEMMA FourBits ==
  ASSUME NEW x \in Three, NEW y \in Six, NEW z \in Six, NEW w \in Six,
         NEW v, v = x * 262144 + y * 4096 + z * 64 + w
  PROVE  /\ v \in Int
         /\ v >= MinOf4 <=> x > 0 \/ y >= 16
         /\ v <= MaxCodePoint <=> x < 4 \/ (x = 4 /\ y <= 15)
<1>1. PICK r \in Twelve : r = z * 64 + w
  BY SMTT(20), TwelveBits
<1>2. v = x * 262144 + y * 4096 + r /\ v \in Int
  BY SMTT(20), <1>1, FourSum
<1> QED BY SMTT(20), <1>2, FourLow, FourHigh

(* The bits of a byte that leads four. *)
LEMMA FourLead ==
  ASSUME NEW a \in Leads4
  PROVE  a % 8 \in Three /\ a = (a % 8) + 240
BY SMTT(20) DEF Three, Leads4

(* The bits of a byte that continues. *)
LEMMA Continues ==
  ASSUME NEW b, Cont(b)
  PROVE  b % 64 \in Six /\ b = (b % 64) + 128
BY SMTT(20) DEF Six, Cont

(* The leading and second bytes of four, by their bits. *)
LEMMA FourTable ==
  ASSUME NEW x \in Three, NEW y \in Six
  PROVE  x + 240 \in Lead4 /\ y + 128 \in Second(x + 240) <=>
         (x > 0 \/ y >= 16) /\ (x < 4 \/ (x = 4 /\ y <= 15))
BY SMTT(20) DEF Three, Six, Second, Lead4

(* Surrogates, and the code points that need four bytes, by their bounds. *)
LEMMA CodeRange ==
  ASSUME NEW v \in Int
  PROVE  /\ v \in Surrogates <=> v >= MinSurrogate /\ v <= MaxSurrogate
         /\ v \in MinOf4 .. MaxCodePoint <=> v >= MinOf4 /\ v <= MaxCodePoint
<1>1. MinOf4 \in Int /\ MaxCodePoint \in Int /\ MinSurrogate \in Int /\ MaxSurrogate \in Int
  BY SMTT(20) DEF MinOf4, MaxCodePoint, MinSurrogate, MaxSurrogate
<1> QED BY Zenon, <1>1, InRange DEF Surrogates

(* The bits of the three bytes. *)
LEMMA ThreeBits ==
  ASSUME NEW x \in 0 .. 15, NEW y \in Six, NEW z \in Six, NEW v, v = x * 4096 + y * 64 + z
  PROVE  /\ v \in Int
         /\ v >= MinOf3 <=> x > 0 \/ y >= 32
         /\ v >= MinSurrogate /\ v <= MaxSurrogate <=> x = 13 /\ y >= 32
<1>1. v >= MinOf3 <=> x > 0 \/ y >= 32
  BY SMTT(20) DEF MinOf3, Six
<1>2. v >= MinSurrogate <=> x > 13 \/ (x = 13 /\ y >= 32)
  BY SMTT(20) DEF MinSurrogate, Six
<1>3. v <= MaxSurrogate <=> x <= 13
  BY SMTT(20) DEF MaxSurrogate, Six
<1>4. v \in Int
  BY SMTT(20) DEF Six
<1> QED BY SMTT(20), <1>1, <1>2, <1>3, <1>4

(* Three bytes that are neither overlong nor a surrogate. *)
LEMMA ThreeBytes ==
  ASSUME NEW a \in Lead3, NEW b, Cont(b), NEW c, Cont(c),
         NEW v, v = (a % 16) * 4096 + (b % 64) * 64 + (c % 64)
  PROVE  v >= MinOf3 /\ v \notin Surrogates <=> b \in Second(a)
<1>1. PICK x \in 0 .. 15 : x = a % 16 /\ a = x + 224
  BY SMTT(20) DEF Lead3
<1>2. PICK y \in Six : y = b % 64 /\ b = y + 128
  BY SMTT(20), Continues
<1>3. PICK z \in Six : z = c % 64
  BY SMTT(20), Continues
<1>4. v = x * 4096 + y * 64 + z
  BY SMTT(20), <1>1, <1>2, <1>3
<1>5. /\ v \in Int
      /\ v >= MinOf3 <=> x > 0 \/ y >= 32
      /\ v >= MinSurrogate /\ v <= MaxSurrogate <=> x = 13 /\ y >= 32
  BY SMTT(20), <1>4, ThreeBits
<1>6. v \in Surrogates <=> v >= MinSurrogate /\ v <= MaxSurrogate
  BY SMTT(20), <1>5, CodeRange
<1>7. b \in Second(a) <=> (x > 0 \/ y >= 32) /\ ~(x = 13 /\ y >= 32)
  BY SMTT(20), <1>1, <1>2 DEF Second, Six
<1> QED BY Zenon, <1>5, <1>6, <1>7

(* Four bytes that are neither overlong nor out of range. *)
LEMMA FourBytes ==
  ASSUME NEW a \in Leads4, NEW b, Cont(b), NEW c, Cont(c), NEW d, Cont(d),
         NEW v, v = (a % 8) * 262144 + (b % 64) * 4096 + (c % 64) * 64 + (d % 64)
  PROVE  v \in MinOf4 .. MaxCodePoint <=> a \in Lead4 /\ b \in Second(a)
<1>1. PICK x \in Three : x = a % 8 /\ a = x + 240
  BY SMTT(20), FourLead
<1>2. PICK y \in Six : y = b % 64 /\ b = y + 128
  BY SMTT(20), Continues
<1>3. PICK z \in Six : z = c % 64
  BY SMTT(20), Continues
<1>4. PICK w \in Six : w = d % 64
  BY SMTT(20), Continues
<1>5. v = x * 262144 + y * 4096 + z * 64 + w
  BY SMTT(20), <1>1, <1>2, <1>3, <1>4
<1>6. /\ v \in Int
      /\ v >= MinOf4 <=> x > 0 \/ y >= 16
      /\ v <= MaxCodePoint <=> x < 4 \/ (x = 4 /\ y <= 15)
  BY SMTT(20), <1>5, FourBits
<1>7. v \in MinOf4 .. MaxCodePoint <=> v >= MinOf4 /\ v <= MaxCodePoint
  BY SMTT(20), <1>6, CodeRange
<1> QED BY SMTT(20), <1>1, <1>2, <1>6, <1>7, FourTable

(* What leading bytes announce. *)
LEMMA LeadLength ==
  ASSUME NEW c \in Byte
  PROVE  /\ SeqLen(c) = 2 <=> c \in Leads2
         /\ SeqLen(c) = 3 <=> c \in Lead3
         /\ SeqLen(c) = 4 <=> c \in Leads4
BY SMTT(20) DEF SeqLen, Byte, Leads2, Lead3, Leads4

(* The leading bytes of two that are not overlong. *)
LEMMA LeadOfTwo ==
  ASSUME NEW c \in Byte
  PROVE  c \in Lead2 <=> c \in Leads2 /\ c % 32 >= 2
<1>1. c \in Lead2 => c \in Leads2
  BY SMTT(20) DEF Lead2, Leads2
<1>2. ASSUME c \in Leads2 PROVE c \in Lead2 <=> c % 32 >= 2
  BY SMTT(20), <1>2, TwoBytes DEF Leads2, Lead2
<1> QED BY Zenon, <1>1, <1>2

(* The code points of three bytes and of four. *)
LEMMA CodePointOf ==
  ASSUME NEW s, NEW p
  PROVE  /\ CodePoint(s, p, 3) = (s[p] % 16) * 4096 + (s[p + 1] % 64) * 64 + (s[p + 2] % 64)
         /\ CodePoint(s, p, 4) = (s[p] % 8) * 262144 + (s[p + 1] % 64) * 4096
                                   + (s[p + 2] % 64) * 64 + (s[p + 3] % 64)
BY SMTT(20) DEF CodePoint

(* A second byte continues, and after a lead of two any such byte is one. *)
LEMMA SecondContinues ==
  ASSUME NEW a \in Byte, NEW b \in Byte
  PROVE  /\ b \in Second(a) => Cont(b)
         /\ a \in Lead2 => (b \in Second(a) <=> Cont(b))
BY SMTT(20) DEF Second, Cont, Byte, Lead2

(* The bytes after a leading byte, one by one. *)
LEMMA FitsOf ==
  ASSUME NEW s \in Seq(Byte), NEW p \in 1 .. Len(s)
  PROVE  /\ Fits(s, p, 2) <=> p + 1 <= Len(s) /\ s[p + 1] \in Second(s[p])
         /\ Fits(s, p, 3) <=> p + 2 <= Len(s) /\ s[p + 1] \in Second(s[p]) /\ Cont(s[p + 2])
         /\ Fits(s, p, 4) <=> /\ p + 3 <= Len(s) /\ s[p + 1] \in Second(s[p])
                              /\ Cont(s[p + 2]) /\ Cont(s[p + 3])
<1>1. /\ p + 2 - 1 <= Len(s) <=> p + 1 <= Len(s)
      /\ p + 3 - 1 <= Len(s) <=> p + 2 <= Len(s)
      /\ p + 4 - 1 <= Len(s) <=> p + 3 <= Len(s)
  OBVIOUS
<1>2. /\ \A k \in 2 .. 2 - 1 : FALSE
      /\ \A k \in 2 .. 3 - 1 : k = 2
      /\ \A k \in 2 .. 4 - 1 : k = 2 \/ k = 3
      /\ 2 \in 2 .. 3 - 1 /\ 2 \in 2 .. 4 - 1 /\ 3 \in 2 .. 4 - 1
  OBVIOUS
<1> QED BY Zenon, <1>1, <1>2 DEF Fits

(* A step is what the leading byte announces, if that is there. *)
LEMMA StepOf ==
  ASSUME NEW s, NEW p, NEW n, n # 0
  PROVE  Utf8Step(s, p) = n <=> SeqLen(s[p]) = n /\ Utf8Seq(s, p, n)
BY Zenon DEF Utf8Step

(* The characters of two bytes, by the table of utf8_seq_len, *)
LEMMA Utf8Two ==
  ASSUME NEW s \in Seq(Byte), NEW p \in 1 .. Len(s)
  PROVE  Utf8Step(s, p) = 2 <=> s[p] \in Lead2 /\ Fits(s, p, 2)
<1>1. Utf8Step(s, p) = 2 <=> SeqLen(s[p]) = 2 /\ Utf8Seq(s, p, 2)
  <2>1. 2 # 0
    OBVIOUS
  <2> QED BY Zenon, <2>1, StepOf
<1>2. s[p] \in Byte /\ Len(s) \in Nat /\ (p + 1 <= Len(s) => s[p + 1] \in Byte)
  OBVIOUS
<1>3. Utf8Seq(s, p, 2) <=> p + 1 <= Len(s) /\ Cont(s[p + 1]) /\ s[p] % 32 >= 2
  <2>1. \A k \in 1 .. 2 - 1 : k = 1
    OBVIOUS
  <2>2. 1 \in 1 .. 2 - 1 /\ (p + 2 - 1 <= Len(s) <=> p + 1 <= Len(s))
    BY <1>2
  <2>3. 2 # 0 /\ 2 # 3 /\ 2 # 4
    OBVIOUS
  <2>4. (\A k \in 1 .. 2 - 1 : Cont(s[p + k])) <=> Cont(s[p + 1])
    BY Zenon, <2>1, <2>2
  <2> QED BY Zenon, <2>2, <2>3, <2>4 DEF Utf8Seq
<1> QED BY Zenon, <1>1, <1>2, <1>3, LeadLength, LeadOfTwo, SecondContinues, FitsOf

(* of three, *)
LEMMA Utf8Three ==
  ASSUME NEW s \in Seq(Byte), NEW p \in 1 .. Len(s)
  PROVE  Utf8Step(s, p) = 3 <=> s[p] \in Lead3 /\ Fits(s, p, 3)
<1> DEFINE v == CodePoint(s, p, 3)
<1>1. Utf8Step(s, p) = 3 <=> SeqLen(s[p]) = 3 /\ Utf8Seq(s, p, 3)
  <2>1. 3 # 0
    OBVIOUS
  <2> QED BY Zenon, <2>1, StepOf
<1>2. s[p] \in Byte /\ Len(s) \in Nat /\ (p + 2 <= Len(s) => s[p + 1] \in Byte)
  OBVIOUS
<1>3. Utf8Seq(s, p, 3) <=> /\ p + 2 <= Len(s) /\ Cont(s[p + 1]) /\ Cont(s[p + 2])
                           /\ v >= MinOf3 /\ v \notin Surrogates
  <2>1. \A k \in 1 .. 3 - 1 : k = 1 \/ k = 2
    OBVIOUS
  <2>2. 1 \in 1 .. 3 - 1 /\ 2 \in 1 .. 3 - 1 /\ (p + 3 - 1 <= Len(s) <=> p + 2 <= Len(s))
    BY <1>2
  <2>3. 3 # 0 /\ 3 # 2 /\ 3 # 4
    OBVIOUS
  <2>4. (\A k \in 1 .. 3 - 1 : Cont(s[p + k])) <=> Cont(s[p + 1]) /\ Cont(s[p + 2])
    BY Zenon, <2>1, <2>2
  <2> QED BY Zenon, <2>2, <2>3, <2>4 DEF Utf8Seq
<1>4. v = (s[p] % 16) * 4096 + (s[p + 1] % 64) * 64 + (s[p + 2] % 64)
  BY SMTT(20), CodePointOf
<1>5. ASSUME s[p] \in Lead3, Cont(s[p + 1]), Cont(s[p + 2])
      PROVE  v >= MinOf3 /\ v \notin Surrogates <=> s[p + 1] \in Second(s[p])
  <2> HIDE DEF v
  <2> QED BY SMTT(20), <1>4, <1>5, ThreeBytes
<1> HIDE DEF v
<1> QED BY Zenon, <1>1, <1>2, <1>3, <1>5, LeadLength, SecondContinues, FitsOf

(* Bytes that lead a character of four announce four. *)
LEMMA LeadsOfFour == Lead4 \subseteq Leads4
BY SMTT(20) DEF Lead4, Leads4

(* and of four. *)
LEMMA Utf8Four ==
  ASSUME NEW s \in Seq(Byte), NEW p \in 1 .. Len(s)
  PROVE  Utf8Step(s, p) = 4 <=> s[p] \in Lead4 /\ Fits(s, p, 4)
<1> DEFINE v == CodePoint(s, p, 4)
<1>1. Utf8Step(s, p) = 4 <=> SeqLen(s[p]) = 4 /\ Utf8Seq(s, p, 4)
  <2>1. 4 # 0
    OBVIOUS
  <2> QED BY Zenon, <2>1, StepOf
<1>2. s[p] \in Byte /\ Len(s) \in Nat /\ (p + 3 <= Len(s) => s[p + 1] \in Byte)
  OBVIOUS
<1>3. Utf8Seq(s, p, 4) <=> /\ p + 3 <= Len(s) /\ Cont(s[p + 1]) /\ Cont(s[p + 2]) /\ Cont(s[p + 3])
                           /\ v \in MinOf4 .. MaxCodePoint
  <2>1. \A k \in 1 .. 4 - 1 : k = 1 \/ k = 2 \/ k = 3
    OBVIOUS
  <2>2. 1 \in 1 .. 4 - 1 /\ 2 \in 1 .. 4 - 1 /\ 3 \in 1 .. 4 - 1 /\ (p + 4 - 1 <= Len(s) <=> p + 3 <= Len(s))
    BY <1>2
  <2>3. 4 # 0 /\ 4 # 2 /\ 4 # 3
    OBVIOUS
  <2>4. (\A k \in 1 .. 4 - 1 : Cont(s[p + k])) <=> Cont(s[p + 1]) /\ Cont(s[p + 2]) /\ Cont(s[p + 3])
    BY Zenon, <2>1, <2>2
  <2> QED BY Zenon, <2>2, <2>3, <2>4 DEF Utf8Seq
<1>4. v = (s[p] % 8) * 262144 + (s[p + 1] % 64) * 4096 + (s[p + 2] % 64) * 64 + (s[p + 3] % 64)
  BY SMTT(20), CodePointOf
<1>5. ASSUME s[p] \in Leads4, Cont(s[p + 1]), Cont(s[p + 2]), Cont(s[p + 3])
      PROVE  v \in MinOf4 .. MaxCodePoint <=> s[p] \in Lead4 /\ s[p + 1] \in Second(s[p])
  <2> HIDE DEF v
  <2> QED BY SMTT(20), <1>4, <1>5, FourBytes
<1> HIDE DEF v
<1> QED BY Zenon, <1>1, <1>2, <1>3, <1>5, LeadLength, SecondContinues, LeadsOfFour, FitsOf

(* ASCII, by a bound. *)
LEMMA AsciiIsLow ==
  ASSUME NEW c \in Byte
  PROVE  c < 128 <=> c \in Ascii
<1>1. c \in Int /\ 0 \in Int /\ 127 \in Int /\ c >= 0
  BY SMTT(20) DEF Byte
<1>2. c \in 0 .. 127 <=> c >= 0 /\ c <= 127
  BY SMTT(20), <1>1, InRange
<1> QED BY SMTT(20), <1>1, <1>2 DEF Ascii

(* The UTF-8 check of the request body and the one of the record take the  *)
(* same steps.                                                             *)
LEMMA SeqLenIsStep ==
  ASSUME NEW s \in Seq(Byte), NEW p \in 1 .. Len(s)
  PROVE  utf8_seq_len(s, p) = Utf8Step(s, p)
<1>0. Utf8Step(s, p) \in 0 .. 4
  BY Utf8StepBytes
<1>1. PICK n \in 0 .. 4 : n = Utf8Step(s, p)
  BY Zenon, <1>0
<1>2. s[p] \in Byte /\ (n = 0 \/ n = 1 \/ n = 2 \/ n = 3 \/ n = 4)
  OBVIOUS
<1>3. s[p] < 128 <=> s[p] \in Ascii
  BY SMTT(20), <1>2, AsciiIsLow
<1>4. s[p] \in Ascii <=> n = 1
  BY Zenon, <1>1, Utf8StepAscii, Utf8StepBytes
<1>5. /\ n = 2 <=> s[p] \in Lead2 /\ Fits(s, p, 2)
      /\ n = 3 <=> s[p] \in Lead3 /\ Fits(s, p, 3)
      /\ n = 4 <=> s[p] \in Lead4 /\ Fits(s, p, 4)
  BY Zenon, <1>1, Utf8Two, Utf8Three, Utf8Four
<1>6. /\ s[p] < 128 => utf8_seq_len(s, p) = 1
      /\ ~(s[p] < 128) => utf8_seq_len(s, p) = IF n = 2 THEN 2 ELSE IF n = 3 THEN 3 ELSE IF n = 4 THEN 4 ELSE 0
  <2> DEFINE low == s[p] < 128
  <2>1. utf8_seq_len(s, p) =
          IF low THEN 1 ELSE IF s[p] \in Lead2 /\ Fits(s, p, 2) THEN 2
          ELSE IF s[p] \in Lead3 /\ Fits(s, p, 3) THEN 3
          ELSE IF s[p] \in Lead4 /\ Fits(s, p, 4) THEN 4 ELSE 0
    BY SMTT(20) DEF utf8_seq_len
  <2> HIDE DEF low
  <2>2. /\ low => utf8_seq_len(s, p) = 1
        /\ ~low => utf8_seq_len(s, p) = IF n = 2 THEN 2 ELSE IF n = 3 THEN 3 ELSE IF n = 4 THEN 4 ELSE 0
    BY Zenon, <1>5, <2>1
  <2> QED BY SMTT(20), <2>2 DEF low
<1> QED BY SMTT(20), <1>1, <1>2, <1>3, <1>4, <1>6

(* Normalising the line endings of UTF-8 text gives UTF-8 text. *)
LEMMA LineFeedsUtf8 ==
  ASSUME NEW s \in Seq(Byte), ax_validate_utf8(s)
  PROVE  ax_validate_utf8(LineFeedsFrom(s)[1])
<1> DEFINE g == LineFeedsFrom(s)
           N == Len(s) + 1
           S == {p \in 1 .. N : Utf8From(s, p) => ax_validate_utf8(g[p])}
<1>1. N \in Nat /\ Len(s) \in Nat
  OBVIOUS
<1>2. ASSUME NEW p \in 1 .. N, \A q \in p + 1 .. N : q \in S PROVE p \in S
  <2> SUFFICES ASSUME Utf8From(s, p) PROVE ax_validate_utf8(g[p])
    OBVIOUS
  <2> HIDE DEF g
  <2>1. CASE p = N
    <3>1. g[p] = <<>> /\ <<>> \in Seq(Byte) /\ 1 \in Len(<<>>) + 1 .. Len(<<>>) + 4
      BY <2>1, LineFeedsEnd DEF g
    <3> QED
      BY Zenon, <3>1, Utf8End, Utf8Start
  <2>2. CASE p # N
    <3>0. p \in 1 .. Len(s)
      BY <1>1, <2>2
    <3>1. PICK n : n = Utf8Step(s, p)
      OBVIOUS
    <3>2. /\ n \in 1 .. 4 /\ p + n \in p + 1 .. N
          /\ n = 1 => s[p] \in Ascii
          /\ n > 1 => \A k \in 0 .. n - 1 : s[p + k] \in NonAscii
          /\ Utf8From(s, p + n)
      <4>1. n # 0 /\ Utf8From(s, p + n)
        BY Zenon, <3>0, <3>1, Utf8Round
      <4>2. /\ n \in 0 .. 4 /\ (n # 0 => p + n - 1 <= Len(s))
            /\ n = 1 => s[p] \in Ascii
            /\ n > 1 => \A k \in 0 .. n - 1 : s[p + k] \in NonAscii
        BY <3>0, <3>1, Utf8StepBytes
      <4> QED
        BY <1>1, <3>0, <4>1, <4>2
    <3>3. CASE n = 1
      <4>1. PICK r : r = AfterByte(s, p)
        OBVIOUS
      <4>2. /\ r \in p + 1 .. N /\ (r = p + 1 \/ (r = p + 2 /\ s[p + 1] = LF))
            /\ g[p][1] = LineFeed(s[p]) /\ Follows(g[r], 1, g[p])
        BY Zenon, <3>0, <4>1, LineFeedsRound DEF g
      <4>3. Utf8From(s, r)
        <5>1. CASE r = p + 1
          BY <3>2, <3>3, <5>1
        <5>2. CASE r = p + 2 /\ s[p + 1] = LF
          <6>1. p + 1 \in 1 .. Len(s) /\ p + 1 + 1 = r
            BY <1>1, <3>0, <4>2, <5>2
          <6>2. Utf8Step(s, p + 1) = 1
            BY Zenon, <5>2, <6>1, LineEndsAscii, Utf8StepAscii
          <6> QED
            BY Zenon, <3>2, <3>3, <6>1, <6>2, Utf8Round
        <5> QED
          BY <4>2, <5>1, <5>2
      <4>4. ax_validate_utf8(g[r])
        BY Zenon, <1>2, <4>2, <4>3
      <4>5. g[p][1] \in Ascii /\ g[p] \in Seq(Byte) /\ 1 \in 1 .. Len(g[p])
        <5>1. g[p][1] \in Ascii
          BY Zenon, <3>2, <3>3, <4>2, LineEndsAscii DEF LineFeed
        <5> QED
          BY <4>2, <5>1 DEF Follows
      <4>6. Utf8Step(g[p], 1) = 1
        BY Zenon, <4>5, Utf8StepAscii
      <4> QED
        BY <4>2, <4>4, <4>6, Utf8Prepend
    <3>4. CASE n > 1
      <4>1. NoCRs(s, p, n)
        <5>1. ASSUME NEW k \in 0 .. n - 1 PROVE s[p + k] # CR
          <6>1. s[p + k] \in NonAscii
            BY Zenon, <3>2, <3>4
          <6> QED
            BY Zenon, <6>1, LineEndsAscii
        <5> QED
          BY <1>1, <3>2, <5>1 DEF NoCRs
      <4>2. Copied(s, p, n, g[p]) /\ Follows(g[p + n], n, g[p])
        <5>1. n \in Nat
          BY <3>2
        <5> QED
          BY Zenon, <4>1, <5>1, LineFeedsCopy DEF g
      <4>3. g[p] \in Seq(Byte) /\ n <= Len(g[p])
        BY <4>2 DEF Follows
      <4>4. n # 0
        BY <3>2
      <4>5. Utf8Step(g[p], 1) = n
        BY Zenon, <3>0, <3>1, <4>2, <4>3, <4>4, Utf8StepTaken
      <4>6. ax_validate_utf8(g[p + n])
        BY Zenon, <1>2, <3>2
      <4> QED
        BY Zenon, <4>2, <4>4, <4>5, <4>6, Utf8Prepend
    <3> QED
      BY <3>2, <3>3, <3>4
  <2> QED
    BY <2>1, <2>2
<1>3. 1 \in 1 .. N
  BY <1>1
<1>4. 1 \in S
  <2> HIDE DEF S, N
  <2> QED
    BY Zenon, <1>1, <1>2, <1>3, FromTheEnd
<1> QED
  BY Zenon, <1>4, Utf8Start

-----------------------------------------------------------------------------
(* Escaping. *)

(* The loop that puts the pieces of a string one after the other. *)
LEMMA StringUnfolds ==
  ASSUME NEW piece \in Seq(Seq(Byte))
  PROVE  /\ StringFrom(piece) \in [1 .. Len(piece) + 1 -> Seq(Byte)]
         /\ StringFrom(piece)[Len(piece) + 1] = <<>>
         /\ \A i \in 1 .. Len(piece) : StringFrom(piece)[i] = piece[i] \o StringFrom(piece)[i + 1]
<1> DEFINE N == Len(piece) + 1
           Stop == {i \in 1 .. N : i > Len(piece)}
           base == [i \in 1 .. N |-> <<>>]
           nxt == [i \in 1 .. N |-> i + 1]
           h == [i \in 1 .. N |-> [v \in Seq(Byte) |-> piece[i] \o v]]
           Ok(f) == f = [i \in 1 .. N |-> IF i > Len(piece) THEN <<>> ELSE piece[i] \o f[i + 1]]
<1>1. N \in Nat /\ Len(piece) \in Nat /\ N \in 1 .. N /\ N > Len(piece)
  OBVIOUS
<1>2. ASSUME NEW i \in 1 .. N, ~(i > Len(piece))
      PROVE  i + 1 \in i + 1 .. N /\ i + 1 \in 1 .. N /\ piece[i] \in Seq(Byte)
  BY <1>1, <1>2
<1>3. ASSUME NEW i \in 1 .. N
      PROVE  IF i \in Stop THEN base[i] \in Seq(Byte)
             ELSE nxt[i] \in i + 1 .. N /\ \A v \in Seq(Byte) : h[i][v] \in Seq(Byte)
  <2>1. CASE i \in Stop
    BY <2>1
  <2>2. CASE i \notin Stop
    <3>1. nxt[i] \in i + 1 .. N /\ piece[i] \in Seq(Byte)
      BY <1>2, <2>2
    <3>2. ASSUME NEW v \in Seq(Byte) PROVE h[i][v] \in Seq(Byte)
      BY <3>1, ConcatProperties
    <3> QED
      BY <2>2, <3>1, <3>2
  <2> QED
    BY <2>1, <2>2
<1>4. PICK f : Runs(f, N, Seq(Byte), Stop, base, nxt, h)
  <2> HIDE DEF N, Stop, base, nxt, h
  <2>1. Loop(N, Seq(Byte), Stop, base, nxt, h)
    BY <1>3 DEF Loop
  <2> QED
    BY Zenon, <1>1, <2>1, Walk
<1>5. f \in [1 .. N -> Seq(Byte)]
  BY <1>4 DEF Runs
<1>6. ASSUME NEW i \in 1 .. N
      PROVE  f[i] = IF i > Len(piece) THEN <<>> ELSE piece[i] \o f[i + 1]
  <2>1. CASE i \in Stop
    <3>1. f[i] = base[i] /\ i > Len(piece)
      BY <1>4, <2>1 DEF Runs
    <3> QED
      BY <3>1
  <2>2. CASE i \notin Stop
    <3>1. f[i] = h[i][f[nxt[i]]] /\ ~(i > Len(piece)) /\ nxt[i] = i + 1
      BY <1>4, <2>2 DEF Runs
    <3>2. f[i + 1] \in Seq(Byte)
      BY Zenon, <1>2, <1>5, <3>1
    <3> QED
      BY <3>1, <3>2
  <2> QED
    BY <2>1, <2>2
<1>7. Ok(f)
  BY Zenon, <1>5, <1>6
<1>8. Ok(StringFrom(piece))
  <2>1. StringFrom(piece) = CHOOSE g : Ok(g)
    BY DEF StringFrom
  <2> HIDE DEF Ok
  <2> QED
    BY Zenon, <1>7, <2>1
<1> DEFINE g == StringFrom(piece)
           S == {i \in 1 .. N : g[i] \in Seq(Byte)}
<1>9. ASSUME NEW i \in 1 .. N
      PROVE  g[i] = IF i > Len(piece) THEN <<>> ELSE piece[i] \o g[i + 1]
  BY Zenon, <1>8
<1>10. DOMAIN g = 1 .. N /\ g = [i \in 1 .. N |-> g[i]]
  BY Zenon, <1>8
<1> HIDE DEF g, Ok
<1>11. ASSUME NEW i \in 1 .. N, \A q \in i + 1 .. N : q \in S PROVE i \in S
  <2>1. CASE i > Len(piece)
    <3>1. g[i] = <<>>
      BY Zenon, <1>9, <2>1
    <3> QED
      BY Zenon, <3>1, EmptySeq
  <2>2. CASE ~(i > Len(piece))
    <3>1. g[i + 1] \in Seq(Byte) /\ piece[i] \in Seq(Byte)
      BY <1>2, <1>11, <2>2
    <3>2. g[i] = piece[i] \o g[i + 1]
      BY Zenon, <1>9, <2>2
    <3>3. piece[i] \o g[i + 1] \in Seq(Byte)
      BY <3>1, ConcatProperties
    <3> QED
      BY Zenon, <3>2, <3>3
  <2> QED
    BY <2>1, <2>2
<1>12. \A i \in 1 .. N : i \in S
  <2> HIDE DEF S, N
  <2> QED
    BY Zenon, <1>1, <1>11, FromTheEnd
<1>13. g \in [1 .. N -> Seq(Byte)]
  BY <1>10, <1>12
<1>14. g[N] = <<>>
  BY <1>1, <1>9
<1>15. ASSUME NEW i \in 1 .. Len(piece) PROVE g[i] = piece[i] \o g[i + 1]
  <2>1. i \in 1 .. N /\ ~(i > Len(piece))
    BY <1>1
  <2> QED
    BY Zenon, <1>9, <2>1
<1> QED
  BY Zenon, <1>13, <1>14, <1>15 DEF g

(* Every piece has at least one byte and at most k. *)
Between(piece, k) == \A i \in 1 .. Len(piece) : Len(piece[i]) \in 1 .. k

(* Such pieces make a text at least as long as there are pieces, and at    *)
(* most k times as long.                                                   *)
LEMMA StringLength ==
  ASSUME NEW piece \in Seq(Seq(Byte)), NEW k \in Nat, Between(piece, k)
  PROVE  /\ StringFrom(piece)[1] \in Seq(Byte)
         /\ Len(StringFrom(piece)[1]) \in Nat
         /\ Len(piece) <= Len(StringFrom(piece)[1]) /\ Len(StringFrom(piece)[1]) <= k * Len(piece)
<1>1. PICK g \in [1 .. Len(piece) + 1 -> Seq(Byte)] :
          /\ g = StringFrom(piece) /\ g[Len(piece) + 1] = <<>>
          /\ \A i \in 1 .. Len(piece) : g[i] = piece[i] \o g[i + 1]
  BY Zenon, StringUnfolds
<1>2. Len(piece) \in Nat /\ \A i \in 1 .. Len(piece) : piece[i] \in Seq(Byte)
  OBVIOUS
<1> DEFINE N == Len(piece) + 1
           S == {n \in Nat : n <= Len(piece) => n <= Len(g[N - n]) /\ Len(g[N - n]) <= k * n}
<1>3. 0 \in S
  BY <1>1, <1>2
<1>4. ASSUME NEW n \in Nat, n \in S PROVE n + 1 \in S
  <2> SUFFICES ASSUME n + 1 <= Len(piece)
               PROVE  n + 1 <= Len(g[N - (n + 1)]) /\ Len(g[N - (n + 1)]) <= k * (n + 1)
    OBVIOUS
  <2>1. PICK i \in 1 .. Len(piece) : i = N - (n + 1) /\ i + 1 = N - n /\ i + 1 \in 1 .. N
    <3>1. /\ Len(piece) - n \in 1 .. Len(piece) /\ Len(piece) - n = N - (n + 1)
          /\ Len(piece) - n + 1 = N - n /\ Len(piece) - n + 1 \in 1 .. N
      BY <1>2
    <3> QED
      BY Zenon, <3>1
  <2>2. g[i] = piece[i] \o g[i + 1] /\ g[i + 1] \in Seq(Byte) /\ piece[i] \in Seq(Byte)
    BY Zenon, <1>1, <1>2, <2>1
  <2>3. Len(g[i]) = Len(piece[i]) + Len(g[i + 1]) /\ Len(g[i + 1]) \in Nat
    BY <2>2, ConcatProperties
  <2>4. Len(piece[i]) \in 1 .. k
    BY <2>1 DEF Between
  <2>5. n <= Len(g[i + 1]) /\ Len(g[i + 1]) <= k * n
    <3>1. n <= Len(g[N - n]) /\ Len(g[N - n]) <= k * n
      BY <1>4
    <3> QED
      BY Zenon, <2>1, <3>1
  <2>6. PICK a \in Nat : a = k * n /\ k * (n + 1) = a + k
    OBVIOUS
  <2>7. \A x, y \in Nat : x \in 1 .. k /\ n <= y /\ y <= a => n + 1 <= x + y /\ x + y <= a + k
    OBVIOUS
  <2>8. Len(piece[i]) \in Nat
    BY <2>4
  <2>9. n + 1 <= Len(g[i]) /\ Len(g[i]) <= a + k
    BY Zenon, <2>3, <2>4, <2>5, <2>6, <2>7, <2>8
  <2> QED
    BY Zenon, <2>1, <2>6, <2>9
<1>5. Len(piece) \in S
  <2> HIDE DEF S
  <2> QED
    BY Zenon, <1>2, <1>3, <1>4, Induction
<1>6. N - Len(piece) = 1 /\ 1 \in 1 .. N
  BY <1>2
<1>7. g[1] \in Seq(Byte) /\ Len(g[1]) \in Nat
  BY <1>6
<1>8. Len(piece) <= Len(g[1]) /\ Len(g[1]) <= k * Len(piece)
  <2>1. Len(piece) <= Len(g[N - Len(piece)]) /\ Len(g[N - Len(piece)]) <= k * Len(piece)
    BY <1>2, <1>5
  <2> QED
    BY Zenon, <1>6, <2>1
<1> QED
  BY Zenon, <1>1, <1>7, <1>8

(* The pieces of an escaped text. *)
CanonicalPieces(s) == [i \in 1 .. Len(s) |-> CanonicalByte(s[i])]

(* What a byte becomes in the canonical form. *)
LEMMA CanonicalByteType ==
  ASSUME NEW c \in Byte
  PROVE  CanonicalByte(c) \in Seq(Byte) /\ Len(CanonicalByte(c)) \in 1 .. 6 /\ (c >= 32 => Len(CanonicalByte(c)) \in 1 .. 2)
<1>1. BACKSLASH \in Byte /\ LowerU \in Byte /\ 48 \in Byte
  BY SMT DEF BACKSLASH, LowerU, Byte
<1>2. <<BACKSLASH, c>> \in Seq(Byte) /\ <<c>> \in Seq(Byte) /\ Len(<<BACKSLASH, c>>) = 2 /\ Len(<<c>>) = 1
  BY <1>1
<1>3. c < 32 => UnicodeEscape(c) \in Seq(Byte) /\ Len(UnicodeEscape(c)) = 6
  <2>1. c < 32 => HexDigit(c \div 16) \in Byte /\ HexDigit(c % 16) \in Byte
    BY SMT DEF HexDigit, Byte
  <2> QED
    BY <1>1, <2>1 DEF UnicodeEscape
<1>4. c < 32 \/ c >= 32
  BY SMT DEF Byte
<1>5. 1 \in 1 .. 6 /\ 2 \in 1 .. 6 /\ 6 \in 1 .. 6 /\ 1 \in 1 .. 2 /\ 2 \in 1 .. 2 /\ ~(c < 32 /\ c >= 32)
  BY SMT DEF Byte
<1> QED
  BY Zenon, <1>2, <1>3, <1>4, <1>5 DEF CanonicalByte

(* An identifier without controls at most doubles. *)
LEMMA EscapedIdentifier ==
  ASSUME NEW s \in Seq(Byte), \A i \in 1 .. Len(s) : s[i] >= 32
  PROVE  Len(write_escaped(s)) \in Nat /\ Len(write_escaped(s)) <= 2 * Len(s)
<1>1. \A i \in 1 .. Len(s) : s[i] \in Byte
  OBVIOUS
<1>2. ASSUME NEW i \in 1 .. Len(s)
      PROVE  CanonicalByte(s[i]) \in Seq(Byte) /\ Len(CanonicalByte(s[i])) \in 1 .. 2
  BY Zenon, <1>1, CanonicalByteType
<1>3. CanonicalPieces(s) \in Seq(Seq(Byte)) /\ Len(CanonicalPieces(s)) = Len(s)
  BY <1>2 DEF CanonicalPieces
<1>4. Between(CanonicalPieces(s), 2)
  BY <1>2, <1>3 DEF Between, CanonicalPieces
<1>5. write_escaped(s) = StringFrom(CanonicalPieces(s))[1]
  BY Zenon DEF write_escaped, EscapeAll, CanonicalPieces
<1> QED
  BY Zenon, <1>3, <1>4, <1>5, StringLength, 2 \in Nat

(* Nothing escapes to nothing. *)
LEMMA EscapedNothing == write_escaped(<<>>) = <<>>
<1>1. CanonicalPieces(<<>>) \in Seq(Seq(Byte)) /\ Len(CanonicalPieces(<<>>)) = 0 /\ 0 + 1 = 1
  BY DEF CanonicalPieces
<1>2. write_escaped(<<>>) = StringFrom(CanonicalPieces(<<>>))[1]
  BY Zenon DEF write_escaped, EscapeAll, CanonicalPieces
<1> QED
  BY Zenon, <1>1, <1>2, StringUnfolds

(* The pieces of a text that goes into a body. *)
RequestPieces(s) == [i \in 1 .. Len(s) |-> RequestByte(s[i])]

(* gwj_escape puts at most six bytes in the place of one, and at most two  *)
(* if it is no control.                                                    *)
LEMMA RequestByteType ==
  ASSUME NEW c \in Byte
  PROVE  RequestByte(c) \in Seq(Byte) /\ Len(RequestByte(c)) \in 1 .. 6 /\ (c >= 32 => Len(RequestByte(c)) \in 1 .. 2)
<1>1. CASE c \in DOMAIN ShortEscapes
  <2>1. ShortEscapes[c] \in Byte
    BY SMT, <1>1 DEF ShortEscapes, Byte
  <2>2. BACKSLASH \in Byte
    BY SMT DEF BACKSLASH, Byte
  <2>3. c < 32 /\ c \notin {QUOTE, BACKSLASH}
    BY SMT, <1>1 DEF ShortEscapes, QUOTE, BACKSLASH
  <2>4. RequestByte(c) = <<BACKSLASH, ShortEscapes[c]>>
    BY Zenon, <1>1, <2>3 DEF RequestByte
  <2>5. ASSUME NEW d \in Byte PROVE <<BACKSLASH, d>> \in Seq(Byte) /\ Len(<<BACKSLASH, d>>) \in 1 .. 6 /\ Len(<<BACKSLASH, d>>) \in 1 .. 2
    BY <2>2
  <2> QED
    BY Zenon, <2>1, <2>4, <2>5
<1>2. CASE c \notin DOMAIN ShortEscapes
  <2>1. RequestByte(c) = CanonicalByte(c)
    BY Zenon, <1>2 DEF RequestByte, CanonicalByte
  <2> QED
    BY Zenon, <2>1, CanonicalByteType
<1> QED
  BY Zenon, <1>1, <1>2

(* What gwj_escape makes, if there is room for k bytes in the place of one. *)
LEMMA EscapeFits ==
  ASSUME NEW s \in Seq(Byte), NEW k \in Nat, \A i \in 1 .. Len(s) : Len(RequestByte(s[i])) \in 1 .. k,
         NEW cap \in Nat, k * Len(s) <= cap
  PROVE  gwj_escape(s, cap).rc = 0
<1>1. \A i \in 1 .. Len(s) : RequestByte(s[i]) \in Seq(Byte)
  BY Zenon, ElementOfSeq, RequestByteType
<1>2. RequestPieces(s) \in Seq(Seq(Byte)) /\ Len(RequestPieces(s)) = Len(s)
  BY <1>1 DEF RequestPieces
<1>3. Between(RequestPieces(s), k)
  BY <1>2 DEF Between, RequestPieces
<1>4. PICK e : e = StringFrom(RequestPieces(s))[1]
  OBVIOUS
<1>5. Len(e) \in Nat /\ Len(e) <= k * Len(s)
  BY Zenon, <1>2, <1>3, <1>4, StringLength
<1>6. k * Len(s) \in Nat
  <2>1. Len(s) \in Nat /\ \A m \in Nat : k * m \in Nat
    OBVIOUS
  <2> QED
    BY Zenon, <2>1
<1>7. Len(e) <= cap
  BY <1>5, <1>6
<1>8. gwj_escape(s, cap) = [rc |-> 0, text |-> e]
  BY Zenon, <1>4, <1>7 DEF gwj_escape, EscapeAll, RequestPieces
<1> QED
  BY <1>8

(* gwj_escape_utf8 takes the texts that ax_validate_utf8 takes. *)
LEMMA EscapesTheSameTexts ==
  ASSUME NEW s \in Seq(Byte)
  PROVE  Scans([p \in 1 .. Len(s) |-> utf8_seq_len(s, p)]) <=> ax_validate_utf8(s)
<1>1. [p \in 1 .. Len(s) |-> utf8_seq_len(s, p)] = [p \in 1 .. Len(s) |-> Utf8Step(s, p)]
  BY Zenon, SeqLenIsStep
<1> QED
  BY Zenon, <1>1 DEF ax_validate_utf8

-----------------------------------------------------------------------------
(* What ax_validate_and_normalise admits. *)

(* The normalised text is what the loop makes, and passed the checks. *)
LEMMA Normalises ==
  ASSUME NEW s, NEW size, ax_validate_and_normalise(s, size).rc = "AX_OK",
         NEW t, t = ax_validate_and_normalise(s, size).text
  PROVE  /\ t = LineFeedsFrom(s)[1] /\ Len(t) < size
         /\ ax_validate_and_normalise(s, size) = Text(t)
         /\ ax_validate_utf8(s) /\ ~ax_contains_forbidden_control(t) /\ ax_is_nfc(t)
<1> DEFINE n == ax_normalise_line_endings(s, size)
           f == LineFeedsFrom(s)[1]
<1>1. "AX_ERR_ENCODING" # "AX_OK" /\ "AX_ERR_BUFFER" # "AX_OK"
  OBVIOUS
<1>2. \A rc : Error(rc).rc = rc
  BY DEF Error
<1>3. n = IF Len(f) < size THEN Text(f) ELSE Error("AX_ERR_BUFFER")
  BY Zenon DEF ax_normalise_line_endings
<1> HIDE DEF n
<1>4. /\ ax_validate_utf8(s) /\ n.rc = "AX_OK" /\ ax_validate_and_normalise(s, size) = n
      /\ ~ax_contains_forbidden_control(n.text) /\ ax_is_nfc(n.text)
  BY Zenon, <1>1, <1>2 DEF ax_validate_and_normalise, n
<1>5. Len(f) < size /\ n = Text(f)
  BY Zenon, <1>1, <1>2, <1>3, <1>4
<1>6. Text(f).text = f
  BY DEF Text
<1> QED
  BY Zenon, <1>4, <1>5, <1>6

(* Admitted text is UTF-8 with no CR and no NUL, and no longer than the    *)
(* text it was made from.                                                  *)
LEMMA AdmittedText ==
  ASSUME NEW s \in Seq(Byte), NEW size, ax_validate_and_normalise(s, size).rc = "AX_OK",
         NEW t, t = ax_validate_and_normalise(s, size).text
  PROVE  /\ t \in Seq(Byte) /\ Len(t) <= Len(s)
         /\ ax_validate_utf8(t) /\ ax_is_nfc(t)
         /\ \A i \in 1 .. Len(t) : t[i] # CR /\ t[i] # 0
<1>1. /\ t = LineFeedsFrom(s)[1]
      /\ ax_validate_utf8(s) /\ ~ax_contains_forbidden_control(t) /\ ax_is_nfc(t)
  BY Zenon, Normalises
<1>2. ax_validate_utf8(t)
  BY Zenon, <1>1, LineFeedsUtf8
<1>3. 1 \in 1 .. Len(s) + 1 /\ Len(s) + 1 - 1 = Len(s)
  OBVIOUS
<1>4. t \in Seq(Byte) /\ Len(t) <= Len(s) /\ \A i \in 1 .. Len(t) : t[i] # CR
  BY Zenon, <1>1, <1>3, LineFeedsShape
<1>5. ASSUME NEW i \in 1 .. Len(t) PROVE t[i] # 0
  <2>1. i \in DOMAIN t
    BY <1>4
  <2>2. 0 < 32 /\ 0 # LF
    BY SMT DEF LF
  <2> QED
    BY Zenon, <1>1, <2>1, <2>2 DEF ax_contains_forbidden_control
<1> QED
  BY <1>1, <1>2, <1>4, <1>5

-----------------------------------------------------------------------------
(* UTF-8: the validator and the grammar. *)

(* The form g stands in s between b and n. *)
Standing(s, b, n, g) == b = n - Len(g) /\ Len(g) <= n /\ \A k \in 1 .. Len(g) : s[n - Len(g) + k] \in g[k]

(* A form of one byte, of two, of three and of four, position by position. *)
LEMMA EndsOne ==
  ASSUME NEW s, NEW n \in Nat, NEW b \in Nat, NEW A
  PROVE  Standing(s, b, n, <<A>>) <=> n = b + 1 /\ s[b + 1] \in A
<1>1. Len(<<A>>) = 1 /\ <<A>>[1] = A /\ \A k \in 1 .. 1 : k = 1
  OBVIOUS
<1>2. b = n - 1 /\ 1 <= n <=> n = b + 1
  OBVIOUS
<1>3. 1 \in 1 .. 1
  OBVIOUS
<1> QED BY Zenon, <1>1, <1>2, <1>3 DEF Standing

(* The same for a form of two bytes. *)
LEMMA EndsTwo ==
  ASSUME NEW s, NEW n \in Nat, NEW b \in Nat, NEW A, NEW B
  PROVE  Standing(s, b, n, <<A, B>>) <=> n = b + 2 /\ s[b + 1] \in A /\ s[b + 2] \in B
<1>1. Len(<<A, B>>) = 2 /\ <<A, B>>[1] = A /\ <<A, B>>[2] = B /\ \A k \in 1 .. 2 : k = 1 \/ k = 2
  OBVIOUS
<1>2. b = n - 2 /\ 2 <= n <=> n = b + 2
  OBVIOUS
<1>3. 1 \in 1 .. 2 /\ 2 \in 1 .. 2
  OBVIOUS
<1> QED BY Zenon, <1>1, <1>2, <1>3 DEF Standing

(* The same for a form of three bytes. *)
LEMMA EndsThree ==
  ASSUME NEW s, NEW n \in Nat, NEW b \in Nat, NEW A, NEW B, NEW C
  PROVE  Standing(s, b, n, <<A, B, C>>) <=> n = b + 3 /\ s[b + 1] \in A /\ s[b + 2] \in B /\ s[b + 3] \in C
<1>1. /\ Len(<<A, B, C>>) = 3 /\ <<A, B, C>>[1] = A /\ <<A, B, C>>[2] = B /\ <<A, B, C>>[3] = C
      /\ \A k \in 1 .. 3 : k = 1 \/ k = 2 \/ k = 3
  OBVIOUS
<1>2. b = n - 3 /\ 3 <= n <=> n = b + 3
  OBVIOUS
<1>3. 1 \in 1 .. 3 /\ 2 \in 1 .. 3 /\ 3 \in 1 .. 3
  OBVIOUS
<1> QED BY Zenon, <1>1, <1>2, <1>3 DEF Standing

(* The same for a form of four bytes. *)
LEMMA EndsFour ==
  ASSUME NEW s, NEW n \in Nat, NEW b \in Nat, NEW A, NEW B, NEW C, NEW D
  PROVE  Standing(s, b, n, <<A, B, C, D>>) <=>
           n = b + 4 /\ s[b + 1] \in A /\ s[b + 2] \in B /\ s[b + 3] \in C /\ s[b + 4] \in D
<1>1. /\ Len(<<A, B, C, D>>) = 4 /\ <<A, B, C, D>>[1] = A /\ <<A, B, C, D>>[2] = B
      /\ <<A, B, C, D>>[3] = C /\ <<A, B, C, D>>[4] = D
      /\ \A k \in 1 .. 4 : k = 1 \/ k = 2 \/ k = 3 \/ k = 4
  OBVIOUS
<1>2. b = n - 4 /\ 4 <= n <=> n = b + 4
  OBVIOUS
<1>3. 1 \in 1 .. 4 /\ 2 \in 1 .. 4 /\ 3 \in 1 .. 4 /\ 4 \in 1 .. 4
  OBVIOUS
<1> QED BY Zenon, <1>1, <1>2, <1>3 DEF Standing

(* The byte ranges of the forms of three bytes and of four, together. *)
Lead30 == {224}
Lead31 == 225 .. 236
Lead32 == {237}
Lead33 == 238 .. 239
Lead40 == {240}
Lead41 == 241 .. 243
Lead42 == {244}
High30 == 160 .. 191
Low32 == 128 .. 159
High40 == 144 .. 191
Low42 == 128 .. 143

(* The forms of three bytes are the rows of the table of utf8_seq_len. *)
LEMMA FormsOfThree ==
  ASSUME NEW a \in Byte, NEW b \in Byte
  PROVE  a \in Lead3 /\ b \in Second(a) <=>
           \/ a \in Lead30 /\ b \in High30
           \/ a \in Lead31 /\ b \in Trail
           \/ a \in Lead32 /\ b \in Low32
           \/ a \in Lead33 /\ b \in Trail
BY SMTT(20) DEF Lead3, Second, Lead30, Lead31, Lead32, Lead33, High30, Low32, Trail, Byte

(* The same for four bytes. *)
LEMMA FormsOfFour ==
  ASSUME NEW a \in Byte, NEW b \in Byte
  PROVE  a \in Lead4 /\ b \in Second(a) <=>
           \/ a \in Lead40 /\ b \in High40
           \/ a \in Lead41 /\ b \in Trail
           \/ a \in Lead42 /\ b \in Low42
BY SMTT(20) DEF Lead4, Second, Lead40, Lead41, Lead42, High40, Low42, Trail, Byte

(* The same for two bytes. *)
LEMMA FormsOfTwo ==
  ASSUME NEW a \in Byte, NEW b \in Byte
  PROVE  a \in Lead2 /\ b \in Second(a) <=> a \in Lead2 /\ b \in Trail
BY SMTT(20) DEF Lead2, Second, Trail, Byte

(* The forms, with names for their byte ranges. *)
LEMMA FormsAre ==
  Forms = { <<Ascii>>, <<Lead2, Trail>>,
            <<Lead30, High30, Trail>>, <<Lead31, Trail, Trail>>, <<Lead32, Low32, Trail>>, <<Lead33, Trail, Trail>>,
            <<Lead40, High40, Trail, Trail>>, <<Lead41, Trail, Trail, Trail>>, <<Lead42, Low42, Trail, Trail>> }
BY SMTT(20) DEF Forms, Ascii, Lead2, Lead30, Lead31, Lead32, Lead33, Lead40, Lead41, Lead42, High30, Low32, High40, Low42

(* A character ends at n because one of the forms stands there. *)
LEMMA EndingForms ==
  ASSUME NEW s, NEW n, NEW b
  PROVE  b \in CharsEndingAt(s, n) <=>
           \/ Standing(s, b, n, <<Ascii>>) \/ Standing(s, b, n, <<Lead2, Trail>>)
           \/ Standing(s, b, n, <<Lead30, High30, Trail>>) \/ Standing(s, b, n, <<Lead31, Trail, Trail>>)
           \/ Standing(s, b, n, <<Lead32, Low32, Trail>>) \/ Standing(s, b, n, <<Lead33, Trail, Trail>>)
           \/ Standing(s, b, n, <<Lead40, High40, Trail, Trail>>) \/ Standing(s, b, n, <<Lead41, Trail, Trail, Trail>>)
           \/ Standing(s, b, n, <<Lead42, Low42, Trail, Trail>>)
<1>1. b \in CharsEndingAt(s, n) <=> \E g \in Forms : Standing(s, b, n, g)
  BY Zenon DEF CharsEndingAt, Standing
<1> QED BY Zenon, <1>1, FormsAre

(* The trailing bytes of the grammar are those that validate.c lets        *)
(* continue a sequence.                                                    *)
LEMMA TrailIsCont == \A c : c \in Trail <=> Cont(c)
BY Zenon DEF Trail, Cont

(* A character of RFC 3629 ends at n and starts after b exactly if a step  *)
(* of ax_validate_utf8 goes from b + 1 to n + 1.                           *)
LEMMA CharIsStep ==
  ASSUME NEW s \in Seq(Byte), NEW n \in 1 .. Len(s), NEW b \in 0 .. n - 1
  PROVE  b \in CharsEndingAt(s, n) <=> Utf8Step(s, b + 1) = n - b
<1>1. b + 1 \in 1 .. Len(s) /\ n \in Nat /\ b \in Nat /\ s[b + 1] \in Byte /\ n <= Len(s)
  OBVIOUS
<1>2. PICK a \in Byte : a = s[b + 1]
  BY <1>1
<1>3. PICK m \in 0 .. 4 : m = Utf8Step(s, b + 1)
  BY Zenon, <1>1, Utf8StepBytes
<1>4. n - b = m <=> n = b + m
  BY <1>1
<1>5. /\ m = 0 => n # b + m
      /\ m = 0 \/ m = 1 \/ m = 2 \/ m = 3 \/ m = 4
      /\ b + 1 + 1 = b + 2 /\ b + 1 + 2 = b + 3 /\ b + 1 + 3 = b + 4
  OBVIOUS
<1>6. /\ n = b + 2 => b + 1 + 1 <= Len(s) /\ s[b + 2] \in Byte
      /\ n = b + 3 => b + 1 + 2 <= Len(s) /\ s[b + 2] \in Byte
      /\ n = b + 4 => b + 1 + 3 <= Len(s) /\ s[b + 2] \in Byte
  BY <1>1
<1>7. a \in Ascii <=> m = 1
  BY Zenon, <1>1, <1>2, <1>3, Utf8StepAscii, Utf8StepBytes
<1>8. /\ m = 2 <=> a \in Lead2 /\ Fits(s, b + 1, 2)
      /\ m = 3 <=> a \in Lead3 /\ Fits(s, b + 1, 3)
      /\ m = 4 <=> a \in Lead4 /\ Fits(s, b + 1, 4)
  BY Zenon, <1>1, <1>2, <1>3, Utf8Two, Utf8Three, Utf8Four
<1>9. /\ Fits(s, b + 1, 2) <=> b + 1 + 1 <= Len(s) /\ s[b + 2] \in Second(a)
      /\ Fits(s, b + 1, 3) <=> b + 1 + 2 <= Len(s) /\ s[b + 2] \in Second(a) /\ Cont(s[b + 3])
      /\ Fits(s, b + 1, 4) <=> /\ b + 1 + 3 <= Len(s) /\ s[b + 2] \in Second(a)
                               /\ Cont(s[b + 3]) /\ Cont(s[b + 4])
  BY Zenon, <1>1, <1>2, <1>5, FitsOf
<1>10. Standing(s, b, n, <<Ascii>>) <=> n = b + 1 /\ m = 1
  BY Zenon, <1>1, <1>2, <1>7, EndsOne
<1>11. Standing(s, b, n, <<Lead2, Trail>>) <=> n = b + 2 /\ m = 2
  <2>1. ASSUME n = b + 2
        PROVE  m = 2 <=> a \in Lead2 /\ s[b + 2] \in Trail
    BY Zenon, <2>1, <1>2, <1>6, <1>8, <1>9, FormsOfTwo
  <2> QED BY Zenon, <1>1, <1>2, <2>1, EndsTwo
<1>12. \/ Standing(s, b, n, <<Lead30, High30, Trail>>) \/ Standing(s, b, n, <<Lead31, Trail, Trail>>)
       \/ Standing(s, b, n, <<Lead32, Low32, Trail>>) \/ Standing(s, b, n, <<Lead33, Trail, Trail>>)
       <=> n = b + 3 /\ m = 3
  <2>1. ASSUME n = b + 3 
        PROVE m = 3 <=> 
                  /\ \/ a \in Lead30 /\ s[b + 2] \in High30
                     \/ a \in Lead31 /\ s[b + 2] \in Trail
                     \/ a \in Lead32 /\ s[b + 2] \in Low32
                     \/ a \in Lead33 /\ s[b + 2] \in Trail
                  /\ s[b + 3] \in Trail
    BY Zenon, <2>1, <1>2, <1>6, <1>8, <1>9, FormsOfThree, TrailIsCont
  <2> QED BY ZenonT(40), <1>1, <1>2, <2>1, EndsThree
<1>13. \/ Standing(s, b, n, <<Lead40, High40, Trail, Trail>>) \/ Standing(s, b, n, <<Lead41, Trail, Trail, Trail>>)
       \/ Standing(s, b, n, <<Lead42, Low42, Trail, Trail>>)
       <=> n = b + 4 /\ m = 4
  <2>1. ASSUME n = b + 4
        PROVE m = 4 <=> 
                  /\ \/ a \in Lead40 /\ s[b + 2] \in High40
                     \/ a \in Lead41 /\ s[b + 2] \in Trail
                     \/ a \in Lead42 /\ s[b + 2] \in Low42
                  /\ s[b + 3] \in Trail /\ s[b + 4] \in Trail
    BY Zenon, <2>1, <1>2, <1>6, <1>8, <1>9, FormsOfFour, TrailIsCont
  <2>2. Standing(s, b, n, <<Lead40, High40, Trail, Trail>>) <=>
          n = b + 4 /\ a \in Lead40 /\ s[b + 2] \in High40 /\ s[b + 3] \in Trail /\ s[b + 4] \in Trail
    BY SMTT(20), <1>1, <1>2, EndsFour
  <2>3. Standing(s, b, n, <<Lead41, Trail, Trail, Trail>>) <=>
          n = b + 4 /\ a \in Lead41 /\ s[b + 2] \in Trail /\ s[b + 3] \in Trail /\ s[b + 4] \in Trail
    BY ZenonT(40), <1>1, <1>2, EndsFour
  <2>4. Standing(s, b, n, <<Lead42, Low42, Trail, Trail>>) <=>
          n = b + 4 /\ a \in Lead42 /\ s[b + 2] \in Low42 /\ s[b + 3] \in Trail /\ s[b + 4] \in Trail
    BY SMTT(20), <1>1, <1>2, EndsFour
  <2> QED BY Zenon, <2>1, <2>2, <2>3, <2>4
<1>14. b \in CharsEndingAt(s, n) <=> \/ n = b + 1 /\ m = 1
                                     \/ n = b + 2 /\ m = 2
                                     \/ n = b + 3 /\ m = 3
                                     \/ n = b + 4 /\ m = 4
  BY Zenon, <1>10, <1>11, <1>12, <1>13, EndingForms
<1>15. b \in CharsEndingAt(s, n) <=> n = b + m
  BY Zenon, <1>5, <1>14
<1> QED BY Zenon, <1>3, <1>4, <1>15

(* Characters have a byte or more. *)
LEMMA CharsBefore ==
  ASSUME NEW s \in Seq(Byte), NEW n \in 1 .. Len(s), NEW b \in CharsEndingAt(s, n)
  PROVE  b \in 0 .. n - 1
<1>1. PICK g \in Forms : b = n - Len(g) /\ Len(g) <= n
  BY Zenon DEF CharsEndingAt
<1>2. Len(g) \in 1 .. 4
  <2>1. \A A, B, C, D : /\ Len(<<A>>) \in 1 .. 4 /\ Len(<<A, B>>) \in 1 .. 4
                        /\ Len(<<A, B, C>>) \in 1 .. 4 /\ Len(<<A, B, C, D>>) \in 1 .. 4
    OBVIOUS
  <2> QED BY Zenon, <2>1, FormsAre
<1>3. PICK m \in 1 .. 4 : m = Len(g)
  BY Zenon, <1>2
<1>4. b = n - m /\ m <= n
  BY Zenon, <1>1, <1>3
<1> QED BY <1>4

(* The reference definition, unfolded. *)
GrammarOf(s) ==
  LET utf8[n \in 0 .. Len(s)] == n = 0 \/ \E b \in CharsEndingAt(s, n) : utf8[b]
  IN utf8

(* What the grammar says of each position: the recursion has a solution. *)
LEMMA GrammarUnfolds ==
  ASSUME NEW s \in Seq(Byte)
  PROVE  /\ IsUtf8(s) <=> GrammarOf(s)[Len(s)]
         /\ GrammarOf(s)[0]
         /\ \A n \in 1 .. Len(s) : GrammarOf(s)[n] <=> \E b \in CharsEndingAt(s, n) : GrammarOf(s)[b]
<1> DEFINE N == Len(s)
           H == [n \in 0 .. N |-> [g \in [0 .. n - 1 -> BOOLEAN] |-> n = 0 \/ \E b \in CharsEndingAt(s, n) : g[b]]]
           Ok(f) == f = [n \in 0 .. N |-> n = 0 \/ \E b \in CharsEndingAt(s, n) : f[b]]
<1>1. N \in Nat
  OBVIOUS
<1>2. PICK f : MadeBy(f, H, N, BOOLEAN)
  <2>1. Makes(H, N, BOOLEAN)
    BY Zenon DEF Makes
  <2> HIDE DEF H, N
  <2> QED BY Zenon, <1>1, <2>1, CourseOfValues
<1>3. f \in [0 .. N -> BOOLEAN]
  BY Zenon, <1>2 DEF MadeBy
<1>4. ASSUME NEW n \in 0 .. N
      PROVE  f[n] = (n = 0 \/ \E b \in CharsEndingAt(s, n) : f[b])
  <2>0. Below(f, n) \in [0 .. n - 1 -> BOOLEAN]
    BY <1>3 DEF Below
  <2>1. f[n] = (n = 0 \/ \E b \in CharsEndingAt(s, n) : Below(f, n)[b])
    BY Zenon, <1>2, <2>0 DEF MadeBy
  <2>2. n = 0 \/ n \in 1 .. N
    OBVIOUS
  <2>3. ASSUME n # 0, NEW b \in CharsEndingAt(s, n) PROVE Below(f, n)[b] = f[b]
    BY Zenon, <2>2, <2>3, CharsBefore DEF Below
  <2> QED BY Zenon, <2>1, <2>2, <2>3
<1>5. Ok(f)
  BY Zenon, <1>3, <1>4
<1>6. Ok(GrammarOf(s))
  <2>1. GrammarOf(s) = CHOOSE g : Ok(g)
    BY DEF GrammarOf
  <2> HIDE DEF Ok
  <2> QED BY Zenon, <1>5, <2>1
<1>7. 0 \in 0 .. N /\ \A n \in 1 .. N : n # 0 /\ n \in 0 .. N
  OBVIOUS
<1>8. IsUtf8(s) <=> GrammarOf(s)[Len(s)]
  BY DEF IsUtf8, GrammarOf
<1> HIDE DEF H
<1> QED BY Zenon, <1>6, <1>7, <1>8

(* The loop of ax_validate_utf8 gets to the end exactly if the text is one *)
(* of the grammar.                                                         *)
LEMMA ValidatesTheGrammar ==
  ASSUME NEW s \in Seq(Byte)
  PROVE  ax_validate_utf8(s) <=> IsUtf8(s)
<1> DEFINE N == Len(s)
           g == GrammarOf(s)
           S == {p \in 1 .. N : g[p - 1] /\ Utf8From(s, p) => g[N]}
           T == {n \in 0 .. N : g[n] /\ Utf8From(s, n + 1)}
<1>0. N \in Nat /\ (IsUtf8(s) <=> g[N]) /\ g[0]
  BY Zenon, GrammarUnfolds, LenProperties
<1>1. \A n \in 1 .. N : g[n] <=> \E b \in CharsEndingAt(s, n) : g[b]
  BY Zenon, GrammarUnfolds
<1> HIDE DEF g
<1>2. ASSUME NEW p \in 1 .. N, \A q \in p + 1 .. N : q \in S PROVE p \in S
  <2> SUFFICES ASSUME g[p - 1], Utf8From(s, p) PROVE g[N]
    OBVIOUS
  <2>1. PICK m \in 0 .. 4 : m = Utf8Step(s, p)
    BY Zenon, Utf8StepBytes
  <2>2. m # 0 /\ Utf8From(s, p + m)
    BY Zenon, <2>1, Utf8Round
  <2>3. p + m - 1 <= Len(s)
    BY Zenon, <2>1, <2>2, Utf8StepBytes
  <2>4. PICK n \in 1 .. N : n = p + m - 1
    BY <1>0, <2>2, <2>3
  <2>5. PICK b \in 0 .. n - 1 : b = p - 1
    BY <2>2, <2>4
  <2>6. b + 1 = p /\ n - b = m /\ p + m = n + 1
    BY <2>4, <2>5
  <2>7. b \in CharsEndingAt(s, n)
    BY Zenon, <2>1, <2>6, CharIsStep
  <2>8. g[n]
    BY Zenon, <1>1, <2>5, <2>7
  <2>9. CASE n # N
    <3>1. PICK q \in p + 1 .. N : q = n + 1 /\ q - 1 = n
      BY <1>0, <2>2, <2>4, <2>9
    <3>2. q \in S
      <4> HIDE DEF S, N
      <4> QED BY Zenon, <1>2
    <3>3. g[q - 1] /\ Utf8From(s, q) => g[N]
      BY Zenon, <3>2
    <3> QED BY Zenon, <2>2, <2>6, <2>8, <3>1, <3>3
  <2> QED BY Zenon, <2>8, <2>9
<1>3. \A p \in 1 .. N : p \in S
  <2> HIDE DEF S, N
  <2> QED BY Zenon, <1>0, <1>2, FromTheEnd
<1>4. ASSUME Utf8From(s, 1) PROVE g[N]
  <2>1. CASE N = 0
    BY Zenon, <1>0, <2>1
  <2>2. CASE N # 0
    <3>1. 1 \in 1 .. N /\ 1 - 1 = 0
      BY <1>0, <2>2
    <3>2. 1 \in S
      BY Zenon, <1>3, <3>1
    <3> QED BY Zenon, <1>0, <1>4, <3>1, <3>2
  <2> QED BY Zenon, <2>1, <2>2
<1>5. ASSUME g[N], ~Utf8From(s, 1) PROVE FALSE
  <2>1. N + 1 \in Len(s) + 1 .. Len(s) + 4 /\ N \in 0 .. N
    BY <1>0
  <2>2. N \in T
    BY Zenon, <1>5, <2>1, Utf8End
  <2>3. T \in SUBSET Nat /\ T # {}
    BY <2>2
  <2>4. PICK m \in T : \A k \in T : m <= k
    BY Zenon, <2>3, LeastMember
  <2>5. m \in 0 .. N /\ g[m] /\ Utf8From(s, m + 1)
    BY Zenon
  <2>6. m # 0
    <3>1. 0 + 1 = 1
      OBVIOUS
    <3> QED BY Zenon, <1>5, <2>5, <3>1
  <2>7. m \in 1 .. N
    BY <2>5, <2>6
  <2>8. PICK b \in CharsEndingAt(s, m) : g[b]
    BY Zenon, <1>1, <2>5, <2>7
  <2>9. b \in 0 .. m - 1
    BY Zenon, <2>7, CharsBefore
  <2>10. b + 1 \in 1 .. N /\ b \in 0 .. N /\ m - b # 0 /\ b + 1 + (m - b) = m + 1 /\ ~(m <= b)
    BY <1>0, <2>7, <2>9
  <2>11. Utf8Step(s, b + 1) = m - b
    BY Zenon, <2>7, <2>8, <2>9, CharIsStep
  <2>12. Utf8From(s, b + 1)
    BY Zenon, <2>5, <2>10, <2>11, Utf8Round
  <2>13. b \in T
    BY Zenon, <2>8, <2>10, <2>12
  <2> QED BY Zenon, <2>4, <2>10, <2>13
<1>6. ax_validate_utf8(s) <=> Utf8From(s, 1)
  BY Zenon, Utf8Start
<1> QED BY Zenon, <1>0, <1>4, <1>5, <1>6

-----------------------------------------------------------------------------
(* Line endings. *)

(* One line or more. *)
SomeLines == {v \in Seq(Seq(Byte)) : v # <<>>}

(* A byte in front of some lines makes some lines. *)
LEMMA BeforeType ==
  ASSUME NEW c \in Byte, NEW v \in SomeLines
  PROVE  Before(c, v) \in SomeLines
<1>1. v \in Seq(Seq(Byte)) /\ v # <<>>
  BY Zenon DEF SomeLines
<1>2. Head(v) \in Seq(Byte) /\ Tail(v) \in Seq(Seq(Byte))
  BY <1>1, HeadTailProperties
<1>3. <<c>> \in Seq(Byte) /\ <<>> \in Seq(Byte)
  OBVIOUS
<1>4. <<c>> \o Head(v) \in Seq(Byte)
  BY Zenon, <1>2, <1>3, ConcatProperties
<1>5. \A x \in Seq(Byte) : << x >> \in Seq(Seq(Byte)) /\ Len(<< x >>) = 1
  OBVIOUS
<1>6. ASSUME NEW x \in Seq(Byte), NEW w \in Seq(Seq(Byte)) PROVE << x >> \o w \in SomeLines
  <2>1. << x >> \o w \in Seq(Seq(Byte)) /\ Len(<< x >> \o w) = 1 + Len(w)
    BY Zenon, <1>5, ConcatProperties
  <2>2. Len(w) \in Nat
    OBVIOUS
  <2>3. << x >> \o w # <<>>
    <3>1. \A y : y = <<>> => Len(y) = 0
      OBVIOUS
    <3>2. 1 + Len(w) # 0
      BY <2>2
    <3> QED BY Zenon, <2>1, <3>1, <3>2
  <2> QED BY Zenon, <2>1, <2>3 DEF SomeLines
<1> QED BY Zenon, <1>1, <1>2, <1>3, <1>4, <1>6 DEF Before

(* The lines, unfolded. *)
LEMMA LinesUnfold ==
  ASSUME NEW s \in Seq(Byte)
  PROVE  /\ LinesFrom(s) \in [1 .. Len(s) + 1 -> SomeLines]
         /\ LinesFrom(s)[Len(s) + 1] = << <<>> >>
         /\ \A p \in 1 .. Len(s) :
              LinesFrom(s)[p] = IF SecondOfTwo(s, p) THEN LinesFrom(s)[p + 1] ELSE Before(s[p], LinesFrom(s)[p + 1])
<1> DEFINE N == Len(s) + 1
           V == SomeLines
           Stop == {p \in 1 .. N : p > Len(s)}
           base == [p \in 1 .. N |-> << <<>> >>]
           nxt == [p \in 1 .. N |-> p + 1]
           h == [p \in 1 .. N |-> [v \in V |-> IF SecondOfTwo(s, p) THEN v ELSE Before(s[p], v)]]
           Ok(f) == f = [p \in 1 .. N |->
                           IF p > Len(s) THEN << <<>> >>
                           ELSE IF SecondOfTwo(s, p) THEN f[p + 1] ELSE Before(s[p], f[p + 1])]
           c == CHOOSE f : Ok(f)
           S == {p \in 1 .. N : c[p] \in V}
<1>0. N \in Nat /\ Len(s) \in Nat /\ N > Len(s) /\ N \in 1 .. N
  OBVIOUS
<1>1. ASSUME NEW p \in 1 .. N, ~(p > Len(s))
      PROVE  s[p] \in Byte /\ p + 1 \in p + 1 .. N /\ p + 1 \in 1 .. N
  BY <1>0, <1>1
<1>2. << <<>> >> \in V
  <2>1. <<>> \in Seq(Byte)
    OBVIOUS
  <2>2. << <<>> >> \in Seq(Seq(Byte)) /\ << <<>> >> # <<>>
    BY <2>1
  <2> QED BY Zenon, <2>2 DEF SomeLines
<1>3. ASSUME NEW p \in 1 .. N, ~(p > Len(s)), NEW v \in V
      PROVE  (IF SecondOfTwo(s, p) THEN v ELSE Before(s[p], v)) \in V
  BY Zenon, <1>1, <1>3, BeforeType
<1> HIDE DEF V
<1>4. ASSUME NEW p \in 1 .. N
      PROVE  IF p \in Stop THEN base[p] \in V ELSE nxt[p] \in p + 1 .. N /\ \A v \in V : h[p][v] \in V
  <2>1. CASE p > Len(s)
    BY Zenon, <1>2, <2>1
  <2>2. CASE ~(p > Len(s))
    <3>1. nxt[p] \in p + 1 .. N
      BY Zenon, <1>1, <2>2
    <3>2. ASSUME NEW v \in V PROVE h[p][v] \in V
      BY Zenon, <1>3, <2>2
    <3> QED BY Zenon, <2>2, <3>1, <3>2
  <2> QED BY Zenon, <2>1, <2>2
<1>5. PICK f : Runs(f, N, V, Stop, base, nxt, h)
  <2> HIDE DEF N, Stop, base, nxt, h
  <2>1. Loop(N, V, Stop, base, nxt, h)
    BY Zenon, <1>4 DEF Loop
  <2> QED BY Zenon, <1>0, <2>1, Walk
<1>6. f \in [1 .. N -> V] /\ \A p \in 1 .. N : f[p] = IF p \in Stop THEN base[p] ELSE h[p][f[nxt[p]]]
  BY Zenon, <1>5 DEF Runs
<1>7. Ok(f)
  <2>1. ASSUME NEW p \in 1 .. N
        PROVE  f[p] = IF p > Len(s) THEN << <<>> >>
                      ELSE IF SecondOfTwo(s, p) THEN f[p + 1] ELSE Before(s[p], f[p + 1])
    <3>1. CASE p > Len(s)
      BY Zenon, <1>6, <3>1
    <3>2. CASE ~(p > Len(s))
      <4>1. f[p + 1] \in V
        BY Zenon, <1>1, <1>6, <3>2
      <4>2. f[p] = h[p][f[p + 1]]
        BY Zenon, <1>6, <3>2
      <4>3. h[p][f[p + 1]] = IF SecondOfTwo(s, p) THEN f[p + 1] ELSE Before(s[p], f[p + 1])
        BY Zenon, <4>1
      <4> QED BY Zenon, <3>2, <4>2, <4>3
    <3> QED BY Zenon, <3>1, <3>2
  <2> QED BY Zenon, <1>6, <2>1
<1>8. Ok(c)
  <2> HIDE DEF Ok
  <2> QED BY Zenon, <1>7
<1>9. LinesFrom(s) = c
  BY DEF LinesFrom
<1> HIDE DEF c, h
<1>10. \A p \in 1 .. N : c[p] = IF p > Len(s) THEN << <<>> >>
                                ELSE IF SecondOfTwo(s, p) THEN c[p + 1] ELSE Before(s[p], c[p + 1])
  BY Zenon, <1>8
<1>11. ASSUME NEW p \in 1 .. N, \A q \in p + 1 .. N : q \in S PROVE p \in S
  <2>1. CASE p > Len(s)
    BY Zenon, <1>2, <1>10, <2>1
  <2>2. CASE ~(p > Len(s))
    <3>1. c[p + 1] \in V
      BY Zenon, <1>1, <1>11, <2>2
    <3>2. c[p] = IF SecondOfTwo(s, p) THEN c[p + 1] ELSE Before(s[p], c[p + 1])
      BY Zenon, <1>10, <2>2
    <3>3. c[p] \in V
      BY Zenon, <1>3, <2>2, <3>1, <3>2
    <3> QED BY Zenon, <3>3
  <2> QED BY Zenon, <2>1, <2>2
<1>12. \A p \in 1 .. N : p \in S
  <2> HIDE DEF S, N
  <2> QED BY Zenon, <1>0, <1>11, FromTheEnd
<1>13. c \in [1 .. N -> V]
  BY Zenon, <1>8, <1>12
<1>14. \A p \in 1 .. Len(s) : p \in 1 .. N /\ ~(p > Len(s))
  BY <1>0
<1> QED BY Zenon, <1>0, <1>9, <1>10, <1>13, <1>14 DEF V

NoCR(t) == \A i \in 1 .. Len(t) : t[i] # CR

(* In a text without CR no line feed is the second of two. *)
LEMMA LinesWithoutCR ==
  ASSUME NEW t \in Seq(Byte), NoCR(t), NEW p \in 1 .. Len(t)
  PROVE  LinesFrom(t)[p] = Before(t[p], LinesFrom(t)[p + 1])
<1>1. p > 1 => p - 1 \in 1 .. Len(t)
  OBVIOUS
<1>2. ~SecondOfTwo(t, p)
  BY Zenon, <1>1 DEF SecondOfTwo, NoCR
<1> QED BY Zenon, <1>2, LinesUnfold

(* The lines of a text without CR do not depend on what precedes it. *)
LEMMA LinesShift ==
  ASSUME NEW u \in Seq(Byte), NEW t \in Seq(Byte), Follows(u, 1, t), NoCR(t)
  PROVE  \A k \in 1 .. Len(u) + 1 : LinesFrom(t)[k + 1] = LinesFrom(u)[k]
<1> DEFINE N == Len(u) + 1
           S == {k \in 1 .. N : LinesFrom(t)[k + 1] = LinesFrom(u)[k]}
<1>1. Len(u) \in Nat /\ Len(t) = 1 + Len(u) /\ \A i \in 1 .. Len(u) : t[1 + i] = u[i]
  BY DEF Follows
<1>2. N \in Nat
  BY <1>1
<1>3. ASSUME NEW i \in 1 .. Len(u) PROVE i + 1 \in 1 .. Len(t) /\ i + 1 \in i + 1 .. N /\ t[i + 1] = u[i]
  <2>1. i + 1 \in 1 .. Len(t) /\ i + 1 \in i + 1 .. N /\ 1 + i = i + 1
    BY <1>1
  <2> QED BY Zenon, <1>1, <2>1
<1>4. NoCR(u)
  BY Zenon, <1>3 DEF NoCR
<1>5. ASSUME NEW k \in 1 .. N, \A q \in k + 1 .. N : q \in S PROVE k \in S
  <2>1. CASE k = N
    <3>1. k + 1 = Len(t) + 1
      BY <1>1, <2>1
    <3>2. LinesFrom(t)[k + 1] = << <<>> >>
      BY Zenon, <3>1, LinesUnfold
    <3>3. LinesFrom(u)[k] = << <<>> >>
      BY Zenon, <2>1, LinesUnfold
    <3> QED BY Zenon, <3>2, <3>3
  <2>2. CASE k # N
    <3>1. k \in 1 .. Len(u)
      BY <1>1, <2>2
    <3>2. k + 1 \in S
      BY Zenon, <1>3, <1>5, <3>1
    <3>3. PICK q : q = k + 1
      OBVIOUS
    <3>4. LinesFrom(t)[q + 1] = LinesFrom(u)[q] /\ q \in 1 .. Len(t) /\ t[q] = u[k]
      BY Zenon, <1>3, <3>1, <3>2, <3>3
    <3>5. LinesFrom(t)[q] = Before(t[q], LinesFrom(t)[q + 1])
      BY Zenon, <3>4, LinesWithoutCR
    <3>6. LinesFrom(u)[k] = Before(u[k], LinesFrom(u)[q])
      BY Zenon, <1>4, <3>1, <3>3, LinesWithoutCR
    <3>7. LinesFrom(t)[k + 1] = LinesFrom(u)[k]
      BY Zenon, <3>3, <3>4, <3>5, <3>6
    <3> QED BY Zenon, <3>7
  <2> QED BY Zenon, <2>1, <2>2
<1> HIDE DEF N
<1>6. \A k \in 1 .. N : k \in S
  <2> HIDE DEF S
  <2> QED BY Zenon, <1>2, <1>5, FromTheEnd
<1> QED BY Zenon, <1>6 DEF N

(* The lines of a text without CR, by its first byte. *)
LEMMA LinesPrepend ==
  ASSUME NEW u \in Seq(Byte), NEW t \in Seq(Byte), Follows(u, 1, t), NoCR(t)
  PROVE  TextLines(t) = Before(t[1], TextLines(u))
<1>1. 1 \in 1 .. Len(u) + 1 /\ 1 \in 1 .. Len(t)
  BY DEF Follows
<1>2. LinesFrom(t)[1 + 1] = LinesFrom(u)[1]
  BY Zenon, <1>1, LinesShift
<1> QED BY Zenon, <1>1, <1>2, LinesWithoutCR DEF TextLines

(* Where ax_normalise_line_endings goes next, no second byte of a line     *)
(* ending is waiting, and none was dropped but such a one.                 *)
LEMMA NextIsFirst ==
  ASSUME NEW s \in Seq(Byte), NEW p \in 1 .. Len(s), NEW r, r = AfterByte(s, p)
  PROVE  /\ r \in p + 1 .. Len(s) + 1
         /\ r <= Len(s) => ~SecondOfTwo(s, r)
         /\ LinesFrom(s)[p + 1] = LinesFrom(s)[r]
<1>0. Len(s) \in Nat /\ p \in Nat
  OBVIOUS
<1>1. CASE r = p + 2 /\ p < Len(s) /\ s[p] = CR /\ s[p + 1] = LF
  <2>1. PICK q : q = p + 1
    OBVIOUS
  <2>2. q \in 1 .. Len(s) /\ q - 1 = p /\ q > 1 /\ r = q + 1 /\ r - 1 = q /\ r \in p + 1 .. Len(s) + 1
    BY <1>0, <1>1, <2>1
  <2>3. CR # LF
    BY DEF CR, LF
  <2>4. SecondOfTwo(s, q) /\ ~SecondOfTwo(s, r)
    BY Zenon, <1>1, <2>1, <2>2, <2>3 DEF SecondOfTwo
  <2>5. LinesFrom(s)[q] = LinesFrom(s)[q + 1]
    BY Zenon, <2>2, <2>4, LinesUnfold
  <2> QED BY Zenon, <2>1, <2>2, <2>4, <2>5
<1>2. CASE r = p + 1 /\ ~(p < Len(s) /\ s[p] = CR /\ s[p + 1] = LF)
  <2>1. r \in p + 1 .. Len(s) + 1 /\ r - 1 = p /\ (r <= Len(s) => p < Len(s))
    BY <1>0, <1>2
  <2>2. r <= Len(s) => ~SecondOfTwo(s, r)
    BY Zenon, <1>2, <2>1 DEF SecondOfTwo
  <2> QED BY Zenon, <1>2, <2>1, <2>2
<1>3. (r = p + 2 /\ p < Len(s) /\ s[p] = CR /\ s[p + 1] = LF) \/ (r = p + 1 /\ ~(p < Len(s) /\ s[p] = CR /\ s[p + 1] = LF))
  BY Zenon DEF AfterByte
<1> QED BY Zenon, <1>1, <1>2, <1>3

(* An empty text is one empty line. *)
LEMMA LinesOfNothing == TextLines(<<>>) = << <<>> >>
<1>1. <<>> \in Seq(Byte) /\ Len(<<>>) + 1 = 1
  OBVIOUS
<1> QED BY Zenon, <1>1, LinesUnfold DEF TextLines

(* ax_normalise_line_endings keeps every line. *)
LEMMA LineFeedsKeepsLines ==
  ASSUME NEW s \in Seq(Byte)
  PROVE  TextLines(LineFeedsFrom(s)[1]) = TextLines(s)
<1> DEFINE g == LineFeedsFrom(s)
           L == LinesFrom(s)
           N == Len(s) + 1
           Q(p) == (p <= Len(s) => ~SecondOfTwo(s, p)) => TextLines(g[p]) = L[p]
           S == {p \in 1 .. N : Q(p)}
<1>1. N \in Nat /\ Len(s) \in Nat /\ 1 \in 1 .. N /\ ~(1 > 1)
  OBVIOUS
<1> HIDE DEF g, L
<1>2. ASSUME NEW p \in 1 .. N, \A q \in p + 1 .. N : q \in S, p <= Len(s) => ~SecondOfTwo(s, p)
      PROVE  TextLines(g[p]) = L[p]
  <2>1. CASE p = N
    BY Zenon, <2>1, LineFeedsEnd, LinesUnfold, LinesOfNothing DEF g, L
  <2>2. CASE p # N
    <3>1. p \in 1 .. Len(s) /\ p <= Len(s)
      BY <1>1, <2>2
    <3>2. PICK r : r = AfterByte(s, p)
      OBVIOUS
    <3>3. r \in p + 1 .. N /\ (r <= Len(s) => ~SecondOfTwo(s, r)) /\ L[p + 1] = L[r]
      BY Zenon, <3>1, <3>2, NextIsFirst DEF L
    <3>4. TextLines(g[r]) = L[r]
      BY Zenon, <1>2, <3>3
    <3>5. g[p][1] = LineFeed(s[p]) /\ Follows(g[r], 1, g[p])
      BY Zenon, <3>1, <3>2, LineFeedsRound DEF g
    <3>6. g[p] \in Seq(Byte) /\ NoCR(g[p])
      BY Zenon, LineFeedsShape DEF g, NoCR
    <3>7. g[r] \in Seq(Byte)
      BY Zenon, <3>5 DEF Follows
    <3>8. TextLines(g[p]) = Before(LineFeed(s[p]), L[r])
      BY Zenon, <3>4, <3>5, <3>6, <3>7, LinesPrepend
    <3>9. \A v : Before(LineFeed(s[p]), v) = Before(s[p], v)
      BY Zenon DEF Before, LineFeed
    <3>10. L[p] = Before(s[p], L[p + 1])
      BY Zenon, <1>2, <3>1, LinesUnfold DEF L
    <3> QED BY Zenon, <3>3, <3>8, <3>9, <3>10
  <2> QED BY Zenon, <2>1, <2>2
<1> HIDE DEF N
<1>3. \A p \in 1 .. N : p \in S
  <2>1. ASSUME NEW p \in 1 .. N, \A q \in p + 1 .. N : q \in S PROVE p \in S
    BY Zenon, <1>2, <2>1
  <2> HIDE DEF S
  <2> QED BY Zenon, <1>1, <2>1, FromTheEnd
<1>4. ~SecondOfTwo(s, 1)
  BY Zenon, <1>1 DEF SecondOfTwo
<1> QED BY Zenon, <1>1, <1>3, <1>4 DEF g, L, TextLines

(* What is neither a control nor DEL, or is a line feed. *)
LEMMA Uncontrolled ==
  ASSUME NEW c \in Byte, ~((c < 32 /\ c # LF) \/ c = DEL), c # CR
  PROVE  c \notin {CR, DEL} \cup 11 .. 31 \cup 0 .. 9
BY SMT DEF Byte, LF, CR, DEL

(* Text that ax_validate_and_normalise admitted is in its final form. *)
LEMMA AdmittedStays ==
  ASSUME NEW s \in Seq(Byte), NEW size, ax_validate_and_normalise(s, size).rc = "AX_OK",
         NEW t, t = ax_validate_and_normalise(s, size).text
  PROVE  /\ ax_validate_and_normalise(t, Len(t) + 1) = ax_validate_and_normalise(s, size)
         /\ ax_validate_encoding(t) = "AX_OK"
         /\ \A i \in DOMAIN t : t[i] \notin {CR, DEL} \cup 11 .. 31 \cup 0 .. 9
         /\ TextLines(t) = TextLines(s)
<1>1. /\ t = LineFeedsFrom(s)[1] /\ ax_validate_and_normalise(s, size) = Text(t)
      /\ ~ax_contains_forbidden_control(t)
  BY Zenon, Normalises
<1>2. /\ t \in Seq(Byte) /\ ax_validate_utf8(t) /\ ax_is_nfc(t)
      /\ \A i \in 1 .. Len(t) : t[i] # CR
  BY Zenon, AdmittedText
<1>3. ax_normalise_line_endings(t, Len(t) + 1) = Text(t)
  <2>1. Len(t) < Len(t) + 1
    BY <1>2
  <2>2. LineFeedsFrom(t)[1] = t
    BY Zenon, <1>2, NormalIsUnchanged
  <2> QED BY Zenon, <2>1, <2>2 DEF ax_normalise_line_endings
<1>4. Text(t).rc = "AX_OK" /\ Text(t).text = t
  BY DEF Text
<1>5. ax_validate_and_normalise(t, Len(t) + 1) = Text(t)
  BY Zenon, <1>1, <1>2, <1>3, <1>4 DEF ax_validate_and_normalise
<1>6. ax_validate_encoding(t) = "AX_OK"
  BY Zenon, <1>2 DEF ax_validate_encoding
<1>7. ASSUME NEW i \in DOMAIN t PROVE t[i] \notin {CR, DEL} \cup 11 .. 31 \cup 0 .. 9
  <2>1. t[i] \in Byte /\ t[i] # CR
    BY <1>2
  <2>2. ~((t[i] < 32 /\ t[i] # LF) \/ t[i] = DEL)
    BY Zenon, <1>1 DEF ax_contains_forbidden_control
  <2> QED BY Zenon, <2>1, <2>2, Uncontrolled
<1>8. TextLines(t) = TextLines(s)
  BY Zenon, <1>1, LineFeedsKeepsLines
<1> QED BY Zenon, <1>1, <1>5, <1>6, <1>7, <1>8
=============================================================================
