-------------------------- MODULE ProcFilesProofs ---------------------------
(***************************************************************************)
(* Proofs about ProcFiles: for all files of the kernel's form, all names   *)
(* and command lines in UTF-8 and all lengths of the buffers.              *)
(***************************************************************************)
EXTENDS ProcFiles, SequenceTheorems, FiniteSetTheorems, WellFoundedInduction, TLAPS

USE DEF NUL, NL, name, cmdline

----------------------------------------------------------------------------
(* Least and greatest elements.                                            *)

LEMMA LeastExists ==
    ASSUME NEW T \in SUBSET Nat, T # {} PROVE \E x \in T : \A y \in T : x <= y
  <1>1. PICK x \in T : \A y \in T : ~(<<y, x>> \in OpToRel(<, Nat))
    BY NatLessThanWellFounded, WFMin
  <1>2. ASSUME NEW y \in T PROVE ~(y < x)
    <2>1. <<y, x>> \in Nat \X Nat /\ <<y, x>>[1] = y /\ <<y, x>>[2] = x
      OBVIOUS
    <2>2. ~(<<y, x>> \in OpToRel(<, Nat))
      BY <1>1
    <2> QED
      BY <2>1, <2>2, Zenon DEF OpToRel
  <1> QED
    BY <1>2

LEMMA MinIs ==
    ASSUME NEW T \in SUBSET Int, NEW x \in T, \A y \in T : x <= y PROVE Min(T) = x
  <1>1. Min(T) \in T /\ \A y \in T : Min(T) <= y
    BY Zenon DEF Min
  <1> DEFINE z == Min(T)
  <1>2. z \in Int /\ z <= x /\ x <= z
    BY <1>1
  <1> HIDE DEF z
  <1>3. z = x
    BY <1>2
  <1> QED
    BY <1>3 DEF z

LEMMA MaxIs ==
    ASSUME NEW T \in SUBSET Int, NEW x \in T, \A y \in T : y <= x PROVE Max(T) = x
  <1>1. Max(T) \in T /\ \A y \in T : Max(T) >= y
    <2>1. \A y \in T : x >= y
      OBVIOUS
    <2> QED
      BY <2>1, Zenon DEF Max
  <1> DEFINE z == Max(T)
  <1>2. z \in Int /\ z <= x /\ x <= z
    BY <1>1
  <1> HIDE DEF z
  <1>3. z = x
    BY <1>2
  <1> QED
    BY <1>3 DEF z

----------------------------------------------------------------------------
(* C strings.                                                              *)

Buffer == [0 .. 2 * PATH_LEN - 1 -> 0 .. 255]

\* A byte set to NUL.
LEMMA Ended ==
    ASSUME NEW b \in Buffer, NEW p \in DOMAIN b
    PROVE  /\ [b EXCEPT ![p] = NUL] \in Buffer
           /\ \A i \in DOMAIN b : [b EXCEPT ![p] = NUL][i] = IF i = p THEN 0 ELSE b[i]
  <1> DEFINE D == 0 .. 2 * PATH_LEN - 1
             B == 0 .. 255
  <1>1. b \in [D -> B] /\ 0 \in B
    BY DEF Buffer
  <1> HIDE DEF D, B
  <1>2. [b EXCEPT ![p] = 0] \in [D -> B]
    BY <1>1
  <1> QED
    BY <1>1, <1>2 DEF Buffer, D, B

\* The string at out is the first k bytes of t.
Holds(b, out, t, k) ==
    /\ \A i \in 1 .. k : b[out + i - 1] = t[i]
    /\ b[out + k] = NUL

\* Bytes of UTF-8 without NUL.
Text(t) == t \in Seq(Nat) /\ \A i \in 1 .. Len(t) : t[i] \in Nat /\ 0 < t[i] /\ t[i] <= 247

LEMMA HeldString ==
    ASSUME NEW b \in Buffer, NEW out \in Nat, NEW t, Text(t), NEW k \in 0 .. Len(t),
           out + k < 2 * PATH_LEN, Holds(b, out, t, k)
    PROVE  strlen(b, out) = k /\ String(b, out) = SubSeq(t, 1, k)
  <1> DEFINE ends == {i \in DOMAIN b : i >= out /\ b[i] = NUL}
  <1>1. DOMAIN b = 0 .. 2 * PATH_LEN - 1 /\ PATH_LEN \in Nat
    BY ProcFilesAssumption DEF Buffer
  <1>2. out + k \in ends
    BY <1>1 DEF Holds
  <1>3. ASSUME NEW i \in ends PROVE out + k <= i
    <2> SUFFICES ASSUME i < out + k PROVE FALSE
      BY <1>1
    <2>1. i - out + 1 \in 1 .. k /\ i \in Nat /\ b[i] = 0
      BY <1>1
    <2>2. b[i] = t[i - out + 1]
      BY <2>1 DEF Holds
    <2>3. t[i - out + 1] # 0
      <3>1. Len(t) \in Nat /\ \A j \in 1 .. Len(t) : t[j] # 0
        BY DEF Text
      <3> QED
        BY <2>1, <3>1
    <2> QED
      BY <2>1, <2>2, <2>3
  <1>4. Min(ends) = out + k
    <2>1. ends \in SUBSET Int
      BY <1>1
    <2> HIDE DEF ends
    <2> QED
      BY <1>2, <1>3, <2>1, MinIs
  <1>5. strlen(b, out) = k
    BY <1>1, <1>2, <1>4 DEF strlen
  <1>6. String(b, out) = [i \in 1 .. k |-> b[out + i - 1]]
    BY <1>5 DEF String
  <1>7. SubSeq(t, 1, k) = [i \in 1 .. k |-> t[i]]
    BY DEF Text
  <1>8. [i \in 1 .. k |-> b[out + i - 1]] = [i \in 1 .. k |-> t[i]]
    BY DEF Holds
  <1> QED
    BY <1>5, <1>6, <1>7, <1>8

----------------------------------------------------------------------------
(* The repair of a cut character.                                          *)

\* A cut after k bytes is between two characters.
Between(t, k) == k = Len(t) \/ Lead(t[k + 1])

LEMMA WholeIs ==
    ASSUME NEW t, Text(t), NEW n \in Nat, NEW e \in 0 .. Least(n, Len(t)), Between(t, e),
           \A j \in e + 1 .. Least(n, Len(t)) : ~Between(t, j)
    PROVE  Whole(t, n) = SubSeq(t, 1, e)
  <1> DEFINE k == Least(n, Len(t))
             E == {j \in 0 .. k : j = Len(t) \/ Lead(t[j + 1])}
  <1>1. Len(t) \in Nat
    BY DEF Text
  <1>2. k \in Nat
    BY <1>1 DEF Least
  <1>3. e \in E /\ \A j \in E : ~(j \in e + 1 .. k)
    BY DEF Between
  <1>4. E \in SUBSET Int /\ \A j \in E : j \in 0 .. k
    OBVIOUS
  <1> HIDE DEF E, k
  <1>5. \A j \in E : j <= e
    BY <1>2, <1>3, <1>4
  <1>6. Max(E) = e
    BY <1>3, <1>4, <1>5, MaxIs
  <1> QED
    BY <1>6 DEF Whole, E, k

\* What the class of a byte says of its value.
LEMMA ByteClass ==
    ASSUME NEW x \in Nat
    PROVE  /\ ~Lead(x) <=> x \in 128 .. 191
           /\ Lead(x) /\ 1 < Width(x) => x >= 192
           /\ Lead(x) /\ 2 < Width(x) => x >= 224
           /\ Lead(x) /\ 3 < Width(x) => x >= 240
  BY DEF Lead, Width

\* What the last bytes of a text that is cut after k bytes look like, and where
\* its last whole character ends: the cases that fix_truncated_utf8() tells apart.
Cases(t, k, e) ==
    \/ e = k /\ k < 3
    \/ e = k /\ k >= 3 /\ t[k] < 128
    \/ e = k /\ k >= 3 /\ t[k] \in 128 .. 191 /\ t[k - 1] < 224 /\ t[k - 2] < 240
    \/ e = k - 1 /\ k >= 3 /\ t[k] >= 192
    \/ e = k - 2 /\ k >= 3 /\ t[k] \in 128 .. 191 /\ t[k - 1] >= 224
    \/ e = k - 3 /\ k >= 3 /\ t[k] \in 128 .. 191 /\ t[k - 1] < 224 /\ t[k - 2] >= 240

LEMMA LastCharacter ==
    ASSUME NEW t, Text(t), UTF8(t), NEW k \in 0 .. Len(t), k < 3 => Between(t, k)
    PROVE  \E e \in 0 .. k :
             /\ Between(t, e) /\ \A j \in e + 1 .. k : ~Between(t, j)
             /\ Cases(t, k, e)
  <1> USE DEF Cases
  <1> DEFINE n == Len(t)
  <1>1. n \in Nat /\ DOMAIN t = 1 .. n
    BY DEF Text
  <1>2. n \in Nat /\ k \in Nat /\ k <= n
    BY <1>1
  <1>3. \A i \in 1 .. n : t[i] \in Nat /\ t[i] <= 247
    BY DEF Text
  <1>4. \A j : Between(t, j) <=> (j = n \/ Lead(t[j + 1]))
    BY DEF Between
  <1>5. \A i \in 1 .. n :
          /\ \E q \in 0 .. 3 : /\ q < i /\ Lead(t[i - q]) /\ q < Width(t[i - q])
                              /\ \A j \in i - q + 1 .. i : ~Lead(t[j])
          /\ Lead(t[i]) => /\ i + Width(t[i]) - 1 <= n
                           /\ \A j \in i + 1 .. i + Width(t[i]) - 1 : ~Lead(t[j])
    BY <1>1, Zenon DEF UTF8
  <1> HIDE DEF n
  <1>6. ASSUME NEW i \in 1 .. n, Lead(t[i])
        PROVE  \A j \in i + 1 .. i + Width(t[i]) - 1 : j <= n /\ ~Lead(t[j])
    <2>1. /\ i + Width(t[i]) - 1 <= n
          /\ \A j \in i + 1 .. i + Width(t[i]) - 1 : ~Lead(t[j])
      BY <1>6, <1>5
    <2>2. Width(t[i]) \in Nat
      BY DEF Width
    <2> QED
      BY <1>2, <2>1, <2>2
  <1>7. CASE Between(t, k)
    <2>1. CASE k < 3
      BY <1>2, <1>7, <2>1
    <2>2. CASE k >= 3
      <3>1. ASSUME NEW i \in 1 .. k, Lead(t[i]), i + Width(t[i]) - 1 > k PROVE FALSE
        <4>1. Width(t[i]) \in Nat
          BY DEF Width
        <4>2. k + 1 \in i + 1 .. i + Width(t[i]) - 1 /\ i \in 1 .. n
          BY <1>2, <3>1, <4>1
        <4>3. k + 1 <= n /\ ~Lead(t[k + 1])
          BY <1>6, <3>1, <4>2
        <4>4. k # n
          BY <1>2, <4>3
        <4> QED
          BY ONLY <1>7, <4>3, <4>4, <1>4, Zenon
      <3>2. /\ k \in 1 .. k /\ k - 1 \in 1 .. k /\ k - 2 \in 1 .. k
            /\ t[k] \in Nat /\ t[k - 1] \in Nat /\ t[k - 2] \in Nat
        BY <1>2, <1>3, <2>2
      <3>3. t[k] < 192
        <4>1. SUFFICES ASSUME t[k] >= 192 PROVE FALSE
          BY <3>2
        <4>2. Lead(t[k]) /\ k + Width(t[k]) - 1 > k
          BY ONLY <1>2, <3>2, <4>1 DEF Lead, Width
        <4> QED
          BY <3>1, <3>2, <4>2
      <3>4. t[k - 1] < 224
        <4>1. SUFFICES ASSUME t[k - 1] >= 224 PROVE FALSE
          BY <3>2
        <4>2. Lead(t[k - 1]) /\ k - 1 + Width(t[k - 1]) - 1 > k
          BY ONLY <1>2, <3>2, <4>1 DEF Lead, Width
        <4> QED
          BY <3>1, <3>2, <4>2
      <3>5. t[k - 2] < 240
        <4>1. SUFFICES ASSUME t[k - 2] >= 240 PROVE FALSE
          BY <3>2
        <4>2. Lead(t[k - 2]) /\ k - 2 + Width(t[k - 2]) - 1 > k
          BY ONLY <1>2, <3>2, <4>1 DEF Lead, Width
        <4> QED
          BY <3>1, <3>2, <4>2
      <3>6. \A j \in k + 1 .. k : ~Between(t, j)
        BY <1>2
      <3>7. k \in 0 .. k /\ k >= 3
        BY <1>2, <2>2
      <3>8. t[k] < 128 \/ t[k] \in 128 .. 191
        <4> DEFINE x == t[k]
        <4>1. x \in Nat /\ x < 192
          BY <3>2, <3>3
        <4> HIDE DEF x
        <4>2. x < 128 \/ x \in 128 .. 191
          BY <4>1
        <4> QED
          BY ONLY <4>2 DEF x
      <3>9. CASE t[k] < 128
        BY ONLY <1>7, <3>6, <3>7, <3>9
      <3>10. CASE t[k] \in 128 .. 191
        BY ONLY <1>7, <3>4, <3>5, <3>6, <3>7, <3>10
      <3> QED
        BY <3>8, <3>9, <3>10
    <2> QED
      BY <1>2, <2>1, <2>2
  <1>8. CASE ~Between(t, k)
    <2>1. k >= 3 /\ k + 1 \in 1 .. n /\ ~Lead(t[k + 1])
      <3>1. k # n /\ ~Lead(t[k + 1])
        BY ONLY <1>8, <1>4, Zenon
      <3> QED
        BY <1>2, <1>8, <3>1
    <2>2. PICK q \in 0 .. 3 : /\ q < k + 1 /\ Lead(t[k + 1 - q]) /\ q < Width(t[k + 1 - q])
                             /\ \A j \in k + 1 - q + 1 .. k + 1 : ~Lead(t[j])
      BY <2>1, <1>5
    <2>3. q # 0
      BY <1>2, <2>1, <2>2
    <2> DEFINE e == k - q
    <2>4. e \in 0 .. k /\ Between(t, e)
      <3>1. e + 1 = k + 1 - q
        BY <1>2
      <3>2. Lead(t[e + 1])
        BY ONLY <2>2, <3>1
      <3>3. e \in 0 .. k
        BY <1>2, <2>2
      <3> QED
        BY ONLY <3>2, <3>3, <1>4, Zenon
    <2>5. ASSUME NEW j \in e + 1 .. k PROVE ~Between(t, j)
      <3>1. j + 1 \in k + 1 - q + 1 .. k + 1 /\ j # n
        BY <1>2, <2>1, <2>4
      <3>2. ~Lead(t[j + 1])
        BY ONLY <2>2, <3>1, Zenon
      <3> QED
        BY ONLY <3>1, <3>2, <1>4, Zenon
    <2>6. t[k] \in Nat /\ t[k - 1] \in Nat /\ t[k - 2] \in Nat
      BY <1>2, <1>3, <2>1
    <2>7. CASE q = 1
      <3>1. t[k] >= 192
        BY <1>2, <2>2, <2>6, <2>7 DEF Lead, Width
      <3> QED
        BY <1>2, <2>1, <2>4, <2>5, <2>7, <3>1
    <2>8. CASE q = 2
      <3>1. ~Lead(t[k]) /\ Lead(t[k - 1]) /\ 2 < Width(t[k - 1])
        BY <1>2, <2>2, <2>8
      <3>2. t[k] \in 128 .. 191 /\ t[k - 1] >= 224
        BY ONLY <2>6, <3>1, ByteClass
      <3> QED
        BY <1>2, <2>1, <2>4, <2>5, <2>8, <3>2
    <2>9. CASE q = 3
      <3>1. ~Lead(t[k]) /\ ~Lead(t[k - 1]) /\ Lead(t[k - 2]) /\ 3 < Width(t[k - 2])
        BY <1>2, <2>2, <2>9
      <3>2. t[k] \in 128 .. 191 /\ t[k - 1] \in 128 .. 191 /\ t[k - 2] >= 240
        BY ONLY <2>6, <3>1, ByteClass
      <3>3. t[k - 1] < 224
        <4> DEFINE x == t[k - 1]
        <4>1. x \in 128 .. 191
          BY <3>2
        <4> HIDE DEF x
        <4>2. x < 224
          BY <4>1
        <4> QED
          BY ONLY <4>2 DEF x
      <3> QED
        BY <1>2, <2>1, <2>4, <2>5, <2>9, <3>2, <3>3
    <2> QED
      BY <2>3, <2>7, <2>8, <2>9
  <1> QED
    BY <1>7, <1>8

\* fix_truncated_utf8() leaves the whole characters of a cut text, and touches
\* nothing but the string.
LEMMA Repaired ==
    ASSUME NEW b \in Buffer, NEW out \in Nat, NEW t, Text(t), UTF8(t), NEW n \in Nat,
           NEW k \in 0 .. Len(t), k = Least(n, Len(t)), k < 3 => Between(t, k),
           out + k < 2 * PATH_LEN, Holds(b, out, t, k)
    PROVE  /\ fix_truncated_utf8(b, out) \in Buffer
           /\ String(fix_truncated_utf8(b, out), out) = Whole(t, n)
           /\ \A i \in DOMAIN b : i < out \/ i >= out + k => fix_truncated_utf8(b, out)[i] = b[i]
  <1> DEFINE c == fix_truncated_utf8(b, out)
  <1>1. PICK e \in 0 .. k : /\ Between(t, e) /\ \A j \in e + 1 .. k : ~Between(t, j)
                            /\ Cases(t, k, e)
    BY LastCharacter, Zenon
  <1>2. /\ Len(t) \in Nat /\ k \in Nat /\ k <= Len(t) /\ PATH_LEN \in Nat
        /\ e \in Nat /\ e <= k /\ out \in Nat
    BY ProcFilesAssumption DEF Text
  <1>3. DOMAIN b = 0 .. 2 * PATH_LEN - 1 /\ strlen(b, out) = k
    BY HeldString DEF Buffer
  <1> DEFINE x == t[k]  y == t[k - 1]  z == t[k - 2]
  <1>4. ASSUME k >= 3
        PROVE  /\ b[out + k - 3 + 2] = x /\ b[out + k - 3 + 1] = y /\ b[out + k - 3] = z
               /\ x \in Nat /\ y \in Nat /\ z \in Nat /\ x <= 247
    <2>1. k \in 1 .. k /\ k - 1 \in 1 .. k /\ k - 2 \in 1 .. k
      BY <1>2, <1>4
    <2>2. /\ out + k - 3 + 2 = out + k - 1 /\ out + k - 3 + 1 = out + (k - 1) - 1
          /\ out + k - 3 = out + (k - 2) - 1
      BY ONLY <1>2
    <2>3. /\ b[out + k - 1] = t[k] /\ b[out + (k - 1) - 1] = t[k - 1]
          /\ b[out + (k - 2) - 1] = t[k - 2]
      BY <2>1, Zenon DEF Holds
    <2>4. k \in 1 .. Len(t) /\ k - 1 \in 1 .. Len(t) /\ k - 2 \in 1 .. Len(t)
      BY <1>2, <2>1
    <2>5. x \in Nat /\ y \in Nat /\ z \in Nat /\ x <= 247
      BY <2>4 DEF Text
    <2> QED
      BY <2>2, <2>3, <2>5
  <1>5. k >= 3 =>
          c = IF x < 128 THEN b
              ELSE IF (x \div 64) % 2 = 1 THEN [b EXCEPT ![out + (k - 1)] = NUL]
              ELSE IF y >= 224 THEN [b EXCEPT ![out + (k - 2)] = NUL]
              ELSE IF z >= 240 THEN [b EXCEPT ![out + (k - 3)] = NUL]
              ELSE b
    <2> SUFFICES ASSUME k >= 3
                 PROVE  c = IF x < 128 THEN b
                            ELSE IF (x \div 64) % 2 = 1 THEN [b EXCEPT ![out + (k - 1)] = NUL]
                            ELSE IF y >= 224 THEN [b EXCEPT ![out + (k - 2)] = NUL]
                            ELSE IF z >= 240 THEN [b EXCEPT ![out + (k - 3)] = NUL]
                            ELSE b
      OBVIOUS
    <2>1. /\ out + k - 3 + 2 = out + (k - 1) /\ out + k - 3 + 1 = out + (k - 2)
          /\ out + k - 3 = out + (k - 3) /\ ~(k < 3)
      BY ONLY <1>2, k >= 3
    <2>2. /\ b[out + k - 3 + 2] = x /\ b[out + k - 3 + 1] = y /\ b[out + k - 3] = z
      BY <1>4
    <2>3. c = IF x < 128 THEN b
              ELSE IF (x \div 64) % 2 = 1 THEN [b EXCEPT ![out + k - 3 + 2] = NUL]
              ELSE IF y >= 224 THEN [b EXCEPT ![out + k - 3 + 1] = NUL]
              ELSE IF z >= 240 THEN [b EXCEPT ![out + k - 3] = NUL]
              ELSE b
      <3> HIDE DEF x, y, z
      <3> QED
        BY ONLY <1>3, <2>1, <2>2, Zenon DEF fix_truncated_utf8, c
    <2> QED
      BY ONLY <2>1, <2>3
  <1>6. Cases(t, k, e)
          <=> \/ e = k /\ k < 3
              \/ e = k /\ k >= 3 /\ x < 128
              \/ e = k /\ k >= 3 /\ x \in 128 .. 191 /\ y < 224 /\ z < 240
              \/ e = k - 1 /\ k >= 3 /\ x >= 192
              \/ e = k - 2 /\ k >= 3 /\ x \in 128 .. 191 /\ y >= 224
              \/ e = k - 3 /\ k >= 3 /\ x \in 128 .. 191 /\ y < 224 /\ z >= 240
    BY DEF Cases
  <1>7. e = k => c = b
    <2> SUFFICES ASSUME e = k PROVE c = b
      OBVIOUS
    <2>1. CASE k < 3
      BY <1>3, <2>1 DEF fix_truncated_utf8
    <2>2. CASE k >= 3
      <3> HIDE DEF x, y, z, c
      <3>1. x < 128 \/ (x \in 128 .. 191 /\ y < 224 /\ z < 240)
        BY ONLY <1>1, <1>6, <1>2, <2>2, e = k
      <3>2. x \in Nat /\ y \in Nat /\ z \in Nat
        BY <1>4, <2>2
      <3>3. x \in 128 .. 191 => (x \div 64) % 2 = 0
        BY ONLY <3>2
      <3> QED
        BY <1>5, <2>2, <3>1, <3>2, <3>3
    <2> QED
      BY <1>2, <2>1, <2>2
  <1>8. e # k => c = [b EXCEPT ![out + e] = NUL]
    <2> SUFFICES ASSUME e # k PROVE c = [b EXCEPT ![out + e] = NUL]
      OBVIOUS
    <2> HIDE DEF x, y, z, c
    <2>1. /\ k >= 3
          /\ \/ e = k - 1 /\ x >= 192
             \/ e = k - 2 /\ x \in 128 .. 191 /\ y >= 224
             \/ e = k - 3 /\ x \in 128 .. 191 /\ y < 224 /\ z >= 240
      BY ONLY <1>1, <1>6, <1>2, e # k
    <2>2. x \in Nat /\ y \in Nat /\ z \in Nat /\ x <= 247
      BY <1>4, <2>1
    <2>3. /\ x \in 128 .. 191 => (x \div 64) % 2 = 0
          /\ x >= 192 => (x \div 64) % 2 = 1
      BY ONLY <2>2
    <2>4. CASE e = k - 1 /\ x >= 192
      BY ONLY <1>5, <2>1, <2>2, <2>3, <2>4
    <2>5. CASE e = k - 2 /\ x \in 128 .. 191 /\ y >= 224
      BY ONLY <1>5, <2>1, <2>2, <2>3, <2>5
    <2>6. CASE e = k - 3 /\ x \in 128 .. 191 /\ y < 224 /\ z >= 240
      BY ONLY <1>5, <2>1, <2>2, <2>3, <2>6
    <2> QED
      BY <2>1, <2>4, <2>5, <2>6
  <1> HIDE DEF c
  <1>9. c \in Buffer /\ Holds(c, out, t, e)
        /\ \A i \in DOMAIN b : i < out \/ i >= out + k => c[i] = b[i]
    <2>1. CASE e = k
      BY <1>7, <2>1
    <2>2. CASE e # k
      <3>1. out + e \in 0 .. 2 * PATH_LEN - 1
        BY <1>2
      <3>2. c \in Buffer /\ \A i \in DOMAIN b : c[i] = IF i = out + e THEN 0 ELSE b[i]
        <4>1. c = [b EXCEPT ![out + e] = NUL] /\ out + e \in DOMAIN b
          BY <1>3, <1>8, <2>2, <3>1
        <4>2. /\ [b EXCEPT ![out + e] = NUL] \in Buffer
              /\ \A i \in DOMAIN b :
                    [b EXCEPT ![out + e] = NUL][i] = IF i = out + e THEN 0 ELSE b[i]
          BY <4>1, Ended, Zenon
        <4> QED
          BY ONLY <4>1, <4>2, Zenon
      <3>3. c[out + e] = 0
        BY <1>3, <3>1, <3>2
      <3>4. ASSUME NEW i \in 1 .. e PROVE c[out + i - 1] = t[i]
        <4>1. out + i - 1 \in DOMAIN b /\ out + i - 1 # out + e /\ i \in 1 .. k
          BY <1>2, <1>3
        <4>2. b[out + i - 1] = t[i]
          BY <4>1 DEF Holds
        <4> QED
          BY <3>2, <4>1, <4>2
      <3>5. \A i \in DOMAIN b : i < out \/ i >= out + k => i # out + e
        BY <1>2, <1>3, <2>2
      <3> QED
        BY <3>2, <3>3, <3>4, <3>5 DEF Holds
    <2> QED
      BY <2>1, <2>2
  <1>10. String(c, out) = SubSeq(t, 1, e)
    <2>1. e \in 0 .. Len(t) /\ out + e < 2 * PATH_LEN
      BY <1>2
    <2> QED
      BY <1>9, <2>1, HeldString
  <1>11. Whole(t, n) = SubSeq(t, 1, e)
    BY <1>1, WholeIs
  <1> QED
    BY <1>9, <1>10, <1>11 DEF c

\* A string depends on the bytes up to a NUL only.
LEMMA StringLocal ==
    ASSUME NEW b \in Buffer, NEW c \in Buffer, NEW out \in Nat, NEW lim \in Nat,
           out <= lim, lim < 2 * PATH_LEN, b[lim] = NUL,
           \A i \in out .. lim : c[i] = b[i]
    PROVE  String(c, out) = String(b, out) /\ strlen(c, out) = strlen(b, out)
  <1> DEFINE ends(d) == {i \in DOMAIN d : i >= out /\ d[i] = NUL}
  <1>1. /\ PATH_LEN \in Nat
        /\ DOMAIN b = 0 .. 2 * PATH_LEN - 1 /\ DOMAIN c = 0 .. 2 * PATH_LEN - 1
    BY ProcFilesAssumption DEF Buffer
  <1>2. lim \in ends(b) /\ ends(b) \in SUBSET Nat /\ ends(c) \in SUBSET Nat
    BY <1>1
  <1>3. PICK x \in ends(b) : \A y \in ends(b) : x <= y
    <2> HIDE DEF ends
    <2> QED
      BY <1>2, LeastExists
  <1>4. x <= lim /\ x \in Nat /\ out <= x
    BY <1>1, <1>2, <1>3
  <1>5. x \in ends(c) /\ \A y \in ends(c) : x <= y
    <2>1. x \in ends(c)
      BY <1>1, <1>3, <1>4
    <2>2. ASSUME NEW y \in ends(c), y < x PROVE FALSE
      <3>1. y \in out .. lim /\ y \in DOMAIN b
        BY <1>1, <1>4, <2>2
      <3>2. y \in ends(b)
        BY <3>1
      <3> QED
        BY <1>3, <1>4, <2>2, <3>1, <3>2
    <2> QED
      BY <1>2, <1>4, <2>1, <2>2
  <1>6. Min(ends(b)) = x /\ Min(ends(c)) = x
    <2>1. ends(b) \in SUBSET Int /\ ends(c) \in SUBSET Int
      BY <1>2
    <2> HIDE DEF ends
    <2> QED
      BY <1>3, <1>5, <2>1, MinIs
  <1>7. strlen(b, out) = x - out /\ strlen(c, out) = x - out
    BY <1>3, <1>5, <1>6 DEF strlen
  <1>8. [i \in 1 .. x - out |-> b[out + i - 1]] = [i \in 1 .. x - out |-> c[out + i - 1]]
    BY <1>4
  <1> QED
    BY <1>7, <1>8 DEF String

\* get_cmdline() joins the arguments: a NUL and a space are both characters of
\* one byte.
LEMMA Joined ==
    ASSUME NEW s \in Seq(0 .. 247), UTF8(s)
    PROVE  LET t == ReplaceAll(s, NUL, SP)
           IN Text(t) /\ UTF8(t) /\ Len(t) = Len(s)
  <1> DEFINE t == ReplaceAll(s, NUL, SP)
             n == Len(s)
  <1>1. n \in Nat /\ t = [i \in 1 .. n |-> IF s[i] = NUL THEN SP ELSE s[i]]
        /\ DOMAIN s = 1 .. n
    BY DEF ReplaceAll
  <1>2. ASSUME NEW i \in 1 .. n PROVE s[i] \in Nat /\ s[i] <= 247
    <2> DEFINE x == s[i]
    <2>1. x \in 0 .. 247
      BY ElementOfSeq DEF n
    <2> HIDE DEF x
    <2>2. x \in Nat /\ x <= 247
      BY <2>1
    <2> QED
      BY <2>2 DEF x
  <1> HIDE DEF t, n
  <1>3. \A i \in 1 .. n : t[i] = IF s[i] = 0 THEN 32 ELSE s[i]
    BY <1>1 DEF SP
  <1>4. \A i \in 1 .. n : t[i] \in Nat /\ 0 < t[i] /\ t[i] <= 247
    BY <1>2, <1>3
  <1>5. t \in Seq(Nat) /\ Len(t) = n /\ DOMAIN t = 1 .. n
    BY <1>1, <1>4
  <1>6. \A i \in 1 .. n : Lead(t[i]) = Lead(s[i]) /\ Width(t[i]) = Width(s[i])
    BY <1>2, <1>3 DEF Lead, Width
  <1>7. UTF8(t)
    <2> SUFFICES ASSUME NEW i \in 1 .. n
                 PROVE  /\ \E k \in 0 .. 3 : /\ k < i /\ Lead(t[i - k]) /\ k < Width(t[i - k])
                                             /\ \A j \in i - k + 1 .. i : ~Lead(t[j])
                        /\ Lead(t[i]) => /\ i + Width(t[i]) - 1 <= n
                                         /\ \A j \in i + 1 .. i + Width(t[i]) - 1 : ~Lead(t[j])
      BY <1>5, Zenon DEF UTF8
    <2>1. /\ \E k \in 0 .. 3 : /\ k < i /\ Lead(s[i - k]) /\ k < Width(s[i - k])
                               /\ \A j \in i - k + 1 .. i : ~Lead(s[j])
          /\ Lead(s[i]) => /\ i + Width(s[i]) - 1 <= n
                           /\ \A j \in i + 1 .. i + Width(s[i]) - 1 : ~Lead(s[j])
      BY <1>1, Zenon DEF UTF8, n
    <2>2. PICK k \in 0 .. 3 : /\ k < i /\ Lead(s[i - k]) /\ k < Width(s[i - k])
                              /\ \A j \in i - k + 1 .. i : ~Lead(s[j])
      BY <2>1
    <2>3. i - k \in 1 .. n /\ \A j \in i - k + 1 .. i : j \in 1 .. n
      BY <1>1, <2>2
    <2>4. /\ k < i /\ Lead(t[i - k]) /\ k < Width(t[i - k])
          /\ \A j \in i - k + 1 .. i : ~Lead(t[j])
      BY <1>6, <2>2, <2>3
    <2>5. ASSUME Lead(t[i])
          PROVE  /\ i + Width(t[i]) - 1 <= n
                 /\ \A j \in i + 1 .. i + Width(t[i]) - 1 : ~Lead(t[j])
      <3>1. Lead(s[i]) /\ Width(t[i]) = Width(s[i]) /\ Width(s[i]) \in Nat
        BY <1>6, <2>5 DEF Width
      <3>2. /\ i + Width(s[i]) - 1 <= n
            /\ \A j \in i + 1 .. i + Width(s[i]) - 1 : ~Lead(s[j])
        BY <2>1, <3>1
      <3>3. \A j \in i + 1 .. i + Width(s[i]) - 1 : j \in 1 .. n
        BY <1>1, <3>1, <3>2
      <3> QED
        BY <1>6, <3>1, <3>2, <3>3
    <2> QED
      BY <2>4, <2>5
  <1> QED
    BY <1>4, <1>5, <1>7 DEF Text, t, n

----------------------------------------------------------------------------
(* get_comm() and get_cmdline().                                           *)

\* A file that starts with the first n - 1 bytes of t is read into the buffer:
\* out[n - 1] = 0 ends them, and the repair leaves whole characters.
LEMMA Stored ==
    ASSUME NEW b \in Buffer, NEW out \in Nat, NEW t, Text(t), UTF8(t), NEW w \in Nat,
           NEW file, Len(file) \in Nat, \A i \in 1 .. Len(file) : file[i] \in 0 .. 255,
           NEW n \in Nat, n = Least(PATH_LEN - 1, Len(file)), n >= 1, out + n < 2 * PATH_LEN,
           NEW k \in 0 .. Len(t), k = n - 1, k = Least(w, Len(t)), k < 3 => Between(t, k),
           \A i \in 1 .. k : file[i] = t[i]
    PROVE  LET c == Strip(fread(b, out, PATH_LEN - 1, file), out, n)
           IN /\ c \in Buffer /\ String(c, out) = Whole(t, w)
              /\ \A i \in DOMAIN b : i < out \/ i >= out + n => c[i] = b[i]
  <1> DEFINE f == fread(b, out, PATH_LEN - 1, file)
             d == [f EXCEPT ![out + n - 1] = NUL]
             D == 0 .. 2 * PATH_LEN - 1
             B == 0 .. 255
             L == Len(file)
  <1>1. /\ PATH_LEN \in Nat /\ DOMAIN b = D /\ b \in [D -> B]
        /\ D = 0 .. 2 * PATH_LEN - 1 /\ D \subseteq Nat /\ n <= L
        /\ n \in Nat /\ L \in Nat /\ k \in Nat /\ out \in Nat
    <2>1. PATH_LEN \in Nat /\ n \in Nat /\ L \in Nat /\ n = Least(PATH_LEN - 1, L)
      BY ProcFilesAssumption
    <2>2. n <= L
      <3> HIDE DEF L
      <3> QED
        BY ONLY <2>1 DEF Least
    <2>3. k \in Nat /\ D \subseteq Nat
      BY <2>1
    <2> QED
      BY <2>1, <2>2, <2>3 DEF Buffer
  <1>2. f = [i \in D |-> IF i - out + 1 \in 1 .. n THEN file[i - out + 1] ELSE b[i]]
    BY <1>1 DEF fread
  <1>3. \A i \in 1 .. L : file[i] \in B
    OBVIOUS
  <1> HIDE DEF f, D, B, L
  <1>4. f \in [D -> B]
    <2>1. ASSUME NEW i \in D, i - out + 1 \in 1 .. n PROVE file[i - out + 1] \in B
      <3>1. i - out + 1 \in 1 .. L
        BY ONLY <1>1, <2>1
      <3> QED
        BY ONLY <1>3, <3>1
    <2> QED
      BY <1>1, <1>2, <2>1
  <1>5. f \in Buffer /\ DOMAIN f = D /\ out + n - 1 \in D
    <2>1. out + n - 1 \in D
      BY <1>1
    <2> QED
      BY <1>4, <2>1 DEF Buffer, D, B
  <1>6. d \in Buffer /\ \A i \in D : d[i] = IF i = out + n - 1 THEN 0 ELSE f[i]
    BY <1>5, Ended, Zenon
  <1> HIDE DEF d
  <1>7. Holds(d, out, t, k)
    <2>1. d[out + k] = 0
      <3>1. out + k = out + n - 1
        BY ONLY <1>1, k = n - 1
      <3> QED
        BY <1>5, <1>6, <3>1
    <2>2. ASSUME NEW i \in 1 .. k PROVE d[out + i - 1] = t[i]
      <3>1. /\ out + i - 1 \in D /\ out + i - 1 # out + n - 1
            /\ (out + i - 1) - out + 1 = i /\ i \in 1 .. n
        BY <1>1
      <3>2. d[out + i - 1] = f[out + i - 1]
        BY <1>6, <3>1
      <3>3. f[out + i - 1] = file[i]
        BY ONLY <1>2, <3>1
      <3> QED
        BY <3>2, <3>3
    <2> QED
      BY <2>1, <2>2 DEF Holds
  <1>8. \A i \in D : i < out \/ i >= out + n => d[i] = b[i]
    <2> SUFFICES ASSUME NEW i \in D, i < out \/ i >= out + n PROVE d[i] = b[i]
      OBVIOUS
    <2>1. i # out + n - 1 /\ ~(i - out + 1 \in 1 .. n)
      <3>1. i \in Nat
        BY <1>1
      <3> QED
        BY ONLY <1>1, <3>1, n >= 1, i < out \/ i >= out + n
    <2>2. f[i] = b[i]
      BY <1>2, <2>1
    <2> QED
      BY <1>6, <2>1, <2>2
  <1> DEFINE c == fix_truncated_utf8(d, out)
  <1>9. /\ c \in Buffer /\ String(c, out) = Whole(t, w)
        /\ \A i \in DOMAIN d : i < out \/ i >= out + k => c[i] = d[i]
    <2>1. out + k < 2 * PATH_LEN
      BY <1>1
    <2> QED
      BY <1>6, <1>7, <2>1, Repaired
  <1>10. DOMAIN d = D
    BY <1>6 DEF Buffer, D
  <1> HIDE DEF c
  <1>11. \A i \in D : i < out \/ i >= out + n => c[i] = b[i]
    <2> SUFFICES ASSUME NEW i \in D, i < out \/ i >= out + n PROVE c[i] = b[i]
      OBVIOUS
    <2>1. i < out \/ i >= out + k
      BY <1>1
    <2> QED
      BY <1>8, <1>9, <1>10, <2>1
  <1>12. c = Strip(f, out, n)
    BY DEF c, d, Strip
  <1> QED
    BY <1>1, <1>9, <1>11, <1>12 DEF f

\* Both buffers end with a NUL, which nothing overwrites.
Ready(b) == b \in Buffer /\ b[PATH_LEN - 1] = NUL /\ b[2 * PATH_LEN - 1] = NUL

LEMMA Bytes ==
    ASSUME NEW s \in Seq(1 .. 247) PROVE Text(s)
  <1>1. Len(s) \in Nat /\ s = [i \in 1 .. Len(s) |-> s[i]]
    OBVIOUS
  <1>2. ASSUME NEW i \in 1 .. Len(s) PROVE s[i] \in Nat /\ 0 < s[i] /\ s[i] <= 247
    <2> DEFINE x == s[i]
    <2>1. x \in 1 .. 247
      BY ElementOfSeq
    <2> HIDE DEF x
    <2>2. x \in Nat /\ 0 < x /\ x <= 247
      BY <2>1
    <2> QED
      BY <2>2 DEF x
  <1>3. s \in Seq(Nat)
    <2> DEFINE n == Len(s)
    <2>1. n \in Nat /\ s = [i \in 1 .. n |-> s[i]] /\ \A i \in 1 .. n : s[i] \in Nat
      BY <1>1, <1>2
    <2> HIDE DEF n
    <2> QED
      BY ONLY <2>1
  <1> QED
    BY <1>1, <1>2, <1>3 DEF Text

\* get_comm(): the name is the process's own, and the command line stays.
LEMMA CommRead ==
    ASSUME NEW p, p.title \in Seq(1 .. 247), UTF8(p.title), p.st # "gone",
           NEW b, Ready(b)
    PROVE  LET c == get_comm(b, CommFile(p))
           IN /\ Ready(c) /\ String(c, name) = Whole(p.title, CommLen)
              /\ String(c, cmdline) = String(b, cmdline) /\ strlen(c, cmdline) = strlen(b, cmdline)
  <1> DEFINE t == p.title
             k == Least(CommLen, Len(t))
             file == Append(Cut(t), NL)
             n == k + 1
             c == get_comm(b, CommFile(p))
  <1>1. /\ CommLen \in Nat /\ CommLen >= 3 /\ PATH_LEN \in Nat /\ PATH_LEN > CommLen + 1
        /\ Len(t) \in Nat /\ k \in Nat /\ k <= CommLen /\ k <= Len(t)
        /\ (k < 3 => k = Len(t))
    BY ProcFilesAssumption DEF Least
  <1>2. Text(t) /\ UTF8(t)
    BY Bytes
  <1>3. /\ Cut(t) = [i \in 1 .. k |-> t[i]] /\ Cut(t) \in Seq(Nat) /\ Len(Cut(t)) = k
        /\ \A i \in 1 .. k : t[i] \in Nat /\ 0 < t[i] /\ t[i] <= 247
    <2>1. \A i \in 1 .. k : t[i] \in Nat /\ 0 < t[i] /\ t[i] <= 247
      BY <1>1, <1>2 DEF Text
    <2>2. Cut(t) = SubSeq(t, 1, k)
      BY DEF Cut
    <2> HIDE DEF k
    <2>3. SubSeq(t, 1, k) = [i \in 1 .. k |-> t[i]]
      BY <1>1
    <2>4. [i \in 1 .. k |-> t[i]] \in Seq(Nat) /\ Len([i \in 1 .. k |-> t[i]]) = k
      BY <1>1, <2>1
    <2> QED
      BY <2>1, <2>2, <2>3, <2>4
  <1> HIDE DEF k
  <1>4. /\ Len(file) = n /\ file[n] = 10
        /\ \A i \in 1 .. k : file[i] = t[i]
    BY <1>1, <1>3
  <1>5. \A i \in 1 .. n : file[i] \in 0 .. 255
    <2> SUFFICES ASSUME NEW i \in 1 .. n PROVE file[i] \in 0 .. 255
      OBVIOUS
    <2>1. CASE i = n
      BY <1>4, <2>1
    <2>2. CASE i # n
      <3> DEFINE x == t[i]
      <3>1. i \in 1 .. k
        BY <1>1, <2>2
      <3>2. x \in Nat /\ 0 < x /\ x <= 247 /\ file[i] = x
        BY <1>3, <1>4, <3>1
      <3> HIDE DEF x, file
      <3> QED
        BY <3>2
    <2> QED
      BY <2>1, <2>2
  <1>6. file # NoFile
    <2> SUFFICES ASSUME file = <<-1>> PROVE FALSE
      BY DEF NoFile
    <2> HIDE DEF file
    <2>1. n = 1 /\ file[1] = -1
      BY <1>4
    <2> QED
      BY <1>4, <2>1
  <1> HIDE DEF file
  <1>7. n \in Nat /\ n = Least(PATH_LEN - 1, n) /\ n >= 1 /\ name + n < 2 * PATH_LEN
        /\ n < PATH_LEN
    BY <1>1 DEF Least
  <1>8. c = Strip(fread(b, name, PATH_LEN - 1, file), name, n)
    <2>1. CommFile(p) = file
      BY DEF CommFile, file
    <2>2. Least(PATH_LEN - 1, Len(file)) = n
      BY <1>4, <1>7
    <2> QED
      BY <1>6, <1>7, <2>1, <2>2 DEF get_comm
  <1>9. /\ c \in Buffer /\ String(c, name) = Whole(t, CommLen)
        /\ \A i \in DOMAIN b : i < name \/ i >= name + n => c[i] = b[i]
    <2>1. b \in Buffer /\ name \in Nat
      BY DEF Ready
    <2>2. k \in 0 .. Len(t) /\ k = n - 1 /\ k = Least(CommLen, Len(t))
      BY <1>1 DEF k
    <2>3. k < 3 => Between(t, k)
      BY <1>1 DEF Between
    <2>4. /\ Len(file) \in Nat /\ n = Least(PATH_LEN - 1, Len(file))
          /\ \A i \in 1 .. Len(file) : file[i] \in 0 .. 255
      BY <1>4, <1>5, <1>7
    <2>5. /\ CommLen \in Nat /\ n \in Nat /\ n >= 1 /\ name + n < 2 * PATH_LEN
          /\ \A i \in 1 .. k : file[i] = t[i]
      BY <1>1, <1>4, <1>7
    <2> HIDE DEF c, n, t, name
    <2>6. /\ Strip(fread(b, name, PATH_LEN - 1, file), name, n) \in Buffer
          /\ String(Strip(fread(b, name, PATH_LEN - 1, file), name, n), name) = Whole(t, CommLen)
          /\ \A i \in DOMAIN b : i < name \/ i >= name + n
                => Strip(fread(b, name, PATH_LEN - 1, file), name, n)[i] = b[i]
      BY ONLY <1>2, <2>1, <2>2, <2>3, <2>4, <2>5, Stored
    <2> QED
      BY <1>8, <2>6
  <1> HIDE DEF c, n
  <1>10. /\ DOMAIN b = 0 .. 2 * PATH_LEN - 1
         /\ \A i \in PATH_LEN - 1 .. 2 * PATH_LEN - 1 : c[i] = b[i]
    <2>1. DOMAIN b = 0 .. 2 * PATH_LEN - 1
      BY DEF Ready, Buffer
    <2>2. \A i \in PATH_LEN - 1 .. 2 * PATH_LEN - 1 : i \in 0 .. 2 * PATH_LEN - 1 /\ i >= 0 + n
      BY <1>1, <1>7
    <2> QED
      BY <1>9, <2>1, <2>2
  <1>11. Ready(c)
    BY <1>1, <1>9, <1>10 DEF Ready
  <1>12. String(c, cmdline) = String(b, cmdline) /\ strlen(c, cmdline) = strlen(b, cmdline)
    <2>1. /\ PATH_LEN \in Nat /\ 2 * PATH_LEN - 1 \in Nat /\ PATH_LEN <= 2 * PATH_LEN - 1
          /\ 2 * PATH_LEN - 1 < 2 * PATH_LEN /\ b[2 * PATH_LEN - 1] = NUL /\ b \in Buffer
          /\ \A i \in PATH_LEN .. 2 * PATH_LEN - 1 : c[i] = b[i]
      BY <1>1, <1>10 DEF Ready
    <2> QED
      BY <1>9, <2>1, StringLocal
  <1> QED
    BY <1>9, <1>11, <1>12 DEF c

\* The line that get_cmdline() is to leave.
LineOf(p) ==
    LET text == ReplaceAll(p.cmdline, NUL, SP)
    IN IF text = <<>> THEN <<>> ELSE Whole(text, Least(PATH_LEN - 2, Len(text) - 1))

\* get_cmdline() of an empty file: the byte before the buffer is a NUL already.
LEMMA EmptyCmdline ==
    ASSUME NEW b, Ready(b), strlen(b, cmdline) = 0
    PROVE  get_cmdline(b, <<>>) = b
  <1> DEFINE D == 0 .. 2 * PATH_LEN - 1
             f == fread(b, cmdline, PATH_LEN - 1, <<>>)
  <1>1. /\ PATH_LEN \in Nat /\ PATH_LEN > 3 /\ b \in [D -> 0 .. 255]
        /\ b[PATH_LEN - 1] = 0 /\ PATH_LEN - 1 \in D
    BY ProcFilesAssumption DEF Ready, Buffer
  <1>2. ReplaceAll(<<>>, NUL, SP) = <<>>
    BY DEF ReplaceAll
  <1>3. Least(PATH_LEN - 1, Len(<<>>)) = 0
    BY <1>1 DEF Least
  <1>4. f = b
    <2>1. f = [i \in D |-> IF i - PATH_LEN + 1 \in 1 .. 0 THEN <<>>[i - PATH_LEN + 1] ELSE b[i]]
      BY <1>1, <1>3 DEF fread
    <2>2. \A i \in D : ~(i - PATH_LEN + 1 \in 1 .. 0)
      BY <1>1
    <2> HIDE DEF f, D
    <2> QED
      BY <1>1, <2>1, <2>2
  <1>5. [b EXCEPT ![cmdline + 0 - 1] = NUL] = b
    <2>1. cmdline + 0 - 1 = PATH_LEN - 1
      BY <1>1
    <2>2. [b EXCEPT ![PATH_LEN - 1] = 0] = b
      <3> HIDE DEF D
      <3> QED
        BY <1>1
    <2> QED
      BY <2>1, <2>2
  <1>6. Strip(f, cmdline, 0) = b
    <2>1. fix_truncated_utf8(b, cmdline) = b
      BY DEF fix_truncated_utf8
    <2> QED
      BY <1>4, <1>5, <2>1 DEF Strip
  <1>7. <<>> # NoFile
    BY DEF NoFile
  <1> QED
    BY <1>2, <1>3, <1>6, <1>7 DEF get_cmdline

\* get_cmdline(): the arguments, joined and cut, and the name stays.
LEMMA CmdlineRead ==
    ASSUME NEW p, p.cmdline \in Seq(0 .. 247), UTF8(p.cmdline), p.st = "run",
           p.cmdline # <<>> => Last(p.cmdline) = NUL, NEW b, Ready(b), strlen(b, cmdline) = 0
    PROVE  LET c == get_cmdline(b, CmdlineFile(p))
           IN /\ Ready(c) /\ String(c, cmdline) = LineOf(p)
              /\ String(c, name) = String(b, name)
  <1> DEFINE s == p.cmdline
             t == ReplaceAll(s, NUL, SP)
             L == Len(t)
             w == Least(PATH_LEN - 2, L - 1)
             n == w + 1
             c == get_cmdline(b, CmdlineFile(p))
  <1>1. /\ PATH_LEN \in Nat /\ PATH_LEN > 4 /\ b \in Buffer
        /\ DOMAIN b = 0 .. 2 * PATH_LEN - 1
    BY ProcFilesAssumption DEF Ready, Buffer
  <1>2. Text(t) /\ UTF8(t) /\ L = Len(s) /\ L \in Nat
    BY Joined DEF Text
  <1>3. CmdlineFile(p) = s
    BY DEF CmdlineFile
  <1>4. CASE s = <<>>
    <2>1. t = <<>>
      BY <1>4 DEF ReplaceAll
    <2>2. c = b
      BY <1>3, <1>4, EmptyCmdline
    <2>3. String(b, cmdline) = <<>>
      BY DEF String
    <2>4. LineOf(p) = <<>>
      BY <2>1 DEF LineOf
    <2> QED
      BY <2>2, <2>3, <2>4
  <1>5. CASE s # <<>>
    <2>1. L >= 1 /\ t # <<>>
      <3>1. Len(s) # 0
        BY <1>5
      <3>2. L >= 1
        <4> HIDE DEF L
        <4> QED
          BY <1>2, <3>1
      <3> QED
        BY <3>2
    <2>2. t[L] = 32
      <3>1. s[Len(s)] = 0 /\ Len(s) \in 1 .. Len(s)
        BY <1>2, <1>5, <2>1 DEF Last
      <3> QED
        BY <1>2, <3>1 DEF ReplaceAll, SP
    <2>3. s # NoFile
      <3> SUFFICES ASSUME s = <<-1>> PROVE FALSE
        BY DEF NoFile
      <3>1. s[Len(s)] = -1
        OBVIOUS
      <3> QED
        BY <1>5, <3>1 DEF Last
    <2> DEFINE F == fread(b, cmdline, PATH_LEN - 1, t)
    <2>4. /\ \A i \in 1 .. L : t[i] \in 0 .. 255
      <3> SUFFICES ASSUME NEW i \in 1 .. L PROVE t[i] \in 0 .. 255
        OBVIOUS
      <3> DEFINE x == t[i]
      <3>1. x \in Nat /\ x <= 247
        BY <1>2 DEF Text
      <3> HIDE DEF x
      <3>2. x \in 0 .. 255
        BY <3>1
      <3> QED
        BY <3>2 DEF x
    <2> HIDE DEF L, t
    <2>5. /\ w \in Nat /\ n \in Nat /\ n >= 1 /\ n = Least(PATH_LEN - 1, L) /\ w = n - 1
          /\ w \in 0 .. L /\ w = Least(w, L) /\ cmdline + n < 2 * PATH_LEN
          /\ (w < 3 => w + 1 = L) /\ n <= PATH_LEN - 1
      BY <1>1, <1>2, <2>1 DEF Least
    <2>6. w < 3 => Between(t, w)
      <3> SUFFICES ASSUME w < 3 PROVE Lead(t[w + 1])
        BY DEF Between
      <3>1. t[w + 1] = 32
        BY <2>2, <2>5
      <3>2. Lead(32)
        BY DEF Lead
      <3> QED
        BY ONLY <3>1, <3>2
    <2>7. c = Strip(F, cmdline, n)
      <3>1. Least(PATH_LEN - 1, Len(s)) = n
        BY <1>2, <2>5
      <3> QED
        BY <1>3, <2>3, <3>1 DEF get_cmdline, t
    <2>8. L = Len(t) /\ PATH_LEN \in Nat
      BY <1>1 DEF L
    <2> HIDE DEF c, n, w
    <2>9. /\ Strip(F, cmdline, n) \in Buffer
          /\ String(Strip(F, cmdline, n), cmdline) = Whole(t, w)
          /\ \A i \in DOMAIN b :
                i < cmdline \/ i >= cmdline + n => Strip(F, cmdline, n)[i] = b[i]
      BY ONLY <1>1, <1>2, <2>4, <2>5, <2>6, <2>8, Stored
    <2>10. /\ c \in Buffer /\ String(c, cmdline) = Whole(t, w)
           /\ \A i \in DOMAIN b : i < PATH_LEN \/ i >= PATH_LEN + n => c[i] = b[i]
      BY <2>7, <2>9
    <2>11. Ready(c)
      <3>1. PATH_LEN - 1 \in DOMAIN b /\ 2 * PATH_LEN - 1 \in DOMAIN b
        BY <1>1
      <3>2. PATH_LEN - 1 < PATH_LEN /\ 2 * PATH_LEN - 1 >= PATH_LEN + n
        BY <1>1, <2>5
      <3> QED
        BY <2>10, <3>1, <3>2 DEF Ready
    <2>12. String(c, name) = String(b, name)
      <3>1. /\ 0 \in Nat /\ PATH_LEN - 1 \in Nat /\ 0 <= PATH_LEN - 1
            /\ PATH_LEN - 1 < 2 * PATH_LEN /\ b[PATH_LEN - 1] = NUL
            /\ \A i \in 0 .. PATH_LEN - 1 : i \in DOMAIN b /\ i < PATH_LEN
        BY <1>1 DEF Ready
      <3>2. \A i \in 0 .. PATH_LEN - 1 : c[i] = b[i]
        BY <2>10, <3>1
      <3> QED
        BY <1>1, <2>10, <3>1, <3>2, StringLocal
    <2>13. LineOf(p) = Whole(t, w)
      BY <2>1 DEF LineOf, t, w, L
    <2> QED
      BY <2>10, <2>11, <2>12, <2>13 DEF c
  <1> QED
    BY <1>4, <1>5

----------------------------------------------------------------------------
(* parse_proc_pid_stat_buf().                                              *)

\* Every other position after a is a word: the j-th is at a + 2j.
LEMMA EveryOther ==
    ASSUME NEW a \in Nat, NEW j \in Nat
    PROVE  Cardinality({a + 2 * q : q \in 1 .. j}) = j
  <1> DEFINE W == {a + 2 * q : q \in 1 .. j}
             f == [q \in 1 .. j |-> a + 2 * q]
  <1>1. f \in [1 .. j -> W]
    OBVIOUS
  <1>2. \A q, r \in 1 .. j : f[q] = f[r] => q = r
    OBVIOUS
  <1>3. \A w \in W : \E q \in 1 .. j : f[q] = w
    OBVIOUS
  <1> HIDE DEF f, W
  <1>4. f \in Bijection(1 .. j, W)
    BY <1>1, <1>2, <1>3, Zenon DEF Bijection, Injection, Surjection, IsInjective
  <1>5. ExistsBijection(1 .. j, W)
    BY <1>4, Zenon DEF ExistsBijection
  <1>6. Cardinality(W) = j
    BY <1>5, FS_CountingElements
  <1> QED
    BY <1>6 DEF W

\* Where the bytes of four texts are in t, one after the other.
Parts(t, Z, U, h, k, g, u) ==
    /\ t \in Seq(Nat) /\ Len(t) = h + k + g + u
    /\ \A i \in 1 .. g : t[h + k + i] = Z[i]
    /\ \A i \in 1 .. u : t[h + k + g + i] = U[i]

LEMMA FourParts ==
    ASSUME NEW X \in Seq(Nat), NEW Y \in Seq(Nat), NEW Z \in Seq(Nat), NEW U \in Seq(Nat),
           NEW h \in Nat, h = Len(X), NEW k \in Nat, k = Len(Y),
           NEW g \in Nat, g = Len(Z), NEW u \in Nat, u = Len(U)
    PROVE  Parts(X \o Y \o Z \o U, Z, U, h, k, g, u)
  <1>1. PICK XY : XY = X \o Y
    OBVIOUS
  <1>2. PICK hk \in Nat : hk = h + k
    OBVIOUS
  <1>3. XY \in Seq(Nat) /\ hk = Len(XY)
    BY <1>1, <1>2
  <1>4. PICK V : V = XY \o Z
    OBVIOUS
  <1>5. PICK v \in Nat : v = hk + g
    OBVIOUS
  <1>6. V \in Seq(Nat) /\ v = Len(V) /\ \A i \in 1 .. g : V[hk + i] = Z[i]
    <2>1. XY \o Z \in Seq(Nat)
      BY ONLY <1>3, Z \in Seq(Nat)
    <2>2. Len(XY \o Z) = hk + g
      BY ONLY <1>3, Z \in Seq(Nat), g = Len(Z), hk \in Nat, g \in Nat
    <2>3. \A i \in 1 .. g : (XY \o Z)[hk + i] = Z[i]
      BY ONLY <1>3, Z \in Seq(Nat), g = Len(Z), hk \in Nat, g \in Nat
    <2> QED
      BY ONLY <2>1, <2>2, <2>3, <1>4, <1>5, Zenon
  <1>7. PICK t : t = V \o U
    OBVIOUS
  <1>8. /\ t \in Seq(Nat) /\ Len(t) = v + u
        /\ \A i \in 1 .. v : t[i] = V[i]
        /\ \A i \in 1 .. u : t[v + i] = U[i]
    <2>1. V \o U \in Seq(Nat)
      BY ONLY <1>6, U \in Seq(Nat)
    <2>2. Len(V \o U) = v + u
      BY ONLY <1>6, U \in Seq(Nat), u = Len(U), v \in Nat, u \in Nat
    <2>3. \A i \in 1 .. v : (V \o U)[i] = V[i]
      BY ONLY <1>6, U \in Seq(Nat), u = Len(U), v \in Nat, u \in Nat
    <2>4. \A i \in 1 .. u : (V \o U)[v + i] = U[i]
      BY ONLY <1>6, U \in Seq(Nat), u = Len(U), v \in Nat, u \in Nat
    <2> QED
      BY ONLY <2>1, <2>2, <2>3, <2>4, <1>7, Zenon
  <1>9. \A i \in 1 .. g : t[hk + i] = Z[i]
    <2>1. \A i \in 1 .. g : hk + i \in 1 .. v
      BY <1>5
    <2> QED
      BY <1>6, <1>8, <2>1
  <1>10. t = X \o Y \o Z \o U
    BY ONLY <1>1, <1>4, <1>7, Zenon
  <1> QED
    BY ONLY <1>2, <1>5, <1>8, <1>9, <1>10, Zenon DEF Parts

\* The bytes of stat, with the name in brackets from 3 to k + 4.
LEMMA StatBytes ==
    ASSUME NEW p, p.title \in Seq(1 .. 247), p.state \in 65 .. 122, p.fields \in Seq(Nat)
    PROVE  LET t == StatFile(p)
               k == Len(Cut(p.title))
               F == Len(p.fields)
           IN /\ k \in Nat /\ F \in Nat /\ t \in Seq(Nat) /\ Len(t) = 6 + k + 2 * F
              /\ t[4 + k] = Close /\ t[5 + k] = SP /\ t[6 + k] = p.state
              /\ \A j \in 1 .. F : t[5 + k + 2 * j] = SP
              /\ \A j \in 1 .. F : t[6 + k + 2 * j] = Num(p.fields[j])
  <1> DEFINE X == <<Num(0), SP, Open>>
             Y == Cut(p.title)
             Z == <<Close, SP, p.state>>
             k == Len(Y)
             F == Len(p.fields)
             U == [i \in 1 .. 2 * F |-> IF i % 2 = 1 THEN SP ELSE Num(p.fields[i \div 2])]
  <1>1. Y \in Seq(Nat) /\ k \in Nat
    <2>1. Text(p.title)
      BY Bytes
    <2>2. p.title \in Seq(Nat) /\ Len(p.title) \in Nat
      BY <2>1 DEF Text
    <2>3. Least(CommLen, Len(p.title)) \in 0 .. Len(p.title)
      BY <2>2, ProcFilesAssumption DEF Least
    <2>4. Y \in Seq(Nat)
      BY <2>2, <2>3 DEF Cut
    <2> QED
      BY <2>4
  <1>2. F \in Nat
    OBVIOUS
  <1>3. p.state \in Nat
    <2> DEFINE x == p.state
    <2>1. x \in 65 .. 122
      OBVIOUS
    <2> HIDE DEF x
    <2>2. x \in Nat
      BY <2>1
    <2> QED
      BY <2>2 DEF x
  <1>4. X \in Seq(Nat) /\ Len(X) = 3 /\ Z \in Seq(Nat) /\ Len(Z) = 3
        /\ Z[1] = Close /\ Z[2] = SP /\ Z[3] = p.state
    BY <1>3 DEF Num, SP, Open, Close
  <1>5. U \in Seq(Nat) /\ Len(U) = 2 * F
    <2>1. ASSUME NEW i \in 1 .. 2 * F
          PROVE  (IF i % 2 = 1 THEN SP ELSE Num(p.fields[i \div 2])) \in Nat
      <3>1. CASE i % 2 = 1
        BY <3>1 DEF SP
      <3>2. CASE i % 2 # 1
        <4>1. i \div 2 \in 1 .. F
          BY <1>2, <3>2
        <4>2. p.fields[i \div 2] \in Nat
          BY <4>1
        <4> QED
          BY <3>2, <4>2 DEF Num
      <3> QED
        BY <3>1, <3>2
    <2> HIDE DEF F
    <2> QED
      BY <1>2, <2>1
  <1>6. ASSUME NEW j \in 1 .. F PROVE U[2 * j - 1] = SP /\ U[2 * j] = Num(p.fields[j])
    <2> HIDE DEF F
    <2>1. /\ 2 * j - 1 \in 1 .. 2 * F /\ 2 * j \in 1 .. 2 * F /\ (2 * j - 1) % 2 = 1
          /\ (2 * j) % 2 # 1 /\ (2 * j) \div 2 = j
      BY <1>2
    <2> QED
      BY <2>1
  <1> DEFINE t == X \o Y \o Z \o U
  <1>7. t = StatFile(p)
    BY DEF StatFile
  <1> HIDE DEF X, Y, Z, U, F, t
  <1> DEFINE h == 3
             u == 2 * F
  <1>8. /\ X \in Seq(Nat) /\ Y \in Seq(Nat) /\ Z \in Seq(Nat) /\ U \in Seq(Nat)
        /\ h \in Nat /\ h = Len(X) /\ k \in Nat /\ k = Len(Y) /\ h = Len(Z)
        /\ u \in Nat /\ u = Len(U)
    BY <1>1, <1>2, <1>4, <1>5
  <1> HIDE DEF h, u, k
  <1>9. /\ t \in Seq(Nat) /\ Len(t) = h + k + h + u
        /\ \A i \in 1 .. h : t[h + k + i] = Z[i]
        /\ \A i \in 1 .. u : t[h + k + h + i] = U[i]
    <2> DEFINE g == h
    <2>1. g \in Nat /\ g = Len(Z)
      BY <1>8
    <2> HIDE DEF g
    <2>2. /\ X \in Seq(Nat) /\ Y \in Seq(Nat) /\ Z \in Seq(Nat) /\ U \in Seq(Nat)
          /\ h \in Nat /\ h = Len(X) /\ k \in Nat /\ k = Len(Y)
          /\ u \in Nat /\ u = Len(U)
      BY <1>8
    <2>3. Parts(X \o Y \o Z \o U, Z, U, h, k, g, u)
      BY ONLY <2>1, <2>2, FourParts, Zenon
    <2>4. t = X \o Y \o Z \o U
      BY DEF t
    <2> HIDE DEF t
    <2> QED
      BY ONLY <2>3, <2>4, Zenon DEF g, Parts
  <1>10. /\ 3 + k + 3 = 6 + k /\ 3 + k + 1 = 4 + k /\ 3 + k + 2 = 5 + k /\ k \in Nat
    BY <1>1
  <1>11. /\ t \in Seq(Nat) /\ Len(t) = 6 + k + 2 * F
         /\ \A i \in 1 .. 3 : t[3 + k + i] = Z[i]
         /\ \A i \in 1 .. 2 * F : t[6 + k + i] = U[i]
    BY ONLY <1>9, <1>10 DEF h, u
  <1>12. t[4 + k] = Close /\ t[5 + k] = SP /\ t[6 + k] = p.state
    BY ONLY <1>4, <1>10, <1>11
  <1>13. ASSUME NEW j \in 1 .. F
         PROVE  t[5 + k + 2 * j] = SP /\ t[6 + k + 2 * j] = Num(p.fields[j])
    <2>1. /\ 2 * j - 1 \in 1 .. 2 * F /\ 2 * j \in 1 .. 2 * F
          /\ 6 + k + (2 * j - 1) = 5 + k + 2 * j
      BY <1>1, <1>2
    <2>2. t[6 + k + (2 * j - 1)] = U[2 * j - 1] /\ t[6 + k + 2 * j] = U[2 * j]
      BY ONLY <1>11, <2>1
    <2> QED
      BY <1>6, <2>1, <2>2
  <1> QED
    BY <1>1, <1>2, <1>7, <1>12, <1>13, <1>11 DEF k, Y, F

\* strrchr() finds the bracket after the name, and sscanf() the fields after it.
LEMMA StatParsed ==
    ASSUME NEW p, p.title \in Seq(1 .. 247), p.state \in 65 .. 122, p.fields \in Seq(Nat)
    PROVE  parse_proc_pid_stat_buf(StatFile(p)) =
             IF Len(p.fields) < 21 THEN NoStat
             ELSE [ok |-> TRUE, state |-> p.state, ppid |-> p.fields[1],
                   num_threads |-> p.fields[17], rss |-> p.fields[21]]
  <1> DEFINE t == StatFile(p)
             k == Len(Cut(p.title))
             F == Len(p.fields)
             a == 6 + k
             br == 4 + k
  <1>1. /\ k \in Nat /\ F \in Nat /\ t \in Seq(Nat) /\ Len(t) = 6 + k + 2 * F
        /\ t[4 + k] = Close /\ t[5 + k] = SP /\ t[6 + k] = p.state
        /\ \A j \in 1 .. F : t[5 + k + 2 * j] = SP
        /\ \A j \in 1 .. F : t[6 + k + 2 * j] = Num(p.fields[j])
    BY StatBytes
  <1>2. \A j \in 1 .. F : p.fields[j] \in Nat
    OBVIOUS
  <1> HIDE DEF t, k, F
  <1>3. /\ \A j \in 1 .. F : t[a + 2 * j] = Num(p.fields[j])
        /\ \A j \in 1 .. F : t[a + 2 * j] # SP /\ t[a + 2 * j] # Close /\ IsNum(t[a + 2 * j])
        /\ \A j \in 1 .. F : t[a + 2 * j - 1] = SP
    <2>1. \A j \in 1 .. F : a + 2 * j = 6 + k + 2 * j /\ a + 2 * j - 1 = 5 + k + 2 * j
      BY <1>1
    <2>2. ASSUME NEW j \in 1 .. F
          PROVE  Num(p.fields[j]) # SP /\ Num(p.fields[j]) # Close /\ IsNum(Num(p.fields[j]))
      <3> DEFINE x == p.fields[j]
      <3>1. x \in Nat
        BY <1>2
      <3> HIDE DEF x
      <3>2. Num(x) # SP /\ Num(x) # Close /\ IsNum(Num(x))
        BY <3>1 DEF Num, SP, Close, IsNum
      <3> QED
        BY <3>2 DEF x
    <2> QED
      BY <1>1, <2>1, <2>2
  <1>4. a \in Nat /\ br \in Nat /\ br + 2 = a /\ br + 3 = a + 1 /\ Len(t) = a + 2 * F
    BY <1>1
  <1>5. ASSUME NEW i \in a + 1 .. a + 2 * F
        PROVE  \E j \in 1 .. F : i = a + 2 * j \/ i = a + 2 * j - 1
    <2>1. i - a \in 1 .. 2 * F
      BY <1>1, <1>4
    <2> DEFINE d == i - a
               j == (d + 1) \div 2
    <2>2. d \in 1 .. 2 * F /\ i = a + d
      BY <1>1, <1>4
    <2> HIDE DEF d
    <2>3. j \in 1 .. F /\ (d = 2 * j \/ d = 2 * j - 1)
      BY <1>1, <2>2
    <2> HIDE DEF j
    <2> QED
      BY <1>4, <2>2, <2>3
  <1>6. p.state # SP /\ p.state # Close /\ p.state \in Nat
    <2> DEFINE x == p.state
    <2>1. x \in 65 .. 122
      OBVIOUS
    <2> HIDE DEF x
    <2>2. x # SP /\ x # Close /\ x \in Nat
      BY <2>1 DEF SP, Close
    <2> QED
      BY <2>2 DEF x
  <1>7. SelectLastInSeq(t, LAMBDA x : x = Close) = br
    <2> DEFINE I == {i \in 1 .. Len(t) : t[i] = Close}
    <2>1. br \in I
      BY <1>1, <1>4
    <2>2. ASSUME NEW i \in I PROVE i <= br
      <3> SUFFICES ASSUME i > br PROVE FALSE
        BY <1>4
      <3>1. i \in Nat /\ i <= a + 2 * F /\ t[i] = Close
        BY <1>1, <1>4
      <3>2. i = 5 + k \/ i = 6 + k \/ i \in a + 1 .. a + 2 * F
        BY <1>1, <1>4, <3>1
      <3>3. CASE i = 5 + k
        BY <1>1, <3>1, <3>3 DEF SP, Close
      <3>4. CASE i = 6 + k
        BY <1>1, <1>6, <3>1, <3>4
      <3>5. CASE i \in a + 1 .. a + 2 * F
        <4>1. PICK j \in 1 .. F : i = a + 2 * j \/ i = a + 2 * j - 1
          BY <1>5, <3>5
        <4>2. t[i] # Close
          BY <1>3, <4>1 DEF SP, Close
        <4> QED
          BY <3>1, <4>2
      <3> QED
        BY <3>2, <3>3, <3>4, <3>5
    <2>3. I \in SUBSET Int
      OBVIOUS
    <2>4. Max(I) = br
      <3> HIDE DEF I, br
      <3> QED
        BY <2>1, <2>2, <2>3, MaxIs
    <2> QED
      BY <2>1, <2>4 DEF SelectLastInSeq
  <1> DEFINE W == Words(t, br + 3)
  <1>8. W = {a + 2 * j : j \in 1 .. F}
    <2>1. W = {w \in a + 1 .. a + 2 * F : t[w] # SP}
      BY <1>4 DEF Words
    <2>2. ASSUME NEW j \in 1 .. F PROVE a + 2 * j \in W
      <3>1. a + 2 * j \in a + 1 .. a + 2 * F
        BY <1>1, <1>4
      <3> QED
        BY <1>3, <2>1, <3>1
    <2>3. ASSUME NEW w \in W PROVE \E j \in 1 .. F : w = a + 2 * j
      <3>1. PICK j \in 1 .. F : w = a + 2 * j \/ w = a + 2 * j - 1
        BY <1>5, <2>1
      <3>2. t[w] # SP
        BY <2>1
      <3> QED
        BY <1>3, <3>1, <3>2
    <2> QED
      BY <2>2, <2>3
  <1> HIDE DEF a, br, W
  <1>9. ASSUME NEW j \in 1 .. F PROVE Cardinality({v \in W : v <= a + 2 * j}) = j
    <2>1. {v \in W : v <= a + 2 * j} = {a + 2 * q : q \in 1 .. j}
      BY <1>1, <1>4, <1>8
    <2>2. j \in Nat /\ a \in Nat
      BY <1>4
    <2>3. Cardinality({a + 2 * q : q \in 1 .. j}) = j
      BY ONLY <2>2, EveryOther, Zenon
    <2> QED
      BY ONLY <2>1, <2>3, Zenon
  <1>10. \A j \in 1 .. F : IsWord(t, br + 3, j, a + 2 * j)
    <2> SUFFICES ASSUME NEW j \in 1 .. F PROVE IsWord(t, br + 3, j, a + 2 * j)
      OBVIOUS
    <2>1. a + 2 * j \in W
      BY <1>8
    <2> QED
      BY <1>9, <2>1, Zenon DEF IsWord, W
  <1>11. ASSUME NEW q, NEW w \in W, IsWord(t, br + 3, q, w) PROVE q \in 1 .. F /\ w = a + 2 * q
    <2>1. PICK j \in 1 .. F : w = a + 2 * j
      BY <1>8
    <2>2. Cardinality({v \in W : v <= w}) = q
      BY <1>11, Zenon DEF IsWord, W
    <2>3. q = j
      BY <1>9, <2>1, <2>2
    <2> QED
      BY <2>1, <2>3
  <1>12. ASSUME NEW q \in 1 .. F
         PROVE  (CHOOSE w \in W : IsWord(t, br + 3, q, w)) = a + 2 * q
    <2>1. a + 2 * q \in W /\ IsWord(t, br + 3, q, a + 2 * q)
      BY <1>8, <1>10
    <2> DEFINE c == CHOOSE w \in W : IsWord(t, br + 3, q, w)
    <2>2. c \in W /\ IsWord(t, br + 3, q, c)
      BY <2>1, Zenon
    <2> HIDE DEF c
    <2>3. c = a + 2 * q
      BY <1>11, <2>2
    <2> QED
      BY <2>3 DEF c
  <1>13. Scans(t, br + 3, 21) <=> 21 <= F
    <2>1. ASSUME Scans(t, br + 3, 21) PROVE 21 <= F
      <3>1. PICK w \in W : IsWord(t, br + 3, 21, w)
        BY <2>1, Zenon DEF Scans, W
      <3>2. 21 \in 1 .. F
        BY <1>11, <3>1
      <3> QED
        BY <1>1, <3>2
    <2>2. ASSUME 21 <= F PROVE Scans(t, br + 3, 21)
      <3>1. 21 \in 1 .. F
        BY <1>1, <2>2
      <3>2. a + 2 * 21 \in W /\ IsWord(t, br + 3, 21, a + 2 * 21)
        BY <1>8, <1>10, <3>1
      <3>3. \A v \in W : IsNum(t[v])
        BY <1>3, <1>8
      <3> QED
        BY <3>2, <3>3, Zenon DEF Scans, W
    <2> QED
      BY <2>1, <2>2
  <1> DEFINE field(q) == t[CHOOSE w \in Words(t, br + 3) : IsWord(t, br + 3, q, w)] - Num(0)
  <1>14. ASSUME NEW q \in 1 .. F PROVE field(q) = p.fields[q]
    <2>1. field(q) = t[a + 2 * q] - Num(0)
      BY <1>12 DEF W
    <2>2. t[a + 2 * q] = Num(p.fields[q])
      BY <1>3
    <2> DEFINE x == p.fields[q]
    <2>3. x \in Nat
      BY <1>2
    <2> HIDE DEF x, field
    <2>4. Num(x) - Num(0) = x
      BY <2>3 DEF Num
    <2> QED
      BY <2>1, <2>2, <2>4 DEF x
  <1> HIDE DEF field
  <1>15. After(t, br) = IF ~(21 <= F) THEN NoStat
                       ELSE [ok |-> TRUE, state |-> t[br + 2], ppid |-> field(1),
                             num_threads |-> field(17), rss |-> field(21)]
    <2>1. br # 0 /\ ~(Len(t) < br + 2)
      BY <1>1, <1>4 DEF br
    <2> QED
      BY <1>13, <2>1 DEF After, field
  <1>16. 21 <= F => /\ field(1) = p.fields[1] /\ field(17) = p.fields[17]
                    /\ field(21) = p.fields[21]
    <2>1. 21 <= F => 1 \in 1 .. F /\ 17 \in 1 .. F /\ 21 \in 1 .. F
      BY <1>1
    <2> QED
      BY <1>14, <2>1
  <1>17. t[br + 2] = p.state
    BY <1>1, <1>4 DEF a
  <1>18. parse_proc_pid_stat_buf(t) = After(t, br)
    BY <1>7 DEF parse_proc_pid_stat_buf
  <1>19. Len(p.fields) < 21 <=> ~(21 <= F)
    BY <1>1 DEF F
  <1> QED
    BY <1>15, <1>16, <1>17, <1>18, <1>19 DEF t

----------------------------------------------------------------------------
(* The files of one process.                                               *)

LEMMA StringLength ==
    ASSUME NEW b, Ready(b), NEW out \in {name, cmdline}
    PROVE  strlen(b, out) \in Nat /\ (strlen(b, out) = 0 <=> String(b, out) = <<>>)
  <1> DEFINE ends == {i \in DOMAIN b : i >= out /\ b[i] = NUL}
             l == strlen(b, out)
  <1>1. /\ PATH_LEN \in Nat /\ out \in Nat /\ out <= PATH_LEN /\ PATH_LEN > 4
        /\ DOMAIN b = 0 .. 2 * PATH_LEN - 1 /\ b[2 * PATH_LEN - 1] = NUL
    BY ProcFilesAssumption DEF Ready, Buffer
  <1>2. 2 * PATH_LEN - 1 \in ends /\ ends \in SUBSET Nat /\ \A i \in ends : i >= out
    BY <1>1
  <1>3. PICK x \in ends : \A y \in ends : x <= y
    <2> HIDE DEF ends
    <2> QED
      BY <1>2, LeastExists
  <1>4. Min(ends) = x
    <2>1. ends \in SUBSET Int
      BY <1>2
    <2> HIDE DEF ends
    <2> QED
      BY <1>3, <2>1, MinIs
  <1>5. strlen(b, out) = x - out
    BY <1>2, <1>4 DEF strlen
  <1>6. l \in Nat
    BY <1>1, <1>2, <1>3, <1>5
  <1>7. String(b, out) = [i \in 1 .. l |-> b[out + i - 1]]
    BY DEF String
  <1> HIDE DEF l
  <1>8. l = 0 <=> [i \in 1 .. l |-> b[out + i - 1]] = <<>>
    <2>1. l = 0 => [i \in 1 .. l |-> b[out + i - 1]] = <<>>
      OBVIOUS
    <2>2. l # 0 => [i \in 1 .. l |-> b[out + i - 1]] # <<>>
      <3>1. DOMAIN [i \in 1 .. l |-> b[out + i - 1]] = 1 .. l /\ DOMAIN <<>> = {}
        OBVIOUS
      <3>2. l # 0 => 1 \in 1 .. l
        BY <1>6
      <3> QED
        BY <3>1, <3>2, Zenon
    <2> QED
      BY <2>1, <2>2
  <1> QED
    BY <1>6, <1>7, <1>8 DEF l

\* What is known of the process, the name and the command line at any time.
Kept(b, p) ==
    /\ Ready(b) /\ p \in Process
    /\ String(b, name) \in {<<>>, Whole(p.title, CommLen)}
    /\ String(b, cmdline) \in {<<>>, LineOf(p)}

LEMMA GetComm ==
    ASSUME NEW b, NEW p, Kept(b, p)
    PROVE  LET c == get_comm(b, CommFile(p))
           IN /\ Kept(c, p)
              /\ p.st # "gone" => String(c, name) = Whole(p.title, CommLen)
              /\ p.st = "gone" => c = b
              /\ String(c, cmdline) = String(b, cmdline)
  <1> DEFINE c == get_comm(b, CommFile(p))
  <1>1. CASE p.st = "gone"
    <2>1. c = b
      BY <1>1 DEF get_comm, CommFile
    <2> QED
      BY <1>1, <2>1
  <1>2. CASE p.st # "gone"
    <2>1. p.title \in Seq(1 .. 247) /\ UTF8(p.title) /\ Ready(b)
      BY DEF Kept, Process
    <2>2. /\ Ready(c) /\ String(c, name) = Whole(p.title, CommLen)
          /\ String(c, cmdline) = String(b, cmdline)
      BY <1>2, <2>1, CommRead
    <2> HIDE DEF c
    <2> QED
      BY <1>2, <2>2 DEF Kept, c
  <1> QED
    BY <1>1, <1>2

LEMMA FilledName ==
    ASSUME NEW b, NEW p, Kept(b, p)
    PROVE  LET c == IF strlen(b, name) = 0 THEN get_comm(b, CommFile(p)) ELSE b
           IN /\ Kept(c, p)
              /\ p.st # "gone" => String(c, name) = Whole(p.title, CommLen)
              /\ String(c, cmdline) = String(b, cmdline)
  <1>1. CASE strlen(b, name) = 0
    BY <1>1, GetComm
  <1>2. CASE strlen(b, name) # 0
    <2>1. String(b, name) # <<>>
      BY <1>2, StringLength DEF Kept
    <2> QED
      BY <1>2, <2>1 DEF Kept
  <1> QED
    BY <1>1, <1>2

LEMMA FilledCmdline ==
    ASSUME NEW b, NEW p, Kept(b, p)
    PROVE  LET c == IF strlen(b, cmdline) = 0 THEN get_cmdline(b, CmdlineFile(p)) ELSE b
           IN /\ Kept(c, p)
              /\ p.st = "run" => String(c, cmdline) = LineOf(p)
              /\ String(c, name) = String(b, name)
  <1> DEFINE c == IF strlen(b, cmdline) = 0 THEN get_cmdline(b, CmdlineFile(p)) ELSE b
  <1>1. CASE strlen(b, cmdline) # 0
    <2>1. String(b, cmdline) # <<>>
      BY <1>1, StringLength DEF Kept
    <2> QED
      BY <1>1, <2>1 DEF Kept
  <1>2. CASE strlen(b, cmdline) = 0
    <2>1. /\ Ready(b) /\ p.cmdline \in Seq(0 .. 247) /\ UTF8(p.cmdline)
          /\ p.cmdline # <<>> => Last(p.cmdline) = NUL
          /\ p.st \in {"run", "zombie", "gone"}
      BY DEF Kept, Process
    <2>2. c = get_cmdline(b, CmdlineFile(p))
      BY <1>2
    <2> HIDE DEF c
    <2>3. CASE p.st = "run"
      <3>1. Ready(c) /\ String(c, cmdline) = LineOf(p) /\ String(c, name) = String(b, name)
        BY <1>2, <2>1, <2>2, <2>3, CmdlineRead
      <3> QED
        BY <2>3, <3>1 DEF Kept, c
    <2>4. CASE p.st = "zombie"
      <3>1. c = b
        BY <1>2, <2>1, <2>2, <2>4, EmptyCmdline DEF CmdlineFile
      <3> QED
        BY <2>4, <3>1 DEF c
    <2>5. CASE p.st = "gone"
      <3>1. c = b
        BY <2>2, <2>5 DEF CmdlineFile, get_cmdline
      <3> QED
        BY <2>5, <3>1 DEF c
    <2> QED
      BY <2>1, <2>3, <2>4, <2>5
  <1> QED
    BY <1>1, <1>2

\* The process ends: its name and its arguments stay what they were.
LEMMA Ends ==
    ASSUME NEW b, NEW p, Kept(b, p), NEW st \in {"zombie", "gone"},
           NEW q, q = [p EXCEPT !.st = st]
    PROVE  /\ Kept(b, q) /\ q.title = p.title
           /\ q.state = p.state /\ q.fields = p.fields
  <1>1. /\ q \in Process /\ q.title = p.title /\ q.cmdline = p.cmdline
        /\ q.state = p.state /\ q.fields = p.fields
    BY DEF Kept, Process
  <1>2. LineOf(q) = LineOf(p)
    BY <1>1 DEF LineOf
  <1> QED
    BY <1>1, <1>2 DEF Kept

\* Inductive: what the buffers hold and when, and that stat is the process's own.
ProcessInv ==
    /\ pc \in {"meminfo", "stat", "comm", "name", "cmdline", "done", "exit"}
    /\ args \in [regex : BOOLEAN, debug : BOOLEAN]
    /\ Kept(buf, proc)
    /\ pc = "cmdline" \/ (pc = "done" /\ args.debug) =>
          proc.st = "gone" \/ String(buf, name) = Whole(proc.title, CommLen)
    /\ pc = "done" /\ args.debug /\ proc.st = "run" => String(buf, cmdline) = LineOf(proc)
    /\ StatFieldsRight

LEMMA NobodyIs == Nobody \in Process
  <1>1. <<>> \in Seq(1 .. 247) /\ <<>> \in Seq(0 .. 247) /\ <<>> \in Seq(Nat)
    OBVIOUS
  <1>2. UTF8(<<>>)
    BY DEF UTF8
  <1>3. 82 \in 65 .. 122
    OBVIOUS
  <1> QED
    BY <1>1, <1>2, <1>3 DEF Nobody, Process

LEMMA ProcessInit == Init => ProcessInv
  <1> SUFFICES ASSUME Init PROVE ProcessInv
    OBVIOUS
  <1>1. proc \in Process /\ pc \in {"meminfo", "stat"} /\ args \in [regex : BOOLEAN, debug : BOOLEAN]
    BY NobodyIs, ProcessAssumption, ProcFilesAssumption DEF Init
  <1>2. Ready(buf)
    <2>1. PATH_LEN \in Nat /\ PATH_LEN > 4
      BY ProcFilesAssumption
    <2>2. buf = [i \in 0 .. 2 * PATH_LEN - 1 |-> 0] /\ 0 \in 0 .. 255
      BY DEF Init
    <2>3. PATH_LEN - 1 \in 0 .. 2 * PATH_LEN - 1 /\ 2 * PATH_LEN - 1 \in 0 .. 2 * PATH_LEN - 1
      BY <2>1
    <2> QED
      BY <2>2, <2>3 DEF Ready, Buffer
  <1>3. String(buf, name) = <<>> /\ String(buf, cmdline) = <<>>
    <2> SUFFICES ASSUME NEW out \in {name, cmdline} PROVE String(buf, out) = <<>>
      OBVIOUS
    <2>1. /\ buf \in Buffer /\ out \in Nat /\ out + 0 < 2 * PATH_LEN /\ buf[out + 0] = NUL
      <3>1. PATH_LEN \in Nat /\ PATH_LEN > 4
        BY ProcFilesAssumption
      <3>2. out + 0 \in 0 .. 2 * PATH_LEN - 1 /\ out \in Nat /\ out + 0 < 2 * PATH_LEN
        BY <3>1
      <3> QED
        BY <1>2, <3>2 DEF Ready, Init
    <2>2. Text(<<>>) /\ 0 \in 0 .. Len(<<>>)
      BY DEF Text
    <2>3. Holds(buf, out, <<>>, 0)
      BY <2>1 DEF Holds
    <2>4. strlen(buf, out) = 0
      BY <2>1, <2>2, <2>3, HeldString
    <2> QED
      BY <1>2, <2>4, StringLength
  <1> QED
    BY <1>1, <1>2, <1>3 DEF ProcessInv, Kept, StatFieldsRight

LEMMA ReadStatInv == ProcessInv /\ ReadStat => ProcessInv'
  <1> SUFFICES ASSUME ProcessInv, ReadStat PROVE ProcessInv'
    OBVIOUS
  <1>1. /\ buf' = buf /\ proc' = proc /\ args' = args
        /\ stat' = parse_proc_pid_stat_buf(StatFile(proc))
    BY DEF ReadStat
  <1>2. pc' \in {"comm", "name"} \/ (pc' = "done" /\ ~args.debug)
    BY DEF ReadStat, Judged, ProcessInv
  <1>3. StatFieldsRight'
    <2>1. proc.title \in Seq(1 .. 247) /\ proc.state \in 65 .. 122 /\ proc.fields \in Seq(Nat)
      BY DEF ProcessInv, Kept, Process
    <2> QED
      BY <1>1, <2>1, StatParsed DEF StatFieldsRight
  <1> QED
    BY <1>1, <1>2, <1>3 DEF ProcessInv

LEMMA ReadCommInv == ProcessInv /\ ReadComm => ProcessInv'
  <1> SUFFICES ASSUME ProcessInv, ReadComm PROVE ProcessInv'
    OBVIOUS
  <1>1. /\ buf' = get_comm(buf, CommFile(proc)) /\ proc' = proc /\ args' = args
        /\ stat' = stat /\ pc = "comm"
    BY DEF ReadComm
  <1>2. pc' = "name" \/ (pc' = "done" /\ ~args.debug)
    BY DEF ReadComm, Judged, ProcessInv
  <1>3. Kept(buf', proc)
    BY <1>1, GetComm DEF ProcessInv
  <1>4. StatFieldsRight'
    BY <1>1 DEF ProcessInv, StatFieldsRight
  <1> QED
    BY <1>1, <1>2, <1>3, <1>4 DEF ProcessInv

LEMMA FillNameInv == ProcessInv /\ FillName => ProcessInv'
  <1> SUFFICES ASSUME ProcessInv, FillName PROVE ProcessInv'
    OBVIOUS
  <1>1. /\ buf' = IF strlen(buf, name) = 0 THEN get_comm(buf, CommFile(proc)) ELSE buf
        /\ proc' = proc /\ args' = args /\ stat' = stat /\ pc = "name" /\ pc' = "cmdline"
    BY DEF FillName
  <1>2. /\ Kept(buf', proc)
        /\ proc.st # "gone" => String(buf', name) = Whole(proc.title, CommLen)
    BY <1>1, FilledName DEF ProcessInv
  <1>3. StatFieldsRight'
    BY <1>1 DEF ProcessInv, StatFieldsRight
  <1> QED
    BY <1>1, <1>2, <1>3 DEF ProcessInv

LEMMA FillCmdlineInv == ProcessInv /\ FillCmdline => ProcessInv'
  <1> SUFFICES ASSUME ProcessInv, FillCmdline PROVE ProcessInv'
    OBVIOUS
  <1>1. /\ buf' = IF strlen(buf, cmdline) = 0 THEN get_cmdline(buf, CmdlineFile(proc)) ELSE buf
        /\ proc' = proc /\ args' = args /\ stat' = stat /\ pc = "cmdline"
        /\ pc' \in {"done", "name"}
    BY DEF FillCmdline
  <1>2. /\ Kept(buf', proc)
        /\ proc.st = "run" => String(buf', cmdline) = LineOf(proc)
        /\ String(buf', name) = String(buf, name)
    BY <1>1, FilledCmdline DEF ProcessInv
  <1>3. proc.st = "gone" \/ String(buf', name) = Whole(proc.title, CommLen)
    BY <1>1, <1>2 DEF ProcessInv
  <1>4. StatFieldsRight'
    BY <1>1 DEF ProcessInv, StatFieldsRight
  <1> QED
    BY <1>1, <1>2, <1>3, <1>4 DEF ProcessInv

LEMMA ExitInv == ProcessInv /\ Exit => ProcessInv'
  <1> SUFFICES ASSUME ProcessInv, Exit PROVE ProcessInv'
    OBVIOUS
  <1>1. PICK st \in {"zombie", "gone"} : proc' = [proc EXCEPT !.st = st]
    BY DEF Exit
  <1>2. /\ buf' = buf /\ args' = args /\ stat' = stat /\ pc' = pc
        /\ pc \in {"comm", "name", "cmdline"} /\ proc.st # "gone"
    BY DEF Exit
  <1>3. /\ Kept(buf, proc') /\ proc'.title = proc.title
        /\ proc'.state = proc.state /\ proc'.fields = proc.fields
    <2>1. Kept(buf, proc)
      BY DEF ProcessInv
    <2> QED
      BY ONLY <1>1, <2>1, Ends
  <1>4. StatFieldsRight'
    BY <1>2, <1>3 DEF ProcessInv, StatFieldsRight
  <1>5. pc = "cmdline" => String(buf, name) = Whole(proc.title, CommLen)
    BY <1>2 DEF ProcessInv
  <1> QED
    BY <1>2, <1>3, <1>4, <1>5 DEF ProcessInv

LEMMA ProcessStays == ProcessInv /\ UNCHANGED <<pc, process>> => ProcessInv'
  BY DEF ProcessInv, process, StatFieldsRight

LEMMA parse_meminfoProcess ==
    ASSUME ProcessInv, NEW lines, parse_meminfo(lines) PROVE ProcessInv'
  <1>1. /\ proc' = proc /\ args' = args /\ stat' = stat /\ buf' = buf
        /\ pc' \in {"meminfo", "exit"}
    BY DEF parse_meminfo, Fail, process
  <1> QED
    BY <1>1 DEF ProcessInv, StatFieldsRight

LEMMA ProcessNext == ProcessInv /\ [Next]_vars => ProcessInv'
  <1> SUFFICES ASSUME ProcessInv, [Next]_vars PROVE ProcessInv'
    OBVIOUS
  <1>1. ASSUME NEW lines, parse_meminfo(lines) PROVE ProcessInv'
    BY <1>1, parse_meminfoProcess
  <1>2. CASE Done \/ UNCHANGED vars
    BY <1>2, ProcessStays DEF Done, vars
  <1> QED
    BY <1>1, <1>2, ReadStatInv, ReadCommInv, FillNameInv, FillCmdlineInv, ExitInv DEF Next

\* However the process ends while its files are read, and in whatever order
\* is_larger(), debug_print_procinfo() and find_largest_process() fill the
\* buffers, these keep the process's own name, arguments and numbers.
THEOREM ProcessInvariant == Spec => []ProcessInv
  BY ProcessInit, ProcessNext, PTL DEF Spec

\* parse_proc_pid_stat_buf(): for every name, however long and with whatever
\* brackets and spaces, and every number of fields, the process's own values.
THEOREM StatIsRight == Spec => []StatFieldsRight
  <1>1. ProcessInv => StatFieldsRight
    BY DEF ProcessInv
  <1> QED
    BY <1>1, ProcessInvariant, PTL

\* get_comm() and fix_truncated_utf8(): for every name in UTF-8 and every length
\* of the kernel's cut, the whole characters of the name that fit.
THEOREM NameIsRight == Spec => []NameRight
  <1>1. ProcessInv => NameRight
    BY DEF ProcessInv, Kept, NameRight
  <1> QED
    BY <1>1, ProcessInvariant, PTL

\* get_cmdline(): for all arguments in UTF-8 and every length of the buffer, the
\* arguments joined by spaces and cut between two characters.
THEOREM CmdlineIsRight == Spec => []CmdlineRight
  <1>1. ProcessInv => CmdlineRight
    BY DEF ProcessInv, Kept, CmdlineRight, LineOf
  <1> QED
    BY <1>1, ProcessInvariant, PTL

----------------------------------------------------------------------------
(* parse_meminfo().                                                        *)

Labels == Fatal \cup Guess \cup {<<"Mem", "Available">>}

\* The lines with this label, and the value of the first of them.
At(label, lines) == {i \in 1 .. Len(lines) : lines[i].label = label}
ValueOf(label, lines) == IF At(label, lines) = {} THEN 0 ELSE lines[Min(At(label, lines))].kib

LEMMA EndsWithItself ==
    ASSUME NEW s \in Seq(STRING) PROVE IsSuffix(s, s)
  <1> DEFINE r == Reverse(s)
  <1>1. Len(s) \in Nat
    OBVIOUS
  <1>2. r \in Seq(STRING)
    BY <1>1 DEF Reverse
  <1> HIDE DEF r
  <1>3. Len(r) <= Len(r) /\ SubSeq(r, 1, Len(r)) = SubSeq(r, 1, Len(r))
    BY <1>2
  <1>4. IsPrefix(r, r)
    BY <1>3 DEF IsPrefix
  <1> QED
    BY <1>4 DEF IsSuffix, r

\* get_entry(): strstr() finds names within names, and yet the line of the name.
LEMMA EntryIs ==
    ASSUME NEW lines, KernelOrder(lines), NEW label \in Labels
    PROVE  /\ ValueOf(label, lines) \in Nat
           /\ get_entry(label, lines) = IF At(label, lines) = {} THEN -61 ELSE ValueOf(label, lines)
           /\ At(label, lines) # {} => \E i \in At(label, lines) : ValueOf(label, lines) = lines[i].kib
  <1> DEFINE S == {i \in 1 .. Len(lines) : IsSuffix(label, lines[i].label)}
             T == At(label, lines)
  <1>1. /\ lines \in Seq([label : Seq(STRING), kib : Nat])
        /\ \A i \in DOMAIN lines :
              IsSuffix(label, lines[i].label) => \E j \in 1 .. i : lines[j].label = label
    BY DEF KernelOrder, Labels
  <1>2. /\ Len(lines) \in Nat /\ DOMAIN lines = 1 .. Len(lines)
        /\ \A i \in 1 .. Len(lines) : lines[i].label \in Seq(STRING) /\ lines[i].kib \in Nat
    <2>1. Len(lines) \in Nat /\ DOMAIN lines = 1 .. Len(lines)
      BY <1>1
    <2>2. ASSUME NEW i \in 1 .. Len(lines)
          PROVE  lines[i].label \in Seq(STRING) /\ lines[i].kib \in Nat
      <3>1. lines[i] \in [label : Seq(STRING), kib : Nat]
        BY <1>1, ElementOfSeq
      <3> QED
        BY <3>1
    <2> QED
      BY <2>1, <2>2
  <1>3. T \subseteq S /\ T \in SUBSET Nat /\ S \in SUBSET Int
    <2>1. ASSUME NEW i \in T PROVE i \in S
      <3>1. i \in 1 .. Len(lines) /\ lines[i].label = label
        BY DEF At
      <3>2. label \in Seq(STRING)
        BY <1>2, <3>1
      <3>3. IsSuffix(label, lines[i].label)
        BY <3>1, <3>2, EndsWithItself
      <3> QED
        BY <3>1, <3>3
    <2>2. T \in SUBSET Nat /\ S \in SUBSET Int
      BY <1>2 DEF At
    <2> QED
      BY <2>1, <2>2
  <1>4. ASSUME NEW i \in S PROVE \E j \in T : j <= i
    <2>1. i \in DOMAIN lines /\ IsSuffix(label, lines[i].label)
      BY <1>2
    <2>2. PICK j \in 1 .. i : lines[j].label = label
      BY <1>1, <2>1
    <2>3. j \in 1 .. Len(lines) /\ j <= i
      BY <1>2
    <2> QED
      BY <2>2, <2>3 DEF At
  <1>5. get_entry(label, lines) = IF S = {} THEN -61 ELSE lines[Min(S)].kib
    <2>1. SelectInSeq(lines, LAMBDA l : IsSuffix(label, l.label)) = IF S # {} THEN Min(S) ELSE 0
      BY DEF SelectInSeq
    <2>2. S # {} => Min(S) # 0
      <3>1. ASSUME S # {} PROVE Min(S) \in S
        <4>1. PICK x \in S : \A y \in S : x <= y
          <5>1. S \in SUBSET Nat
            BY <1>2
          <5> HIDE DEF S
          <5> QED
            BY <3>1, <5>1, LeastExists
        <4>2. Min(S) = x
          <5> HIDE DEF S
          <5> QED
            BY <1>3, <4>1, MinIs
        <4> QED
          BY <4>2
      <3> QED
        BY <1>2, <3>1
    <2> HIDE DEF S
    <2> QED
      BY <2>1, <2>2 DEF get_entry, ENODATA
  <1> HIDE DEF S, T
  <1>6. CASE T = {}
    <2>1. S = {}
      BY <1>4, <1>6
    <2> QED
      BY <1>5, <1>6, <2>1 DEF ValueOf, T
  <1>7. CASE T # {}
    <2>1. PICK x \in T : \A y \in T : x <= y
      BY <1>3, <1>7, LeastExists
    <2>2. Min(T) = x
      <3>1. T \in SUBSET Int
        BY <1>3
      <3> QED
        BY <2>1, <3>1, MinIs
    <2>3. Min(S) = x /\ S # {}
      <3>1. x \in S /\ x \in Nat
        BY <1>3
      <3>2. ASSUME NEW y \in S PROVE x <= y
        <4>1. PICK j \in T : j <= y
          BY <1>4
        <4> QED
          BY <1>3, <2>1, <3>1, <4>1
      <3> QED
        BY <1>3, <3>1, <3>2, MinIs
    <2>4. lines[x].kib \in Nat
      BY <1>2 DEF T, At
    <2> QED
      BY <1>5, <1>7, <2>2, <2>3, <2>4 DEF ValueOf, T
  <1> QED
    BY <1>6, <1>7

\* Inductive: m is what the file read last says, and the file lacked nothing.
MeminfoInv ==
    pc = "meminfo" /\ meminfo # Unreadable =>
        /\ meminfo \in Meminfos /\ m = meminfo_t(meminfo)
        /\ ~Lacks(Fatal, meminfo) /\ ~(NeedsGuess(meminfo) /\ Lacks(Guess, meminfo))

LEMMA MeminfoNext == MeminfoInv /\ [Next]_vars => MeminfoInv'
  <1> SUFFICES ASSUME MeminfoInv, [Next]_vars PROVE MeminfoInv'
    OBVIOUS
  <1>1. ASSUME NEW lines \in Meminfos \cup {Unreadable}, parse_meminfo(lines) PROVE MeminfoInv'
    BY <1>1 DEF parse_meminfo, Fail, MeminfoInv
  <1>2. CASE ReadStat \/ ReadComm
    BY <1>2 DEF ReadStat, ReadComm, Judged, MeminfoInv
  <1>3. CASE FillName \/ FillCmdline \/ Exit
    BY <1>3 DEF FillName, FillCmdline, Exit, MeminfoInv
  <1>4. CASE Done \/ UNCHANGED vars
    BY <1>4 DEF Done, vars, system, MeminfoInv
  <1> QED
    BY <1>1, <1>2, <1>3, <1>4 DEF Next

LEMMA LineIs ==
    ASSUME NEW label, meminfo \in Meminfos
    PROVE  Line(label) = ValueOf(label, meminfo) /\ (Has(label) <=> At(label, meminfo) # {})
  <1> DEFINE T == At(label, meminfo)
  <1>1. /\ meminfo \in Seq([label : Seq(STRING), kib : Nat])
        /\ Len(meminfo) \in Nat /\ DOMAIN meminfo = 1 .. Len(meminfo)
    BY MeminfoAssumption DEF KernelOrder
  <1>2. T # {} => Min(T) # 0
    <2> SUFFICES ASSUME T # {} PROVE Min(T) # 0
      OBVIOUS
    <2>1. T \in SUBSET Nat /\ T \in SUBSET Int /\ 0 \notin T
      BY <1>1 DEF At
    <2> HIDE DEF T
    <2>2. PICK x \in T : \A y \in T : x <= y
      BY <2>1, LeastExists
    <2>3. Min(T) = x
      BY <2>1, <2>2, MinIs
    <2> QED
      BY <2>1, <2>3
  <1>3. SelectInSeq(meminfo, LAMBDA l : l.label = label) = IF T # {} THEN Min(T) ELSE 0
    BY DEF SelectInSeq, At
  <1>4. Has(label) <=> T # {}
    BY <1>1 DEF Has, At
  <1> HIDE DEF T
  <1> QED
    BY <1>2, <1>3, <1>4 DEF Line, ValueOf, T

\* parse_meminfo(): whatever lines there are, and in whatever order, as long as
\* they keep to KernelOrder: the percentages are those of the lines of these
\* names, or the program ends.
THEOREM MeminfoIsRight == Spec => []MeminfoRight
  <1>1. Init => MeminfoInv
    BY DEF Init, MeminfoInv
  <1>2. MeminfoInv => MeminfoRight
    <2> SUFFICES ASSUME MeminfoInv, pc = "meminfo", meminfo # Unreadable PROVE MeminfoRight
      BY DEF MeminfoRight
    <2>1. /\ meminfo \in Meminfos /\ m = meminfo_t(meminfo) /\ KernelOrder(meminfo)
          /\ ~Lacks(Fatal, meminfo) /\ ~(NeedsGuess(meminfo) /\ Lacks(Guess, meminfo))
      BY MeminfoAssumption DEF MeminfoInv
    <2>2. \A l \in Labels :
            /\ Line(l) \in Nat
            /\ get_entry(l, meminfo) = IF Has(l) THEN Line(l) ELSE -61
            /\ Has(l) => \E i \in At(l, meminfo) : Line(l) = meminfo[i].kib
      BY <2>1, EntryIs, LineIs
    <2> DEFINE e(l) == get_entry(l, meminfo)
               MA == <<"Mem", "Available">>  MF == <<"Mem", "Free">>  CA == <<"Cached">>
               BU == <<"Buffers">>  SH == <<"Shmem">>  AN == <<"Anon", "Pages">>
               ST == <<"Swap", "Total">>  SF == <<"Swap", "Free">>
    <2>3. {MA, MF, CA, BU, SH, AN, ST, SF} \subseteq Labels /\ {ST, SF, AN} \subseteq Fatal
          /\ {MF, CA, BU, SH} \subseteq Guess
      BY DEF Labels, Fatal, Guess
    <2>4. SH = <<"Shmem">> /\ CA = <<"Cached">>
      OBVIOUS
    <2>5. /\ m.MemAvailablePercent =
               LET available == IF NeedsGuess(meminfo) THEN available_guesstimate(meminfo) ELSE e(MA)
               IN <<100 * available, available + e(AN)>>
          /\ m.SwapFreePercent = IF e(ST) > 0 THEN <<100 * e(SF), e(ST)>> ELSE <<0, 1>>
          /\ NeedsGuess(meminfo) <=> e(MA) < 0
          /\ available_guesstimate(meminfo) = e(MF) + e(CA) + e(BU) - e(SH)
      BY <2>1 DEF meminfo_t, NeedsGuess, available_guesstimate
    <2>6. MeminfoRight <=>
            LET available == IF Has(MA) THEN Line(MA)
                             ELSE Line(MF) + Line(CA) + Line(BU) - Line(SH)
            IN /\ m.MemAvailablePercent = <<100 * available, available + Line(AN)>>
               /\ available >= 0
               /\ IF Line(ST) = 0 THEN m.SwapFreePercent[1] = 0
                  ELSE m.SwapFreePercent = <<100 * Line(SF), Line(ST)>>
      BY DEF MeminfoRight
    <2> HIDE DEF MA, MF, CA, BU, SH, AN, ST, SF, e
    <2>7. e(AN) = Line(AN) /\ e(ST) = Line(ST) /\ e(SF) = Line(SF)
      <3>1. ASSUME NEW l \in {ST, SF, AN} PROVE e(l) = Line(l)
        <4>1. ~(e(l) < 0)
          BY <2>1, <2>3 DEF Lacks, e
        <4> QED
          BY <2>2, <2>3, <4>1 DEF e
      <3> QED
        BY <3>1
    <2>8. Has(MA) => ~NeedsGuess(meminfo) /\ e(MA) = Line(MA)
      BY <2>2, <2>3, <2>5 DEF e
    <2>9. ASSUME ~Has(MA)
          PROVE  /\ NeedsGuess(meminfo) /\ e(MF) = Line(MF) /\ e(CA) = Line(CA)
                 /\ e(BU) = Line(BU) /\ e(SH) = Line(SH) /\ Line(SH) <= Line(CA)
      <3>1. NeedsGuess(meminfo)
        BY <2>2, <2>3, <2>5, <2>9 DEF e
      <3>2. ASSUME NEW l \in {MF, CA, BU, SH} PROVE e(l) = Line(l) /\ Has(l)
        <4>1. ~(e(l) < 0)
          BY <2>1, <2>3, <3>1 DEF Lacks, e
        <4> QED
          BY <2>2, <2>3, <4>1 DEF e
      <3>3. PICK i \in At(SH, meminfo) : Line(SH) = meminfo[i].kib
        BY <2>2, <2>3, <3>2
      <3>4. PICK j \in At(CA, meminfo) : Line(CA) = meminfo[j].kib
        BY <2>2, <2>3, <3>2
      <3>5. /\ i \in DOMAIN meminfo /\ j \in DOMAIN meminfo
            /\ meminfo[i].label = <<"Shmem">> /\ meminfo[j].label = <<"Cached">>
        BY <2>1, <2>4 DEF At, KernelOrder
      <3>6. meminfo[i].kib <= meminfo[j].kib
        BY <2>1, <3>5 DEF KernelOrder
      <3> QED
        BY <3>1, <3>2, <3>3, <3>4, <3>6
    <2>10. /\ Line(MA) \in Nat /\ Line(MF) \in Nat /\ Line(CA) \in Nat /\ Line(BU) \in Nat
           /\ Line(SH) \in Nat /\ Line(AN) \in Nat /\ Line(ST) \in Nat /\ Line(SF) \in Nat
      BY <2>2, <2>3
    <2>11. IF Line(ST) = 0 THEN m.SwapFreePercent[1] = 0
           ELSE m.SwapFreePercent = <<100 * Line(SF), Line(ST)>>
      <3>1. CASE Line(ST) = 0
        <4>1. m.SwapFreePercent = <<0, 1>>
          BY <2>5, <2>7, <3>1
        <4> QED
          BY <3>1, <4>1
      <3>2. CASE Line(ST) # 0
        <4>1. e(ST) > 0
          BY <2>7, <2>10, <3>2
        <4> QED
          BY <2>5, <2>7, <3>2, <4>1
      <3> QED
        BY <3>1, <3>2
    <2>12. CASE Has(MA)
      BY <2>5, <2>6, <2>7, <2>8, <2>10, <2>11, <2>12
    <2>13. CASE ~Has(MA)
      <3> DEFINE available == Line(MF) + Line(CA) + Line(BU) - Line(SH)
      <3>1. available >= 0
        BY <2>9, <2>10, <2>13
      <3>2. m.MemAvailablePercent = <<100 * available, available + Line(AN)>>
        BY <2>5, <2>7, <2>9, <2>13
      <3> QED
        BY <2>6, <2>11, <2>13, <3>1, <3>2
    <2> QED
      BY <2>12, <2>13
  <1> QED
    BY <1>1, <1>2, MeminfoNext, PTL DEF Spec
=============================================================================
