------------------------------ MODULE Utf8Proofs ------------------------------
(***************************************************************************)
(* What utf8_complete_prefix does to every sequence of bytes: it cuts just *)
(* the character the text breaks off in, and cutting a stream piece by     *)
(* piece gives what cutting all of it gives.                               *)
(***************************************************************************)
EXTENDS Utf8, SequenceTheorems, TLAPS

\* The character that starts at j is the last of s, and s breaks off in it.
Unfinished(s, j) ==
  /\ j \in 1 .. Len(s) /\ s[j] # "cont"
  /\ j + Need(s[j]) > Len(s) + 1
  /\ \A i \in j + 1 .. Len(s) : s[i] = "cont"

\* What is kept back of s.
Rest(s) == SubSeq(s, CompletePrefix(s) + 1, Len(s))

\* s ends with t.
Ends(s, t) ==
  /\ Len(t) <= Len(s)
  /\ \A i \in 1 .. Len(t) : t[i] = s[Len(s) - Len(t) + i]

LEMMA NeedBounds == ASSUME NEW b PROVE Need(b) \in 1 .. 4
BY DEF Need

\* The character a text breaks off in is cut ...
LEMMA CutAtUnfinished ==
  ASSUME NEW s \in Seq(Byte), NEW j, Unfinished(s, j)
  PROVE  CompletePrefix(s) = j - 1 /\ j - 1 \in 0 .. Len(s) /\ Len(s) - (j - 1) <= 3
<1> DEFINE starts == {i \in 1 .. 4 : i <= Len(s) /\ FromEnd(s, i) # "cont"}
           i == Min(starts)
           k == Len(s) + 1 - j
<1>1. CompletePrefix(s) = IF starts # {} /\ Need(FromEnd(s, i)) > i THEN Len(s) - i ELSE Len(s)
  BY DEF CompletePrefix
<1>2. Len(s) \in Nat /\ j \in 1 .. Len(s) /\ Need(s[j]) \in 1 .. 4 /\ s[j] # "cont"
      /\ j + Need(s[j]) > Len(s) + 1 /\ \A x \in j + 1 .. Len(s) : s[x] = "cont"
  BY NeedBounds DEF Unfinished
<1>3. k \in 1 .. 3 /\ k <= Len(s) /\ Need(s[j]) > k /\ Len(s) + 1 - k = j /\ Len(s) - k = j - 1
  BY <1>2
<1>4. k \in starts
  BY <1>2, <1>3 DEF FromEnd
<1>5. ASSUME NEW x \in starts PROVE k <= x
  <2>1. x \in 1 .. 4 /\ x <= Len(s) /\ s[Len(s) + 1 - x] # "cont"
    BY DEF FromEnd
  <2>2. Len(s) + 1 - x \notin j + 1 .. Len(s)
    BY <1>2, <2>1
  <2> QED
    BY <1>2, <2>1, <2>2
<1>6. starts \subseteq Int
  OBVIOUS
<1>7. i = k
  <2>1. i \in starts /\ \A y \in starts : i <= y
    <3> HIDE DEF starts, k
    <3> QED
      BY <1>4, <1>5 DEF Min
  <2> HIDE DEF i, starts
  <2>2. i \in Int /\ i <= k
    BY <1>4, <1>6, <2>1
  <2>3. k <= i
    BY <1>5, <2>1
  <2> QED
    BY <1>3, <2>2, <2>3
<1> HIDE DEF i, starts
<1>8. FromEnd(s, i) = s[j]
  BY <1>3, <1>7 DEF FromEnd
<1> QED
  BY <1>1, <1>2, <1>3, <1>4, <1>7, <1>8

\* ... and nothing else is.
LEMMA NothingToCut ==
  ASSUME NEW s \in Seq(Byte), \A j \in 1 .. Len(s) : ~Unfinished(s, j)
  PROVE  CompletePrefix(s) = Len(s)
<1> DEFINE starts == {i \in 1 .. 4 : i <= Len(s) /\ FromEnd(s, i) # "cont"}
           i == Min(starts)
<1>1. CompletePrefix(s) = IF starts # {} /\ Need(FromEnd(s, i)) > i THEN Len(s) - i ELSE Len(s)
  BY DEF CompletePrefix
<1>2. SUFFICES ASSUME starts # {}, Need(FromEnd(s, i)) > i PROVE FALSE
  BY <1>1
<1>3. starts \subseteq 1 .. 4
  OBVIOUS
<1>4. \E x \in starts : \A y \in starts : x <= y
  <2>1. CASE 1 \in starts
    BY <1>3, <2>1
  <2>2. CASE 1 \notin starts /\ 2 \in starts
    BY <1>3, <2>2
  <2>3. CASE 1 \notin starts /\ 2 \notin starts /\ 3 \in starts
    BY <1>3, <2>3
  <2>4. CASE 1 \notin starts /\ 2 \notin starts /\ 3 \notin starts /\ 4 \in starts
    BY <1>3, <2>4
  <2>5. \E x \in starts : x \in {1, 2, 3, 4}
    BY <1>2, <1>3
  <2> QED
    BY <2>1, <2>2, <2>3, <2>4, <2>5
<1>5. i \in starts /\ \A y \in starts : i <= y
  BY <1>4 DEF Min
<1>6. i \in 1 .. 4 /\ i <= Len(s) /\ FromEnd(s, i) # "cont" /\ Len(s) \in Nat
  BY <1>5
<1>7. \A x \in 1 .. 4 : x <= Len(s) /\ x < i => FromEnd(s, x) = "cont"
  BY <1>3, <1>5, <1>6
<1> HIDE DEF i, starts
<1> DEFINE j == Len(s) + 1 - i
<1>8. j \in 1 .. Len(s) /\ s[j] # "cont"
  BY <1>6 DEF FromEnd
<1>9. Need(s[j]) \in 1 .. 4 /\ j + Need(s[j]) > Len(s) + 1
  BY <1>2, <1>6, NeedBounds DEF FromEnd
<1>10. ASSUME NEW x \in j + 1 .. Len(s) PROVE s[x] = "cont"
  <2>1. Len(s) + 1 - x \in 1 .. 4 /\ Len(s) + 1 - x <= Len(s) /\ Len(s) + 1 - x < i
        /\ Len(s) + 1 - (Len(s) + 1 - x) = x
    BY <1>6, <1>8
  <2> QED
    BY <1>7, <2>1 DEF FromEnd
<1>11. Unfinished(s, j)
  BY <1>8, <1>9, <1>10 DEF Unfinished
<1> QED
  BY <1>2, <1>8, <1>11

LEMMA Cuts ==
  ASSUME NEW s \in Seq(Byte)
  PROVE  /\ CompletePrefix(s) \in 0 .. Len(s) /\ Len(s) - CompletePrefix(s) <= 3
         /\ CompletePrefix(s) = Len(s) \/ Unfinished(s, CompletePrefix(s) + 1)
         /\ \A j \in 1 .. Len(s) : Unfinished(s, j) => CompletePrefix(s) = j - 1
<1>1. Len(s) \in Nat
  OBVIOUS
<1>2. CASE \A j \in 1 .. Len(s) : ~Unfinished(s, j)
  BY <1>1, <1>2, NothingToCut
<1>3. ASSUME NEW j \in 1 .. Len(s), Unfinished(s, j)
      PROVE  /\ CompletePrefix(s) \in 0 .. Len(s) /\ Len(s) - CompletePrefix(s) <= 3
             /\ Unfinished(s, CompletePrefix(s) + 1)
  <2>1. CompletePrefix(s) = j - 1 /\ j - 1 \in 0 .. Len(s) /\ Len(s) - (j - 1) <= 3 /\ (j - 1) + 1 = j
    BY <1>1, <1>3, CutAtUnfinished
  <2> QED
    BY <1>3, <2>1
<1>4. \A j \in 1 .. Len(s) : Unfinished(s, j) => CompletePrefix(s) = j - 1
  BY CutAtUnfinished
<1> QED
  BY <1>2, <1>3, <1>4

LEMMA CutAndRest ==
  ASSUME NEW s \in Seq(Byte)
  PROVE  /\ Cut(s) \in Seq(Byte) /\ Len(Cut(s)) = CompletePrefix(s)
         /\ \A i \in 1 .. CompletePrefix(s) : Cut(s)[i] = s[i]
         /\ Rest(s) \in Seq(Byte) /\ Len(Rest(s)) = Len(s) - CompletePrefix(s)
         /\ \A i \in 1 .. Len(Rest(s)) : Rest(s)[i] = s[CompletePrefix(s) + i]
<1> DEFINE n == CompletePrefix(s)
<1>1. n \in 0 .. Len(s) /\ Len(s) \in Nat
  BY Cuts
<1> HIDE DEF n
<1>2. /\ SubSeq(s, 1, n) \in Seq(Byte) /\ Len(SubSeq(s, 1, n)) = n
      /\ \A i \in 1 .. n : SubSeq(s, 1, n)[i] = s[i]
  BY <1>1
<1>3. SubSeq(s, n + 1, Len(s)) \in Seq(Byte) /\ Len(SubSeq(s, n + 1, Len(s))) = Len(s) - n
  BY <1>1
<1>4. \A i \in 1 .. Len(s) - n : SubSeq(s, n + 1, Len(s))[i] = s[n + i]
  BY <1>1
<1> QED
  BY <1>2, <1>3, <1>4 DEF Cut, Rest, n

-----------------------------------------------------------------------------
(* Streams. *)

\* A text goes on in itself, or in what follows it.
LEMMA Joined ==
  ASSUME NEW s \in Seq(Byte), NEW t \in Seq(Byte)
  PROVE  /\ s \o t \in Seq(Byte) /\ Len(s \o t) = Len(s) + Len(t)
         /\ \A i \in 1 .. Len(s) : (s \o t)[i] = s[i]
         /\ \A i \in 1 .. Len(t) : (s \o t)[Len(s) + i] = t[i]
OBVIOUS

\* What is cut from the front is what remains' front.
LEMMA SplitWithin ==
  ASSUME NEW a \in Seq(Byte), NEW u \in Seq(Byte), NEW m \in 0 .. Len(u)
  PROVE  /\ SubSeq(a \o u, 1, Len(a) + m) = a \o SubSeq(u, 1, m)
         /\ SubSeq(a \o u, Len(a) + m + 1, Len(a \o u)) = SubSeq(u, m + 1, Len(u))
<1>1. /\ Len(a) \in Nat /\ Len(u) \in Nat /\ m \in Nat /\ m <= Len(u)
      /\ a \o u \in Seq(Byte) /\ Len(a \o u) = Len(a) + Len(u)
  OBVIOUS
<1>2. SubSeq(a \o u, 1, Len(a) + m) = a \o SubSeq(u, 1, m)
  OBVIOUS
<1>3. SubSeq(a \o u, Len(a) + m + 1, Len(a \o u)) = SubSeq(u, m + 1, Len(u))
  OBVIOUS
<1> QED
  BY <1>2, <1>3

LEMMA EndsJoined ==
  ASSUME NEW a \in Seq(Byte), NEW u \in Seq(Byte)
  PROVE  Ends(a \o u, u) /\ Len(a \o u) - Len(u) = Len(a)
<1>1. Len(a \o u) - Len(u) = Len(a) /\ Len(u) <= Len(a \o u)
  OBVIOUS
<1>2. \A i \in 1 .. Len(u) : (a \o u)[Len(a) + i] = u[i]
  OBVIOUS
<1> QED
  BY <1>1, <1>2 DEF Ends

LEMMA Rejoined ==
  ASSUME NEW s \in Seq(Byte)
  PROVE  Cut(s) \o Rest(s) = s
<1> DEFINE n == CompletePrefix(s)
<1>1. n \in 0 .. Len(s) /\ Len(s) \in Nat
  BY Cuts
<1> HIDE DEF n
<1>2. SubSeq(s, 1, n) \o SubSeq(s, n + 1, Len(s)) = SubSeq(s, 1, Len(s))
  <2>1. 1 \in 1 .. Len(s) + 1 /\ n \in 1 - 1 .. Len(s) /\ Len(s) \in n .. Len(s)
    BY <1>1
  <2> QED
    BY <2>1, ConcatAdjacentSubSeq, Zenon
<1>3. SubSeq(s, 1, Len(s)) = s
  BY SubSeqFull, Zenon
<1> QED
  BY <1>2, <1>3 DEF Cut, Rest, n

\* Where a text that ends with u breaks off within u, u does.
LEMMA UnfinishedInEnd ==
  ASSUME NEW s \in Seq(Byte), NEW u \in Seq(Byte), Ends(s, u), NEW j \in 1 .. Len(u)
  PROVE  Unfinished(u, j) <=> Unfinished(s, Len(s) - Len(u) + j)
<1> DEFINE d == Len(s) - Len(u)
<1>1. d \in Nat /\ Len(s) = d + Len(u) /\ Len(u) \in Nat /\ j \in Nat
  BY DEF Ends
<1>2. \A i \in 1 .. Len(u) : u[i] = s[d + i]
  BY DEF Ends
<1> HIDE DEF d
<1>3. u[j] = s[d + j] /\ Need(u[j]) \in 1 .. 4 /\ d + j \in 1 .. Len(s)
  BY <1>1, <1>2, NeedBounds
<1>4. j + Need(u[j]) > Len(u) + 1 <=> d + j + Need(s[d + j]) > Len(s) + 1
  BY <1>1, <1>3
<1>5. (\A i \in j + 1 .. Len(u) : u[i] = "cont") <=> \A i \in d + j + 1 .. Len(s) : s[i] = "cont"
  <2>1. ASSUME \A i \in j + 1 .. Len(u) : u[i] = "cont", NEW i \in d + j + 1 .. Len(s) PROVE s[i] = "cont"
    <3>1. i - d \in j + 1 .. Len(u) /\ i - d \in 1 .. Len(u) /\ d + (i - d) = i
      BY <1>1
    <3> QED
      BY <1>2, <2>1, <3>1
  <2>2. ASSUME \A i \in d + j + 1 .. Len(s) : s[i] = "cont", NEW i \in j + 1 .. Len(u) PROVE u[i] = "cont"
    <3>1. d + i \in d + j + 1 .. Len(s) /\ i \in 1 .. Len(u)
      BY <1>1
    <3> QED
      BY <1>2, <2>2, <3>1
  <2> QED
    BY <2>1, <2>2
<1> QED
  BY <1>3, <1>4, <1>5 DEF Unfinished, d

\* More bytes finish the character a text broke off in, or leave it broken off.
LEMMA UnfinishedBefore ==
  ASSUME NEW s \in Seq(Byte), NEW t \in Seq(Byte), NEW j \in 1 .. Len(s), Unfinished(s \o t, j)
  PROVE  Unfinished(s, j)
<1>1. /\ Len(s) \in Nat /\ Len(t) \in Nat /\ Len(s \o t) = Len(s) + Len(t)
      /\ \A i \in 1 .. Len(s) : (s \o t)[i] = s[i]
  BY Joined
<1>2. s[j] # "cont" /\ Need(s[j]) \in 1 .. 4 /\ j + Need(s[j]) > Len(s) + Len(t) + 1
  BY <1>1, NeedBounds DEF Unfinished
<1>3. \A i \in j + 1 .. Len(s) : s[i] = "cont"
  BY <1>1 DEF Unfinished
<1> QED
  BY <1>1, <1>2, <1>3 DEF Unfinished

LEMMA Associative ==
  ASSUME NEW a \in Seq(Byte), NEW b \in Seq(Byte), NEW c \in Seq(Byte)
  PROVE  (a \o b) \o c = a \o (b \o c)
BY ConcatAssociative

\* A text and what follows it is what was cut of it and what follows the rest.
LEMMA KeptBack ==
  ASSUME NEW s \in Seq(Byte), NEW t \in Seq(Byte)
  PROVE  /\ Rest(s) \o t \in Seq(Byte) /\ s \o t \in Seq(Byte)
         /\ s \o t = Cut(s) \o (Rest(s) \o t)
<1>1. Cut(s) \in Seq(Byte) /\ Rest(s) \in Seq(Byte) /\ Cut(s) \o Rest(s) = s
  BY CutAndRest, Rejoined
<1>2. (Cut(s) \o Rest(s)) \o t = Cut(s) \o (Rest(s) \o t)
  BY <1>1, Associative
<1> QED
  BY <1>1, <1>2, Joined

\* What was kept back, with what comes next, is cut where all of it is.
LEMMA CutGoesOn ==
  ASSUME NEW s \in Seq(Byte), NEW t \in Seq(Byte)
  PROVE  CompletePrefix(s \o t) = CompletePrefix(s) + CompletePrefix(Rest(s) \o t)
<1> DEFINE n == CompletePrefix(s)
           u == Rest(s) \o t
           x == s \o t
<1>1. n \in 0 .. Len(s) /\ Len(s) \in Nat
  BY Cuts
<1>2. u \in Seq(Byte) /\ x \in Seq(Byte) /\ x = Cut(s) \o u /\ Cut(s) \in Seq(Byte) /\ Len(Cut(s)) = n
  BY KeptBack, CutAndRest
<1>3. \A j \in 1 .. Len(s) : Unfinished(x, j) => n = j - 1
  BY UnfinishedBefore, Cuts
<1> HIDE DEF n, u, x
<1>4. Ends(x, u) /\ Len(x) - Len(u) = n /\ Len(x) \in Nat /\ Len(u) \in Nat
  BY <1>2, EndsJoined
<1>5. \A j \in 1 .. Len(u) : Unfinished(u, j) <=> Unfinished(x, n + j)
  BY <1>2, <1>4, UnfinishedInEnd
<1>6. \A j \in 1 .. Len(x) : Unfinished(x, j) => CompletePrefix(x) = j - 1
  BY <1>2, Cuts
<1>7. CompletePrefix(u) \in 0 .. Len(u) /\ (CompletePrefix(u) = Len(u) \/ Unfinished(u, CompletePrefix(u) + 1))
      /\ \A j \in 1 .. Len(u) : Unfinished(u, j) => CompletePrefix(u) = j - 1
  BY <1>2, Cuts
<1>8. ASSUME CompletePrefix(u) # Len(u)
      PROVE  CompletePrefix(x) = n + CompletePrefix(u)
  <2> DEFINE j == CompletePrefix(u) + 1
  <2>1. j \in 1 .. Len(u) /\ Unfinished(u, j) /\ CompletePrefix(u) \in Nat /\ CompletePrefix(u) = j - 1
    BY <1>4, <1>7, <1>8 DEF Unfinished
  <2> HIDE DEF j
  <2>2. Unfinished(x, n + j) /\ n + j \in 1 .. Len(x)
    BY <1>5, <2>1 DEF Unfinished
  <2>3. CompletePrefix(x) = (n + j) - 1
    BY <1>6, <2>2, Zenon
  <2> QED
    BY <1>1, <2>1, <2>3
<1>9. ASSUME CompletePrefix(u) = Len(u)
      PROVE  CompletePrefix(x) = n + CompletePrefix(u)
  <2>1. ASSUME NEW j \in 1 .. Len(x), Unfinished(x, j) PROVE FALSE
    <3>1. CASE j > n
      <4>1. j - n \in 1 .. Len(u) /\ n + (j - n) = j
        BY <1>1, <1>4, <3>1
      <4>2. Unfinished(u, j - n)
        BY <1>5, <2>1, <4>1
      <4>3. CompletePrefix(u) = (j - n) - 1
        BY <1>7, <4>1, <4>2
      <4> QED
        BY <1>1, <1>9, <4>1, <4>3
    <3>2. CASE j <= n
      <4>1. j \in 1 .. Len(s)
        BY <1>1, <3>2
      <4>2. n = j - 1
        BY <1>3, <2>1, <4>1
      <4> QED
        BY <1>1, <3>2, <4>1, <4>2
    <3> QED
      BY <1>1, <3>1, <3>2
  <2>2. CompletePrefix(x) = Len(x)
    BY <1>2, <2>1, NothingToCut
  <2> QED
    BY <1>1, <1>4, <1>9, <2>2
<1> QED
  BY <1>8, <1>9 DEF n, u, x

(* Decode streams each piece with the bytes it kept back, cut to whole     *)
(* characters: whatever the bytes and wherever they are broken into        *)
(* pieces, what was streamed is the cut of all the text, and what is kept  *)
(* back is what that cut leaves.                                           *)
THEOREM StreamIsCut ==
  ASSUME NEW s \in Seq(Byte), NEW t \in Seq(Byte)
  PROVE  /\ Cut(s \o t) = Cut(s) \o Cut(Rest(s) \o t)
         /\ Rest(s \o t) = Rest(Rest(s) \o t)
<1> DEFINE u == Rest(s) \o t
           m == CompletePrefix(u)
           a == Cut(s)
<1>1. u \in Seq(Byte) /\ s \o t = a \o u /\ a \in Seq(Byte) /\ CompletePrefix(s) = Len(a)
  BY KeptBack, CutAndRest
<1>2. CompletePrefix(s \o t) = CompletePrefix(s) + m
  BY CutGoesOn
<1> HIDE DEF u, a
<1>3. m \in 0 .. Len(u)
  BY <1>1, Cuts
<1>4. CompletePrefix(a \o u) = Len(a) + m
  BY <1>1, <1>2
<1> HIDE DEF m
<1>5. /\ SubSeq(a \o u, 1, Len(a) + m) = a \o SubSeq(u, 1, m)
      /\ SubSeq(a \o u, Len(a) + m + 1, Len(a \o u)) = SubSeq(u, m + 1, Len(u))
  BY <1>1, <1>3, SplitWithin
<1>6. Cut(u) = SubSeq(u, 1, m) /\ Rest(u) = SubSeq(u, m + 1, Len(u))
  BY DEF Cut, Rest, m
<1>7. Cut(a \o u) = a \o Cut(u) /\ Rest(a \o u) = Rest(u)
  BY <1>4, <1>5, <1>6, Zenon DEF Cut, Rest
<1> QED
  BY <1>1, <1>7, Zenon DEF a, u

-----------------------------------------------------------------------------
(* Whole texts. *)

\* A text is whole when each byte is covered once, by a character that ends in it.
LEMMA WholeStarts == ASSUME NEW p \in Seq(Byte), Whole(p), p # <<>> PROVE p[1] # "cont" /\ 1 \in 1 .. Len(p)
<1>1. Len(p) \in Nat /\ Len(p) # 0 /\ DOMAIN p = 1 .. Len(p)
  BY EmptySeq
<1>2. 1 \in 1 .. Len(p)
  BY <1>1
<1>3. PICK i \in 1 .. Len(p) : Covers(p, i, 1)
  BY <1>1, <1>2 DEF Whole
<1>4. p[i] # "cont" /\ i <= 1
  BY <1>3 DEF Covers
<1> QED
  BY <1>2, <1>4

LEMMA CoversLocally ==
  ASSUME NEW s \in Seq(Byte), NEW i \in Nat, NEW j \in Nat
  PROVE  Covers(s, i, j) <=> s[i] # "cont" /\ i <= j /\ j < i + Need(s[i])
<1>1. Need(s[i]) \in 1 .. 4
  BY NeedBounds
<1> QED
  BY <1>1 DEF Covers

LEMMA WholeJoin ==
  ASSUME NEW a \in Seq(Byte), NEW b \in Seq(Byte), Whole(a), Whole(b)
  PROVE  Whole(a \o b)
<1> DEFINE t == a \o b
           n == Len(a)
           k == Len(b)
<1>1. /\ t \in Seq(Byte) /\ n \in Nat /\ k \in Nat /\ Len(t) = n + k
      /\ \A i \in 1 .. n : t[i] = a[i]
      /\ \A i \in 1 .. k : t[n + i] = b[i]
      /\ DOMAIN t = 1 .. n + k /\ DOMAIN a = 1 .. n /\ DOMAIN b = 1 .. k
  BY Joined
<1> HIDE DEF t
<1>2. /\ \A j \in 1 .. n : \E i \in 1 .. n : Covers(a, i, j)
      /\ \A i \in 1 .. n : \A j \in 1 .. n : i # j /\ Covers(a, i, j) => a[j] = "cont"
      /\ \A i \in 1 .. n : a[i] # "cont" => i + Need(a[i]) - 1 <= n
  BY <1>1 DEF Whole
<1>3. /\ \A j \in 1 .. k : \E i \in 1 .. k : Covers(b, i, j)
      /\ \A i \in 1 .. k : \A j \in 1 .. k : i # j /\ Covers(b, i, j) => b[j] = "cont"
      /\ \A i \in 1 .. k : b[i] # "cont" => i + Need(b[i]) - 1 <= k
  BY <1>1 DEF Whole
<1> HIDE DEF n, k
<1>4. \A i \in 1 .. n, j \in 1 .. n : Covers(t, i, j) <=> Covers(a, i, j)
  BY <1>1 DEF Covers
<1>5. \A i \in 1 .. k, j \in 1 .. k : Covers(t, n + i, n + j) <=> Covers(b, i, j)
  <2> SUFFICES ASSUME NEW i \in 1 .. k, NEW j \in 1 .. k
               PROVE  Covers(t, n + i, n + j) <=> Covers(b, i, j)
    OBVIOUS
  <2>1. t[n + i] = b[i] /\ Need(b[i]) \in 1 .. 4 /\ n + i \in Nat /\ n + j \in Nat
    BY <1>1, NeedBounds
  <2>2. Covers(t, n + i, n + j) <=> t[n + i] # "cont" /\ n + i <= n + j /\ n + j < n + i + Need(t[n + i])
    BY <1>1, <2>1, CoversLocally
  <2>3. Covers(b, i, j) <=> b[i] # "cont" /\ i <= j /\ j < i + Need(b[i])
    BY CoversLocally
  <2> QED
    BY <1>1, <2>1, <2>2, <2>3
\* Every place of t is one of a's or one of b's.
<1>6. \A j \in 1 .. n + k : j \in 1 .. n \/ (j - n \in 1 .. k /\ n + (j - n) = j)
  BY <1>1
<1>7. ASSUME NEW j \in 1 .. n + k PROVE \E i \in 1 .. n + k : Covers(t, i, j)
  <2>1. CASE j \in 1 .. n
    <3>1. PICK i \in 1 .. n : Covers(a, i, j)
      BY <1>2, <2>1
    <3>2. i \in 1 .. n + k /\ Covers(t, i, j)
      BY <1>1, <1>4, <2>1, <3>1
    <3> QED
      BY <3>2
  <2>2. CASE j - n \in 1 .. k /\ n + (j - n) = j
    <3>1. PICK i \in 1 .. k : Covers(b, i, j - n)
      BY <1>3, <2>2
    <3>2. n + i \in 1 .. n + k /\ Covers(t, n + i, j)
      BY <1>1, <1>5, <2>2, <3>1
    <3> QED
      BY <3>2
  <2> QED
    BY <1>6, <2>1, <2>2
<1>8. ASSUME NEW i \in 1 .. n + k PROVE t[i] # "cont" => i + Need(t[i]) - 1 <= n + k
  <2>1. Need(t[i]) \in 1 .. 4
    BY NeedBounds
  <2>2. CASE i \in 1 .. n
    <3>1. t[i] = a[i] /\ (a[i] # "cont" => i + Need(a[i]) - 1 <= n)
      BY <1>1, <1>2, <2>2
    <3> QED
      BY <1>1, <2>1, <2>2, <3>1
  <2>3. CASE i - n \in 1 .. k /\ n + (i - n) = i
    <3>1. t[i] = b[i - n] /\ (b[i - n] # "cont" => (i - n) + Need(b[i - n]) - 1 <= k)
      BY <1>1, <1>3, <2>3
    <3> QED
      BY <1>1, <2>1, <2>3, <3>1
  <2> QED
    BY <1>6, <2>2, <2>3
<1>9. ASSUME NEW i \in 1 .. n + k, NEW j \in 1 .. n + k, i # j, Covers(t, i, j) PROVE t[j] = "cont"
  <2>0. i \in Nat /\ j \in Nat /\ Need(t[i]) \in 1 .. 4
    BY <1>1, NeedBounds
  <2>1. t[i] # "cont" /\ i <= j /\ j < i + Need(t[i])
    BY <1>1, <1>9, <2>0, CoversLocally
  <2>2. CASE i \in 1 .. n
    <3>1. t[i] = a[i] /\ i + Need(a[i]) - 1 <= n
      BY <1>1, <1>2, <2>1, <2>2
    <3>2. j \in 1 .. n
      BY <1>1, <2>0, <2>1, <3>1
    <3>3. Covers(a, i, j)
      BY <1>4, <1>9, <2>2, <3>2
    <3> QED
      BY <1>1, <1>2, <1>9, <2>2, <3>2, <3>3
  <2>3. CASE i - n \in 1 .. k /\ n + (i - n) = i
    <3>1. j - n \in 1 .. k /\ n + (j - n) = j /\ i - n # j - n
      BY <1>1, <1>9, <2>0, <2>1, <2>3
    <3>2. Covers(b, i - n, j - n)
      BY <1>5, <1>9, <2>3, <3>1
    <3>3. t[j] = b[j - n]
      BY <1>1, <3>1
    <3> QED
      BY <1>3, <2>3, <3>1, <3>2, <3>3
  <2> QED
    BY <1>6, <2>2, <2>3
<1> QED
  BY <1>1, <1>7, <1>8, <1>9 DEF Whole, t

LEMMA WholeTail ==
  ASSUME NEW a \in Seq(Byte), NEW b \in Seq(Byte), Whole(a), Whole(a \o b)
  PROVE  Whole(b)
<1> DEFINE t == a \o b
           n == Len(a)
           k == Len(b)
<1>1. /\ t \in Seq(Byte) /\ n \in Nat /\ k \in Nat /\ Len(t) = n + k
      /\ \A i \in 1 .. n : t[i] = a[i]
      /\ \A i \in 1 .. k : t[n + i] = b[i]
      /\ DOMAIN t = 1 .. n + k /\ DOMAIN a = 1 .. n /\ DOMAIN b = 1 .. k
  BY Joined
<1> HIDE DEF t
<1>2. \A i \in 1 .. n : a[i] # "cont" => i + Need(a[i]) - 1 <= n
  BY <1>1 DEF Whole
<1>3. /\ \A j \in 1 .. n + k : \E i \in 1 .. n + k : Covers(t, i, j)
      /\ \A i \in 1 .. n + k : \A j \in 1 .. n + k : i # j /\ Covers(t, i, j) => t[j] = "cont"
      /\ \A i \in 1 .. n + k : t[i] # "cont" => i + Need(t[i]) - 1 <= n + k
  BY <1>1 DEF Whole, t
<1> HIDE DEF n, k
<1>4. ASSUME NEW i \in 1 .. k, NEW j \in 1 .. k PROVE Covers(t, n + i, n + j) <=> Covers(b, i, j)
  <2>1. t[n + i] = b[i] /\ Need(b[i]) \in 1 .. 4 /\ n + i \in Nat /\ n + j \in Nat
    BY <1>1, NeedBounds
  <2>2. Covers(t, n + i, n + j) <=> t[n + i] # "cont" /\ n + i <= n + j /\ n + j < n + i + Need(t[n + i])
    BY <1>1, <2>1, CoversLocally
  <2>3. Covers(b, i, j) <=> b[i] # "cont" /\ i <= j /\ j < i + Need(b[i])
    BY CoversLocally
  <2> QED
    BY <1>1, <2>1, <2>2, <2>3
<1>5. ASSUME NEW j \in 1 .. k PROVE \E i \in 1 .. k : Covers(b, i, j)
  <2>1. n + j \in 1 .. n + k
    BY <1>1
  <2>2. PICK i \in 1 .. n + k : Covers(t, i, n + j)
    BY <1>3, <2>1
  <2>3. t[i] # "cont" /\ i <= n + j /\ n + j < i + Need(t[i]) /\ Need(t[i]) \in 1 .. 4
    <3>1. i \in Nat /\ n + j \in Nat /\ Need(t[i]) \in 1 .. 4
      BY <1>1, <2>1, NeedBounds
    <3> QED
      BY <1>1, <2>2, <3>1, CoversLocally
  <2>4. i > n
    <3>1. SUFFICES ASSUME i \in 1 .. n PROVE FALSE
      BY <1>1
    <3>2. t[i] = a[i] /\ i + Need(t[i]) - 1 <= n
      BY <1>1, <1>2, <2>3, <3>1
    <3> QED
      BY <1>1, <2>3, <3>2
  <2>5. i - n \in 1 .. k /\ n + (i - n) = i
    BY <1>1, <2>4
  <2> QED
    BY <1>4, <2>2, <2>5
<1>6. ASSUME NEW i \in 1 .. k, NEW j \in 1 .. k, i # j, Covers(b, i, j) PROVE b[j] = "cont"
  <2>1. n + i \in 1 .. n + k /\ n + j \in 1 .. n + k /\ n + i # n + j
    BY <1>1, <1>6
  <2> QED
    BY <1>1, <1>3, <1>4, <1>6, <2>1
<1>7. ASSUME NEW i \in 1 .. k, b[i] # "cont" PROVE i + Need(b[i]) - 1 <= k
  <2>1. n + i \in 1 .. n + k /\ t[n + i] = b[i] /\ Need(b[i]) \in 1 .. 4
    BY <1>1, NeedBounds
  <2>2. n + i + Need(b[i]) - 1 <= n + k
    BY <1>3, <1>7, <2>1
  <2> QED
    BY <1>1, <2>1, <2>2
<1> QED
  BY <1>1, <1>5, <1>6, <1>7 DEF Whole, k

LEMMA WholeIsNotBroken == ASSUME NEW s \in Seq(Byte), Whole(s), NEW j PROVE ~Unfinished(s, j)
<1> SUFFICES ASSUME Unfinished(s, j) PROVE FALSE
  OBVIOUS
<1>1. j \in 1 .. Len(s) /\ j \in DOMAIN s /\ s[j] # "cont" /\ j + Need(s[j]) > Len(s) + 1 /\ Len(s) \in Nat
  BY DEF Unfinished
<1>2. j + Need(s[j]) - 1 <= Len(s) /\ Need(s[j]) \in 1 .. 4
  BY <1>1, NeedBounds DEF Whole
<1> QED
  BY <1>1, <1>2

LEMMA WholeIsKept == ASSUME NEW s \in Seq(Byte), Whole(s) PROVE CompletePrefix(s) = Len(s) /\ Cut(s) = s /\ Rest(s) = <<>>
<1>1. CompletePrefix(s) = Len(s)
  BY WholeIsNotBroken, NothingToCut
<1>2. SubSeq(s, 1, Len(s)) = s /\ Len(s) \in Nat
  BY SubSeqFull
<1>3. SubSeq(s, Len(s) + 1, Len(s)) = <<>>
  BY <1>2, SubSeqEmpty
<1> QED
  BY <1>1, <1>2, <1>3, Zenon DEF Cut, Rest

\* Where UTF-8 breaks off, the text before is whole.
LEMMA SoFarIsWhole == ASSUME NEW s \in Seq(Byte), WellFormedSoFar(s) PROVE Whole(Cut(s))
<1>1. CASE Whole(s)
  BY <1>1, WholeIsKept
<1>2. ASSUME NEW k \in 1 .. 3, k <= Len(s), Whole(SubSeq(s, 1, Len(s) - k)), Need(FromEnd(s, k)) > k,
             \A i \in 1 .. k - 1 : FromEnd(s, i) = "cont"
      PROVE  Whole(Cut(s))
  <2> DEFINE j == Len(s) + 1 - k
  <2>1. Len(s) \in Nat /\ j \in 1 .. Len(s) /\ j - 1 = Len(s) - k /\ FromEnd(s, k) = s[j]
    BY <1>2 DEF FromEnd
  <2>2. s[j] # "cont" /\ Need(s[j]) \in 1 .. 4
    BY <1>2, <2>1, NeedBounds DEF Need
  <2>3. j + Need(s[j]) > Len(s) + 1
    BY <1>2, <2>1, <2>2
  <2>4. ASSUME NEW i \in j + 1 .. Len(s) PROVE s[i] = "cont"
    <3>1. Len(s) + 1 - i \in 1 .. k - 1 /\ Len(s) + 1 - (Len(s) + 1 - i) = i
      BY <2>1
    <3> QED
      BY <1>2, <3>1 DEF FromEnd
  <2>5. Unfinished(s, j)
    BY <2>1, <2>2, <2>3, <2>4 DEF Unfinished
  <2>6. CompletePrefix(s) = Len(s) - k
    BY <2>1, <2>5, CutAtUnfinished
  <2> QED
    BY <1>2, <2>6 DEF Cut
<1> QED
  BY <1>1, <1>2 DEF WellFormedSoFar

(* Of UTF-8 broken off anywhere, utf8_complete_prefix keeps whole          *)
(* characters, and as many as there are.                                   *)
THEOREM CutIsTheWholeText ==
  ASSUME NEW s \in Seq(Byte), WellFormedSoFar(s)
  PROVE  /\ Whole(Cut(s))
         /\ \A n \in 0 .. Len(s) : Whole(SubSeq(s, 1, n)) => n <= CompletePrefix(s)
<1>1. Whole(Cut(s))
  BY SoFarIsWhole
<1>2. ASSUME NEW n \in 0 .. Len(s), Whole(SubSeq(s, 1, n)), ~(n <= CompletePrefix(s)) PROVE FALSE
  <2> DEFINE j == CompletePrefix(s) + 1
             w == SubSeq(s, 1, n)
  <2>1. CompletePrefix(s) \in 0 .. Len(s) /\ Len(s) \in Nat /\ (CompletePrefix(s) = Len(s) \/ Unfinished(s, j))
    BY Cuts
  <2>2. Unfinished(s, j) /\ j \in 1 .. n
    BY <1>2, <2>1
  <2> HIDE DEF j
  <2>3. w \in Seq(Byte) /\ Len(w) = n /\ DOMAIN w = 1 .. n /\ \A i \in 1 .. n : w[i] = s[i]
    BY <2>1
  <2>4. w[j] # "cont" /\ j + Need(w[j]) > Len(s) + 1 /\ Need(w[j]) \in 1 .. 4
    BY <2>2, <2>3, NeedBounds DEF Unfinished
  <2> HIDE DEF w
  <2>5. Whole(w)
    BY <1>2 DEF w
  <2>6. j + Need(w[j]) - 1 <= n
    BY <2>2, <2>3, <2>4, <2>5 DEF Whole
  <2> QED
    BY <2>1, <2>2, <2>4, <2>6
<1> QED
  BY <1>1, <1>2

\* A whole text, which begins a character, ends what came before or breaks it;
\* nothing of it is kept back.
LEMMA WholeEndsStream ==
  ASSUME NEW s \in Seq(Byte), NEW p \in Seq(Byte), Whole(p), p # <<>>
  PROVE  /\ CompletePrefix(s \o p) = Len(s \o p)
         /\ Whole(Cut(s \o p)) => CompletePrefix(s) = Len(s)
<1> DEFINE t == s \o p
           n == Len(s)
           k == Len(p)
<1>1. /\ t \in Seq(Byte) /\ n \in Nat /\ k \in Nat /\ Len(t) = n + k
      /\ \A i \in 1 .. n : t[i] = s[i]
      /\ \A i \in 1 .. k : t[n + i] = p[i]
      /\ DOMAIN t = 1 .. n + k
  BY Joined
<1> HIDE DEF t
<1>2. p[1] # "cont" /\ 1 \in 1 .. k
  BY WholeStarts
<1>3. Ends(t, p) /\ Len(t) - k = n
  BY EndsJoined DEF t
<1>4. ASSUME NEW j \in 1 .. Len(t), Unfinished(t, j) PROVE FALSE
  <2>1. CASE j <= n
    <3>1. n + 1 \in j + 1 .. Len(t) /\ t[n + 1] = p[1]
      BY <1>1, <1>2, <2>1
    <3>2. t[n + 1] = "cont"
      BY <1>4, <3>1 DEF Unfinished
    <3> QED
      BY <1>2, <3>1, <3>2
  <2>2. CASE j > n
    <3>1. j - n \in 1 .. k /\ n + (j - n) = j
      BY <1>1, <2>2
    <3>2. Unfinished(p, j - n)
      <4> HIDE DEF n, k
      <4>1. Unfinished(p, j - n) <=> Unfinished(t, Len(t) - k + (j - n))
        BY <1>1, <1>3, <3>1, UnfinishedInEnd DEF k
      <4> QED
        BY <1>3, <1>4, <3>1, <4>1
    <3> QED
      BY <3>2, WholeIsNotBroken
  <2> QED
    BY <1>1, <2>1, <2>2
<1>5. CompletePrefix(t) = Len(t)
  BY <1>1, <1>4, NothingToCut
<1>6. ASSUME Whole(Cut(t)), CompletePrefix(s) # n PROVE FALSE
  <2>1. Cut(t) = t
    BY <1>1, <1>5, SubSeqFull DEF Cut
  <2>2. Whole(t)
    BY <1>6, <2>1
  <2> DEFINE j == CompletePrefix(s) + 1
  <2>3. Unfinished(s, j)
    BY <1>6, Cuts
  <2> HIDE DEF j
  <2>4. j \in 1 .. n /\ s[j] # "cont" /\ j + Need(s[j]) > n + 1
    BY <2>3 DEF Unfinished
  <2>5. t[j] = s[j] /\ Need(t[j]) \in 1 .. 4 /\ n + 1 \in 1 .. n + k /\ t[n + 1] = p[1] /\ j \in 1 .. n + k
    BY <1>1, <1>2, <2>4, NeedBounds
  <2>6. Covers(t, j, n + 1) /\ j # n + 1
    BY <1>1, <2>4, <2>5 DEF Covers
  <2>7. t[n + 1] = "cont"
    BY <1>1, <2>2, <2>5, <2>6 DEF Whole
  <2> QED
    BY <1>2, <2>5, <2>7
<1> QED
  BY <1>5, <1>6 DEF t

\* The end of a text that is itself broken off at its start is the part of
\* the text that is cut.
LEMMA CutOfEnd ==
  ASSUME NEW s \in Seq(Byte), NEW r \in Seq(Byte), Ends(s, r), Unfinished(r, 1)
  PROVE  CompletePrefix(s) = Len(s) - Len(r)
<1>1. Len(s) \in Nat /\ Len(r) \in Nat /\ 1 \in 1 .. Len(r) /\ Len(s) - Len(r) + 1 \in 1 .. Len(s)
  BY DEF Ends, Unfinished
<1>2. Unfinished(s, Len(s) - Len(r) + 1)
  BY <1>1, UnfinishedInEnd
<1>3. CompletePrefix(s) = (Len(s) - Len(r) + 1) - 1
  BY <1>2, CutAtUnfinished
<1> QED
  BY <1>1, <1>3

\* What is kept back breaks off in its first character.
LEMMA RestIsBroken ==
  ASSUME NEW s \in Seq(Byte), Rest(s) # <<>>
  PROVE  Unfinished(Rest(s), 1)
<1> DEFINE n == CompletePrefix(s)
           r == Rest(s)
<1>1. n \in 0 .. Len(s) /\ Len(s) \in Nat /\ (n = Len(s) \/ Unfinished(s, n + 1))
  BY Cuts
<1>2. r \in Seq(Byte) /\ Len(r) = Len(s) - n /\ \A i \in 1 .. Len(r) : r[i] = s[n + i]
  BY CutAndRest
<1> HIDE DEF n, r
<1>3. Len(r) # 0 /\ Len(r) \in Nat
  BY <1>2, EmptySeq DEF r
<1>4. Ends(s, r) /\ 1 \in 1 .. Len(r) /\ Len(s) - Len(r) + 1 = n + 1
  BY <1>1, <1>2, <1>3 DEF Ends
<1>5. Unfinished(s, Len(s) - Len(r) + 1)
  BY <1>1, <1>2, <1>3, <1>4
<1>6. Unfinished(r, 1)
  BY <1>2, <1>4, <1>5, UnfinishedInEnd
<1> QED
  BY <1>6 DEF r

-----------------------------------------------------------------------------
(* Ends of texts. *)

LEMMA EndsWithNothing == ASSUME NEW s \in Seq(Byte) PROVE Ends(s, <<>>)
BY DEF Ends

LEMMA EndsWithRest == ASSUME NEW s \in Seq(Byte) PROVE Ends(s, Rest(s))
<1>1. Cut(s) \in Seq(Byte) /\ Rest(s) \in Seq(Byte) /\ Cut(s) \o Rest(s) = s
  BY CutAndRest, Rejoined
<1>2. Ends(Cut(s) \o Rest(s), Rest(s))
  BY <1>1, EndsJoined
<1> QED
  BY <1>1, <1>2

LEMMA EndsOfEnds ==
  ASSUME NEW a \in Seq(Byte), NEW b \in Seq(Byte), NEW c \in Seq(Byte), Ends(a, b), Ends(b, c)
  PROVE  Ends(a, c)
<1>1. /\ Len(a) \in Nat /\ Len(b) \in Nat /\ Len(c) \in Nat /\ Len(c) <= Len(b) /\ Len(b) <= Len(a)
      /\ \A i \in 1 .. Len(b) : b[i] = a[Len(a) - Len(b) + i]
      /\ \A i \in 1 .. Len(c) : c[i] = b[Len(b) - Len(c) + i]
  BY DEF Ends
<1>2. ASSUME NEW i \in 1 .. Len(c) PROVE c[i] = a[Len(a) - Len(c) + i]
  <2>1. Len(b) - Len(c) + i \in 1 .. Len(b) /\ Len(a) - Len(b) + (Len(b) - Len(c) + i) = Len(a) - Len(c) + i
    BY <1>1
  <2> QED
    BY <1>1, <2>1
<1> QED
  BY <1>1, <1>2 DEF Ends

LEMMA EndsGoOn ==
  ASSUME NEW a \in Seq(Byte), NEW b \in Seq(Byte), NEW p \in Seq(Byte), Ends(a, b)
  PROVE  Ends(a \o p, b \o p)
<1> DEFINE x == a \o p
           y == b \o p
<1>1. /\ Len(a) \in Nat /\ Len(b) \in Nat /\ Len(p) \in Nat /\ Len(b) <= Len(a)
      /\ \A i \in 1 .. Len(b) : b[i] = a[Len(a) - Len(b) + i]
  BY DEF Ends
<1>2. /\ Len(x) = Len(a) + Len(p) /\ \A i \in 1 .. Len(a) : x[i] = a[i]
      /\ \A i \in 1 .. Len(p) : x[Len(a) + i] = p[i]
  BY Joined
<1>3. /\ Len(y) = Len(b) + Len(p) /\ \A i \in 1 .. Len(b) : y[i] = b[i]
      /\ \A i \in 1 .. Len(p) : y[Len(b) + i] = p[i]
  BY Joined
<1> HIDE DEF x, y
<1>4. ASSUME NEW i \in 1 .. Len(y) PROVE y[i] = x[Len(x) - Len(y) + i]
  <2>0. Len(x) - Len(y) = Len(a) - Len(b)
    BY <1>1, <1>2, <1>3
  <2>1. CASE i <= Len(b)
    <3>1. i \in 1 .. Len(b) /\ Len(a) - Len(b) + i \in 1 .. Len(a)
      BY <1>1, <1>3, <2>1
    <3> QED
      BY <1>1, <1>2, <1>3, <2>0, <3>1
  <2>2. CASE i > Len(b)
    <3>1. i - Len(b) \in 1 .. Len(p) /\ Len(b) + (i - Len(b)) = i /\ Len(a) + (i - Len(b)) = Len(a) - Len(b) + i
      BY <1>1, <1>3, <2>2
    <3> QED
      BY <1>2, <1>3, <2>0, <3>1
  <2> QED
    BY <1>1, <2>1, <2>2
<1>5. Len(y) <= Len(x)
  BY <1>1, <1>2, <1>3
<1> QED
  BY <1>4, <1>5 DEF Ends, x, y

\* Nothing is a whole text, and nothing of it is kept back.
LEMMA NothingIsWhole == Whole(<<>>) /\ Cut(<<>>) = <<>> /\ Rest(<<>>) = <<>> /\ <<>> \in Seq(Byte) /\ Len(<<>>) = 0
<1>1. <<>> \in Seq(Byte) /\ DOMAIN <<>> = {} /\ Len(<<>>) = 0
  OBVIOUS
<1>2. Whole(<<>>)
  BY <1>1 DEF Whole
<1> QED
  BY <1>1, <1>2, WholeIsKept
=============================================================================
