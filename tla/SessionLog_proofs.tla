-------------------------- MODULE SessionLog_proofs --------------------------
(***************************************************************************)
(* Proofs about the session file and its readers, for any recording, cut   *)
(* anywhere and followed by any number of zeros.                           *)
(*                                                                         *)
(* Recording and both readers are recursive functions.  That a function    *)
(* with such an equation exists, and what it gives, is proved by induction *)
(* on a set of numbers: the least number outside it would be a             *)
(* counterexample that the numbers below it rule out.                      *)
(***************************************************************************)
EXTENDS SessionLog, SequenceTheorems, WellFoundedInduction, TLAPS

-----------------------------------------------------------------------------
(* Induction.                                                              *)

LEMMA LeastNumber ==
  ASSUME NEW S, S \subseteq Nat, S # {}
  PROVE  \E m \in S : \A k \in S : m <= k
<1> DEFINE Less == OpToRel(<, Nat)
<1>1. IsWellFoundedOn(Less, Nat)
  BY NatLessThanWellFounded, Zenon
<1>2. \A x, y \in Nat : x < y => <<x, y>> \in Less
  BY DEF OpToRel
<1> HIDE DEF Less
<1>3. PICK m \in S : \A k \in S : ~(<<k, m>> \in Less)
  BY <1>1, WFMin
<1>4. \A k \in S : m <= k
  <2> TAKE k \in S
  <2>1. m \in Nat /\ k \in Nat
    OBVIOUS
  <2>2. ~(k < m)
    BY <1>2, <1>3, <2>1
  <2>3. QED
    BY <2>1, <2>2
<1>5. QED
  BY <1>4

(* A set of the naturals up to n that has 0 and, with each number, the next *)
(* one, has n.                                                             *)
LEMMA UpTo ==
  ASSUME NEW n \in Nat, NEW S, 0 \in S,
         \A k \in 0..n-1 : k \in S => k + 1 \in S
  PROVE  0..n \subseteq S
<1> SUFFICES ASSUME ~(0..n \subseteq S) PROVE FALSE
  OBVIOUS
<1>1. (0..n) \ S \subseteq Nat /\ (0..n) \ S # {}
  OBVIOUS
<1>2. PICK m \in (0..n) \ S : \A k \in (0..n) \ S : m <= k
  BY <1>1, LeastNumber
<1>3. m # 0 /\ m - 1 \in 0..n-1 /\ m - 1 \in S
  BY <1>2
<1>4. QED
  BY <1>2, <1>3

-----------------------------------------------------------------------------
(* What is written.                                                        *)

LEMMA PayloadWords ==
  ASSUME NEW f \in Frame
  PROVE  /\ Payload(f) \in Seq(Int)
         /\ Len(Payload(f)) = IF f.depth THEN 7 ELSE 4
         /\ Payload(f)[1] = FrameMagic /\ Payload(f)[2] = f.ts
         /\ Payload(f)[3] = Jpeg /\ Payload(f)[4] = Eoi
         /\ f.depth => Payload(f)[5] = DepthTag /\ Payload(f)[6] = 1
<1> USE DEF Frame, FrameMagic, Jpeg, Eoi, DepthTag, DepthWord
<1> DEFINE Head4 == <<FrameMagic, f.ts, Jpeg, Eoi>>
           Block == IF f.depth THEN <<DepthTag, 1, DepthWord>> ELSE <<>>
<1>0. Head4 \in Seq(Int)
  OBVIOUS
<1>1. Len(Head4) = 4
      /\ Head4[1] = FrameMagic /\ Head4[2] = f.ts /\ Head4[3] = Jpeg /\ Head4[4] = Eoi
  OBVIOUS
<1>2. Block \in Seq(Int) /\ Len(Block) = IF f.depth THEN 3 ELSE 0
  OBVIOUS
<1>3. f.depth => Block[1] = DepthTag /\ Block[2] = 1
  OBVIOUS
<1>4. Payload(f) = Head4 \o Block
  BY DEF Payload
<1> HIDE DEF Head4, Block
<1> HIDE DEF Head4, Block
<1>5. /\ Head4 \o Block \in Seq(Int)
      /\ Len(Head4 \o Block) = Len(Head4) + Len(Block)
      /\ \A i \in 1..Len(Head4) + Len(Block) :
           (Head4 \o Block)[i] = IF i <= Len(Head4) THEN Head4[i] ELSE Block[i - Len(Head4)]
  <2>1. Block \in Seq(Int)
    BY <1>2
  <2>2. QED
    BY <1>0, <2>1, ConcatProperties
<1>6. /\ Payload(f) \in Seq(Int) /\ Len(Payload(f)) = 4 + Len(Block)
      /\ \A i \in 1..4 + Len(Block) : Payload(f)[i] = IF i <= 4 THEN Head4[i] ELSE Block[i - 4]
  BY <1>1, <1>4, <1>5
<1>7. CASE f.depth
  BY <1>1, <1>2, <1>3, <1>6, <1>7
<1>8. CASE ~f.depth
  BY <1>1, <1>2, <1>6, <1>8
<1>9. QED
  BY <1>7, <1>8

LEMMA RecordWords ==
  ASSUME NEW f \in Frame
  PROVE  /\ Record(f) \in Seq(Int)
         /\ Len(Record(f)) = 2 + Len(Payload(f))
         /\ Record(f)[2] = Len(Payload(f))
         /\ \A i \in 1..Len(Payload(f)) : Record(f)[2 + i] = Payload(f)[i]
<1>1. Payload(f) \in Seq(Int) /\ f.rel \in Int /\ Len(Payload(f)) \in Int
  BY PayloadWords DEF Frame
<1>2. <<f.rel, Len(Payload(f))>> \in Seq(Int)
  BY <1>1
<1>3. QED
  BY <1>1, <1>2 DEF Record

(* The recursive function of Written exists and satisfies its equation.     *)
LEMMA WrittenDef ==
  ASSUME NEW frames \in Seq(Frame)
  PROVE  /\ Written(frames) \in [0..Len(frames) -> Seq(Int)]
         /\ Written(frames)[0] = <<FileMagic, FileVersion>>
         /\ \A n \in 0..Len(frames) - 1 :
              Written(frames)[n + 1] = Written(frames)[n] \o Record(frames[n + 1])
<1> DEFINE N == Len(frames)
           D == 0..N
           Body(g, n) == IF n = 0 THEN <<FileMagic, FileVersion>>
                         ELSE g[n-1] \o Record(frames[n])
           Holds(k) == \E g \in [D -> Seq(Int)] : \A n \in 0..k : g[n] = Body(g, n)
           Solved == {k \in 0..N : Holds(k)}
<1>1. N \in Nat /\ <<FileMagic, FileVersion>> \in Seq(Int)
  BY DEF FileMagic, FileVersion
<1>2. 0 \in Solved
  <2>1. [n \in D |-> <<FileMagic, FileVersion>>] \in [D -> Seq(Int)]
    BY <1>1
  <2>2. \A n \in 0..0 : [i \in D |-> <<FileMagic, FileVersion>>][n]
                          = Body([i \in D |-> <<FileMagic, FileVersion>>], n)
    BY <1>1
  <2>3. Holds(0)
    BY <2>1, <2>2
  <2> HIDE DEF Holds
  <2>4. QED
    BY <1>1, <2>3
<1>3. ASSUME NEW k \in 0..N-1, k \in Solved PROVE k + 1 \in Solved
  <2>1. PICK g \in [D -> Seq(Int)] : \A n \in 0..k : g[n] = Body(g, n)
    BY <1>3
  <2> DEFINE h == [g EXCEPT ![k + 1] = g[k] \o Record(frames[k + 1])]
  <2>2. k \in D /\ k + 1 \in D /\ k + 1 \in 1..N /\ 0..(k+1) \subseteq D /\ k + 1 \in 0..N
    BY <1>1
  <2>3. g[k] \o Record(frames[k + 1]) \in Seq(Int)
    <3>1. g[k] \in Seq(Int) /\ frames[k + 1] \in Frame
      BY <2>2
    <3>2. Record(frames[k + 1]) \in Seq(Int)
      BY <3>1, RecordWords
    <3>3. QED
      BY <3>1, <3>2, ConcatProperties
  <2>4. h \in [D -> Seq(Int)]
    BY <2>2, <2>3
  <2>5. \A n \in 0..(k + 1) : h[n] = Body(h, n)
    <3> TAKE n \in 0..(k + 1)
    <3>1. CASE n = k + 1
      <4>1. n # 0 /\ n - 1 = k /\ n - 1 # k + 1
        BY <2>2, <3>1
      <4>2. h[k + 1] = g[k] \o Record(frames[k + 1]) /\ h[k] = g[k]
        BY <2>2
      <4>3. QED
        BY <3>1, <4>1, <4>2
    <3>2. CASE n # k + 1
      <4>1. n \in 0..k /\ n # k + 1 /\ n - 1 # k + 1 /\ n \in D
        BY <2>2, <3>2
      <4>2. n # 0 => n - 1 \in D
        BY <2>2, <4>1
      <4>3. g[n] = Body(g, n)
        BY <2>1, <4>1
      <4>4. QED
        BY <4>1, <4>2, <4>3
    <3>3. QED
      BY <3>1, <3>2
  <2>6. Holds(k + 1)
    BY <2>4, <2>5
  <2> HIDE DEF Holds
  <2>7. QED
    BY <2>2, <2>6
<1>4. N \in Solved
  <2> HIDE DEF Solved
  <2>1. 0..N \subseteq Solved
    BY <1>1, <1>2, <1>3, UpTo
  <2>2. QED
    BY <1>1, <2>1
<1>5. PICK g \in [D -> Seq(Int)] : \A n \in D : g[n] = Body(g, n)
  BY <1>4
<1>6. g = [n \in D |-> Body(g, n)]
  BY <1>5
<1>7. Written(frames) = [n \in D |-> Body(Written(frames), n)]
  BY <1>6 DEF Written
<1>8. \A n \in D : Written(frames)[n] = Body(Written(frames), n)
  BY <1>7
<1>10. 0 \in D /\ Written(frames)[0] = <<FileMagic, FileVersion>>
  BY <1>1, <1>8
<1>11. ASSUME NEW n \in 0..N - 1
       PROVE  Written(frames)[n + 1] = Written(frames)[n] \o Record(frames[n + 1])
  <2>1. n + 1 \in 1..N /\ n = (n + 1) - 1
    BY <1>1
  <2>2. \A i \in 1..N : \A h : h = i - 1 =>
          Written(frames)[i] = Written(frames)[h] \o Record(frames[i])
    <3> TAKE i \in 1..N
    <3> TAKE h
    <3> HAVE h = i - 1
    <3>1. i \in D /\ i # 0 /\ h = i - 1
      OBVIOUS
    <3>2. Written(frames)[i] = Body(Written(frames), i)
      BY <1>8, <3>1
    <3>3. QED
      BY <3>1, <3>2, Zenon
  <2>3. QED
    BY <2>1, <2>2, Zenon
<1> DEFINE Typed == {n \in D : Written(frames)[n] \in Seq(Int)}
<1>12. 0 \in Typed
  BY <1>1, <1>10
<1>13. ASSUME NEW k \in 0..N - 1, k \in Typed PROVE k + 1 \in Typed
  <2>1. k + 1 \in D /\ k + 1 \in 1..N
    BY <1>1
  <2>2. Written(frames)[k] \in Seq(Int)
    BY <1>13
  <2>3. Record(frames[k + 1]) \in Seq(Int)
    <3>1. frames[k + 1] \in Frame
      BY <2>1
    <3>2. QED
      BY <3>1, RecordWords
  <2>4. Written(frames)[k] \o Record(frames[k + 1]) \in Seq(Int)
    BY <2>2, <2>3, ConcatProperties
  <2>5. Written(frames)[k + 1] \in Seq(Int)
    BY <1>11, <2>4
  <2>6. QED
    BY <2>1, <2>5
<1>14. D \subseteq Typed
  <2> HIDE DEF Typed
  <2>1. QED
    BY <1>1, <1>12, <1>13, UpTo
<1>15. Written(frames) \in [D -> Seq(Int)]
  <2>1. \A n \in D : Written(frames)[n] \in Seq(Int)
    BY <1>14
  <2> HIDE DEF D, Body
  <2>2. QED
    BY <1>7, <2>1
<1>16. QED
  BY <1>10, <1>11, <1>15

(* A record is appended to what is written.                                 *)
LEMMA WrittenStep ==
  ASSUME NEW frames \in Seq(Frame), NEW k \in 0..Len(frames) - 1
  PROVE  LET w == Written(frames)
             f == frames[k + 1]
         IN  /\ w[k] \in Seq(Int) /\ w[k + 1] \in Seq(Int)
             /\ Payload(f) \in Seq(Int)
             /\ Len(w[k + 1]) = Len(w[k]) + 2 + Len(Payload(f))
             /\ \A i \in 1..Len(w[k]) : w[k + 1][i] = w[k][i]
             /\ \A i \in 1..2 + Len(Payload(f)) : w[k + 1][Len(w[k]) + i] = Record(f)[i]
<1> DEFINE old == Written(frames)[k]
           new == Written(frames)[k + 1]
           f == frames[k + 1]
           rec == Record(f)
<1>1. Written(frames) \in [0..Len(frames) -> Seq(Int)] /\ new = old \o rec
  BY WrittenDef
<1>2. k \in 0..Len(frames) /\ k + 1 \in 0..Len(frames) /\ k + 1 \in 1..Len(frames)
  OBVIOUS
<1>3. old \in Seq(Int) /\ new \in Seq(Int)
  BY <1>1, <1>2
<1>4. f \in Frame
  BY <1>2
<1> HIDE DEF f
<1>5. Len(rec) = 2 + Len(Payload(f)) /\ Payload(f) \in Seq(Int)
  BY <1>4, RecordWords, PayloadWords
<1>r. rec \in Seq(Int)
  BY <1>4, RecordWords
<1> HIDE DEF old, new, rec
<1>6. /\ Len(new) = Len(old) + Len(rec)
      /\ \A i \in 1..Len(old) + Len(rec) :
           new[i] = IF i <= Len(old) THEN old[i] ELSE rec[i - Len(old)]
  <2>1. new = old \o rec
    BY <1>1
  <2>2. QED
    BY <1>3, <1>r, <2>1, ConcatProperties
<1>7. Len(old) \in Nat /\ Len(rec) \in Nat /\ Len(Payload(f)) \in Nat
  BY <1>3, <1>5, <1>r
<1>8. \A i \in 1..Len(old) : new[i] = old[i]
  BY <1>6, <1>7
<1>9. \A i \in 1..2 + Len(Payload(f)) : new[Len(old) + i] = rec[i]
  <2> TAKE i \in 1..2 + Len(Payload(f))
  <2>1. Len(old) + i \in 1..Len(old) + Len(rec) /\ ~(Len(old) + i <= Len(old))
        /\ Len(old) + i - Len(old) = i
    BY <1>5, <1>7
  <2>2. new[Len(old) + i] = rec[Len(old) + i - Len(old)]
    BY <1>6, <2>1
  <2>3. QED
    BY <2>1, <2>2
<1>10. Len(new) = Len(old) + 2 + Len(Payload(f))
  BY <1>5, <1>6, <1>7
<1>11. QED
  BY <1>3, <1>5, <1>8, <1>9, <1>10 DEF old, new, rec, f

(* The file only grows: the words that are written stay.                    *)
LEMMA WrittenPrefix ==
  ASSUME NEW frames \in Seq(Frame), NEW k \in 0..Len(frames), NEW j \in k..Len(frames)
  PROVE  /\ Len(Written(frames)[k]) <= Len(Written(frames)[j])
         /\ \A i \in 1..Len(Written(frames)[k]) : Written(frames)[j][i] = Written(frames)[k][i]
<1> DEFINE W == Written(frames)
           Kept(m) == /\ Len(W[k]) <= Len(W[m])
                      /\ \A i \in 1..Len(W[k]) : W[m][i] = W[k][i]
           S == {m \in 0..j - k : Kept(k + m)}
<1>0. Len(frames) \in Nat
  OBVIOUS
<1>1. Kept(k + 0)
  <2>1. W \in [0..Len(frames) -> Seq(Int)]
    BY WrittenDef
  <2>2. Len(W[k]) \in Nat /\ k + 0 = k
    BY <2>1
  <2>3. QED
    BY <2>2
<1>2. ASSUME NEW n \in 0..Len(frames) - 1, k <= n, Kept(n) PROVE Kept(n + 1)
  <2> DEFINE first == W[k]
             old == W[n]
             new == W[n + 1]
             pay == Payload(frames[n + 1])
             more == 2 + Len(pay)
  <2>1. /\ old \in Seq(Int) /\ new \in Seq(Int) /\ more \in Nat
        /\ Len(new) = Len(old) + more
        /\ \A i \in 1..Len(old) : new[i] = old[i]
    <3>1. /\ old \in Seq(Int) /\ new \in Seq(Int) /\ pay \in Seq(Int)
          /\ Len(new) = Len(old) + 2 + Len(pay)
          /\ \A i \in 1..Len(old) : new[i] = old[i]
      BY WrittenStep, Zenon
    <3> HIDE DEF old, new, pay
    <3>2. Len(pay) \in Nat /\ Len(old) \in Nat
      BY <3>1
    <3>3. more \in Nat /\ Len(old) + 2 + Len(pay) = Len(old) + more
      BY <3>2
    <3> HIDE DEF more
    <3>4. QED
      BY <3>1, <3>3
  <2>2. first \in Seq(Int)
    <3>1. W \in [0..Len(frames) -> Seq(Int)]
      BY WrittenDef
    <3>2. QED
      BY <3>1
  <2>3. Len(first) <= Len(old) /\ \A i \in 1..Len(first) : old[i] = first[i]
    BY <1>2
  <2> HIDE DEF first, old, new, more
  <2>4. Len(first) <= Len(new) /\ \A i \in 1..Len(first) : new[i] = first[i]
    BY <2>1, <2>2, <2>3
  <2>5. QED
    BY <2>4 DEF first, new
<1> HIDE DEF Kept
<1>3. 0 \in S
  BY <1>1
<1>4. ASSUME NEW m \in 0..j - k - 1, m \in S PROVE m + 1 \in S
  <2>1. k + m \in 0..Len(frames) - 1 /\ k <= k + m /\ k + m + 1 = k + (m + 1)
        /\ m + 1 \in 0..j - k
    BY <1>0
  <2>2. Kept(k + m)
    BY <1>4
  <2>3. Kept(k + m + 1)
    BY <1>2, <2>1, <2>2
  <2>4. Kept(k + (m + 1))
    BY <2>1, <2>3
  <2>5. QED
    BY <2>1, <2>4
<1> HIDE DEF S
<1>5. 0..j - k \subseteq S
  <2>1. j - k \in Nat
    OBVIOUS
  <2>2. QED
    BY <1>3, <1>4, <2>1, UpTo
<1>6. Kept(k + (j - k)) /\ k + (j - k) = j
  <2>1. j - k \in 0..j - k
    OBVIOUS
  <2>2. j - k \in S
    BY <1>5, <2>1
  <2>3. QED
    BY <2>2 DEF S
<1>7. Kept(j)
  BY <1>6
<1>8. QED
  BY <1>7 DEF Kept, W

(* Where a record is in the whole recording, and what is there.             *)
Start(frames, k) == Len(Written(frames)[k]) + 1

LEMMA RecordingWords ==
  ASSUME NEW frames \in Seq(Frame)
  PROVE  /\ Recording(frames) \in Seq(Int)
         /\ Start(frames, 0) = 3
         /\ Start(frames, Len(frames)) = Len(Recording(frames)) + 1
         /\ \A k \in 0..Len(frames) : /\ Start(frames, k) \in 3..Len(Recording(frames)) + 1
                                      /\ Start(frames, k) - 1 \in Int
         /\ Recording(frames)[1] = FileMagic /\ Recording(frames)[2] = FileVersion
<1>0. Len(frames) \in Nat
  OBVIOUS
<1>1. /\ Written(frames) \in [0..Len(frames) -> Seq(Int)]
      /\ Written(frames)[0] = <<FileMagic, FileVersion>>
  BY WrittenDef
<1>2. /\ Len(Written(frames)[0]) = 2 /\ Written(frames)[0][1] = FileMagic
      /\ Written(frames)[0][2] = FileVersion
  BY <1>1
<1>3. 0 \in 0..Len(frames) /\ Len(frames) \in 0..Len(frames)
  BY <1>1
<1>4. /\ Recording(frames) = Written(frames)[Len(frames)] /\ Recording(frames) \in Seq(Int)
      /\ Start(frames, 0) = 3 /\ Start(frames, Len(frames)) = Len(Recording(frames)) + 1
  BY <1>1, <1>2, <1>3 DEF Recording, Start
<1>5. ASSUME NEW k \in 0..Len(frames)
      PROVE  Start(frames, k) \in 3..Len(Recording(frames)) + 1 /\ Start(frames, k) - 1 \in Int
  <2>1. k \in 0..Len(frames) /\ Len(frames) \in k..Len(frames)
    BY <1>1
  <2>2. Len(Written(frames)[0]) <= Len(Written(frames)[k])
    BY <1>3, <2>1, WrittenPrefix
  <2>3. Len(Written(frames)[k]) <= Len(Written(frames)[Len(frames)])
    BY <2>1, WrittenPrefix
  <2>4. Len(Written(frames)[k]) \in Nat
    BY <1>1
  <2>5. QED
    BY <1>2, <1>4, <2>2, <2>3, <2>4 DEF Start
<1>6. Recording(frames)[1] = FileMagic /\ Recording(frames)[2] = FileVersion
  <2>1. \A i \in 1..Len(Written(frames)[0]) : Written(frames)[Len(frames)][i] = Written(frames)[0][i]
    BY <1>1, <1>3, WrittenPrefix
  <2>2. QED
    BY <1>2, <1>4, <2>1
<1>7. QED
  BY <1>4, <1>5, <1>6

LEMMA RecordAt ==
  ASSUME NEW frames \in Seq(Frame), NEW k \in 0..Len(frames) - 1
  PROVE  LET b == Start(frames, k)
             p == Payload(frames[k + 1])
             r == Recording(frames)
         IN  /\ Start(frames, k + 1) = b + 2 + Len(p)
             /\ r[b + 1] = Len(p)
             /\ \A i \in 1..Len(p) : r[b + 1 + i] = p[i]
<1> DEFINE old == Written(frames)[k]
           new == Written(frames)[k + 1]
           all == Recording(frames)
           f == frames[k + 1]
<1>1. /\ old \in Seq(Int) /\ new \in Seq(Int) /\ Payload(f) \in Seq(Int)
      /\ Len(new) = Len(old) + 2 + Len(Payload(f))
      /\ \A i \in 1..2 + Len(Payload(f)) : new[Len(old) + i] = Record(f)[i]
  BY WrittenStep
<1>2. k + 1 \in 0..Len(frames) /\ k + 1 \in 1..Len(frames) /\ Len(frames) \in k + 1..Len(frames)
  OBVIOUS
<1>3. \A i \in 1..Len(new) : all[i] = new[i]
  BY <1>2, WrittenPrefix DEF Recording
<1>4. /\ Record(f)[2] = Len(Payload(f))
      /\ \A i \in 1..Len(Payload(f)) : Record(f)[2 + i] = Payload(f)[i]
  <2>1. f \in Frame
    BY <1>2
  <2>2. QED
    BY <2>1, RecordWords
<1>5. Start(frames, k) = Len(old) + 1 /\ Start(frames, k + 1) = Len(new) + 1
  BY DEF Start
<1> HIDE DEF old, new, all, f
<1>6. Len(old) \in Nat /\ Len(new) \in Nat /\ Len(Payload(f)) \in Nat
  BY <1>1
<1>7. \A i \in 1..2 + Len(Payload(f)) : all[Len(old) + i] = Record(f)[i]
  <2> TAKE i \in 1..2 + Len(Payload(f))
  <2>1. Len(old) + i \in 1..Len(new)
    BY <1>1, <1>6
  <2>2. QED
    BY <1>1, <1>3, <2>1
<1>8. all[Len(old) + 2] = Len(Payload(f))
  <2>1. 2 \in 1..2 + Len(Payload(f))
    BY <1>6
  <2>2. QED
    BY <1>4, <1>7, <2>1
<1>9. \A i \in 1..Len(Payload(f)) : all[Len(old) + 1 + 1 + i] = Payload(f)[i]
  <2> TAKE i \in 1..Len(Payload(f))
  <2>1. 2 + i \in 1..2 + Len(Payload(f)) /\ Len(old) + (2 + i) = Len(old) + 1 + 1 + i
    BY <1>6
  <2>2. all[Len(old) + (2 + i)] = Record(f)[2 + i]
    BY <1>7, <2>1
  <2>3. QED
    BY <1>4, <2>1, <2>2
<1>10. Len(old) + 1 + 1 = Len(old) + 2 /\ Len(new) + 1 = Len(old) + 1 + 2 + Len(Payload(f))
  BY <1>1, <1>6
<1>11. QED
  BY <1>5, <1>8, <1>9, <1>10 DEF f, all

-----------------------------------------------------------------------------
(* What a crash leaves.                                                     *)

LEMMA DamagedWords ==
  ASSUME NEW r \in Seq(Int), NEW n \in 0..Len(r), NEW z \in Nat
  PROVE  /\ Damaged(r, n, z) \in Seq(Int)
         /\ Len(Damaged(r, n, z)) = n + z
         /\ \A i \in 1..n : Damaged(r, n, z)[i] = r[i]
         /\ \A i \in n + 1..n + z : Damaged(r, n, z)[i] = 0
<1> DEFINE kept == SubSeq(r, 1, n)
           grown == [i \in 1..z |-> 0]
<1>1. n \in Nat /\ n \in Int /\ 1 \in Int
  OBVIOUS
<1>2. \A i \in 1..n : r[i] \in Int
  OBVIOUS
<1>3. /\ kept \in Seq(Int)
      /\ Len(kept) = IF 1 <= n THEN n - 1 + 1 ELSE 0
      /\ \A i \in 1..n - 1 + 1 : kept[i] = r[1 + i - 1]
  BY <1>1, <1>2, SubSeqProperties
<1>4. kept \in Seq(Int) /\ Len(kept) = n /\ \A i \in 1..n : kept[i] = r[i]
  BY <1>1, <1>3
<1>5. grown \in Seq(Int) /\ Len(grown) = z /\ \A i \in 1..z : grown[i] = 0
  OBVIOUS
<1>6. Damaged(r, n, z) = kept \o grown
  BY DEF Damaged
<1> HIDE DEF kept, grown
<1>7. kept \in Seq(Int) /\ grown \in Seq(Int)
  BY <1>4, <1>5
<1>8. /\ kept \o grown \in Seq(Int)
      /\ Len(kept \o grown) = Len(kept) + Len(grown)
      /\ \A i \in 1..Len(kept) + Len(grown) :
           (kept \o grown)[i] = IF i <= Len(kept) THEN kept[i] ELSE grown[i - Len(kept)]
  BY <1>7, ConcatProperties
<1>9. \A i \in n + 1..n + z : (kept \o grown)[i] = 0
  <2> TAKE i \in n + 1..n + z
  <2>1. i \in 1..Len(kept) + Len(grown) /\ ~(i <= Len(kept)) /\ i - Len(kept) \in 1..z
    BY <1>1, <1>4, <1>5
  <2>2. (kept \o grown)[i] = grown[i - Len(kept)]
    BY <1>8, <2>1
  <2>3. QED
    BY <1>5, <2>1, <2>2
<1>10. \A i \in 1..n : (kept \o grown)[i] = r[i]
  BY <1>1, <1>4, <1>5, <1>8
<1>11. QED
  BY <1>4, <1>5, <1>6, <1>8, <1>9, <1>10

(* The records that are whole, by where they end.                           *)
LEMMA WholeDef ==
  ASSUME NEW frames \in Seq(Frame), NEW n \in 2..Len(Recording(frames))
  PROVE  LET k == WholeRecords(frames, n)
         IN  /\ k \in 0..Len(frames)
             /\ Start(frames, k) <= n + 1
             /\ k < Len(frames) => n + 1 < Start(frames, k + 1)
<1> DEFINE N == Len(frames)
           At(k) == Len(Written(frames)[k])
           Torn == {k \in 0..N : k < N => n < At(k + 1)}
<1>1. N \in Nat
  OBVIOUS
<1>2. \A k \in 0..N : At(k) \in Nat
  <2>1. Written(frames) \in [0..Len(frames) -> Seq(Int)]
    BY WrittenDef
  <2>2. QED
    BY <2>1
<1>3. At(0) = 2
  <2>1. Written(frames)[0] = <<FileMagic, FileVersion>>
    BY WrittenDef
  <2>2. QED
    BY <2>1
<1> HIDE DEF At
<1>4. Torn \subseteq Nat /\ Torn # {}
  <2>1. N \in Torn
    BY <1>1
  <2>2. QED
    BY <2>1
<1>5. PICK m \in Torn : \A k \in Torn : m <= k
  BY <1>4, LeastNumber
<1>6. m \in 0..N /\ (m < N => n < At(m + 1))
  BY <1>5
<1>7. At(m) <= n
  <2>1. CASE m = 0
    BY <1>3, <2>1
  <2>2. CASE m # 0
    <3>1. m - 1 \in 0..N /\ m - 1 < N /\ (m - 1) + 1 = m
      BY <1>1, <1>6, <2>2
    <3>2. m - 1 \notin Torn
      BY <1>5, <3>1
    <3>3. ~(n < At((m - 1) + 1))
      BY <3>1, <3>2
    <3>4. ~(n < At(m))
      BY <3>1, <3>3
    <3>5. QED
      BY <1>2, <1>6, <3>4
  <2>3. QED
    BY <2>1, <2>2
<1>8. \E k \in 0..N : At(k) <= n /\ (k < N => n < At(k + 1))
  BY <1>6, <1>7
<1>9. LET k == WholeRecords(frames, n)
      IN  k \in 0..N /\ At(k) <= n /\ (k < N => n < At(k + 1))
  BY <1>8 DEF WholeRecords, At
<1> DEFINE w == WholeRecords(frames, n)
<1>10. w \in 0..N /\ At(w) <= n /\ (w < N => n < At(w + 1))
  BY <1>9
<1>11. Start(frames, w) = At(w) + 1 /\ Start(frames, w + 1) = At(w + 1) + 1
  BY DEF Start, At
<1> HIDE DEF w
<1>12. At(w) \in Nat /\ (w < N => At(w + 1) \in Nat)
  BY <1>1, <1>2, <1>10
<1>13. w \in 0..N /\ Start(frames, w) <= n + 1 /\ (w < N => n + 1 < Start(frames, w + 1))
  BY <1>10, <1>11, <1>12
<1>14. QED
  BY <1>13 DEF w

-----------------------------------------------------------------------------
(* The readers.  What each of them does at one position, given what it does *)
(* at the later ones.                                                       *)

EntryAt(file, read, pos) ==
  IF pos + 1 > Len(file) THEN NoEntry
  ELSE LET size == file[pos+1]
           p == SubSeq(file, pos + 2, pos + 1 + size)
       IN IF size < FrameHeaderSize THEN read[pos + 2]
          ELSE IF pos + 1 + size > Len(file) THEN NoEntry
          ELSE IF ~Parses(p) THEN read[pos + 2 + size]
          ELSE [found |-> TRUE, pos |-> pos + 2 + size, ts |-> p[2],
                jpeg |-> Decodes(p), image |-> HasImage(p), depth |-> HasDepth(p)]

TimesAt(file, read, pos) ==
  IF pos + 1 > Len(file) \/ file[pos+1] < FrameHeaderSize
     \/ pos + 1 + file[pos+1] > Len(file)
  THEN <<>>
  ELSE <<file[pos+3]>> \o read[pos + 2 + file[pos+1]]

LEMMA NextPosition ==
  ASSUME NEW l \in Nat, NEW p \in 1..l + 1, NEW s \in Int, 0 <= s, p + 1 + s <= l
  PROVE  p + 2 + s \in p + 1..l + 1
OBVIOUS

LEMMA LaterPositions ==
  ASSUME NEW file \in Seq(Int), NEW pos \in 1..Len(file) + 1, NEW g, NEW h,
         \A i \in pos + 1..Len(file) + 1 : g[i] = h[i]
  PROVE  /\ EntryAt(file, g, pos) = EntryAt(file, h, pos)
         /\ TimesAt(file, g, pos) = TimesAt(file, h, pos)
<1>1. Len(file) \in Nat
  OBVIOUS
<1>2. CASE pos + 1 > Len(file)
  BY <1>2 DEF EntryAt, TimesAt
<1>3. CASE ~(pos + 1 > Len(file))
  <2>1. pos + 1 \in 1..Len(file) /\ file[pos+1] \in Int
    BY <1>1, <1>3
  <2>2. file[pos+1] < FrameHeaderSize => g[pos + 2] = h[pos + 2]
    BY <1>1, <2>1
  <2>3. ~(file[pos+1] < FrameHeaderSize) /\ ~(pos + 1 + file[pos+1] > Len(file))
        => g[pos + 2 + file[pos+1]] = h[pos + 2 + file[pos+1]]
    <3> HAVE ~(file[pos+1] < FrameHeaderSize) /\ ~(pos + 1 + file[pos+1] > Len(file))
    <3> DEFINE size == file[pos+1]
    <3>1. size \in Int /\ 0 <= size /\ pos + 1 + size <= Len(file)
      BY <1>1, <2>1 DEF FrameHeaderSize
    <3> HIDE DEF size
    <3>2. pos + 2 + size \in pos + 1..Len(file) + 1
      BY <1>1, <3>1, NextPosition
    <3>3. g[pos + 2 + size] = h[pos + 2 + size]
      BY <3>2
    <3>4. QED
      BY <3>3 DEF size
  <2>4. EntryAt(file, g, pos) = EntryAt(file, h, pos)
    BY <1>3, <2>2, <2>3, Zenon DEF EntryAt
  <2>5. TimesAt(file, g, pos) = TimesAt(file, h, pos)
    BY <1>3, <2>3, Zenon DEF TimesAt
  <2>6. QED
    BY <2>4, <2>5
<1>4. QED
  BY <1>2, <1>3

(* Both recursive functions exist: they are built from the end of the file  *)
(* backwards.                                                               *)
LEMMA ReadersDef ==
  ASSUME NEW file \in Seq(Int)
  PROVE  \A pos \in 1..Len(file) + 1 :
           /\ Entries(file)[pos] = EntryAt(file, Entries(file), pos)
           /\ PythonFrom(file)[pos] = TimesAt(file, PythonFrom(file), pos)
<1> DEFINE L == Len(file)
           D == 1..L + 1
           Back(k) == L + 1 - k..L + 1
           Found(k) == \E g : \A i \in Back(k) : g[i] = EntryAt(file, g, i)
           Timed(k) == \E g : \A i \in Back(k) : g[i] = TimesAt(file, g, i)
           S == {k \in 0..L : Found(k) /\ Timed(k)}
<1>1. L \in Nat
  OBVIOUS
<1>2. 0 \in S
  <2>1. Back(0) = {L + 1} /\ L + 1 \in D
    BY <1>1
  <2> DEFINE e == [i \in D |-> EntryAt(file, <<>>, i)]
             t == [i \in D |-> TimesAt(file, <<>>, i)]
  <2>2. e[L + 1] = EntryAt(file, <<>>, L + 1) /\ t[L + 1] = TimesAt(file, <<>>, L + 1)
    BY <2>1
  <2>3. \A g, i : i \in (L + 1) + 1..Len(file) + 1 => FALSE
    BY <1>1
  <2>4. /\ EntryAt(file, e, L + 1) = EntryAt(file, <<>>, L + 1)
        /\ TimesAt(file, t, L + 1) = TimesAt(file, <<>>, L + 1)
    BY <2>1, <2>3, LaterPositions
  <2> HIDE DEF e, t
  <2>5. Found(0) /\ Timed(0)
    BY <2>1, <2>2, <2>4
  <2> HIDE DEF Found, Timed
  <2>6. QED
    BY <1>1, <2>5
<1>3. ASSUME NEW k \in 0..L - 1, k \in S PROVE k + 1 \in S
  <2> DEFINE p == L - k
  <2>1. p \in D /\ p \notin Back(k) /\ Back(k + 1) = Back(k) \cup {p} /\ Back(k) \subseteq D
    BY <1>1
  <2>2. \A i \in Back(k + 1) : i \in D /\ p \notin i + 1..L + 1
    BY <1>1
  <2>3. \A i \in Back(k + 1) : \A j \in i + 1..L + 1 : j \in D /\ j \in Back(k)
    BY <1>1
  <2>4. Found(k) /\ Timed(k)
    BY <1>3
  <2>5. PICK g : \A i \in Back(k) : g[i] = EntryAt(file, g, i)
    BY <2>4
  <2>6. PICK h : \A i \in Back(k) : h[i] = TimesAt(file, h, i)
    BY <2>4
  <2> DEFINE e == [i \in D |-> IF i = p THEN EntryAt(file, g, i) ELSE g[i]]
             t == [i \in D |-> IF i = p THEN TimesAt(file, h, i) ELSE h[i]]
  <2>7. \A j \in Back(k) : e[j] = g[j] /\ t[j] = h[j]
    BY <2>1
  <2>8. e[p] = EntryAt(file, g, p) /\ t[p] = TimesAt(file, h, p)
    BY <2>1
  <2> HIDE DEF e, t
  <2>9. ASSUME NEW i \in Back(k + 1)
        PROVE  e[i] = EntryAt(file, e, i) /\ t[i] = TimesAt(file, t, i)
    <3>1. i \in D
      BY <2>2
    <3>2. \A j \in i + 1..L + 1 : g[j] = e[j] /\ h[j] = t[j]
      BY <2>3, <2>7
    <3>3. EntryAt(file, g, i) = EntryAt(file, e, i) /\ TimesAt(file, h, i) = TimesAt(file, t, i)
      BY <3>1, <3>2, LaterPositions
    <3>4. e[i] = EntryAt(file, g, i) /\ t[i] = TimesAt(file, h, i)
      BY <2>1, <2>5, <2>6, <2>7, <2>8
    <3>5. QED
      BY <3>3, <3>4
  <2>10. Found(k + 1) /\ Timed(k + 1)
    <3> HIDE DEF Back
    <3>1. QED
      BY <2>9
  <2> HIDE DEF Found, Timed
  <2>11. QED
    BY <1>1, <2>10
<1> HIDE DEF S
<1>4. L \in S
  <2>1. 0..L \subseteq S
    BY <1>1, <1>2, <1>3, UpTo
  <2>2. QED
    BY <1>1, <2>1
<1>5. Found(L) /\ Timed(L) /\ Back(L) = D
  BY <1>1, <1>4 DEF S
<1>6. PICK g : \A i \in D : g[i] = EntryAt(file, g, i)
  BY <1>5
<1>7. PICK h : \A i \in D : h[i] = TimesAt(file, h, i)
  BY <1>5
<1> DEFINE e == [i \in D |-> g[i]]
           t == [i \in D |-> h[i]]
<1>8. ASSUME NEW i \in D
      PROVE  e[i] = EntryAt(file, e, i) /\ t[i] = TimesAt(file, t, i)
  <2>1. \A j \in i + 1..L + 1 : g[j] = e[j] /\ h[j] = t[j]
    BY <1>1
  <2> HIDE DEF e, t
  <2>2. EntryAt(file, g, i) = EntryAt(file, e, i) /\ TimesAt(file, h, i) = TimesAt(file, t, i)
    BY <2>1, LaterPositions
  <2>3. g[i] = e[i] /\ h[i] = t[i]
    BY DEF e, t
  <2>4. QED
    BY <1>6, <1>7, <2>2, <2>3
<1>9. e = [i \in D |-> EntryAt(file, e, i)] /\ t = [i \in D |-> TimesAt(file, t, i)]
  BY <1>8
<1> HIDE DEF e, t
<1>10. Entries(file) = [i \in D |-> EntryAt(file, Entries(file), i)]
  BY <1>9, Zenon DEF Entries, EntryAt
<1>11. PythonFrom(file) = [i \in D |-> TimesAt(file, PythonFrom(file), i)]
  BY <1>9, Zenon DEF PythonFrom, TimesAt
<1>12. ASSUME NEW pos \in D
       PROVE  /\ Entries(file)[pos] = EntryAt(file, Entries(file), pos)
              /\ PythonFrom(file)[pos] = TimesAt(file, PythonFrom(file), pos)
  BY <1>10, <1>11, Zenon
<1>13. QED
  BY <1>12

-----------------------------------------------------------------------------
(* The record a frame left, read back.                                      *)

LEMMA PayloadReads ==
  ASSUME NEW f \in Frame
  PROVE  /\ Parses(Payload(f)) /\ Decodes(Payload(f)) /\ HasImage(Payload(f))
         /\ HasDepth(Payload(f)) = f.depth
<1> DEFINE p == Payload(f)
<1>1. /\ Len(p) = IF f.depth THEN 7 ELSE 4
      /\ p[1] = FrameMagic /\ p[3] = Jpeg /\ p[4] = Eoi
      /\ f.depth => p[5] = DepthTag /\ p[6] = 1
  BY PayloadWords
<1> HIDE DEF p
<1>2. f.depth \in BOOLEAN
  BY DEF Frame
<1>3. Parses(p) /\ Decodes(p) /\ HasImage(p)
  BY <1>1 DEF Parses, Decodes, HasImage, FrameHeaderSize
<1>4. p[3] # Eoi
  BY <1>1 DEF Jpeg, Eoi
<1>5. CASE f.depth
  <2>1. Len(p) = 7 /\ p[4] = Eoi /\ p[4 + 1] = DepthTag /\ p[4 + 2] = 1
    BY <1>1, <1>5
  <2>2. 4 \in FrameHeaderSize + 1..Len(p) /\ \A i \in FrameHeaderSize + 1..4 - 1 : i = 3
    BY <2>1 DEF FrameHeaderSize
  <2>3. /\ p[4] = Eoi /\ \A i \in FrameHeaderSize + 1..4 - 1 : p[i] # Eoi
        /\ 4 + 2 <= Len(p) /\ p[4 + 1] = DepthTag
        /\ 4 + 2 + p[4 + 2] <= Len(p) /\ p[4 + 2] > 0
    BY <1>4, <2>1, <2>2
  <2>4. HasDepth(p)
    BY <2>2, <2>3 DEF HasDepth
  <2>5. QED
    BY <1>3, <1>5, <2>4 DEF p
<1>6. CASE ~f.depth
  <2>1. Len(p) = 4
    BY <1>1, <1>6
  <2>2. \A e \in FrameHeaderSize + 1..Len(p) : e = 3 \/ ~(e + 2 <= Len(p))
    BY <2>1 DEF FrameHeaderSize
  <2>3. ~HasDepth(p)
    BY <1>4, <2>2 DEF HasDepth
  <2>4. HasDepth(p) = FALSE
    BY <2>3 DEF HasDepth
  <2>5. f.depth = FALSE
    BY <1>2, <1>6
  <2>6. QED
    BY <1>3, <2>4, <2>5 DEF p
<1>7. QED
  BY <1>2, <1>5, <1>6

(* A record whose words are all there is found, and is the frame.           *)
LEMMA RecordIsRead ==
  ASSUME NEW file \in Seq(Int), NEW b \in 1..Len(file), NEW f \in Frame,
         b + 1 + Len(Payload(f)) <= Len(file),
         file[b + 1] = Len(Payload(f)),
         \A i \in 1..Len(Payload(f)) : file[b + 1 + i] = Payload(f)[i]
  PROVE  /\ NextEntry(file, b) = [found |-> TRUE, pos |-> b + 2 + Len(Payload(f)), ts |-> f.ts,
                                  jpeg |-> TRUE, image |-> TRUE, depth |-> f.depth]
         /\ PythonFrom(file)[b] = <<f.ts>> \o PythonFrom(file)[b + 2 + Len(Payload(f))]
<1> DEFINE size == Len(Payload(f))
           p == SubSeq(file, b + 2, b + 1 + size)
           L == Len(file)
<1>1. size \in {4, 7} /\ Payload(f) \in Seq(Int) /\ Payload(f)[2] = f.ts
  BY PayloadWords
<1>2. L \in Nat /\ b + 1 + size <= L /\ file[b + 1] = size
  OBVIOUS
<1>b. b \in 1..L
  OBVIOUS
<1> HIDE DEF size, L
<1>3. b \in Int /\ b + 1 <= L /\ b + 2 \in Int /\ b + 1 + size \in Int
      /\ size >= 2 /\ size \in Nat /\ (b + 1 + size) - (b + 2) + 1 = size
      /\ b + 2 <= b + 1 + size /\ b \in 1..L + 1
  BY <1>1, <1>2, <1>b
<1>4. p = Payload(f)
  <2>1. \A i \in b + 2..b + 1 + size : file[i] \in Int
    BY <1>2, <1>3 DEF L
  <2>2. /\ p \in Seq(Int)
        /\ Len(p) = IF b + 2 <= b + 1 + size THEN (b + 1 + size) - (b + 2) + 1 ELSE 0
        /\ \A i \in 1..(b + 1 + size) - (b + 2) + 1 : p[i] = file[(b + 2) + i - 1]
    BY <1>3, <2>1, SubSeqProperties
  <2>3. Len(p) = size /\ \A i \in 1..size : p[i] = file[(b + 2) + i - 1]
    BY <1>3, <2>2
  <2>4. \A i \in 1..size : p[i] = Payload(f)[i]
    <3> TAKE i \in 1..size
    <3>1. (b + 2) + i - 1 = b + 1 + i
      BY <1>3
    <3>2. p[i] = file[b + 1 + i]
      BY <2>3, <3>1
    <3>3. QED
      BY <3>2 DEF size
  <2>5. p \in Seq(Int)
    BY <2>2
  <2> HIDE DEF p
  <2>6. QED
    BY <1>1, <2>3, <2>4, <2>5, SeqEqual DEF size
<1>5. Parses(p) /\ Decodes(p) /\ HasImage(p) /\ HasDepth(p) = f.depth /\ p[2] = f.ts
  BY <1>1, <1>4, PayloadReads
<1>6. ~(b + 1 > L) /\ ~(size < FrameHeaderSize) /\ ~(b + 1 + size > L)
  BY <1>2, <1>3 DEF FrameHeaderSize, L
<1>7. NextEntry(file, b) = EntryAt(file, Entries(file), b)
      /\ PythonFrom(file)[b] = TimesAt(file, PythonFrom(file), b)
  BY <1>3, ReadersDef DEF NextEntry, L
<1>8. NextEntry(file, b) = [found |-> TRUE, pos |-> b + 2 + size, ts |-> f.ts,
                            jpeg |-> TRUE, image |-> TRUE, depth |-> f.depth]
  <2>1. EntryAt(file, Entries(file), b)
          = [found |-> TRUE, pos |-> b + 2 + size, ts |-> p[2],
             jpeg |-> Decodes(p), image |-> HasImage(p), depth |-> HasDepth(p)]
    BY <1>2, <1>5, <1>6, Zenon DEF EntryAt, L
  <2>2. Decodes(p) = TRUE /\ HasImage(p) = TRUE
    BY <1>5 DEF Decodes, HasImage
  <2> HIDE DEF p
  <2>3. QED
    BY <1>5, <1>7, <2>1, <2>2
<1>9. PythonFrom(file)[b] = <<f.ts>> \o PythonFrom(file)[b + 2 + size]
  <2>1. TimesAt(file, PythonFrom(file), b) = <<file[b + 3]>> \o PythonFrom(file)[b + 2 + size]
    BY <1>2, <1>6, Zenon DEF TimesAt, L
  <2>2. file[b + 3] = f.ts
    <3>1. 2 \in 1..size /\ b + 1 + 2 = b + 3
      BY <1>1, <1>3
    <3>2. QED
      BY <1>1, <3>1 DEF size
  <2>3. QED
    BY <1>7, <2>1, <2>2
<1>10. QED
  BY <1>8, <1>9 DEF size

-----------------------------------------------------------------------------
(* The end of a file.                                                       *)

ZeroFrom(file, q) == \A i \in q..Len(file) : file[i] = 0

(* Zeros are no record, for either reader.                                  *)
LEMMA ZerosAreSkipped ==
  ASSUME NEW file \in Seq(Int), NEW q \in 1..Len(file) + 1, ZeroFrom(file, q)
  PROVE  /\ ~NextEntry(file, q).found
         /\ PythonFrom(file)[q] = <<>>
<1> DEFINE L == Len(file)
           Nothing(j) == ~NextEntry(file, j).found
           M == L + 1 - q
           S == {m \in 0..M : \A j \in L + 1 - m..L + 1 : Nothing(j)}
<1>1. L \in Nat /\ q \in 1..L + 1
  OBVIOUS
<1>2. \A p \in 1..L + 1 : NextEntry(file, p) = EntryAt(file, Entries(file), p)
  BY ReadersDef DEF NextEntry
<1>3. ~NoEntry.found
  BY DEF NoEntry
<1>4. ASSUME NEW p \in q..L, p + 1 <= L PROVE file[p + 1] = 0
  BY <1>1, <1>4 DEF ZeroFrom
<1>5. ASSUME NEW p \in q..L + 1, \A j \in p + 1..L + 1 : Nothing(j) PROVE Nothing(p)
  <2>1. p \in 1..L + 1
    BY <1>1
  <2>2. CASE p + 1 > L
    <3>1. NextEntry(file, p) = NoEntry
      BY <1>2, <2>1, <2>2, Zenon DEF EntryAt
    <3>2. QED
      BY <1>3, <3>1
  <2>3. CASE ~(p + 1 > L)
    <3>1. p \in q..L /\ p + 1 <= L /\ p + 2 \in p + 1..L + 1
      BY <1>1, <2>1, <2>3
    <3>2. file[p + 1] = 0 /\ 0 < FrameHeaderSize
      BY <1>4, <3>1 DEF FrameHeaderSize
    <3>3. NextEntry(file, p) = NextEntry(file, p + 2)
      BY <1>2, <2>1, <2>3, <3>2, Zenon DEF EntryAt, NextEntry
    <3>4. Nothing(p + 2)
      BY <1>5, <3>1
    <3>5. QED
      BY <3>3, <3>4
  <2>4. QED
    BY <2>2, <2>3
<1> HIDE DEF Nothing, L
<1>6. 0 \in S
  <2>1. L + 1 \in q..L + 1 /\ \A j \in (L + 1) + 1..L + 1 : Nothing(j)
    BY <1>1
  <2>2. Nothing(L + 1)
    BY <1>5, <2>1
  <2>3. 0 \in 0..L + 1 - q /\ \A j \in L + 1 - 0..L + 1 : j = L + 1
    BY <1>1
  <2>4. QED
    BY <2>2, <2>3
<1>7. ASSUME NEW m \in 0..M - 1, m \in S PROVE m + 1 \in S
  <2>1. \A j \in L + 1 - m..L + 1 : Nothing(j)
    BY <1>7
  <2>2. L - m \in q..L + 1 /\ \A j \in (L - m) + 1..L + 1 : j \in L + 1 - m..L + 1
    BY <1>1
  <2>3. Nothing(L - m)
    BY <1>5, <2>1, <2>2
  <2>4. m + 1 \in 0..L + 1 - q
        /\ \A j \in L + 1 - (m + 1)..L + 1 : j = L - m \/ j \in L + 1 - m..L + 1
    BY <1>1
  <2>5. QED
    BY <2>1, <2>3, <2>4
<1>8. Nothing(q)
  <2>1. M \in Nat
    BY <1>1
  <2> HIDE DEF S, M
  <2>2. 0..M \subseteq S
    BY <1>6, <1>7, <2>1, UpTo
  <2>3. M \in S
    BY <2>1, <2>2
  <2>4. \A j \in L + 1 - (L + 1 - q)..L + 1 : Nothing(j)
    BY <2>3 DEF S, M
  <2>5. q \in L + 1 - (L + 1 - q)..L + 1
    BY <1>1
  <2>6. QED
    BY <2>4, <2>5
<1>9. PythonFrom(file)[q] = <<>>
  <2>1. PythonFrom(file)[q] = TimesAt(file, PythonFrom(file), q)
    BY ReadersDef
  <2>2. q + 1 > L \/ file[q + 1] < FrameHeaderSize
    <3>1. CASE q + 1 > L
      BY <3>1
    <3>2. CASE ~(q + 1 > L)
      <4>1. q \in q..L /\ q + 1 <= L
        BY <1>1, <3>2
      <4>2. QED
        BY <1>4, <4>1 DEF FrameHeaderSize
    <3>3. QED
      BY <3>1, <3>2
  <2>3. QED
    BY <2>1, <2>2, Zenon DEF TimesAt, L
<1>10. QED
  BY <1>8, <1>9 DEF Nothing

(* At a position after whose record there are only zeros, each reader finds *)
(* one more record or none.                                                 *)
LEMMA LastEntry ==
  ASSUME NEW file \in Seq(Int), NEW b \in 1..Len(file) + 1,
         b + 1 <= Len(file) /\ file[b + 1] < FrameHeaderSize => ZeroFrom(file, b + 2),
         b + 1 <= Len(file) /\ file[b + 1] >= FrameHeaderSize
           => ZeroFrom(file, b + 2 + file[b + 1])
  PROVE  /\ LET e == NextEntry(file, b)
            IN  e.found => /\ e.pos \in 1..Len(file) + 1 /\ ~NextEntry(file, e.pos).found
                           /\ e.ts \in Int
         /\ PythonFrom(file)[b] \in Seq(Int) /\ Len(PythonFrom(file)[b]) \in 0..1
<1> DEFINE L == Len(file)
           size == file[b + 1]
           e == NextEntry(file, b)
           times == PythonFrom(file)[b]
<1>1. L \in Nat /\ b \in 1..L + 1
  OBVIOUS
<1>2. e = EntryAt(file, Entries(file), b) /\ times = TimesAt(file, PythonFrom(file), b)
  BY ReadersDef DEF NextEntry
<1>3. <<>> \in Seq(Int) /\ Len(<<>>) \in 0..1 /\ ~NoEntry.found
  BY DEF NoEntry
<1>4. CASE b + 1 > L
  <2>1. e = NoEntry /\ times = <<>>
    BY <1>2, <1>4, Zenon DEF EntryAt, TimesAt
  <2>2. QED
    BY <1>3, <2>1
<1>5. CASE b + 1 <= L /\ size < FrameHeaderSize
  <2>1. ~(b + 1 > L) /\ b + 2 \in 1..L + 1 /\ ZeroFrom(file, b + 2)
    BY <1>1, <1>5
  <2>2. e = NextEntry(file, b + 2) /\ times = <<>>
    BY <1>2, <1>5, <2>1, Zenon DEF EntryAt, TimesAt, NextEntry
  <2>3. ~NextEntry(file, b + 2).found
    BY <2>1, ZerosAreSkipped
  <2>4. QED
    BY <1>3, <2>2, <2>3
<1>6. CASE b + 1 <= L /\ ~(size < FrameHeaderSize)
  <2>1. size \in Int /\ ~(b + 1 > L) /\ b \in Int
    BY <1>1, <1>6
  <2>2. size >= FrameHeaderSize /\ 0 <= size
    BY <1>6, <2>1 DEF FrameHeaderSize
  <2> DEFINE next == b + 2 + size
  <2>3. ZeroFrom(file, next)
    BY <1>6, <2>2
  <2>4. CASE b + 1 + size > L
    <3>1. e = NoEntry /\ times = <<>>
      BY <1>2, <1>6, <2>1, <2>4, Zenon DEF EntryAt, TimesAt
    <3>2. QED
      BY <1>3, <3>1
  <2>5. CASE ~(b + 1 + size > L)
    <3>1. next \in b + 1..L + 1
      <4> HIDE DEF L, size
      <4>1. b + 1 + size <= L
        BY <1>1, <2>1, <2>5
      <4>2. QED
        BY <1>1, <2>1, <2>2, <4>1, NextPosition
    <3>2. next \in 1..L + 1
      BY <1>1, <3>1
    <3>3. ~NextEntry(file, next).found /\ PythonFrom(file)[next] = <<>>
      BY <2>3, <3>2, ZerosAreSkipped
    <3>4. file[b + 3] \in Int
      <4>1. b + 3 \in 1..L
        BY <1>1, <2>1, <2>2, <2>5 DEF FrameHeaderSize
      <4>2. QED
        BY <4>1
    <3>5. e = NextEntry(file, next) \/ (e.pos = next /\ e.ts \in Int)
      <4> DEFINE p == SubSeq(file, b + 2, b + 1 + size)
      <4>1. CASE ~Parses(p)
        BY <1>2, <1>6, <2>1, <2>5, <4>1, Zenon DEF EntryAt, NextEntry
      <4>2. CASE Parses(p)
        <5>1. e = [found |-> TRUE, pos |-> next, ts |-> p[2],
                   jpeg |-> Decodes(p), image |-> HasImage(p), depth |-> HasDepth(p)]
          BY <1>2, <1>6, <2>1, <2>5, <4>2, Zenon DEF EntryAt
        <5>2. p[2] = file[b + 3]
          <6> HIDE DEF L, size
          <6>1. b + 2 \in Int /\ b + 1 + size \in Int /\ b + 1 + size <= L
            BY <1>1, <2>1, <2>5
          <6>2. \A i \in b + 2..b + 1 + size : i \in 1..L
            BY <1>1, <2>1, <6>1
          <6>3. \A i \in b + 2..b + 1 + size : file[i] \in Int
            BY <6>2 DEF L
          <6>4. \A i \in 1..(b + 1 + size) - (b + 2) + 1 : p[i] = file[(b + 2) + i - 1]
            BY <6>1, <6>3, SubSeqProperties
          <6>5. 2 \in 1..(b + 1 + size) - (b + 2) + 1 /\ (b + 2) + 2 - 1 = b + 3
            BY <1>1, <2>1, <2>2 DEF FrameHeaderSize
          <6>6. QED
            BY <6>4, <6>5
        <5> HIDE DEF e, p, next
        <5>3. QED
          BY <3>4, <5>1, <5>2
      <4>3. QED
        BY <4>1, <4>2
    <3>6. times = <<file[b + 3]>> \o PythonFrom(file)[next]
      BY <1>2, <1>6, <2>1, <2>5, Zenon DEF TimesAt
    <3> HIDE DEF e, times, next, L
    <3>7. times = <<file[b + 3]>> \o <<>>
      BY <3>3, <3>6
    <3>8. times \in Seq(Int) /\ Len(times) \in 0..1
      BY <3>4, <3>7
    <3>9. e.found => e.pos \in 1..L + 1 /\ ~NextEntry(file, e.pos).found /\ e.ts \in Int
      BY <3>2, <3>3, <3>5
    <3>10. QED
      BY <3>8, <3>9 DEF e, times, L
  <2>6. QED
    BY <2>4, <2>5
<1>7. QED
  BY <1>1, <1>4, <1>5, <1>6

-----------------------------------------------------------------------------
(* What is left of a recording, read back.                                  *)

Remains(frames, n, z) == Damaged(Recording(frames), n, z)

LEMMA StartsGrow ==
  ASSUME NEW frames \in Seq(Frame), NEW j \in 0..Len(frames), NEW k \in j..Len(frames)
  PROVE  Start(frames, j) <= Start(frames, k)
<1>1. Len(Written(frames)[j]) <= Len(Written(frames)[k])
  BY WrittenPrefix
<1>2. j \in 0..Len(frames) /\ k \in 0..Len(frames)
  OBVIOUS
<1>3. Start(frames, j) - 1 \in Int /\ Start(frames, k) - 1 \in Int
      /\ Start(frames, j) \in Int /\ Start(frames, k) \in Int
  BY <1>2, RecordingWords
<1>4. Written(frames) \in [0..Len(frames) -> Seq(Int)]
  BY WrittenDef
<1>5. Len(Written(frames)[j]) \in Nat /\ Len(Written(frames)[k]) \in Nat
  BY <1>2, <1>4
<1>6. QED
  BY <1>1, <1>5 DEF Start

LEMMA RemainsWords ==
  ASSUME NEW frames \in Seq(Frame), NEW n \in 2..Len(Recording(frames)), NEW z \in Nat
  PROVE  LET file == Remains(frames, n, z)
         IN  /\ file \in Seq(Int) /\ Len(file) = n + z
             /\ \A i \in 1..n : file[i] = Recording(frames)[i]
             /\ \A q \in n + 1..n + z + 1 : ZeroFrom(file, q)
             /\ Open(file) = 3 /\ Start(frames, 0) = 3
<1> DEFINE r == Recording(frames)
           file == Remains(frames, n, z)
<1>1. r \in Seq(Int) /\ r[1] = FileMagic /\ r[2] = FileVersion /\ Start(frames, 0) = 3
  BY RecordingWords
<1>2. n \in 0..Len(r) /\ n \in Nat /\ 1 \in 1..n /\ 2 \in 1..n
  BY <1>1
<1>3. /\ file \in Seq(Int) /\ Len(file) = n + z
      /\ \A i \in 1..n : file[i] = r[i]
      /\ \A i \in n + 1..n + z : file[i] = 0
  BY <1>1, <1>2, DamagedWords DEF Remains
<1> HIDE DEF r, file
<1>4. \A q \in n + 1..n + z + 1 : ZeroFrom(file, q)
  <2> TAKE q \in n + 1..n + z + 1
  <2>1. \A i \in q..n + z : i \in n + 1..n + z
    BY <1>2
  <2>2. QED
    BY <1>3, <2>1 DEF ZeroFrom
<1>5. Open(file) = 3
  <2>1. Len(file) >= 2
    BY <1>2, <1>3
  <2>2. file[1] = FileMagic /\ file[2] = FileVersion
    BY <1>1, <1>2, <1>3
  <2>3. QED
    BY <2>1, <2>2, Zenon DEF Open
<1>6. QED
  BY <1>1, <1>3, <1>4, <1>5 DEF r, file

(* A file opens when its header is left.                                    *)
LEMMA OpensWithHeader ==
  ASSUME NEW frames \in Seq(Frame), NEW n \in 0..Len(Recording(frames)), NEW z \in Nat,
         Open(Remains(frames, n, z)) # 0
  PROVE  n \in 2..Len(Recording(frames))
<1> DEFINE file == Remains(frames, n, z)
           r == Recording(frames)
<1>1. r \in Seq(Int)
  BY RecordingWords
<1>2. /\ Len(file) = n + z
      /\ \A i \in n + 1..n + z : file[i] = 0
  BY <1>1, DamagedWords DEF Remains
<1>3. Len(file) >= 2 /\ file[2] = FileVersion
  BY Zenon DEF Open
<1> HIDE DEF file, r
<1>4. n \in 0..Len(r) /\ Len(r) \in Nat
  BY <1>1 DEF r
<1>5. ~(n < 2)
  <2> SUFFICES ASSUME n < 2 PROVE FALSE
    OBVIOUS
  <2>1. 2 \in n + 1..n + z
    BY <1>2, <1>3, <1>4
  <2>2. file[2] = 0
    BY <1>2, <2>1
  <2>3. QED
    BY <1>3, <2>2 DEF FileVersion
<1>6. QED
  BY <1>4, <1>5 DEF r

(* Every record of which all words are left is read back: DataSessionReader *)
(* gives its frame and stands at the next record, and the Python reader     *)
(* yields its timestamp and goes on there.                                  *)
THEOREM WholeRecordsAreRead ==
  ASSUME NEW frames \in Seq(Frame), NEW n \in 2..Len(Recording(frames)), NEW z \in Nat,
         NEW k \in 0..WholeRecords(frames, n) - 1
  PROVE  LET file == Remains(frames, n, z)
             f    == frames[k + 1]
         IN  /\ Start(frames, k) \in 1..Len(file) + 1
             /\ NextEntry(file, Start(frames, k))
                  = [found |-> TRUE, pos |-> Start(frames, k + 1), ts |-> f.ts,
                     jpeg |-> TRUE, image |-> TRUE, depth |-> f.depth]
             /\ PythonFrom(file)[Start(frames, k)]
                  = <<f.ts>> \o PythonFrom(file)[Start(frames, k + 1)]
<1> DEFINE r == Recording(frames)
           w == WholeRecords(frames, n)
           file == Remains(frames, n, z)
           f == frames[k + 1]
           b == Start(frames, k)
           size == Len(Payload(f))
<1>1. w \in 0..Len(frames) /\ Start(frames, w) <= n + 1
  BY WholeDef
<1>2. k \in 0..Len(frames) - 1 /\ k + 1 \in 0..Len(frames) /\ k + 1 \in 1..Len(frames)
      /\ w \in k + 1..Len(frames) /\ k \in 0..Len(frames)
  BY <1>1
<1>3. f \in Frame
  BY <1>2
<1>4. size \in Nat /\ size >= 4
  <2>1. size = IF f.depth THEN 7 ELSE 4
    BY <1>3, PayloadWords
  <2>2. QED
    BY <2>1
<1>5. /\ Start(frames, k + 1) = b + 2 + size
      /\ r[b + 1] = size
      /\ \A i \in 1..size : r[b + 1 + i] = Payload(f)[i]
  BY <1>2, RecordAt
<1>6. Start(frames, k + 1) <= Start(frames, w)
  BY <1>2, StartsGrow
<1>7. b \in 3..Len(r) + 1 /\ Start(frames, w) \in 3..Len(r) + 1
  BY <1>1, <1>2, RecordingWords
<1>8. /\ file \in Seq(Int) /\ Len(file) = n + z
      /\ \A i \in 1..n : file[i] = r[i]
  BY RemainsWords
<1>9. r \in Seq(Int)
  BY RecordingWords
<1>10. n \in Nat /\ z \in Nat
  BY <1>9
<1> DEFINE s == Start(frames, w)
<1>11. b \in Int /\ s \in Int /\ s <= n + 1 /\ b + 2 + size <= s /\ b >= 3
  <2>1. s <= n + 1 /\ b + 2 + size <= s
    BY <1>1, <1>5, <1>6
  <2>2. b \in Int /\ b >= 3 /\ s \in Int
    BY <1>7, <1>9
  <2>3. QED
    BY <2>1, <2>2
<1> HIDE DEF r, w, file, f, b, size, s
<1>12. b + 1 + size <= n /\ b \in 1..n /\ b + 1 \in 1..n
  BY <1>4, <1>10, <1>11
<1>13. b \in 1..Len(file) /\ b + 1 + size <= Len(file) /\ b \in 1..Len(file) + 1
  BY <1>4, <1>8, <1>10, <1>11, <1>12
<1>14. file[b + 1] = size
  BY <1>5, <1>8, <1>12
<1>15. \A i \in 1..size : file[b + 1 + i] = Payload(f)[i]
  <2> TAKE i \in 1..size
  <2>1. b + 1 + i \in 1..n
    BY <1>4, <1>10, <1>11, <1>12
  <2>2. QED
    BY <1>5, <1>8, <2>1
<1>16. /\ NextEntry(file, b) = [found |-> TRUE, pos |-> b + 2 + size, ts |-> f.ts,
                                jpeg |-> TRUE, image |-> TRUE, depth |-> f.depth]
       /\ PythonFrom(file)[b] = <<f.ts>> \o PythonFrom(file)[b + 2 + size]
  BY <1>3, <1>8, <1>13, <1>14, <1>15, RecordIsRead DEF size
<1>17. QED
  BY <1>5, <1>13, <1>16 DEF file, f, b

(* After the whole records, what is left of the next one and the zeros give *)
(* each reader one record more at the most.                                 *)
THEOREM TornRecordEndsTheFile ==
  ASSUME NEW frames \in Seq(Frame), NEW n \in 2..Len(Recording(frames)), NEW z \in Nat
  PROVE  LET file == Remains(frames, n, z)
             b    == Start(frames, WholeRecords(frames, n))
             e    == NextEntry(file, b)
         IN  /\ b \in 1..Len(file) + 1
             /\ e.found => /\ e.pos \in 1..Len(file) + 1 /\ ~NextEntry(file, e.pos).found
                           /\ e.ts \in Int
             /\ PythonFrom(file)[b] \in Seq(Int) /\ Len(PythonFrom(file)[b]) \in 0..1
<1> DEFINE r == Recording(frames)
           w == WholeRecords(frames, n)
           file == Remains(frames, n, z)
           b == Start(frames, w)
           next == Start(frames, w + 1)
           Ends == /\ b + 1 <= Len(file) /\ file[b + 1] < FrameHeaderSize => ZeroFrom(file, b + 2)
                   /\ b + 1 <= Len(file) /\ file[b + 1] >= FrameHeaderSize
                        => ZeroFrom(file, b + 2 + file[b + 1])
<1>1. w \in 0..Len(frames) /\ b <= n + 1 /\ (w < Len(frames) => n + 1 < next)
  BY WholeDef
<1>2. b \in 3..Len(r) + 1 /\ r \in Seq(Int) /\ Start(frames, Len(frames)) = Len(r) + 1
  BY <1>1, RecordingWords
<1>3. b \in Int /\ b >= 3 /\ n \in Nat /\ Len(r) \in Nat /\ n <= Len(r)
  BY <1>2
<1>4. /\ file \in Seq(Int) /\ Len(file) = n + z
      /\ \A i \in 1..n : file[i] = r[i]
      /\ \A q \in n + 1..n + z + 1 : ZeroFrom(file, q)
  BY RemainsWords
<1>5. ASSUME b + 1 > n PROVE Ends
  <2>1. b + 1 <= n + z => file[b + 1] = 0
    <3> HAVE b + 1 <= n + z
    <3>1. b + 1 \in n + 1..n + z + 1 /\ b + 1 \in b + 1..n + z
      BY <1>3, <1>5
    <3>2. QED
      BY <1>4, <3>1 DEF ZeroFrom
  <2>2. b + 1 <= n + z => ZeroFrom(file, b + 2)
    <3> HAVE b + 1 <= n + z
    <3>1. b + 2 \in n + 1..n + z + 1
      BY <1>3, <1>5
    <3>2. QED
      BY <1>4, <3>1
  <2>3. 0 < FrameHeaderSize /\ ~(0 >= FrameHeaderSize)
    BY DEF FrameHeaderSize
  <2> HIDE DEF b, file
  <2>4. QED
    BY <1>4, <2>1, <2>2, <2>3
<1>6. ASSUME ~(b + 1 > n) PROVE Ends
  <2> DEFINE f == frames[w + 1]
             size == Len(Payload(f))
  <2>1. w < Len(frames)
    <3> SUFFICES ASSUME ~(w < Len(frames)) PROVE FALSE
      OBVIOUS
    <3>1. w = Len(frames)
      BY <1>1
    <3>2. b = Len(r) + 1
      BY <1>2, <3>1
    <3>3. QED
      BY <1>3, <1>6, <3>2
  <2>2. w \in 0..Len(frames) - 1 /\ w + 1 \in 1..Len(frames)
    BY <1>1, <2>1
  <2>3. f \in Frame
    BY <2>2
  <2>4. size \in {4, 7}
    BY <2>3, PayloadWords
  <2>5. next = b + 2 + size /\ r[b + 1] = size
    BY <2>2, RecordAt
  <2>6. b + 1 \in 1..n
    BY <1>3, <1>6
  <2>7. file[b + 1] = size /\ ~(size < FrameHeaderSize)
    <3>1. file[b + 1] = r[b + 1]
      BY <1>4, <2>6
    <3> HIDE DEF size
    <3>2. ~(size < FrameHeaderSize)
      BY <2>4 DEF FrameHeaderSize
    <3>3. QED
      BY <2>5, <3>1, <3>2
  <2>8. ZeroFrom(file, b + 2 + size)
    <3>1. n + 1 < b + 2 + size
      BY <1>1, <2>1, <2>5
    <3>2. CASE b + 2 + size <= n + z + 1
      <4> HIDE DEF size, b
      <4>1. b + 2 + size \in n + 1..n + z + 1
        BY <1>3, <2>4, <3>1, <3>2
      <4>2. QED
        BY <1>4, <4>1
    <3>3. CASE ~(b + 2 + size <= n + z + 1)
      <4> HIDE DEF size, b
      <4>1. \A i \in b + 2 + size..n + z : FALSE
        BY <1>3, <2>4, <3>3
      <4>2. QED
        BY <1>4, <4>1 DEF ZeroFrom
    <3>4. QED
      BY <3>2, <3>3
  <2> HIDE DEF b, file, size
  <2>9. QED
    BY <2>7, <2>8
<1>7. Ends
  BY <1>5, <1>6, Zenon
<1>8. b \in 1..Len(file) + 1
  BY <1>1, <1>3, <1>4
<1> HIDE DEF b, file
<1>9. QED
  BY <1>4, <1>7, <1>8, LastEntry DEF b, file

(* iter_vlprec yields the timestamp of every whole record, in order, and of *)
(* the record that was torn at the most one more.                           *)
THEOREM PythonGetsWholeRecords ==
  ASSUME NEW frames \in Seq(Frame), NEW n \in 2..Len(Recording(frames)), NEW z \in Nat
  PROVE  LET w == WholeRecords(frames, n)
             times == PythonFrames(Remains(frames, n, z))
         IN  /\ Len(times) \in w..w + 1
             /\ \A k \in 1..w : times[k] = frames[k].ts
<1> DEFINE w == WholeRecords(frames, n)
           file == Remains(frames, n, z)
           From(k) == PythonFrom(file)[Start(frames, k)]
           Good(k) == /\ From(k) \in Seq(Int)
                      /\ w - k <= Len(From(k)) /\ Len(From(k)) <= w - k + 1
                      /\ \A i \in 1..w - k : From(k)[i] = frames[k + i].ts
           S == {m \in 0..w : Good(w - m)}
<1>1. w \in 0..Len(frames) /\ w \in Nat
  BY WholeDef
<1>2. From(w) \in Seq(Int) /\ Len(From(w)) \in 0..1
  BY TornRecordEndsTheFile
<1>3. ASSUME NEW k \in 0..w - 1 PROVE From(k) = <<frames[k + 1].ts>> \o From(k + 1)
  BY WholeRecordsAreRead
<1>4. ASSUME NEW k \in 0..w - 1 PROVE frames[k + 1].ts \in Int
  <2>1. k + 1 \in 1..Len(frames)
    BY <1>1
  <2>2. frames[k + 1] \in Frame
    BY <2>1
  <2>3. QED
    BY <2>2 DEF Frame
<1> HIDE DEF w, From
<1>5. Good(w - 0)
  <2>1. w - 0 = w /\ w - w = 0
    BY <1>1
  <2>2. \A i \in 1..w - w : FALSE
    BY <1>1
  <2>3. Len(From(w)) >= 0 /\ Len(From(w)) <= 1 /\ Len(From(w)) \in Int
    <3> DEFINE l == Len(From(w))
    <3>1. l \in 0..1
      BY <1>2
    <3> HIDE DEF l
    <3>2. l >= 0 /\ l <= 1 /\ l \in Int
      BY <3>1
    <3>3. QED
      BY <3>2 DEF l
  <2>4. Good(w)
    BY <1>1, <1>2, <2>2, <2>3
  <2> HIDE DEF Good
  <2>5. QED
    BY <2>1, <2>4
<1>6. ASSUME NEW k \in 0..w - 1, Good(k + 1) PROVE Good(k)
  <2> DEFINE rest == From(k + 1)
             t == frames[k + 1].ts
             all == From(k)
  <2>1. rest \in Seq(Int) /\ t \in Int /\ all = <<t>> \o rest
    BY <1>3, <1>4, <1>6
  <2>2. w - (k + 1) <= Len(rest) /\ Len(rest) <= w - (k + 1) + 1
    BY <1>6
  <2>3. \A i \in 1..w - (k + 1) : rest[i] = frames[(k + 1) + i].ts
    BY <1>6
  <2> HIDE DEF rest, all
  <2>4. <<t>> \in Seq(Int) /\ Len(<<t>>) = 1 /\ <<t>>[1] = t
    BY <2>1
  <2> DEFINE first == <<t>>
  <2> HIDE DEF first
  <2>5. first \in Seq(Int) /\ Len(first) = 1 /\ first[1] = t
    BY <2>4 DEF first
  <2>6. /\ all \in Seq(Int) /\ Len(all) = Len(first) + Len(rest)
        /\ \A i \in 1..Len(first) + Len(rest) :
             all[i] = IF i <= Len(first) THEN first[i] ELSE rest[i - Len(first)]
    <3>1. first \in Seq(Int) /\ rest \in Seq(Int)
      BY <2>1, <2>5
    <3>2. all = first \o rest
      BY <2>1 DEF first
    <3>3. QED
      BY <3>1, <3>2, ConcatProperties
  <2>7. Len(rest) \in Nat /\ Len(all) = 1 + Len(rest)
    BY <2>1, <2>5, <2>6
  <2>8. \A i \in 1..1 + Len(rest) : all[i] = IF i = 1 THEN t ELSE rest[i - 1]
    BY <2>5, <2>6, <2>7
  <2>9. \A i \in 1..w - k : all[i] = frames[k + i].ts
    <3> TAKE i \in 1..w - k
    <3>1. i \in 1..1 + Len(rest)
      BY <1>1, <2>2, <2>7
    <3>2. CASE i = 1
      BY <2>8, <3>1, <3>2
    <3>3. CASE i # 1
      <4>1. i - 1 \in 1..w - (k + 1) /\ (k + 1) + (i - 1) = k + i
        BY <1>1, <3>3
      <4>2. rest[i - 1] = frames[(k + 1) + (i - 1)].ts
        BY <2>3, <4>1
      <4>3. all[i] = rest[i - 1]
        BY <2>8, <3>1, <3>3
      <4>4. QED
        BY <4>1, <4>2, <4>3
    <3>4. QED
      BY <3>2, <3>3
  <2>10. w - k <= Len(all) /\ Len(all) <= w - k + 1
    BY <1>1, <2>2, <2>7
  <2>11. QED
    BY <2>6, <2>9, <2>10 DEF all
<1> HIDE DEF Good
<1>7. 0 \in S
  BY <1>1, <1>5
<1>8. ASSUME NEW m \in 0..w - 1, m \in S PROVE m + 1 \in S
  <2>1. w - (m + 1) \in 0..w - 1 /\ (w - (m + 1)) + 1 = w - m /\ m + 1 \in 0..w
    BY <1>1
  <2>2. Good(w - m)
    BY <1>8
  <2>3. Good((w - (m + 1)) + 1)
    BY <2>1, <2>2
  <2>4. Good(w - (m + 1))
    BY <1>6, <2>1, <2>3
  <2>5. QED
    BY <2>1, <2>4
<1> HIDE DEF S
<1>9. w \in S
  <2>1. 0..w \subseteq S
    BY <1>1, <1>7, <1>8, UpTo
  <2>2. QED
    BY <1>1, <2>1
<1>10. Good(0)
  <2>1. Good(w - w) /\ w - w = 0
    BY <1>1, <1>9 DEF S
  <2>2. QED
    BY <2>1
<1>11. PythonFrames(file) = From(0)
  <2>1. Open(file) = 3 /\ Start(frames, 0) = 3 /\ 3 # 0
    BY RemainsWords
  <2>2. QED
    BY <2>1, Zenon DEF PythonFrames, From
<1>12. /\ Len(From(0)) \in w..w + 1
       /\ \A k \in 1..w : From(0)[k] = frames[k].ts
  <2>1. /\ From(0) \in Seq(Int) /\ w - 0 <= Len(From(0)) /\ Len(From(0)) <= w - 0 + 1
        /\ \A i \in 1..w - 0 : From(0)[i] = frames[0 + i].ts
    BY <1>10 DEF Good
  <2>2. Len(From(0)) \in Nat
    BY <2>1
  <2>3. \A k \in 1..w : k \in 1..w - 0 /\ 0 + k = k
    BY <1>1
  <2>4. \A k \in 1..w : From(0)[k] = frames[k].ts
    BY <2>1, <2>3
  <2>5. QED
    BY <1>1, <2>1, <2>2, <2>4
<1> HIDE DEF file
<1>13. QED
  BY <1>11, <1>12 DEF w, file
=============================================================================
