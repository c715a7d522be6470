-------------------------- MODULE WikiEvidenceProofs --------------------------
(***************************************************************************)
(* Theorems about WikiSlugs and WikiEvidence, for texts, lists of texts    *)
(* and metadata of any length: the slugs are canonical, the claims that    *)
(* are shown are the claims that are stored, the links that are rendered   *)
(* are read back as the pages that were chosen, and no provenance is lost  *)
(* or made up.                                                             *)
(*                                                                         *)
(* The argument.  What is computed from a text is described by how it      *)
(* grows when a character is appended, and then proved by induction over   *)
(* the text.  A slug is what Run, a reader of one pass over the text, has  *)
(* at its end: every step of slugify_wiki_target leaves that unchanged.    *)
(* The recursive functions of the model are unrolled step by step to be    *)
(* reasoned about.                                                         *)
(***************************************************************************)
EXTENDS WikiEvidence, WellFoundedInduction, TLAPS

----------------------------------------------------------------------------
(* Induction over numbers and sequences, and recursive functions.          *)

(* A set of numbers that is not empty has a least one.                     *)
LEMMA LeastNat ==
    ASSUME NEW T \in SUBSET Nat, T # {}
    PROVE  \E m \in T : \A k \in T : m <= k
<1>1. PICK m \in T : \A k \in T : ~(<<k, m>> \in OpToRel(<, Nat))
  BY NatLessThanWellFounded, WFMin
<1>2. \A k \in T : ~(k < m)
  <2> TAKE k \in T
  <2> SUFFICES ASSUME k < m PROVE FALSE  OBVIOUS
  <2>1. <<k, m>> \in OpToRel(<, Nat)  BY DEF OpToRel
  <2> QED  BY <1>1, <2>1
<1> QED  BY <1>2

(* Induction up to N, over a set instead of a predicate.                   *)
LEMMA Induction ==
    ASSUME NEW N \in Nat, NEW S, 0 \in S, \A n \in 1..N : n - 1 \in S => n \in S
    PROVE  \A n \in 0..N : n \in S
<1> DEFINE T == {n \in 0..N : n \notin S}
<1> SUFFICES ASSUME T # {} PROVE FALSE  OBVIOUS
<1>1. T \in SUBSET Nat  OBVIOUS
<1>2. PICK m \in T : \A k \in T : m <= k
  <2> HIDE DEF T
  <2> QED  BY <1>1, LeastNat
<1>3. m \in 1..N  OBVIOUS
<1>4. m - 1 \in 0..N /\ ~(m <= m - 1)  BY <1>3
<1>5. m - 1 \in S  BY <1>2, <1>4
<1> QED  BY <1>3, <1>5

(* f is computed from base by N steps.                                     *)
Unrolls(f, A, base, N, step) ==
    /\ f \in [0..N -> A]
    /\ f[0] = base
    /\ \A n \in 1..N : f[n] = step[n][f[n - 1]]

Steps(N, A) == [1..N -> [A -> A]]

(* What is computed step by step exists.                                   *)
LEMMA Recursion ==
    ASSUME NEW A, NEW base \in A, NEW N \in Nat, NEW step \in Steps(N, A)
    PROVE  \E f : Unrolls(f, A, base, N, step)
<1> USE DEF Steps
<1> DEFINE Fits(f, n) == f[0] = base /\ \A k \in 1..n : f[k] = step[k][f[k - 1]]
           S == {n \in 0..N : \E f \in [0..n -> A] : Fits(f, n)}
<1>1. 0 \in S
  <2>1. [k \in 0..0 |-> base] \in [0..0 -> A]  OBVIOUS
  <2>2. Fits([k \in 0..0 |-> base], 0)  OBVIOUS
  <2> HIDE DEF Fits
  <2> QED  BY <2>1, <2>2
<1>2. ASSUME NEW n \in 1..N, n - 1 \in S PROVE n \in S
  <2>1. PICK f \in [0..(n - 1) -> A] : Fits(f, n - 1)  BY <1>2
  <2> DEFINE g == [k \in 0..n |-> IF k = n THEN step[n][f[n - 1]] ELSE f[k]]
  <2>2. n - 1 \in 0..(n - 1) /\ n \in Nat /\ 0 \in 0..(n - 1)  OBVIOUS
  <2>3. f[n - 1] \in A /\ step[n][f[n - 1]] \in A  BY <2>2
  <2>4. \A k \in 0..n : k # n => k \in 0..(n - 1) /\ k - 1 # n  BY <2>2
  <2>5. g \in [0..n -> A]  BY <2>3, <2>4
  <2>6. g[0] = base  BY <2>1, <2>2
  <2>7. g[n] = step[n][f[n - 1]]  BY <2>2
  <2>8. \A k \in 0..(n - 1) : g[k] = f[k]  BY <2>2
  <2> HIDE DEF g
  <2>9. \A k \in 1..n : g[k] = step[k][g[k - 1]]
    <3> TAKE k \in 1..n
    <3>1. CASE k = n  BY <2>2, <2>7, <2>8, <3>1
    <3>2. CASE k # n
      <4>1. k \in 1..(n - 1) /\ k \in 0..(n - 1) /\ k - 1 \in 0..(n - 1)  BY <3>2
      <4> QED  BY <2>1, <2>8, <4>1
    <3> QED  BY <3>1, <3>2
  <2>10. n \in 0..N  OBVIOUS
  <2> QED  BY <2>5, <2>6, <2>9, <2>10
<1>3. N \in S
  <2> HIDE DEF S
  <2>1. \A n \in 0..N : n \in S  BY <1>1, <1>2, Induction
  <2> QED  BY <2>1
<1> QED  BY <1>3 DEF Unrolls

(* A prefix is the one before it and one element.                          *)
LEMMA AppendToPrefix ==
    ASSUME NEW C, NEW s \in Seq(C), NEW n \in 1..Len(s)
    PROVE  /\ SubSeq(s, 1, n - 1) \in Seq(C)
           /\ s[n] \in C
           /\ SubSeq(s, 1, n) = Append(SubSeq(s, 1, n - 1), s[n])
<1>1. SubSeq(s, 1, n - 1) \in Seq(C) /\ SubSeq(s, 1, n) \in Seq(C)  OBVIOUS
<1>2. Len(SubSeq(s, 1, n - 1)) = n - 1 /\ Len(SubSeq(s, 1, n)) = n  OBVIOUS
<1>3. \A i \in 1..n : SubSeq(s, 1, n)[i] = Append(SubSeq(s, 1, n - 1), s[n])[i]  BY <1>2
<1> QED  BY <1>1, <1>2, <1>3

(* Induction over sequences: what holds of the empty one and is kept when  *)
(* an element is appended holds of all.                                    *)
LEMMA SeqInduction ==
    ASSUME NEW C, NEW S, << >> \in S,
           \A s \in Seq(C), c \in C : s \in S => Append(s, c) \in S
    PROVE  \A s \in Seq(C) : s \in S
<1> TAKE s \in Seq(C)
<1> DEFINE prefix == [n \in 0..Len(s) |-> SubSeq(s, 1, n)]
           T == {n \in 0..Len(s) : prefix[n] \in S}
<1>1. Len(s) \in Nat  OBVIOUS
<1>2. prefix[0] = << >> /\ prefix[Len(s)] = s
  <2>1. SubSeq(s, 1, 0) = << >> /\ SubSeq(s, 1, Len(s)) = s  OBVIOUS
  <2>2. 0 \in 0..Len(s) /\ Len(s) \in 0..Len(s)  BY <1>1
  <2> QED  BY <2>1, <2>2
<1>3. \A n \in 1..Len(s) :
         prefix[n - 1] \in Seq(C) /\ s[n] \in C /\ prefix[n] = Append(prefix[n - 1], s[n])
  <2> TAKE n \in 1..Len(s)
  <2>1. n \in 0..Len(s) /\ n - 1 \in 0..Len(s)  BY <1>1
  <2> QED  BY <2>1, AppendToPrefix
<1> HIDE DEF prefix
<1>4. 0 \in T  BY <1>1, <1>2
<1>5. ASSUME NEW n \in 1..Len(s), n - 1 \in T PROVE n \in T
  <2>1. n \in 0..Len(s) /\ prefix[n - 1] \in S  BY <1>1, <1>5
  <2>2. prefix[n] \in S  BY <1>3, <2>1
  <2> QED  BY <2>1, <2>2
<1>6. \A n \in 0..Len(s) : n \in T
  <2> HIDE DEF T
  <2> QED  BY <1>1, <1>4, <1>5, Induction
<1> QED  BY <1>1, <1>2, <1>6

----------------------------------------------------------------------------
(* What Picked and Runs do to a sequence that grows.                       *)

(* f has what is picked of every prefix of s.                              *)
PickedBy(f, s, P, C) ==
    /\ f \in [0..Len(s) -> Seq(C)]
    /\ Picked(s, P) = f[Len(s)]
    /\ f[0] = << >>
    /\ \A n \in 1..Len(s) : f[n] = IF n \in P THEN Append(f[n - 1], s[n]) ELSE f[n - 1]

(* The recursive function of Picked is computed from the first element to  *)
(* the last.                                                               *)
LEMMA PickedUnrolls ==
    ASSUME NEW C, NEW s \in Seq(C), NEW P
    PROVE  \E f : PickedBy(f, s, P, C)
<1> DEFINE Body(n, done) == IF n \in P THEN Append(done, s[n]) ELSE done
           Def(f) == f = [n \in 0..Len(s) |-> IF n = 0 THEN << >>
                                   ELSE IF n \in P THEN Append(f[n - 1], s[n]) ELSE f[n - 1]]
           picked == CHOOSE f : Def(f)
           step == [n \in 1..Len(s) |-> [done \in Seq(C) |-> Body(n, done)]]
<1>1. Picked(s, P) = picked[Len(s)]  BY DEF Picked
<1>2. \A n \in 1..Len(s), done \in Seq(C) : Body(n, done) \in Seq(C)  OBVIOUS
<1>3. \A f : Def(f) <=> f = [n \in 0..Len(s) |-> IF n = 0 THEN << >> ELSE Body(n, f[n - 1])]
  OBVIOUS
<1> HIDE DEF Body
<1>4. step \in Steps(Len(s), Seq(C))  BY <1>2 DEF Steps
<1>5. \A n \in 1..Len(s), done \in Seq(C) : step[n][done] = Body(n, done)  OBVIOUS
<1> HIDE DEF step
<1> DEFINE A == Seq(C)
           N == Len(s)
<1>6. << >> \in A /\ N \in Nat /\ step \in Steps(N, A)  BY <1>4
<1>7. PICK f : Unrolls(f, A, << >>, N, step)
  <2> HIDE DEF A, N
  <2> QED  BY <1>6, Recursion
<1>8. /\ f \in [0..N -> A]
      /\ f[0] = << >>
      /\ \A n \in 1..N : f[n] = Body(n, f[n - 1])
  <2>1. \A n \in 1..N : n - 1 \in 0..N  BY <1>6
  <2> QED  BY <1>5, <1>7, <2>1 DEF Unrolls
<1>9. f = [n \in 0..N |-> IF n = 0 THEN << >> ELSE Body(n, f[n - 1])]
  <2>1. \A n \in 0..N : f[n] = IF n = 0 THEN << >> ELSE Body(n, f[n - 1])
    BY <1>6, <1>8
  <2> QED  BY <1>8, <2>1
<1>10. Def(f)  BY <1>9, <1>3
<1> HIDE DEF Def
<1>11. Def(picked)
  <2> QED BY <1>10
<1> HIDE DEF picked
<1>12. picked = [n \in 0..N |-> IF n = 0 THEN << >> ELSE Body(n, picked[n - 1])]  BY <1>11, <1>3
<1>13. \A n \in 0..N : picked[n] = f[n]
  <2> DEFINE S == {n \in 0..N : picked[n] = f[n]}
  <2>1. 0 \in S  BY <1>6, <1>8, <1>12
  <2>2. \A n \in 1..N : n - 1 \in S => n \in S  BY <1>6, <1>8, <1>12
  <2> HIDE DEF S
  <2>3. \A n \in 0..N : n \in S  BY <1>6, <2>1, <2>2, Induction
  <2> QED  BY <2>3 DEF S
<1>14. picked = f  BY <1>8, <1>12, <1>13
<1> QED  BY <1>1, <1>8, <1>14 DEF Body, PickedBy

(* Picked only has elements of the sequence.                               *)
LEMMA PickedSeq ==
    ASSUME NEW C, NEW s \in Seq(C), NEW P
    PROVE  Picked(s, P) \in Seq(C) /\ Picked(<< >>, P) = << >>
<1>1. Picked(s, P) \in Seq(C)
  <2>1. Len(s) \in 0..Len(s)  OBVIOUS
  <2>2. PICK f : PickedBy(f, s, P, C)  BY PickedUnrolls
  <2> QED  BY <2>1, <2>2 DEF PickedBy
<1>2. Picked(<< >>, P) = << >>
  <2>1. << >> \in Seq(C) /\ Len(<< >>) = 0  OBVIOUS
  <2>2. PICK f : PickedBy(f, << >>, P, C)  BY <2>1, PickedUnrolls
  <2> QED  BY <2>1, <2>2 DEF PickedBy
<1> QED  BY <1>1, <1>2

(* Picked of a longer sequence.                                            *)
LEMMA PickedAppend ==
    ASSUME NEW C, NEW s \in Seq(C), NEW c \in C, NEW P
    PROVE  Picked(Append(s, c), P)
              = IF Len(s) + 1 \in P THEN Append(Picked(s, P), c) ELSE Picked(s, P)
<1> DEFINE t == Append(s, c)
           N == Len(s)
<1>1. N \in Nat /\ t \in Seq(C) /\ Len(t) = N + 1 /\ t[N + 1] = c /\ \A i \in 1..N : t[i] = s[i]
  OBVIOUS
<1> HIDE DEF t
<1>2. PICK f : PickedBy(f, s, P, C)  BY PickedUnrolls
<1>3. Picked(s, P) = f[N] /\ f[0] = << >>
         /\ \A n \in 1..N : f[n] = IF n \in P THEN Append(f[n - 1], s[n]) ELSE f[n - 1]
  BY <1>2 DEF PickedBy
<1>4. PICK g : PickedBy(g, t, P, C)  BY <1>1, PickedUnrolls
<1>5. Picked(t, P) = g[N + 1] /\ g[0] = << >>
         /\ \A n \in 1..(N + 1) : g[n] = IF n \in P THEN Append(g[n - 1], t[n]) ELSE g[n - 1]
  BY <1>1, <1>4 DEF PickedBy
<1> HIDE DEF N
<1>6. \A n \in 0..N : f[n] = g[n]
  <2> DEFINE S == {n \in 0..N : f[n] = g[n]}
  <2>1. 0 \in S  BY <1>1, <1>3, <1>5
  <2>2. \A n \in 1..N : n - 1 \in S => n \in S
    <3> TAKE n \in 1..N
    <3>1. n \in 0..N /\ n \in 1..(N + 1) /\ t[n] = s[n]  BY <1>1
    <3> QED  BY <1>3, <1>5, <3>1
  <2> HIDE DEF S
  <2>3. \A n \in 0..N : n \in S  BY <1>1, <2>1, <2>2, Induction
  <2> QED  BY <2>3 DEF S
<1>7. g[N] = f[N] /\ N + 1 \in 1..(N + 1) /\ (N + 1) - 1 = N  BY <1>1, <1>6
<1>8. g[N + 1] = IF N + 1 \in P THEN Append(g[N], t[N + 1]) ELSE g[N]  BY <1>5, <1>7
<1> QED  BY <1>1, <1>3, <1>5, <1>7, <1>8 DEF t, N

(* Picked only depends on the positions of the sequence.                   *)
LEMMA PickedSame ==
    ASSUME NEW C, NEW s \in Seq(C), NEW P, NEW Q, \A i \in DOMAIN s : i \in P <=> i \in Q
    PROVE  Picked(s, P) = Picked(s, Q)
<1> DEFINE Same(t) == \A i \in DOMAIN t : i \in P <=> i \in Q
           S == {t \in Seq(C) : Same(t) => Picked(t, P) = Picked(t, Q)}
<1>1. << >> \in S  BY PickedSeq
<1>2. ASSUME NEW t \in Seq(C), NEW c \in C, t \in S PROVE Append(t, c) \in S
  <2> SUFFICES ASSUME \A i \in DOMAIN Append(t, c) : i \in P <=> i \in Q
               PROVE  Picked(Append(t, c), P) = Picked(Append(t, c), Q)
    OBVIOUS
  <2>1. Picked(t, P) = Picked(t, Q) /\ (Len(t) + 1 \in P <=> Len(t) + 1 \in Q)  BY <1>2
  <2>2. Picked(Append(t, c), P) = IF Len(t) + 1 \in P THEN Append(Picked(t, P), c) ELSE Picked(t, P)
    BY PickedAppend
  <2>3. Picked(Append(t, c), Q) = IF Len(t) + 1 \in Q THEN Append(Picked(t, Q), c) ELSE Picked(t, Q)
    BY PickedAppend
  <2> QED  BY <2>1, <2>2, <2>3
<1> HIDE DEF S
<1>3. \A t \in Seq(C) : t \in S  BY <1>1, <1>2, SeqInduction
<1> QED  BY <1>3 DEF S

(* PickedAppend, for positions that are told by the longer sequence.       *)
LEMMA PickedStep ==
    ASSUME NEW C, NEW s \in Seq(C), NEW c \in C, NEW P, NEW Q, \A i \in DOMAIN s : i \in P <=> i \in Q
    PROVE  Picked(Append(s, c), Q)
              = IF Len(s) + 1 \in Q THEN Append(Picked(s, P), c) ELSE Picked(s, P)
<1>1. Picked(s, P) = Picked(s, Q)  BY PickedSame
<1>2. Picked(Append(s, c), Q) = IF Len(s) + 1 \in Q THEN Append(Picked(s, Q), c) ELSE Picked(s, Q)
  BY PickedAppend
<1> QED  BY <1>1, <1>2

(* All positions give the sequence.                                        *)
LEMMA PickedAll ==
    ASSUME NEW C, NEW s \in Seq(C), NEW P, DOMAIN s \subseteq P
    PROVE  Picked(s, P) = s
<1> DEFINE S == {t \in Seq(C) : DOMAIN t \subseteq P => Picked(t, P) = t}
<1>1. << >> \in S  BY PickedSeq
<1>2. ASSUME NEW t \in Seq(C), NEW c \in C, t \in S PROVE Append(t, c) \in S
  <2> SUFFICES ASSUME DOMAIN Append(t, c) \subseteq P PROVE Picked(Append(t, c), P) = Append(t, c)
    OBVIOUS
  <2>1. Picked(t, P) = t /\ Len(t) + 1 \in P  BY <1>2
  <2>2. Picked(Append(t, c), P) = IF Len(t) + 1 \in P THEN Append(Picked(t, P), c) ELSE Picked(t, P)
    BY PickedAppend
  <2> QED  BY <2>1, <2>2
<1> HIDE DEF S
<1>3. \A t \in Seq(C) : t \in S  BY <1>1, <1>2, SeqInduction
<1> QED  BY <1>3 DEF S

(* What every picked element is, the elements of the result are.           *)
LEMMA PickedIn ==
    ASSUME NEW C, NEW s \in Seq(C), NEW P, NEW D, \A i \in DOMAIN s : i \in P => s[i] \in D
    PROVE  Picked(s, P) \in Seq(D)
<1> DEFINE Fits(t) == \A i \in DOMAIN t : i \in P => t[i] \in D
           S == {t \in Seq(C) : Fits(t) => Picked(t, P) \in Seq(D)}
<1>1. << >> \in S
  <2>1. << >> \in Seq(C) /\ << >> \in Seq(D)  OBVIOUS
  <2>2. Picked(<< >>, P) = << >>  BY <2>1, PickedSeq
  <2> HIDE DEF Fits
  <2> QED  BY <2>1, <2>2
<1>2. ASSUME NEW t \in Seq(C), NEW c \in C, t \in S PROVE Append(t, c) \in S
  <2> SUFFICES ASSUME Fits(Append(t, c)) PROVE Picked(Append(t, c), P) \in Seq(D)
    <3> HIDE DEF Fits
    <3>1. Append(t, c) \in Seq(C)  OBVIOUS
    <3> QED  BY <3>1
  <2>1. \A i \in DOMAIN t : i \in DOMAIN Append(t, c) /\ Append(t, c)[i] = t[i]  OBVIOUS
  <2>2. Picked(t, P) \in Seq(D)  BY <1>2, <2>1
  <2>3. Len(t) + 1 \in P => c \in D
    <3>1. Len(t) + 1 \in DOMAIN Append(t, c) /\ Append(t, c)[Len(t) + 1] = c  OBVIOUS
    <3> QED  BY <3>1
  <2>4. Picked(Append(t, c), P) = IF Len(t) + 1 \in P THEN Append(Picked(t, P), c) ELSE Picked(t, P)
    BY PickedAppend
  <2> QED  BY <2>2, <2>3, <2>4
<1> HIDE DEF S
<1>3. \A t \in Seq(C) : t \in S  BY <1>1, <1>2, SeqInduction
<1> QED  BY <1>3 DEF S

(* Runs of a longer sequence: a character of a run counts if it is the     *)
(* first of it.                                                            *)
LEMMA RunsAppend ==
    ASSUME NEW C, NEW s \in Seq(C), NEW c \in C, NEW chars, NEW k
    PROVE  Runs(Append(s, c), chars, k)
              = IF c \notin chars THEN Append(Runs(s, chars, k), c)
                ELSE IF s # << >> /\ s[Len(s)] \in chars THEN Runs(s, chars, k)
                ELSE Append(Runs(s, chars, k), k)
<1> DEFINE t == Append(s, c)
           P == {i \in DOMAIN s : i > 1 /\ s[i] \in chars => s[i - 1] \notin chars}
           Q == {i \in DOMAIN t : i > 1 /\ t[i] \in chars => t[i - 1] \notin chars}
           first == Picked(s, P)
           all == Picked(t, Q)
           Sub(x) == [i \in DOMAIN x |-> IF x[i] \in chars THEN k ELSE x[i]]
<1>1. Runs(s, chars, k) = Sub(first) /\ Runs(t, chars, k) = Sub(all)  BY DEF Runs
<1>2. Len(s) \in Nat /\ t[Len(s) + 1] = c /\ DOMAIN t = 1..(Len(s) + 1)
        /\ \A i \in DOMAIN s : t[i] = s[i]
  OBVIOUS
<1>3. \A i \in DOMAIN s : i \in P <=> i \in Q
  <2> TAKE i \in DOMAIN s
  <2>1. i \in DOMAIN t /\ t[i] = s[i] /\ (i > 1 => t[i - 1] = s[i - 1])
    <3>1. DOMAIN s = 1..Len(s) /\ Len(s) \in Nat  OBVIOUS
    <3>2. i > 1 => i - 1 \in DOMAIN s  BY <3>1
    <3>3. i \in DOMAIN t  BY <1>2, <3>1
    <3> HIDE DEF t
    <3> QED  BY <1>2, <3>2, <3>3
  <2> HIDE DEF t
  <2> QED  BY <2>1
<1>4. all = IF Len(s) + 1 \in Q THEN Append(first, c) ELSE first
  <2> HIDE DEF P, Q
  <2> QED  BY <1>3, PickedStep
<1>5. Len(s) + 1 \in Q <=> ~(c \in chars /\ s # << >> /\ s[Len(s)] \in chars)
  <2>1. Len(s) + 1 > 1 <=> s # << >>  BY <1>2
  <2>2. (Len(s) + 1) - 1 = Len(s) /\ (s # << >> => Len(s) \in DOMAIN s)  BY <1>2
  <2> HIDE DEF t
  <2> QED  BY <1>2, <2>1, <2>2
<1>6. first \in Seq(C)  BY PickedSeq
<1>7. Sub(Append(first, c)) = Append(Sub(first), IF c \in chars THEN k ELSE c)
  <2> HIDE DEF first
  <2> QED  BY <1>6
<1> HIDE DEF first, all, Sub, P, Q
<1> QED  BY <1>1, <1>4, <1>5, <1>7 DEF t

(* Of the characters that make runs, only c is left.                       *)
LEMMA RunsSeq ==
    ASSUME NEW C, NEW s \in Seq(C), NEW chars, NEW k
    PROVE  Runs(s, chars, k) \in Seq((C \ chars) \cup {k}) /\ Runs(<< >>, chars, k) = << >>
<1> DEFINE P == {i \in DOMAIN s : i > 1 /\ s[i] \in chars => s[i - 1] \notin chars}
           once == Picked(s, P)
<1>1. once \in Seq(C)  BY PickedSeq
<1>2. Runs(s, chars, k) \in Seq((C \ chars) \cup {k})
  <2>1. Runs(s, chars, k) = [i \in DOMAIN once |-> IF once[i] \in chars THEN k ELSE once[i]]
    BY DEF Runs
  <2> HIDE DEF once
  <2> QED  BY <1>1, <2>1
<1>3. Runs(<< >>, chars, k) = << >>
  <2> DEFINE R == {i \in DOMAIN << >> : i > 1 /\ << >>[i] \in chars => << >>[i - 1] \notin chars}
             none == Picked(<< >>, R)
  <2>1. none = << >>  BY PickedSeq
  <2>2. Runs(<< >>, chars, k) = [i \in DOMAIN none |-> IF none[i] \in chars THEN k ELSE none[i]]
    BY DEF Runs
  <2> HIDE DEF none
  <2> QED  BY <2>1, <2>2
<1> QED  BY <1>2, <1>3

----------------------------------------------------------------------------
(* A reader of one pass, which has the slug of what it read.  A mark ends  *)
(* the slug, a letter is appended, and separators are one hyphen, if a     *)
(* letter follows.                                                         *)

Marks == {"|", "#"}
Letters == {"a", "1", "A"}
SlugChars == {"a", "1", "-"}
Texts == Seq(Alphabet)
States == [done : Seq(SlugChars), gap : BOOLEAN, over : BOOLEAN]
Start == [done |-> << >>, gap |-> FALSE, over |-> FALSE]
Low(c) == IF c = "A" THEN "a" ELSE c

(* over: a mark was read.  gap: a hyphen is due before the next letter.    *)
Read(st, c) ==
    IF st.over \/ c \in Marks THEN [st EXCEPT !.over = TRUE]
    ELSE IF c \in Letters
    THEN [done |-> Append(IF st.gap THEN Append(st.done, "-") ELSE st.done, Low(c)),
          gap |-> FALSE, over |-> FALSE]
    ELSE IF c \in Separators THEN [st EXCEPT !.gap = st.done # << >>]
    ELSE st

Reads(s) == [n \in 1..Len(s) |-> [st \in States |-> Read(st, s[n])]]

(* The state after s was read.                                             *)
Run(s) == (CHOOSE f : Unrolls(f, States, Start, Len(s), Reads(s)))[Len(s)]

(* The reader stays in its states.                                         *)
LEMMA ReadState ==
    ASSUME NEW st \in States, NEW c PROVE Read(st, c) \in States
<1>1. CASE st.over \/ c \in Marks  BY <1>1 DEF Read, States
<1>2. CASE ~(st.over \/ c \in Marks) /\ c \in Letters
  <2>1. Low(c) \in SlugChars /\ "-" \in SlugChars  BY <1>2 DEF Letters, SlugChars, Low
  <2>2. st.done \in Seq(SlugChars)  BY DEF States
  <2> DEFINE d == Append(IF st.gap THEN Append(st.done, "-") ELSE st.done, Low(c))
  <2>3. d \in Seq(SlugChars)  BY <2>1, <2>2
  <2>4. Read(st, c) = [done |-> d, gap |-> FALSE, over |-> FALSE]  BY <1>2 DEF Read
  <2> HIDE DEF d
  <2> QED  BY <2>3, <2>4 DEF States
<1>3. CASE ~(st.over \/ c \in Marks) /\ c \notin Letters  BY <1>3 DEF Read, States
<1> QED  BY <1>1, <1>2, <1>3

(* It starts in one of them.                                               *)
LEMMA StartState == Start \in States
BY DEF Start, States

(* Run goes through the text from the first character to the last.         *)
LEMMA RunUnrolls ==
    ASSUME NEW s \in Texts
    PROVE  \E f \in [0..Len(s) -> States] :
              /\ Run(s) = f[Len(s)]
              /\ f[0] = Start
              /\ \A n \in 1..Len(s) : f[n] = Read(f[n - 1], s[n])
<1> DEFINE N == Len(s)
           f == CHOOSE g : Unrolls(g, States, Start, N, Reads(s))
<1>1. N \in Nat  BY DEF Texts
<1>2. Reads(s) \in Steps(N, States)  BY ReadState DEF Reads, Steps
<1>3. Unrolls(f, States, Start, N, Reads(s))
  <2> HIDE DEF N
  <2>1. \E g : Unrolls(g, States, Start, N, Reads(s))  BY <1>1, <1>2, StartState, Recursion
  <2> QED  BY <2>1
<1>4. Run(s) = f[N]  BY DEF Run
<1> HIDE DEF f
<1>5. \A n \in 1..N : f[n - 1] \in States
  <2>1. \A n \in 1..N : n - 1 \in 0..N  BY <1>1
  <2> QED  BY <1>3, <2>1 DEF Unrolls
<1>6. \A n \in 1..N : Reads(s)[n][f[n - 1]] = Read(f[n - 1], s[n])
  BY <1>5 DEF Reads
<1> QED  BY <1>3, <1>4, <1>6 DEF Unrolls

(* Run of a longer text reads one more character.                          *)
LEMMA RunAppend ==
    /\ Run(<< >>) = Start
    /\ \A s \in Texts : Run(s) \in States
    /\ \A s \in Texts, c \in Alphabet : Run(Append(s, c)) = Read(Run(s), c)
<1>1. Run(<< >>) = Start
  <2>1. << >> \in Texts /\ Len(<< >>) = 0  BY DEF Texts
  <2> QED  BY <2>1, RunUnrolls
<1>2. ASSUME NEW s \in Texts PROVE Run(s) \in States
  <2>1. Len(s) \in 0..Len(s)  BY DEF Texts
  <2> QED  BY <2>1, RunUnrolls
<1>3. ASSUME NEW s \in Texts, NEW c \in Alphabet PROVE Run(Append(s, c)) = Read(Run(s), c)
  <2> DEFINE t == Append(s, c)
             N == Len(s)
  <2>1. N \in Nat /\ t \in Texts /\ Len(t) = N + 1 /\ t[N + 1] = c /\ \A i \in 1..N : t[i] = s[i]
    BY DEF Texts
  <2> HIDE DEF t
  <2>2. PICK f \in [0..N -> States] :
          Run(s) = f[N] /\ f[0] = Start /\ \A n \in 1..N : f[n] = Read(f[n - 1], s[n])
    BY RunUnrolls
  <2>3. PICK g \in [0..Len(t) -> States] :
           /\ Run(t) = g[Len(t)]
           /\ g[0] = Start
           /\ \A n \in 1..Len(t) : g[n] = Read(g[n - 1], t[n])
    BY <2>1, RunUnrolls
  <2> HIDE DEF N
  <2>4. /\ Run(t) = g[N + 1]
        /\ g[0] = Start
        /\ \A n \in 1..(N + 1) : g[n] = Read(g[n - 1], t[n])
    BY <2>1, <2>3
  <2>5. \A n \in 0..N : f[n] = g[n]
    <3> DEFINE S == {n \in 0..N : f[n] = g[n]}
    <3>1. 0 \in S  BY <2>1, <2>2, <2>4
    <3>2. ASSUME NEW n \in 1..N, n - 1 \in S PROVE n \in S
      <4>1. n \in 0..N /\ n \in 1..(N + 1) /\ t[n] = s[n]  BY <2>1
      <4> QED  BY <2>2, <2>4, <3>2, <4>1
    <3> HIDE DEF S
    <3>3. \A n \in 0..N : n \in S  BY <2>1, <3>1, <3>2, Induction
    <3> QED  BY <3>3 DEF S
  <2>6. g[N] = f[N] /\ N + 1 \in 1..(N + 1) /\ (N + 1) - 1 = N  BY <2>1, <2>5
  <2> QED  BY <2>1, <2>2, <2>4, <2>6 DEF t
<1> QED  BY <1>1, <1>2, <1>3

----------------------------------------------------------------------------
(* UpTo and Strip take a part of a sequence.                               *)

(* A set of positions that is not empty has a first and a last one.        *)
LEMMA MinMax ==
    ASSUME NEW N \in Nat, NEW K \in SUBSET (1..N), K # {}
    PROVE  /\ Min(K) \in K /\ \A k \in K : Min(K) <= k
           /\ Max(K) \in K /\ \A k \in K : k <= Max(K)
<1>1. \E x \in K : \A y \in K : x <= y
  <2>1. K \in SUBSET Nat  OBVIOUS
  <2> QED  BY <2>1, LeastNat
<1>2. \E x \in K : \A y \in K : x >= y
  <2> DEFINE D == {N - k : k \in K}
  <2>1. D \in SUBSET Nat /\ D # {}
    <3>1. \A k \in K : N - k \in Nat  OBVIOUS
    <3> QED  BY <3>1
  <2>2. PICK d \in D : \A e \in D : d <= e
    <3> HIDE DEF D
    <3> QED  BY <2>1, LeastNat
  <2>3. PICK x \in K : d = N - x  BY <2>2
  <2>4. \A y \in K : x >= y
    <3> TAKE y \in K
    <3>1. N - y \in D  OBVIOUS
    <3>2. x \in 1..N /\ y \in 1..N  OBVIOUS
    <3> HIDE DEF D
    <3>3. N - x <= N - y  BY <2>2, <2>3, <3>1
    <3> QED  BY <3>2, <3>3
  <2> QED  BY <2>4
<1>3. Min(K) \in K /\ \A k \in K : Min(K) <= k  BY <1>1 DEF Min
<1>4. Max(K) \in K /\ \A k \in K : Max(K) >= k  BY <1>2 DEF Max
<1>5. \A k \in K : k \in Nat  OBVIOUS
<1> QED  BY <1>3, <1>4, <1>5

(* UpTo gives the longest prefix without the mark.                         *)
LEMMA UpToPrefix ==
    ASSUME NEW C, NEW s \in Seq(C), NEW mark
    PROVE  \E k \in 0..Len(s) :
              /\ UpTo(s, mark) = SubSeq(s, 1, k)
              /\ \A i \in 1..k : s[i] # mark
              /\ k < Len(s) => s[k + 1] = mark
<1> DEFINE marks == {i \in DOMAIN s : s[i] = mark}
<1>1. DOMAIN s = 1..Len(s) /\ Len(s) \in Nat  OBVIOUS
<1>2. CASE marks = {}
  <2>1. UpTo(s, mark) = s  BY <1>2 DEF UpTo
  <2>2. s = SubSeq(s, 1, Len(s))  OBVIOUS
  <2>3. Len(s) \in 0..Len(s) /\ \A i \in 1..Len(s) : s[i] # mark  BY <1>1, <1>2
  <2>4. ~(Len(s) < Len(s))  BY <1>1
  <2> QED  BY <2>1, <2>2, <2>3, <2>4
<1>3. CASE marks # {}
  <2>1. marks \in SUBSET (1..Len(s))  BY <1>1
  <2>2. Min(marks) \in marks /\ \A i \in marks : Min(marks) <= i
    <3> HIDE DEF marks
    <3> QED  BY <1>1, <1>3, <2>1, MinMax
  <2>3. UpTo(s, mark) = SubSeq(s, 1, Min(marks) - 1)  BY <1>3 DEF UpTo
  <2> DEFINE m == Min(marks)
  <2> HIDE DEF m
  <2>4. m \in 1..Len(s) /\ s[m] = mark /\ \A i \in DOMAIN s : s[i] = mark => m <= i
    BY <2>1, <2>2 DEF m
  <2>5. m - 1 \in 0..Len(s) /\ \A i \in 1..(m - 1) : s[i] # mark  BY <1>1, <2>4
  <2>6. m - 1 < Len(s) => s[(m - 1) + 1] = mark  BY <2>4
  <2> QED  BY <2>3, <2>5, <2>6 DEF m
<1> QED  BY <1>2, <1>3

(* The mark is not in it.                                                  *)
LEMMA UpToSeq ==
    ASSUME NEW C, NEW s \in Seq(C), NEW mark
    PROVE  UpTo(s, mark) \in Seq(C \ {mark}) /\ UpTo(<< >>, mark) = << >>
<1>1. PICK k \in 0..Len(s) :
        /\ UpTo(s, mark) = SubSeq(s, 1, k)
        /\ \A i \in 1..k : s[i] # mark
        /\ k < Len(s) => s[k + 1] = mark
  BY UpToPrefix
<1>2. SubSeq(s, 1, k) \in Seq(C \ {mark})
  <2>1. Len(SubSeq(s, 1, k)) = k /\ \A i \in 1..k : SubSeq(s, 1, k)[i] = s[i] /\ s[i] \in C  OBVIOUS
  <2>2. SubSeq(s, 1, k) \in Seq(C)  OBVIOUS
  <2> DEFINE t == SubSeq(s, 1, k)
  <2> HIDE DEF t
  <2>3. t \in Seq(C) /\ \A i \in 1..Len(t) : t[i] # mark  BY <1>1, <2>1, <2>2 DEF t
  <2> QED  BY <2>3 DEF t
<1>3. UpTo(<< >>, mark) = << >>  BY DEF UpTo
<1> QED  BY <1>1, <1>2, <1>3

(* UpTo of a longer sequence.                                              *)
LEMMA UpToAppend ==
    ASSUME NEW C, NEW s \in Seq(C), NEW c \in C, NEW mark
    PROVE  UpTo(Append(s, c), mark)
              = IF \E i \in DOMAIN s : s[i] = mark THEN UpTo(s, mark)
                ELSE IF c = mark THEN s ELSE Append(s, c)
<1> DEFINE t == Append(s, c)
           N == Len(s)
<1>1. N \in Nat /\ t \in Seq(C) /\ Len(t) = N + 1 /\ t[N + 1] = c /\ (\A i \in 1..N : t[i] = s[i])
        /\ DOMAIN s = 1..N
  OBVIOUS
<1>2. \A k \in 0..N : SubSeq(t, 1, k) = SubSeq(s, 1, k)  OBVIOUS
<1>3. SubSeq(t, 1, N + 1) = t /\ SubSeq(s, 1, N) = s
  <2>1. SubSeq(t, 1, Len(t)) = t  BY <1>1
  <2> QED  BY <1>1, <2>1
<1> HIDE DEF t
<1>4. PICK k \in 0..Len(s) :
        /\ UpTo(s, mark) = SubSeq(s, 1, k)
        /\ \A i \in 1..k : s[i] # mark
        /\ k < Len(s) => s[k + 1] = mark
  BY UpToPrefix
<1>5. PICK l \in 0..Len(t) :
        /\ UpTo(t, mark) = SubSeq(t, 1, l)
        /\ \A i \in 1..l : t[i] # mark
        /\ l < Len(t) => t[l + 1] = mark
  BY <1>1, UpToPrefix
<1> HIDE DEF N
<1>6. CASE \E i \in DOMAIN s : s[i] = mark
  <2>1. PICK i \in 1..N : s[i] = mark  BY <1>1, <1>6
  <2>2. k < i /\ l < i  BY <1>1, <1>4, <1>5, <2>1 DEF N
  <2>3. k + 1 \in 1..N /\ l + 1 \in 1..N /\ s[k + 1] = mark /\ t[l + 1] = mark
    BY <1>1, <1>4, <1>5, <2>1, <2>2 DEF N
  <2>4. ~(k < l) /\ ~(l < k)
    <3>1. k < l => k + 1 \in 1..l  BY <1>1, <1>4, <1>5 DEF N
    <3>2. l < k => l + 1 \in 1..k  BY <1>1, <1>4, <1>5 DEF N
    <3> QED  BY <1>1, <1>4, <1>5, <2>3, <3>1, <3>2
  <2>5. k = l  BY <1>1, <1>4, <1>5, <2>4 DEF N
  <2> QED  BY <1>2, <1>4, <1>5, <1>6, <2>5 DEF t, N
<1>7. CASE ~(\E i \in DOMAIN s : s[i] = mark) /\ c = mark
  <2>1. l \in 0..(N + 1) /\ ~(l < N) /\ l # N + 1
    <3>1. l \in 0..(N + 1)  BY <1>1, <1>5
    <3>2. l < N => l + 1 \in 1..N /\ l < Len(t)  BY <1>1, <3>1
    <3>3. l = N + 1 => N + 1 \in 1..l  BY <1>1
    <3> QED  BY <1>1, <1>5, <1>7, <3>1, <3>2, <3>3
  <2>2. l = N  BY <1>1, <2>1
  <2>3. N \in 0..N  BY <1>1
  <2> QED  BY <1>2, <1>3, <1>5, <1>7, <2>2, <2>3 DEF t
<1>8. CASE ~(\E i \in DOMAIN s : s[i] = mark) /\ c # mark
  <2>1. l \in 0..(N + 1) /\ ~(l < N + 1)
    <3>1. l \in 0..(N + 1)  BY <1>1, <1>5
    <3>2. l < N + 1 => l + 1 \in 1..(N + 1) /\ l < Len(t)  BY <1>1, <3>1
    <3>3. \A i \in 1..(N + 1) : t[i] # mark
      <4> TAKE i \in 1..(N + 1)
      <4>1. i = N + 1 \/ i \in 1..N  BY <1>1
      <4> QED  BY <1>1, <1>8, <4>1
    <3> QED  BY <1>5, <3>1, <3>2, <3>3
  <2>2. l = N + 1  BY <1>1, <2>1
  <2> QED  BY <1>3, <1>5, <1>8, <2>2 DEF t
<1> QED  BY <1>6, <1>7, <1>8

(* What follows a mark does not change the slug.                           *)
LEMMA RunUpTo ==
    ASSUME NEW s \in Texts, NEW mark \in Marks
    PROVE  Run(UpTo(s, mark)).done = Run(s).done
<1> DEFINE S == {t \in Texts : /\ Run(UpTo(t, mark)).done = Run(t).done
                               /\ (\E i \in DOMAIN t : t[i] = mark) => Run(t).over}
<1>1. << >> \in S
  <2>1. << >> \in Texts /\ DOMAIN << >> = {}  BY DEF Texts
  <2>2. UpTo(<< >>, mark) = << >>  BY <2>1, UpToSeq DEF Texts
  <2> QED  BY <2>1, <2>2
<1>2. ASSUME NEW t \in Texts, NEW c \in Alphabet, t \in S PROVE Append(t, c) \in S
  <2> DEFINE u == Append(t, c)
             Has(x) == \E i \in DOMAIN x : x[i] = mark
  <2>1. u \in Texts  BY DEF Texts
  <2>2. Run(u) = Read(Run(t), c) /\ Run(t) \in States  BY RunAppend
  <2>3. UpTo(u, mark) = IF Has(t) THEN UpTo(t, mark) ELSE IF c = mark THEN t ELSE u
    BY UpToAppend DEF Texts
  <2>4. Has(u) <=> Has(t) \/ c = mark
    <3>1. Len(t) \in Nat /\ DOMAIN u = 1..(Len(t) + 1) /\ u[Len(t) + 1] = c
            /\ DOMAIN t = 1..Len(t) /\ \A i \in 1..Len(t) : u[i] = t[i]
      BY DEF Texts
    <3> HIDE DEF u
    <3>2. \A i \in 1..(Len(t) + 1) : i \in 1..Len(t) \/ i = Len(t) + 1  BY <3>1
    <3>3. Len(t) + 1 \in 1..(Len(t) + 1) /\ \A i \in 1..Len(t) : i \in 1..(Len(t) + 1)  BY <3>1
    <3> QED  BY <3>1, <3>2, <3>3
  <2>5. Run(UpTo(t, mark)).done = Run(t).done /\ (Has(t) => Run(t).over)  BY <1>2
  <2> HIDE DEF Has, u
  <2>6. CASE Has(t)
    <3>1. Run(u) = [Run(t) EXCEPT !.over = TRUE]  BY <2>2, <2>5, <2>6 DEF Read
    <3>2. Run(u).done = Run(t).done /\ Run(u).over  BY <2>2, <3>1 DEF States
    <3> QED  BY <2>1, <2>3, <2>5, <2>6, <3>2 DEF u, Has
  <2>7. CASE ~Has(t) /\ c = mark
    <3>1. Run(u) = [Run(t) EXCEPT !.over = TRUE]  BY <2>2, <2>7 DEF Read
    <3>2. Run(u).done = Run(t).done /\ Run(u).over  BY <2>2, <3>1 DEF States
    <3> QED  BY <2>1, <2>3, <2>7, <3>2 DEF u
  <2>8. CASE ~Has(t) /\ c # mark
    <3>1. ~Has(u) /\ UpTo(u, mark) = u  BY <2>3, <2>4, <2>8
    <3> QED  BY <2>1, <3>1 DEF u, Has
  <2> QED  BY <2>6, <2>7, <2>8
<1> HIDE DEF S
<1>3. \A t \in Texts : t \in S
  <2>1. << >> \in S /\ \A t \in Seq(Alphabet), c \in Alphabet : t \in S => Append(t, c) \in S
    BY <1>1, <1>2 DEF Texts
  <2> QED  BY <2>1, SeqInduction DEF Texts
<1> QED  BY <1>3 DEF S

(* x is s without characters of D at both ends.                            *)
Around(x, s, D) == \E a, b \in Seq(D) : s = (a \o x) \o b

(* Strip takes the characters from the ends only.                          *)
LEMMA StripParts ==
    ASSUME NEW C, NEW s \in Seq(C), NEW chars
    PROVE  /\ Strip(s, chars) \in Seq(C)
           /\ Around(Strip(s, chars), s, C \cap chars)
<1> USE DEF Around
<1> DEFINE kept == {i \in DOMAIN s : s[i] \notin chars}
           N == Len(s)
<1>1. DOMAIN s = 1..N /\ N \in Nat  OBVIOUS
<1>2. CASE kept = {}
  <2>1. Strip(s, chars) = << >>  BY <1>2 DEF Strip
  <2>2. s \in Seq(C \cap chars)
    <3>1. \A i \in 1..Len(s) : s[i] \in C \cap chars  BY <1>2
    <3> QED  BY <3>1
  <2>3. << >> \in Seq(C) /\ << >> \in Seq(C \cap chars) /\ s = (<< >> \o << >>) \o s  OBVIOUS
  <2> QED  BY <2>1, <2>2, <2>3
<1>3. CASE kept # {}
  <2> DEFINE lo == Min(kept)
             hi == Max(kept)
             a == SubSeq(s, 1, lo - 1)
             m == SubSeq(s, lo, hi)
             b == SubSeq(s, hi + 1, N)
  <2>1. Strip(s, chars) = m  BY <1>3 DEF Strip
  <2>2. kept \in SUBSET (1..N)  BY <1>1
  <2>3. lo \in kept /\ hi \in kept /\ \A i \in kept : lo <= i /\ i <= hi
    <3> HIDE DEF kept
    <3> QED  BY <1>1, <1>3, <2>2, MinMax
  <2> HIDE DEF lo, hi
  <2>4. lo \in 1..N /\ hi \in 1..N /\ lo <= hi  BY <2>2, <2>3
  <2>5. \A i \in 1..N : i < lo \/ hi < i => s[i] \in C \cap chars
    <3> TAKE i \in 1..N
    <3>1. i \notin kept => s[i] \in C \cap chars  BY <1>1
    <3>2. i \in kept => lo <= i /\ i <= hi  BY <2>3
    <3> QED  BY <2>4, <3>1, <3>2
  <2>6. a \in Seq(C \cap chars)
    <3>1. a \in Seq(C) /\ Len(a) = lo - 1 /\ \A i \in 1..(lo - 1) : a[i] = s[i]  BY <2>4
    <3>2. \A i \in 1..(lo - 1) : s[i] \in C \cap chars  BY <2>4, <2>5
    <3> HIDE DEF a
    <3> QED  BY <3>1, <3>2
  <2>7. b \in Seq(C \cap chars)
    <3>1. b \in Seq(C) /\ Len(b) = N - hi /\ \A i \in 1..(N - hi) : b[i] = s[hi + i]  BY <2>4
    <3>2. \A i \in 1..(N - hi) : s[hi + i] \in C \cap chars
      <4> TAKE i \in 1..(N - hi)
      <4>1. hi + i \in 1..N /\ hi < hi + i  BY <2>4
      <4> QED  BY <2>5, <4>1
    <3> HIDE DEF b
    <3> QED  BY <3>1, <3>2
  <2>8. m \in Seq(C)  BY <2>4
  <2>9. s = (a \o m) \o b
    <3>1. Len(a) = lo - 1 /\ Len(m) = hi - lo + 1 /\ Len(b) = N - hi  BY <2>4
    <3>2. /\ \A i \in 1..(lo - 1) : a[i] = s[i]
          /\ \A i \in 1..(hi - lo + 1) : m[i] = s[lo + i - 1]
          /\ \A i \in 1..(N - hi) : b[i] = s[hi + i]
      BY <2>4
    <3>3. a \in Seq(C) /\ b \in Seq(C)  BY <2>4
    <3> HIDE DEF a, m, b
    <3> DEFINE front == a \o m
               t == front \o b
    <3>4. front \in Seq(C) /\ Len(front) = hi
            /\ (\A i \in 1..(lo - 1) : front[i] = s[i])
            /\ \A i \in lo..hi : front[i] = s[i]
      <4>1. front \in Seq(C) /\ Len(front) = Len(a) + Len(m)  BY <2>8, <3>3
      <4>2. Len(front) = hi  BY <1>1, <2>4, <3>1, <4>1
      <4>3. \A i \in 1..(lo - 1) : front[i] = a[i]  BY <2>8, <3>1, <3>3
      <4>4. ASSUME NEW i \in lo..hi PROVE front[i] = s[i]
        <5>1. front[i] = m[i - Len(a)]  BY <2>4, <2>8, <3>1, <3>3
        <5>2. i - Len(a) = i - lo + 1 /\ i - lo + 1 \in 1..(hi - lo + 1) /\ lo + (i - lo + 1) - 1 = i
          BY <2>4, <3>1
        <5> QED  BY <3>2, <5>1, <5>2
      <4> QED  BY <3>2, <4>1, <4>2, <4>3, <4>4
    <3> HIDE DEF front
    <3>5. t \in Seq(C) /\ Len(t) = N
      <4>1. t \in Seq(C) /\ Len(t) = hi + (N - hi)  BY <3>1, <3>3, <3>4
      <4> QED  BY <1>1, <2>4, <4>1
    <3>6. ASSUME NEW i \in 1..N PROVE t[i] = s[i]
      <4>1. CASE i <= hi
        <5>1. t[i] = front[i]  BY <2>4, <3>3, <3>4, <4>1
        <5>2. i \in 1..(lo - 1) \/ i \in lo..hi  BY <2>4, <4>1
        <5> QED  BY <3>4, <5>1, <5>2
      <4>2. CASE hi < i
        <5>1. i - hi \in 1..(N - hi) /\ hi + (i - hi) = i  BY <1>1, <2>4, <4>2
        <5>2. t[i] = b[i - hi]  BY <1>1, <2>4, <3>1, <3>3, <3>4, <4>2
        <5> QED  BY <3>2, <5>1, <5>2
      <4>3. i \in Nat /\ hi \in Nat  BY <1>1, <2>4
      <4>4. i <= hi \/ hi < i  BY <4>3
      <4> HIDE DEF t
      <4> QED  BY <4>1, <4>2, <4>4
    <3> HIDE DEF t
    <3>7. s \in Seq(C) /\ Len(s) = N  OBVIOUS
    <3> HIDE DEF N
    <3> QED  BY <3>5, <3>6, <3>7 DEF t, front
  <2> HIDE DEF a, m, b
  <2> QED  BY <2>1, <2>6, <2>7, <2>8, <2>9
<1> QED  BY <1>2, <1>3

(* It takes all of them.                                                   *)
LEMMA StripEnds ==
    ASSUME NEW C, NEW s \in Seq(C), NEW chars, Strip(s, chars) # << >>
    PROVE  LET t == Strip(s, chars) IN t[1] \notin chars /\ t[Len(t)] \notin chars
<1> DEFINE kept == {i \in DOMAIN s : s[i] \notin chars}
           N == Len(s)
<1>1. DOMAIN s = 1..N /\ N \in Nat  OBVIOUS
<1>2. kept # {}  BY DEF Strip
<1> DEFINE lo == Min(kept)
           hi == Max(kept)
<1>3. Strip(s, chars) = SubSeq(s, lo, hi)  BY <1>2 DEF Strip
<1>4. kept \in SUBSET (1..N)  BY <1>1
<1>5. lo \in kept /\ hi \in kept /\ \A i \in kept : lo <= i /\ i <= hi
  <2> HIDE DEF kept
  <2> QED  BY <1>1, <1>2, <1>4, MinMax
<1> HIDE DEF lo, hi
<1>6. lo \in 1..N /\ hi \in 1..N /\ lo <= hi  BY <1>4, <1>5
<1> DEFINE m == SubSeq(s, lo, hi)
<1>7. Len(m) = hi - lo + 1 /\ m[1] = s[lo] /\ m[hi - lo + 1] = s[hi]  BY <1>6
<1> HIDE DEF m
<1> QED  BY <1>3, <1>5, <1>7 DEF m

(* Strip gives what is between the characters it takes.                    *)
LEMMA StripMiddle ==
    ASSUME NEW C, NEW chars, NEW a \in Seq(chars), NEW m \in Seq(C), NEW b \in Seq(chars),
           m # << >> => m[1] \notin chars /\ m[Len(m)] \notin chars
    PROVE  Strip((a \o m) \o b, chars) = m
<1> DEFINE s == (a \o m) \o b
           kept == {i \in DOMAIN s : s[i] \notin chars}
           A == Len(a)
           M == Len(m)
           B == Len(b)
<1>1. A \in Nat /\ M \in Nat /\ B \in Nat /\ DOMAIN s = 1..(A + M + B)
  OBVIOUS
<1>2. /\ \A i \in 1..A : s[i] = a[i] /\ a[i] \in chars
      /\ \A i \in 1..M : s[A + i] = m[i]
      /\ \A i \in 1..B : s[A + M + i] = b[i] /\ b[i] \in chars
  OBVIOUS
<1>3. m = << >> <=> M = 0  OBVIOUS
<1>4. SubSeq(s, A + 1, A + M) = m
  <2> DEFINE t == SubSeq(s, A + 1, A + M)
  <2>1. s \in Seq(C \cup chars) /\ Len(s) = A + M + B
    <3>1. a \in Seq(C \cup chars) /\ m \in Seq(C \cup chars) /\ b \in Seq(C \cup chars)  OBVIOUS
    <3> QED  BY <3>1
  <2> HIDE DEF s
  <2>2. t \in Seq(C \cup chars) /\ Len(t) = M  BY <1>1, <2>1
  <2>3. \A i \in 1..M : t[i] = m[i]
    <3> TAKE i \in 1..M
    <3>1. t[i] = s[A + i]  BY <1>1, <2>1
    <3> QED  BY <1>2, <3>1
  <2> HIDE DEF t
  <2> QED  BY <2>2, <2>3 DEF t
<1> HIDE DEF s
<1>5. \A i \in DOMAIN s : s[i] \notin chars => i \in (A + 1)..(A + M)
  <2> TAKE i \in DOMAIN s
  <2>1. i \in 1..A => s[i] \in chars  BY <1>2
  <2>2. i \in (A + M + 1)..(A + M + B) => s[i] \in chars
    <3> SUFFICES ASSUME i \in (A + M + 1)..(A + M + B) PROVE s[i] \in chars  OBVIOUS
    <3>1. i - (A + M) \in 1..B /\ i = A + M + (i - (A + M))  BY <1>1
    <3> QED  BY <1>2, <3>1
  <2> HIDE DEF A, M, B
  <2> QED  BY <1>1, <2>1, <2>2
<1> HIDE DEF A, B
<1>6. CASE M = 0
  <2>1. kept = {}  BY <1>1, <1>5, <1>6
  <2> QED  BY <1>3, <1>6, <2>1 DEF Strip, s
<1>7. CASE M # 0
  <2>1. s[A + 1] = m[1] /\ s[A + M] = m[M] /\ m[1] \notin chars /\ m[M] \notin chars
    BY <1>1, <1>2, <1>3, <1>7
  <2>2. A + 1 \in kept /\ A + M \in kept /\ \A i \in kept : A + 1 <= i /\ i <= A + M
    BY <1>1, <1>5, <1>7, <2>1
  <2>3. kept \in SUBSET (1..(A + M + B)) /\ A + M + B \in Nat  BY <1>1
  <2> DEFINE lo == Min(kept)
             hi == Max(kept)
  <2>4. lo \in kept /\ hi \in kept /\ \A i \in kept : lo <= i /\ i <= hi
    <3> HIDE DEF kept
    <3> QED  BY <2>2, <2>3, MinMax
  <2>5. kept # {} /\ Strip(s, chars) = SubSeq(s, lo, hi)  BY <2>2 DEF Strip
  <2> HIDE DEF lo, hi
  <2>6. lo = A + 1 /\ hi = A + M
    <3>1. lo \in Nat /\ hi \in Nat /\ lo <= A + 1 /\ A + 1 <= lo /\ hi <= A + M /\ A + M <= hi
      BY <2>2, <2>3, <2>4
    <3> HIDE DEF kept
    <3> QED  BY <1>1, <3>1
  <2> QED  BY <1>4, <2>5, <2>6 DEF s
<1> QED  BY <1>6, <1>7

----------------------------------------------------------------------------
(* Every step of slugify_wiki_target leaves what the reader has.           *)

(* Induction over texts.                                                   *)
LEMMA TextInduction ==
    ASSUME NEW S, << >> \in S, \A t \in Texts, c \in Alphabet : t \in S => Append(t, c) \in S
    PROVE  \A t \in Texts : t \in S
BY SeqInduction DEF Texts

(* How the classes of characters relate.                                   *)
LEMMA CharKinds ==
    /\ Marks \subseteq Alphabet /\ Letters \subseteq Alphabet /\ Separators \subseteq Alphabet
    /\ Spaces \subseteq Separators /\ SlugChars \subseteq Alphabet
    /\ Letters \cap Separators = {} /\ Marks \cap (Letters \cup Separators) = {}
BY DEF Marks, Letters, Separators, Spaces, SlugChars, Alphabet, WordChars

(* A separator adds nothing to the slug, and does nothing at the start.    *)
LEMMA ReadSeparator ==
    ASSUME NEW st \in States, NEW c \in Separators
    PROVE  Read(st, c).done = st.done /\ Read(Start, c) = Start
<1>1. c \notin Marks /\ c \notin Letters  BY CharKinds
<1>2. Read(st, c).done = st.done  BY <1>1 DEF Read, States
<1>3. Read(Start, c) = Start  BY <1>1 DEF Read, Start
<1> QED  BY <1>2, <1>3

(* Separators at the start are not read.                                   *)
LEMMA RunSkip ==
    ASSUME NEW a \in Seq(Separators), NEW x \in Texts
    PROVE  a \o x \in Texts /\ Run(a \o x) = Run(x)
<1> DEFINE A == {t \in Seq(Separators) : t \in Texts /\ Run(t) = Start}
           X == {t \in Texts : a \o t \in Texts /\ Run(a \o t) = Run(t)}
<1>1. \A t \in Seq(Separators) : t \in Texts  BY CharKinds DEF Texts
<1>2. << >> \in A
  <2>1. << >> \in Seq(Separators)  OBVIOUS
  <2> QED  BY <1>1, <2>1, RunAppend
<1>3. ASSUME NEW t \in Seq(Separators), NEW c \in Separators, t \in A PROVE Append(t, c) \in A
  <2>1. c \in Alphabet /\ Append(t, c) \in Seq(Separators)  BY CharKinds
  <2>2. Run(Append(t, c)) = Read(Start, c)  BY <1>3, <2>1, RunAppend
  <2> QED  BY <1>1, <2>1, <2>2, ReadSeparator, StartState
<1>4. a \in A
  <2> HIDE DEF A
  <2> QED  BY <1>2, <1>3, SeqInduction
<1>5. << >> \in X
  <2>1. a \o << >> = a /\ << >> \in Texts  BY DEF Texts
  <2> QED  BY <1>4, <2>1, RunAppend
<1>6. ASSUME NEW t \in Texts, NEW c \in Alphabet, t \in X PROVE Append(t, c) \in X
  <2>1. a \in Texts /\ a \o t \in Texts /\ Run(a \o t) = Run(t)  BY <1>4, <1>6
  <2>2. a \o Append(t, c) = Append(a \o t, c) /\ Append(t, c) \in Texts /\ Append(a \o t, c) \in Texts
    BY <2>1 DEF Texts
  <2>3. Run(Append(a \o t, c)) = Read(Run(a \o t), c) /\ Run(Append(t, c)) = Read(Run(t), c)
    BY <2>1, RunAppend
  <2> QED  BY <2>1, <2>2, <2>3
<1> HIDE DEF X
<1>7. \A t \in Texts : t \in X  BY <1>5, <1>6, TextInduction
<1> QED  BY <1>7 DEF X

(* Separators at the end do not change the slug.                           *)
LEMMA RunTail ==
    ASSUME NEW x \in Texts, NEW b \in Seq(Separators)
    PROVE  x \o b \in Texts /\ Run(x \o b).done = Run(x).done
<1> DEFINE B == {t \in Seq(Separators) : x \o t \in Texts /\ Run(x \o t).done = Run(x).done}
<1>1. << >> \in B
  <2>1. x \o << >> = x /\ << >> \in Seq(Separators)  BY DEF Texts
  <2> QED  BY <2>1
<1>2. ASSUME NEW t \in Seq(Separators), NEW c \in Separators, t \in B PROVE Append(t, c) \in B
  <2>1. x \o t \in Texts /\ Run(x \o t).done = Run(x).done /\ c \in Alphabet  BY <1>2, CharKinds
  <2>2. x \o Append(t, c) = Append(x \o t, c) /\ Append(t, c) \in Seq(Separators)
          /\ Append(x \o t, c) \in Texts
    BY <2>1 DEF Texts
  <2>3. Run(Append(x \o t, c)) = Read(Run(x \o t), c) /\ Run(x \o t) \in States  BY <2>1, RunAppend
  <2> QED  BY <2>1, <2>2, <2>3, ReadSeparator
<1> HIDE DEF B
<1>3. b \in B  BY <1>1, <1>2, SeqInduction
<1> QED  BY <1>3 DEF B

(* str.strip does not change the slug.                                     *)
LEMMA RunStrip ==
    ASSUME NEW s \in Texts, NEW chars \in SUBSET Separators
    PROVE  Strip(s, chars) \in Texts /\ Run(Strip(s, chars)).done = Run(s).done
<1> DEFINE x == Strip(s, chars)
<1>1. x \in Texts  BY StripParts DEF Texts
<1>2. PICK a, b \in Seq(Alphabet \cap chars) : s = (a \o x) \o b
  <2>1. s \in Seq(Alphabet)  BY DEF Texts
  <2>2. Around(x, s, Alphabet \cap chars)  BY <2>1, StripParts
  <2> QED  BY <2>2 DEF Around
<1>3. a \in Seq(Separators) /\ b \in Seq(Separators)
  <2>1. Alphabet \cap chars \subseteq Separators  OBVIOUS
  <2> HIDE DEF x
  <2> QED  BY <1>2, <2>1
<1> HIDE DEF x
<1>4. a \o x \in Texts /\ Run(a \o x) = Run(x)  BY <1>1, <1>3, RunSkip
<1>5. Run((a \o x) \o b).done = Run(a \o x).done  BY <1>3, <1>4, RunTail
<1> QED  BY <1>1, <1>2, <1>4, <1>5 DEF x

(* str.lower does not change what is read.                                 *)
LEMMA RunLower ==
    ASSUME NEW s \in Texts
    PROVE  Lower(s) \in Seq(Alphabet \ {"A"}) /\ Run(Lower(s)) = Run(s)
<1> DEFINE S == {t \in Texts : Lower(t) \in Seq(Alphabet \ {"A"}) /\ Run(Lower(t)) = Run(t)}
<1>1. << >> \in S  BY DEF Texts, Lower
<1>2. ASSUME NEW t \in Texts, NEW c \in Alphabet, t \in S PROVE Append(t, c) \in S
  <2>1. Lower(Append(t, c)) = Append(Lower(t), Low(c))  BY DEF Texts, Lower, Low
  <2>2. Low(c) \in Alphabet \ {"A"}  BY DEF Low, Alphabet, WordChars
  <2>3. Lower(t) \in Seq(Alphabet \ {"A"}) /\ Lower(t) \in Texts /\ Run(Lower(t)) = Run(t)
    BY <1>2 DEF Texts
  <2>4. Append(Lower(t), Low(c)) \in Seq(Alphabet \ {"A"})  BY <2>2, <2>3
  <2>5. Run(Append(Lower(t), Low(c))) = Read(Run(t), Low(c))  BY <2>2, <2>3, RunAppend
  <2>6. Run(Append(t, c)) = Read(Run(t), c)  BY RunAppend
  <2>7. Read(Run(t), Low(c)) = Read(Run(t), c)
    BY DEF Read, Low, Marks, Letters, Separators, Spaces
  <2>8. Append(t, c) \in Texts  BY DEF Texts
  <2> QED  BY <2>1, <2>4, <2>5, <2>6, <2>7, <2>8
<1> HIDE DEF S
<1>3. \A t \in Texts : t \in S  BY <1>1, <1>2, TextInduction
<1> QED  BY <1>3 DEF S

(* To drop punctuation does not change what is read.                       *)
LEMMA RunKept ==
    ASSUME NEW s \in Texts, NEW P,
           \A i \in DOMAIN s : i \notin P => s[i] \notin Marks \cup Letters \cup Separators
    PROVE  Picked(s, P) \in Texts /\ Run(Picked(s, P)) = Run(s)
<1> DEFINE Fits(t) == \A i \in DOMAIN t : i \notin P => t[i] \notin Marks \cup Letters \cup Separators
           S == {t \in Texts : Fits(t) => Picked(t, P) \in Texts /\ Run(Picked(t, P)) = Run(t)}
<1>1. << >> \in S
  <2>1. << >> \in Texts /\ Picked(<< >>, P) = << >>  BY PickedSeq DEF Texts
  <2> QED  BY <2>1
<1>2. ASSUME NEW t \in Texts, NEW c \in Alphabet, t \in S PROVE Append(t, c) \in S
  <2> DEFINE u == Append(t, c)
  <2>1. u \in Texts  BY DEF Texts
  <2> SUFFICES ASSUME Fits(u) PROVE Picked(u, P) \in Texts /\ Run(Picked(u, P)) = Run(u)
    <3> HIDE DEF Fits
    <3> QED  BY <2>1
  <2>2. \A i \in DOMAIN t : i \in DOMAIN u /\ u[i] = t[i]  BY DEF Texts
  <2>3. Picked(t, P) \in Texts /\ Run(Picked(t, P)) = Run(t)  BY <1>2, <2>2
  <2>4. Len(t) + 1 \notin P => c \notin Marks \cup Letters \cup Separators
    <3>1. Len(t) + 1 \in DOMAIN u /\ u[Len(t) + 1] = c  BY DEF Texts
    <3> QED  BY <3>1
  <2>5. Picked(u, P) = IF Len(t) + 1 \in P THEN Append(Picked(t, P), c) ELSE Picked(t, P)
    BY PickedAppend DEF Texts
  <2> HIDE DEF u, Fits
  <2>6. Run(u) = Read(Run(t), c)  BY RunAppend DEF u
  <2>7. CASE Len(t) + 1 \in P
    <3>1. Append(Picked(t, P), c) \in Texts  BY <2>3 DEF Texts
    <3>2. Run(Append(Picked(t, P), c)) = Read(Run(t), c)  BY <2>3, RunAppend
    <3> QED  BY <2>5, <2>6, <2>7, <3>1, <3>2
  <2>8. CASE Len(t) + 1 \notin P
    <3>1. Run(t) \in States  BY RunAppend
    <3>2. Read(Run(t), c) = IF Run(t).over THEN [Run(t) EXCEPT !.over = TRUE] ELSE Run(t)
      BY <2>4, <2>8 DEF Read
    <3>3. Read(Run(t), c) = Run(t)  BY <3>1, <3>2 DEF States
    <3> QED  BY <2>3, <2>5, <2>6, <2>8, <3>3
  <2> QED  BY <2>7, <2>8
<1> HIDE DEF S
<1>3. \A t \in Texts : t \in S  BY <1>1, <1>2, TextInduction
<1> QED  BY <1>3 DEF S

----------------------------------------------------------------------------
(* A canonical slug is read as it is.                                      *)

(* What SlugsAreCanonical says of the characters of a slug.                *)
Canonical(g) ==
    /\ g \in Seq(SlugChars)
    /\ \A i \in DOMAIN g : g[i] = "-" => i \notin {1, Len(g)} /\ g[i + 1] # "-"

(* A letter keeps a slug canonical, after a hyphen too if there is a slug. *)
LEMMA CanonicalGrows ==
    ASSUME NEW g, Canonical(g), NEW c \in {"a", "1"}
    PROVE  /\ Canonical(Append(g, c))
           /\ g # << >> => Canonical(Append(Append(g, "-"), c))
<1> DEFINE N == Len(g)
           t == Append(g, c)
           h == Append(Append(g, "-"), c)
<1>1. g \in Seq(SlugChars)  BY DEF Canonical
<1>2. g \in Seq(SlugChars) /\ N \in Nat /\ DOMAIN g = 1..N
        /\ \A i \in 1..N : g[i] = "-" => i # 1 /\ i # N /\ g[i + 1] # "-"
  BY DEF Canonical
<1>3. c \in SlugChars /\ "-" \in SlugChars /\ c # "-"  BY DEF SlugChars
<1>4. /\ t \in Seq(SlugChars) /\ Len(t) = N + 1 /\ DOMAIN t = 1..(N + 1) /\ t[N + 1] = c
      /\ \A i \in 1..N : t[i] = g[i]
  BY <1>1, <1>3
<1>5. /\ h \in Seq(SlugChars) /\ Len(h) = N + 2 /\ DOMAIN h = 1..(N + 2) /\ h[N + 1] = "-"
              /\ h[N + 2] = c
      /\ \A i \in 1..N : h[i] = g[i]
  BY <1>1, <1>3
<1> HIDE DEF t, h
<1>6. Canonical(t)
  <2>1. ASSUME NEW i \in 1..(N + 1), t[i] = "-" PROVE i # 1 /\ i # N + 1 /\ t[i + 1] # "-"
    <3>1. i # N + 1  BY <1>3, <1>4, <2>1
    <3> HIDE DEF N
    <3>2. i \in 1..N  BY <1>2, <3>1
    <3>3. i # 1 /\ i # N /\ g[i + 1] # "-"  BY <1>2, <1>4, <2>1, <3>2
    <3>4. i + 1 \in 1..N  BY <1>2, <3>2, <3>3
    <3> QED  BY <1>4, <3>1, <3>3, <3>4
  <2> QED  BY <1>4, <2>1 DEF Canonical
<1>7. ASSUME g # << >> PROVE Canonical(h)
  <2>1. N # 0  BY <1>1, <1>7
  <2>2. ASSUME NEW i \in 1..(N + 2), h[i] = "-" PROVE i # 1 /\ i # N + 2 /\ h[i + 1] # "-"
    <3>1. i # N + 2  BY <1>3, <1>5, <2>2
    <3> HIDE DEF N
    <3>2. CASE i = N + 1  BY <1>2, <1>3, <1>5, <2>1, <3>1, <3>2
    <3>3. CASE i # N + 1
      <4>1. i \in 1..N  BY <1>2, <3>1, <3>3
      <4>2. i # 1 /\ i # N /\ g[i + 1] # "-"  BY <1>2, <1>5, <2>2, <4>1
      <4>3. i + 1 \in 1..N  BY <1>2, <4>1, <4>2
      <4> QED  BY <1>5, <3>1, <4>2, <4>3
    <3> QED  BY <3>2, <3>3
  <2> QED  BY <1>5, <2>2 DEF Canonical
<1> QED  BY <1>6, <1>7 DEF t, h

(* What the reader has is canonical, and a hyphen is only due after a      *)
(* letter.                                                                 *)
LEMMA RunCanonical ==
    ASSUME NEW s \in Texts
    PROVE  Canonical(Run(s).done) /\ (Run(s).gap => Run(s).done # << >>)
<1> DEFINE Fits(st) == Canonical(st.done) /\ (st.gap => st.done # << >>)
           S == {t \in Texts : Fits(Run(t))}
<1>1. << >> \in S
  <2>1. << >> \in Texts  BY DEF Texts
  <2>2. Fits(Start)  BY DEF Start, Canonical
  <2> QED  BY <2>1, <2>2, RunAppend
<1>2. ASSUME NEW t \in Texts, NEW c \in Alphabet, t \in S PROVE Append(t, c) \in S
  <2> DEFINE st == Run(t)
             next == Read(st, c)
  <2>1. Append(t, c) \in Texts  BY DEF Texts
  <2>2. Run(Append(t, c)) = next /\ st \in States  BY RunAppend
  <2>3. Fits(st)  BY <1>2
  <2> HIDE DEF st
  <2>4. CASE st.over \/ c \in Marks
    <3>1. next.done = st.done /\ next.gap = st.gap  BY <2>2, <2>4 DEF Read, States
    <3> HIDE DEF next
    <3> QED  BY <2>1, <2>2, <2>3, <3>1
  <2>5. CASE ~(st.over \/ c \in Marks) /\ c \in Letters
    <3>1. next.done = Append(IF st.gap THEN Append(st.done, "-") ELSE st.done, Low(c)) /\ ~next.gap
      BY <2>5 DEF Read
    <3>2. Low(c) \in {"a", "1"}  BY <2>5 DEF Low, Letters
    <3>3. Canonical(next.done)  BY <2>3, <3>1, <3>2, CanonicalGrows
    <3> HIDE DEF next
    <3> QED  BY <2>1, <2>2, <3>1, <3>3
  <2>6. CASE ~(st.over \/ c \in Marks) /\ c \notin Letters
    <3>1. next.done = st.done /\ (next.gap => st.gap \/ st.done # << >>)  BY <2>2, <2>6 DEF Read, States
    <3> HIDE DEF next
    <3> QED  BY <2>1, <2>2, <2>3, <3>1
  <2> QED  BY <2>4, <2>5, <2>6
<1> HIDE DEF S
<1>3. \A t \in Texts : t \in S  BY <1>1, <1>2, TextInduction
<1> QED  BY <1>3 DEF S

(* The characters that are left when punctuation is dropped.               *)
Plain == Separators \cup {"a", "1"}
PlainTexts == Seq(Plain)
Leads == {<< >>, <<"-">>}

(* The next separator belongs to a run that has begun.                     *)
EndsApart(v) == v # << >> /\ v[Len(v)] \in Separators

(* What re.sub has made of the text that was read: a hyphen at either end  *)
(* may be too many.                                                        *)
Hyphens(st, lead) == IF st.gap THEN Append(lead \o st.done, "-") ELSE lead \o st.done

(* Laws of sequences that the provers need spelled out.                    *)
LEMMA ConcatAppend ==
    ASSUME NEW C, NEW x \in Seq(C), NEW y \in Seq(C), NEW c \in C
    PROVE  /\ x \o y \in Seq(C) /\ Append(y, c) \in Seq(C) /\ Append(y, c) # << >>
           /\ x \o Append(y, c) = Append(x \o y, c)
           /\ x \o << >> = x /\ << >> \o x = x
           /\ Append(x, c) = x \o <<c>>
<1>1. x \o y \in Seq(C) /\ Append(y, c) \in Seq(C) /\ Append(y, c) # << >>  OBVIOUS
<1>2. x \o Append(y, c) = Append(x \o y, c)  OBVIOUS
<1>3. x \o << >> = x /\ << >> \o x = x  OBVIOUS
<1>4. Append(x, c) = x \o <<c>>  OBVIOUS
<1> QED  BY <1>1, <1>2, <1>3, <1>4

(* A leading hyphen is a sequence of hyphens, and of characters of a slug. *)
LEMMA LeadChars ==
    "-" \in SlugChars /\ \A lead \in Leads : lead \in Seq({"-"}) /\ lead \in Seq(SlugChars)
<1>1. "-" \in SlugChars  BY DEF SlugChars
<1>2. << >> \in Seq(SlugChars) /\ <<"-">> \in Seq(SlugChars)  BY <1>1
<1>3. << >> \in Seq({"-"}) /\ <<"-">> \in Seq({"-"})  OBVIOUS
<1> QED  BY <1>1, <1>2, <1>3 DEF Leads

(* The text with its runs of separators replaced is what the reader has,   *)
(* up to a hyphen at either end.                                           *)
LEMMA HyphenRun ==
    ASSUME NEW v \in PlainTexts
    PROVE  \E lead \in Leads : Runs(v, Separators, "-") = Hyphens(Run(v), lead)
<1> DEFINE Matches(t, lead) ==
             /\ Runs(t, Separators, "-") = Hyphens(Run(t), lead)
             /\ EndsApart(t) <=> Run(t).gap \/ (Run(t).done = << >> /\ t # << >>)
             /\ Run(t).done = << >> => (t = << >> <=> lead = << >>)
           S == {t \in PlainTexts : ~Run(t).over /\ \E lead \in Leads : Matches(t, lead)}
<1>1. Plain \subseteq Alphabet /\ Plain \cap Marks = {}
        /\ \A c \in Plain \ Separators : c \in Letters /\ Low(c) = c
        /\ Separators \cap Letters = {}
  BY DEF Plain, Alphabet, WordChars, Marks, Separators, Spaces, Letters, Low
<1>2. << >> \in S
  <2>1. << >> \in PlainTexts /\ << >> \in Leads  BY DEF Leads, PlainTexts
  <2>2. Runs(<< >>, Separators, "-") = << >>  BY <2>1, RunsSeq DEF PlainTexts
  <2>3. Run(<< >>) = Start  BY RunAppend
  <2>4. Hyphens(Start, << >>) = << >>
    <3>1. Hyphens(Start, << >>) = << >> \o << >>  BY DEF Hyphens, Start
    <3> QED  BY <3>1
  <2>5. Matches(<< >>, << >>) /\ ~Run(<< >>).over
    <3>1. ~EndsApart(<< >>)  BY DEF EndsApart
    <3>2. ~Start.over /\ ~Start.gap /\ Start.done = << >>  BY DEF Start
    <3> QED  BY <2>2, <2>3, <2>4, <3>1, <3>2
  <2> HIDE DEF Matches
  <2> QED  BY <2>1, <2>5
<1>3. ASSUME NEW t \in PlainTexts, NEW c \in Plain, t \in S PROVE Append(t, c) \in S
  <2> DEFINE u == Append(t, c)
             r == Runs(t, Separators, "-")
             st == Run(t)
             next == Run(u)
             slug == st.done
  <2>1. PICK lead \in Leads : Matches(t, lead)  BY <1>3
  <2>2. r = Hyphens(st, lead) /\ (EndsApart(t) <=> st.gap \/ (slug = << >> /\ t # << >>))
          /\ (slug = << >> => (t = << >> <=> lead = << >>)) /\ ~st.over
    BY <1>3, <2>1
  <2>3. t \in Texts /\ c \in Alphabet /\ c \notin Marks  BY <1>1 DEF Texts, PlainTexts
  <2>4. next = Read(st, c) /\ st \in States  BY <2>3, RunAppend
  <2>5. Runs(u, Separators, "-") = IF c \notin Separators THEN Append(r, c)
                                   ELSE IF EndsApart(t) THEN r ELSE Append(r, "-")
    BY RunsAppend DEF EndsApart, PlainTexts
  <2>6. u \in PlainTexts /\ u # << >> /\ (EndsApart(u) <=> c \in Separators)
    <3>1. u \in PlainTexts /\ u # << >> /\ u[Len(u)] = c  BY DEF PlainTexts
    <3> HIDE DEF u
    <3> QED  BY <3>1 DEF EndsApart
  <2>7. lead \in Seq(SlugChars) /\ slug \in Seq(SlugChars)  BY <2>4, LeadChars DEF States
  <2>8. st.gap => slug # << >>  BY <2>3, RunCanonical
  <2> HIDE DEF u, r, next, st, slug
  <2>9. CASE c \notin Separators
    <3>1. lead \in Seq(SlugChars) /\ slug \in Seq(SlugChars) /\ c \in SlugChars /\ "-" \in SlugChars
      BY <1>1, <2>7, <2>9, LeadChars DEF SlugChars, Plain
    <3>2. c \in Letters /\ Low(c) = c /\ c \in SlugChars /\ "-" \in SlugChars
      BY <1>1, <2>9 DEF SlugChars, Plain
    <3>3. next = [done |-> Append(IF st.gap THEN Append(slug, "-") ELSE slug, c),
                   gap |-> FALSE, over |-> FALSE]
      BY <2>2, <2>3, <2>4, <3>2 DEF Read, slug
    <3>4. Append(r, c) = lead \o next.done
      <4>1. CASE st.gap
        <5>1. r = Append(lead \o slug, "-") /\ next.done = Append(Append(slug, "-"), c)
          BY <2>2, <3>3, <4>1 DEF Hyphens, slug
        <5> DEFINE d == Append(slug, "-")
        <5>2. d \in Seq(SlugChars) /\ Append(lead \o slug, "-") = lead \o d  BY <3>1
        <5> HIDE DEF d
        <5>3. d \in Seq(SlugChars)  BY <5>2
        <5>4. lead \in Seq(SlugChars) /\ c \in SlugChars  BY <3>1
        <5>5. Append(lead \o d, c) = lead \o Append(d, c)  BY <5>3, <5>4
        <5> QED  BY <5>1, <5>2, <5>5 DEF d
      <4>2. CASE ~st.gap
        <5>1. r = lead \o slug /\ next.done = Append(slug, c)  BY <2>2, <3>3, <4>2 DEF Hyphens, slug
        <5>2. Append(lead \o slug, c) = lead \o Append(slug, c)  BY <3>1
        <5> QED  BY <5>1, <5>2
      <4> QED  BY <4>1, <4>2
    <3>5. next.done # << >> /\ ~next.gap /\ ~next.over
      <4>1. (IF st.gap THEN Append(slug, "-") ELSE slug) \in Seq(SlugChars)  BY <2>7, <3>2
      <4> QED  BY <3>2, <3>3, <4>1
    <3>6. Matches(u, lead)
      BY <2>5, <2>6, <2>9, <3>4, <3>5 DEF Hyphens, next
    <3> HIDE DEF Matches
    <3> QED  BY <2>6, <3>5, <3>6 DEF u, next
  <2>10. CASE c \in Separators
    <3>1. c \notin Letters  BY <2>10, CharKinds
    <3>2. next = [st EXCEPT !.gap = (slug # << >>)]  BY <2>2, <2>3, <2>4, <2>10, <3>1 DEF Read, slug
    <3>3. next.done = slug /\ next.gap = (slug # << >>) /\ ~next.over
      BY <2>2, <2>4, <3>2 DEF States, slug
    <3>4. CASE slug # << >>
      <4>1. Runs(u, Separators, "-") = Append(lead \o slug, "-")
        <5>1. CASE st.gap  BY <2>2, <2>5, <2>10, <5>1 DEF Hyphens, slug
        <5>2. CASE ~st.gap  BY <2>2, <2>5, <2>10, <3>4, <5>2 DEF Hyphens, slug
        <5> QED  BY <5>1, <5>2
      <4>2. Matches(u, lead)  BY <2>6, <2>10, <3>3, <3>4, <4>1 DEF Hyphens, next
      <4> HIDE DEF Matches
      <4> QED  BY <2>6, <3>3, <4>2 DEF u, next
    <3>5. CASE slug = << >>
      <4>1. <<"-">> \in Leads /\ <<"-">> # << >>  BY DEF Leads
      <4>2. Runs(u, Separators, "-") = <<"-">> \o << >>
        <5>1. r = lead \o << >>  BY <2>2, <2>8, <3>5 DEF Hyphens, slug
        <5>2. CASE t = << >>
          <6>1. lead = << >> /\ ~EndsApart(t)  BY <2>2, <3>5, <5>2 DEF EndsApart
          <6>2. r = << >> \o << >>  BY <5>1, <6>1
          <6> QED  BY <2>5, <2>10, <6>1, <6>2
        <5>3. CASE t # << >>
          <6>1. lead = <<"-">> /\ EndsApart(t)  BY <2>2, <3>5, <5>3 DEF Leads
          <6> QED  BY <2>5, <2>10, <5>1, <6>1
        <5> QED  BY <5>2, <5>3
      <4>3. Matches(u, <<"-">>)  BY <2>6, <2>10, <3>3, <3>5, <4>1, <4>2 DEF Hyphens, next
      <4> HIDE DEF Matches
      <4> QED  BY <2>6, <3>3, <4>1, <4>3 DEF u, next
    <3> QED  BY <3>4, <3>5
  <2> QED  BY <2>9, <2>10
<1> HIDE DEF S
<1>4. v \in S  BY <1>2, <1>3, SeqInduction DEF PlainTexts
<1> QED  BY <1>4 DEF S

(* Without these it is what the reader has.                                *)
LEMMA StripHyphens ==
    ASSUME NEW v \in PlainTexts
    PROVE  Strip(Runs(v, Separators, "-"), {"-"}) = Run(v).done
<1>1. v \in Texts
  <2>1. Plain \subseteq Alphabet  BY DEF Plain, Alphabet, WordChars
  <2> QED  BY <2>1 DEF Texts, PlainTexts
<1>2. Run(v) \in States /\ Canonical(Run(v).done)  BY <1>1, RunAppend, RunCanonical
<1> DEFINE slug == Run(v).done
           r == Runs(v, Separators, "-")
<1>3. slug \in Seq(SlugChars) /\ (slug # << >> => slug[1] \notin {"-"} /\ slug[Len(slug)] \notin {"-"})
  BY <1>2 DEF Canonical
<1>4. PICK lead \in Leads : r = Hyphens(Run(v), lead)  BY HyphenRun
<1> DEFINE b == IF Run(v).gap THEN <<"-">> ELSE << >>
<1>5. lead \in Seq({"-"}) /\ b \in Seq({"-"}) /\ lead \in Seq(SlugChars)
  <2>1. b \in Leads  BY DEF Leads
  <2> HIDE DEF b
  <2> QED  BY <2>1, LeadChars
<1>6. r = (lead \o slug) \o b
  <2> HIDE DEF slug, r
  <2>1. CASE Run(v).gap
    <3>1. r = Append(lead \o slug, "-") /\ b = <<"-">>  BY <1>4, <2>1 DEF Hyphens, slug
    <3>2. Append(lead \o slug, "-") = (lead \o slug) \o <<"-">>  BY <1>3, <1>5
    <3> HIDE DEF b
    <3> QED  BY <3>1, <3>2
  <2>2. CASE ~Run(v).gap
    <3>1. r = lead \o slug /\ b = << >>  BY <1>4, <2>2 DEF Hyphens, slug
    <3>2. lead \o slug = (lead \o slug) \o << >>  BY <1>3, <1>5
    <3> HIDE DEF b
    <3> QED  BY <3>1, <3>2
  <2> QED  BY <2>1, <2>2
<1> HIDE DEF slug, r, b
<1>7. Strip((lead \o slug) \o b, {"-"}) = slug  BY <1>3, <1>5, StripMiddle
<1> QED  BY <1>6, <1>7 DEF slug, r

(* No upper case is left.                                                  *)
LEMMA LowerSeq ==
    ASSUME NEW C, NEW s \in Seq(C)
    PROVE  Lower(s) \in Seq((C \ {"A"}) \cup {"a"})
<1>1. s \in [1..Len(s) -> C] /\ Len(s) \in Nat  OBVIOUS
<1>2. Lower(s) = [i \in 1..Len(s) |-> IF s[i] = "A" THEN "a" ELSE s[i]]  BY DEF Lower
<1>3. \A i \in 1..Len(s) : (IF s[i] = "A" THEN "a" ELSE s[i]) \in (C \ {"A"}) \cup {"a"}  BY <1>1
<1> QED  BY <1>1, <1>2, <1>3

(* slugify_wiki_target gives what the reader has.                          *)
LEMMA SlugRun ==
    ASSUME NEW s \in Texts
    PROVE  Slugify(s) = Run(s).done
<1> DEFINE title == UpTo(s, "|")
           page == UpTo(title, "#")
           bare == Strip(page, Spaces)
           part == Lower(bare)
           P == {i \in DOMAIN part : part[i] \in WordChars \cup Separators}
           kept == Picked(part, P)
<1>1. "|" \in Marks /\ "#" \in Marks /\ Spaces \in SUBSET Separators  BY DEF Marks, Separators
<1>2. Slugify(s) = Strip(Runs(kept, Separators, "-"), {"-"})  BY DEF Slugify, Hyphenated
<1>3. title \in Seq(Alphabet \ {"|"}) /\ title \in Texts
  <2>1. s \in Seq(Alphabet)  BY DEF Texts
  <2>2. title \in Seq(Alphabet \ {"|"})  BY <2>1, UpToSeq
  <2> HIDE DEF title
  <2> QED  BY <2>2 DEF Texts
<1>4. Run(title).done = Run(s).done  BY <1>1, RunUpTo
<1> HIDE DEF title
<1>5. page \in Seq(Alphabet \ Marks) /\ page \in Texts
  <2>1. page \in Seq((Alphabet \ {"|"}) \ {"#"})  BY <1>3, UpToSeq
  <2>2. (Alphabet \ {"|"}) \ {"#"} = Alphabet \ Marks  BY DEF Marks
  <2> HIDE DEF page
  <2>3. page \in Seq(Alphabet \ Marks)  BY <2>1, <2>2
  <2> QED  BY <2>3 DEF Texts
<1>6. Run(page).done = Run(s).done  BY <1>1, <1>3, <1>4, RunUpTo
<1> HIDE DEF page
<1>7. bare \in Seq(Alphabet \ Marks) /\ bare \in Texts /\ Run(bare).done = Run(s).done
  BY <1>1, <1>5, <1>6, StripParts, RunStrip
<1> HIDE DEF bare
<1>8. Run(part) = Run(bare) /\ part \in Texts /\ part \in Seq(((Alphabet \ Marks) \ {"A"}) \cup {"a"})
  <2>1. Run(part) = Run(bare) /\ part \in Seq(Alphabet \ {"A"})  BY <1>7, RunLower
  <2>2. part \in Seq(((Alphabet \ Marks) \ {"A"}) \cup {"a"})  BY <1>7, LowerSeq
  <2> HIDE DEF part
  <2> QED  BY <2>1, <2>2 DEF Texts
<1> HIDE DEF part
<1>9. \A i \in DOMAIN part : part[i] \notin Marks /\ part[i] # "A"
  <2>1. \A i \in DOMAIN part : part[i] \in ((Alphabet \ Marks) \ {"A"}) \cup {"a"}  BY <1>8
  <2> QED  BY <2>1 DEF Marks
<1>10. kept \in Texts /\ Run(kept) = Run(part)
  <2>1. \A i \in DOMAIN part : i \notin P => part[i] \notin Marks \cup Letters \cup Separators
    BY <1>9 DEF Letters, WordChars
  <2> HIDE DEF P
  <2> QED  BY <1>8, <2>1, RunKept
<1>11. kept \in PlainTexts
  <2>1. \A i \in DOMAIN part : i \in P => part[i] \in Plain
    BY <1>9 DEF WordChars, Plain, Separators
  <2> HIDE DEF P
  <2> QED  BY <1>8, <2>1, PickedIn DEF PlainTexts
<1> HIDE DEF kept
<1> QED  BY <1>2, <1>7, <1>8, <1>10, <1>11, StripHyphens

(* A canonical slug is read as it is.                                      *)
LEMMA CanonicalRun ==
    ASSUME NEW g, Canonical(g)
    PROVE  g \in Texts /\ Run(g).done = g
<1> DEFINE Apart(t) == \A i \in DOMAIN t : t[i] = "-" => i # 1 /\ t[i - 1] # "-"
           EndsHyphen(t) == t # << >> /\ t[Len(t)] = "-"
           Fits(t) == LET st == Run(t) IN
               /\ ~st.over /\ (EndsHyphen(t) <=> st.gap)
               /\ t = IF st.gap THEN Append(st.done, "-") ELSE st.done
           S == {t \in Seq(SlugChars) : Apart(t) => Fits(t)}
<1>1. Seq(SlugChars) \subseteq Texts
  <2>1. SlugChars \subseteq Alphabet  BY CharKinds
  <2> QED  BY <2>1 DEF Texts
<1>2. << >> \in S
  <2>1. << >> \in Seq(SlugChars)  OBVIOUS
  <2>2. Run(<< >>) = Start  BY RunAppend
  <2>3. Fits(<< >>)  BY <2>2 DEF Start
  <2> HIDE DEF Fits, Apart
  <2> QED  BY <2>1, <2>3
<1>3. ASSUME NEW t \in Seq(SlugChars), NEW c \in SlugChars, t \in S PROVE Append(t, c) \in S
  <2> DEFINE u == Append(t, c)
             N == Len(t)
             st == Run(t)
             next == Run(u)
  <2>1. N \in Nat /\ u \in Seq(SlugChars) /\ Len(u) = N + 1 /\ u[N + 1] = c /\ u # << >>
          /\ (\A i \in 1..N : u[i] = t[i]) /\ (t # << >> <=> N # 0)
          /\ DOMAIN t = 1..N /\ DOMAIN u = 1..(N + 1)
    OBVIOUS
  <2> SUFFICES ASSUME Apart(u) PROVE Fits(u)
    <3> HIDE DEF Fits, Apart
    <3> QED  BY <2>1
  <2> HIDE DEF u, N
  <2>2. Apart(t)
    <3> SUFFICES ASSUME NEW i \in 1..N, t[i] = "-" PROVE i # 1 /\ t[i - 1] # "-"  BY <2>1
    <3>1. i \in 1..(N + 1) /\ u[i] = t[i]  BY <2>1
    <3>2. i # 1 /\ u[i - 1] # "-"  BY <2>1, <3>1
    <3>3. i - 1 \in 1..N  BY <2>1, <3>2
    <3> QED  BY <2>1, <3>2, <3>3
  <2>3. c = "-" => N # 0 /\ t[N] # "-"
    <3> SUFFICES ASSUME c = "-" PROVE N # 0 /\ t[N] # "-"  OBVIOUS
    <3>1. N + 1 \in 1..(N + 1) /\ (N + 1) - 1 = N  BY <2>1
    <3>2. N + 1 # 1 /\ u[N] # "-"  BY <2>1, <3>1
    <3>3. N \in 1..N  BY <2>1, <3>2
    <3> QED  BY <2>1, <3>2, <3>3
  <2>4. Fits(t)  BY <1>3, <2>2
  <2>5. c \in Alphabet /\ c \notin Marks /\ t \in Texts  BY <1>1, CharKinds DEF Marks, SlugChars
  <2>6. next = Read(st, c) /\ st \in States  BY <2>5, RunAppend DEF u
  <2>7. ~st.over /\ (EndsHyphen(t) <=> st.gap) /\ t = IF st.gap THEN Append(st.done, "-") ELSE st.done
    BY <2>4
  <2>8. EndsHyphen(u) <=> c = "-"  BY <2>1
  <2>9. EndsHyphen(t) <=> N # 0 /\ t[N] = "-"  BY <2>1 DEF N
  <2> HIDE DEF next, st, EndsHyphen
  <2>10. CASE c = "-"
    <3>1. c \notin Letters /\ c \in Separators  BY <2>10 DEF Letters, Separators
    <3>2. ~st.gap /\ t = st.done /\ t # << >>  BY <2>1, <2>3, <2>7, <2>9, <2>10
    <3>3. next = [st EXCEPT !.gap = (st.done # << >>)]  BY <2>5, <2>6, <2>7, <3>1 DEF Read
    <3>4. ~next.over /\ next.gap /\ next.done = t  BY <2>6, <2>7, <3>2, <3>3 DEF States
    <3> QED  BY <2>8, <2>10, <3>4 DEF next, u
  <2>11. CASE c # "-"
    <3>1. c \in Letters /\ Low(c) = c  BY <2>11 DEF Letters, SlugChars, Low
    <3>2. next = [done |-> Append(IF st.gap THEN Append(st.done, "-") ELSE st.done, c),
                   gap |-> FALSE, over |-> FALSE]
      BY <2>5, <2>6, <2>7, <3>1 DEF Read
    <3>3. ~next.over /\ ~next.gap /\ next.done = Append(t, c)  BY <2>7, <3>2
    <3> QED  BY <2>8, <2>11, <3>3 DEF next, u
  <2> QED  BY <2>10, <2>11
<1>4. g \in S
  <2> HIDE DEF S
  <2>1. g \in Seq(SlugChars)  BY DEF Canonical
  <2> QED  BY <1>2, <1>3, <2>1, SeqInduction
<1>5. g \in Seq(SlugChars) /\ Apart(g) /\ ~EndsHyphen(g)
  <2>1. g \in Seq(SlugChars) /\ DOMAIN g = 1..Len(g) /\ Len(g) \in Nat  BY DEF Canonical
  <2>2. \A i \in 1..Len(g) : g[i] = "-" => i # 1 /\ i # Len(g) /\ g[i + 1] # "-"  BY <2>1 DEF Canonical
  <2>3. Apart(g)
    <3> SUFFICES ASSUME NEW i \in 1..Len(g), g[i] = "-" PROVE i # 1 /\ g[i - 1] # "-"  BY <2>1
    <3>1. i # 1  BY <2>2
    <3>2. i - 1 \in 1..Len(g) /\ (i - 1) + 1 = i  BY <2>1, <3>1
    <3> QED  BY <2>2, <3>1, <3>2
  <2>4. ~EndsHyphen(g)
    <3>1. g # << >> => Len(g) \in 1..Len(g)  BY <2>1
    <3> QED  BY <2>2, <3>1
  <2> QED  BY <2>1, <2>3, <2>4
<1> QED  BY <1>1, <1>4, <1>5

TypedTexts == text \in Texts /\ listed \in Seq(Texts)

(* Texts are of the alphabet.                                              *)
LEMMA TextsTyped ==
    /\ Init => TypedTexts
    /\ TypedTexts /\ [Next]_vars => TypedTexts'
<1>1. Init => TypedTexts  BY DEF Init, TypedTexts, Texts
<1>2. ASSUME TypedTexts, [Next]_vars PROVE TypedTexts'
  <2>1. CASE EndText
    <3>1. text' \in Texts  BY <2>1 DEF EndText, Texts
    <3> DEFINE T == Texts
    <3>2. text \in T /\ listed \in Seq(T) /\ listed' = Append(listed, text)
      BY <1>2, <2>1 DEF EndText, TypedTexts
    <3> HIDE DEF T
    <3>3. listed' \in Seq(T)  BY <3>2
    <3> QED  BY <3>1, <3>3 DEF TypedTexts, T
  <2>2. ASSUME NEW c \in Chars, Type(c) PROVE TypedTexts'
    <3>1. c \in Alphabet  BY SlugAssumption
    <3>2. text' = Append(text, c) /\ listed' = listed  BY <2>2 DEF Type
    <3>3. text' \in Texts  BY <1>2, <3>1, <3>2 DEF TypedTexts, Texts
    <3> QED  BY <1>2, <3>2, <3>3 DEF TypedTexts
  <2>3. CASE UNCHANGED vars  BY <1>2, <2>3 DEF vars, TypedTexts
  <2> QED  BY <1>2, <2>1, <2>2, <2>3 DEF Next
<1> QED  BY <1>1, <1>2

(* The slug of any text is canonical.                                      *)
LEMMA Canonicals == TypedTexts => SlugsAreCanonical
<1> SUFFICES ASSUME TypedTexts PROVE SlugsAreCanonical  OBVIOUS
<1> DEFINE slug == Slugify(text)
<1>1. text \in Texts  BY DEF TypedTexts
<1>2. Canonical(slug)  BY <1>1, SlugRun, RunCanonical
<1>3. Slugify(slug) = slug
  <2> HIDE DEF slug
  <2> QED  BY <1>2, CanonicalRun, SlugRun
<1>4. \A i \in DOMAIN slug : slug[i] \in {"a", "1", "-"}
  <2> HIDE DEF slug
  <2> QED  BY <1>2 DEF Canonical, SlugChars
<1> HIDE DEF slug
<1>5. \A i \in DOMAIN slug : slug[i] = "-" => i \notin {1, Len(slug)} /\ slug[i + 1] # "-"
  BY <1>2 DEF Canonical
<1> QED  BY <1>3, <1>4, <1>5 DEF SlugsAreCanonical, slug

(* The slug of every text is its own slug, so that pages are found by      *)
(* their slug and by their title; it has no upper case, no mark and no     *)
(* doubled, leading or trailing hyphen (slugify_wiki_target).              *)
THEOREM CanonicalSlugs == ESpec => []SlugsAreCanonical
<1>1. EInit => TypedTexts  BY TextsTyped DEF EInit
<1>2. TypedTexts /\ [ENext]_evars => TypedTexts'
  <2> SUFFICES ASSUME TypedTexts, [ENext]_evars PROVE TypedTexts'  OBVIOUS
  <2>1. [Next]_vars  BY DEF ENext, evars, Offer
  <2> QED  BY <2>1, TextsTyped
<1> QED  BY <1>1, <1>2, Canonicals, PTL DEF ESpec

----------------------------------------------------------------------------
(* Normalized texts: white space is single blanks between words.           *)

(* The text ends in white space.                                           *)
EndsBlank(s) == s # << >> /\ s[Len(s)] \in Spaces

(* No blank follows a blank.                                               *)
Single(s) == \A i \in 1..(Len(s) - 1) : ~(s[i] = " " /\ s[i + 1] = " ")

(* The characters of a text whose white space is blanks.                   *)
Inked == (Alphabet \ Spaces) \cup {" "}
Collapsed(s) == Runs(s, Spaces, " ")

(* Collapsed text that grows: white space counts once.                     *)
LEMMA CollapsedAppend ==
    ASSUME NEW s \in Texts, NEW c \in Alphabet
    PROVE  Collapsed(Append(s, c)) = IF c \notin Spaces THEN Append(Collapsed(s), c)
                                     ELSE IF EndsBlank(s) THEN Collapsed(s)
                                     ELSE Append(Collapsed(s), " ")
<1> DEFINE blank == " "
<1> HIDE DEF blank
<1>1. Runs(Append(s, c), Spaces, blank)
         = IF c \notin Spaces THEN Append(Runs(s, Spaces, blank), c)
           ELSE IF s # << >> /\ s[Len(s)] \in Spaces THEN Runs(s, Spaces, blank)
           ELSE Append(Runs(s, Spaces, blank), blank)
  BY RunsAppend DEF Texts
<1> QED  BY <1>1 DEF Collapsed, EndsBlank, blank

(* Blanks are the only white space in it.                                  *)
LEMMA CollapsedSeq ==
    ASSUME NEW s \in Texts
    PROVE  Collapsed(s) \in Seq(Inked) /\ Collapsed(s) \in Texts /\ Collapsed(<< >>) = << >>
<1>1. Collapsed(s) \in Seq(Inked) /\ Collapsed(<< >>) = << >>  BY RunsSeq DEF Collapsed, Inked, Texts
<1>2. Inked \subseteq Alphabet  BY DEF Inked, Alphabet, Separators, Spaces
<1> QED  BY <1>1, <1>2 DEF Texts

(* Single text that grows.                                                 *)
LEMMA SingleAppend ==
    ASSUME NEW s \in Texts, NEW c \in Alphabet
    PROVE  Single(Append(s, c)) <=> Single(s) /\ ~(s # << >> /\ s[Len(s)] = " " /\ c = " ")
<1> DEFINE u == Append(s, c)
           N == Len(s)
<1>1. N \in Nat /\ Len(u) = N + 1 /\ u[N + 1] = c /\ (\A i \in 1..N : u[i] = s[i])
        /\ (s # << >> <=> N # 0)
  BY DEF Texts
<1> HIDE DEF u, N
<1>2. ASSUME Single(u) PROVE Single(s) /\ ~(N # 0 /\ s[N] = " " /\ c = " ")
  <2>1. \A i \in 1..N : ~(u[i] = " " /\ u[i + 1] = " ")
    <3>1. Len(u) - 1 = N  BY <1>1
    <3> QED  BY <1>2, <3>1 DEF Single
  <2>2. \A i \in 1..(N - 1) : i \in 1..N /\ i + 1 \in 1..N  BY <1>1
  <2>3. Single(s)
    <3>1. \A i \in 1..(N - 1) : ~(s[i] = " " /\ s[i + 1] = " ")  BY <1>1, <2>1, <2>2
    <3> QED  BY <3>1 DEF Single, N
  <2>4. N # 0 => N \in 1..N  BY <1>1
  <2> QED  BY <1>1, <2>1, <2>3, <2>4
<1>3. ASSUME Single(s), ~(N # 0 /\ s[N] = " " /\ c = " ") PROVE Single(u)
  <2>1. \A i \in 1..(N - 1) : ~(s[i] = " " /\ s[i + 1] = " ")  BY <1>3 DEF Single, N
  <2>2. ASSUME NEW i \in 1..N PROVE ~(u[i] = " " /\ u[i + 1] = " ")
    <3>1. CASE i = N
      <4>1. N # 0 /\ u[i] = s[N] /\ u[i + 1] = c  BY <1>1, <3>1
      <4> QED  BY <1>3, <4>1
    <3>2. CASE i # N
      <4>1. i \in 1..(N - 1) /\ i + 1 \in 1..N  BY <1>1, <3>2
      <4> QED  BY <1>1, <2>1, <4>1
    <3> QED  BY <3>1, <3>2
  <2>3. Len(u) - 1 = N  BY <1>1
  <2> QED  BY <2>2, <2>3 DEF Single
<1> QED  BY <1>1, <1>2, <1>3 DEF u, N

(* No blank of it follows a blank.                                         *)
LEMMA CollapsedSingle ==
    ASSUME NEW s \in Texts
    PROVE  Single(Collapsed(s))
<1> DEFINE S == {t \in Texts : /\ Single(Collapsed(t))
                               /\ EndsBlank(t) <=> /\ Collapsed(t) # << >>
                                                  /\ Collapsed(t)[Len(Collapsed(t))] = " "}
<1>1. << >> \in S
  <2>1. << >> \in Texts  BY DEF Texts
  <2>2. Collapsed(<< >>) = << >>  BY <2>1, CollapsedSeq
  <2>3. Single(<< >>) /\ ~EndsBlank(<< >>)  BY DEF Single, EndsBlank
  <2> QED  BY <2>1, <2>2, <2>3
<1>2. ASSUME NEW t \in Texts, NEW c \in Alphabet, t \in S PROVE Append(t, c) \in S
  <2> DEFINE u == Append(t, c)
             r == Collapsed(t)
  <2>1. u \in Texts /\ (EndsBlank(u) <=> c \in Spaces)  BY DEF Texts, EndsBlank
  <2>2. Collapsed(u) = IF c \notin Spaces THEN Append(r, c)
                       ELSE IF EndsBlank(t) THEN r ELSE Append(r, " ")
    BY CollapsedAppend
  <2>3. Single(r) /\ (EndsBlank(t) <=> r # << >> /\ r[Len(r)] = " ")  BY <1>2
  <2>4. r \in Texts  BY CollapsedSeq
  <2> HIDE DEF u, r
  <2>5. ASSUME NEW k \in Alphabet PROVE Append(r, k) # << >> /\ Append(r, k)[Len(Append(r, k))] = k
    BY <2>4 DEF Texts
  <2>6. " " \in Alphabet /\ " " \in Spaces  BY DEF Alphabet, Separators, Spaces
  <2>7. CASE c \notin Spaces
    <3>1. Single(Append(r, c))  BY <2>3, <2>4, <2>6, <2>7, SingleAppend
    <3> QED  BY <2>1, <2>2, <2>5, <2>6, <2>7, <3>1 DEF u
  <2>8. CASE c \in Spaces /\ EndsBlank(t)
    BY <2>1, <2>2, <2>3, <2>8 DEF u
  <2>9. CASE c \in Spaces /\ ~EndsBlank(t)
    <3>1. Single(Append(r, " "))  BY <2>3, <2>4, <2>6, <2>9, SingleAppend
    <3> QED  BY <2>1, <2>2, <2>5, <2>6, <2>9, <3>1 DEF u
  <2> QED  BY <2>7, <2>8, <2>9
<1> HIDE DEF S
<1>3. s \in S  BY <1>1, <1>2, TextInduction
<1> QED  BY <1>3 DEF S

(* A text like this stays as it is.                                        *)
LEMMA CollapsedSame ==
    ASSUME NEW s \in Seq(Inked), Single(s)
    PROVE  Collapsed(s) = s
<1> DEFINE S == {t \in Seq(Inked) : Single(t) => Collapsed(t) = t}
<1>1. Seq(Inked) \subseteq Texts /\ Inked \subseteq Alphabet /\ \A c \in Inked : c \in Spaces => c = " "
  <2>1. Inked \subseteq Alphabet  BY DEF Inked, Alphabet, Separators, Spaces
  <2>2. \A c \in Inked : c \in Spaces => c = " "  BY DEF Inked
  <2>3. Seq(Inked) \subseteq Texts  BY <2>1 DEF Texts
  <2> QED  BY <2>1, <2>2, <2>3
<1>2. << >> \in S
  <2>1. << >> \in Texts /\ << >> \in Seq(Inked)  BY DEF Texts
  <2> QED  BY <2>1, CollapsedSeq
<1>3. ASSUME NEW t \in Seq(Inked), NEW c \in Inked, t \in S PROVE Append(t, c) \in S
  <2>1. Append(t, c) \in Seq(Inked)  OBVIOUS
  <2>2. t \in Texts /\ c \in Alphabet /\ Append(t, c) \in Seq(Inked)  BY <1>1, <2>1
  <2>3. ASSUME Single(Append(t, c)) PROVE Collapsed(Append(t, c)) = Append(t, c)
    <3>1. Single(t) /\ ~(t # << >> /\ t[Len(t)] = " " /\ c = " ")  BY <2>2, <2>3, SingleAppend
    <3>2. Collapsed(t) = t  BY <1>3, <3>1
    <3>3. Collapsed(Append(t, c)) = IF c \notin Spaces THEN Append(t, c)
                                     ELSE IF EndsBlank(t) THEN t ELSE Append(t, " ")
      BY <2>2, <3>2, CollapsedAppend
    <3>4. EndsBlank(t) => t # << >> /\ t[Len(t)] = " "
      <4>1. EndsBlank(t) => t # << >> /\ t[Len(t)] \in Inked /\ t[Len(t)] \in Spaces  BY DEF EndsBlank
      <4> QED  BY <1>1, <4>1
    <3> QED  BY <1>1, <3>1, <3>3, <3>4
  <2> QED  BY <2>2, <2>3
<1> HIDE DEF S
<1>4. s \in S  BY <1>2, <1>3, SeqInduction
<1> QED  BY <1>4 DEF S

(* A text without the characters at its ends stays as it is.               *)
LEMMA StripSame ==
    ASSUME NEW C, NEW s \in Seq(C), NEW chars, s # << >> => s[1] \notin chars /\ s[Len(s)] \notin chars
    PROVE  Strip(s, chars) = s
<1> DEFINE none == << >>
<1>1. none \in Seq(chars) /\ (none \o s) \o none = s  OBVIOUS
<1> HIDE DEF none
<1>2. Strip((none \o s) \o none, chars) = s  BY <1>1, StripMiddle
<1> QED  BY <1>1, <1>2

(* m is a part of r.                                                       *)
Within(m, r) == \E k \in Nat : k + Len(m) <= Len(r) /\ \A i \in 1..Len(m) : r[k + i] = m[i]

(* What is left between two parts is a part.                               *)
LEMMA AroundPart ==
    ASSUME NEW C, NEW D, NEW m \in Seq(C), NEW r, Around(m, r, D)
    PROVE  Within(m, r)
<1>1. PICK a, b \in Seq(D) : r = (a \o m) \o b  BY DEF Around
<1>2. Len(a) \in Nat /\ Len(m) \in Nat /\ Len(b) \in Nat
        /\ Len((a \o m) \o b) = Len(a) + Len(m) + Len(b)
  OBVIOUS
<1>3. \A i \in 1..Len(m) : ((a \o m) \o b)[Len(a) + i] = m[i]  OBVIOUS
<1>4. Len(a) + Len(m) <= Len(r)  BY <1>1, <1>2
<1>5. \A i \in 1..Len(m) : r[Len(a) + i] = m[i]  BY <1>1, <1>3
<1> QED  BY <1>2, <1>4, <1>5 DEF Within

(* _normalize_text changes nothing the second time.                        *)
LEMMA NormalizedTwice ==
    ASSUME NEW s \in Texts
    PROVE  /\ Normalized(s) \in Texts /\ Normalized(s) \in Seq(Inked)
           /\ Normalized(Normalized(s)) = Normalized(s)
<1> DEFINE r == Collapsed(s)
           m == Strip(r, {" "})
<1>1. Normalized(s) = m  BY DEF Normalized, Collapsed
<1>2. r \in Seq(Inked) /\ r \in Texts /\ Single(r)  BY CollapsedSeq, CollapsedSingle
<1> HIDE DEF r
<1>3. m \in Seq(Inked) /\ Around(m, r, Inked \cap {" "})  BY <1>2, StripParts
<1>4. m \in Texts  BY <1>2, StripParts DEF Texts
<1>5. m # << >> => m[1] \notin {" "} /\ m[Len(m)] \notin {" "}  BY <1>2, StripEnds
<1> HIDE DEF m
<1>6. m \in Seq(Inked) /\ Around(m, r, Inked \cap {" "})  BY <1>3
<1>7. Within(m, r)  BY <1>6, AroundPart
<1>8. PICK k \in Nat : k + Len(m) <= Len(r) /\ \A i \in 1..Len(m) : r[k + i] = m[i]
  BY <1>7 DEF Within
<1>9. Single(m)
  <2>1. Len(m) \in Nat /\ Len(r) \in Nat
    <3>1. m \in Seq(Inked)  BY <1>3
    <3>2. r \in Seq(Inked)  BY <1>2
    <3>3. Len(m) \in Nat  BY <3>1
    <3>4. Len(r) \in Nat  BY <3>2
    <3> QED  BY <3>3, <3>4
  <2>2. ASSUME NEW i \in 1..(Len(m) - 1) PROVE ~(m[i] = " " /\ m[i + 1] = " ")
    <3>1. i \in 1..Len(m) /\ i + 1 \in 1..Len(m) /\ k + i \in 1..(Len(r) - 1)
            /\ k + (i + 1) = (k + i) + 1
      BY <1>8, <2>1
    <3>2. ~(r[k + i] = " " /\ r[(k + i) + 1] = " ")  BY <1>2, <3>1 DEF Single
    <3> QED  BY <1>8, <3>1, <3>2
  <2> QED  BY <2>2 DEF Single
<1>10. Collapsed(m) = m  BY <1>3, <1>9, CollapsedSame
<1>11. Strip(m, {" "}) = m  BY <1>3, <1>5, StripSame
<1>12. Normalized(m) = m  BY <1>10, <1>11 DEF Normalized, Collapsed
<1> QED  BY <1>1, <1>3, <1>4, <1>12

----------------------------------------------------------------------------
(* Sequences without duplicates.                                           *)

(* The first occurrences of what is not in E.                              *)
Firsts(s, E) == Picked(s, {i \in FirstOccurrences(s) : s[i] \notin E})
Occurs(x, s) == \E i \in DOMAIN s : s[i] = x
Distinct(s) == \A i, j \in DOMAIN s : s[i] = s[j] => i = j

(* The elements of d are of s, and not in E.                               *)
From(d, s, E) == \A i \in DOMAIN d : d[i] \notin E /\ Occurs(d[i], s)

(* Firsts of a longer sequence: an element counts if it is new.            *)
LEMMA FirstsAppend ==
    ASSUME NEW C, NEW s \in Seq(C), NEW c \in C, NEW E
    PROVE  /\ Firsts(Append(s, c), E) = IF c \notin E /\ ~Occurs(c, s)
                                      THEN Append(Firsts(s, E), c) ELSE Firsts(s, E)
           /\ \A x : Occurs(x, Append(s, c)) <=> x = c \/ Occurs(x, s)
<1> DEFINE u == Append(s, c)
           N == Len(s)
           P == {i \in FirstOccurrences(s) : s[i] \notin E}
           Q == {i \in FirstOccurrences(u) : u[i] \notin E}
<1>1. N \in Nat /\ DOMAIN s = 1..N /\ DOMAIN u = 1..(N + 1) /\ u[N + 1] = c
        /\ \A i \in 1..N : u[i] = s[i]
  OBVIOUS
<1> HIDE DEF u, N
<1>2. \A i \in DOMAIN s : i \in P <=> i \in Q
  <2> TAKE i \in DOMAIN s
  <2>1. i \in 1..N /\ i \in 1..(N + 1) /\ u[i] = s[i]  BY <1>1
  <2>2. \A k \in 1..(i - 1) : k \in 1..N  BY <1>1, <2>1
  <2>3. (\A k \in 1..(i - 1) : s[k] # s[i]) <=> (\A k \in 1..(i - 1) : u[k] # u[i])
    BY <1>1, <2>1, <2>2
  <2>4. i \in FirstOccurrences(s) <=> i \in FirstOccurrences(u)
    BY <1>1, <2>1, <2>3 DEF FirstOccurrences
  <2> QED  BY <2>1, <2>4
<1>3. N + 1 \in Q <=> c \notin E /\ ~Occurs(c, s)
  <2>1. N + 1 \in 1..(N + 1) /\ (N + 1) - 1 = N  BY <1>1
  <2>2. N + 1 \in FirstOccurrences(u) <=> \A k \in 1..N : u[k] # c
    BY <1>1, <2>1 DEF FirstOccurrences
  <2>3. (\A k \in 1..N : u[k] # c) <=> ~Occurs(c, s)  BY <1>1 DEF Occurs
  <2> QED  BY <1>1, <2>2, <2>3
<1>4. Picked(u, Q) = IF N + 1 \in Q THEN Append(Picked(s, P), c) ELSE Picked(s, P)
  <2> HIDE DEF P, Q
  <2> QED  BY <1>2, PickedStep DEF u, N
<1>5. ASSUME NEW x PROVE Occurs(x, u) <=> x = c \/ Occurs(x, s)
  <2>1. Occurs(x, u) <=> \E i \in 1..(N + 1) : u[i] = x  BY <1>1 DEF Occurs
  <2>2. Occurs(x, s) <=> \E i \in 1..N : s[i] = x  BY <1>1 DEF Occurs
  <2>3. \A i \in 1..(N + 1) : i \in 1..N \/ i = N + 1  BY <1>1
  <2>4. N + 1 \in 1..(N + 1) /\ \A i \in 1..N : i \in 1..(N + 1)  BY <1>1
  <2> QED  BY <1>1, <2>1, <2>2, <2>3, <2>4
<1> HIDE DEF P, Q
<1>6. Firsts(u, E) = Picked(u, Q) /\ Firsts(s, E) = Picked(s, P)  BY DEF Firsts, P, Q
<1> QED  BY <1>3, <1>4, <1>5, <1>6 DEF u

(* A new element keeps a sequence distinct.                                *)
LEMMA DistinctAppend ==
    ASSUME NEW C, NEW d \in Seq(C), NEW c \in C, Distinct(d), ~Occurs(c, d)
    PROVE  Distinct(Append(d, c))
<1> DEFINE u == Append(d, c)
           N == Len(d)
<1>1. N \in Nat /\ DOMAIN d = 1..N /\ DOMAIN u = 1..(N + 1) /\ u[N + 1] = c
        /\ \A i \in 1..N : u[i] = d[i]
  OBVIOUS
<1> HIDE DEF u, N
<1>2. \A i \in 1..(N + 1) : i \in 1..N \/ i = N + 1  BY <1>1
<1>3. \A i, j \in 1..N : u[i] = u[j] => i = j  BY <1>1 DEF Distinct
<1>4. \A i \in 1..N : u[i] # c  BY <1>1 DEF Occurs
<1>5. ASSUME NEW i \in 1..(N + 1), NEW j \in 1..(N + 1), u[i] = u[j] PROVE i = j
  BY <1>1, <1>2, <1>3, <1>4, <1>5
<1> QED  BY <1>1, <1>5 DEF Distinct, u

(* Firsts repeats nothing and makes nothing up.                            *)
LEMMA FirstsDistinct ==
    ASSUME NEW C, NEW s \in Seq(C), NEW E
    PROVE  Firsts(s, E) \in Seq(C) /\ Distinct(Firsts(s, E)) /\ From(Firsts(s, E), s, E)
<1> DEFINE Fits(t, d) == d \in Seq(C) /\ Distinct(d) /\ From(d, t, E)
           S == {t \in Seq(C) : Fits(t, Firsts(t, E))}
<1>1. << >> \in S
  <2>1. << >> \in Seq(C)  OBVIOUS
  <2>2. Firsts(<< >>, E) = << >>  BY <2>1, PickedSeq DEF Firsts
  <2>3. Fits(<< >>, << >>)  BY <2>1 DEF Distinct, From
  <2> HIDE DEF Fits
  <2> QED  BY <2>1, <2>2, <2>3
<1>2. ASSUME NEW t \in Seq(C), NEW c \in C, t \in S PROVE Append(t, c) \in S
  <2> DEFINE u == Append(t, c)
             d == Firsts(t, E)
  <2>1. u \in Seq(C)  OBVIOUS
  <2>2. d \in Seq(C) /\ Distinct(d) /\ From(d, t, E)  BY <1>2
  <2>3. Firsts(u, E) = IF c \notin E /\ ~Occurs(c, t) THEN Append(d, c) ELSE d  BY FirstsAppend
  <2>4. \A x : Occurs(x, u) <=> x = c \/ Occurs(x, t)  BY FirstsAppend
  <2> HIDE DEF u, d
  <2>5. From(d, u, E)  BY <2>2, <2>4 DEF From
  <2>6. CASE c \notin E /\ ~Occurs(c, t)
    <3>1. ~Occurs(c, d)  BY <2>2, <2>6 DEF From, Occurs
    <3>2. Distinct(Append(d, c))  BY <2>2, <3>1, DistinctAppend
    <3>3. Append(d, c) \in Seq(C) /\ DOMAIN d = 1..Len(d)
            /\ DOMAIN Append(d, c) = 1..(Len(d) + 1) /\ Len(d) \in Nat
            /\ Append(d, c)[Len(d) + 1] = c /\ \A i \in 1..Len(d) : Append(d, c)[i] = d[i]
      BY <2>2
    <3> DEFINE e == Append(d, c)
    <3> HIDE DEF e
    <3>4. From(e, u, E)
      <4>1. Occurs(c, u)  BY <2>4
      <4>2. ASSUME NEW i \in 1..(Len(d) + 1) PROVE e[i] \notin E /\ Occurs(e[i], u)
        <5>1. CASE i = Len(d) + 1  BY <2>6, <3>3, <4>1, <5>1 DEF e
        <5>2. CASE i # Len(d) + 1
          <6>1. i \in 1..Len(d)  BY <3>3, <5>2
          <6>2. e[i] = d[i] /\ i \in DOMAIN d  BY <3>3, <6>1 DEF e
          <6> QED  BY <2>5, <6>2 DEF From
        <5> QED  BY <5>1, <5>2
      <4>3. DOMAIN e = 1..(Len(d) + 1)  BY <3>3 DEF e
      <4> QED  BY <4>2, <4>3 DEF From
    <3>5. e \in Seq(C) /\ Distinct(e) /\ Firsts(u, E) = e  BY <2>3, <2>6, <3>2, <3>3 DEF e
    <3> QED  BY <2>1, <3>4, <3>5 DEF u
  <2>7. CASE ~(c \notin E /\ ~Occurs(c, t))
    <3>1. Firsts(u, E) = d  BY <2>3, <2>7
    <3> QED  BY <2>1, <2>2, <2>5, <3>1 DEF u
  <2> QED  BY <2>6, <2>7
<1> HIDE DEF S
<1>3. s \in S  BY <1>1, <1>2, SeqInduction
<1> QED  BY <1>3 DEF S

(* A sequence that repeats nothing stays as it is.                         *)
LEMMA FirstsSame ==
    ASSUME NEW C, NEW s \in Seq(C), NEW E, Distinct(s), \A i \in DOMAIN s : s[i] \notin E
    PROVE  Firsts(s, E) = s
<1> DEFINE P == {i \in FirstOccurrences(s) : s[i] \notin E}
<1>1. DOMAIN s \subseteq P
  <2> SUFFICES ASSUME NEW i \in DOMAIN s PROVE i \in P  OBVIOUS
  <2>1. i \in 1..Len(s) /\ Len(s) \in Nat /\ DOMAIN s = 1..Len(s)  OBVIOUS
  <2>2. \A k \in 1..(i - 1) : k \in DOMAIN s /\ k # i
    BY <2>1
  <2>3. \A k \in 1..(i - 1) : s[k] # s[i]  BY <2>2 DEF Distinct
  <2> QED  BY <2>3 DEF FirstOccurrences
<1>2. Picked(s, P) = s
  <2> HIDE DEF P
  <2> QED  BY <1>1, PickedAll
<1> QED  BY <1>2 DEF Firsts

(* Deduped is Firsts without the empty text.                               *)
LEMMA DedupedFirsts ==
    ASSUME NEW s
    PROVE  Deduped(s) = Firsts(s, {<< >>})
<1>1. {i \in FirstOccurrences(s) : s[i] # << >>} = {i \in FirstOccurrences(s) : s[i] \notin {<< >>}}
  OBVIOUS
<1> QED  BY <1>1 DEF Deduped, Firsts

(* Limited gives a prefix, of at most that length.                         *)
LEMMA LimitedPrefix ==
    ASSUME NEW C, NEW s \in Seq(C), NEW limit \in Nat
    PROVE  /\ Limited(s, limit) \in Seq(C)
           /\ Len(Limited(s, limit)) <= limit /\ Len(Limited(s, limit)) <= Len(s)
           /\ \A i \in 1..Len(Limited(s, limit)) : Limited(s, limit)[i] = s[i]
           /\ limit = Len(s) => Limited(s, limit) = s
<1> DEFINE m == Min({Len(s), limit})
<1>1. Len(s) \in Nat /\ Len(s) + 1 \in Nat /\ limit + 1 \in Nat  OBVIOUS
<1>2. m \in {Len(s), limit} /\ m <= Len(s) /\ m <= limit
  <2>1. \E x \in {Len(s), limit} : \A y \in {Len(s), limit} : x <= y  BY <1>1
  <2> QED  BY <2>1 DEF Min
<1> HIDE DEF m
<1>3. m \in Nat /\ m <= Len(s)  BY <1>1, <1>2
<1>4. Limited(s, limit) = SubSeq(s, 1, m)  BY DEF Limited, m
<1>5. SubSeq(s, 1, m) \in Seq(C) /\ Len(SubSeq(s, 1, m)) = m
        /\ \A i \in 1..m : SubSeq(s, 1, m)[i] = s[i]
  BY <1>3
<1>6. limit = Len(s) => m = Len(s)  BY <1>1, <1>2
<1>7. SubSeq(s, 1, Len(s)) = s  OBVIOUS
<1> QED  BY <1>2, <1>4, <1>5, <1>6, <1>7

(* A prefix repeats nothing that the sequence does not.                    *)
LEMMA LimitedDistinct ==
    ASSUME NEW C, NEW s \in Seq(C), NEW limit \in Nat, Distinct(s)
    PROVE  Distinct(Limited(s, limit))
<1> DEFINE t == Limited(s, limit)
<1>1. t \in Seq(C) /\ Len(t) <= Len(s) /\ \A i \in 1..Len(t) : t[i] = s[i]  BY LimitedPrefix
<1> HIDE DEF t
<1>2. DOMAIN t = 1..Len(t) /\ DOMAIN s = 1..Len(s) /\ Len(s) \in Nat /\ Len(t) \in Nat  BY <1>1
<1>3. \A i \in 1..Len(t) : i \in 1..Len(s)  BY <1>1, <1>2
<1> QED  BY <1>1, <1>2, <1>3 DEF Distinct, t

----------------------------------------------------------------------------
(* Claims.                                                                 *)

(* A part of a text is a text.                                             *)
LEMMA SubText ==
    ASSUME NEW s \in Texts, NEW m \in Nat \ {0}, NEW n \in Nat, n <= Len(s)
    PROVE  SubSeq(s, m, n) \in Texts
BY DEF Texts

(* A stripped text is a text.                                              *)
LEMMA StripText ==
    ASSUME NEW s \in Texts, NEW chars
    PROVE  Strip(s, chars) \in Texts
BY StripParts DEF Texts

(* Texts as sequences.                                                     *)
LEMMA TextLength ==
    /\ \A s \in Texts : Len(s) \in Nat /\ DOMAIN s = 1..Len(s)
    /\ << >> \in Texts
    /\ \A s, t \in Texts : s \o t \in Texts
<1>1. \A s \in Texts : Len(s) \in Nat /\ DOMAIN s = 1..Len(s)  BY DEF Texts
<1>2. << >> \in Texts  BY DEF Texts
<1>3. \A s, t \in Texts : s \o t \in Texts  BY DEF Texts
<1> QED  BY <1>1, <1>2, <1>3

(* A text without its Markdown mark is a text.                             *)
LEMMA UnmarkedText ==
    ASSUME NEW s \in Texts, NEW marks
    PROVE  Unmarked(s, marks) \in Texts
<1> DEFINE ends == {i \in 1..(Len(s) - 1) : s[i + 1] \in Spaces /\ SubSeq(s, 1, i) \in marks}
<1>1. CASE ends = {}  BY <1>1 DEF Unmarked
<1>2. CASE ends # {}
  <2>1. ends \in SUBSET (1..(Len(s) - 1)) /\ Len(s) \in Nat  BY TextLength
  <2>2. Unmarked(s, marks) = Strip(SubSeq(s, Min(ends) + 1, Len(s)), Spaces)  BY <1>2 DEF Unmarked
  <2> HIDE DEF ends
  <2>3. Len(s) # 0
    <3>1. PICK i \in 1..(Len(s) - 1) : i \in ends  BY <1>2, <2>1
    <3> QED  BY <2>1, <3>1
  <2>4. Len(s) - 1 \in Nat  BY <2>1, <2>3
  <2>5. Min(ends) \in ends  BY <1>2, <2>1, <2>4, MinMax
  <2>6. Min(ends) \in 1..(Len(s) - 1)  BY <2>1, <2>5
  <2>7. Min(ends) + 1 \in Nat \ {0}  BY <2>4, <2>6
  <2>8. SubSeq(s, Min(ends) + 1, Len(s)) \in Texts  BY <2>1, <2>7, SubText
  <2> QED  BY <2>2, <2>8, StripText
<1> QED  BY <1>1, <1>2

(* A cleaned claim is a text.                                              *)
LEMMA CleanText ==
    ASSUME NEW s \in Texts
    PROVE  Truncate(s) \in Texts /\ StripMarkdownNoise(s) \in Texts /\ CleanClaim(s) \in Texts
<1>1. ASSUME NEW t \in Texts PROVE Truncate(t) \in Texts
  <2> DEFINE whole == Normalized(t)
  <2>1. whole \in Texts  BY NormalizedTwice
  <2> HIDE DEF whole
  <2>2. CASE Len(whole) <= MaxLength  BY <2>1, <2>2 DEF Truncate, whole
  <2>3. CASE ~(Len(whole) <= MaxLength)
    <3>1. MaxLength - 1 \in Nat /\ MaxLength - 1 <= Len(whole)
      <4>1. MaxLength \in Nat /\ MaxLength > 1  BY EvidenceAssumption
      <4> QED  BY <2>1, <2>3, <4>1, TextLength
    <3>2. SubSeq(whole, 1, MaxLength - 1) \in Texts  BY <2>1, <3>1, SubText
    <3> DEFINE cut == Strip(SubSeq(whole, 1, MaxLength - 1), Spaces)
    <3>3. cut \in Texts  BY <3>2, StripText
    <3>4. <<".", ".", ".">> \in Texts
      <4>1. "." \in Alphabet  BY DEF Alphabet
      <4> QED  BY <4>1 DEF Texts
    <3>5. Truncate(t) = cut \o <<".", ".", ".">>  BY <2>3 DEF Truncate, whole
    <3> HIDE DEF cut
    <3> QED  BY <3>3, <3>4, <3>5, TextLength
  <2> QED  BY <2>2, <2>3
<1>2. StripMarkdownNoise(s) \in Texts
  <2> DEFINE marked == Strip(s, Spaces)
             head == Unmarked(marked, Headings)
             bullet == Unmarked(head, Bullets)
             plain == Unmarked(bullet, ItemNumbers(s))
  <2>1. marked \in Texts  BY StripText
  <2> HIDE DEF marked
  <2>2. head \in Texts  BY <2>1, UnmarkedText
  <2> HIDE DEF head
  <2>3. bullet \in Texts  BY <2>2, UnmarkedText
  <2> HIDE DEF bullet
  <2>4. plain \in Texts  BY <2>3, UnmarkedText
  <2>5. StripMarkdownNoise(s)
          = IF plain # << >> /\ Last(plain) = ":" /\ Words(plain) <= MaxHeadingWords
            THEN << >> ELSE Normalized(plain)
    BY DEF StripMarkdownNoise, bullet, head, marked
  <2> HIDE DEF plain
  <2>6. Normalized(plain) \in Texts  BY <2>4, NormalizedTwice
  <2> QED  BY <2>5, <2>6, TextLength
<1>3. CleanClaim(s) \in Texts  BY <1>1, <1>2, TextLength DEF CleanClaim
<1> QED  BY <1>1, <1>2, <1>3

(* The lines of a text are texts.                                          *)
LEMMA LinesTexts ==
    ASSUME NEW s \in Texts
    PROVE  Lines(s) \in Seq(Texts)
<1> DEFINE N == Len(s)
           C == 1..N
           all == [i \in DOMAIN s |-> i]
           breaks == Picked(all, {i \in DOMAIN s : s[i] = "n"})
           starts == <<1>> \o [k \in DOMAIN breaks |-> breaks[k] + 1]
           before == [k \in DOMAIN breaks |-> breaks[k] - 1]
           ends == Append(before, N)
<1>1. N \in Nat /\ DOMAIN s = 1..N  BY TextLength
<1>2. Lines(s) = [k \in DOMAIN ends |-> SubSeq(s, starts[k], ends[k])]  BY DEF Lines
<1>3. breaks \in Seq(C)
  <2>1. all \in Seq(C)  BY <1>1
  <2> HIDE DEF all, C
  <2> QED  BY <2>1, PickedSeq
<1> HIDE DEF breaks
<1> DEFINE B == Len(breaks)
<1>4. B \in Nat /\ DOMAIN breaks = 1..B /\ \A k \in 1..B : breaks[k] \in 1..N  BY <1>3
<1> DEFINE after == [k \in DOMAIN breaks |-> breaks[k] + 1]
<1>5. after \in Seq(Nat \ {0}) /\ Len(after) = B /\ before \in Seq(0..N) /\ Len(before) = B
  <2> HIDE DEF B, N
  <2>1. after = [k \in 1..B |-> breaks[k] + 1] /\ before = [k \in 1..B |-> breaks[k] - 1]  BY <1>4
  <2>2. \A k \in 1..B : breaks[k] + 1 \in Nat \ {0} /\ breaks[k] - 1 \in 0..N  BY <1>1, <1>4
  <2>3. after \in Seq(Nat \ {0}) /\ Len(after) = B
    <3> HIDE DEF before
    <3> QED  BY <1>4, <2>1, <2>2
  <2>4. before \in Seq(0..N) /\ Len(before) = B
    <3> HIDE DEF after
    <3> QED  BY <1>4, <2>1, <2>2
  <2> QED  BY <2>3, <2>4
<1>6. starts = <<1>> \o after  OBVIOUS
<1> HIDE DEF after, before, B, N
<1>7. \A k \in 1..(B + 1) : starts[k] \in Nat \ {0}
  <2> DEFINE one == <<1>>
             P == Nat \ {0}
             both == one \o after
  <2>1. one \in Seq(P) /\ Len(one) = 1  OBVIOUS
  <2>2. after \in Seq(P) /\ Len(after) = B  BY <1>5
  <2> HIDE DEF one, P
  <2>3. one \in Seq(P) /\ after \in Seq(P)  BY <2>1, <2>2
  <2>4. both \in Seq(P) /\ Len(both) = Len(one) + Len(after)  BY <2>3
  <2>5. both \in Seq(P) /\ Len(both) = 1 + B  BY <2>1, <2>2, <2>4
  <2>6. \A k \in 1..(1 + B) : both[k] \in P
    <3> HIDE DEF both
    <3> QED  BY <2>5
  <2>7. both = starts  BY <1>6 DEF one
  <2>8. 1 + B = B + 1  BY <1>4
  <2> QED  BY <2>6, <2>7, <2>8 DEF P
<1>8. DOMAIN ends = 1..(B + 1) /\ \A k \in 1..(B + 1) : ends[k] \in 0..N
  <2> DEFINE R == 0..N
  <2>1. N \in R /\ before \in Seq(R) /\ Len(before) = B  BY <1>1, <1>5
  <2> HIDE DEF R
  <2>2. ends \in Seq(R) /\ Len(ends) = B + 1  BY <2>1
  <2> HIDE DEF ends
  <2>3. DOMAIN ends = 1..(B + 1) /\ \A k \in 1..(B + 1) : ends[k] \in R  BY <2>2
  <2> QED  BY <2>3 DEF R
<1> HIDE DEF starts, ends
<1>9. \A k \in 1..(B + 1) : SubSeq(s, starts[k], ends[k]) \in Texts
  <2> TAKE k \in 1..(B + 1)
  <2>1. starts[k] \in Nat \ {0} /\ ends[k] \in Nat /\ ends[k] <= N  BY <1>1, <1>7, <1>8
  <2> QED  BY <2>1, SubText DEF N
<1> DEFINE line == [k \in 1..(B + 1) |-> SubSeq(s, starts[k], ends[k])]
<1>10. Lines(s) = line  BY <1>2, <1>8
<1>11. \A k \in 1..(B + 1) : line[k] \in Texts  BY <1>9
<1>12. DOMAIN line = 1..(B + 1) /\ line = [k \in 1..(B + 1) |-> line[k]]  OBVIOUS
<1> HIDE DEF line
<1>13. B + 1 \in Nat  BY <1>4
<1>14. line \in [1..(B + 1) -> Texts]  BY <1>11, <1>12
<1>15. line \in Seq(Texts)  BY <1>13, <1>14
<1> QED  BY <1>10, <1>15

TextSeqs == Seq(Texts)

(* Lists of texts as sequences.                                            *)
LEMMA TextSeq ==
    ASSUME NEW s \in TextSeqs
    PROVE  Len(s) \in Nat /\ DOMAIN s = 1..Len(s) /\ \A i \in DOMAIN s : s[i] \in Texts
BY DEF TextSeqs

(* A function from positions to texts is a list of texts.                  *)
LEMMA TextSeqOf ==
    ASSUME NEW n \in Nat, NEW s, s \in [1..n -> Texts]
    PROVE  s \in TextSeqs /\ Len(s) = n
BY DEF TextSeqs

(* The claims are texts, wherever they were found.                         *)
LEMMA ClaimTextsTyped ==
    ASSUME NEW claims \in TextSeqs, NEW answer \in Texts
    PROVE  ClaimTexts(claims, answer) \in TextSeqs
<1> DEFINE raw == IF claims = << >> THEN Lines(answer) ELSE claims
           clean == Mapped(CleanClaim, raw)
           found == Picked(clean, {i \in DOMAIN clean : clean[i] # << >>})
           whole == Truncate(StripMarkdownNoise(answer))
<1>1. raw \in TextSeqs  BY LinesTexts DEF TextSeqs
<1> HIDE DEF raw
<1>2. clean \in TextSeqs
  <2>1. clean = [i \in DOMAIN raw |-> CleanClaim(raw[i])]  BY DEF Mapped
  <2>2. Len(raw) \in Nat /\ DOMAIN raw = 1..Len(raw) /\ \A i \in DOMAIN raw : raw[i] \in Texts
    BY <1>1, TextSeq
  <2>3. \A i \in 1..Len(raw) : CleanClaim(raw[i]) \in Texts  BY <2>2, CleanText
  <2>4. clean \in [1..Len(raw) -> Texts]  BY <2>1, <2>2, <2>3
  <2> HIDE DEF clean
  <2> QED  BY <2>2, <2>4, TextSeqOf
<1> HIDE DEF clean
<1>3. found \in TextSeqs  BY <1>2, PickedSeq DEF TextSeqs
<1>4. <<whole>> \in TextSeqs
  <2>1. whole \in Texts  BY CleanText
  <2> HIDE DEF whole
  <2> QED  BY <2>1 DEF TextSeqs
<1>5. ClaimTexts(claims, answer)
         = IF found = << >> /\ Strip(answer, Spaces) # << >> THEN <<whole>> ELSE found
  BY DEF ClaimTexts, clean, raw
<1> HIDE DEF found, whole
<1> QED  BY <1>3, <1>4, <1>5

(* What _bullet_lines leaves as it is.                                     *)
Clean(t) == t \in Texts /\ t # << >> /\ Normalized(t) = t

(* _bullet_lines changes nothing of clean lines without duplicates.        *)
LEMMA BulletsKept ==
    ASSUME NEW s \in TextSeqs, Distinct(s), \A i \in DOMAIN s : Clean(s[i])
    PROVE  BulletLines(s) = s
<1>1. Mapped(Normalized, s) = s
  <2>1. Mapped(Normalized, s) = [i \in DOMAIN s |-> Normalized(s[i])]  BY DEF Mapped
  <2>2. \A i \in DOMAIN s : Normalized(s[i]) = s[i]  BY DEF Clean
  <2>3. s = [i \in DOMAIN s |-> s[i]]  BY DEF TextSeqs
  <2> QED  BY <2>1, <2>2, <2>3
<1>2. Deduped(s) = s
  <2>1. \A i \in DOMAIN s : s[i] \notin {<< >>}  BY DEF Clean
  <2>2. Firsts(s, {<< >>}) = s  BY <2>1, FirstsSame DEF TextSeqs
  <2> QED  BY <2>2, DedupedFirsts
<1>3. Limited(s, Len(s)) = s
  <2>1. Len(s) \in Nat  BY TextSeq
  <2> QED  BY <2>1, LimitedPrefix DEF TextSeqs
<1> QED  BY <1>1, <1>2, <1>3 DEF BulletLines, DedupeNonEmpty

(* _dedupe_non_empty gives clean lines without duplicates, up to the       *)
(* limit.                                                                  *)
LEMMA DedupedClaims ==
    ASSUME NEW s \in TextSeqs, NEW limit \in Nat
    PROVE  LET d == DedupeNonEmpty(s, limit) IN
           d \in TextSeqs /\ Distinct(d) /\ Len(d) <= limit /\ \A i \in DOMAIN d : Clean(d[i])
<1> DEFINE whole == Mapped(Normalized, s)
           firsts == Firsts(whole, {<< >>})
           d == Limited(firsts, limit)
<1>1. whole \in TextSeqs /\ \A i \in DOMAIN whole : Normalized(whole[i]) = whole[i]
  <2>1. whole = [i \in DOMAIN s |-> Normalized(s[i])]  BY DEF Mapped
  <2>2. Len(s) \in Nat /\ DOMAIN s = 1..Len(s) /\ \A i \in DOMAIN s : s[i] \in Texts  BY TextSeq
  <2>3. \A i \in 1..Len(s) : Normalized(s[i]) \in Texts
          /\ Normalized(Normalized(s[i])) = Normalized(s[i])
    BY <2>2, NormalizedTwice
  <2>4. whole \in [1..Len(s) -> Texts]  BY <2>1, <2>2, <2>3
  <2>5. \A i \in DOMAIN whole : Normalized(whole[i]) = whole[i]  BY <2>1, <2>2, <2>3
  <2> HIDE DEF whole
  <2> QED  BY <2>2, <2>4, <2>5, TextSeqOf
<1> HIDE DEF whole
<1>2. firsts \in TextSeqs /\ Distinct(firsts) /\ From(firsts, whole, {<< >>})
  BY <1>1, FirstsDistinct DEF TextSeqs
<1>3. \A i \in DOMAIN firsts : Clean(firsts[i])
  <2> SUFFICES ASSUME NEW i \in DOMAIN firsts PROVE Clean(firsts[i])  OBVIOUS
  <2>1. firsts[i] \notin {<< >>} /\ Occurs(firsts[i], whole)  BY <1>2 DEF From
  <2>2. PICK k \in DOMAIN whole : whole[k] = firsts[i]  BY <2>1 DEF Occurs
  <2>3. firsts[i] \in Texts  BY <1>2, TextSeq
  <2> HIDE DEF firsts
  <2> QED  BY <1>1, <2>1, <2>2, <2>3 DEF Clean
<1> HIDE DEF firsts
<1>4. d \in TextSeqs /\ Distinct(d) /\ Len(d) <= limit /\ Len(d) <= Len(firsts)
        /\ \A i \in 1..Len(d) : d[i] = firsts[i]
  BY <1>2, LimitedPrefix, LimitedDistinct DEF TextSeqs
<1>5. DedupeNonEmpty(s, limit) = d  BY DedupedFirsts DEF DedupeNonEmpty, firsts, whole
<1> HIDE DEF d
<1>6. \A i \in DOMAIN d : Clean(d[i])
  <2>1. DOMAIN d = 1..Len(d) /\ Len(d) \in Nat  BY <1>4, TextSeq
  <2>2. DOMAIN firsts = 1..Len(firsts) /\ Len(firsts) \in Nat  BY <1>2, TextSeq
  <2>3. \A i \in 1..Len(d) : i \in 1..Len(firsts)  BY <1>4, <2>1, <2>2
  <2> QED  BY <1>3, <1>4, <2>1, <2>2, <2>3
<1> QED  BY <1>4, <1>5, <1>6

(* The lines that are shown of any claims are the claims.                  *)
LEMMA ClaimsStored == TypedTexts => ShownClaimsAreStored
<1> SUFFICES ASSUME TypedTexts PROVE ShownClaimsAreStored  OBVIOUS
<1> DEFINE texts == ClaimTexts(listed, text)
           claims == DedupeNonEmpty(texts, MaxClaims)
<1>1. texts \in TextSeqs  BY ClaimTextsTyped DEF TypedTexts, TextSeqs
<1>2. MaxClaims \in Nat  BY EvidenceAssumption
<1>3. claims = ExtractClaimTexts(listed, text)  BY DEF ExtractClaimTexts
<1> HIDE DEF texts
<1>4. claims \in TextSeqs /\ Distinct(claims) /\ Len(claims) <= MaxClaims
        /\ \A i \in DOMAIN claims : Clean(claims[i])
  BY <1>1, <1>2, DedupedClaims
<1> HIDE DEF claims
<1>5. BulletLines(claims) = claims  BY <1>4, BulletsKept
<1> QED  BY <1>3, <1>4, <1>5 DEF ShownClaimsAreStored

----------------------------------------------------------------------------
(* Links.                                                                  *)

(* Two separators are read like one, whichever.                            *)
LEMMA ReadBlanks ==
    ASSUME NEW st \in States, NEW c \in Separators, NEW d \in Separators
    PROVE  Read(Read(st, c), d) = Read(st, c) /\ Read(st, c) = Read(st, d)
<1>1. c \notin Marks /\ c \notin Letters /\ d \notin Marks /\ d \notin Letters  BY CharKinds
<1>2. CASE st.over
  <2>1. \A e : Read(st, e) = [st EXCEPT !.over = TRUE]  BY <1>2 DEF Read
  <2>2. [st EXCEPT !.over = TRUE] = st  BY <1>2 DEF States
  <2> QED  BY <2>1, <2>2
<1>3. CASE ~st.over
  <2> DEFINE next == [st EXCEPT !.gap = (st.done # << >>)]
  <2>1. Read(st, c) = next /\ Read(st, d) = next  BY <1>1, <1>3 DEF Read
  <2>2. next.done = st.done /\ next.gap = (st.done # << >>) /\ next.over = FALSE /\ next \in States
    BY <1>3 DEF States
  <2>3. Read(next, d) = [next EXCEPT !.gap = (next.done # << >>)]
    <3> HIDE DEF next
    <3> QED  BY <1>1, <2>2 DEF Read
  <2>4. [next EXCEPT !.gap = (next.done # << >>)] = next
    <3> HIDE DEF next
    <3> QED  BY <2>2 DEF States
  <2> QED  BY <2>1, <2>3, <2>4
<1> QED  BY <1>2, <1>3

(* Collapsed white space does not change what is read.                     *)
LEMMA RunCollapsed ==
    ASSUME NEW s \in Texts
    PROVE  Run(Collapsed(s)) = Run(s)
<1> DEFINE Settled(t) == EndsBlank(t) => \A c \in Spaces : Read(Run(t), c) = Run(t)
           S == {t \in Texts : Run(Collapsed(t)) = Run(t) /\ Settled(t)}
<1>1. << >> \in S
  <2>1. << >> \in Texts /\ ~EndsBlank(<< >>)  BY TextLength DEF EndsBlank
  <2> QED  BY <2>1, CollapsedSeq
<1>2. ASSUME NEW t \in Texts, NEW c \in Alphabet, t \in S PROVE Append(t, c) \in S
  <2> DEFINE u == Append(t, c)
             r == Collapsed(t)
  <2>1. u \in Texts /\ (EndsBlank(u) <=> c \in Spaces)  BY DEF Texts, EndsBlank
  <2>2. Collapsed(u) = IF c \notin Spaces THEN Append(r, c)
                       ELSE IF EndsBlank(t) THEN r ELSE Append(r, " ")
    BY CollapsedAppend
  <2>3. Run(r) = Run(t) /\ r \in Texts  BY <1>2, CollapsedSeq
  <2>4. EndsBlank(t) => \A k \in Spaces : Read(Run(t), k) = Run(t)  BY <1>2
  <2>5. Run(u) = Read(Run(t), c) /\ Run(t) \in States  BY RunAppend
  <2>6. \A k \in Alphabet : Run(Append(r, k)) = Read(Run(t), k)  BY <2>3, RunAppend
  <2>7. " " \in Alphabet /\ " " \in Spaces /\ Spaces \subseteq Separators
    BY DEF Alphabet, Separators, Spaces
  <2> HIDE DEF u, r
  <2>8. Run(Collapsed(u)) = Run(u)
    <3>1. CASE c \notin Spaces  BY <2>2, <2>5, <2>6, <3>1
    <3>2. CASE c \in Spaces /\ EndsBlank(t)  BY <2>2, <2>3, <2>4, <2>5, <3>2
    <3>3. CASE c \in Spaces /\ ~EndsBlank(t)
      <4>1. Run(Collapsed(u)) = Read(Run(t), " ")  BY <2>2, <2>6, <2>7, <3>3
      <4>2. Read(Run(t), " ") = Read(Run(t), c)  BY <2>5, <2>7, <3>3, ReadBlanks
      <4> QED  BY <2>5, <4>1, <4>2
    <3> QED  BY <3>1, <3>2, <3>3
  <2>9. Settled(u)
    <3>1. ASSUME c \in Spaces, NEW k \in Spaces PROVE Read(Run(u), k) = Run(u)
      <4>1. c \in Separators /\ k \in Separators  BY <2>7, <3>1
      <4>2. Read(Read(Run(t), c), k) = Read(Run(t), c)  BY <2>5, <4>1, ReadBlanks
      <4> QED  BY <2>5, <4>2
    <3> QED  BY <2>1, <3>1
  <2> HIDE DEF Settled
  <2> QED  BY <2>1, <2>8, <2>9 DEF u
<1> HIDE DEF S
<1>3. s \in S  BY <1>1, <1>2, TextInduction
<1> QED  BY <1>3 DEF S

(* _wikilink makes a blank of a newline.                                   *)
Blanked(c) == IF c = "n" THEN " " ELSE c
Spaced(s) == [i \in DOMAIN s |-> Blanked(s[i])]

(* That changes one separator to another.                                  *)
LEMMA BlankedChar ==
    ASSUME NEW c \in Alphabet
    PROVE  /\ Blanked(c) \in Alphabet /\ Blanked(c) # "n" /\ (c # "[" => Blanked(c) # "[")
           /\ Blanked(c) = c \/ (Blanked(c) \in Separators /\ c \in Separators)
<1>1. " " \in Alphabet /\ " " \in Separators /\ "n" \in Separators  BY DEF Alphabet, Separators, Spaces
<1>2. CASE c = "n"  BY <1>1, <1>2 DEF Blanked
<1>3. CASE c # "n"  BY <1>3 DEF Blanked
<1> QED  BY <1>2, <1>3

(* A newline is read like a blank.                                         *)
LEMMA RunSpaced ==
    ASSUME NEW s \in Texts
    PROVE  Spaced(s) \in Texts /\ Run(Spaced(s)) = Run(s)
<1> DEFINE S == {t \in Texts : Spaced(t) \in Texts /\ Run(Spaced(t)) = Run(t)}
<1>1. << >> \in S
  <2>1. << >> \in Texts /\ Spaced(<< >>) = << >>  BY TextLength DEF Spaced
  <2> QED  BY <2>1
<1>2. ASSUME NEW t \in Texts, NEW c \in Alphabet, t \in S PROVE Append(t, c) \in S
  <2> DEFINE d == Blanked(c)
  <2>1. Spaced(Append(t, c)) = Append(Spaced(t), d)  BY DEF Texts, Spaced
  <2>2. d \in Alphabet /\ (d = c \/ (d \in Separators /\ c \in Separators))  BY BlankedChar
  <2> HIDE DEF d
  <2>3. Spaced(t) \in Texts /\ Run(Spaced(t)) = Run(t)  BY <1>2
  <2>4. Append(Spaced(t), d) \in Texts /\ Append(t, c) \in Texts  BY <2>2, <2>3 DEF Texts
  <2>5. Run(Append(Spaced(t), d)) = Read(Run(t), d)  BY <2>2, <2>3, RunAppend
  <2>6. Run(Append(t, c)) = Read(Run(t), c) /\ Run(t) \in States  BY RunAppend
  <2>7. Read(Run(t), d) = Read(Run(t), c)  BY <2>2, <2>6, ReadBlanks
  <2> QED  BY <2>1, <2>4, <2>5, <2>6, <2>7
<1> HIDE DEF S
<1>3. s \in S  BY <1>1, <1>2, TextInduction
<1> QED  BY <1>3 DEF S

(* The characters the pattern of extract_wikilinks takes.                  *)
Linkable == Alphabet \ {"[", "n"}

(* No newline is left.                                                     *)
LEMMA SpacedSeq ==
    ASSUME NEW s \in Seq(Alphabet \ {"["})
    PROVE  Spaced(s) \in Seq(Linkable)
<1>1. s \in [1..Len(s) -> Alphabet \ {"["}] /\ Len(s) \in Nat  OBVIOUS
<1>2. Spaced(s) = [i \in 1..Len(s) |-> Blanked(s[i])]  BY DEF Spaced
<1>3. \A i \in 1..Len(s) : Blanked(s[i]) \in Linkable
  <2> TAKE i \in 1..Len(s)
  <2>1. s[i] \in Alphabet /\ s[i] # "["  BY <1>1
  <2> QED  BY <2>1, BlankedChar DEF Linkable
<1>4. Spaced(s) \in [1..Len(s) -> Linkable]  BY <1>2, <1>3
<1> QED  BY <1>1, <1>4

(* The link to a title is found by the pattern, and has its slug.          *)
LEMMA LinkSlug ==
    ASSUME NEW t \in Texts
    PROVE  LET link == Normalized(LinkTarget(t)) IN
           /\ link \in Texts /\ Slugify(link) = Slugify(t)
           /\ \A i \in DOMAIN link : link[i] \notin {"[", "n"}
<1> DEFINE P == {i \in DOMAIN t : t[i] # "["}
           clean == Picked(t, P)
           spaced == Spaced(clean)
           target == Strip(spaced, Spaces)
           once == Collapsed(target)
           link == Strip(once, {" "})
<1>1. LinkTarget(t) = target  BY DEF LinkTarget, Spaced, Blanked
<1>2. Normalized(target) = link  BY DEF Normalized, Collapsed
<1>3. clean \in Texts /\ Run(clean) = Run(t) /\ clean \in Seq(Alphabet \ {"["})
  <2>1. \A i \in DOMAIN t : i \notin P => t[i] \notin Marks \cup Letters \cup Separators
    BY DEF Marks, Letters, Separators, Spaces
  <2>2. \A i \in DOMAIN t : i \in P => t[i] \in Alphabet \ {"["}  BY DEF Texts
  <2> HIDE DEF P
  <2>3. clean \in Texts /\ Run(clean) = Run(t)  BY <2>1, RunKept
  <2>4. clean \in Seq(Alphabet \ {"["})  BY <2>2, PickedIn DEF Texts
  <2> QED  BY <2>3, <2>4
<1> HIDE DEF clean
<1>4. spaced \in Texts /\ Run(spaced) = Run(t) /\ spaced \in Seq(Linkable)
  BY <1>3, RunSpaced, SpacedSeq
<1> HIDE DEF spaced
<1>5. target \in Texts /\ Run(target).done = Run(t).done /\ target \in Seq(Linkable)
  <2>1. Spaces \in SUBSET Separators  BY DEF Separators
  <2> QED  BY <1>4, <2>1, RunStrip, StripParts
<1> HIDE DEF target
<1>6. once \in Texts /\ Run(once).done = Run(t).done /\ once \in Seq((Linkable \ Spaces) \cup {" "})
  <2> DEFINE blank == " "
  <2> HIDE DEF blank
  <2>1. Runs(target, Spaces, blank) \in Seq((Linkable \ Spaces) \cup {blank})  BY <1>5, RunsSeq
  <2>2. once \in Seq((Linkable \ Spaces) \cup {" "})  BY <2>1 DEF Collapsed, blank
  <2>3. once \in Texts /\ Run(once) = Run(target)  BY <1>5, CollapsedSeq, RunCollapsed
  <2> HIDE DEF once
  <2> QED  BY <1>5, <2>2, <2>3
<1> HIDE DEF once
<1>7. link \in Texts /\ Run(link).done = Run(t).done /\ link \in Seq((Linkable \ Spaces) \cup {" "})
  <2>1. {" "} \in SUBSET Separators  BY DEF Separators, Spaces
  <2> QED  BY <1>6, <2>1, RunStrip, StripParts
<1> HIDE DEF link
<1>8. \A i \in DOMAIN link : link[i] \notin {"[", "n"}
  <2> DEFINE K == (Linkable \ Spaces) \cup {" "}
  <2>1. link \in Seq(K)  BY <1>7
  <2>2. K \cap {"[", "n"} = {}  BY DEF Linkable
  <2> HIDE DEF K
  <2>3. \A i \in DOMAIN link : link[i] \in K  BY <2>1
  <2> QED  BY <2>2, <2>3
<1>9. Slugify(link) = Slugify(t)  BY <1>7, SlugRun
<1> QED  BY <1>1, <1>2, <1>7, <1>8, <1>9

Slugs(s) == [i \in DOMAIN s |-> Slugify(s[i])]

(* A slug is a text, and that of no text is empty.                         *)
LEMMA SlugText ==
    /\ \A t \in Texts : Slugify(t) \in Texts
    /\ Slugify(<< >>) = << >>
<1>1. ASSUME NEW t \in Texts PROVE Slugify(t) \in Texts
  <2>1. Canonical(Slugify(t))  BY SlugRun, RunCanonical
  <2> QED  BY <2>1, CanonicalRun
<1>2. Slugify(<< >>) = << >>
  <2>1. << >> \in Texts /\ Start.done = << >>  BY TextLength DEF Start
  <2> QED  BY <2>1, SlugRun, RunAppend
<1> QED  BY <1>1, <1>2

(* The slugs of texts are texts.                                           *)
LEMMA SlugsSeq ==
    ASSUME NEW s \in TextSeqs
    PROVE  Slugs(s) \in TextSeqs /\ Len(Slugs(s)) = Len(s)
            /\ \A i \in DOMAIN s : Slugs(s)[i] = Slugify(s[i])
<1>1. Len(s) \in Nat /\ DOMAIN s = 1..Len(s) /\ \A i \in DOMAIN s : s[i] \in Texts  BY TextSeq
<1>2. Slugs(s) \in [1..Len(s) -> Texts]  BY <1>1, SlugText DEF Slugs
<1>3. Slugs(s) \in TextSeqs /\ Len(Slugs(s)) = Len(s)  BY <1>1, <1>2, TextSeqOf
<1>4. \A i \in DOMAIN s : Slugs(s)[i] = Slugify(s[i])  BY DEF Slugs
<1> QED  BY <1>3, <1>4

(* The slugs of a longer list.                                             *)
LEMMA SlugsAppend ==
    ASSUME NEW s \in TextSeqs, NEW t \in Texts
    PROVE  Slugs(Append(s, t)) = Append(Slugs(s), Slugify(t)) /\ Append(s, t) \in TextSeqs
<1>1. Append(s, t) \in TextSeqs  BY DEF TextSeqs
<1>2. Slugs(Append(s, t)) = Append(Slugs(s), Slugify(t))  BY DEF TextSeqs, Slugs
<1> QED  BY <1>1, <1>2

(* To pick titles is to pick their slugs.                                  *)
LEMMA SlugsPicked ==
    ASSUME NEW s \in TextSeqs, NEW P
    PROVE  Picked(Slugs(s), P) = Slugs(Picked(s, P)) /\ Picked(s, P) \in TextSeqs
<1> DEFINE Same(t) == Picked(Slugs(t), P) = Slugs(Picked(t, P)) /\ Picked(t, P) \in TextSeqs
           S == {t \in TextSeqs : Same(t)}
<1>1. << >> \in S
  <2>1. << >> \in TextSeqs  BY DEF TextSeqs
  <2>2. Slugs(<< >>) = << >>  BY DEF Slugs
  <2>3. Picked(<< >>, P) = << >>  BY <2>1, PickedSeq DEF TextSeqs
  <2> QED  BY <2>1, <2>2, <2>3
<1>2. ASSUME NEW t \in TextSeqs, NEW c \in Texts, t \in S PROVE Append(t, c) \in S
  <2> DEFINE u == Append(t, c)
             k == Slugify(c)
  <2>1. Same(t)  BY <1>2
  <2>2. Slugs(u) = Append(Slugs(t), k) /\ u \in TextSeqs  BY SlugsAppend
  <2>3. Slugs(t) \in TextSeqs /\ Len(Slugs(t)) = Len(t) /\ k \in Texts  BY SlugsSeq, SlugText
  <2> HIDE DEF k
  <2>4. Picked(u, P) = IF Len(t) + 1 \in P THEN Append(Picked(t, P), c) ELSE Picked(t, P)
    BY PickedAppend DEF TextSeqs
  <2>5. Picked(Append(Slugs(t), k), P)
          = IF Len(t) + 1 \in P THEN Append(Picked(Slugs(t), P), k) ELSE Picked(Slugs(t), P)
    <3> DEFINE q == Slugs(t)
    <3>1. q \in Seq(Texts) /\ Len(q) = Len(t)  BY <2>3 DEF TextSeqs
    <3> HIDE DEF q
    <3>2. Picked(Append(q, k), P) = IF Len(q) + 1 \in P THEN Append(Picked(q, P), k) ELSE Picked(q, P)
      BY <2>3, <3>1, PickedAppend
    <3> QED  BY <3>1, <3>2 DEF q
  <2> HIDE DEF u
  <2>6. CASE Len(t) + 1 \in P
    <3>1. Slugs(Append(Picked(t, P), c)) = Append(Slugs(Picked(t, P)), k)
            /\ Append(Picked(t, P), c) \in TextSeqs
      BY <2>1, SlugsAppend DEF k
    <3> QED  BY <2>1, <2>2, <2>4, <2>5, <2>6, <3>1 DEF u
  <2>7. CASE Len(t) + 1 \notin P
    BY <2>1, <2>2, <2>4, <2>5, <2>7 DEF u
  <2> QED  BY <2>6, <2>7
<1> HIDE DEF S
<1>3. s \in S  BY <1>1, <1>2, SeqInduction DEF TextSeqs
<1> QED  BY <1>3 DEF S

(* The pages that are chosen have different slugs, not empty and not that  *)
(* of the page, and are within the limit.                                  *)
LEMMA RelatedChosen ==
    ASSUME NEW titles \in TextSeqs
    PROVE  LET pages == RelatedPages(titles) IN
           /\ pages \in TextSeqs /\ Len(pages) <= MaxRelated
           /\ Distinct(Slugs(pages))
           /\ \A i \in DOMAIN pages : Slugify(pages[i]) \notin {<< >>, CurrentSlug}
<1> DEFINE E == {<< >>, CurrentSlug}
           slugs == Slugs(titles)
           new == {i \in FirstOccurrences(slugs) : slugs[i] \notin E}
           chosen == Picked(titles, new)
           pages == Limited(chosen, MaxRelated)
<1>1. RelatedPages(titles) = pages  BY DEF RelatedPages, Mapped, Slugs
<1>2. slugs \in TextSeqs  BY SlugsSeq
<1>3. Firsts(slugs, E) = Picked(slugs, new)  BY DEF Firsts
<1>4. Picked(slugs, new) = Slugs(chosen) /\ chosen \in TextSeqs
  <2> HIDE DEF new
  <2> QED  BY SlugsPicked
<1> HIDE DEF slugs, E
<1>5. Distinct(Firsts(slugs, E)) /\ From(Firsts(slugs, E), slugs, E)
  BY <1>2, FirstsDistinct DEF TextSeqs
<1> HIDE DEF chosen, new
<1>6. Distinct(Slugs(chosen)) /\ \A i \in DOMAIN Slugs(chosen) : Slugs(chosen)[i] \notin E
  BY <1>3, <1>4, <1>5 DEF From
<1>7. MaxRelated \in Nat  BY EvidenceAssumption
<1>8. pages \in TextSeqs /\ Len(pages) <= MaxRelated /\ Len(pages) <= Len(chosen)
        /\ \A i \in 1..Len(pages) : pages[i] = chosen[i]
  BY <1>4, <1>7, LimitedPrefix DEF TextSeqs
<1> HIDE DEF pages
<1>9. /\ Len(pages) \in Nat /\ DOMAIN pages = 1..Len(pages)
      /\ Len(chosen) \in Nat /\ DOMAIN chosen = 1..Len(chosen)
      /\ DOMAIN Slugs(pages) = DOMAIN pages /\ DOMAIN Slugs(chosen) = DOMAIN chosen
  BY <1>4, <1>8, TextSeq DEF Slugs
<1>10. \A i \in DOMAIN pages : i \in DOMAIN chosen /\ Slugs(pages)[i] = Slugs(chosen)[i]
        /\ Slugs(pages)[i] = Slugify(pages[i])
  <2> TAKE i \in DOMAIN pages
  <2>1. i \in DOMAIN chosen /\ pages[i] = chosen[i]  BY <1>8, <1>9
  <2> QED  BY <2>1 DEF Slugs
<1>11. Distinct(Slugs(pages))  BY <1>6, <1>9, <1>10 DEF Distinct
<1>12. \A i \in DOMAIN pages : Slugify(pages[i]) \notin E  BY <1>6, <1>9, <1>10
<1> QED  BY <1>1, <1>8, <1>11, <1>12 DEF E

(* Pages with different slugs are linked by their slugs.                   *)
LEMMA LinkedPages ==
    ASSUME NEW pages \in TextSeqs, Distinct(Slugs(pages)),
            \A i \in DOMAIN pages : Slugify(pages[i]) # << >>
    PROVE  ExtractWikilinks(BulletLines(Mapped(LinkTarget, pages))) = Slugs(pages)
<1> DEFINE N == Len(pages)
           Link(t) == Normalized(LinkTarget(t))
           targets == Mapped(LinkTarget, pages)
           links == [i \in DOMAIN pages |-> Link(pages[i])]
           G == Slugs(pages)
<1>1. N \in Nat /\ DOMAIN pages = 1..N /\ \A i \in DOMAIN pages : pages[i] \in Texts  BY TextSeq
<1>2. \A i \in DOMAIN pages : /\ Link(pages[i]) \in Texts /\ Slugify(Link(pages[i])) = Slugify(pages[i])
                              /\ Link(pages[i]) # << >>
                              /\ \A k \in DOMAIN Link(pages[i]) : Link(pages[i])[k] \notin {"[", "n"}
  BY <1>1, LinkSlug, SlugText
<1>3. targets = [i \in DOMAIN pages |-> LinkTarget(pages[i])]  BY DEF Mapped
<1>4. Mapped(Normalized, targets) = links /\ DOMAIN targets = DOMAIN pages  BY <1>3 DEF Mapped
<1>5. Len(targets) = N  BY <1>1, <1>3
<1> HIDE DEF targets, Link
<1>6. links \in TextSeqs /\ Len(links) = N /\ DOMAIN links = 1..N
        /\ \A i \in 1..N : links[i] = Link(pages[i])
  <2>1. links \in [1..N -> Texts] /\ DOMAIN links = 1..N /\ \A i \in 1..N : links[i] = Link(pages[i])
    BY <1>1, <1>2
  <2> HIDE DEF links, N
  <2> QED  BY <1>1, <2>1, TextSeqOf
<1>7. G \in TextSeqs /\ DOMAIN G = 1..N /\ \A i \in 1..N : G[i] = Slugify(pages[i])
  BY <1>1, SlugsSeq DEF Slugs
<1> HIDE DEF links, G, N
<1>8. \A i \in 1..N : Slugify(links[i]) = G[i]  BY <1>1, <1>2, <1>6, <1>7
<1>9. Distinct(G)  BY DEF G
<1>10. Distinct(links)
  <2>1. \A i, j \in 1..N : links[i] = links[j] => G[i] = G[j]  BY <1>8
  <2> QED  BY <1>6, <1>7, <1>9, <2>1 DEF Distinct
<1>11. Deduped(links) = links
  <2>1. \A i \in DOMAIN links : links[i] \notin {<< >>}  BY <1>1, <1>2, <1>6
  <2> QED  BY <1>6, <1>10, <2>1, FirstsSame, DedupedFirsts DEF TextSeqs
<1>12. BulletLines(targets) = links
  <2>1. Limited(links, N) = links  BY <1>1, <1>6, LimitedPrefix DEF TextSeqs
  <2> QED  BY <1>4, <1>5, <1>11, <2>1 DEF BulletLines, DedupeNonEmpty
<1>13. ExtractWikilinks(links) = Deduped(G)
  <2> DEFINE P == {i \in DOMAIN links : Found(links[i])}
  <2>1. DOMAIN links \subseteq P
    <3> SUFFICES ASSUME NEW i \in DOMAIN links PROVE Found(links[i])  OBVIOUS
    <3> QED  BY <1>1, <1>2, <1>6 DEF Found
  <2>2. Picked(links, P) = links
    <3> HIDE DEF P
    <3> QED  BY <1>6, <2>1, PickedAll DEF TextSeqs
  <2>3. ExtractWikilinks(links)
           = Deduped([i \in DOMAIN Picked(links, P) |-> Slugify(Picked(links, P)[i])])
    BY DEF ExtractWikilinks
  <2>4. [i \in DOMAIN links |-> Slugify(links[i])] = G
    <3>1. [i \in DOMAIN links |-> Slugify(links[i])] = [i \in 1..N |-> G[i]]  BY <1>6, <1>8
    <3>2. G = [i \in 1..N |-> G[i]]  BY <1>7 DEF G, Slugs
    <3> QED  BY <3>1, <3>2
  <2> HIDE DEF P
  <2> QED  BY <2>2, <2>3, <2>4
<1>14. Deduped(G) = G
  <2>1. \A i \in DOMAIN G : G[i] \notin {<< >>}  BY <1>1, <1>7
  <2> QED  BY <1>7, <1>9, <2>1, FirstsSame, DedupedFirsts DEF TextSeqs
<1> QED  BY <1>12, <1>13, <1>14 DEF targets, G

(* The links of any titles are read back as the pages chosen of them.      *)
LEMMA PagesLinked == TypedTexts => RelatedPagesAreLinked
<1> SUFFICES ASSUME TypedTexts PROVE RelatedPagesAreLinked  OBVIOUS
<1> DEFINE pages == RelatedPages(listed)
           linked == ExtractWikilinks(BulletLines(Mapped(LinkTarget, pages)))
<1>1. /\ pages \in TextSeqs /\ Len(pages) <= MaxRelated /\ Distinct(Slugs(pages))
      /\ \A i \in DOMAIN pages : Slugify(pages[i]) \notin {<< >>, CurrentSlug}
  BY RelatedChosen DEF TypedTexts, TextSeqs
<1> HIDE DEF pages
<1>2. linked = Slugs(pages)  BY <1>1, LinkedPages
<1> HIDE DEF linked
<1>3. Slugs(pages) = Mapped(Slugify, pages)  BY DEF Slugs, Mapped
<1>4. /\ Len(Slugs(pages)) = Len(pages) /\ Len(pages) \in Nat /\ DOMAIN pages = 1..Len(pages)
      /\ \A i \in DOMAIN pages : Slugs(pages)[i] = Slugify(pages[i])
  BY <1>1, SlugsSeq, TextSeq
<1>5. ~Contains(linked, CurrentSlug)  BY <1>1, <1>2, <1>4 DEF Contains
<1>6. Len(linked) <= MaxRelated  BY <1>1, <1>2, <1>4
<1> QED  BY <1>2, <1>3, <1>5, <1>6 DEF RelatedPagesAreLinked, linked, pages

----------------------------------------------------------------------------
(* What occurs in a sequence.                                              *)

(* Firsts loses nothing that is not in E.                                  *)
LEMMA FirstsOccur ==
    ASSUME NEW C, NEW s \in Seq(C), NEW E
    PROVE  \A x : Occurs(x, Firsts(s, E)) <=> Occurs(x, s) /\ x \notin E
<1> DEFINE Fits(t) == \A x : Occurs(x, Firsts(t, E)) <=> Occurs(x, t) /\ x \notin E
           S == {t \in Seq(C) : Fits(t)}
<1>1. << >> \in S
  <2>1. << >> \in Seq(C)  OBVIOUS
  <2>2. Firsts(<< >>, E) = << >>  BY <2>1, PickedSeq DEF Firsts
  <2>3. \A x : ~Occurs(x, << >>)  BY DEF Occurs
  <2> QED  BY <2>1, <2>2, <2>3
<1>2. ASSUME NEW t \in Seq(C), NEW c \in C, t \in S PROVE Append(t, c) \in S
  <2> DEFINE u == Append(t, c)
             d == Firsts(t, E)
  <2>1. u \in Seq(C)  OBVIOUS
  <2>2. \A x : Occurs(x, d) <=> Occurs(x, t) /\ x \notin E  BY <1>2
  <2>3. Firsts(u, E) = IF c \notin E /\ ~Occurs(c, t) THEN Append(d, c) ELSE d  BY FirstsAppend
  <2>4. \A x : Occurs(x, u) <=> x = c \/ Occurs(x, t)  BY FirstsAppend
  <2>5. d \in Seq(C)  BY FirstsDistinct
  <2> HIDE DEF u, d
  <2>6. \A x : Occurs(x, Append(d, c)) <=> x = c \/ Occurs(x, d)  BY <2>5, FirstsAppend
  <2>7. Fits(u)  BY <2>2, <2>3, <2>4, <2>6
  <2> HIDE DEF Fits
  <2> QED  BY <2>1, <2>7 DEF u
<1> HIDE DEF S
<1>3. s \in S  BY <1>1, <1>2, SeqInduction
<1> QED  BY <1>3 DEF S

(* Picked by what the elements are: all of them, and no other.             *)
LEMMA PickedOccur ==
    ASSUME NEW C, NEW s \in Seq(C), NEW P, NEW D, \A i \in DOMAIN s : i \in P <=> s[i] \in D
    PROVE  \A x : Occurs(x, Picked(s, P)) <=> Occurs(x, s) /\ x \in D
<1> DEFINE Marked(t) == \A i \in DOMAIN t : i \in P <=> t[i] \in D
           Fits(t) == \A x : Occurs(x, Picked(t, P)) <=> Occurs(x, t) /\ x \in D
           S == {t \in Seq(C) : Marked(t) => Fits(t)}
<1>1. << >> \in S
  <2>1. << >> \in Seq(C)  OBVIOUS
  <2>2. Picked(<< >>, P) = << >>  BY <2>1, PickedSeq
  <2>3. \A x : ~Occurs(x, << >>)  BY DEF Occurs
  <2> QED  BY <2>1, <2>2, <2>3
<1>2. ASSUME NEW t \in Seq(C), NEW c \in C, t \in S PROVE Append(t, c) \in S
  <2> DEFINE u == Append(t, c)
             d == Picked(t, P)
  <2>1. u \in Seq(C) /\ Len(t) + 1 \in DOMAIN u /\ u[Len(t) + 1] = c
          /\ \A i \in DOMAIN t : i \in DOMAIN u /\ u[i] = t[i]
    OBVIOUS
  <2> SUFFICES ASSUME Marked(u) PROVE Fits(u)
    <3> HIDE DEF Marked, Fits
    <3> QED  BY <2>1
  <2>2. Marked(t) /\ (Len(t) + 1 \in P <=> c \in D)
    <3> HIDE DEF u
    <3> QED  BY <2>1
  <2>3. \A x : Occurs(x, d) <=> Occurs(x, t) /\ x \in D  BY <1>2, <2>2
  <2>4. Picked(u, P) = IF Len(t) + 1 \in P THEN Append(d, c) ELSE d  BY PickedAppend
  <2>5. \A x : Occurs(x, u) <=> x = c \/ Occurs(x, t)  BY FirstsAppend
  <2>6. d \in Seq(C)  BY PickedSeq
  <2> HIDE DEF u, d
  <2>7. \A x : Occurs(x, Append(d, c)) <=> x = c \/ Occurs(x, d)  BY <2>6, FirstsAppend
  <2> QED  BY <2>2, <2>3, <2>4, <2>5, <2>7
<1> HIDE DEF S
<1>3. s \in S  BY <1>1, <1>2, SeqInduction
<1> QED  BY <1>3 DEF S

(* f has the sequences of every prefix of seqs, one after the other.       *)
FlatBy(f, seqs, C) ==
    /\ f[0] = << >>
    /\ \A n \in 0..Len(seqs) : f[n] \in Seq(C)
    /\ \A n \in 1..Len(seqs) : f[n] = f[n - 1] \o seqs[n]
    /\ FlattenSeq(seqs) = f[Len(seqs)]

(* The recursive function of FlattenSeq is computed from the first         *)
(* sequence to the last.                                                   *)
LEMMA FlatUnrolls ==
    ASSUME NEW C, NEW seqs \in Seq(Seq(C))
    PROVE  \E f : FlatBy(f, seqs, C)
<1> DEFINE A == Seq(C)
           L == Len(seqs)
           step == [n \in 1..L |-> [done \in A |-> done \o seqs[n]]]
<1>1. L \in Nat /\ << >> \in A /\ \A n \in 1..L : seqs[n] \in A  OBVIOUS
<1>2. step \in Steps(L, A)
  <2>1. \A n \in 1..L : \A done \in A : done \o seqs[n] \in A
    <3> TAKE n \in 1..L
    <3>1. seqs[n] \in Seq(C)  OBVIOUS
    <3> DEFINE q == seqs[n]
    <3> HIDE DEF q
    <3>2. \A done \in Seq(C) : done \o q \in Seq(C)  BY <3>1 DEF q
    <3> QED  BY <3>2 DEF q
  <2> HIDE DEF A, L
  <2> QED  BY <2>1 DEF Steps
<1>3. \A n \in 1..L, done \in A : step[n][done] = done \o seqs[n]
  <2> HIDE DEF A, L
  <2> QED  OBVIOUS
<1> HIDE DEF step
<1>4. PICK f : Unrolls(f, A, << >>, L, step)
  <2> HIDE DEF A, L
  <2> QED  BY <1>1, <1>2, Recursion
<1> DEFINE Def(g) == g = [i \in 1..L |-> IF i = 1 THEN seqs[i] ELSE g[i - 1] \o seqs[i]]
           flatten == CHOOSE g : Def(g)
<1>5. /\ f \in [0..L -> A] /\ f[0] = << >> /\ \A n \in 1..L : f[n] = f[n - 1] \o seqs[n]
  <2>1. \A n \in 1..L : n - 1 \in 0..L  BY <1>1
  <2> HIDE DEF A, L
  <2> QED  BY <1>3, <1>4, <2>1 DEF Unrolls
<1>6. L # 0 => f[1] = seqs[1]
  <2>1. L # 0 => 1 \in 1..L /\ seqs[1] \in Seq(C)  BY <1>1
  <2>2. L # 0 => f[1] = << >> \o seqs[1]
    <3>1. 1 - 1 = 0  OBVIOUS
    <3> HIDE DEF L
    <3> QED  BY <1>5, <2>1, <3>1
  <2> DEFINE q == seqs[1]
  <2> HIDE DEF q, L
  <2>3. L # 0 => << >> \o q = q  BY <2>1 DEF q
  <2> QED  BY <2>2, <2>3 DEF q
<1> HIDE DEF A, L
<1>7. CASE L = 0
  <2>1. FlattenSeq(seqs) = << >>
    <3>1. seqs = << >>  BY <1>7 DEF L
    <3> QED  BY <1>7, <3>1 DEF FlattenSeq, L
  <2>2. FlatBy(f, seqs, C)
    BY <1>5, <1>7, <2>1 DEF FlatBy, A, L
  <2> QED  BY <2>2
<1>8. CASE L # 0
  <2> DEFINE h == [i \in 1..L |-> f[i]]
  <2>1. \A i \in 1..L : i # 1 => i - 1 \in 1..L  BY <1>1
  <2>2. \A i \in 1..L : h[i] = IF i = 1 THEN seqs[i] ELSE h[i - 1] \o seqs[i]
    BY <1>5, <1>6, <1>8, <2>1
  <2>3. Def(h)
    <3>1. h = [i \in 1..L |-> h[i]]  OBVIOUS
    <3> HIDE DEF h
    <3>2. [i \in 1..L |-> h[i]] = [i \in 1..L |-> IF i = 1 THEN seqs[i] ELSE h[i - 1] \o seqs[i]]
      BY <2>2
    <3> QED  BY <3>1, <3>2
  <2>4. FlattenSeq(seqs) = flatten[L]  BY <1>8 DEF FlattenSeq, L
  <2> HIDE DEF h
  <2>5. Def(flatten)
    <3> HIDE DEF Def
    <3> QED  BY <2>3
  <2> HIDE DEF flatten
  <2>6. DOMAIN flatten = 1..L /\ \A i \in 1..L : flatten[i] = IF i = 1 THEN seqs[i]
          ELSE flatten[i - 1] \o seqs[i]
    BY <2>5
  <2>7. \A n \in 0..L : n # 0 => flatten[n] = f[n]
    <3> DEFINE S == {n \in 0..L : n # 0 => flatten[n] = f[n]}
    <3>1. 0 \in S  BY <1>1
    <3>2. ASSUME NEW n \in 1..L, n - 1 \in S PROVE n \in S
      <4>1. n \in 0..L  BY <1>1
      <4>2. CASE n = 1  BY <1>6, <1>8, <2>6, <4>1, <4>2
      <4>3. CASE n # 1
        <5>1. n - 1 # 0  BY <1>1, <4>3
        <5>2. flatten[n - 1] = f[n - 1]  BY <3>2, <5>1
        <5> QED  BY <1>5, <2>6, <4>1, <4>3, <5>2
      <4> QED  BY <4>2, <4>3
    <3> HIDE DEF S
    <3>3. \A n \in 0..L : n \in S  BY <1>1, <3>1, <3>2, Induction
    <3> QED  BY <3>3 DEF S
  <2>8. L \in 0..L  BY <1>1
  <2>9. FlatBy(f, seqs, C)
    BY <1>5, <1>8, <2>4, <2>7, <2>8 DEF FlatBy, A, L
  <2> QED  BY <2>9
<1> QED  BY <1>7, <1>8

(* What occurs in one sequence after another.                              *)
LEMMA ConcatOccurs ==
    ASSUME NEW C, NEW s \in Seq(C), NEW t \in Seq(C)
    PROVE  \A x : Occurs(x, s \o t) <=> Occurs(x, s) \/ Occurs(x, t)
<1> DEFINE u == s \o t
           M == Len(s)
           N == Len(t)
<1>1. M \in Nat /\ N \in Nat /\ DOMAIN s = 1..M /\ DOMAIN t = 1..N /\ DOMAIN u = 1..(M + N)  OBVIOUS
<1>2. (\A i \in 1..M : u[i] = s[i]) /\ \A i \in 1..N : u[M + i] = t[i]  OBVIOUS
<1> HIDE DEF u, M, N
<1>3. ASSUME NEW x, Occurs(x, u) PROVE Occurs(x, s) \/ Occurs(x, t)
  <2>1. PICK i \in 1..(M + N) : u[i] = x  BY <1>1, <1>3 DEF Occurs
  <2>2. CASE i \in 1..M  BY <1>1, <1>2, <2>1, <2>2 DEF Occurs
  <2>3. CASE i \notin 1..M
    <3>1. i - M \in 1..N /\ M + (i - M) = i  BY <1>1, <2>3
    <3>2. t[i - M] = x  BY <1>2, <2>1, <3>1
    <3> QED  BY <1>1, <3>1, <3>2 DEF Occurs
  <2> QED  BY <2>2, <2>3
<1>4. ASSUME NEW x, Occurs(x, s) PROVE Occurs(x, u)
  <2>1. PICK i \in 1..M : s[i] = x  BY <1>1, <1>4 DEF Occurs
  <2>2. i \in 1..(M + N)  BY <1>1
  <2> QED  BY <1>1, <1>2, <2>1, <2>2 DEF Occurs
<1>5. ASSUME NEW x, Occurs(x, t) PROVE Occurs(x, u)
  <2>1. PICK i \in 1..N : t[i] = x  BY <1>1, <1>5 DEF Occurs
  <2>2. M + i \in 1..(M + N)  BY <1>1
  <2> QED  BY <1>1, <1>2, <2>1, <2>2 DEF Occurs
<1> QED  BY <1>3, <1>4, <1>5 DEF u

(* FlattenSeq loses nothing and makes nothing up.                          *)
LEMMA FlatOccurs ==
    ASSUME NEW C, NEW seqs \in Seq(Seq(C))
    PROVE  /\ FlattenSeq(seqs) \in Seq(C)
           /\ \A x : Occurs(x, FlattenSeq(seqs)) <=> \E i \in DOMAIN seqs : Occurs(x, seqs[i])
<1> DEFINE L == Len(seqs)
<1>1. L \in Nat /\ DOMAIN seqs = 1..L /\ \A n \in 1..L : seqs[n] \in Seq(C)  OBVIOUS
<1>2. PICK f : FlatBy(f, seqs, C)  BY FlatUnrolls
<1>3. /\ f[0] = << >>
      /\ \A n \in 0..L : f[n] \in Seq(C)
      /\ \A n \in 1..L : f[n] = f[n - 1] \o seqs[n]
      /\ FlattenSeq(seqs) = f[L]
  BY <1>2 DEF FlatBy
<1> HIDE DEF L
<1> DEFINE In(x, n) == \E i \in 1..n : Occurs(x, seqs[i])
           S == {n \in 0..L : \A x : Occurs(x, f[n]) <=> In(x, n)}
<1>4. 0 \in S
  <2>1. \A x : ~Occurs(x, << >>)  BY DEF Occurs
  <2>2. 0 \in 0..L /\ 1..0 = {}  BY <1>1
  <2> QED  BY <1>3, <2>1, <2>2
<1>5. ASSUME NEW n \in 1..L, n - 1 \in S PROVE n \in S
  <2>1. n \in 0..L /\ n - 1 \in 0..L /\ n \in Nat  BY <1>1
  <2>2. f[n - 1] \in Seq(C) /\ seqs[n] \in Seq(C)  BY <1>1, <1>3, <2>1
  <2>3. f[n] = f[n - 1] \o seqs[n]  BY <1>3
  <2> DEFINE p == f[n - 1]
             q == seqs[n]
  <2> HIDE DEF p, q
  <2>4. \A x : Occurs(x, p \o q) <=> Occurs(x, p) \/ Occurs(x, q)
    <3>1. p \in Seq(C) /\ q \in Seq(C)  BY <2>2 DEF p, q
    <3> QED  BY <3>1, ConcatOccurs
  <2>5. \A x : Occurs(x, f[n - 1]) <=> In(x, n - 1)  BY <1>5
  <2>6. ASSUME NEW x PROVE In(x, n) <=> In(x, n - 1) \/ Occurs(x, seqs[n])
    <3>1. \A i \in 1..n : i \in 1..(n - 1) \/ i = n  BY <2>1
    <3>2. n \in 1..n /\ \A i \in 1..(n - 1) : i \in 1..n  BY <2>1
    <3> QED  BY <3>1, <3>2
  <2> HIDE DEF In
  <2>7. \A x : Occurs(x, f[n]) <=> In(x, n)  BY <2>3, <2>4, <2>5, <2>6 DEF p, q
  <2> QED  BY <2>1, <2>7
<1> HIDE DEF S
<1>6. L \in S
  <2>1. L \in 0..L  BY <1>1
  <2> QED  BY <1>1, <1>4, <1>5, <2>1, Induction
<1>7. L \in 0..L  BY <1>1
<1> QED  BY <1>1, <1>3, <1>6, <1>7 DEF S

----------------------------------------------------------------------------
(* The items of the metadata.                                              *)

Universe == AllItems(Items)
ItemSeqs == Seq(Universe)

(* The items of S and those that items of these kinds hold.                *)
Outer(S, kinds) == S \cup UNION {ToSet(item.items) : item \in {i \in S : i.kind \in kinds}}

(* f has the items of S down to every level of nesting.                    *)
NestedBy(f, S, kinds) ==
    /\ f[0] = S
    /\ \A n \in 1..MaxNesting : f[n] = Outer(f[n - 1], kinds)
    /\ Nested(S, kinds) = f[MaxNesting]

(* The recursive function of Nested goes down level by level.              *)
LEMMA NestedUnrolls ==
    ASSUME NEW S, NEW kinds
    PROVE  \E f : NestedBy(f, S, kinds)
<1> DEFINE M == MaxNesting
           Whole(f, n) == f = [k \in 0..n |-> IF k = 0 THEN S ELSE Outer(f[k - 1], kinds)]
           Def(f) == f = [n \in 0..M |-> IF n = 0 THEN S
                                         ELSE LET outer == f[n - 1]
                                              IN outer \cup UNION {ToSet(item.items) :
                                                                item \in {i \in outer : i.kind \in kinds}}]
           T == {n \in 0..M : \E f : Whole(f, n)}
           nested == CHOOSE f : Def(f)
<1>1. M \in Nat  BY EvidenceAssumption
<1>2. \A f : Def(f) <=> Whole(f, M)  BY DEF Outer
<1>3. Nested(S, kinds) = nested[M]  BY DEF Nested
<1> HIDE DEF Def, M
<1>4. 0 \in T
  <2>1. Whole([k \in 0..0 |-> S], 0)  OBVIOUS
  <2>2. 0 \in 0..M  BY <1>1
  <2> HIDE DEF Whole
  <2> QED  BY <2>1, <2>2
<1>5. ASSUME NEW n \in 1..M, n - 1 \in T PROVE n \in T
  <2>1. PICK f : Whole(f, n - 1)  BY <1>5
  <2> DEFINE g == [k \in 0..n |-> IF k = n THEN Outer(f[n - 1], kinds) ELSE f[k]]
  <2>2. n \in Nat /\ n # 0 /\ n - 1 \in 0..(n - 1) /\ n \in 0..M /\ 0 \in 0..(n - 1)  BY <1>1
  <2>3. f[0] = S /\ \A k \in 1..(n - 1) : f[k] = Outer(f[k - 1], kinds)
    <3>1. \A k \in 0..(n - 1) : f[k] = IF k = 0 THEN S ELSE Outer(f[k - 1], kinds)  BY <2>1
    <3>2. \A k \in 1..(n - 1) : k \in 0..(n - 1) /\ k # 0  BY <2>2
    <3> QED  BY <2>2, <3>1, <3>2
  <2>4. \A k \in 0..(n - 1) : k # n /\ k \in 0..n  BY <2>2
  <2>5. \A k \in 0..(n - 1) : g[k] = f[k]  BY <2>4
  <2>6. g[n] = Outer(f[n - 1], kinds)  BY <2>2
  <2>7. g = [k \in 0..n |-> g[k]]  OBVIOUS
  <2> HIDE DEF g
  <2>8. \A k \in 0..n : g[k] = IF k = 0 THEN S ELSE Outer(g[k - 1], kinds)
    <3> TAKE k \in 0..n
    <3>1. CASE k = 0  BY <2>2, <2>3, <2>5, <3>1
    <3>2. CASE k = n
      <4>1. g[n - 1] = f[n - 1]  BY <2>2, <2>5
      <4> QED  BY <2>2, <2>6, <3>2, <4>1
    <3>3. CASE k # 0 /\ k # n
      <4>1. k \in 1..(n - 1) /\ k \in 0..(n - 1) /\ k - 1 \in 0..(n - 1)  BY <2>2, <3>3
      <4> QED  BY <2>3, <2>5, <3>3, <4>1
    <3> QED  BY <3>1, <3>2, <3>3
  <2>9. Whole(g, n)  BY <2>7, <2>8
  <2> HIDE DEF Whole
  <2> QED  BY <2>2, <2>9
<1>6. M \in T
  <2> HIDE DEF T
  <2>1. M \in 0..M  BY <1>1
  <2> QED  BY <1>1, <1>4, <1>5, <2>1, Induction
<1>7. Whole(nested, M)
  <2> HIDE DEF Whole
  <2>1. \E f : Def(f)  BY <1>2, <1>6
  <2>2. Def(nested)  BY <2>1
  <2> QED  BY <1>2, <2>2
<1> HIDE DEF nested
<1>8. \A n \in 0..M : nested[n] = IF n = 0 THEN S ELSE Outer(nested[n - 1], kinds)  BY <1>7
<1>9. 0 \in 0..M /\ \A n \in 1..M : n \in 0..M /\ n # 0  BY <1>1
<1>10. nested[0] = S /\ \A n \in 1..M : nested[n] = Outer(nested[n - 1], kinds)  BY <1>8, <1>9
<1> QED  BY <1>3, <1>10 DEF NestedBy, M

(* What is reached through groups alone is reached, and so are the items   *)
(* themselves.                                                             *)
LEMMA InAllItems ==
    ASSUME NEW S
    PROVE  S \subseteq Outermost(S) /\ Outermost(S) \subseteq AllItems(S)
<1> DEFINE M == MaxNesting
           G == {"group"}
           K == {"group", "source"}
<1>1. M \in Nat /\ G \subseteq K  BY EvidenceAssumption
<1>2. Outermost(S) = Nested(S, G) /\ AllItems(S) = Nested(S, K)  BY DEF Outermost, AllItems
<1> HIDE DEF G, K
<1>3. PICK f : NestedBy(f, S, G)  BY NestedUnrolls
<1>4. PICK h : NestedBy(h, S, K)  BY NestedUnrolls
<1>5. f[0] = S /\ (\A n \in 1..M : f[n] = Outer(f[n - 1], G)) /\ Nested(S, G) = f[M]  BY <1>3 DEF NestedBy
<1>6. h[0] = S /\ (\A n \in 1..M : h[n] = Outer(h[n - 1], K)) /\ Nested(S, K) = h[M]  BY <1>4 DEF NestedBy
<1> HIDE DEF M
<1> DEFINE T == {n \in 0..M : S \subseteq f[n] /\ f[n] \subseteq h[n]}
<1>7. 0 \in T  BY <1>1, <1>5, <1>6
<1>8. ASSUME NEW n \in 1..M, n - 1 \in T PROVE n \in T
  <2>1. n \in 0..M  BY <1>1
  <2>2. \A A, B : A \subseteq B => A \subseteq Outer(A, G) /\ Outer(A, G) \subseteq Outer(B, K)  BY <1>1 DEF Outer
  <2> QED  BY <1>5, <1>6, <1>8, <2>1, <2>2
<1>9. M \in 0..M  BY <1>1
<1> HIDE DEF T
<1>10. M \in T  BY <1>1, <1>7, <1>8, <1>9, Induction
<1> QED  BY <1>2, <1>5, <1>6, <1>10 DEF T

(* What an item holds are items.                                           *)
LEMMA UniverseItems ==
    /\ Items \subseteq Universe
    /\ \A item \in Universe : item.items \in ItemSeqs
BY InAllItems, ItemsAssumption DEF Universe, ItemSeqs

(* Lists of items as sequences.                                            *)
LEMMA ItemSeq ==
    ASSUME NEW s \in ItemSeqs
    PROVE  /\ Len(s) \in Nat /\ DOMAIN s = 1..Len(s) /\ \A i \in DOMAIN s : s[i] \in Universe
           /\ \A x : Occurs(x, s) <=> x \in ToSet(s)
<1>1. Len(s) \in Nat /\ DOMAIN s = 1..Len(s) /\ \A i \in DOMAIN s : s[i] \in Universe  BY DEF ItemSeqs
<1>2. \A x : Occurs(x, s) <=> x \in ToSet(s)  BY DEF Occurs, ToSet
<1> QED  BY <1>1, <1>2

(* One level of _flatten_source_items.                                     *)
Expand(s) == FlattenSeq(Mapped(Members, s))

(* A group is replaced by what it holds, and nothing else changes.         *)
LEMMA Expanded ==
    ASSUME NEW s \in ItemSeqs
    PROVE  /\ Expand(s) \in ItemSeqs
           /\ \A x : Occurs(x, Expand(s)) <=>
                 \E y : Occurs(y, s) /\ IF y.kind = "group" THEN Occurs(x, y.items) ELSE x = y
<1> DEFINE parts == Mapped(Members, s)
<1>1. Len(s) \in Nat /\ DOMAIN s = 1..Len(s) /\ \A i \in DOMAIN s : s[i] \in Universe  BY ItemSeq
<1>2. parts = [i \in DOMAIN s |-> Members(s[i])]  BY DEF Mapped
<1>3. ASSUME NEW y \in Universe
      PROVE  /\ Members(y) \in ItemSeqs
             /\ \A x : Occurs(x, Members(y)) <=> IF y.kind = "group" THEN Occurs(x, y.items) ELSE x = y
  <2>1. CASE y.kind = "group"  BY <2>1, UniverseItems DEF Members
  <2>2. CASE y.kind # "group"
    <3>1. Members(y) = <<y>>  BY <2>2 DEF Members
    <3>2. <<y>> \in ItemSeqs  BY DEF ItemSeqs
    <3>3. \A x : Occurs(x, <<y>>) <=> x = y  BY DEF Occurs
    <3> QED  BY <2>2, <3>1, <3>2, <3>3
  <2> QED  BY <2>1, <2>2
<1>4. parts \in Seq(ItemSeqs) /\ DOMAIN parts = DOMAIN s /\ \A i \in DOMAIN s : parts[i] = Members(s[i])
  <2>1. parts \in [1..Len(s) -> ItemSeqs]  BY <1>1, <1>2, <1>3
  <2>2. DOMAIN parts = DOMAIN s /\ \A i \in DOMAIN s : parts[i] = Members(s[i])  BY <1>2
  <2> HIDE DEF parts
  <2>3. parts \in Seq(ItemSeqs)  BY <1>1, <2>1
  <2> QED  BY <2>2, <2>3
<1> HIDE DEF parts
<1>5. /\ FlattenSeq(parts) \in ItemSeqs
      /\ \A x : Occurs(x, FlattenSeq(parts)) <=> \E i \in DOMAIN parts : Occurs(x, parts[i])
  BY <1>4, FlatOccurs DEF ItemSeqs
<1>6. Expand(s) = FlattenSeq(parts)  BY DEF Expand, parts
<1>7. ASSUME NEW x
      PROVE  (\E i \in DOMAIN parts : Occurs(x, parts[i]))
                <=> \E y : Occurs(y, s) /\ IF y.kind = "group" THEN Occurs(x, y.items) ELSE x = y
  <2>1. \A i \in DOMAIN s : Occurs(x, parts[i])
          <=> IF s[i].kind = "group" THEN Occurs(x, s[i].items) ELSE x = s[i]
    BY <1>1, <1>3, <1>4
  <2> DEFINE Held(y) == IF y.kind = "group" THEN Occurs(x, y.items) ELSE x = y
  <2>2. \A i \in DOMAIN s : Occurs(x, parts[i]) <=> Held(s[i])  BY <2>1
  <2> HIDE DEF Held
  <2>3. (\E i \in DOMAIN s : Held(s[i])) <=> \E y : Occurs(y, s) /\ Held(y)  BY DEF Occurs
  <2>4. (\E i \in DOMAIN parts : Occurs(x, parts[i])) <=> \E y : Occurs(y, s) /\ Held(y)
    BY <1>4, <2>2, <2>3
  <2> QED  BY <2>4 DEF Held
<1> QED  BY <1>5, <1>6, <1>7

(* g has the items when so many levels are flattened.                      *)
LevelBy(g, items) ==
    /\ g[0] = items
    /\ \A n \in 0..MaxNesting : g[n] \in ItemSeqs
    /\ \A n \in 1..MaxNesting : g[n] = Expand(g[n - 1])
    /\ Flattened(items) = Picked(g[MaxNesting],
            {i \in DOMAIN g[MaxNesting] : g[MaxNesting][i].kind \in {"text", "source"}})

(* The recursive function of Flattened goes down level by level.           *)
LEMMA LevelUnrolls ==
    ASSUME NEW items \in ItemSeqs
    PROVE  \E g : LevelBy(g, items)
<1> DEFINE M == MaxNesting
           A == ItemSeqs
           step == [n \in 1..M |-> [s \in A |-> Expand(s)]]
           Whole(f) == f = [n \in 0..M |-> IF n = 0 THEN items ELSE Expand(f[n - 1])]
           Def(f) == f = [n \in 0..M |-> IF n = 0 THEN items ELSE FlattenSeq(Mapped(Members, f[n - 1]))]
           level == CHOOSE f : Def(f)
           flat == level[M]
<1>1. M \in Nat /\ items \in A  BY EvidenceAssumption
<1>2. Flattened(items) = Picked(flat, {i \in DOMAIN flat : flat[i].kind \in {"text", "source"}})
  BY DEF Flattened
<1>3. \A f : Def(f) <=> Whole(f)  BY DEF Expand
<1>4. \A s \in A : Expand(s) \in A  BY Expanded
<1> HIDE DEF Def, M, A
<1>5. step \in Steps(M, A) /\ \A n \in 1..M, s \in A : step[n][s] = Expand(s)  BY <1>4 DEF Steps
<1> HIDE DEF step
<1>6. PICK f : Unrolls(f, A, items, M, step)  BY <1>1, <1>5, Recursion
<1>7. f \in [0..M -> A] /\ f[0] = items /\ \A n \in 1..M : f[n] = Expand(f[n - 1])
  <2>1. \A n \in 1..M : n - 1 \in 0..M  BY <1>1
  <2> QED  BY <1>5, <1>6, <2>1 DEF Unrolls
<1>8. Whole(f)
  <2>1. \A n \in 0..M : n # 0 => n \in 1..M  BY <1>1
  <2>2. \A n \in 0..M : f[n] = IF n = 0 THEN items ELSE Expand(f[n - 1])  BY <1>7, <2>1
  <2> QED  BY <1>7, <2>2
<1>9. Whole(level)
  <2> HIDE DEF Whole
  <2>1. Def(level)  BY <1>3, <1>8
  <2> QED  BY <1>3, <2>1
<1> HIDE DEF level
<1>10. \A n \in 0..M : level[n] = f[n]
  <2> DEFINE T == {n \in 0..M : level[n] = f[n]}
  <2>1. \A n \in 0..M : level[n] = IF n = 0 THEN items ELSE Expand(level[n - 1])  BY <1>9
  <2>2. 0 \in T  BY <1>1, <1>7, <2>1
  <2>3. ASSUME NEW n \in 1..M, n - 1 \in T PROVE n \in T
    <3>1. n \in 0..M /\ n # 0  BY <1>1
    <3> QED  BY <1>7, <2>1, <2>3, <3>1
  <2> HIDE DEF T
  <2>4. \A n \in 0..M : n \in T  BY <1>1, <2>2, <2>3, Induction
  <2> QED  BY <2>4 DEF T
<1>11. 0 \in 0..M /\ M \in 0..M /\ \A n \in 1..M : n \in 0..M /\ n - 1 \in 0..M  BY <1>1
<1>12. LevelBy(level, items)
  <2>1. level[0] = items  BY <1>7, <1>10, <1>11
  <2>2. \A n \in 0..M : level[n] \in A  BY <1>7, <1>10
  <2>3. \A n \in 1..M : level[n] = Expand(level[n - 1])  BY <1>7, <1>10, <1>11
  <2> QED  BY <1>2, <2>1, <2>2, <2>3 DEF LevelBy, M, A
<1> QED  BY <1>12

(* _flatten_source_items finds the texts and the sources among the         *)
(* outermost items, however deep, and nothing else.                        *)
LEMMA Leaves ==
    ASSUME NEW items \in ItemSeqs
    PROVE  /\ Outermost(ToSet(items)) \subseteq Universe
           /\ Flattened(items) \in ItemSeqs
           /\ \A x : Occurs(x, Flattened(items)) <=>
                 x \in Outermost(ToSet(items)) /\ x.kind \in {"text", "source"}
<1> DEFINE M == MaxNesting
           S == ToSet(items)
<1>1. M \in Nat  BY EvidenceAssumption
<1>2. PICK f : NestedBy(f, S, {"group"})  BY NestedUnrolls
<1>3. PICK g : LevelBy(g, items)  BY LevelUnrolls
<1>4. f[0] = S /\ (\A n \in 1..M : f[n] = Outer(f[n - 1], {"group"})) /\ Outermost(S) = f[M]
  BY <1>2 DEF NestedBy, Outermost
<1> DEFINE last == g[M]
           P == {i \in DOMAIN last : last[i].kind \in {"text", "source"}}
<1>5. g[0] = items /\ (\A n \in 0..M : g[n] \in ItemSeqs) /\ (\A n \in 1..M : g[n] = Expand(g[n - 1]))
        /\ Flattened(items) = Picked(last, P)
  BY <1>3 DEF LevelBy
<1>6. S \subseteq Universe /\ \A x : Occurs(x, items) <=> x \in S
  <2>1. \A x : Occurs(x, items) <=> x \in S  BY ItemSeq
  <2>2. \A i \in DOMAIN items : items[i] \in Universe  BY ItemSeq
  <2> HIDE DEF S
  <2>3. \A x \in S : x \in Universe  BY <2>1, <2>2 DEF Occurs
  <2> QED  BY <2>1, <2>3
<1> HIDE DEF M, S
<1>7. \A n \in 1..M : n \in 0..M /\ n - 1 \in 0..M  BY <1>1
<1>8. \A n \in 1..M : \A x : Occurs(x, g[n]) <=>
         \E y : Occurs(y, g[n - 1]) /\ IF y.kind = "group" THEN Occurs(x, y.items) ELSE x = y
  BY <1>5, <1>7, Expanded
<1>9. \A T \in SUBSET Universe : Outer(T, {"group"}) \in SUBSET Universe
  <2> TAKE T \in SUBSET Universe
  <2>1. \A item \in T : ToSet(item.items) \subseteq Universe
    <3> TAKE item \in T
    <3>1. item.items \in ItemSeqs  BY UniverseItems
    <3>2. \A i \in DOMAIN item.items : item.items[i] \in Universe  BY <3>1, ItemSeq
    <3> QED  BY <3>2 DEF ToSet
  <2> QED  BY <2>1 DEF Outer
<1> DEFINE A == {n \in 0..M : f[n] \in SUBSET Universe /\ \A x : Occurs(x, g[n]) => x \in f[n]}
<1>10. \A n \in 0..M : n \in A
  <2>1. 0 \in A  BY <1>1, <1>4, <1>5, <1>6
  <2>2. ASSUME NEW n \in 1..M, n - 1 \in A PROVE n \in A
    <3>1. f[n - 1] \in SUBSET Universe /\ \A x : Occurs(x, g[n - 1]) => x \in f[n - 1]  BY <2>2
    <3>2. f[n] = Outer(f[n - 1], {"group"}) /\ f[n] \in SUBSET Universe  BY <1>4, <1>9, <3>1
    <3>3. ASSUME NEW x, Occurs(x, g[n]) PROVE x \in f[n]
      <4>1. PICK y : Occurs(y, g[n - 1]) /\ IF y.kind = "group" THEN Occurs(x, y.items) ELSE x = y
        BY <1>8, <3>3
      <4>2. y \in f[n - 1] /\ y \in Universe  BY <3>1, <4>1
      <4>3. CASE y.kind = "group"
        <5>1. x \in ToSet(y.items)  BY <4>1, <4>2, <4>3, UniverseItems, ItemSeq
        <5> QED  BY <3>2, <4>2, <4>3, <5>1 DEF Outer
      <4>4. CASE y.kind # "group"  BY <3>2, <4>1, <4>2, <4>4 DEF Outer
      <4> QED  BY <4>3, <4>4
    <3> QED  BY <1>7, <3>2, <3>3
  <2> HIDE DEF A
  <2> QED  BY <1>1, <2>1, <2>2, Induction
<1> DEFINE Seen(x, n) == \E m \in 0..n : Occurs(x, g[m])
           B == {n \in 0..M : \A x \in f[n] : Seen(x, n)}
<1>11. \A n \in 0..M : n \in B
  <2>1. 0 \in B
    <3>1. 0 \in 0..M /\ 0 \in 0..0  BY <1>1
    <3> QED  BY <1>4, <1>5, <1>6, <3>1
  <2>2. ASSUME NEW n \in 1..M, n - 1 \in B PROVE n \in B
    <3>1. \A x \in f[n - 1] : Seen(x, n - 1)  BY <2>2
    <3>2. n \in 0..M /\ n - 1 \in 0..M /\ n \in Nat /\ \A m \in 0..(n - 1) :
              m \in 0..n /\ m + 1 \in 0..n /\ m + 1 \in 1..M /\ (m + 1) - 1 = m
      BY <1>1
    <3>3. ASSUME NEW x \in f[n] PROVE Seen(x, n)
      <4>1. CASE x \in f[n - 1]  BY <3>1, <3>2, <4>1
      <4>2. CASE x \notin f[n - 1]
        <5>1. PICK y \in f[n - 1] : y.kind = "group" /\ x \in ToSet(y.items)
          BY <1>4, <3>3, <4>2 DEF Outer
        <5>2. y \in Universe  BY <1>10, <3>2
        <5>3. Occurs(x, y.items)  BY <5>1, <5>2, UniverseItems, ItemSeq
        <5>4. PICK m \in 0..(n - 1) : Occurs(y, g[m])  BY <3>1, <5>1
        <5>5. Occurs(x, g[m + 1])  BY <1>8, <3>2, <5>1, <5>3, <5>4
        <5> QED  BY <3>2, <5>5
      <4> QED  BY <4>1, <4>2
    <3> HIDE DEF Seen
    <3> QED  BY <3>2, <3>3
  <2> HIDE DEF B
  <2> QED  BY <1>1, <2>1, <2>2, Induction
<1>12. ASSUME NEW x, x.kind # "group", NEW m \in 0..M, Occurs(x, g[m])
       PROVE  Occurs(x, g[M])
  <2> DEFINE K == {n \in 0..M : m <= n => Occurs(x, g[n])}
  <2>1. 0 \in K
    <3>1. m <= 0 => m = 0  BY <1>1
    <3>2. 0 \in 0..M  BY <1>1
    <3> QED  BY <1>12, <3>1, <3>2
  <2>2. ASSUME NEW n \in 1..M, n - 1 \in K PROVE n \in K
    <3>1. n \in 0..M  BY <1>7
    <3>2. CASE n = m  BY <1>12, <3>1, <3>2
    <3>3. CASE n # m
      <4>1. m <= n => m <= n - 1  BY <1>1, <3>1, <3>3
      <4>2. m <= n => Occurs(x, g[n - 1])  BY <2>2, <4>1
      <4>3. Occurs(x, g[n - 1]) => Occurs(x, g[n])  BY <1>8, <1>12
      <4> QED  BY <3>1, <4>2, <4>3
    <3> QED  BY <3>2, <3>3
  <2>3. M \in 0..M /\ m <= M  BY <1>1
  <2> HIDE DEF K
  <2>4. M \in K  BY <1>1, <2>1, <2>2, <2>3, Induction
  <2> QED  BY <2>3, <2>4 DEF K
<1>13. M \in 0..M  BY <1>1
<1>14. \A x : x.kind # "group" => (x \in f[M] <=> Occurs(x, g[M]))
  <2> TAKE x
  <2>1. Occurs(x, g[M]) => x \in f[M]  BY <1>10, <1>13
  <2>2. x \in f[M] => Seen(x, M)  BY <1>11, <1>13
  <2>3. x.kind # "group" /\ Seen(x, M) => Occurs(x, g[M])  BY <1>12
  <2> QED  BY <2>1, <2>2, <2>3
<1>15. Outermost(S) \subseteq Universe  BY <1>4, <1>10, <1>13
<1>16. last \in ItemSeqs  BY <1>5, <1>13 DEF M
<1> DEFINE D == {x \in Universe : x.kind \in {"text", "source"}}
<1>17. \A i \in DOMAIN last : i \in P <=> last[i] \in D
  <2>1. \A i \in DOMAIN last : last[i] \in Universe  BY <1>16, ItemSeq
  <2> HIDE DEF last
  <2> QED  BY <2>1
<1>18. Picked(last, P) \in ItemSeqs /\ \A x : Occurs(x, Picked(last, P)) <=> Occurs(x, last) /\ x \in D
  <2> HIDE DEF last, P, D
  <2> QED  BY <1>16, <1>17, PickedSeq, PickedOccur DEF ItemSeqs
<1> HIDE DEF P
<1>19. ASSUME NEW x 
       PROVE  Occurs(x, last) /\ x \in D <=> x \in Outermost(S) /\ x.kind \in {"text", "source"}
  <2>1. x.kind \in {"text", "source"} => x.kind # "group"  OBVIOUS
  <2>2. last = g[M]  BY DEF M
  <2> HIDE DEF last
  <2> QED  BY <1>4, <1>14, <1>15, <2>1, <2>2
<1> HIDE DEF last, D
<1> QED  BY <1>5, <1>15, <1>18, <1>19 DEF S

----------------------------------------------------------------------------
(* Sources.                                                                *)

Ids == SourceIds \cup {Blank, None, "rag-query"}
Chunks == {item.chunk : item \in Universe} \cup {None}
Sources == [id : Ids, chunk : Chunks]
Fallbacks == SourceIds \cup {Blank, None}

(* What is made of an item is a source.                                    *)
LEMMA SourceTyped ==
    ASSUME NEW item \in Universe, item.kind \in {"text", "source"}, NEW fallback \in Fallbacks
    PROVE  SourceOf(item, fallback) \in Sources
<1>1. item.id \in Ids  BY ItemsAssumption DEF Universe, Ids
<1>2. item.chunk \in Chunks  BY DEF Chunks
<1>3. fallback \in Ids  BY DEF Fallbacks, Ids
<1> QED  BY <1>1, <1>2, <1>3 DEF SourceOf, Sources

(* Sources with the same key are the same.                                 *)
LEMMA SourceKeyInjective ==
    \A s, t \in Sources : SourceKey(s) = SourceKey(t) => s = t
BY DEF SourceKey, Sources

(* Deduplicated by their keys, no source is lost.                          *)
LEMMA SourcesDeduped ==
    ASSUME NEW s \in Seq(Sources)
    PROVE  \A x : Occurs(x, Picked(s, FirstOccurrences(Mapped(SourceKey, s)))) <=> Occurs(x, s)
<1> DEFINE keys == Mapped(SourceKey, s)
           none == {}
<1>1. DOMAIN s = 1..Len(s) /\ Len(s) \in Nat /\ \A i \in DOMAIN s : s[i] \in Sources  OBVIOUS
<1>2. DOMAIN keys = DOMAIN s /\ \A i \in DOMAIN s : keys[i] = SourceKey(s[i])  BY DEF Mapped
<1> HIDE DEF keys
<1>3. ASSUME NEW i \in DOMAIN s, NEW k \in 1..(i - 1) PROVE keys[k] # keys[i] <=> s[k] # s[i]
  <2>1. k \in DOMAIN s  BY <1>1
  <2> QED  BY <1>1, <1>2, <2>1, SourceKeyInjective
<1>4. FirstOccurrences(keys) = {i \in FirstOccurrences(s) : s[i] \notin none}
  <2>1. ASSUME NEW i \in DOMAIN s
        PROVE  (\A k \in 1..(i - 1) : keys[k] # keys[i]) <=> \A k \in 1..(i - 1) : s[k] # s[i]
    BY <1>3
  <2> QED  BY <1>2, <2>1 DEF FirstOccurrences
<1>5. Picked(s, FirstOccurrences(keys)) = Firsts(s, none)  BY <1>4 DEF Firsts
<1>6. \A x : Occurs(x, Firsts(s, none)) <=> Occurs(x, s)
  <2>1. \A x : Occurs(x, Firsts(s, none)) <=> Occurs(x, s) /\ x \notin none
    <3> HIDE DEF none
    <3> QED  BY FirstsOccur
  <2> QED  BY <2>1
<1> QED  BY <1>5, <1>6 DEF keys

(* Of any items, and for any document the request is about, no provenance  *)
(* is lost or made up.                                                     *)
LEMMA Provenance == offered \in ItemSeqs => ProvenanceKept
<1> SUFFICES ASSUME offered \in ItemSeqs, NEW fallback \in Fallbacks
             PROVE  LET sources == ToSet(ExtractSources(offered, fallback))
                        outermost == Outermost(ToSet(offered))
                        chunks == {item \in AllItems(ToSet(offered)) : item.kind = "source"}
                    IN  /\ sources # {}
                        /\ \A item \in outermost \cap chunks : item.id \in SourceIds =>
                              [id |-> item.id, chunk |-> item.chunk] \in sources
                        /\ \A source \in sources : source.chunk # None =>
                              \E item \in chunks :
                                  /\ item.chunk = source.chunk
                                  /\ \/ source.id = item.id /\ item.id \in SourceIds
                                     \/ /\ source.id = fallback
                                        /\ item.id \notin SourceIds /\ item \in outermost
                        /\ "rag-query" \in {source.id : source \in sources} =>
                              \A item \in outermost : item.kind # "text" /\ item.id \notin SourceIds
  BY DEF ProvenanceKept, Fallbacks
<1> DEFINE all == Outermost(ToSet(offered))
           flat == Flattened(offered)
           candidates == [i \in DOMAIN flat |-> SourceOf(flat[i], fallback)]
           P == {i \in DOMAIN candidates : candidates[i].id # None}
           found == Picked(candidates, P)
           whole == [id |-> IF fallback \in {Blank, None} THEN "rag-query" ELSE fallback,
                     chunk |-> None]
           chosen == IF found = << >> THEN <<whole>> ELSE found
           result == ExtractSources(offered, fallback)
<1>1. /\ all \subseteq Universe
      /\ flat \in ItemSeqs
      /\ \A x : Occurs(x, flat) <=> x \in all /\ x.kind \in {"text", "source"}
  BY Leaves
<1>2. result = Picked(chosen, FirstOccurrences(Mapped(SourceKey, chosen)))  BY DEF ExtractSources
<1> HIDE DEF all, flat, result
<1>3. Len(flat) \in Nat /\ DOMAIN flat = 1..Len(flat)
        /\ \A i \in DOMAIN flat : flat[i] \in Universe /\ flat[i].kind \in {"text", "source"}
  <2>1. Len(flat) \in Nat /\ DOMAIN flat = 1..Len(flat)  BY <1>1, ItemSeq
  <2>2. \A i \in DOMAIN flat : Occurs(flat[i], flat)  BY DEF Occurs
  <2> QED  BY <1>1, <2>1, <2>2
<1>4. /\ candidates \in Seq(Sources)
      /\ \A x : Occurs(x, candidates)
              <=> \E item \in all : item.kind \in {"text", "source"} /\ x = SourceOf(item, fallback)
  <2>1. candidates \in [1..Len(flat) -> Sources] /\ DOMAIN candidates = DOMAIN flat
          /\ \A i \in DOMAIN flat : candidates[i] = SourceOf(flat[i], fallback)
    BY <1>3, SourceTyped
  <2> HIDE DEF candidates
  <2>2. candidates \in Seq(Sources)  BY <1>3, <2>1
  <2>3. ASSUME NEW x PROVE Occurs(x, candidates)
          <=> \E item : Occurs(item, flat) /\ x = SourceOf(item, fallback)
    BY <2>1 DEF Occurs
  <2> QED  BY <1>1, <2>2, <2>3
<1> DEFINE D == {x \in Sources : x.id # None}
<1>5. found \in Seq(Sources) /\ \A x : Occurs(x, found) <=> Occurs(x, candidates) /\ x \in D
  <2>1. \A i \in DOMAIN candidates : candidates[i] \in Sources
    <3> HIDE DEF candidates
    <3> QED  BY <1>4
  <2> HIDE DEF candidates
  <2>2. \A i \in DOMAIN candidates : i \in P <=> candidates[i] \in D  BY <2>1
  <2> HIDE DEF P, D
  <2> QED  BY <1>4, <2>2, PickedSeq, PickedOccur
<1> HIDE DEF found
<1>6. ASSUME NEW x PROVE Occurs(x, found) <=> \E item \in all : /\ item.kind \in {"text", "source"}
                                                               /\ x = SourceOf(item, fallback)
                                                               /\ x.id # None
  <2>1. \A item \in all : item.kind \in {"text", "source"} => SourceOf(item, fallback) \in Sources
    BY <1>1, SourceTyped
  <2> HIDE DEF candidates
  <2> QED  BY <1>4, <1>5, <2>1
<1>7. whole \in Sources /\ whole.chunk = None
        /\ whole.id = IF fallback \in {Blank, None} THEN "rag-query" ELSE fallback
  BY DEF Sources, Ids, Chunks, Fallbacks
<1> HIDE DEF whole, candidates
<1>8. chosen \in Seq(Sources) /\ \A x : Occurs(x, chosen) <=> IF found = << >>
                                                          THEN x = whole ELSE Occurs(x, found)
  <2>1. <<whole>> \in Seq(Sources) /\ \A x : Occurs(x, <<whole>>) <=> x = whole  BY <1>7 DEF Occurs
  <2> QED  BY <1>5, <2>1
<1> HIDE DEF chosen
<1>9. found = << >> <=> \A x : ~Occurs(x, found)
  <2>1. found # << >> => 1 \in DOMAIN found  BY <1>5
  <2>2. found # << >> => Occurs(found[1], found)  BY <2>1 DEF Occurs
  <2>3. \A x : ~Occurs(x, << >>)  BY DEF Occurs
  <2> QED  BY <2>2, <2>3
<1> DEFINE sources == ToSet(result)
<1>10. ASSUME NEW x PROVE x \in sources <=> IF found = << >> THEN x = whole ELSE Occurs(x, found)
  <2>1. x \in sources <=> Occurs(x, result)  BY DEF ToSet, Occurs
  <2> HIDE DEF sources
  <2> QED  BY <1>2, <1>8, <2>1, SourcesDeduped
<1> HIDE DEF sources
<1> DEFINE chunks == {item \in AllItems(ToSet(offered)) : item.kind = "source"}
<1>11. \A item \in all :
          /\ item.kind = "text" => item.id \in SourceIds \cup {Blank} /\ item.chunk = None
          /\ item.kind = "source" => item.id \in SourceIds \cup {Blank, None}
          /\ item.kind \notin {"text", "source"} => item.id = None
  BY <1>1, ItemsAssumption DEF Universe
<1>12. Blank # None /\ Blank \notin SourceIds /\ None \notin SourceIds
        /\ "rag-query" \notin SourceIds \cup {Blank, None}
  BY EvidenceAssumption, ItemsAssumption
<1>13. sources # {}
  <2>1. CASE found = << >>  BY <1>10, <2>1
  <2>2. CASE found # << >>  BY <1>9, <1>10, <2>2
  <2> QED  BY <2>1, <2>2
<1>14. ASSUME NEW item \in all, item.kind = "source", item.id \in SourceIds
       PROVE  [id |-> item.id, chunk |-> item.chunk] \in sources
  <2> DEFINE x == SourceOf(item, fallback)
  <2>1. x = [id |-> item.id, chunk |-> item.chunk] /\ x.id # None  BY <1>12, <1>14 DEF SourceOf
  <2>2. Occurs(x, found)
    <3> HIDE DEF x
    <3>1. x = SourceOf(item, fallback)  BY DEF x
    <3> QED  BY <1>6, <1>14, <2>1, <3>1
  <2> HIDE DEF x
  <2> QED  BY <1>9, <1>10, <2>1, <2>2
<1>15. ASSUME NEW source \in sources, source.chunk # None
       PROVE  \E item \in chunks : /\ item.chunk = source.chunk
                                   /\ \/ source.id = item.id /\ item.id \in SourceIds
                                      \/ source.id = fallback /\ item.id \notin SourceIds /\ item \in all
  <2>1. Occurs(source, found)  BY <1>7, <1>10, <1>15
  <2>2. PICK item \in all : item.kind \in {"text", "source"} /\ source = SourceOf(item, fallback)
    BY <1>6, <2>1
  <2>3. source.chunk = item.chunk  BY <2>2 DEF SourceOf
  <2>4. item.kind = "source" /\ item.id \in SourceIds \cup {Blank, None}  BY <1>11, <1>15, <2>2, <2>3
  <2>5. source.id = IF item.id \in SourceIds THEN item.id ELSE fallback
    BY <1>12, <2>2, <2>4 DEF SourceOf
  <2>6. item \in chunks  BY <2>4, InAllItems DEF all
  <2> HIDE DEF chunks
  <2> QED  BY <2>3, <2>5, <2>6
<1>16. ASSUME NEW source \in sources, source.id = "rag-query", NEW item \in all
       PROVE  item.kind # "text" /\ item.id \notin SourceIds
  <2>1. \A x : Occurs(x, found) => x.id \in Fallbacks
    <3> SUFFICES ASSUME NEW x, Occurs(x, found) PROVE x.id \in Fallbacks  OBVIOUS
    <3>1. PICK other \in all : other.kind \in {"text", "source"} /\ x = SourceOf(other, fallback)
      BY <1>6
    <3>2. x.id \in {other.id, fallback}  BY <3>1 DEF SourceOf
    <3> QED  BY <1>11, <3>1, <3>2 DEF Fallbacks
  <2>2. found = << >> /\ source = whole  BY <1>10, <1>12, <1>16, <2>1 DEF Fallbacks
  <2>3. fallback \in {Blank, None}  BY <1>7, <1>12, <1>16, <2>2 DEF Fallbacks
  <2>4. \A other \in all : other.kind \in {"text", "source"} => SourceOf(other, fallback).id = None
    BY <1>6, <1>9, <2>2
  <2>5. item.kind # "text"
    <3> SUFFICES ASSUME item.kind = "text" PROVE FALSE  OBVIOUS
    <3>1. SourceOf(item, fallback).id = IF fallback # None THEN fallback ELSE item.id  BY DEF SourceOf
    <3>2. item.id # None  BY <1>11, <1>12
    <3> QED  BY <2>3, <2>4, <3>1, <3>2
  <2>6. item.id \notin SourceIds
    <3> SUFFICES ASSUME item.id \in SourceIds PROVE FALSE  OBVIOUS
    <3>1. item.kind = "source"  BY <1>11, <1>12, <2>5
    <3>2. SourceOf(item, fallback).id = item.id  BY <1>12, <3>1 DEF SourceOf
    <3> QED  BY <1>12, <2>4, <3>1, <3>2
  <2> QED  BY <2>5, <2>6
<1>17. sources = ToSet(ExtractSources(offered, fallback)) /\ all = Outermost(ToSet(offered))
  BY DEF sources, result, all
<1>18. \A item \in chunks : item.kind = "source"  OBVIOUS
<1> HIDE DEF chunks
<1> QED  BY <1>13, <1>14, <1>15, <1>16, <1>17, <1>18 DEF chunks

----------------------------------------------------------------------------
(* The properties of WikiEvidence.                                         *)

(* The evidence is texts of the alphabet and items of the metadata.        *)
LEMMA EvidenceTyped == ESpec => [](TypedTexts /\ offered \in ItemSeqs)
<1> DEFINE Inv == TypedTexts /\ offered \in ItemSeqs
<1>1. EInit => Inv
  <2>1. << >> \in ItemSeqs  BY DEF ItemSeqs
  <2> QED  BY <2>1, TextsTyped DEF EInit
<1>2. Inv /\ [ENext]_evars => Inv'
  <2> SUFFICES ASSUME Inv, [ENext]_evars PROVE Inv'  OBVIOUS
  <2>1. [Next]_vars  BY DEF ENext, evars, Offer
  <2>2. TypedTexts'  BY <2>1, TextsTyped
  <2>3. offered' \in ItemSeqs
    <3>1. CASE offered' = offered  BY <3>1
    <3>2. ASSUME NEW item \in Items, Offer(item) PROVE offered' \in ItemSeqs
      <4>1. item \in Universe  BY UniverseItems
      <4>2. offered' = Append(offered, item)  BY <3>2 DEF Offer
      <4> QED  BY <4>1, <4>2 DEF ItemSeqs
    <3> QED  BY <3>1, <3>2 DEF ENext, evars
  <2> QED  BY <2>2, <2>3
<1> QED  BY <1>1, <1>2, PTL DEF ESpec

(* The claims a page shows are the claims that are stored, one by one and  *)
(* within MAX_CLAIMS_PER_PAGE, whatever the metadata holds as claims and   *)
(* whatever the answer is (_extract_claim_texts, _bullet_lines).           *)
THEOREM ShownClaimsStored == ESpec => []ShownClaimsAreStored
BY EvidenceTyped, ClaimsStored, PTL

(* The links of a compiled page are read back as the related pages that    *)
(* were chosen, each once, in order, not the page itself and within        *)
(* MAX_RELATED_PAGES, whatever titles the metadata holds                   *)
(* (_extract_related_pages, _wikilink, extract_wikilinks).                 *)
THEOREM RelatedPagesLinked == ESpec => []RelatedPagesAreLinked
BY EvidenceTyped, PagesLinked, PTL

(* Every claim has a source, every outermost source of the metadata is     *)
(* cited with its document and no chunk with another one, and "rag-query"  *)
(* is only cited when no outermost item names a document, whatever the     *)
(* metadata holds, sources nested in sources among it, however deep        *)
(* (_extract_sources, _flatten_source_items, _evidence_source_from_item).  *)
THEOREM ClaimProvenanceKept == ESpec => []ProvenanceKept
BY EvidenceTyped, Provenance, PTL

=============================================================================
